------------------------- MODULE MCProjectorArrival -------------------------
(***************************************************************************)
(* A log with what makes order matter: a session whose clock goes back, a  *)
(* token count before and after a start, a superseded run corrected later, *)
(* two events of one sequence number (two machines), an event with no id.  *)
(***************************************************************************)
EXTENDS ProjectorArrival

CONSTANTS r1, r2, r3

Ev(id, session, run, seq, at, kind, tokens) ==
    [id |-> id, session |-> session, run |-> run, seq |-> seq, at |-> at, kind |-> kind,
     tokens |-> tokens]

MCLog ==
    {Ev(1, 1, r1, 1, 2, "run_started", 0),
     Ev(2, 1, NoRun, 2, 3, "token_usage", 5),
     Ev(3, 1, r2, 3, 1, "prompt_submitted", 0),
     Ev(4, 1, r1, 4, 6, "run_completed", 0),
     Ev(5, 2, r3, 1, 4, "run_started", 0),
     Ev(6, 2, NoRun, 1, 5, "token_usage", 7),
     Ev(7, 2, NoRun, 2, 9, "session_closed", 0),
     Ev(NoId, 1, NoRun, 3, 4, "lease", 0)}
=============================================================================
