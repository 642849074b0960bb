---------------------------- MODULE Registration ----------------------------
(***************************************************************************)
(* A machine's identity and its token: MachineID of internal/localdb,      *)
(* "configure" and the start of the agent in apps/agent, the registration  *)
(* client, the register handler over RegisterMachine, AuthenticateMachine, *)
(* and the configuration file.                                             *)
(*                                                                         *)
(* Every process asks the database for the machine id, and the first ones  *)
(* may do so together.  Registering makes a new token, the old one is gone *)
(* at once; the new one reaches the configuration file only if the answer  *)
(* arrives and the file is written.  Attempt n of configure is a process   *)
(* of its own, and n names the token the server makes for it.  A process   *)
(* that gives up leaves its request behind.                                *)
(***************************************************************************)
EXTENDS Integers

CONSTANTS
    Attempts,   \* runs of configure
    Clients,    \* agents, hooks and commands, which use the configuration
    NoToken,    \* no token, no machine id
    MaxStarts   \* bound: starts of a client

ASSUME RegistrationAssumption ==
    /\ Attempts \cap Clients = {}
    /\ NoToken \notin Attempts \cup Clients
    /\ MaxStarts \in Nat

Processes == Attempts \cup Clients

VARIABLES
    machineID,  \* metadata machine_id; an id is named after the process that made it
    config,     \* machine_token in the configuration file
    serverToken,\* serverToken[id]: the row of machines, by its token
    request,    \* request[n]: none, sent, served
    process,    \* process[p]: phase, the machine id and the token it holds
    starts,     \* starts of clients so far
    overlapped  \* history: attempts that were registering while another was

vars == <<machineID, config, serverToken, request, process, starts, overlapped>>

Off == [phase |-> "off", id |-> NoToken, token |-> NoToken]

Init ==
    /\ machineID = NoToken
    /\ config = NoToken
    /\ serverToken = [id \in Processes |-> NoToken]
    /\ request = [n \in Attempts |-> "none"]
    /\ process = [p \in Processes |-> Off]
    /\ starts = 0
    /\ overlapped = {}

\* A client may start again.
Exit(p) == IF p \in Clients THEN Off ELSE [process[p] EXCEPT !.phase = "ended"]

-----------------------------------------------------------------------------
\* Load and MachineID.

\* The configuration is read, then the id is looked up.  (The attempts of
\* configure, like the clients, start with what the file says.)
Start(p) ==
    /\ process[p].phase = "off"
    /\ p \in Clients => starts < MaxStarts
    /\ starts' = IF p \in Clients THEN starts + 1 ELSE starts
    /\ process' = [process EXCEPT ![p] = [phase |-> "loaded", id |-> NoToken, token |-> config]]
    /\ UNCHANGED <<machineID, config, serverToken, request, overlapped>>

SelectMachineID(p) ==
    /\ process[p].phase = "loaded"
    /\ process' = [process EXCEPT ![p].phase = IF machineID = NoToken THEN "inserting" ELSE "ready",
                                  ![p].id = machineID]
    /\ UNCHANGED <<machineID, config, serverToken, request, starts, overlapped>>

\* Fault: another process's id is not noticed.
InsertMachineID_Ignore(p) ==
    /\ process[p].phase = "inserting"
    /\ machineID' = IF machineID = NoToken THEN p ELSE machineID
    /\ process' = [process EXCEPT ![p].phase = "ready", ![p].id = p]
    /\ UNCHANGED <<config, serverToken, request, starts, overlapped>>

\* The INSERT fails if another process was faster, and so does its caller.
InsertMachineID(p) ==
    /\ process[p].phase = "inserting"
    /\ IF machineID = NoToken
       THEN /\ machineID' = p
            /\ process' = [process EXCEPT ![p].phase = "ready", ![p].id = p]
       ELSE /\ process' = [process EXCEPT ![p] = Exit(p)]
            /\ UNCHANGED machineID
    /\ UNCHANGED <<config, serverToken, request, starts, overlapped>>

-----------------------------------------------------------------------------
\* configure.

Registering(n) == process[n].phase \in {"registering", "registered"}

SendRegister(n) ==
    LET others == {m \in Attempts : Registering(m)}
    IN  /\ process[n].phase = "ready"
        /\ process' = [process EXCEPT ![n].phase = "registering"]
        /\ request' = [request EXCEPT ![n] = "sent"]
        /\ overlapped' = IF others = {} THEN overlapped ELSE overlapped \cup others \cup {n}
        /\ UNCHANGED <<machineID, config, serverToken, starts>>

\* Fault: the machine id is stored for the token.
RegisterMachine_ID(n) ==
    /\ request[n] = "sent"
    /\ request' = [request EXCEPT ![n] = "served"]
    /\ serverToken' = [serverToken EXCEPT ![process[n].id] = process[n].id]
    /\ UNCHANGED <<machineID, config, process, starts, overlapped>>

\* The register handler: the machine's row gets the new token's hash, whether or
\* not the client still waits.
RegisterMachine(n) ==
    /\ request[n] = "sent"
    /\ request' = [request EXCEPT ![n] = "served"]
    /\ serverToken' = [serverToken EXCEPT ![process[n].id] = n]
    /\ UNCHANGED <<machineID, config, process, starts, overlapped>>

\* Status 201 with the id that was asked for and a token.
ReceiveToken(n) ==
    /\ process[n].phase = "registering"
    /\ request[n] = "served"
    /\ process' = [process EXCEPT ![n].phase = "registered", ![n].token = n]
    /\ UNCHANGED <<machineID, config, serverToken, request, starts, overlapped>>

\* Fault: a token in the file is kept.
Save_Loaded(n) ==
    /\ process[n].phase = "registered"
    /\ config' = IF config = NoToken THEN process[n].token ELSE config
    /\ process' = [process EXCEPT ![n].phase = "configured"]
    /\ UNCHANGED <<machineID, serverToken, request, starts, overlapped>>

\* The file is replaced by a rename.
Save(n) ==
    /\ process[n].phase = "registered"
    /\ config' = process[n].token
    /\ process' = [process EXCEPT ![n].phase = "configured"]
    /\ UNCHANGED <<machineID, serverToken, request, starts, overlapped>>

-----------------------------------------------------------------------------
\* Clients synchronise with what they loaded; the agent does so for ever.

Authenticated(p) == serverToken[process[p].id] = process[p].token

Sync(p) ==
    /\ p \in Clients
    /\ process[p].phase \in {"ready", "accepted", "refused"}
    /\ process[p].token # NoToken
    /\ process' = [process EXCEPT ![p].phase = IF Authenticated(p) THEN "accepted" ELSE "refused"]
    /\ UNCHANGED <<machineID, config, serverToken, request, starts, overlapped>>

\* A process is done, fails or is killed: a configure also when the answer is
\* lost or late, or when the file cannot be written.
End(p) ==
    /\ process[p].phase \notin {"off", "ended", "configured"}
    /\ process' = [process EXCEPT ![p] = Exit(p)]
    /\ UNCHANGED <<machineID, config, serverToken, request, starts, overlapped>>

Next ==
    \/ \E p \in Processes : Start(p) \/ SelectMachineID(p) \/ InsertMachineID(p) \/ Sync(p) \/ End(p)
    \/ \E n \in Attempts : SendRegister(n) \/ RegisterMachine(n) \/ ReceiveToken(n) \/ Save(n)

Spec == Init /\ [][Next]_vars

-----------------------------------------------------------------------------
Tokens == Attempts \cup {NoToken}

Phases == {"off", "loaded", "inserting", "ready", "registering", "registered", "configured",
           "accepted", "refused", "ended"}

TypeOK ==
    /\ machineID \in Processes \cup {NoToken}
    /\ config \in Tokens
    /\ serverToken \in [Processes -> Tokens]
    /\ request \in [Attempts -> {"none", "sent", "served"}]
    /\ process \in [Processes -> [phase : Phases, id : Processes \cup {NoToken}, token : Tokens]]
    /\ starts \in 0..MaxStarts
    /\ overlapped \subseteq Attempts

(***************************************************************************)
(* However many processes are the first to need a machine id, they agree:  *)
(* a process that goes on has the id in the database, and the server knows *)
(* this machine under no other.                                            *)
(***************************************************************************)
OneIdentity ==
    /\ \A p \in Processes : process[p].id \in {NoToken, machineID}
    /\ \A id \in Processes : serverToken[id] # NoToken => id = machineID

\* The token the server expects of this machine.
Expected == IF machineID = NoToken THEN NoToken ELSE serverToken[machineID]

(***************************************************************************)
(* README.md:193 "Registers the machine / Stores its dedicated token       *)
(* locally": the token in the configuration file is the one the server     *)
(* expects, unless the configure that made the expected one has not saved  *)
(* it (not yet, or never: lost answer, failed save, request served after   *)
(* the client gave up) or ran at the same time as another.                 *)
(***************************************************************************)
InvalidTokenHasACause ==
    \/ config = Expected
    \/ process[Expected].phase # "configured"
    \/ Expected \in overlapped
=============================================================================
