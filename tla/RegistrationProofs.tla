------------------------- MODULE RegistrationProofs -------------------------
(***************************************************************************)
(* A machine has one identity, and a token the server refuses has a cause, *)
(* for any number of processes, attempts and restarts.                     *)
(***************************************************************************)
EXTENDS Registration, TLAPS

\* A process has an id as soon as it goes on, and a request carries it.
ProcessesAreIdentified ==
    /\ \A p \in Processes :
          process[p].phase \in {"ready", "registering", "registered", "configured", "accepted", "refused"}
              => process[p].id # NoToken
    /\ \A n \in Attempts : request[n] # "none" => process[n].id # NoToken

\* How far a configure has come, and how far its request.
RequestsFollowAttempts ==
    \A n \in Attempts :
        /\ request[n] = "sent" => process[n].phase \in {"registering", "ended"}
        /\ request[n] = "served" =>
              /\ process[n].phase \in {"registering", "registered", "configured", "ended"}
              /\ Expected # NoToken
        /\ process[n].phase \in {"registered", "configured"} => request[n] = "served"
        /\ process[n].phase = "registered" => process[n].token = n

\* Attempts that register at the same time are noted.
OverlapsAreNoted ==
    \A m, n \in Attempts :
        m # n /\ Registering(m) /\ Registering(n) => m \in overlapped /\ n \in overlapped

\* An attempt whose token is superseded may still save it only if the one that
\* superseded it ran at the same time or has given up.
SupersededSaversOverlap ==
    \A n \in Attempts :
        request[n] = "served" /\ Registering(n) /\ n # Expected
            => Expected \in overlapped \/ process[Expected].phase = "ended"

\* A saved token was made by the server.
SavedTokensWereMade == config # NoToken => Expected # NoToken

IndInv ==
    /\ TypeOK /\ OneIdentity /\ ProcessesAreIdentified /\ RequestsFollowAttempts
    /\ OverlapsAreNoted /\ SupersededSaversOverlap /\ SavedTokensWereMade
    /\ InvalidTokenHasACause

Process == [phase : Phases, id : Processes \cup {NoToken}, token : Tokens]

-----------------------------------------------------------------------------
LEMMA IndInvInit ==
    ASSUME Init PROVE IndInv
<1> USE DEF Init
<1>1. Off \in Process /\ Off.phase = "off" /\ Off.id = NoToken
  BY DEF Off, Process, Phases, Tokens
<1>2. \A p \in Processes : process[p] = Off /\ serverToken[p] = NoToken
  OBVIOUS
<1>3. \A n \in Attempts : n \in Processes /\ request[n] = "none"
  BY DEF Processes
<1>4. TypeOK
  BY <1>1, RegistrationAssumption DEF TypeOK, Tokens, Process
<1>5. OneIdentity /\ ProcessesAreIdentified
  BY <1>1, <1>2, <1>3 DEF OneIdentity, ProcessesAreIdentified
<1>6. RequestsFollowAttempts /\ OverlapsAreNoted /\ SupersededSaversOverlap
  BY <1>1, <1>2, <1>3
     DEF RequestsFollowAttempts, OverlapsAreNoted, SupersededSaversOverlap, Registering
<1>7. SavedTokensWereMade /\ InvalidTokenHasACause
  BY DEF SavedTokensWereMade, InvalidTokenHasACause, Expected
<1> QED
  BY <1>4, <1>5, <1>6, <1>7 DEF IndInv

\* The token the server expects is one of an attempt, or none.
LEMMA ExpectedType ==
    ASSUME TypeOK
    PROVE  /\ Expected \in Tokens /\ NoToken \notin Processes /\ Attempts \subseteq Processes
           /\ Expected # NoToken => Expected \in Attempts /\ Expected \in Processes
BY RegistrationAssumption DEF TypeOK, Expected, Tokens, Processes

\* A step in which nothing but process p changes, which neither saves a token
\* nor begins to register.
LEMMA ProcessStep ==
    ASSUME IndInv, NEW p \in Processes, NEW h \in Process,
           process' = [process EXCEPT ![p] = h],
           UNCHANGED <<machineID, config, serverToken, request, overlapped>>,
           starts' \in 0..MaxStarts,
           h.id \in {NoToken, machineID},
           h.phase \in {"ready", "registering", "registered", "configured", "accepted", "refused"}
               => h.id # NoToken,
           p \in Attempts =>
               /\ process[p].phase # "ended" /\ h.phase # "configured"
               /\ request[p] # "none" => h.id # NoToken
               /\ request[p] = "sent" => h.phase \in {"registering", "ended"}
               /\ request[p] = "served" => h.phase \in {"registering", "registered", "ended"}
               /\ h.phase = "registered" => request[p] = "served" /\ h.token = p
               /\ h.phase \in {"registering", "registered"} => Registering(p)
    PROVE  IndInv'
<1> USE DEF IndInv
<1>1. /\ process \in [Processes -> Process] /\ process' \in [Processes -> Process]
      /\ process'[p] = h /\ \A q \in Processes \ {p} : process'[q] = process[q]
  BY DEF TypeOK, Process
<1>2. Expected' = Expected
  BY DEF Expected
<1>3. TypeOK'
  BY <1>1 DEF TypeOK, Process
<1>4. /\ NoToken \notin Processes /\ \A n \in Attempts : n \in Processes
      /\ Expected # NoToken => Expected \in Attempts /\ Expected \in Processes
  BY ExpectedType
<1>5. OneIdentity' /\ ProcessesAreIdentified'
  BY <1>1, <1>4 DEF OneIdentity, ProcessesAreIdentified
<1>6. RequestsFollowAttempts'
  BY <1>1, <1>2, <1>4 DEF RequestsFollowAttempts
<1>7. OverlapsAreNoted'
  BY <1>1, <1>4 DEF OverlapsAreNoted, Registering
<1>8. SupersededSaversOverlap'
  <2>1. ASSUME NEW n \in Attempts, request[n] = "served", Registering(n)', n # Expected
        PROVE  Expected \in overlapped \/ process'[Expected].phase = "ended"
    <3>1. Registering(n) /\ Expected # NoToken
      BY <1>1, <1>4, <2>1 DEF Registering, RequestsFollowAttempts
    <3>2. Expected \in overlapped \/ process[Expected].phase = "ended"
      BY <2>1, <3>1 DEF SupersededSaversOverlap
    <3> QED
      BY <1>1, <1>4, <3>1, <3>2
  <2> QED
    BY <1>2, <2>1 DEF SupersededSaversOverlap
<1>9. SavedTokensWereMade'
  BY <1>2 DEF SavedTokensWereMade
<1>10. InvalidTokenHasACause'
  <2>1. CASE Expected = NoToken
    BY <1>2, <2>1 DEF InvalidTokenHasACause, SavedTokensWereMade
  <2>2. CASE Expected # NoToken
    BY <1>1, <1>2, <1>4, <2>2 DEF InvalidTokenHasACause
  <2> QED
    BY <2>1, <2>2
<1> QED
  BY <1>3, <1>5, <1>6, <1>7, <1>8, <1>9, <1>10

\* The steps of a process that change nothing else.
LEMMA StartStep ==
    ASSUME IndInv, NEW p \in Processes, Start(p) PROVE IndInv'
<1> DEFINE h == [phase |-> "loaded", id |-> NoToken, token |-> config]
<1>1. h \in Process /\ h.phase = "loaded" /\ h.id = NoToken
  BY DEF IndInv, TypeOK, Process, Phases
<1>2. /\ process[p].phase = "off" /\ process' = [process EXCEPT ![p] = h]
      /\ UNCHANGED <<machineID, config, serverToken, request, overlapped>>
  BY DEF Start
<1>3. starts' \in 0..MaxStarts
  BY RegistrationAssumption DEF Start, IndInv, TypeOK
<1>4. p \in Attempts => request[p] = "none"
  BY <1>2 DEF IndInv, TypeOK, RequestsFollowAttempts
<1> HIDE DEF h
<1> QED
  BY <1>1, <1>2, <1>3, <1>4, ProcessStep

LEMMA SelectMachineIDStep ==
    ASSUME IndInv, NEW p \in Processes, SelectMachineID(p) PROVE IndInv'
<1> DEFINE h == [process[p] EXCEPT !.phase = IF machineID = NoToken THEN "inserting" ELSE "ready",
                                   !.id = machineID]
<1>1. process[p] \in Process /\ machineID \in Processes \cup {NoToken} /\ process[p].phase = "loaded"
  BY DEF IndInv, TypeOK, Process, SelectMachineID
<1>2. h \in Process /\ h.id = machineID /\ h.phase = IF machineID = NoToken THEN "inserting" ELSE "ready"
  BY <1>1 DEF Process, Phases
<1>3. /\ process' = [process EXCEPT ![p] = h] /\ UNCHANGED starts
      /\ UNCHANGED <<machineID, config, serverToken, request, overlapped>>
  BY <1>1 DEF SelectMachineID, IndInv, TypeOK, Process
<1>4. p \in Attempts => request[p] = "none"
  BY <1>1 DEF IndInv, TypeOK, RequestsFollowAttempts
<1>5. starts \in 0..MaxStarts
  BY DEF IndInv, TypeOK
<1> HIDE DEF h
<1> QED
  BY <1>1, <1>2, <1>3, <1>4, <1>5, ProcessStep

\* A process that ends, which has neither ended nor saved a token.
LEMMA ExitStep ==
    ASSUME IndInv, NEW p \in Processes, process[p].phase \notin {"off", "ended", "configured"},
           process' = [process EXCEPT ![p] = Exit(p)],
           UNCHANGED <<machineID, config, serverToken, request, starts, overlapped>>
    PROVE  IndInv'
<1>1. /\ process[p] \in Process /\ process[p].id \in {NoToken, machineID}
      /\ starts \in 0..MaxStarts
  BY DEF IndInv, TypeOK, Process, OneIdentity
<1>2. CASE p \in Clients
  <2>1. Exit(p) = Off /\ Off \in Process /\ Off.phase = "off" /\ Off.id = NoToken
    BY <1>2 DEF Exit, Off, Process, Phases, Tokens
  <2>2. p \notin Attempts
    BY <1>2, RegistrationAssumption
  <2> QED
    BY <1>1, <2>1, <2>2, ProcessStep
<1>3. CASE p \notin Clients
  <2>1. PICK h : h = [process[p] EXCEPT !.phase = "ended"] /\ h = Exit(p)
    BY <1>3 DEF Exit
  <2>2. h \in Process /\ h.phase = "ended" /\ h.id = process[p].id
    BY <1>1, <2>1 DEF Process, Phases
  <2>3. p \in Attempts => (request[p] # "none" => h.id # NoToken)
    BY <2>2 DEF IndInv, ProcessesAreIdentified
  <2> QED
    BY <1>1, <2>1, <2>2, <2>3, ProcessStep
<1> QED
  BY <1>2, <1>3

LEMMA ReceiveTokenStep ==
    ASSUME IndInv, NEW n \in Attempts, ReceiveToken(n) PROVE IndInv'
<1> DEFINE h == [process[n] EXCEPT !.phase = "registered", !.token = n]
<1>1. /\ n \in Processes /\ process[n] \in Process /\ process[n].id \in {NoToken, machineID}
      /\ process[n].phase = "registering" /\ process[n].id # NoToken /\ request[n] = "served"
      /\ starts \in 0..MaxStarts /\ n \in Tokens
  BY DEF IndInv, TypeOK, Process, OneIdentity, ProcessesAreIdentified, ReceiveToken, Processes, Tokens
<1>2. h \in Process /\ h.phase = "registered" /\ h.id = process[n].id /\ h.token = n
  BY <1>1 DEF Process, Phases
<1>3. /\ process' = [process EXCEPT ![n] = h]
      /\ UNCHANGED <<machineID, config, serverToken, request, starts, overlapped>>
  BY <1>1 DEF ReceiveToken, IndInv, TypeOK, Process
<1> HIDE DEF h
<1> QED
  BY <1>1, <1>2, <1>3, ProcessStep DEF Registering

LEMMA SyncStep ==
    ASSUME IndInv, NEW p \in Processes, Sync(p) PROVE IndInv'
<1> DEFINE h == [process[p] EXCEPT !.phase = IF Authenticated(p) THEN "accepted" ELSE "refused"]
<1>1. /\ process[p] \in Process /\ process[p].id \in {NoToken, machineID}
      /\ process[p].id # NoToken /\ starts \in 0..MaxStarts /\ p \notin Attempts
  BY RegistrationAssumption DEF IndInv, TypeOK, Process, OneIdentity, ProcessesAreIdentified, Sync
<1>2. h \in Process /\ h.id = process[p].id
  BY <1>1 DEF Process, Phases
<1>3. /\ process' = [process EXCEPT ![p] = h]
      /\ UNCHANGED <<machineID, config, serverToken, request, starts, overlapped>>
  BY <1>1 DEF Sync, IndInv, TypeOK, Process
<1> HIDE DEF h
<1> QED
  BY <1>1, <1>2, <1>3, ProcessStep

\* The first id is kept; the server knows none before.
LEMMA InsertMachineIDStep ==
    ASSUME IndInv, NEW p \in Processes, InsertMachineID(p) PROVE IndInv'
<1> USE DEF IndInv
<1>1. CASE machineID # NoToken
  BY <1>1, ExitStep DEF InsertMachineID
<1>2. CASE machineID = NoToken
  <2> DEFINE h == [process[p] EXCEPT !.phase = "ready", !.id = p]
  <2>1. /\ process[p].phase = "inserting" /\ machineID' = p
        /\ UNCHANGED <<config, serverToken, request, starts, overlapped>>
        /\ process[p] \in Process /\ process \in [Processes -> Process]
    BY <1>2 DEF InsertMachineID, TypeOK, Process
  <2>2. h \in Process /\ h.phase = "ready" /\ h.id = p /\ process' = [process EXCEPT ![p] = h]
    BY <1>2, <2>1 DEF InsertMachineID, Process, Phases
  <2> HIDE DEF h
  <2>3. /\ process' \in [Processes -> Process] /\ process'[p] = h
        /\ \A q \in Processes \ {p} : process'[q] = process[q]
    BY <2>1, <2>2
  <2>4. NoToken \notin Processes /\ \A n \in Attempts : n \in Processes
    BY ExpectedType
  <2>5. \A id \in Processes : serverToken[id] = NoToken
    BY <1>2, <2>4 DEF OneIdentity
  <2>6. Expected = NoToken /\ Expected' = NoToken
    BY <1>2, <2>1, <2>4, <2>5 DEF Expected
  <2>7. \A q \in Processes : process[q].id = NoToken
    BY <1>2 DEF OneIdentity
  <2>8. \A n \in Attempts : request[n] = "none"
    BY <2>4, <2>7 DEF ProcessesAreIdentified
  <2>9. TypeOK'
    BY <2>1, <2>3 DEF TypeOK, Process
  <2>10. OneIdentity' /\ ProcessesAreIdentified'
    BY <2>1, <2>2, <2>3, <2>4, <2>5, <2>7, <2>8 DEF OneIdentity, ProcessesAreIdentified
  <2>11. RequestsFollowAttempts' /\ SupersededSaversOverlap'
    BY <2>1, <2>2, <2>3, <2>4, <2>8 DEF RequestsFollowAttempts, SupersededSaversOverlap
  <2>12. OverlapsAreNoted'
    BY <2>1, <2>2, <2>3, <2>4 DEF OverlapsAreNoted, Registering
  <2>13. SavedTokensWereMade' /\ InvalidTokenHasACause'
    BY <2>1, <2>6 DEF SavedTokensWereMade, InvalidTokenHasACause
  <2> QED
    BY <2>9, <2>10, <2>11, <2>12, <2>13
<1> QED
  BY <1>1, <1>2

LEMMA SendRegisterStep ==
    ASSUME IndInv, NEW n \in Attempts, SendRegister(n) PROVE IndInv'
<1> DEFINE h == [process[n] EXCEPT !.phase = "registering"]
           others == {m \in Attempts : Registering(m)}
<1> USE DEF IndInv
<1>1. NoToken \notin Processes /\ (\A m \in Attempts : m \in Processes) /\ Expected' = Expected
      /\ (Expected # NoToken => Expected \in Attempts)
  BY ExpectedType DEF SendRegister, Expected
<1>2. /\ process[n].phase = "ready" /\ process[n] \in Process /\ process \in [Processes -> Process]
      /\ process[n].id # NoToken
      /\ request' = [request EXCEPT ![n] = "sent"]
      /\ overlapped' = IF others = {} THEN overlapped ELSE overlapped \cup others \cup {n}
      /\ UNCHANGED <<machineID, config, serverToken, starts>>
  BY <1>1 DEF SendRegister, TypeOK, Process, ProcessesAreIdentified
<1>3. /\ h \in Process /\ h.phase = "registering" /\ h.id = process[n].id
      /\ process' = [process EXCEPT ![n] = h]
  BY <1>2 DEF SendRegister, Process, Phases
<1> HIDE DEF h
<1>4. /\ process' \in [Processes -> Process] /\ process'[n] = h
      /\ \A q \in Processes \ {n} : process'[q] = process[q]
      /\ request' \in [Attempts -> {"none", "sent", "served"}] /\ request'[n] = "sent"
      /\ \A m \in Attempts \ {n} : request'[m] = request[m]
  BY <1>1, <1>2, <1>3 DEF TypeOK
<1>5. overlapped \subseteq overlapped' /\ overlapped' \subseteq Attempts
  BY <1>2 DEF TypeOK
<1>6. TypeOK'
  BY <1>2, <1>4, <1>5 DEF TypeOK, Process
<1>7. OneIdentity' /\ ProcessesAreIdentified'
  BY <1>1, <1>2, <1>3, <1>4 DEF OneIdentity, ProcessesAreIdentified
<1>8. RequestsFollowAttempts'
  BY <1>1, <1>2, <1>3, <1>4 DEF RequestsFollowAttempts
<1>9. OverlapsAreNoted'
  <2>1. ASSUME NEW m \in Attempts, m # n, Registering(m)'
        PROVE  m \in overlapped' /\ n \in overlapped'
    <3>1. m \in others
      BY <1>1, <1>4, <2>1 DEF Registering
    <3> QED
      BY <1>2, <3>1
  <2>2. ASSUME NEW m \in Attempts, NEW k \in Attempts, m # n, k # n, m # k,
               Registering(m)', Registering(k)'
        PROVE  m \in overlapped' /\ k \in overlapped'
    BY <1>1, <1>4, <1>5, <2>2 DEF OverlapsAreNoted, Registering
  <2> QED
    BY <2>1, <2>2 DEF OverlapsAreNoted
<1>10. SupersededSaversOverlap'
  <2>1. ASSUME NEW m \in Attempts, request'[m] = "served", Registering(m)', m # Expected
        PROVE  Expected \in overlapped' \/ process'[Expected].phase = "ended"
    <3>1. m # n /\ request[m] = "served" /\ Registering(m)
      BY <1>1, <1>4, <2>1 DEF Registering
    <3>2. Expected \in overlapped \/ process[Expected].phase = "ended"
      BY <2>1, <3>1 DEF SupersededSaversOverlap
    <3>3. Expected \in Processes
      BY <1>1, <3>1 DEF RequestsFollowAttempts
    <3> QED
      BY <1>2, <1>4, <1>5, <3>2, <3>3
  <2> QED
    BY <1>1, <2>1 DEF SupersededSaversOverlap
<1>11. SavedTokensWereMade'
  BY <1>1, <1>2 DEF SavedTokensWereMade
<1>12. InvalidTokenHasACause'
  <2>1. CASE Expected = NoToken
    BY <1>1, <1>2, <2>1 DEF InvalidTokenHasACause, SavedTokensWereMade
  <2>2. CASE Expected # NoToken
    BY <1>1, <1>2, <1>3, <1>4, <1>5, <2>2 DEF InvalidTokenHasACause
  <2> QED
    BY <2>1, <2>2
<1> QED
  BY <1>6, <1>7, <1>8, <1>9, <1>10, <1>11, <1>12

\* The server makes n's token the expected one; n is still registering, so that
\* whoever else is has been noted, or n has given up.
LEMMA RegisterMachineStep ==
    ASSUME IndInv, NEW n \in Attempts, RegisterMachine(n) PROVE IndInv'
<1> USE DEF IndInv
<1>1. NoToken \notin Processes /\ (\A m \in Attempts : m \in Processes /\ m # NoToken)
  BY ExpectedType
<1>2. /\ request[n] = "sent" /\ request' = [request EXCEPT ![n] = "served"]
      /\ serverToken' = [serverToken EXCEPT ![process[n].id] = n]
      /\ UNCHANGED <<machineID, config, process, starts, overlapped>>
  BY DEF RegisterMachine
<1>3. process[n].id = machineID /\ machineID # NoToken /\ machineID \in Processes
  BY <1>1, <1>2 DEF OneIdentity, ProcessesAreIdentified, TypeOK
<1>4. process[n].phase \in {"registering", "ended"}
  BY <1>2 DEF RequestsFollowAttempts
<1>5. /\ serverToken' \in [Processes -> Tokens] /\ serverToken'[machineID] = n
      /\ \A id \in Processes \ {machineID} : serverToken'[id] = serverToken[id]
      /\ request' \in [Attempts -> {"none", "sent", "served"}] /\ request'[n] = "served"
      /\ \A m \in Attempts \ {n} : request'[m] = request[m]
  BY <1>2, <1>3 DEF TypeOK, Tokens
<1>6. Expected' = n
  BY <1>2, <1>3, <1>5 DEF Expected
<1>7. TypeOK'
  BY <1>2, <1>5 DEF TypeOK
<1>8. OneIdentity' /\ ProcessesAreIdentified'
  BY <1>2, <1>3, <1>5 DEF OneIdentity, ProcessesAreIdentified
<1>9. RequestsFollowAttempts'
  BY <1>1, <1>2, <1>4, <1>5, <1>6 DEF RequestsFollowAttempts
<1>10. OverlapsAreNoted'
  BY <1>2 DEF OverlapsAreNoted, Registering
<1>11. SupersededSaversOverlap'
  BY <1>2, <1>4, <1>6 DEF SupersededSaversOverlap, OverlapsAreNoted, Registering
<1>12. SavedTokensWereMade' /\ InvalidTokenHasACause'
  BY <1>1, <1>2, <1>4, <1>6 DEF SavedTokensWereMade, InvalidTokenHasACause
<1> QED
  BY <1>7, <1>8, <1>9, <1>10, <1>11, <1>12

LEMMA SaveStep ==
    ASSUME IndInv, NEW n \in Attempts, Save(n) PROVE IndInv'
<1> DEFINE h == [process[n] EXCEPT !.phase = "configured"]
<1> USE DEF IndInv
<1>1. NoToken \notin Processes /\ (\A m \in Attempts : m \in Processes /\ m # NoToken)
      /\ Expected' = Expected
      /\ (Expected # NoToken => Expected \in Attempts /\ Expected \in Processes)
  BY ExpectedType DEF Save, Expected
<1>2. /\ process[n].phase = "registered" /\ process[n] \in Process /\ process \in [Processes -> Process]
      /\ process[n].id # NoToken /\ request[n] = "served" /\ Expected # NoToken
      /\ config' = n
      /\ UNCHANGED <<machineID, serverToken, request, starts, overlapped>>
  BY <1>1 DEF Save, TypeOK, Process, ProcessesAreIdentified, RequestsFollowAttempts
<1>3. /\ h \in Process /\ h.phase = "configured" /\ h.id = process[n].id
      /\ process' = [process EXCEPT ![n] = h]
  BY <1>2 DEF Save, Process, Phases
<1> HIDE DEF h
<1>4. /\ process' \in [Processes -> Process] /\ process'[n] = h
      /\ \A q \in Processes \ {n} : process'[q] = process[q]
  BY <1>1, <1>2, <1>3
<1>5. TypeOK'
  BY <1>2, <1>4 DEF TypeOK, Process, Tokens
<1>6. OneIdentity' /\ ProcessesAreIdentified'
  BY <1>1, <1>2, <1>3, <1>4 DEF OneIdentity, ProcessesAreIdentified
<1>7. RequestsFollowAttempts'
  BY <1>1, <1>2, <1>3, <1>4 DEF RequestsFollowAttempts
<1>8. OverlapsAreNoted'
  BY <1>1, <1>2, <1>3, <1>4 DEF OverlapsAreNoted, Registering
<1>9. SupersededSaversOverlap'
  <2>1. ASSUME NEW m \in Attempts, request[m] = "served", Registering(m)', m # Expected
        PROVE  Expected \in overlapped \/ process'[Expected].phase = "ended"
    <3>1. Registering(m)
      BY <1>1, <1>3, <1>4, <2>1 DEF Registering
    <3>2. Expected \in overlapped \/ process[Expected].phase = "ended"
      BY <2>1, <3>1 DEF SupersededSaversOverlap
    <3> QED
      BY <1>1, <1>2, <1>4, <3>2
  <2> QED
    BY <1>1, <1>2, <2>1 DEF SupersededSaversOverlap
<1>10. SavedTokensWereMade'
  BY <1>1, <1>2 DEF SavedTokensWereMade
<1>11. InvalidTokenHasACause'
  <2>1. CASE n = Expected
    BY <1>1, <1>2, <2>1 DEF InvalidTokenHasACause
  <2>2. CASE n # Expected
    <3>1. Expected \in overlapped \/ process[Expected].phase = "ended"
      BY <1>2, <2>2 DEF SupersededSaversOverlap, Registering
    <3> QED
      BY <1>1, <1>2, <1>4, <2>2, <3>1 DEF InvalidTokenHasACause
  <2> QED
    BY <2>1, <2>2
<1> QED
  BY <1>5, <1>6, <1>7, <1>8, <1>9, <1>10, <1>11

LEMMA IndInvNext ==
    ASSUME IndInv, [Next]_vars PROVE IndInv'
<1>1. ASSUME NEW p \in Processes, End(p) PROVE IndInv'
  BY <1>1, ExitStep DEF End
<1>2. CASE UNCHANGED vars
  BY <1>2 DEF vars, IndInv, TypeOK, OneIdentity, ProcessesAreIdentified, RequestsFollowAttempts,
              OverlapsAreNoted, Registering, SupersededSaversOverlap, SavedTokensWereMade,
              InvalidTokenHasACause, Expected
<1> QED
  BY <1>1, <1>2, StartStep, SelectMachineIDStep, InsertMachineIDStep, SyncStep,
     SendRegisterStep, RegisterMachineStep, ReceiveTokenStep, SaveStep DEF Next

-----------------------------------------------------------------------------
\* Processes, requests, server and configuration file are always well formed.
THEOREM RegistrationTypeCorrect == Spec => []TypeOK
<1>1. Init => IndInv
  BY IndInvInit
<1>2. IndInv /\ [Next]_vars => IndInv'
  BY IndInvNext
<1>3. IndInv => TypeOK
  BY DEF IndInv
<1> QED
  BY <1>1, <1>2, <1>3, PTL DEF Spec

\* Processes that race to be the first (MachineID, internal/localdb) end up with
\* one machine id, the only one the server ever hears of.
THEOREM MachineHasOneIdentity == Spec => []OneIdentity
<1>1. Init => IndInv
  BY IndInvInit
<1>2. IndInv /\ [Next]_vars => IndInv'
  BY IndInvNext
<1>3. IndInv => OneIdentity
  BY DEF IndInv
<1> QED
  BY <1>1, <1>2, <1>3, PTL DEF Spec

\* A configured machine has the token the server expects, unless the attempt
\* that made it did not save it or overlapped with another (RegisterMachine,
\* internal/postgres; Save, internal/config).
THEOREM ConfiguredTokensAreValid == Spec => []InvalidTokenHasACause
<1>1. Init => IndInv
  BY IndInvInit
<1>2. IndInv /\ [Next]_vars => IndInv'
  BY IndInvNext
<1>3. IndInv => InvalidTokenHasACause
  BY DEF IndInv
<1> QED
  BY <1>1, <1>2, <1>3, PTL DEF Spec
=============================================================================
