------------------------ MODULE PairingTriggerProofs ------------------------
(***************************************************************************)
(* TriggerInv is inductive: the types, what is known of each client, and   *)
(* what the store holds between the task's write and its push.             *)
(***************************************************************************)
EXTENDS PairingTrigger, TLAPS

\* A QR was shown only by a fresh client; one that showed a QR and came back
\* Ok was scanned; a state that was read as Linked was a real link.
ClientInv ==
  \A c \in Challenges :
    /\ client[c] \in {"none", "resumed"} => fired[c] = 0
    /\ client[c] = "ok" /\ fired[c] > 0 => c \in bound
    /\ seen[c] = "Linked" => c \in bound

\* Only a failed task stamps; between its write and its push an open
\* challenge holds the result, unless the store did not take it; only a closed
\* challenge has its token cancelled.
ResultInv ==
  \A c \in Challenges :
    /\ phase[c] = "stamp" => client[c] = "error"
    /\ phase[c] = "notify" => client[c] \in {"ok", "error"}
    /\ phase[c] = "notify" /\ c \notin closed => store[c] = Result(c) \/ c \in unwritten
    /\ c \in token => c \in closed

TriggerInv == TypeOK /\ ClientInv /\ LinkedIsScanned /\ ResultInv /\ EndIsTold

LEMMA StatusType ==
  ASSUME NEW s \in States, NEW e \in BOOLEAN
  PROVE  /\ Status(s, e) \in Statuses
         /\ Status(s, e).state = s /\ Status(s, e).error = e
BY DEF Status, Statuses

\* What the task writes has the type of a status; it says Linked only of a
\* scanned challenge, and it is a link or an error.
LEMMA ResultFacts ==
  ASSUME TypeOK, ClientInv, NEW c \in Challenges, client[c] \in {"ok", "error"}
  PROVE  /\ Result(c) \in Statuses
         /\ Result(c).state = "Linked" => c \in bound
         /\ Result(c).state = "Linked" \/ Result(c).error
<1>1. seen[c] \in States /\ fired[c] \in Nat
  BY TriggerAssumption DEF TypeOK
<1>2. CASE client[c] = "error"
  <2>1. Result(c) = Status(seen[c], TRUE)
    BY <1>2 DEF Result
  <2>2. /\ Status(seen[c], TRUE) \in Statuses
        /\ Status(seen[c], TRUE).state = seen[c] /\ Status(seen[c], TRUE).error = TRUE
    BY <1>1, StatusType, TRUE \in BOOLEAN
  <2>3. seen[c] = "Linked" => c \in bound
    BY DEF ClientInv
  <2>4. QED BY <2>1, <2>2, <2>3
<1>3. CASE client[c] # "error" /\ fired[c] = 0
  <2>1. Result(c) = Status("Expired", TRUE)
    BY <1>3 DEF Result
  <2>2. /\ Status("Expired", TRUE) \in Statuses
        /\ Status("Expired", TRUE).state = "Expired" /\ Status("Expired", TRUE).error = TRUE
    BY StatusType, TRUE \in BOOLEAN DEF States
  <2>3. QED BY <2>1, <2>2
<1>4. CASE client[c] # "error" /\ fired[c] # 0
  <2>1. Result(c) = Status("Linked", FALSE) /\ c \in bound
    BY <1>1, <1>4 DEF Result, ClientInv
  <2>2. /\ Status("Linked", FALSE) \in Statuses
        /\ Status("Linked", FALSE).state = "Linked"
    BY StatusType, FALSE \in BOOLEAN DEF States
  <2>3. QED BY <2>1, <2>2
<1>5. QED BY <1>2, <1>3, <1>4

LEMMA TriggerInit == Init => TriggerInv
<1> SUFFICES ASSUME Init PROVE TriggerInv
  OBVIOUS
<1>1. Status("Pending", FALSE) \in Statuses /\ Status("Pending", FALSE).state = "Pending"
  BY StatusType DEF States
<1>2. TypeOK
  <2>1. /\ phase \in [Challenges -> Phases]
        /\ client \in [Challenges -> Clients]
        /\ seen \in [Challenges -> States]
    BY DEF Init, Phases, Clients, States
  <2>2. fired \in [Challenges -> 0..MaxQr]
    BY TriggerAssumption DEF Init
  <2>3. store \in [Challenges -> Statuses] /\ screen \in [Challenges -> Statuses]
    BY <1>1 DEF Init
  <2>4. /\ creds \in [Dirs -> Challenges \cup {NoOne}]
        /\ closed \subseteq Challenges /\ token \subseteq Challenges /\ bound \subseteq Challenges
        /\ unread \subseteq Challenges /\ unwritten \subseteq Challenges
    BY DEF Init
  <2>5. QED BY <2>1, <2>2, <2>3, <2>4 DEF TypeOK
<1>3. ClientInv /\ LinkedIsScanned /\ ResultInv /\ EndIsTold
  BY <1>1 DEF Init, ClientInv, LinkedIsScanned, ResultInv, EndIsTold
<1>4. QED BY <1>2, <1>3 DEF TriggerInv

LEMMA TriggerStep == TriggerInv /\ [Next]_vars => TriggerInv'
<1> SUFFICES ASSUME TriggerInv, [Next]_vars PROVE TriggerInv'
  OBVIOUS
<1> USE DEF TriggerInv
<1> DEFINE Rest == ClientInv /\ LinkedIsScanned /\ ResultInv /\ EndIsTold
<1>1. CASE UNCHANGED vars
  <2>1. TypeOK' BY <1>1 DEF TypeOK, vars
  <2>2. Rest'
    BY <1>1 DEF vars, ClientInv, LinkedIsScanned, ResultInv, EndIsTold, Result
  <2>3. QED BY <2>1, <2>2
<1>2. ASSUME NEW c \in Challenges, Start(c) PROVE TriggerInv'
  <2>1. TypeOK' BY <1>2 DEF Start, Move, TypeOK, Phases
  <2>2. Rest'
    BY <1>2 DEF Start, Move, TypeOK, ClientInv, LinkedIsScanned, ResultInv, EndIsTold, Result
  <2>3. QED BY <2>1, <2>2
<1>3. ASSUME NEW c \in Challenges, Wipe(c) PROVE TriggerInv'
  <2>1. TypeOK' BY <1>3, TriggerAssumption DEF Wipe, Move, TypeOK, Phases
  <2>2. Rest'
    BY <1>3 DEF Wipe, Move, TypeOK, ClientInv, LinkedIsScanned, ResultInv, EndIsTold, Result
  <2>3. QED BY <2>1, <2>2
<1>4. ASSUME NEW c \in Challenges, LoadClient(c) PROVE TriggerInv'
  <2>1. (IF creds[DirOf[c]] = NoOne THEN "fresh" ELSE "resumed") \in Clients
    BY DEF Clients
  <2>2. client' \in [Challenges -> Clients]
    BY <1>4, <2>1 DEF LoadClient, TypeOK
  <2>3. TypeOK' BY <1>4, <2>2 DEF LoadClient, TypeOK
  <2>4. Rest'
    BY <1>4 DEF LoadClient, TypeOK, ClientInv, LinkedIsScanned, ResultInv, EndIsTold, Result
  <2>5. QED BY <2>3, <2>4
<1>5. ASSUME NEW c \in Challenges, OnQr(c) PROVE TriggerInv'
  <2>1. Status("QrReady", FALSE) \in Statuses /\ Status("QrReady", FALSE).state = "QrReady"
    BY StatusType DEF States
  <2>2. phase' \in [Challenges -> Phases]
    BY <1>5 DEF OnQr, Move, TypeOK, Phases
  <2>3. fired' \in [Challenges -> 0..MaxQr]
    BY <1>5, TriggerAssumption DEF OnQr, TypeOK
  <2>4. store' \in [Challenges -> Statuses]
    BY <1>5, <2>1 DEF OnQr, TypeOK
  <2>5. TypeOK' BY <1>5, <2>2, <2>3, <2>4 DEF OnQr, TypeOK
  <2>6. Rest'
    BY <1>5, <2>1 DEF OnQr, Move, TypeOK, ClientInv, LinkedIsScanned, ResultInv, EndIsTold, Result
  <2>7. QED BY <2>5, <2>6
<1>6. ASSUME NEW c \in Challenges, PushQr(c) PROVE TriggerInv'
  <2>1. Status("QrReady", FALSE) \in Statuses /\ Status("QrReady", FALSE).state = "QrReady"
    BY StatusType DEF States
  <2>2. TypeOK' BY <1>6, <2>1 DEF PushQr, Move, TypeOK, Phases
  <2>3. Rest'
    BY <1>6, <2>1 DEF PushQr, Move, TypeOK, ClientInv, LinkedIsScanned, ResultInv, EndIsTold, Result
  <2>4. QED BY <2>2, <2>3
<1>7. ASSUME NEW c \in Challenges, Scan(c) PROVE TriggerInv'
  <2>1. TypeOK' BY <1>7, TriggerAssumption DEF Scan, TypeOK
  <2>2. Rest'
    BY <1>7 DEF Scan, TypeOK, ClientInv, LinkedIsScanned, ResultInv, EndIsTold, Result
  <2>3. QED BY <2>1, <2>2
<1>8. ASSUME NEW c \in Challenges, ConnectOk(c) \/ ConnectFail(c) PROVE TriggerInv'
  <2>1. TypeOK' BY <1>8 DEF ConnectOk, ConnectFail, Move, TypeOK, Phases, Clients
  <2>2. ClientInv' /\ LinkedIsScanned'
    BY <1>8 DEF ConnectOk, ConnectFail, Move, TypeOK, ClientInv, LinkedIsScanned
  <2>3. /\ phase' = [phase EXCEPT ![c] = "verdict"] /\ phase[c] = "select"
        /\ \A d \in Challenges \ {c} : client'[d] = client[d]
        /\ UNCHANGED <<fired, store, screen, closed, token, seen, creds, bound, unread, unwritten>>
    BY <1>8 DEF ConnectOk, ConnectFail, Move, TypeOK
  <2>4. \A d \in Challenges : phase'[d] \in {"stamp", "notify", "done"} =>
           d # c /\ phase'[d] = phase[d] /\ client'[d] = client[d]
    BY <2>3 DEF TypeOK
  <2>5. \A d \in Challenges \ {c} : Result(d)' = Result(d)
    BY <2>3 DEF Result
  <2>6. ResultInv'
    BY <2>3, <2>4, <2>5 DEF ResultInv
  <2>7. EndIsTold'
    BY <2>3, <2>4 DEF EndIsTold
  <2>8. QED BY <2>1, <2>2, <2>6, <2>7
<1>9. ASSUME NEW c \in Challenges, TakeCancel(c) PROVE TriggerInv'
  <2>1. TypeOK' BY <1>9 DEF TakeCancel, Move, TypeOK, Phases
  <2>2. Rest'
    BY <1>9 DEF TakeCancel, Move, TypeOK, ClientInv, LinkedIsScanned, ResultInv, EndIsTold, Result
  <2>3. QED BY <2>1, <2>2
<1>10. ASSUME NEW c \in Challenges, WriteOk(c) \/ Stamp(c) PROVE TriggerInv'
  <2>1. client[c] \in {"ok", "error"}
    BY <1>10 DEF WriteOk, Stamp, Move, ResultInv
  <2>2. /\ Result(c) \in Statuses
        /\ Result(c).state = "Linked" => c \in bound
    BY <2>1, ResultFacts
  <2>3. /\ phase' = [phase EXCEPT ![c] = "notify"] /\ phase[c] \in {"verdict", "stamp"}
        /\ Update(c, Result(c))
        /\ UNCHANGED <<client, fired, screen, closed, token, seen, creds, bound, unread>>
    BY <1>10 DEF WriteOk, Stamp, Move
  <2>4. \/ store' = [store EXCEPT ![c] = Result(c)] /\ unwritten' = unwritten
        \/ unwritten' = unwritten \cup {c} /\ store' = store
    BY <2>3 DEF Update
  <2>5. TypeOK' BY <2>2, <2>3, <2>4 DEF TypeOK, Phases
  <2>6. ClientInv' /\ LinkedIsScanned' /\ EndIsTold'
    BY <2>2, <2>3, <2>4 DEF TypeOK, ClientInv, LinkedIsScanned, EndIsTold
  <2>7. ResultInv'
    BY <2>1, <2>3, <2>4 DEF TypeOK, ResultInv, Result
  <2>8. QED BY <2>5, <2>6, <2>7
<1>11. ASSUME NEW c \in Challenges, ReadState(c) PROVE TriggerInv'
  <2>1. PICK s \in {store[c].state, "Pending"} : seen' = [seen EXCEPT ![c] = s]
    BY <1>11 DEF ReadState
  <2>2. s \in States /\ (s = "Linked" => c \in bound)
    BY DEF TypeOK, Statuses, States, LinkedIsScanned
  <2>3. /\ client[c] = "error" /\ phase' = [phase EXCEPT ![c] = "stamp"] /\ phase[c] = "verdict"
        /\ unread' \subseteq Challenges
        /\ UNCHANGED <<client, fired, store, screen, closed, token, creds, bound, unwritten>>
    BY <1>11 DEF ReadState, Move, TypeOK
  <2>4. TypeOK' BY <2>1, <2>2, <2>3 DEF TypeOK, Phases
  <2>5. ClientInv' /\ LinkedIsScanned' /\ EndIsTold'
    BY <2>1, <2>2, <2>3 DEF TypeOK, ClientInv, LinkedIsScanned, EndIsTold
  <2>6. \A d \in Challenges \ {c} : Result(d)' = Result(d)
    BY <2>1, <2>3 DEF Result, TypeOK
  <2>7. ResultInv'
    BY <2>3, <2>6 DEF TypeOK, ResultInv
  <2>8. QED BY <2>4, <2>5, <2>7
<1>12. ASSUME NEW c \in Challenges, Push(c) PROVE TriggerInv'
  <2>1. client[c] \in {"ok", "error"}
    BY <1>12 DEF Push, Move, ResultInv
  <2>2. /\ Result(c) \in Statuses
        /\ Result(c).state = "Linked" => c \in bound
        /\ Result(c).state = "Linked" \/ Result(c).error
    BY <2>1, ResultFacts
  <2>3. TypeOK' BY <1>12, <2>2 DEF Push, Move, TypeOK, Phases
  <2>4. /\ phase' = [phase EXCEPT ![c] = "done"] /\ phase[c] = "notify"
        /\ screen' = [screen EXCEPT ![c] = Result(c)]
        /\ UNCHANGED <<client, fired, store, closed, token, seen, creds, bound, unread, unwritten>>
    BY <1>12 DEF Push, Move
  <2>5. ClientInv' /\ LinkedIsScanned'
    BY <2>2, <2>4 DEF TypeOK, ClientInv, LinkedIsScanned
  <2>6. ResultInv'
    BY <2>4 DEF TypeOK, ResultInv, Result
  <2>7. ASSUME NEW d \in Challenges, phase'[d] = "done", d \notin closed'
        PROVE  /\ screen'[d].state = "Linked" \/ screen'[d].error
               /\ store'[d] = screen'[d] \/ d \in unwritten'
    <3>1. CASE d = c
      <4>1. store[c] = Result(c) \/ c \in unwritten
        BY <2>4, <2>7, <3>1 DEF ResultInv
      <4>2. screen'[c] = Result(c) /\ store'[c] = store[c]
        BY <2>4 DEF TypeOK
      <4>3. QED BY <2>2, <2>4, <3>1, <4>1, <4>2
    <3>2. CASE d # c
      BY <2>4, <2>7, <3>2 DEF TypeOK, EndIsTold
    <3>3. QED BY <3>1, <3>2
  <2>8. EndIsTold'
    BY <2>7 DEF EndIsTold
  <2>9. QED BY <2>3, <2>5, <2>6, <2>8
<1>13. ASSUME NEW c \in Challenges, Close(c) PROVE TriggerInv'
  <2>1. PICK s \in {"Cancelled", "Expired"} :
          /\ store' = [store EXCEPT ![c] = Status(s, FALSE)]
          /\ screen' = [screen EXCEPT ![c] = Status(s, FALSE)]
    BY <1>13 DEF Close
  <2>2. Status(s, FALSE) \in Statuses /\ Status(s, FALSE).state = s
    BY StatusType DEF States
  <2>3. TypeOK' BY <1>13, <2>1, <2>2 DEF Close, TypeOK
  <2>4. Rest'
    BY <1>13, <2>1, <2>2
    DEF Close, TypeOK, ClientInv, LinkedIsScanned, ResultInv, EndIsTold, Result
  <2>5. QED BY <2>3, <2>4
<1>14. ASSUME NEW c \in Challenges, CancelToken(c) PROVE TriggerInv'
  <2>1. TypeOK' BY <1>14 DEF CancelToken, TypeOK
  <2>2. Rest'
    BY <1>14 DEF CancelToken, TypeOK, ClientInv, LinkedIsScanned, ResultInv, EndIsTold, Result
  <2>3. QED BY <2>1, <2>2
<1>15. QED
  BY <1>1, <1>2, <1>3, <1>4, <1>5, <1>6, <1>7, <1>8, <1>9, <1>10, <1>11, <1>12, <1>13,
     <1>14 DEF Next, Wa, Task, Dispatcher

LEMMA TriggerInvariant == Spec => []TriggerInv
<1>1. QED BY TriggerInit, TriggerStep, PTL DEF Spec

\* For any challenges, directories and QR rotations the variables of the
\* trigger (pairing_trigger.rs) keep their types.
THEOREM TriggerTypeCorrect == Spec => []TypeOK
<1>1. TriggerInv => TypeOK
  BY DEF TriggerInv
<1>2. QED BY <1>1, TriggerInvariant, PTL

\* Linked, in the store or on the screen, always means a scanned QR.
THEOREM LinksAreScanned == Spec => []LinkedIsScanned
<1>1. TriggerInv => LinkedIsScanned
  BY DEF TriggerInv
<1>2. QED BY <1>1, TriggerInvariant, PTL

\* A task that ended without its challenge being closed has told the operator
\* a link or an error, whatever calls of the store failed, and the store holds
\* the same unless it failed to take just that.
THEOREM EndsAreTold == Spec => []EndIsTold
<1>1. TriggerInv => EndIsTold
  BY DEF TriggerInv
<1>2. QED BY <1>1, TriggerInvariant, PTL
-----------------------------------------------------------------------------
(***************************************************************************)
(* The refinement of PairingPromise.  That a recorded link is final takes  *)
(* LinkInv: Linked is written only by the task's last two steps, so no     *)
(* close, QR or error arm can still find it and write over it.             *)
(***************************************************************************)
LinkInv ==
  \A c \in Challenges :
    /\ store[c].state = "Linked" => phase[c] \in {"notify", "done"}
    /\ screen[c].state = "Linked" =>
         phase[c] = "done" /\ (store[c].state = "Linked" \/ c \in unwritten)
    /\ phase[c] = "notify" /\ Result(c).state = "Linked" =>
         store[c].state = "Linked" \/ c \in unwritten
    /\ seen[c] # "Linked"

LEMMA LinkInit == Init => LinkInv
<1> SUFFICES ASSUME Init PROVE LinkInv
  OBVIOUS
<1>1. Status("Pending", FALSE).state = "Pending"
  BY DEF Status
<1> QED BY <1>1 DEF Init, LinkInv

\* A step that leaves store and screen alone and takes no task out of its end.
LEMMA LinkFrame ==
  ASSUME LinkInv, UNCHANGED <<store, screen, seen, unwritten>>,
         \A c \in Challenges :
           /\ phase[c] \in {"notify", "done"} => phase'[c] = phase[c]
           /\ phase'[c] = "notify" => phase[c] = "notify" /\ UNCHANGED Result(c)
  PROVE  LinkInv'
BY DEF LinkInv

\* What the task writes and pushes for a link.
LEMMA ResultLinks ==
  ASSUME LinkInv, NEW c \in Challenges
  PROVE  /\ client[c] = "error" => Result(c).state # "Linked"
         /\ Result(c).state = "Linked" => ~Result(c).error /\ fired[c] # 0 /\ client[c] # "error"
BY DEF LinkInv, Result, Status

LEMMA LinkStep == TriggerInv /\ LinkInv /\ [Next]_vars => LinkInv'
<1> SUFFICES ASSUME TypeOK, ResultInv, LinkInv, [Next]_vars PROVE LinkInv'
  BY DEF TriggerInv
<1>1. CASE UNCHANGED vars
  BY <1>1 DEF vars, LinkInv, Result
<1>2. ASSUME NEW c \in Challenges, Start(c) \/ Wipe(c) \/ TakeCancel(c) PROVE LinkInv'
  <2>1. /\ phase[c] \in {"idle", "wipe", "select"} /\ phase'[c] \in {"wipe", "select", "done"}
        /\ \A d \in Challenges \ {c} : phase'[d] = phase[d]
        /\ UNCHANGED <<client, fired, store, screen, seen, unwritten>>
    BY <1>2 DEF Start, Wipe, TakeCancel, Move, TypeOK
  <2>2. \A d \in Challenges : UNCHANGED Result(d)
    BY <2>1 DEF Result
  <2> QED BY <2>1, <2>2, LinkFrame
<1>3. ASSUME NEW c \in Challenges, LoadClient(c) \/ Scan(c) \/ CancelToken(c) PROVE LinkInv'
  <2>1. /\ UNCHANGED <<phase, fired, store, screen, seen, unwritten>>
        /\ \A d \in Challenges : phase[d] = "notify" => client'[d] = client[d]
    BY <1>3 DEF LoadClient, Scan, CancelToken, TypeOK
  <2>2. \A d \in Challenges : phase[d] = "notify" => UNCHANGED Result(d)
    BY <2>1 DEF Result
  <2> QED BY <2>1, <2>2, LinkFrame
<1>4. ASSUME NEW c \in Challenges, ConnectOk(c) \/ ConnectFail(c) PROVE LinkInv'
  <2>1. /\ phase[c] = "select" /\ phase'[c] = "verdict"
        /\ \A d \in Challenges \ {c} : phase'[d] = phase[d] /\ client'[d] = client[d]
        /\ UNCHANGED <<fired, store, screen, seen, unwritten>>
    BY <1>4 DEF ConnectOk, ConnectFail, Move, TypeOK
  <2>2. \A d \in Challenges \ {c} : UNCHANGED Result(d)
    BY <2>1 DEF Result
  <2> QED BY <2>1, <2>2, LinkFrame
<1>5. ASSUME NEW c \in Challenges, OnQr(c) PROVE LinkInv'
  <2>1. /\ phase[c] = "select" /\ phase'[c] = "qr" /\ fired' = [fired EXCEPT ![c] = @ + 1]
        /\ \A d \in Challenges \ {c} :
             phase'[d] = phase[d] /\ fired'[d] = fired[d] /\ store'[d] = store[d]
        /\ UNCHANGED <<client, screen, seen, unwritten>>
    BY <1>5 DEF OnQr, Move, TypeOK
  <2>2. store'[c].state # "Linked"
    BY <1>5, <2>1 DEF OnQr, TypeOK, LinkInv, Status
  <2>3. \A d \in Challenges \ {c} : UNCHANGED Result(d)
    BY <2>1 DEF Result
  <2>4. screen[c].state # "Linked"
    BY <2>1 DEF LinkInv
  <2> QED BY <2>1, <2>2, <2>3, <2>4 DEF LinkInv
<1>6. ASSUME NEW c \in Challenges, PushQr(c) PROVE LinkInv'
  <2>1. /\ phase[c] = "qr" /\ phase'[c] = "select"
        /\ \A d \in Challenges \ {c} : phase'[d] = phase[d] /\ screen'[d] = screen[d]
        /\ screen'[c] = Status("QrReady", FALSE)
        /\ UNCHANGED <<client, fired, store, seen, unwritten>>
    BY <1>6 DEF PushQr, Move, TypeOK
  <2>2. screen'[c].state # "Linked"
    BY <2>1 DEF Status
  <2>3. \A d \in Challenges \ {c} : UNCHANGED Result(d)
    BY <2>1 DEF Result
  <2> QED BY <2>1, <2>2, <2>3 DEF LinkInv
<1>7. ASSUME NEW c \in Challenges, ReadState(c) PROVE LinkInv'
  <2>1. /\ phase[c] = "verdict" /\ phase'[c] = "stamp"
        /\ \A d \in Challenges \ {c} : phase'[d] = phase[d] /\ seen'[d] = seen[d]
        /\ seen'[c] = store[c].state \/ seen'[c] = "Pending"
        /\ UNCHANGED <<client, fired, store, screen, unwritten>>
    BY <1>7 DEF ReadState, Move, TypeOK
  <2>2. seen'[c] # "Linked"
    BY <2>1 DEF LinkInv
  <2>3. \A d \in Challenges \ {c} : UNCHANGED Result(d)
    BY <2>1 DEF Result
  <2> QED BY <2>1, <2>2, <2>3 DEF LinkInv
<1>8. ASSUME NEW c \in Challenges, WriteOk(c) \/ Stamp(c) PROVE LinkInv'
  <2>1. /\ phase[c] \in {"verdict", "stamp"} /\ phase'[c] = "notify"
        /\ \A d \in Challenges \ {c} : phase'[d] = phase[d] /\ store'[d] = store[d]
        /\ \/ store'[c] = Result(c) /\ unwritten' = unwritten
           \/ store'[c] = store[c] /\ unwritten' = unwritten \cup {c}
        /\ UNCHANGED <<client, fired, screen, seen>>
    BY <1>8 DEF WriteOk, Stamp, Update, Move, TypeOK
  <2>2. \A d \in Challenges : UNCHANGED Result(d)
    BY <2>1 DEF Result
  <2>3. screen[c].state # "Linked"
    BY <2>1 DEF LinkInv
  <2> QED BY <2>1, <2>2, <2>3 DEF LinkInv
<1>9. ASSUME NEW c \in Challenges, Push(c) PROVE LinkInv'
  <2>1. /\ phase[c] = "notify" /\ phase'[c] = "done"
        /\ \A d \in Challenges \ {c} : phase'[d] = phase[d] /\ screen'[d] = screen[d]
        /\ screen'[c] = Result(c)
        /\ UNCHANGED <<client, fired, store, seen, unwritten>>
    BY <1>9 DEF Push, Move, TypeOK
  <2>2. \A d \in Challenges : UNCHANGED Result(d)
    BY <2>1 DEF Result
  <2> QED BY <2>1, <2>2 DEF LinkInv
<1>10. ASSUME NEW c \in Challenges, Close(c) PROVE LinkInv'
  <2>1. PICK s \in {"Cancelled", "Expired"} :
          /\ store' = [store EXCEPT ![c] = Status(s, FALSE)]
          /\ screen' = [screen EXCEPT ![c] = Status(s, FALSE)]
    BY <1>10 DEF Close
  <2>2. /\ store'[c].state = s /\ screen'[c].state = s /\ store[c].state # "Linked"
        /\ \A d \in Challenges \ {c} : store'[d] = store[d] /\ screen'[d] = screen[d]
        /\ UNCHANGED <<phase, client, fired, seen, unwritten>>
    BY <1>10, <2>1 DEF Close, TypeOK, Status
  <2>3. \A d \in Challenges : UNCHANGED Result(d)
    BY <2>2 DEF Result
  <2> QED BY <2>2, <2>3 DEF LinkInv
<1> QED
  BY <1>1, <1>2, <1>3, <1>4, <1>5, <1>6, <1>7, <1>8, <1>9, <1>10
  DEF Next, Wa, Task, Dispatcher

LEMMA LinkInvariant == Spec => [](TriggerInv /\ LinkInv)
BY TriggerInit, TriggerStep, LinkInit, LinkStep, PTL DEF Spec

\* A QR is being pushed only if one was shown; and between the error arm's
\* read and its write nobody but the dispatcher, by closing the challenge,
\* changes the state that was read.  A state that could not be read counts as
\* Pending.
OpenStates == {"Pending", "QrReady"}
ClosedStates == {"Cancelled", "Expired"}
Reopens(c) ==
  c \in closed /\ seen[c] \in OpenStates /\ store[c].state \in ClosedStates
TaskInv ==
  \A c \in Challenges :
    /\ phase[c] = "qr" => fired[c] > 0
    /\ phase[c] = "stamp" => store[c].state = seen[c] \/ Reopens(c) \/ c \in unread
    /\ c \in unread => seen[c] = "Pending" /\ phase[c] \in {"stamp", "notify", "done"}

LEMMA TaskInit == Init => TaskInv
BY DEF Init, TaskInv

LEMMA TaskStep == TypeOK /\ TaskInv /\ [Next]_vars => TaskInv'
<1> SUFFICES ASSUME TypeOK, TaskInv, [Next]_vars, NEW d \in Challenges
             PROVE  /\ phase'[d] = "qr" => fired'[d] > 0
                    /\ phase'[d] = "stamp" =>
                         store'[d].state = seen'[d] \/ Reopens(d)' \/ d \in unread'
                    /\ d \in unread' =>
                         seen'[d] = "Pending" /\ phase'[d] \in {"stamp", "notify", "done"}
  BY DEF TaskInv
<1> USE DEF TaskInv, Reopens, Move, TypeOK
<1>1. ASSUME NEW c \in Challenges, c # d,
             Start(c) \/ Wipe(c) \/ Wa(c) \/ Task(c) \/ Dispatcher(c)
      PROVE  /\ phase'[d] = phase[d] /\ fired'[d] = fired[d] /\ store'[d] = store[d]
             /\ seen'[d] = seen[d] /\ (d \in closed => d \in closed')
             /\ (d \in unread <=> d \in unread')
  <2>1. CASE Start(c) \/ Wipe(c) \/ Wa(c)
    BY <1>1, <2>1 DEF Start, Wipe, Wa, LoadClient, OnQr, Scan, ConnectOk, ConnectFail
  <2>2. CASE Task(c)
    BY <1>1, <2>2 DEF Task, PushQr, TakeCancel, WriteOk, ReadState, Stamp, Update, Push
  <2>3. CASE Dispatcher(c)
    BY <1>1, <2>3 DEF Dispatcher, Close, CancelToken
  <2> QED BY <1>1, <2>1, <2>2, <2>3
<1>2. CASE \E c \in Challenges \ {d} : Start(c) \/ Wipe(c) \/ Wa(c) \/ Task(c) \/ Dispatcher(c)
  BY <1>1, <1>2
<1>3. CASE OnQr(d)
  <2>1. /\ fired[d] \in Nat /\ fired'[d] = fired[d] + 1
        /\ phase[d] = "select" /\ phase'[d] = "qr" /\ UNCHANGED unread
    BY <1>3, TriggerAssumption DEF OnQr
  <2> QED BY <2>1
<1>4. CASE Start(d) \/ Wipe(d) \/ ConnectOk(d) \/ ConnectFail(d) \/ PushQr(d) \/ TakeCancel(d)
           \/ WriteOk(d) \/ Stamp(d) \/ Push(d)
  <2>1. /\ phase'[d] \notin {"qr", "stamp"} /\ UNCHANGED <<seen, unread>>
        /\ phase[d] \in {"stamp", "notify", "done"} => phase'[d] \in {"stamp", "notify", "done"}
    BY <1>4 DEF Start, Wipe, ConnectOk, ConnectFail, PushQr, TakeCancel, WriteOk, Stamp, Push
  <2> QED BY <2>1
<1>5. CASE LoadClient(d) \/ Scan(d) \/ CancelToken(d)
  BY <1>5 DEF LoadClient, Scan, CancelToken
<1>6. CASE ReadState(d)
  BY <1>6 DEF ReadState
<1>7. CASE Close(d)
  <2>1. /\ store[d].state \in OpenStates /\ d \notin closed /\ closed' = closed \cup {d}
        /\ UNCHANGED <<phase, fired, seen, unread>>
    BY <1>7 DEF Close, OpenStates
  <2>2. store'[d].state \in ClosedStates
    BY <1>7 DEF Close, ClosedStates, Status
  <2> QED BY <2>1, <2>2
<1>8. CASE UNCHANGED vars
  BY <1>8 DEF vars
<1> QED
  BY <1>2, <1>3, <1>4, <1>5, <1>6, <1>7, <1>8 DEF Next, Wa, Task, Dispatcher

LEMMA TaskInvariant == Spec => [](TypeOK /\ TaskInv)
<1>1. TriggerInv => TypeOK
  BY DEF TriggerInv
<1> QED BY <1>1, TriggerInvariant, TaskInit, TaskStep, PTL DEF Spec
-----------------------------------------------------------------------------
\* The two ways the error arm changes a challenge's state, both to an open
\* one: it was closed since it was read, or it could not be read.
StampReopensOrKeeps ==
  \A c \in Challenges : phase[c] = "stamp" /\ phase'[c] # "stamp" =>
    \/ store'[c].state = store[c].state
    \/ /\ store[c].state # "Linked" /\ store'[c].state \in OpenStates
       /\ Reopens(c) \/ (c \in unread /\ store'[c].state = "Pending")

\* Only its own Stamp takes a challenge's task out of the error arm.
LEMMA LeavesByStamp ==
  ASSUME TypeOK, [Next]_vars, NEW c \in Challenges, phase[c] = "stamp", phase'[c] # "stamp"
  PROVE  Stamp(c)
<1>1. PICK d \in Challenges : Start(d) \/ Wipe(d) \/ Wa(d) \/ Task(d) \/ Dispatcher(d)
  BY DEF Next, vars
<1> USE DEF TypeOK, Move
<1>2. ~(Start(d) \/ Wipe(d))
  BY DEF Start, Wipe
<1>3. ~Wa(d)
  BY DEF Wa, LoadClient, OnQr, Scan, ConnectOk, ConnectFail
<1>4. ~Dispatcher(d)
  BY DEF Dispatcher, Close, CancelToken
<1>5. Task(d)
  BY <1>1, <1>2, <1>3, <1>4
<1>6. ~(PushQr(d) \/ TakeCancel(d) \/ WriteOk(d) \/ ReadState(d) \/ Push(d))
  BY DEF PushQr, TakeCancel, WriteOk, ReadState, Push
<1>7. Stamp(d)
  BY <1>5, <1>6 DEF Task
<1>8. d = c
  BY <1>7 DEF Stamp
<1> QED BY <1>7, <1>8

\* When StampKeepsState fails, and only then, the dispatcher closed the
\* challenge between the error arm's read and its write and sees it open
\* again, or the read failed and the challenge is set back to Pending; no link
\* is ever written over.
THEOREM StampOnlyReopens == Spec => [][StampReopensOrKeeps]_vars
<1>1. ASSUME TypeOK, ResultInv, LinkInv, TaskInv, [Next]_vars, NEW c \in Challenges,
             phase[c] = "stamp", phase'[c] # "stamp"
      PROVE  \/ store'[c].state = store[c].state
             \/ /\ store[c].state # "Linked" /\ store'[c].state \in OpenStates
                /\ Reopens(c) \/ (c \in unread /\ store'[c].state = "Pending")
  <2>1. Stamp(c) /\ client[c] = "error"
    BY <1>1, LeavesByStamp DEF ResultInv
  <2>2. store' = store \/ store'[c].state = seen[c]
    BY <1>1, <2>1 DEF Stamp, Update, TypeOK, Result, Status
  <2>3. \/ store[c].state = seen[c] \/ Reopens(c)
        \/ c \in unread /\ seen[c] = "Pending"
    BY <1>1 DEF TaskInv
  <2>4. store[c].state # "Linked"
    BY <1>1 DEF LinkInv
  <2> QED BY <2>2, <2>3, <2>4 DEF Reopens, OpenStates
<1>2. TriggerInv /\ LinkInv /\ TypeOK /\ TaskInv /\ [Next]_vars => [StampReopensOrKeeps]_vars
  BY <1>1 DEF TriggerInv, StampReopensOrKeeps
<1> QED BY <1>2, LinkInvariant, TaskInvariant, PTL DEF Spec
-----------------------------------------------------------------------------
(***************************************************************************)
(* The promise's steps: OnQr, Scan, PushQr, Push and Close are visible.    *)
(***************************************************************************)
ShowedQr == {c \in Challenges : fired[c] > 0}
Screens == [c \in Challenges |-> OnScreen(c)]

LEMMA ScreenUnseen ==
  ASSUME UNCHANGED <<fired, bound, screen>>,
         \A c \in Challenges : screen[c].state # "Linked" \/ (c \in unwritten <=> c \in unwritten')
  PROVE  UNCHANGED Promise!vars
BY DEF Promise!vars, OnScreen

\* A push or a close puts something else on one screen that showed no link
\* the store has.
LEMMA ScreenTells ==
  ASSUME TypeOK, LinkInv, NEW c \in Challenges, NEW s \in Statuses,
         screen' = [screen EXCEPT ![c] = s], UNCHANGED <<fired, bound, unwritten>>,
         phase[c] # "done" \/ store[c].state # "Linked",
         s.state = "Linked" => c \in bound,
         s.state \in OpenStates /\ ~s.error => c \in ShowedQr
  PROVE  Promise!Next
<1> DEFINE r == IF s.error \/ s.state \in {"Expired", "Cancelled"} THEN "over"
                ELSE IF s.state # "Linked" THEN "waiting"
                ELSE IF c \in unwritten THEN "unrecorded" ELSE "linked"
<1>1. /\ screen'[c] = s /\ \A d \in Challenges \ {c} : screen'[d] = screen[d]
      /\ s.state \in States
  BY DEF TypeOK, Statuses
<1>2. OnScreen(c)' = r /\ \A d \in Challenges \ {c} : OnScreen(d)' = OnScreen(d)
  BY <1>1 DEF OnScreen
<1>3. Screens' = [Screens EXCEPT ![c] = r]
  BY <1>2 DEF Screens
<1>4. Screens[c] # "linked"
  BY DEF Screens, OnScreen, LinkInv
<1>5. /\ r \in {"waiting", "linked", "unrecorded", "over"}
      /\ r \in {"linked", "unrecorded"} => c \in bound
      /\ r = "waiting" => c \in ShowedQr
  BY <1>1 DEF States, OpenStates
<1>6. UNCHANGED ShowedQr
  BY DEF ShowedQr
<1>7. Promise!Tell(c, r)
  BY <1>3, <1>4, <1>5, <1>6 DEF Promise!Tell, Screens, ShowedQr
<1> QED BY <1>5, <1>7 DEF Promise!Next

LEMMA TriggerPromiseStep ==
  TriggerInv /\ LinkInv /\ TaskInv /\ [Next]_vars => [Promise!Next]_(Promise!vars)
<1> SUFFICES ASSUME TypeOK, ClientInv, ResultInv, LinkInv, TaskInv, [Next]_vars
             PROVE  [Promise!Next]_(Promise!vars)
  BY DEF TriggerInv
<1>1. ASSUME NEW c \in Challenges,
             \/ Start(c) \/ Wipe(c) \/ LoadClient(c) \/ ConnectOk(c) \/ ConnectFail(c)
             \/ TakeCancel(c) \/ ReadState(c) \/ CancelToken(c)
      PROVE  [Promise!Next]_(Promise!vars)
  BY <1>1, ScreenUnseen
  DEF Start, Wipe, LoadClient, ConnectOk, ConnectFail, TakeCancel, ReadState, CancelToken
<1>2. ASSUME NEW c \in Challenges, WriteOk(c) \/ Stamp(c) PROVE [Promise!Next]_(Promise!vars)
  <2>1. /\ phase[c] \in {"verdict", "stamp"} /\ UNCHANGED <<fired, bound, screen>>
        /\ \A d \in Challenges \ {c} : d \in unwritten <=> d \in unwritten'
    BY <1>2 DEF WriteOk, Stamp, Update, Move
  <2>2. screen[c].state # "Linked"
    BY <2>1 DEF LinkInv
  <2> QED BY <2>1, <2>2, ScreenUnseen
<1>3. ASSUME NEW c \in Challenges, OnQr(c) PROVE Promise!Next
  <2>1. /\ c \notin bound /\ UNCHANGED <<bound, screen, unwritten>>
        /\ fired' = [fired EXCEPT ![c] = fired[c] + 1]
    BY <1>3 DEF OnQr
  <2>2. ShowedQr' = ShowedQr \cup {c}
    <3>1. \A d \in Challenges :
            fired[d] \in Nat /\ fired'[d] = IF d = c THEN fired[d] + 1 ELSE fired[d]
      BY <2>1, TriggerAssumption DEF TypeOK
    <3> QED BY <3>1 DEF ShowedQr
  <2>3. UNCHANGED Screens
    BY <2>1 DEF Screens, OnScreen
  <2> QED BY <2>1, <2>2, <2>3 DEF Promise!Next, Promise!ShowQr, ShowedQr, Screens
<1>4. ASSUME NEW c \in Challenges, Scan(c) PROVE Promise!Next
  <2>1. c \in ShowedQr \ bound /\ bound' = bound \cup {c} /\ UNCHANGED <<fired, screen, unwritten>>
    BY <1>4 DEF Scan, ShowedQr
  <2>2. UNCHANGED <<ShowedQr, Screens>>
    BY <2>1 DEF ShowedQr, Screens, OnScreen
  <2> QED BY <2>1, <2>2 DEF Promise!Next, Promise!Scan, ShowedQr, Screens
<1>5. ASSUME NEW c \in Challenges, PushQr(c) PROVE Promise!Next
  <2>1. /\ phase[c] = "qr" /\ c \in ShowedQr /\ UNCHANGED <<fired, bound, unwritten>>
        /\ screen' = [screen EXCEPT ![c] = Status("QrReady", FALSE)]
    BY <1>5 DEF PushQr, Move, TaskInv, ShowedQr
  <2>2. Status("QrReady", FALSE) \in Statuses /\ Status("QrReady", FALSE).state = "QrReady"
    BY StatusType DEF States
  <2> QED BY <2>1, <2>2, ScreenTells
<1>6. ASSUME NEW c \in Challenges, Push(c) PROVE Promise!Next
  <2>1. /\ phase[c] = "notify" /\ UNCHANGED <<fired, bound, unwritten>>
        /\ screen' = [screen EXCEPT ![c] = Result(c)]
    BY <1>6 DEF Push, Move
  <2>2. /\ Result(c) \in Statuses
        /\ Result(c).state = "Linked" => c \in bound
        /\ Result(c).state = "Linked" \/ Result(c).error
    BY <2>1, ResultFacts DEF ResultInv
  <2> QED BY <2>1, <2>2, ScreenTells DEF OpenStates
<1>7. ASSUME NEW c \in Challenges, Close(c) PROVE Promise!Next
  <2>1. PICK s \in {"Cancelled", "Expired"} : screen' = [screen EXCEPT ![c] = Status(s, FALSE)]
    BY <1>7 DEF Close
  <2>2. Status(s, FALSE) \in Statuses /\ Status(s, FALSE).state = s
    BY StatusType DEF States
  <2>3. store[c].state # "Linked" /\ UNCHANGED <<fired, bound, unwritten>>
    BY <1>7 DEF Close
  <2> QED BY <2>1, <2>2, <2>3, ScreenTells DEF OpenStates
<1>8. CASE UNCHANGED vars
  BY <1>8, ScreenUnseen DEF vars
<1> QED
  BY <1>1, <1>2, <1>3, <1>4, <1>5, <1>6, <1>7, <1>8 DEF Next, Wa, Task, Dispatcher

\* The trigger keeps the promise of pairing: the operator's screen says
\* linked only of a scanned QR of that challenge, and nothing that the task,
\* a late QR or the dispatcher does afterwards takes back what the store has.
THEOREM TriggerKeepsPromise == Spec => PromiseSpec
<1>1. Init => Promise!Init
  <2> SUFFICES ASSUME Init PROVE Promise!Init
    OBVIOUS
  <2>1. /\ Status("Pending", FALSE).state = "Pending"
        /\ Status("Pending", FALSE).error = FALSE
    BY DEF Status
  <2>2. \A c \in Challenges : OnScreen(c) = "waiting"
    BY <2>1 DEF Init, OnScreen
  <2>3. \A c \in Challenges : ~(fired[c] > 0)
    <3>1. \A c \in Challenges : fired[c] = 0
      BY DEF Init
    <3>2. ~(0 > 0)
      OBVIOUS
    <3> QED BY <3>1, <3>2
  <2> QED BY <2>2, <2>3 DEF Init, Promise!Init
<1> QED
  BY <1>1, TriggerPromiseStep, LinkInvariant, TaskInvariant, PTL
  DEF Spec, PromiseSpec, Promise!Spec
=============================================================================
