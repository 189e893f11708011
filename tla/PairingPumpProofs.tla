------------------------- MODULE PairingPumpProofs -------------------------
(***************************************************************************)
(* Theorems about PairingPump, for every value of its constants.           *)
(*                                                                         *)
(* RegistryInv says what the registry and the admin task hold: an entry is *)
(* always the newest pump of its challenge, so the entry that the end of a *)
(* pump removes is its own or that of a pump started later.  LinkInv ties  *)
(* a pump's verdict to the QRs it fired, to its scan and to the disk.      *)
(***************************************************************************)
EXTENDS PairingPump, TLAPS

\* Pumps are numbered in the order the admin task spawns them.
Born ==
  /\ \A p \in Pumps : p <= started <=> stage[p] # "unborn"
  /\ \A p \in Pumps : p <= started => challenge[p] \in Challenges
  /\ admin.at \in {"wipe", "spawn"} => started < MaxPumps
  /\ admin.at = "insert" =>
       /\ started \in Pumps /\ challenge[started] = admin.c
       /\ registry[admin.c] = NoPump

\* An entry is the newest pump of its challenge.
Newest ==
  \A c \in Challenges : registry[c] # NoPump =>
    /\ registry[c] <= started /\ challenge[registry[c]] = c
    /\ \A q \in Pumps : q <= started /\ challenge[q] = c => q <= registry[c]

RegistryInv == TypeOK /\ Born /\ Newest /\ OnlyRestartsOrphan

LEMMA RegistryInit == Init => RegistryInv
BY PumpAssumption, SMT
DEF Init, RegistryInv, TypeOK, Born, Newest, OnlyRestartsOrphan, Live, AdminIdle, AdminStates,
    Pumps, NoPump, Stages, Clients, Publishers, Verdicts

\* Every step keeps the types.
LEMMA TypeStep == TypeOK /\ Born /\ [Next]_vars => TypeOK'
<1> SUFFICES ASSUME TypeOK, Born, [Next]_vars PROVE TypeOK'
  OBVIOUS
<1> USE PumpAssumption DEF TypeOK, Pumps, NoPump, Stages, Clients, Publishers, Verdicts,
        AdminStates, AdminIdle, qrVars, adminVars
<1>1. ASSUME NEW c \in Challenges, Start(c) PROVE TypeOK'
  BY <1>1 DEF Start
<1>2. ASSUME NEW c \in Challenges, Cancel(c) PROVE TypeOK'
  BY <1>2 DEF Cancel
<1>3. CASE Wipe
  BY <1>3 DEF Wipe
<1>4. CASE Spawn
  BY <1>4 DEF Spawn, Born
<1>5. CASE Insert
  BY <1>5 DEF Insert, Born
<1>6. ASSUME NEW p \in Pumps, Wa(p) PROVE TypeOK'
  <2>1. CASE LoadClient(p)
    BY <2>1 DEF LoadClient, Connecting
  <2>2. CASE FireQr(p)
    BY <2>2 DEF FireQr, Connecting
  <2>3. CASE Scan(p)
    BY <2>3 DEF Scan, Connecting
  <2>4. CASE ConnectOk(p)
    BY <2>4 DEF ConnectOk, Connecting
  <2>5. CASE ConnectFail(p)
    BY <2>5 DEF ConnectFail, Connecting
  <2> QED
    BY <1>6, <2>1, <2>2, <2>3, <2>4, <2>5 DEF Wa
<1>7. ASSUME NEW p \in Pumps, Task(p) PROVE TypeOK'
  <2>1. CASE TakeCancel(p)
    BY <2>1 DEF TakeCancel, Abort
  <2>2. CASE Drain(p)
    BY <2>2 DEF Drain, Abort
  <2>3. CASE Report(p)
    BY <2>3 DEF Report
  <2>4. CASE Unregister(p)
    BY <2>4 DEF Unregister
  <2> QED
    BY <1>7, <2>1, <2>2, <2>3, <2>4 DEF Task
<1>8. ASSUME NEW p \in Pumps, Publisher(p) PROVE TypeOK'
  <2>1. CASE Forward(p)
    BY <2>1 DEF Forward
  <2>2. CASE PublisherEnds(p)
    BY <2>2 DEF PublisherEnds
  <2> QED
    BY <1>8, <2>1, <2>2 DEF Publisher
<1>9. CASE UNCHANGED vars
  BY <1>9 DEF vars
<1> QED
  BY <1>1, <1>2, <1>3, <1>4, <1>5, <1>6, <1>7, <1>8, <1>9 DEF Next, Admin

LEMMA PumpFacts == NoPump \notin Pumps /\ \A p \in Pumps : p \in Nat /\ p # 0
BY DEF Pumps, NoPump

\* Steps of wa-agent, the publisher and the timid part of a task leave what
\* RegistryInv reads alone, but for a pump that leaves its select.
LEMMA QuietStep ==
  ASSUME RegistryInv, TypeOK', NEW p \in Pumps,
         UNCHANGED <<admin, started, challenge, registry, cancelled>>,
         stage[p] \notin {"unborn", "done"},
         \E to \in Stages \ {"unborn", "select"} : stage' = [stage EXCEPT ![p] = to]
  PROVE  RegistryInv'
<1> USE PumpFacts DEF RegistryInv, TypeOK, Stages
<1>1. PICK to \in Stages \ {"unborn", "select"} : stage' = [stage EXCEPT ![p] = to]
  OBVIOUS
<1>2. \A q \in Pumps : stage'[q] = IF q = p THEN to ELSE stage[q]
  BY <1>1
<1>3. Born'
  BY <1>2 DEF Born
<1>4. Newest'
  BY DEF Newest
<1>5. OnlyRestartsOrphan'
  BY <1>2 DEF OnlyRestartsOrphan, Live, Registered
<1> QED
  BY <1>3, <1>4, <1>5

\* Every step keeps RegistryInv.
LEMMA RegistryStep == RegistryInv /\ [Next]_vars => RegistryInv'
<1> SUFFICES ASSUME RegistryInv, [Next]_vars PROVE RegistryInv'
  OBVIOUS
<1>0. TypeOK'
  BY TypeStep DEF RegistryInv
<1> USE <1>0, PumpFacts DEF RegistryInv, TypeOK
<1>1. ASSUME NEW c \in Challenges, Start(c) PROVE RegistryInv'
  BY <1>1 DEF Start, Born, Newest, OnlyRestartsOrphan, Live, Registered, qrVars
<1>2. ASSUME NEW c \in Challenges, Cancel(c) PROVE RegistryInv'
  <2>1. /\ \A d \in Challenges : registry'[d] = IF d = c THEN NoPump ELSE registry[d]
        /\ \A q \in Pumps : cancelled'[q] = (q = registry[c] \/ cancelled[q])
        /\ UNCHANGED <<admin, started, challenge, stage>>
    BY <1>2 DEF Cancel, adminVars
  <2>2. Born' /\ Newest'
    BY <2>1, <1>2 DEF Born, Newest, Cancel
  <2>3. OnlyRestartsOrphan'
    BY <2>1, <1>2 DEF Born, Newest, OnlyRestartsOrphan, Live, Registered, Cancel
  <2> QED
    BY <2>2, <2>3
<1>3. CASE Wipe
  BY <1>3 DEF Wipe, Born, Newest, OnlyRestartsOrphan, Live, Registered, qrVars
<1>4. CASE Spawn
  <2> DEFINE n == started + 1
  <2> USE DEF AdminStates
  <2>0. n \in Pumps /\ started \in Nat
    BY <1>4, PumpAssumption DEF Spawn, Born, Pumps
  <2>1. /\ admin.c \in Challenges
        /\ admin' = [at |-> "insert", c |-> admin.c] /\ started' = n
        /\ \A q \in Pumps : challenge'[q] = IF q = n THEN admin.c ELSE challenge[q]
        /\ \A q \in Pumps : stage'[q] = IF q = n THEN "select" ELSE stage[q]
        /\ \A q \in Pumps : cancelled'[q] = (cancelled[q] \/ q = registry[admin.c])
        /\ \A d \in Challenges : registry'[d] = IF d = admin.c THEN NoPump ELSE registry[d]
    BY <1>4, <2>0 DEF Spawn
  <2>2. /\ \A q \in Pumps : q <= n <=> q <= started \/ q = n
        /\ ~(n <= started) /\ admin.at = "spawn" /\ admin'.at = "insert" /\ admin'.c = admin.c
    BY <1>4, <2>0, <2>1 DEF Spawn
  <2> HIDE DEF n
  <2>3. Born'
    BY <2>0, <2>1, <2>2 DEF Born
  <2>4. Newest'
    <3> SUFFICES ASSUME NEW c \in Challenges, registry'[c] # NoPump
                 PROVE  /\ registry'[c] <= started' /\ challenge'[registry'[c]] = c
                        /\ \A q \in Pumps : q <= started' /\ challenge'[q] = c => q <= registry'[c]
      BY DEF Newest
    <3>1. c # admin.c /\ registry'[c] = registry[c] /\ registry[c] \in Pumps
      BY <2>1
    <3>2. /\ registry[c] <= started /\ challenge[registry[c]] = c
          /\ \A q \in Pumps : q <= started /\ challenge[q] = c => q <= registry[c]
      BY <3>1 DEF Newest
    <3>3. registry[c] <= n /\ registry[c] # n
      BY <2>2, <3>1, <3>2
    <3>4. ASSUME NEW q \in Pumps, q <= started', challenge'[q] = c PROVE q <= registry[c]
      <4>1. challenge'[n] = admin.c
        BY <2>0, <2>1
      <4>2. q <= started /\ q # n
        BY <2>1, <2>2, <3>1, <3>4, <4>1
      <4> QED
        BY <2>1, <3>2, <3>4, <4>2
    <3>5. challenge'[registry[c]] = c
      BY <2>1, <3>1, <3>2, <3>3
    <3> QED
      BY <2>1, <3>1, <3>3, <3>4, <3>5
  <2>5. OnlyRestartsOrphan'
    <3> SUFFICES ASSUME NEW p \in Pumps, Live(p)', ~Registered(p)'
                 PROVE  \E q \in Pumps :
                          q < p /\ challenge'[q] = challenge'[p] /\ stage'[q] = "done"
      BY DEF OnlyRestartsOrphan
    <3>1. p # n
      BY <2>1 DEF Registered
    <3>2. stage[p] = "select" /\ challenge'[p] = challenge[p] /\ challenge[p] \in Challenges
      BY <2>1, <3>1 DEF Live, Born
    <3>3. Live(p) /\ ~Registered(p)
      BY <2>1, <2>2, <3>1, <3>2 DEF Live, Registered
    <3>4. PICK q \in Pumps : q < p /\ challenge[q] = challenge[p] /\ stage[q] = "done"
      BY <3>3 DEF OnlyRestartsOrphan
    <3>5. q # n
      BY <2>0, <2>2, <3>4 DEF Born
    <3> QED
      BY <2>1, <3>1, <3>4, <3>5
  <2> QED
    BY <2>3, <2>4, <2>5
<1>5. CASE Insert
  <2> USE DEF AdminStates, AdminIdle
  <2>1. /\ admin.at = "insert" /\ admin.c \in Challenges /\ admin'.at = "idle"
        /\ \A d \in Challenges : registry'[d] = IF d = admin.c THEN started ELSE registry[d]
        /\ UNCHANGED <<started, challenge, cancelled, stage>>
    BY <1>5 DEF Insert
  <2>2. Born' /\ Newest'
    BY <2>1 DEF Born, Newest
  <2>3. OnlyRestartsOrphan'
    BY <2>1 DEF Born, OnlyRestartsOrphan, Live, Registered
  <2> QED
    BY <2>2, <2>3
<1>6. ASSUME NEW p \in Pumps, Wa(p) PROVE RegistryInv'
  <2>1. CASE ConnectOk(p) \/ ConnectFail(p)
    BY <2>1, QuietStep DEF ConnectOk, ConnectFail, Connecting, adminVars, Stages
  <2>2. CASE LoadClient(p) \/ FireQr(p) \/ Scan(p)
    BY <2>2 DEF LoadClient, FireQr, Scan, Connecting, Born, Newest, OnlyRestartsOrphan,
                Live, Registered, adminVars
  <2> QED
    BY <1>6, <2>1, <2>2 DEF Wa
<1>7. ASSUME NEW p \in Pumps, Task(p) PROVE RegistryInv'
  <2>1. CASE TakeCancel(p) \/ Drain(p) \/ Report(p)
    BY <2>1, QuietStep DEF TakeCancel, Drain, Report, adminVars, Stages
  <2>2. CASE Unregister(p)
    <3>1. /\ \A q \in Pumps : stage'[q] = IF q = p THEN "done" ELSE stage[q]
          /\ \A d \in Challenges :
               registry'[d] = IF d = challenge[p] THEN NoPump ELSE registry[d]
          /\ UNCHANGED <<admin, started, challenge, cancelled>> /\ stage[p] = "unregister"
      BY <2>2 DEF Unregister, adminVars
    <3>2. Born' /\ Newest'
      BY <3>1 DEF Born, Newest
    <3>3. OnlyRestartsOrphan'
      BY <3>1 DEF Born, Newest, OnlyRestartsOrphan, Live, Registered
    <3> QED
      BY <3>2, <3>3
  <2> QED
    BY <1>7, <2>1, <2>2 DEF Task
<1>8. ASSUME NEW p \in Pumps, Publisher(p) PROVE RegistryInv'
  BY <1>8 DEF Publisher, Forward, PublisherEnds, Born, Newest, OnlyRestartsOrphan, Live,
              Registered, adminVars
<1>9. CASE UNCHANGED vars
  BY <1>9 DEF vars, Born, Newest, OnlyRestartsOrphan, Live, Registered
<1> QED
  BY <1>1, <1>2, <1>3, <1>4, <1>5, <1>6, <1>7, <1>8, <1>9 DEF Next, Admin

\* What a pump has fired, scanned and reported, and what is left on disk.
Fired(p) ==
  /\ fired[p] > 0 /\ p \notin bound => client[p] \in {"fresh", "error"}
  /\ p \in bound => fired[p] > 0 /\ p <= started
  /\ stage[p] = "report" => client[p] \in {"ok", "error"}
  /\ stage[p] = "drain" => client[p] \in {"ok", "error"}
Reported(p) ==
  /\ verdict[p] # "none" => stage[p] \in {"unregister", "done"}
  /\ verdict[p] = "linked" => p \in bound
  /\ verdict[p] = "resumed" => p \notin bound
  /\ stage[p] \in {"unregister", "done"} /\ verdict[p] = "none" => cancelled[p]
Replaced(p) ==
  \/ \E q \in Pumps \ {p} : q <= started /\ DirOfPump(q) = DirOfPump(p)
  \/ admin.at = "spawn" /\ DirOf[admin.c] = DirOfPump(p)
OnDisk(p) == p \in bound /\ creds[DirOfPump(p)] # p => Replaced(p)
LinkInv == \A p \in Pumps : Fired(p) /\ Reported(p) /\ OnDisk(p)

LEMMA LinkInit == Init => LinkInv
BY DEF Init, LinkInv, Fired, Reported, OnDisk

\* Every step keeps what the QRs and the scans of a pump say of its verdict.
LEMMA FlowStep ==
  ASSUME RegistryInv, LinkInv, [Next]_vars, RegistryInv'
  PROVE  \A p \in Pumps : Fired(p)' /\ Reported(p)'
<1> SUFFICES ASSUME NEW p \in Pumps PROVE Fired(p)' /\ Reported(p)'
  OBVIOUS
<1> USE PumpFacts, PumpAssumption DEF RegistryInv, TypeOK, LinkInv, Fired, Reported
<1>1. ASSUME NEW c \in Challenges, Start(c) PROVE Fired(p)' /\ Reported(p)'
  BY <1>1 DEF Start, qrVars
<1>2. ASSUME NEW c \in Challenges, Cancel(c) PROVE Fired(p)' /\ Reported(p)'
  BY <1>2 DEF Cancel, adminVars, qrVars
<1>3. CASE Wipe
  BY <1>3 DEF Wipe, qrVars
<1>4. CASE Spawn
  <2>1. stage'[p] = stage[p] \/ stage'[p] = "select"
    BY <1>4 DEF Spawn
  <2>2. started' = started + 1 /\ started \in Nat
    BY <1>4 DEF Spawn
  <2>3. stage[p] = "select" \/ stage'[p] = stage[p] \/ stage[p] = "unborn"
    BY <1>4, PumpAssumption DEF Spawn, Born, Pumps
  <2> QED
    BY <1>4, <2>1, <2>2, <2>3 DEF Spawn, qrVars
<1>5. CASE Insert
  BY <1>5 DEF Insert, qrVars
<1>6. ASSUME NEW q \in Pumps, Wa(q) PROVE Fired(p)' /\ Reported(p)'
  <2>1. CASE LoadClient(q)
    BY <2>1 DEF LoadClient, Connecting, adminVars, qrVars
  <2>2. CASE FireQr(q)
    BY <2>2 DEF FireQr, Connecting, adminVars
  <2>3. CASE Scan(q)
    BY <2>3 DEF Scan, Connecting, adminVars, qrVars, Born
  <2>4. CASE ConnectOk(q) \/ ConnectFail(q)
    BY <2>4 DEF ConnectOk, ConnectFail, Connecting, adminVars, qrVars
  <2> QED
    BY <1>6, <2>1, <2>2, <2>3, <2>4 DEF Wa
<1>7. ASSUME NEW q \in Pumps, Task(q) PROVE Fired(p)' /\ Reported(p)'
  <2>1. CASE TakeCancel(q)
    BY <2>1 DEF TakeCancel, adminVars, qrVars
  <2>2. CASE Drain(q)
    BY <2>2 DEF Drain, adminVars, qrVars
  <2>3. CASE Report(q)
    BY <2>3 DEF Report, adminVars, qrVars
  <2>4. CASE Unregister(q)
    BY <2>4 DEF Unregister, adminVars, qrVars
  <2> QED
    BY <1>7, <2>1, <2>2, <2>3, <2>4 DEF Task
<1>8. ASSUME NEW q \in Pumps, Publisher(q) PROVE Fired(p)' /\ Reported(p)'
  BY <1>8 DEF Publisher, Forward, PublisherEnds, adminVars, qrVars
<1>9. CASE UNCHANGED vars
  BY <1>9 DEF vars
<1> QED
  BY <1>1, <1>2, <1>3, <1>4, <1>5, <1>6, <1>7, <1>8, <1>9 DEF Next, Admin

\* A scan's credentials stay unless another request pairs the directory.
LEMMA DiskStep ==
  ASSUME RegistryInv, LinkInv, [Next]_vars, RegistryInv'
  PROVE  \A p \in Pumps : OnDisk(p)'
<1> SUFFICES ASSUME NEW p \in Pumps, p \in bound', creds'[DirOfPump(p)'] # p
             PROVE  Replaced(p)'
  BY DEF OnDisk
<1> USE PumpFacts, PumpAssumption DEF RegistryInv, TypeOK, DirOfPump
<1>1. CASE \E c \in Challenges : Start(c) \/ Cancel(c)
  BY <1>1 DEF Start, Cancel, adminVars, LinkInv, OnDisk, Replaced
<1>2. CASE Wipe
  <2>1. /\ admin.at = "wipe" /\ admin'.at = "spawn" /\ admin'.c = admin.c
        /\ UNCHANGED <<started, challenge, bound>>
    BY <1>2 DEF Wipe
  <2>2. CASE creds[DirOfPump(p)] # p
    BY <2>1, <2>2 DEF LinkInv, OnDisk, Replaced
  <2>3. CASE creds[DirOfPump(p)] = p
    <3>1. DirOfPump(p) \in Dirs
      BY <2>1 DEF LinkInv, Fired, Born
    <3>2. DirOf[admin.c] = DirOfPump(p)
      BY <1>2, <2>1, <2>3, <3>1 DEF Wipe
    <3> QED
      BY <2>1, <3>2 DEF Replaced
  <2> QED
    BY <2>2, <2>3
<1>3. CASE Spawn
  <2> DEFINE n == started + 1
  <2>1. n \in Pumps /\ n # p /\ p <= started /\ started' = n
    BY <1>3 DEF Spawn, Born, Pumps, LinkInv, Fired
  <2>2. /\ admin.c \in Challenges /\ admin.at = "spawn"
        /\ \A q \in Pumps : challenge'[q] = IF q = n THEN admin.c ELSE challenge[q]
        /\ UNCHANGED <<creds, bound>>
    BY <1>3, <2>1 DEF Spawn, AdminStates
  <2>3. Replaced(p)
    BY <2>1, <2>2 DEF LinkInv, OnDisk
  <2>4. CASE DirOf[admin.c] = DirOf[challenge[p]]
    BY <2>1, <2>2, <2>4 DEF Replaced
  <2>5. CASE \E q \in Pumps \ {p} : q <= started /\ DirOfPump(q) = DirOfPump(p)
    BY <2>1, <2>2, <2>5 DEF Replaced
  <2> QED
    BY <2>2, <2>3, <2>4, <2>5 DEF Replaced
<1>4. CASE Insert
  BY <1>4 DEF Insert, LinkInv, OnDisk, Replaced
<1>5. ASSUME NEW q \in Pumps, Wa(q) PROVE Replaced(p)'
  <2>1. UNCHANGED <<admin, started, challenge>>
    BY <1>5 DEF Wa, LoadClient, FireQr, Scan, ConnectOk, ConnectFail, Connecting, adminVars
  <2>2. CASE Scan(q)
    <3>1. q <= started
      BY <2>2 DEF Scan, Connecting, Born
    <3>2. CASE q # p /\ DirOfPump(q) = DirOfPump(p)
      BY <2>1, <3>1, <3>2 DEF Replaced
    <3>3. CASE q = p
      <4>1. challenge[p] \in Challenges
        BY <3>1, <3>3 DEF Born
      <4> QED
        BY <2>1, <2>2, <3>3, <4>1 DEF Scan
    <3>4. CASE q # p /\ DirOfPump(q) # DirOfPump(p)
      BY <2>1, <2>2, <3>4 DEF Scan, LinkInv, OnDisk, Replaced
    <3> QED
      BY <3>2, <3>3, <3>4
  <2>3. CASE UNCHANGED <<creds, bound>>
    BY <2>1, <2>3 DEF LinkInv, OnDisk, Replaced
  <2> QED
    BY <1>5, <2>2, <2>3 DEF Wa, LoadClient, FireQr, ConnectOk, ConnectFail
<1>6. CASE \E q \in Pumps : Task(q)
  BY <1>6 DEF Task, TakeCancel, Drain, Report, Unregister, adminVars, LinkInv, OnDisk, Replaced
<1>7. CASE \E q \in Pumps : Publisher(q)
  BY <1>7 DEF Publisher, Forward, PublisherEnds, adminVars, LinkInv, OnDisk, Replaced
<1>8. CASE UNCHANGED vars
  BY <1>8 DEF vars, LinkInv, OnDisk, Replaced
<1> QED
  BY <1>1, <1>2, <1>3, <1>4, <1>5, <1>6, <1>7, <1>8 DEF Next, Admin

LEMMA PumpInvariance == Spec => [](RegistryInv /\ LinkInv)
<1>1. Init => RegistryInv /\ LinkInv
  BY RegistryInit, LinkInit
<1>2. RegistryInv /\ LinkInv /\ [Next]_vars => (RegistryInv /\ LinkInv)'
  BY RegistryStep, FlowStep, DiskStep DEF LinkInv
<1> QED
  BY <1>1, <1>2, PTL DEF Spec
-----------------------------------------------------------------------------
\* The types of PairingPump are invariant.
THEOREM PumpTypeCorrect == Spec => []TypeOK
<1>1. RegistryInv => TypeOK
  BY DEF RegistryInv
<1> QED
  BY <1>1, PumpInvariance, PTL

\* A live pump out of pairing_cancel's reach is a restart of its challenge.
THEOREM OrphansAreRestarts == Spec => []OnlyRestartsOrphan
<1>1. RegistryInv => OnlyRestartsOrphan
  BY DEF RegistryInv
<1> QED
  BY <1>1, PumpInvariance, PTL

\* With fresh challenge ids, every live pump can be cancelled.
FreshIds == \A p, q \in Pumps : p <= started /\ q <= started /\ challenge[p] = challenge[q] => p = q
THEOREM FreshIdsAreCancellable == Spec => [](FreshIds => LiveIsRegistered)
<1>1. RegistryInv => (FreshIds => LiveIsRegistered)
  <2> SUFFICES ASSUME RegistryInv, FreshIds, NEW p \in Pumps, Live(p), ~Registered(p)
               PROVE  FALSE
    BY DEF LiveIsRegistered
  <2>1. PICK q \in Pumps : q < p /\ challenge[q] = challenge[p] /\ stage[q] = "done"
    BY DEF RegistryInv, OnlyRestartsOrphan
  <2>2. p <= started /\ q <= started
    BY <2>1 DEF RegistryInv, Born, Live
  <2> QED
    BY <2>1, <2>2, PumpFacts DEF FreshIds
<1> QED
  BY <1>1, PumpInvariance, PTL

\* "linked" is the pump's own scan, and stays so on disk until replaced.
THEOREM LinksHold == Spec => []LinkHolds
<1>1. LinkInv => LinkHolds
  BY DEF LinkInv, Reported, OnDisk, Replaced, LinkHolds
<1> QED
  BY <1>1, PumpInvariance, PTL

\* A pump that was not cancelled ends with a terminal state.
THEOREM PumpsReport == Spec => []NoSilentEnd
<1>1. LinkInv => NoSilentEnd
  BY DEF LinkInv, Reported, NoSilentEnd
<1> QED
  BY <1>1, PumpInvariance, PTL
-----------------------------------------------------------------------------
(***************************************************************************)
(* The refinement of PairingPromise.  Only three actions are visible:      *)
(* FireQr, Scan and Report; LinkInv says what each finds.                  *)
(***************************************************************************)
Shown == {p \in Pumps : fired[p] > 0}
Ends == [p \in Pumps |-> TerminalState(p)]

LEMMA PumpUnseen ==
  ASSUME UNCHANGED <<fired, bound, verdict>>
  PROVE  UNCHANGED Promise!vars
BY DEF Promise!vars, TerminalState

LEMMA PumpPromiseStep ==
  RegistryInv /\ LinkInv /\ [Next]_vars => [Promise!Next]_(Promise!vars)
<1> SUFFICES ASSUME RegistryInv, LinkInv, [Next]_vars
             PROVE  [Promise!Next]_(Promise!vars)
  OBVIOUS
<1>0. TypeOK /\ \A p \in Pumps : Fired(p) /\ Reported(p)
  BY DEF RegistryInv, LinkInv
<1>1. CASE Admin
  BY <1>1, PumpUnseen DEF Admin, Start, Cancel, Wipe, Spawn, Insert, qrVars
<1>2. ASSUME NEW p \in Pumps, Wa(p) PROVE [Promise!Next]_(Promise!vars)
  <2>1. CASE LoadClient(p) \/ ConnectOk(p) \/ ConnectFail(p)
    BY <2>1, PumpUnseen DEF LoadClient, ConnectOk, ConnectFail, Connecting, qrVars
  <2>2. CASE FireQr(p)
    <3>1. /\ p \notin bound /\ UNCHANGED <<bound, verdict>>
          /\ fired' = [fired EXCEPT ![p] = fired[p] + 1]
      BY <2>2 DEF FireQr, Connecting
    <3>2. Shown' = Shown \cup {p}
      <4>1. \A q \in Pumps : fired[q] \in Nat /\ fired'[q] = IF q = p THEN fired[q] + 1 ELSE fired[q]
        BY <1>0, <3>1, PumpAssumption DEF TypeOK
      <4> QED BY <4>1 DEF Shown
    <3>3. UNCHANGED Ends
      BY <3>1 DEF Ends, TerminalState
    <3> QED BY <3>1, <3>2, <3>3 DEF Promise!Next, Promise!ShowQr, Shown, Ends
  <2>3. CASE Scan(p)
    <3>1. /\ p \in Shown \ bound /\ bound' = bound \cup {p} /\ UNCHANGED <<fired, verdict>>
      BY <2>3 DEF Scan, Connecting, Shown, qrVars
    <3>2. UNCHANGED <<Shown, Ends>>
      BY <3>1 DEF Shown, Ends, TerminalState
    <3> QED BY <3>1, <3>2 DEF Promise!Next, Promise!Scan, Shown, Ends
  <2> QED BY <1>2, <2>1, <2>2, <2>3 DEF Wa
<1>3. ASSUME NEW p \in Pumps, Task(p) PROVE [Promise!Next]_(Promise!vars)
  <2>1. CASE TakeCancel(p) \/ Drain(p) \/ Unregister(p)
    BY <2>1, PumpUnseen DEF TakeCancel, Drain, Unregister, qrVars
  <2>2. CASE Report(p)
    <3>1. /\ stage[p] = "report" /\ UNCHANGED <<fired, bound>>
          /\ verdict[p] = "none" /\ client[p] \in {"ok", "error"}
      BY <1>0, <2>2 DEF Report, Fired, Reported, qrVars
    <3>2. PICK v \in {"linked", "resumed", "failed"} :
            /\ verdict' = [verdict EXCEPT ![p] = v]
            /\ v = "linked" => client[p] = "ok" /\ fired[p] # 0
      BY <2>2, <3>1 DEF Report
    <3>3. v = "linked" => p \in bound
      BY <1>0, <3>2, PumpAssumption DEF Fired, TypeOK
    <3>4. PICK s \in {"linked", "over"} :
            /\ Ends' = [Ends EXCEPT ![p] = s]
            /\ s = "linked" => p \in bound
      <4>1. /\ verdict'[p] = v /\ \A q \in Pumps \ {p} : verdict'[q] = verdict[q]
        BY <1>0, <3>2 DEF TypeOK
      <4> DEFINE s == IF v = "linked" THEN "linked" ELSE "over"
      <4>2. TerminalState(p)' = s
        BY <4>1 DEF TerminalState
      <4>3. \A q \in Pumps \ {p} : TerminalState(q)' = TerminalState(q)
        BY <4>1 DEF TerminalState
      <4>4. Ends' = [Ends EXCEPT ![p] = s]
        BY <4>2, <4>3 DEF Ends
      <4> QED BY <3>3, <4>4
    <3>5. Ends[p] = "waiting" /\ UNCHANGED Shown
      BY <3>1 DEF Ends, TerminalState, Shown
    <3>6. Promise!Tell(p, s)
      BY <3>1, <3>4, <3>5 DEF Promise!Tell, Shown, Ends
    <3> QED BY <3>4, <3>6 DEF Promise!Next
  <2> QED BY <1>3, <2>1, <2>2 DEF Task
<1>4. ASSUME NEW p \in Pumps, Publisher(p) PROVE [Promise!Next]_(Promise!vars)
  BY <1>4, PumpUnseen DEF Publisher, Forward, PublisherEnds, qrVars
<1>5. CASE UNCHANGED vars
  BY <1>5, PumpUnseen DEF vars
<1> QED BY <1>1, <1>2, <1>3, <1>4, <1>5 DEF Next

\* A pump keeps the promise of pairing: it tells its operator one end and
\* never another, and of a link only after a scan of a QR it showed itself.
THEOREM PumpsKeepPromise == Spec => PromiseSpec
<1>1. Init => Promise!Init
  <2> SUFFICES ASSUME Init PROVE Promise!Init
    OBVIOUS
  <2>1. \A p \in Pumps : ~(fired[p] > 0) /\ TerminalState(p) = "waiting"
    BY DEF Init, TerminalState
  <2> QED BY <2>1 DEF Init, Promise!Init
<1> QED
  BY <1>1, PumpPromiseStep, PumpInvariance, PTL DEF Spec, PromiseSpec, Promise!Spec
-----------------------------------------------------------------------------
(***************************************************************************)
(* The safety halves of QrReachesOperator and CancelStops.                 *)
(***************************************************************************)
\* While a pump pairs, its publisher runs and is never ahead of the QRs; and
\* only a pump that was spawned can be cancelled.
ServeInv ==
  \A p \in Pumps :
    /\ forwarded[p] <= fired[p]
    /\ stage[p] = "select" => publisher[p] = "running"
    /\ cancelled[p] => stage[p] # "unborn"

LEMMA ServeStep == RegistryInv /\ ServeInv /\ [Next]_vars => ServeInv'
<1> SUFFICES ASSUME RegistryInv, ServeInv, [Next]_vars, NEW p \in Pumps
             PROVE  /\ forwarded'[p] <= fired'[p]
                    /\ stage'[p] = "select" => publisher'[p] = "running"
                    /\ cancelled'[p] => stage'[p] # "unborn"
  BY DEF ServeInv
<1> USE PumpFacts, PumpAssumption DEF ServeInv, RegistryInv, TypeOK
<1>0. fired[p] \in Nat /\ forwarded[p] \in Nat
  BY DEF Pumps
<1>1. CASE \E c \in Challenges : Start(c)
  BY <1>1 DEF Start, qrVars
<1>2. ASSUME NEW c \in Challenges, Cancel(c)
      PROVE  /\ UNCHANGED <<fired, forwarded, stage, publisher>>
             /\ cancelled'[p] => stage[p] # "unborn"
  BY <1>2 DEF Cancel, qrVars, Born, Newest
<1>3. CASE Wipe \/ Insert
  BY <1>3 DEF Wipe, Insert, qrVars
<1>4. CASE Spawn
  <2>1. /\ UNCHANGED <<fired, forwarded>> /\ admin.c \in Challenges /\ started + 1 \in Pumps
        /\ stage' = [stage EXCEPT ![started + 1] = "select"]
        /\ publisher' = [publisher EXCEPT ![started + 1] = "running"]
        /\ cancelled' = [q \in Pumps |-> cancelled[q] \/ q = registry[admin.c]]
    BY <1>4 DEF Spawn, qrVars, Born, AdminStates, AdminIdle, Pumps
  <2>2. cancelled'[p] => stage[p] # "unborn"
    BY <2>1 DEF Born, Newest
  <2> QED BY <2>1, <2>2
<1>5. ASSUME NEW q \in Pumps, Wa(q) PROVE ServeInv'
  <2>1. CASE FireQr(q)
    <3>1. /\ UNCHANGED <<forwarded, stage, publisher, cancelled>>
          /\ fired' = [fired EXCEPT ![q] = @ + 1]
      BY <2>1 DEF FireQr, Connecting, adminVars
    <3>2. \A r \in Pumps : fired[r] \in Nat /\ forwarded[r] \in Nat
      BY DEF Pumps
    <3> QED BY <3>1, <3>2
  <2>2. CASE LoadClient(q) \/ Scan(q) \/ ConnectOk(q) \/ ConnectFail(q)
    BY <2>2 DEF LoadClient, Scan, ConnectOk, ConnectFail, Connecting, adminVars, qrVars
  <2> QED BY <1>5, <2>1, <2>2 DEF Wa
<1>6. ASSUME NEW q \in Pumps, Task(q) PROVE ServeInv'
  BY <1>6 DEF Task, TakeCancel, Drain, Report, Unregister, Abort, adminVars, qrVars
<1>7. ASSUME NEW q \in Pumps, Publisher(q) PROVE ServeInv'
  <2>1. CASE Forward(q)
    <3>1. /\ UNCHANGED <<fired, stage, publisher, cancelled>> /\ forwarded[q] < fired[q]
          /\ forwarded' = [forwarded EXCEPT ![q] = @ + 1]
      BY <2>1 DEF Forward, adminVars
    <3>2. \A r \in Pumps : fired[r] \in Nat /\ forwarded[r] \in Nat
      BY DEF Pumps
    <3> QED BY <3>1, <3>2
  <2>2. CASE PublisherEnds(q)
    BY <2>2 DEF PublisherEnds, adminVars, qrVars
  <2> QED BY <1>7, <2>1, <2>2 DEF Publisher
<1>8. CASE UNCHANGED vars
  BY <1>8 DEF vars
<1> QED
  BY <1>1, <1>2, <1>3, <1>4, <1>5, <1>6, <1>7, <1>8 DEF Next, Admin

\* Whenever a QR waits while its pump pairs, the publisher is there to take
\* it; and a cancelled pump is a task with a next step of its own, which
\* waits for no answer of wa-agent's.
PumpsCanMove ==
  \A p \in Pumps :
    /\ stage[p] = "select" /\ forwarded[p] # fired[p] =>
         publisher[p] = "running" /\ forwarded[p] < fired[p]
    /\ cancelled[p] => stage[p] \in {"select", "drain", "report", "unregister", "done"}

\* No QR is ever stuck behind a publisher that left, and no cancelled pump
\* waits for a step that may not come.
THEOREM PumpsAreServed == Spec => []PumpsCanMove
<1>1. Init => ServeInv
  BY DEF Init, ServeInv
<1>2. RegistryInv /\ ServeInv => PumpsCanMove
  <2> SUFFICES ASSUME TypeOK, ServeInv PROVE PumpsCanMove
    BY DEF RegistryInv
  <2>1. \A p \in Pumps : fired[p] \in Nat /\ forwarded[p] \in Nat /\ stage[p] \in Stages
    BY PumpAssumption DEF TypeOK
  <2> QED BY <2>1 DEF ServeInv, PumpsCanMove, Stages
<1> QED BY <1>1, <1>2, ServeStep, PumpInvariance, PTL DEF Spec
=============================================================================
