-------------------------- MODULE ConnStateProofs --------------------------
(***************************************************************************)
(* Proofs about module ConnState, for every capacity of the channel and    *)
(* every number of events.  The properties follow from an inductive        *)
(* invariant: PosInv relates the receiver's position, the event in hand    *)
(* and the sets of missed and told events; LifeInv says that LifecycleState*)
(* follows the applied events at all times, PairInv where PairingState may *)
(* be behind it, which is only between two awaits of an arm.               *)
(***************************************************************************)
EXTENDS ConnState, TLAPS

InHand == {"arm", "jid", "attempt", "publish"}

\* No position twice, and none after a later one.
ToldInOrder == \A a, b \in 1..Len(told) : a < b => told[a] < told[b]

PosInv ==
  /\ at = "spawned" <=> next = 0
  /\ next <= Len(sent) + 1
  /\ cur # 0 <=> at \in InHand
  /\ cur # 0 => cur + 1 = next
  /\ cur \notin missed /\ cur \notin Range(told)
  /\ \A i \in missed : i < next
  /\ \A i \in Range(told) : i < next /\ i \notin missed /\ sent[i] \in Lifecycle
  /\ lock = "forwarder" <=> at \in {"jid", "attempt"}
  /\ at = "publish" => sent[cur] \in Lifecycle
  /\ at = "jid" => sent[cur] = "connected"
  /\ at = "attempt" => sent[cur] = "reconnecting"

LifeInv ==
  /\ \E n \in 0..Len(sent) :
       IsLast(n, Transitions) /\ (life.up <=> n # 0 /\ sent[n] = "connected")
  /\ life.jid <=> \E i \in Applied : sent[i] = "connected"
  /\ IsLast(life.attempt, {"reconnecting"})
  /\ IsLast(life.seen, Kinds \ {"aside"})

PairInv ==
  /\ pair.up = life.up
  /\ at # "jid" => pair.jid = life.jid
  /\ at # "attempt" => pair.attempt = life.attempt
  /\ at = "jid" => life.jid
  /\ at = "attempt" => life.attempt = cur

IInv == TypeOK /\ PosInv /\ LifeInv /\ PairInv

LEMMA RangeOfAppend ==
  ASSUME NEW s \in Seq(Nat), NEW e \in Nat
  PROVE  Append(s, e) \in Seq(Nat) /\ Range(Append(s, e)) = Range(s) \cup {e}
<1> DEFINE t == Append(s, e)
<1>1. /\ t \in Seq(Nat) /\ Len(t) = Len(s) + 1 /\ t[Len(s) + 1] = e
      /\ \A i \in 1..Len(s) : t[i] = s[i]
      /\ DOMAIN t = 1..Len(t) /\ DOMAIN s = 1..Len(s) /\ Len(s) \in Nat
  OBVIOUS
<1> HIDE DEF t
<1> QED BY <1>1 DEF Range

LEMMA InitInv == Init => IInv
<1> SUFFICES ASSUME Init PROVE IInv
  OBVIOUS
<1> USE DEF Init
<1>0. told \in Seq(Nat) /\ Range(told) = {}
  BY DEF Range
<1>1. TypeOK
  <2>1. sent \in Seq(Kinds)
    OBVIOUS
  <2>2. life \in Lives /\ pair \in Pairs
    BY DEF Lives, Pairs
  <2> QED
    BY <1>0, <2>1, <2>2 DEF TypeOK, Places
<1>2. PosInv
  BY <1>0 DEF PosInv, InHand
<1>3. Applied = {}
  BY DEF Applied
<1>4. LifeInv
  <2>1. \A K : IsLast(0, K)
    BY <1>3 DEF IsLast
  <2>2. 0 \in 0..Len(sent) /\ life.up = FALSE /\ life.jid = FALSE
    OBVIOUS
  <2>3. life.attempt = 0 /\ life.seen = 0
    OBVIOUS
  <2> QED
    BY <1>3, <2>1, <2>2, <2>3 DEF LifeInv
<1>5. PairInv
  BY DEF PairInv
<1> QED
  BY <1>1, <1>2, <1>4, <1>5 DEF IInv

\* A publish adds the event in hand to what was told, or nothing.
LEMMA ToldGrows ==
  ASSUME TypeOK, PosInv, NEW ok \in BOOLEAN, Publish(ok)
  PROVE  /\ at = "publish" /\ cur \in 1..Len(sent) /\ cur + 1 = next
         /\ told' \in Seq(Nat) /\ Range(told') \subseteq 1..Len(sent)
         /\ Range(told') = IF ok THEN Range(told) \cup {cur} ELSE Range(told)
<1>1. at = "publish" /\ cur \in 1..Len(sent) /\ cur + 1 = next
  BY DEF Publish, Go, PosInv, InHand, TypeOK
<1>2. told \in Seq(Nat) /\ Range(told) \subseteq 1..Len(sent) /\ cur \in Nat
  BY DEF TypeOK
<1>3. Append(told, cur) \in Seq(Nat) /\ Range(Append(told, cur)) = Range(told) \cup {cur}
  BY <1>2, RangeOfAppend
<1>4. told' = IF ok THEN Append(told, cur) ELSE told
  BY DEF Publish
<1> QED BY <1>1, <1>2, <1>3, <1>4

(***************************************************************************)
(* The type invariant.                                                     *)
(***************************************************************************)
LEMMA TypeStep == TypeOK /\ PosInv /\ [Next]_vars => TypeOK'
<1> SUFFICES ASSUME TypeOK, PosInv, [Next]_vars PROVE TypeOK'
  OBVIOUS
<1> USE BoundsAssumption DEF TypeOK, Places
<1>1. ASSUME NEW k \in Kinds, Emit(k) PROVE TypeOK'
  BY <1>1 DEF Emit
<1>2. CASE CloseSession \/ Cancel
  BY <1>2 DEF CloseSession, Cancel
<1>3. CASE HealthLock \/ HealthRead
  BY <1>3 DEF HealthLock, HealthRead, HealthMove, feedVars, stateVars
<1>4. CASE Subscribe
  BY <1>4 DEF Subscribe, Go, feedVars, stateVars
<1>5. CASE Recv
  BY <1>5 DEF Recv, Go, feedVars, stateVars
<1>6. CASE RecvLagged
  <2>1. next' \in Nat
    BY <1>6 DEF RecvLagged, Behind
  <2>2. \A i \in next..(Len(sent) - Capacity) : i \in 1..Len(sent)
    BY <1>6 DEF RecvLagged, Behind, PosInv
  <2> QED
    BY <1>6, <2>1, <2>2 DEF RecvLagged, feedVars, stateVars
<1>7. CASE Leave
  BY <1>7 DEF Leave, Go, feedVars, stateVars
<1>8. CASE Aside
  BY <1>8 DEF Aside, Go, feedVars, stateVars
<1>9. CASE Arm
  <2> USE DEF Lives, Pairs
  <2>1. CASE ApplyConnected
    BY <1>9, <2>1 DEF ApplyConnected, Apply, Go, feedVars
  <2>2. CASE ApplyDisconnected
    BY <1>9, <2>2 DEF ApplyDisconnected, Apply, Go, feedVars
  <2>3. CASE ApplyReconnecting
    BY <1>9, <2>3 DEF ApplyReconnecting, Apply, Go, feedVars
  <2>4. CASE ApplyOther
    BY <1>9, <2>4 DEF ApplyOther, Apply, Go, feedVars
  <2> QED
    BY <1>9, <2>1, <2>2, <2>3, <2>4 DEF Arm
<1>10. CASE SetJid \/ SetAttempt
  BY <1>10 DEF SetJid, SetAttempt, Release, Go, feedVars, Pairs
<1>11. ASSUME NEW ok \in BOOLEAN, Publish(ok) PROVE TypeOK'
  <2>1. told' \in Seq(Nat) /\ Range(told') \subseteq 1..Len(sent)
    BY <1>11, ToldGrows
  <2> QED
    BY <1>11, <2>1 DEF Publish, Go, feedVars, stateVars
<1>12. CASE UNCHANGED vars
  BY <1>12 DEF vars
<1> QED
  BY <1>1, <1>2, <1>3, <1>4, <1>5, <1>6, <1>7, <1>8, <1>9, <1>10, <1>11, <1>12
  DEF Next, Forwarder

(***************************************************************************)
(* Positions.                                                              *)
(***************************************************************************)
LEMMA PosStep == TypeOK /\ PosInv /\ [Next]_vars => PosInv'
<1> SUFFICES ASSUME TypeOK, PosInv, [Next]_vars PROVE PosInv'
  OBVIOUS
<1> USE BoundsAssumption DEF TypeOK, PosInv, InHand
<1>1. ASSUME NEW k \in Kinds, Emit(k) PROVE PosInv'
  BY <1>1 DEF Emit
<1>2. CASE CloseSession \/ Cancel
  <2>1. UNCHANGED <<sent, at, next, cur, lock, told, missed>>
    BY <1>2 DEF CloseSession, Cancel
  <2> QED
    BY <2>1
<1>3. CASE HealthLock \/ HealthRead
  <2>1. /\ UNCHANGED <<sent, at, next, cur, told, missed>>
        /\ lock # "forwarder" /\ lock' # "forwarder"
    BY <1>3 DEF HealthLock, HealthRead, HealthMove, feedVars
  <2> QED
    BY <2>1
<1>4. CASE Subscribe
  BY <1>4 DEF Subscribe, Go, feedVars
<1>5. CASE Recv
  BY <1>5 DEF Recv, Go, feedVars, Behind
<1>6. CASE RecvLagged
  BY <1>6 DEF RecvLagged, feedVars, Behind
<1>7. CASE Leave
  BY <1>7 DEF Leave, Go, feedVars
<1>8. CASE Aside
  BY <1>8 DEF Aside, Go, feedVars
<1>9. CASE Arm
  BY <1>9 DEF Arm, ApplyConnected, ApplyDisconnected, ApplyReconnecting, ApplyOther,
                Apply, Go, feedVars, Lifecycle, Transitions
<1>10. CASE SetJid \/ SetAttempt
  BY <1>10 DEF SetJid, SetAttempt, Release, Go, feedVars, Lifecycle, Transitions
<1>11. ASSUME NEW ok \in BOOLEAN, Publish(ok) PROVE PosInv'
  <2>1. /\ at = "publish" /\ cur + 1 = next
        /\ Range(told') = IF ok THEN Range(told) \cup {cur} ELSE Range(told)
    BY <1>11, ToldGrows
  <2>2. cur' = 0 /\ 0 \notin Range(told') /\ at' = "recv"
        /\ UNCHANGED <<next, lock, missed, sent>>
    BY <1>11, ToldGrows DEF Publish, Go, feedVars
  <2> QED
    BY <2>1, <2>2
<1>12. CASE UNCHANGED vars
  BY <1>12 DEF vars
<1> QED
  BY <1>1, <1>2, <1>3, <1>4, <1>5, <1>6, <1>7, <1>8, <1>9, <1>10, <1>11, <1>12
  DEF Next, Forwarder

(***************************************************************************)
(* LifecycleState follows the applied events.  A step that applies nothing *)
(* keeps LifeInv; one that applies the event in hand moves what its kind   *)
(* says.                                                                   *)
(***************************************************************************)
LEMMA LifeFrame ==
  ASSUME TypeOK, LifeInv, life' = life, Applied' = Applied,
         Len(sent') \in Nat, Len(sent) <= Len(sent'),
         \A i \in 1..Len(sent) : sent'[i] = sent[i]
  PROVE  LifeInv'
<1>1. Applied \subseteq 1..Len(sent)
  BY DEF Applied
<1>2. ASSUME NEW n, NEW K, IsLast(n, K) PROVE IsLast(n, K)'
  BY <1>1, <1>2 DEF IsLast
<1>3. PICK n \in 0..Len(sent) :
        IsLast(n, Transitions) /\ (life.up <=> n # 0 /\ sent[n] = "connected")
  BY DEF LifeInv
<1>4. n \in 0..Len(sent') /\ (n # 0 => sent'[n] = sent[n])
  BY DEF TypeOK
<1>5. \E m \in 0..Len(sent') :
        IsLast(m, Transitions)' /\ (life'.up <=> m # 0 /\ sent'[m] = "connected")
  BY <1>2, <1>3, <1>4
<1>6. life'.jid <=> \E i \in Applied' : sent'[i] = "connected"
  BY <1>1 DEF LifeInv
<1>7. IsLast(life.attempt, {"reconnecting"})' /\ IsLast(life.seen, Kinds \ {"aside"})'
  BY <1>1 DEF LifeInv, IsLast
<1> QED
  BY <1>5, <1>6, <1>7 DEF LifeInv

LEMMA HandIsNewest ==
  ASSUME TypeOK, PosInv, at = "arm"
  PROVE  cur \in 1..Len(sent) /\ cur \notin Applied /\ \A i \in Applied : i < cur
BY DEF TypeOK, PosInv, InHand, Applied

LEMMA LastKept ==
  ASSUME sent' = sent, Applied' = Applied \cup {cur},
         NEW n, NEW K, IsLast(n, K), sent[cur] \notin K
  PROVE  IsLast(n, K)'
BY DEF IsLast

LEMMA LastMoved ==
  ASSUME TypeOK, sent' = sent, Applied' = Applied \cup {cur},
         \A i \in Applied : i < cur,
         NEW n, n = cur, NEW K, sent[cur] \in K
  PROVE  IsLast(n, K)'
<1>1. cur \in Nat /\ Applied \subseteq Nat
  BY DEF TypeOK, Applied
<1> QED BY <1>1 DEF IsLast

LEMMA ArmsMoveLife ==
  ASSUME TypeOK, PosInv, LifeInv, Arm
  PROVE  LifeInv'
<1>1. /\ at = "arm" /\ at' # "arm" /\ sent' = sent /\ next' = next /\ missed' = missed
      /\ cur \in 1..Len(sent) /\ \A i \in Applied : i < cur
  BY HandIsNewest DEF Arm, ApplyConnected, ApplyDisconnected, ApplyReconnecting,
                      ApplyOther, Apply, Go, feedVars
<1>2. Applied' = Applied \cup {cur}
  BY <1>1 DEF Applied, PosInv, InHand, TypeOK
<1>3. PICK n \in 0..Len(sent) :
        IsLast(n, Transitions) /\ (life.up <=> n # 0 /\ sent[n] = "connected")
  BY DEF LifeInv
<1>5. /\ sent[cur] \in Transitions =>
           \A m : m = cur => IsLast(m, Transitions)'
      /\ sent[cur] = "reconnecting" =>
           \A m : m = cur => IsLast(m, {"reconnecting"})'
      /\ sent[cur] \in Kinds \ {"aside"} =>
           \A m : m = cur => IsLast(m, Kinds \ {"aside"})'
  BY <1>1, <1>2, LastMoved
<1>6. /\ sent[cur] \notin Transitions => IsLast(n, Transitions)'
      /\ \A m : IsLast(m, {"reconnecting"}) /\ sent[cur] # "reconnecting" =>
                 IsLast(m, {"reconnecting"})'
  BY <1>1, <1>2, <1>3, LastKept
<1>7. life.seen \in Nat /\ life.attempt \in Nat /\ life \in Lives
  BY DEF TypeOK, Lives
<1>8. IsLast(life.attempt, {"reconnecting"})
  BY DEF LifeInv
<1> DEFINE UpOk == \E m \in 0..Len(sent') :
             IsLast(m, Transitions)' /\ (life'.up <=> m # 0 /\ sent'[m] = "connected")
           JidOk == life'.jid <=> \E i \in Applied' : sent'[i] = "connected"
<1>9. (life.jid <=> \E i \in Applied : sent[i] = "connected")
  BY DEF LifeInv
<1>10. CASE ApplyConnected
  <2>1. /\ sent[cur] = "connected" /\ life'.up = TRUE /\ life'.jid = TRUE
        /\ life'.attempt = life.attempt /\ life'.seen = cur
    BY <1>7, <1>10 DEF ApplyConnected, Apply, Lives
  <2>2. UpOk
    BY <1>1, <1>5, <2>1 DEF Transitions
  <2>3. JidOk
    BY <1>1, <1>2, <2>1
  <2>4. IsLast(life.attempt, {"reconnecting"})'
    BY <1>2, <1>1, <1>6, <1>8, <2>1 DEF IsLast
  <2>5. IsLast(life.seen, Kinds \ {"aside"})'
    BY <1>1, <1>2, <2>1 DEF IsLast, TypeOK, Applied, Kinds, Lifecycle, Transitions
  <2> QED
    BY <2>2, <2>3, <2>4, <2>5 DEF LifeInv
<1>11. CASE ApplyDisconnected
  <2>1. /\ sent[cur] = "disconnected" /\ life'.up = FALSE /\ life'.jid = life.jid
        /\ life'.attempt = life.attempt /\ life'.seen = cur
    BY <1>7, <1>11 DEF ApplyDisconnected, Apply, Lives
  <2>2. UpOk
    BY <1>1, <1>5, <2>1 DEF Transitions
  <2>3. JidOk
    BY <1>1, <1>2, <1>9, <2>1
  <2>4. IsLast(life.attempt, {"reconnecting"})'
    BY <1>2, <1>1, <1>8, <2>1 DEF IsLast
  <2>5. IsLast(life.seen, Kinds \ {"aside"})'
    BY <1>1, <1>2, <2>1 DEF IsLast, TypeOK, Applied, Kinds, Lifecycle, Transitions
  <2> QED
    BY <2>2, <2>3, <2>4, <2>5 DEF LifeInv
<1>12. CASE ApplyReconnecting
  <2>1. /\ sent[cur] = "reconnecting" /\ life'.up = life.up /\ life'.jid = life.jid
        /\ life'.attempt = cur /\ life'.seen = cur
    BY <1>7, <1>12 DEF ApplyReconnecting, Apply, Lives
  <2>2. UpOk
    BY <1>1, <1>3, <1>6, <2>1 DEF Transitions
  <2>3. JidOk
    BY <1>1, <1>2, <1>9, <2>1
  <2>4. IsLast(life.attempt, {"reconnecting"})'
    BY <1>1, <1>2, <2>1 DEF IsLast, TypeOK, Applied
  <2>5. IsLast(life.seen, Kinds \ {"aside"})'
    BY <1>1, <1>2, <2>1 DEF IsLast, TypeOK, Applied, Kinds, Lifecycle
  <2> QED
    BY <2>2, <2>3, <2>4, <2>5 DEF LifeInv
<1>13. CASE ApplyOther
  <2>1. /\ sent[cur] = "other" /\ life'.up = life.up /\ life'.jid = life.jid
        /\ life'.attempt = life.attempt /\ life'.seen = cur
    BY <1>7, <1>13 DEF ApplyOther, Apply, Lives
  <2>2. UpOk
    BY <1>1, <1>3, <1>6, <2>1 DEF Transitions
  <2>3. JidOk
    BY <1>1, <1>2, <1>9, <2>1
  <2>4. IsLast(life.attempt, {"reconnecting"})'
    BY <1>1, <1>2, <1>8, <2>1 DEF IsLast
  <2>5. IsLast(life.seen, Kinds \ {"aside"})'
    BY <1>1, <1>2, <2>1 DEF IsLast, TypeOK, Applied, Kinds
  <2> QED
    BY <2>2, <2>3, <2>4, <2>5 DEF LifeInv
<1> QED
  BY <1>10, <1>11, <1>12, <1>13 DEF Arm

LEMMA LifeStep == TypeOK /\ PosInv /\ LifeInv /\ [Next]_vars => LifeInv'
<1> SUFFICES ASSUME TypeOK, PosInv, LifeInv, [Next]_vars PROVE LifeInv'
  OBVIOUS
<1>1. CASE Arm
  BY <1>1, ArmsMoveLife
<1>2. CASE Aside
  <2>1. Applied' = Applied \cup {cur} /\ life' = life /\ sent' = sent /\ sent[cur] = "aside"
    BY <1>2 DEF Aside, Go, feedVars, stateVars, Applied, TypeOK, PosInv, InHand
  <2>2. ASSUME NEW n, NEW K, IsLast(n, K), "aside" \notin K PROVE IsLast(n, K)'
    BY <2>1, <2>2, LastKept
  <2>3. \E n \in 0..Len(sent') :
          IsLast(n, Transitions)' /\ (life'.up <=> n # 0 /\ sent'[n] = "connected")
    BY <2>1, <2>2 DEF LifeInv, Transitions
  <2>4. life'.jid <=> \E i \in Applied' : sent'[i] = "connected"
    BY <2>1 DEF LifeInv
  <2>5. IsLast(life.attempt, {"reconnecting"})' /\ IsLast(life.seen, Kinds \ {"aside"})'
    BY <2>1 DEF LifeInv, IsLast
  <2> QED
    BY <2>3, <2>4, <2>5 DEF LifeInv
<1> DEFINE Still == life' = life /\ Applied' = Applied /\ sent' = sent
<1>3. CASE ~Arm /\ ~Aside
  <2> USE DEF TypeOK, PosInv, InHand
  <2>1. ASSUME NEW k \in Kinds, Emit(k) PROVE LifeInv'
    <3>1. /\ Len(sent') \in Nat /\ Len(sent) <= Len(sent') /\ life' = life
          /\ \A i \in 1..Len(sent) : sent'[i] = sent[i]
      BY <2>1 DEF Emit
    <3>2. Applied' = Applied
      BY <2>1 DEF Emit, Applied
    <3> QED
      BY <3>1, <3>2, LifeFrame
  <2>2. ASSUME CloseSession \/ Cancel PROVE Still
    BY <2>2 DEF CloseSession, Cancel, Applied
  <2>3. ASSUME HealthLock \/ HealthRead PROVE Still
    BY <2>3 DEF HealthLock, HealthRead, HealthMove, feedVars, stateVars, Applied
  <2>4. ASSUME Subscribe PROVE Still
    BY <2>4 DEF Subscribe, Go, feedVars, stateVars, Applied
  <2>5. ASSUME Recv PROVE Still
    BY <2>5 DEF Recv, Go, feedVars, stateVars, Behind, Applied
  <2>6. ASSUME RecvLagged PROVE Still
    BY <2>6, BoundsAssumption DEF RecvLagged, feedVars, stateVars, Behind, Applied
  <2>7. ASSUME Leave PROVE Still
    BY <2>7 DEF Leave, Go, feedVars, stateVars, Applied
  <2>8. ASSUME SetJid \/ SetAttempt PROVE Still
    BY <2>8 DEF SetJid, SetAttempt, Release, Go, feedVars, Applied
  <2>9. ASSUME NEW ok \in BOOLEAN, Publish(ok) PROVE Still
    BY <2>9 DEF Publish, Go, feedVars, stateVars, Applied
  <2>10. ASSUME UNCHANGED vars PROVE Still
    BY <2>10 DEF vars, Applied
  <2>11. Still \/ LifeInv'
    BY <1>3, <2>1, <2>2, <2>3, <2>4, <2>5, <2>6, <2>7, <2>8, <2>9, <2>10
    DEF Next, Forwarder
  <2>12. Still => LifeInv'
    BY LifeFrame
  <2> QED
    BY <2>11, <2>12
<1> QED
  BY <1>1, <1>2, <1>3

(***************************************************************************)
(* PairingState: behind LifecycleState only inside an arm.                 *)
(***************************************************************************)
LEMMA PairStep == TypeOK /\ PosInv /\ PairInv /\ [Next]_vars => PairInv'
<1> SUFFICES ASSUME TypeOK, PosInv, PairInv, [Next]_vars PROVE PairInv'
  OBVIOUS
<1>1. CASE Arm
  <2>1. /\ at = "arm" /\ at' # "arm" /\ cur \in Nat
        /\ pair.up = life.up /\ pair.jid = life.jid /\ pair.attempt = life.attempt
    BY <1>1 DEF Arm, ApplyConnected, ApplyDisconnected, ApplyReconnecting,
                ApplyOther, Apply, Go, PairInv, TypeOK
  <2> USE <2>1 DEF Apply, Go, PairInv, TypeOK, Lives, Pairs
  <2>2. CASE ApplyConnected
    BY <2>2 DEF ApplyConnected
  <2>3. CASE ApplyDisconnected
    BY <2>3 DEF ApplyDisconnected
  <2>4. CASE ApplyReconnecting
    BY <2>4 DEF ApplyReconnecting
  <2>5. CASE ApplyOther
    BY <2>5 DEF ApplyOther
  <2> QED
    BY <1>1, <2>2, <2>3, <2>4, <2>5 DEF Arm
<1>2. CASE SetJid
  BY <1>2 DEF SetJid, Release, Go, PairInv, TypeOK, Pairs, Lives
<1>3. CASE SetAttempt
  BY <1>3 DEF SetAttempt, Release, Go, PairInv, TypeOK, Pairs, Lives
<1>4. CASE ~Arm /\ ~SetJid /\ ~SetAttempt
  <2>1. ASSUME NEW k \in Kinds, Emit(k) PROVE PairInv'
    BY <2>1 DEF Emit, PairInv
  <2>2. CASE CloseSession \/ Cancel
    BY <2>2 DEF CloseSession, Cancel, PairInv
  <2>3. CASE HealthLock \/ HealthRead
    BY <2>3 DEF HealthLock, HealthRead, HealthMove, stateVars, PairInv
  <2>4. CASE Subscribe \/ Recv \/ RecvLagged \/ Leave \/ Aside
    BY <2>4 DEF Subscribe, Recv, RecvLagged, Leave, Aside, Go, stateVars, PairInv
  <2>5. ASSUME NEW ok \in BOOLEAN, Publish(ok) PROVE PairInv'
    BY <2>5 DEF Publish, Go, stateVars, PairInv
  <2>6. CASE UNCHANGED vars
    BY <2>6 DEF vars, PairInv
  <2> QED
    BY <1>4, <2>1, <2>2, <2>3, <2>4, <2>5, <2>6 DEF Next, Forwarder
<1> QED
  BY <1>1, <1>2, <1>3, <1>4

(***************************************************************************)
(* The theorems.                                                           *)
(***************************************************************************)
LEMMA Inductive == Spec => []IInv
<1>1. IInv /\ [Next]_vars => IInv'
  BY TypeStep, PosStep, LifeStep, PairStep DEF IInv
<1> QED
  BY InitInv, <1>1, PTL DEF Spec

\* For every capacity of the channel and any events the variables keep their
\* types: what is told or missed was emitted, whatever the receiver skips.
THEOREM ConnTypeCorrect == Spec => []TypeOK
BY Inductive, PTL DEF IInv

LEMMA IInvViews == IInv => ViewsFollowFeed
<1> SUFFICES ASSUME IInv, lock # "forwarder" PROVE ViewsFollowFeed
  BY DEF ViewsFollowFeed
<1>1. pair = [up |-> life.up, jid |-> life.jid, attempt |-> life.attempt]
  <2>1. pair.up = life.up /\ pair.jid = life.jid /\ pair.attempt = life.attempt
    BY DEF IInv, PosInv, PairInv
  <2> QED
    BY <2>1 DEF IInv, TypeOK, Pairs
<1> QED
  BY <1>1 DEF IInv, LifeInv, ViewsFollowFeed

\* Whoever finds the mutex free or holds it for health() sees LifecycleState
\* and PairingState agree with each other and with the last event of each
\* kind that the forwarder received, however the channel lagged.
THEOREM ViewsFollow == Spec => []ViewsFollowFeed
BY Inductive, IInvViews, PTL

(***************************************************************************)
(* The refinement.  Subscribe and RecvLagged drop what was missed, Leave   *)
(* drops nothing, Recv maps to a stutter or drops nothing (the event in    *)
(* hand is open), Publish tells or drops it, Aside and ApplyOther drop it. *)
(***************************************************************************)
Dropped == {i \in 1..Len(sent) : i < next /\ i \notin Range(told) /\ i # cur}

LEMMA FeedStutter ==
  ASSUME UNCHANGED <<sent, told>>, Dropped' = Dropped
  PROVE  [Feed!Next]_(Feed!vars)
BY DEF Feed!vars, Dropped

\* The open events are the one in hand and those the receiver has not reached.
LEMMA OpenEvents ==
  ASSUME TypeOK, PosInv, NEW i
  PROVE  Feed!Open(i) <=> i \in 1..Len(sent) /\ (i = cur \/ i >= next)
<1>1. Feed!Open(i) <=> i \in 1..Len(sent) /\ i \notin Range(told) /\ i \notin Dropped
  BY DEF Feed!Open, Feed!Range, Range, Dropped
<1>2. /\ cur \notin Range(told) /\ \A j \in Range(told) : j < next
      /\ cur \in Nat /\ next \in Nat /\ Len(sent) \in Nat
      /\ cur # 0 => cur + 1 = next
  BY DEF TypeOK, PosInv
<1> QED BY <1>1, <1>2 DEF Dropped

LEMMA FeedDrop ==
  ASSUME TypeOK, PosInv, UNCHANGED <<sent, told>>, NEW n \in 1..Len(sent),
         Dropped' = Dropped \cup {i \in 1..n : i = cur \/ i >= next}
  PROVE  Feed!Next
<1>1. {i \in 1..n : i = cur \/ i >= next} = {i \in 1..n : Feed!Open(i)}
  BY OpenEvents DEF TypeOK
<1>2. Feed!Drop(n)
  BY <1>1 DEF Feed!Drop, Dropped
<1> QED
  BY <1>2 DEF Feed!Next

LEMMA FeedStep == IInv /\ [Next]_vars => [Feed!Next]_(Feed!vars)
<1> SUFFICES ASSUME TypeOK, PosInv, [Next]_vars PROVE [Feed!Next]_(Feed!vars)
  BY DEF IInv
<1> USE DEF TypeOK, PosInv, InHand
<1>1. ASSUME NEW k \in Kinds, Emit(k) PROVE Feed!Next
  <2>1. sent' = Append(sent, k) /\ told' = told /\ cur' = cur /\ next' = next
    BY <1>1 DEF Emit
  <2>2. Dropped' = Dropped
    BY <2>1 DEF Dropped
  <2> QED
    BY <2>1, <2>2 DEF Feed!Next, Feed!Emit, Dropped
<1>2. CASE CloseSession \/ Cancel
  BY <1>2, FeedStutter DEF CloseSession, Cancel, Dropped
<1>3. CASE HealthLock \/ HealthRead
  BY <1>3, FeedStutter DEF HealthLock, HealthRead, HealthMove, feedVars, Dropped
<1>4. CASE Subscribe
  <2>1. CASE sent = <<>>
    BY <1>4, <2>1, FeedStutter DEF Subscribe, Go, feedVars, Dropped
  <2>2. CASE Len(sent) > 0
    <3>1. Dropped' = Dropped \cup {i \in 1..Len(sent) : i = cur \/ i >= next}
      BY <1>4, <2>2 DEF Subscribe, Go, feedVars, Dropped
    <3> QED
      <4>1. Len(sent) \in 1..Len(sent) /\ UNCHANGED <<sent, told>>
        BY <1>4, <2>2 DEF Subscribe, feedVars
      <4> HIDE DEF TypeOK, PosInv
      <4> QED BY <3>1, <4>1, FeedDrop
  <2> QED
    BY <2>1, <2>2
<1>5. CASE Recv
  BY <1>5, FeedStutter DEF Recv, Go, feedVars, Behind, Dropped
<1>6. CASE RecvLagged
  <2>1. Len(sent) - Capacity \in 1..Len(sent)
    BY <1>6, BoundsAssumption DEF RecvLagged, Behind
  <2>2. Dropped' = Dropped \cup {i \in 1..(Len(sent) - Capacity) : i = cur \/ i >= next}
    BY <1>6, <2>1, BoundsAssumption DEF RecvLagged, Behind, feedVars, Dropped
  <2> QED
    BY <1>6, <2>1, <2>2, FeedDrop DEF RecvLagged, feedVars
<1>7. CASE Leave
  BY <1>7, FeedStutter DEF Leave, Go, feedVars, Dropped
<1>8. ASSUME at = "arm" \/ at = "publish", cur' = 0, next' = next, sent' = sent, told' = told
      PROVE  Feed!Next
  <2>1. cur \in 1..Len(sent) /\ cur < next
    BY <1>8
  <2>2. Dropped' = Dropped \cup {i \in 1..cur : i = cur \/ i >= next}
    BY <1>8, <2>1 DEF Dropped
  <2> QED
    BY <1>8, <2>1, <2>2, FeedDrop
<1>9. CASE Aside \/ ApplyOther
  BY <1>8, <1>9 DEF Aside, ApplyOther, Apply, Go, feedVars
<1>10. CASE ApplyConnected \/ ApplyDisconnected \/ ApplyReconnecting
  BY <1>10, FeedStutter
  DEF ApplyConnected, ApplyDisconnected, ApplyReconnecting, Apply, feedVars, Dropped
<1>11. CASE SetJid \/ SetAttempt
  BY <1>11, FeedStutter DEF SetJid, SetAttempt, Release, feedVars, Dropped
<1>12. ASSUME Publish(TRUE) PROVE Feed!Next
  <2>1. /\ sent' = sent /\ told' = Append(told, cur) /\ cur' = 0 /\ next' = next
        /\ cur \in 1..Len(sent) /\ cur < next /\ sent[cur] \in Lifecycle
    BY <1>12 DEF Publish, Go, feedVars
  <2>2. Dropped' = Dropped
    <3>1. Range(told') = Range(told) \cup {cur}
      BY <1>12, ToldGrows
    <3> QED BY <2>1, <3>1 DEF Dropped
  <2>3. Feed!Open(cur) /\ \A j \in 1..(cur - 1) : ~Feed!Open(j)
    BY <2>1, OpenEvents
  <2>4. Feed!Tell(cur)
    BY <2>1, <2>2, <2>3 DEF Feed!Tell, Dropped
  <2> QED
    BY <2>1, <2>4 DEF Feed!Next
<1>13. ASSUME Publish(FALSE) PROVE Feed!Next
  BY <1>8, <1>13 DEF Publish, Go, feedVars
<1>14. CASE UNCHANGED vars
  BY <1>14, FeedStutter DEF vars, Dropped
<1> QED
  BY <1>1, <1>2, <1>3, <1>4, <1>5, <1>6, <1>7, <1>9, <1>10, <1>11, <1>12, <1>13, <1>14
  DEF Next, Forwarder, Arm

\* The forwarder implements EventFeed: whatever lags, fails or is cancelled,
\* the topic is told each lifecycle event at most once, in the order of the
\* session, and never one older than an event already settled.
THEOREM FeedImplemented == Spec => FeedSpec
<1>1. Init => Feed!Init
  BY DEF Init, Feed!Init
<1> QED
  BY <1>1, Inductive, FeedStep, PTL DEF Spec, FeedSpec, Feed!Spec

\* Each publish is of a later event than those before it.
ToldInv ==
  /\ ToldInOrder
  /\ cur # 0 => \A i \in Range(told) : i < cur

LEMMA ToldStep == TypeOK /\ PosInv /\ ToldInv /\ [Next]_vars => ToldInv'
<1> SUFFICES ASSUME TypeOK, PosInv, ToldInv, [Next]_vars PROVE ToldInv'
  OBVIOUS
<1>1. CASE UNCHANGED told /\ (cur' = 0 \/ cur' = cur)
  BY <1>1 DEF ToldInv, ToldInOrder
<1>2. CASE Recv
  <2>1. /\ UNCHANGED told /\ cur' = next /\ \A i \in Range(told) : i < next
    BY <1>2 DEF Recv, PosInv
  <2> QED BY <2>1 DEF ToldInv, ToldInOrder
<1>3. CASE Publish(TRUE)
  <2>1. /\ cur \in Nat /\ cur # 0 /\ told' = Append(told, cur) /\ cur' = 0
        /\ told \in Seq(Nat)
    BY <1>3 DEF Publish, Go, TypeOK, PosInv, InHand
  <2>2. /\ Len(told') = Len(told) + 1 /\ told'[Len(told) + 1] = cur
        /\ Len(told) \in Nat /\ \A a \in 1..Len(told) : told'[a] = told[a]
    BY <2>1
  <2>3. \A a \in 1..Len(told) : told[a] < cur
    BY <2>1 DEF ToldInv, Range
  <2>4. ASSUME NEW a \in 1..Len(told'), NEW b \in 1..Len(told'), a < b
        PROVE  told'[a] < told'[b]
    <3>1. a \in 1..Len(told) /\ (b \in 1..Len(told) \/ b = Len(told) + 1)
      BY <2>2, <2>4
    <3>2. CASE b = Len(told) + 1
      BY <2>2, <2>3, <3>1, <3>2
    <3>3. CASE b \in 1..Len(told)
      BY <2>2, <2>4, <3>1, <3>3 DEF ToldInv, ToldInOrder
    <3> QED BY <3>1, <3>2, <3>3
  <2> QED BY <2>1, <2>4 DEF ToldInv, ToldInOrder
<1>4. CASE UNCHANGED vars
  BY <1>1, <1>4 DEF vars
<1>5. CASE ~Recv /\ ~Publish(TRUE) /\ Next
  <2>1. UNCHANGED told /\ (cur' = 0 \/ cur' = cur)
    BY <1>5 DEF Next, Forwarder, Arm, Emit, CloseSession, Cancel, HealthLock, HealthRead,
                HealthMove, Subscribe, RecvLagged, Leave, Aside, Apply, ApplyConnected,
                ApplyDisconnected, ApplyReconnecting, ApplyOther, SetJid, SetAttempt,
                Release, Publish
  <2> QED BY <1>1, <2>1
<1> QED BY <1>2, <1>3, <1>4, <1>5

\* The topic is told the positions of the feed in strictly growing order, so
\* that no event is published twice, for every capacity and any lag.
THEOREM ToldOnce == Spec => []ToldInOrder
<1>1. Init => ToldInv
  BY DEF Init, ToldInv, ToldInOrder
<1>2. ToldInv => ToldInOrder
  BY DEF ToldInv
<1>3. IInv /\ ToldInv /\ [Next]_vars => ToldInv'
  BY ToldStep DEF IInv
<1> QED BY <1>1, <1>2, <1>3, Inductive, PTL DEF Spec

(***************************************************************************)
(* The safety core of HealthSettles: a forwarder with nothing left to      *)
(* receive is right about the connection, and one that ended by itself has *)
(* nothing left.                                                           *)
(***************************************************************************)
\* The session said one thing last, or nothing yet.
NewestInv ==
  \E n \in 0..Len(sent) :
    /\ n = 0 \/ sent[n] \in Transitions
    /\ \A j \in (n + 1)..Len(sent) : sent[j] \notin Transitions

LEMMA NewestStep == TypeOK /\ NewestInv /\ [Next]_vars => NewestInv'
<1> SUFFICES ASSUME TypeOK, NewestInv, [Next]_vars PROVE NewestInv'
  OBVIOUS
<1>1. PICK n \in 0..Len(sent) :
        /\ n = 0 \/ sent[n] \in Transitions
        /\ \A j \in (n + 1)..Len(sent) : sent[j] \notin Transitions
  BY DEF NewestInv
<1>2. ASSUME NEW k \in Kinds, Emit(k) PROVE NewestInv'
  <2>1. /\ Len(sent') = Len(sent) + 1 /\ sent'[Len(sent) + 1] = k
        /\ Len(sent) \in Nat /\ \A i \in 1..Len(sent) : sent'[i] = sent[i]
    BY <1>2 DEF Emit, TypeOK
  <2>2. CASE k \in Transitions
    <3>1. Len(sent') \in 0..Len(sent') /\ sent'[Len(sent')] \in Transitions
      BY <2>1, <2>2
    <3>2. \A j \in (Len(sent') + 1)..Len(sent') : sent'[j] \notin Transitions
      BY <2>1
    <3> QED BY <3>1, <3>2 DEF NewestInv
  <2>3. CASE k \notin Transitions
    <3>1. n \in 0..Len(sent') /\ (n = 0 \/ sent'[n] \in Transitions)
      BY <1>1, <2>1
    <3>2. \A j \in (n + 1)..Len(sent') : sent'[j] \notin Transitions
      BY <1>1, <2>1, <2>3
    <3> QED BY <3>1, <3>2 DEF NewestInv
  <2> QED BY <2>2, <2>3
<1>3. CASE UNCHANGED sent BY <1>3 DEF NewestInv
<1>4. CASE ~(\E k \in Kinds : Emit(k))
  <2>1. UNCHANGED sent
    BY <1>4 DEF Next, Forwarder, Arm, CloseSession, Cancel, HealthLock, HealthRead, HealthMove,
                Subscribe, Recv, RecvLagged, Leave, Aside, Apply, ApplyConnected,
                ApplyDisconnected, ApplyReconnecting, ApplyOther, SetJid, SetAttempt,
                Release, Publish, feedVars, vars
  <2> QED BY <2>1, <1>3
<1> QED BY <1>2, <1>4

\* A forwarder that ended was cancelled or received the whole of a closed feed.
EndInv == at = "done" => cancelled \/ (closed /\ next = Len(sent) + 1)

LEMMA EndStep == TypeOK /\ PosInv /\ EndInv /\ [Next]_vars => EndInv'
<1> SUFFICES ASSUME TypeOK, PosInv, EndInv, [Next]_vars PROVE EndInv'
  OBVIOUS
<1> USE DEF EndInv
<1>1. ASSUME NEW k \in Kinds, Emit(k) PROVE EndInv'
  BY <1>1 DEF Emit
<1>2. CASE CloseSession \/ Cancel
  BY <1>2 DEF CloseSession, Cancel
<1>3. CASE HealthLock \/ HealthRead
  BY <1>3 DEF HealthLock, HealthRead, HealthMove, feedVars
<1>4. CASE Leave
  <2>1. UNCHANGED <<sent, closed, next, cancelled>> /\ (cancelled \/ (closed /\ Behind = 0))
    BY <1>4 DEF Leave, feedVars
  <2>2. Behind = 0 => next = Len(sent) + 1
    BY DEF Behind, TypeOK, PosInv
  <2> QED BY <2>1, <2>2
<1>5. CASE Subscribe \/ Recv \/ RecvLagged \/ Aside
  <2>1. at' # "done"
    BY <1>5 DEF Subscribe, Recv, RecvLagged, Aside, Go, TypeOK, Places
  <2> QED BY <2>1
<1>6. CASE Arm
  <2>1. at' # "done"
    BY <1>6 DEF Arm, ApplyConnected, ApplyDisconnected, ApplyReconnecting, ApplyOther,
                Apply, Go
  <2> QED BY <2>1
<1>7. CASE SetJid \/ SetAttempt
  BY <1>7 DEF SetJid, SetAttempt, Release, Go
<1>8. ASSUME NEW ok \in BOOLEAN, Publish(ok) PROVE EndInv'
  BY <1>8 DEF Publish, Go
<1>9. CASE UNCHANGED vars BY <1>9 DEF vars
<1> QED
  BY <1>1, <1>2, <1>3, <1>4, <1>5, <1>6, <1>7, <1>8, <1>9 DEF Next, Forwarder

\* Everything emitted was received and its arm has begun.
CaughtUp == next = Len(sent) + 1 /\ at # "arm"
HealthAtRest == CaughtUp => LinkMissed \/ life.up = LinkUp

LEMMA CaughtUpIsRight == TypeOK /\ PosInv /\ LifeInv /\ NewestInv => HealthAtRest
<1> SUFFICES ASSUME TypeOK, PosInv, LifeInv, NewestInv, CaughtUp, ~LinkMissed
             PROVE  life.up = LinkUp
  BY DEF HealthAtRest
<1>0. Len(sent) \in Nat /\ life.up \in BOOLEAN
  BY DEF TypeOK, Lives
<1>1. PICK n \in 0..Len(sent) :
        /\ n = 0 \/ sent[n] \in Transitions
        /\ \A j \in (n + 1)..Len(sent) : sent[j] \notin Transitions
  BY DEF NewestInv
<1>2. PICK l \in 0..Len(sent) :
        IsLast(l, Transitions) /\ (life.up <=> l # 0 /\ sent[l] = "connected")
  BY DEF LifeInv
<1>3. LinkUp <=> n # 0 /\ sent[n] = "connected"
  BY <1>0, <1>1 DEF LinkUp, Transitions
<1>4. n # 0 => n \in Applied
  <2> SUFFICES ASSUME n # 0 PROVE n \in Applied
    OBVIOUS
  <2>1. n \in 1..Len(sent) /\ sent[n] \in Transitions /\ n < next
    BY <1>0, <1>1 DEF CaughtUp
  <2>2. n \notin missed
    BY <2>1, <1>1 DEF LinkMissed
  <2> QED BY <2>1, <2>2 DEF Applied, CaughtUp
<1>5. l # 0 => sent[l] \in Transitions /\ l \in 1..Len(sent)
  BY <1>2 DEF IsLast, Applied
<1>6. n # 0 => n <= l
  BY <1>1, <1>2, <1>4 DEF IsLast
<1>7. l <= n
  BY <1>0, <1>1, <1>2, <1>5
<1>8. n = l
  BY <1>0, <1>1, <1>2, <1>6, <1>7
<1> QED BY <1>0, <1>2, <1>3, <1>8

\* With nothing left to receive health() is right about the connection unless
\* the very event that said it was missed; and a forwarder that ended without
\* being stopped had nothing left.
THEOREM HealthRightAtRest ==
  Spec => []HealthAtRest /\ [](at = "done" => cancelled \/ LinkMissed \/ life.up = LinkUp)
<1>1. Init => NewestInv /\ EndInv
  <2>1. Init => NewestInv
    <3> SUFFICES ASSUME Init PROVE NewestInv
      OBVIOUS
    <3>1. Len(sent) = 0 BY DEF Init
    <3> QED BY <3>1 DEF NewestInv
  <2> QED BY <2>1 DEF Init, EndInv
<1>2. IInv /\ NewestInv /\ EndInv /\ [Next]_vars => NewestInv' /\ EndInv'
  BY NewestStep, EndStep DEF IInv
<1>3. IInv /\ NewestInv => HealthAtRest
  BY CaughtUpIsRight DEF IInv
<1>4. EndInv /\ HealthAtRest => (at = "done" => cancelled \/ LinkMissed \/ life.up = LinkUp)
  BY DEF EndInv, HealthAtRest, CaughtUp
<1> QED BY <1>1, <1>2, <1>3, <1>4, Inductive, PTL DEF Spec
=============================================================================
