------------------------- MODULE OutboundQueueProofs -------------------------
(***************************************************************************)
(* OutboundInv is inductive: the types, that only a voice note composes    *)
(* and pauses, and why a breaker is open.                                  *)
(***************************************************************************)
EXTENDS OutboundQueue, SequenceTheorems, TLAPS

VoiceInv ==
  \A t \in Topics : task[t] \in {"composing", "pausing"} => KindOf[cur[t]] = "voice_note"

\* A breaker opens only on a failed publication of its own account's tools.
BreakerInv ==
  \A t \in Topics : breaker[t] = "open" =>
    \E d \in Calls : pc[d] = "failed" /\ OriginOf[d] = "tool" /\ TopicOf[d] = t

OutboundInv == TypeOK /\ VoiceInv /\ PausedAfterVoice /\ BreakerInv /\ BackOffHasCause

LEMMA PhaseType ==
  ASSUME NEW kind \in Kinds \ {"photo"}
  PROVE  /\ FirstPhase(kind) \in {"fetching", "composing", "sending"}
         /\ FirstPhase(kind) = "composing" => kind = "voice_note"
BY DEF FirstPhase, Kinds

\* What Settle leaves: outcomes and lines of the right type.
LEMMA SettleType ==
  ASSUME TypeOK, NEW c \in Calls, NEW result \in Outcomes, Settle(c, result)
  PROVE  outcome' \in [Calls -> Outcomes] /\ line' \in [Topics -> Seq(Calls)]
<1> DEFINE s == line[TopicOf[c]]
           r == IF s # <<>> /\ Head(s) = c THEN Tail(s) ELSE s
<1>1. TopicOf[c] \in Topics /\ s \in Seq(Calls)
  BY OutboundAssumption DEF TypeOK
<1>2. r \in Seq(Calls)
  BY <1>1
<1>3. line' = [line EXCEPT ![TopicOf[c]] = r]
  BY DEF Settle
<1>4. line' \in [Topics -> Seq(Calls)]
  <2> HIDE DEF r
  <2>1. QED BY <1>2, <1>3 DEF TypeOK
<1>5. outcome' \in [Calls -> Outcomes]
  BY DEF Settle, TypeOK
<1>6. QED BY <1>4, <1>5

LEMMA OutboundInit == Init => OutboundInv
<1> SUFFICES ASSUME Init PROVE OutboundInv
  OBVIOUS
<1>1. TypeOK
  BY OutboundAssumption DEF Init, TypeOK, CallStates, TaskStates, Outcomes
<1>2. VoiceInv
  BY DEF Init, VoiceInv
<1>3. PausedAfterVoice /\ BreakerInv /\ BackOffHasCause
  BY DEF Init, PausedAfterVoice, BreakerInv, BackOffHasCause
<1>4. QED BY <1>1, <1>2, <1>3 DEF OutboundInv

-----------------------------------------------------------------------------
(***************************************************************************)
(* The callers move pc and the breaker, and add to the queue.              *)
(***************************************************************************)
\* What the dispatcher's variables say does not depend on the callers.
LEMMA CallersApart ==
  ASSUME OutboundInv, UNCHANGED dispatcherVars
  PROVE  VoiceInv' /\ PausedAfterVoice'
BY DEF OutboundInv, dispatcherVars, VoiceInv, PausedAfterVoice

\* A call that is told something keeps every earlier failure.
LEMMA FailuresStay ==
  ASSUME OutboundInv, NEW c \in Calls, NEW from \in {"idle", "publishing"},
         NEW to \in CallStates, Told(c, from, to),
         NEW d \in Calls, pc[d] = "failed"
  PROVE  pc'[d] = "failed"
BY DEF OutboundInv, TypeOK, Told

LEMMA CallerStep ==
  ASSUME OutboundInv, NEW c \in Calls, Caller(c)
  PROVE  OutboundInv'
<1> USE DEF OutboundInv
<1>1. UNCHANGED dispatcherVars
  BY DEF Caller, Refuse, BackOff, Begin, PublishOk, PublishFail
<1>2. VoiceInv' /\ PausedAfterVoice'
  BY <1>1, CallersApart
<1>3. TopicOf[c] \in Topics
  BY OutboundAssumption
<1>4. CASE Refuse(c) \/ BackOff(c) \/ Begin(c)
  <2>1. PICK to \in {"refused", "backoff", "publishing"} :
          Told(c, "idle", to) /\ UNCHANGED <<breaker, queue, outcome, line>>
             /\ (to = "backoff" => Tripped(c))
    BY <1>4 DEF Refuse, BackOff, Begin
  <2>2. TypeOK'
    BY <1>1, <2>1 DEF TypeOK, Told, CallStates, dispatcherVars
  <2>3. \A d \in Calls : pc[d] = "failed" => pc'[d] = "failed"
    BY <2>1, FailuresStay DEF CallStates
  <2>4. BreakerInv'
    BY <2>1, <2>3 DEF BreakerInv
  <2>5. ASSUME NEW e \in Calls, pc'[e] = "backoff"
        PROVE  \E d \in Calls : pc[d] = "failed" /\ OriginOf[d] = "tool" /\ TopicOf[d] = TopicOf[e]
    <3>1. CASE e = c
      <4>1. breaker[TopicOf[c]] = "open"
        BY <2>1, <2>5, <3>1 DEF Told, TypeOK, Tripped
      <4>2. QED BY <1>3, <3>1, <4>1 DEF BreakerInv
    <3>2. CASE e # c
      BY <2>1, <2>5, <3>2 DEF Told, TypeOK, BackOffHasCause
    <3>3. QED BY <3>1, <3>2
  <2>6. BackOffHasCause'
    BY <2>3, <2>5 DEF BackOffHasCause
  <2>7. QED BY <1>2, <2>2, <2>4, <2>6
<1>5. CASE PublishOk(c)
  <2>1. Told(c, "publishing", "ok")
    BY <1>5 DEF PublishOk
  <2>2. outcome' \in [Calls -> Outcomes]
    BY <1>5 DEF PublishOk, TypeOK, Outcomes
  <2>3. Append(queue[TopicOf[c]], c) \in Seq(Calls) /\ Append(line[TopicOf[c]], c) \in Seq(Calls)
    BY <1>3 DEF TypeOK
  <2>4. queue' \in [Topics -> Seq(Calls)] /\ line' \in [Topics -> Seq(Calls)]
    BY <1>3, <1>5, <2>3 DEF PublishOk, TypeOK
  <2>5. /\ breaker' \in [Topics -> {"closed", "open"}]
        /\ \A t \in Topics : breaker'[t] = "open" => breaker[t] = "open"
    BY <1>5 DEF PublishOk, TypeOK
  <2>6. TypeOK'
    BY <1>1, <2>1, <2>2, <2>4, <2>5 DEF TypeOK, Told, CallStates, dispatcherVars
  <2>7. \A d \in Calls : pc[d] = "failed" => pc'[d] = "failed"
    BY <2>1, FailuresStay DEF CallStates
  <2>8. BreakerInv'
    BY <2>5, <2>7 DEF BreakerInv
  <2>9. BackOffHasCause'
    BY <2>1, <2>7 DEF Told, TypeOK, BackOffHasCause
  <2>10. QED BY <1>2, <2>6, <2>8, <2>9
<1>6. CASE PublishFail(c)
  <2>1. Told(c, "publishing", "failed") /\ UNCHANGED <<queue, outcome, line>>
    BY <1>6 DEF PublishFail
  <2>2. breaker' \in [Topics -> {"closed", "open"}]
    BY <1>6 DEF PublishFail, TypeOK
  <2>3. TypeOK'
    BY <1>1, <2>1, <2>2 DEF TypeOK, Told, CallStates, dispatcherVars
  <2>4. pc'[c] = "failed" /\ \A d \in Calls : pc[d] = "failed" => pc'[d] = "failed"
    BY <2>1 DEF Told, TypeOK
  <2>5. ASSUME NEW t \in Topics, breaker'[t] = "open"
        PROVE  \E d \in Calls : pc'[d] = "failed" /\ OriginOf[d] = "tool" /\ TopicOf[d] = t
    <3>1. CASE breaker[t] = "open"
      BY <2>4, <3>1 DEF BreakerInv
    <3>2. CASE breaker[t] # "open"
      BY <1>6, <2>4, <2>5, <3>2 DEF PublishFail, TypeOK
    <3>3. QED BY <3>1, <3>2
  <2>6. BreakerInv'
    BY <2>5 DEF BreakerInv
  <2>7. BackOffHasCause'
    BY <2>1, <2>4 DEF Told, TypeOK, BackOffHasCause
  <2>8. QED BY <1>2, <2>3, <2>6, <2>7
<1>7. QED BY <1>4, <1>5, <1>6 DEF Caller
-----------------------------------------------------------------------------
(***************************************************************************)
(* The dispatcher moves its own variables and settles events.              *)
(***************************************************************************)
LEMMA DispatcherApart ==
  ASSUME OutboundInv, UNCHANGED callerVars
  PROVE  BreakerInv' /\ BackOffHasCause'
BY DEF OutboundInv, callerVars, BreakerInv, BackOffHasCause

LEMMA DispatcherStep ==
  ASSUME OutboundInv, NEW t \in Topics,
         Dispatch(t) \/ Fetched(t) \/ FetchFail(t) \/ Stop(t)
  PROVE  OutboundInv'
<1> USE DEF OutboundInv
<1>1. UNCHANGED callerVars
  BY DEF Dispatch, Subscribe, Take, Reject, FetchTimeout, Compose, Send, Pause, Exit,
         Fetched, FetchFail, Stop
<1>2. BreakerInv' /\ BackOffHasCause'
  BY <1>1, DispatcherApart
<1>3. CASE Subscribe(t) \/ Exit(t) \/ Stop(t)
  <2>1. TypeOK'
    BY <1>1, <1>3 DEF Subscribe, Exit, Stop, Goto, TypeOK, TaskStates, callerVars
  <2>2. VoiceInv' /\ PausedAfterVoice'
    BY <1>3 DEF Subscribe, Exit, Stop, Goto, TypeOK, VoiceInv, PausedAfterVoice, Peer
  <2>3. QED BY <1>2, <2>1, <2>2
<1>4. CASE Take(t)
  <2>1. /\ Head(queue[t]) \in Calls /\ Tail(queue[t]) \in Seq(Calls)
        /\ KindOf[Head(queue[t])] \in Kinds \ {"photo"}
    BY <1>4, OutboundAssumption DEF Take, TypeOK
  <2>2. PICK c \in Calls, phase \in {"fetching", "composing", "sending"} :
          /\ task[t] = "waiting" /\ task' = [task EXCEPT ![t] = phase]
          /\ cur' = [cur EXCEPT ![t] = c]
          /\ phase = "composing" => KindOf[c] = "voice_note"
    BY <1>4, <2>1, PhaseType DEF Take, Goto
  <2>3. queue' \in [Topics -> Seq(Calls)]
    BY <1>4, <2>1 DEF Take, TypeOK
  <2>4. UNCHANGED <<stopping, outcome, line, recording, unpaused>>
    BY <1>4 DEF Take
  <2>5. TypeOK'
    BY <1>1, <2>2, <2>3, <2>4, OutboundAssumption DEF TypeOK, TaskStates, callerVars
  <2>6. VoiceInv' /\ PausedAfterVoice'
    BY <2>2, <2>4 DEF TypeOK, VoiceInv, PausedAfterVoice, Peer
  <2>7. QED BY <1>2, <2>5, <2>6
<1>5. CASE Reject(t)
  <2>1. Head(queue[t]) \in Calls /\ Tail(queue[t]) \in Seq(Calls)
    BY <1>5 DEF Reject, TypeOK
  <2>2. Settle(Head(queue[t]), "rejected")
    BY <1>5 DEF Reject
  <2>3. outcome' \in [Calls -> Outcomes] /\ line' \in [Topics -> Seq(Calls)]
    BY <2>1, <2>2, SettleType DEF Outcomes
  <2>4. queue' \in [Topics -> Seq(Calls)]
    BY <1>5, <2>1 DEF Reject, TypeOK
  <2>5. UNCHANGED <<task, cur, stopping, recording, unpaused>>
    BY <1>5 DEF Reject
  <2>6. TypeOK'
    BY <1>1, <2>3, <2>4, <2>5 DEF TypeOK, callerVars
  <2>7. VoiceInv' /\ PausedAfterVoice'
    BY <2>5 DEF VoiceInv, PausedAfterVoice
  <2>8. QED BY <1>2, <2>6, <2>7
<1>6. CASE Fetched(t)
  <2>1. TypeOK'
    BY <1>1, <1>6 DEF Fetched, Goto, TypeOK, TaskStates, callerVars
  <2>2. VoiceInv' /\ PausedAfterVoice'
    BY <1>6 DEF Fetched, Goto, TypeOK, VoiceInv, PausedAfterVoice, Peer
  <2>3. QED BY <1>2, <2>1, <2>2
<1>7. CASE FetchFail(t)
  <2>1. cur[t] \in Calls /\ Settle(cur[t], "failed")
    BY <1>7 DEF FetchFail, Goto, TypeOK
  <2>2. outcome' \in [Calls -> Outcomes] /\ line' \in [Topics -> Seq(Calls)]
    BY <2>1, SettleType DEF Outcomes
  <2>3. /\ task[t] = "fetching" /\ task' = [task EXCEPT ![t] = "waiting"]
        /\ cur' = [cur EXCEPT ![t] = NoCall]
        /\ UNCHANGED <<queue, stopping, recording, unpaused>>
    BY <1>7 DEF FetchFail, Goto, Release
  <2>4. TypeOK'
    BY <1>1, <2>2, <2>3 DEF TypeOK, TaskStates, callerVars
  <2>5. VoiceInv' /\ PausedAfterVoice'
    BY <2>3 DEF TypeOK, VoiceInv, PausedAfterVoice, Peer
  <2>6. QED BY <1>2, <2>4, <2>5
<1>8. CASE Compose(t)
  <2>1. cur[t] \in Calls /\ KindOf[cur[t]] = "voice_note"
    BY <1>8 DEF Compose, Goto, TypeOK, VoiceInv
  <2>2. Peer(cur[t]) \in Topics \X Chats
    BY <2>1, OutboundAssumption DEF Peer
  <2>3. /\ task[t] = "composing" /\ task' = [task EXCEPT ![t] = "sending"]
        /\ recording' \subseteq recording \cup {Peer(cur[t])}
        /\ UNCHANGED <<queue, cur, stopping, outcome, line, unpaused>>
    BY <1>8 DEF Compose, Goto
  <2>4. TypeOK'
    BY <1>1, <2>2, <2>3 DEF TypeOK, TaskStates, callerVars
  <2>5. VoiceInv'
    BY <2>3 DEF TypeOK, VoiceInv
  <2>6. PausedAfterVoice'
    BY <2>1, <2>3 DEF TypeOK, PausedAfterVoice, Peer
  <2>7. QED BY <1>2, <2>4, <2>5, <2>6
<1>9. CASE Send(t)
  <2>1. cur[t] \in Calls /\ task[t] = "sending"
    BY <1>9 DEF Send, TypeOK
  <2>2. outcome' \in [Calls -> Outcomes] /\ line' \in [Topics -> Seq(Calls)]
    BY <1>9, <2>1, SettleType DEF Send, Outcomes
  <2>3. UNCHANGED <<queue, stopping, recording, unpaused>>
    BY <1>9 DEF Send
  <2>4. CASE KindOf[cur[t]] = "voice_note"
    <3>1. task' = [task EXCEPT ![t] = "pausing"] /\ UNCHANGED cur
      BY <1>9, <2>4 DEF Send, Goto
    <3>2. TypeOK'
      BY <1>1, <2>1, <2>2, <2>3, <3>1 DEF TypeOK, TaskStates, callerVars
    <3>3. VoiceInv' /\ PausedAfterVoice'
      BY <2>1, <2>3, <2>4, <3>1 DEF TypeOK, VoiceInv, PausedAfterVoice, Peer
    <3>4. QED BY <1>2, <3>2, <3>3
  <2>5. CASE KindOf[cur[t]] # "voice_note"
    <3>1. task' = [task EXCEPT ![t] = "waiting"] /\ cur' = [cur EXCEPT ![t] = NoCall]
      BY <1>9, <2>5 DEF Send, Goto, Release
    <3>2. TypeOK'
      BY <1>1, <2>1, <2>2, <2>3, <3>1 DEF TypeOK, TaskStates, callerVars
    <3>3. VoiceInv' /\ PausedAfterVoice'
      BY <2>1, <2>3, <2>5, <3>1 DEF TypeOK, VoiceInv, PausedAfterVoice, Peer
    <3>4. QED BY <1>2, <3>2, <3>3
  <2>6. QED BY <2>4, <2>5
<1>10. CASE Pause(t)
  <2>1. cur[t] \in Calls
    BY <1>10 DEF Pause, Goto, TypeOK
  <2>2. Peer(cur[t]) \in Topics \X Chats
    BY <2>1, OutboundAssumption DEF Peer
  <2>3. /\ task[t] = "pausing" /\ task' = [task EXCEPT ![t] = "waiting"]
        /\ cur' = [cur EXCEPT ![t] = NoCall]
        /\ UNCHANGED <<queue, stopping, outcome, line>>
    BY <1>10 DEF Pause, Goto, Release
  <2>4. /\ recording' \subseteq recording
        /\ unpaused' \subseteq unpaused \cup {Peer(cur[t])}
        /\ \A p \in recording' \ unpaused' : p \in recording \ unpaused /\ p # Peer(cur[t])
    BY <1>10 DEF Pause
  <2>5. TypeOK'
    BY <1>1, <2>2, <2>3, <2>4 DEF TypeOK, TaskStates, callerVars
  <2>6. VoiceInv'
    BY <2>3 DEF TypeOK, VoiceInv
  <2>7. ASSUME NEW p \in recording' \ unpaused'
        PROVE  \E u \in Topics : /\ task'[u] \in {"sending", "pausing"}
                                 /\ KindOf[cur'[u]] = "voice_note" /\ Peer(cur'[u]) = p
    <3>1. p \in recording \ unpaused /\ p # Peer(cur[t])
      BY <2>4
    <3>2. PICK u \in Topics : /\ task[u] \in {"sending", "pausing"}
                             /\ KindOf[cur[u]] = "voice_note" /\ Peer(cur[u]) = p
      BY <3>1 DEF PausedAfterVoice
    <3>3. task'[u] = task[u] /\ cur'[u] = cur[u]
      BY <2>3, <3>1, <3>2 DEF TypeOK
    <3>4. QED BY <3>2, <3>3
  <2>8. PausedAfterVoice'
    BY <2>7 DEF PausedAfterVoice, Peer
  <2>9. QED BY <1>2, <2>5, <2>6, <2>8
<1>11. QED
  BY <1>3, <1>4, <1>5, <1>6, <1>7, <1>8, <1>9, <1>10 DEF Dispatch, FetchTimeout
-----------------------------------------------------------------------------
LEMMA OutboundStep == OutboundInv /\ [Next]_vars => OutboundInv'
<1> SUFFICES ASSUME OutboundInv, [Next]_vars PROVE OutboundInv'
  OBVIOUS
<1>1. CASE UNCHANGED vars
  BY <1>1 DEF OutboundInv, vars, TypeOK, VoiceInv, PausedAfterVoice, BreakerInv, BackOffHasCause
<1>2. ASSUME NEW t \in Topics, Cool(t) PROVE OutboundInv'
  <2>1. UNCHANGED dispatcherVars
    BY <1>2 DEF Cool
  <2>2. VoiceInv' /\ PausedAfterVoice'
    BY <2>1, CallersApart
  <2>3. TypeOK'
    BY <1>2 DEF OutboundInv, Cool, TypeOK, dispatcherVars
  <2>4. BreakerInv' /\ BackOffHasCause'
    BY <1>2 DEF OutboundInv, Cool, TypeOK, BreakerInv, BackOffHasCause
  <2>5. QED BY <2>2, <2>3, <2>4 DEF OutboundInv
<1>3. QED BY <1>1, <1>2, CallerStep, DispatcherStep DEF Next

LEMMA OutboundInvariant == Spec => []OutboundInv
<1>1. QED BY OutboundInit, OutboundStep, PTL DEF Spec

\* For any calls, topics and chats the variables keep their types, and a
\* dispatcher (dispatch.rs) holds an event exactly while it dispatches it.
THEOREM OutboundTypeCorrect == Spec => []TypeOK
<1>1. OutboundInv => TypeOK
  BY DEF OutboundInv
<1>2. QED BY <1>1, OutboundInvariant, PTL

\* No phone is left showing "recording" but for a Paused that failed.
THEOREM VoiceNotesPause == Spec => []PausedAfterVoice
<1>1. OutboundInv => PausedAfterVoice
  BY DEF OutboundInv
<1>2. QED BY <1>1, OutboundInvariant, PTL

\* However many accounts share the daemon, a call is told to back off only
\* after a tool's publication for its own account failed.
THEOREM BreakersAreApart == Spec => []BackOffHasCause
<1>1. OutboundInv => BackOffHasCause
  BY DEF OutboundInv
<1>2. QED BY <1>1, OutboundInvariant, PTL
-----------------------------------------------------------------------------
(***************************************************************************)
(* The order of settling: the history line is the subscription's queue,    *)
(* behind the event in hand until that is settled.                         *)
(***************************************************************************)
Distinct(s) == \A i, j \in 1..Len(s) : s[i] = s[j] => i = j

\* A line holds its own topic's accepted, unsettled events, each once.
Lined(t) ==
  /\ Distinct(line[t])
  /\ \A i \in 1..Len(line[t]) :
       /\ TopicOf[line[t][i]] = t
       /\ pc[line[t][i]] = "ok" /\ outcome[line[t][i]] = "none"

Holding(t) == task[t] \in {"fetching", "composing", "sending"}

Behind(t) ==
  IF Holding(t)
    THEN line[t] # <<>> /\ Head(line[t]) = cur[t] /\ Tail(line[t]) = queue[t]
    ELSE line[t] = queue[t]

\* An event has a fate only once it was accepted.
Fresh == \A c \in Calls : outcome[c] # "none" => pc[c] = "ok"

LineInv == Fresh /\ \A t \in Topics : Lined(t) /\ Behind(t)

LEMMA AppendFacts ==
  ASSUME NEW S, NEW s \in Seq(S), NEW e \in S, Distinct(s),
         \A i \in 1..Len(s) : s[i] # e
  PROVE  /\ Distinct(Append(s, e))
         /\ \A i \in 1..Len(Append(s, e)) :
              Append(s, e)[i] = e \/ \E j \in 1..Len(s) : Append(s, e)[i] = s[j]
<1>1. Len(Append(s, e)) = Len(s) + 1 /\ Len(s) \in Nat
  OBVIOUS
<1>2. \A i \in 1..Len(s) + 1 : Append(s, e)[i] = IF i <= Len(s) THEN s[i] ELSE e
  OBVIOUS
<1>3. Distinct(Append(s, e))
  BY <1>1, <1>2 DEF Distinct
<1>4. ASSUME NEW i \in 1..Len(s) + 1
      PROVE  Append(s, e)[i] = e \/ \E j \in 1..Len(s) : Append(s, e)[i] = s[j]
  <2>1. CASE i <= Len(s)
    <3>1. i \in 1..Len(s) /\ Append(s, e)[i] = s[i]
      BY <1>1, <1>2, <2>1
    <3>2. QED BY <3>1
  <2>2. CASE ~(i <= Len(s))
    BY <1>2, <2>2
  <2>3. QED BY <2>1, <2>2
<1>5. QED BY <1>1, <1>3, <1>4

LEMMA TailFacts ==
  ASSUME NEW S, NEW s \in Seq(S), s # <<>>, Distinct(s)
  PROVE  /\ Distinct(Tail(s)) /\ 1 \in 1..Len(s) /\ Head(s) = s[1]
         /\ \A i \in 1..Len(Tail(s)) :
              i + 1 \in 1..Len(s) /\ Tail(s)[i] = s[i + 1] /\ Tail(s)[i] # Head(s)
<1>1. Len(s) \in Nat \ {0} /\ Len(Tail(s)) = Len(s) - 1 /\ Head(s) = s[1]
  OBVIOUS
<1>2. \A i \in 1..Len(s) - 1 : Tail(s)[i] = s[i + 1]
  OBVIOUS
<1>3. \A i \in 1..Len(s) - 1 : i + 1 \in 1..Len(s) /\ 1 \in 1..Len(s) /\ i + 1 # 1
  BY <1>1
<1>4. \A i \in 1..Len(s) - 1 : s[i + 1] # s[1]
  BY <1>3 DEF Distinct
<1>5. Distinct(Tail(s))
  BY <1>1, <1>2, <1>3 DEF Distinct
<1>6. QED BY <1>1, <1>2, <1>3, <1>4, <1>5

LEMMA LineInit == Init => LineInv
BY DEF Init, LineInv, Lined, Behind, Holding, Distinct, Fresh

\* A step that settles nothing and accepts nothing.
LEMMA LineFrame ==
  ASSUME LineInv, UNCHANGED <<line, outcome>>,
         \A c \in Calls : pc[c] = "ok" => pc'[c] = "ok",
         TypeOK, \A t \in Topics : Behind(t) => Behind(t)'
  PROVE  LineInv'
<1>1. \A t \in Topics : \A i \in 1..Len(line[t]) : line[t][i] \in Calls
  BY DEF TypeOK
<1>2. Fresh'
  BY DEF LineInv, Fresh
<1>3. QED BY <1>1, <1>2 DEF LineInv, Lined

\* The event at the head of its line is settled and leaves it.
LEMMA LineSettle ==
  ASSUME LineInv, TypeOK, NEW t \in Topics, NEW result, line[t] # <<>>,
         Settle(Head(line[t]), result), UNCHANGED pc
  PROVE  /\ line' = [line EXCEPT ![t] = Tail(line[t])]
         /\ Fresh' /\ \A u \in Topics : Lined(u)'
         /\ \A u \in Topics : \A i \in 2..Len(line[u]) : outcome'[line[u][i]] = "none"
<1> DEFINE c == Head(line[t])
<1>1. line[t] \in Seq(Calls) /\ Distinct(line[t]) /\ Lined(t)
  BY DEF TypeOK, LineInv, Lined
<1>2. c \in Calls /\ c = line[t][1] /\ 1 \in 1..Len(line[t]) /\ TopicOf[c] = t
  BY <1>1, TailFacts DEF Lined
<1>3. line' = [line EXCEPT ![t] = Tail(line[t])]
  BY <1>2 DEF Settle
<1>4. \A d \in Calls \ {c} : outcome'[d] = outcome[d]
  BY <1>2 DEF Settle, TypeOK
<1>5. ASSUME NEW u \in Topics, u # t
      PROVE  Lined(u)' /\ \A i \in 1..Len(line[u]) : outcome'[line[u][i]] = "none"
  <2>1. line'[u] = line[u] /\ Lined(u) /\ line[u] \in Seq(Calls)
    BY <1>3, <1>5 DEF LineInv, TypeOK
  <2>2. \A i \in 1..Len(line[u]) : line[u][i] \in Calls \ {c}
    BY <1>2, <1>5, <2>1 DEF Lined
  <2>3. QED BY <1>4, <2>1, <2>2 DEF Lined
<1>6. Lined(t)'
  <2>1. line'[t] = Tail(line[t])
    BY <1>1, <1>3 DEF TypeOK
  <2>2. \A i \in 1..Len(Tail(line[t])) :
          /\ i + 1 \in 1..Len(line[t]) /\ Tail(line[t])[i] = line[t][i + 1]
          /\ Tail(line[t])[i] \in Calls \ {c}
    BY <1>1, TailFacts
  <2>3. Distinct(Tail(line[t]))
    BY <1>1, TailFacts
  <2>4. QED BY <1>1, <1>4, <2>1, <2>2, <2>3 DEF Lined
<1>7. ASSUME NEW i \in 2..Len(line[t]) PROVE outcome'[line[t][i]] = "none"
  <2>1. i \in 1..Len(line[t]) /\ line[t][i] # c /\ line[t][i] \in Calls
    BY <1>1, <1>2, <1>7 DEF Distinct
  <2>2. QED BY <1>1, <1>4, <2>1 DEF Lined
<1>8. \A u \in Topics : \A i \in 2..Len(line[u]) : outcome'[line[u][i]] = "none"
  <2>1. \A u \in Topics : Len(line[u]) \in Nat
    BY DEF TypeOK
  <2>2. QED BY <2>1, <1>5, <1>7
<1>9. Fresh'
  <2>1. pc[c] = "ok"
    BY <1>1, <1>2 DEF Lined
  <2>2. QED BY <2>1, <1>4 DEF LineInv, Fresh
<1>10. QED BY <1>3, <1>5, <1>6, <1>8, <1>9

\* What one step keeps and shows of the lines.
InOrder == \A t \in Topics : \A i \in 2..Len(line[t]) : outcome'[line[t][i]] = "none"
LineGoal == LineInv' /\ InOrder

LEMMA QuietOrder ==
  ASSUME LineInv, TypeOK, UNCHANGED outcome
  PROVE  InOrder
<1>1. \A t \in Topics : Len(line[t]) \in Nat
  BY DEF TypeOK
<1>2. QED BY <1>1 DEF InOrder, LineInv, Lined

LEMMA CallerLine ==
  ASSUME LineInv, TypeOK, NEW c \in Calls, Caller(c)
  PROVE  LineGoal
<1>0. UNCHANGED dispatcherVars
  BY DEF Caller, Refuse, BackOff, Begin, PublishOk, PublishFail
<1>1. CASE Refuse(c) \/ BackOff(c) \/ Begin(c) \/ PublishFail(c)
  <2>1. UNCHANGED <<queue, outcome, line>>
    BY <1>1 DEF Refuse, BackOff, Begin, PublishFail
  <2>2. \A d \in Calls : pc[d] = "ok" => pc'[d] = "ok"
    BY <1>1 DEF Refuse, BackOff, Begin, PublishFail, Told, TypeOK
  <2>3. \A t \in Topics : Behind(t) => Behind(t)'
    BY <1>0, <2>1 DEF Behind, Holding, dispatcherVars
  <2>4. QED BY <2>1, <2>2, <2>3, LineFrame, QuietOrder DEF LineGoal
<1>2. CASE PublishOk(c)
  <2> DEFINE t == TopicOf[c]
  <2>1. t \in Topics
    BY OutboundAssumption
  <2>2. /\ pc[c] = "publishing" /\ pc'[c] = "ok"
        /\ \A d \in Calls \ {c} : pc'[d] = pc[d]
    BY <1>2 DEF PublishOk, Told, TypeOK
  <2>3. \A u \in Topics : \A i \in 1..Len(line[u]) : line[u][i] \in Calls \ {c}
    BY <2>2 DEF LineInv, Lined, TypeOK
  <2>4. CASE task[t] \in {"starting", "gone"}
    <3>1. /\ UNCHANGED <<queue, line>>
          /\ \A d \in Calls \ {c} : outcome'[d] = outcome[d]
      BY <1>2, <2>4 DEF PublishOk, TypeOK
    <3>2. \A u \in Topics : Lined(u)'
      BY <2>2, <2>3, <3>1 DEF LineInv, Lined
    <3>3. \A u \in Topics : Behind(u)'
      BY <1>0, <3>1 DEF LineInv, Behind, Holding, dispatcherVars
    <3>4. InOrder
      <4>1. \A u \in Topics : Len(line[u]) \in Nat
        BY DEF TypeOK
      <4>2. QED BY <4>1, <2>3, <3>1 DEF InOrder, LineInv, Lined
    <3>5. Fresh'
      BY <2>2, <3>1 DEF LineInv, Fresh
    <3>6. QED BY <3>2, <3>3, <3>4, <3>5 DEF LineGoal, LineInv
  <2>5. CASE task[t] \notin {"starting", "gone"}
    <3>1. /\ UNCHANGED outcome /\ line[t] \in Seq(Calls) /\ queue[t] \in Seq(Calls)
          /\ line'[t] = Append(line[t], c) /\ queue'[t] = Append(queue[t], c)
          /\ \A u \in Topics \ {t} : line'[u] = line[u] /\ queue'[u] = queue[u]
      BY <1>2, <2>1, <2>5 DEF PublishOk, TypeOK
    <3>2. outcome[c] = "none"
      BY <2>2 DEF LineInv, Fresh
    <3>3. Lined(t)'
      <4>1. Distinct(line[t]) /\ \A i \in 1..Len(line[t]) : line[t][i] # c
        BY <2>1, <2>3 DEF LineInv, Lined
      <4>2. /\ Distinct(line'[t])
            /\ \A i \in 1..Len(line'[t]) :
                 line'[t][i] = c \/ \E j \in 1..Len(line[t]) : line'[t][i] = line[t][j]
        BY <3>1, <4>1, AppendFacts
      <4>3. \A j \in 1..Len(line[t]) :
              /\ TopicOf[line[t][j]] = t
              /\ pc'[line[t][j]] = "ok" /\ outcome'[line[t][j]] = "none"
        BY <2>1, <2>2, <2>3, <3>1 DEF LineInv, Lined
      <4>4. QED BY <2>2, <3>1, <3>2, <4>2, <4>3 DEF Lined
    <3>4. \A u \in Topics \ {t} : Lined(u)'
      BY <2>2, <2>3, <3>1 DEF LineInv, Lined
    <3>5. \A u \in Topics : Behind(u)'
      <4>1. \A u \in Topics : task'[u] = task[u] /\ cur'[u] = cur[u]
        BY <1>0 DEF dispatcherVars
      <4>2. line[t] # <<>> => /\ Head(line'[t]) = Head(line[t]) /\ line'[t] # <<>>
                              /\ Tail(line'[t]) = Append(Tail(line[t]), c)
        BY <3>1, HeadTailAppend
      <4>3. Behind(t)'
        BY <2>1, <3>1, <4>1, <4>2 DEF LineInv, Behind, Holding
      <4>4. \A u \in Topics \ {t} : Behind(u)'
        BY <3>1, <4>1 DEF LineInv, Behind, Holding
      <4>5. QED BY <4>3, <4>4
    <3>6. Fresh'
      BY <2>2, <3>1 DEF LineInv, Fresh
    <3>7. QED BY <3>1, <3>3, <3>4, <3>5, <3>6, QuietOrder DEF LineGoal, LineInv
  <2>6. QED BY <2>4, <2>5
<1>3. QED BY <1>1, <1>2 DEF Caller

\* Settling the event at the head of t's line, with what follows it queued.
LEMMA SettleLine ==
  ASSUME LineInv, TypeOK, NEW t \in Topics, NEW result, line[t] # <<>>,
         Settle(Head(line[t]), result), UNCHANGED pc,
         ~Holding(t)', queue'[t] = Tail(line[t]),
         \A u \in Topics \ {t} :
           task'[u] = task[u] /\ cur'[u] = cur[u] /\ queue'[u] = queue[u]
  PROVE  LineGoal
<1>1. line'[t] = Tail(line[t]) /\ \A u \in Topics \ {t} : line'[u] = line[u]
  <2>1. line' = [line EXCEPT ![t] = Tail(line[t])]
    BY LineSettle
  <2>2. line \in [Topics -> Seq(Calls)]
    BY DEF TypeOK
  <2>3. QED BY <2>1, <2>2
<1>2. \A u \in Topics : Behind(u)'
  BY <1>1 DEF LineInv, Behind, Holding
<1>3. Fresh' /\ (\A u \in Topics : Lined(u)') /\ InOrder
  BY LineSettle DEF InOrder
<1>4. QED BY <1>2, <1>3 DEF LineGoal, LineInv

LEMMA DispatcherLine ==
  ASSUME LineInv, TypeOK, NEW t \in Topics,
         Dispatch(t) \/ Fetched(t) \/ FetchFail(t) \/ Stop(t) \/ Cool(t)
  PROVE  LineGoal
<1>1. CASE Subscribe(t) \/ Exit(t) \/ Stop(t) \/ Cool(t) \/ Fetched(t) \/ Compose(t) \/ Pause(t)
  <2>1. UNCHANGED <<line, outcome, pc, queue>>
    BY <1>1 DEF Subscribe, Exit, Stop, Cool, Fetched, Compose, Pause, callerVars
  <2>2. \A u \in Topics : /\ Holding(u)' <=> Holding(u)
                          /\ Holding(u) => cur'[u] = cur[u]
    BY <1>1
    DEF Subscribe, Exit, Stop, Cool, Fetched, Compose, Pause, Goto, Release, Holding, TypeOK,
        dispatcherVars
  <2>3. \A u \in Topics : Behind(u) => Behind(u)'
    BY <2>1, <2>2 DEF Behind
  <2>4. QED BY <2>1, <2>3, LineFrame, QuietOrder DEF LineGoal
<1>2. CASE Take(t)
  <2>1. /\ UNCHANGED <<line, outcome, pc>>
        /\ queue[t] # <<>> /\ task[t] = "waiting"
        /\ cur'[t] = Head(queue[t]) /\ queue'[t] = Tail(queue[t])
        /\ \A u \in Topics \ {t} :
             task'[u] = task[u] /\ cur'[u] = cur[u] /\ queue'[u] = queue[u]
    BY <1>2 DEF Take, Goto, TypeOK, callerVars
  <2>2. Holding(t)'
    <3>1. Head(queue[t]) \in Calls /\ KindOf[Head(queue[t])] \in Kinds \ {"photo"}
      BY <1>2, OutboundAssumption DEF Take, TypeOK
    <3>2. task'[t] = FirstPhase(KindOf[Head(queue[t])])
      BY <1>2 DEF Take, Goto, TypeOK
    <3>3. QED BY <3>1, <3>2, PhaseType DEF Holding
  <2>3. \A u \in Topics : Behind(u) => Behind(u)'
    BY <2>1, <2>2 DEF Behind, Holding
  <2>4. QED BY <2>1, <2>3, LineFrame, QuietOrder DEF LineGoal
<1>3. CASE Reject(t)
  <2>1. /\ task[t] = "waiting" /\ queue[t] # <<>> /\ Settle(Head(queue[t]), "rejected")
        /\ queue'[t] = Tail(queue[t]) /\ UNCHANGED <<pc, task, cur>>
        /\ \A u \in Topics \ {t} : queue'[u] = queue[u]
    BY <1>3 DEF Reject, TypeOK, callerVars
  <2>2. line[t] = queue[t]
    BY <2>1 DEF LineInv, Behind, Holding
  <2>3. QED BY <2>1, <2>2, SettleLine DEF Holding
<1>4. CASE FetchFail(t) \/ Send(t)
  <2>1. /\ task[t] \in {"fetching", "sending"} /\ task'[t] \in {"waiting", "pausing"}
        /\ UNCHANGED <<pc, queue>>
        /\ \E result \in {"sent", "failed"} : Settle(cur[t], result)
    <3>1. CASE FetchFail(t)
      BY <3>1 DEF FetchFail, Goto, TypeOK, callerVars
    <3>2. CASE Send(t)
      BY <3>2 DEF Send, Goto, TypeOK, callerVars
    <3>3. QED BY <1>4, <3>1, <3>2
  <2>2. \A u \in Topics \ {t} : task'[u] = task[u] /\ cur'[u] = cur[u]
    BY <1>4 DEF FetchFail, Send, Goto, Release, TypeOK
  <2>3. line[t] # <<>> /\ Head(line[t]) = cur[t] /\ Tail(line[t]) = queue[t]
    BY <2>1 DEF LineInv, Behind, Holding
  <2>4. QED BY <2>1, <2>2, <2>3, SettleLine DEF Holding
<1>5. QED BY <1>1, <1>2, <1>3, <1>4 DEF Dispatch, FetchTimeout

LEMMA LineStep == OutboundInv /\ LineInv /\ [Next]_vars => LineInv' /\ [InOrder]_vars
<1> SUFFICES ASSUME TypeOK, LineInv, [Next]_vars PROVE LineInv' /\ [InOrder]_vars
  BY DEF OutboundInv
<1>1. CASE Next
  BY <1>1, CallerLine, DispatcherLine DEF Next, LineGoal
<1>2. CASE UNCHANGED vars
  BY <1>2 DEF vars, LineInv, Lined, Behind, Holding, Fresh
<1>3. QED BY <1>1, <1>2

\* One account's events are settled in the order they were accepted.
THEOREM OrderIsKept == Spec => SettledInOrder
<1>1. (OutboundInv /\ OutboundInv') /\ LineInv /\ [Next]_vars => LineInv'
  BY LineStep
<1>2. OutboundInv /\ LineInv /\ [Next]_vars => [InOrder]_vars
  BY LineStep
<1>3. [InOrder]_vars <=>
        [\A t \in Topics : \A i \in 2..Len(line[t]) : outcome'[line[t][i]] = "none"]_vars
  BY DEF InOrder
<1>4. QED
  BY <1>1, <1>2, <1>3, LineInit, OutboundInvariant, PTL DEF Spec, SettledInOrder
-----------------------------------------------------------------------------
(***************************************************************************)
(* The refinement.  By LineInv what Waiting computes from the state is the *)
(* history variable, so a step of the queue is a step of the mailbox's     *)
(* line: every action has one clause of MailboxStep.                       *)
(***************************************************************************)
\* Putting the head back in front of the tail gives the sequence.
LEMMA HeadBeforeTail ==
  ASSUME NEW S, NEW s \in Seq(S), s # <<>>
  PROVE  <<Head(s)>> \o Tail(s) = s
<1> DEFINE r == <<Head(s)>> \o Tail(s)
<1>1. Len(s) \in Nat \ {0} /\ Head(s) = s[1] /\ Len(Tail(s)) = Len(s) - 1
  OBVIOUS
<1>2. Head(s) \in S /\ Tail(s) \in Seq(S) /\ <<Head(s)>> \in Seq(S) /\ Len(<<Head(s)>>) = 1
  OBVIOUS
<1>3. /\ r \in Seq(S) /\ Len(r) = Len(s)
      /\ \A i \in 1..Len(s) : r[i] = IF i <= 1 THEN <<Head(s)>>[i] ELSE Tail(s)[i - 1]
  BY <1>1, <1>2, ConcatProperties
<1>4. \A i \in 1..Len(s) - 1 : Tail(s)[i] = s[i + 1]
  OBVIOUS
<1>5. ASSUME NEW i \in 1..Len(s) PROVE r[i] = s[i]
  <2>1. CASE i = 1 BY <1>1, <1>3, <2>1
  <2>2. CASE i # 1
    <3>1. i - 1 \in 1..Len(s) - 1 /\ (i - 1) + 1 = i /\ ~(i <= 1)
      BY <1>1, <2>2
    <3> QED BY <1>3, <1>4, <3>1
  <2> QED BY <2>1, <2>2
<1> HIDE DEF r
<1> QED BY <1>1, <1>3, <1>5, SeqEqual

WaitsInLine == [t \in Topics |-> Waiting(t)] = line

LEMMA WaitingIsLine ==
  ASSUME TypeOK, LineInv
  PROVE  WaitsInLine
<1>1. ASSUME NEW t \in Topics PROVE Waiting(t) = line[t]
  <2>1. line[t] \in Seq(Calls) /\ Behind(t)
    BY DEF TypeOK, LineInv
  <2>2. CASE Holding(t)
    BY <2>1, <2>2, HeadBeforeTail DEF Behind, Holding, Waiting
  <2>3. CASE ~Holding(t)
    BY <2>1, <2>3 DEF Behind, Holding, Waiting
  <2> QED BY <2>2, <2>3
<1> QED BY <1>1 DEF TypeOK, WaitsInLine

\* What the callers were told, and what one call's answer makes of it.
Answers == [c \in Calls |-> Answered(c)]

LEMMA ToldStep ==
  ASSUME TypeOK, NEW c \in Calls, NEW from \in {"idle", "publishing"},
         NEW to \in {"refused", "backoff", "ok", "failed"}, Told(c, from, to)
  PROVE  /\ Answers[c] = "waiting"
         /\ Answers' = [Answers EXCEPT ![c] = IF to = "ok" THEN "accepted" ELSE "declined"]
<1>1. pc[c] = from /\ pc'[c] = to /\ \A d \in Calls \ {c} : pc'[d] = pc[d]
  BY DEF TypeOK, Told
<1>2. Answered(c) = "waiting"
  BY <1>1 DEF Answered
<1>3. Answered(c)' = IF to = "ok" THEN "accepted" ELSE "declined"
  BY <1>1 DEF Answered
<1>4. \A d \in Calls \ {c} : Answered(d)' = Answered(d)
  BY <1>1 DEF Answered
<1> QED BY <1>2, <1>3, <1>4 DEF Answers

\* A step of the mailbox, said of the history variable.
Answering(c, answer) == Answers[c] = "waiting" /\ Answers' = [Answers EXCEPT ![c] = answer]
Meets(c, f) == outcome[c] = "none" /\ outcome' = [outcome EXCEPT ![c] = f]
MailboxStep ==
  \/ \E c \in Calls : Answering(c, "declined") /\ UNCHANGED <<line, outcome>>
  \/ \E c \in Calls : /\ Answering(c, "accepted") /\ UNCHANGED outcome
                     /\ line' = [line EXCEPT ![TopicOf[c]] = Append(@, c)]
  \/ \E c \in Calls : Answering(c, "accepted") /\ Meets(c, "lost") /\ UNCHANGED line
  \/ \E t \in Topics : /\ line[t] # <<>>
                      /\ \E f \in {"rejected", "failed", "sent"} : Meets(Head(line[t]), f)
                      /\ line' = [line EXCEPT ![t] = Tail(@)]
                      /\ UNCHANGED Answers
  \/ UNCHANGED <<Answers, line, outcome>>

LEMMA CallerMailbox ==
  ASSUME TypeOK, LineInv, NEW c \in Calls, Caller(c)
  PROVE  MailboxStep
<1>1. CASE Refuse(c) \/ BackOff(c) \/ PublishFail(c)
  <2>1. /\ UNCHANGED <<line, outcome>>
        /\ \E from \in {"idle", "publishing"}, to \in {"refused", "backoff", "failed"} :
             Told(c, from, to)
    BY <1>1 DEF Refuse, BackOff, PublishFail
  <2>2. Answering(c, "declined")
    BY <2>1, ToldStep DEF Answering
  <2> QED BY <2>1, <2>2 DEF MailboxStep
<1>2. CASE Begin(c)
  <2>1. UNCHANGED <<line, outcome>> /\ Told(c, "idle", "publishing")
    BY <1>2 DEF Begin
  <2>2. \A d \in Calls : Answered(d)' = Answered(d)
    <3>1. pc[c] = "idle" /\ pc'[c] = "publishing" /\ \A d \in Calls \ {c} : pc'[d] = pc[d]
      BY <2>1 DEF Told, TypeOK
    <3> QED BY <3>1 DEF Answered
  <2> QED BY <2>1, <2>2 DEF MailboxStep, Answers
<1>3. CASE PublishOk(c)
  <2>1. Told(c, "publishing", "ok")
    BY <1>3 DEF PublishOk
  <2>2. Answering(c, "accepted")
    BY <2>1, ToldStep DEF Answering
  <2>3. outcome[c] = "none"
    BY <2>1 DEF Told, LineInv, Fresh
  <2>4. CASE task[TopicOf[c]] \in {"starting", "gone"}
    BY <1>3, <2>2, <2>3, <2>4 DEF PublishOk, MailboxStep, Meets
  <2>5. CASE task[TopicOf[c]] \notin {"starting", "gone"}
    BY <1>3, <2>2, <2>5 DEF PublishOk, MailboxStep
  <2> QED BY <2>4, <2>5
<1> QED BY <1>1, <1>2, <1>3 DEF Caller

\* The event at the head of t's line is settled.
LEMMA SettleMailbox ==
  ASSUME TypeOK, LineInv, NEW t \in Topics, line[t] # <<>>,
         NEW result \in {"rejected", "failed", "sent"},
         Settle(Head(line[t]), result), UNCHANGED pc
  PROVE  MailboxStep
<1>1. line' = [line EXCEPT ![t] = Tail(@)]
  BY LineSettle
<1>2. Head(line[t]) = line[t][1] /\ 1 \in 1..Len(line[t])
  BY TailFacts DEF TypeOK, LineInv, Lined
<1>3. Meets(Head(line[t]), result)
  BY <1>2 DEF Meets, LineInv, Lined, Settle
<1>4. UNCHANGED Answers
  BY DEF Answers, Answered
<1> QED BY <1>1, <1>3, <1>4 DEF MailboxStep

LEMMA DispatcherMailbox ==
  ASSUME TypeOK, LineInv, NEW t \in Topics,
         Dispatch(t) \/ Fetched(t) \/ FetchFail(t) \/ Stop(t) \/ Cool(t)
  PROVE  MailboxStep
<1>1. CASE \/ Subscribe(t) \/ Exit(t) \/ Stop(t) \/ Cool(t) \/ Fetched(t) \/ Compose(t)
           \/ Pause(t) \/ Take(t)
  <2>1. UNCHANGED <<line, outcome, pc>>
    BY <1>1
    DEF Subscribe, Exit, Stop, Cool, Fetched, Compose, Pause, Take, callerVars
  <2>2. UNCHANGED Answers
    BY <2>1 DEF Answers, Answered
  <2> QED BY <2>1, <2>2 DEF MailboxStep
<1>2. CASE Reject(t)
  <2>1. line[t] = queue[t]
    BY <1>2 DEF Reject, LineInv, Behind, Holding
  <2> QED BY <1>2, <2>1, SettleMailbox DEF Reject, callerVars
<1>3. CASE FetchFail(t) \/ Send(t)
  <2>1. /\ task[t] \in {"fetching", "sending"} /\ UNCHANGED pc
        /\ \E result \in {"sent", "failed"} : Settle(cur[t], result)
    <3>1. CASE FetchFail(t) BY <3>1 DEF FetchFail, Goto, callerVars
    <3>2. CASE Send(t) BY <3>2 DEF Send, Goto, callerVars
    <3> QED BY <1>3, <3>1, <3>2
  <2>2. line[t] # <<>> /\ Head(line[t]) = cur[t]
    BY <2>1 DEF LineInv, Behind, Holding
  <2> QED BY <2>1, <2>2, SettleMailbox
<1> QED BY <1>1, <1>2, <1>3 DEF Dispatch, FetchTimeout

\* The mailbox's own actions, at the mapped state, are the clauses.
LEMMA MailboxMeaning ==
  ASSUME WaitsInLine, WaitsInLine', MailboxStep
  PROVE  [Mailbox!Next]_(Mailbox!vars)
<1>1. [t \in Topics |-> Waiting(t)] = line /\ [t \in Topics |-> Waiting(t)]' = line'
  BY DEF WaitsInLine
<1>2. Answers = [c \in Calls |-> Answered(c)] /\ Answers' = [c \in Calls |-> Answered(c)]'
  BY DEF Answers
<1>3. ASSUME NEW c \in Calls, Answering(c, "declined"), UNCHANGED <<line, outcome>>
      PROVE  Mailbox!Decline(c)
  BY <1>1, <1>2, <1>3 DEF Answering, Mailbox!Decline, Mailbox!Tell
<1>4. ASSUME NEW c \in Calls, Answering(c, "accepted"), UNCHANGED outcome,
             line' = [line EXCEPT ![TopicOf[c]] = Append(@, c)]
      PROVE  Mailbox!Accept(c)
  BY <1>1, <1>2, <1>4 DEF Answering, Mailbox!Accept, Mailbox!Tell
<1>5. ASSUME NEW c \in Calls, Answering(c, "accepted"), Meets(c, "lost"), UNCHANGED line
      PROVE  Mailbox!Lose(c)
  BY <1>1, <1>2, <1>5 DEF Answering, Meets, Mailbox!Lose, Mailbox!Tell, Mailbox!Meet
<1>6. ASSUME NEW t \in Topics, line[t] # <<>>, UNCHANGED Answers,
             NEW f \in {"rejected", "failed", "sent"}, Meets(Head(line[t]), f),
             line' = [line EXCEPT ![t] = Tail(@)]
      PROVE  Mailbox!Serve(t)
  BY <1>1, <1>2, <1>6 DEF Meets, Mailbox!Serve, Mailbox!Meet
<1>7. CASE UNCHANGED <<Answers, line, outcome>>
  BY <1>1, <1>2, <1>7 DEF Mailbox!vars
<1> QED BY <1>3, <1>4, <1>5, <1>6, <1>7 DEF MailboxStep, Mailbox!Next

LEMMA MailboxInit == Init => Mailbox!Init
<1> SUFFICES ASSUME Init PROVE Mailbox!Init
  OBVIOUS
<1>1. \A c \in Calls : Answered(c) = "waiting"
  BY DEF Init, Answered
<1>2. \A t \in Topics : Waiting(t) = <<>>
  BY DEF Init, Waiting
<1> QED BY <1>1, <1>2 DEF Init, Mailbox!Init

LEMMA QueueStep == TypeOK /\ LineInv /\ [Next]_vars => MailboxStep
<1> SUFFICES ASSUME TypeOK, LineInv, [Next]_vars PROVE MailboxStep
  OBVIOUS
<1>1. CASE Next
  BY <1>1, CallerMailbox, DispatcherMailbox DEF Next
<1>2. CASE UNCHANGED vars
  BY <1>2 DEF vars, MailboxStep, Answers, Answered
<1> QED BY <1>1, <1>2

LEMMA LineInvariance == Spec => [](TypeOK /\ LineInv)
<1>1. (OutboundInv /\ OutboundInv') /\ LineInv /\ [Next]_vars => LineInv'
  BY LineStep
<1>2. OutboundInv => TypeOK
  BY DEF OutboundInv
<1> QED BY <1>1, <1>2, LineInit, OutboundInvariant, PTL DEF Spec

\* The callers, the broker's queue and the dispatcher implement the mailbox:
\* every event acknowledged to somebody who publishes is served once and in
\* its turn, whatever fails, and none is forgotten, repeated or misrouted.
THEOREM QueueIsMailbox == Spec => MailboxSpec
<1>1. TypeOK /\ LineInv => WaitsInLine
  BY WaitingIsLine
<1>2. (WaitsInLine /\ WaitsInLine') /\ MailboxStep => [Mailbox!Next]_(Mailbox!vars)
  BY MailboxMeaning
<1> QED
  BY <1>1, <1>2, QueueStep, MailboxInit, LineInvariance, PTL DEF Spec, MailboxSpec, Mailbox!Spec
-----------------------------------------------------------------------------
(***************************************************************************)
(* Nothing is forgotten.  The invariant is kept by the mailbox's steps, so *)
(* it is proved of them and not of the queue's actions.                    *)
(***************************************************************************)
Among(s, e) == \E i \in 1..Len(s) : s[i] = e

Kept ==
  \A c \in Calls : Answers[c] = "accepted" /\ outcome[c] = "none" =>
    Among(line[TopicOf[c]], c)

LEMMA AmongFacts ==
  ASSUME NEW S, NEW s \in Seq(S), NEW e \in S
  PROVE  /\ Among(Append(s, e), e)
         /\ \A d \in S : Among(s, d) => Among(Append(s, e), d)
         /\ \A d \in S : s # <<>> /\ Among(s, d) /\ d # Head(s) => Among(Tail(s), d)
<1>1. Len(s) \in Nat /\ Len(Append(s, e)) = Len(s) + 1
  OBVIOUS
<1>2. Append(s, e)[Len(s) + 1] = e /\ \A i \in 1..Len(s) : Append(s, e)[i] = s[i]
  OBVIOUS
<1>3. Len(s) + 1 \in 1..Len(Append(s, e)) /\ 1..Len(s) \subseteq 1..Len(Append(s, e))
  BY <1>1
<1>4. ASSUME NEW d \in S, s # <<>>, Among(s, d), d # Head(s)
      PROVE  Among(Tail(s), d)
  <2>1. PICK i \in 1..Len(s) : s[i] = d
    BY <1>4 DEF Among
  <2>2. /\ Len(Tail(s)) = Len(s) - 1 /\ Head(s) = s[1]
        /\ \A j \in 1..Len(s) - 1 : Tail(s)[j] = s[j + 1]
    BY <1>4
  <2>3. i - 1 \in 1..Len(Tail(s)) /\ (i - 1) + 1 = i
    BY <1>1, <1>4, <2>1, <2>2
  <2>4. Tail(s)[i - 1] = d
    BY <2>1, <2>2, <2>3
  <2> QED BY <2>3, <2>4 DEF Among
<1> QED BY <1>2, <1>3, <1>4 DEF Among

LEMMA KeptStep == TypeOK /\ Kept /\ MailboxStep => Kept'
<1> SUFFICES ASSUME TypeOK, Kept, MailboxStep,
                    NEW d \in Calls, Answers'[d] = "accepted", outcome'[d] = "none"
             PROVE  Among(line'[TopicOf[d]], d)
  BY DEF Kept
<1> DEFINE u == TopicOf[d]
<1>1. /\ u \in Topics /\ line \in [Topics -> Seq(Calls)] /\ outcome \in [Calls -> Outcomes]
      /\ \A c \in Calls : TopicOf[c] \in Topics
  BY OutboundAssumption DEF TypeOK
<1>2. Answers \in [Calls -> {"waiting", "accepted", "declined"}]
  BY DEF Answers, Answered
<1>3. ASSUME NEW c \in Calls, Answering(c, "declined"), UNCHANGED <<line, outcome>>
      PROVE  Among(line'[u], d)
  BY <1>2, <1>3 DEF Answering, Kept
<1>4. ASSUME NEW c \in Calls, Answering(c, "accepted"), UNCHANGED outcome,
             line' = [line EXCEPT ![TopicOf[c]] = Append(@, c)]
      PROVE  Among(line'[u], d)
  <2>1. d # c => Among(line[u], d)
    BY <1>2, <1>4 DEF Answering, Kept
  <2>2. CASE TopicOf[c] = u
    <3>1. line'[u] = Append(line[u], c) /\ line[u] \in Seq(Calls)
      BY <1>1, <1>4, <2>2
    <3> QED BY <2>1, <3>1, AmongFacts
  <2>3. CASE TopicOf[c] # u
    BY <1>1, <1>4, <2>1, <2>3
  <2> QED BY <2>2, <2>3
<1>5. ASSUME NEW c \in Calls, Answering(c, "accepted"), Meets(c, "lost"), UNCHANGED line
      PROVE  Among(line'[u], d)
  <2>1. outcome'[c] = "lost" /\ \A b \in Calls \ {c} : outcome'[b] = outcome[b]
    BY <1>1, <1>5 DEF Meets
  <2>2. d # c
    BY <2>1
  <2> QED BY <1>2, <1>5, <2>1, <2>2 DEF Answering, Kept
<1>6. ASSUME NEW t \in Topics, line[t] # <<>>, UNCHANGED Answers,
             NEW f \in {"rejected", "failed", "sent"}, Meets(Head(line[t]), f),
             line' = [line EXCEPT ![t] = Tail(@)]
      PROVE  Among(line'[u], d)
  <2>1. Head(line[t]) \in Calls
    BY <1>1, <1>6
  <2>2. d # Head(line[t]) /\ outcome[d] = "none"
    BY <1>1, <1>6, <2>1 DEF Meets
  <2>3. Among(line[u], d)
    BY <1>6, <2>2 DEF Kept
  <2>4. CASE t = u
    <3>1. line'[u] = Tail(line[u]) /\ line[u] \in Seq(Calls) /\ line[u] # <<>>
      BY <1>1, <1>6, <2>4
    <3> QED BY <2>2, <2>3, <2>4, <3>1, AmongFacts
  <2>5. CASE t # u
    BY <1>1, <1>6, <2>3, <2>5
  <2> QED BY <2>4, <2>5
<1>7. CASE UNCHANGED <<Answers, line, outcome>>
  BY <1>7 DEF Kept
<1> QED BY <1>3, <1>4, <1>5, <1>6, <1>7 DEF MailboxStep

LEMMA KeptInit == Init => Kept
BY DEF Init, Kept, Answers, Answered

\* An acknowledged event without a fate is in the dispatcher's hand or in its
\* own account's queue.
AcceptedIsHeld ==
  \A c \in Calls : pc[c] = "ok" /\ outcome[c] = "none" =>
    Among(Waiting(TopicOf[c]), c)

\* Once told "ok", a publication is lost at once or can always be found in
\* its account's queue or in dispatch_event until it has met its fate: no
\* error, timeout, rejection or shutdown makes the plugin forget one.
THEOREM NothingForgotten == Spec => []AcceptedIsHeld
<1>1. TypeOK /\ LineInv /\ Kept => AcceptedIsHeld
  <2> SUFFICES ASSUME TypeOK, LineInv, Kept,
                      NEW c \in Calls, pc[c] = "ok", outcome[c] = "none"
               PROVE  Among(Waiting(TopicOf[c]), c)
    BY DEF AcceptedIsHeld
  <2>1. Answers[c] = "accepted"
    BY DEF Answers, Answered
  <2>2. Waiting(TopicOf[c]) = line[TopicOf[c]]
    BY WaitingIsLine, OutboundAssumption DEF WaitsInLine
  <2> QED BY <2>1, <2>2 DEF Kept
<1> QED BY <1>1, KeptInit, KeptStep, QueueStep, LineInvariance, PTL DEF Spec

\* The safety half of AcceptedSettles: a dispatcher that waits with an empty
\* queue has settled every event its account acknowledged.
IdleMeansSettled ==
  \A c \in Calls :
    pc[c] = "ok" /\ task[TopicOf[c]] = "waiting" /\ queue[TopicOf[c]] = <<>> =>
      outcome[c] # "none"

\* When an account's dispatcher is idle, nothing it acknowledged is pending.
THEOREM IdleIsSettled == Spec => []IdleMeansSettled
<1>1. ASSUME AcceptedIsHeld, NEW c \in Calls, pc[c] = "ok",
             task[TopicOf[c]] = "waiting", queue[TopicOf[c]] = <<>>
      PROVE  outcome[c] # "none"
  <2>1. Waiting(TopicOf[c]) = <<>>
    BY <1>1 DEF Waiting
  <2>2. ~Among(<<>>, c)
    <3>1. Len(<<>>) = 0 /\ 1..0 = {}
      OBVIOUS
    <3> QED BY <3>1 DEF Among
  <2> QED BY <1>1, <2>1, <2>2 DEF AcceptedIsHeld
<1>2. AcceptedIsHeld => IdleMeansSettled
  BY <1>1 DEF IdleMeansSettled
<1> QED BY <1>2, NothingForgotten, PTL
=============================================================================
