------------------------- MODULE ReplyBridgeProofs -------------------------
(***************************************************************************)
(* Proofs about the reply bridge, for every set of messages, sessions and  *)
(* outbound events.  The inductive invariant has three parts: TypeOK, what *)
(* a handler and the dispatcher know of each oneshot (ChannelInv), and     *)
(* where an outbound event can be (PlaceInv).                              *)
(***************************************************************************)
EXTENDS ReplyBridge, SequenceTheorems, TLAPS

-----------------------------------------------------------------------------
(* Sequences without repetition.                                           *)
Distinct(s) == \A i, j \in 1..Len(s) : s[i] = s[j] => i = j

\* Appending a new element keeps a sequence free of repetitions and adds it
\* to the elements.
LEMMA AppendFacts ==
  ASSUME NEW S, NEW s \in Seq(S), NEW e \in S
  PROVE  /\ Append(s, e) \in Seq(S)
         /\ Elements(Append(s, e)) = Elements(s) \cup {e}
         /\ Distinct(s) /\ e \notin Elements(s) => Distinct(Append(s, e))
<1>1. Len(Append(s, e)) = Len(s) + 1 /\ Len(s) \in Nat
  OBVIOUS
<1>2. \A i \in 1..Len(s) + 1 : Append(s, e)[i] = IF i <= Len(s) THEN s[i] ELSE e
  OBVIOUS
<1>3. Elements(Append(s, e)) = Elements(s) \cup {e}
  BY <1>1, <1>2 DEF Elements
<1>4. ASSUME Distinct(s), e \notin Elements(s) PROVE Distinct(Append(s, e))
  BY <1>1, <1>2, <1>4 DEF Elements, Distinct
<1> QED BY <1>3, <1>4

\* Taking the head keeps a sequence free of repetitions and removes exactly
\* the head from the elements.
LEMMA TailFacts ==
  ASSUME NEW S, NEW s \in Seq(S), s # <<>>
  PROVE  /\ Tail(s) \in Seq(S) /\ Head(s) \in S
         /\ Elements(s) = Elements(Tail(s)) \cup {Head(s)}
         /\ Distinct(s) => Distinct(Tail(s)) /\ Head(s) \notin Elements(Tail(s))
<1>1. Len(s) \in Nat \ {0} /\ Len(Tail(s)) = Len(s) - 1 /\ Head(s) = s[1] /\ Head(s) \in S
  OBVIOUS
<1>2. \A i \in 1..Len(s) - 1 : Tail(s)[i] = s[i + 1]
  OBVIOUS
<1>3. Elements(s) \subseteq Elements(Tail(s)) \cup {Head(s)}
  <2> SUFFICES ASSUME NEW i \in 1..Len(s)
               PROVE  s[i] \in Elements(Tail(s)) \cup {Head(s)}
    BY DEF Elements
  <2>1. CASE i = 1 BY <2>1, <1>1
  <2>2. CASE i # 1
    <3>1. i - 1 \in 1..Len(Tail(s)) /\ Tail(s)[i - 1] = s[i]
      BY <2>2, <1>1, <1>2
    <3> QED BY <3>1 DEF Elements
  <2> QED BY <2>1, <2>2
<1>4. Elements(Tail(s)) \cup {Head(s)} \subseteq Elements(s)
  BY <1>1, <1>2 DEF Elements
<1>5. ASSUME Distinct(s)
      PROVE  Distinct(Tail(s)) /\ Head(s) \notin Elements(Tail(s))
  BY <1>1, <1>2, <1>5 DEF Elements, Distinct
<1> QED BY <1>1, <1>3, <1>4, <1>5

-----------------------------------------------------------------------------
USE DEF Stages, Outcomes, Channels, DispStates, IdleDisp

\* Dropping a sender only turns an open channel into a cancelled one.
LEMMA DropSenderType ==
  ASSUME NEW c \in [Msgs -> Channels], NEW owner
  PROVE  DropSender(c, owner) \in [Msgs -> Channels]
BY DEF DropSender

LEMMA TypeStep == TypeOK /\ [Next]_vars => TypeOK'
<1> SUFFICES ASSUME TypeOK, [Next]_vars PROVE TypeOK'
  OBVIOUS
<1> USE MsgsAssumption
<1>1. ASSUME NEW m \in Msgs, Arrival(m) PROVE TypeOK'
  <2>1. CASE Ignore(m) BY <2>1 DEF Ignore, Move, dispVars, TypeOK
  <2>2. CASE BeginDownload(m) BY <2>2 DEF BeginDownload, Move, dispVars, TypeOK
  <2>3. CASE Insert(m)
    BY <2>3, DropSenderType DEF Insert, Move, dispVars, TypeOK
  <2> QED BY <1>1, <2>1, <2>2, <2>3 DEF Arrival
<1>2. ASSUME NEW m \in Msgs, Handler(m) PROVE TypeOK'
  <2> NoReplyOutcome \in Outcomes BY DEF NoReplyOutcome
  <2>1. CASE PublishOk(m) BY <2>1 DEF PublishOk, Move, dispVars, TypeOK
  <2>2. CASE PublishFail(m)
    BY <2>2, DropSenderType DEF PublishFail, Move, dispVars, TypeOK
  <2>3. CASE Receive(m) BY <2>3 DEF Receive, Move, dispVars, TypeOK
  <2>4. CASE Superseded(m) BY <2>4 DEF Superseded, Move, dispVars, TypeOK
  <2>5. CASE Elapse(m) BY <2>5 DEF Elapse, Move, dispVars, TypeOK
  <2>6. CASE DropReceiver(m) BY <2>6 DEF DropReceiver, Move, dispVars, TypeOK
  <2>7. CASE Cleanup(m)
    BY <2>7, DropSenderType DEF Cleanup, Move, dispVars, TypeOK
  <2>8. CASE Announce(m) BY <2>8 DEF Announce, Move, dispVars, TypeOK
  <2> QED BY <1>2, <2>1, <2>2, <2>3, <2>4, <2>5, <2>6, <2>7, <2>8 DEF Handler
<1>3. ASSUME NEW e \in Outbound, CorePublish(e) PROVE TypeOK'
  BY <1>3, AppendFacts DEF CorePublish, bridgeVars, TypeOK
<1>4. CASE Dispatcher
  <2>1. ASSUME queue # <<>>
        PROVE  Head(queue) \in Outbound /\ Tail(queue) \in Seq(Outbound)
    BY <2>1, TailFacts DEF TypeOK
  <2>2. ASSUME queue # <<>>, Owner(Head(queue)) # NoMsg
        PROVE  Owner(Head(queue)) \in Msgs /\ Head(queue).sid \in Sessions
    BY <2>1, <2>2, OutboundAssumption DEF Owner, TypeOK
  <2>3. CASE TakeReactive BY <2>1, <2>2, <2>3 DEF TakeReactive, Take, TypeOK
  <2>4. CASE TakeCancelling
    BY <2>1, <2>2, <2>4, DropSenderType DEF TakeCancelling, Take, TypeOK
  <2>5. CASE TakePlain BY <2>1, <2>5 DEF TakePlain, Take, TypeOK
  <2>6. CASE ResolveOk BY <2>6 DEF ResolveOk, TypeOK
  <2>7. CASE ResolveGone BY <2>7 DEF ResolveGone, bridgeVars, TypeOK
  <2>8. CASE Discard BY <2>8 DEF Discard, bridgeVars, TypeOK
  <2>9. CASE SendOk BY <2>9, AppendFacts DEF SendOk, bridgeVars, TypeOK
  <2>10. CASE SendFail BY <2>10 DEF SendFail, bridgeVars, TypeOK
  <2> QED BY <1>4, <2>3, <2>4, <2>5, <2>6, <2>7, <2>8, <2>9, <2>10 DEF Dispatcher
<1>5. CASE UNCHANGED vars BY <1>5 DEF vars, TypeOK
<1> QED BY <1>1, <1>2, <1>3, <1>4, <1>5 DEF Next

\* The variables always have their types.
THEOREM TypeCorrect == Spec => []TypeOK
<1>1. Init => TypeOK
  BY MsgsAssumption, OutboundAssumption DEF Init, TypeOK
<1> QED BY <1>1, TypeStep, PTL DEF Spec

-----------------------------------------------------------------------------
(* What is known of each oneshot.                                          *)

\* A channel is made by the insertion, open only while its receiver exists,
\* and holds a value exactly when its sender was used.
ChannelStates ==
  \A m \in Msgs :
    /\ pc[m] \in {"idle", "download"} => chan[m] = "none"
    /\ pc[m] # "done" => outcome[m] = "open"
    /\ chan[m] = "open" => pc[m] \in {"publish", "wait", "elapsed"}
    /\ chan[m] \in {"none", "open", "cancelled"} => mail[m] = NoEvent
    /\ chan[m] \in {"sent", "read"} => mail[m] # NoEvent
    /\ chan[m] = "read" => pc[m] = "done"
    /\ outcome[m] = "text" => chan[m] = "read"

\* A sender in the map has not been used.
SlotsUnused == \A s \in Sessions : pending[s] # NoMsg => mail[pending[s]] = NoEvent

\* The sender in the dispatcher's hand is unused, has left its slot, and goes
\* with a text for its own session.
HandOK ==
  disp.at = "resolve" =>
    /\ chan[disp.tx] \in {"open", "closed"} /\ mail[disp.tx] = NoEvent
    /\ pending[SessionOf[disp.tx]] # disp.tx
    /\ disp.ev.kind = "text" /\ disp.ev.sid = SessionOf[disp.tx]

ChannelInv ==
  /\ ChannelStates /\ SlotsAreLive /\ SlotsUnused /\ HandOK
  /\ WaitersReachable /\ OwnConversation

LEMMA ChannelInit == Init => ChannelInv
BY MsgsAssumption, OutboundAssumption
DEF Init, ChannelInv, ChannelStates, SlotsAreLive, SlotsUnused, HandOK,
    WaitersReachable, OwnConversation

LEMMA ChannelStep == TypeOK /\ ChannelInv /\ [Next]_vars => ChannelInv'
<1> SUFFICES ASSUME TypeOK, ChannelInv, [Next]_vars PROVE ChannelInv'
  OBVIOUS
<1> USE MsgsAssumption
<1> USE DEF ChannelInv, ChannelStates, SlotsAreLive, SlotsUnused, HandOK,
            WaitersReachable, OwnConversation, TypeOK
<1>1. ASSUME NEW m \in Msgs, Arrival(m) PROVE ChannelInv'
  <2>1. CASE Ignore(m) BY <2>1 DEF Ignore, Move, dispVars
  <2>2. CASE BeginDownload(m) BY <2>2 DEF BeginDownload, Move, dispVars
  <2>3. CASE Insert(m)
    <3>1. pc[m] \in {"idle", "download"} /\ chan[m] = "none"
      BY <2>3 DEF Insert, Move
    <3>2. ChannelStates' /\ OwnConversation'
      BY <2>3, <3>1 DEF Insert, Move, DropSender, dispVars
    <3>3. SlotsAreLive' /\ SlotsUnused'
      BY <2>3, <3>1 DEF Insert, Move, DropSender, dispVars
    <3>4. HandOK'
      BY <2>3, <3>1 DEF Insert, Move, DropSender, dispVars
    <3>5. WaitersReachable'
      BY <2>3, <3>1 DEF Insert, Move, DropSender, dispVars
    <3> QED BY <3>2, <3>3, <3>4, <3>5
  <2> QED BY <1>1, <2>1, <2>2, <2>3 DEF Arrival
<1>2. ASSUME NEW m \in Msgs, Handler(m) PROVE ChannelInv'
  <2> NoReplyOutcome \in {"apology", "noop"} BY DEF NoReplyOutcome
  <2>1. CASE PublishOk(m) BY <2>1 DEF PublishOk, Move, dispVars
  <2>2. CASE PublishFail(m)
    <3>1. ChannelStates' /\ OwnConversation'
      BY <2>2 DEF PublishFail, Move, DropSender, dispVars
    <3>2. SlotsAreLive' /\ SlotsUnused'
      BY <2>2 DEF PublishFail, Move, DropSender, dispVars
    <3>3. HandOK' /\ WaitersReachable'
      BY <2>2 DEF PublishFail, Move, DropSender, dispVars
    <3> QED BY <3>1, <3>2, <3>3
  <2>3. CASE Receive(m) BY <2>3 DEF Receive, Move, dispVars
  <2>4. CASE Superseded(m) BY <2>4 DEF Superseded, Move, dispVars
  <2>5. CASE Elapse(m) BY <2>5 DEF Elapse, Move, dispVars
  <2>6. CASE DropReceiver(m) BY <2>6 DEF DropReceiver, Move, dispVars
  <2>7. CASE Cleanup(m) BY <2>7 DEF Cleanup, Move, DropSender, dispVars
  <2>8. CASE Announce(m) BY <2>8 DEF Announce, Move, dispVars
  <2> QED BY <1>2, <2>1, <2>2, <2>3, <2>4, <2>5, <2>6, <2>7, <2>8 DEF Handler
<1>3. ASSUME NEW e \in Outbound, CorePublish(e) PROVE ChannelInv'
  BY <1>3 DEF CorePublish, bridgeVars
<1>4. CASE Dispatcher
  <2>1. ASSUME queue # <<>> PROVE Head(queue) \in Outbound
    BY <2>1, TailFacts
  <2>2. ASSUME queue # <<>>, Owner(Head(queue)) # NoMsg
        PROVE  /\ Head(queue).sid \in Sessions
               /\ Owner(Head(queue)) = pending[Head(queue).sid]
    BY <2>1, <2>2, OutboundAssumption DEF Owner
  <2>3. CASE TakeReactive BY <2>1, <2>2, <2>3 DEF TakeReactive, Take
  <2>4. CASE TakeCancelling
    BY <2>1, <2>2, <2>4 DEF TakeCancelling, Take, DropSender
  <2>5. CASE TakePlain BY <2>1, <2>5 DEF TakePlain, Take
  <2>6. CASE ResolveOk BY <2>6 DEF ResolveOk
  <2>7. CASE ResolveGone
    <3>1. UNCHANGED <<pc, outcome, chan, mail, pending>> /\ disp'.at = "route"
      BY <2>7 DEF ResolveGone, bridgeVars
    <3>2. chan[disp.tx] # "open" BY <2>7 DEF ResolveGone
    <3> QED BY <3>1, <3>2
  <2>8. CASE Discard BY <2>8 DEF Discard, bridgeVars
  <2>9. CASE SendOk BY <2>9 DEF SendOk, bridgeVars
  <2>10. CASE SendFail BY <2>10 DEF SendFail, bridgeVars
  <2> QED BY <1>4, <2>3, <2>4, <2>5, <2>6, <2>7, <2>8, <2>9, <2>10 DEF Dispatcher
<1>5. CASE UNCHANGED vars BY <1>5 DEF vars
<1> QED BY <1>1, <1>2, <1>3, <1>4, <1>5 DEF Next

-----------------------------------------------------------------------------
(* Where an outbound event can be: one place at a time.                    *)
QueuePlace ==
  /\ Distinct(queue)
  /\ Elements(queue) \subseteq published

WirePlace ==
  /\ Distinct(wire)
  /\ Elements(wire) \subseteq published
  /\ Elements(queue) \cap Elements(wire) = {}

HandPlace ==
  disp.at # "idle" =>
    disp.ev \in published /\ disp.ev \notin Elements(queue) \cup Elements(wire)

MailPlace ==
  \A m \in Msgs : mail[m] # NoEvent =>
    /\ mail[m] \in published
    /\ mail[m] \notin Elements(queue) \cup Elements(wire)
    /\ disp.at # "idle" => mail[m] # disp.ev
    /\ \A n \in Msgs \ {m} : mail[n] # mail[m]

GonePlace ==
  \A e \in discarded \cup failed :
    /\ e \in published /\ e \notin Elements(queue) \cup Elements(wire)
    /\ disp.at # "idle" => disp.ev # e
    /\ \A m \in Msgs : mail[m] # e

PlaceInv == QueuePlace /\ WirePlace /\ HandPlace /\ MailPlace /\ GonePlace

LEMMA PlaceInit == Init => PlaceInv
BY MsgsAssumption
DEF Init, PlaceInv, QueuePlace, WirePlace, HandPlace, MailPlace, GonePlace,
    Distinct, Elements

\* Handlers leave every place but their channel's state alone.
LEMMA HandlersKeepPlaces ==
  ASSUME NEW m \in Msgs, Arrival(m) \/ Handler(m)
  PROVE  UNCHANGED <<mail, queue, published, disp, wire, discarded, failed>>
BY DEF Arrival, Handler, Ignore, BeginDownload, Insert, PublishOk, PublishFail, Receive,
       Superseded, Elapse, DropReceiver, Cleanup, Announce, dispVars

LEMMA PlaceStep == TypeOK /\ ChannelInv /\ PlaceInv /\ [Next]_vars => PlaceInv'
<1> SUFFICES ASSUME TypeOK, ChannelInv, PlaceInv, [Next]_vars PROVE PlaceInv'
  OBVIOUS
<1> USE MsgsAssumption
<1> USE DEF PlaceInv, QueuePlace, WirePlace, HandPlace, MailPlace, GonePlace,
            TypeOK
<1>1. ASSUME UNCHANGED <<mail, queue, published, disp, wire, discarded, failed>> PROVE PlaceInv'
  BY <1>1
<1>2. ASSUME NEW e \in Outbound, CorePublish(e) PROVE PlaceInv'
  <2>1. e \notin published
    BY <1>2 DEF CorePublish
  <2>2. /\ Elements(queue') = Elements(queue) \cup {e}
        /\ Distinct(queue')
    BY <1>2, <2>1, AppendFacts DEF CorePublish
  <2> QED BY <1>2, <2>1, <2>2 DEF CorePublish, bridgeVars
<1>3. CASE TakeReactive \/ TakeCancelling \/ TakePlain
  <2>1. /\ queue # <<>> /\ queue' = Tail(queue)
        /\ disp'.ev = Head(queue) /\ disp'.at # "idle" /\ disp.at = "idle"
        /\ UNCHANGED <<mail, published, wire, discarded, failed>>
    BY <1>3, TailFacts DEF TakeReactive, TakeCancelling, TakePlain, Take
  <2>2. /\ Elements(queue) = Elements(queue') \cup {disp'.ev}
        /\ Distinct(queue') /\ disp'.ev \notin Elements(queue')
    BY <2>1, TailFacts
  <2> QED BY <2>1, <2>2
<1>4. CASE ResolveOk
  <2>1. /\ disp.tx \in Msgs /\ mail[disp.tx] = NoEvent /\ disp.ev \in Outbound
    BY <1>4 DEF ResolveOk, ChannelInv, HandOK
  <2> QED BY <1>4, <2>1 DEF ResolveOk
<1>5. CASE ResolveGone BY <1>5 DEF ResolveGone, bridgeVars
<1>6. CASE Discard \/ SendFail
  <2>1. /\ disp.at # "idle" /\ disp'.at = "idle"
        /\ discarded' \cup failed' = discarded \cup failed \cup {disp.ev}
        /\ UNCHANGED <<mail, queue, published, wire>>
    BY <1>6 DEF Discard, SendFail, bridgeVars
  <2>2. QueuePlace' /\ WirePlace' /\ HandPlace' /\ MailPlace'
    BY <2>1
  <2>3. GonePlace'
    BY <2>1
  <2> QED BY <2>2, <2>3
<1>7. CASE SendOk
  <2>1. /\ Elements(wire') = Elements(wire) \cup {disp.ev}
        /\ Distinct(wire')
    BY <1>7, AppendFacts DEF SendOk
  <2> QED BY <1>7, <2>1 DEF SendOk, bridgeVars
<1>8. CASE UNCHANGED vars BY <1>1, <1>8 DEF vars
<1> QED
  BY <1>1, <1>2, <1>3, <1>4, <1>5, <1>6, <1>7, <1>8, HandlersKeepPlaces
  DEF Next, Dispatcher

-----------------------------------------------------------------------------
IInv == TypeOK /\ ChannelInv /\ PlaceInv

LEMMA Invariance == Spec => []IInv
<1>1. Init => IInv
  <2>1. Init => TypeOK
    BY MsgsAssumption, OutboundAssumption DEF Init, TypeOK
  <2> QED BY <2>1, ChannelInit, PlaceInit DEF IInv
<1>2. IInv /\ [Next]_vars => IInv'
  BY TypeStep, ChannelStep, PlaceStep DEF IInv
<1> QED BY <1>1, <1>2, PTL DEF Spec

\* No handler, however it ends, leaves its sender in the map.
THEOREM SlotsStayLive == Spec => []SlotsAreLive
BY Invariance, PTL DEF IInv, ChannelInv

\* A waiting handler's sender is in its slot or in the dispatcher's hand.
THEOREM WaitersStayReachable == Spec => []WaitersReachable
BY Invariance, PTL DEF IInv, ChannelInv

\* A handler only ever holds or returns a text of its own conversation.
THEOREM NoCrossTalk == Spec => []OwnConversation
BY Invariance, PTL DEF IInv, ChannelInv

\* No outbound event is shown twice, by whichever paths.
THEOREM NoDoublePost == Spec => []AtMostOnce
<1>1. IInv => AtMostOnce
  BY DEF IInv, ChannelInv, ChannelStates, PlaceInv, WirePlace, MailPlace, Distinct,
         AtMostOnce
<1> QED BY <1>1, Invariance, PTL

-----------------------------------------------------------------------------
(* Every cancellation has its cause.                                       *)

\* A handler that got as far as the map has a channel.
ChannelMade ==
  \A m \in Msgs : pc[m] \notin {"idle", "download", "done"} => chan[m] # "none"

CauseInv == ChannelMade /\ CancelHasCause

\* A channel once made exists for good and an event once taken is not queued
\* again, so a cause stays one; what remains is the cancellation of a step.
LEMMA CauseKept ==
  ASSUME CancelHasCause,
         \A m \in Msgs : chan[m] # "none" => chan'[m] # "none",
         published \ Elements(queue) \subseteq published' \ Elements(queue'),
         \A m \in Msgs : chan'[m] = "cancelled" /\ chan[m] # "cancelled" =>
           \/ \E n \in Msgs \ {m} : SessionOf[n] = SessionOf[m] /\ chan'[n] # "none"
           \/ \E e \in published' \ Elements(queue') :
                e.kind # "text" /\ e.sid = SessionOf[m]
  PROVE  CancelHasCause'
BY DEF CancelHasCause

LEMMA CauseQuiet ==
  ASSUME CancelHasCause, UNCHANGED <<queue, published>>,
         \A m \in Msgs : /\ chan'[m] = "none" => chan[m] = "none"
                         /\ chan'[m] = "cancelled" => chan[m] = "cancelled"
  PROVE  CancelHasCause'
BY CauseKept

LEMMA CauseStep == IInv /\ CauseInv /\ [Next]_vars => CauseInv'
<1> SUFFICES ASSUME IInv, CauseInv, [Next]_vars PROVE CauseInv'
  OBVIOUS
<1> USE MsgsAssumption
<1> USE DEF IInv, TypeOK, CauseInv, ChannelMade, Move
<1>1. ASSUME NEW m \in Msgs, Arrival(m) PROVE CauseInv'
  <2>1. CASE Ignore(m) \/ BeginDownload(m)
    BY <2>1, CauseKept DEF Ignore, BeginDownload, dispVars
  <2>2. CASE Insert(m)
    <3>1. chan[m] = "none" /\ chan'[m] = "open" /\ UNCHANGED <<queue, published>>
      BY <2>2 DEF Insert, ChannelInv, ChannelStates, DropSender, dispVars
    <3>2. \A n \in Msgs : chan'[n] = "cancelled" /\ chan[n] # "cancelled" =>
            n # m /\ SessionOf[n] = SessionOf[m]
      BY <2>2, <3>1 DEF Insert, DropSender, ChannelInv, SlotsAreLive
    <3>3. \A n \in Msgs : chan[n] # "none" => chan'[n] # "none"
      BY <2>2 DEF Insert, DropSender
    <3>4. CancelHasCause'
      BY <3>1, <3>2, <3>3, CauseKept
    <3>5. ChannelMade'
      BY <2>2, <3>1, <3>3 DEF Insert
    <3> QED BY <3>4, <3>5
  <2> QED BY <1>1, <2>1, <2>2 DEF Arrival
<1>2. ASSUME NEW m \in Msgs, Handler(m) PROVE CauseInv'
  <2> DEFINE Harmless ==
        /\ UNCHANGED <<queue, published>>
        /\ \A n \in Msgs : /\ chan'[n] = "none" => chan[n] = "none"
                           /\ chan'[n] = "cancelled" => chan[n] = "cancelled"
  <2>0. ASSUME Harmless PROVE CancelHasCause'
    BY <2>0, CauseQuiet
  <2> HIDE DEF Harmless
  <2>1. CASE PublishOk(m) \/ Elapse(m) \/ Announce(m)
    <3>1. Harmless BY <2>1 DEF PublishOk, Elapse, Announce, dispVars, Harmless
    <3>2. ChannelMade' BY <2>1 DEF PublishOk, Elapse, Announce
    <3> QED BY <2>0, <3>1, <3>2
  <2>3. CASE Receive(m) \/ Superseded(m)
    <3>1. Harmless BY <2>3 DEF Receive, Superseded, dispVars, Harmless
    <3>2. ChannelMade' BY <2>3 DEF Receive, Superseded
    <3> QED BY <2>0, <3>1, <3>2
  <2>4. CASE DropReceiver(m)
    <3>1. Harmless BY <2>4 DEF DropReceiver, dispVars, Harmless
    <3>2. ChannelMade' BY <2>4 DEF DropReceiver
    <3> QED BY <2>0, <3>1, <3>2
  <2>2. CASE PublishFail(m) \/ Cleanup(m)
    <3>1. UNCHANGED <<queue, published>> /\ pc[m] \in {"publish", "cleanup"}
      BY <2>2 DEF PublishFail, Cleanup, dispVars
    <3>2. \/ chan'[m] # "none" /\ chan'[m] # "cancelled"
          \/ chan'[m] = chan[m]
      BY <2>2 DEF PublishFail, Cleanup, DropSender, ChannelInv, ChannelStates
    <3>a. \A n \in Msgs \ {m} : chan'[n] = DropSender(chan, pending[SessionOf[m]])[n]
      <4>1. CASE PublishFail(m) BY <4>1 DEF PublishFail, DropSender
      <4>2. CASE Cleanup(m) BY <4>2 DEF Cleanup
      <4> QED BY <2>2, <4>1, <4>2
    <3>3. \A n \in Msgs : chan[n] # "none" => chan'[n] # "none"
      BY <3>2, <3>a DEF DropSender
    <3>4. \A n \in Msgs : chan'[n] = "cancelled" /\ chan[n] # "cancelled" =>
            n # m /\ SessionOf[n] = SessionOf[m]
      BY <3>2, <3>a DEF DropSender, ChannelInv, SlotsAreLive
    <3>5. CancelHasCause'
      BY <3>1, <3>3, <3>4, CauseKept
    <3>6. ChannelMade'
      BY <2>2, <3>3 DEF PublishFail, Cleanup
    <3> QED BY <3>5, <3>6
  <2> QED BY <1>2, <2>1, <2>2, <2>3, <2>4 DEF Handler
<1>3. ASSUME NEW e \in Outbound, CorePublish(e) PROVE CauseInv'
  <2>1. Elements(queue') = Elements(queue) \cup {e} /\ e \notin published
    BY <1>3, AppendFacts DEF CorePublish
  <2> QED BY <1>3, <2>1, CauseKept DEF CorePublish, bridgeVars
<1>4. CASE TakeReactive \/ TakeCancelling \/ TakePlain
  <2>1. /\ queue # <<>> /\ queue' = Tail(queue) /\ UNCHANGED <<pc, published>>
        /\ Head(queue) \in published
    BY <1>4, TailFacts DEF TakeReactive, TakeCancelling, TakePlain, Take, PlaceInv, QueuePlace
  <2>2. Elements(queue') \subseteq Elements(queue) /\ Head(queue) \notin Elements(queue')
    BY <2>1, TailFacts DEF PlaceInv, QueuePlace
  <2>3. \A m \in Msgs : chan[m] # "none" => chan'[m] # "none"
    BY <1>4 DEF TakeReactive, TakeCancelling, TakePlain, DropSender
  <2>4. \A m \in Msgs : chan'[m] = "cancelled" /\ chan[m] # "cancelled" =>
          Head(queue).kind # "text" /\ Head(queue).sid = SessionOf[m]
    <3>1. CASE TakeCancelling
      <4>1. Owner(Head(queue)) = pending[Head(queue).sid] /\ Head(queue).sid \in Sessions
        BY <2>1, <3>1, OutboundAssumption DEF TakeCancelling, Owner
      <4> QED BY <3>1, <4>1 DEF TakeCancelling, DropSender, ChannelInv, SlotsAreLive
    <3> QED BY <1>4, <3>1 DEF TakeReactive, TakePlain
  <2>5. CancelHasCause'
    BY <2>1, <2>2, <2>3, <2>4, CauseKept
  <2> QED BY <2>1, <2>3, <2>5
<1>5. CASE ResolveOk \/ ResolveGone \/ Discard \/ SendOk \/ SendFail
  BY <1>5, CauseKept DEF ResolveOk, ResolveGone, Discard, SendOk, SendFail, bridgeVars
<1>6. CASE UNCHANGED vars
  BY <1>6, CauseKept DEF vars
<1> QED
  BY <1>1, <1>2, <1>3, <1>4, <1>5, <1>6 DEF Next, Dispatcher

\* A handler loses its sender only to its own session: to another message of
\* it or to a non-text event for it.
THEOREM CancelsHaveCauses == Spec => []CancelHasCause
<1>1. Init => CauseInv
  BY DEF Init, CauseInv, ChannelMade, CancelHasCause
<1>2. (IInv /\ IInv') /\ CauseInv /\ [Next]_vars => CauseInv'
  BY CauseStep
<1>3. CauseInv => CancelHasCause
  BY DEF CauseInv
<1> QED BY <1>1, <1>2, <1>3, Invariance, PTL DEF Spec

-----------------------------------------------------------------------------
(* No outbound event vanishes.                                             *)

\* Somewhere between the broker and an end.
Held(e) ==
  \/ e \in Elements(queue) \/ disp.ev = e \/ Settled(e)
  \/ \E m \in Msgs : mail[m] = e /\ chan[m] = "sent"

LEMMA AccountedStep == IInv /\ Accounted /\ [Next]_vars => Accounted'
<1> SUFFICES ASSUME IInv, Accounted, [Next]_vars PROVE Accounted'
  OBVIOUS
<1> USE MsgsAssumption
<1> USE DEF IInv, TypeOK
<1>0. ASSUME \A e \in published : Held(e) => Held(e)',
             \A e \in published' \ published : Held(e)' /\ e \notin discarded',
             \A e \in discarded' \ discarded : ~Deliverable(e)
      PROVE  Accounted'
  BY <1>0 DEF Accounted, Held, Deliverable
<1>1. ASSUME NEW m \in Msgs, Arrival(m) \/ Handler(m) PROVE Accounted'
  <2>1. UNCHANGED <<mail, queue, published, disp, wire, discarded, failed>>
    BY <1>1, HandlersKeepPlaces
  <2>2. \A n \in Msgs : /\ chan[n] = "sent" => chan'[n] \in {"sent", "read", "closed"}
                        /\ chan[n] \in {"read", "closed"} => chan'[n] = chan[n]
    <3> USE DEF Move, ChannelInv, ChannelStates
    <3>1. CASE Ignore(m) \/ BeginDownload(m) BY <3>1 DEF Ignore, BeginDownload
    <3>2. CASE Insert(m) BY <3>2 DEF Insert, DropSender
    <3>3. CASE PublishOk(m) \/ Elapse(m) \/ Announce(m)
      BY <3>3 DEF PublishOk, Elapse, Announce
    <3>4. CASE PublishFail(m) BY <3>4 DEF PublishFail, DropSender
    <3>5. CASE Receive(m) \/ Superseded(m) BY <3>5 DEF Receive, Superseded
    <3>6. CASE DropReceiver(m) BY <3>6 DEF DropReceiver
    <3>7. CASE Cleanup(m) BY <3>7 DEF Cleanup, DropSender
    <3> QED BY <1>1, <3>1, <3>2, <3>3, <3>4, <3>5, <3>6, <3>7 DEF Arrival, Handler
  <2> QED BY <1>0, <2>1, <2>2 DEF Held, Settled, Shown, Lost
<1>2. ASSUME NEW e \in Outbound, CorePublish(e) PROVE Accounted'
  <2>1. /\ Elements(queue') = Elements(queue) \cup {e} /\ published' = published \cup {e}
        /\ UNCHANGED <<mail, chan, disp, wire, discarded, failed>>
    BY <1>2, AppendFacts DEF CorePublish, bridgeVars
  <2>2. e \notin published /\ e \notin discarded
    BY <1>2 DEF CorePublish, PlaceInv, GonePlace
  <2> QED BY <1>0, <2>1, <2>2 DEF Held, Settled, Shown, Lost
<1>3. CASE TakeReactive \/ TakeCancelling \/ TakePlain
  <2>1. /\ queue # <<>> /\ queue' = Tail(queue)
        /\ disp'.ev = Head(queue) /\ disp.at = "idle"
        /\ UNCHANGED <<mail, published, wire, discarded, failed>>
    BY <1>3, TailFacts DEF TakeReactive, TakeCancelling, TakePlain, Take
  <2>2. Elements(queue) = Elements(queue') \cup {disp'.ev} /\ disp.ev \notin Outbound
    BY <2>1, TailFacts
  <2>3. \A n \in Msgs : chan[n] \in {"sent", "read", "closed"} => chan'[n] = chan[n]
    BY <1>3 DEF TakeReactive, TakeCancelling, TakePlain, DropSender
  <2> QED BY <1>0, <2>1, <2>2, <2>3 DEF Held, Settled, Shown, Lost
<1>4. CASE ResolveOk
  <2>1. /\ disp.tx \in Msgs /\ mail[disp.tx] = NoEvent /\ disp.ev \in Outbound
        /\ chan[disp.tx] = "open"
    BY <1>4 DEF ResolveOk, ChannelInv, HandOK
  <2>2. /\ mail'[disp.tx] = disp.ev /\ chan'[disp.tx] = "sent"
        /\ \A n \in Msgs \ {disp.tx} : mail'[n] = mail[n] /\ chan'[n] = chan[n]
        /\ UNCHANGED <<queue, published, wire, discarded, failed>>
    BY <1>4, <2>1 DEF ResolveOk
  <2> QED BY <1>0, <2>1, <2>2 DEF Held, Settled, Shown, Lost
<1>5. CASE ResolveGone
  BY <1>0, <1>5 DEF ResolveGone, bridgeVars, Held, Settled, Shown, Lost
<1>6. CASE Discard \/ SendFail
  <2>1. /\ discarded' \cup failed' = discarded \cup failed \cup {disp.ev}
        /\ UNCHANGED <<mail, chan, queue, published, wire>>
        /\ \A e \in discarded' \ discarded : ~Deliverable(e)
    BY <1>6 DEF Discard, SendFail, bridgeVars
  <2> QED BY <1>0, <2>1 DEF Held, Settled, Shown, Lost
<1>7. CASE SendOk
  <2>1. /\ Elements(wire') = Elements(wire) \cup {disp.ev}
        /\ UNCHANGED <<mail, chan, queue, published, discarded, failed>>
    BY <1>7, AppendFacts DEF SendOk, bridgeVars
  <2> QED BY <1>0, <2>1 DEF Held, Settled, Shown, Lost
<1>8. CASE UNCHANGED vars
  BY <1>0, <1>8 DEF vars, Held, Settled, Shown, Lost
<1> QED
  BY <1>1, <1>2, <1>3, <1>4, <1>5, <1>6, <1>7, <1>8 DEF Next, Dispatcher

\* Every event the core published is queued, in a hand, shown or lost, and
\* only what has no address or no text is dropped by a guard.
THEOREM EventsAccounted == Spec => []Accounted
<1>1. Init => Accounted
  BY DEF Init, Accounted
<1>2. (IInv /\ IInv') /\ Accounted /\ [Next]_vars => Accounted'
  BY AccountedStep
<1> QED BY <1>1, <1>2, Invariance, PTL DEF Spec

-----------------------------------------------------------------------------
(* The bridge implements ReplyDelivery.  Every step that moves an event    *)
(* along changes its abstract stage, or the stages stay the same.          *)

\* Nothing an observer sees changes when no event becomes published, shown
\* or lost and no handler ends.
LEMMA QuietStep ==
  ASSUME UNCHANGED <<outcome, published>>,
         \A m \in Msgs : outcome[m] = "text" => mail'[m] = mail[m],
         \A e \in Outbound : (Shown(e)' <=> Shown(e)) /\ (Lost(e)' <=> Lost(e))
  PROVE  UNCHANGED Delivery!vars
<1>1. \A e \in Outbound : StageOf(e)' = StageOf(e)
  BY DEF StageOf
<1>2. \A m \in Msgs : AnswerOf(m)' = AnswerOf(m)
  BY DEF AnswerOf
<1> QED BY <1>1, <1>2 DEF Delivery!vars

\* An accepted event that becomes lost, and nothing else, is abstractly Lose.
LEMMA LoseStep ==
  ASSUME NEW e \in Outbound, e \in published, ~Settled(e), Lost(e)', ~Shown(e)',
         UNCHANGED <<outcome, published, mail>>,
         \A f \in Outbound \ {e} : (Shown(f)' <=> Shown(f)) /\ (Lost(f)' <=> Lost(f))
  PROVE  Delivery!Lose(e)
<1>1. StageOf(e) = "accepted" /\ StageOf(e)' = "lost"
  BY DEF StageOf, Settled
<1>2. \A f \in Outbound \ {e} : StageOf(f)' = StageOf(f)
  BY DEF StageOf
<1>3. \A m \in Msgs : AnswerOf(m)' = AnswerOf(m)
  BY DEF AnswerOf
<1> QED BY <1>1, <1>2, <1>3 DEF Delivery!Lose, Delivery!MoveStage

\* A handler that ends without a reply, while no event is shown or lost.
LEMMA FinishStep ==
  ASSUME NEW m \in Msgs, NEW o \in {"apology", "noop"}, TypeOK,
         outcome[m] = "open", outcome' = [outcome EXCEPT ![m] = o],
         UNCHANGED <<published, mail>>,
         \A e \in Outbound : (Shown(e)' <=> Shown(e)) /\ (Lost(e)' <=> Lost(e))
  PROVE  Delivery!Finish(m)
<1>1. \A e \in Outbound : StageOf(e)' = StageOf(e)
  BY DEF StageOf
<1>2. \A n \in Msgs : AnswerOf(n)' = AnswerOf(n)
  BY DEF AnswerOf, TypeOK
<1> QED BY <1>1, <1>2 DEF Delivery!Finish, Delivery!CloseOutcome

LEMMA StepRefines == IInv /\ [Next]_vars => [Delivery!Next]_(Delivery!vars)
<1> SUFFICES ASSUME IInv, [Next]_vars PROVE [Delivery!Next]_(Delivery!vars)
  OBVIOUS
<1> USE MsgsAssumption
<1> USE DEF IInv, TypeOK, Move
<1> NoReplyOutcome \in {"apology", "noop"} BY DEF NoReplyOutcome
<1>1. ASSUME NEW m \in Msgs, Arrival(m) PROVE [Delivery!Next]_(Delivery!vars)
  <2>1. CASE Ignore(m)
    <3>1. Delivery!Finish(m)
      BY <2>1, FinishStep DEF Ignore, dispVars, ChannelInv, ChannelStates, Shown, Lost
    <3> QED BY <3>1 DEF Delivery!Next
  <2>2. CASE BeginDownload(m)
    BY <2>2, QuietStep DEF BeginDownload, dispVars, Shown, Lost
  <2>3. CASE Insert(m)
    BY <2>3, QuietStep
    DEF Insert, DropSender, dispVars, ChannelInv, ChannelStates, Shown, Lost
  <2> QED BY <1>1, <2>1, <2>2, <2>3 DEF Arrival
<1>2. ASSUME NEW m \in Msgs, Handler(m) PROVE [Delivery!Next]_(Delivery!vars)
  <2>1. CASE PublishOk(m)
    BY <2>1, QuietStep DEF PublishOk, dispVars, Shown, Lost
  <2>2. CASE PublishFail(m) /\ chan[m] # "sent"
    <3>1. chan[m] # "read" /\ (chan[m] = "closed" \/ mail[m] = NoEvent) /\ outcome[m] = "open"
      BY <2>2 DEF PublishFail, ChannelInv, ChannelStates
    <3>2. UNCHANGED <<mail, published, wire, discarded, failed>>
      BY <2>2 DEF PublishFail, dispVars
    <3>3. chan'[m] = "closed"
      BY <2>2 DEF PublishFail, DropSender
    <3>4. \A n \in Msgs : n # m =>
            \/ chan'[n] = chan[n]
            \/ chan[n] = "open" /\ chan'[n] = "cancelled"
      BY <2>2 DEF PublishFail, DropSender
    <3>5. \A e \in Outbound : (Shown(e)' <=> Shown(e)) /\ (Lost(e)' <=> Lost(e))
      <4> TAKE e \in Outbound
      <4> e # NoEvent OBVIOUS
      <4>1. Shown(e)' <=> Shown(e) BY <3>1, <3>2, <3>3, <3>4 DEF Shown
      <4>2. ASSUME Lost(e) PROVE Lost(e)'
        <5>1. CASE e \in discarded \cup failed BY <5>1, <3>2 DEF Lost
        <5>2. CASE e \notin discarded \cup failed
          <6>1. PICK n \in Msgs : mail[n] = e /\ chan[n] = "closed"
            BY <5>2, <4>2 DEF Lost
          <6>2. mail'[n] = e /\ chan'[n] = "closed"
            BY <6>1, <3>2, <3>3, <3>4
          <6> QED BY <6>2 DEF Lost
        <5> QED BY <5>1, <5>2
      <4>3. ASSUME Lost(e)' PROVE Lost(e)
        <5>1. CASE e \in discarded \cup failed BY <5>1 DEF Lost
        <5>2. CASE e \notin discarded \cup failed
          <6>1. PICK n \in Msgs : mail[n] = e /\ chan'[n] = "closed"
            BY <5>2, <4>3, <3>2 DEF Lost
          <6>2. chan[n] = "closed"
            BY <6>1, <3>1, <3>4
          <6> QED BY <6>1, <6>2 DEF Lost
        <5> QED BY <5>1, <5>2
      <4> QED BY <4>1, <4>2, <4>3
    <3>6. Delivery!Finish(m)
      BY <2>2, <3>1, <3>5, FinishStep DEF PublishFail
    <3> QED BY <3>6 DEF Delivery!Next
  <2>3. CASE PublishFail(m) /\ chan[m] = "sent"
    <3> DEFINE e == mail[m]
    <3>1. /\ e \in Outbound /\ e \in published /\ e.sid = SessionOf[m]
          /\ outcome[m] = "open"
      BY <2>3 DEF PublishFail, ChannelInv, ChannelStates, OwnConversation, PlaceInv, MailPlace
    <3>2. ~Settled(e)
      BY <2>3, <3>1 DEF Settled, Shown, Lost, PlaceInv, MailPlace, GonePlace
    <3>3. Lost(e)' /\ ~Shown(e)'
      BY <2>3, <3>1, <3>2 DEF PublishFail, DropSender, dispVars, Settled, Shown, Lost
    <3>4. \A f \in Outbound \ {e} : (Shown(f)' <=> Shown(f)) /\ (Lost(f)' <=> Lost(f))
      BY <2>3 DEF PublishFail, DropSender, dispVars, Shown, Lost
    <3>5. /\ StageOf(e) = "accepted" /\ StageOf(e)' = "lost"
          /\ \A f \in Outbound \ {e} : StageOf(f)' = StageOf(f)
      BY <2>3, <3>1, <3>2, <3>3, <3>4 DEF PublishFail, StageOf, Settled
    <3>6. \A n \in Msgs : AnswerOf(n)' = AnswerOf(n)
      BY <2>3, <3>1 DEF PublishFail, AnswerOf
    <3>7. Delivery!FinishLosing(m, e)
      BY <2>3, <3>1, <3>5, <3>6
      DEF PublishFail, Delivery!FinishLosing, Delivery!MoveStage, Delivery!CloseOutcome
    <3> QED BY <3>1, <3>7 DEF Delivery!Next
  <2>4. CASE Receive(m)
    <3> DEFINE e == mail[m]
    <3>1. /\ e \in Outbound /\ e \in published /\ e.sid = SessionOf[m] /\ e.kind = "text"
          /\ outcome[m] = "open"
      BY <2>4 DEF Receive, ChannelInv, ChannelStates, OwnConversation, PlaceInv, MailPlace
    <3>2. ~Settled(e)
      BY <2>4, <3>1 DEF Receive, Settled, Shown, Lost, PlaceInv, MailPlace, GonePlace
    <3>3. Shown(e)'
      BY <2>4, <3>1 DEF Receive, Shown
    <3>4. \A f \in Outbound \ {e} : (Shown(f)' <=> Shown(f)) /\ (Lost(f)' <=> Lost(f))
      BY <2>4 DEF Receive, dispVars, Shown, Lost
    <3>5. /\ StageOf(e) = "accepted" /\ StageOf(e)' = "shown"
          /\ \A f \in Outbound \ {e} : StageOf(f)' = StageOf(f)
      BY <2>4, <3>1, <3>2, <3>3, <3>4 DEF Receive, StageOf, Settled
    <3>6. AnswerOf(m)' = e /\ \A n \in Msgs \ {m} : AnswerOf(n)' = AnswerOf(n)
      BY <2>4 DEF Receive, AnswerOf
    <3>7. Delivery!Answer(m, e)
      BY <2>4, <3>1, <3>5, <3>6
      DEF Receive, Delivery!Answer, Delivery!MoveStage, Delivery!CloseOutcome
    <3> QED BY <3>1, <3>7 DEF Delivery!Next
  <2>5. CASE Superseded(m)
    <3>1. mail[m] = NoEvent /\ outcome[m] = "open"
      BY <2>5 DEF Superseded, ChannelInv, ChannelStates
    <3>2. \A e \in Outbound : (Shown(e)' <=> Shown(e)) /\ (Lost(e)' <=> Lost(e))
      BY <2>5, <3>1 DEF Superseded, dispVars, Shown, Lost
    <3>3. Delivery!Finish(m)
      BY <2>5, <3>1, <3>2, FinishStep DEF Superseded
    <3> QED BY <3>3 DEF Delivery!Next
  <2>6. CASE Elapse(m) BY <2>6, QuietStep DEF Elapse, dispVars, Shown, Lost
  <2>7. CASE DropReceiver(m) /\ chan[m] # "sent"
    <3>1. chan[m] # "read" /\ (chan[m] = "closed" \/ mail[m] = NoEvent)
      BY <2>7 DEF DropReceiver, ChannelInv, ChannelStates
    <3> QED BY <2>7, <3>1, QuietStep DEF DropReceiver, dispVars, Shown, Lost
  <2>8. CASE DropReceiver(m) /\ chan[m] = "sent"
    <3> DEFINE e == mail[m]
    <3>1. e \in Outbound /\ e \in published
      BY <2>8 DEF ChannelInv, ChannelStates, PlaceInv, MailPlace
    <3>2. ~Settled(e)
      BY <2>8, <3>1 DEF Settled, Shown, Lost, PlaceInv, MailPlace, GonePlace
    <3>3. Lost(e)' /\ ~Shown(e)'
      BY <2>8, <3>1, <3>2 DEF DropReceiver, dispVars, Settled, Shown, Lost
    <3>4. \A f \in Outbound \ {e} : (Shown(f)' <=> Shown(f)) /\ (Lost(f)' <=> Lost(f))
      BY <2>8 DEF DropReceiver, dispVars, Shown, Lost
    <3>5. Delivery!Lose(e)
      BY <2>8, <3>1, <3>2, <3>3, <3>4, LoseStep DEF DropReceiver
    <3> QED BY <3>1, <3>5 DEF Delivery!Next
  <2>9. CASE Cleanup(m)
    BY <2>9, QuietStep DEF Cleanup, DropSender, dispVars, Shown, Lost
  <2>10. CASE Announce(m)
    <3>1. Delivery!Finish(m)
      BY <2>10, FinishStep DEF Announce, dispVars, ChannelInv, ChannelStates, Shown, Lost
    <3> QED BY <3>1 DEF Delivery!Next
  <2> QED
    BY <1>2, <2>1, <2>2, <2>3, <2>4, <2>5, <2>6, <2>7, <2>8, <2>9, <2>10 DEF Handler
<1>3. ASSUME NEW e \in Outbound, CorePublish(e) PROVE [Delivery!Next]_(Delivery!vars)
  <2>1. e \notin published BY <1>3 DEF CorePublish
  <2>2. ~Settled(e)
    BY <2>1 DEF Settled, Shown, Lost, PlaceInv, WirePlace, MailPlace, GonePlace
  <2>3. \A f \in Outbound : (Shown(f)' <=> Shown(f)) /\ (Lost(f)' <=> Lost(f))
    BY <1>3 DEF CorePublish, bridgeVars, Shown, Lost
  <2>4. /\ StageOf(e) = "new" /\ StageOf(e)' = "accepted"
        /\ \A f \in Outbound \ {e} : StageOf(f)' = StageOf(f)
    BY <1>3, <2>1, <2>2, <2>3 DEF CorePublish, StageOf, Settled
  <2>5. Delivery!Accept(e)
    BY <1>3, <2>4 DEF CorePublish, bridgeVars, AnswerOf, Delivery!Accept, Delivery!MoveStage
  <2> QED BY <2>5 DEF Delivery!Next
<1>4. CASE TakeReactive \/ TakeCancelling \/ TakePlain
  BY <1>4, QuietStep
  DEF TakeReactive, TakeCancelling, TakePlain, Take, DropSender, Shown, Lost
<1>5. CASE ResolveOk
  <2>1. disp.tx \in Msgs /\ disp.ev \in Outbound /\ outcome[disp.tx] # "text"
    BY <1>5 DEF ResolveOk, ChannelInv, ChannelStates
  <2> QED BY <1>5, <2>1, QuietStep DEF ResolveOk, Shown, Lost
<1>6. CASE ResolveGone
  BY <1>6, QuietStep DEF ResolveGone, bridgeVars, Shown, Lost
<1>7. CASE Discard \/ SendFail
  <2>0. PICK e \in Outbound : e = disp.ev /\ e \in published
    BY <1>7 DEF Discard, SendFail, PlaceInv, HandPlace
  <2>1. e \in published /\ disp.ev = e /\ disp.at # "idle"
    BY <1>7, <2>0 DEF Discard, SendFail
  <2>2. ~Settled(e)
    BY <2>1 DEF Settled, Shown, Lost, PlaceInv, WirePlace, HandPlace, MailPlace, GonePlace
  <2>3. /\ discarded' \cup failed' = discarded \cup failed \cup {e}
        /\ UNCHANGED <<outcome, published, mail, chan, wire>>
    BY <1>7, <2>1 DEF Discard, SendFail, bridgeVars
  <2>4. Lost(e)' /\ ~Shown(e)'
    BY <2>2, <2>3 DEF Settled, Shown, Lost
  <2>5. \A f \in Outbound \ {e} : (Shown(f)' <=> Shown(f)) /\ (Lost(f)' <=> Lost(f))
    BY <2>3 DEF Shown, Lost
  <2>6. Delivery!Lose(e)
    BY <2>1, <2>2, <2>3, <2>4, <2>5, LoseStep
  <2> QED BY <2>1, <2>6 DEF Delivery!Next
<1>8. CASE SendOk
  <2>0. PICK e \in Outbound : e = disp.ev /\ e \in published
    BY <1>8 DEF SendOk, PlaceInv, HandPlace
  <2>1. e \in published /\ e.to /\ disp.ev = e /\ disp.at # "idle"
    BY <1>8, <2>0 DEF SendOk, Deliverable
  <2>2. ~Settled(e)
    BY <2>1 DEF Settled, Shown, Lost, PlaceInv, WirePlace, HandPlace, MailPlace, GonePlace
  <2>3. /\ Elements(wire') = Elements(wire) \cup {e}
        /\ UNCHANGED <<outcome, published, mail, chan, discarded, failed>>
    BY <1>8, <2>1, AppendFacts DEF SendOk, bridgeVars
  <2>4. Shown(e)' /\ \A f \in Outbound \ {e} : Shown(f)' <=> Shown(f)
    BY <2>3 DEF Shown
  <2>5. \A f \in Outbound : Lost(f)' <=> Lost(f)
    BY <2>3 DEF Lost
  <2>6. /\ StageOf(e) = "accepted" /\ StageOf(e)' = "shown"
        /\ \A f \in Outbound \ {e} : StageOf(f)' = StageOf(f)
    BY <2>1, <2>2, <2>3, <2>4, <2>5 DEF StageOf, Settled
  <2>7. \A m \in Msgs : AnswerOf(m)' = AnswerOf(m)
    BY <2>3 DEF AnswerOf
  <2>8. Delivery!MoveStage(e, "accepted", "shown")
    BY <2>6 DEF Delivery!MoveStage
  <2>9. Delivery!SendDirect(e)
    BY <2>1, <2>3, <2>7, <2>8 DEF Delivery!SendDirect
  <2> QED BY <2>9 DEF Delivery!Next
<1>9. CASE UNCHANGED vars
  BY <1>9, QuietStep DEF vars, Shown, Lost
<1> QED
  BY <1>1, <1>2, <1>3, <1>4, <1>5, <1>6, <1>7, <1>8, <1>9 DEF Next, Dispatcher

\* The bridge implements the abstract delivery: each event shown at most once
\* and each message given one final outcome.
THEOREM BridgeDelivers == Spec => DeliverySpec
<1>1. Init => Delivery!Init
  BY DEF Init, Delivery!Init, StageOf, AnswerOf
<1> QED BY <1>1, StepRefines, Invariance, PTL DEF Spec, DeliverySpec, Delivery!Spec

-----------------------------------------------------------------------------
(* What is left of the two liveness properties without fairness: handlers  *)
(* are never stuck and never go back, and a quiet bridge has settled every *)
(* event.                                                                  *)

\* A value waits only for a handler that still runs, and a handler that waits
\* has not lost its receiver.
WaitInv ==
  \A m \in Msgs :
    /\ chan[m] = "sent" => pc[m] \in {"publish", "wait", "elapsed"}
    /\ chan[m] = "cancelled" => pc[m] # "cleanup"
    /\ pc[m] \in {"publish", "wait"} => chan[m] \in {"open", "sent", "cancelled"}
    /\ pc[m] = "elapsed" => chan[m] # "closed"

LEMMA WaitStep == IInv /\ WaitInv /\ [Next]_vars => WaitInv'
<1> SUFFICES ASSUME IInv, WaitInv, [Next]_vars PROVE WaitInv'
  OBVIOUS
<1> USE MsgsAssumption
<1> USE DEF IInv, TypeOK, WaitInv
<1>0. SlotsAreLive /\ HandOK /\ ChannelStates
  BY DEF ChannelInv
<1>1. ASSUME NEW m \in Msgs, Arrival(m) PROVE WaitInv'
  <2>1. CASE Ignore(m) BY <2>1, <1>0 DEF Ignore, Move, dispVars, ChannelStates
  <2>2. CASE BeginDownload(m)
    BY <2>2, <1>0 DEF BeginDownload, Move, dispVars, ChannelStates
  <2>3. CASE Insert(m)
    BY <2>3, <1>0 DEF Insert, Move, DropSender, dispVars, ChannelStates
  <2> QED BY <1>1, <2>1, <2>2, <2>3 DEF Arrival
<1>2. ASSUME NEW m \in Msgs, Handler(m) PROVE WaitInv'
  <2>1. CASE PublishOk(m) BY <2>1 DEF PublishOk, Move, dispVars
  <2>2. CASE PublishFail(m) BY <2>2, <1>0 DEF PublishFail, Move, DropSender, dispVars, ChannelStates
  <2>3. CASE Receive(m) BY <2>3 DEF Receive, Move, dispVars
  <2>4. CASE Superseded(m) BY <2>4 DEF Superseded, Move, dispVars
  <2>5. CASE Elapse(m) BY <2>5 DEF Elapse, Move, dispVars
  <2>6. CASE DropReceiver(m) BY <2>6 DEF DropReceiver, Move, dispVars
  <2>7. CASE Cleanup(m)
    BY <2>7, <1>0 DEF Cleanup, Move, DropSender, dispVars, ChannelStates
  <2>8. CASE Announce(m) BY <2>8 DEF Announce, Move, dispVars
  <2> QED BY <1>2, <2>1, <2>2, <2>3, <2>4, <2>5, <2>6, <2>7, <2>8 DEF Handler
<1>3. ASSUME NEW e \in Outbound, CorePublish(e) PROVE WaitInv'
  BY <1>3 DEF CorePublish, bridgeVars
<1>4. CASE TakeReactive \/ TakePlain
  BY <1>4 DEF TakeReactive, TakePlain, Take
<1>5. CASE TakeCancelling
  BY <1>5, <1>0 DEF TakeCancelling, Take, DropSender, ChannelStates
<1>6. CASE ResolveOk
  BY <1>6, <1>0 DEF ResolveOk, ChannelStates
<1>7. CASE ResolveGone \/ Discard \/ SendOk \/ SendFail
  BY <1>7 DEF ResolveGone, Discard, SendOk, SendFail, bridgeVars
<1>8. CASE UNCHANGED vars BY <1>8 DEF vars
<1> QED
  BY <1>1, <1>2, <1>3, <1>4, <1>5, <1>6, <1>7, <1>8 DEF Next, Dispatcher

LEMMA WaitInvariance == Spec => [](IInv /\ WaitInv)
<1>1. Init => WaitInv
  BY DEF Init, WaitInv
<1>2. IInv /\ WaitInv /\ [Next]_vars => WaitInv'
  BY WaitStep
<1> QED BY <1>1, <1>2, Invariance, PTL DEF Spec

\* A handler that started to bridge and has not ended can move: what it waits
\* for is there, or its timer is (bridge.rs, the arms of the timeout match).
HandlersCanMove ==
  \A m \in Msgs : chan[m] # "none" /\ pc[m] # "done" =>
    \/ pc[m] \in {"publish", "elapsed", "cleanup", "announce"}
    \/ pc[m] = "wait" /\ chan[m] \in {"open", "sent", "cancelled"}

\* The stages a handler may go to from each stage.
LaterStage(from, to) ==
  \/ from = "idle" /\ to \in {"download", "publish", "done"}
  \/ from = "download" /\ to = "publish"
  \/ from = "publish" /\ to \in {"wait", "done"}
  \/ from = "wait" /\ to \in {"elapsed", "done"}
  \/ from = "elapsed" /\ to = "cleanup"
  \/ from = "cleanup" /\ to = "announce"
  \/ from = "announce" /\ to = "done"

HandlersAdvance ==
  \A m \in Msgs : pc'[m] # pc[m] => LaterStage(pc[m], pc'[m])

LEMMA AdvanceStep == IInv /\ WaitInv /\ [Next]_vars => [HandlersAdvance]_vars
<1> SUFFICES ASSUME IInv, WaitInv, [Next]_vars PROVE HandlersAdvance
  OBVIOUS
<1> USE DEF IInv, TypeOK, HandlersAdvance, LaterStage
<1>1. ASSUME NEW m \in Msgs, Arrival(m) PROVE HandlersAdvance
  BY <1>1 DEF Arrival, Ignore, BeginDownload, Insert, Move
<1>2. ASSUME NEW m \in Msgs, Handler(m) PROVE HandlersAdvance
  BY <1>2 DEF Handler, PublishOk, PublishFail, Receive, Superseded, Elapse, DropReceiver,
              Cleanup, Announce, Move
<1>3. CASE UNCHANGED pc BY <1>3
<1>4. ASSUME NEW e \in Outbound, CorePublish(e) PROVE UNCHANGED pc
  BY <1>4 DEF CorePublish, bridgeVars
<1>5. CASE Dispatcher
  <2>1. UNCHANGED pc
    BY <1>5 DEF Dispatcher, TakeReactive, TakeCancelling, TakePlain, Take, ResolveOk,
                ResolveGone, Discard, SendOk, SendFail, bridgeVars
  <2> QED BY <2>1
<1>6. CASE UNCHANGED vars BY <1>3, <1>6 DEF vars
<1> QED BY <1>1, <1>2, <1>3, <1>4, <1>5, <1>6 DEF Next

\* The safety half of HandlersFinish: no handler that inserted its sender is
\* ever stuck, and none goes back to a stage it left.
THEOREM HandlersNeverHang == Spec => []HandlersCanMove /\ [][HandlersAdvance]_vars
<1>1. IInv /\ WaitInv => HandlersCanMove
  <2> SUFFICES ASSUME IInv, WaitInv, NEW m \in Msgs, chan[m] # "none", pc[m] # "done"
               PROVE  \/ pc[m] \in {"publish", "elapsed", "cleanup", "announce"}
                      \/ pc[m] = "wait" /\ chan[m] \in {"open", "sent", "cancelled"}
    BY DEF HandlersCanMove
  <2>1. pc[m] \notin {"idle", "download"} /\ pc[m] \in Stages
    BY DEF IInv, TypeOK, ChannelInv, ChannelStates
  <2> QED BY <2>1 DEF WaitInv
<1>2. (IInv /\ WaitInv) /\ [Next]_vars => [HandlersAdvance]_vars
  BY AdvanceStep
<1> QED BY <1>1, <1>2, WaitInvariance, PTL DEF Spec

\* The dispatcher has nothing to do and no bridged handler runs.
Quiet ==
  /\ queue = <<>> /\ disp.at = "idle"
  /\ \A m \in Msgs : chan[m] # "none" => pc[m] = "done"

\* The safety core of EventsSettle: when the dispatcher has nothing left to
\* do and the handlers have ended, every published event was shown or is one
\* of those counted as lost; none is forgotten in a channel.
THEOREM QuietIsSettled == Spec => [](Quiet => \A e \in published : Settled(e))
<1>1. IInv /\ WaitInv /\ Accounted => (Quiet => \A e \in published : Settled(e))
  <2> SUFFICES ASSUME IInv, WaitInv, Accounted, Quiet, NEW e \in published
               PROVE  Settled(e)
    OBVIOUS
  <2>1. e \notin Elements(queue)
    BY DEF Quiet, Elements
  <2>2. disp.ev # e
    BY MsgsAssumption DEF Quiet, IInv, TypeOK
  <2>3. \A m \in Msgs : chan[m] # "sent"
    BY DEF Quiet, WaitInv
  <2> QED BY <2>1, <2>2, <2>3 DEF Accounted
<1> QED BY <1>1, WaitInvariance, EventsAccounted, PTL

-----------------------------------------------------------------------------
(* Exactly when the two claims of the comments that the runs refute hold.  *)

\* At most one handler of a session is between its insertion and its removal
\* (an agent that serialises the messages of a chat).
Busy(m) == pc[m] \in {"publish", "wait", "elapsed", "cleanup"}
Serial ==
  \A m, n \in Msgs : SessionOf[m] = SessionOf[n] /\ Busy(m) /\ Busy(n) => m = n

SlotLeavesByOwner ==
  \A s \in Sessions : pending[s] # NoMsg /\ pending'[s] = NoMsg =>
    pc'[pending[s]] # pc[pending[s]] \/ disp' # disp

LEMMA SerialStep == IInv /\ Serial /\ [Next]_vars => [SlotLeavesByOwner]_vars
<1> SUFFICES ASSUME IInv, Serial, [Next]_vars PROVE SlotLeavesByOwner
  OBVIOUS
<1> USE MsgsAssumption
<1> SUFFICES ASSUME NEW s \in Sessions, pending[s] # NoMsg, pending'[s] = NoMsg
             PROVE  pc'[pending[s]] # pc[pending[s]] \/ disp' # disp
  BY DEF SlotLeavesByOwner
<1>0. /\ pending[s] \in Msgs /\ SessionOf[pending[s]] = s /\ Busy(pending[s])
      /\ pending \in [Sessions -> Msgs \cup {NoMsg}] /\ pc \in [Msgs -> Stages]
      /\ disp \in DispStates
  BY DEF IInv, TypeOK, ChannelInv, SlotsAreLive, Busy
<1>1. ASSUME NEW m \in Msgs, Arrival(m) PROVE FALSE
  BY <1>1, <1>0 DEF Arrival, Ignore, BeginDownload, Insert
<1>2. ASSUME NEW m \in Msgs, PublishFail(m) \/ Cleanup(m)
      PROVE  pc'[pending[s]] # pc[pending[s]]
  <2>1. SessionOf[m] = s
    BY <1>2, <1>0 DEF PublishFail, Cleanup
  <2>2. Busy(m)
    BY <1>2 DEF PublishFail, Cleanup, Move, Busy
  <2>3. m = pending[s]
    BY <1>0, <2>1, <2>2 DEF Serial
  <2> QED BY <1>0, <1>2, <2>3 DEF PublishFail, Cleanup, Move
<1>3. ASSUME NEW m \in Msgs, Handler(m), ~PublishFail(m), ~Cleanup(m) PROVE FALSE
  BY <1>3, <1>0 DEF Handler, PublishOk, Receive, Superseded, Elapse, DropReceiver, Announce
<1>4. ASSUME NEW e \in Outbound, CorePublish(e) PROVE FALSE
  BY <1>4, <1>0 DEF CorePublish, bridgeVars
<1>5. CASE TakeReactive \/ TakeCancelling \/ TakePlain
  <2>1. disp.at = "idle" /\ disp'.at # "idle"
    BY <1>5 DEF TakeReactive, TakeCancelling, TakePlain, Take
  <2> QED BY <2>1
<1>6. CASE ResolveOk \/ ResolveGone \/ Discard \/ SendOk \/ SendFail
  <2>1. UNCHANGED pending
    BY <1>6 DEF ResolveOk, ResolveGone, Discard, SendOk, SendFail, bridgeVars
  <2> QED BY <2>1, <1>0
<1>7. CASE UNCHANGED vars BY <1>7, <1>0 DEF vars
<1> QED BY <1>1, <1>2, <1>3, <1>4, <1>5, <1>6, <1>7 DEF Next, Dispatcher

\* "Last inbound wins" (bridge.rs) holds in every run in which no two handlers
\* of one session overlap; the overlap is all that the run slot needs to
\* refute it.
THEOREM SerialInboundWins == Spec /\ []Serial => LastInboundWins
<1>1. IInv /\ Serial /\ [Next]_vars => [SlotLeavesByOwner]_vars
  BY SerialStep
<1>2. [][SlotLeavesByOwner]_vars => LastInboundWins
  BY PTL DEF SlotLeavesByOwner, LastInboundWins
<1> QED BY <1>1, <1>2, Invariance, PTL DEF Spec

\* No value reaches a handler between its timer firing and the drop of its
\* receiver, or before a publish of its own that then fails.
WindowMissed == \A m \in Msgs : chan[m] = "sent" => pc[m] # "elapsed"
AnsweredPublishes == \A m \in Msgs : PublishFail(m) => chan[m] # "sent"

\* A value is never in a channel whose receiver was dropped, and a read one
\* became the handler's outcome.
ReadInv ==
  \A m \in Msgs :
    /\ chan[m] = "closed" => mail[m] = NoEvent
    /\ chan[m] = "read" => outcome[m] = "text"

LEMMA ReadStep ==
  IInv /\ ReadInv /\ WindowMissed /\ [Next]_vars /\ [AnsweredPublishes]_vars => ReadInv'
<1> SUFFICES ASSUME IInv, ReadInv, WindowMissed, [Next]_vars, [AnsweredPublishes]_vars
             PROVE  ReadInv'
  OBVIOUS
<1> USE MsgsAssumption
<1> USE DEF IInv, TypeOK, ReadInv
<1>0. ChannelStates /\ HandOK
  BY DEF ChannelInv
<1>1. ASSUME NEW m \in Msgs, Arrival(m) PROVE ReadInv'
  <2>1. CASE Ignore(m) BY <2>1, <1>0 DEF Ignore, Move, dispVars, ChannelStates
  <2>2. CASE BeginDownload(m) BY <2>2 DEF BeginDownload, Move, dispVars
  <2>3. CASE Insert(m) BY <2>3 DEF Insert, Move, DropSender, dispVars
  <2> QED BY <1>1, <2>1, <2>2, <2>3 DEF Arrival
<1>2. ASSUME NEW m \in Msgs, PublishFail(m) PROVE ReadInv'
  <2>1. /\ pc[m] = "publish" /\ pc'[m] = "done"
        /\ UNCHANGED mail /\ \A n \in Msgs \ {m} : outcome'[n] = outcome[n]
    BY <1>2 DEF PublishFail, Move
  <2>2. AnsweredPublishes
    BY <2>1 DEF vars
  <2>3. chan[m] # "sent" /\ chan[m] # "read"
    BY <1>2, <2>1, <2>2, <1>0 DEF AnsweredPublishes, ChannelStates
  <2>4. mail[m] = NoEvent
    BY <2>3, <1>0 DEF ChannelStates
  <2>5. chan'[m] = "closed" /\ \A n \in Msgs \ {m} : chan'[n] \in {chan[n], "cancelled"}
    BY <1>2 DEF PublishFail, DropSender
  <2> QED BY <2>1, <2>4, <2>5
<1>3. ASSUME NEW m \in Msgs, Handler(m), ~PublishFail(m) PROVE ReadInv'
  <2>1. CASE PublishOk(m) BY <2>1 DEF PublishOk, Move, dispVars
  <2>2. CASE Receive(m) BY <2>2 DEF Receive, Move, dispVars
  <2>3. CASE Superseded(m) BY <2>3, <1>0 DEF Superseded, Move, dispVars, ChannelStates
  <2>4. CASE Elapse(m) BY <2>4 DEF Elapse, Move, dispVars
  <2>5. CASE DropReceiver(m)
    BY <2>5, <1>0 DEF DropReceiver, Move, dispVars, ChannelStates, WindowMissed
  <2>6. CASE Cleanup(m) BY <2>6 DEF Cleanup, Move, DropSender, dispVars
  <2>7. CASE Announce(m) BY <2>7, <1>0 DEF Announce, Move, dispVars, ChannelStates
  <2> QED BY <1>3, <2>1, <2>2, <2>3, <2>4, <2>5, <2>6, <2>7 DEF Handler
<1>4. ASSUME NEW e \in Outbound, CorePublish(e) PROVE ReadInv'
  BY <1>4 DEF CorePublish, bridgeVars
<1>5. CASE TakeReactive \/ TakeCancelling \/ TakePlain
  BY <1>5 DEF TakeReactive, TakeCancelling, TakePlain, Take, DropSender
<1>6. CASE ResolveOk
  BY <1>6, <1>0 DEF ResolveOk, ChannelStates
<1>7. CASE ResolveGone \/ Discard \/ SendOk \/ SendFail
  BY <1>7 DEF ResolveGone, Discard, SendOk, SendFail, bridgeVars
<1>8. CASE UNCHANGED vars BY <1>8 DEF vars
<1> QED
  BY <1>1, <1>2, <1>3, <1>4, <1>5, <1>6, <1>7, <1>8 DEF Next, Dispatcher

\* "So the user still gets the message" (dispatch.rs) holds in every run in
\* which no reply falls into the window between the timer and the drop of the
\* receiver and none arrives for a handler whose own publish then fails; these
\* are the only two ways a reply handed to a handler is lost.
THEOREM OutsideTheWindow ==
  Spec /\ []WindowMissed /\ [][AnsweredPublishes]_vars => []AddressedReplyShown
<1>1. Init => ReadInv
  BY DEF Init, ReadInv
<1>2. IInv /\ ReadInv /\ WindowMissed /\ [Next]_vars /\ [AnsweredPublishes]_vars => ReadInv'
  BY ReadStep
<1>3. (IInv /\ WaitInv) /\ ReadInv => AddressedReplyShown
  <2> SUFFICES ASSUME IInv, WaitInv, ReadInv, NEW m \in Msgs, mail[m] # NoEvent,
                      pc[m] = "done"
               PROVE  outcome[m] = "text"
    BY DEF AddressedReplyShown
  <2>1. chan[m] \in {"sent", "read", "closed"}
    BY DEF IInv, TypeOK, ChannelInv, ChannelStates
  <2> QED BY <2>1 DEF WaitInv, ReadInv
<1> QED BY <1>1, <1>2, <1>3, Invariance, WaitInvariance, PTL DEF Spec
=============================================================================
