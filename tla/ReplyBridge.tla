---------------------------- MODULE ReplyBridge ----------------------------
(***************************************************************************)
(* The reply bridge: the handlers that wa-agent starts for inbound         *)
(* messages (bridge.rs, build_handler and bridge_step), the PendingMap     *)
(* from session id to oneshot sender, and the one outbound dispatcher task *)
(* (dispatch.rs, spawn and dispatch_event).                                *)
(*                                                                         *)
(* A oneshot channel is one record of state per handler.  Its sender is in *)
(* the map, in the dispatcher's hand, or gone; chan says what the receiver *)
(* would see.  Every await of the code is a boundary between two actions;  *)
(* the code between two awaits is one action, except where another thread  *)
(* can get between two statements and matter: the timer firing, the drop   *)
(* of the receiver and the removal from the map are three actions, and the *)
(* dispatcher's remove and send are two.                                   *)
(*                                                                         *)
(* External, modelled from its use: wa-agent runs handlers concurrently    *)
(* (two of one session included, as the superseding arm of bridge_step and *)
(* tests/bridge_test.rs assume); the broker delivers outbound events in    *)
(* order; the core may answer a session once it has heard from it.         *)
(***************************************************************************)
EXTENDS Naturals, Sequences, FiniteSets

CONSTANTS
  Msgs,        \* inbound messages, one handler invocation each
  Sessions,    \* session ids
  SessionOf,   \* [Msgs -> Sessions]: session_id_for_jid of the chat
  Ignored,     \* messages the group and backlog filters skip
  Audio,       \* messages whose handler downloads audio before bridging
  Outbound,    \* events the core may publish, see OutboundAssumption
  Apologize,   \* bridge.on_timeout = "apology_text"
  NoMsg, NoSession, NoEvent

ASSUME MsgsAssumption ==
  /\ SessionOf \in [Msgs -> Sessions]
  /\ Ignored \subseteq Msgs /\ Audio \subseteq Msgs
  /\ Apologize \in BOOLEAN
  /\ NoMsg \notin Msgs /\ NoSession \notin Sessions /\ NoEvent \notin Outbound

\* kind "other" stands for every non-text kind; to says whether the payload
\* names an address, text whether it carries a text and a non-empty one.
ASSUME OutboundAssumption ==
  Outbound \subseteq [id : Nat, kind : {"text", "other"},
                      sid : Sessions \cup {NoSession}, to : BOOLEAN,
                      text : {"none", "empty", "full"}]

VARIABLES
  pc,          \* [Msgs -> Stages]: where each handler is
  outcome,     \* [Msgs -> Outcomes]: what it rendered, "open" while it runs
  chan,        \* [Msgs -> Channels]: its oneshot, as its receiver sees it
  mail,        \* [Msgs -> Outbound or NoEvent]: the value put in the oneshot
  pending,     \* [Sessions -> Msgs or NoMsg]: the PendingMap
  heard,       \* messages whose inbound event the core has received
  queue,       \* outbound events delivered and not yet taken
  published,   \* outbound events the core has published
  disp,        \* the dispatcher: [at, ev, tx]
  wire,        \* events the dispatcher sent itself, in order
  discarded,   \* events it dropped on a guard
  failed       \* events whose send returned an error

bridgeVars == <<pc, outcome, chan, mail, pending, heard>>
dispVars == <<queue, disp, wire, discarded, failed>>
vars == <<pc, outcome, chan, mail, pending, heard, queue, published, disp, wire,
          discarded, failed>>

Stages == {"idle", "download", "publish", "wait", "elapsed", "cleanup", "announce", "done"}
Outcomes == {"open", "text", "apology", "noop"}
\* sent: a value waits in the oneshot; cancelled: the sender was dropped;
\* read: the handler took the value; closed: the receiver was dropped.
Channels == {"none", "open", "sent", "cancelled", "read", "closed"}
IdleDisp == [at |-> "idle", ev |-> NoEvent, tx |-> NoMsg]
DispStates == {IdleDisp} \cup [at : {"resolve"}, ev : Outbound, tx : Msgs]
                         \cup [at : {"route"}, ev : Outbound, tx : {NoMsg}]

Deliverable(e) == e.to /\ (e.kind = "text" => e.text = "full")
Elements(s) == {s[i] : i \in 1..Len(s)}

Init ==
  /\ pc = [m \in Msgs |-> "idle"]
  /\ outcome = [m \in Msgs |-> "open"]
  /\ chan = [m \in Msgs |-> "none"]
  /\ mail = [m \in Msgs |-> NoEvent]
  /\ pending = [s \in Sessions |-> NoMsg]
  /\ heard = {}
  /\ queue = <<>>
  /\ published = {}
  /\ disp = IdleDisp
  /\ wire = <<>>
  /\ discarded = {}
  /\ failed = {}
-----------------------------------------------------------------------------
(***************************************************************************)
(* Handlers.                                                               *)
(***************************************************************************)
Move(m, from, to) == pc[m] = from /\ pc' = [pc EXCEPT ![m] = to]

\* What build_handler renders when bridge_step returned None.
NoReplyOutcome == IF Apologize THEN "apology" ELSE "noop"

\* chans after the sender of the handler owner (or of nobody) is dropped.
DropSender(chans, owner) ==
  [m \in Msgs |-> IF m = owner /\ chans[m] = "open" THEN "cancelled" ELSE chans[m]]

\* The ignore_groups and skip_backlog_age_secs early returns.
Ignore(m) ==
  /\ m \in Ignored
  /\ Move(m, "idle", "done")
  /\ outcome' = [outcome EXCEPT ![m] = "noop"]
  /\ UNCHANGED <<chan, mail, pending, heard, published>> /\ UNCHANGED dispVars

BeginDownload(m) ==
  /\ m \in Audio \ Ignored
  /\ Move(m, "idle", "download")
  /\ UNCHANGED <<outcome, chan, mail, pending, heard, published>> /\ UNCHANGED dispVars

\* Wrong: an older sender keeps the slot (entry().or_insert).
InsertIfVacant(m) ==
  /\ m \notin Ignored
  /\ Move(m, IF m \in Audio THEN "download" ELSE "idle", "publish")
  /\ chan' = [chan EXCEPT ![m] = "open"]
  /\ pending' = [pending EXCEPT ![SessionOf[m]] = IF @ = NoMsg THEN m ELSE @]
  /\ UNCHANGED <<outcome, mail, heard, published>> /\ UNCHANGED dispVars

\* Wrong: every chat maps to one session id.
InsertSharedKey(m) ==
  /\ m \notin Ignored
  /\ Move(m, IF m \in Audio THEN "download" ELSE "idle", "publish")
  /\ LET shared == CHOOSE s \in Sessions : TRUE IN
       /\ chan' = [DropSender(chan, pending[shared]) EXCEPT ![m] = "open"]
       /\ pending' = [pending EXCEPT ![shared] = m]
  /\ UNCHANGED <<outcome, mail, heard, published>> /\ UNCHANGED dispVars

\* bridge_step up to its first await: the new sender takes the session's
\* slot and the one it displaces is dropped.
Insert(m) ==
  /\ m \notin Ignored
  /\ Move(m, IF m \in Audio THEN "download" ELSE "idle", "publish")
  /\ chan' = [DropSender(chan, pending[SessionOf[m]]) EXCEPT ![m] = "open"]
  /\ pending' = [pending EXCEPT ![SessionOf[m]] = m]
  /\ UNCHANGED <<outcome, mail, heard, published>> /\ UNCHANGED dispVars

PublishOk(m) ==
  /\ Move(m, "publish", "wait")
  /\ heard' = heard \cup {m}
  /\ UNCHANGED <<outcome, chan, mail, pending, published>> /\ UNCHANGED dispVars

\* Wrong: a publish error clears the whole map.
PublishFailClearsMap(m) ==
  /\ Move(m, "publish", "done")
  /\ outcome' = [outcome EXCEPT ![m] = NoReplyOutcome]
  /\ chan' = [n \in Msgs |-> IF n = m THEN "closed"
                ELSE IF pending[SessionOf[n]] = n /\ chan[n] = "open" THEN "cancelled"
                ELSE chan[n]]
  /\ pending' = [s \in Sessions |-> NoMsg]
  /\ UNCHANGED <<mail, heard, published>> /\ UNCHANGED dispVars

\* The publish returned an error: remove whatever the slot holds by now and
\* return None, which drops the receiver.
PublishFail(m) ==
  /\ Move(m, "publish", "done")
  /\ outcome' = [outcome EXCEPT ![m] = NoReplyOutcome]
  /\ chan' = [DropSender(chan, pending[SessionOf[m]]) EXCEPT ![m] = "closed"]
  /\ pending' = [pending EXCEPT ![SessionOf[m]] = NoMsg]
  /\ UNCHANGED <<mail, heard, published>> /\ UNCHANGED dispVars

Receive(m) ==
  /\ chan[m] = "sent"
  /\ Move(m, "wait", "done")
  /\ outcome' = [outcome EXCEPT ![m] = "text"]
  /\ chan' = [chan EXCEPT ![m] = "read"]
  /\ UNCHANGED <<mail, pending, heard, published>> /\ UNCHANGED dispVars

\* Wrong: a cancelled handler ends with an outcome of its own.
SupersededNoted(m) ==
  /\ chan[m] = "cancelled"
  /\ Move(m, "wait", "done")
  /\ outcome' = [outcome EXCEPT ![m] = "superseded"]
  /\ chan' = [chan EXCEPT ![m] = "closed"]
  /\ UNCHANGED <<mail, pending, heard, published>> /\ UNCHANGED dispVars

\* The receiver sees its sender dropped: no cleanup, no timeout event.
Superseded(m) ==
  /\ chan[m] = "cancelled"
  /\ Move(m, "wait", "done")
  /\ outcome' = [outcome EXCEPT ![m] = NoReplyOutcome]
  /\ chan' = [chan EXCEPT ![m] = "closed"]
  /\ UNCHANGED <<mail, pending, heard, published>> /\ UNCHANGED dispVars

\* Wrong: the receiver is awaited without a timeout.
ElapseNever(m) == chan[m] = "open" /\ pc[m] = "elapsed" /\ UNCHANGED vars

\* timeout() polled the receiver first, found nothing, and then found its
\* timer elapsed; the receiver still exists.
Elapse(m) ==
  /\ chan[m] = "open"
  /\ Move(m, "wait", "elapsed")
  /\ UNCHANGED <<outcome, chan, mail, pending, heard, published>> /\ UNCHANGED dispVars

\* The timeout future is dropped and the receiver with it.
DropReceiver(m) ==
  /\ Move(m, "elapsed", "cleanup")
  /\ chan' = [chan EXCEPT ![m] = "closed"]
  /\ UNCHANGED <<outcome, mail, pending, heard, published>> /\ UNCHANGED dispVars

\* Wrong: a timed-out handler leaves its sender in the map.
CleanupForgotten(m) ==
  /\ Move(m, "cleanup", "announce")
  /\ UNCHANGED <<outcome, chan, mail, pending, heard, published>> /\ UNCHANGED dispVars

\* pending.remove(&session_id): by key, whoever's sender is there.
Cleanup(m) ==
  /\ Move(m, "cleanup", "announce")
  /\ chan' = DropSender(chan, pending[SessionOf[m]])
  /\ pending' = [pending EXCEPT ![SessionOf[m]] = NoMsg]
  /\ UNCHANGED <<outcome, mail, heard, published>> /\ UNCHANGED dispVars

\* The BridgeTimeout publish returned (its result is ignored).
Announce(m) ==
  /\ Move(m, "announce", "done")
  /\ outcome' = [outcome EXCEPT ![m] = NoReplyOutcome]
  /\ UNCHANGED <<chan, mail, pending, heard, published>> /\ UNCHANGED dispVars
-----------------------------------------------------------------------------
(***************************************************************************)
(* The core (external) and the dispatcher task.                            *)
(***************************************************************************)
\* The core publishes an event, each id once; a session id comes from an
\* inbound event the core has heard.
CorePublish(e) ==
  /\ \A p \in published : p.id # e.id
  /\ e.sid # NoSession => \E m \in heard : SessionOf[m] = e.sid
  /\ published' = published \cup {e}
  /\ queue' = Append(queue, e)
  /\ UNCHANGED <<disp, wire, discarded, failed>> /\ UNCHANGED bridgeVars

Owner(e) == IF e.sid = NoSession THEN NoMsg ELSE pending[e.sid]

Take(at, tx) ==
  /\ disp.at = "idle" /\ queue # <<>>
  /\ queue' = Tail(queue)
  /\ disp' = [at |-> at, ev |-> Head(queue), tx |-> tx]
  /\ UNCHANGED <<wire, discarded, failed, pc, outcome, mail, heard, published>>

\* A text for a session with a pending sender: take the sender out.
TakeReactive ==
  /\ queue # <<>>
  /\ LET e == Head(queue) IN
       /\ e.kind = "text" /\ e.text # "none" /\ Owner(e) # NoMsg
       /\ Take("resolve", Owner(e))
       /\ pending' = [pending EXCEPT ![e.sid] = NoMsg]
  /\ UNCHANGED chan

\* Any other kind for such a session: drop the sender, then send.
TakeCancelling ==
  /\ queue # <<>>
  /\ LET e == Head(queue) IN
       /\ e.kind # "text" /\ Owner(e) # NoMsg
       /\ Take("route", NoMsg)
       /\ chan' = DropSender(chan, Owner(e))
       /\ pending' = [pending EXCEPT ![e.sid] = NoMsg]

TakePlain ==
  /\ queue # <<>>
  /\ LET e == Head(queue) IN (e.kind = "text" /\ e.text = "none") \/ Owner(e) = NoMsg
  /\ Take("route", NoMsg)
  /\ UNCHANGED <<chan, pending>>

\* Wrong: no return after a successful tx.send.
ResolveOkFallsThrough ==
  /\ disp.at = "resolve" /\ chan[disp.tx] = "open"
  /\ chan' = [chan EXCEPT ![disp.tx] = "sent"]
  /\ mail' = [mail EXCEPT ![disp.tx] = disp.ev]
  /\ disp' = [at |-> "route", ev |-> disp.ev, tx |-> NoMsg]
  /\ UNCHANGED <<pc, outcome, pending, heard, queue, published, wire, discarded, failed>>

\* tx.send succeeded: the event is done.
ResolveOk ==
  /\ disp.at = "resolve" /\ chan[disp.tx] = "open"
  /\ chan' = [chan EXCEPT ![disp.tx] = "sent"]
  /\ mail' = [mail EXCEPT ![disp.tx] = disp.ev]
  /\ disp' = IdleDisp
  /\ UNCHANGED <<pc, outcome, pending, heard, queue, published, wire, discarded, failed>>

\* Wrong: the event is considered handled when the receiver is gone.
ResolveGoneReturns ==
  /\ disp.at = "resolve" /\ chan[disp.tx] # "open"
  /\ disp' = IdleDisp
  /\ UNCHANGED <<queue, published, wire, discarded, failed>> /\ UNCHANGED bridgeVars

\* Wrong: the dispatcher waits for a receiver to come back.
ResolveGoneWaits ==
  disp.at = "resolve" /\ chan[disp.tx] # "open" /\ UNCHANGED vars

\* tx.send found the receiver dropped: fall through to a direct send.
ResolveGone ==
  /\ disp.at = "resolve" /\ chan[disp.tx] # "open"
  /\ disp' = [at |-> "route", ev |-> disp.ev, tx |-> NoMsg]
  /\ UNCHANGED <<queue, published, wire, discarded, failed>> /\ UNCHANGED bridgeVars

\* No address, or a text event without a text to send: dropped or rejected.
Discard ==
  /\ disp.at = "route" /\ ~Deliverable(disp.ev)
  /\ discarded' = discarded \cup {disp.ev}
  /\ disp' = IdleDisp
  /\ UNCHANGED <<queue, published, wire, failed>> /\ UNCHANGED bridgeVars

SendOk ==
  /\ disp.at = "route" /\ Deliverable(disp.ev)
  /\ wire' = Append(wire, disp.ev)
  /\ disp' = IdleDisp
  /\ UNCHANGED <<queue, published, discarded, failed>> /\ UNCHANGED bridgeVars

\* A missing field, a media download that failed or timed out, a send error.
SendFail ==
  /\ disp.at = "route" /\ Deliverable(disp.ev)
  /\ failed' = failed \cup {disp.ev}
  /\ disp' = IdleDisp
  /\ UNCHANGED <<queue, published, wire, discarded>> /\ UNCHANGED bridgeVars
-----------------------------------------------------------------------------
Handler(m) ==
  \/ PublishOk(m) \/ PublishFail(m)
  \/ Receive(m) \/ Superseded(m)
  \/ Elapse(m) \/ DropReceiver(m) \/ Cleanup(m) \/ Announce(m)

Arrival(m) == Ignore(m) \/ BeginDownload(m) \/ Insert(m)

Dispatcher ==
  \/ TakeReactive \/ TakeCancelling \/ TakePlain
  \/ ResolveOk \/ ResolveGone
  \/ Discard \/ SendOk \/ SendFail

Next ==
  \/ \E m \in Msgs : Arrival(m) \/ Handler(m)
  \/ \E e \in Outbound : CorePublish(e)
  \/ Dispatcher

\* Handlers and the dispatcher are scheduled by the tokio runtime, timers
\* fire, and publishes and sends return; messages and replies need not come,
\* and an audio download need not end.
Fairness == WF_vars(Dispatcher) /\ \A m \in Msgs : WF_vars(Handler(m))

Spec == Init /\ [][Next]_vars
FairSpec == Spec /\ Fairness
-----------------------------------------------------------------------------
(***************************************************************************)
(* Properties that hold.                                                   *)
(***************************************************************************)
\* The variables have their types.
TypeOK ==
  /\ pc \in [Msgs -> Stages]
  /\ outcome \in [Msgs -> Outcomes]
  /\ chan \in [Msgs -> Channels]
  /\ mail \in [Msgs -> Outbound \cup {NoEvent}]
  /\ pending \in [Sessions -> Msgs \cup {NoMsg}]
  /\ heard \subseteq Msgs
  /\ queue \in Seq(Outbound)
  /\ published \subseteq Outbound
  /\ disp \in DispStates
  /\ wire \in Seq(Outbound)
  /\ discarded \subseteq Outbound
  /\ failed \subseteq Outbound

\* A slot of the pending map names a handler of that session which has not
\* ended: no handler, however it ends, leaves its sender behind for a later
\* reply to be lost in (tests/bridge_test.rs: "pending drained on timeout").
SlotsAreLive ==
  \A s \in Sessions : pending[s] # NoMsg =>
    /\ SessionOf[pending[s]] = s
    /\ pc[pending[s]] \in {"publish", "wait", "elapsed", "cleanup"}
    /\ chan[pending[s]] \in {"open", "closed"}

\* A handler whose receiver still sees its sender alive can be reached: the
\* sender is in its session's slot or in the dispatcher's hand, not in both.
WaitersReachable ==
  \A m \in Msgs : chan[m] = "open" =>
    (pending[SessionOf[m]] = m) # (disp.at = "resolve" /\ disp.tx = m)

\* No double post: an event is sent directly at most once, returned by at
\* most one handler, and never both, however the reactive path, the timers
\* and the direct sends interleave (dispatch.rs: "would double-post").
AtMostOnce ==
  /\ \A i, j \in 1..Len(wire) : wire[i] = wire[j] => i = j
  /\ \A m \in Msgs : outcome[m] = "text" =>
       /\ mail[m] \notin Elements(wire)
       /\ \A n \in Msgs \ {m} : mail[n] # mail[m]

\* No cross-talk: the value in a handler's channel, read or not, is a text
\* published for the session of the handler's own message.
OwnConversation ==
  \A m \in Msgs : mail[m] # NoEvent =>
    mail[m].kind = "text" /\ mail[m].sid = SessionOf[m]

\* A handler loses its sender only to something that happened in its own
\* session: another handler of it that got as far as the map, or a non-text
\* event the dispatcher took for it.
CancelHasCause ==
  \A m \in Msgs : chan[m] = "cancelled" =>
    \/ \E n \in Msgs \ {m} : SessionOf[n] = SessionOf[m] /\ chan[n] # "none"
    \/ \E e \in published \ Elements(queue) : e.kind # "text" /\ e.sid = SessionOf[m]

\* What became of an event: a value in a channel counts as shown once its
\* handler read it, and as lost once the receiver is dropped.
Shown(e) == e \in Elements(wire) \/ \E m \in Msgs : mail[m] = e /\ chan[m] = "read"
Lost(e) ==
  e \in discarded \cup failed \/ \E m \in Msgs : mail[m] = e /\ chan[m] = "closed"
Settled(e) == Shown(e) \/ Lost(e)

\* Every event the core published is somewhere: queued, in the dispatcher's
\* hand, in a handler's channel, shown or lost; and only one without an
\* address or a text is ever dropped by a guard.
Accounted ==
  \A e \in published :
    /\ \/ e \in Elements(queue) \/ disp.ev = e \/ Settled(e)
       \/ \E m \in Msgs : mail[m] = e /\ chan[m] = "sent"
    /\ e \in discarded => ~Deliverable(e)

\* In the end every handler that ever had a sender in the map has ended: by
\* the reply, the cancellation or its own timer (the typing indicator does
\* not hang).
HandlersFinish == <>[](\A m \in Msgs : chan[m] # "none" => pc[m] = "done")

\* In the end the one dispatcher task got to every event, and an event handed
\* to a handler was read or went down with it.
EventsSettle == <>[](\A e \in published : Settled(e))

\* The bridge implements module ReplyDelivery, under this mapping.
StageOf(e) ==
  IF e \notin published THEN "new"
  ELSE IF Shown(e) THEN "shown"
  ELSE IF Lost(e) THEN "lost" ELSE "accepted"
AnswerOf(m) == IF outcome[m] = "text" THEN mail[m] ELSE NoEvent
Delivery == INSTANCE ReplyDelivery WITH
  answer <- [m \in Msgs |-> AnswerOf(m)],
  stage <- [e \in Outbound |-> StageOf(e)]
DeliverySpec == Delivery!Spec
-----------------------------------------------------------------------------
(***************************************************************************)
(* Claims of the code's comments that do not hold.                         *)
(***************************************************************************)
\* bridge.rs: "Last inbound wins".  The handler that inserted last keeps its
\* slot until it leaves by itself or the dispatcher takes an event for it.
LastInboundWins ==
  [][\A s \in Sessions : pending[s] # NoMsg /\ pending'[s] = NoMsg =>
       pc'[pending[s]] # pc[pending[s]] \/ disp' # disp]_vars

\* dispatch.rs: when the receiver is gone the dispatcher falls through to a
\* direct send "so the user still gets the message".  The receiver is still
\* there, and takes the reply to nobody, in two cases: its timer fired and it
\* is not dropped yet, and its handler is still in a publish that then fails.
AddressedReplyShown ==
  \A m \in Msgs : mail[m] # NoEvent /\ Deliverable(mail[m]) /\ pc[m] = "done" =>
    outcome[m] = "text"
=============================================================================
