--------------------------- MODULE ReplyDelivery ---------------------------
(***************************************************************************)
(* What the reply path of the plugin promises to the two people at its     *)
(* ends, with none of its machinery.  The core hands the plugin outbound   *)
(* events; each one is shown to the user at most once, either as the       *)
(* answer of one message handler of the same conversation or as a direct   *)
(* send to the event's address, or it is lost.  Each inbound message gets  *)
(* exactly one outcome, and it is final.  Module ReplyBridge implements    *)
(* this with a map of oneshot channels, timers and a dispatcher task.      *)
(***************************************************************************)
CONSTANTS
  Msgs,       \* inbound messages, one handler invocation each
  SessionOf,  \* [Msgs -> sessions]: the session id derived from the JID
  Outbound,   \* records [id, kind, sid, to, text]: events the core may publish
  NoEvent     \* "no outbound event"

VARIABLES
  outcome,    \* [Msgs -> {"open", "text", "apology", "noop"}]
  answer,     \* [Msgs -> Outbound \cup {NoEvent}]: the text shown as outcome
  stage       \* [Outbound -> {"new", "accepted", "shown", "lost"}]

vars == <<outcome, answer, stage>>

Init ==
  /\ outcome = [m \in Msgs |-> "open"]
  /\ answer = [m \in Msgs |-> NoEvent]
  /\ stage = [e \in Outbound |-> "new"]

MoveStage(e, from, to) ==
  /\ stage[e] = from
  /\ stage' = [stage EXCEPT ![e] = to]

CloseOutcome(m, o) ==
  /\ outcome[m] = "open"
  /\ outcome' = [outcome EXCEPT ![m] = o]

\* The core publishes e on the outbound topic.
Accept(e) == MoveStage(e, "new", "accepted") /\ UNCHANGED <<outcome, answer>>

\* The handler of m returns e's text: same conversation, text only.
Answer(m, e) ==
  /\ e.kind = "text" /\ e.sid = SessionOf[m]
  /\ MoveStage(e, "accepted", "shown")
  /\ CloseOutcome(m, "text")
  /\ answer' = [answer EXCEPT ![m] = e]

\* The dispatcher sends e itself: it needs an address.
SendDirect(e) ==
  /\ e.to
  /\ MoveStage(e, "accepted", "shown")
  /\ UNCHANGED <<outcome, answer>>

\* The handler of m ends without a reply.
Finish(m) ==
  /\ \E o \in {"apology", "noop"} : CloseOutcome(m, o)
  /\ UNCHANGED <<answer, stage>>

Lose(e) == MoveStage(e, "accepted", "lost") /\ UNCHANGED <<outcome, answer>>

\* A handler that gives up while a reply sits in its channel loses both.
FinishLosing(m, e) ==
  /\ e.sid = SessionOf[m]
  /\ \E o \in {"apology", "noop"} : CloseOutcome(m, o)
  /\ MoveStage(e, "accepted", "lost")
  /\ UNCHANGED answer

Next ==
  \/ \E m \in Msgs : Finish(m)
  \/ \E e \in Outbound : Accept(e) \/ SendDirect(e) \/ Lose(e)
  \/ \E m \in Msgs, e \in Outbound : Answer(m, e) \/ FinishLosing(m, e)

Spec == Init /\ [][Next]_vars
=============================================================================
