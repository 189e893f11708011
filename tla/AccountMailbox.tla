--------------------------- MODULE AccountMailbox ---------------------------
(***************************************************************************)
(* What the outbound topics promise to those who publish on them, with     *)
(* none of the machinery: a publication is accepted or declined, once;     *)
(* what is accepted is lost at once, when nobody listens, or waits in its  *)
(* account's line; the line is served from its head, and every event that  *)
(* leaves it has met one fate, which is final.  Nothing in a line is       *)
(* forgotten, served twice, overtaken or moved to another account.  Module *)
(* OutboundQueue implements this with callers, a broker's queue and a      *)
(* dispatcher task that holds one event at a time.                         *)
(***************************************************************************)
EXTENDS Sequences

CONSTANTS
  Calls,    \* one publication each
  Topics,   \* one line each
  TopicOf   \* [Calls -> Topics]

VARIABLES
  told,     \* [Calls -> {"waiting", "accepted", "declined"}]
  line,     \* [Topics -> Seq(Calls)]
  fate      \* [Calls -> {"none", "lost", "rejected", "failed", "sent"}]

vars == <<told, line, fate>>

Init ==
  /\ told = [c \in Calls |-> "waiting"]
  /\ line = [t \in Topics |-> <<>>]
  /\ fate = [c \in Calls |-> "none"]

Tell(c, answer) ==
  told[c] = "waiting" /\ told' = [told EXCEPT ![c] = answer]

Meet(c, f) ==
  fate[c] = "none" /\ fate' = [fate EXCEPT ![c] = f]

Decline(c) == Tell(c, "declined") /\ UNCHANGED <<line, fate>>

Accept(c) ==
  /\ Tell(c, "accepted")
  /\ line' = [line EXCEPT ![TopicOf[c]] = Append(@, c)]
  /\ UNCHANGED fate

Lose(c) == Tell(c, "accepted") /\ Meet(c, "lost") /\ UNCHANGED line

\* The oldest event of t's line meets its fate.
Serve(t) ==
  /\ line[t] # <<>>
  /\ \E f \in {"rejected", "failed", "sent"} : Meet(Head(line[t]), f)
  /\ line' = [line EXCEPT ![t] = Tail(@)]
  /\ UNCHANGED told

Next ==
  \/ \E c \in Calls : Decline(c) \/ Accept(c) \/ Lose(c)
  \/ \E t \in Topics : Serve(t)

Spec == Init /\ [][Next]_vars
=============================================================================
