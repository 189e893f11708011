----------------------------- MODULE EventFeed -----------------------------
(***************************************************************************)
(* What the plugin's inbound topic promises about the session's lifecycle  *)
(* events, with none of the forwarder's machinery.  What the topic is told *)
(* is a sequence, so that a second telling of an event shows: each event   *)
(* is told once or dropped for ever; nothing is told out of order, twice,  *)
(* or after a later event was settled; and only lifecycle events are told. *)
(* Module ConnState implements this with a broadcast receiver that may     *)
(* start late and lag, a lock, and publishes that may fail.                *)
(***************************************************************************)
EXTENDS Naturals, Sequences, Functions

CONSTANTS
  Kinds,      \* kinds of session events
  Lifecycle   \* those the topic is told of

VARIABLES
  sent,       \* Seq(Kinds): the events the session emitted
  told,       \* Seq of positions: what the topic was told, in order
  dropped     \* positions that never will be

vars == <<sent, told, dropped>>

Open(i) == i \in 1..Len(sent) /\ i \notin Range(told) /\ i \notin dropped

Init == sent = <<>> /\ told = <<>> /\ dropped = {}

Emit ==
  /\ \E k \in Kinds : sent' = Append(sent, k)
  /\ UNCHANGED <<told, dropped>>

\* The oldest open event is told.
Tell(i) ==
  /\ Open(i) /\ \A j \in 1..(i - 1) : ~Open(j)
  /\ sent[i] \in Lifecycle
  /\ told' = Append(told, i)
  /\ UNCHANGED <<sent, dropped>>

\* Every open event up to n is given up.
Drop(n) ==
  /\ n \in 1..Len(sent)
  /\ dropped' = dropped \cup {i \in 1..n : Open(i)}
  /\ UNCHANGED <<sent, told>>

Next == Emit \/ \E i \in 1..Len(sent) : Tell(i) \/ Drop(i)

Spec == Init /\ [][Next]_vars
=============================================================================
