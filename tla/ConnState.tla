----------------------------- MODULE ConnState -----------------------------
(***************************************************************************)
(* What the plugin knows about its own connection: the lifecycle forwarder *)
(* (lifecycle.rs, spawn and forward) follows the session's broadcast of    *)
(* events and keeps two views current, the LifecycleState behind a mutex   *)
(* that health() reads and the PairingState of the pairing page            *)
(* (pairing.rs), and tells the broker.                                     *)
(*                                                                         *)
(* The broadcast channel is the sequence of all events the session emitted *)
(* and the receiver's position in it: a receiver only gets what is sent    *)
(* after it subscribed, and one that falls more than Capacity behind skips *)
(* to the oldest event kept.  Every await of the forwarder is a boundary   *)
(* between two actions; the mutex stays locked across those inside an arm. *)
(*                                                                         *)
(* External: the session, which emits events of any kind in any order; the *)
(* broker; health requests; stop.  PairingState's QR is not modelled: no   *)
(* code of the runtime calls set_qr, so it is always None and clear_qr     *)
(* clears nothing.                                                         *)
(***************************************************************************)
EXTENDS Naturals, Sequences, Functions

CONSTANTS
  Capacity,    \* events the broadcast channel keeps
  MaxSent      \* bound on the events the session emits

ASSUME BoundsAssumption == Capacity \in Nat \ {0} /\ MaxSent \in Nat

\* other: a NewMessage or any kind without an arm; aside: Typing and
\* BotMessage, which forward returns from before it takes the lock.
Transitions == {"connected", "disconnected"}
Lifecycle == Transitions \cup {"reconnecting"}
Kinds == Lifecycle \cup {"other", "aside"}

VARIABLES
  sent,        \* Seq(Kinds): what the session has emitted
  closed,      \* the session is gone, and with it the channel's sender
  at,          \* where the forwarder is
  next,        \* the position it receives next, 0 before it subscribed
  cur,         \* the position of the event in its hand, or 0
  life,        \* LifecycleState
  pair,        \* PairingState
  lock,        \* who holds the mutex of LifecycleState
  health,      \* a caller of health()
  told,        \* Seq of positions: what was published, in order
  missed,      \* positions sent before it subscribed or skipped on a lag
  cancelled    \* the shutdown token

feedVars == <<sent, closed>>
stateVars == <<life, pair>>
vars == <<sent, closed, at, next, cur, life, pair, lock, health, told, missed, cancelled>>

Places == {"spawned", "recv", "arm", "jid", "attempt", "publish", "done"}
\* An attempt is named by the position of its Reconnecting event, last_event
\* by the position of the event that set it.
Lives == [up : BOOLEAN, jid : BOOLEAN, attempt : Nat, seen : Nat]
Pairs == [up : BOOLEAN, jid : BOOLEAN, attempt : Nat]

Init ==
  /\ sent = <<>> /\ closed = FALSE
  /\ at = "spawned" /\ next = 0 /\ cur = 0
  /\ life = [up |-> FALSE, jid |-> FALSE, attempt |-> 0, seen |-> 0]
  /\ pair = [up |-> FALSE, jid |-> FALSE, attempt |-> 0]
  /\ lock = "free" /\ health = "idle"
  /\ told = <<>> /\ missed = {}
  /\ cancelled = FALSE
-----------------------------------------------------------------------------
(***************************************************************************)
(* The session, stop and a caller of health().                             *)
(***************************************************************************)
Emit(k) ==
  /\ ~closed /\ Len(sent) < MaxSent
  /\ sent' = Append(sent, k)
  /\ UNCHANGED <<closed, at, next, cur, life, pair, lock, health, told, missed, cancelled>>

CloseSession ==
  /\ ~closed /\ closed' = TRUE
  /\ UNCHANGED <<sent, at, next, cur, life, pair, lock, health, told, missed, cancelled>>

Cancel ==
  /\ ~cancelled /\ cancelled' = TRUE
  /\ UNCHANGED <<sent, closed, at, next, cur, life, pair, lock, health, told, missed>>

HealthMove(from, to, locked, unlocked) ==
  /\ health = from /\ lock = locked
  /\ health' = to /\ lock' = unlocked
  /\ UNCHANGED <<at, next, cur, told, missed, cancelled>>
  /\ UNCHANGED feedVars /\ UNCHANGED stateVars

\* snapshot: the mutex is held while outbox_pending_count is awaited, and
\* the fields are read after it.
HealthLock == HealthMove("idle", "counting", "free", "health")
HealthRead == HealthMove("counting", "idle", "health", "free")
-----------------------------------------------------------------------------
(***************************************************************************)
(* The forwarder.                                                          *)
(***************************************************************************)
Go(from, to) == at = from /\ at' = to

\* session.events(), inside the spawned task: what was emitted until now is
\* never received.
Subscribe ==
  /\ Go("spawned", "recv")
  /\ next' = Len(sent) + 1
  /\ missed' = 1..Len(sent)
  /\ UNCHANGED <<cur, lock, health, told, cancelled>>
  /\ UNCHANGED feedVars /\ UNCHANGED stateVars

Behind == Len(sent) + 1 - next

Recv ==
  /\ Behind \in 1..Capacity
  /\ Go("recv", "arm")
  /\ cur' = next /\ next' = next + 1
  /\ UNCHANGED <<lock, health, told, missed, cancelled>>
  /\ UNCHANGED feedVars /\ UNCHANGED stateVars

\* Wrong: a lagged receiver ends the loop.
RecvLaggedEnds ==
  /\ Behind > Capacity
  /\ Go("recv", "done")
  /\ UNCHANGED <<next, missed, cur, lock, health, told, cancelled>>
  /\ UNCHANGED feedVars /\ UNCHANGED stateVars

\* RecvError::Lagged: the overwritten events are skipped, the loop goes on.
RecvLagged ==
  /\ at = "recv" /\ Behind > Capacity
  /\ next' = Len(sent) + 1 - Capacity
  /\ missed' = missed \cup (next..(Len(sent) - Capacity))
  /\ UNCHANGED <<at, cur, lock, health, told, cancelled>>
  /\ UNCHANGED feedVars /\ UNCHANGED stateVars

\* Wrong: the two ways out end in places of their own.
LeaveApart ==
  /\ cancelled \/ (closed /\ Behind = 0)
  /\ Go("recv", IF cancelled THEN "cancelled" ELSE "done")
  /\ UNCHANGED <<next, cur, lock, health, told, missed, cancelled>>
  /\ UNCHANGED feedVars /\ UNCHANGED stateVars

\* RecvError::Closed, once everything kept was received; or the token, which
\* select! may take while events are waiting.
Leave ==
  /\ cancelled \/ (closed /\ Behind = 0)
  /\ Go("recv", "done")
  /\ UNCHANGED <<next, cur, lock, health, told, missed, cancelled>>
  /\ UNCHANGED feedVars /\ UNCHANGED stateVars

\* Typing and BotMessage: emitted elsewhere, no state and no InboundEvent.
Aside ==
  /\ Go("arm", "recv")
  /\ sent[cur] = "aside"
  /\ cur' = 0
  /\ UNCHANGED <<next, lock, health, told, missed, cancelled>>
  /\ UNCHANGED feedVars /\ UNCHANGED stateVars

\* An arm up to its first await on PairingState, and the places after it.
Apply(kind, to, f) ==
  /\ Go("arm", to)
  /\ sent[cur] = kind /\ lock = "free"
  /\ life' = [f EXCEPT !.seen = cur]
  /\ UNCHANGED <<next, health, told, missed, cancelled>> /\ UNCHANGED feedVars

\* Wrong: the arm drops the guard before it awaits.
ApplyConnectedUnlocked ==
  /\ Apply("connected", "jid", [life EXCEPT !.up = TRUE, !.jid = TRUE])
  /\ pair' = [pair EXCEPT !.up = TRUE]
  /\ UNCHANGED <<cur, lock>>

ApplyConnected ==
  /\ Apply("connected", "jid", [life EXCEPT !.up = TRUE, !.jid = TRUE])
  /\ pair' = [pair EXCEPT !.up = TRUE]
  /\ lock' = "forwarder"
  /\ UNCHANGED cur

\* No await inside: the guard is taken and dropped in one step.
ApplyDisconnected ==
  /\ Apply("disconnected", "publish", [life EXCEPT !.up = FALSE])
  /\ pair' = [pair EXCEPT !.up = FALSE]
  /\ UNCHANGED <<cur, lock>>

ApplyReconnecting ==
  /\ Apply("reconnecting", "attempt", [life EXCEPT !.attempt = cur])
  /\ lock' = "forwarder"
  /\ UNCHANGED <<pair, cur>>

ApplyOther ==
  /\ Apply("other", "recv", life)
  /\ cur' = 0
  /\ UNCHANGED <<pair, lock>>

\* set_our_jid (and clear_qr) returned, or set_reconnect_attempt: the block
\* ends and with it the guard.
Release(from, p) ==
  /\ Go(from, "publish")
  /\ pair' = p /\ lock' = "free"
  /\ UNCHANGED <<next, cur, life, health, told, missed, cancelled>> /\ UNCHANGED feedVars

SetJid == Release("jid", [pair EXCEPT !.jid = TRUE])
SetAttempt == Release("attempt", [pair EXCEPT !.attempt = cur])

\* Wrong: a publish that returned an error is tried again, though the broker
\* may have had the event.
PublishAgain(ok) ==
  /\ Go("publish", IF ok THEN "recv" ELSE "publish")
  /\ told' = Append(told, cur)
  /\ cur' = IF ok THEN 0 ELSE cur
  /\ UNCHANGED <<next, lock, health, missed, cancelled>>
  /\ UNCHANGED feedVars /\ UNCHANGED stateVars

\* broker.publish(..).await.ok(): an error is ignored.
Publish(ok) ==
  /\ Go("publish", "recv")
  /\ told' = IF ok THEN Append(told, cur) ELSE told
  /\ cur' = 0
  /\ UNCHANGED <<next, lock, health, missed, cancelled>>
  /\ UNCHANGED feedVars /\ UNCHANGED stateVars
-----------------------------------------------------------------------------
Arm ==
  \/ ApplyConnected \/ ApplyDisconnected \/ ApplyReconnecting \/ ApplyOther

Forwarder ==
  \/ Subscribe \/ Recv \/ RecvLagged \/ Leave
  \/ Aside \/ SetJid \/ SetAttempt
  \/ \E ok \in BOOLEAN : Publish(ok)

Next ==
  \/ \E k \in Kinds : Emit(k)
  \/ CloseSession \/ Cancel
  \/ HealthLock \/ HealthRead
  \/ Forwarder \/ Arm

\* The runtime schedules the forwarder; outbox_pending_count and a publish
\* return; tokio's mutex queues its waiters in order, so that callers of
\* health() cannot keep the forwarder out for ever.
Fairness == WF_vars(Forwarder) /\ SF_vars(Arm) /\ WF_vars(HealthRead)

Spec == Init /\ [][Next]_vars
FairSpec == Spec /\ Fairness
-----------------------------------------------------------------------------
(***************************************************************************)
(* Properties.                                                             *)
(***************************************************************************)
\* The variables have their types.
TypeOK ==
  /\ sent \in Seq(Kinds) /\ closed \in BOOLEAN
  /\ at \in Places /\ next \in Nat /\ cur \in Nat
  /\ life \in Lives /\ pair \in Pairs
  /\ lock \in {"free", "forwarder", "health"}
  /\ health \in {"idle", "counting"}
  /\ told \in Seq(Nat) /\ Range(told) \cup missed \subseteq 1..Len(sent)
  /\ cancelled \in BOOLEAN

\* Events whose arm has begun.
Applied ==
  {i \in 1..Len(sent) : i < next /\ i \notin missed /\ ~(at = "arm" /\ i = cur)}

\* n is the last applied event with a kind in K, or 0 for none.
IsLast(n, K) ==
  /\ n = 0 \/ (n \in Applied /\ sent[n] \in K)
  /\ \A i \in Applied : sent[i] \in K => i <= n

\* Whoever gets the lock, or looks while nobody has it, finds both views in
\* step with each other and with everything the forwarder received: connected
\* as the last transition said, the JID known since the first Connected, the
\* attempt of the last Reconnecting.  No reader of health() sees half an arm.
ViewsFollowFeed ==
  lock # "forwarder" =>
    /\ pair = [up |-> life.up, jid |-> life.jid, attempt |-> life.attempt]
    /\ \E n \in 0..Len(sent) :
         IsLast(n, Transitions) /\ (life.up <=> n # 0 /\ sent[n] = "connected")
    /\ life.jid <=> \E i \in Applied : sent[i] = "connected"
    /\ IsLast(life.attempt, {"reconnecting"})
    /\ IsLast(life.seen, Kinds \ {"aside"})

\* The forwarder implements module EventFeed: an event is told once, however
\* often the receiver lags and the loop goes round, and in order, or dropped.
Feed == INSTANCE EventFeed WITH
  dropped <- {i \in 1..Len(sent) : i < next /\ i \notin Range(told) /\ i # cur}
FeedSpec == Feed!Spec

\* What the session last said about its connection.
LinkUp ==
  \E i \in 1..Len(sent) :
    /\ sent[i] = "connected"
    /\ \A j \in (i + 1)..Len(sent) : sent[j] \notin Transitions
\* The event that said it never reached the forwarder.
LinkMissed ==
  \E i \in missed :
    /\ sent[i] \in Transitions
    /\ \A j \in (i + 1)..Len(sent) : sent[j] \notin Transitions

\* In the end health() is right about the connection, whatever callers of
\* health() do, unless the plugin was stopped or the very event was missed.
HealthSettles == <>[](cancelled \/ LinkMissed \/ life.up = LinkUp)
=============================================================================
