-------------------------- MODULE PluginLifecycle --------------------------
(***************************************************************************)
(* Plugin::start and Plugin::stop (plugin.rs) of several plugins in one    *)
(* process, with the bot registry they share (bot_registry.rs) and the     *)
(* handlers that wait in a plugin's pending map (bridge.rs).               *)
(*                                                                         *)
(* start connects, which may take long, then runs without an await until   *)
(* its three loops are spawned, then awaits the lock of spawned to record  *)
(* their handles.  stop cancels the token, clears the pending map and      *)
(* drops the registry entry in one go, then takes the handles and joins    *)
(* them one after the other, five seconds each.  The host calls stop once  *)
(* and start any number of times, also while stop or after it has run:     *)
(* nothing resets the token or the session cell.                           *)
(*                                                                         *)
(* External: the host; connects that fail (or are refused before they      *)
(* begin: a running daemon, no directories, no credentials); loops that    *)
(* end by themselves when the session or the broker closes; wa-agent,      *)
(* which may drop its handlers with the inbound loop or let them finish.   *)
(***************************************************************************)
EXTENDS Naturals, Sequences

CONSTANTS
  Plugins,      \* plugins with enabled = true
  Instances,    \* instance labels the configurations use
  DefaultLabel, \* the label "default"
  NoInstance,   \* a configuration without instance
  InstanceOf,   \* [Plugins -> Instances \cup {NoInstance}]
  Chats,        \* chats with a handler
  OwnerOf,      \* [Chats -> Plugins]
  Handles,      \* the loops, in the order of the vector of their handles
  NoPlugin

ASSUME PluginAssumption ==
  /\ NoPlugin \notin Plugins /\ NoInstance \notin Instances
  /\ InstanceOf \in [Plugins -> Instances \cup {NoInstance}]
  /\ OwnerOf \in [Chats -> Plugins]
  /\ Handles \in Seq(STRING)

VARIABLES
  starting,   \* [Plugins -> ...]: where a call of start is
  stopping,   \* [Plugins -> ...]: where a call of stop is
  session,    \* [Plugins -> BOOLEAN]: the session cell is set
  cancelled,  \* [Plugins -> BOOLEAN]: the shutdown token
  late,       \* [Plugins -> BOOLEAN]: it was launched with its token cancelled
  loops,      \* [Plugins -> SUBSET Loops]: tasks that run
  spawned,    \* [Plugins -> Seq(Loops)]: the recorded handles
  joining,    \* [Plugins -> Seq(Loops)]: handles stop has still to join
  detached,   \* [Plugins -> SUBSET Loops]: loops whose join timed out
  registry,   \* [Labels -> Plugins or NoPlugin]: REGISTRY
  handler,    \* [Chats -> ...]: where the chat's handler is
  entry       \* [Chats -> BOOLEAN]: its sender is in the pending map

startVars == <<starting, session, late>>
stopVars == <<stopping, joining, detached>>
chatVars == <<handler, entry>>
vars == <<starting, stopping, session, cancelled, late, loops, spawned, joining,
          detached, registry, handler, entry>>

\* The code's are <<"inbound", "dispatch", "lifecycle">>.
Loops == {Handles[i] : i \in DOMAIN Handles}
Labels == Instances \cup {DefaultLabel}

RegistryLabel(p) ==
  IF InstanceOf[p] = NoInstance THEN DefaultLabel ELSE InstanceOf[p]

Init ==
  /\ starting = [p \in Plugins |-> "idle"]
  /\ stopping = [p \in Plugins |-> "idle"]
  /\ session = [p \in Plugins |-> FALSE]
  /\ cancelled = [p \in Plugins |-> FALSE]
  /\ late = [p \in Plugins |-> FALSE]
  /\ loops = [p \in Plugins |-> {}]
  /\ spawned = [p \in Plugins |-> <<>>]
  /\ joining = [p \in Plugins |-> <<>>]
  /\ detached = [p \in Plugins |-> {}]
  /\ registry = [l \in Labels |-> NoPlugin]
  /\ handler = [c \in Chats |-> "none"]
  /\ entry = [c \in Chats |-> FALSE]
-----------------------------------------------------------------------------
(***************************************************************************)
(* start.                                                                  *)
(***************************************************************************)
Starting(p, from, to) ==
  starting[p] = from /\ starting' = [starting EXCEPT ![p] = to]

Start(p) ==
  /\ Starting(p, "idle", "connecting")
  /\ UNCHANGED <<session, late, cancelled, loops, spawned, registry>>
  /\ UNCHANGED stopVars /\ UNCHANGED chatVars

ConnectFail(p) ==
  /\ Starting(p, "connecting", "idle")
  /\ UNCHANGED <<session, late, cancelled, loops, spawned, registry>>
  /\ UNCHANGED stopVars /\ UNCHANGED chatVars

\* "session already initialised": the new session is dropped.
SecondSession(p) ==
  /\ session[p]
  /\ Starting(p, "connecting", "idle")
  /\ UNCHANGED <<session, late, cancelled, loops, spawned, registry>>
  /\ UNCHANGED stopVars /\ UNCHANGED chatVars

Register(p) == registry' = [registry EXCEPT ![RegistryLabel(p)] = p]

\* From the connect to the last spawn.
Launch(p) ==
  /\ ~session[p]
  /\ Starting(p, "connecting", "launched")
  /\ session' = [session EXCEPT ![p] = TRUE]
  /\ late' = [late EXCEPT ![p] = cancelled[p]]
  /\ Register(p)
  /\ loops' = [loops EXCEPT ![p] = Loops]
  /\ UNCHANGED <<cancelled, spawned>>
  /\ UNCHANGED stopVars /\ UNCHANGED chatVars

\* *self.spawned.lock().await = ...
Record(p) ==
  /\ Starting(p, "launched", "idle")
  /\ spawned' = [spawned EXCEPT ![p] = Handles]
  /\ UNCHANGED <<session, late, cancelled, loops, registry>>
  /\ UNCHANGED stopVars /\ UNCHANGED chatVars
-----------------------------------------------------------------------------
(***************************************************************************)
(* stop.                                                                   *)
(***************************************************************************)
Unregister(p) == registry' = [registry EXCEPT ![RegistryLabel(p)] = NoPlugin]

\* Wrong: the registry entry is dropped when the tasks are done with, and
\* then only if there were any.
StopKeepsEntry(p) ==
  /\ stopping[p] = "idle"
  /\ stopping' = [stopping EXCEPT ![p] = "taking"]
  /\ cancelled' = [cancelled EXCEPT ![p] = TRUE]
  /\ entry' = [c \in Chats |-> entry[c] /\ OwnerOf[c] # p]
  /\ IF spawned[p] = <<>> THEN UNCHANGED registry ELSE Unregister(p)
  /\ UNCHANGED <<joining, detached, loops, spawned, handler>> /\ UNCHANGED startVars

\* Up to the lock of spawned.  Whose entry the label holds is not looked at.
Stop(p) ==
  /\ stopping[p] = "idle"
  /\ stopping' = [stopping EXCEPT ![p] = "taking"]
  /\ cancelled' = [cancelled EXCEPT ![p] = TRUE]
  /\ entry' = [c \in Chats |-> entry[c] /\ OwnerOf[c] # p]
  /\ Unregister(p)
  /\ UNCHANGED <<joining, detached, loops, spawned, handler>> /\ UNCHANGED startVars

\* std::mem::take
Take(p) ==
  /\ stopping[p] = "taking"
  /\ stopping' = [stopping EXCEPT ![p] = "joining"]
  /\ joining' = [joining EXCEPT ![p] = spawned[p]]
  /\ spawned' = [spawned EXCEPT ![p] = <<>>]
  /\ UNCHANGED <<cancelled, detached, loops, registry>>
  /\ UNCHANGED startVars /\ UNCHANGED chatVars

\* Wrong: the handle is polled once and dropped.
JoinPolls(p) ==
  /\ stopping[p] = "joining" /\ joining[p] # <<>>
  /\ joining' = [joining EXCEPT ![p] = Tail(@)]
  /\ UNCHANGED <<stopping, detached, cancelled, loops, spawned, registry>>
  /\ UNCHANGED startVars /\ UNCHANGED chatVars

Join(p) ==
  /\ stopping[p] = "joining" /\ joining[p] # <<>>
  /\ Head(joining[p]) \notin loops[p]
  /\ joining' = [joining EXCEPT ![p] = Tail(@)]
  /\ UNCHANGED <<stopping, detached, cancelled, loops, spawned, registry>>
  /\ UNCHANGED startVars /\ UNCHANGED chatVars

\* Five seconds passed: the handle is dropped and the task goes on alone.
JoinTimeout(p) ==
  /\ stopping[p] = "joining" /\ joining[p] # <<>>
  /\ Head(joining[p]) \in loops[p]
  /\ joining' = [joining EXCEPT ![p] = Tail(@)]
  /\ detached' = [detached EXCEPT ![p] = @ \cup {Head(joining[p])}]
  /\ UNCHANGED <<stopping, cancelled, loops, spawned, registry>>
  /\ UNCHANGED startVars /\ UNCHANGED chatVars

\* Wrong: a stop that detached a loop ends in a place of its own.
ReturnApart(p) ==
  /\ stopping[p] = "joining" /\ joining[p] = <<>>
  /\ stopping' = [stopping EXCEPT ![p] = IF detached[p] = {} THEN "returned" ELSE "timeout"]
  /\ UNCHANGED <<joining, detached, cancelled, loops, spawned, registry>>
  /\ UNCHANGED startVars /\ UNCHANGED chatVars

Return(p) ==
  /\ stopping[p] = "joining" /\ joining[p] = <<>>
  /\ stopping' = [stopping EXCEPT ![p] = "returned"]
  /\ UNCHANGED <<joining, detached, cancelled, loops, spawned, registry>>
  /\ UNCHANGED startVars /\ UNCHANGED chatVars
-----------------------------------------------------------------------------
(***************************************************************************)
(* The loops and the handlers.                                             *)
(***************************************************************************)
\* Wrong: the dispatcher does not watch the token.
LoopEndsButDispatch(p, l) ==
  /\ l \in loops[p] \ {"dispatch"}
  /\ loops' = [loops EXCEPT ![p] = @ \ {l}]
  /\ UNCHANGED <<cancelled, spawned, registry>>
  /\ UNCHANGED startVars /\ UNCHANGED stopVars /\ UNCHANGED chatVars

\* The token, or run_agent, the subscription or the event channel ended.
LoopEnds(p, l) ==
  /\ l \in loops[p]
  /\ loops' = [loops EXCEPT ![p] = @ \ {l}]
  /\ UNCHANGED <<cancelled, spawned, registry>>
  /\ UNCHANGED startVars /\ UNCHANGED stopVars /\ UNCHANGED chatVars

Handling(c, from, to) ==
  /\ handler[c] = from
  /\ handler' = [handler EXCEPT ![c] = to]
  /\ UNCHANGED <<cancelled, loops, spawned, registry>>
  /\ UNCHANGED startVars /\ UNCHANGED stopVars

\* wa-agent calls the handler, which may download before it inserts, for as
\* long as the media origin likes: that await has no timeout.
Deliver(c) ==
  /\ "inbound" \in loops[OwnerOf[c]]
  /\ Handling(c, "none", "begun") /\ UNCHANGED entry

Insert(c) == Handling(c, "begun", "waiting") /\ entry' = [entry EXCEPT ![c] = TRUE]

\* The dispatcher takes the sender and sends.
Reply(c) ==
  /\ "dispatch" \in loops[OwnerOf[c]] /\ entry[c]
  /\ Handling(c, "waiting", "none")
  /\ entry' = [entry EXCEPT ![c] = FALSE]

\* The sender is gone: pending.clear dropped it.
Cleared(c) == ~entry[c] /\ Handling(c, "waiting", "none") /\ UNCHANGED entry

Elapse(c) == Handling(c, "waiting", "none") /\ entry' = [entry EXCEPT ![c] = FALSE]

\* The inbound loop ended and its future was dropped with the handler's: an
\* entry stays behind, with nobody waiting.
Abandon(c) ==
  /\ "inbound" \notin loops[OwnerOf[c]]
  /\ \E s \in {"begun", "waiting"} : Handling(c, s, "none")
  /\ UNCHANGED entry
-----------------------------------------------------------------------------
StartStep(p) == ConnectFail(p) \/ SecondSession(p) \/ Launch(p) \/ Record(p)
StopStep(p) == Take(p) \/ Join(p) \/ JoinTimeout(p) \/ Return(p)
Wake(c) == Cleared(c) \/ Elapse(c)
HandlerStep(c) == Insert(c) \/ Wake(c)

Next ==
  \/ \E p \in Plugins :
       \/ Start(p) \/ StartStep(p) \/ Stop(p) \/ StopStep(p)
       \/ \E l \in Loops : LoopEnds(p, l)
  \/ \E c \in Chats : Deliver(c) \/ HandlerStep(c) \/ Reply(c) \/ Abandon(c)

\* Locks and the five-second timer are fair; a loop ends once its token is
\* cancelled (the dispatcher after the send in hand, whose download is
\* bounded); a waiting handler's publish returns, and it wakes when its sender
\* is dropped or its timer elapses.  Neither a connect nor the download of a
\* handler need end, so that no step of start and no Insert is fair.
Fairness ==
  /\ \A p \in Plugins :
       /\ WF_vars(StopStep(p))
       /\ \A l \in Loops : WF_vars(cancelled[p] /\ LoopEnds(p, l))
  /\ \A c \in Chats : WF_vars(Wake(c))

Spec == Init /\ [][Next]_vars
FairSpec == Spec /\ Fairness
-----------------------------------------------------------------------------
(***************************************************************************)
(* Properties.                                                             *)
(***************************************************************************)
\* The variables have their types.
TypeOK ==
  /\ starting \in [Plugins -> {"idle", "connecting", "launched"}]
  /\ stopping \in [Plugins -> {"idle", "taking", "joining", "returned"}]
  /\ session \in [Plugins -> BOOLEAN]
  /\ cancelled \in [Plugins -> BOOLEAN]
  /\ late \in [Plugins -> BOOLEAN]
  /\ loops \in [Plugins -> SUBSET Loops]
  /\ spawned \in [Plugins -> Seq(Loops)]
  /\ joining \in [Plugins -> Seq(Loops)]
  /\ detached \in [Plugins -> SUBSET Loops]
  /\ registry \in [Labels -> Plugins \cup {NoPlugin}]
  /\ handler \in [Chats -> {"none", "begun", "waiting"}]
  /\ entry \in [Chats -> BOOLEAN]

\* An entry of a plugin whose stop has begun was made after that stop, by a
\* start that was still connecting.
EntryIsLive ==
  \A l \in Labels, p \in Plugins : registry[l] = p =>
    RegistryLabel(p) = l /\ session[p] /\ (cancelled[p] => late[p])

\* A running plugin keeps its entry unless a plugin with its label started
\* or stopped.
EntryKept ==
  \A p \in Plugins : session[p] /\ ~cancelled[p] /\ registry[RegistryLabel(p)] # p =>
    \E q \in Plugins \ {p} :
      RegistryLabel(q) = RegistryLabel(p) /\ (session[q] \/ cancelled[q])

\* What admin callers are handed (bot_registry.rs: "so the registry doesn't
\* hand stale Arc<Session>s to admin callers") is right but for a stop that
\* overtakes its start and for plugins of one label.
RegistryIsTrue == EntryIsLive /\ EntryKept

\* A loop that runs after stop has returned is one whose join timed out, or
\* one whose handle start had not recorded when stop took the handles
\* (plugin.rs: "so stop() can join them instead of racing shutdown").
StopJoins ==
  \A p \in Plugins : stopping[p] = "returned" =>
    \A l \in loops[p] : \/ l \in detached[p]
                        \/ starting[p] = "launched"
                        \/ \E i \in 1..Len(spawned[p]) : spawned[p][i] = l

\* In the end every stop has returned, whatever the loops did, and a stopped
\* plugin has no loop left and nobody waits in its pending map: a launch that
\* came after the stop ends by itself, and so do the handlers that inserted
\* after the map was cleared.  A handler whose download never ends may stay
\* in it, but takes part in nothing.
Over(p) == stopping[p] = "returned" /\ loops[p] = {}
Settled(p) ==
  /\ Over(p)
  /\ \A c \in Chats : OwnerOf[c] = p => handler[c] # "waiting"
StopSettles == <>[](\A p \in Plugins : cancelled[p] => Settled(p))
=============================================================================
