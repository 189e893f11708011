----------------------- MODULE PluginLifecycleProofs -----------------------
(***************************************************************************)
(* Proofs about start, stop and the bot registry, for any plugins, labels, *)
(* chats and loops.  RegistryIsTrue is inductive as it stands; StopJoins   *)
(* is not: what a running loop's handle can be while stop is under way is  *)
(* HandleKept.                                                             *)
(***************************************************************************)
EXTENDS PluginLifecycle, SequenceTheorems, TLAPS

USE PluginAssumption
USE DEF startVars, stopVars, chatVars

-----------------------------------------------------------------------------
In(s, l) == \E i \in 1..Len(s) : s[i] = l

\* The recorded handles are those of all loops.
LEMMA HandlesFacts == Handles \in Seq(Loops) /\ \A l \in Loops : In(Handles, l)
<1>1. /\ Len(Handles) \in Nat /\ DOMAIN Handles = 1..Len(Handles)
      /\ Handles = [i \in 1..Len(Handles) |-> Handles[i]]
  OBVIOUS
<1>2. \A i \in 1..Len(Handles) : Handles[i] \in Loops
  BY <1>1 DEF Loops
<1>3. Handles \in Seq(Loops)
  BY <1>1, <1>2, IsASeq
<1> QED BY <1>1, <1>3 DEF Loops, In

\* Taking the head off keeps the other elements.
LEMMA TailFacts ==
  ASSUME NEW S, NEW s \in Seq(S), s # <<>>
  PROVE  /\ Tail(s) \in Seq(S) /\ Head(s) \in S
         /\ \A l : In(s, l) => l = Head(s) \/ In(Tail(s), l)
<1>1. /\ Len(s) \in Nat \ {0} /\ Len(Tail(s)) = Len(s) - 1
      /\ Head(s) = s[1] /\ Head(s) \in S /\ Tail(s) \in Seq(S)
  OBVIOUS
<1>2. \A i \in 1..Len(s) - 1 : Tail(s)[i] = s[i + 1]
  OBVIOUS
<1>3. ASSUME NEW l, In(s, l), l # Head(s) PROVE In(Tail(s), l)
  <2>1. PICK i \in 1..Len(s) : s[i] = l
    BY <1>3 DEF In
  <2>2. i - 1 \in 1..Len(Tail(s)) /\ Tail(s)[i - 1] = l
    BY <2>1, <1>1, <1>2, <1>3
  <2> QED BY <2>2 DEF In
<1> QED BY <1>1, <1>3

\* A registry label is a label.
LEMMA LabelFact == \A p \in Plugins : RegistryLabel(p) \in Labels
BY DEF RegistryLabel, Labels

-----------------------------------------------------------------------------
\* A running loop's handle was dropped by a join that timed out, is about to
\* be recorded, is recorded, or is in the hand of stop.
HandleKept(p) ==
  \A l \in loops[p] : \/ l \in detached[p]
                      \/ starting[p] = "launched"
                      \/ In(spawned[p], l)
                      \/ In(joining[p], l)

HandlesKept ==
  \A p \in Plugins : HandleKept(p) /\ (stopping[p] # "joining" => joining[p] = <<>>)

IInv == TypeOK /\ RegistryIsTrue /\ HandlesKept

LEMMA PluginInit == Init => IInv
BY DEF Init, IInv, TypeOK, RegistryIsTrue, EntryIsLive, EntryKept, HandlesKept, HandleKept,
       In

LEMMA TypeStep == TypeOK /\ [Next]_vars => TypeOK'
<1> SUFFICES ASSUME TypeOK, [Next]_vars PROVE TypeOK'
  OBVIOUS
<1> USE DEF TypeOK
<1>1. ASSUME NEW p \in Plugins, Start(p) \/ ConnectFail(p) \/ SecondSession(p)
      PROVE  TypeOK'
  <2>1. /\ UNCHANGED <<session, late, cancelled, loops, spawned, registry>>
        /\ UNCHANGED stopVars /\ UNCHANGED chatVars
        /\ \/ starting' = [starting EXCEPT ![p] = "connecting"]
           \/ starting' = [starting EXCEPT ![p] = "idle"]
    BY <1>1 DEF Start, ConnectFail, SecondSession, Starting
  <2>2. starting' \in [Plugins -> {"idle", "connecting", "launched"}]
    BY <2>1
  <2> QED BY <2>1, <2>2
<1>2. ASSUME NEW p \in Plugins, Launch(p) PROVE TypeOK'
  BY <1>2, LabelFact DEF Launch, Starting, Register
<1>3. ASSUME NEW p \in Plugins, Record(p) PROVE TypeOK'
  BY <1>3, HandlesFacts DEF Record, Starting
<1>4. ASSUME NEW p \in Plugins, Stop(p) PROVE TypeOK'
  <2>1. entry' \in [Chats -> BOOLEAN]
    <3>1. \A c \in Chats : (entry[c] /\ OwnerOf[c] # p) \in BOOLEAN
      OBVIOUS
    <3> QED BY <1>4, <3>1 DEF Stop
  <2> QED BY <1>4, <2>1, LabelFact DEF Stop, Unregister
<1>5. ASSUME NEW p \in Plugins, Take(p) PROVE TypeOK'
  BY <1>5 DEF Take
<1>6. ASSUME NEW p \in Plugins, Join(p) \/ JoinTimeout(p) PROVE TypeOK'
  <2>1. joining[p] # <<>> /\ Tail(joining[p]) \in Seq(Loops) /\ Head(joining[p]) \in Loops
    BY <1>6, TailFacts DEF Join, JoinTimeout
  <2>2. joining' \in [Plugins -> Seq(Loops)]
    BY <1>6, <2>1 DEF Join, JoinTimeout
  <2>3. detached' \in [Plugins -> SUBSET Loops]
    <3>1. CASE Join(p) BY <3>1 DEF Join
    <3>2. CASE JoinTimeout(p)
      <4>1. detached[p] \cup {Head(joining[p])} \in SUBSET Loops
        BY <2>1
      <4> QED BY <3>2, <4>1 DEF JoinTimeout
    <3> QED BY <1>6, <3>1, <3>2
  <2>4. /\ UNCHANGED <<starting, session, late, cancelled, loops, spawned, registry>>
        /\ UNCHANGED <<stopping, handler, entry>>
    BY <1>6 DEF Join, JoinTimeout
  <2> QED BY <2>2, <2>3, <2>4
<1>7. ASSUME NEW p \in Plugins, Return(p) PROVE TypeOK'
  BY <1>7 DEF Return
<1>8. ASSUME NEW p \in Plugins, NEW l \in Loops, LoopEnds(p, l) PROVE TypeOK'
  BY <1>8 DEF LoopEnds
<1>9. ASSUME NEW c \in Chats, Deliver(c) \/ HandlerStep(c) \/ Reply(c) \/ Abandon(c)
      PROVE  TypeOK'
  BY <1>9 DEF Deliver, HandlerStep, Wake, Insert, Cleared, Elapse, Reply, Abandon, Handling
<1>10. CASE UNCHANGED vars BY <1>10 DEF vars
<1> QED
  BY <1>1, <1>2, <1>3, <1>4, <1>5, <1>6, <1>7, <1>8, <1>9, <1>10
  DEF Next, StartStep, StopStep

-----------------------------------------------------------------------------
\* Every step but a launch and a stop leaves what the registry's truth is
\* about alone.
LEMMA RegistryFrame ==
  ASSUME RegistryIsTrue, UNCHANGED <<session, cancelled, late, registry>>
  PROVE  RegistryIsTrue'
BY DEF RegistryIsTrue, EntryIsLive, EntryKept

LEMMA RegistryStep == TypeOK /\ RegistryIsTrue /\ [Next]_vars => RegistryIsTrue'
<1> SUFFICES ASSUME TypeOK, RegistryIsTrue, [Next]_vars PROVE RegistryIsTrue'
  OBVIOUS
<1>1. ASSUME NEW p \in Plugins, Launch(p) PROVE RegistryIsTrue'
  <2>1. /\ session'[p] /\ late'[p] = cancelled[p] /\ cancelled' = cancelled
        /\ \A q \in Plugins \ {p} : session'[q] = session[q] /\ late'[q] = late[q]
        /\ registry'[RegistryLabel(p)] = p
        /\ \A l \in Labels : l # RegistryLabel(p) => registry'[l] = registry[l]
    BY <1>1, LabelFact DEF Launch, Register, TypeOK
  <2>2. EntryIsLive'
    BY <2>1 DEF RegistryIsTrue, EntryIsLive
  <2>3. EntryKept'
    BY <2>1, LabelFact DEF RegistryIsTrue, EntryKept
  <2> QED BY <2>2, <2>3 DEF RegistryIsTrue
<1>2. ASSUME NEW p \in Plugins, Stop(p) PROVE RegistryIsTrue'
  <2>1. /\ cancelled'[p] /\ UNCHANGED <<session, late>>
        /\ \A q \in Plugins \ {p} : cancelled'[q] = cancelled[q]
        /\ registry'[RegistryLabel(p)] = NoPlugin
        /\ \A l \in Labels : l # RegistryLabel(p) => registry'[l] = registry[l]
    BY <1>2, LabelFact DEF Stop, Unregister, TypeOK
  <2>2. EntryIsLive'
    BY <2>1 DEF RegistryIsTrue, EntryIsLive
  <2>3. EntryKept'
    BY <2>1, LabelFact DEF RegistryIsTrue, EntryKept
  <2> QED BY <2>2, <2>3 DEF RegistryIsTrue
<1>3. ASSUME NEW p \in Plugins,
             Start(p) \/ ConnectFail(p) \/ SecondSession(p) \/ Record(p) \/ StopStep(p)
      PROVE  RegistryIsTrue'
  BY <1>3, RegistryFrame
  DEF Start, ConnectFail, SecondSession, Record, StopStep, Take, Join, JoinTimeout, Return
<1>4. ASSUME NEW p \in Plugins, NEW l \in Loops, LoopEnds(p, l) PROVE RegistryIsTrue'
  BY <1>4, RegistryFrame DEF LoopEnds
<1>5. ASSUME NEW c \in Chats, Deliver(c) \/ HandlerStep(c) \/ Reply(c) \/ Abandon(c)
      PROVE  RegistryIsTrue'
  BY <1>5, RegistryFrame
  DEF Deliver, HandlerStep, Wake, Insert, Cleared, Elapse, Reply, Abandon, Handling
<1>6. CASE UNCHANGED vars BY <1>6, RegistryFrame DEF vars
<1> QED BY <1>1, <1>2, <1>3, <1>4, <1>5, <1>6 DEF Next, StartStep

-----------------------------------------------------------------------------
\* A step of one plugin that keeps its own handles keeps them all.
LEMMA HandlesFrame ==
  ASSUME HandlesKept, NEW p \in Plugins,
         \A q \in Plugins \ {p} :
           /\ starting'[q] = starting[q] /\ stopping'[q] = stopping[q]
           /\ loops'[q] = loops[q] /\ detached'[q] = detached[q]
           /\ spawned'[q] = spawned[q] /\ joining'[q] = joining[q],
         HandleKept(p)', stopping'[p] # "joining" => joining'[p] = <<>>
  PROVE  HandlesKept'
BY DEF HandlesKept, HandleKept

LEMMA HandlesStep == TypeOK /\ HandlesKept /\ [Next]_vars => HandlesKept'
<1> SUFFICES ASSUME TypeOK, HandlesKept, [Next]_vars PROVE HandlesKept'
  OBVIOUS
<1> USE DEF TypeOK
<1>1. ASSUME NEW p \in Plugins, Start(p) \/ ConnectFail(p) \/ SecondSession(p)
      PROVE  HandlesKept'
  BY <1>1, HandlesFrame
  DEF Start, ConnectFail, SecondSession, Starting, HandlesKept, HandleKept
<1>2. ASSUME NEW p \in Plugins, Launch(p) PROVE HandlesKept'
  BY <1>2, HandlesFrame DEF Launch, Starting, HandlesKept, HandleKept
<1>3. ASSUME NEW p \in Plugins, Record(p) PROVE HandlesKept'
  BY <1>3, HandlesFacts, HandlesFrame DEF Record, Starting, HandlesKept, HandleKept
<1>4. ASSUME NEW p \in Plugins, Stop(p) PROVE HandlesKept'
  BY <1>4, HandlesFrame DEF Stop, HandlesKept, HandleKept
<1>5. ASSUME NEW p \in Plugins, Take(p) PROVE HandlesKept'
  <2>1. HandleKept(p)'
    <3> SUFFICES ASSUME NEW l \in loops'[p], l \notin detached'[p], starting'[p] # "launched"
                 PROVE  In(joining'[p], l)
      BY DEF HandleKept
    <3>1. joining[p] = <<>> /\ ~In(joining[p], l)
      BY <1>5 DEF Take, HandlesKept, In
    <3>2. HandleKept(p) /\ l \in loops[p] /\ l \notin detached[p] /\ starting[p] # "launched"
      BY <1>5 DEF Take, HandlesKept
    <3>3. In(spawned[p], l)
      BY <3>1, <3>2 DEF HandleKept
    <3> QED BY <1>5, <3>3 DEF Take
  <2> QED BY <1>5, <2>1, HandlesFrame DEF Take
<1>6. ASSUME NEW p \in Plugins, Join(p) \/ JoinTimeout(p) PROVE HandlesKept'
  <2>1. /\ joining[p] # <<>> /\ joining'[p] = Tail(joining[p])
        /\ stopping[p] = "joining" /\ UNCHANGED <<starting, stopping, loops, spawned>>
        /\ \A q \in Plugins \ {p} : joining'[q] = joining[q] /\ detached'[q] = detached[q]
        /\ detached[p] \subseteq detached'[p]
        /\ Head(joining[p]) \in loops[p] => Head(joining[p]) \in detached'[p]
    BY <1>6 DEF Join, JoinTimeout
  <2>2. \A l : In(joining[p], l) => l = Head(joining[p]) \/ In(joining'[p], l)
    BY <2>1, TailFacts
  <2>3. HandleKept(p)'
    BY <2>1, <2>2 DEF HandlesKept, HandleKept
  <2> QED BY <2>1, <2>3, HandlesFrame
<1>7. ASSUME NEW p \in Plugins, Return(p) PROVE HandlesKept'
  BY <1>7, HandlesFrame DEF Return, HandlesKept, HandleKept
<1>8. ASSUME NEW p \in Plugins, NEW l \in Loops, LoopEnds(p, l) PROVE HandlesKept'
  BY <1>8, HandlesFrame DEF LoopEnds, HandlesKept, HandleKept
<1>9. ASSUME UNCHANGED <<starting, stopping, loops, detached, spawned, joining>>
      PROVE  HandlesKept'
  BY <1>9 DEF HandlesKept, HandleKept
<1>10. ASSUME NEW c \in Chats, Deliver(c) \/ HandlerStep(c) \/ Reply(c) \/ Abandon(c)
       PROVE  HandlesKept'
  BY <1>9, <1>10
  DEF Deliver, HandlerStep, Wake, Insert, Cleared, Elapse, Reply, Abandon, Handling
<1>11. CASE UNCHANGED vars BY <1>9, <1>11 DEF vars
<1> QED
  BY <1>1, <1>2, <1>3, <1>4, <1>5, <1>6, <1>7, <1>8, <1>10, <1>11
  DEF Next, StartStep, StopStep

-----------------------------------------------------------------------------
LEMMA Invariance == Spec => []IInv
<1>1. IInv /\ [Next]_vars => IInv'
  BY TypeStep, RegistryStep, HandlesStep DEF IInv
<1> QED BY <1>1, PluginInit, PTL DEF Spec

\* The variables always have their types.
THEOREM PluginTypeCorrect == Spec => []TypeOK
BY Invariance, PTL DEF IInv

\* The registry is right but for an overtaken start and for namesakes.
THEOREM RegistryStaysTrue == Spec => []RegistryIsTrue
BY Invariance, PTL DEF IInv

\* What runs after stop has returned is a loop whose join timed out or whose
\* handle stop could not have.
THEOREM StopJoinsLoops == Spec => []StopJoins
<1>1. IInv => StopJoins
  <2> SUFFICES ASSUME IInv, NEW p \in Plugins, stopping[p] = "returned", NEW l \in loops[p]
               PROVE  l \in detached[p] \/ starting[p] = "launched" \/ In(spawned[p], l)
    BY DEF StopJoins, In
  <2>1. joining[p] = <<>> /\ ~In(joining[p], l)
    BY DEF IInv, HandlesKept, In
  <2> QED BY <2>1 DEF IInv, HandlesKept, HandleKept
<1> QED BY <1>1, Invariance, PTL
-----------------------------------------------------------------------------
(***************************************************************************)
(* With one plugin for each label the registry is exact.                   *)
(***************************************************************************)
DistinctLabels ==
  \A p, q \in Plugins : RegistryLabel(p) = RegistryLabel(q) => p = q

\* A launch that found its token cancelled comes after the plugin's one stop,
\* so nobody is left to take its entry out again.
LateInv ==
  \A p \in Plugins :
    /\ cancelled[p] => stopping[p] # "idle"
    /\ late[p] => session[p] /\ cancelled[p]
    /\ DistinctLabels /\ late[p] => registry[RegistryLabel(p)] = p

LEMMA LateFrame ==
  ASSUME LateInv, UNCHANGED <<session, cancelled, late, registry>>,
         \A p \in Plugins : stopping[p] # "idle" => stopping'[p] # "idle"
  PROVE  LateInv'
BY DEF LateInv, DistinctLabels, RegistryLabel

LEMMA LateStep == TypeOK /\ LateInv /\ [Next]_vars => LateInv'
<1> SUFFICES ASSUME TypeOK, LateInv, [Next]_vars PROVE LateInv'
  OBVIOUS
<1>1. ASSUME NEW p \in Plugins, Launch(p) PROVE LateInv'
  <2>1. /\ session'[p] /\ late'[p] = cancelled[p] /\ UNCHANGED <<cancelled, stopping>>
        /\ \A q \in Plugins \ {p} : session'[q] = session[q] /\ late'[q] = late[q]
        /\ registry'[RegistryLabel(p)] = p
        /\ \A l \in Labels : l # RegistryLabel(p) => registry'[l] = registry[l]
    BY <1>1, LabelFact DEF Launch, Register, TypeOK
  <2>2. \A q \in Plugins : DistinctLabels /\ q # p => RegistryLabel(q) # RegistryLabel(p)
    BY DEF DistinctLabels
  <2> QED BY <2>1, <2>2, LabelFact DEF LateInv
<1>2. ASSUME NEW p \in Plugins, Stop(p) PROVE LateInv'
  <2>1. /\ stopping[p] = "idle" /\ stopping'[p] # "idle" /\ UNCHANGED <<session, late>>
        /\ \A q \in Plugins \ {p} : cancelled'[q] = cancelled[q] /\ stopping'[q] = stopping[q]
        /\ cancelled'[p]
        /\ \A l \in Labels : l # RegistryLabel(p) => registry'[l] = registry[l]
    BY <1>2, LabelFact DEF Stop, Unregister, TypeOK
  <2>2. ~late[p]
    BY <2>1 DEF LateInv
  <2>3. \A q \in Plugins : DistinctLabels /\ q # p => RegistryLabel(q) # RegistryLabel(p)
    BY DEF DistinctLabels
  <2> QED BY <2>1, <2>2, <2>3, LabelFact DEF LateInv
<1>3. ASSUME NEW p \in Plugins,
             Start(p) \/ ConnectFail(p) \/ SecondSession(p) \/ Record(p) \/ StopStep(p)
      PROVE  LateInv'
  <2>1. /\ UNCHANGED <<session, cancelled, late, registry>>
        /\ \A q \in Plugins : stopping[q] # "idle" => stopping'[q] # "idle"
    BY <1>3
    DEF Start, ConnectFail, SecondSession, Record, StopStep, Take, Join, JoinTimeout, Return,
        TypeOK
  <2> QED BY <2>1, LateFrame
<1>4. ASSUME NEW p \in Plugins, NEW l \in Loops, LoopEnds(p, l) PROVE LateInv'
  BY <1>4, LateFrame DEF LoopEnds
<1>5. ASSUME NEW c \in Chats, Deliver(c) \/ HandlerStep(c) \/ Reply(c) \/ Abandon(c)
      PROVE  LateInv'
  BY <1>5, LateFrame
  DEF Deliver, HandlerStep, Wake, Insert, Cleared, Elapse, Reply, Abandon, Handling
<1>6. CASE UNCHANGED vars
  BY <1>6, LateFrame DEF vars
<1> QED BY <1>1, <1>2, <1>3, <1>4, <1>5, <1>6 DEF Next, StartStep

\* A plugin is listed exactly while it runs, or if it was launched after its
\* own stop.
RegistryExact ==
  \A p \in Plugins :
    registry[RegistryLabel(p)] = p <=> session[p] /\ (cancelled[p] => late[p])

\* With a label for each plugin, admin callers find every running plugin and
\* no stopped one, but for the one whose stop overtook its start: that entry
\* stays, its one stop having been.
THEOREM DistinctLabelsAreExact == Spec => [](DistinctLabels => RegistryExact)
<1>1. Init => LateInv
  BY DEF Init, LateInv
<1>2. IInv => TypeOK /\ RegistryIsTrue
  BY DEF IInv
<1>3. RegistryIsTrue /\ LateInv => (DistinctLabels => RegistryExact)
  <2> SUFFICES ASSUME RegistryIsTrue, LateInv, DistinctLabels, NEW p \in Plugins
               PROVE  registry[RegistryLabel(p)] = p <=>
                        (session[p] /\ (cancelled[p] => late[p]))
    BY DEF RegistryExact
  <2>1. registry[RegistryLabel(p)] = p => session[p] /\ (cancelled[p] => late[p])
    BY LabelFact DEF RegistryIsTrue, EntryIsLive
  <2>2. session[p] /\ ~cancelled[p] => registry[RegistryLabel(p)] = p
    BY DEF RegistryIsTrue, EntryKept, DistinctLabels
  <2>3. late[p] => registry[RegistryLabel(p)] = p
    BY DEF LateInv
  <2> QED BY <2>1, <2>2, <2>3
<1> QED BY <1>1, <1>2, <1>3, LateStep, Invariance, PTL DEF Spec

\* Once a plugin was launched, no step brings back a session or a loop.
OnlyWindsDown ==
  \A p \in Plugins : session[p] => session'[p] /\ loops'[p] \subseteq loops[p]

\* A plugin is launched once in its life: a second start, before or after
\* its stop, never revives a loop that ended.
THEOREM StoppedStaysStopped == Spec => [][OnlyWindsDown]_vars
<1>1. ASSUME TypeOK, Next, NEW p \in Plugins, session[p]
      PROVE  session'[p] /\ loops'[p] \subseteq loops[p]
  <2>1. ASSUME NEW q \in Plugins, Launch(q)
        PROVE  session'[p] /\ loops'[p] = loops[p]
    BY <1>1, <2>1 DEF Launch, TypeOK
  <2>2. ASSUME NEW q \in Plugins, Start(q) \/ ConnectFail(q) \/ SecondSession(q) \/ Record(q)
                                  \/ Stop(q) \/ StopStep(q)
        PROVE  UNCHANGED <<session, loops>>
    BY <2>2
    DEF Start, ConnectFail, SecondSession, Record, Stop, StopStep, Take, Join, JoinTimeout, Return
  <2>3. ASSUME NEW q \in Plugins, NEW l \in Loops, LoopEnds(q, l)
        PROVE  UNCHANGED session /\ loops'[p] \subseteq loops[p]
    BY <2>3, <1>1 DEF LoopEnds, TypeOK
  <2>4. ASSUME NEW c \in Chats, Deliver(c) \/ HandlerStep(c) \/ Reply(c) \/ Abandon(c)
        PROVE  UNCHANGED <<session, loops>>
    BY <2>4
    DEF Deliver, HandlerStep, Wake, Insert, Cleared, Elapse, Reply, Abandon, Handling
  <2> QED BY <1>1, <2>1, <2>2, <2>3, <2>4 DEF Next, StartStep
<1>2. IInv /\ [Next]_vars => [OnlyWindsDown]_vars
  BY <1>1 DEF IInv, OnlyWindsDown
<1> QED BY <1>2, Invariance, PTL DEF Spec

\* A launched plugin whose stop returned and whose loops ended stays so, and
\* none of its handlers that is done begins again.
RestIsFinal ==
  \A p \in Plugins : session[p] /\ Over(p) =>
    /\ session'[p] /\ Over(p)'
    /\ \A c \in Chats : OwnerOf[c] = p /\ handler[c] = "none" => handler'[c] = "none"

LEMMA RestStep == TypeOK /\ [Next]_vars => [RestIsFinal]_vars
<1> SUFFICES ASSUME TypeOK, [Next]_vars, NEW p \in Plugins, session[p], Over(p)
             PROVE  /\ session'[p] /\ Over(p)'
                    /\ \A c \in Chats :
                         OwnerOf[c] = p /\ handler[c] = "none" => handler'[c] = "none"
  BY DEF RestIsFinal
<1> DEFINE Rests == /\ session'[p] /\ Over(p)'
                    /\ \A c \in Chats :
                         OwnerOf[c] = p /\ handler[c] = "none" => handler'[c] = "none"
<1> USE DEF TypeOK, Over
<1>1. ASSUME UNCHANGED <<stopping, handler>>, session'[p], loops'[p] = loops[p]
      PROVE  Rests
  BY <1>1
<1>2. ASSUME NEW q \in Plugins, Start(q) \/ ConnectFail(q) \/ SecondSession(q) \/ Record(q)
      PROVE  Rests
  BY <1>1, <1>2 DEF Start, ConnectFail, SecondSession, Record, stopVars, chatVars
<1>3. ASSUME NEW q \in Plugins, Launch(q) PROVE Rests
  BY <1>1, <1>3 DEF Launch, stopVars, chatVars
<1>4. ASSUME NEW q \in Plugins, Stop(q) \/ StopStep(q) PROVE Rests
  <2>1. stopping'[p] = "returned" /\ UNCHANGED <<session, loops, handler>>
    BY <1>4 DEF Stop, StopStep, Take, Join, JoinTimeout, Return, startVars, chatVars
  <2> QED BY <2>1
<1>5. ASSUME NEW q \in Plugins, NEW l \in Loops, LoopEnds(q, l)
      PROVE  Rests
  <2>1. loops'[p] = {} /\ UNCHANGED <<session, stopping, handler>>
    BY <1>5 DEF LoopEnds, startVars, stopVars, chatVars
  <2> QED BY <2>1
<1>6. ASSUME NEW c \in Chats, Deliver(c) \/ HandlerStep(c) \/ Reply(c) \/ Abandon(c)
      PROVE  Rests
  <2> USE <1>6 DEF Deliver, HandlerStep, Wake, Insert, Cleared, Elapse, Reply, Abandon, Handling,
                   startVars, stopVars
  <2>1. UNCHANGED <<session, stopping, loops>>
    OBVIOUS
  <2>2. \A d \in Chats \ {c} : handler'[d] = handler[d]
    OBVIOUS
  <2>3. OwnerOf[c] = p => handler[c] # "none"
    OBVIOUS
  <2> QED BY <2>1, <2>2, <2>3
<1>7. CASE UNCHANGED vars BY <1>1, <1>7 DEF vars
<1> QED
  BY <1>2, <1>3, <1>4, <1>5, <1>6, <1>7 DEF Next, StartStep

\* Rest after a stop is final: nothing brings a loop of a launched plugin
\* back or begins a handler of its, however often it is started again.  Only
\* a plugin whose first start was still connecting can be launched after its
\* stop.
THEOREM StoppedRests == Spec => [][RestIsFinal]_vars
<1>1. TypeOK /\ [Next]_vars => [RestIsFinal]_vars
  BY RestStep
<1> QED BY <1>1, PluginTypeCorrect, PTL DEF Spec
=============================================================================
