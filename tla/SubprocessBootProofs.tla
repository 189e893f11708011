------------------------ MODULE SubprocessBootProofs ------------------------
(***************************************************************************)
(* Theorems about SubprocessBoot, for every value of its constants.        *)
(*                                                                         *)
(* BootInv is inductive: the permit belongs to the one call that is inside *)
(* the initialiser, it is taken only while the cell is empty, and the cell *)
(* says how many sessions were opened.                                     *)
(***************************************************************************)
EXTENDS SubprocessBoot, TLAPS

\* The permit, the cell and the sockets.
PermitInv ==
  /\ \A c \in Calls : pc[c] \in {"choose", "connect"} <=> permit = c
  /\ permit # NoCall => cell = NoConfig
  /\ \A c \in Calls : pc[c] = "connect" => chosen \in Configs
  /\ sockets = IF cell \in Enabled THEN 1 ELSE 0

\* The plugin a tool call uses.
ToolInv ==
  /\ \A c \in Calls : pc[c] = "send" => cell # NoConfig
  /\ \A c \in Tools : reply[c] = "ok" => cell \in Enabled

\* The recorded slice is one that a configure call delivered.
SliceInv ==
  /\ configured = NoSlice => Recorded = {}
  /\ configured # NoSlice => \E k \in Recorded : configured = SliceOf[k]

BootInv == TypeOK /\ PermitInv /\ ToolInv /\ SliceInv

LEMMA BootInit == Init => BootInv
<1> SUFFICES ASSUME Init PROVE BootInv
  OBVIOUS
<1> USE BootAssumption DEF Init, Calls
<1>1. TypeOK
  BY DEF TypeOK, Stages, Replies
<1>2. PermitInv /\ ToolInv
  BY DEF PermitInv, ToolInv
<1>3. SliceInv
  BY DEF SliceInv, Recorded
<1> QED
  BY <1>1, <1>2, <1>3 DEF BootInv

LEMMA HeadInConfigs == \A s \in Seq(Configs) : s # <<>> => Head(s) \in Configs
OBVIOUS

\* Every step keeps BootInv.
LEMMA BootStep == BootInv /\ [Next]_vars => BootInv'
<1> SUFFICES ASSUME BootInv, [Next]_vars PROVE BootInv'
  OBVIOUS
<1> USE BootAssumption, HeadInConfigs
        DEF BootInv, TypeOK, PermitInv, ToolInv, SliceInv, Recorded, Calls, Stages, Replies,
            Move, Answer
<1>1. ASSUME NEW c \in Calls, ConfigureRejected(c) PROVE BootInv'
  BY <1>1 DEF ConfigureRejected
<1>2. ASSUME NEW c \in Calls, Configure(c) PROVE BootInv'
  BY <1>2 DEF Configure
<1>3. ASSUME NEW c \in Calls, Invoke(c) PROVE BootInv'
  BY <1>3 DEF Invoke
<1>4. ASSUME NEW c \in Calls, Hit(c) PROVE BootInv'
  BY <1>4 DEF Hit, WithPlugin
<1>5. ASSUME NEW c \in Calls, Acquire(c) PROVE BootInv'
  BY <1>5 DEF Acquire
<1>6. ASSUME NEW c \in Calls, Choose(c) PROVE BootInv'
  BY <1>6 DEF Choose
<1>7. ASSUME NEW c \in Calls, ChooseFail(c) PROVE BootInv'
  BY <1>7 DEF ChooseFail, WithoutPlugin
<1>8. ASSUME NEW c \in Calls, BootOk(c) PROVE BootInv'
  BY <1>8 DEF BootOk, WithPlugin
<1>9. ASSUME NEW c \in Calls, BootFail(c) PROVE BootInv'
  BY <1>9 DEF BootFail, WithoutPlugin
<1>10. ASSUME NEW c \in Calls, Send(c) PROVE BootInv'
  BY <1>10 DEF Send
<1>11. CASE UNCHANGED vars
  BY <1>11 DEF vars
<1> QED
  BY <1>1, <1>2, <1>3, <1>4, <1>5, <1>6, <1>7, <1>8, <1>9, <1>10, <1>11
  DEF Next, Arrive, Serve

LEMMA BootInvariance == Spec => []BootInv
BY BootInit, BootStep, PTL DEF Spec
-----------------------------------------------------------------------------
\* The types of SubprocessBoot are invariant.
THEOREM BootTypeCorrect == Spec => []TypeOK
<1>1. BootInv => TypeOK
  BY DEF BootInv
<1> QED
  BY <1>1, BootInvariance, PTL

\* The cell never opens a second WhatsApp session.
THEOREM NeverTwoSockets == Spec => []OneSocket
<1>1. BootInv => OneSocket
  BY DEF BootInv, PermitInv, OneSocket
<1> QED
  BY <1>1, BootInvariance, PTL

\* A tool call that was answered "ok" found a session, and a cached plugin is
\* never one whose start is still running.
THEOREM ToolsFindSession == Spec => []SendsNeedSession
<1>1. BootInv => SendsNeedSession
  BY DEF BootInv, PermitInv, ToolInv, SendsNeedSession
<1> QED
  BY <1>1, BootInvariance, PTL

\* A boot begun after a configure runs on a configured instance.
THEOREM EnvironmentIsFallback == Spec => ConfigureIsPreferred
<1> DEFINE Preferred(c) ==
      pc[c] = "choose" /\ pc'[c] = "connect" /\ Recorded # {} =>
        \E k \in Recorded : SliceOf[k] # <<>> /\ chosen' = Head(SliceOf[k])
<1>1. ASSUME BootInv, [Next]_vars, NEW c \in Calls PROVE Preferred(c)
  <2> SUFFICES ASSUME pc[c] = "choose", pc'[c] = "connect", Recorded # {}
               PROVE  \E k \in Recorded : SliceOf[k] # <<>> /\ chosen' = Head(SliceOf[k])
    OBVIOUS
  <2>1. PICK k \in Recorded : configured = SliceOf[k] /\ configured # NoSlice
    BY <1>1, BootAssumption DEF BootInv, SliceInv, Recorded
  <2>2. Choose(c)
    <3>1. PICK d \in Calls : Arrive(d) \/ Serve(d)
      BY <1>1 DEF Next, vars
    <3>2. d = c
      BY <1>1, <3>1 DEF Arrive, Serve, ConfigureRejected, Configure, Invoke, Hit, Acquire,
        Choose, ChooseFail, BootOk, BootFail, Send, WithPlugin, WithoutPlugin, Move, BootInv,
        TypeOK
    <3> QED
      BY <1>1, <3>1, <3>2 DEF Arrive, Serve, ConfigureRejected, Configure, Invoke, Hit, Acquire,
        ChooseFail, BootOk, BootFail, Send, WithPlugin, WithoutPlugin, Move, BootInv, TypeOK
  <2> QED
    BY <2>1, <2>2 DEF Choose
<1>2. BootInv /\ [Next]_vars => \A c \in Calls : Preferred(c)
  BY <1>1
<1> QED
  BY <1>2, BootInvariance, PTL DEF Spec, ConfigureIsPreferred
-----------------------------------------------------------------------------
(***************************************************************************)
(* The refinement.  Besides BootInv it takes who has been answered, who    *)
(* may be inside shared_plugin, and where a boot's configuration is from.  *)
(***************************************************************************)
AnswerInv ==
  /\ \A c \in Calls : reply[c] = "none" <=> pc[c] # "done"
  /\ \A c \in Calls \ {Main} : pc[c] # "idle" => pc[Main] = "done"
  /\ \A c \in Malformed : pc[c] \in {"idle", "done"}
  /\ \A c \in Calls \ Tools : pc[c] # "send"
  /\ \A c \in Calls : pc[c] = "connect" => chosen \in Offered

LEMMA AnswerInit == Init => AnswerInv
<1> USE BootAssumption
<1> QED BY DEF Init, AnswerInv, Calls

\* A configuration that Choose reads was offered.
LEMMA ChosenIsOffered ==
  ASSUME BootInv, NEW c \in Calls, Choose(c)
  PROVE  chosen' \in Offered
<1>1. CASE configured # NoSlice
  <2>1. PICK k \in Recorded : configured = SliceOf[k]
    BY <1>1 DEF BootInv, SliceInv
  <2>2. configured # <<>> /\ chosen' = Head(configured)
    BY <1>1 DEF Choose
  <2> QED BY <2>1, <2>2 DEF Offered, Recorded
<1>2. CASE configured = NoSlice
  BY <1>2 DEF Choose, Offered
<1> QED BY <1>1, <1>2

LEMMA AnswerStep == BootInv /\ AnswerInv /\ [Next]_vars => AnswerInv'
<1> SUFFICES ASSUME BootInv, AnswerInv, [Next]_vars PROVE AnswerInv'
  OBVIOUS
<1> USE BootAssumption DEF BootInv, TypeOK, PermitInv, AnswerInv, Calls, Move, Answer
<1>1. ASSUME NEW c \in Calls, Arrive(c) PROVE AnswerInv'
  BY <1>1 DEF Arrive, ConfigureRejected, Configure, Invoke, Serving
<1>2. ASSUME NEW c \in Calls, Hit(c) PROVE AnswerInv'
  BY <1>2 DEF Hit, WithPlugin
<1>3. ASSUME NEW c \in Calls, Acquire(c) PROVE AnswerInv'
  BY <1>3 DEF Acquire
<1>4. ASSUME NEW c \in Calls, Choose(c) PROVE AnswerInv'
  <2>1. chosen' \in Offered
    BY <1>4, ChosenIsOffered
  <2> QED BY <1>4, <2>1 DEF Choose
<1>5. ASSUME NEW c \in Calls, ChooseFail(c) PROVE AnswerInv'
  BY <1>5 DEF ChooseFail, WithoutPlugin
<1>6. ASSUME NEW c \in Calls, BootOk(c) PROVE AnswerInv'
  BY <1>6 DEF BootOk, WithPlugin
<1>7. ASSUME NEW c \in Calls, BootFail(c) PROVE AnswerInv'
  BY <1>7 DEF BootFail, WithoutPlugin
<1>8. ASSUME NEW c \in Calls, Send(c) PROVE AnswerInv'
  BY <1>8 DEF Send
<1>9. CASE UNCHANGED vars
  BY <1>9 DEF vars
<1> QED
  BY <1>1, <1>2, <1>3, <1>4, <1>5, <1>6, <1>7, <1>8, <1>9 DEF Next, Serve

LEMMA SharedStep == BootInv /\ AnswerInv /\ [Next]_vars => [Shared!Next]_(Shared!vars)
<1> SUFFICES ASSUME BootInv, AnswerInv, [Next]_vars
             PROVE  Shared!Next \/ UNCHANGED Shared!vars
  OBVIOUS
<1> USE BootAssumption
        DEF BootInv, TypeOK, PermitInv, ToolInv, AnswerInv, Calls, Move, Answer, Shared!Answer,
            Shared!vars, Shared!Starters
<1>1. ASSUME NEW c \in Calls, ConfigureRejected(c) PROVE Shared!Next
  BY <1>1 DEF ConfigureRejected, Serving, Usable, Shared!Next, Shared!Reject
<1>2. ASSUME NEW c \in Calls, Configure(c) PROVE Shared!Next
  <2>1. Shared!Reconfigure
    BY <1>2 DEF Configure, Serving, Shared!Reconfigure, Usable
  <2> QED BY <2>1 DEF Shared!Next
<1>3. ASSUME NEW c \in Calls, Invoke(c) \/ Acquire(c) \/ Choose(c)
      PROVE  UNCHANGED Shared!vars
  BY <1>3 DEF Invoke, Acquire, Choose, Usable
<1>4. ASSUME NEW c \in Calls, Hit(c) PROVE Shared!Next \/ UNCHANGED Shared!vars
  BY <1>4 DEF Hit, WithPlugin, Usable, Shared!Next, Shared!Acknowledge
<1>5. ASSUME NEW c \in Calls, ChooseFail(c) PROVE Shared!Next
  <2>1. /\ WithoutPlugin(c, "misconfigured")
        /\ ~Usable /\ cell = NoConfig /\ UNCHANGED <<Usable, cell, sockets>>
    BY <1>5 DEF ChooseFail, Usable
  <2> QED
    BY <1>5, <2>1 DEF WithoutPlugin, ChooseFail, Shared!Next, Shared!Acknowledge, Shared!Misconfigured
<1>6. ASSUME NEW c \in Calls, BootFail(c) PROVE Shared!Next
  <2>1. /\ WithoutPlugin(c, "unavailable")
        /\ cell \notin Enabled /\ UNCHANGED <<Usable, cell, sockets>>
    BY <1>6 DEF BootFail, Usable
  <2> QED
    BY <1>6, <2>1 DEF WithoutPlugin, BootFail, Shared!Next, Shared!Acknowledge, Shared!Decline
<1>7. ASSUME NEW c \in Calls, BootOk(c) PROVE Shared!Next
  <2>1. chosen \in Offered /\ cell = NoConfig
    BY <1>7 DEF BootOk
  <2>2. UNCHANGED reply \/ \E d \in {Main} \cup (Configures \ Malformed) : Shared!Answer(d, "ok")
    BY <1>7 DEF BootOk, WithPlugin
  <2>3. UNCHANGED Usable
    BY <1>7 DEF BootOk, Usable
  <2>4. Shared!Boot(chosen)
    BY <1>7, <2>1, <2>2, <2>3 DEF BootOk, Shared!Boot
  <2> QED BY <2>1, <2>4 DEF Shared!Next
<1>8. ASSUME NEW c \in Calls, Send(c) PROVE Shared!Next
  <2>1. UNCHANGED Usable
    BY <1>8 DEF Send, Usable
  <2> QED
    BY <1>8, <2>1 DEF Send, Shared!Next, Shared!Use, Shared!Refuse, Shared!Decline
<1>9. CASE UNCHANGED vars
  BY <1>9 DEF vars, Usable
<1> QED
  BY <1>1, <1>2, <1>3, <1>4, <1>5, <1>6, <1>7, <1>8, <1>9 DEF Next, Arrive, Serve

\* The cell with its permit implements the shared plugin: however the eager
\* start, configures and tool calls race and however often a boot fails, one
\* plugin is brought up for good and every answer is true when it is given.
THEOREM OnePluginForAll == Spec => BootSpec
<1>1. Init => Shared!Init
  BY DEF Init, Shared!Init, Calls, Usable
<1> QED
  BY <1>1, AnswerInit, AnswerStep, SharedStep, BootInvariance, PTL
  DEF Spec, BootSpec, Shared!Spec
-----------------------------------------------------------------------------
(***************************************************************************)
(* The safety half of CallsReturn.  A call that waits for somebody else's  *)
(* initialiser waits for a call that is inside it and has a step to take,  *)
(* and every step brings one call nearer to its answer: with finitely many *)
(* calls, neither a deadlock nor an endless round of retries is possible.  *)
(***************************************************************************)
CanFinish(h) ==
  \/ pc[h] = "choose" /\ (configured \in {NoSlice, <<>>} \/ Head(configured) \in Configs)
  \/ pc[h] = "connect" /\ chosen \in Configs

WaitersHaveAWorker ==
  \A c \in Calls : pc[c] = "shared" /\ cell = NoConfig =>
    permit = NoCall \/ \E h \in Calls \ {c} : permit = h /\ CanFinish(h)

\* A call that waits in shared_plugin can take the permit, or another call
\* holds it, is inside the initialiser and can finish it.
THEOREM NobodyWaitsForNothing == Spec => []WaitersHaveAWorker
<1>1. BootInv => WaitersHaveAWorker
  <2> SUFFICES ASSUME BootInv, NEW c \in Calls, pc[c] = "shared", cell = NoConfig,
                      permit # NoCall
               PROVE  \E h \in Calls \ {c} : permit = h /\ CanFinish(h)
    BY DEF WaitersHaveAWorker
  <2>1. permit \in Calls \ {c} /\ pc[permit] \in {"choose", "connect"}
    BY DEF BootInv, TypeOK, PermitInv
  <2>2. CanFinish(permit)
    BY <2>1, HeadInConfigs DEF BootInv, TypeOK, PermitInv, CanFinish
  <2> QED BY <2>1, <2>2
<1> QED BY <1>1, BootInvariance, PTL

\* The stages in the order a call goes through them.
Later(from, to) ==
  \/ from = "idle" /\ to \in {"shared", "done"}
  \/ from = "shared" /\ to \in {"choose", "send", "done"}
  \/ from = "choose" /\ to \in {"connect", "done"}
  \/ from = "connect" /\ to \in {"send", "done"}
  \/ from = "send" /\ to = "done"

OneAdvances ==
  \E c \in Calls : /\ Later(pc[c], pc'[c])
                   /\ \A d \in Calls \ {c} : pc'[d] = pc[d]

\* Every step moves one call forward and none back: a boot that fails is not
\* tried again by the call that failed.
THEOREM CallsOnlyAdvance == Spec => [][OneAdvances]_vars
<1>1. ASSUME BootInv, NEW c \in Calls, Arrive(c) \/ Serve(c)
      PROVE  OneAdvances
  <2>1. pc' = [pc EXCEPT ![c] = pc'[c]] /\ Later(pc[c], pc'[c])
    <3>1. CASE Arrive(c)
      BY <1>1, <3>1
      DEF Arrive, ConfigureRejected, Configure, Invoke, Move, Later, BootInv, TypeOK
    <3>2. CASE Hit(c) \/ BootOk(c)
      BY <1>1, <3>2 DEF Hit, BootOk, WithPlugin, Later, BootInv, TypeOK
    <3>3. CASE Acquire(c) \/ Choose(c) \/ Send(c)
      BY <1>1, <3>3 DEF Acquire, Choose, Send, Move, Later, BootInv, TypeOK
    <3>4. CASE ChooseFail(c) \/ BootFail(c)
      BY <1>1, <3>4 DEF ChooseFail, BootFail, WithoutPlugin, Later, BootInv, TypeOK
    <3> QED BY <1>1, <3>1, <3>2, <3>3, <3>4 DEF Serve
  <2>2. \A d \in Calls \ {c} : pc'[d] = pc[d]
    BY <1>1, <2>1 DEF BootInv, TypeOK
  <2> QED BY <2>1, <2>2 DEF OneAdvances
<1>2. BootInv /\ [Next]_vars => [OneAdvances]_vars
  BY <1>1 DEF Next
<1> QED BY <1>2, BootInvariance, PTL DEF Spec
=============================================================================
