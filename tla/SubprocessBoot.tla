--------------------------- MODULE SubprocessBoot ---------------------------
(***************************************************************************)
(* How the subprocess boots its one plugin (main.rs): main starts it       *)
(* eagerly before it serves stdio; after that every plugin.configure and   *)
(* every tool.invoke goes through shared_plugin, a OnceCell whose          *)
(* initialiser picks the configuration, builds the broker and runs         *)
(* Plugin::start (plugin.rs), which opens the WhatsApp session.            *)
(*                                                                         *)
(* A call that finds the cell empty takes its permit, reads the            *)
(* configuration and then awaits the broker and the connect, so other      *)
(* calls run between those steps; a failed initialiser releases the permit *)
(* and leaves the cell empty.  Everything start does after the connect is  *)
(* free of awaits until the plugin is complete and is one action with it.  *)
(*                                                                         *)
(* External, modelled from its use: the SDK serves calls concurrently and  *)
(* only once run_stdio runs; brokers and connects succeed or fail.         *)
(***************************************************************************)
EXTENDS Naturals, Sequences

CONSTANTS
  Main,        \* the eager start in main
  Configures,  \* plugin.configure calls
  Tools,       \* tool.invoke calls
  Malformed,   \* configure calls whose YAML does not deserialise
  Configs,     \* instance configurations
  Enabled,     \* those with enabled = true
  SliceOf,     \* [Configures -> Seq(Configs)]: the array each delivers
  EnvConfig,   \* whatsapp_config_from_env, NoConfig when a variable is missing
  NoConfig, NoSlice, NoCall

ASSUME BootAssumption ==
  /\ Main \notin Configures \cup Tools /\ Configures \cap Tools = {}
  /\ Malformed \subseteq Configures /\ Enabled \subseteq Configs
  /\ SliceOf \in [Configures -> Seq(Configs)] /\ NoSlice \notin Seq(Configs)
  /\ NoConfig \notin Configs /\ EnvConfig \in Configs \cup {NoConfig}
  /\ NoCall \notin Configures \cup Tools \cup {Main}

Calls == {Main} \cup Configures \cup Tools

VARIABLES
  pc,          \* [Calls -> Stages]: where each call is
  reply,       \* [Calls -> Replies]: what it was answered
  configured,  \* configured_state(): a slice or NoSlice
  permit,      \* the call that runs the initialiser, or NoCall
  chosen,      \* the configuration it picked
  cell,        \* PLUGIN: the configuration of the cached plugin, or NoConfig
  sockets      \* how many WhatsApp sessions were opened

vars == <<pc, reply, configured, permit, chosen, cell, sockets>>

Stages == {"idle", "shared", "choose", "connect", "send", "done"}
\* "invalid": the configure's YAML.  A tool is told "misconfigured" when
\* there is no configuration to boot with, "refused" when its name or its
\* arguments are wrong, "unavailable" without a broker or a session, and
\* "failed" when the publish failed.
Replies == {"none", "ok", "invalid", "misconfigured", "refused", "unavailable", "failed"}

Init ==
  /\ pc = [c \in Calls |-> IF c = Main THEN "shared" ELSE "idle"]
  /\ reply = [c \in Calls |-> "none"]
  /\ configured = NoSlice
  /\ permit = NoCall
  /\ chosen = NoConfig
  /\ cell = NoConfig
  /\ sockets = 0
-----------------------------------------------------------------------------
Move(c, from, to) == pc[c] = from /\ pc' = [pc EXCEPT ![c] = to]
Answer(c, r) == reply' = [reply EXCEPT ![c] = r]

\* Calls are served once the eager start has returned, well or not.
Serving == pc[Main] = "done"

\* on_configure: the YAML is not an array of configurations.
ConfigureRejected(c) ==
  /\ Serving /\ c \in Malformed
  /\ Move(c, "idle", "done") /\ Answer(c, "invalid")
  /\ UNCHANGED <<configured, permit, chosen, cell, sockets>>

\* Wrong: a configure drops the plugin that runs, to boot it afresh.
ConfigureResets(c) ==
  /\ Serving /\ c \in Configures \ Malformed
  /\ Move(c, "idle", "shared")
  /\ configured' = SliceOf[c]
  /\ cell' = NoConfig
  /\ UNCHANGED <<reply, permit, chosen, sockets>>

\* on_configure: record the slice, then boot the plugin if there is none.
Configure(c) ==
  /\ Serving /\ c \in Configures \ Malformed
  /\ Move(c, "idle", "shared")
  /\ configured' = SliceOf[c]
  /\ UNCHANGED <<reply, permit, chosen, cell, sockets>>

Invoke(c) ==
  /\ Serving /\ c \in Tools
  /\ Move(c, "idle", "shared")
  /\ UNCHANGED <<reply, configured, permit, chosen, cell, sockets>>
-----------------------------------------------------------------------------
(***************************************************************************)
(* shared_plugin.                                                          *)
(***************************************************************************)
\* What a call does once it has the plugin: a tool uses it; main and
\* configure are done.
WithPlugin(c) ==
  IF c \in Tools THEN pc' = [pc EXCEPT ![c] = "send"] /\ UNCHANGED reply
  ELSE pc' = [pc EXCEPT ![c] = "done"] /\ Answer(c, "ok")

\* What it does when the initialiser failed with r: a tool returns the error,
\* main and configure log a warning and go on.
WithoutPlugin(c, r) ==
  pc' = [pc EXCEPT ![c] = "done"] /\ Answer(c, IF c \in Tools THEN r ELSE "ok")

\* The cell is set.
Hit(c) ==
  /\ pc[c] = "shared" /\ cell # NoConfig
  /\ WithPlugin(c)
  /\ UNCHANGED <<configured, permit, chosen, cell, sockets>>

\* Wrong: the cell is looked up and filled without a permit.
AcquireUnguarded(c) ==
  /\ cell = NoConfig
  /\ Move(c, "shared", "choose")
  /\ permit' = c
  /\ UNCHANGED <<reply, configured, chosen, cell, sockets>>

\* The cell is empty and nobody runs the initialiser.
Acquire(c) ==
  /\ cell = NoConfig /\ permit = NoCall
  /\ Move(c, "shared", "choose")
  /\ permit' = c
  /\ UNCHANGED <<reply, configured, chosen, cell, sockets>>

\* Wrong: the environment is read even after a configure.
ChooseEnvFirst(c) ==
  /\ EnvConfig # NoConfig
  /\ Move(c, "choose", "connect")
  /\ chosen' = EnvConfig
  /\ UNCHANGED <<reply, configured, permit, cell, sockets>>

\* Wrong: the plugin is cached before it is started.
ChooseCaches(c) ==
  /\ Move(c, "choose", "connect")
  /\ \/ configured # NoSlice /\ configured # <<>> /\ chosen' = Head(configured)
     \/ configured = NoSlice /\ EnvConfig # NoConfig /\ chosen' = EnvConfig
  /\ cell' = chosen'
  /\ UNCHANGED <<reply, configured, permit, sockets>>

\* Read the configuration: the first of the delivered slice, or the
\* environment when none was delivered.
Choose(c) ==
  /\ Move(c, "choose", "connect")
  /\ \/ configured # NoSlice /\ configured # <<>> /\ chosen' = Head(configured)
     \/ configured = NoSlice /\ EnvConfig # NoConfig /\ chosen' = EnvConfig
  /\ UNCHANGED <<reply, configured, permit, cell, sockets>>

\* There is a configuration to boot with.
Usable == IF configured = NoSlice THEN EnvConfig # NoConfig ELSE configured # <<>>

\* Wrong: a missing configuration leaves the permit taken.
ChooseFailKeepsPermit(c) ==
  /\ pc[c] = "choose"
  /\ ~Usable
  /\ WithoutPlugin(c, "misconfigured")
  /\ UNCHANGED <<configured, permit, chosen, cell, sockets>>

\* The delivered slice is empty, or there is none and no environment.
ChooseFail(c) ==
  /\ pc[c] = "choose"
  /\ ~Usable
  /\ WithoutPlugin(c, "misconfigured")
  /\ permit' = NoCall
  /\ UNCHANGED <<configured, chosen, cell, sockets>>

\* Plugin::start returned Ok: without a session when disabled.
BootOk(c) ==
  /\ pc[c] = "connect"
  /\ WithPlugin(c)
  /\ sockets' = IF chosen \in Enabled THEN sockets + 1 ELSE sockets
  /\ cell' = chosen
  /\ permit' = NoCall
  /\ UNCHANGED <<configured, chosen>>

\* build_broker failed, or start did: session directories, a running daemon,
\* missing credentials, the connect.
BootFail(c) ==
  /\ pc[c] = "connect"
  /\ WithoutPlugin(c, "unavailable")
  /\ permit' = NoCall
  /\ UNCHANGED <<configured, chosen, cell, sockets>>

\* dispatch_whatsapp_tool: an unknown tool or a bad argument is refused before
\* anything is sent; a plugin that was not started has no broker to send by.
Send(c) ==
  /\ Move(c, "send", "done")
  /\ \/ Answer(c, "refused")
     \/ cell \in Enabled /\ (Answer(c, "ok") \/ Answer(c, "failed"))
     \/ cell \notin Enabled /\ Answer(c, "unavailable")
  /\ UNCHANGED <<configured, permit, chosen, cell, sockets>>
-----------------------------------------------------------------------------
Arrive(c) == ConfigureRejected(c) \/ Configure(c) \/ Invoke(c)
Serve(c) == \/ Hit(c) \/ Acquire(c) \/ Choose(c) \/ ChooseFail(c)
            \/ BootOk(c) \/ BootFail(c) \/ Send(c)

Next == \E c \in Calls : Arrive(c) \/ Serve(c)

\* Calls need not come; a call that came is run by the runtime, the permit of
\* the cell is a fair semaphore, and a connect returns or fails.
Fairness == \A c \in Calls : WF_vars(Serve(c))
Spec == Init /\ [][Next]_vars /\ Fairness
-----------------------------------------------------------------------------
\* The variables have their types.
TypeOK ==
  /\ pc \in [Calls -> Stages]
  /\ reply \in [Calls -> Replies]
  /\ configured \in Seq(Configs) \cup {NoSlice}
  /\ permit \in Calls \cup {NoCall}
  /\ chosen \in Configs \cup {NoConfig}
  /\ cell \in Configs \cup {NoConfig}
  /\ sockets \in Nat

\* The cell never opens a second WhatsApp session, however the eager start,
\* configures and tool calls race and however often boots fail (main.rs: "no
\* duplicate boot"; a second socket "would invalidate the live one",
\* session.rs).  The client of a pairing pump is module PairingPump's.
OneSocket == sockets <= 1

\* A tool call is answered "ok" only with a session open, and a plugin that
\* is cached is complete: nobody sees one whose start is still running.
SendsNeedSession ==
  /\ \A c \in Tools : reply[c] = "ok" => sockets = 1
  /\ cell # NoConfig => permit = NoCall /\ (cell \in Enabled => sockets = 1)

Recorded == {k \in Configures \ Malformed : pc[k] # "idle"}

\* The environment is only the fallback: a boot begun after a configure was
\* recorded never runs on it, however many boots failed before.
ConfigureIsPreferred ==
  [][\A c \in Calls : pc[c] = "choose" /\ pc'[c] = "connect" /\ Recorded # {} =>
       \E k \in Recorded : SliceOf[k] # <<>> /\ chosen' = Head(SliceOf[k])]_vars

\* What a boot may use: the environment, or the first of a delivered slice.
Offered ==
  ({EnvConfig} \ {NoConfig})
    \cup {Head(SliceOf[k]) : k \in {k \in Configures \ Malformed : SliceOf[k] # <<>>}}

Shared == INSTANCE SharedPlugin WITH plugin <- cell, usable <- Usable

\* The cell, its permit and the retries keep what SharedPlugin promises: one
\* plugin, once and for all, no tool turned away while its session is up, and
\* each error true when it is given.
BootSpec == Shared!Spec

\* Every call is answered, boots that fail and calls that wait for somebody
\* else's boot included.
CallsReturn == \A c \in Calls : pc[c] = "shared" ~> pc[c] = "done"
=============================================================================
