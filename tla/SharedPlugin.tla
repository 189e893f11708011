---------------------------- MODULE SharedPlugin ----------------------------
(***************************************************************************)
(* What the subprocess promises to the daemon, with none of the machinery  *)
(* that shares the boot: at most one plugin is ever brought up, from a     *)
(* configuration that somebody offered, and it is never replaced; it has a *)
(* WhatsApp session exactly if it is enabled; every call is answered once; *)
(* nothing is answered before the eager start; and a tool call is tried on *)
(* the session if there is one, told "unavailable" only when there is none *)
(* at that moment, and "misconfigured" only when there is neither a plugin *)
(* nor a configuration to bring one up with.  Module SubprocessBoot        *)
(* implements this with a cell, a permit, and initialisers that fail and   *)
(* are retried by whoever waits.                                           *)
(***************************************************************************)
EXTENDS Naturals

CONSTANTS
  Main,        \* the eager start
  Configures,  \* plugin.configure calls
  Tools,       \* tool.invoke calls
  Malformed,   \* configure calls whose YAML does not deserialise
  Offered,     \* the configurations a boot may use
  Enabled,     \* those that open a session
  NoConfig

VARIABLES
  plugin,      \* the configuration of the plugin, or NoConfig
  usable,      \* a configuration to bring it up with is known
  reply,       \* [Main, Configures and Tools -> what it was answered]
  sockets      \* WhatsApp sessions opened so far

vars == <<plugin, usable, reply, sockets>>

Starters == {Main} \cup (Configures \ Malformed)

Init ==
  /\ plugin = NoConfig
  /\ usable \in BOOLEAN
  /\ reply = [c \in {Main} \cup Configures \cup Tools |-> "none"]
  /\ sockets = 0

Answer(c, r) ==
  /\ reply[c] = "none" /\ (c # Main => reply[Main] # "none")
  /\ reply' = [reply EXCEPT ![c] = r]

\* The plugin is up; the call that waited for it may learn so at once.
Boot(k) ==
  /\ plugin = NoConfig /\ plugin' = k
  /\ sockets' = IF k \in Enabled THEN sockets + 1 ELSE sockets
  /\ UNCHANGED usable
  /\ UNCHANGED reply \/ \E c \in Starters : Answer(c, "ok")

\* A configure brings the configurations to use from now on.
Reconfigure ==
  /\ reply[Main] # "none"
  /\ usable' \in BOOLEAN
  /\ UNCHANGED <<plugin, reply, sockets>>

\* A starter is told ok, with or without a plugin.
Acknowledge(c) == Answer(c, "ok") /\ UNCHANGED <<plugin, usable, sockets>>

Reject(c) == Answer(c, "invalid") /\ UNCHANGED <<plugin, usable, sockets>>

\* The session takes the tool's message or returns an error.
Use(c) ==
  /\ plugin \in Enabled
  /\ Answer(c, "ok") \/ Answer(c, "failed")
  /\ UNCHANGED <<plugin, usable, sockets>>

\* The plugin does not take a tool of that name, or not those arguments.
Refuse(c) ==
  /\ plugin # NoConfig
  /\ Answer(c, "refused")
  /\ UNCHANGED <<plugin, usable, sockets>>

Decline(c) ==
  /\ plugin \notin Enabled
  /\ Answer(c, "unavailable")
  /\ UNCHANGED <<plugin, usable, sockets>>

\* There is no plugin, and no configuration to bring one up with.
Misconfigured(c) ==
  /\ plugin = NoConfig /\ ~usable
  /\ Answer(c, "misconfigured")
  /\ UNCHANGED <<plugin, usable, sockets>>

Next ==
  \/ Reconfigure
  \/ \E k \in Offered : Boot(k)
  \/ \E c \in Starters : Acknowledge(c)
  \/ \E c \in Malformed : Reject(c)
  \/ \E c \in Tools : Use(c) \/ Refuse(c) \/ Decline(c) \/ Misconfigured(c)

Spec == Init /\ [][Next]_vars
=============================================================================
