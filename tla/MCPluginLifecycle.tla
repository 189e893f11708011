------------------------- MODULE MCPluginLifecycle -------------------------
(* Two plugins of one registry label, one of them without an instance and  *)
(* with a chat.                                                            *)
EXTENDS PluginLifecycle

CONSTANTS p1, p2, c1, default

\* The lifecycle loop does here what the dispatch loop does, but to answer.
MCHandles == <<"inbound", "dispatch">>
MCInstanceOf == [p \in Plugins |-> IF p = p1 THEN NoInstance ELSE default]
MCOwnerOf == [c \in Chats |-> p1]
=============================================================================
