-------------------------- MODULE MCPairingTrigger --------------------------
(* Small instances of PairingTrigger for TLC. *)
EXTENDS PairingTrigger

\* Two challenges that pair one session directory.
TwoChallenges == {"c1", "c2"}
OneDir == {"d"}
SameDir == [c \in TwoChallenges |-> "d"]
=============================================================================
