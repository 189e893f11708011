--------------------------- MODULE MCPairingPump ---------------------------
(* Small instances of PairingPump for TLC. *)
EXTENDS PairingPump

\* Two challenges that pair one session directory.
TwoChallenges == {"c1", "c2"}
OneDir == {"d"}
SameDir == [c \in TwoChallenges |-> "d"]
=============================================================================
