-------------------------- MODULE MCSubprocessBoot --------------------------
(* Small instances of SubprocessBoot for TLC. *)
EXTENDS SubprocessBoot

\* Three configures, one malformed and one empty, and two tool calls.
SomeConfigures == {"k1", "k2", "k3", "bad"}
SomeTools == {"t1", "t2"}
Bad == {"bad"}
\* A live account, another one, and a disabled one.
SomeConfigs == {"a", "b", "off"}
Live == {"a", "b"}
Slices == [k \in SomeConfigures |->
             CASE k = "k1" -> <<"b", "a">> [] k = "k2" -> <<"off">> [] OTHER -> <<>>]
=============================================================================
