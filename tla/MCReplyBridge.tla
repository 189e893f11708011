--------------------------- MODULE MCReplyBridge ---------------------------
(* Small instances of ReplyBridge for TLC. *)
EXTENDS ReplyBridge

Reply(i, k, s, t) ==
  [id |-> i, kind |-> k, sid |-> s, to |-> t, text |-> IF k = "text" THEN "full" ELSE "none"]

\* Two sessions; m1, m2 and m4 share one, m3 has the other; m2 carries audio
\* and m4 is too old to be answered.
FourMsgs == {"m1", "m2", "m3", "m4"}
TwoSessions == {"s1", "s2"}
FourSessionOf == [m \in FourMsgs |-> IF m = "m3" THEN "s2" ELSE "s1"]
M2 == {"m2"}
M4 == {"m4"}
\* An addressed reply and an addressed voice note for the one session, and an
\* unaddressed reply for the other.
LiveEvents == {Reply(1, "text", "s1", TRUE), Reply(2, "text", "s2", FALSE),
               Reply(3, "other", "s1", TRUE)}

\* Two messages of one session.
TwoMsgs == {"m1", "m2"}
OneSession == {"s1"}
TwoSessionOf == [m \in TwoMsgs |-> "s1"]

\* An addressed reply, an unaddressed one, and an addressed voice note.
FewEvents == {Reply(1, "text", "s1", TRUE), Reply(2, "text", "s1", FALSE),
              Reply(3, "other", "s1", TRUE)}
NoMsgs == {}
=============================================================================
