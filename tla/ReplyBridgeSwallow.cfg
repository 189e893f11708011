SPECIFICATION Spec

CONSTANTS
  Msgs <- TwoMsgs
  Sessions <- OneSession
  SessionOf <- TwoSessionOf
  Ignored <- NoMsgs
  Audio <- NoMsgs
  Outbound <- FewEvents
  Apologize = FALSE
  NoMsg = NoMsg
  NoSession = NoSession
  NoEvent = NoEvent

INVARIANTS
  AddressedReplyShown

\* The messages and events are finite: a run ends when all are handled.
CHECK_DEADLOCK FALSE
