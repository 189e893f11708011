SPECIFICATION FairSpec

CONSTANTS
  Msgs <- FourMsgs
  Sessions <- TwoSessions
  SessionOf <- FourSessionOf
  Ignored <- M4
  Audio <- M2
  Outbound <- LiveEvents
  Apologize = TRUE
  NoMsg = NoMsg
  NoSession = NoSession
  NoEvent = NoEvent

INVARIANTS
  TypeOK
  SlotsAreLive
  WaitersReachable
  AtMostOnce
  OwnConversation
  CancelHasCause
  Accounted

PROPERTIES
  DeliverySpec
  HandlersFinish
  EventsSettle

\* The messages and events are finite: a run ends when all are handled.
CHECK_DEADLOCK FALSE
