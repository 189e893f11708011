SPECIFICATION Spec

CONSTANTS
  media = media
  text = text
  voice = voice
  qr = qr
  other = other
  A = A
  B = B
  x = x
  y = y
  NoCall = NoCall
  Calls = {media, text, voice, qr, other}
  Topics = {A, B}
  Served = {A}
  Chats = {x, y}
  OriginOf <- MCOriginOf
  KindOf <- MCKindOf
  TopicOf <- MCTopicOf
  ToOf <- MCToOf
  Allowlist = {x, y}

INVARIANTS
  PausedAfterVoice
  BackOffHasCause

PROPERTIES
  MailboxSpec
  SettledInOrder
  AcceptedSettles

\* Each call comes once: a run ends when all are settled or lost.
CHECK_DEADLOCK FALSE
