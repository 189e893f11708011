SPECIFICATION Spec

CONSTANTS
  a1 = a1
  a2 = a2
  i1 = i1
  r1 = r1
  r2 = r2
  voice = voice
  image = image
  answer = answer
  q1 = q1
  None = None
  Deliveries = {a1, a2, i1, r1, r2}
  Messages = {voice, image, answer}
  Questions = {q1}
  MessageOf <- MCMessageOf
  KindOf <- MCKindOf
  QuoteOf <- MCQuoteOf
  Marked = {i1}

INVARIANTS
  AnnouncedWhole
  LostToTwin

PROPERTIES
  QuotesRecognised

\* Deliveries and questions are finite.
CHECK_DEADLOCK FALSE
