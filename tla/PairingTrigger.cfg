SPECIFICATION Spec

CONSTANTS
  Challenges <- TwoChallenges
  Dirs <- OneDir
  DirOf <- SameDir
  MaxQr = 1
  NoOne = NoOne

INVARIANTS
  LinkedIsScanned
  EndIsTold

PROPERTIES
  PromiseSpec
  CancelEnds

\* A run ends when every challenge has ended.
CHECK_DEADLOCK FALSE
