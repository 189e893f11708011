SPECIFICATION Spec

CONSTANTS
  Challenges <- TwoChallenges
  Dirs <- OneDir
  DirOf <- SameDir
  MaxQr = 1
  NoOne = NoOne

PROPERTIES
  StampKeepsState

\* A run ends when every challenge has ended.
CHECK_DEADLOCK FALSE
