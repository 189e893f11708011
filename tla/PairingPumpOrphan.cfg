SPECIFICATION Spec

CONSTANTS
  Challenges <- TwoChallenges
  Dirs <- OneDir
  DirOf <- SameDir
  MaxPumps = 2
  MaxQr = 1
  NoChallenge = NoChallenge

INVARIANTS
  LiveIsRegistered

\* The number of pumps is bounded: a run ends when all have ended.
CHECK_DEADLOCK FALSE
