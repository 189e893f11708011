SPECIFICATION Spec

CONSTANTS
  Main = Main
  Configures <- SomeConfigures
  Tools <- SomeTools
  Malformed <- Bad
  Configs <- SomeConfigs
  Enabled <- Live
  SliceOf <- Slices
  EnvConfig = "a"
  NoConfig = NoConfig
  NoSlice = NoSlice
  NoCall = NoCall

INVARIANTS
  OneSocket
  SendsNeedSession

PROPERTIES
  BootSpec
  ConfigureIsPreferred
  CallsReturn

\* The calls are finite: a run ends when all are answered.
CHECK_DEADLOCK FALSE
