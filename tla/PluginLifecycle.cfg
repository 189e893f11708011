SPECIFICATION FairSpec

CONSTANTS
  p1 = p1
  p2 = p2
  c1 = c1
  default = default
  Plugins = {p1, p2}
  Instances = {default}
  DefaultLabel = default
  NoInstance = NoInstance
  NoPlugin = NoPlugin
  InstanceOf <- MCInstanceOf
  Chats = {c1}
  OwnerOf <- MCOwnerOf
  Handles <- MCHandles

INVARIANTS
  TypeOK
  RegistryIsTrue
  StopJoins

PROPERTIES
  StopSettles
