CONSTANTS
  Ops = {o1, o2}
  Sessions = {s1}
  Clients = {c1}
  NoEnv = NoEnv
  NoSession = NoSession
  StorageFaults = FALSE
  Crashes = FALSE
  Overwrites = TRUE
SPECIFICATION FairSpec
PROPERTIES
  Settles
