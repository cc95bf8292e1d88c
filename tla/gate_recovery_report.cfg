CONSTANTS
  Ops = {o1}
  Sessions = {s1}
  Clients = {c1}
  NoSession = NoSession
  NoEnv = NoEnv
  StorageFaults = FALSE
  Crashes = TRUE
  Overwrites = FALSE
SPECIFICATION Spec
INVARIANT RecoveryReportsAll
