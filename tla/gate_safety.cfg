CONSTANTS
  Ops = {o1, o2}
  Sessions = {s1}
  Clients = {c1, c2}
  NoEnv = NoEnv
  NoSession = NoSession
  StorageFaults = TRUE
  Crashes = TRUE
  Overwrites = FALSE
SPECIFICATION Spec
SYMMETRY Symmetry
INVARIANTS
  AuditedExecution
  DenialIsFinal
  GateInductive
PROPERTIES
  RevocationCutsOff
  RowIsFinal
  LivesOnce
