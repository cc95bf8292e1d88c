CONSTANTS
  Subjects = {s1}
  Scopes = {a}
  Assurances = {FALSE}
  Deciders = {d1, d2}
  NoSubject = NoSubject
  Legacy <- MCNoLegacy
  MaxLegacy = 0
  StorageFaults = FALSE
  Ttl = 1
  MaxTime = 0
  MaxStarts = 1
SPECIFICATION Spec
PROPERTY
  RevokedIsIrreversible
CHECK_DEADLOCK FALSE
