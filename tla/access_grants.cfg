CONSTANTS
  Subjects = {s1, s2}
  Scopes = {a, b}
  Assurances = {FALSE}
  Deciders = {d1}
  NoSubject = NoSubject
  Legacy <- MCLegacy
  MaxLegacy = 1
  StorageFaults = TRUE
  Ttl = 1
  MaxTime = 1
  MaxStarts = 2
SPECIFICATION Spec
SYMMETRY Symmetry
INVARIANTS
  AccessInductive
  ApprovalPrecedesAuthority
  LegacyFailsClosed
  RevocationSticks
  RequestsDoNotStack
PROPERTIES
  FollowsLifecycle
CHECK_DEADLOCK FALSE
