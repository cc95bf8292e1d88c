SPECIFICATION Spec
CONSTANTS
  c1 = c1
  c2 = c2
  Callers = {a, b}
  NoCaller = NoCaller
  Challenges = {c1, c2, c3}
  Channels = {h1}
  Claims <- MCClaims
  MaxTime = 4
  Lifetime = 1
  Skew = 1
  Capacity = 2
  OldChallenges = {c1}
  OldProofs <- OldProofRows
SYMMETRY Symmetry
INVARIANTS
  ReplayInductive
  IdentityOnce
PROPERTIES
  IsOneTimeStore
  EvidenceIsKept
  ExpiredStaysExpired
