SPECIFICATION FairSpec
CONSTANTS
  Slots = {s1, s2, s3}
  Clis = {c1}
  CliGoals = {"start", "stop", "restart", "request"}
  Desktop = desktop
  FirstBuilds = {"packaged", "stale", "alien"}
  NoSlot = none
  MaxFaults = 1
INVARIANTS
  SupervisorInductive
  PrivilegedReachesPackaged
  StaleIsRetiredFirst
PROPERTIES
  Recovers
  CallsReturn
