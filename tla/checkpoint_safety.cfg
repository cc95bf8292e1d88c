SPECIFICATION CheckpointSpec
CONSTANTS
  Files = {f, g}
  Contents = {x}
  Absent = Absent
  Torn = Torn
  Checkpoints = {k, m}
  NoCheckpoint = NoCheckpoint
  RootPlaces = {"top", "nested"}
SYMMETRY Symmetry
INVARIANTS
  RowsAreRestorable
  CheckpointInductive
PROPERTIES
  RestoreIsExact
