SPECIFICATION Spec
CONSTANTS
    Root <- MCRoot
    Dirs <- MCDirs
    Links <- MCLinks
    RegistryFiles <- MCRegistryFiles
    Shas <- MCShas
    Numerals <- MCNumerals
    Snapshot <- MCSnapshot
    References <- MCReferences
    Manifests <- MCManifests
    Questions <- MCQuestions
INVARIANTS
    DecisionIsExact
    ServingIsReviewed
    ExactMatchAgrees
CHECK_DEADLOCK FALSE
