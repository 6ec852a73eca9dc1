SPECIFICATION Spec
CONSTANTS
    Malformed = Malformed
    Loaders = {l1, l2}
    Shas = {"a", "b", "twice"}
    Zips <- MCZips
    Batch = 2
    VersionIds = {1, 2, 3, 4, 5, 6}
    MayRevert = TRUE
    LosesAnswers = TRUE
    MaxFailures = 2
SYMMETRY Symmetric
INVARIANTS
    ActiveIsWhole
    OpenLoadsKeepTheirRow
PROPERTIES
    VersionsAreImmutable
CHECK_DEADLOCK FALSE
