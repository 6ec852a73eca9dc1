SPECIFICATION Spec
CONSTANTS
    Workers = {w1, w2}
    Versions = {1, 2}
    Trips <- MCTrips
    Known <- MCKnown
    EngineMax = 2
    StoreCap = 2
    NotFound = NotFound
SYMMETRY Symmetric
INVARIANTS
    CachesHoldOneVersion
    AnswersMatchVersion
    CachesStayBounded
