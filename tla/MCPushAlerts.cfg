SPECIFICATION PushSpec
CONSTANTS
    Endpoints = {b1, b2}
    Criteria <- MCCriteria
    Events <- MCEvents
    AnyRoute = AnyRoute
    MaxId = 2
INVARIANTS
    AtMostOneAlert
    PassTriesEveryone
