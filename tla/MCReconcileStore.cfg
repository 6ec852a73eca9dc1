SPECIFICATION Spec
CONSTANTS
    Day = 24
    OffBefore = 0
    OffAfter = 0
    SwitchAt = 0
    None = None
    Malformed = Malformed
    Pollers = {p1, p2}
    Replayers = {r1}
    Versions = {1}
    Schedule <- MCSchedule
    Snapshots <- FeedSkip
    ArchivedAt = {0}
    Grace = 1
    MaxTime = 4
SYMMETRY Symmetric
INVARIANTS
    RewritesChangeNothing
    NewestObservationWins
    LiveIsBackedByStore
    RowDelayMatchesRow
PROPERTIES
    KeepsLedger
