SPECIFICATION FairSpec
CONSTANTS
    Day = 24
    OffBefore = 0
    OffAfter = 0
    SwitchAt = 0
    None = None
    Malformed = Malformed
    Pollers = {p1}
    Replayers = {}
    Versions = {1}
    Schedule <- MCScheduleVague
    Snapshots <- FeedCanceled
    ArchivedAt = {0}
    Grace = 1
    MaxTime = 4
PROPERTIES
    RowsWithATimeSettle
INVARIANTS
    TypeOK
