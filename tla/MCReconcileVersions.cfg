SPECIFICATION Spec
CONSTANTS
    Day = 24
    OffBefore = 0
    OffAfter = 0
    SwitchAt = 0
    None = None
    Malformed = Malformed
    Pollers = {p1}
    Replayers = {}
    Versions = {1, 2}
    Schedule <- MCSchedule
    Snapshots <- FeedRevised
    ArchivedAt = {0}
    Grace = 1
    MaxTime = 4
INVARIANTS
    RowDelayMatchesRow
