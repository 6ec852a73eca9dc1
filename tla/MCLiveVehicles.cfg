SPECIFICATION FairSpec
CONSTANTS
    Pollers = {p1, p2}
    Replayers = {}
    Snapshots <- MCSnapshots
    NoVehicle = ""
    TTL = 1
    LastPoll = 2
    MaxTime = 4
INVARIANTS
    ShownIsRecorded
PROPERTIES
    SilentVehiclesLeave
