SPECIFICATION Spec
CONSTANTS
    p1 = p1
    Pollers = {p1}
    FeedOf <- OneFeed
    Responses = {x, bad}
    Undecodable = {bad}
    Retention = 1
    PollTime = 1
    Ranges <- MCRanges
    None = None
    MaxTime = 2
    MaxRows = 2
INVARIANTS
    KeptOnDisk
    ReplayIsComplete
    IdenticalNotRearchived
