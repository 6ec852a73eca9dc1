SPECIFICATION Spec
CONSTANTS
    Day = 24
    OffBefore <- West5
    OffAfter <- West4
    SwitchAt <- MCSwitchAt
    None = None
    Malformed = Malformed
    Dates <- MCDates
    StopTimes <- MCStopTimes
    MaxDrift = 14
INVARIANTS
    DriftKeepsServiceDate
    WallClockKept
    DeparturesKeepTheirKey
    HoursAreOfTheClock
    NamesTellTheWeek
