SPECIFICATION Spec
CONSTANTS
    HoursPerDay = 3
    DaysPerWeek = 2
    RollupHour = 0
    Lag = 1
    Parents <- MCParents
    Keep <- MCKeep
    Window = 1
    Ahead = 2
    Rollups = 2
    Serviced <- MCServiced
    StartHour = 11
    MaxTime = 22
    MaxFailures = 1
INVARIANTS
    KeptForRetention
    WindowsDescend
PROPERTIES
    LiveRowsArePartitioned
    RollupsMissNothing
