SPECIFICATION LoopSpec
CONSTANTS
    Day = 24
    OffBefore <- MCMinusFive
    OffAfter <- MCMinusFive
    SwitchAt = 0
    None = None
    Malformed = Malformed
    Schedules <- MCSchedules
    StopUpdates <- MCStopUpdates
    StartDates <- MCStartDates
    TripDelays <- MCTripDelays
    PollTimes <- MCPollTimes
    MaxUpdates = 2
INVARIANTS
    EventsAgreeWithLoop
    ReferenceAgreesWithScan
    DelayIsPredictedMinusScheduled
CHECK_DEADLOCK FALSE
