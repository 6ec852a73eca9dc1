SPECIFICATION FairReadSpec
CONSTANTS
    Malformed = Malformed
    Loaders = {l1}
    Shas = {"a", "b", "bad"}
    Zips <- MCZips
    Batch = 2
    VersionIds = {1, 2, 3, 4, 5}
    MayRevert = FALSE
    LosesAnswers = FALSE
    MaxFailures = 1
    Readers = {r1}
    Requests <- MCRequests
    Matches <- MCMatches
    Rollups <- MCRollups
    MinObservations = 3
INVARIANTS
    EveryLineIsLoaded
    AnswersAreOfASchedule
    NotFoundIsTrue
PROPERTIES
    ScheduleStays
    AgencyIsFollowed
CHECK_DEADLOCK FALSE
