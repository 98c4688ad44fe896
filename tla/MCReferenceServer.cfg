\* Three requests, to the same or to different routes, in every phase.
CONSTANTS
    Requests = {r1, r2, r3}
    None = None
SPECIFICATION FairServerSpec
CHECK_DEADLOCK FALSE
INVARIANTS CleanMeansAnswered DrainingIsNotReady FailureIsReal
PROPERTIES SignalEndsProcess
