\* Four events through a queue of three: an event is dropped for a new one
\* while it waits, while it is being published and after it was accepted.
CONSTANTS
    MaxSize = 3
    MaxRetries = 1
    BaseBackoff = 1
    MaxEnqueues = 4
SPECIFICATION FairSpec
CHECK_DEADLOCK FALSE
INVARIANTS TypeOK OldestFirst NothingVanishes
PROPERTIES NoDuplicate BackoffRespected QuietAfterStop ImplementsPromise
PROPERTIES EnqueueNotBlocked StopEventuallyReturns EventuallySettled
