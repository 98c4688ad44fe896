\* Two Subscribe calls race two Stop calls, with two messages on the wire.
CONSTANTS
    Subscribers = {s1, s2}
    Stoppers = {k1, k2}
    Messages = {m1, m2}
SPECIFICATION FairBusSpec
CHECK_DEADLOCK FALSE
INVARIANTS NoLeak NothingNewAfterStop
PROPERTIES StopReturns LoopsEnd
