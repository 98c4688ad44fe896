\* One caller, two changes, and a retry queue for one event, so that a failed
\* event is delivered after a later one, or is dropped.
\* Without Disabled, which is to the table what Active is.
CONSTANTS
    Tenants = {t1}
    Missing = Missing
    States = {"Active", "Banned"}
    Callers = {c1}
    Handlers = {h1}
    Loader = loader
    None = None
    QueueSize = 1
    MaxCalls = 2
    MaxTime = 3
SPECIFICATION FairPropagationSpec
CHECK_DEADLOCK FALSE
INVARIANTS Agreement
PROPERTIES BanTakesEffect
