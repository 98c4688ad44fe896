\* Two callers change the same tenant at the same time.
\* Without Disabled, which is to the table what Active is.
CONSTANTS
    Tenants = {t1}
    Missing = Missing
    States = {"Active", "Banned"}
    Callers = {c1, c2}
    Handlers = {h1}
    Loader = loader
    None = None
    QueueSize = 0
    MaxCalls = 2
    MaxTime = 3
SPECIFICATION PropagationSpec
CHECK_DEADLOCK FALSE
INVARIANTS AgreementDespiteRaces
