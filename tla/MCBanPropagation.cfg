\* Two callers make three changes without a retry queue; two handlers and the
\* loader write the table.
CONSTANTS
    Tenants = {t1}
    Missing = Missing
    States = {"Active", "Disabled", "Banned"}
    Callers = {c1, c2}
    Handlers = {h1, h2}
    Loader = loader
    None = None
    QueueSize = 0
    MaxCalls = 3
    MaxTime = 4
SPECIFICATION PropagationSpec
CHECK_DEADLOCK FALSE
SYMMETRY Symmetry
INVARIANTS Agreement
