\* The smallest instance: one handler races the loader on one tenant.
CONSTANTS
    Tenants = {t1}
    States = {"Active", "Disabled", "Banned"}
    Handlers = {h1}
    Loader = loader
    None = None
    MaxTime = 1
SPECIFICATION CheckerSpec
CHECK_DEADLOCK FALSE
PROPERTIES StaleSnapshotNeverOverwrites
