\* Two handlers and the loader, so that apply calls overlap in pairs and in
\* threes; two time stamps, so that reports are older, newer or of
\* the same instant, next to keys that are absent.
CONSTANTS
    Tenants = {t1, t2}
    States = {"Active", "Disabled", "Banned"}
    Handlers = {h1, h2}
    Loader = loader
    None = None
    MaxTime = 1
SPECIFICATION CheckerSpec
SYMMETRY Symmetry
CHECK_DEADLOCK FALSE
INVARIANTS CheckerTypeOK NewestWins LoadCovers
