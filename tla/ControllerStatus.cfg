SPECIFICATION Spec
CONSTANTS
    Managed = {m1, m2, m3}
    NoManaged = NoManaged
    Tunnel = {t1}
    NoProc = NoProc
    Renewal = Renewal
    MaxRetries = 1
    Lifetimes = {2}
    Lead = 1
    RetryDelay = 1
    Patience = 1
    Prompt = FALSE
SYMMETRY ManagedSets
CHECK_DEADLOCK FALSE
INVARIANTS
    StatusShowsCurrentPass
