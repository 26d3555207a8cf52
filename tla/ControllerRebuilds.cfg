SPECIFICATION Spec
CONSTANTS
    Managed = {m1, m2, m3, m4}
    NoManaged = NoManaged
    Tunnel = {t1, t2}
    NoProc = NoProc
    Renewal = Renewal
    MaxRetries = 1
    Lifetimes = {1}
    Lead = 1
    RetryDelay = 0
    Patience = 0
    Prompt = FALSE
SYMMETRY ManagedAndTunnels
CONSTRAINT CloseWithoutStatus
CHECK_DEADLOCK FALSE
INVARIANTS
    TypeOK
    RefsMatchHolders
    NoOrphanSession
    OutOfServiceForCause
PROPERTIES
    SessionKeptWhileUsable
    ImplementsLease
