SPECIFICATION RecoverySpec
CONSTANTS
    Managed = {m1, m2, m3}
    NoManaged = NoManaged
    Tunnel = {t1}
    NoProc = NoProc
    Renewal = Renewal
    MaxRetries = 1
    Lifetimes = {1}
    Lead = 0
    RetryDelay = 0
    Patience = 1
    Prompt = TRUE
ACTION_CONSTRAINT CloseBetweenCalls
CHECK_DEADLOCK FALSE
PROPERTIES
    OpenReturns
    ServiceRecovers
    CloseStopsEverything
