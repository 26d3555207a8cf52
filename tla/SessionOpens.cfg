SPECIFICATION FairSpec
CONSTANTS
    Open = {o1, o2}
    Target = {a, b}
    NoTarget = none
    Timed = TRUE
    MaxDistinct = 2
    MaxOpens = 3
INVARIANTS
    TypeOK
    HeldTunnelIsLive
    NothingLeaks
    VerdictIsStreak
PROPERTIES
    AbandonedTripEnds
