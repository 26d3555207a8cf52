SPECIFICATION FairSpec
CONSTANTS
    Access = {1, 2, 3}
    Grant = {1, 2, 3}
    NoTokens = NoTokens
    NoPass = NoPass
    Lives = {13, 60}
    MaxAge = 0
    Stamps <- SomeStamps
    Zones <- SomeZones
    Lead = 13
    Step = 60
    MaxTrouble = 2
INVARIANTS
    TypeOK
    TokensKept
    BeliefIsPrudent
PROPERTIES
    PassComesBack
