SPECIFICATION Spec
CONSTANTS
    Access = {1, 2, 3}
    Grant = {1, 2, 3}
    NoTokens = NoTokens
    NoPass = NoPass
    Lives = {60}
    MaxAge = 0
    Stamps <- EightHoursBehind
    Zones = {0}
    Lead = 2
    Step = 12
    MaxTrouble = 2
INVARIANTS
    BeliefIsExact
