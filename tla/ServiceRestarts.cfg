SPECIFICATION FairSpec
CONSTANTS
    p1 = p1
    p2 = p2
    p3 = p3
    se = se
    us = us
    Proxy = {p1, p2, p3}
    NoProxy = NoProxy
    Country = {se, us}
    NoCountry = NoCountry
    CountryOf <- Countries
    Lists <- SomeLists
    Alive = {p2, p3}
    Threshold = 2
    MaxFaults = 1
INVARIANTS
    TypeOK
PROPERTIES
    ExitKept
    StopIsFinal
    ServiceComesUp
