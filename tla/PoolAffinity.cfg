SPECIFICATION Spec
CONSTANTS
    Size = 2
    Session = {s1, s2, s3, s4}
    NoSession = NoSession
    t1 = t1
    c1 = c1
    Tunnel = {t1, t2}
    Client = {c1}
    NoKey = NoKey
    KeyOf <- OneClient
    MaxToken = 0
SYMMETRY Sessions
PROPERTIES
    FailoverLeavesFailedSession
