CONSTANTS
    Clients = {c1, c2}
    Browser = c1
    Accounts = {a1}
    Ip = Ip
    Sessions = {s1, s2}
    None = None
    Limit = 2
    MaxWrong = 6
    MaxFaults = 1
SPECIFICATION FairSpec
INVARIANTS
    RecordedFailuresBounded
    CountersExpire
    SessionIsLastLogin
PROPERTIES
    RevivedSessionDies
CHECK_DEADLOCK FALSE
