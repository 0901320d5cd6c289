CONSTANTS
    k1 = k1
    k2 = k2
    d1 = d1
    KBs = {k1, k2}
    Docs = {d1}
    KbOf <- MCKbOf
    Turns = {1, 2}
    None = None
    ChatK = 1
    MaxGone = 2
SPECIFICATION ServiceSpec
INVARIANTS
    CitationsResolve
    SessionCitesItsKb
    BindingAlive
    SingleModelAnswer
CHECK_DEADLOCK FALSE
