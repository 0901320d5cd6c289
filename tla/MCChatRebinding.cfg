CONSTANTS
    k1 = k1
    k2 = k2
    d1 = d1
    KBs = {k1, k2, k3}
    Docs = {d1}
    KbOf <- MCKbOf
    Turns = {1, 2, 3}
    None = None
    ChatK = 1
    MaxGone = 1
SPECIFICATION ServiceSpec
PROPERTIES
    BoundSessionsStay
CHECK_DEADLOCK FALSE
