CONSTANTS
    k1 = k1
    d1 = d1
    KBs = {k1}
    Docs = {d1}
    KbOf <- MCKbOf
    Turns = {1, 2}
    None = None
    ChatK = 1
    MaxGone = 0
SPECIFICATION FairSpec
INVARIANTS
    DeltasStayInTheirMessage
    PanelMatchesScreen
PROPERTIES
    ComposerComesBack
CHECK_DEADLOCK FALSE
