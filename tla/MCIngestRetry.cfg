CONSTANTS
    Docs = {d1}
    Jobs = {j1, j2}
    Sessions = {s1, s2}
    Workers = {w1, w2}
    NoDoc = NoDoc
    NoJob = NoJob
    NoSession = NoSession
    MaxRetries = 1
    MaxCrashes = 0
    MaxRedeliveries = 0
    MaxLostUploads = 0
    MaxAborts = 1
SPECIFICATION Spec
SYMMETRY Symmetry
INVARIANTS
    ReadyComplete
    SucceededLedger
    StrandedOnlyIfDropped
CHECK_DEADLOCK FALSE
