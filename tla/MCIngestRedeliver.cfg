CONSTANTS
    Docs = {d1}
    Jobs = {j1}
    Sessions = {s1, s2}
    Workers = {w1, w2}
    NoDoc = NoDoc
    NoJob = NoJob
    NoSession = NoSession
    MaxRetries = 0
    MaxCrashes = 1
    MaxRedeliveries = 1
    MaxLostUploads = 0
    MaxAborts = 0
SPECIFICATION Spec
SYMMETRY Symmetry
INVARIANTS
    TypeOK
    NoOrphanRows
    SucceededReleasesOcr
PROPERTIES
    ImplementsLedger
CHECK_DEADLOCK FALSE
