CONSTANTS
    Docs = {d1}
    Jobs = {j1}
    Sessions = {s1, s2}
    Workers = {w1, w2}
    NoDoc = NoDoc
    NoJob = NoJob
    NoSession = NoSession
    MaxRetries = 1
    MaxCrashes = 2
    MaxRedeliveries = 0
    MaxLostUploads = 1
    MaxAborts = 1
SPECIFICATION FairSpec
INVARIANTS
    PollsLiveSession
    SingleIndexCopy
PROPERTIES
    EventuallySettled
CHECK_DEADLOCK FALSE
