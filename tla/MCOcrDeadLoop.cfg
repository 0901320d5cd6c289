CONSTANTS
    Sessions = {s1, s2, s3}
    Priorities = {1, 5}
    NoSession = NoSession
    QueueSize = 2
    MaxRestarts = 0
    MaxBroken = 0
SPECIFICATION FairSpec
PROPERTIES
    AcceptedIsProcessed
CHECK_DEADLOCK FALSE
