CONSTANTS
    Sessions = {s1, s2, s3}
    Priorities = {1, 5}
    NoSession = NoSession
    QueueSize = 2
    MaxRestarts = 1
    MaxBroken = 1
SPECIFICATION FairSpec
INVARIANTS
    TypeOK
    CompletedIsServable
    AbandonedThreadIsFailed
    MetaMatchesProcess
PROPERTIES
    OutcomeIsFinal
    ProcessedWhileFilesStay
CHECK_DEADLOCK FALSE
