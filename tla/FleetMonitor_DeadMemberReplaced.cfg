CONSTANTS
    w1 = w1
    w2 = w2
    w3 = w3
    Ids <- MC_Ids2
    QueueLengths = {15}
    MaxQueueLengthPerWorker = 10
    HealthTimeout = 1
    IdleTimeThreshold = 2
    MaxRetries = 3
    AgeCap = 3
    MaxPendingProbes = 2
    NoWorker = NoWorker
SPECIFICATION FairSpec
PROPERTY DeadMemberReplaced
