\* One monitor, three ids, every queue length below the three-worker mark:
\* the safety invariants and the liveness property under FairSpec.
CONSTANTS
    w1 = w1
    w2 = w2
    w3 = w3
    Ids <- MC_Ids3
    QueueLengths = {0, 5, 15}
    MaxQueueLengthPerWorker = 10
    HealthTimeout = 1
    IdleTimeThreshold = 2
    MaxRetries = 3
    AgeCap = 3
    MaxPendingProbes = 2
    NoWorker = NoWorker
SPECIFICATION FairSpec
PROPERTY NoZombieWorker
PROPERTY HungWorkerKilled
INVARIANT TypeOK
INVARIANT NoOrphanProcess
