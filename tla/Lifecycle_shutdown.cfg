CONSTANTS
    MaxPublishes = 7
    MaxSignals = 1
SPECIFICATION FairSpec
INVARIANT RunReturnsAfterServersStop
PROPERTY StopReachesServers
