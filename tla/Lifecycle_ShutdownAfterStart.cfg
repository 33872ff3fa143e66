CONSTANTS
    MaxPublishes = 7
    MaxSignals = 1
SPECIFICATION FairSpec
PROPERTY ShutdownAfterStart
