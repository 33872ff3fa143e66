CONSTANTS
    lic = lic  app = app
    Watched <- MC_Watched
    Ext <- MC_Ext
    Docs <- MC_Docs
    MaxUpdates = 2
    MaxTicks = 1
SPECIFICATION Spec
INVARIANT ConfigHoldsLastMerged
