CONSTANTS
    r1 = r1  r2 = r2  i1 = i1
    NoId = NoId
    Reqs <- MC_Reqs
    Ids <- MC_Ids
    Skips <- MC_Skips
    Pages <- MC_Pages
    Limits <- MC_Limits
    Faults = FALSE
    MaxRequests = 4
SPECIFICATION Spec
PROPERTY JobSetWrittenWithItsType
