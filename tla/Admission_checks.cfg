CONSTANTS
    r1 = r1  r2 = r2  r3 = r3  o1 = o1  o2 = o2  b1 = b1  b2 = b2  b3 = b3
    NoToken = NoToken
    Requests <- MC_Requests
    Owners <- MC_Owners
    Bodies <- MC_Bodies
    Record <- MC_Record
    InitialAvailable <- MC_InitialAvailable
    FormatAllowed <- MC_FormatAllowed
    ValidBodies <- MC_ValidBodies
    FolderBodies <- MC_FolderBodies
    DBFaults = TRUE
    Serial = TRUE
SPECIFICATION Spec
SYMMETRY MC_Symmetry
INVARIANT TypeOK
