SPECIFICATION FairSpec
CONSTANTS
    r1 = r1
    r2 = r2
    Readers <- MCReaders
    Blocks = 3
    MaxVersion = 3
    MaxCrashes = 1
INVARIANTS
    TypeOK
    FileIsOneVersion
    LoadNeverStepsBack
    IntactLoadIsExact
    SavedIsWhole
PROPERTY
    ReplyArrives
    KeepsRegister
