SPECIFICATION Spec
CONSTANTS
    r1 = r1
    r2 = r2
    Readers <- MCReaders
    Blocks = 2
    MaxVersion = 2
    MaxCrashes = 0
INVARIANT
    RepliesAreComplete
