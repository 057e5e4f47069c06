SPECIFICATION Spec
CONSTANTS
    Texts <- MCTexts
    Files <- MCFiles
    MaxParses = 4
INVARIANTS
    TypeOK
    ParseIsExact
    WholeSectionsOnly
    RoundTrips
PROPERTY ParseReturns
CHECK_DEADLOCK FALSE
