SPECIFICATION Spec
CONSTANTS
    Requests <- MCRequests
    Plans <- MCPlans
    Bye = "bye"
    None = "none"
INVARIANTS
    TypeOK
    NeverStuck
PROPERTIES
    KeepsContract
    SessionEnds
