SPECIFICATION FairSpec
CONSTANTS
    c1 = c1
    c2 = c2
    c3 = c3
    a1 = a1
    a2 = a2
    None = None
    Conns <- ThreeConns
    Acceptors <- TwoAcceptors
INVARIANTS
    TypeOK
    ThreadHasOwner
    JoinNeverWaitsForClient
    CleanupReaps
    LoopsGoOn
PROPERTY
    ArmedAcceptorServes
