SPECIFICATION Spec
CONSTANTS
    s1 = s1
    s2 = s2
    s3 = s3
    None = None
    Stations <- ThreeStations
    Configured <- TwoConfigured
    Nearby <- TwoNearby
    Period = 1
    KeepLimit = 2
    MaxDelay = 1
    MaxBack = 1
    MaxFaults = 2
INVARIANTS
    TypeOK
    TrueMeansSaved
    FirstTwoAnswers
    ReadingsAreRecent
