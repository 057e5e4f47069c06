SPECIFICATION FairSpec
INVARIANTS
    TypeOK
    NoStalePidFile
    JoinedBeforeTeardown
    StopIsUnderWay
PROPERTIES
    SigTermIsCaught
    StopsUnlessMissed
