SPECIFICATION FairSpec
PROPERTY
    StopReturns
