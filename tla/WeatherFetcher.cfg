SPECIFICATION Spec
CONSTANTS
    Period = 2
    ForecastLimit = 2
    WeekLimit = 5
    MaxDelay = 1
    MaxFaults = 2
INVARIANTS
    TypeOK
    FreshWhenCalm
