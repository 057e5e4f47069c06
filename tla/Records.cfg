SPECIFICATION Spec
CONSTANTS
    IntMax = 4194303
    Standard <- MCStandard
    Daylight <- MCDaylight
    SummerEnds = 200
    Columns = 24
    Answers <- MCAnswers
    Garbage = 77
    MaxPeriods = 2
    MaxFetches = 2
INVARIANTS
    TypeOK
    ReadsBack
    PointIsWhole
    ShownIsObserved
    PeriodsShown
    LinesFit
