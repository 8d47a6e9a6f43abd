SPECIFICATION Spec
CONSTANTS
    NoMetric = NoMetric
    OtherMetrics = OtherMetrics
    Values <- MCValues
    Modes <- AllCompareModes
INVARIANTS
    TypeOK
    UnifiedVerdict
    SummarySurvives
    
    NothingMeasuredNeverWins
    MonotoneInGen
