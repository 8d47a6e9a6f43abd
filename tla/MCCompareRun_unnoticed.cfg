SPECIFICATION Spec
CONSTANTS
    NoMetric = NoMetric
    OtherMetrics = OtherMetrics
    Values <- MCValues
    Modes <- AllCompareModes
INVARIANT PrimaryMetricIsEmitted
