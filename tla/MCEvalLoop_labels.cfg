SPECIFICATION Spec
CONSTANTS
    MaxRounds = 4
    LlmMaxRetries = 1
    SaveGenerated = TRUE
    Script <- MCScript
    GeneratedPrograms <- MCPrograms
    Labels <- MCLabels
    NoMetric = NoMetric
INVARIANT PriorLabelsTrue
