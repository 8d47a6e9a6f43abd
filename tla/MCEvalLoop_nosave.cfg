SPECIFICATION Spec
CONSTANTS
    MaxRounds = 2
    LlmMaxRetries = 1
    SaveGenerated = FALSE
    Script <- MCScript
    GeneratedPrograms <- MCPrograms
    Labels <- MCLabels
    NoMetric = NoMetric
INVARIANT SourcePresent
