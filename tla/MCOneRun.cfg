SPECIFICATION Spec
CONSTANT Scripts <- AllSourceModes
INVARIANTS
    FailTextNeverPasses
    CrashPassesOnlyOnItsWord
    NotBlamedOnBuild
    FeedbackMatchesReason
PROPERTY ImplementsRunContract
