\* Both caches: three compilers that come and go, two edits, four scripts, any of them killed.
SPECIFICATION Spec
CONSTANTS
    Schemes = {"stamp", "mtime"}
    Configs = {1, 2, 3}
    MaxEdits = 2
    MaxScripts = 4
PROPERTIES
    HalfBuiltIsRebuilt
    HitIsCurrent
    NothingIsBuiltTwice
