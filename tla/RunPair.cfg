CONSTANTS
    Styles = {"port", "report", "socket", "session"}
    MaxScripts = 2
    RunsPerScript = 2
SPECIFICATION Spec
INVARIANTS NoOrphans OnlyOwnServer SuccessIsOwn
PROPERTIES ClientFindsItsSocket AllReturn
