CONSTANTS
    e1 = e1  e2 = e2
    Evals = {e1, e2}
    folder <- MCFolder
    model <- MCModel
    MaxRounds = 2
    Seconds = {1, 2}
    LockGiven = TRUE
    Leavers = {e1}
    Nobody = Nobody
SPECIFICATION Spec
INVARIANTS OwnCodeJudged OwnCodeMeasured OneScriptAtATime
PROPERTIES ImplementsOwnMachines EveryoneReturns
