SPECIFICATION Spec
CONSTANTS
    w1 = w1
    w2 = w2
    Workers = {w1}
    Commands <- AllCommands
    Grace = 1
    Window = 1
    DeployLimit = 1
    MaxBusy = 2
    MaxTime = 3
    MaxEvents = 1
    MaxMerges = 1
    MaxDeploys = 1
    MaxInbox = 2
    MaxMishaps = 0
INVARIANTS  DropKept
PROPERTIES AutoFixIsCleared
CHECK_DEADLOCK FALSE
