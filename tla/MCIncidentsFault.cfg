SPECIFICATION FairSpec
CONSTANTS
    w1 = w1
    w2 = w2
    Workers = {w1}
    Commands <- AllCommands
    Grace = 1
    Window = 1
    DeployLimit = 1
    MaxBusy = 1
    MaxTime = 3
    MaxEvents = 1
    MaxMerges = 1
    MaxDeploys = 2
    MaxInbox = 2
    MaxMishaps = 1
INVARIANTS SettledIsShut
PROPERTIES VerdictComes
CHECK_DEADLOCK FALSE
