SPECIFICATION Spec
CONSTANTS
    f1 = f1  f2 = f2  old = old
    Suite = {old}
    Repro = repro
    Fps = {f1, f2}
    HasTests = {f1}
    AllowUntested = {f2}
    Autonomy <- MCAutonomy
    Verdicts <- MCVerdicts
    Heuristic <- MCHeuristic
    MaxIterations = 2
    MaxOpenPrs = 1
    MaxBranches = 2
    MaxRetries = 1
    AuditWindow = 3
    MaxAttempts = 2
    MaxHuman = 2
    MaxMishaps = 1
INVARIANTS AcceptedIsProven FixingHasOwner  TwinsNeedForgeFault 
PROPERTIES ImplementsContract AttemptEnds
CHECK_DEADLOCK FALSE
