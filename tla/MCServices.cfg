CONSTANTS
    Requests = {r1, r2}
    MaxRequests = 4
    MaxEdits = 2
SPECIFICATION FairSpec
CHECK_DEADLOCK FALSE
INVARIANTS
    RegisteredOnce
    NewestKeyWorks
PROPERTY ConfigFollowsFile
