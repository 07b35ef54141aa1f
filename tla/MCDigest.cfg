CONSTANTS
    Fps = {f1}
    Workers = {w1, w2}
    Recent = 1
    Released = 2
    MaxProposals = 1
    MaxBusy = 2
    MaxDay = 2
    MaxIssues = 3
    MaxComments = 2
    MaxMishaps = 1
SPECIFICATION Spec
SYMMETRY Symmetry
CHECK_DEADLOCK FALSE
INVARIANTS
    OneDigestPerDay
    
    TakenForATicket
