SPECIFICATION Spec
CONSTANTS
    e1 = e1  e2 = e2  f1 = f1
    Backends = {"postgres"}
    Versions = {0, 1, 2, 3, 4, 6, 7}
    Fps = {f1}
    Events = {e1, e2}
    FpOf <- MCFpOf
    Legacy = {e1}
    Entries = {"a", "b"}
    MaxAudit = 3
    MaxPrunes = 1
    MaxTampers = 1
    MaxCrashes = 2
INVARIANT OccurrencesExact
CHECK_DEADLOCK FALSE
