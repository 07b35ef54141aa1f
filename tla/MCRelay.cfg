SPECIFICATION Spec
CONSTANTS
    Deliveries <- TwoDeliveries
    Slots <- TwoSlots
    MaxPairings = 2
    BoxLimit = 1
    Batch = 1
    MaxRelays = 2
    MaxMishaps = 1
INVARIANTS AckedIsSaved ConfirmedSurvives RemovalRevokes
PROPERTIES RevokedIsFinal
CHECK_DEADLOCK FALSE
