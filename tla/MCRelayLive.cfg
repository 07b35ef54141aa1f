SPECIFICATION Spec
CONSTANTS
    Deliveries <- TwoDeliveries
    Slots <- TwoSlots
    MaxPairings = 1
    BoxLimit = 1
    Batch = 1
    MaxRelays = 3
    MaxMishaps = 1
PROPERTIES MailIsReceived
CHECK_DEADLOCK FALSE
