CONSTANTS
    IngestIds = {i1}
    WebhookIds = {h1}
    Workers = {w1, w2}
    Requests = {r1, r2}
    NoDelivery = NoDelivery
    MaxAttempts = 2
    MaxAccepts = 3
    MaxRestarts = 1
    MaxStorageFaults = 1
SPECIFICATION FairSpec
INVARIANTS
    TypeOK
    OneOwner
    NoOrphan
    BudgetExact
PROPERTIES
    ImplementsContract
    EverySettlesUnlessFault
