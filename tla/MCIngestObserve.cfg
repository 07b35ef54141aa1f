CONSTANTS
    d1 = d1
    d2 = d2
    e1 = e1
    e2 = e2
    e3 = e3
    f1 = f1
    f2 = f2
    IngestIds = {d1, d2}
    WebhookIds = {}
    Workers = {w1, w2}
    Requests = {}
    NoDelivery = NoDelivery
    NoWorker = NoWorker
    MaxAttempts = 2
    MaxAccepts = 2
    MaxRestarts = 1
    MaxStorageFaults = 0
    Fps = {f1, f2}
    Events = {e1, e2, e3}
    Batch <- MCBatch
    FpOf <- MCFpOf
    SeverityOf <- MCSeverityOf
    Observe = TRUE
    ImmediateCount = 1
    Bursts = {FALSE}
    TicketCap = 1
    CommentFloor = 2
    PostRetries = 1
    MaxMishaps <- EffectAndRejection
    MaxSweeps = 1
SPECIFICATION FairSpec
PROPERTIES
    
    EventsAreDispatchedUnlessMishap
