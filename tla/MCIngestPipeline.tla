--------------------------- MODULE MCIngestPipeline ---------------------------
(* Inputs and failure budgets for the checks of IngestPipeline.               *)
EXTENDS IngestPipeline, TLC

CONSTANTS d1, d2, e1, e2, e3, f1, f2

\* Two deliveries that share an event, two fingerprints; one event is critical.
MCBatch == d1 :> <<e1, e2>> @@ d2 :> <<e2, e3>>
MCFpOf == e1 :> f1 @@ e2 :> f1 @@ e3 :> f2
MCSeverityOf == e1 :> "error" @@ e2 :> "error" @@ e3 :> "critical"

Budget(lost, server, rejected, lookup, effect) ==
    [lost |-> lost, server |-> server, rejected |-> rejected, lookup |-> lookup, effect |-> effect]
CreateMishaps == Budget(1, 1, 0, 1, 0)
EffectAndRejection == Budget(0, 0, 1, 0, 1)
===============================================================================
