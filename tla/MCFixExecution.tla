---------------------------- MODULE MCFixExecution ----------------------------
(* Services and bounds for the checks of FixExecution.                        *)
EXTENDS FixExecution, TLC

CONSTANTS f1, f2, old

\* One service on the fix dial with a test command, one on triage without.
MCAutonomy == f1 :> "fix" @@ f2 :> "triage"
MCVerdicts == {f1 :> "edge" @@ f2 :> "high"}
MCHeuristic == f1 :> "low" @@ f2 :> "edge"
===============================================================================
