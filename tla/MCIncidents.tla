------------------------------ MODULE MCIncidents ------------------------------
(* One work item, two threads that handle deliveries.                           *)
EXTENDS Incidents

AllCommands == {"drop", "reopen", "explain", "fix"}
===============================================================================
