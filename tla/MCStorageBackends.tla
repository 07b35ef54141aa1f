--------------------------- MODULE MCStorageBackends ---------------------------
(* Events and databases for the checks of StorageBackends.                     *)
EXTENDS StorageBackends, TLC

CONSTANTS e1, e2, f1
MCFpOf == [e \in Events |-> f1]
===============================================================================
