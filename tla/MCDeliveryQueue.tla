--------------------------- MODULE MCDeliveryQueue ----------------------------
(* DeliveryQueue for TLC; the cfg gives every constant a value. No symmetry:  *)
(* the run checks liveness, which symmetry would make unsound.                *)
EXTENDS DeliveryQueue
===============================================================================
