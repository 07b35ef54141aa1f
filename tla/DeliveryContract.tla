--------------------------- MODULE DeliveryContract ---------------------------
(* What the durable delivery table promises to a sender, with no thread, no   *)
(* claim and no restart in it: an accepted delivery stays known until its     *)
(* work has been done or its failures have used up the attempt budget, and    *)
(* only a settled delivery may be forgotten.                                  *)
EXTENDS Naturals

CONSTANTS
    Deliveries,     \* delivery ids, (service, delivery_id) in the table
    MaxAttempts     \* failed attempts after which a delivery is dead-lettered

VARIABLES
    phase,          \* phase[d]: what the sender may rely on
    fails,          \* fails[d]: failed attempts charged to d
    done            \* deliveries whose handler has returned since they were accepted

vars == <<phase, fails, done>>

Phases == {"unknown", "accepted", "completed", "dead"}

Init ==
    /\ phase = [d \in Deliveries |-> "unknown"]
    /\ fails = [d \in Deliveries |-> 0]
    /\ done = {}

\* A delivery is accepted once; a repeat of a known one changes nothing.
Accept(d) ==
    /\ phase[d] = "unknown"
    /\ phase' = [phase EXCEPT ![d] = "accepted"]
    /\ fails' = [fails EXCEPT ![d] = 0]
    /\ done' = done \ {d}

\* The work is done, possibly again: delivery to the handler is at-least-once.
Work(d) ==
    /\ phase[d] = "accepted"
    /\ done' = done \cup {d}
    /\ UNCHANGED <<phase, fails>>

Complete(d) ==
    /\ phase[d] = "accepted"
    /\ d \in done
    /\ phase' = [phase EXCEPT ![d] = "completed"]
    /\ UNCHANGED <<fails, done>>

\* A failed attempt is charged; the one that exhausts the budget dead-letters.
Charge(d) ==
    /\ phase[d] = "accepted"
    /\ fails[d] < MaxAttempts
    /\ fails' = [fails EXCEPT ![d] = fails[d] + 1]
    /\ phase' = [phase EXCEPT ![d] = IF fails[d] + 1 = MaxAttempts THEN "dead" ELSE "accepted"]
    /\ UNCHANGED done

Forget(S) ==
    /\ \A d \in S : phase[d] \in {"completed", "dead"}
    /\ phase' = [d \in Deliveries |-> IF d \in S THEN "unknown" ELSE phase[d]]
    /\ UNCHANGED <<fails, done>>

Next ==
    \/ \E d \in Deliveries : Accept(d) \/ Work(d) \/ Complete(d) \/ Charge(d)
    \/ \E S \in SUBSET Deliveries : Forget(S)

Spec == Init /\ [][Next]_vars
===============================================================================
