---------------------------- MODULE ProposalContract ----------------------------
(* What the fix agent promises to the owners of a repository, with no state of  *)
(* a row, no fault and no restart in it: one attempt works at a time, and what  *)
(* it puts on a branch has been proven by that attempt; a draft is opened only  *)
(* from a branch that carries such work.                                        *)

CONSTANTS Fps, Slots, Attempts, None

VARIABLES
    active,         \* the attempt under way, or None
    proven,         \* attempts whose patch was accepted and passed the verifier
    published,      \* <<fingerprint, branch, attempt>>: commits on branches
    drafts          \* <<fingerprint, branch>>: open draft proposals

vars == <<active, proven, published, drafts>>

Init == active = None /\ proven = {} /\ published = {} /\ drafts = {}

Begin(a) ==
    /\ active = None /\ a \notin proven
    /\ active' = a
    /\ UNCHANGED <<proven, published, drafts>>

Prove ==
    /\ active # None
    /\ proven' = proven \cup {active}
    /\ UNCHANGED <<active, published, drafts>>

Publish(f, n) ==
    /\ active \in proven
    /\ published' = published \cup {<<f, n, active>>}
    /\ UNCHANGED <<active, proven, drafts>>

Open(f, n) ==
    /\ <<f, n, active>> \in published
    /\ drafts' = drafts \cup {<<f, n>>}
    /\ UNCHANGED <<active, proven, published>>

\* Done, failed or interrupted; an attempt may end right after it had an effect whose
\* answer was lost.
End ==
    /\ active # None /\ active' = None
    /\ UNCHANGED <<proven, published, drafts>>

\* Humans close and merge.
Close(f, n) ==
    /\ drafts' = drafts \ {<<f, n>>}
    /\ UNCHANGED <<active, proven, published>>

Next ==
    \/ Prove \/ End
    \/ \E a \in Attempts : Begin(a)
    \/ \E f \in Fps, n \in Slots : Publish(f, n) \/ Open(f, n) \/ Close(f, n)

Spec == Init /\ [][Next]_vars
===============================================================================
