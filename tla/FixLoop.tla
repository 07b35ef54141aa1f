-------------------------------- MODULE FixLoop --------------------------------
(* The repro-first loop of the fix agent and the sandbox it runs tests in: run *)
(* the suite, write a reproduction, see it fail, then patch until the suite is *)
(* no worse than it was. What the loop knows of the suite is what a run        *)
(* reports: the exit status and the failure lines of a bounded output.         *)
EXTENDS Integers, FiniteSets

CONSTANTS
    Suite,              \* tests of the repository
    Repro,              \* the reproduction test the proposer writes
    MaxIterations       \* patches tried by one attempt

VARIABLE loop

ASSUME FixLoopAssumption ==
    /\ Repro \notin Suite
    /\ MaxIterations \in Nat \ {0}

Tests == Suite \cup {Repro}
Reports == [ok : BOOLEAN, fails : SUBSET Tests]
Running == {"original", "baseline", "run"}
Finished == {"ok", "failed", "raised"}
LoopPcs == {"off", "repro", "patch", "untested"} \cup Running \cup Finished

Loops == [pc : LoopPcs,
          first : SUBSET Tests,         \* what failed in the checkout
          suite : SUBSET Tests,         \* what fails now
          orig : Reports,               \* what the first run reported
          shown : BOOLEAN,              \* the reproduction made something else fail
          iter : 0 .. MaxIterations,
          blind : BOOLEAN]              \* a run it was judged by did not report all that failed

LoopTypeOK == loop \in Loops

\* What a run tells: everything, or, of a run that failed, only part of it. Output is
\* cut to its last 6000 characters, and a suite that cannot be collected names no test.
Complete(suite) == [ok |-> suite = {}, fails |-> suite]
ReportsOf(suite) == {Complete(suite)} \cup
                    {[ok |-> FALSE, fails |-> s] : s \in IF suite = {} THEN {} ELSE SUBSET suite}

NoLoop == [pc |-> "off", first |-> {}, suite |-> {}, orig |-> Complete({}),
           shown |-> FALSE, iter |-> 0, blind |-> FALSE]

LoopInit == loop = NoLoop

\* A checkout in which the tests of S fail.
BeginLoop(tested, S) ==
    loop' = [NoLoop EXCEPT !.pc = IF tested THEN "original" ELSE "untested",
                           !.first = S, !.suite = S]

-------------------------------------------------------------------------------
(* One run of the test command, in a container here or at the test executor. No *)
(* free slot, no container, no answer in time: an exception, never a verdict.   *)

Hides(r) == loop.blind \/ r # Complete(loop.suite)

RunOriginal ==
    /\ loop.pc = "original"
    /\ \E r \in ReportsOf(loop.suite) :
          loop' = [loop EXCEPT !.pc = "repro", !.orig = r, !.blind = Hides(r)]

SandboxFails ==
    /\ loop.pc \in Running
    /\ loop' = [loop EXCEPT !.pc = "raised"]

-------------------------------------------------------------------------------
(* ReproFirstFixer.execute                                                     *)

\* A usable test or an exception. The file may replace one of the suite.
WriteRepro ==
    /\ loop.pc = "repro"
    /\ \/ \E s \in SUBSET (loop.suite \cup {Repro}) :
             loop' = [loop EXCEPT !.pc = "baseline", !.suite = s]
       \/ loop' = [loop EXCEPT !.pc = "raised"]

Distinct(r) == ~r.ok /\ (loop.orig.ok \/ ~(r.fails \subseteq loop.orig.fails))

RunBaseline ==
    /\ loop.pc = "baseline"
    /\ \E r \in ReportsOf(loop.suite) :
          loop' = [loop EXCEPT !.pc = IF Distinct(r) THEN "patch" ELSE "failed",
                               !.shown = ~(loop.suite \subseteq loop.first), !.blind = Hides(r)]

Patch_Uncounted ==
    /\ loop.pc = "patch"
    /\ \E s \in SUBSET Tests : loop' = [loop EXCEPT !.pc = "run", !.suite = s]

\* A patch changes what fails in any way; one that leaves the workspace or touches the
\* reproduction is refused with an exception.
Patch ==
    /\ loop.pc = "patch"
    /\ \/ \E s \in SUBSET Tests :
             loop' = [loop EXCEPT !.pc = "run", !.suite = s, !.iter = loop.iter + 1]
       \/ loop' = [loop EXCEPT !.pc = "raised"]

EqualOrBetter(r) == ~loop.orig.ok /\ loop.orig.fails # {} /\ r.fails \subseteq loop.orig.fails
Accepts_Fewer(r) == r.ok \/ (~loop.orig.ok /\ Cardinality(r.fails) <= Cardinality(loop.orig.fails))

Accepts(r) == r.ok \/ EqualOrBetter(r)

TriesLeft == loop.iter < MaxIterations

RunPatched ==
    /\ loop.pc = "run"
    /\ \E r \in ReportsOf(loop.suite) :
          loop' = IF Accepts(r) THEN [loop EXCEPT !.pc = "ok", !.blind = Hides(r)]
                  ELSE [loop EXCEPT !.pc = IF TriesLeft THEN "patch" ELSE "failed"]

\* UntestedFixer.execute: one patch, contained but never run. No change is a failure.
UntestedPatch ==
    /\ loop.pc = "untested"
    /\ \E pc \in Finished : loop' = [loop EXCEPT !.pc = pc]

LoopStep ==
    \/ RunOriginal \/ WriteRepro \/ RunBaseline \/ Patch \/ RunPatched
    \/ SandboxFails \/ UntestedPatch

-------------------------------------------------------------------------------
(* Properties                                                                  *)

\* A patch is accepted only for a reproduced error it cures: the suite had a failure
\* after the reproduction was written that the checkout had not, the reproduction no
\* longer fails, and nothing fails that did not before. It holds while every run
\* reports all that failed.
AcceptedIsProven ==
    loop.pc = "ok" /\ loop.iter > 0 /\ ~loop.blind =>
        /\ loop.shown
        /\ Repro \notin loop.suite
        /\ loop.suite \subseteq loop.first
===============================================================================
