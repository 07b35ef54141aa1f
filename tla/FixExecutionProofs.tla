------------------------------- MODULE FixExecutionProofs -------------------------------
(* The repair loop for any suite and any number of patches, and the executor   *)
(* around it for any fingerprints, services, suffixes, attempts and failures.  *)
EXTENDS FixExecution, TLAPS, FiniteSetTheorems, SequenceTheorems

-------------------------------------------------------------------------------
(* The loop                                                                    *)

\* What the loop has learnt from the runs so far, when each told all that failed.
LoopKnows ==
    /\ loop.first \subseteq Suite
    /\ loop.pc \in {"original", "repro"} => loop.suite = loop.first
    /\ loop.pc \in {"off", "untested", "original", "repro", "baseline"} => loop.iter = 0
    /\ loop.pc = "patch" => loop.iter < MaxIterations
    /\ ~loop.blind /\ loop.pc \in {"repro", "baseline", "patch", "run"} =>
          loop.orig = Complete(loop.first)
    /\ ~loop.blind /\ loop.pc \in {"patch", "run"} => loop.shown

LoopInv == LoopTypeOK /\ LoopKnows /\ AcceptedIsProven

\* The loop that is not running.
LEMMA NoLoopTypes ==
    /\ NoLoop \in Loops /\ NoLoop.pc = "off" /\ NoLoop.first = {} /\ NoLoop.iter = 0
BY FixLoopAssumption DEF NoLoop, Loops, LoopPcs, Reports, Complete

LEMMA NoLoopInv == loop = NoLoop => LoopInv
BY NoLoopTypes DEF LoopInv, LoopTypeOK, LoopKnows, AcceptedIsProven

LEMMA LoopEnds == loop' = NoLoop => LoopInv' /\ loop'.pc = "off"
BY NoLoopTypes DEF LoopInv, LoopTypeOK, LoopKnows, AcceptedIsProven

\* The loop starts on a checkout in which tests of the suite fail.
LEMMA BeginLoopKeeps ==
    ASSUME NEW S \in SUBSET Suite, BeginLoop(job.fp \in HasTests, S)
    PROVE  LoopInv'
<1>1. NoLoop \in Loops
  BY NoLoopTypes
<1>2. loop' \in Loops
  BY <1>1 DEF BeginLoop, Loops, LoopPcs, Running, Tests
<1>3. /\ loop'.pc = (IF job.fp \in HasTests THEN "original" ELSE "untested")
      /\ loop'.first = S /\ loop'.suite = S /\ loop'.iter = 0
  BY <1>1 DEF BeginLoop, NoLoop, Loops
<1>4. LoopKnows' /\ AcceptedIsProven'
  BY <1>3 DEF LoopKnows, AcceptedIsProven
<1> QED
  BY <1>2, <1>4 DEF LoopInv, LoopTypeOK

\* What a run may report, and that it is known whether it hides a failure.
LEMMA ReportTypes ==
    ASSUME LoopTypeOK, NEW r \in ReportsOf(loop.suite)
    PROVE  r \in Reports /\ Hides(r) \in BOOLEAN /\ (~Hides(r) => r = Complete(loop.suite))
<1>1. loop.suite \subseteq Tests /\ loop.blind \in BOOLEAN
  BY DEF LoopTypeOK, Loops
<1>2. r \in Reports
  <2>1. CASE r = Complete(loop.suite)
    BY <1>1, <2>1 DEF Complete, Reports
  <2>2. CASE \E s \in SUBSET loop.suite : r = [ok |-> FALSE, fails |-> s]
    BY <1>1, <2>2 DEF Reports
  <2> QED
    BY <2>1, <2>2 DEF ReportsOf
<1> QED
  BY <1>1, <1>2 DEF Hides

\* The first run is taken for what fails in the checkout.
LEMMA RunOriginalKeeps == ASSUME LoopInv, RunOriginal PROVE LoopInv'
<1>1. PICK r \in ReportsOf(loop.suite) :
         loop' = [loop EXCEPT !.pc = "repro", !.orig = r, !.blind = Hides(r)]
  BY DEF RunOriginal
<1>2. r \in Reports /\ Hides(r) \in BOOLEAN /\ (~Hides(r) => r = Complete(loop.suite))
  BY ReportTypes DEF LoopInv
<1>3. loop \in Loops /\ loop.pc = "original" /\ loop.suite = loop.first
  BY DEF LoopInv, LoopTypeOK, LoopKnows, RunOriginal
<1>4. loop' \in Loops
  BY <1>1, <1>2, <1>3 DEF Loops, LoopPcs
<1>5. /\ loop'.pc = "repro" /\ loop'.orig = r /\ loop'.blind = Hides(r)
      /\ loop'.first = loop.first /\ loop'.suite = loop.suite /\ loop'.iter = loop.iter
  BY <1>1, <1>3 DEF Loops
<1>6. LoopKnows' /\ AcceptedIsProven'
  BY <1>2, <1>3, <1>5 DEF LoopInv, LoopKnows, AcceptedIsProven, Complete
<1> QED
  BY <1>4, <1>6 DEF LoopInv, LoopTypeOK

\* A new test and a patch may change what fails in any way.
LEMMA WriteReproKeeps == ASSUME LoopInv, WriteRepro PROVE LoopInv'
<1>1. loop \in Loops /\ loop.pc = "repro" /\ loop.suite \subseteq Tests
  BY DEF LoopInv, LoopTypeOK, WriteRepro, Loops
<1>2. PICK s \in SUBSET Tests, pc \in {"baseline", "raised"} :
         loop' = [loop EXCEPT !.pc = pc, !.suite = s]
  <2>1. CASE \E s \in SUBSET (loop.suite \cup {Repro}) :
                loop' = [loop EXCEPT !.pc = "baseline", !.suite = s]
    BY <1>1, <2>1 DEF Tests
  <2>2. CASE loop' = [loop EXCEPT !.pc = "raised"]
    <3>1. [loop EXCEPT !.pc = "raised"] = [loop EXCEPT !.pc = "raised", !.suite = loop.suite]
      BY <1>1 DEF Loops
    <3> QED
      BY <1>1, <2>2, <3>1
  <2> QED
    BY <2>1, <2>2 DEF WriteRepro
<1>3. loop' \in Loops
  BY <1>1, <1>2 DEF Loops, LoopPcs, Running, Finished
<1>4. /\ loop'.pc = pc /\ loop'.first = loop.first /\ loop'.orig = loop.orig
      /\ loop'.blind = loop.blind /\ loop'.iter = loop.iter
  BY <1>1, <1>2 DEF Loops
<1>5. LoopKnows' /\ AcceptedIsProven'
  BY <1>1, <1>4 DEF LoopInv, LoopKnows, AcceptedIsProven
<1> QED
  BY <1>3, <1>5 DEF LoopInv, LoopTypeOK

\* The reproduction counts only if something fails that did not fail before.
LEMMA RunBaselineKeeps == ASSUME LoopInv, RunBaseline PROVE LoopInv'
<1>1. PICK r \in ReportsOf(loop.suite) :
         loop' = [loop EXCEPT !.pc = IF Distinct(r) THEN "patch" ELSE "failed",
                              !.shown = ~(loop.suite \subseteq loop.first), !.blind = Hides(r)]
  BY DEF RunBaseline
<1>2. r \in Reports /\ Hides(r) \in BOOLEAN /\ (~Hides(r) => r = Complete(loop.suite))
  BY ReportTypes DEF LoopInv
<1>3. loop \in Loops /\ loop.pc = "baseline"
  BY DEF LoopInv, LoopTypeOK, RunBaseline
<1>4. loop' \in Loops
  BY <1>1, <1>2, <1>3 DEF Loops, LoopPcs, Finished
<1>5. /\ loop'.pc = (IF Distinct(r) THEN "patch" ELSE "failed")
      /\ loop'.shown = ~(loop.suite \subseteq loop.first) /\ loop'.blind = Hides(r)
      /\ loop'.first = loop.first /\ loop'.orig = loop.orig
  BY <1>1, <1>2, <1>3 DEF Loops
<1>6. ~Hides(r) => loop.orig = Complete(loop.first)
  BY <1>3 DEF LoopInv, LoopKnows, Hides
<1>7. ~Hides(r) /\ Distinct(r) => loop'.shown
  <2>1. SUFFICES ASSUME ~Hides(r), Distinct(r) PROVE ~(loop.suite \subseteq loop.first)
    BY <1>5
  <2>2. loop.orig.ok = (loop.first = {}) /\ loop.orig.fails = loop.first
    BY <1>6, <2>1 DEF Complete
  <2>3. r.ok = (loop.suite = {}) /\ r.fails = loop.suite
    BY <1>2, <2>1 DEF Complete
  <2> QED
    BY <2>1, <2>2, <2>3 DEF Distinct
<1>8. loop'.iter = 0 /\ loop.iter = 0 /\ loop.first \subseteq Suite
  BY <1>1, <1>2, <1>3 DEF Loops, LoopInv, LoopKnows
<1>9. LoopKnows' /\ AcceptedIsProven'
  BY <1>3, <1>5, <1>6, <1>7, <1>8, FixLoopAssumption DEF LoopKnows, AcceptedIsProven
<1> QED
  BY <1>4, <1>9 DEF LoopInv, LoopTypeOK

\* A patch is counted, or ends the attempt.
LEMMA PatchKeeps == ASSUME LoopInv, Patch PROVE LoopInv'
<1>1. loop \in Loops /\ loop.pc = "patch" /\ loop.iter \in 0 .. MaxIterations - 1
  <2>1. loop \in Loops /\ loop.pc = "patch" /\ loop.iter < MaxIterations
    BY DEF LoopInv, LoopTypeOK, LoopKnows, Patch
  <2>2. loop.iter \in 0 .. MaxIterations
    BY <2>1 DEF Loops
  <2> QED
    BY <2>1, <2>2, FixLoopAssumption
<1>2. CASE \E s \in SUBSET Tests :
              loop' = [loop EXCEPT !.pc = "run", !.suite = s, !.iter = loop.iter + 1]
  <2>1. PICK s \in SUBSET Tests :
              loop' = [loop EXCEPT !.pc = "run", !.suite = s, !.iter = loop.iter + 1]
    BY <1>2
  <2>2. loop.iter + 1 \in 0 .. MaxIterations
    BY <1>1, FixLoopAssumption
  <2>3. loop' \in Loops
    BY <1>1, <2>1, <2>2 DEF Loops, LoopPcs, Running
  <2>4. /\ loop'.pc = "run" /\ loop'.first = loop.first /\ loop'.orig = loop.orig
        /\ loop'.blind = loop.blind /\ loop'.shown = loop.shown
    BY <1>1, <2>1 DEF Loops
  <2>5. LoopKnows' /\ AcceptedIsProven'
    BY <1>1, <2>4 DEF LoopInv, LoopKnows, AcceptedIsProven
  <2> QED
    BY <2>3, <2>5 DEF LoopInv, LoopTypeOK
<1>3. CASE loop' = [loop EXCEPT !.pc = "raised"]
  <2>1. loop' \in Loops /\ loop'.pc = "raised" /\ loop'.first = loop.first
    BY <1>1, <1>3 DEF Loops, LoopPcs, Finished
  <2>2. LoopKnows' /\ AcceptedIsProven'
    BY <2>1 DEF LoopInv, LoopKnows, AcceptedIsProven
  <2> QED
    BY <2>1, <2>2 DEF LoopInv, LoopTypeOK
<1> QED
  BY <1>2, <1>3 DEF Patch

\* What is accepted passes, or fails with nothing that did not fail before.
LEMMA RunPatchedKeeps == ASSUME LoopInv, RunPatched PROVE LoopInv'
<1>1. PICK r \in ReportsOf(loop.suite) :
         loop' = IF Accepts(r) THEN [loop EXCEPT !.pc = "ok", !.blind = Hides(r)]
                 ELSE [loop EXCEPT !.pc = IF TriesLeft THEN "patch" ELSE "failed"]
  BY DEF RunPatched
<1>2. r \in Reports /\ Hides(r) \in BOOLEAN /\ (~Hides(r) => r = Complete(loop.suite))
  BY ReportTypes DEF LoopInv
<1>3. loop \in Loops /\ loop.pc = "run" /\ loop.first \subseteq Suite
  BY DEF LoopInv, LoopTypeOK, LoopKnows, RunPatched
<1>4. CASE Accepts(r)
  <2>1. loop' \in Loops
    BY <1>1, <1>2, <1>3, <1>4 DEF Loops, LoopPcs, Finished
  <2>2. /\ loop'.pc = "ok" /\ loop'.blind = Hides(r) /\ loop'.first = loop.first
        /\ loop'.suite = loop.suite /\ loop'.shown = loop.shown
    BY <1>1, <1>2, <1>3, <1>4 DEF Loops
  <2>3. ~Hides(r) => loop.shown /\ loop.orig = Complete(loop.first)
    BY <1>3 DEF LoopInv, LoopKnows, Hides
  <2>4. ~Hides(r) => loop.suite \subseteq loop.first
    <3>1. SUFFICES ASSUME ~Hides(r) PROVE loop.suite \subseteq loop.first
      OBVIOUS
    <3>2. loop.orig.ok = (loop.first = {}) /\ loop.orig.fails = loop.first
      BY <2>3, <3>1 DEF Complete
    <3>3. r.ok = (loop.suite = {}) /\ r.fails = loop.suite
      BY <1>2, <3>1 DEF Complete
    <3> QED
      BY <1>4, <3>2, <3>3 DEF Accepts, EqualOrBetter
  <2>5. LoopKnows' /\ AcceptedIsProven'
    BY <1>3, <2>2, <2>3, <2>4, FixLoopAssumption DEF LoopKnows, AcceptedIsProven
  <2> QED
    BY <2>1, <2>5 DEF LoopInv, LoopTypeOK
<1>5. CASE ~Accepts(r)
  <2>1. loop' \in Loops
    BY <1>1, <1>3, <1>5 DEF Loops, LoopPcs, Finished
  <2>2. /\ loop'.pc = (IF TriesLeft THEN "patch" ELSE "failed")
        /\ loop'.blind = loop.blind /\ loop'.first = loop.first
        /\ loop'.orig = loop.orig /\ loop'.shown = loop.shown /\ loop'.iter = loop.iter
    BY <1>1, <1>3, <1>5 DEF Loops
  <2>3. LoopKnows' /\ AcceptedIsProven'
    BY <1>3, <2>2 DEF LoopInv, LoopKnows, AcceptedIsProven, TriesLeft
  <2> QED
    BY <2>1, <2>3 DEF LoopInv, LoopTypeOK
<1> QED
  BY <1>4, <1>5

\* A run that cannot be made, and the one patch of a service without tests.
LEMMA OtherLoopStepsKeep == ASSUME LoopInv, SandboxFails \/ UntestedPatch PROVE LoopInv'
<1>1. PICK pc \in Finished : /\ loop' = [loop EXCEPT !.pc = pc]
                             /\ pc = "raised" \/ loop.pc = "untested"
  BY DEF SandboxFails, UntestedPatch, Finished
<1>2. loop \in Loops
  BY DEF LoopInv, LoopTypeOK
<1>3. /\ loop' \in Loops /\ loop'.pc = pc /\ loop'.first = loop.first /\ loop'.iter = loop.iter
  BY <1>1, <1>2 DEF Loops, LoopPcs
<1>4. LoopKnows'
  BY <1>1, <1>3 DEF LoopInv, LoopKnows, Finished
<1>5. AcceptedIsProven'
  BY <1>1, <1>3, FixLoopAssumption DEF LoopInv, LoopKnows, AcceptedIsProven
<1> QED
  BY <1>3, <1>4, <1>5 DEF LoopInv, LoopTypeOK

\* A step of the loop is none that ends it without a result.
LEMMA LoopStepKeeps ==
    ASSUME LoopInv, LoopStep PROVE LoopInv' /\ loop.pc # "off" /\ loop'.pc # "off"
<1>1. LoopInv'
  BY RunOriginalKeeps, WriteReproKeeps, RunBaselineKeeps, PatchKeeps, RunPatchedKeeps,
     OtherLoopStepsKeep DEF LoopStep
<1>2. loop \in Loops /\ loop.pc # "off"
  BY DEF LoopInv, LoopTypeOK, LoopStep, RunOriginal, WriteRepro, RunBaseline, Patch, RunPatched,
         SandboxFails, UntestedPatch, Running
<1>3. loop'.pc # "off"
  <2>1. CASE RunPatched
    BY <1>2, <2>1 DEF RunPatched, Loops
  <2>2. CASE RunBaseline \/ RunOriginal
    BY <1>2, <2>2 DEF RunBaseline, RunOriginal, Loops
  <2>3. CASE WriteRepro \/ Patch
    BY <1>2, <2>3 DEF WriteRepro, Patch, Loops
  <2>4. CASE SandboxFails \/ UntestedPatch
    BY <1>2, <2>4 DEF SandboxFails, UntestedPatch, Loops, Finished
  <2> QED
    BY <2>1, <2>2, <2>3, <2>4 DEF LoopStep
<1> QED
  BY <1>1, <1>2, <1>3

-------------------------------------------------------------------------------
(* The executor                                                                *)

\* While an attempt is under way it holds no row that says so, and what it has
\* published says so no longer.
OwnerKnown ==
    /\ job.pc # "idle" => job.snap.state # "fixing"
    /\ job.pc = "log" => row[job.fp].state # "fixing"

\* The attempt under way has a place under the cap from its first moment on.
Claimed == {f \in Fps : Counted(f) \/ (job.pc # "idle" /\ job.fp = f)}
PlaceClaimed == Cardinality(Claimed) <= MaxOpenPrs

\* What the attempt has achieved when it gets to a step of the publication.
Publishing == {"branch", "bind", "commit", "open", "publish"}
ProvenKnown ==
    /\ job.pc # "idle" => tries > 0
    /\ job.pc \in Publishing => tries \in proven /\ job.n \in Slots
    /\ job.pc \in {"open", "publish"} => tries \in commits[job.fp][job.n]

\* While no call to the forge fails, only the first branch of a fingerprint is used.
FirstBranchOnly ==
    mishaps.forge = 0 =>
        /\ \A f \in Fps : row[f].branch \in {0, 1} /\ drafts[f] \subseteq {1}
        /\ job.snap.branch \in {0, 1} /\ job.n \in {0, 1}

\* While nothing fails, the row, the one that was read and the branch in use agree.
BranchKnown ==
    Mishaps = 0 =>
        /\ \A f \in Fps : drafts[f] \subseteq {row[f].branch}
        /\ job.pc \in {"reserve", "prepare", "fixing", "verify", "branch", "bind", "except"} =>
              row[job.fp].branch = job.snap.branch
        /\ job.pc \in {"branch", "bind"} => job.n = FirstBranch
        /\ job.pc \in {"commit", "open", "publish"} => row[job.fp].branch = job.n

IInv ==
    /\ TypeOK /\ LoopInv
    /\ FixingHasOwner /\ OwnerKnown
    /\ PlaceClaimed /\ ProvenKnown /\ FirstBranchOnly /\ BranchKnown

\* The assumptions on single constants.
LEMMA Bounds ==
    /\ MaxBranches \in Nat \ {0} /\ AuditWindow \in Nat \ {0}
    /\ MaxOpenPrs \in Nat /\ MaxRetries \in Nat
    /\ MaxAttempts \in Nat /\ MaxHuman \in Nat /\ MaxMishaps \in Nat
BY FixExecutionAssumption

\* No attempt, and no branch, is a job.
LEMMA NoJobTypes ==
    /\ NoJob \in Jobs /\ NoJob.pc = "idle" /\ NoJob.fp \in Fps /\ NoJob.n = 0
    /\ NoJob.snap \in Rows /\ NoJob.snap.branch = 0
    /\ NewRow \in Rows /\ NewRow.state = "open" /\ NewRow.branch = 0
<1>1. /\ NewRow \in Rows /\ NewRow.state = "open" /\ NewRow.branch = 0
  BY Bounds DEF NewRow, Rows, States
<1>2. (CHOOSE f \in Fps : TRUE) \in Fps
  BY FixExecutionAssumption
<1>3. 0 \in 0 .. MaxBranches
  BY Bounds
<1> QED
  BY <1>1, <1>2, <1>3 DEF NoJob, Jobs, Pcs, Hows

\* The rows an attempt saves.
LEMMA RowTypes ==
    ASSUME TypeOK
    PROVE  /\ job.pc \in Pcs /\ job.fp \in Fps /\ job.how \in Hows
           /\ job.n \in 0 .. MaxBranches
           /\ row[job.fp] \in Rows /\ job.snap \in Rows
           /\ job.snap.branch \in 0 .. MaxBranches
           /\ FailState \in {"open", "awaiting"}
           /\ Restored \in Rows /\ Restored.state = FailState
           /\ Restored.branch = job.snap.branch
           /\ Candidate \in Rows /\ Candidate.state = job.snap.state
           /\ Candidate.branch = job.snap.branch
<1>1. /\ job.pc \in Pcs /\ job.fp \in Fps /\ job.how \in Hows
      /\ job.n \in 0 .. MaxBranches /\ job.snap \in Rows
  BY DEF TypeOK, Jobs
<1>2. row[job.fp] \in Rows /\ FailState \in {"open", "awaiting"}
  BY <1>1 DEF TypeOK, FailState
<1>3. job.snap.branch \in 0 .. MaxBranches
  BY <1>1 DEF Rows
<1>4. Restored \in Rows /\ Restored.state = FailState /\ Restored.branch = job.snap.branch
  BY <1>1, <1>2 DEF Restored, Rows, States
<1>5. Candidate \in Rows /\ Candidate.state = job.snap.state /\ Candidate.branch = job.snap.branch
  BY <1>1 DEF Candidate, Rows
<1> QED
  BY <1>1, <1>2, <1>3, <1>4, <1>5

\* A line is appended, and the oldest one may go out of sight.
LEMMA LogTypes ==
    ASSUME TypeOK, NEW f \in Fps, NEW line \in {"rca", "retry", "other"}, Log(f, line)
    PROVE  trail' \in [Fps -> Trails]
<1> DEFINE s == Append(trail[f], line)
           E == {"rca", "retry", "other"}
<1>1. trail[f] \in Seq(E) /\ Len(trail[f]) <= AuditWindow
  BY DEF TypeOK, Trails
<1>2. s \in Seq(E) /\ Len(s) = Len(trail[f]) + 1 /\ Len(trail[f]) \in Nat
  BY <1>1
<1>3. Written(f, line) \in Trails
  <2>1. CASE Len(s) > AuditWindow
    <3>1. Len(s) \in Nat /\ Len(s) - AuditWindow + 1 \in Int
      BY <1>2, Bounds
    <3>2. \A i \in Len(s) - AuditWindow + 1 .. Len(s) : s[i] \in E
      BY <1>2, <2>1, Bounds, ElementOfSeq
    <3>3. Window(s) \in Seq(E) /\ Len(Window(s)) = AuditWindow
      <4> HIDE DEF s, E
      <4>1. /\ Window(s) \in Seq(E)
            /\ Len(Window(s)) = IF Len(s) - AuditWindow + 1 <= Len(s)
                               THEN Len(s) - (Len(s) - AuditWindow + 1) + 1 ELSE 0
        BY <3>1, <3>2, SubSeqProperties DEF Window
      <4> QED
        BY <3>1, <4>1, Bounds
    <3> QED
      BY <2>1, <3>3, Bounds DEF Written, Trails
  <2>2. CASE ~(Len(s) > AuditWindow)
    BY <1>2, <2>2, Bounds DEF Written, Trails
  <2> QED
    BY <2>1, <2>2
<1> QED
  BY <1>3 DEF Log, TypeOK

\* A mishap is counted.
LEMMA MishapTypes ==
    ASSUME TypeOK, NEW kind \in {"forge", "storage", "crash"}, Mishap(kind)
    PROVE  /\ mishaps' \in MishapCounts /\ Mishaps' <= MaxMishaps /\ Mishaps' # 0
           /\ kind = "forge" => mishaps'.forge # 0
           /\ mishaps'.forge = 0 => mishaps.forge = 0
<1>1. /\ mishaps \in MishapCounts /\ Mishaps < MaxMishaps
      /\ mishaps' = [mishaps EXCEPT ![kind] = @ + 1]
  BY DEF TypeOK, Mishap
<1>2. CASE kind = "forge"
  <2>1. mishaps' \in MishapCounts /\ mishaps'.forge = mishaps.forge + 1
        /\ mishaps'.storage = mishaps.storage /\ mishaps'.crash = mishaps.crash
    BY <1>1, <1>2 DEF MishapCounts
  <2> QED
    BY <1>1, <1>2, <2>1, Bounds DEF MishapCounts, Mishaps
<1>3. CASE kind = "storage"
  <2>1. mishaps' \in MishapCounts /\ mishaps'.forge = mishaps.forge
        /\ mishaps'.storage = mishaps.storage + 1 /\ mishaps'.crash = mishaps.crash
    BY <1>1, <1>3 DEF MishapCounts
  <2> QED
    BY <1>1, <1>3, <2>1, Bounds DEF MishapCounts, Mishaps
<1>4. CASE kind = "crash"
  <2>1. mishaps' \in MishapCounts /\ mishaps'.forge = mishaps.forge
        /\ mishaps'.storage = mishaps.storage /\ mishaps'.crash = mishaps.crash + 1
    BY <1>1, <1>4 DEF MishapCounts
  <2> QED
    BY <1>1, <1>4, <2>1, Bounds DEF MishapCounts, Mishaps
<1> QED
  BY <1>2, <1>3, <1>4

\* Going on to another step.
LEMMA GotoTypes ==
    ASSUME TypeOK, NEW pc \in Pcs, Goto(pc)
    PROVE  /\ job' \in Jobs /\ job'.pc = pc
           /\ job'.fp = job.fp /\ job'.how = job.how /\ job'.snap = job.snap /\ job'.n = job.n
BY DEF TypeOK, Jobs, Goto

\* An attempt is asked for, or refused.
LEMMA RequestTypes ==
    ASSUME IInv, NEW f \in Fps, NEW how \in Hows, Request(f, how)
    PROVE  /\ TypeOK'
           /\ job'.pc = "reserve" /\ job'.fp = f /\ job'.how = how /\ job'.snap = row[f]
           /\ job'.n = 0
<1> USE DEF IInv
<1>1. /\ job'.pc = "reserve" /\ job'.fp = f /\ job'.how = how /\ job'.snap = row[f]
      /\ job'.n = 0
  BY NoJobTypes DEF Request, Jobs
<1>2. job' \in Jobs
  BY NoJobTypes DEF Request, Jobs, Pcs, TypeOK
<1>3. trail' \in [Fps -> Trails]
  BY LogTypes DEF Request, TypeOK
<1>4. tries' \in 0 .. MaxAttempts /\ proven' \subseteq 1 .. tries'
  BY Bounds DEF Request, TypeOK
<1>5. job.pc = "idle" /\ UNCHANGED <<row, grade, orphaned, forgeVars, budgets, loop>>
  BY DEF Request
<1> QED
  BY <1>1, <1>2, <1>3, <1>4, <1>5 DEF TypeOK, LoopTypeOK, forgeVars, budgets, Mishaps

LEMMA RefuseTypes ==
    ASSUME IInv, NEW f \in Fps, NEW how \in Hows, Refuse(f, how)
    PROVE  TypeOK'
<1> USE DEF IInv
<1>1. trail' \in [Fps -> Trails] /\ human' \in 0 .. MaxHuman
  BY LogTypes, Bounds DEF Refuse, TypeOK
<1> QED
  BY <1>1 DEF Refuse, TypeOK, LoopTypeOK, forgeVars, Mishaps

\* What ends an attempt, or one that is restored.
LEMMA GiveUpTypes ==
    ASSUME TypeOK, GiveUp
    PROVE  /\ row' \in [Fps -> Rows] /\ trail' \in [Fps -> Trails]
           /\ job' = NoJob /\ job' \in Jobs /\ job'.pc = "idle"
           /\ UNCHANGED <<grade, proven, orphaned, tries, forgeVars, budgets>>
BY RowTypes, NoJobTypes, LogTypes DEF GiveUp, Saved, TypeOK

\* The steps of an attempt.
LEMMA JobStepTypes ==
    ASSUME IInv, JobStep
    PROVE  TypeOK' /\ LoopInv'
<1> USE DEF IInv
<1>1. CASE Reserve
  <2>1. [job.snap EXCEPT !.state = "fixing"] \in Rows
    BY RowTypes DEF Rows, States
  <2>2. row' \in [Fps -> Rows] /\ job' \in Jobs /\ job'.pc = "prepare" /\ loop.pc = "off"
    BY <1>1, <2>1, GotoTypes DEF Reserve, Saved, TypeOK, Pcs
  <2>3. UNCHANGED <<grade, trail, proven, orphaned, tries, forgeVars, budgets, loop>>
    BY <1>1 DEF Reserve
  <2>4. TypeOK'
    BY <2>2, <2>3 DEF TypeOK, LoopTypeOK, forgeVars, budgets, Mishaps
  <2> QED
    BY <2>3, <2>4 DEF LoopInv, LoopTypeOK, LoopKnows, AcceptedIsProven
<1>2. CASE Prepare
  <2>1. /\ job.pc = "prepare" /\ loop.pc = "off"
        /\ UNCHANGED <<row, grade, trail, proven, orphaned, tries, forgeVars, budgets>>
    BY <1>2 DEF Prepare, TypeOK
  <2>2. CASE Goto("except") /\ UNCHANGED loop
    <3>1. TypeOK'
      BY <2>1, <2>2, GotoTypes DEF TypeOK, LoopTypeOK, forgeVars, budgets, Mishaps, Pcs
    <3> QED
      BY <2>2, <3>1 DEF LoopInv, LoopTypeOK, LoopKnows, AcceptedIsProven
  <2>3. CASE Goto("fixing") /\ \E S \in SUBSET Suite : BeginLoop(job.fp \in HasTests, S)
    <3>1. LoopInv'
      BY <2>3, BeginLoopKeeps
    <3>2. loop'.pc # "off"
      BY <2>3, NoLoopTypes DEF BeginLoop, Loops
    <3>3. TypeOK'
      BY <2>1, <2>3, <3>1, <3>2, GotoTypes
      DEF TypeOK, LoopInv, forgeVars, budgets, Mishaps, Pcs
    <3> QED
      BY <3>1, <3>3
  <2> QED
    BY <1>2, <2>2, <2>3 DEF Prepare
<1>3. CASE Fixing
  <2>1. LoopInv' /\ loop'.pc # "off" /\ job.pc = "fixing"
    BY <1>3, LoopStepKeeps DEF Fixing
  <2>2. UNCHANGED <<row, trail, job, proven, orphaned, tries, grade, forgeVars, budgets>>
    BY <1>3 DEF Fixing, execVars
  <2> QED
    BY <2>1, <2>2 DEF TypeOK, LoopInv, forgeVars, budgets, Mishaps
<1>4. CASE Fixed
  <2>1. LoopInv' /\ loop'.pc = "off"
    BY <1>4, LoopEnds DEF Fixed
  <2>2. CASE GiveUp
    BY <2>1, <2>2, GiveUpTypes DEF TypeOK, LoopInv, forgeVars, budgets, Mishaps
  <2>3. CASE /\ Goto(IF loop.pc = "ok" THEN "verify" ELSE "except")
             /\ UNCHANGED <<row, grade, trail, proven, orphaned, tries, forgeVars, budgets>>
    <3>1. job' \in Jobs /\ job'.pc \in {"verify", "except"}
      BY <2>3, GotoTypes DEF Pcs
    <3> QED
      BY <2>1, <2>3, <3>1 DEF TypeOK, LoopInv, forgeVars, budgets, Mishaps
  <2> QED
    BY <1>4, <2>2, <2>3 DEF Fixed
<1>5. CASE Verify
  <2>1. job.pc = "verify" /\ UNCHANGED loop
    BY <1>5 DEF Verify
  <2>2. CASE GiveUp
    <3>1. TypeOK'
      BY <2>1, <2>2, GiveUpTypes DEF TypeOK, LoopTypeOK, forgeVars, budgets, Mishaps
    <3> QED
      BY <2>1, <3>1 DEF LoopInv, LoopTypeOK, LoopKnows, AcceptedIsProven
  <2>3. CASE ~GiveUp
    <3>1. /\ proven' = proven \cup {tries} /\ Log(job.fp, "other")
          /\ job' = [job EXCEPT !.pc = "branch", !.n = FirstBranch]
          /\ UNCHANGED <<row, grade, orphaned, tries, forgeVars, budgets, loop>>
      BY <1>5, <2>3 DEF Verify
    <3>2. FirstBranch \in 0 .. MaxBranches
      BY RowTypes, Bounds DEF FirstBranch
    <3>3. job' \in Jobs /\ job'.pc = "branch"
      BY <3>1, <3>2 DEF TypeOK, Jobs, Pcs
    <3>4. trail' \in [Fps -> Trails]
      BY <3>1, LogTypes, RowTypes
    <3>5. tries > 0 /\ tries \in Nat
      BY <2>1, Bounds DEF ProvenKnown, TypeOK
    <3>6. TypeOK'
      BY <2>1, <3>1, <3>3, <3>4, <3>5 DEF TypeOK, LoopTypeOK, forgeVars, budgets, Mishaps
    <3> QED
      BY <2>1, <3>6 DEF LoopInv, LoopTypeOK, LoopKnows, AcceptedIsProven
  <2> QED
    BY <2>2, <2>3
<1>6. CASE CreateBranch
  <2>1. PICK o \in Outcomes :
          /\ Answer(o)
          /\ branches' = IF o.effect THEN [branches EXCEPT ![job.fp] = @ \cup {job.n}] ELSE branches
          /\ IF o.answer THEN Goto("bind")
             ELSE IF job.n < MaxBranches THEN job' = [job EXCEPT !.n = @ + 1]
             ELSE job' = [job EXCEPT !.pc = "except", !.n = 0]
    BY <1>6 DEF CreateBranch
  <2>2. /\ job.pc = "branch" /\ job.n \in Slots
        /\ UNCHANGED <<row, grade, trail, proven, orphaned, tries, commits, drafts, human, loop>>
    BY <1>6 DEF CreateBranch, ProvenKnown, Publishing
  <2>3. job' \in Jobs /\ job'.pc \in {"bind", "branch", "except"}
    <3>1. CASE o.answer
      BY <2>1, <3>1, GotoTypes DEF Pcs
    <3>2. CASE ~o.answer /\ job.n < MaxBranches
      <4>1. job.n + 1 \in 0 .. MaxBranches
        BY <2>2, <3>2, Bounds DEF Slots
      <4> QED
        BY <2>1, <2>2, <3>2, <4>1 DEF TypeOK, Jobs
    <3>3. CASE ~o.answer /\ ~(job.n < MaxBranches)
      <4>1. 0 \in 0 .. MaxBranches
        BY Bounds
      <4> QED
        BY <2>1, <3>3, <4>1 DEF TypeOK, Jobs, Pcs
    <3> QED
      BY <3>1, <3>2, <3>3
  <2>4. branches' \in [Fps -> SUBSET Slots]
    BY <2>1, <2>2 DEF TypeOK
  <2>5. mishaps' \in MishapCounts /\ Mishaps' <= MaxMishaps
    BY <2>1, MishapTypes DEF Answer, TypeOK, Mishaps
  <2>6. TypeOK'
    BY <2>2, <2>3, <2>4, <2>5 DEF TypeOK, LoopTypeOK
  <2> QED
    BY <2>2, <2>6 DEF LoopInv, LoopTypeOK, LoopKnows, AcceptedIsProven
<1>7. CASE Bind
  <2>1. /\ job.pc = "bind" /\ Goto("commit")
        /\ UNCHANGED <<grade, trail, proven, orphaned, tries, forgeVars, budgets, loop>>
    BY <1>7 DEF Bind
  <2>2. [Candidate EXCEPT !.branch = job.n] \in Rows
    BY RowTypes DEF Rows
  <2>3. row' \in [Fps -> Rows]
    BY <1>7, <2>2 DEF Bind, Saved, TypeOK
  <2>4. TypeOK'
    BY <2>1, <2>3, GotoTypes DEF TypeOK, LoopTypeOK, forgeVars, budgets, Mishaps, Pcs
  <2> QED
    BY <2>1, <2>4 DEF LoopInv, LoopTypeOK, LoopKnows, AcceptedIsProven
<1>8. CASE Commit
  <2>1. PICK o \in Outcomes :
          /\ Answer(o)
          /\ commits' = IF o.effect THEN [commits EXCEPT ![job.fp][job.n] = @ \cup {tries}] ELSE commits
          /\ Goto(IF o.answer THEN "open" ELSE "except")
    BY <1>8 DEF Commit
  <2>2. /\ job.pc = "commit" /\ job.n \in Slots /\ tries \in 1 .. MaxAttempts
        /\ UNCHANGED <<row, grade, trail, proven, orphaned, tries, branches, drafts, human, loop>>
    BY <1>8, Bounds DEF Commit, ProvenKnown, Publishing, TypeOK
  <2>3. job' \in Jobs /\ job'.pc \in {"open", "except"}
    BY <2>1, GotoTypes DEF Pcs
  <2>4. commits' \in [Fps -> [Slots -> SUBSET (1 .. MaxAttempts)]]
    BY <2>1, <2>2 DEF TypeOK
  <2>5. mishaps' \in MishapCounts /\ Mishaps' <= MaxMishaps
    BY <2>1, MishapTypes DEF Answer, TypeOK, Mishaps
  <2>6. TypeOK'
    BY <2>2, <2>3, <2>4, <2>5 DEF TypeOK, LoopTypeOK
  <2> QED
    BY <2>2, <2>6 DEF LoopInv, LoopTypeOK, LoopKnows, AcceptedIsProven
<1>9. CASE OpenDraft
  <2>1. PICK o \in Outcomes :
          /\ Answer(o)
          /\ drafts' = IF o.effect THEN [drafts EXCEPT ![job.fp] = @ \cup {job.n}] ELSE drafts
          /\ Goto(IF o.answer THEN "publish" ELSE "except")
    BY <1>9 DEF OpenDraft
  <2>2. /\ job.pc = "open" /\ job.n \in Slots
        /\ UNCHANGED <<row, grade, trail, proven, orphaned, tries, branches, commits, human, loop>>
    BY <1>9 DEF OpenDraft, ProvenKnown, Publishing
  <2>3. job' \in Jobs /\ job'.pc \in {"publish", "except"}
    BY <2>1, GotoTypes DEF Pcs
  <2>4. drafts' \in [Fps -> SUBSET Slots]
    BY <2>1, <2>2 DEF TypeOK
  <2>5. mishaps' \in MishapCounts /\ Mishaps' <= MaxMishaps
    BY <2>1, MishapTypes DEF Answer, TypeOK, Mishaps
  <2>6. TypeOK'
    BY <2>2, <2>3, <2>4, <2>5 DEF TypeOK, LoopTypeOK
  <2> QED
    BY <2>2, <2>6 DEF LoopInv, LoopTypeOK, LoopKnows, AcceptedIsProven
<1>10. CASE PublishRow
  <2>1. /\ job.pc = "publish" /\ Goto("log")
        /\ UNCHANGED <<grade, trail, proven, orphaned, tries, forgeVars, budgets, loop>>
    BY <1>10 DEF PublishRow
  <2>2. [Candidate EXCEPT !.state = "awaiting", !.branch = job.n, !.url = TRUE] \in Rows
    BY RowTypes DEF Rows, States
  <2>3. row' \in [Fps -> Rows]
    BY <1>10, <2>2 DEF PublishRow, Saved, TypeOK
  <2>4. TypeOK'
    BY <2>1, <2>3, GotoTypes DEF TypeOK, LoopTypeOK, forgeVars, budgets, Mishaps, Pcs
  <2> QED
    BY <2>1, <2>4 DEF LoopInv, LoopTypeOK, LoopKnows, AcceptedIsProven
<1>11. CASE Delivered
  <2>1. /\ job.pc = "log" /\ job' = NoJob
        /\ UNCHANGED <<row, grade, proven, orphaned, tries, forgeVars, budgets, loop>>
    BY <1>11 DEF Delivered
  <2>2. trail' \in [Fps -> Trails]
    BY <1>11, LogTypes, RowTypes DEF Delivered
  <2>3. TypeOK'
    BY <2>1, <2>2, NoJobTypes DEF TypeOK, LoopTypeOK, forgeVars, budgets, Mishaps
  <2> QED
    BY <2>1, <2>3 DEF LoopInv, LoopTypeOK, LoopKnows, AcceptedIsProven
<1>12. CASE Except
  <2>1. job.pc = "except" /\ GiveUp /\ UNCHANGED loop
    BY <1>12 DEF Except, GiveUp
  <2>2. TypeOK'
    BY <2>1, GiveUpTypes DEF TypeOK, LoopTypeOK, forgeVars, budgets, Mishaps
  <2> QED
    BY <2>1, <2>2 DEF LoopInv, LoopTypeOK, LoopKnows, AcceptedIsProven
<1> QED
  BY <1>1, <1>2, <1>3, <1>4, <1>5, <1>6, <1>7, <1>8, <1>9, <1>10, <1>11, <1>12 DEF JobStep

\* A write fails, or the process dies.
LEMMA FaultTypes ==
    ASSUME IInv, StorageFault \/ Crash
    PROVE  TypeOK' /\ LoopInv'
<1> USE DEF IInv
<1>1. CASE StorageFault
  <2>1. mishaps' \in MishapCounts /\ Mishaps' <= MaxMishaps
    BY <1>1, MishapTypes DEF StorageFault
  <2>2. job' \in Jobs /\ job'.pc \in {"idle", "except"} /\ orphaned' \subseteq Fps
    BY <1>1, GotoTypes, NoJobTypes, RowTypes DEF StorageFault, TypeOK, Pcs
  <2>3. TypeOK'
    BY <1>1, <2>1, <2>2 DEF StorageFault, TypeOK, LoopTypeOK, forgeVars
  <2> QED
    BY <1>1, <2>3 DEF StorageFault, LoopInv, LoopTypeOK, LoopKnows, AcceptedIsProven
<1>2. CASE Crash
  <2>1. mishaps' \in MishapCounts /\ Mishaps' <= MaxMishaps
    BY <1>2, MishapTypes DEF Crash
  <2>2. LoopInv' /\ loop'.pc = "off"
    BY <1>2, LoopEnds DEF Crash
  <2> QED
    BY <1>2, <2>1, <2>2, NoJobTypes, RowTypes DEF Crash, TypeOK, LoopInv, forgeVars
<1> QED
  BY <1>1, <1>2

\* What humans, commands and the other loops do to the row of a fingerprint: it never
\* takes a place under the cap and never gets another branch.
LEMMA OtherSteps ==
    ASSUME IInv, Others
    PROVE  \E f \in Fps, r \in Rows :
              /\ row' = [row EXCEPT ![f] = r]
              /\ r = row[f] \/ r.state \in {"dropped", "reopened", "closed", "verifying", "verified"}
              /\ r.branch = row[f].branch
              /\ \A g \in Fps : drafts'[g] \subseteq drafts[g]
              /\ drafts' \in [Fps -> SUBSET Slots] /\ human' \in 0 .. MaxHuman
              /\ UNCHANGED <<grade, trail, job, proven, orphaned, tries, branches, commits,
                             mishaps, loop>>
<1> USE DEF IInv
<1>1. PICK f \in Fps : \/ Drop(f) \/ Reopen(f) \/ Silent(f) \/ Verified(f)
                       \/ \E n \in Slots : CloseDraft(f, n) \/ Merge(f, n)
  BY DEF Others
<1>2. row \in [Fps -> Rows] /\ row[f] \in Rows /\ drafts \in [Fps -> SUBSET Slots]
  BY DEF TypeOK
<1>3. human' \in 0 .. MaxHuman
  BY <1>1, Bounds DEF Drop, Reopen, Silent, Verified, CloseDraft, Merge, Act, TypeOK
<1>4. drafts' \in [Fps -> SUBSET Slots] /\ \A g \in Fps : drafts'[g] \subseteq drafts[g]
  BY <1>1, <1>2 DEF Drop, Reopen, Silent, Verified, CloseDraft, Merge
<1>5. PICK r : /\ ByOthers(f, r)
               /\ \/ r \in {row[f]} \cup {[row[f] EXCEPT !.state = s] :
                             s \in {"dropped", "reopened", "closed", "verifying", "verified"}}
                  \/ r = [row[f] EXCEPT !.state = "reopened", !.chronic = TRUE]
  <2>1. CASE Drop(f) \/ Reopen(f) \/ Silent(f)
    BY <2>1 DEF Drop, Reopen, Silent
  <2>2. CASE Verified(f)
    BY <2>2 DEF Verified
  <2>3. CASE \E n \in Slots : CloseDraft(f, n) \/ Merge(f, n)
    BY <2>3 DEF CloseDraft, Merge
  <2> QED
    BY <1>1, <2>1, <2>2, <2>3
<1>6. /\ r \in Rows /\ r.branch = row[f].branch
      /\ r = row[f] \/ r.state \in {"dropped", "reopened", "closed", "verifying", "verified"}
  BY <1>2, <1>5 DEF Rows, States
<1> QED
  BY <1>3, <1>4, <1>5, <1>6 DEF ByOthers

LEMMA OtherTypes ==
    ASSUME IInv, Others
    PROVE  TypeOK' /\ LoopInv'
<1>1. PICK f \in Fps, r \in Rows :
         /\ row' = [row EXCEPT ![f] = r]
         /\ drafts' \in [Fps -> SUBSET Slots] /\ human' \in 0 .. MaxHuman
         /\ UNCHANGED <<grade, trail, job, proven, orphaned, tries, branches, commits, mishaps, loop>>
  BY OtherSteps
<1>2. TypeOK'
  BY <1>1 DEF IInv, TypeOK, LoopTypeOK, Mishaps
<1> QED
  BY <1>1, <1>2 DEF IInv, LoopInv, LoopTypeOK, LoopKnows, AcceptedIsProven

\* Types are kept by every step, and so is what the loop knows.
LEMMA TypesKept == IInv /\ [Next]_vars => TypeOK' /\ LoopInv'
<1> SUFFICES ASSUME IInv, [Next]_vars PROVE TypeOK' /\ LoopInv'
  OBVIOUS
<1>1. ASSUME NEW f \in Fps, NEW how \in Hows, Request(f, how) \/ Refuse(f, how)
      PROVE  TypeOK' /\ LoopInv'
  <2>1. TypeOK'
    BY <1>1, RequestTypes, RefuseTypes
  <2> QED
    BY <1>1, <2>1 DEF Request, Refuse, IInv, LoopInv, LoopTypeOK, LoopKnows, AcceptedIsProven
<1>2. CASE JobStep \/ StorageFault \/ Crash \/ Others
  BY <1>2, JobStepTypes, FaultTypes, OtherTypes
<1>3. CASE UNCHANGED vars
  BY <1>3 DEF vars, execVars, forgeVars, budgets, IInv, TypeOK, LoopInv, LoopTypeOK, LoopKnows,
              AcceptedIsProven, Mishaps
<1> QED
  BY <1>1, <1>2, <1>3 DEF Next

\* A step that saves nothing and goes on with the same attempt, or ends it after the
\* row was left in a state that blocks nothing, or counts it as cut short.
LEMMA QuietSteps ==
    ASSUME IInv,
           \/ Prepare \/ Fixing \/ (Fixed /\ ~GiveUp) \/ (Verify /\ ~GiveUp) \/ CreateBranch
           \/ Commit \/ OpenDraft \/ Delivered \/ StorageFault \/ Crash
    PROVE  /\ UNCHANGED row /\ job.pc # "idle"
           /\ \/ /\ job'.pc \notin {"idle", "reserve", "log"} /\ UNCHANGED orphaned
                 /\ job'.fp = job.fp /\ job'.how = job.how /\ job'.snap = job.snap
              \/ /\ job' = NoJob
                 /\ (job.pc = "log" /\ UNCHANGED orphaned) \/ orphaned' = orphaned \cup {job.fp}
<1> USE DEF IInv
<1>1. CASE Prepare
  BY <1>1, GotoTypes DEF Prepare, Pcs
<1>2. CASE Fixing
  BY <1>2 DEF Fixing, execVars
<1>3. CASE Fixed /\ ~GiveUp
  <2>1. PICK pc \in {"verify", "except"} : Goto(pc) /\ UNCHANGED <<row, orphaned>>
    BY <1>3 DEF Fixed
  <2> QED
    BY <1>3, <2>1, GotoTypes DEF Fixed, Pcs
<1>4. CASE Verify /\ ~GiveUp
  BY <1>4 DEF Verify, TypeOK, Jobs
<1>5. CASE CreateBranch
  <2>1. \/ Goto("bind") \/ job' = [job EXCEPT !.n = @ + 1]
        \/ job' = [job EXCEPT !.pc = "except", !.n = 0]
    BY <1>5 DEF CreateBranch
  <2> QED
    BY <1>5, <2>1 DEF CreateBranch, TypeOK, Jobs, Goto
<1>6. CASE Commit \/ OpenDraft
  <2>1. PICK pc \in {"open", "publish", "except"} : Goto(pc)
    BY <1>6 DEF Commit, OpenDraft
  <2> QED
    BY <1>6, <2>1, GotoTypes DEF Commit, OpenDraft, Pcs
<1>7. CASE Delivered
  BY <1>7 DEF Delivered
<1>8. CASE StorageFault
  <2>1. \/ job' = NoJob /\ orphaned' = orphaned \cup {job.fp}
        \/ Goto("except") /\ UNCHANGED orphaned
    BY <1>8 DEF StorageFault
  <2> QED
    BY <1>8, <2>1, GotoTypes DEF StorageFault, Pcs
<1>9. CASE Crash
  BY <1>9 DEF Crash
<1> QED
  BY <1>1, <1>2, <1>3, <1>4, <1>5, <1>6, <1>7, <1>8, <1>9

\* Which row an attempt saves where.
LEMMA SavingSteps ==
    ASSUME IInv, Reserve \/ GiveUp \/ Bind \/ PublishRow \/ Except, job.pc # "idle"
    PROVE  \E r \in Rows :
              /\ row' = [row EXCEPT ![job.fp] = r]
              /\ UNCHANGED orphaned
              /\ \/ /\ job'.pc \notin {"idle", "reserve"}
                    /\ job'.fp = job.fp /\ job'.how = job.how /\ job'.snap = job.snap
                    /\ job'.pc = "log" => r.state # "fixing"
                 \/ job' = NoJob /\ r.state \in {"open", "awaiting"}
<1> USE DEF IInv
<1>1. CASE Reserve
  <2>1. [job.snap EXCEPT !.state = "fixing"] \in Rows
    BY RowTypes DEF Rows, States
  <2> QED
    BY <1>1, <2>1, GotoTypes DEF Reserve, Saved, Pcs
<1>2. CASE GiveUp \/ Except
  <2>1. Restored \in Rows /\ Restored.state \in {"open", "awaiting"}
    BY RowTypes
  <2> QED
    BY <1>2, <2>1 DEF GiveUp, Except, Saved
<1>3. CASE Bind
  <2>1. CASE job.n = job.snap.branch
    <3>1. row' = [row EXCEPT ![job.fp] = row[job.fp]] /\ row[job.fp] \in Rows
      BY <1>3, <2>1, RowTypes DEF Bind, TypeOK
    <3> QED
      BY <1>3, <3>1, GotoTypes DEF Bind, Pcs
  <2>2. CASE job.n # job.snap.branch
    <3>1. [Candidate EXCEPT !.branch = job.n] \in Rows
      BY RowTypes DEF Rows
    <3> QED
      BY <1>3, <2>2, <3>1, GotoTypes DEF Bind, Saved, Pcs
  <2> QED
    BY <2>1, <2>2
<1>4. CASE PublishRow
  <2> DEFINE r == [Candidate EXCEPT !.state = "awaiting", !.branch = job.n, !.url = TRUE]
  <2>1. r \in Rows /\ r.state = "awaiting"
    BY RowTypes DEF Rows, States
  <2>2. row' = [row EXCEPT ![job.fp] = r] /\ UNCHANGED orphaned /\ Goto("log")
    BY <1>4 DEF PublishRow, Saved
  <2> HIDE DEF r
  <2> QED
    BY <2>1, <2>2, GotoTypes DEF Pcs
<1> QED
  BY <1>1, <1>2, <1>3, <1>4

\* A row that says fixing has its owner.
LEMMA OwnerKept == IInv /\ [Next]_vars => FixingHasOwner' /\ OwnerKnown'
<1> SUFFICES ASSUME IInv, [Next]_vars PROVE FixingHasOwner' /\ OwnerKnown'
  OBVIOUS
<1> USE DEF FixingHasOwner, OwnerKnown
<1>0. row \in [Fps -> Rows] /\ job.fp \in Fps /\ NoJob.pc = "idle" /\ FixingHasOwner /\ OwnerKnown
  BY RowTypes, NoJobTypes DEF IInv, TypeOK
<1>1. ASSUME NEW f \in Fps, NEW how \in Hows, Request(f, how)
      PROVE  FixingHasOwner' /\ OwnerKnown'
  <2>1. row[f].state # "fixing"
    BY <1>1 DEF Request, Allowed, MayFix, MayRetry
  <2> QED
    BY <1>0, <1>1, <2>1, RequestTypes DEF Request
<1>2. ASSUME NEW f \in Fps, NEW how \in Hows, Refuse(f, how)
      PROVE  FixingHasOwner' /\ OwnerKnown'
  BY <1>0, <1>2 DEF Refuse
<1>3. CASE \/ Prepare \/ Fixing \/ (Fixed /\ ~GiveUp) \/ (Verify /\ ~GiveUp) \/ CreateBranch
           \/ Commit \/ OpenDraft \/ Delivered \/ StorageFault \/ Crash
  BY <1>0, <1>3, QuietSteps
<1>4. CASE (Reserve \/ GiveUp \/ Bind \/ PublishRow \/ Except) /\ job.pc # "idle"
  <2>1. PICK r \in Rows :
              /\ row' = [row EXCEPT ![job.fp] = r]
              /\ UNCHANGED orphaned
              /\ \/ /\ job'.pc \notin {"idle", "reserve"}
                    /\ job'.fp = job.fp /\ job'.how = job.how /\ job'.snap = job.snap
                    /\ job'.pc = "log" => r.state # "fixing"
                 \/ job' = NoJob /\ r.state \in {"open", "awaiting"}
    BY <1>4, SavingSteps
  <2> QED
    BY <1>0, <1>4, <2>1
<1>5. CASE Others
  BY <1>0, <1>5, OtherSteps
<1>6. CASE UNCHANGED vars
  BY <1>0, <1>6 DEF vars, execVars
<1>7. JobStep => job.pc # "idle"
  BY DEF JobStep, Reserve, Prepare, Fixing, Fixed, Verify, CreateBranch, Bind, Commit, OpenDraft,
         PublishRow, Delivered, Except
<1> QED
  BY <1>1, <1>2, <1>3, <1>4, <1>5, <1>6, <1>7 DEF Next, JobStep

\* A step that claims no further fingerprint keeps the cap.
LEMMA ClaimsBounded ==
    ASSUME IInv, Claimed' \subseteq Claimed
    PROVE  PlaceClaimed'
<1>1. IsFiniteSet(Claimed)
  BY FixExecutionAssumption, FS_Subset DEF Claimed
<1>2. IsFiniteSet(Claimed') /\ Cardinality(Claimed') <= Cardinality(Claimed)
  BY <1>1, FS_Subset
<1>3. Cardinality(Claimed) \in Nat /\ Cardinality(Claimed') \in Nat
  BY <1>1, <1>2, FS_CardinalityType
<1> QED
  BY <1>2, <1>3, Bounds DEF IInv, PlaceClaimed

\* What is counted towards the cap when an attempt starts: the gate leaves a place for
\* it, and a retry has one already.
LEMMA RequestClaims ==
    ASSUME IInv, NEW f \in Fps, NEW how \in Hows, Request(f, how)
    PROVE  PlaceClaimed'
<1>1. /\ job.pc = "idle" /\ UNCHANGED row /\ job'.fp = f /\ job'.pc = "reserve"
      /\ Allowed(f, how)
  BY RequestTypes DEF Request
<1>2. Claimed = {g \in Fps : Counted(g)}
  BY <1>1 DEF Claimed
<1>3. Claimed' = Claimed \cup {f}
  BY <1>1, <1>2 DEF Claimed, Counted
<1>4. CASE how = "retry"
  <2>1. Counted(f)
    BY <1>1, <1>4 DEF Allowed, MayRetry, Counted
  <2> QED
    BY <1>2, <1>3, <2>1, ClaimsBounded
<1>5. CASE how # "retry"
  <2>1. Cardinality(Claimed) < MaxOpenPrs
    BY <1>1, <1>2, <1>5 DEF Allowed, MayFix, Eligible, UnderCap
  <2>2. IsFiniteSet(Claimed)
    BY FixExecutionAssumption, FS_Subset DEF Claimed
  <2>3. Cardinality(Claimed) \in Nat
    BY <2>2, FS_CardinalityType
  <2>4. Cardinality(Claimed \cup {f}) \in {Cardinality(Claimed), Cardinality(Claimed) + 1}
    BY <2>2, FS_AddElement
  <2> QED
    BY <1>3, <2>1, <2>3, <2>4, Bounds DEF PlaceClaimed
<1> QED
  BY <1>4, <1>5

\* Every attempt under way and every proposal that waits has its place under the cap.
LEMMA ClaimsKept == IInv /\ [Next]_vars => PlaceClaimed'
<1> SUFFICES ASSUME IInv, [Next]_vars PROVE PlaceClaimed'
  OBVIOUS
<1>0. row \in [Fps -> Rows] /\ job.fp \in Fps /\ NoJob.pc = "idle"
  BY RowTypes, NoJobTypes DEF IInv, TypeOK
<1>1. ASSUME NEW f \in Fps, NEW how \in Hows, Request(f, how)
      PROVE  PlaceClaimed'
  BY <1>1, RequestClaims
<1>2. ASSUME \/ \E f \in Fps, how \in Hows : Refuse(f, how)
             \/ UNCHANGED vars
      PROVE  PlaceClaimed'
  BY <1>2 DEF Refuse, vars, execVars, IInv, PlaceClaimed, Claimed, Counted
<1>3. CASE \/ Prepare \/ Fixing \/ (Fixed /\ ~GiveUp) \/ (Verify /\ ~GiveUp) \/ CreateBranch
           \/ Commit \/ OpenDraft \/ Delivered \/ StorageFault \/ Crash
  <2>1. UNCHANGED row /\ job.pc # "idle" /\ (job'.pc # "idle" => job'.fp = job.fp)
    BY <1>0, <1>3, QuietSteps
  <2>2. Claimed' \subseteq Claimed
    BY <2>1 DEF Claimed, Counted
  <2> QED
    BY <2>2, ClaimsBounded
<1>4. CASE (Reserve \/ GiveUp \/ Bind \/ PublishRow \/ Except) /\ job.pc # "idle"
  <2>1. PICK r \in Rows : row' = [row EXCEPT ![job.fp] = r] /\ (job'.pc # "idle" => job'.fp = job.fp)
    BY <1>0, <1>4, SavingSteps
  <2>2. Claimed' \subseteq Claimed
    BY <1>0, <1>4, <2>1 DEF Claimed, Counted
  <2> QED
    BY <2>2, ClaimsBounded
<1>5. CASE Others
  <2>1. PICK f \in Fps, r \in Rows :
              /\ row' = [row EXCEPT ![f] = r]
              /\ r = row[f] \/ r.state \in {"dropped", "reopened", "closed", "verifying", "verified"}
              /\ UNCHANGED job
    BY <1>5, OtherSteps
  <2>2. Claimed' \subseteq Claimed
    BY <1>0, <2>1 DEF Claimed, Counted
  <2> QED
    BY <2>2, ClaimsBounded
<1>7. JobStep => job.pc # "idle"
  BY DEF JobStep, Reserve, Prepare, Fixing, Fixed, Verify, CreateBranch, Bind, Commit, OpenDraft,
         PublishRow, Delivered, Except
<1> QED
  BY <1>1, <1>2, <1>3, <1>4, <1>5, <1>7 DEF Next, JobStep

\* A branch is named from the row.
LEMMA FirstBranchTypes ==
    ASSUME TypeOK
    PROVE  /\ FirstBranch \in Slots
           /\ job.snap.branch # 0 => FirstBranch = job.snap.branch
           /\ job.snap.branch \in {0, 1} => FirstBranch = 1
BY RowTypes, Bounds DEF FirstBranch, Slots

\* What reaches the forge was proven by the attempt under way.
LEMMA ProvenKept == IInv /\ [Next]_vars => ProvenKnown'
<1> SUFFICES ASSUME IInv, [Next]_vars PROVE ProvenKnown'
  OBVIOUS
<1> USE DEF ProvenKnown
<1>0. /\ NoJob.pc = "idle" /\ ProvenKnown /\ job.fp \in Fps /\ job \in Jobs
      /\ tries \in Nat /\ tries' \in Nat
  BY NoJobTypes, RowTypes, TypesKept, Bounds DEF IInv, TypeOK
<1>1. ASSUME NEW f \in Fps, NEW how \in Hows, Request(f, how) \/ Refuse(f, how)
      PROVE  ProvenKnown'
  <2>1. CASE Request(f, how)
    <3>1. job'.pc = "reserve"
      BY <2>1, RequestTypes
    <3>2. tries' > 0
      BY <1>0, <2>1 DEF Request
    <3> QED
      BY <3>1, <3>2 DEF Publishing
  <2>2. CASE Refuse(f, how)
    BY <1>0, <2>2 DEF Refuse, forgeVars, Slots
  <2> QED
    BY <1>1, <2>1, <2>2
<1>2. CASE Reserve \/ Prepare \/ Fixing \/ (Fixed /\ ~GiveUp)
  <2>1. job.pc # "idle" /\ UNCHANGED <<tries, proven>> /\ job'.pc \notin Publishing
    <3>1. CASE Reserve
      BY <3>1, GotoTypes DEF Reserve, IInv, Pcs, Publishing
    <3>2. CASE Prepare
      BY <3>2, GotoTypes DEF Prepare, IInv, Pcs, Publishing
    <3>3. CASE Fixing
      BY <3>3 DEF Fixing, execVars, Publishing
    <3>4. CASE Fixed /\ ~GiveUp
      <4>1. PICK pc \in {"verify", "except"} : Goto(pc) /\ UNCHANGED <<tries, proven>>
        BY <3>4 DEF Fixed
      <4> QED
        BY <3>4, <4>1, GotoTypes DEF Fixed, IInv, Pcs, Publishing
    <3> QED
      BY <1>2, <3>1, <3>2, <3>3, <3>4
  <2> QED
    BY <1>0, <2>1 DEF Publishing
<1>3. CASE GiveUp \/ Delivered \/ Except \/ Crash
  <2>1. job'.pc = "idle"
    BY <1>0, <1>3 DEF GiveUp, Delivered, Except, Crash
  <2> QED
    BY <2>1 DEF Publishing
<1>4. CASE Verify /\ ~GiveUp
  <2>1. job'.pc = "branch" /\ job'.n = FirstBranch /\ tries \in proven' /\ UNCHANGED tries
    BY <1>0, <1>4 DEF Verify, Jobs
  <2> QED
    BY <1>0, <1>4, <2>1, FirstBranchTypes DEF Verify, IInv, Slots
<1>5. CASE CreateBranch
  <2>1. \/ Goto("bind")
        \/ job' = [job EXCEPT !.n = @ + 1] /\ job.n < MaxBranches
        \/ job' = [job EXCEPT !.pc = "except", !.n = 0]
    BY <1>5 DEF CreateBranch
  <2>2. job.pc = "branch" /\ UNCHANGED <<tries, proven>> /\ job.n \in Slots
    BY <1>0, <1>5 DEF CreateBranch, Publishing
  <2>3. /\ job'.pc \in {"branch", "bind", "except"}
        /\ job'.pc \in {"branch", "bind"} => job'.n \in Slots
    <3>1. CASE Goto("bind")
      BY <2>2, <3>1, GotoTypes DEF IInv, Pcs, Slots
    <3>2. CASE job' = [job EXCEPT !.n = @ + 1] /\ job.n < MaxBranches
      <4>1. job.n + 1 \in 1 .. MaxBranches
        BY <2>2, <3>2, Bounds DEF Slots
      <4> QED
        BY <1>0, <2>2, <3>2, <4>1 DEF Jobs, Slots
    <3>3. CASE job' = [job EXCEPT !.pc = "except", !.n = 0]
      BY <1>0, <3>3 DEF Jobs
    <3> QED
      BY <2>1, <3>1, <3>2, <3>3
  <2> QED
    BY <1>0, <2>2, <2>3 DEF Publishing, Slots
<1>6. CASE Bind
  BY <1>0, <1>6, GotoTypes DEF Bind, IInv, Pcs, Publishing, Slots
<1>7. CASE Commit
  <2>1. PICK o \in Outcomes :
          /\ commits' = IF o.effect THEN [commits EXCEPT ![job.fp][job.n] = @ \cup {tries}] ELSE commits
          /\ Goto(IF o.answer THEN "open" ELSE "except")
    BY <1>7 DEF Commit
  <2>2. /\ job.pc = "commit" /\ UNCHANGED <<tries, proven>>
        /\ tries \in proven /\ job.n \in Slots /\ tries > 0
    BY <1>0, <1>7 DEF Commit, Publishing
  <2>3. job'.fp = job.fp /\ job'.n = job.n /\ job'.pc = IF o.answer THEN "open" ELSE "except"
    BY <2>1, GotoTypes DEF IInv, Pcs
  <2>4. o.answer => tries \in commits'[job.fp][job.n]
    BY <1>0, <2>1, <2>2 DEF Outcomes, IInv, TypeOK
  <2> QED
    BY <2>2, <2>3, <2>4 DEF Publishing, Slots
<1>8. CASE OpenDraft
  <2>1. PICK pc \in {"publish", "except"} : Goto(pc)
    BY <1>8 DEF OpenDraft
  <2>2. job'.fp = job.fp /\ job'.n = job.n /\ job'.pc = pc
    BY <2>1, GotoTypes DEF IInv, Pcs
  <2>3. job.pc = "open" /\ UNCHANGED <<tries, proven, commits>>
    BY <1>8 DEF OpenDraft
  <2> QED
    BY <1>0, <2>2, <2>3 DEF Publishing, Slots
<1>9. CASE PublishRow
  BY <1>0, <1>9, GotoTypes DEF PublishRow, IInv, Pcs, Publishing
<1>10. CASE StorageFault
  <2>1. job' = NoJob \/ Goto("except")
    BY <1>10 DEF StorageFault
  <2> QED
    BY <1>0, <1>10, <2>1, GotoTypes DEF StorageFault, IInv, Pcs, Publishing
<1>11. CASE Others
  BY <1>0, <1>11, OtherSteps DEF Slots
<1>12. CASE UNCHANGED vars
  BY <1>0, <1>12 DEF vars, execVars, forgeVars, Slots
<1> QED
  BY <1>1, <1>2, <1>3, <1>4, <1>5, <1>6, <1>7, <1>8, <1>9, <1>10, <1>11, <1>12 DEF Next, JobStep

\* While no forge call fails, the first branch is the only one.
LEMMA FirstBranchKept == IInv /\ [Next]_vars => FirstBranchOnly'
<1> SUFFICES ASSUME IInv, [Next]_vars, mishaps'.forge = 0
             PROVE  /\ \A f \in Fps : row'[f].branch \in {0, 1} /\ drafts'[f] \subseteq {1}
                    /\ job'.snap.branch \in {0, 1} /\ job'.n \in {0, 1}
  BY DEF FirstBranchOnly
<1> DEFINE Rowed == \A f \in Fps : row'[f].branch \in {0, 1}
           Drafted == \A f \in Fps : drafts'[f] \subseteq {1}
           Worked == job'.snap.branch \in {0, 1} /\ job'.n \in {0, 1}
<1>0. /\ row \in [Fps -> Rows] /\ job \in Jobs /\ job.fp \in Fps
      /\ NoJob.snap.branch = 0 /\ NoJob.n = 0 /\ NoJob \in Jobs
  BY RowTypes, NoJobTypes DEF IInv, TypeOK
<1>1. mishaps.forge = 0
  <2>1. CASE \E kind \in {"forge", "storage", "crash"} : Mishap(kind)
    BY <2>1, MishapTypes DEF IInv
  <2>2. CASE UNCHANGED mishaps
    BY <2>2
  <2>3. \/ UNCHANGED mishaps \/ Mishap("forge") \/ Mishap("storage") \/ Mishap("crash")
    BY OtherSteps DEF Next, JobStep, Request, Refuse, Reserve, Prepare, Fixing, Fixed, GiveUp, Verify,
       CreateBranch, Bind, Commit, OpenDraft, PublishRow, Delivered, Except, StorageFault, Crash,
       Answer, budgets, vars
  <2> QED
    BY <2>1, <2>2, <2>3
<1>2. /\ \A f \in Fps : row[f].branch \in {0, 1} /\ drafts[f] \subseteq {1}
      /\ job.snap.branch \in {0, 1} /\ job.n \in {0, 1} /\ FirstBranch = 1
  BY <1>1, FirstBranchTypes DEF IInv, FirstBranchOnly
<1>3. ASSUME NEW f \in Fps, NEW how \in Hows, Request(f, how) \/ Refuse(f, how)
      PROVE  Rowed /\ Drafted /\ Worked
  <2>1. CASE Request(f, how)
    BY <1>2, <2>1, RequestTypes DEF Request, forgeVars
  <2>2. CASE Refuse(f, how)
    BY <1>2, <2>2 DEF Refuse, forgeVars
  <2> QED
    BY <1>3, <2>1, <2>2
<1>4. CASE Reserve \/ Bind \/ PublishRow
  <2>1. PICK r \in Rows : row' = [row EXCEPT ![job.fp] = r] /\ r.branch \in {0, 1}
    <3>1. CASE Reserve
      <4>1. /\ [job.snap EXCEPT !.state = "fixing"] \in Rows
            /\ [job.snap EXCEPT !.state = "fixing"].branch = job.snap.branch
        BY RowTypes DEF IInv, Rows, States
      <4> QED
        BY <1>2, <3>1, <4>1 DEF Reserve, Saved
    <3>2. CASE Bind /\ job.n = job.snap.branch
      <4>1. row' = [row EXCEPT ![job.fp] = row[job.fp]]
        BY <1>0, <3>2 DEF Bind
      <4> QED
        BY <1>0, <1>2, <4>1
    <3>3. CASE Bind /\ job.n # job.snap.branch
      <4>1. /\ [Candidate EXCEPT !.branch = job.n] \in Rows
            /\ [Candidate EXCEPT !.branch = job.n].branch = job.n
        BY RowTypes DEF IInv, Rows
      <4> QED
        BY <1>2, <3>3, <4>1 DEF Bind, Saved
    <3>4. CASE PublishRow
      <4> DEFINE r == [Candidate EXCEPT !.state = "awaiting", !.branch = job.n, !.url = TRUE]
      <4>1. r \in Rows /\ r.branch = job.n
        BY RowTypes DEF IInv, Rows, States
      <4>2. row' = [row EXCEPT ![job.fp] = r]
        BY <3>4 DEF PublishRow, Saved
      <4> HIDE DEF r
      <4> QED
        BY <1>2, <4>1, <4>2
    <3> QED
      BY <1>4, <3>1, <3>2, <3>3, <3>4
  <2>2. job'.snap = job.snap /\ job'.n = job.n /\ UNCHANGED drafts
    <3>1. PICK pc \in Pcs : Goto(pc) /\ UNCHANGED drafts
      BY <1>4 DEF Reserve, Bind, PublishRow, Pcs, forgeVars
    <3> QED
      BY <3>1, GotoTypes DEF IInv
  <2> QED
    BY <1>0, <1>2, <2>1, <2>2
<1>5. CASE GiveUp \/ Except
  <2>1. row' = [row EXCEPT ![job.fp] = Restored] /\ Restored.branch \in {0, 1}
    BY <1>2, <1>5, RowTypes DEF GiveUp, Except, Saved, IInv
  <2>2. job' = NoJob /\ UNCHANGED drafts
    BY <1>5 DEF GiveUp, Except, forgeVars
  <2> QED
    BY <1>0, <1>2, <2>1, <2>2
<1>6. CASE \/ Prepare \/ Fixing \/ (Fixed /\ ~GiveUp) \/ (Verify /\ ~GiveUp) \/ CreateBranch
           \/ Commit \/ Delivered \/ StorageFault \/ Crash
  <2>1. UNCHANGED row /\ job'.snap \in {job.snap, NoJob.snap}
    BY <1>6, QuietSteps
  <2>2. UNCHANGED drafts
    BY <1>6 DEF Prepare, Fixing, Fixed, Verify, CreateBranch, Commit, Delivered, StorageFault, Crash,
                forgeVars
  <2>3. job'.n \in {0, 1}
    <3>1. CASE Prepare \/ (Fixed /\ ~GiveUp) \/ Commit
      <4>1. PICK pc \in Pcs : Goto(pc)
        <5>1. CASE Prepare \/ Commit
          BY <5>1 DEF Prepare, Commit, Pcs
        <5>2. CASE Fixed /\ ~GiveUp
          BY <5>2 DEF Fixed, Pcs
        <5> QED
          BY <3>1, <5>1, <5>2
      <4> QED
        BY <1>2, <4>1, GotoTypes DEF IInv
    <3>2. CASE Verify /\ ~GiveUp
      BY <1>0, <1>2, <3>2 DEF Verify, Jobs
    <3>3. CASE Fixing
      BY <1>2, <3>3 DEF Fixing, execVars
    <3>4. CASE CreateBranch
      <4>1. PICK o \in Outcomes : Answer(o) /\ (o.answer => Goto("bind"))
        BY <3>4 DEF CreateBranch
      <4>2. o.answer
        BY <4>1, MishapTypes DEF Answer, IInv
      <4> QED
        BY <1>2, <4>1, <4>2, GotoTypes DEF IInv, Pcs
    <3>5. CASE Delivered \/ Crash
      BY <1>0, <3>5 DEF Delivered, Crash
    <3>6. CASE StorageFault
      <4>1. job' = NoJob \/ Goto("except")
        BY <3>6 DEF StorageFault
      <4> QED
        BY <1>0, <1>2, <4>1, GotoTypes DEF IInv, Pcs
    <3> QED
      BY <1>6, <3>1, <3>2, <3>3, <3>4, <3>5, <3>6
  <2> QED
    BY <1>0, <1>2, <2>1, <2>2, <2>3
<1>7. CASE OpenDraft
  <2>1. PICK pc \in {"publish", "except"} :
              Goto(pc) /\ UNCHANGED row /\ job.pc = "open"
    BY <1>7 DEF OpenDraft
  <2>2. job'.snap = job.snap /\ job'.n = job.n
    BY <2>1, GotoTypes DEF IInv, Pcs
  <2>3. job.n = 1
    BY <1>2, <2>1, Bounds DEF IInv, ProvenKnown, Publishing, Slots
  <2>4. Drafted
    BY <1>2, <1>7, <2>3 DEF OpenDraft, IInv, TypeOK
  <2> QED
    BY <1>2, <2>1, <2>2, <2>4
<1>8. CASE Others
  <2>1. PICK f \in Fps, r \in Rows :
           /\ row' = [row EXCEPT ![f] = r] /\ r.branch = row[f].branch
           /\ \A g \in Fps : drafts'[g] \subseteq drafts[g]
           /\ UNCHANGED job
    BY <1>8, OtherSteps
  <2> QED
    BY <1>0, <1>2, <2>1
<1>9. CASE UNCHANGED vars
  BY <1>2, <1>9 DEF vars, execVars, forgeVars
<1> QED
  BY <1>3, <1>4, <1>5, <1>6, <1>7, <1>8, <1>9 DEF Next, JobStep

\* While nothing fails, the branch of a draft is the one of the row.
LEMMA BranchKept == IInv /\ [Next]_vars => BranchKnown'
<1> DEFINE Drafted == \A f \in Fps : drafts'[f] \subseteq {row'[f].branch}
           Early == {"reserve", "prepare", "fixing", "verify", "branch", "bind", "except"}
           Read == job'.pc \in Early => row'[job'.fp].branch = job'.snap.branch
           Named == job'.pc \in {"branch", "bind"} => job'.n = FirstBranch'
           Bound == job'.pc \in {"commit", "open", "publish"} => row'[job'.fp].branch = job'.n
<1> SUFFICES ASSUME IInv, [Next]_vars, Mishaps' = 0
             PROVE  Drafted /\ Read /\ Named /\ Bound
  BY DEF BranchKnown
<1>0. /\ row \in [Fps -> Rows] /\ job \in Jobs /\ job.fp \in Fps
      /\ NoJob.snap.branch = 0 /\ NoJob.n = 0 /\ NoJob \in Jobs /\ NoJob.pc = "idle"
      /\ drafts \in [Fps -> SUBSET Slots] /\ TypeOK
  BY RowTypes, NoJobTypes DEF IInv, TypeOK
<1>1. UNCHANGED mishaps
  <2>1. ASSUME NEW kind \in {"forge", "storage", "crash"}, Mishap(kind) PROVE FALSE
    BY <2>1, MishapTypes DEF IInv
  <2>2. \/ UNCHANGED mishaps \/ Mishap("forge") \/ Mishap("storage") \/ Mishap("crash")
    BY OtherSteps DEF Next, JobStep, Request, Refuse, Reserve, Prepare, Fixing, Fixed, GiveUp, Verify,
       CreateBranch, Bind, Commit, OpenDraft, PublishRow, Delivered, Except, StorageFault, Crash,
       Answer, budgets, vars
  <2> QED
    BY <2>1, <2>2
<1>2. /\ \A f \in Fps : drafts[f] \subseteq {row[f].branch}
      /\ job.pc \in Early => row[job.fp].branch = job.snap.branch
      /\ job.pc \in {"branch", "bind"} => job.n = FirstBranch
      /\ job.pc \in {"commit", "open", "publish"} => row[job.fp].branch = job.n
  BY <1>1 DEF IInv, BranchKnown, Mishaps
<1>3. ~StorageFault /\ ~Crash
  BY <1>0, <1>1, MishapTypes DEF StorageFault, Crash, Mishaps
<1>4. \A o \in Outcomes : Answer(o) => o.answer
  BY <1>0, <1>1, MishapTypes DEF Answer, Mishaps
<1>5. ASSUME NEW f \in Fps, NEW how \in Hows, Request(f, how) \/ Refuse(f, how)
      PROVE  Drafted /\ Read /\ Named /\ Bound
  <2>1. CASE Request(f, how)
    BY <1>2, <2>1, RequestTypes DEF Request, forgeVars
  <2>2. CASE Refuse(f, how)
    BY <1>2, <2>2 DEF Refuse, forgeVars, FirstBranch
  <2> QED
    BY <1>5, <2>1, <2>2
<1>6. CASE Reserve
  <2>1. /\ [job.snap EXCEPT !.state = "fixing"] \in Rows
        /\ [job.snap EXCEPT !.state = "fixing"].branch = job.snap.branch
    BY <1>0, RowTypes DEF Rows, States
  <2>2. /\ row' = [row EXCEPT ![job.fp] = [job.snap EXCEPT !.state = "fixing"]]
        /\ UNCHANGED drafts /\ job.pc = "reserve"
    BY <1>6 DEF Reserve, Saved, forgeVars
  <2>3. job'.pc = "prepare" /\ job'.snap = job.snap /\ job'.fp = job.fp
    BY <1>0, <1>6, GotoTypes DEF Reserve, Pcs
  <2> QED
    BY <1>0, <1>2, <2>1, <2>2, <2>3
<1>7. CASE Prepare \/ Fixing \/ (Fixed /\ ~GiveUp)
  <2>1. /\ UNCHANGED <<row, drafts>> /\ job.pc \in {"prepare", "fixing"}
        /\ job'.pc \in {"fixing", "verify", "except"}
        /\ job'.snap = job.snap /\ job'.fp = job.fp
    <3>1. CASE Fixing
      BY <3>1 DEF Fixing, execVars, forgeVars
    <3>2. CASE Prepare \/ (Fixed /\ ~GiveUp)
      <4>1. PICK pc \in {"fixing", "verify", "except"} : Goto(pc)
        <5>1. CASE Prepare
          BY <5>1 DEF Prepare
        <5>2. CASE Fixed /\ ~GiveUp
          BY <5>2 DEF Fixed
        <5> QED
          BY <3>2, <5>1, <5>2
      <4> QED
        BY <1>0, <3>2, <4>1, GotoTypes DEF Prepare, Fixed, Pcs, forgeVars
    <3> QED
      BY <1>7, <3>1, <3>2
  <2> QED
    BY <1>2, <2>1
<1>8. CASE (GiveUp /\ (Fixed \/ Verify)) \/ Except
  <2>1. /\ row' = [row EXCEPT ![job.fp] = Restored] /\ UNCHANGED drafts
        /\ job.pc \in Early /\ job'.pc = "idle"
    BY <1>0, <1>8 DEF GiveUp, Except, Saved, forgeVars, Fixed, Verify
  <2>2. Restored.branch = job.snap.branch
    BY <1>0, RowTypes
  <2> QED
    BY <1>0, <1>2, <2>1, <2>2
<1>9. CASE Verify /\ ~GiveUp
  <2>1. /\ job'.pc = "branch" /\ job'.n = FirstBranch /\ job'.snap = job.snap /\ job'.fp = job.fp
        /\ UNCHANGED <<row, drafts>> /\ job.pc = "verify"
    BY <1>0, <1>9 DEF Verify, Jobs, forgeVars
  <2> QED
    BY <1>2, <2>1 DEF FirstBranch
<1>10. CASE CreateBranch
  <2>1. job.pc = "branch" /\ Goto("bind") /\ UNCHANGED <<row, drafts>>
    <3>1. PICK o \in Outcomes : Answer(o) /\ (o.answer => Goto("bind"))
      BY <1>10 DEF CreateBranch
    <3> QED
      BY <1>4, <1>10, <3>1 DEF CreateBranch
  <2>2. /\ job'.pc = "bind" /\ job'.n = job.n /\ job'.snap = job.snap /\ job'.fp = job.fp
    BY <1>0, <2>1, GotoTypes DEF Pcs
  <2> QED
    BY <1>2, <2>1, <2>2 DEF FirstBranch
<1>11. CASE Bind
  <2>1. /\ job.pc = "bind" /\ UNCHANGED drafts /\ job'.pc = "commit" /\ job'.n = job.n
        /\ job'.fp = job.fp
    BY <1>0, <1>11, GotoTypes DEF Bind, Pcs, forgeVars
  <2>2. CASE job.n = job.snap.branch
    BY <1>2, <1>11, <2>1, <2>2 DEF Bind
  <2>3. CASE job.n # job.snap.branch
    <3>1. [Candidate EXCEPT !.branch = job.n].branch = job.n
      BY <1>0, RowTypes DEF Rows
    <3>2. row' = [row EXCEPT ![job.fp] = [Candidate EXCEPT !.branch = job.n]]
      BY <1>11, <2>3 DEF Bind, Saved
    <3>3. drafts[job.fp] = {}
      <4>1. row[job.fp].branch = job.snap.branch /\ job.snap.branch = 0
        BY <1>0, <1>2, <2>1, <2>3, FirstBranchTypes
      <4> QED
        BY <1>0, <1>2, <4>1, Bounds DEF Slots
    <3> QED
      BY <1>0, <1>2, <2>1, <3>1, <3>2, <3>3
  <2> QED
    BY <2>2, <2>3
<1>12. CASE Commit
  <2>1. job.pc = "commit" /\ Goto("open") /\ UNCHANGED <<row, drafts>>
    <3>1. PICK o \in Outcomes : Answer(o) /\ Goto(IF o.answer THEN "open" ELSE "except")
      BY <1>12 DEF Commit
    <3> QED
      BY <1>4, <1>12, <3>1 DEF Commit
  <2>2. /\ job'.pc = "open" /\ job'.n = job.n /\ job'.fp = job.fp
    BY <1>0, <2>1, GotoTypes DEF Pcs
  <2> QED
    BY <1>2, <2>1, <2>2
<1>13. CASE OpenDraft
  <2>1. PICK o \in Outcomes :
          /\ Answer(o)
          /\ drafts' = IF o.effect THEN [drafts EXCEPT ![job.fp] = @ \cup {job.n}] ELSE drafts
          /\ Goto(IF o.answer THEN "publish" ELSE "except")
    BY <1>13 DEF OpenDraft
  <2>2. /\ job.pc = "open" /\ UNCHANGED row /\ o.answer
    BY <1>4, <1>13, <2>1 DEF OpenDraft
  <2>3. /\ job'.pc = "publish" /\ job'.n = job.n /\ job'.fp = job.fp
    BY <1>0, <2>1, <2>2, GotoTypes DEF Pcs
  <2>4. Drafted
    BY <1>0, <1>2, <2>1, <2>2
  <2> QED
    BY <1>2, <2>2, <2>3, <2>4
<1>14. CASE PublishRow
  <2> DEFINE r == [Candidate EXCEPT !.state = "awaiting", !.branch = job.n, !.url = TRUE]
  <2>1. r.branch = job.n
    BY <1>0, RowTypes DEF Rows, States
  <2>2. row' = [row EXCEPT ![job.fp] = r] /\ UNCHANGED drafts /\ job.pc = "publish"
    BY <1>14 DEF PublishRow, Saved, forgeVars
  <2>3. job'.pc = "log" /\ job'.fp = job.fp
    BY <1>0, <1>14, GotoTypes DEF PublishRow, Pcs
  <2> HIDE DEF r
  <2> QED
    BY <1>0, <1>2, <2>1, <2>2, <2>3
<1>15. CASE Delivered
  BY <1>0, <1>2, <1>15 DEF Delivered, forgeVars
<1>16. CASE Others
  <2>1. PICK f \in Fps, r \in Rows :
           /\ row' = [row EXCEPT ![f] = r] /\ r.branch = row[f].branch
           /\ \A g \in Fps : drafts'[g] \subseteq drafts[g]
           /\ UNCHANGED job
    BY <1>16, OtherSteps
  <2>2. \A g \in Fps : row'[g].branch = row[g].branch
    BY <1>0, <2>1
  <2> QED
    BY <1>0, <1>2, <2>1, <2>2 DEF FirstBranch
<1>17. CASE UNCHANGED vars
  BY <1>2, <1>17 DEF vars, execVars, forgeVars, FirstBranch
<1> QED
  BY <1>3, <1>5, <1>6, <1>7, <1>8, <1>9, <1>10, <1>11, <1>12, <1>13, <1>14, <1>15, <1>16, <1>17
  DEF Next, JobStep

\* The first state satisfies the inductive invariant.
LEMMA InitIInv == Init => IInv
<1> SUFFICES ASSUME Init PROVE IInv
  OBVIOUS
<1>1. LoopInv /\ loop.pc = "off"
  BY NoLoopInv, NoLoopTypes DEF Init, LoopInit
<1>2. mishaps \in MishapCounts /\ Mishaps = 0
  BY DEF Init, MishapCounts, Mishaps
<1>3. trail \in [Fps -> Trails]
  BY Bounds DEF Init, Trails
<1>4. TypeOK
  BY <1>1, <1>2, <1>3, Bounds, NoJobTypes, FixExecutionAssumption DEF Init, TypeOK, LoopInv
<1>5. FixingHasOwner /\ OwnerKnown /\ ProvenKnown
  BY NoJobTypes DEF Init, FixingHasOwner, OwnerKnown, ProvenKnown, Publishing
<1>6. PlaceClaimed
  <2>1. Claimed = {}
    BY NoJobTypes DEF Init, Claimed, Counted
  <2> QED
    BY <2>1, FS_EmptySet, Bounds DEF PlaceClaimed
<1>7. FirstBranchOnly /\ BranchKnown
  BY NoJobTypes DEF Init, FirstBranchOnly, BranchKnown
<1> QED
  BY <1>1, <1>4, <1>5, <1>6, <1>7 DEF IInv

\* Every step keeps the inductive invariant.
LEMMA NextIInv == IInv /\ [Next]_vars => IInv'
BY TypesKept, OwnerKept, ClaimsKept, ProvenKept, FirstBranchKept, BranchKept DEF IInv

\* The inductive invariant holds for ever.
THEOREM Invariance == Spec => []IInv
BY InitIInv, NextIInv, PTL DEF Spec

\* Types are kept.
THEOREM TypeCorrect == Spec => []TypeOK
<1>1. IInv => TypeOK
  BY DEF IInv
<1> QED
  BY <1>1, Invariance, PTL

\* A patch is accepted only for an error it was shown to cure.
THEOREM Accepted == Spec => []AcceptedIsProven
<1>1. IInv => AcceptedIsProven
  BY DEF IInv, LoopInv
<1> QED
  BY <1>1, Invariance, PTL

\* Only a crash or a failed write leaves a row that blocks its fingerprint.
THEOREM FixingOwned == Spec => []FixingHasOwner
<1>1. IInv => FixingHasOwner
  BY DEF IInv
<1> QED
  BY <1>1, Invariance, PTL

\* The cap on open proposals holds through every failure and every save by others.
THEOREM Cap == Spec => []CapHeld
<1>1. IInv => CapHeld
  <2>1. SUFFICES ASSUME IInv PROVE CapHeld
    OBVIOUS
  <2>2. IsFiniteSet(Claimed) /\ {f \in Fps : Counted(f)} \subseteq Claimed
    BY FixExecutionAssumption, FS_Subset DEF Claimed
  <2>3. /\ IsFiniteSet({f \in Fps : Counted(f)})
        /\ Cardinality({f \in Fps : Counted(f)}) <= Cardinality(Claimed)
    BY <2>2, FS_Subset
  <2>4. Cardinality({f \in Fps : Counted(f)}) \in Nat /\ Cardinality(Claimed) \in Nat
    BY <2>2, <2>3, FS_CardinalityType
  <2> QED
    BY <2>1, <2>3, <2>4, Bounds DEF IInv, PlaceClaimed, CapHeld
<1> QED
  BY <1>1, Invariance, PTL

\* A second draft for one fingerprint needs a call to the forge that failed.
THEOREM Twins == Spec => []TwinsNeedForgeFault
<1>1. IInv => TwinsNeedForgeFault
  <2>1. SUFFICES ASSUME IInv, NEW f \in Fps, mishaps.forge = 0
                 PROVE  Cardinality(drafts[f]) <= 1
    BY DEF TwinsNeedForgeFault
  <2>2. drafts[f] = {} \/ drafts[f] = {1}
    BY <2>1 DEF IInv, FirstBranchOnly
  <2> QED
    BY <2>2, FS_EmptySet, FS_Singleton
<1> QED
  BY <1>1, Invariance, PTL

\* While nothing fails, the merge webhook finds the row of an open draft.
THEOREM DraftKnown == Spec => []DraftIsKnown
<1>1. IInv => DraftIsKnown
  BY DEF IInv, BranchKnown, DraftIsKnown
<1> QED
  BY <1>1, Invariance, PTL

-------------------------------------------------------------------------------
(* The executor implements ProposalContract                                    *)

Active == IF job.pc = "idle" THEN 0 ELSE tries
Published == {c \in Fps \X Slots \X (1 .. MaxAttempts) : c[3] \in commits[c[1]][c[2]]}
Drafts == {c \in Fps \X Slots : c[2] \in drafts[c[1]]}

\* A step that neither proves nor touches the forge goes on with the attempt, or ends it.
LEMMA StutterRefines ==
    ASSUME IInv, job.pc # "idle", UNCHANGED <<proven, tries, commits, drafts>>
    PROVE  [Contract!Next]_(Contract!vars)
<1>1. UNCHANGED <<Published, Drafts>>
  BY DEF Published, Drafts
<1>2. CASE job'.pc = "idle"
  <2>1. Active # 0 /\ Active' = 0
    BY <1>2, Bounds DEF Active, IInv, ProvenKnown, TypeOK
  <2>2. Contract!End
    BY <1>1, <2>1 DEF Contract!End, Active, Published, Drafts
  <2> QED
    BY <2>2 DEF Contract!Next
<1>3. CASE job'.pc # "idle"
  BY <1>1, <1>3 DEF Contract!vars, Published, Drafts
<1> QED
  BY <1>2, <1>3

\* An attempt begins.
LEMMA RequestRefines ==
    ASSUME IInv, NEW f \in Fps, NEW how \in Hows, Request(f, how)
    PROVE  Contract!Next
<1>1. /\ job.pc = "idle" /\ job'.pc = "reserve" /\ tries' = tries + 1
      /\ UNCHANGED <<proven, commits, drafts>>
  BY RequestTypes DEF Request, forgeVars
<1>2. tries + 1 \in 1 .. MaxAttempts /\ tries + 1 \notin proven
  BY Bounds DEF Request, IInv, TypeOK
<1>3. Contract!Begin(tries + 1)
  BY <1>1, <1>2 DEF Contract!Begin
<1> QED
  BY <1>2, <1>3 DEF Contract!Next

\* The verifier passes the attempt.
LEMMA VerifyRefines ==
    ASSUME IInv, Verify, ~GiveUp
    PROVE  Contract!Next
<1>1. /\ job.pc = "verify" /\ job'.pc = "branch" /\ proven' = proven \cup {tries}
      /\ UNCHANGED <<tries, commits, drafts>>
  BY DEF Verify, forgeVars, IInv, TypeOK, Jobs
<1>2. tries # 0
  BY <1>1, Bounds DEF IInv, ProvenKnown, TypeOK
<1>3. Contract!Prove
  BY <1>1, <1>2 DEF Contract!Prove
<1> QED
  BY <1>3 DEF Contract!Next

\* A commit that has its effect ends up on the branch, whether or not it is answered.
LEMMA CommitRefines ==
    ASSUME IInv, Commit
    PROVE  [Contract!Next]_(Contract!vars)
<1>1. PICK o \in Outcomes :
          /\ commits' = IF o.effect THEN [commits EXCEPT ![job.fp][job.n] = @ \cup {tries}] ELSE commits
          /\ Goto(IF o.answer THEN "open" ELSE "except")
  BY DEF Commit
<1>2. /\ job.pc = "commit" /\ job.n \in Slots /\ job.fp \in Fps /\ tries \in proven
      /\ tries \in 1 .. MaxAttempts /\ UNCHANGED <<tries, proven, drafts>>
  BY Bounds, RowTypes DEF Commit, IInv, ProvenKnown, Publishing, TypeOK
<1>3. job'.pc \in {"open", "except"}
  BY <1>1, GotoTypes DEF IInv, Pcs
<1>4. CASE o.effect
  <2>1. commits \in [Fps -> [Slots -> SUBSET (1 .. MaxAttempts)]]
    BY DEF IInv, TypeOK
  <2>2. \A g \in Fps, n \in Slots :
           commits'[g][n] = IF g = job.fp /\ n = job.n THEN commits[g][n] \cup {tries}
                            ELSE commits[g][n]
    BY <1>1, <1>2, <1>4, <2>1
  <2>3. PICK f \in Fps, n \in Slots : f = job.fp /\ n = job.n
    BY <1>2
  <2>4. Published' = Published \cup {<<f, n, tries>>}
    <3>1. ASSUME NEW c \in Fps \X Slots \X (1 .. MaxAttempts)
          PROVE  c[3] \in commits'[c[1]][c[2]] <=>
                    c[3] \in commits[c[1]][c[2]] \/ c = <<f, n, tries>>
      <4>1. PICK g \in Fps, m \in Slots, a \in 1 .. MaxAttempts : c = <<g, m, a>>
        BY <3>1
      <4>2. CASE g = f /\ m = n
        <5>1. commits'[g][m] = commits[g][m] \cup {tries}
          BY <2>2, <2>3, <4>2
        <5> QED
          BY <4>1, <4>2, <5>1
      <4>3. CASE ~(g = f /\ m = n)
        <5>1. commits'[g][m] = commits[g][m]
          BY <2>2, <2>3, <4>3
        <5> QED
          BY <4>1, <4>3, <5>1
      <4> QED
        BY <4>2, <4>3
    <3>2. <<f, n, tries>> \in Fps \X Slots \X (1 .. MaxAttempts)
      BY <1>2
    <3> QED
      BY <3>1, <3>2 DEF Published
  <2>5. Contract!Publish(f, n)
    BY <1>2, <1>3, <2>4 DEF Contract!Publish, Published
  <2> QED
    BY <2>5 DEF Contract!Next
<1>5. CASE ~o.effect
  <2>1. UNCHANGED commits
    BY <1>1, <1>5
  <2> QED
    BY <1>2, <2>1, StutterRefines
<1> QED
  BY <1>4, <1>5

\* A draft is opened over the commit of the attempt.
LEMMA OpenRefines ==
    ASSUME IInv, OpenDraft
    PROVE  [Contract!Next]_(Contract!vars)
<1>1. PICK o \in Outcomes :
          /\ drafts' = IF o.effect THEN [drafts EXCEPT ![job.fp] = @ \cup {job.n}] ELSE drafts
          /\ Goto(IF o.answer THEN "publish" ELSE "except")
  BY DEF OpenDraft
<1>2. /\ job.pc = "open" /\ job.n \in Slots /\ job.fp \in Fps
      /\ tries \in commits[job.fp][job.n]
      /\ tries \in 1 .. MaxAttempts /\ UNCHANGED <<tries, proven, commits>>
  BY Bounds, RowTypes DEF OpenDraft, IInv, ProvenKnown, Publishing, TypeOK
<1>3. job'.pc \in {"publish", "except"}
  BY <1>1, GotoTypes DEF IInv, Pcs
<1>4. CASE o.effect
  <2>1. drafts \in [Fps -> SUBSET Slots]
    BY DEF IInv, TypeOK
  <2>2. PICK f \in Fps, n \in Slots : f = job.fp /\ n = job.n
    BY <1>2
  <2>3. Drafts' = Drafts \cup {<<f, n>>}
    BY <1>1, <1>2, <1>4, <2>1, <2>2 DEF Drafts
  <2>4. <<f, n, tries>> \in Published
    BY <1>2, <2>2 DEF Published
  <2>5. Contract!Open(f, n)
    BY <1>2, <1>3, <2>3, <2>4 DEF Contract!Open, Published, Drafts
  <2> QED
    BY <2>5 DEF Contract!Next
<1>5. CASE ~o.effect
  <2>1. UNCHANGED drafts
    BY <1>1, <1>5
  <2> QED
    BY <1>2, <2>1, StutterRefines
<1> QED
  BY <1>4, <1>5

\* Humans close and merge drafts; others touch nothing the contract speaks of.
LEMMA OthersRefine ==
    ASSUME IInv, Others
    PROVE  [Contract!Next]_(Contract!vars)
<1>1. UNCHANGED <<job, proven, tries, commits>>
  BY DEF Others, Drop, Reopen, Silent, Verified, CloseDraft, Merge, ByOthers
<1>2. PICK f \in Fps :
         \/ UNCHANGED drafts
         \/ \E n \in Slots : drafts' = [drafts EXCEPT ![f] = @ \ {n}]
  BY DEF Others, Drop, Reopen, Silent, Verified, CloseDraft, Merge
<1>3. CASE UNCHANGED drafts
  BY <1>1, <1>3 DEF Contract!vars
<1>4. ASSUME NEW n \in Slots, drafts' = [drafts EXCEPT ![f] = @ \ {n}]
      PROVE  Contract!Next
  <2>1. drafts \in [Fps -> SUBSET Slots]
    BY DEF IInv, TypeOK
  <2>2. Drafts' = Drafts \ {<<f, n>>}
    BY <1>4, <2>1 DEF Drafts
  <2>3. Contract!Close(f, n)
    BY <1>1, <2>2 DEF Contract!Close, Drafts
  <2> QED
    BY <2>3 DEF Contract!Next
<1> QED
  BY <1>2, <1>3, <1>4

\* The first state is the contract's first state.
LEMMA InitRefines == Init => Contract!Init
BY NoJobTypes DEF Init, Contract!Init, Slots

\* Every step is a step of the contract, or none.
LEMMA NextRefines == IInv /\ [Next]_vars => [Contract!Next]_(Contract!vars)
<1> SUFFICES ASSUME IInv, [Next]_vars PROVE [Contract!Next]_(Contract!vars)
  OBVIOUS
<1>1. ASSUME NEW f \in Fps, NEW how \in Hows, Request(f, how) \/ Refuse(f, how)
      PROVE  [Contract!Next]_(Contract!vars)
  <2>1. CASE Request(f, how)
    BY <2>1, RequestRefines
  <2>2. CASE Refuse(f, how)
    BY <2>2 DEF Refuse, forgeVars, Contract!vars
  <2> QED
    BY <1>1, <2>1, <2>2
<1>2. CASE Commit \/ OpenDraft \/ (Verify /\ ~GiveUp)
  BY <1>2, CommitRefines, OpenRefines, VerifyRefines
<1>3. CASE \/ Reserve \/ Prepare \/ Fixing \/ Fixed \/ (Verify /\ GiveUp) \/ CreateBranch \/ Bind
           \/ PublishRow \/ Delivered \/ Except \/ StorageFault \/ Crash
  <2>1. job.pc # "idle"
    BY <1>3 DEF Reserve, Prepare, Fixing, Fixed, Verify, CreateBranch, Bind, PublishRow, Delivered,
                Except, StorageFault, Crash
  <2>2. UNCHANGED <<proven, tries, commits, drafts>>
    BY <1>3 DEF Reserve, Prepare, Fixing, Fixed, GiveUp, CreateBranch, Bind, PublishRow, Delivered,
                Except, StorageFault, Crash, execVars, forgeVars
  <2> QED
    BY <2>1, <2>2, StutterRefines
<1>4. CASE Others
  BY <1>4, OthersRefine
<1>5. CASE UNCHANGED vars
  BY <1>5 DEF vars, execVars, forgeVars, Contract!vars
<1> QED
  BY <1>1, <1>2, <1>3, <1>4, <1>5 DEF Next, JobStep

\* What is published was proven by the attempt that published it, and a draft is opened
\* only over such work, whatever fails in between.
THEOREM Refinement == Spec => ImplementsContract
<1>1. Spec => Contract!Init /\ [][Contract!Next]_(Contract!vars)
  BY InitRefines, NextRefines, Invariance, PTL DEF Spec
<1> QED
  BY <1>1 DEF ImplementsContract, Contract!Spec
================================================================================
