------------------------------ MODULE FixExecution ------------------------------
(* The fix executor: an eligibility gate, the reservation of a work item, one  *)
(* attempt of FixLoop, the verifier, and the publication of a branch and a     *)
(* draft proposal at the forge. One attempt runs at a time in a process, asked *)
(* for by the RCA loop, a command or the dashboard; meanwhile humans and other *)
(* loops save the same row, forge calls fail before or after they take effect, *)
(* writes to the database fail and the process dies.                           *)
EXTENDS FixLoop, Sequences

CONSTANTS
    Fps,                \* fingerprints of one repository
    HasTests,           \* their services that configure a test_command
    AllowUntested,      \* ... that set allow_without_tests
    Autonomy,           \* Autonomy[f]: the dial of the service
    Verdicts,           \* graded verdicts of the RCA, a set of functions on Fps
    Heuristic,          \* Heuristic[f]: grade of the verdict when no RCA is on record
    MaxOpenPrs,         \* max_open_prs
    MaxBranches,        \* MAX_BRANCH_ATTEMPTS
    MaxRetries,         \* delivered retries after which a human must take over
    AuditWindow,        \* audit lines of a fingerprint that are looked at
    MaxAttempts, MaxHuman, MaxMishaps       \* bounds

VARIABLES
    row,                \* the fingerprint rows
    grade,              \* the verdict on record, while its audit line is in sight
    trail,              \* its audit lines within the window, newest last
    job,                \* the attempt under way
    branches, commits, drafts,      \* the forge
    proven,             \* attempts accepted by the loop and passed by the verifier
    orphaned,           \* fingerprints whose attempt was cut short by a crash or a failed write
    tries, human,
    mishaps             \* forge calls and writes that failed, and crashes

execVars == <<row, trail, job, proven, orphaned, tries>>
forgeVars == <<branches, commits, drafts>>
budgets == <<human, mishaps>>
vars == <<execVars, grade, forgeVars, budgets, loop>>

Slots == 1 .. MaxBranches
Grades == {"other", "low", "edge", "high"}      \* not code-fix; code-fix by confidence
States == {"open", "fixing", "awaiting", "verifying", "verified", "closed", "dropped", "reopened"}
Rows == [state : States, branch : 0 .. MaxBranches, url : BOOLEAN, chronic : BOOLEAN]

ASSUME FixExecutionAssumption ==
    /\ IsFiniteSet(Fps) /\ Fps # {}
    /\ HasTests \subseteq Fps /\ AllowUntested \subseteq Fps
    /\ Autonomy \in [Fps -> {"observe", "digest", "triage", "fix"}]
    /\ Verdicts \subseteq [Fps -> Grades] /\ Heuristic \in [Fps -> Grades]
    /\ {MaxBranches, AuditWindow} \subseteq Nat \ {0}
    /\ {MaxOpenPrs, MaxRetries, MaxAttempts, MaxHuman, MaxMishaps} \subseteq Nat

Mishaps == mishaps.forge + mishaps.storage + mishaps.crash
Mishap(kind) == Mishaps < MaxMishaps /\ mishaps' = [mishaps EXCEPT ![kind] = @ + 1]

Hows == {"auto", "human", "retry"}
Pcs == {"idle", "reserve", "prepare", "fixing", "verify", "branch", "bind", "commit", "open",
        "publish", "log", "except"}
Jobs == [pc : Pcs, fp : Fps, how : Hows, snap : Rows, n : 0 .. MaxBranches]
NewRow == [state |-> "open", branch |-> 0, url |-> FALSE, chronic |-> FALSE]
Trails == {s \in Seq({"rca", "retry", "other"}) : Len(s) <= AuditWindow}
MishapCounts == [forge : Nat, storage : Nat, crash : Nat]
NoJob == [pc |-> "idle", fp |-> CHOOSE f \in Fps : TRUE, how |-> "auto", snap |-> NewRow, n |-> 0]

TypeOK ==
    /\ LoopTypeOK
    /\ row \in [Fps -> Rows]
    /\ grade \in [Fps -> Grades]
    /\ trail \in [Fps -> Trails]
    /\ loop.pc # "off" <=> job.pc = "fixing"
    /\ job \in Jobs
    /\ branches \in [Fps -> SUBSET Slots] /\ drafts \in [Fps -> SUBSET Slots]
    /\ commits \in [Fps -> [Slots -> SUBSET (1 .. MaxAttempts)]]
    /\ proven \subseteq 1 .. tries /\ tries \in 0 .. MaxAttempts
    /\ orphaned \subseteq Fps
    /\ human \in 0 .. MaxHuman
    /\ mishaps \in MishapCounts /\ Mishaps <= MaxMishaps

Init ==
    /\ LoopInit
    /\ row = [f \in Fps |-> NewRow]
    /\ grade \in Verdicts
    /\ trail = [f \in Fps |-> <<"rca">>]
    /\ job = NoJob
    /\ branches = [f \in Fps |-> {}] /\ drafts = [f \in Fps |-> {}]
    /\ commits = [f \in Fps |-> [n \in Slots |-> {}]]
    /\ proven = {} /\ tries = 0 /\ orphaned = {}
    /\ human = 0 /\ mishaps = [forge |-> 0, storage |-> 0, crash |-> 0]

-------------------------------------------------------------------------------
(* The gate                                                                    *)

\* list_audit(subject, limit): only the newest lines of a fingerprint are looked at.
Window(s) == SubSeq(s, Len(s) - AuditWindow + 1, Len(s))
Written(f, line) == LET s == Append(trail[f], line)
                    IN IF Len(s) > AuditWindow THEN Window(s) ELSE s
Log(f, line) == trail' = [trail EXCEPT ![f] = Written(f, line)]
Lines(f, line) == {i \in DOMAIN trail[f] : trail[f][i] = line}

Verdict(f) == IF Lines(f, "rca") # {} THEN grade[f] ELSE Heuristic[f]
Confident(f) == Verdict(f) = "high" \/ (Verdict(f) = "edge" /\ f \in HasTests)

\* A proposal waiting for review and a work item being fixed count towards the cap.
Counted(f) == row[f].state = "fixing" \/ (row[f].state = "awaiting" /\ row[f].branch # 0)
UnderCap_OffByOne == Cardinality({f \in Fps : Counted(f)}) <= MaxOpenPrs

UnderCap == Cardinality({f \in Fps : Counted(f)}) < MaxOpenPrs

\* check_eligibility
Eligible(f, asked) ==
    /\ Confident(f)
    /\ Autonomy[f] = "fix" \/ (asked /\ Autonomy[f] \in {"triage", "digest"})
    /\ row[f].chronic => asked
    /\ UnderCap

Recurrence(f, asked) == asked /\ row[f].chronic /\ row[f].state = "reopened"

\* _refusal_reason: what is busy, closed or has a proposal is left alone. A dropped
\* item, and one closed after verification, are not.
MayFix(f, asked) ==
    /\ row[f].branch = 0 \/ Recurrence(f, asked)
    /\ row[f].state \notin {"fixing", "verifying", "closed"}
    /\ Eligible(f, asked)
    /\ f \in HasTests \cup AllowUntested

\* _retry_refusal_reason
MayRetry(f) ==
    /\ row[f].branch # 0 /\ row[f].url
    /\ row[f].state = "awaiting"
    /\ Cardinality(Lines(f, "retry")) < MaxRetries
    /\ f \in HasTests \cup AllowUntested

Allowed(f, how) == IF how = "retry" THEN MayRetry(f) ELSE MayFix(f, how = "human")

\* The RCA loop asks only for a service on the fix dial and an item that is not chronic.
Asks(f, how) == how = "auto" => Autonomy[f] = "fix" /\ ~row[f].chronic

\* FixExecutor.execute and retry: under the execution lock, read the row and decide. A
\* refusal, and the acknowledgement of a human's request, are audited.
Request(f, how) ==
    /\ job.pc = "idle" /\ tries < MaxAttempts
    /\ Asks(f, how)
    /\ Allowed(f, how)
    /\ job' = [NoJob EXCEPT !.pc = "reserve", !.fp = f, !.how = how, !.snap = row[f]]
    /\ tries' = tries + 1
    /\ IF how = "human" THEN Log(f, "other") ELSE UNCHANGED trail
    /\ UNCHANGED <<row, grade, proven, orphaned, forgeVars, budgets, loop>>

Refuse(f, how) ==
    /\ job.pc = "idle" /\ human < MaxHuman
    /\ Asks(f, how)
    /\ ~Allowed(f, how)
    /\ Log(f, "other")
    /\ human' = human + 1
    /\ UNCHANGED <<row, grade, job, proven, orphaned, tries, forgeVars, mishaps, loop>>

-------------------------------------------------------------------------------
(* The attempt                                                                 *)

\* FixExecutor saves a whole row made from the one it read.
Saved(changed) == row' = [row EXCEPT ![job.fp] = changed]
FailState == IF job.how = "retry" THEN "awaiting" ELSE "open"
Restored == [job.snap EXCEPT !.state = FailState]
Candidate == [job.snap EXCEPT !.chronic = FALSE]
Goto(pc) == job' = [job EXCEPT !.pc = pc]

Reserve ==
    /\ job.pc = "reserve"
    /\ Saved([job.snap EXCEPT !.state = "fixing"])
    /\ Goto("prepare")
    /\ UNCHANGED <<grade, trail, proven, orphaned, tries, forgeVars, budgets, loop>>

\* The workspace is a checkout of the default branch, or of the proposal for a retry.
\* Credentials, the download and the extraction may fail.
Prepare ==
    /\ job.pc = "prepare"
    /\ \/ /\ Goto("fixing")
          /\ \E S \in SUBSET Suite : BeginLoop(job.fp \in HasTests, S)
       \/ Goto("except") /\ UNCHANGED loop
    /\ UNCHANGED <<row, grade, trail, proven, orphaned, tries, forgeVars, budgets>>

Fixing ==
    /\ job.pc = "fixing" /\ loop.pc \notin Finished
    /\ LoopStep
    /\ UNCHANGED <<execVars, grade, forgeVars, budgets>>

\* No fix, or nothing that can be published: the row goes back.
GiveUp ==
    /\ Saved(Restored)
    /\ Log(job.fp, "other")
    /\ job' = NoJob
    /\ UNCHANGED <<grade, proven, orphaned, tries, forgeVars, budgets>>

Fixed ==
    /\ job.pc = "fixing" /\ loop.pc \in Finished
    /\ loop' = NoLoop
    /\ \/ loop.pc = "failed" /\ GiveUp
       \/ /\ loop.pc \in {"ok", "raised"}
          /\ Goto(IF loop.pc = "ok" THEN "verify" ELSE "except")
          /\ UNCHANGED <<row, grade, trail, proven, orphaned, tries, forgeVars, budgets>>

FirstBranch_Next == IF job.snap.branch = MaxBranches THEN MaxBranches ELSE job.snap.branch + 1

\* _bound_attempt: the suffix the row is bound to, or the bare name.
FirstBranch == IF job.snap.branch = 0 THEN 1 ELSE job.snap.branch

Verify_BlockIgnored ==
    /\ job.pc = "verify"
    /\ Log(job.fp, "other")
    /\ job' = [job EXCEPT !.pc = "branch", !.n = FirstBranch]
    /\ UNCHANGED <<row, grade, proven, orphaned, tries, forgeVars, budgets, loop>>

\* The verifier fails closed: no verdict is a block. What changed no file is not
\* delivered either.
Verify ==
    /\ job.pc = "verify"
    /\ \/ /\ proven' = proven \cup {tries}
          /\ Log(job.fp, "other")
          /\ job' = [job EXCEPT !.pc = "branch", !.n = FirstBranch]
          /\ UNCHANGED <<row, grade, orphaned, tries, forgeVars, budgets, loop>>
       \/ GiveUp /\ UNCHANGED loop

-------------------------------------------------------------------------------
(* Publication. A forge call may fail before or after it has taken effect.     *)

\* Whether the call has its effect, and whether its answer comes back.
Outcomes == {[effect |-> TRUE, answer |-> TRUE], [effect |-> TRUE, answer |-> FALSE],
             [effect |-> FALSE, answer |-> FALSE]}
Answer(o) == IF o.answer THEN UNCHANGED mishaps ELSE Mishap("forge")

\* FixProposalDelivery._ensure_branch: an existing branch is taken for an own earlier
\* one; after any error the next suffix is tried.
CreateBranch ==
    /\ job.pc = "branch"
    /\ \E o \in Outcomes :
          /\ Answer(o)
          /\ branches' = IF o.effect THEN [branches EXCEPT ![job.fp] = @ \cup {job.n}] ELSE branches
          /\ IF o.answer THEN Goto("bind")
             ELSE IF job.n < MaxBranches THEN job' = [job EXCEPT !.n = @ + 1]
             ELSE job' = [job EXCEPT !.pc = "except", !.n = 0]
    /\ UNCHANGED <<row, grade, trail, proven, orphaned, tries, commits, drafts, human,
                   loop>>

\* The binding is saved on a copy of the row that was read before it was reserved.
Bind ==
    /\ job.pc = "bind"
    /\ IF job.n = job.snap.branch THEN UNCHANGED row
       ELSE Saved([Candidate EXCEPT !.branch = job.n])
    /\ Goto("commit")
    /\ UNCHANGED <<grade, trail, proven, orphaned, tries, forgeVars, budgets, loop>>

\* commit_files adds one commit to the tip of the branch, whatever is there already.
Commit ==
    /\ job.pc = "commit"
    /\ \E o \in Outcomes :
          /\ Answer(o)
          /\ commits' = IF o.effect THEN [commits EXCEPT ![job.fp][job.n] = @ \cup {tries}] ELSE commits
          /\ Goto(IF o.answer THEN "open" ELSE "except")
    /\ UNCHANGED <<row, grade, trail, proven, orphaned, tries, branches, drafts, human,
                   loop>>

\* open_draft_proposal returns the open draft of the branch when there is one; then the
\* labels are added.
OpenDraft ==
    /\ job.pc = "open"
    /\ \E o \in Outcomes :
          /\ Answer(o)
          /\ drafts' = IF o.effect THEN [drafts EXCEPT ![job.fp] = @ \cup {job.n}] ELSE drafts
          /\ Goto(IF o.answer THEN "publish" ELSE "except")
    /\ UNCHANGED <<row, grade, trail, proven, orphaned, tries, branches, commits, human,
                   loop>>

PublishRow_Unbound ==
    /\ job.pc = "publish"
    /\ Saved([Candidate EXCEPT !.state = "awaiting", !.url = TRUE])
    /\ Goto("log")
    /\ UNCHANGED <<grade, trail, proven, orphaned, tries, forgeVars, budgets, loop>>

PublishRow ==
    /\ job.pc = "publish"
    /\ Saved([Candidate EXCEPT !.state = "awaiting", !.branch = job.n, !.url = TRUE])
    /\ Goto("log")
    /\ UNCHANGED <<grade, trail, proven, orphaned, tries, forgeVars, budgets, loop>>

\* proposal.deliver and fix.delivered; a retry is counted by its audit line.
Delivered ==
    /\ job.pc = "log"
    /\ LET f == job.fp
           line == IF job.how = "retry" THEN "retry" ELSE "other"
       IN /\ Log(f, line)
    /\ job' = NoJob
    /\ UNCHANGED <<row, grade, proven, orphaned, tries, forgeVars, budgets, loop>>

Except_Reraise ==
    /\ job.pc = "except"
    /\ job' = NoJob
    /\ UNCHANGED <<row, trail, grade, proven, orphaned, tries, forgeVars, budgets, loop>>

\* except Exception: the row that was read is saved again, binding and all.
Except ==
    /\ job.pc = "except"
    /\ Saved(Restored)
    /\ Log(job.fp, "other")
    /\ job' = NoJob
    /\ UNCHANGED <<grade, proven, orphaned, tries, forgeVars, budgets, loop>>

\* A write to the database fails: inside the try it becomes an exception, in the
\* handler of that exception, or before the try, nobody restores the row.
StorageFault ==
    /\ job.pc \in {"reserve", "bind", "publish", "log", "except"}
    /\ Mishap("storage")
    /\ IF job.pc \in {"reserve", "except"}
       THEN job' = NoJob /\ orphaned' = orphaned \cup {job.fp}
       ELSE Goto("except") /\ UNCHANGED orphaned
    /\ UNCHANGED <<row, grade, trail, proven, tries, forgeVars, human, loop>>

\* The process dies and starts again: the lock is free, the row stays as it is.
Crash ==
    /\ job.pc # "idle" /\ Mishap("crash")
    /\ job' = NoJob /\ loop' = NoLoop
    /\ orphaned' = orphaned \cup {job.fp}
    /\ UNCHANGED <<row, grade, trail, proven, tries, forgeVars, human>>

-------------------------------------------------------------------------------
(* Others: commands, the merge webhook, the verification watcher, the silence  *)
(* sweep, and humans at the forge.                                             *)

Act == human < MaxHuman /\ human' = human + 1
ByOthers(f, changed) ==
    /\ row' = [row EXCEPT ![f] = changed]
    /\ UNCHANGED <<grade, trail, job, proven, orphaned, tries, branches, commits, mishaps,
                   loop>>

Drop(f) == Act /\ ByOthers(f, [row[f] EXCEPT !.state = "dropped"]) /\ UNCHANGED drafts

Reopen(f) ==
    /\ row[f].state \in {"closed", "dropped"}
    /\ Act /\ ByOthers(f, [row[f] EXCEPT !.state = "reopened"]) /\ UNCHANGED drafts

Silent(f) ==
    /\ row[f].state \in {"open", "reopened"}
    /\ Act /\ ByOthers(f, [row[f] EXCEPT !.state = "closed"]) /\ UNCHANGED drafts

\* A human closes a draft: nothing listens.
CloseDraft(f, n) ==
    /\ n \in drafts[f]
    /\ Act /\ drafts' = [drafts EXCEPT ![f] = @ \ {n}]
    /\ ByOthers(f, row[f])

\* ... or merges it: the row bound to the branch starts verification.
Merge(f, n) ==
    /\ n \in drafts[f]
    /\ Act /\ drafts' = [drafts EXCEPT ![f] = @ \ {n}]
    /\ ByOthers(f, IF row[f].branch = n THEN [row[f] EXCEPT !.state = "verifying"] ELSE row[f])

\* The error is gone, or it is still there.
Verified(f) ==
    /\ row[f].state = "verifying"
    /\ UNCHANGED human
    /\ \E changed \in {[row[f] EXCEPT !.state = "verified"],
                       [row[f] EXCEPT !.state = "reopened", !.chronic = TRUE]} : ByOthers(f, changed)
    /\ UNCHANGED drafts

Others ==
    \E f \in Fps :
        \/ Drop(f) \/ Reopen(f) \/ Silent(f) \/ Verified(f)
        \/ \E n \in Slots : CloseDraft(f, n) \/ Merge(f, n)

JobStep ==
    \/ Reserve \/ Prepare \/ Fixing \/ Fixed \/ Verify \/ CreateBranch \/ Bind \/ Commit
    \/ OpenDraft \/ PublishRow \/ Delivered \/ Except

Next ==
    \/ \E f \in Fps, how \in Hows : Request(f, how) \/ Refuse(f, how)
    \/ JobStep \/ StorageFault \/ Crash \/ Others

\* The thread that holds the lock goes on: every call it makes has a timeout.
Spec == Init /\ [][Next]_vars /\ WF_vars(JobStep)

-------------------------------------------------------------------------------
(* Properties                                                                  *)

Contract == INSTANCE ProposalContract WITH
    Attempts <- 1 .. MaxAttempts, None <- 0,
    active <- IF job.pc = "idle" THEN 0 ELSE tries,
    published <- {c \in Fps \X Slots \X (1 .. MaxAttempts) : c[3] \in commits[c[1]][c[2]]},
    drafts <- {c \in Fps \X Slots : c[2] \in drafts[c[1]]}

\* Whatever fails in between, what reaches a branch was proven and verified by the
\* attempt that is under way, and a draft is opened only over such work.
ImplementsContract == Contract!Spec

\* A row is left in the state that blocks its fingerprint, and takes a place under the
\* cap, only when its attempt was cut short by a crash or a failed write.
FixingHasOwner ==
    \A f \in Fps : row[f].state = "fixing" /\ f \notin orphaned => job.pc # "idle" /\ job.fp = f

\* Proposals that wait for review and work items being fixed stay under max_open_prs.
CapHeld == Cardinality({f \in Fps : Counted(f)}) <= MaxOpenPrs

\* As long as no forge call fails, a fingerprint has one open draft, however often its
\* attempts are cut short and its row is restored.
TwinsNeedForgeFault == \A f \in Fps : mishaps.forge = 0 => Cardinality(drafts[f]) <= 1

\* While no call fails, an open draft is on the row of its fingerprint, where the merge
\* webhook looks for it.
DraftIsKnown ==
    \A f \in Fps : \A n \in drafts[f] :
        Mishaps = 0 => row[f].branch = n

\* An attempt ends, and with it the lock that keeps every other one out.
AttemptEnds == job.pc # "idle" ~> job.pc = "idle"
===============================================================================
