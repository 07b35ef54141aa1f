-------------------------------- MODULE Digest --------------------------------
(* The daily approval digest (WF-07): one pass lists what waits for an          *)
(* approval and publishes it as an issue, a comment on that issue releases a    *)
(* candidate to the fix executor. The hourly loop and the command run the same  *)
(* pass, with no lock; whether today's digest exists is read from the audit     *)
(* log. Around it, what makes and unmakes candidates: the pipeline's ticket     *)
(* creation with its reconciliation (IngestPipeline is the whole of it), the    *)
(* investigations, and the executor as its reads and saves (FixExecution).      *)
EXTENDS Integers, Sequences, FiniteSets

CONSTANTS
    Fps,                \* fingerprints, all of one repository in autonomy "digest"
    Workers,            \* threads that handle comments
    Recent, Released,   \* audit lines read: for today's digest, for an earlier release
    MaxProposals,       \* max_open_prs
    MaxBusy,            \* bound: threads in the middle of something at the same time
    MaxDay, MaxIssues, MaxComments, MaxMishaps      \* bounds

VARIABLES
    row,                \* the fingerprint rows
    verdict,            \* the last investigation says: a code fix, confidently
    issues,             \* the forge's issues, oldest first; all stay open
    log,                \* the digest lines of the audit log, by the day of their subject,
                        \* oldest first
    day,
    act,                \* what every thread does, and the row and the digest it holds
    comments,           \* comments acted on
    mishaps,            \* forge calls that failed, and crashes
    excused,            \* days on which a digest went unrecorded, or two passes overlapped
    unanswered,         \* fingerprints with a ticket creation that got no answer
    given,              \* drafts that approvals led to, per day and fingerprint
    unrecorded,         \* approvals whose audit line was never written, or not yet when
                        \* another approval of the same looked for it
    erased              \* whose "branch" a save put back to none, whose "ticket" it put
                        \* back to being created

rowVars == <<row, verdict, erased>>
ghosts == <<excused, unanswered, given, unrecorded>>
bounds == <<comments, mishaps>>
vars == <<rowVars, issues, log, day, act, bounds, ghosts>>

Actors == {"daily", "rca", "ingest"} \cup Workers
Days == 1 .. MaxDay
States == {"new", "queued", "open", "awaiting", "fixing"}
Busy == {"queued", "fixing"}
\* ticket: 0 while it has none; kept: reserved for a ticket that is being created
Rows == [state : States, ticket : 0 .. MaxIssues, kept : BOOLEAN, branch : BOOLEAN]
\* An issue names fingerprints; a digest has a day, a ticket has 0.
Issues == [about : SUBSET Fps, day : 0 .. MaxDay]
AuditLines == [what : {"create", "delivered", "refused", "failed"}, fps : SUBSET Fps,
               issue : 0 .. MaxIssues]
Pcs == {"idle", "create", "find", "recover", "bind", "judge", "look", "open", "record",
        "release", "fixing", "log"}
Acts == [pc : Pcs, fps : SUBSET Fps, snap : Rows, day : 0 .. MaxDay, issue : 0 .. MaxIssues,
         result : {"none", "delivered", "refused", "failed"}]

ASSUME DigestAssumption ==
    /\ Workers \cap {"daily", "rca", "ingest"} = {}
    /\ {Recent, Released, MaxProposals, MaxDay} \subseteq Nat \ {0}
    /\ {MaxBusy, MaxIssues, MaxComments, MaxMishaps} \subseteq Nat

TypeOK ==
    /\ row \in [Fps -> Rows] /\ verdict \in [Fps -> BOOLEAN]
    /\ issues \in Seq(Issues) /\ Len(issues) <= MaxIssues
    /\ \A i \in DOMAIN issues : issues[i].day <= day
    /\ log \in [Days -> Seq(AuditLines)]
    \* what is recorded as created exists
    /\ \A d \in Days : \A n \in DOMAIN log[d] :
          log[d][n].what = "create" => /\ log[d][n].issue \in DOMAIN issues
                                       /\ issues[log[d][n].issue].day = d
    /\ day \in Days
    /\ act \in [Actors -> Acts]
    /\ \A a \in Actors : act[a].day <= day /\ act[a].issue <= Len(issues)
    /\ \A f \in Fps : row[f].ticket \in 0 .. Len(issues)
    /\ comments \in 0 .. MaxComments /\ mishaps \in 0 .. MaxMishaps
    /\ excused \subseteq Days /\ unanswered \subseteq Fps
    /\ given \in [Days \X Fps -> Nat] /\ unrecorded \subseteq Days \X Fps /\ erased \subseteq Fps \X {"branch", "ticket"}

NewRow == [state |-> "new", ticket |-> 0, kept |-> FALSE, branch |-> FALSE]
Idle == [pc |-> "idle", fps |-> {}, snap |-> NewRow, day |-> 0, issue |-> 0, result |-> "none"]

Init ==
    /\ row = [f \in Fps |-> NewRow] /\ verdict = [f \in Fps |-> FALSE]
    /\ issues = <<>> /\ log = [d \in Days |-> <<>>] /\ day = 1
    /\ act = [a \in Actors |-> Idle]
    /\ comments = 0 /\ mishaps = 0
    /\ excused = {} /\ unanswered = {} /\ unrecorded = {} /\ erased = {}
    /\ given = [x \in Days \X Fps |-> 0]

-------------------------------------------------------------------------------
(* Helpers                                                                      *)

Free(a) == act[a].pc = "idle" /\ Cardinality({b \in Actors : act[b].pc # "idle"}) < MaxBusy
Goes(a, pc) == act' = [act EXCEPT ![a].pc = pc]
Rests(a) == act' = [act EXCEPT ![a] = Idle]

\* A thread takes up one fingerprint, and holds the row as it is now.
Takes(a, f, pc) == act' = [act EXCEPT ![a] = [Idle EXCEPT !.pc = pc, !.fps = {f}, !.snap = row[f]]]
Its(a) == CHOOSE f \in Fps : act[a].fps = {f}

\* save_fingerprint writes the whole of the copy. It may forget a proposal, or
\* bring back a reservation that has ended (only Wakes and Recovers make one).
Forgets(old, new) ==
    {what \in {"branch", "ticket"} :
        IF what = "branch" THEN old.branch /\ ~new.branch
        ELSE ~old.kept /\ new.kept /\ new.state # "queued"}
Saves(f, new) ==
    /\ row' = [row EXCEPT ![f] = new]
    /\ erased' = erased \cup ({f} \X Forgets(row[f], new))

Mishap == mishaps < MaxMishaps /\ mishaps' = mishaps + 1
Comments == comments < MaxComments /\ comments' = comments + 1

\* create_ticket: an issue whose body names the fingerprints; a digest has a day.
Lands(fps, d) == Len(issues) < MaxIssues /\ issues' = Append(issues, [about |-> fps, day |-> d])
IsDigest(i) == issues[i].day > 0

\* find_ticket_by_marker: GitHub lists the newest first.
Naming(f) == {i \in DOMAIN issues : f \in issues[i].about}
Newest(f) == CHOOSE i \in Naming(f) : \A j \in Naming(f) : j <= i

\* list_audit(subject=digest:<repo>:<day>, limit=n).
Lines(d, n) == {log[d][k] : k \in {k \in DOMAIN log[d] : k > Len(log[d]) - n}}

Writes(a, what) ==
    log' = [log EXCEPT ![act[a].day] =
               Append(@, [what |-> what, fps |-> act[a].fps, issue |-> act[a].issue])]

-------------------------------------------------------------------------------
(* Tickets: an event of a fingerprint that has none                             *)

\* _create_ticket reserves the row before it calls the forge.
Wakes(f) ==
    /\ Free("ingest") /\ row[f].ticket = 0 /\ row[f].state \notin Busy
    /\ Takes("ingest", f, "create")
    /\ Saves(f, [row[f] EXCEPT !.state = "queued", !.kept = TRUE])
    /\ UNCHANGED <<verdict, issues, log, day, bounds, ghosts>>

\* The forge takes the issue.
CreateAnswered ==
    LET f == Its("ingest") IN
    /\ act["ingest"].pc = "create"
    /\ Lands({f}, 0)
    /\ act' = [act EXCEPT !["ingest"] =
                  [@ EXCEPT !.pc = "bind", !.issue = Len(issues) + 1,
                            !.snap.state = "queued"]]
    /\ UNCHANGED <<rowVars, log, day, bounds, ghosts>>

CreateRejected_Looks ==
    /\ act["ingest"].pc = "create"
    /\ Mishap
    /\ Goes("ingest", "find")
    /\ UNCHANGED <<rowVars, issues, log, day, comments, ghosts>>

\* A definitive rejection: the reservation is released.
CreateRejected ==
    LET f == Its("ingest") IN
    /\ act["ingest"].pc = "create"
    /\ Mishap
    /\ Saves(f, [act["ingest"].snap EXCEPT !.state = "new", !.kept = FALSE])
    /\ Rests("ingest")
    /\ UNCHANGED <<verdict, issues, log, day, comments, ghosts>>

\* No answer: the issue may or may not be there, and is looked for.
CreateUnanswered ==
    LET f == Its("ingest") IN
    /\ act["ingest"].pc = "create"
    /\ Mishap
    /\ Lands({f}, 0) \/ UNCHANGED issues
    /\ unanswered' = unanswered \cup {f}
    /\ Goes("ingest", "find")
    /\ UNCHANGED <<rowVars, log, day, comments, excused, given, unrecorded>>

\* _reconcile_remote_ticket after a creation: without an issue the reservation is kept.
CreateFound ==
    LET f == Its("ingest") IN
    /\ act["ingest"].pc = "find"
    /\ \/ /\ Naming(f) # {}
          /\ act' = [act EXCEPT !["ingest"] =
                        [@ EXCEPT !.pc = "bind", !.issue = Newest(f),
                                  !.snap.state = "queued"]]
          /\ UNCHANGED mishaps
       \/ /\ IF Naming(f) = {} THEN UNCHANGED mishaps ELSE Mishap
          /\ Rests("ingest")
    /\ UNCHANGED <<rowVars, issues, log, day, comments, ghosts>>

\* _recover_interrupted_reservation: an old one is looked for first.
Reconsiders(f) ==
    /\ Free("ingest") /\ row[f].ticket = 0 /\ row[f].kept /\ row[f].state \in {"queued", "open"}
    /\ Takes("ingest", f, "recover")
    /\ UNCHANGED <<rowVars, issues, log, day, bounds, ghosts>>

\* Found, or armed again for the event at hand, which reserves it anew.
Recovers ==
    LET f == Its("ingest") IN
    /\ act["ingest"].pc = "recover"
    /\ \/ /\ Naming(f) # {}
          /\ act' = [act EXCEPT !["ingest"] = [@ EXCEPT !.pc = "bind", !.issue = Newest(f)]]
          /\ UNCHANGED <<row, erased, mishaps>>
       \/ /\ IF Naming(f) = {} THEN UNCHANGED mishaps ELSE Mishap
          /\ act' = [act EXCEPT !["ingest"] =
                        [@ EXCEPT !.pc = "create", !.snap.state = "new", !.snap.kept = FALSE]]
          /\ Saves(f, [act["ingest"].snap EXCEPT !.state = "queued", !.kept = TRUE])
    /\ UNCHANGED <<verdict, issues, log, day, comments, ghosts>>

\* _bind_ticket saves the row that was read, with the issue.
Binds ==
    LET f == Its("ingest") IN
    /\ act["ingest"].pc = "bind"
    /\ Saves(f, [act["ingest"].snap EXCEPT !.ticket = act["ingest"].issue, !.kept = FALSE])
    /\ Rests("ingest")
    /\ UNCHANGED <<verdict, issues, log, day, bounds, ghosts>>

-------------------------------------------------------------------------------
(* Investigations: the RCA loop's, and a human's with "explain" on the ticket   *)

RcaPicks(f) ==
    /\ Free("rca") /\ row[f].state = "queued"
    /\ Takes("rca", f, "judge")
    /\ UNCHANGED <<rowVars, issues, log, day, bounds, ghosts>>

Explains(w, f) ==
    /\ Free(w) /\ row[f].ticket # 0 /\ Comments
    /\ Takes(w, f, "judge")
    /\ UNCHANGED <<rowVars, issues, log, day, mishaps, ghosts>>

\* investigate saves the row it read, and its verdict.
Judges(a) ==
    LET f == Its(a) IN
    /\ act[a].pc = "judge"
    /\ \/ /\ Saves(f, [act[a].snap EXCEPT !.state = "open"])
          /\ \E fix \in BOOLEAN : verdict' = [verdict EXCEPT ![f] = fix]
       \/ /\ Saves(f, [act[a].snap EXCEPT !.state = "awaiting"])
          /\ verdict' = [verdict EXCEPT ![f] = FALSE]
    /\ Rests(a)
    /\ UNCHANGED <<issues, log, day, bounds, ghosts>>

-------------------------------------------------------------------------------
(* The pass: run_once and _ensure_digest                                        *)

Eligible(f) == ~row[f].branch /\ row[f].state # "fixing" /\ verdict[f]
Candidates == {f \in Fps : Eligible(f)}

Passes(a) ==
    /\ Candidates # {}
    /\ act' = [act EXCEPT ![a] = [Idle EXCEPT !.pc = "look", !.fps = Candidates]]
    /\ UNCHANGED <<rowVars, issues, log, day, mishaps, ghosts>>

\* Every hour, and on a "digest" comment on any ticket of the repository.
HourlyPass == Free("daily") /\ Passes("daily") /\ UNCHANGED comments
DigestCommand(w, f) == Free(w) /\ row[f].ticket # 0 /\ Comments /\ Passes(w)

Exists(d) == \E line \in Lines(d, Recent) : line.what = "create"

Looks_Never(a) ==
    /\ act[a].pc = "look"
    /\ act' = [act EXCEPT ![a] = [@ EXCEPT !.pc = "open", !.day = day]]
    /\ UNCHANGED <<rowVars, issues, log, day, bounds, ghosts>>

\* Today's digest is looked for among the audit lines of its subject.
Looks(a) ==
    /\ act[a].pc = "look"
    /\ IF Exists(day)
       THEN Rests(a) /\ UNCHANGED excused
       ELSE /\ act' = [act EXCEPT ![a] = [@ EXCEPT !.pc = "open", !.day = day]]
            /\ excused' = IF \E b \in Actors : /\ act[b].pc \in {"open", "record"}
                                             /\ act[b].day = day
                          THEN excused \cup {day} ELSE excused
    /\ UNCHANGED <<rowVars, issues, log, day, bounds, unanswered, given, unrecorded>>

Opens(a) ==
    /\ act[a].pc = "open"
    /\ Lands(act[a].fps, act[a].day)
    /\ act' = [act EXCEPT ![a] = [@ EXCEPT !.pc = "record", !.issue = Len(issues) + 1]]
    /\ UNCHANGED <<rowVars, log, day, bounds, ghosts>>

\* create_ticket raised, with or without an issue made, or add_label did.
PassFails(a) ==
    /\ act[a].pc \in {"open", "record"}
    /\ Mishap
    /\ \/ act[a].pc = "open" /\ Lands(act[a].fps, act[a].day)
       \/ UNCHANGED issues
    /\ excused' = excused \cup {act[a].day}
    /\ Rests(a)
    /\ UNCHANGED <<rowVars, log, day, comments, unanswered, given, unrecorded>>

\* One line of the subject that was looked for.
Records(a) ==
    /\ act[a].pc = "record"
    /\ Writes(a, "create")
    /\ Rests(a)
    /\ UNCHANGED <<rowVars, issues, day, bounds, ghosts>>

-------------------------------------------------------------------------------
(* The approval: handle_comment and approve                                     *)

WasReleased(d, f) ==
    \E line \in Lines(d, Released) : line.what = "delivered" /\ f \in line.fps

\* _digest_by_issue: the issue is the recorded digest of d, and f a candidate on it.
IsOn(d, i, f) ==
    \E n \in DOMAIN log[d] :
        log[d][n].what = "create" /\ log[d][n].issue = i /\ f \in log[d][n].fps

Handling(d, f) ==
    \E b \in Workers : act[b].pc \in {"release", "fixing", "log"} /\ act[b].day = d /\ act[b].fps = {f}

Approves_EveryTime(w, i, f) ==
    /\ Free(w) /\ Comments
    /\ \A g \in Fps : row[g].ticket # i
    /\ \E d \in Days :
          /\ IsOn(d, i, f)
          /\ act' = [act EXCEPT ![w] = [Idle EXCEPT !.pc = "release", !.fps = {f},
                                                    !.day = d, !.issue = i]]
    /\ UNCHANGED <<rowVars, issues, log, day, mishaps, ghosts>>

\* The issue is a recorded digest and nobody's ticket, the fingerprint is on it
\* and not on record as released from it.
Approves(w, i, f) ==
    /\ Free(w) /\ Comments
    /\ \A g \in Fps : row[g].ticket # i
    /\ \E d \in Days :
          /\ IsOn(d, i, f) /\ ~WasReleased(d, f)
          /\ act' = [act EXCEPT ![w] = [Idle EXCEPT !.pc = "release", !.fps = {f},
                                                    !.day = d, !.issue = i]]
          /\ unrecorded' = IF Handling(d, f)
                           THEN unrecorded \cup {<<d, f>>} ELSE unrecorded
    /\ UNCHANGED <<rowVars, issues, log, day, mishaps, excused, unanswered, given>>

Running == \E b \in Workers : act[b].pc = "fixing"
Proposals == Cardinality({g \in Fps : \/ row[g].state = "fixing"
                                      \/ row[g].branch /\ row[g].state = "awaiting"})
GateOpen(f) ==
    /\ ~row[f].branch /\ row[f].state # "fixing"
    /\ verdict[f] /\ Proposals < MaxProposals

\* execute reads the row again, behind a lock that is not waited for.
Releases(w) ==
    LET f == Its(w) IN
    /\ act[w].pc = "release"
    /\ IF ~Running /\ GateOpen(f)
       THEN /\ act' = [act EXCEPT ![w] = [@ EXCEPT !.pc = "fixing", !.snap = row[f]]]
            /\ Saves(f, [row[f] EXCEPT !.state = "fixing"])
       ELSE /\ act' = [act EXCEPT ![w] = [@ EXCEPT !.pc = "log", !.result = "refused"]]
            /\ UNCHANGED <<row, erased>>
    /\ UNCHANGED <<verdict, issues, log, day, bounds, ghosts>>

\* A draft, or a failed attempt: saved over the row read before it.
Fixes(w) ==
    LET f == Its(w) IN
    /\ act[w].pc = "fixing"
    /\ \/ /\ Saves(f, [act[w].snap EXCEPT !.state = "awaiting", !.branch = TRUE])
          /\ act' = [act EXCEPT ![w] = [@ EXCEPT !.pc = "log", !.result = "delivered"]]
          /\ given' = [given EXCEPT ![<<act[w].day, f>>] = @ + 1]
       \/ /\ Saves(f, [act[w].snap EXCEPT !.state = "open"])
          /\ act' = [act EXCEPT ![w] = [@ EXCEPT !.pc = "log", !.result = "failed"]]
          /\ UNCHANGED given
    /\ UNCHANGED <<verdict, issues, log, day, bounds, excused, unanswered, unrecorded>>

Logs(w) ==
    /\ act[w].pc = "log"
    /\ Writes(w, act[w].result)
    /\ Rests(w)
    /\ UNCHANGED <<rowVars, issues, day, bounds, ghosts>>

-------------------------------------------------------------------------------
(* Days and crashes                                                             *)

Midnight ==
    /\ day < MaxDay /\ day' = day + 1
    /\ UNCHANGED <<rowVars, issues, log, act, bounds, ghosts>>

\* The threads end; startup resets the reservations that have no ticket.
Crash ==
    /\ Mishap /\ \E a \in Actors : act[a].pc # "idle"
    /\ act' = [a \in Actors |-> Idle]
    /\ row' = [f \in Fps |-> IF row[f].ticket = 0 /\ row[f].kept
                             THEN [row[f] EXCEPT !.state = "new", !.kept = FALSE] ELSE row[f]]
    /\ excused' = excused \cup {act[a].day : a \in {b \in Actors : act[b].pc = "record"}}
    /\ unrecorded' = unrecorded \cup {<<act[w].day, Its(w)>> :
                           w \in {b \in Workers : act[b].pc = "log" /\ act[b].result = "delivered"}}
    /\ UNCHANGED <<verdict, erased, issues, log, day, comments, unanswered, given>>

Ticketing ==
    \/ \E f \in Fps : Wakes(f) \/ Reconsiders(f)
    \/ CreateAnswered \/ CreateRejected \/ CreateUnanswered \/ CreateFound \/ Recovers \/ Binds

Investigation ==
    \/ \E f \in Fps : RcaPicks(f) \/ \E w \in Workers : Explains(w, f)
    \/ \E a \in Actors : Judges(a)

Pass ==
    \/ HourlyPass \/ \E w \in Workers, f \in Fps : DigestCommand(w, f)
    \/ \E a \in Actors : Looks(a) \/ Opens(a) \/ PassFails(a) \/ Records(a)

Approval ==
    \E w \in Workers :
        \/ \E i \in DOMAIN issues, f \in Fps : Approves(w, i, f)
        \/ Releases(w) \/ Fixes(w) \/ Logs(w)

Next == Ticketing \/ Investigation \/ Pass \/ Approval \/ Midnight \/ Crash

Spec == Init /\ [][Next]_vars

-------------------------------------------------------------------------------
(* Properties                                                                   *)

\* WF-07: one digest issue per repository and day. A second one is published
\* only on a day on which a pass failed or died between its look and its audit
\* line, on which two passes looked before either recorded, or on which so many
\* approvals came that the line has left the lines that are read.
OneDigestPerDay ==
    \A d \in Days \ excused :
        Cardinality({i \in DOMAIN issues : issues[i].day = d}) > 1 =>
            Cardinality({n \in DOMAIN log[d] : log[d][n].what # "create"}) >= Recent

\* WF-07: an approval releases a candidate once. The digest of a day leads to a
\* second draft for it only if a save has put its row back to before the first
\* one, and the audit line of that first one was not there: not yet when the
\* second was taken up, never written, or no longer among the lines read.
ReleasedOnce ==
    \A x \in Days \X Fps : given[x] > 1 =>
        /\ <<x[2], "branch">> \in erased
        /\ x \in unrecorded \/ Len(log[x[1]]) > Released

\* A digest names its candidates as a ticket names its fingerprint. It is taken
\* for a ticket (and then refuses approvals) only when the creation of the
\* ticket got no answer, or an investigation that had read the row before its
\* ticket was bound saved it afterwards: a rejection or a crash never does it.
TakenForATicket ==
    \A f \in Fps : row[f].ticket # 0 =>
        /\ f \in issues[row[f].ticket].about
        /\ IsDigest(row[f].ticket) => f \in unanswered \/ <<f, "ticket">> \in erased
===============================================================================
