------------------------------- MODULE Incidents -------------------------------
(* The life of one ticketed work item (WF-04, WF-07, WF-08): the loops that     *)
(* classify it, close it when it is silent and verify a merged fix, the ingest  *)
(* of its occurrences, and the handlers of GitHub's deliveries: the commands of *)
(* humans and the merge of a proposal. Each reads the row, calls the forge, and *)
(* saves the whole row it read: nothing orders the saves. The fix executor is   *)
(* here its reads and saves (FixExecution is the whole of it).                  *)
EXTENDS Integers, Sequences, FiniteSets

CONSTANTS
    Workers,            \* threads that handle deliveries
    Commands,           \* the commands that arrive
    Grace, Window,      \* ticks of silence: before an auto-close, before a verdict
    DeployLimit,        \* deploys the watcher looks at
    MaxBusy,            \* bound: threads between a read and a save at the same time
    MaxTime, MaxMerges, MaxDeploys, MaxEvents, MaxInbox, MaxMishaps     \* bounds

VARIABLES
    row,                \* the fingerprint row
    open,               \* its ticket is open at the forge
    proposed,           \* its draft proposal is open
    merges,             \* proposals merged; a merge is its commit
    deploys,            \* deploys of the service on record
    events,             \* when an occurrence of it was logged
    now,
    act,                \* what every thread does, and the row it holds
    inbox,              \* GitHub deliveries not being handled
    arrived,            \* how many came
    latest,             \* the one whose handling began last
    blocked,            \* a fix proved insufficient and no human asked for another, nor
                        \* had one under way
    judged,             \* what the last confirming verdict was given on
    lost,               \* fields that a save put back to what its writer had read; "drop":
                        \* a fix took up an item after its drop, or the drop came while
                        \* another held it as dropped; "ticket": it was opened
                        \* or closed for a row that had changed, or between two steps of
                        \* another who opens or closes it
    mishaps             \* forge calls that failed, and crashes

forgeVars == <<open, proposed>>
worldVars == <<merges, deploys, events, now>>
mail == <<inbox, arrived, latest>>
ghosts == <<blocked, judged>>
rowVars == <<row, lost>>
vars == <<rowVars, forgeVars, worldVars, act, mail, ghosts, mishaps>>

Loops == {"rca", "watch", "sweep", "ingest"}
Actors == Loops \cup Workers
Times == 0 .. MaxTime                   \* 0: never
States == {"queued", "open", "awaiting", "fixing", "verifying", "verified", "closed", "dropped",
           "reopened"}
Deliveries == Commands \cup {"merge"}
Settled == {"verified", "closed", "dropped"}
Rows == [state : States, seen : Times, chronic : BOOLEAN, branch : BOOLEAN,
         started : Times, fix : 0 .. MaxMerges]
Pcs == {"idle", "judge", "auto", "reserve", "deliver", "arm", "drop", "shut", "reopen", "unshut",
        "return", "note", "reply", "confirm", "refute", "confirmed", "refuted", "keep",
        "close", "closed"}

ASSUME IncidentsAssumption ==
    /\ Workers \cap Loops = {}
    /\ Commands \subseteq {"drop", "reopen", "explain", "fix"}
    /\ {Grace, Window, DeployLimit, MaxTime} \subseteq Nat \ {0}
    /\ {MaxBusy, MaxMerges, MaxDeploys, MaxEvents, MaxInbox, MaxMishaps} \subseteq Nat

TypeOK ==
    /\ row \in Rows
    /\ open \in BOOLEAN /\ proposed \in BOOLEAN /\ blocked \in BOOLEAN
    /\ deploys \in Seq([at : Times, fix : 0 .. merges])
    /\ merges \in 0 .. MaxMerges /\ now \in Times /\ events \subseteq 1 .. now
    /\ act \in [Actors -> [pc : Pcs, snap : Rows, cmd : Deliveries \cup {"none"}]]
    /\ inbox \subseteq Deliveries /\ latest \in Deliveries \cup {"none"}
    /\ arrived \in 0 .. MaxInbox
    /\ \A w \in Workers : act[w].pc # "idle" => act[w].cmd # "none"
    /\ lost \subseteq {"state", "chronic", "drop", "ticket"}
    /\ mishaps \in 0 .. MaxMishaps
    \* a branch that is merged was proposed, and a window is opened by a merge
    /\ row.fix <= merges /\ (row.state = "verifying" => row.started > 0)

\* The pipeline has just ticketed it and queued its investigation.
NewRow == [state |-> "queued", seen |-> 1, chronic |-> FALSE, branch |-> FALSE,
           started |-> 0, fix |-> 0]
Idle == [pc |-> "idle", snap |-> NewRow, cmd |-> "none"]

Init ==
    /\ row = NewRow /\ open = TRUE /\ proposed = FALSE
    /\ merges = 0 /\ deploys = <<>> /\ events = {1} /\ now = 1
    /\ act = [a \in Actors |-> Idle]
    /\ inbox = {} /\ arrived = 0 /\ latest = "none"
    /\ blocked = FALSE
    /\ judged = [to |-> 0, since |-> 0, fix |-> 0, deploys |-> 0]
    /\ lost = {} /\ mishaps = 0

-------------------------------------------------------------------------------
(* What every thread does with a row                                           *)

Free(a) == act[a].pc = "idle" /\ Cardinality({b \in Actors : act[b].pc # "idle"}) < MaxBusy
Goes(a, pc) == act' = [act EXCEPT ![a].pc = pc]
Rests(a) == act' = [act EXCEPT ![a] = Idle]

\* Holds the row as it is now, to save it later with changes of its own.
Reads(a, pc) == act' = [act EXCEPT ![a] = [@ EXCEPT !.pc = pc, !.snap = row]]

\* save_fingerprint writes every field of the copy.
Saves(a, new, pc) ==
    /\ row' = new
    /\ lost' = lost \cup {x \in {"state", "chronic"} : act[a].snap[x] # row[x] /\ new[x] # row[x]}
    /\ act' = [act EXCEPT ![a] = IF pc = "idle" THEN Idle ELSE [@ EXCEPT !.pc = pc, !.snap = new]]

OnTicket == {"shut", "unshut", "close", "closed", "confirm", "confirmed", "refute", "refuted"}

\* A call that opens or closes the ticket.
Calls(a, opens) ==
    /\ open' = opens
    /\ lost' = IF row # act[a].snap \/ \E b \in Actors \ {a} : act[b].pc \in OnTicket
               THEN lost \cup {"ticket"} ELSE lost

Mishap == mishaps < MaxMishaps /\ mishaps' = mishaps + 1

-------------------------------------------------------------------------------
(* The investigation, by the RCA loop and by the explain command                *)

RcaPicks_AnyActive ==
    /\ Free("rca") /\ row.state # "queued"
    /\ Reads("rca", "judge")
    /\ UNCHANGED <<rowVars, forgeVars, worldVars, mail, ghosts, mishaps>>

\* RcaDispatcher.run_once picks what is queued.
RcaPicks ==
    /\ Free("rca") /\ row.state = "queued"
    /\ Reads("rca", "judge")
    /\ UNCHANGED <<rowVars, forgeVars, worldVars, mail, ghosts, mishaps>>

\* investigate: whatever the state it read, the item is open or a human's afterwards.
Judges(a) ==
    /\ act[a].pc = "judge"
    /\ \E s \in {"open", "awaiting"} :
          \/ /\ a = "rca"
             /\ \/ Saves(a, [act[a].snap EXCEPT !.state = s], "idle")
                \/ /\ s = "open" /\ ~act[a].snap.chronic
                   /\ Saves(a, [act[a].snap EXCEPT !.state = s], "auto")
          \/ a \in Workers /\ Saves(a, [act[a].snap EXCEPT !.state = s], "reply")
    /\ UNCHANGED <<forgeVars, worldVars, mail, ghosts, mishaps>>

-------------------------------------------------------------------------------
(* A fix, asked for by the RCA loop or a human                                  *)

Asked(a) == a \in Workers
FixUnderWay == \E a \in Actors : act[a].pc \in {"reserve", "deliver"}

MayFix_ChronicToo(a) ==
    /\ ~row.branch \/ row.chronic
    /\ row.state \notin {"fixing", "verifying", "closed"}

MayFix(a) ==
    /\ ~row.branch \/ (Asked(a) /\ row.chronic /\ row.state = "reopened")
    /\ row.state \notin {"fixing", "verifying", "closed"}
    /\ row.chronic => Asked(a)

\* A fix that a human asked for is under way.
AnsweringHuman == \E w \in Workers : act[w].pc \in {"reserve", "deliver"}

\* FixExecutor.execute reads the row afresh; or it refuses.
FixBegins(a) ==
    /\ act[a].pc = "auto"
    /\ \/ /\ ~FixUnderWay /\ MayFix(a) /\ Reads(a, "reserve")
          /\ blocked' = (blocked /\ ~Asked(a))
          /\ lost' = lost \cup IF row.state = "dropped" /\ latest = "drop" THEN {"drop"} ELSE {}
       \/ Rests(a) /\ UNCHANGED <<blocked, lost>>
    /\ UNCHANGED <<row, forgeVars, worldVars, mail, judged, mishaps>>

FixReserves(a) ==
    /\ act[a].pc = "reserve"
    /\ Saves(a, [act[a].snap EXCEPT !.state = "fixing"], "deliver")
    /\ UNCHANGED <<forgeVars, worldVars, mail, ghosts, mishaps>>

\* A draft, with the human's request acknowledged, or nothing.
FixEnds(a) ==
    /\ act[a].pc = "deliver"
    /\ LET pc == IF Asked(a) THEN "reply" ELSE "idle" IN
       \/ /\ Saves(a, [act[a].snap EXCEPT !.state = "awaiting", !.branch = TRUE,
                                          !.chronic = FALSE], pc)
          /\ proposed' = TRUE
       \/ Saves(a, [act[a].snap EXCEPT !.state = "open"], pc) /\ UNCHANGED proposed
    /\ UNCHANGED <<open, worldVars, mail, ghosts, mishaps>>

-------------------------------------------------------------------------------
(* Deliveries from GitHub: saved before they are handled, retried when handling *)
(* fails or the process dies                                                   *)

Arrives(cmd) ==
    /\ arrived < MaxInbox
    /\ cmd \notin inbox /\ \A w \in Workers : act[w].cmd # cmd   \* bound: one of a kind at a time
    /\ inbox' = inbox \cup {cmd}
    /\ arrived' = arrived + 1
    /\ UNCHANGED latest

Commanded ==
    /\ \E cmd \in Commands : Arrives(cmd)
    /\ UNCHANGED <<rowVars, forgeVars, worldVars, act, ghosts, mishaps>>

\* A human merges the proposal.
Merged ==
    /\ proposed /\ merges < MaxMerges
    /\ Arrives("merge")
    /\ proposed' = FALSE /\ merges' = merges + 1
    /\ UNCHANGED <<rowVars, open, deploys, events, now, act, ghosts, mishaps>>

\* What the handler of a delivery does first, by the row it finds. A reopen of an open
\* item, a merge whose branch no row has, and one already being verified do nothing.
Starts(cmd) ==
    CASE cmd = "explain" -> "judge"
      [] cmd = "fix" -> "auto"
      [] cmd = "drop" -> "drop"
      [] cmd = "reopen" -> IF row.state \in {"closed", "dropped"} THEN "reopen" ELSE "idle"
      [] cmd = "merge" -> IF row.branch /\ row.state # "verifying" THEN "arm" ELSE "idle"

\* Someone read it as dropped and is about to save it otherwise.
HeldAsDropped ==
    \E a \in Actors : /\ act[a].pc \in {"judge", "reserve", "reopen", "arm"}
                      /\ act[a].snap.state = "dropped"

Handles(w) ==
    /\ Free(w)
    /\ \E cmd \in inbox :
          /\ inbox' = inbox \ {cmd} /\ latest' = cmd
          /\ lost' = lost \cup IF cmd = "drop" /\ HeldAsDropped THEN {"drop"} ELSE {}
          /\ act' = IF Starts(cmd) = "idle" THEN act
                    ELSE [act EXCEPT ![w] = [pc |-> Starts(cmd), snap |-> row, cmd |-> cmd]]
    /\ UNCHANGED <<row, forgeVars, worldVars, arrived, ghosts, mishaps>>

\* _cmd_drop, _cmd_reopen: first the row, then the ticket.
Drops(w) ==
    /\ act[w].pc = "drop"
    /\ Saves(w, [act[w].snap EXCEPT !.state = "dropped"], "shut")
    /\ UNCHANGED <<forgeVars, worldVars, mail, ghosts, mishaps>>

Reopens(w) ==
    /\ act[w].pc = "reopen"
    /\ Saves(w, [act[w].snap EXCEPT !.state = "reopened"], "unshut")
    /\ UNCHANGED <<forgeVars, worldVars, mail, ghosts, mishaps>>

CallsForge(w) ==
    /\ w \in Workers /\ act[w].pc \in {"shut", "unshut"}
    /\ Calls(w, act[w].pc = "unshut")
    /\ Rests(w)
    /\ UNCHANGED <<row, proposed, worldVars, mail, ghosts, mishaps>>

\* _start_verification: the window starts now, for this commit.
Arms(w) ==
    /\ act[w].pc = "arm"
    /\ Saves(w, [act[w].snap EXCEPT !.state = "verifying", !.started = now,
                                    !.fix = merges], "reply")
    /\ UNCHANGED <<forgeVars, worldVars, mail, ghosts, mishaps>>

Replies(w) ==
    /\ act[w].pc = "reply" /\ Rests(w)
    /\ UNCHANGED <<rowVars, forgeVars, worldVars, mail, ghosts, mishaps>>

\* A forge call fails, after its effect or before, the reply among them: fail_delivery
\* keeps the delivery, within a budget of five attempts that outlasts the mishaps here.
HandlingFails_GivesUp(w) ==
    /\ act[w].pc \in {"judge", "shut", "unshut", "reply"} /\ Mishap
    /\ Rests(w)
    /\ UNCHANGED <<rowVars, forgeVars, worldVars, mail, ghosts>>

HandlingFails(w) ==
    /\ act[w].pc \in {"judge", "shut", "unshut", "reply"} /\ Mishap
    /\ \/ act[w].pc \in {"shut", "unshut"} /\ Calls(w, act[w].pc = "unshut")
       \/ UNCHANGED <<open, lost>>
    /\ Rests(w)
    /\ inbox' = inbox \cup {act[w].cmd}
    /\ UNCHANGED <<row, proposed, worldVars, arrived, latest, ghosts>>

-------------------------------------------------------------------------------
(* Occurrences                                                                 *)

\* claim_event counts it and moves last_seen, atomically; the policy then looks at the
\* row as it was: busy and dropped items are left alone, an auto-closed one is reopened,
\* any other may get a comment, and is saved with it.
Occurs ==
    /\ act["ingest"].pc = "idle" /\ Cardinality(events) <= MaxEvents
    /\ events' = events \cup {now}
    /\ row' = [row EXCEPT !.seen = now]
    /\ \/ UNCHANGED act                 \* recorded only: below every threshold
       \/ /\ Free("ingest") /\ row.state \notin {"queued", "fixing", "verifying", "dropped"}
          /\ act' = [act EXCEPT !["ingest"].snap = row',
                                !["ingest"].pc = IF row.state = "closed" THEN "return" ELSE "note"]
    /\ UNCHANGED <<lost, forgeVars, merges, deploys, now, mail, ghosts, mishaps>>

Returns ==
    /\ act["ingest"].pc = "return"
    /\ Saves("ingest", [act["ingest"].snap EXCEPT !.state = "reopened"], "unshut")
    /\ UNCHANGED <<forgeVars, worldVars, mail, ghosts, mishaps>>

ReopensTicket ==
    /\ act["ingest"].pc = "unshut"
    /\ Calls("ingest", TRUE) /\ Rests("ingest")
    /\ UNCHANGED <<row, proposed, worldVars, mail, ghosts, mishaps>>

Comments ==
    /\ act["ingest"].pc = "note"
    /\ Saves("ingest", act["ingest"].snap, "idle")
    /\ UNCHANGED <<forgeVars, worldVars, mail, ghosts, mishaps>>

-------------------------------------------------------------------------------
(* The silence sweep: run_lifecycle                                             *)

Silent(r) == now - r.seen >= Grace
Sweepable == row.state \in {"open", "reopened"}

SweepPicks ==
    /\ Free("sweep")
    /\ Sweepable /\ Silent(row)
    /\ Reads("sweep", "close")
    /\ UNCHANGED <<rowVars, forgeVars, worldVars, mail, ghosts, mishaps>>

SweepCloses ==
    /\ act["sweep"].pc = "close"
    /\ Calls("sweep", FALSE) /\ Goes("sweep", "closed")
    /\ UNCHANGED <<row, proposed, worldVars, mail, ghosts, mishaps>>

SweepSaves ==
    /\ act["sweep"].pc = "closed"
    /\ Saves("sweep", [act["sweep"].snap EXCEPT !.state = "closed"], "idle")
    /\ UNCHANGED <<forgeVars, worldVars, mail, ghosts, mishaps>>

-------------------------------------------------------------------------------
(* The verification watcher                                                     *)

Recent(s) == IF Len(s) > DeployLimit THEN SubSeq(s, Len(s) - DeployLimit + 1, Len(s)) ELSE s
InSight == {Recent(deploys)[i] : i \in DOMAIN Recent(deploys)}
\* matching_deploys: a deploy of this environment, since the merge, of its commit.
Carries(d, r) == d.at >= r.started /\ d.fix = r.fix
Matching(r) == {d \in InSight : Carries(d, r)}
Judgeable(r) == deploys = <<>> \/ Matching(r) # {}

\* Without any deploy on record the window is judged from the merge on.
EffectiveStart(r) ==
    IF deploys = <<>> THEN r.started
    ELSE CHOOSE t \in {d.at : d \in Matching(r)} : \A d \in Matching(r) : t <= d.at

Elapsed_Anchored(r) == now - r.started >= Window

Elapsed_Strict(r) == now - EffectiveStart(r) > Window

Elapsed(r) == now - EffectiveStart(r) >= Window

QuietSince(r) == \A t \in events : t < EffectiveStart(r)

\* decide_verdict, and the row the verdict is for.
WatchPicks ==
    /\ Free("watch") /\ row.state = "verifying"
    /\ IF Judgeable(row) /\ Elapsed(row)
       THEN IF QuietSince(row)
            THEN /\ Reads("watch", "confirm")
                 /\ judged' = [to |-> now, since |-> row.started, fix |-> row.fix,
                               deploys |-> Len(deploys)]
            ELSE Reads("watch", "refute") /\ UNCHANGED judged
       ELSE Reads("watch", "keep") /\ UNCHANGED judged
    /\ UNCHANGED <<rowVars, forgeVars, worldVars, mail, blocked, mishaps>>

\* _apply: the ticket first, then the row, which is saved even without a verdict.
WatchCalls ==
    /\ act["watch"].pc \in {"confirm", "refute"}
    /\ Calls("watch", act["watch"].pc = "refute")
    /\ Goes("watch", IF act["watch"].pc = "refute" THEN "refuted" ELSE "confirmed")
    /\ UNCHANGED <<row, proposed, worldVars, mail, ghosts, mishaps>>

WatchSaves ==
    LET r == act["watch"].snap IN
    /\ act["watch"].pc \in {"confirmed", "refuted", "keep"}
    /\ CASE act["watch"].pc = "confirmed" -> Saves("watch", [r EXCEPT !.state = "verified"], "idle")
         [] act["watch"].pc = "refuted" ->
                Saves("watch", [r EXCEPT !.state = "reopened", !.chronic = TRUE], "idle")
         [] OTHER -> Saves("watch", r, "idle")
    /\ blocked' = (blocked \/ (act["watch"].pc = "refuted" /\ ~AnsweringHuman))
    /\ UNCHANGED <<forgeVars, worldVars, mail, judged, mishaps>>

\* A forge call of a loop fails, after its effect or before: the pass is over.
PassFails ==
    \E a \in Loops :
        /\ act[a].pc \in {"judge", "confirm", "refute", "close", "unshut"} /\ Mishap
        /\ \/ act[a].pc # "judge" /\ Calls(a, act[a].pc \in {"refute", "unshut"})
           \/ UNCHANGED <<open, lost>>
        /\ Rests(a)
        /\ UNCHANGED <<row, proposed, worldVars, mail, ghosts>>

-------------------------------------------------------------------------------
(* The world                                                                   *)

Tick ==
    /\ now < MaxTime
    /\ now' = now + 1
    /\ UNCHANGED <<rowVars, forgeVars, merges, deploys, events, act, mail, ghosts, mishaps>>

\* A deploy webhook or deployment_status. 0 is any other commit or environment.
Deploys ==
    /\ Len(deploys) < MaxDeploys
    /\ \E fix \in 0 .. merges : deploys' = Append(deploys, [at |-> now, fix |-> fix])
    /\ UNCHANGED <<rowVars, forgeVars, merges, events, now, act, mail, ghosts, mishaps>>

\* recover_stale_deliveries: what was being handled is handled again.
Crash ==
    /\ Mishap
    /\ act' = [a \in Actors |-> Idle]
    /\ inbox' = inbox \cup ({act[w].cmd : w \in Workers} \ {"none"})
    /\ UNCHANGED <<rowVars, forgeVars, worldVars, arrived, latest, ghosts>>

Watch == WatchPicks \/ WatchCalls \/ WatchSaves
Sweep == SweepPicks \/ SweepCloses \/ SweepSaves
Dispatch == Returns \/ ReopensTicket \/ Comments
Deliver(w) ==
    \/ Handles(w) \/ Drops(w) \/ Reopens(w) \/ CallsForge(w) \/ Arms(w) \/ Replies(w)
    \/ HandlingFails(w)
Work(a) == Judges(a) \/ FixBegins(a) \/ FixReserves(a) \/ FixEnds(a)

Next ==
    \/ RcaPicks \/ Watch \/ Sweep \/ Occurs \/ Dispatch \/ PassFails
    \/ \E a \in Workers \cup {"rca"} : Work(a)
    \/ \E w \in Workers : Deliver(w)
    \/ Commanded \/ Merged \/ Tick \/ Deploys \/ Crash

Spec == Init /\ [][Next]_vars

\* Time goes on, the watcher and the sweep pass every minute, and what a thread has begun
\* it goes on with.
FairSpec ==
    /\ Spec
    /\ WF_vars(Tick) /\ WF_vars(Watch) /\ WF_vars(Sweep) /\ WF_vars(Dispatch)
    /\ \A a \in Workers \cup {"rca"} : WF_vars(Work(a))
    /\ \A w \in Workers : WF_vars(Deliver(w))

-------------------------------------------------------------------------------
(* Properties                                                                  *)

\* WF-08: a fix is confirmed only if the item was silent for a whole window before the
\* verdict and, where deploys are on record, a deploy carried that commit to its own
\* environment before the window. It holds whatever else saves the row.
ConfirmedIsEarned ==
    row.state = "verified" =>
        /\ events \cap (judged.to - Window .. judged.to - 1) = {}
        /\ judged.deploys > 0 =>
              \E i \in 1 .. judged.deploys :
                  /\ deploys[i].fix = judged.fix
                  /\ deploys[i].at \in judged.since .. judged.to - Window

Resting == inbox = {} /\ \A a \in Actors : act[a].pc = "idle"

\* An item whose last command was drop stays dropped: no loop takes it back, nor do retries
\* or a restart, unless an older copy of the row is saved over it or a fix was already
\* asked for: the gate of the executor lets a dropped item pass.
DropKept ==
    Resting /\ latest = "drop" /\ {"state", "drop"} \cap lost = {} => row.state = "dropped"

\* An item that is at rest as dropped, auto-closed or verified has a closed ticket, also
\* after failed calls, retries and restarts, as long as no two actors crossed each other.
SettledIsShut == Resting /\ row.state \in Settled /\ lost = {} => ~open

\* WF-08: after an insufficient verdict no fix starts on its own until a human asked for
\* one, or had one under way, unless an older copy of the row erased the mark.
AutoFixIsCleared ==
    [][act["rca"].pc = "auto" /\ act'["rca"].pc = "reserve" /\ "chronic" \notin lost => ~blocked]_vars

\* A watched item gets a verdict, as long as its fix is among the deploys in sight and the
\* clock lasts: failed forge calls and restarts delay it only.
VerdictComes ==
    []<>~(row.state = "verifying" /\ Judgeable(row) /\ EffectiveStart(row) + Window <= MaxTime)
===============================================================================
