---------------------------- MODULE IngestPipeline ----------------------------
(* What the worker pool does with a claimed log delivery, over DeliveryQueue: *)
(* each event is counted once, the policy gate decides, and a fingerprint     *)
(* that wakes gets a ticket at the forge. Every transaction of the storage    *)
(* layer and every forge call is a step; the process may die between two of   *)
(* them, a forge call may fail after it took effect, and the silence sweep    *)
(* (run_lifecycle) works on rows it read before.                              *)
EXTENDS Integers, Sequences, FiniteSets

CONSTANTS
    IngestIds, WebhookIds, Workers, Requests, NoDelivery,
    MaxAttempts, MaxAccepts, MaxRestarts, MaxStorageFaults,
    Fps,                \* fingerprint hashes
    Events,             \* event ids; one may occur in several deliveries
    Batch,              \* Batch[d]: the events parsed from delivery d, in order
    FpOf,               \* FpOf[e]: fingerprint_from_event
    SeverityOf,         \* SeverityOf[e]: "low" (below the floor), "error" or "critical"
    Observe,            \* the service's autonomy is "observe"
    ImmediateCount,     \* config.immediate_count
    Bursts,             \* may the rate window be full? a subset of BOOLEAN
    TicketCap,          \* config.max_tickets_per_hour; no hour passes in a behaviour
    CommentFloor,       \* least occurrences for a "still occurring" comment
    PostRetries,        \* ForgeConfig.max_retries
    NoWorker,           \* the dispatch lock is free
    MaxMishaps,         \* bound: failures of each kind
    MaxSweeps           \* bound: passes of run_lifecycle

VARIABLES
    mode, state, attempts, created, inserts, pc, job, handled, restarts, faults,
    row,            \* row[f]: the fingerprints table
    counted,        \* log_events rows with counted = 1
    dispatched,     \* log_events rows with dispatched = 1
    pos,            \* pos[w]: the event of its batch worker w is at
    lock,           \* the worker holding _dispatch_lock
    stage,          \* where the holder is within _handle_event
    snap,           \* the holder's copy of the fingerprint
    ref,            \* the ticket the forge answered, or which attempt the POST is at
    creates,        \* _ticket_counters: creations tried by this process
    issues,         \* forge: the issues ever created
    inflight,       \* inflight[f]: creations whose answer was lost and may still land
    mishaps,        \* failures so far, by kind
    sweep           \* run_lifecycle: rows read, and the tickets left to close

Q == INSTANCE DeliveryQueue

queueVars == <<mode, state, attempts, created, inserts, pc, job, handled, restarts, faults>>
dbVars == <<row, counted, dispatched>>
holderVars == <<lock, stage, snap, ref>>
forgeVars == <<issues, inflight, mishaps>>
vars == <<queueVars, dbVars, pos, holderVars, creates, forgeVars, sweep>>

ASSUME BatchAssumption ==
    /\ Batch \in [IngestIds -> Seq(Events)]
    /\ FpOf \in [Events -> Fps]
    /\ SeverityOf \in [Events -> {"low", "error", "critical"}]
ASSUME QueueAssumption ==
    /\ MaxAttempts \in Nat \ {0} /\ NoWorker \notin Workers
    /\ NoDelivery \notin Q!Deliveries
ASSUME PolicyAssumption ==
    /\ Observe \in BOOLEAN /\ Bursts \subseteq BOOLEAN
    /\ {ImmediateCount, TicketCap, CommentFloor, PostRetries} \subseteq Nat

-------------------------------------------------------------------------------
(* Fingerprint rows                                                           *)

WorkState ==
    {"new", "open", "queued-rca", "investigating", "awaiting-human", "fixing", "verifying",
     "verified-closed", "closed-auto", "closed-human", "dropped", "reopened", "archived"}
BusyStates == {"queued-rca", "investigating", "fixing", "verifying"}

\* reserved: no reservation, one younger than _TICKET_CREATE_STALE_SECONDS, an older one.
Rows == [state : WorkState, occ : Nat, ticket : Nat, reserved : {"none", "fresh", "stale"},
         commented : Nat]
NewRow == [state |-> "new", occ |-> 0, ticket |-> 0, reserved |-> "none", commented |-> 0]

Bound(r) == r.ticket # 0

\* The issues that carry a fingerprint's marker, and what the lookup can return.
IssuesOf(f) == {n \in DOMAIN issues : issues[n].fp = f}
Findable_AnyMarker(f) == {n \in DOMAIN issues : issues[n].open}
Findable(f) == {n \in IssuesOf(f) : issues[n].open}

Event(w) == Batch[job[w]][pos[w]]
Fp(w) == FpOf[Event(w)]

MishapKinds == {"lost", "server", "rejected", "lookup", "effect"}
Mishap(k) ==
    /\ mishaps[k] < MaxMishaps[k]
    /\ mishaps' = [mishaps EXCEPT ![k] = mishaps[k] + 1]

Issues == [fp : Fps, open : BOOLEAN]
Sweeps == [rows : [Fps -> Rows], todo : SUBSET Fps, closing : SUBSET Fps, passes : Nat]
NoSweep == [rows |-> [f \in Fps |-> NewRow], todo |-> {}, closing |-> {}, passes |-> 0]

Stages == {"free", "lookup", "decide", "post", "relookup", "bind", "reopen", "comment", "mark"}

TypeOK ==
    /\ Q!TypeOK
    /\ row \in [Fps -> Rows]
    /\ counted \subseteq Events /\ dispatched \subseteq counted
    /\ pos \in [Workers -> Nat \ {0}]
    /\ lock \in Workers \cup {NoWorker}
    /\ stage \in Stages /\ (stage = "free" <=> lock = NoWorker)
    /\ snap \in Rows /\ ref \in Nat /\ creates \in Nat
    /\ issues \in Seq(Issues)
    /\ inflight \in [Fps -> Nat]
    /\ mishaps \in [MishapKinds -> Nat]
    /\ sweep \in Sweeps /\ sweep.closing \subseteq sweep.todo

Init ==
    /\ Q!Init
    /\ row = [f \in Fps |-> NewRow]
    /\ counted = {} /\ dispatched = {}
    /\ pos = [w \in Workers |-> 1]
    /\ lock = NoWorker /\ stage = "free" /\ snap = NewRow /\ ref = 0
    /\ creates = 0
    /\ issues = <<>>
    /\ inflight = [f \in Fps |-> 0]
    /\ mishaps = [k \in MishapKinds |-> 0]
    /\ sweep = NoSweep

-------------------------------------------------------------------------------
(* The worker around the pipeline                                             *)

pipelineVars == <<dbVars, pos, holderVars, creates, forgeVars, sweep>>

Ingest(d) == Q!Ingest(d) /\ UNCHANGED pipelineVars
Poll(w) == Q!WorkerPoll(w) /\ UNCHANGED pipelineVars
Settle(w) == Q!Settle(w) /\ UNCHANGED pipelineVars

ClaimDelivery(w) ==
    /\ Q!WorkerClaim(w)
    /\ pos' = [pos EXCEPT ![w] = 1]
    /\ UNCHANGED <<dbVars, holderVars, creates, forgeVars, sweep>>

BatchDone_OneShort(w) ==
    /\ pc[w] = "running" /\ lock # w
    /\ pos[w] >= Len(Batch[job[w]])
    /\ Q!HandlerReturns(w)
    /\ UNCHANGED pipelineVars

\* _process has been through every event of the delivery.
BatchDone(w) ==
    /\ pc[w] = "running" /\ lock # w
    /\ pos[w] > Len(Batch[job[w]])
    /\ Q!HandlerReturns(w)
    /\ UNCHANGED pipelineVars

Release ==
    lock' = NoWorker /\ stage' = "free" /\ snap' = NewRow /\ ref' = 0

\* An exception leaves handle_event, and with it the rest of the batch.
Raise(w) == Q!HandlerRaises(w) /\ Release /\ UNCHANGED <<pos, creates, sweep>>

Goto(s) == stage' = s /\ UNCHANGED <<queueVars, pos, lock, creates, sweep>>

-------------------------------------------------------------------------------
(* handle_event                                                               *)

\* _recover_interrupted_reservation looks at the remote for an old, ticketless
\* reservation only.
NeedsLookup(r) == ~Bound(r) /\ r.reserved = "stale" /\ r.state \in {"queued-rca", "open"}

ClaimEvent_CountsAgain(w) ==
    /\ pc[w] = "running" /\ lock = NoWorker
    /\ pos[w] <= Len(Batch[job[w]])
    /\ LET e == Event(w)
           f == Fp(w)
           merged == [row[f] EXCEPT !.occ = row[f].occ + 1]
       IN /\ row' = [row EXCEPT ![f] = merged]
          /\ counted' = counted \cup {e}
          /\ IF e \in dispatched
             THEN pos' = [pos EXCEPT ![w] = pos[w] + 1] /\ UNCHANGED holderVars
             ELSE /\ lock' = w
                  /\ snap' = merged
                  /\ stage' = IF NeedsLookup(merged) THEN "lookup" ELSE "decide"
                  /\ UNCHANGED <<pos, ref>>
    /\ UNCHANGED <<queueVars, dispatched, creates, forgeVars, sweep>>

\* claim_event and is_event_dispatched, under the dispatch lock.
ClaimEvent(w) ==
    /\ pc[w] = "running" /\ lock = NoWorker
    /\ pos[w] <= Len(Batch[job[w]])
    /\ LET e == Event(w)
           f == Fp(w)
           merged == [row[f] EXCEPT !.occ = row[f].occ + (IF e \in counted THEN 0 ELSE 1)]
       IN /\ row' = [row EXCEPT ![f] = merged]
          /\ counted' = counted \cup {e}
          /\ IF e \in dispatched
             THEN pos' = [pos EXCEPT ![w] = pos[w] + 1] /\ UNCHANGED holderVars
             ELSE /\ lock' = w
                  /\ snap' = merged
                  /\ stage' = IF NeedsLookup(merged) THEN "lookup" ELSE "decide"
                  /\ UNCHANGED <<pos, ref>>
    /\ UNCHANGED <<queueVars, dispatched, creates, forgeVars, sweep>>

\* save_fingerprint writes the whole row from the holder's copy.
Save(w, r) == row' = [row EXCEPT ![Fp(w)] = r] /\ snap' = r

\* _reconcile_remote_ticket answers None: no such open issue, or the call raised.
LookupFails(f) ==
    \/ Findable(f) = {} /\ UNCHANGED mishaps
    \/ Mishap("lookup")

\* _reconcile_remote_ticket for an old reservation: an issue found is bound; none
\* found, or a failed lookup, returns the fingerprint to "new".
LookupReservation(w) ==
    /\ lock = w /\ stage = "lookup"
    /\ \/ \E n \in Findable(Fp(w)) :
             Save(w, [snap EXCEPT !.ticket = n, !.reserved = "none"]) /\ UNCHANGED mishaps
       \/ /\ LookupFails(Fp(w))
          /\ Save(w, [snap EXCEPT !.state = "new", !.reserved = "none"])
    /\ Goto("decide")
    /\ UNCHANGED <<counted, dispatched, ref, issues, inflight>>

\* policy.gate.decide answers WAKE.
Wakes(r, e, burst) ==
    /\ SeverityOf[e] # "low"
    /\ r.state \notin BusyStates \cup {"dropped", "closed-human"}
    /\ SeverityOf[e] = "critical" \/ r.occ >= ImmediateCount \/ burst

\* RECORD, ABSORBED and SUPPRESSED have no effect besides their outcome.
DecideQuiet(w, burst) ==
    /\ ~Wakes(snap, Event(w), burst)
    /\ Goto("mark")
    /\ UNCHANGED <<dbVars, snap, ref, forgeVars>>

DecideCreate_EvenIfBound(w, burst) ==
    /\ Wakes(snap, Event(w), burst)
    /\ creates' = creates + 1
    /\ stage' = "post"
    /\ Save(w, [snap EXCEPT !.state = IF Observe THEN "open" ELSE "queued-rca",
                            !.reserved = "fresh"])
    /\ UNCHANGED <<queueVars, counted, dispatched, pos, lock, ref, forgeVars, sweep>>

\* _create_ticket: the cap counts creations tried, and a reservation is saved
\* before the forge is called.
DecideCreate(w, burst) ==
    /\ Wakes(snap, Event(w), burst) /\ ~Bound(snap)
    /\ creates' = creates + 1
    /\ IF creates + 1 > TicketCap
       THEN stage' = "mark" /\ UNCHANGED <<row, snap>>
       ELSE /\ stage' = "post"
            /\ Save(w, [snap EXCEPT !.state = IF Observe THEN "open" ELSE "queued-rca",
                                    !.reserved = "fresh"])
    /\ UNCHANGED <<queueVars, counted, dispatched, pos, lock, ref, forgeVars, sweep>>

\* _update_ticket: a recurrence after auto-close is saved as reopened before the
\* forge is called; otherwise a throttled comment.
DecideUpdate(w, burst) ==
    /\ Wakes(snap, Event(w), burst) /\ Bound(snap)
    /\ \/ /\ snap.state = "closed-auto"
          /\ Save(w, [snap EXCEPT !.state = "reopened"])
          /\ Goto("reopen")
       \/ /\ snap.state # "closed-auto"
          /\ Goto(IF snap.occ < 2 * snap.commented \/ snap.occ < CommentFloor
                  THEN "mark" ELSE "comment")
          /\ UNCHANGED <<row, snap>>
    /\ UNCHANGED <<counted, dispatched, ref, forgeVars>>

Decide(w) ==
    /\ lock = w /\ stage = "decide"
    /\ \E burst \in Bursts :
          DecideQuiet(w, burst) \/ DecideCreate(w, burst) \/ DecideUpdate(w, burst)

-------------------------------------------------------------------------------
(* Ticket creation at the forge                                               *)

Lands(f) == issues' = Append(issues, [fp |-> f, open |-> TRUE])

\* The POST is answered with the new issue.
PostAnswered(w) ==
    /\ Lands(Fp(w))
    /\ ref' = Len(issues) + 1
    /\ stage' = "bind"
    /\ UNCHANGED <<queueVars, dbVars, pos, lock, snap, creates, inflight, mishaps, sweep>>

\* 4xx: nothing was written, and the reservation is released.
PostRejected(w) ==
    /\ Mishap("rejected")
    /\ row' = [row EXCEPT ![Fp(w)] = [snap EXCEPT !.state = "new", !.reserved = "none"]]
    /\ Raise(w)
    /\ UNCHANGED <<counted, dispatched, issues, inflight>>

\* 5xx, with or without an issue written; _request posts again until its
\* retries are used up.
PostServerError(w) ==
    /\ Mishap("server")
    /\ Lands(Fp(w)) \/ UNCHANGED issues
    /\ IF ref < PostRetries
       THEN ref' = ref + 1 /\ UNCHANGED stage
       ELSE stage' = "relookup" /\ UNCHANGED ref
    /\ UNCHANGED <<queueVars, dbVars, pos, lock, snap, creates, inflight, sweep>>

\* The connection breaks: the issue was written, will be written later, or never.
PostLost(w) ==
    /\ Mishap("lost")
    /\ \/ Lands(Fp(w)) /\ UNCHANGED inflight
       \/ inflight' = [inflight EXCEPT ![Fp(w)] = inflight[Fp(w)] + 1] /\ UNCHANGED issues
       \/ UNCHANGED <<issues, inflight>>
    /\ stage' = "relookup"
    /\ UNCHANGED <<queueVars, dbVars, pos, lock, snap, ref, creates, sweep>>

Post(w) ==
    /\ lock = w /\ stage = "post"
    /\ PostAnswered(w) \/ PostRejected(w) \/ PostServerError(w) \/ PostLost(w)

Relookup_Releases(w) ==
    /\ lock = w /\ stage = "relookup"
    /\ row' = [row EXCEPT ![Fp(w)] = [snap EXCEPT !.state = "new", !.reserved = "none"]]
    /\ Raise(w)
    /\ UNCHANGED <<counted, dispatched, forgeVars>>

\* After an ambiguous failure: bind what the forge has, or keep the reservation
\* and let the delivery retry.
Relookup(w) ==
    /\ lock = w /\ stage = "relookup"
    /\ \/ /\ \E n \in Findable(Fp(w)) : ref' = n
          /\ Goto("bind")
          /\ UNCHANGED <<snap, mishaps>>
       \/ /\ LookupFails(Fp(w))
          /\ Raise(w)
    /\ UNCHANGED <<dbVars, issues, inflight>>

\* _bind_ticket.
Bind(w) ==
    /\ lock = w /\ stage = "bind"
    /\ Save(w, [snap EXCEPT !.ticket = ref, !.reserved = "none"])
    /\ Goto("mark")
    /\ UNCHANGED <<counted, dispatched, ref, forgeVars>>

\* forge.reopen_ticket; a failed call may have taken effect.
Reopen(w) ==
    /\ lock = w /\ stage = "reopen"
    /\ \/ /\ issues' = [issues EXCEPT ![snap.ticket].open = TRUE]
          /\ Goto("mark")
          /\ UNCHANGED <<snap, ref, mishaps>>
       \/ /\ Mishap("effect")
          /\ issues' = [issues EXCEPT ![snap.ticket].open = TRUE] \/ UNCHANGED issues
          /\ Raise(w)
    /\ UNCHANGED <<dbVars, inflight>>

\* forge.add_comment, then the throttle anchor is saved.
Comment(w) ==
    /\ lock = w /\ stage = "comment"
    /\ \/ /\ Save(w, [snap EXCEPT !.commented = snap.occ])
          /\ Goto("mark")
          /\ UNCHANGED <<ref, mishaps>>
       \/ Mishap("effect") /\ Raise(w) /\ UNCHANGED row
    /\ UNCHANGED <<counted, dispatched, issues, inflight>>

\* mark_event_dispatched; the lock is released.
Mark(w) ==
    /\ lock = w /\ stage = "mark"
    /\ dispatched' = dispatched \cup {Event(w)}
    /\ pos' = [pos EXCEPT ![w] = pos[w] + 1]
    /\ Release
    /\ UNCHANGED <<queueVars, row, counted, creates, forgeVars, sweep>>

HandleEvent(w) ==
    \/ ClaimEvent(w) \/ LookupReservation(w) \/ Decide(w)
    \/ Post(w) \/ Relookup(w) \/ Bind(w)
    \/ Reopen(w) \/ Comment(w) \/ Mark(w)

-------------------------------------------------------------------------------
(* Time, the forge, the silence sweep and the process                         *)

\* A creation whose answer was lost reaches the forge late.
Land(f) ==
    /\ inflight[f] > 0
    /\ inflight' = [inflight EXCEPT ![f] = inflight[f] - 1]
    /\ Lands(f)
    /\ UNCHANGED <<queueVars, dbVars, pos, holderVars, creates, mishaps, sweep>>

\* Two minutes pass: the reservation is stale. A request lands by then or not at
\* all, and the holder's own calls time out sooner.
ReservationAges(f) ==
    /\ row[f].reserved = "fresh"
    /\ inflight[f] = 0
    /\ lock # NoWorker => Fp(lock) # f
    /\ row' = [row EXCEPT ![f].reserved = "stale"]
    /\ UNCHANGED <<queueVars, counted, dispatched, pos, holderVars, creates, forgeVars, sweep>>

\* run_lifecycle reads the active rows; those it finds silent are to be closed.
SweepRead ==
    /\ mode = "up" /\ sweep.todo = {} /\ sweep.passes < MaxSweeps
    /\ \E silent \in SUBSET {f \in Fps : Bound(row[f]) /\ row[f].state \in {"open", "reopened"}} :
          /\ silent # {}
          /\ sweep' = [rows |-> row, todo |-> silent, closing |-> {}, passes |-> sweep.passes + 1]
    /\ UNCHANGED <<queueVars, dbVars, pos, holderVars, creates, forgeVars>>

\* forge.close_ticket. A failed call ends the pass.
SweepClose(f) ==
    /\ f \in sweep.todo /\ sweep.closing = {}
    /\ \/ /\ issues' = [issues EXCEPT ![sweep.rows[f].ticket].open = FALSE]
          /\ sweep' = [sweep EXCEPT !.closing = {f}]
          /\ UNCHANGED mishaps
       \/ /\ Mishap("effect")
          /\ issues' = [issues EXCEPT ![sweep.rows[f].ticket].open = FALSE] \/ UNCHANGED issues
          /\ sweep' = [NoSweep EXCEPT !.passes = sweep.passes]
    /\ UNCHANGED <<queueVars, dbVars, pos, holderVars, creates, inflight>>

\* save_fingerprint with the row as it was read.
SweepSave(f) ==
    /\ f \in sweep.closing
    /\ row' = [row EXCEPT ![f] = [sweep.rows[f] EXCEPT !.state = "closed-auto"]]
    /\ sweep' = IF sweep.todo = {f}
                THEN [NoSweep EXCEPT !.passes = sweep.passes]
                ELSE [sweep EXCEPT !.todo = sweep.todo \ {f}, !.closing = {}]
    /\ UNCHANGED <<queueVars, counted, dispatched, pos, holderVars, creates, forgeVars>>

Crash ==
    /\ Q!Crash
    /\ Release
    /\ creates' = 0
    /\ pos' = [w \in Workers |-> 1]
    /\ sweep' = [NoSweep EXCEPT !.passes = sweep.passes]
    /\ UNCHANGED <<dbVars, forgeVars>>

Recover_KeepsReservations ==
    /\ Q!Recover
    /\ UNCHANGED <<dbVars, pos, holderVars, creates, forgeVars, sweep>>

\* recover_stale_deliveries also releases every ticketless reservation.
Recover ==
    /\ Q!Recover
    /\ row' = [f \in Fps |->
                 IF ~Bound(row[f]) /\ row[f].reserved # "none"
                 THEN [row[f] EXCEPT !.state = "new", !.reserved = "none"]
                 ELSE row[f]]
    /\ UNCHANGED <<counted, dispatched, pos, holderVars, creates, forgeVars, sweep>>

WorkerStep(w) ==
    Poll(w) \/ ClaimDelivery(w) \/ HandleEvent(w) \/ BatchDone(w) \/ Settle(w)
Sweep == SweepRead \/ \E f \in Fps : SweepClose(f) \/ SweepSave(f)

Next ==
    \/ \E d \in IngestIds : Ingest(d)
    \/ \E w \in Workers : WorkerStep(w)
    \/ \E f \in Fps : Land(f) \/ ReservationAges(f)
    \/ Sweep
    \/ Crash \/ Recover

\* Worker threads run on and their forge calls time out, the supervisor restarts
\* the process, and time passes.
Fairness ==
    /\ \A w \in Workers : WF_vars(WorkerStep(w))
    /\ \A f \in Fps : WF_vars(ReservationAges(f)) /\ WF_vars(Land(f))
    /\ WF_vars(Recover)

Spec == Init /\ [][Next]_vars
FairSpec == Spec /\ Fairness

-------------------------------------------------------------------------------
(* Properties                                                                 *)

\* Exactly-once counting (R-02): a fingerprint's occurrences are the events
\* counted for it, across retries, crashes, shared event ids and the whole-row
\* saves of the pipeline.
CountExact ==
    \A f \in Fps : row[f].occ = Cardinality({e \in counted : FpOf[e] = f})

\* In the autonomies that queue RCA, every issue beyond a fingerprint's first is
\* the price of a process that died, a lookup that failed or a POST repeated
\* after a 5xx: a lost connection or a rejection alone never makes a twin.
TwinsExplained ==
    ~Observe => \A f \in Fps :
        Cardinality(IssuesOf(f)) + inflight[f]
            <= 1 + restarts + mishaps["lookup"] + mishaps["server"]

\* A fingerprint is bound to an issue the forge has and that is its own, however
\* the binding was found: answer, reconciliation or recovery.
BoundTicketIsOwn ==
    \A f \in Fps : Bound(row[f]) => row[f].ticket \in IssuesOf(f)

\* A binding is final: no retry, recovery or whole-row save drops or moves it.
TicketIsKept ==
    [][\A f \in Fps : Bound(row[f]) => row'[f].ticket = row[f].ticket]_vars

\* A delivery is completed only when the policy has been applied to each of its
\* events, whichever worker and attempt did it.
CompletedIsDispatched ==
    \A d \in IngestIds : state[d] = "completed" =>
        \A i \in DOMAIN Batch[d] : Batch[d][i] \in dispatched

\* While no creation failed ambiguously, a ticketless reservation belongs to the
\* worker that is creating the ticket: recovery leaves none of a dead process.
ReservationIsOwned ==
    (mode = "up" /\ mishaps["lost"] + mishaps["server"] = 0) =>
        \A f \in Fps : ~Bound(row[f]) /\ row[f].reserved # "none" =>
            lock # NoWorker /\ Fp(lock) = f /\ stage \in {"post", "bind"}

\* Every accepted delivery has all its events counted and their policy applied
\* in the end, whatever the workers' interleaving and the crashes in between,
\* as long as no call to the forge fails.
EventsAreDispatchedUnlessMishap ==
    \A d \in IngestIds : state[d] = "pending" ~>
        \/ \A i \in DOMAIN Batch[d] : Batch[d][i] \in dispatched
        \/ \E k \in DOMAIN mishaps : mishaps[k] > 0

===============================================================================
