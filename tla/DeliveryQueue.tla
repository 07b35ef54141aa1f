---------------------------- MODULE DeliveryQueue -----------------------------
(* The durable delivery table and everything that reads or writes it: the     *)
(* HTTP ingest routes and the Connect poll that insert rows, the worker pool  *)
(* that claims them oldest first, the GitHub webhook route that saves and     *)
(* claims its own row, retention, shutdown, crash and startup recovery.       *)
(* A transaction of the storage layer is one step; a thread may be preempted, *)
(* and the process may die, between any two of them.                          *)
EXTENDS Naturals, FiniteSets

CONSTANTS
    IngestIds,          \* deliveries of the ingest routes
    WebhookIds,         \* deliveries of service "__webhook__"
    Workers,            \* loops of the DeliveryWorkerPool
    Requests,           \* threads serving POST /webhooks/github
    NoDelivery,         \* a thread holds no delivery
    MaxAttempts,        \* DeliveryWorker.max_attempts
    MaxAccepts,         \* bound: rows ever inserted
    MaxRestarts,        \* bound: crashes plus shutdowns
    MaxStorageFaults    \* bound: storage calls that raise

Deliveries == IngestIds \cup WebhookIds
Threads == Workers \cup Requests

ASSUME ThreadsAssumption == Workers \cap Requests = {}
ASSUME NoDeliveryAssumption == NoDelivery \notin Deliveries
ASSUME AttemptsAssumption == MaxAttempts \in Nat \ {0}
ASSUME BoundsAssumption ==
    MaxAccepts \in Nat /\ MaxRestarts \in Nat /\ MaxStorageFaults \in Nat

VARIABLES
    mode,       \* "up", "stopping" (pool draining), "stopped" or "crashed"
    state,      \* state[d]: the row's state, "absent" when there is no row
    attempts,   \* attempts[d]: the row's attempts column
    created,    \* created[d]: the row's created_at, as its rank among inserts
    inserts,    \* rows inserted so far: the clock behind created_at
    pc,         \* pc[t]: where thread t is
    job,        \* job[t]: the delivery thread t has in hand
    handled,    \* history: deliveries whose handler returned since they were accepted
    restarts,   \* crashes and shutdowns so far
    faults      \* storage exceptions so far

rowVars == <<state, attempts, created, inserts>>
threadVars == <<pc, job>>
vars == <<mode, rowVars, threadVars, handled, restarts, faults>>

RowStates == {"absent", "pending", "processing", "completed", "failed"}
Settled == {"completed", "failed"}

\* "polling" has passed the loop's test of _stopping; "ok" and "exc" are a
\* handler that returned or raised and whose row is not settled yet.
WorkerPcs == {"idle", "polling", "running", "ok", "exc", "dead"}
RequestPcs == {"idle", "saved", "running", "ok", "exc"}

Holding(t) == pc[t] \in {"running", "ok", "exc"}

TypeOK ==
    /\ mode \in {"up", "stopping", "stopped", "crashed"}
    /\ state \in [Deliveries -> RowStates]
    /\ attempts \in [Deliveries -> 0..MaxAttempts]
    /\ created \in [Deliveries -> Nat]
    /\ inserts \in Nat
    /\ pc \in [Threads -> WorkerPcs \cup RequestPcs]
    /\ \A t \in Threads : pc[t] \in IF t \in Workers THEN WorkerPcs ELSE RequestPcs
    /\ job \in [Threads -> Deliveries \cup {NoDelivery}]
    /\ handled \subseteq Deliveries
    /\ restarts \in Nat
    /\ faults \in Nat

Init ==
    /\ mode = "up"
    /\ state = [d \in Deliveries |-> "absent"]
    /\ attempts = [d \in Deliveries |-> 0]
    /\ created = [d \in Deliveries |-> 0]
    /\ inserts = 0
    /\ pc = [t \in Threads |-> "idle"]
    /\ job = [t \in Threads |-> NoDelivery]
    /\ handled = {}
    /\ restarts = 0
    /\ faults = 0

-------------------------------------------------------------------------------
(* The transactions of the storage layer                                      *)

\* save_delivery: INSERT ... ON CONFLICT DO NOTHING.
SaveDelivery(d) ==
    IF state[d] = "absent"
    THEN /\ inserts < MaxAccepts
         /\ state' = [state EXCEPT ![d] = "pending"]
         /\ attempts' = [attempts EXCEPT ![d] = 0]
         /\ created' = [created EXCEPT ![d] = inserts + 1]
         /\ inserts' = inserts + 1
         /\ handled' = handled \ {d}
    ELSE UNCHANGED <<rowVars, handled>>

\* The row claim_next_delivery selects: pending, least created_at.
Oldest(d) ==
    /\ state[d] = "pending"
    /\ \A e \in Deliveries : state[e] = "pending" => created[d] <= created[e]

MarkProcessing(t, d) ==
    /\ state' = [state EXCEPT ![d] = "processing"]
    /\ pc' = [pc EXCEPT ![t] = "running"]
    /\ job' = [job EXCEPT ![t] = d]
    /\ UNCHANGED <<attempts, created, inserts>>

\* complete_delivery: an UPDATE by key, whatever state the row is in.
CompleteDelivery(d) ==
    /\ state' = [state EXCEPT ![d] = "completed"]
    /\ UNCHANGED <<attempts, created, inserts>>

FailDelivery_AlwaysRequeue(d) ==
    /\ attempts' = [attempts EXCEPT ![d] = attempts[d] + 1]
    /\ state' = [state EXCEPT ![d] = IF attempts[d] + 1 > MaxAttempts THEN "failed" ELSE "pending"]
    /\ UNCHANGED <<created, inserts>>

\* fail_delivery: charge the attempt, dead-letter on the last one.
FailDelivery(d) ==
    /\ attempts' = [attempts EXCEPT ![d] = attempts[d] + 1]
    /\ state' = [state EXCEPT ![d] = IF attempts[d] + 1 >= MaxAttempts THEN "failed" ELSE "pending"]
    /\ UNCHANGED <<created, inserts>>

-------------------------------------------------------------------------------
(* Senders                                                                    *)

\* POST /ingest/{key}, /ingest/gcp/{key} and the Connect poll: save, then answer.
\* Shutdown cancels the poll's task, not the thread it is waiting for.
Ingest(d) ==
    /\ mode \in {"up", "stopping"}
    /\ SaveDelivery(d)
    /\ UNCHANGED <<mode, threadVars, restarts, faults>>

\* POST /webhooks/github saves its delivery ...
RequestSave(r, d) ==
    /\ mode = "up"
    /\ pc[r] = "idle"
    /\ SaveDelivery(d)
    /\ pc' = [pc EXCEPT ![r] = "saved"]
    /\ job' = [job EXCEPT ![r] = d]
    /\ UNCHANGED <<mode, restarts, faults>>

RequestClaim_NoStateTest(r) ==
    /\ pc[r] = "saved"
    /\ MarkProcessing(r, job[r])
    /\ UNCHANGED <<mode, handled, restarts, faults>>

\* ... and claims it, unless a worker, an earlier request or a previous
\* settlement came first: then it answers "deduplicated".
RequestClaim(r) ==
    /\ pc[r] = "saved"
    /\ \/ /\ state[job[r]] = "pending"
          /\ MarkProcessing(r, job[r])
       \/ /\ state[job[r]] # "pending"
          /\ pc' = [pc EXCEPT ![r] = "idle"]
          /\ job' = [job EXCEPT ![r] = NoDelivery]
          /\ UNCHANGED rowVars
    /\ UNCHANGED <<mode, handled, restarts, faults>>

-------------------------------------------------------------------------------
(* The worker pool and the handlers                                           *)

\* The loop tests _stopping, then calls process_next in a thread.
WorkerPoll(w) ==
    /\ mode = "up"
    /\ pc[w] = "idle"
    /\ pc' = [pc EXCEPT ![w] = "polling"]
    /\ UNCHANGED <<mode, rowVars, job, handled, restarts, faults>>

\* claim_next_delivery. It runs to its claim even when _stopping was set
\* meanwhile, and returns nothing when another worker took the last row.
WorkerClaim(w) ==
    /\ pc[w] = "polling"
    /\ \/ \E d \in Deliveries : Oldest(d) /\ MarkProcessing(w, d)
       \/ /\ \A d \in Deliveries : state[d] # "pending"
          /\ pc' = [pc EXCEPT ![w] = "idle"]
          /\ UNCHANGED <<rowVars, job>>
    /\ UNCHANGED <<mode, handled, restarts, faults>>

\* _process / handle_delivery returns.
HandlerReturns(t) ==
    /\ pc[t] = "running"
    /\ pc' = [pc EXCEPT ![t] = "ok"]
    /\ handled' = handled \cup {job[t]}
    /\ UNCHANGED <<mode, rowVars, job, restarts, faults>>

\* _process / handle_delivery raises.
HandlerRaises(t) ==
    /\ pc[t] = "running"
    /\ pc' = [pc EXCEPT ![t] = "exc"]
    /\ UNCHANGED <<mode, rowVars, job, handled, restarts, faults>>

Settle_SwallowsFailure(t) ==
    /\ pc[t] \in {"ok", "exc"}
    /\ CompleteDelivery(job[t])
    /\ pc' = [pc EXCEPT ![t] = "idle"]
    /\ job' = [job EXCEPT ![t] = NoDelivery]
    /\ UNCHANGED <<mode, handled, restarts, faults>>

\* complete_delivery after a return, fail_delivery after an exception.
Settle(t) ==
    /\ \/ pc[t] = "ok" /\ CompleteDelivery(job[t])
       \/ pc[t] = "exc" /\ FailDelivery(job[t])
    /\ pc' = [pc EXCEPT ![t] = "idle"]
    /\ job' = [job EXCEPT ![t] = NoDelivery]
    /\ UNCHANGED <<mode, handled, restarts, faults>>

\* A storage call outside the try of process_next (or of the webhook route)
\* raises. The exception ends the worker's loop task for good; the request is
\* answered 500. Either way a row in hand stays "processing".
StorageError(t) ==
    /\ faults < MaxStorageFaults
    /\ pc[t] \in {"polling", "saved", "ok", "exc"}
    /\ faults' = faults + 1
    /\ pc' = [pc EXCEPT ![t] = IF t \in Workers THEN "dead" ELSE "idle"]
    /\ job' = [job EXCEPT ![t] = NoDelivery]
    /\ UNCHANGED <<mode, rowVars, handled, restarts>>

-------------------------------------------------------------------------------
(* Retention and the life of the process                                      *)

Prune_AnyState(S) ==
    /\ mode \in {"up", "stopping"}
    /\ S # {}
    /\ inserts < MaxAccepts
    /\ state' = [d \in Deliveries |-> IF d \in S THEN "absent" ELSE state[d]]
    /\ UNCHANGED <<mode, attempts, created, inserts, threadVars, handled, restarts, faults>>

\* prune_deliveries: any set of settled rows may be past the retention window.
\* The maintenance pass, too, may outlive its task in a shutdown.
\* (The bound on inserts is tested here as well, so that a pruned delivery can
\* always come back.)
Prune(S) ==
    /\ mode \in {"up", "stopping"}
    /\ S # {}
    /\ inserts < MaxAccepts
    /\ \A d \in S : state[d] \in Settled
    /\ state' = [d \in Deliveries |-> IF d \in S THEN "absent" ELSE state[d]]
    /\ UNCHANGED <<mode, attempts, created, inserts, threadVars, handled, restarts, faults>>

\* The process is killed: threads vanish wherever they are.
Crash ==
    /\ mode \in {"up", "stopping"}
    /\ restarts < MaxRestarts
    /\ mode' = "crashed"
    /\ restarts' = restarts + 1
    /\ pc' = [t \in Threads |-> "idle"]
    /\ job' = [t \in Threads |-> NoDelivery]
    /\ UNCHANGED <<rowVars, handled, faults>>

\* Shutdown starts: the HTTP server has drained its requests, the pool sets
\* _stopping.
Stop ==
    /\ mode = "up"
    /\ restarts < MaxRestarts
    /\ \A r \in Requests : pc[r] = "idle"
    /\ mode' = "stopping"
    /\ restarts' = restarts + 1
    /\ UNCHANGED <<rowVars, threadVars, handled, faults>>

Stopped_CancelsWorkers ==
    /\ mode = "stopping"
    /\ mode' = "stopped"
    /\ pc' = [t \in Threads |-> "idle"]
    /\ job' = [t \in Threads |-> NoDelivery]
    /\ UNCHANGED <<rowVars, handled, restarts, faults>>

\* DeliveryWorkerPool.stop returns once every loop has ended.
Stopped ==
    /\ mode = "stopping"
    /\ \A w \in Workers : pc[w] \in {"idle", "dead"}
    /\ mode' = "stopped"
    /\ pc' = [t \in Threads |-> "idle"]
    /\ job' = [t \in Threads |-> NoDelivery]
    /\ UNCHANGED <<rowVars, handled, restarts, faults>>

Recover_Skipped ==
    /\ mode \in {"stopped", "crashed"}
    /\ mode' = "up"
    /\ UNCHANGED <<rowVars, threadVars, handled, restarts, faults>>

\* compose(): recover_stale_deliveries, before anything serves.
Recover ==
    /\ mode \in {"stopped", "crashed"}
    /\ mode' = "up"
    /\ state' = [d \in Deliveries |-> IF state[d] = "processing" THEN "pending" ELSE state[d]]
    /\ UNCHANGED <<attempts, created, inserts, threadVars, handled, restarts, faults>>

-------------------------------------------------------------------------------

WorkerStep(w) ==
    WorkerPoll(w) \/ WorkerClaim(w)

ThreadStep(t) ==
    HandlerReturns(t) \/ HandlerRaises(t) \/ Settle(t)

Next ==
    \/ \E d \in Deliveries : Ingest(d)
    \/ \E r \in Requests : RequestClaim(r) \/ \E d \in WebhookIds : RequestSave(r, d)
    \/ \E w \in Workers : WorkerStep(w)
    \/ \E t \in Threads : ThreadStep(t) \/ StorageError(t)
    \/ \E S \in SUBSET Deliveries : Prune(S)
    \/ Crash \/ Stop \/ Stopped \/ Recover

\* Loops poll for ever, handlers end (every outbound call has a timeout),
\* and the supervisor restarts a process that ended.
Fairness ==
    /\ \A w \in Workers : WF_vars(WorkerStep(w))
    /\ \A r \in Requests : WF_vars(RequestClaim(r))
    /\ \A t \in Threads : WF_vars(ThreadStep(t))
    /\ WF_vars(Stopped)
    /\ WF_vars(Recover)

Spec == Init /\ [][Next]_vars
FairSpec == Spec /\ Fairness

-------------------------------------------------------------------------------
(* Properties                                                                 *)

\* A delivery is in the hands of at most one thread, whichever of the two claim
\* paths took it (claim_next_delivery, claim_delivery), and as long as it is
\* held its row says so.
OneOwner ==
    \A t \in Threads :
        Holding(t) =>
            /\ job[t] \in Deliveries /\ state[job[t]] = "processing"
            /\ \A u \in Threads \ {t} : Holding(u) => job[u] # job[t]

\* Unless a storage call raised, every row that says "processing" is held by a
\* live thread: startup recovery strands none, and pool.stop() drains, so that a
\* shutdown leaves none for the next start to replay.
NoOrphan ==
    (mode # "crashed" /\ faults = 0) =>
        \A d \in Deliveries :
            state[d] = "processing" => \E t \in Threads : Holding(t) /\ job[t] = d

\* Dead-lettering happens exactly at the attempt budget: an unsettled row still
\* has an attempt left, a dead-lettered one has none.
BudgetExact ==
    \A d \in Deliveries :
        /\ state[d] \in {"pending", "processing"} => attempts[d] < MaxAttempts
        /\ state[d] = "failed" => attempts[d] = MaxAttempts

\* A row says "completed" only if its handler returned since the row was
\* inserted: no retry, restart or concurrent claim completes work not done.
CompletedWasHandled ==
    \A d \in Deliveries : state[d] = "completed" => d \in handled

\* Threads belong to a running process: none survives its end, the HTTP server
\* has drained before the pool stops, and a saved or held job is a delivery.
ThreadsMatchMode ==
    /\ mode \in {"stopped", "crashed"} => \A t \in Threads : pc[t] = "idle"
    /\ mode = "stopping" => \A r \in Requests : pc[r] = "idle"
    /\ \A r \in Requests : pc[r] = "saved" => job[r] \in Deliveries

\* A handler that returned did so for the row its thread is about to complete.
OkWasHandled ==
    \A t \in Threads : pc[t] = "ok" => job[t] \in handled

\* The inductive invariant behind the safety theorems.
IInv ==
    /\ TypeOK
    /\ ThreadsMatchMode
    /\ OneOwner
    /\ NoOrphan
    /\ BudgetExact
    /\ OkWasHandled
    /\ CompletedWasHandled

\* Every accepted delivery is completed or dead-lettered in the end, unless a
\* storage call of its thread raised: then the row says "processing" until the
\* next start.
EverySettlesUnlessFault ==
    \A d \in Deliveries : state[d] = "pending" ~> (state[d] \in Settled \/ faults > 0)

\* What a sender may rely on in each state of the row.
PhaseOf ==
    [absent |-> "unknown", pending |-> "accepted", processing |-> "accepted",
     completed |-> "completed", failed |-> "dead"]

Contract == INSTANCE DeliveryContract WITH
    phase <- [d \in Deliveries |-> PhaseOf[state[d]]],
    fails <- attempts,
    done <- handled

\* The table implements the contract its senders rely on: an accepted delivery
\* is never lost, it is settled once, and only a settled one is forgotten.
ImplementsContract == Contract!Spec
===============================================================================
