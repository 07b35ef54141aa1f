# Wakey: a formal model

Wakey is a self-hosted service that receives production logs, groups error
events into *fingerprints*, opens a ticket at the forge (GitHub) for the ones that
matter, investigates them, and, on approval, drafts a fix as a pull request. This
directory holds TLA+ modules for its core, the TLC configurations that check
them, and proofs checked by TLAPS. Source paths below are relative to
`src/wakey/` unless they start with `docs/`.

## 1. The system

One process (FastAPI, an asyncio loop, threads) over one SQLite or PostgreSQL
database, talking to a forge over HTTP. A single active instance is part of the
deployment contract (`core/storage.py:482`, `docs/workflows/WF-02-ingestion.md`).

```
 log sources --POST /ingest--> deliveries --worker pool--> pipeline --> fingerprints
 forge webhooks --POST /webhooks/github--> deliveries --> commands, merges ----^  ^
 Connect broker --poll--> deliveries                                            |
 background passes: RCA, watcher, silence sweep, digest, retention, reload -----+
                              pipeline, passes, commands --HTTP--> forge
```

Everything meets in the rows of `deliveries`, `log_events`, `fingerprints` and
`services`. Each storage method is one transaction under one lock; between two of
them anything else may run, and the process may die.

| Component | State it keeps | Operations | What makes it correct | Module |
|---|---|---|---|---|
| Durable delivery queue (`core/storage.py`, `ingest/worker.py`, `core/server.py`) | `deliveries`: state, attempts, created_at | save, claim next, claim by key, complete, fail, recover, prune; pool start and stop | accepted work is never lost, has one owner, is settled once, dead-lettered at the budget | `DeliveryQueue` |
| Storage backends (`core/storage.py`, `storage/postgres.py`) | schema version, `log_events`, occurrence counts, `audit` | migrate, claim an event, prune, record, verify | whole schema or no service; a count follows its claims; tampering shows | `StorageBackends` |
| Ingest pipeline (`ingest/pipeline.py`), policy gate | `log_events.counted/dispatched`, `fingerprints`, `_dispatch_lock`, ticket counters | `handle_event`: count, recover a reservation, gate, create / update ticket, mark | an event counts once; a fingerprint has one ticket, its own, for good | `IngestPipeline` |
| RCA, commands, merge webhook, watcher, silence sweep (`agents/rca.py`, `web/commands.py`, `core/server.py`, `policy/`, `tickets/`) | the state of one fingerprint row and its ticket | investigate, drop, reopen, verify, close | human decisions stick; a fix is confirmed only when it was quiet | `Incidents` |
| Fix execution (`agents/fix*.py`, `agents/verifier.py`, sandbox) | `fixing` rows, branches, drafts, the lock | gate, repair loop, verify, deliver, fail, retry | no draft without proof; the cap holds; every failure gives the row back | `FixLoop`, `FixExecution` |
| Connect broker and relay (`forge/connect_*.py`) | connections, mailboxes, the deployment's credential | pair, select, revoke, relay, fetch, acknowledge | a revocation is final; mail is acknowledged after it is saved | `ConnectRelay` |
| Digest (`agents/digest.py`) | audit lines of a day, its issue | pass, command, approval | one digest a day, one release per candidate | `Digest` |
| Services (`web/registration.py`, `web/setup.py`, reload in `core/composition.py`) | `services` | register, rotate, edit, reload | the newest key works; the file's config wins | `Services` |
| Sliding windows, fingerprint engine, console auth, App tokens, pages, secrets | various | | see section 6 | none |

How they interact: the HTTP routes only insert deliveries; the worker pool drives
the pipeline (and, for `__webhook__` rows, the webhook handlers) on threads; the
background passes run on threads of their own against the same fingerprint rows,
and save **whole rows** from the copy they read. The pipeline serialises itself
with `_dispatch_lock`, the fix executor with a lock that is never waited for;
nobody else takes either.

The hard behaviours are therefore: two claim paths for one row; crashes between a
forge effect and its local record; forge calls that fail after they took effect;
whole-row saves of old copies; batches that fail half way; retries without
backoff; requests that outlast their caller; decisions read from a bounded tail of
the audit log; and shutdown while threads are inside their work. `PROJECT.json`
lists them one by one under `hazards`, at the line where each bites.

## 2. Modules

| Module | Kind | Models |
|---|---|---|
| `DeliveryContract` | abstract specification | what a sender may rely on: accepted, worked on, completed or dead, then possibly forgotten |
| `DeliveryQueue` | component | the `deliveries` table with all its writers, the worker pool, the webhook route, retention, shutdown, crash, recovery |
| `DeliveryQueueProofs` | proofs | safety of `DeliveryQueue` and its refinement of `DeliveryContract`, for every value of the constants |
| `IngestPipeline` | composition | `DeliveryQueue` with the pipeline as its handler, the forge's issues, reservations, the silence sweep |
| `StorageBackends` | component | SQLite and PostgreSQL side by side: migrations, event claims, retention, audit chain |
| `FixLoop` | component | `ReproFirstFixer.execute`: original run, reproduction, baseline, patches, what a run reports |
| `ProposalContract` | abstract specification | a draft is opened only over work that an attempt proved and had verified |
| `FixExecution` | composition | `FixLoop` inside the executor's gate, rows, delivery and failure paths, with the other writers of the row |
| `Incidents` | component | one fingerprint row under the RCA loop, commands, the merge webhook, deploys, the watcher and the sweep |
| `ConnectRelay` | component | broker and deployment: pairing, selection, revocation, mailboxes, receipt |
| `Digest` | component | the daily digest and its approvals, with the ticket creation, investigations and executor around it |
| `Services` | component | the row of a service under dashboard requests and the reload pass |
| `IngestPipelineProofs`, `StorageBackendsProofs`, `FixExecutionProofs`, `IncidentsProofs`, `ConnectRelayProofs`, `DigestProofs`, `ServicesProofs` | proofs | safety of the component each is named after, and the refinements of `IngestPipeline` and `FixExecution`, for every value of the constants |
| `MC...` | model checking | model values, batches, failure budgets, symmetry |

### DeliveryQueue

`state`, `attempts`, `created` are the columns of the row; `created` is the rank of
the insert, since `claim_next_delivery` orders by `created_at`. `pc[t]` and `job[t]`
are where a thread is and the delivery in its hand: `polling` is a worker past the
loop's test of `_stopping`; `running` is inside `_process` / `handle_delivery`;
`ok` / `exc` is between the handler's end and the transaction that settles the row.

| Action | Code |
|---|---|
| `Ingest`, `RequestSave` | ingest routes and Connect poll; webhook route (`save_delivery`, insert or nothing) |
| `WorkerPoll`, `WorkerClaim` | `DeliveryWorkerPool.start.loop`, `claim_next_delivery` |
| `RequestClaim` | `claim_delivery`; the lost race answers "deduplicated" |
| `HandlerReturns`, `HandlerRaises`, `Settle` | `process_next`: complete, or charge and requeue / dead-letter |
| `StorageError` | a storage call outside the `try`: the loop task dies, or the request answers 500 |
| `Prune` | `prune_deliveries`, any set of settled rows |
| `Stop`, `Stopped`, `Crash`, `Recover` | lifespan shutdown, `pool.stop`, process death, `recover_stale_deliveries` |

A worker's transactions are single steps because each is one `with self._lock,
self._conn` block. What `_process` does is left to `IngestPipeline`: here it
returns or raises.

### IngestPipeline

It keeps the variables of `DeliveryQueue` and calls its actions through
`Q == INSTANCE DeliveryQueue`; the handler's work becomes the steps of `handle_event`.
`row[f]` is the fingerprint (state, occurrences, ticket, reservation age,
comment anchor); `lock` and `stage` say who is in the pipeline and at which call;
`snap` is the copy of the row that the holder read at `claim_event` and saves from;
`issues` is what exists at the forge, `inflight` creations whose answer was lost and
that may still land. Each forge call has its failures: answered, rejected (4xx),
5xx with or without effect, connection lost with effect, without, or with a late one.

| Action | Code |
|---|---|
| `ClaimEvent` | `claim_event`, `is_event_dispatched` |
| `LookupReservation` | `_recover_interrupted_reservation` |
| `Decide` (`DecideQuiet`, `DecideCreate`, `DecideUpdate`) | `gate.decide`, then the head of `_create_ticket` / `_update_ticket` |
| `Post`, `Relookup`, `Bind` | `forge.create_ticket` with `_request`'s retries, `_reconcile_remote_ticket`, `_bind_ticket` |
| `Reopen`, `Comment`, `Mark` | `_update_ticket`, `mark_event_dispatched` |
| `SweepRead`, `SweepClose`, `SweepSave` | `run_lifecycle`: list, close at the forge, save the row as listed |
| `ReservationAges`, `Land` | two minutes pass; a late creation reaches the forge |
| `Crash`, `Recover` | process death; startup releases ticketless reservations |

Abstractions. Event text, titles and comments are not represented: an event has a
fingerprint, a severity class and an id. The burst threshold's rate is a
nondeterministic input (`Bursts`). No hour passes, so the ticket counter only
grows. A lost request lands within the two minutes of a reservation or never, and
the holder's own calls time out sooner (httpx timeout of 15 s), which is what the
constant in the code is chosen for. Storage errors, retention, clean shutdown and
the webhook rows are checked in `DeliveryQueue` and not repeated in the composition.

### StorageBackends

One database, of either backend and any earlier version. `version` and `done` are
the stored schema version and the migrations whose effects are there: SQLite runs
each as a script that commits as it goes (`RunScript`), PostgreSQL all in one
transaction (`RunTransaction`); some scripts can be repeated after a crash and some
make the process refuse to start for good, which is why deadlock checking is off.
`ClaimEvent` counts an event unless its row says so; the two upserts differ, and the
difference is modelled (`SqliteUpsert`, `PostgresUpsert`). `PruneEvents` deletes by
age and, on SQLite, without a transaction of its own, so that a crash may undo it.
`audit` is the chain with an injective hash (a hash *is* what it covers);
`EditRow` and `DeleteRow` are the tampering it must show, from outside the program.

### FixLoop and FixExecution

A checkout is the set of tests it fails. `RunOriginal`, `WriteRepro`, `RunBaseline`,
`Patch`, `RunPatched` are the calls of `ReproFirstFixer.execute`; a run reports all
that fails or, since output is cut, a part of it (`blind`). `FixExecution` puts the
loop behind the gate (`MayFix`, `MayRetry`, `Eligible`, `UnderCap`), reserves the row
(`Reserve`), and delivers: `CreateBranch`, `Bind`, `Commit`, `OpenDraft`, `PublishRow`,
`Delivered`, each with the forge's answers, lost answers included. `Except` is the
`except Exception` that saves the row read before; `StorageFault` the save that
raises; `Crash` leaves the row as it is. Humans drop, reopen, close and merge, the
sweep closes, the watcher settles (`Others`) through saves of their own. `trail` is
the tail of the audit log, of which the code reads a bounded window.

### Incidents

One row, one ticket, a clock. `act[a]` is what a thread is in the middle of and the
copy of the row it holds; `MaxBusy` bounds how many are. Every handler is its read,
its forge calls and its whole-row save in the code's order: commands save first and
call then, the watcher calls first and saves then. Deliveries wait in `inbox` and
are handled again when handling failed. `deploys` is what the deployment_status
webhook recorded; `Matching`, `EffectiveStart` and `Elapsed` are the arithmetic of
`build_grace_inputs`. The ghost `lost` names what two actors did to each other: a save
that put `state` or `chronic` back to what its writer had read, a drop that was taken up
again or came while someone held the item as dropped, a `ticket` opened or closed by
someone whose row was not the current one, or with another at it. The properties say
what holds as long as that did not happen to what they are about, and so name the one
cause by which each can fail.

### ConnectRelay

`conn` is the broker's table of connections, `box` and `acked` the mailboxes, `me` the
deployment's credential, `jobs` the requests being served, which may outlast the
caller (`live`). A poll asks GitHub, lists and writes in steps; a selection reads,
probes and writes. `RelayOne` goes through the connections of a webhook one by one
and stops at a full mailbox, as the code does.

### Digest and Services

`log[d]` is the audit lines about day `d`, `issues` all issues of the forge, tickets and
digests alike, since both carry the marker reconciliation searches for. The constants
`Recent` and `Released` are the 20 and 100 lines the code reads. In `Services` a
request holds the row it read over the await of its body, the reload pass over its
thread; handlers without an await run in one step of the event loop (`LoopFree`).

## 3. Properties and runs

Every property is stated in words above its definition, and each has a mutant of a
mapped definition that breaks it. `TypeOK` of each module says what its variables
range over; a theorem `TypeCorrect` states it for each component, and the `queue` run
lists it as well.

| Run | Bounds | Shows |
|---|---|---|
| `queue` | 1 ingest + 1 webhook row, 2 workers, 2 requests, 2 attempts, 3 inserts, 1 restart, 1 storage error | one owner, no orphan, exact dead-lettering, the contract, and that every accepted delivery settles unless a storage call raised |
| `ingest` | 2 deliveries of 2 events sharing one, 2 fingerprints, 2 workers, triage mode, one crash, lost answer, 5xx, failed lookup | counting, bindings, twins only with a cause, no early completion, reservations owned |
| `ingest_observe` | observe mode, ticket cap 1, one sweep, one rejection, one failing reopen / comment / close, one crash | a binding is never dropped or moved; without a failed call every event of an accepted delivery is dispatched |
| `storage` | both backends, 7 starting versions, 2 events of 1 fingerprint, 3 audit rows, 1 retention, 1 tampering, 2 crashes | whole schema, counts, honest verdict count, audit chain |
| `storage_first_count` | the same | **violated**: on PostgreSQL the first event of a fingerprint is not counted |
| `fix` | 2 fingerprints of one repository (tested, untested), cap 1, 2 patches, 2 suffixes, 1 retry allowed, 2 attempts, 2 human acts, 1 mishap | proof of patches, owner of `fixing`, the cap, drafts, refinement of `ProposalContract`, and that attempts end |
| `incidents` | 1 webhook worker and 4 loops, 2 in the middle of something, 3 ticks, 1 occurrence, 1 merge, 1 deploy, 2 deliveries | earned verdicts, drops, the chronic mark, under every crossing of two threads |
| `incidents_fault` | one thread at a time, 2 deploys, one failed forge call or crash | settled items have closed tickets; watched items get a verdict |
| `relay` | 2 pairings, 2 requests at a time, 2 webhooks, mailbox of 1, 1 mishap | acknowledgement after save, confirmed pairings, revocation |
| `relay_live` | 1 pairing, 2 deliveries | mail that waits is received |
| `digest` | 1 fingerprint, 2 webhook workers, 2 in the middle of something, 2 days, 3 issues, 2 comments, 1 mishap | number of digests, releases, what a digest may be taken for |
| `services` | 2 requests at a time, 4 in all, 2 edits of the file | registration, newest key, config of the file |

Why the bounds are enough. Every race in the code is between at most two actors
over one row (two claim paths, a worker and the sweep, a command and a loop, a dead
process and its successor), so two of each exhibit it; the third insert of a delivery
lets a pruned row come back, the second attempt of a fix is a retry or a recurrence, the
second day lets a pass span midnight. Limits of the code are taken small so that both
sides are reached: `MaxAttempts = 2` (5), `PostRetries = 1` (2), `CommentFloor = 2`
(4), `ImmediateCount` 1 or 2, `BoxLimit = 1` (1000), `AuditWindow = 3` (50),
`Recent = 1` (20), `Released = 2` (100), `DeployLimit = 1` (25). Failure budgets name
how many mishaps a behaviour may contain. Liveness runs use no symmetry; `digest`
does, on interchangeable workers, and has no liveness property. Deadlock checking is
off where a bound (commands, days, mishaps) or the system itself stops everything: a
database that cannot be migrated (`storage`), and the bounded inputs of `fix`,
`incidents`, `relay`, `digest` and `services`.

Fairness. Worker loops poll for ever (`worker.py:124`) and handlers end because every
forge call has a timeout: weak fairness of each worker and request thread. A process
that ended is restarted (`restart: unless-stopped` in `docker-compose.yml` and
`deploy/`): weak fairness of `Recover`, and of `Stopped`, since the pool drains.
Background passes are periodic loops that survive their exceptions
(`composition.py:141`): weak fairness of the passes, of the watcher's steps and of the
reload. In `FixExecution` every step of an attempt is a call with a timeout or a
bounded loop: weak fairness of the job. Time passes: weak fairness of the clock.
Nothing is assumed of senders, humans, crashes, shutdowns or errors. Strong fairness
is nowhere needed: claims are taken oldest first, so a row cannot be overtaken.

What properties with an exception mean. Several properties say "unless": `lost`,
`erased`, `overlaps`, `excused`, `crossed`, `mishaps` record the one way by which the
stronger statement fails in the code as it is. The stronger statement was tried
first; the exception is the counterexample TLC gave, stated as narrowly as it allowed.
Section 5 lists them.

## 4. Proofs

Each component has a module `...Proofs`, checked by TLAPS (`FixLoop` shares the one of
`FixExecution`), and every safety invariant
and action property that a passing run checks is a theorem there: for any number of
threads, rows, events, failures and crashes, not only within the bounds of section 3. A
bound of a run that is a constant of the module (`MaxCrashes`, `MaxMishaps`) is any
natural number in the proofs. The assumptions are the named `ASSUME`s of the modules:
what a constant ranges over, that actors of different kinds are different, that a
limit of the code is positive, and that the fingerprints of a fix executor, or the
events of a database, are finitely many where the code counts them.

All proofs have one shape. The safety properties are not inductive, so an invariant
`IInv` adds what the code relies on without saying it; there is one lemma for the
initial states, one or more per action (each action either falls under a lemma about
what it leaves alone, or is split by the conjunct it can disturb), `Invariance`, and a
short theorem per property. `IInv` was model-checked on the instances of section 3
before it was proved.

- **`DeliveryQueueProofs`.** `NoOrphan` after `Recover` needs to know that no thread
  survived the process, and after `Stopped` that the requests had drained before the
  pool stopped; `OneOwner` after `Recover` needs the former, or recovery would return a
  held row; `CompletedWasHandled` needs that a thread about to complete a row has run
  its handler. `ThreadsMatchMode` and `OkWasHandled` say so. `Refinement` maps a row's
  state through `PhaseOf`: claims, recovery and thread steps are stutters of the
  contract; a handler that returns is `Work`, settling is `Complete` or `Charge`,
  retention is `Forget`. That a completed row was handled is also part of the contract,
  so the `queue` run checks it through `ImplementsContract`.
- **`IngestPipelineProofs`.** `UsesTheQueue` shows that the pipeline is a behaviour of
  `DeliveryQueue`, step by step (`QueueInv`: only ingest rows, requests do nothing); so
  ownership and budgets carry over. On top of it, `HolderInv` and `HeldInv` say that
  the copy the holder of the dispatch lock works on is the stored row, except for what
  a pass of the sweep may write into a row that has a ticket; `BatchInv` that a worker
  has dispatched the events it has passed; `SweepInv` that the sweep works on the
  ticket it read; `TicketInv` that a fingerprint without a ticket has no closed issue,
  and that a reservation old enough to be given up has no creation under way. Twins are
  counted (`TwinInv`): what exists or may still land exceeds one by no more than the
  restarts, failed lookups and 5xx answers there were (`Price`), and a fingerprint whose
  next step may create another (`Excused`) is one behind that. `CountInv` holds until
  the sweep has read rows.
- **`StorageBackendsProofs`.** `MigrationInv`: the scripts before the recorded version
  have run, and while a process migrates those before the one it is at. `RowsInv`
  and `ClaimsInv`: an event is counted once more than its row was deleted for good, where
  a deletion that a crash may undo (`undo`) does not yet count. `CountFollowsClaims` is
  about a sum over events, computed by the library's fold; `SumIsUnits` proves that this
  fold is the number of pairs of an event and a rank up to its count, from where one
  more claim is one more element (`CountInv`). The audit chain has an invariant of its
  own: `Backfill` chains untouched rows (`BackfillChains`), and one edited or deleted row
  breaks the chain at or behind it, unless the cut is at the end (`EditTells`,
  `DeleteTells`). With two tamperings the property is false, and says so.
- **`FixExecutionProofs`.** `LoopInv`: what the loop has learnt from its runs, as long
  as none of them was cut off; hence `AcceptedIsProven` for any suite, of any size.
  `OwnerKnown` and `PlaceClaimed`: who is counted under the cap together with the job
  fits under it, before the row says `fixing` and after. `ProvenKnown`,
  `FirstBranchOnly` and `BranchKnown` tie the job to what was verified, and a draft to
  a branch on record. `Refinement` maps attempts, commits and drafts to
  `ProposalContract`.
- **`IncidentsProofs`.** Each step of a thread moves on with the row it holds, saves it,
  or opens or closes the ticket; one lemma per kind says when it keeps the invariant.
  `ActorsInv` is what a thread may hold at each point of its handler; `EarnedInv` that
  the window of the last confirming verdict was silent and that later events and deploys
  cannot reach into it; `MarkInv`, `DropInv`, `ShutInv` that the mark, the drop and
  the closing are done or on their way in somebody's hands. `LeastNat` is needed for
  the earliest matching deploy.
- **`ConnectRelayProofs`.** `HeadIsSaved`: what is being acknowledged was saved.
  `PollsAreSpent`: a pairing none of whose polls failed or was overtaken is polled by
  one request at a time, which goes on once it has GitHub's answer. `RemovalReaches`:
  after a removal, what is still connected is ahead of the relay that removes it, or is
  one whose selection was past its probe.
- **`DigestProofs`.** `TicketInv`: a reservation is the one of the creation in progress,
  or left over from one that had no answer or from a save of an older row. `DigestInv`:
  the passes of a day without an excuse come one after another, each digest is recorded
  or about to be, and who opens one saw none, or so many other lines that it could
  not. `ApprovalInv`: one fix at a time; a draft that was given is on the row or was
  erased from it, and is told in the audit log, about to be, or unrecorded.
- **`ServicesProofs`.** `HeldRowIsNewest`: while no rotation overlapped an edit or the
  reload, every held copy has the newest key; `KeysAreRequested`, `RowIsRegistered` and
  `ThreadsMatch` bound the keys and registrations by the requests made.

Only model-checked: the liveness properties, since liveness under fairness is out of
reach of the prover here: `EverySettlesUnlessFault`, `EventsAreDispatchedUnlessMishap`,
`AttemptEnds`, `VerdictComes`, `MailIsReceived` and `ConfigFollowsFile`.

## 5. What the models show of the code as it is

One divergence is kept as a run that must fail (`storage_first_count`); its quotation
is in `PROJECT.json`. The others are counterexamples to stronger forms of the
properties above, met while they were written; each can be had again by dropping the
exception it is the reason of, or by stating the sentence quoted.

- A failed reconciliation lookup is taken for a confirmed absence
  (`pipeline.py:259`, against its comment at 133), and in observe mode a fresh
  reservation does not absorb a retry (`gate.py:48`): twin tickets. `TwinsExplained`
  bounds them outside observe mode; in observe mode nothing does.
- A forge that rejects every creation uses up a delivery's attempts at once, and the
  events behind the failing one are never counted (`worker.py:101`).
- After a lost answer the kept reservation absorbs the retry; only a later event or a
  restart looks at it again (`pipeline.py:243`).
- The silence sweep writes back the row it listed, and erases an occurrence counted
  meanwhile (`composition.py:511`). `CountExact` is checked without a sweep.
- A reopen that fails after the row was saved as reopened is retried as a comment: the
  ticket stays closed (`pipeline.py:269`, `commands.py:182`).
- A storage exception ends a worker's loop until the next start (`worker.py:126`).
- A retry that meets one forge error at its own branch moves to the next suffix and
  opens a second draft (`fix_delivery.py:184`).
- An investigation that began before a drop undoes it (`rca.py:234`), and the gate of
  the executor lets a dropped item pass (`fix_executor.py:323`).
- A closed draft keeps its place under `max_open_prs`, and a crash after the branch was
  bound leaves an open row that no new fix may take up.
- The full mailbox of a connection nobody polls ends the relaying of a webhook to the
  connections behind it (`connect_store.py:176`), and a deployment whose connection was
  revoked cannot disconnect (`connect_client.py:143`).
- A digest can be adopted as the ticket of its own candidate (`digest.py:190`); an
  approval does not ask again whether the candidate is still eligible.
- A config edit on the dashboard lasts until the next reload, thirty seconds later, and
  either can undo a key rotation (`setup.py:283`, `composition.py:252`).

## 6. Not modelled, and the plan

What is not modelled, with the reason for each part, is in `PROJECT.json` under
`components`. Left out of modelled parts: the hour that resets the ticket cap and the
RCA budget; authorisation of commands; the token endpoint of the Connect broker and
connections of several repositories; drops and closures of digest candidates by
humans; an outage of the forge in the reload pass; the text of tickets, comments,
digests and pages. Not modelled at all, for want of steps that interleave: sliding
windows (used under the dispatch lock only), fingerprinting and parsing (pure text),
redaction, encryption and signatures (data), pages (read only), scripts. Console
authentication and the App's token cache have state of their own and are independent
of everything above; they come last.

What could be proved next: the safety half of what the liveness properties rest on
(that a thread in the middle of its work always has an enabled step, stated as the
disjunction of the guards), and step properties that no run checks yet.

## 7. Running

```
tlc -workers 2 -config MCDeliveryQueue.cfg MCDeliveryQueue
tlc -workers 2 -config MCIngest.cfg MCIngestPipeline
tlapm DeliveryQueueProofs.tla
```
The other proof modules are checked in the same way; the longest takes some minutes.
`PROJECT.json` names the module, the configuration and the expected outcome of each run.
