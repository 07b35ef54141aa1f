------------------------- MODULE IngestPipelineProofs -------------------------
(* Safety of the pipeline for any deliveries, events, fingerprints and workers, *)
(* any policy and any number of crashes and of failures of every kind.          *)
EXTENDS IngestPipeline, TLAPS, SequenceTheorems, FiniteSetTheorems

-------------------------------------------------------------------------------
(* The queue under the pipeline                                                *)

\* Threads hold what they claimed; the process has no thread when it is not up. Only the
\* ingest routes accept deliveries here, and requests do nothing.
QueueInv ==
    /\ Q!TypeOK /\ Q!OneOwner /\ Q!BudgetExact
    /\ mode \in {"up", "crashed"}
    /\ mode = "crashed" => \A t \in Q!Threads : pc[t] = "idle"
    /\ \A d \in Q!Deliveries : state[d] # "absent" => d \in IngestIds
    /\ \A t \in Q!Threads \ Workers : pc[t] = "idle"

\* What a step of the pipeline is to the queue.
QueueStep ==
    \/ \E d \in IngestIds : Q!Ingest(d)
    \/ \E w \in Workers : Q!WorkerStep(w) \/ Q!ThreadStep(w)
    \/ Q!Crash \/ Q!Recover
    \/ UNCHANGED queueVars

\* Every step of the pipeline is one.
LEMMA QueueSteps ==
    ASSUME [Next]_vars
    PROVE  QueueStep
<1>1. ASSUME NEW d \in IngestIds, Ingest(d) PROVE QueueStep
  BY <1>1 DEF Ingest, QueueStep
<1>2. ASSUME NEW w \in Workers, Poll(w) \/ ClaimDelivery(w) PROVE QueueStep
  BY <1>2 DEF Poll, ClaimDelivery, QueueStep, Q!WorkerStep
<1>3. ASSUME NEW w \in Workers, BatchDone(w) \/ Settle(w) PROVE QueueStep
  BY <1>3 DEF BatchDone, Settle, QueueStep, Q!ThreadStep
<1>4. ASSUME NEW w \in Workers, HandleEvent(w) PROVE QueueStep
  <2>1. Raise(w) => QueueStep
    BY DEF Raise, QueueStep, Q!ThreadStep
  <2>2. UNCHANGED queueVars => QueueStep
    BY DEF QueueStep
  <2>3. CASE ClaimEvent(w) \/ LookupReservation(w) \/ Decide(w) \/ Bind(w) \/ Mark(w)
    BY <2>2, <2>3 DEF ClaimEvent, LookupReservation, Goto, Decide, DecideQuiet, DecideCreate,
                      DecideUpdate, Bind, Mark
  <2>4. CASE Post(w)
    BY <2>1, <2>2, <2>4 DEF Post, PostAnswered, PostRejected, PostServerError, PostLost
  <2>5. CASE Relookup(w) \/ Reopen(w) \/ Comment(w)
    BY <2>1, <2>2, <2>5 DEF Relookup, Reopen, Comment, Goto
  <2> QED
    BY <1>4, <2>3, <2>4, <2>5 DEF HandleEvent
<1>5. ASSUME NEW f \in Fps, Land(f) \/ ReservationAges(f) PROVE QueueStep
  BY <1>5 DEF Land, ReservationAges, QueueStep
<1>6. CASE Sweep
  BY <1>6 DEF Sweep, SweepRead, SweepClose, SweepSave, QueueStep
<1>7. CASE Crash \/ Recover
  BY <1>7 DEF Crash, Recover, QueueStep
<1>8. CASE UNCHANGED vars
  BY <1>8 DEF vars, QueueStep
<1> QED
  BY <1>1, <1>2, <1>3, <1>4, <1>5, <1>6, <1>7, <1>8 DEF Next, WorkerStep

\* The pipeline runs over the queue that DeliveryQueue specifies.
THEOREM UsesTheQueue == Spec => Q!Spec
<1>1. Init => Q!Init
  BY DEF Init
<1>2. [Next]_vars => [Q!Next]_(Q!vars)
  <2>1. SUFFICES ASSUME [Next]_vars PROVE [Q!Next]_(Q!vars)
    OBVIOUS
  <2>2. QueueStep
    BY <2>1, QueueSteps
  <2>3. IngestIds \subseteq Q!Deliveries /\ Workers \subseteq Q!Threads
    BY DEF Q!Deliveries, Q!Threads
  <2>4. CASE UNCHANGED queueVars
    BY <2>4 DEF queueVars, Q!vars, Q!rowVars, Q!threadVars
  <2> QED
    BY <2>2, <2>3, <2>4 DEF QueueStep, Q!Next
<1> QED
  BY <1>1, <1>2, PTL DEF Spec, Q!Spec

\* Every step keeps the queue's invariant.
LEMMA QueueKept ==
    ASSUME QueueInv, [Next]_vars
    PROVE  QueueInv'
<1> USE DEF Q!Deliveries, Q!Threads
<1>0. MaxAttempts \in Nat \ {0} /\ NoDelivery \notin Q!Deliveries
  BY QueueAssumption
<1>1. ASSUME NEW d \in IngestIds, Q!Ingest(d) PROVE QueueInv'
  BY <1>0, <1>1 DEF QueueInv, Q!Ingest, Q!SaveDelivery, Q!rowVars, Q!threadVars, Q!TypeOK, Q!RowStates,
                    Q!OneOwner, Q!Holding, Q!BudgetExact
<1>2. ASSUME NEW w \in Workers, Q!WorkerPoll(w) PROVE QueueInv'
  BY <1>0, <1>2 DEF QueueInv, Q!WorkerPoll, Q!rowVars, Q!TypeOK, Q!WorkerPcs, Q!RequestPcs,
                    Q!OneOwner, Q!Holding, Q!BudgetExact
<1>3. ASSUME NEW w \in Workers, Q!WorkerClaim(w) PROVE QueueInv'
  BY <1>0, <1>3 DEF QueueInv, Q!WorkerClaim, Q!Oldest, Q!MarkProcessing, Q!rowVars, Q!TypeOK,
                    Q!RowStates, Q!WorkerPcs, Q!RequestPcs, Q!OneOwner, Q!Holding, Q!BudgetExact
<1>4. ASSUME NEW w \in Workers, Q!HandlerReturns(w) \/ Q!HandlerRaises(w) PROVE QueueInv'
  BY <1>0, <1>4 DEF QueueInv, Q!HandlerReturns, Q!HandlerRaises, Q!rowVars, Q!TypeOK,
                    Q!WorkerPcs, Q!RequestPcs, Q!OneOwner, Q!Holding, Q!BudgetExact
<1>5. ASSUME NEW w \in Workers, Q!Settle(w) PROVE QueueInv'
  BY <1>0, <1>5 DEF QueueInv, Q!Settle, Q!CompleteDelivery, Q!FailDelivery, Q!TypeOK, Q!RowStates,
                    Q!WorkerPcs, Q!RequestPcs, Q!OneOwner, Q!Holding, Q!BudgetExact
<1>6. CASE Q!Crash
  BY <1>0, <1>6 DEF QueueInv, Q!Crash, Q!rowVars, Q!TypeOK, Q!WorkerPcs, Q!RequestPcs,
                    Q!OneOwner, Q!Holding, Q!BudgetExact
<1>7. CASE Q!Recover
  BY <1>0, <1>7 DEF QueueInv, Q!Recover, Q!threadVars, Q!TypeOK, Q!RowStates,
                    Q!OneOwner, Q!Holding, Q!BudgetExact
<1>8. CASE UNCHANGED queueVars
  BY <1>8 DEF queueVars, QueueInv, Q!TypeOK, Q!OneOwner, Q!Holding, Q!BudgetExact
<1>9. QueueStep
  BY QueueSteps
<1> QED
  BY <1>1, <1>2, <1>3, <1>4, <1>5, <1>6, <1>7, <1>8, <1>9
     DEF QueueStep, Q!WorkerStep, Q!ThreadStep

-------------------------------------------------------------------------------
(* Types                                                                       *)

\* The holder of the dispatch lock is in the middle of an event of its delivery, which it counted.
HolderInv ==
    lock # NoWorker =>
        pc[lock] = "running" /\ pos[lock] <= Len(Batch[job[lock]]) /\ Event(lock) \in counted

Types == TypeOK /\ IsFiniteSet(counted) /\ HolderInv

\* The assumptions on single constants.
LEMMA Given ==
    /\ Batch \in [IngestIds -> Seq(Events)] /\ FpOf \in [Events -> Fps]
    /\ ImmediateCount \in Nat /\ TicketCap \in Nat /\ CommentFloor \in Nat /\ PostRetries \in Nat
    /\ Observe \in BOOLEAN /\ NoWorker \notin Workers
BY BatchAssumption, PolicyAssumption, QueueAssumption

\* The columns of a row, and the updates the pipeline makes of them.
LEMMA RowFields ==
    ASSUME NEW r \in Rows
    PROVE  /\ r.state \in WorkState /\ r.occ \in Nat /\ r.ticket \in Nat
           /\ r.reserved \in {"none", "fresh", "stale"} /\ r.commented \in Nat
BY DEF Rows

\* An occurrence is counted.
LEMMA CountedRow ==
    ASSUME NEW r \in Rows, NEW n \in Nat
    PROVE  LET u == [r EXCEPT !.occ = n] IN
           /\ u \in Rows /\ u.occ = n
           /\ u.ticket = r.ticket /\ u.state = r.state /\ u.reserved = r.reserved
BY DEF Rows

\* A ticket is bound.
LEMMA BoundRow ==
    ASSUME NEW r \in Rows, NEW n \in Nat
    PROVE  LET u == [r EXCEPT !.ticket = n, !.reserved = "none"] IN
           /\ u \in Rows /\ u.ticket = n /\ u.reserved = "none" /\ u.occ = r.occ
BY DEF Rows

\* A reservation is released.
LEMMA ReleasedRow ==
    ASSUME NEW r \in Rows
    PROVE  LET u == [r EXCEPT !.state = "new", !.reserved = "none"] IN
           /\ u \in Rows /\ u.ticket = r.ticket /\ u.state = "new" /\ u.reserved = "none"
           /\ u.occ = r.occ
BY DEF Rows, WorkState

\* A ticket is reserved.
LEMMA ReservedRow ==
    ASSUME NEW r \in Rows
    PROVE  LET u == [r EXCEPT !.state = IF Observe THEN "open" ELSE "queued-rca", !.reserved = "fresh"] IN
           /\ u \in Rows /\ u.ticket = r.ticket /\ u.reserved = "fresh" /\ u.occ = r.occ
           /\ ~Observe => u.state = "queued-rca"
BY DEF Rows, WorkState

\* The state moves.
LEMMA MovedRow ==
    ASSUME NEW r \in Rows, NEW x \in WorkState
    PROVE  LET u == [r EXCEPT !.state = x] IN
           /\ u \in Rows /\ u.ticket = r.ticket /\ u.occ = r.occ
BY DEF Rows

\* The throttle anchor is saved.
LEMMA CommentedRow ==
    ASSUME NEW r \in Rows, NEW n \in Nat
    PROVE  LET u == [r EXCEPT !.commented = n] IN
           /\ u \in Rows /\ u.ticket = r.ticket /\ u.occ = r.occ
BY DEF Rows

\* A reservation ages.
LEMMA AgedRow ==
    ASSUME NEW r \in Rows
    PROVE  LET u == [r EXCEPT !.reserved = "stale"] IN
           /\ u \in Rows /\ u.ticket = r.ticket /\ u.occ = r.occ /\ u.state = r.state
           /\ u.reserved = "stale"
BY DEF Rows

\* The event a running worker is at.
LEMMA EventTypes ==
    ASSUME TypeOK, QueueInv, NEW w \in Workers, pc[w] = "running"
    PROVE  /\ job[w] \in IngestIds /\ Batch[job[w]] \in Seq(Events) /\ Len(Batch[job[w]]) \in Nat
           /\ pos[w] \in Nat \ {0} /\ DOMAIN Batch[job[w]] = 1 .. Len(Batch[job[w]])
           /\ pos[w] <= Len(Batch[job[w]]) =>
                 /\ pos[w] \in 1 .. Len(Batch[job[w]])
                 /\ Event(w) \in Events /\ Fp(w) \in Fps /\ row[Fp(w)] \in Rows
<1>1. job[w] \in IngestIds
  BY DEF QueueInv, Q!OneOwner, Q!Holding, Q!Threads
<1>2. Batch[job[w]] \in Seq(Events) /\ pos[w] \in Nat \ {0}
  BY <1>1, Given DEF TypeOK
<1>3. Len(Batch[job[w]]) \in Nat /\ DOMAIN Batch[job[w]] = 1 .. Len(Batch[job[w]])
  BY <1>2, LenProperties
<1>4. ASSUME pos[w] <= Len(Batch[job[w]])
      PROVE  pos[w] \in 1 .. Len(Batch[job[w]]) /\ Event(w) \in Events
  BY <1>2, <1>3, <1>4, ElementOfSeq DEF Event
<1>5. Event(w) \in Events => Fp(w) \in Fps /\ row[Fp(w)] \in Rows
  BY Given DEF Fp, TypeOK
<1> QED
  BY <1>1, <1>2, <1>3, <1>4, <1>5

\* Where the holder of the lock is.
LEMMA HolderTypes ==
    ASSUME Types, QueueInv, lock # NoWorker
    PROVE  /\ lock \in Workers /\ pc[lock] = "running" /\ stage # "free"
           /\ job[lock] \in IngestIds /\ pos[lock] \in 1 .. Len(Batch[job[lock]])
           /\ Event(lock) \in Events /\ Fp(lock) \in Fps /\ row[Fp(lock)] \in Rows
           /\ mode = "up" /\ Event(lock) \in counted
<1>1. /\ lock \in Workers /\ stage # "free" /\ pc[lock] = "running" /\ pos[lock] <= Len(Batch[job[lock]])
      /\ Event(lock) \in counted
  BY DEF Types, TypeOK, HolderInv
<1>2. mode = "up"
  BY <1>1 DEF QueueInv, Q!Threads
<1> QED
  BY <1>1, <1>2, EventTypes DEF Types

\* A failure of some kind is counted.
LEMMA MishapTypes ==
    ASSUME TypeOK, NEW k \in MishapKinds, Mishap(k)
    PROVE  /\ mishaps' \in [MishapKinds -> Nat] /\ mishaps'[k] = mishaps[k] + 1
           /\ \A j \in MishapKinds \ {k} : mishaps'[j] = mishaps[j]
BY DEF TypeOK, Mishap

\* A row without a ticket, a released lock, and no pass of the sweep.
LEMMA NewTypes ==
    /\ NewRow \in Rows /\ NewRow.ticket = 0 /\ NewRow.occ = 0 /\ NewRow.reserved = "none"
    /\ NewRow.state = "new" /\ NoSweep \in Sweeps
    /\ \A n \in Nat : LET u == [NoSweep EXCEPT !.passes = n] IN
          u \in Sweeps /\ u.todo = {} /\ u.closing = {} /\ u.passes = n
<1>1. /\ NewRow \in Rows /\ NewRow.ticket = 0 /\ NewRow.occ = 0 /\ NewRow.reserved = "none"
      /\ NewRow.state = "new"
  BY DEF NewRow, Rows, WorkState
<1>2. NoSweep \in Sweeps
  BY <1>1 DEF NoSweep, Sweeps
<1>3. ASSUME NEW n \in Nat
      PROVE  LET u == [NoSweep EXCEPT !.passes = n] IN
             u \in Sweeps /\ u.todo = {} /\ u.closing = {} /\ u.passes = n
  BY <1>1 DEF NoSweep, Sweeps
<1> QED
  BY <1>1, <1>2, <1>3

\* What a pass of the sweep holds.
LEMMA SweepTypes ==
    ASSUME TypeOK
    PROVE  /\ sweep.rows \in [Fps -> Rows] /\ sweep.todo \subseteq Fps /\ sweep.closing \subseteq sweep.todo
           /\ sweep.passes \in Nat
BY DEF TypeOK, Sweeps

\* Saving a row.
LEMMA SaveTypes ==
    ASSUME Types, QueueInv, lock # NoWorker, NEW r \in Rows, Save(lock, r)
    PROVE  /\ row' \in [Fps -> Rows] /\ row'[Fp(lock)] = r /\ snap' = r
           /\ \A f \in Fps \ {Fp(lock)} : row'[f] = row[f]
BY HolderTypes DEF Save, Types, TypeOK

\* A worker that does not hold the lock moves.
LEMMA AroundTypes ==
    ASSUME Types, QueueInv, QueueInv',
           \/ \E d \in IngestIds : Ingest(d)
           \/ \E w \in Workers : Poll(w) \/ ClaimDelivery(w) \/ BatchDone(w) \/ Settle(w)
    PROVE  Types' /\ (lock # NoWorker => job'[lock] = job[lock] /\ pos'[lock] = pos[lock])
<1>1. UNCHANGED <<dbVars, holderVars, creates, forgeVars, sweep>> /\ Q!TypeOK' /\ Q!TypeOK
  BY DEF Ingest, Poll, ClaimDelivery, BatchDone, Settle, pipelineVars, QueueInv
<1>2. pos' \in [Workers -> Nat \ {0}]
  <2>1. pos' = pos \/ \E w \in Workers : pos' = [pos EXCEPT ![w] = 1]
    BY DEF Ingest, Poll, ClaimDelivery, BatchDone, Settle, pipelineVars
  <2> QED
    BY <2>1 DEF Types, TypeOK
<1>3. lock # NoWorker => pc'[lock] = "running" /\ job'[lock] = job[lock] /\ pos'[lock] = pos[lock]
  <2>1. SUFFICES ASSUME lock # NoWorker
                 PROVE  pc'[lock] = "running" /\ job'[lock] = job[lock] /\ pos'[lock] = pos[lock]
    OBVIOUS
  <2>2. lock \in Workers /\ pc[lock] = "running"
    BY <2>1, HolderTypes
  <2>3. ASSUME NEW d \in IngestIds, Ingest(d) PROVE UNCHANGED <<pc, job, pos>>
    BY <2>3 DEF Ingest, Q!Ingest, Q!threadVars, pipelineVars
  <2>4. ASSUME NEW w \in Workers, Poll(w) \/ ClaimDelivery(w) \/ BatchDone(w) \/ Settle(w)
        PROVE  w # lock /\ pc'[lock] = pc[lock] /\ job'[lock] = job[lock] /\ pos'[lock] = pos[lock]
    <3>1. w # lock
      BY <2>2, <2>4 DEF Poll, Q!WorkerPoll, ClaimDelivery, Q!WorkerClaim, BatchDone, Settle, Q!Settle
    <3>2. pos'[lock] = pos[lock]
      BY <2>2, <2>4, <3>1 DEF Poll, ClaimDelivery, BatchDone, Settle, pipelineVars, Types, TypeOK
    <3>3. pc'[lock] = pc[lock] /\ job'[lock] = job[lock]
      BY <1>1, <2>2, <2>4, <3>1 DEF Poll, Q!WorkerPoll, ClaimDelivery, Q!WorkerClaim, Q!MarkProcessing,
             BatchDone, Q!HandlerReturns, Settle, Q!Settle, Q!TypeOK, Q!Threads
    <3> QED
      BY <3>1, <3>2, <3>3
  <2> QED
    BY <2>2, <2>3, <2>4
<1>4. HolderInv'
  BY <1>1, <1>3 DEF holderVars, dbVars, HolderInv, Event, Types
<1> QED
  BY <1>1, <1>2, <1>3, <1>4 DEF Types, TypeOK, dbVars, holderVars, forgeVars

\* An event is counted; the worker takes the lock, unless the event was dispatched before.
LEMMA ClaimTypes ==
    ASSUME Types, QueueInv, NEW w \in Workers, ClaimEvent(w)
    PROVE  /\ Types' /\ UNCHANGED <<queueVars, dispatched, creates, forgeVars, sweep>>
           /\ lock = NoWorker /\ pc[w] = "running" /\ Fp(w) \in Fps /\ Event(w) \in Events
           /\ row'[Fp(w)].ticket = row[Fp(w)].ticket /\ row'[Fp(w)].state = row[Fp(w)].state
           /\ row'[Fp(w)].reserved = row[Fp(w)].reserved
           /\ row'[Fp(w)].occ = row[Fp(w)].occ + (IF Event(w) \in counted THEN 0 ELSE 1)
           /\ \A f \in Fps \ {Fp(w)} : row'[f] = row[f]
           /\ counted' = counted \cup {Event(w)}
           /\ \/ /\ Event(w) \in dispatched /\ pos' = [pos EXCEPT ![w] = pos[w] + 1]
                 /\ UNCHANGED holderVars
              \/ /\ lock' = w /\ UNCHANGED <<pos, ref>>
                 /\ snap' = row'[Fp(w)]
                 /\ stage' = IF NeedsLookup(snap') THEN "lookup" ELSE "decide"
<1> DEFINE f == Fp(w)
           n == row[f].occ + (IF Event(w) \in counted THEN 0 ELSE 1)
           m == [row[f] EXCEPT !.occ = n]
<1>1. /\ lock = NoWorker /\ pc[w] = "running" /\ Fp(w) \in Fps /\ Event(w) \in Events
      /\ row[f] \in Rows /\ pos[w] \in Nat \ {0} /\ pos[w] <= Len(Batch[job[w]])
  BY EventTypes DEF ClaimEvent, Types
<1>2. n \in Nat
  BY <1>1, RowFields
<1>3. /\ m \in Rows /\ m.occ = n
      /\ m.ticket = row[f].ticket /\ m.state = row[f].state /\ m.reserved = row[f].reserved
  BY <1>1, <1>2, CountedRow
<1>4. /\ row' = [row EXCEPT ![f] = m] /\ counted' = counted \cup {Event(w)}
      /\ UNCHANGED <<queueVars, dispatched, creates, forgeVars, sweep>>
      /\ \/ /\ Event(w) \in dispatched /\ pos' = [pos EXCEPT ![w] = pos[w] + 1]
            /\ UNCHANGED holderVars
         \/ /\ lock' = w /\ UNCHANGED <<pos, ref>>
            /\ snap' = m
            /\ stage' = IF NeedsLookup(m) THEN "lookup" ELSE "decide"
  BY DEF ClaimEvent
<1> HIDE DEF m
<1>5. row' \in [Fps -> Rows] /\ row'[f] = m /\ \A g \in Fps \ {f} : row'[g] = row[g]
  BY <1>1, <1>3, <1>4 DEF Types, TypeOK
<1>6. counted' \subseteq Events /\ dispatched' \subseteq counted' /\ IsFiniteSet(counted')
  BY <1>1, <1>4, FS_AddElement DEF Types, TypeOK
<1>7. /\ pos' \in [Workers -> Nat \ {0}] /\ lock' \in Workers \cup {NoWorker} /\ stage' \in Stages
      /\ (stage' = "free" <=> lock' = NoWorker) /\ snap' \in Rows /\ ref' \in Nat
  BY <1>1, <1>3, <1>4, Given DEF Types, TypeOK, holderVars, Stages
<1>8. HolderInv'
  BY <1>1, <1>4 DEF HolderInv, holderVars, queueVars, Event
<1>9. Q!TypeOK'
  BY <1>4 DEF queueVars, Q!TypeOK, Types, TypeOK
<1>10. Types'
  BY <1>4, <1>5, <1>6, <1>7, <1>8, <1>9 DEF Types, TypeOK, forgeVars
<1> QED
  BY <1>1, <1>3, <1>4, <1>5, <1>10

\* The holder goes on with its event: nothing of the queue moves, and it keeps the lock.
Holds(w) == lock = w /\ UNCHANGED <<queueVars, counted, dispatched, pos, lock, sweep>>

\* Such a step keeps the types when what it assigns has its type.
LEMMA HoldsTypes ==
    ASSUME Types, QueueInv, NEW w \in Workers, Holds(w),
           row' \in [Fps -> Rows], stage' \in Stages \ {"free"}, snap' \in Rows, ref' \in Nat,
           creates' \in Nat, issues' \in Seq(Issues), inflight' \in [Fps -> Nat],
           mishaps' \in [MishapKinds -> Nat]
    PROVE  Types'
<1>1. lock = w /\ w # NoWorker /\ UNCHANGED <<queueVars, counted, dispatched, pos, lock, sweep>>
  BY Given DEF Holds
<1>2. HolderInv'
  BY <1>1 DEF HolderInv, Types, queueVars, Event
<1>3. Q!TypeOK'
  BY <1>1 DEF queueVars, Q!TypeOK, Types, TypeOK
<1> QED
  BY <1>1, <1>2, <1>3 DEF Types, TypeOK

\* The holder raises: the delivery is left, and the lock.
LEMMA RaiseTypes ==
    ASSUME Types, QueueInv, QueueInv', NEW w \in Workers, Raise(w), UNCHANGED <<counted, dispatched>>,
           row' \in [Fps -> Rows], issues' \in Seq(Issues), inflight' \in [Fps -> Nat],
           mishaps' \in [MishapKinds -> Nat]
    PROVE  Types' /\ lock' = NoWorker /\ stage' = "free" /\ UNCHANGED <<pos, sweep, mode, restarts, state, job>>
           /\ pc' = [pc EXCEPT ![w] = "exc"]
<1>1. /\ lock' = NoWorker /\ stage' = "free" /\ snap' = NewRow /\ ref' = 0
      /\ UNCHANGED <<pos, creates, sweep, mode, restarts, state, job>>
      /\ pc' = [pc EXCEPT ![w] = "exc"]
  BY DEF Raise, Release, Q!HandlerRaises, Q!rowVars
<1>2. HolderInv'
  BY <1>1 DEF HolderInv
<1>3. Q!TypeOK'
  BY DEF QueueInv
<1> QED
  BY <1>1, <1>2, <1>3, NewTypes DEF Types, TypeOK, Stages

-------------------------------------------------------------------------------
(* The forge                                                                   *)

\* What a fingerprint has at the forge: a finite set of its own issues.
LEMMA IssueTypes ==
    ASSUME TypeOK
    PROVE  /\ issues \in Seq(Issues) /\ Len(issues) \in Nat /\ DOMAIN issues = 1 .. Len(issues)
           /\ \A n \in DOMAIN issues : issues[n] \in Issues
           /\ \A f : IsFiniteSet(IssuesOf(f)) /\ IssuesOf(f) \subseteq 1 .. Len(issues)
<1>1. /\ issues \in Seq(Issues) /\ Len(issues) \in Nat /\ DOMAIN issues = 1 .. Len(issues)
      /\ \A n \in DOMAIN issues : issues[n] \in Issues
  BY LenProperties, ElementOfSeq DEF TypeOK
<1>2. IsFiniteSet(1 .. Len(issues))
  BY <1>1, FS_Interval
<1>3. ASSUME NEW f PROVE IsFiniteSet(IssuesOf(f)) /\ IssuesOf(f) \subseteq 1 .. Len(issues)
  BY <1>1, <1>2, FS_Subset DEF IssuesOf
<1> QED
  BY <1>1, <1>3

\* A creation adds an open issue of its fingerprint, and nothing else.
LEMMA LandsTypes ==
    ASSUME TypeOK, NEW f \in Fps, Lands(f)
    PROVE  /\ issues' \in Seq(Issues) /\ Len(issues) + 1 \notin IssuesOf(f)
           /\ IssuesOf(f)' = IssuesOf(f) \cup {Len(issues) + 1}
           /\ \A g \in Fps \ {f} : IssuesOf(g)' = IssuesOf(g)
           /\ \A n \in DOMAIN issues : issues'[n] = issues[n]
           /\ issues'[Len(issues) + 1].open = TRUE
<1> DEFINE i == [fp |-> f, open |-> TRUE]
<1>1. i \in Issues /\ i.fp = f /\ i.open = TRUE
  BY DEF Issues
<1>2. issues' = Append(issues, i)
  BY DEF Lands
<1>3. /\ issues \in Seq(Issues) /\ Len(issues) \in Nat /\ DOMAIN issues = 1 .. Len(issues)
  BY IssueTypes
<1> HIDE DEF i
<1>4. /\ issues' \in Seq(Issues) /\ DOMAIN issues' = 1 .. Len(issues) + 1
      /\ issues'[Len(issues) + 1] = i /\ \A n \in 1 .. Len(issues) : issues'[n] = issues[n]
  BY <1>1, <1>2, <1>3, AppendProperties
<1>5. ASSUME NEW g \in Fps
      PROVE  IssuesOf(g)' = IF g = f THEN IssuesOf(g) \cup {Len(issues) + 1} ELSE IssuesOf(g)
  <2>1. 1 .. Len(issues) + 1 = (1 .. Len(issues)) \cup {Len(issues) + 1}
    BY <1>3
  <2> QED
    BY <1>1, <1>3, <1>4, <2>1 DEF IssuesOf
<1>6. Len(issues) + 1 \notin IssuesOf(f)
  BY <1>3 DEF IssuesOf
<1> QED
  BY <1>1, <1>3, <1>4, <1>5, <1>6

\* An issue is reopened, or closed.
LEMMA SetOpenTypes ==
    ASSUME TypeOK, NEW n, NEW b \in BOOLEAN, issues' = [issues EXCEPT ![n].open = b]
    PROVE  /\ issues' \in Seq(Issues) /\ \A f \in Fps : IssuesOf(f)' = IssuesOf(f)
           /\ \A m \in DOMAIN issues : issues'[m].open = IF m = n THEN b ELSE issues[m].open
<1>1. /\ issues \in Seq(Issues) /\ Len(issues) \in Nat /\ DOMAIN issues = 1 .. Len(issues)
      /\ \A m \in DOMAIN issues : issues[m] \in Issues
  BY IssueTypes
<1>2. ASSUME NEW m \in DOMAIN issues
      PROVE  /\ issues'[m] \in Issues /\ issues'[m].fp = issues[m].fp
             /\ issues'[m].open = IF m = n THEN b ELSE issues[m].open
  <2>1. CASE m = n
    <3>1. issues'[m] = [issues[m] EXCEPT !.open = b] /\ issues[m] \in Issues
      BY <1>1, <2>1
    <3> QED
      BY <2>1, <3>1 DEF Issues
  <2>2. CASE m # n
    <3>1. issues'[m] = issues[m]
      BY <2>2
    <3> QED
      BY <1>1, <2>2, <3>1
  <2> QED
    BY <2>1, <2>2
<1>3. DOMAIN issues' = 1 .. Len(issues)
  BY <1>1
<1>4. issues' \in Seq(Issues)
  <2>1. issues' \in [1 .. Len(issues) -> Issues]
    BY <1>1, <1>2, <1>3
  <2> QED
    BY <1>1, <2>1, SeqDef
<1>5. \A f \in Fps : IssuesOf(f)' = IssuesOf(f)
  BY <1>1, <1>2, <1>3 DEF IssuesOf
<1> QED
  BY <1>2, <1>4, <1>5

-------------------------------------------------------------------------------
(* The steps of the holder                                                     *)

\* The reservation that was looked for is bound or given up.
LEMMA LookupTypes ==
    ASSUME Types, QueueInv, NEW w \in Workers, LookupReservation(w)
    PROVE  /\ Types' /\ Holds(w) /\ stage = "lookup" /\ stage' = "decide"
           /\ UNCHANGED <<creates, ref, issues, inflight>>
           /\ \A f \in Fps \ {Fp(w)} : row'[f] = row[f]
           /\ row'[Fp(w)] = snap' /\ snap'.occ = snap.occ /\ snap'.reserved = "none"
           /\ \/ snap'.ticket \in Findable(Fp(w)) /\ UNCHANGED mishaps
              \/ snap'.ticket = snap.ticket /\ snap'.state = "new" /\ LookupFails(Fp(w))
<1>1. /\ Holds(w) /\ stage = "lookup" /\ stage' = "decide" /\ lock = w
      /\ UNCHANGED <<creates, ref, issues, inflight>>
      /\ \/ \E n \in Findable(Fp(w)) :
                Save(w, [snap EXCEPT !.ticket = n, !.reserved = "none"]) /\ UNCHANGED mishaps
         \/ /\ LookupFails(Fp(w))
            /\ Save(w, [snap EXCEPT !.state = "new", !.reserved = "none"])
  BY DEF LookupReservation, Goto, Holds
<1>2. lock # NoWorker /\ snap \in Rows /\ issues \in Seq(Issues) /\ DOMAIN issues \subseteq Nat
  <2>1. lock # NoWorker /\ snap \in Rows /\ issues \in Seq(Issues)
    BY <1>1, Given DEF Types, TypeOK
  <2>2. DOMAIN issues = 1 .. Len(issues) /\ Len(issues) \in Nat
    BY <2>1, LenProperties
  <2> QED
    BY <2>1, <2>2
<1>3. PICK r \in Rows :
        /\ Save(w, r) /\ r.occ = snap.occ /\ r.reserved = "none"
        /\ \/ r.ticket \in Findable(Fp(w)) /\ UNCHANGED mishaps
           \/ r.ticket = snap.ticket /\ r.state = "new" /\ LookupFails(Fp(w))
  <2>1. CASE \E n \in Findable(Fp(w)) :
               Save(w, [snap EXCEPT !.ticket = n, !.reserved = "none"]) /\ UNCHANGED mishaps
    <3>1. PICK n \in Findable(Fp(w)) :
            Save(w, [snap EXCEPT !.ticket = n, !.reserved = "none"]) /\ UNCHANGED mishaps
      BY <2>1
    <3>2. n \in Nat
      BY <1>2 DEF Findable, IssuesOf
    <3> QED
      BY <1>2, <3>1, <3>2, BoundRow
  <2>2. CASE LookupFails(Fp(w)) /\ Save(w, [snap EXCEPT !.state = "new", !.reserved = "none"])
    BY <1>2, <2>2, ReleasedRow
  <2> QED
    BY <1>1, <2>1, <2>2
<1>4. /\ row' \in [Fps -> Rows] /\ row'[Fp(w)] = r /\ snap' = r
      /\ \A f \in Fps \ {Fp(w)} : row'[f] = row[f]
  BY <1>1, <1>2, <1>3, SaveTypes
<1>5. mishaps' \in [MishapKinds -> Nat]
  BY <1>3, MishapTypes DEF LookupFails, MishapKinds, Types, TypeOK
<1>6. Types'
  BY <1>1, <1>2, <1>4, <1>5, HoldsTypes DEF Types, TypeOK, Stages
<1> QED
  BY <1>1, <1>3, <1>4, <1>6

\* The policy gate decides.
LEMMA DecideTypes ==
    ASSUME Types, QueueInv, NEW w \in Workers, Decide(w)
    PROVE  /\ Types' /\ Holds(w) /\ stage = "decide" /\ UNCHANGED <<ref, issues, inflight, mishaps>>
           /\ \A f \in Fps \ {Fp(w)} : row'[f] = row[f]
           /\ \/ stage' \in {"mark", "comment"} /\ UNCHANGED <<row, snap>> /\ (stage' = "comment" => Bound(snap))
              \/ /\ stage' = "post" /\ ~Bound(snap) /\ snap.state \notin BusyStates
                 /\ row'[Fp(w)] = snap' /\ snap'.ticket = snap.ticket /\ snap'.occ = snap.occ
                 /\ snap'.reserved = "fresh" /\ (~Observe => snap'.state = "queued-rca")
              \/ /\ stage' = "reopen" /\ Bound(snap) /\ row'[Fp(w)] = snap'
                 /\ snap'.ticket = snap.ticket /\ snap'.occ = snap.occ
<1>1. lock = w /\ stage = "decide" /\ lock # NoWorker /\ snap \in Rows
  BY Given DEF Decide, Types, TypeOK
<1>2. PICK burst \in Bursts : DecideQuiet(w, burst) \/ DecideCreate(w, burst) \/ DecideUpdate(w, burst)
  BY DEF Decide
<1>3. Holds(w) /\ UNCHANGED <<ref, issues, inflight, mishaps>> /\ creates' \in Nat
  BY <1>1, <1>2 DEF DecideQuiet, DecideCreate, DecideUpdate, Goto, Holds, dbVars, forgeVars, Types, TypeOK
<1>4. ASSUME stage' \in {"mark", "comment"}, UNCHANGED <<row, snap>> PROVE Types'
  BY <1>3, <1>4, HoldsTypes DEF Types, TypeOK, Stages
<1>5. ASSUME NEW r \in Rows, Save(w, r), stage' \in {"post", "reopen"}
      PROVE  /\ Types' /\ row'[Fp(w)] = r /\ snap' = r
             /\ \A f \in Fps \ {Fp(w)} : row'[f] = row[f]
  <2>1. /\ row' \in [Fps -> Rows] /\ row'[Fp(w)] = r /\ snap' = r
        /\ \A f \in Fps \ {Fp(w)} : row'[f] = row[f]
    BY <1>1, <1>5, SaveTypes
  <2>2. Types'
    BY <1>3, <1>5, <2>1, HoldsTypes DEF Types, TypeOK, Stages
  <2> QED
    BY <2>1, <2>2
<1>6. CASE DecideQuiet(w, burst)
  <2>1. stage' = "mark" /\ UNCHANGED <<row, snap>>
    BY <1>6 DEF DecideQuiet, Goto, dbVars
  <2> QED
    BY <1>1, <1>3, <1>4, <2>1
<1>7. CASE DecideCreate(w, burst)
  <2>1. ~Bound(snap) /\ snap.state \notin BusyStates
    BY <1>7 DEF DecideCreate, Wakes
  <2>2. CASE creates + 1 > TicketCap
    <3>1. stage' = "mark" /\ UNCHANGED <<row, snap>>
      BY <1>7, <2>2 DEF DecideCreate
    <3> QED
      BY <1>1, <1>3, <1>4, <3>1
  <2>3. CASE ~(creates + 1 > TicketCap)
    <3> DEFINE u == [snap EXCEPT !.state = IF Observe THEN "open" ELSE "queued-rca", !.reserved = "fresh"]
    <3>1. stage' = "post" /\ Save(w, u)
      BY <1>7, <2>3 DEF DecideCreate
    <3>2. /\ u \in Rows /\ u.ticket = snap.ticket /\ u.reserved = "fresh" /\ u.occ = snap.occ
          /\ ~Observe => u.state = "queued-rca"
      BY <1>1, ReservedRow
    <3> HIDE DEF u
    <3> QED
      BY <1>1, <1>3, <1>5, <2>1, <3>1, <3>2
  <2> QED
    BY <2>2, <2>3
<1>8. CASE DecideUpdate(w, burst)
  <2>1. Bound(snap)
    BY <1>8 DEF DecideUpdate
  <2>2. CASE snap.state = "closed-auto"
    <3> DEFINE u == [snap EXCEPT !.state = "reopened"]
    <3>1. Save(w, u) /\ stage' = "reopen"
      BY <1>8, <2>2 DEF DecideUpdate, Goto
    <3>2. "reopened" \in WorkState
      BY DEF WorkState
    <3>3. u \in Rows /\ u.ticket = snap.ticket /\ u.occ = snap.occ
      BY <1>1, <3>2, MovedRow
    <3> HIDE DEF u
    <3> QED
      BY <1>1, <1>3, <1>5, <2>1, <3>1, <3>3
  <2>3. CASE snap.state # "closed-auto"
    <3>1. stage' \in {"mark", "comment"} /\ UNCHANGED <<row, snap>>
      BY <1>8, <2>3 DEF DecideUpdate, Goto
    <3> QED
      BY <1>1, <1>3, <1>4, <2>1, <3>1
  <2> QED
    BY <2>2, <2>3
<1> QED
  BY <1>2, <1>6, <1>7, <1>8

\* The POST, however it ends.
LEMMA PostTypes ==
    ASSUME Types, QueueInv, QueueInv', NEW w \in Workers, Post(w)
    PROVE  /\ Types' /\ lock = w /\ stage = "post" /\ UNCHANGED <<counted, dispatched, pos, sweep>>
           /\ \/ /\ Holds(w) /\ stage' = "bind" /\ Lands(Fp(w)) /\ ref' = Len(issues) + 1
                 /\ UNCHANGED <<row, snap, inflight, mishaps>>
              \/ /\ Mishap("rejected") /\ Raise(w) /\ UNCHANGED <<issues, inflight>>
                 /\ row'[Fp(w)].ticket = snap.ticket /\ row'[Fp(w)].occ = snap.occ
                 /\ row'[Fp(w)].reserved = "none" /\ row'[Fp(w)].state = "new"
                 /\ \A f \in Fps \ {Fp(w)} : row'[f] = row[f]
              \/ /\ Holds(w) /\ Mishap("server") /\ stage' \in {"post", "relookup"}
                 /\ (Lands(Fp(w)) \/ UNCHANGED issues) /\ UNCHANGED <<row, snap, inflight>>
              \/ /\ Holds(w) /\ Mishap("lost") /\ stage' = "relookup" /\ UNCHANGED <<row, snap>>
                 /\ \/ Lands(Fp(w)) /\ UNCHANGED inflight
                    \/ inflight' = [inflight EXCEPT ![Fp(w)] = inflight[Fp(w)] + 1] /\ UNCHANGED issues
                    \/ UNCHANGED <<issues, inflight>>
<1>1. /\ lock = w /\ stage = "post" /\ w # NoWorker /\ Fp(w) \in Fps /\ row \in [Fps -> Rows] /\ snap \in Rows
      /\ ref \in Nat /\ creates \in Nat /\ inflight \in [Fps -> Nat] /\ mishaps \in [MishapKinds -> Nat]
  BY HolderTypes, Given DEF Post, Types, TypeOK
<1>2. /\ issues \in Seq(Issues) /\ Len(issues) \in Nat /\ TypeOK
      /\ (Lands(Fp(w)) => issues' \in Seq(Issues))
  BY <1>1, IssueTypes, LandsTypes DEF Types
<1>3. CASE PostAnswered(w)
  <2>1. /\ Holds(w) /\ stage' = "bind" /\ Lands(Fp(w)) /\ ref' = Len(issues) + 1
        /\ UNCHANGED <<row, snap, inflight, mishaps, creates>>
    BY <1>1, <1>3 DEF PostAnswered, Holds, dbVars
  <2>2. /\ row' \in [Fps -> Rows] /\ snap' \in Rows /\ ref' \in Nat /\ creates' \in Nat
        /\ inflight' \in [Fps -> Nat] /\ mishaps' \in [MishapKinds -> Nat] /\ stage' \in Stages \ {"free"}
    BY <1>1, <1>2, <2>1 DEF Stages
  <2>3. Types'
    BY <1>2, <2>1, <2>2, HoldsTypes
  <2> QED
    BY <1>1, <2>1, <2>3 DEF Holds
<1>4. CASE PostRejected(w)
  <2> DEFINE u == [snap EXCEPT !.state = "new", !.reserved = "none"]
  <2>1. /\ Mishap("rejected") /\ Raise(w) /\ row' = [row EXCEPT ![Fp(w)] = u]
        /\ UNCHANGED <<counted, dispatched, issues, inflight>>
    BY <1>4 DEF PostRejected
  <2>2. u \in Rows /\ u.ticket = snap.ticket /\ u.state = "new" /\ u.reserved = "none" /\ u.occ = snap.occ
    BY <1>1, ReleasedRow
  <2> HIDE DEF u
  <2>3. row' \in [Fps -> Rows] /\ row'[Fp(w)] = u /\ \A f \in Fps \ {Fp(w)} : row'[f] = row[f]
    BY <1>1, <2>1, <2>2
  <2>4. mishaps' \in [MishapKinds -> Nat]
    BY <1>2, <2>1, MishapTypes DEF MishapKinds
  <2>5. Types' /\ UNCHANGED <<pos, sweep>>
    BY <1>1, <1>2, <2>1, <2>3, <2>4, RaiseTypes
  <2> QED
    BY <1>1, <2>1, <2>2, <2>3, <2>5
<1>5. CASE PostServerError(w)
  <2>1. /\ Holds(w) /\ Mishap("server") /\ stage' \in {"post", "relookup"}
        /\ (Lands(Fp(w)) \/ UNCHANGED issues) /\ UNCHANGED <<row, snap, inflight, creates>> /\ ref' \in {ref, ref + 1}
    BY <1>1, <1>5 DEF PostServerError, Holds, dbVars
  <2>2. mishaps' \in [MishapKinds -> Nat]
    BY <1>2, <2>1, MishapTypes DEF MishapKinds
  <2>3. /\ row' \in [Fps -> Rows] /\ snap' \in Rows /\ ref' \in Nat /\ creates' \in Nat
        /\ inflight' \in [Fps -> Nat] /\ stage' \in Stages \ {"free"}
    BY <1>1, <2>1 DEF Stages
  <2>4. issues' \in Seq(Issues)
    BY <1>2, <2>1
  <2>5. Types'
    BY <2>1, <2>2, <2>3, <2>4, HoldsTypes
  <2> QED
    BY <1>1, <2>1, <2>5 DEF Holds
<1>6. CASE PostLost(w)
  <2>1. /\ Holds(w) /\ Mishap("lost") /\ stage' = "relookup" /\ UNCHANGED <<row, snap, creates, ref>>
        /\ \/ Lands(Fp(w)) /\ UNCHANGED inflight
           \/ inflight' = [inflight EXCEPT ![Fp(w)] = inflight[Fp(w)] + 1] /\ UNCHANGED issues
           \/ UNCHANGED <<issues, inflight>>
    BY <1>1, <1>6 DEF PostLost, Holds, dbVars
  <2>2. mishaps' \in [MishapKinds -> Nat]
    BY <1>2, <2>1, MishapTypes DEF MishapKinds
  <2>3. inflight' \in [Fps -> Nat]
    BY <1>1, <2>1
  <2>4. /\ row' \in [Fps -> Rows] /\ snap' \in Rows /\ ref' \in Nat /\ creates' \in Nat
        /\ stage' \in Stages \ {"free"}
    BY <1>1, <2>1 DEF Stages
  <2>5. issues' \in Seq(Issues)
    BY <1>2, <2>1
  <2>6. Types'
    BY <2>1, <2>2, <2>3, <2>4, <2>5, HoldsTypes
  <2> QED
    BY <1>1, <2>1, <2>6 DEF Holds
<1> QED
  BY <1>3, <1>4, <1>5, <1>6 DEF Post

\* What the forge has is taken, or the delivery is left to its retry.
LEMMA RelookupTypes ==
    ASSUME Types, QueueInv, QueueInv', NEW w \in Workers, Relookup(w)
    PROVE  /\ Types' /\ lock = w /\ stage = "relookup"
           /\ UNCHANGED <<row, counted, dispatched, pos, sweep, issues, inflight>>
           /\ \/ Holds(w) /\ stage' = "bind" /\ ref' \in Findable(Fp(w)) /\ UNCHANGED <<snap, mishaps>>
              \/ LookupFails(Fp(w)) /\ Raise(w)
<1>1. /\ lock = w /\ stage = "relookup" /\ w # NoWorker /\ TypeOK
      /\ UNCHANGED <<row, counted, dispatched, issues, inflight>>
  BY Given DEF Relookup, dbVars, Types
<1>2. CASE (\E n \in Findable(Fp(w)) : ref' = n) /\ Goto("bind") /\ UNCHANGED <<snap, mishaps>>
  <2>1. Holds(w) /\ stage' = "bind" /\ ref' \in Findable(Fp(w)) /\ creates' = creates
    BY <1>1, <1>2 DEF Goto, Holds
  <2>2. ref' \in Nat
    BY <1>1, <2>1, IssueTypes DEF Findable
  <2>3. Types'
    BY <1>1, <1>2, <2>1, <2>2, HoldsTypes DEF Stages, Types, TypeOK
  <2> QED
    BY <1>1, <1>2, <2>1, <2>3 DEF Holds
<1>3. CASE LookupFails(Fp(w)) /\ Raise(w)
  <2>1. mishaps' \in [MishapKinds -> Nat]
    BY <1>1, <1>3, MishapTypes DEF LookupFails, MishapKinds, TypeOK
  <2>2. Types' /\ UNCHANGED <<pos, sweep>>
    BY <1>1, <1>3, <2>1, RaiseTypes DEF TypeOK
  <2> QED
    BY <1>1, <1>3, <2>2
<1> QED
  BY <1>2, <1>3 DEF Relookup

\* The ticket is bound.
LEMMA BindTypes ==
    ASSUME Types, QueueInv, NEW w \in Workers, Bind(w)
    PROVE  /\ Types' /\ Holds(w) /\ stage = "bind" /\ stage' = "mark"
           /\ UNCHANGED <<ref, issues, inflight, mishaps>>
           /\ row'[Fp(w)] = snap' /\ snap'.ticket = ref /\ snap'.occ = snap.occ /\ snap'.reserved = "none"
           /\ \A f \in Fps \ {Fp(w)} : row'[f] = row[f]
<1> DEFINE u == [snap EXCEPT !.ticket = ref, !.reserved = "none"]
<1>1. /\ lock = w /\ lock # NoWorker /\ stage = "bind" /\ stage' = "mark" /\ Holds(w) /\ Save(w, u)
      /\ UNCHANGED <<ref, creates, issues, inflight, mishaps>> /\ snap \in Rows /\ ref \in Nat
  BY Given DEF Bind, Goto, Holds, forgeVars, Types, TypeOK
<1>2. u \in Rows /\ u.ticket = ref /\ u.reserved = "none" /\ u.occ = snap.occ
  BY <1>1, BoundRow
<1> HIDE DEF u
<1>3. /\ row' \in [Fps -> Rows] /\ row'[Fp(w)] = u /\ snap' = u
      /\ \A f \in Fps \ {Fp(w)} : row'[f] = row[f]
  BY <1>1, <1>2, SaveTypes
<1>4. Types'
  BY <1>1, <1>2, <1>3, HoldsTypes DEF Stages, Types, TypeOK
<1> QED
  BY <1>1, <1>2, <1>3, <1>4

\* A recurrence at the forge: the ticket is reopened, or gets a comment.
LEMMA ReopenTypes ==
    ASSUME Types, QueueInv, QueueInv', NEW w \in Workers, Reopen(w)
    PROVE  /\ Types' /\ lock = w /\ stage = "reopen" /\ UNCHANGED <<row, counted, dispatched, pos, sweep, inflight>>
           /\ issues' = [issues EXCEPT ![snap.ticket].open = TRUE] \/ UNCHANGED issues
           /\ \/ Holds(w) /\ stage' = "mark" /\ UNCHANGED <<snap, mishaps>>
              \/ Mishap("effect") /\ Raise(w)
<1>1. /\ lock = w /\ stage = "reopen" /\ w # NoWorker /\ TypeOK
      /\ UNCHANGED <<row, counted, dispatched, inflight>>
      /\ (issues' = [issues EXCEPT ![snap.ticket].open = TRUE] \/ UNCHANGED issues)
  BY Given DEF Reopen, dbVars, Types
<1>2. issues' \in Seq(Issues)
  BY <1>1, SetOpenTypes, IssueTypes
<1>3. CASE Goto("mark") /\ UNCHANGED <<snap, ref, mishaps>>
  <2>1. Holds(w) /\ stage' = "mark" /\ creates' = creates
    BY <1>1, <1>3 DEF Goto, Holds
  <2>2. Types'
    BY <1>1, <1>2, <1>3, <2>1, HoldsTypes DEF Stages, Types, TypeOK
  <2> QED
    BY <1>1, <1>3, <2>1, <2>2 DEF Holds
<1>4. CASE Mishap("effect") /\ Raise(w)
  <2>1. mishaps' \in [MishapKinds -> Nat]
    BY <1>1, <1>4, MishapTypes DEF MishapKinds
  <2>2. Types' /\ UNCHANGED <<pos, sweep>>
    BY <1>1, <1>2, <1>4, <2>1, RaiseTypes DEF TypeOK
  <2> QED
    BY <1>1, <1>4, <2>2
<1> QED
  BY <1>3, <1>4 DEF Reopen

\* The comment is posted, or the call failed.
LEMMA CommentTypes ==
    ASSUME Types, QueueInv, QueueInv', NEW w \in Workers, Comment(w)
    PROVE  /\ Types' /\ lock = w /\ stage = "comment"
           /\ UNCHANGED <<counted, dispatched, pos, sweep, issues, inflight>>
           /\ \/ /\ Holds(w) /\ stage' = "mark" /\ UNCHANGED mishaps
                 /\ row'[Fp(w)] = snap' /\ snap'.ticket = snap.ticket /\ snap'.occ = snap.occ
                 /\ \A f \in Fps \ {Fp(w)} : row'[f] = row[f]
              \/ Mishap("effect") /\ Raise(w) /\ UNCHANGED row
<1>1. /\ lock = w /\ lock # NoWorker /\ stage = "comment" /\ TypeOK
      /\ UNCHANGED <<counted, dispatched, issues, inflight>> /\ snap \in Rows /\ snap.occ \in Nat
  BY Given, RowFields DEF Comment, Types, TypeOK
<1>2. CASE Save(w, [snap EXCEPT !.commented = snap.occ]) /\ Goto("mark") /\ UNCHANGED <<ref, mishaps>>
  <2> DEFINE u == [snap EXCEPT !.commented = snap.occ]
  <2>1. Holds(w) /\ stage' = "mark" /\ creates' = creates /\ Save(w, u)
    BY <1>1, <1>2 DEF Goto, Holds
  <2>2. u \in Rows /\ u.ticket = snap.ticket /\ u.occ = snap.occ
    BY <1>1, CommentedRow
  <2> HIDE DEF u
  <2>3. /\ row' \in [Fps -> Rows] /\ row'[Fp(w)] = u /\ snap' = u
        /\ \A f \in Fps \ {Fp(w)} : row'[f] = row[f]
    BY <1>1, <2>1, <2>2, SaveTypes
  <2>4. Types'
    BY <1>1, <1>2, <2>1, <2>2, <2>3, HoldsTypes DEF Stages, Types, TypeOK
  <2> QED
    BY <1>1, <1>2, <2>1, <2>2, <2>3, <2>4 DEF Holds
<1>3. CASE Mishap("effect") /\ Raise(w) /\ UNCHANGED row
  <2>1. mishaps' \in [MishapKinds -> Nat]
    BY <1>1, <1>3, MishapTypes DEF MishapKinds
  <2>2. Types' /\ UNCHANGED <<pos, sweep>>
    BY <1>1, <1>3, <2>1, RaiseTypes DEF TypeOK
  <2> QED
    BY <1>1, <1>3, <2>2
<1> QED
  BY <1>2, <1>3 DEF Comment

\* The event is dispatched and the lock released.
LEMMA MarkTypes ==
    ASSUME Types, QueueInv, NEW w \in Workers, Mark(w)
    PROVE  /\ Types' /\ lock = w /\ lock' = NoWorker /\ stage' = "free"
           /\ UNCHANGED <<queueVars, row, counted, creates, forgeVars, sweep>>
           /\ dispatched' = dispatched \cup {Event(w)} /\ pos' = [pos EXCEPT ![w] = pos[w] + 1]
<1>1. /\ lock = w /\ lock' = NoWorker /\ stage' = "free" /\ snap' = NewRow /\ ref' = 0 /\ stage = "mark"
      /\ UNCHANGED <<queueVars, row, counted, creates, forgeVars, sweep>>
      /\ dispatched' = dispatched \cup {Event(w)} /\ pos' = [pos EXCEPT ![w] = pos[w] + 1]
  BY DEF Mark, Release
<1>2. pos' \in [Workers -> Nat \ {0}]
  BY <1>1 DEF Types, TypeOK
<1>3. HolderInv'
  BY <1>1 DEF HolderInv
<1>4. Q!TypeOK'
  BY <1>1 DEF queueVars, Q!TypeOK, Types, TypeOK
<1>5. counted' \subseteq Events /\ dispatched' \subseteq counted' /\ IsFiniteSet(counted')
  BY <1>1, HolderTypes, Given DEF Types, TypeOK
<1>6. row' \in [Fps -> Rows] /\ creates' \in Nat /\ sweep' \in Sweeps /\ sweep'.closing \subseteq sweep'.todo
  BY <1>1 DEF Types, TypeOK
<1>7. issues' \in Seq(Issues) /\ inflight' \in [Fps -> Nat] /\ mishaps' \in [MishapKinds -> Nat]
  BY <1>1 DEF Types, TypeOK, forgeVars
<1> QED
  BY <1>1, <1>2, <1>3, <1>4, <1>5, <1>6, <1>7, NewTypes DEF Types, TypeOK, Stages

-------------------------------------------------------------------------------
(* The steps around the holder                                                 *)

\* The queue's part is all that such a step may change of what HolderInv reads.
LEMMA StandsTypes ==
    ASSUME Types, UNCHANGED <<queueVars, counted, dispatched, pos, holderVars, creates>>,
           row' \in [Fps -> Rows], issues' \in Seq(Issues), inflight' \in [Fps -> Nat],
           mishaps' \in [MishapKinds -> Nat], sweep' \in Sweeps, sweep'.closing \subseteq sweep'.todo
    PROVE  Types'
<1>1. Q!TypeOK'
  BY DEF queueVars, Q!TypeOK, Types, TypeOK
<1>2. HolderInv'
  BY DEF HolderInv, holderVars, queueVars, Event, Types
<1> QED
  BY <1>1, <1>2 DEF Types, TypeOK, holderVars

\* A late creation lands.
LEMMA LandTypes ==
    ASSUME Types, NEW f \in Fps, Land(f)
    PROVE  /\ Types' /\ Lands(f) /\ UNCHANGED <<queueVars, dbVars, pos, holderVars, creates, mishaps, sweep>>
           /\ inflight[f] > 0 /\ inflight'[f] = inflight[f] - 1
           /\ \A g \in Fps \ {f} : inflight'[g] = inflight[g]
<1>1. /\ Lands(f) /\ UNCHANGED <<queueVars, dbVars, pos, holderVars, creates, mishaps, sweep>>
      /\ inflight[f] > 0 /\ inflight' = [inflight EXCEPT ![f] = inflight[f] - 1]
  BY DEF Land
<1>2. inflight[f] \in Nat /\ inflight \in [Fps -> Nat]
  BY DEF Types, TypeOK
<1>3. inflight' \in [Fps -> Nat]
  BY <1>1, <1>2
<1>4. issues' \in Seq(Issues)
  BY <1>1, LandsTypes DEF Types
<1>5. row' \in [Fps -> Rows] /\ mishaps' \in [MishapKinds -> Nat] /\ sweep' \in Sweeps /\ sweep'.closing \subseteq sweep'.todo
  BY <1>1 DEF Types, TypeOK, dbVars
<1>6. Types'
  BY <1>1, <1>3, <1>4, <1>5, StandsTypes DEF dbVars
<1> QED
  BY <1>1, <1>2, <1>6

\* A reservation goes stale.
LEMMA AgeTypes ==
    ASSUME Types, NEW f \in Fps, ReservationAges(f)
    PROVE  /\ Types' /\ row[f].reserved = "fresh" /\ inflight[f] = 0 /\ (lock # NoWorker => Fp(lock) # f)
           /\ UNCHANGED <<queueVars, counted, dispatched, pos, holderVars, creates, forgeVars, sweep>>
           /\ row'[f].reserved = "stale" /\ row'[f].ticket = row[f].ticket /\ row'[f].occ = row[f].occ
           /\ row'[f].state = row[f].state /\ \A g \in Fps \ {f} : row'[g] = row[g]
<1> DEFINE u == [row[f] EXCEPT !.reserved = "stale"]
<1>1. /\ row[f].reserved = "fresh" /\ inflight[f] = 0 /\ (lock # NoWorker => Fp(lock) # f)
      /\ UNCHANGED <<queueVars, counted, dispatched, pos, holderVars, creates, forgeVars, sweep>>
      /\ row' = [row EXCEPT ![f] = u] /\ row \in [Fps -> Rows] /\ row[f] \in Rows
  BY DEF ReservationAges, Types, TypeOK
<1>2. u \in Rows /\ u.ticket = row[f].ticket /\ u.occ = row[f].occ /\ u.state = row[f].state /\ u.reserved = "stale"
  BY <1>1, AgedRow
<1> HIDE DEF u
<1>3. row' \in [Fps -> Rows] /\ row'[f] = u /\ \A g \in Fps \ {f} : row'[g] = row[g]
  BY <1>1, <1>2
<1>4. /\ issues' \in Seq(Issues) /\ inflight' \in [Fps -> Nat] /\ mishaps' \in [MishapKinds -> Nat]
      /\ sweep' \in Sweeps /\ sweep'.closing \subseteq sweep'.todo
  BY <1>1 DEF Types, TypeOK, forgeVars
<1>5. Types'
  BY <1>1, <1>3, <1>4, StandsTypes
<1> QED
  BY <1>1, <1>2, <1>3, <1>5

\* A pass of the sweep begins.
LEMMA ReadTypes ==
    ASSUME Types, SweepRead
    PROVE  /\ Types' /\ UNCHANGED <<queueVars, dbVars, pos, holderVars, creates, forgeVars>>
           /\ sweep'.passes = sweep.passes + 1 /\ sweep'.rows = row /\ sweep'.closing = {}
           /\ \A f \in sweep'.todo : f \in Fps /\ Bound(row[f])
<1>1. PICK silent \in SUBSET {f \in Fps : Bound(row[f]) /\ row[f].state \in {"open", "reopened"}} :
        sweep' = [rows |-> row, todo |-> silent, closing |-> {}, passes |-> sweep.passes + 1]
  BY DEF SweepRead
<1>2. row \in [Fps -> Rows] /\ sweep.passes \in Nat
  BY SweepTypes DEF Types, TypeOK
<1>3. sweep' \in Sweeps /\ sweep'.closing = {} /\ sweep'.rows = row /\ sweep'.passes = sweep.passes + 1 /\ sweep'.todo = silent
  BY <1>1, <1>2 DEF Sweeps
<1>4. UNCHANGED <<queueVars, dbVars, pos, holderVars, creates, forgeVars>>
  BY DEF SweepRead
<1>5. row' \in [Fps -> Rows] /\ issues' \in Seq(Issues) /\ inflight' \in [Fps -> Nat] /\ mishaps' \in [MishapKinds -> Nat]
  BY <1>4 DEF Types, TypeOK, dbVars, forgeVars
<1>6. Types'
  BY <1>3, <1>4, <1>5, StandsTypes DEF dbVars
<1> QED
  BY <1>1, <1>3, <1>4, <1>6

\* A ticket of the pass is closed, or the pass ends.
LEMMA CloseTypes ==
    ASSUME Types, NEW f \in Fps, SweepClose(f)
    PROVE  /\ Types' /\ UNCHANGED <<queueVars, dbVars, pos, holderVars, creates, inflight>>
           /\ f \in sweep.todo /\ sweep'.passes = sweep.passes /\ (UNCHANGED mishaps \/ Mishap("effect"))
           /\ issues' = [issues EXCEPT ![sweep.rows[f].ticket].open = FALSE] \/ UNCHANGED issues
           /\ (sweep'.todo = {} \/ (sweep'.todo = sweep.todo /\ sweep'.rows = sweep.rows))
<1>1. /\ UNCHANGED <<queueVars, dbVars, pos, holderVars, creates, inflight>> /\ f \in sweep.todo
      /\ issues' = [issues EXCEPT ![sweep.rows[f].ticket].open = FALSE] \/ UNCHANGED issues
      /\ UNCHANGED mishaps \/ Mishap("effect")
      /\ \/ sweep' = [sweep EXCEPT !.closing = {f}]
         \/ sweep' = [NoSweep EXCEPT !.passes = sweep.passes]
  BY DEF SweepClose
<1>2. sweep \in Sweeps /\ sweep.passes \in Nat
  BY SweepTypes DEF Types, TypeOK
<1>3. /\ sweep' \in Sweeps /\ sweep'.closing \subseteq sweep'.todo /\ sweep'.passes = sweep.passes
      /\ (sweep'.todo = {} \/ (sweep'.todo = sweep.todo /\ sweep'.rows = sweep.rows))
  <2>1. CASE sweep' = [sweep EXCEPT !.closing = {f}]
    BY <1>1, <1>2, <2>1 DEF Sweeps
  <2>2. CASE sweep' = [NoSweep EXCEPT !.passes = sweep.passes]
    BY <1>2, <2>2, NewTypes
  <2> QED
    BY <1>1, <2>1, <2>2
<1>4. issues' \in Seq(Issues)
  BY <1>1, SetOpenTypes DEF Types, TypeOK
<1>5. mishaps' \in [MishapKinds -> Nat]
  BY <1>1, MishapTypes DEF MishapKinds, Types, TypeOK
<1>6. row' \in [Fps -> Rows] /\ inflight' \in [Fps -> Nat]
  BY <1>1 DEF Types, TypeOK, dbVars
<1>7. Types'
  BY <1>1, <1>3, <1>4, <1>5, <1>6, StandsTypes DEF dbVars
<1> QED
  BY <1>1, <1>3, <1>7

\* The row of a closed ticket is saved as it was read.
LEMMA SweepSaveTypes ==
    ASSUME Types, NEW f \in Fps, SweepSave(f)
    PROVE  /\ Types' /\ UNCHANGED <<queueVars, counted, dispatched, pos, holderVars, creates, forgeVars>>
           /\ f \in sweep.todo /\ sweep'.passes = sweep.passes
           /\ row'[f].ticket = sweep.rows[f].ticket /\ \A g \in Fps \ {f} : row'[g] = row[g]
           /\ (sweep'.todo = {} \/ (sweep'.todo \subseteq sweep.todo \ {f} /\ sweep'.rows = sweep.rows))
<1> DEFINE u == [sweep.rows[f] EXCEPT !.state = "closed-auto"]
<1>1. /\ UNCHANGED <<queueVars, counted, dispatched, pos, holderVars, creates, forgeVars>> /\ f \in sweep.closing
      /\ row' = [row EXCEPT ![f] = u]
      /\ \/ sweep' = [sweep EXCEPT !.todo = sweep.todo \ {f}, !.closing = {}]
         \/ sweep' = [NoSweep EXCEPT !.passes = sweep.passes]
  BY DEF SweepSave
<1>2. /\ sweep \in Sweeps /\ sweep.passes \in Nat /\ sweep.rows[f] \in Rows /\ "closed-auto" \in WorkState
      /\ f \in sweep.todo
  BY <1>1, SweepTypes DEF Types, TypeOK, WorkState
<1>3. u \in Rows /\ u.ticket = sweep.rows[f].ticket
  BY <1>2, MovedRow
<1> HIDE DEF u
<1>4. row' \in [Fps -> Rows] /\ row'[f] = u /\ \A g \in Fps \ {f} : row'[g] = row[g]
  BY <1>1, <1>3 DEF Types, TypeOK
<1>5. /\ sweep' \in Sweeps /\ sweep'.closing \subseteq sweep'.todo /\ sweep'.passes = sweep.passes
      /\ (sweep'.todo = {} \/ (sweep'.todo \subseteq sweep.todo \ {f} /\ sweep'.rows = sweep.rows))
  <2>1. CASE sweep' = [sweep EXCEPT !.todo = sweep.todo \ {f}, !.closing = {}]
    BY <1>2, <2>1 DEF Sweeps
  <2>2. CASE sweep' = [NoSweep EXCEPT !.passes = sweep.passes]
    BY <1>2, <2>2, NewTypes
  <2> QED
    BY <1>1, <2>1, <2>2
<1>6. issues' \in Seq(Issues) /\ inflight' \in [Fps -> Nat] /\ mishaps' \in [MishapKinds -> Nat]
  BY <1>1 DEF Types, TypeOK, forgeVars
<1>7. Types'
  BY <1>1, <1>4, <1>5, <1>6, StandsTypes
<1> QED
  BY <1>1, <1>2, <1>3, <1>4, <1>5, <1>7

\* The process dies: what it held in memory is gone.
LEMMA CrashTypes ==
    ASSUME Types, QueueInv, QueueInv', Crash
    PROVE  /\ Types' /\ UNCHANGED <<dbVars, forgeVars, state>> /\ lock' = NoWorker /\ stage' = "free"
           /\ mode = "up" /\ mode' = "crashed" /\ restarts' = restarts + 1
           /\ sweep'.passes = sweep.passes /\ sweep'.todo = {}
<1>1. /\ lock' = NoWorker /\ stage' = "free" /\ snap' = NewRow /\ ref' = 0 /\ creates' = 0
      /\ pos' = [w \in Workers |-> 1] /\ sweep' = [NoSweep EXCEPT !.passes = sweep.passes]
      /\ UNCHANGED <<dbVars, forgeVars>>
  BY DEF Crash, Release
<1>2. mode = "up" /\ mode' = "crashed" /\ restarts' = restarts + 1 /\ state' = state
  BY DEF Crash, Q!Crash, Q!rowVars, QueueInv
<1>3. sweep' \in Sweeps /\ sweep'.todo = {} /\ sweep'.closing = {} /\ sweep'.passes = sweep.passes
  BY <1>1, SweepTypes, NewTypes DEF Types
<1>4. HolderInv'
  BY <1>1 DEF HolderInv
<1>5. Q!TypeOK'
  BY DEF QueueInv
<1> QED
  BY <1>1, <1>2, <1>3, <1>4, <1>5, NewTypes DEF Types, TypeOK, Stages, dbVars, forgeVars

\* The next process releases every reservation without a ticket.
LEMMA RecoverTypes ==
    ASSUME Types, QueueInv, QueueInv', Recover
    PROVE  /\ Types' /\ UNCHANGED <<counted, dispatched, pos, holderVars, creates, forgeVars, sweep, restarts>>
           /\ mode = "crashed" /\ mode' = "up" /\ lock = NoWorker
           /\ \A f \in Fps :
                 \/ row'[f] = row[f] /\ (Bound(row[f]) \/ row[f].reserved = "none")
                 \/ /\ ~Bound(row[f]) /\ row'[f].ticket = row[f].ticket /\ row'[f].reserved = "none"
                    /\ row'[f].occ = row[f].occ /\ row'[f].state = "new"
<1>1. /\ UNCHANGED <<counted, dispatched, pos, holderVars, creates, forgeVars, sweep>>
      /\ row' = [f \in Fps |->
                    IF ~Bound(row[f]) /\ row[f].reserved # "none"
                    THEN [row[f] EXCEPT !.state = "new", !.reserved = "none"]
                    ELSE row[f]]
      /\ UNCHANGED restarts /\ mode = "crashed" /\ mode' = "up"
  BY DEF Recover, Q!Recover, QueueInv
<1>2. lock = NoWorker
  BY <1>1, HolderTypes
<1>3. ASSUME NEW f \in Fps
      PROVE  /\ row'[f] \in Rows
             /\ \/ row'[f] = row[f] /\ (Bound(row[f]) \/ row[f].reserved = "none")
                \/ /\ ~Bound(row[f]) /\ row'[f].ticket = row[f].ticket /\ row'[f].reserved = "none"
                   /\ row'[f].occ = row[f].occ /\ row'[f].state = "new"
  <2>1. row[f] \in Rows
    BY DEF Types, TypeOK
  <2>2. row'[f] = IF ~Bound(row[f]) /\ row[f].reserved # "none"
                 THEN [row[f] EXCEPT !.state = "new", !.reserved = "none"]
                 ELSE row[f]
    BY <1>1
  <2> QED
    BY <2>1, <2>2, ReleasedRow
<1>4. row' \in [Fps -> Rows]
  BY <1>1, <1>3
<1>5. HolderInv'
  BY <1>1, <1>2 DEF HolderInv, holderVars
<1>6. Q!TypeOK'
  BY DEF QueueInv
<1>7. Types'
  BY <1>1, <1>4, <1>5, <1>6 DEF Types, TypeOK, holderVars, forgeVars
<1> QED
  BY <1>1, <1>2, <1>3, <1>7

\* What a step can be, the stuttering step apart.
LEMMA Steps ==
    ASSUME Next
    PROVE  \/ \E d \in IngestIds : Ingest(d)
           \/ \E w \in Workers : Poll(w) \/ ClaimDelivery(w) \/ BatchDone(w) \/ Settle(w)
           \/ \E w \in Workers : HandleEvent(w)
           \/ \E f \in Fps : Land(f) \/ ReservationAges(f) \/ SweepClose(f) \/ SweepSave(f)
           \/ SweepRead \/ Crash \/ Recover
BY DEF Next, WorkerStep, Sweep

\* Every step keeps the types.
LEMMA TypesKept ==
    ASSUME Types, QueueInv, QueueInv', [Next]_vars
    PROVE  Types'
<1>1. ASSUME NEW w \in Workers, HandleEvent(w) PROVE Types'
  BY <1>1, ClaimTypes, LookupTypes, DecideTypes, PostTypes, RelookupTypes, BindTypes, ReopenTypes,
     CommentTypes, MarkTypes DEF HandleEvent
<1>2. CASE UNCHANGED vars
  <2>1. Q!TypeOK'
    BY DEF QueueInv
  <2> QED
    BY <1>2, <2>1 DEF vars, queueVars, dbVars, holderVars, forgeVars, Types, TypeOK, HolderInv, Event
<1> QED
  BY <1>1, <1>2, Steps, AroundTypes, LandTypes, AgeTypes, ReadTypes, CloseTypes, SweepSaveTypes,
     CrashTypes, RecoverTypes

-------------------------------------------------------------------------------
(* The inductive invariant                                                     *)

\* A worker has dispatched what it has passed of its delivery.
BatchInv ==
    /\ \A w \in Workers : pc[w] = "running" =>
          \A i \in DOMAIN Batch[job[w]] : i < pos[w] => Batch[job[w]][i] \in dispatched
    /\ \A w \in Workers : pc[w] = "ok" =>
          \A i \in DOMAIN Batch[job[w]] : Batch[job[w]][i] \in dispatched
    /\ CompletedIsDispatched

\* The holder's copy is the row it works on, but for what a pass of the sweep may write in
\* the row of a ticket; where the holder is tells what it read.
HeldInv ==
    lock # NoWorker =>
        /\ snap.ticket = row[Fp(lock)].ticket
        /\ (~Bound(snap) \/ sweep.passes = 0) => snap = row[Fp(lock)]
        /\ stage = "lookup" => NeedsLookup(snap)
        /\ stage \in {"post", "relookup", "bind"} =>
              ~Bound(snap) /\ snap.reserved = "fresh" /\ (Observe \/ snap.state = "queued-rca")
        /\ stage \in {"reopen", "comment"} => Bound(snap)
        /\ stage = "bind" => ref \in DOMAIN issues /\ issues[ref].fp = Fp(lock)

\* The sweep is at rows that have a ticket, the one it read.
SweepInv ==
    /\ sweep.passes = 0 => sweep.todo = {}
    /\ \A f \in sweep.todo : Bound(row[f]) /\ sweep.rows[f].ticket = row[f].ticket

\* A fingerprint without a ticket: nobody has closed an issue of it, a reservation shows in
\* its state, and an old one has no creation under way.
TicketInv ==
    /\ BoundTicketIsOwn
    /\ \A f \in Fps : ~Bound(row[f]) =>
          /\ \A n \in IssuesOf(f) : issues[n].open
          /\ row[f].reserved # "none" => Observe \/ row[f].state = "queued-rca"
          /\ row[f].reserved = "stale" => inflight[f] = 0

\* No creation is ambiguous before one failed so.
ReservedInv ==
    /\ ReservationIsOwned
    /\ mishaps["lost"] + mishaps["server"] = 0 => stage # "relookup"

\* The sweep's whole-row save may take occurrences back; nothing else does.
CountInv == sweep.passes = 0 => CountExact

\* What was created or may still be, and the failures that excuse a further issue. The one
\* creation that needs no excuse is behind a fingerprint whose ticket is bound or whose
\* reservation stands; no other has used it up.
Created(f) == Cardinality(IssuesOf(f)) + inflight[f]
Price == restarts + mishaps["lookup"] + mishaps["server"]
Excused(f) ==
    \/ mode = "crashed"
    \/ mode = "up" /\ ~Bound(row[f]) /\ (row[f].state # "queued-rca" \/ row[f].reserved = "none")
    \/ lock # NoWorker /\ stage = "post" /\ Fp(lock) = f
TwinInv ==
    ~Observe => \A f \in Fps :
        Created(f) <= 1 + Price /\ (Excused(f) => Created(f) <= Price)

IInv ==
    /\ QueueInv /\ Types
    /\ BatchInv /\ HeldInv /\ SweepInv /\ TicketInv /\ ReservedInv /\ CountInv /\ TwinInv

\* The queue's steps and the stuttering step leave the pipeline alone, and the holder at its event.
LEMMA AroundFacts ==
    ASSUME Types, QueueInv, QueueInv', \/ UNCHANGED vars
                                       \/ \E d \in IngestIds : Ingest(d)
                                       \/ \E w \in Workers : Poll(w) \/ ClaimDelivery(w) \/ BatchDone(w) \/ Settle(w)
    PROVE  /\ UNCHANGED <<dbVars, holderVars, forgeVars, sweep, mode, restarts>>
           /\ lock # NoWorker => Fp(lock)' = Fp(lock)
<1>1. UNCHANGED <<dbVars, holderVars, forgeVars, sweep, mode, restarts>>
  <2>1. CASE UNCHANGED vars
    BY <2>1 DEF vars, queueVars
  <2>2. ASSUME NEW d \in IngestIds, Ingest(d) PROVE UNCHANGED <<dbVars, holderVars, forgeVars, sweep, mode, restarts>>
    BY <2>2 DEF Ingest, pipelineVars, Q!Ingest, Q!threadVars
  <2>3. ASSUME NEW w \in Workers, Poll(w) \/ ClaimDelivery(w) \/ BatchDone(w) \/ Settle(w)
        PROVE  UNCHANGED <<dbVars, holderVars, forgeVars, sweep, mode, restarts>>
    BY <2>3 DEF Poll, Q!WorkerPoll, ClaimDelivery, Q!WorkerClaim, BatchDone, Q!HandlerReturns, Settle, Q!Settle, pipelineVars
  <2> QED
    BY <2>1, <2>2, <2>3
<1>2. lock # NoWorker => job'[lock] = job[lock] /\ pos'[lock] = pos[lock]
  BY AroundTypes DEF vars, queueVars
<1> QED
  BY <1>1, <1>2 DEF Fp, Event, holderVars

\* The holder stays at its event.
LEMMA HoldsFacts ==
    ASSUME NEW w \in Workers, Holds(w)
    PROVE  /\ lock = w /\ lock' = w /\ w # NoWorker /\ Fp(w)' = Fp(w) /\ Event(w)' = Event(w)
           /\ Fp(lock)' = Fp(w)
           /\ UNCHANGED <<sweep, mode, restarts, counted, dispatched, pos, job, pc, state>>
BY Given DEF Holds, Fp, Event, queueVars

\* So it does when the queue and its place stand still.
LEMMA StandsFacts ==
    ASSUME UNCHANGED <<queueVars, pos, holderVars>>
    PROVE  /\ Fp(lock)' = Fp(lock) /\ UNCHANGED <<lock, stage, snap, ref, mode, restarts, pc, job, state>>
BY DEF Fp, Event, queueVars, holderVars

\* One that raises leaves it, and the deliveries' states with it.
LEMMA RaiseFacts ==
    ASSUME NEW w \in Workers, Raise(w)
    PROVE  /\ lock' = NoWorker /\ stage' = "free" /\ UNCHANGED <<pos, sweep, mode, restarts, state, job>>
           /\ pc' = [pc EXCEPT ![w] = "exc"]
BY DEF Raise, Release, Q!HandlerRaises, Q!rowVars

\* The deliveries that are done, and what is done of the others.
LEMMA BatchKept ==
    ASSUME Types, QueueInv, QueueInv', BatchInv, [Next]_vars
    PROVE  BatchInv'
<1>1. /\ pc \in [Q!Threads -> Q!WorkerPcs \cup Q!RequestPcs] /\ job \in [Q!Threads -> Q!Deliveries \cup {NoDelivery}]
      /\ state \in [Q!Deliveries -> Q!RowStates] /\ pos \in [Workers -> Nat \ {0}]
      /\ Workers \subseteq Q!Threads /\ IngestIds \subseteq Q!Deliveries
  BY DEF Types, TypeOK, QueueInv, Q!TypeOK, Q!Threads, Q!Deliveries
<1>2. ASSUME UNCHANGED <<pc, job, pos>>, dispatched \subseteq dispatched',
             \A d \in IngestIds : state'[d] = "completed" => state[d] = "completed"
      PROVE  BatchInv'
  BY <1>2 DEF BatchInv, CompletedIsDispatched
<1>3. ASSUME NEW w \in Workers, UNCHANGED <<job, state, dispatched, pos>>, NEW x, pc' = [pc EXCEPT ![w] = x],
             x = "running" => pc[w] = "running",
             x = "ok" => \A i \in DOMAIN Batch[job[w]] : Batch[job[w]][i] \in dispatched
      PROVE  BatchInv'
  <2>1. \A v \in Workers : pc'[v] = IF v = w THEN x ELSE pc[v]
    BY <1>1, <1>3
  <2> QED
    BY <1>3, <2>1 DEF BatchInv, CompletedIsDispatched
<1>4. ASSUME NEW d \in IngestIds, Ingest(d) PROVE BatchInv'
  <2>1. UNCHANGED <<pc, job, pos, dispatched>>
    BY <1>4 DEF Ingest, Q!Ingest, Q!threadVars, pipelineVars, dbVars
  <2>2. \A c \in IngestIds : state'[c] = "completed" => state[c] = "completed"
    BY <1>1, <1>4 DEF Ingest, Q!Ingest, Q!SaveDelivery, Q!rowVars
  <2> QED
    BY <1>2, <2>1, <2>2
<1>5. ASSUME NEW w \in Workers, Poll(w) PROVE BatchInv'
  BY <1>3, <1>5 DEF Poll, Q!WorkerPoll, Q!rowVars, pipelineVars, dbVars
<1>6. ASSUME NEW w \in Workers, ClaimDelivery(w) PROVE BatchInv'
  <2>1. dispatched' = dispatched /\ pos'[w] = 1 /\ \A v \in Workers \ {w} : pos'[v] = pos[v]
    BY <1>1, <1>6 DEF ClaimDelivery, dbVars
  <2>2. /\ \A v \in Workers \ {w} : pc'[v] = pc[v] /\ job'[v] = job[v]
        /\ pc'[w] \in {"running", "idle"}
        /\ \A d \in IngestIds : state'[d] = "completed" => state[d] = "completed"
    BY <1>1, <1>6 DEF ClaimDelivery, Q!WorkerClaim, Q!MarkProcessing, Q!rowVars
  <2>3. pc'[w] = "running" => \A i \in DOMAIN Batch[job'[w]] : ~(i < 1)
    <3>1. SUFFICES ASSUME pc'[w] = "running" PROVE \A i \in DOMAIN Batch[job'[w]] : ~(i < 1)
      OBVIOUS
    <3>2. job'[w] \in IngestIds
      BY <3>1 DEF QueueInv, Q!OneOwner, Q!Holding, Q!Threads
    <3>3. Batch[job'[w]] \in Seq(Events)
      BY <3>2, Given
    <3>4. DOMAIN Batch[job'[w]] = 1 .. Len(Batch[job'[w]]) /\ Len(Batch[job'[w]]) \in Nat
      BY <3>3, LenProperties
    <3> QED
      BY <3>4
  <2> QED
    BY <2>1, <2>2, <2>3 DEF BatchInv, CompletedIsDispatched
<1>7. ASSUME NEW w \in Workers, BatchDone(w) PROVE BatchInv'
  <2>1. /\ pc[w] = "running" /\ pos[w] > Len(Batch[job[w]]) /\ pc' = [pc EXCEPT ![w] = "ok"]
        /\ UNCHANGED <<job, state, dispatched, pos>>
    BY <1>7 DEF BatchDone, Q!HandlerReturns, Q!rowVars, pipelineVars, dbVars
  <2>2. \A i \in DOMAIN Batch[job[w]] : i < pos[w]
    BY <2>1, EventTypes DEF Types
  <2>3. \A i \in DOMAIN Batch[job[w]] : Batch[job[w]][i] \in dispatched
    BY <2>1, <2>2 DEF BatchInv
  <2> QED
    BY <1>3, <2>1, <2>3
<1>8. ASSUME NEW w \in Workers, Settle(w) PROVE BatchInv'
  <2>1. /\ UNCHANGED <<dispatched, pos>> /\ \A v \in Workers \ {w} : pc'[v] = pc[v] /\ job'[v] = job[v]
        /\ pc'[w] = "idle"
    BY <1>1, <1>8 DEF Settle, Q!Settle, pipelineVars, dbVars
  <2>2. ASSUME NEW d \in IngestIds, state'[d] = "completed", state[d] # "completed"
        PROVE  pc[w] = "ok" /\ d = job[w]
    BY <1>1, <1>8, <2>2 DEF Settle, Q!Settle, Q!CompleteDelivery, Q!FailDelivery
  <2> QED
    BY <2>1, <2>2 DEF BatchInv, CompletedIsDispatched
<1>9. ASSUME NEW w \in Workers, pc[w] = "running", UNCHANGED queueVars, pos' = [pos EXCEPT ![w] = pos[w] + 1],
             dispatched \subseteq dispatched', Event(w) \in dispatched'
      PROVE  BatchInv'
  <2>1. UNCHANGED <<pc, job, state>>
    BY <1>9 DEF queueVars
  <2>2. pos'[w] = pos[w] + 1 /\ pos[w] \in Nat /\ \A v \in Workers \ {w} : pos'[v] = pos[v]
    BY <1>1, <1>9
  <2>3. \A i \in DOMAIN Batch[job[w]] : i < pos'[w] => i < pos[w] \/ i = pos[w]
    BY <1>9, <2>2, EventTypes DEF Types
  <2> QED
    BY <1>9, <2>1, <2>2, <2>3 DEF BatchInv, CompletedIsDispatched, Event
<1>10. ASSUME NEW w \in Workers, ClaimEvent(w) PROVE BatchInv'
  <2>1. /\ UNCHANGED <<queueVars, dispatched>> /\ pc[w] = "running"
        /\ UNCHANGED pos \/ (Event(w) \in dispatched /\ pos' = [pos EXCEPT ![w] = pos[w] + 1])
    BY <1>10, ClaimTypes
  <2> QED
    BY <1>2, <1>9, <2>1 DEF queueVars
<1>11. ASSUME NEW w \in Workers, Mark(w) PROVE BatchInv'
  <2>1. /\ UNCHANGED queueVars /\ lock = w /\ w # NoWorker
        /\ dispatched' = dispatched \cup {Event(w)} /\ pos' = [pos EXCEPT ![w] = pos[w] + 1]
    BY <1>11, MarkTypes, Given
  <2>2. pc[w] = "running"
    BY <2>1, HolderTypes
  <2> QED
    BY <1>9, <2>1, <2>2
<1>12. ASSUME NEW w \in Workers, Holds(w) PROVE BatchInv'
  BY <1>2, <1>12, HoldsFacts
<1>13. ASSUME NEW w \in Workers, Raise(w), dispatched' = dispatched PROVE BatchInv'
  BY <1>3, <1>13, RaiseFacts
<1>14. ASSUME UNCHANGED <<queueVars, dispatched, pos>> PROVE BatchInv'
  BY <1>2, <1>14 DEF queueVars
<1>15. CASE Crash
  <2>1. /\ UNCHANGED <<dispatched, state>> /\ \A w \in Workers : pc'[w] = "idle"
    BY <1>1, <1>15 DEF Crash, Q!Crash, Q!rowVars, dbVars
  <2> QED
    BY <2>1 DEF BatchInv, CompletedIsDispatched
<1>16. CASE Recover
  <2>1. UNCHANGED <<dispatched, pos, pc, job>>
    BY <1>16 DEF Recover, Q!Recover, Q!threadVars
  <2>2. \A d \in IngestIds : state'[d] = "completed" => state[d] = "completed"
    BY <1>1, <1>16 DEF Recover, Q!Recover
  <2> QED
    BY <1>2, <2>1, <2>2
<1>17. ASSUME NEW w \in Workers, HandleEvent(w) PROVE BatchInv'
  <2>1. CASE LookupReservation(w) \/ Decide(w) \/ Bind(w)
    BY <1>12, <2>1, LookupTypes, DecideTypes, BindTypes
  <2>2. CASE Post(w)
    BY <1>12, <1>13, <2>2, PostTypes
  <2>3. CASE Relookup(w) \/ Reopen(w) \/ Comment(w)
    BY <1>12, <1>13, <2>3, RelookupTypes, ReopenTypes, CommentTypes
  <2> QED
    BY <1>10, <1>11, <1>17, <2>1, <2>2, <2>3 DEF HandleEvent
<1>18. ASSUME NEW f \in Fps, Land(f) \/ ReservationAges(f) \/ SweepClose(f) \/ SweepSave(f) PROVE BatchInv'
  BY <1>14, <1>18 DEF Land, ReservationAges, SweepClose, SweepSave, dbVars
<1>19. CASE SweepRead \/ UNCHANGED vars
  BY <1>14, <1>19 DEF SweepRead, vars, dbVars
<1> QED
  BY <1>4, <1>5, <1>6, <1>7, <1>8, <1>15, <1>16, <1>17, <1>18, <1>19, Steps

\* The issues of a fingerprint only grow in number.
LEMMA IssuesStay ==
    ASSUME TypeOK, \/ UNCHANGED issues
                   \/ \E f \in Fps : Lands(f)
                   \/ \E n : \E b \in BOOLEAN : issues' = [issues EXCEPT ![n].open = b]
    PROVE  \A f \in Fps : IssuesOf(f) \subseteq IssuesOf(f)'
<1>1. CASE UNCHANGED issues
  BY <1>1 DEF IssuesOf
<1>2. ASSUME NEW f \in Fps, Lands(f) PROVE \A g \in Fps : IssuesOf(g) \subseteq IssuesOf(g)'
  BY <1>2, LandsTypes
<1>3. ASSUME NEW n, NEW b \in BOOLEAN, issues' = [issues EXCEPT ![n].open = b]
      PROVE  \A g \in Fps : IssuesOf(g) \subseteq IssuesOf(g)'
  BY <1>3, SetOpenTypes
<1> QED
  BY <1>1, <1>2, <1>3

\* Every step changes the issues in one of these ways.
LEMMA IssueSteps ==
    ASSUME Types, QueueInv, QueueInv', [Next]_vars
    PROVE  \A f \in Fps : IssuesOf(f) \subseteq IssuesOf(f)'
<1>1. ASSUME NEW w \in Workers, HandleEvent(w) PROVE \A f \in Fps : IssuesOf(f) \subseteq IssuesOf(f)'
  <2>1. CASE ClaimEvent(w) \/ Mark(w)
    BY <2>1, IssuesStay, ClaimTypes, MarkTypes DEF forgeVars, Types
  <2>2. CASE LookupReservation(w) \/ Decide(w) \/ Bind(w)
    BY <2>2, IssuesStay, LookupTypes, DecideTypes, BindTypes DEF Types
  <2>3. CASE Relookup(w) \/ Comment(w)
    BY <2>3, IssuesStay, RelookupTypes, CommentTypes DEF Types
  <2>4. CASE Post(w)
    <3>1. Fp(w) \in Fps /\ (UNCHANGED issues \/ Lands(Fp(w)))
      BY <2>4, PostTypes, HolderTypes, Given
    <3> QED
      BY <3>1, IssuesStay DEF Types
  <2>5. CASE Reopen(w)
    BY <2>5, IssuesStay, ReopenTypes DEF Types
  <2> QED
    BY <1>1, <2>1, <2>2, <2>3, <2>4, <2>5 DEF HandleEvent
<1>2. ASSUME NEW f \in Fps, Land(f) \/ ReservationAges(f) \/ SweepClose(f) \/ SweepSave(f)
      PROVE  \A g \in Fps : IssuesOf(g) \subseteq IssuesOf(g)'
  BY <1>2, IssuesStay, LandTypes, AgeTypes, CloseTypes, SweepSaveTypes DEF forgeVars, Types
<1>3. CASE SweepRead \/ Crash \/ Recover
  BY <1>3, IssuesStay, ReadTypes, CrashTypes, RecoverTypes DEF forgeVars, Types
<1> QED
  BY <1>1, <1>2, <1>3, Steps, AroundFacts, IssuesStay DEF forgeVars, Types

\* The holder's copy.
LEMMA HeldKept ==
    ASSUME Types, QueueInv, QueueInv', HeldInv, SweepInv, [Next]_vars
    PROVE  HeldInv'
<1>1. \A f \in Fps : \A n \in DOMAIN issues : issues[n].fp = f => n \in DOMAIN issues' /\ issues'[n].fp = f
  BY IssueSteps DEF IssuesOf
<1>2. lock # NoWorker => /\ Fp(lock) \in Fps /\ Types /\ snap \in Rows /\ row[Fp(lock)] \in Rows /\ mode = "up"
                         /\ lock \in Workers
  BY HolderTypes DEF Types, TypeOK
<1>3. ASSUME lock # NoWorker => Fp(lock)' = Fp(lock), UNCHANGED <<lock, stage, snap, ref>>, sweep'.passes = sweep.passes,
             lock # NoWorker => row'[Fp(lock)] = row[Fp(lock)]
      PROVE  HeldInv'
  BY <1>1, <1>2, <1>3 DEF HeldInv
<1>4. ASSUME lock' = NoWorker PROVE HeldInv'
  BY <1>4 DEF HeldInv
<1>5. ASSUME NEW w \in Workers, Holds(w), stage' \in {"decide", "mark"},
             snap' = row'[Fp(w)] \/ (UNCHANGED <<row, snap>>)
      PROVE  HeldInv'
  BY <1>2, <1>5, HoldsFacts DEF HeldInv
<1>6. ASSUME NEW w \in Workers, ClaimEvent(w) PROVE HeldInv'
  <2>1. CASE UNCHANGED holderVars
    BY <1>4, <1>6, <2>1, ClaimTypes DEF holderVars
  <2>2. CASE ~UNCHANGED holderVars
    <3>1. /\ lock' = w /\ snap' = row'[Fp(w)] /\ stage' = IF NeedsLookup(snap') THEN "lookup" ELSE "decide"
          /\ UNCHANGED <<pos, job>>
      BY <1>6, <2>2, ClaimTypes DEF queueVars
    <3>2. Fp(lock)' = Fp(w)
      BY <3>1 DEF Fp, Event
    <3> QED
      BY <3>1, <3>2 DEF HeldInv, NeedsLookup, Bound
  <2> QED
    BY <2>1, <2>2
<1>7. ASSUME NEW w \in Workers, LookupReservation(w) \/ Bind(w) PROVE HeldInv'
  BY <1>5, <1>7, LookupTypes, BindTypes
<1>8. ASSUME NEW w \in Workers, Decide(w) PROVE HeldInv'
  <2>1. Holds(w) /\ lock # NoWorker /\ lock = w /\ lock' = w /\ Fp(lock)' = Fp(w) /\ sweep' = sweep
    BY <1>8, DecideTypes, HoldsFacts
  <2>2. CASE stage' \in {"mark", "comment"} /\ UNCHANGED <<row, snap>> /\ (stage' = "comment" => Bound(snap))
    BY <2>1, <2>2 DEF HeldInv, Bound
  <2>3. CASE /\ stage' = "post" /\ ~Bound(snap) /\ row'[Fp(w)] = snap' /\ snap'.ticket = snap.ticket
             /\ snap'.reserved = "fresh" /\ (~Observe => snap'.state = "queued-rca")
    BY <2>1, <2>3 DEF HeldInv, Bound
  <2>4. CASE stage' = "reopen" /\ Bound(snap) /\ row'[Fp(w)] = snap' /\ snap'.ticket = snap.ticket
    BY <2>1, <2>4 DEF HeldInv, Bound
  <2> QED
    BY <1>8, <2>2, <2>3, <2>4, DecideTypes
<1>9. ASSUME NEW w \in Workers, Post(w) PROVE HeldInv'
  <2>1. lock = w /\ lock # NoWorker /\ stage = "post" /\ Fp(w) \in Fps
    BY <1>2, <1>9, PostTypes, Given
  <2>2. ASSUME Holds(w), UNCHANGED <<row, snap>>, stage' \in {"post", "relookup"} PROVE HeldInv'
    BY <2>1, <2>2, HoldsFacts DEF HeldInv, Bound
  <2>3. ASSUME Holds(w), UNCHANGED <<row, snap>>, stage' = "bind", Lands(Fp(w)), ref' = Len(issues) + 1 PROVE HeldInv'
    <3>1. ref' \in DOMAIN issues' /\ issues'[ref'].fp = Fp(w)
      <4>1. \A f \in Fps : Lands(f) => Len(issues) + 1 \in DOMAIN issues' /\ issues'[Len(issues) + 1].fp = f
        BY LandsTypes DEF IssuesOf, Types
      <4> QED
        BY <2>1, <2>3, <4>1
    <3> QED
      BY <2>1, <2>3, <3>1, HoldsFacts DEF HeldInv, Bound
  <2> QED
    BY <1>4, <1>9, <2>2, <2>3, PostTypes, RaiseFacts
<1>10. ASSUME NEW w \in Workers, Relookup(w) PROVE HeldInv'
  <2>1. CASE Holds(w) /\ stage' = "bind" /\ ref' \in Findable(Fp(w)) /\ UNCHANGED <<snap, row, issues>>
    <3>1. ref' \in DOMAIN issues' /\ issues'[ref'].fp = Fp(w)
      BY <2>1 DEF Findable, IssuesOf
    <3>2. lock = w /\ lock # NoWorker /\ stage = "relookup"
      BY <1>10, RelookupTypes, Given
    <3> QED
      BY <2>1, <3>1, <3>2, HoldsFacts DEF HeldInv, Bound
  <2> QED
    BY <1>4, <1>10, <2>1, RelookupTypes, RaiseFacts
<1>11. ASSUME NEW w \in Workers, Reopen(w) \/ Comment(w) PROVE HeldInv'
  BY <1>4, <1>5, <1>11, ReopenTypes, CommentTypes, RaiseFacts
<1>12. ASSUME NEW w \in Workers, HandleEvent(w) PROVE HeldInv'
  BY <1>4, <1>6, <1>7, <1>8, <1>9, <1>10, <1>11, <1>12, MarkTypes DEF HandleEvent
<1>13. ASSUME NEW f \in Fps, Land(f) \/ ReservationAges(f) \/ SweepClose(f) PROVE HeldInv'
  <2>1. UNCHANGED <<queueVars, pos, holderVars>> /\ sweep'.passes = sweep.passes
    BY <1>13, LandTypes, AgeTypes, CloseTypes
  <2>2. lock # NoWorker => row'[Fp(lock)] = row[Fp(lock)]
    BY <1>2, <1>13, LandTypes, AgeTypes, CloseTypes DEF dbVars
  <2> QED
    BY <1>3, <2>1, <2>2, StandsFacts
<1>14. ASSUME NEW f \in Fps, SweepSave(f) PROVE HeldInv'
  <2>1. /\ UNCHANGED <<queueVars, pos, holderVars, issues>> /\ sweep'.passes = sweep.passes /\ f \in sweep.todo
        /\ row'[f].ticket = sweep.rows[f].ticket /\ \A g \in Fps \ {f} : row'[g] = row[g]
    BY <1>14, SweepSaveTypes DEF forgeVars
  <2>2. CASE lock # NoWorker /\ Fp(lock) = f
    <3>1. row'[f].ticket = row[f].ticket /\ Bound(row[f]) /\ sweep.passes # 0
      BY <2>1 DEF SweepInv
    <3>2. Fp(lock)' = f /\ UNCHANGED <<lock, stage, snap, ref>>
      BY <2>1, <2>2, StandsFacts
    <3>3. snap.ticket = row[f].ticket /\ Bound(snap)
      BY <2>2, <3>1 DEF HeldInv, Bound
    <3> QED
      BY <2>1, <2>2, <3>1, <3>2, <3>3 DEF HeldInv, Bound, NeedsLookup
  <2>3. CASE ~(lock # NoWorker /\ Fp(lock) = f)
    BY <1>2, <1>3, <2>1, <2>3, StandsFacts
  <2> QED
    BY <2>2, <2>3
<1>15. CASE SweepRead
  <2>1. UNCHANGED <<queueVars, pos, holderVars, row, issues>> /\ sweep'.passes = sweep.passes + 1
    BY <1>15, ReadTypes DEF dbVars, forgeVars
  <2>2. Fp(lock)' = Fp(lock) /\ UNCHANGED <<lock, stage, snap, ref>> /\ sweep'.passes # 0
    BY <2>1, StandsFacts, SweepTypes DEF Types
  <2> QED
    BY <2>1, <2>2 DEF HeldInv
<1>16. CASE Crash \/ Recover
  BY <1>4, <1>16, CrashTypes, RecoverTypes DEF holderVars
<1>17. ASSUME UNCHANGED vars \/ (\E d \in IngestIds : Ingest(d))
                 \/ (\E w \in Workers : Poll(w) \/ ClaimDelivery(w) \/ BatchDone(w) \/ Settle(w))
       PROVE  HeldInv'
  BY <1>3, <1>17, AroundFacts DEF dbVars, holderVars
<1> QED
  BY <1>12, <1>13, <1>14, <1>15, <1>16, <1>17, Steps

\* What a step may do to a row.
Untouched(f) == row'[f] = row[f]
Recounted(f) == row'[f].ticket = row[f].ticket /\ row'[f].state = row[f].state /\ row'[f].reserved = row[f].reserved
Released(f) == ~Bound(row[f]) /\ row'[f].ticket = row[f].ticket /\ row'[f].reserved = "none"
NewlyBound(f) == ~Bound(row[f]) /\ row'[f].ticket \in IssuesOf(f) /\ row'[f].reserved = "none"
Reserved(f) ==
    /\ ~Bound(row[f]) /\ row'[f].ticket = row[f].ticket /\ row'[f].reserved = "fresh"
    /\ Observe \/ row'[f].state = "queued-rca"
Aged(f) ==
    /\ row[f].reserved = "fresh" /\ row'[f].reserved = "stale" /\ row'[f].ticket = row[f].ticket
    /\ row'[f].state = row[f].state /\ inflight[f] = 0
KeptBound(f) == Bound(row[f]) /\ row'[f].ticket = row[f].ticket
RowStep(f) ==
    \/ Untouched(f) \/ Recounted(f) \/ Released(f) \/ NewlyBound(f) \/ Reserved(f) \/ Aged(f)
    \/ KeptBound(f)

\* It does one of these, and it does not add to what is under way unless the reservation is young.
LEMMA RowSteps ==
    ASSUME Types, QueueInv, QueueInv', HeldInv, SweepInv, [Next]_vars
    PROVE  \A f \in Fps : RowStep(f) /\ (inflight[f] = 0 => inflight'[f] = 0 \/ (Untouched(f) /\ row[f].reserved = "fresh"))
<1> DEFINE Young(f) == inflight[f] = 0 => inflight'[f] = 0 \/ (Untouched(f) /\ row[f].reserved = "fresh")
           Goal == \A f \in Fps : RowStep(f) /\ Young(f)
<1>1. ASSUME UNCHANGED <<row, inflight>> PROVE Goal
  BY <1>1 DEF RowStep, Untouched
<1>2. ASSUME NEW f \in Fps, RowStep(f), inflight' = inflight, \A g \in Fps \ {f} : row'[g] = row[g] PROVE Goal
  BY <1>2 DEF RowStep, Untouched
<1>3. ASSUME NEW w \in Workers, lock = w
      PROVE  /\ Fp(w) \in Fps /\ snap.ticket = row[Fp(w)].ticket /\ (~Bound(snap) => snap = row[Fp(w)])
             /\ (stage = "lookup" => NeedsLookup(snap))
             /\ (stage \in {"post", "relookup", "bind"} => ~Bound(snap) /\ snap.reserved = "fresh")
             /\ (stage \in {"reopen", "comment"} => Bound(snap)) /\ (stage = "bind" => ref \in IssuesOf(Fp(w)))
  BY <1>3, HolderTypes, Given DEF HeldInv, IssuesOf
<1>4. ASSUME NEW w \in Workers, HandleEvent(w) PROVE Goal
  <2>1. CASE ClaimEvent(w)
    <3>1. Recounted(Fp(w)) /\ Fp(w) \in Fps /\ inflight' = inflight /\ \A g \in Fps \ {Fp(w)} : row'[g] = row[g]
      BY <2>1, ClaimTypes DEF Recounted, forgeVars
    <3> QED
      BY <1>2, <3>1 DEF RowStep
  <2>2. CASE LookupReservation(w)
    <3>1. /\ lock = w /\ stage = "lookup" /\ inflight' = inflight /\ \A g \in Fps \ {Fp(w)} : row'[g] = row[g]
          /\ row'[Fp(w)].reserved = "none"
          /\ row'[Fp(w)].ticket \in Findable(Fp(w)) \/ row'[Fp(w)].ticket = snap.ticket
      BY <2>2, LookupTypes DEF Holds
    <3>2. Fp(w) \in Fps /\ ~Bound(row[Fp(w)]) /\ snap.ticket = row[Fp(w)].ticket
      BY <1>3, <3>1 DEF NeedsLookup, Bound
    <3>3. Released(Fp(w)) \/ NewlyBound(Fp(w))
      BY <3>1, <3>2 DEF Released, NewlyBound, Findable
    <3> QED
      BY <1>2, <3>1, <3>2, <3>3 DEF RowStep
  <2>3. CASE Decide(w)
    <3>1. /\ lock = w /\ inflight' = inflight /\ \A g \in Fps \ {Fp(w)} : row'[g] = row[g]
          /\ \/ UNCHANGED row
             \/ /\ ~Bound(snap) /\ row'[Fp(w)] = snap' /\ snap'.ticket = snap.ticket /\ snap'.reserved = "fresh"
                /\ (~Observe => snap'.state = "queued-rca")
             \/ Bound(snap) /\ row'[Fp(w)] = snap' /\ snap'.ticket = snap.ticket
      BY <2>3, DecideTypes DEF Holds
    <3>2. Fp(w) \in Fps /\ snap.ticket = row[Fp(w)].ticket
      BY <1>3, <3>1
    <3>3. UNCHANGED row \/ Reserved(Fp(w)) \/ KeptBound(Fp(w))
      BY <3>1, <3>2 DEF Reserved, KeptBound, Bound
    <3> QED
      BY <1>1, <1>2, <3>1, <3>2, <3>3 DEF RowStep
  <2>4. CASE Post(w)
    <3>1. lock = w /\ stage = "post"
      BY <2>4, PostTypes
    <3>2. Fp(w) \in Fps /\ snap = row[Fp(w)] /\ ~Bound(snap) /\ snap.reserved = "fresh"
      BY <1>3, <3>1
    <3>3. CASE UNCHANGED row
      <4>1. inflight' = inflight \/ inflight' = [inflight EXCEPT ![Fp(w)] = inflight[Fp(w)] + 1]
        BY <2>4, <3>3, PostTypes
      <4>2. \A f \in Fps : inflight'[f] = inflight[f] \/ f = Fp(w)
        BY <4>1 DEF Types, TypeOK
      <4> QED
        BY <3>2, <3>3, <4>2 DEF RowStep, Untouched
    <3>4. CASE ~UNCHANGED row
      <4>1. /\ inflight' = inflight /\ row'[Fp(w)].ticket = snap.ticket /\ row'[Fp(w)].reserved = "none"
            /\ \A g \in Fps \ {Fp(w)} : row'[g] = row[g]
        BY <2>4, <3>4, PostTypes
      <4>2. Released(Fp(w))
        BY <3>2, <4>1 DEF Released
      <4> QED
        BY <1>2, <3>2, <4>1, <4>2 DEF RowStep
    <3> QED
      BY <3>3, <3>4
  <2>5. CASE Relookup(w) \/ Reopen(w) \/ Mark(w)
    BY <1>1, <2>5, RelookupTypes, ReopenTypes, MarkTypes DEF forgeVars
  <2>6. CASE Bind(w)
    <3>1. /\ lock = w /\ stage = "bind" /\ inflight' = inflight /\ \A g \in Fps \ {Fp(w)} : row'[g] = row[g]
          /\ row'[Fp(w)].ticket = ref /\ row'[Fp(w)].reserved = "none"
      BY <2>6, BindTypes DEF Holds
    <3>2. NewlyBound(Fp(w)) /\ Fp(w) \in Fps
      BY <1>3, <3>1 DEF NewlyBound
    <3> QED
      BY <1>2, <3>1, <3>2 DEF RowStep
  <2>7. CASE Comment(w)
    <3>1. /\ lock = w /\ stage = "comment" /\ inflight' = inflight
          /\ \/ UNCHANGED row
             \/ /\ \A g \in Fps \ {Fp(w)} : row'[g] = row[g]
                /\ row'[Fp(w)].ticket = snap.ticket
      BY <2>7, CommentTypes DEF Holds
    <3>2. Fp(w) \in Fps /\ snap.ticket = row[Fp(w)].ticket /\ Bound(snap)
      BY <1>3, <3>1
    <3>3. UNCHANGED row \/ (KeptBound(Fp(w)) /\ \A g \in Fps \ {Fp(w)} : row'[g] = row[g])
      BY <3>1, <3>2 DEF KeptBound, Bound
    <3> QED
      BY <1>1, <1>2, <3>1, <3>2, <3>3 DEF RowStep
  <2> QED
    BY <1>4, <2>1, <2>2, <2>3, <2>4, <2>5, <2>6, <2>7 DEF HandleEvent
<1>5. ASSUME NEW f \in Fps, Land(f) PROVE Goal
  <2>1. /\ UNCHANGED row /\ inflight[f] > 0 /\ \A g \in Fps \ {f} : inflight'[g] = inflight[g]
    BY <1>5, LandTypes DEF dbVars
  <2> QED
    BY <2>1 DEF RowStep, Untouched
<1>6. ASSUME NEW f \in Fps, ReservationAges(f) PROVE Goal
  <2>1. Aged(f) /\ inflight' = inflight /\ \A g \in Fps \ {f} : row'[g] = row[g]
    BY <1>6, AgeTypes DEF Aged, forgeVars
  <2> QED
    BY <1>2, <2>1 DEF RowStep
<1>7. ASSUME NEW f \in Fps, SweepSave(f) PROVE Goal
  <2>1. KeptBound(f) /\ inflight' = inflight /\ \A g \in Fps \ {f} : row'[g] = row[g]
    BY <1>7, SweepSaveTypes DEF KeptBound, forgeVars, SweepInv
  <2> QED
    BY <1>2, <2>1 DEF RowStep
<1>8. CASE Recover
  <2>1. inflight' = inflight /\ \A f \in Fps : Untouched(f) \/ Released(f)
    BY <1>8, RecoverTypes DEF forgeVars, Untouched, Released
  <2> QED
    BY <2>1 DEF RowStep
<1>9. CASE SweepRead \/ Crash \/ \E f \in Fps : SweepClose(f)
  BY <1>1, <1>9, ReadTypes, CrashTypes, CloseTypes DEF dbVars, forgeVars
<1> QED
  BY <1>1, <1>4, <1>5, <1>6, <1>7, <1>8, <1>9, Steps, AroundFacts DEF dbVars, forgeVars

\* A ticket once bound stays.
LEMMA TicketsStay ==
    ASSUME \A f \in Fps : RowStep(f)
    PROVE  \A f \in Fps : Bound(row[f]) => row'[f].ticket = row[f].ticket
BY DEF RowStep, Untouched, Recounted, Released, NewlyBound, Reserved, Aged, KeptBound

\* The sweep's tickets.
LEMMA SweepKept ==
    ASSUME Types, QueueInv, QueueInv', HeldInv, SweepInv, [Next]_vars
    PROVE  SweepInv'
<1>1. \A f \in Fps : Bound(row[f]) => Bound(row'[f]) /\ row'[f].ticket = row[f].ticket
  BY RowSteps, TicketsStay DEF Bound
<1>2. /\ sweep.todo \subseteq Fps /\ sweep.passes \in Nat
  BY SweepTypes DEF Types
<1>3. ASSUME sweep'.passes = sweep.passes,
             sweep'.todo = {} \/ (sweep'.todo \subseteq sweep.todo /\ sweep'.rows = sweep.rows)
      PROVE  SweepInv'
  BY <1>1, <1>2, <1>3 DEF SweepInv
<1>4. CASE SweepRead
  <2>1. /\ UNCHANGED row /\ sweep'.passes = sweep.passes + 1 /\ sweep'.rows = row
        /\ \A f \in sweep'.todo : f \in Fps /\ Bound(row[f])
    BY <1>4, ReadTypes DEF dbVars
  <2> QED
    BY <1>2, <2>1 DEF SweepInv
<1>5. ASSUME NEW w \in Workers, HandleEvent(w) PROVE UNCHANGED sweep
  BY <1>5, ClaimTypes, LookupTypes, DecideTypes, PostTypes, RelookupTypes, BindTypes, ReopenTypes,
     CommentTypes, MarkTypes DEF HandleEvent, Holds
<1>6. ASSUME NEW f \in Fps, Land(f) \/ ReservationAges(f) \/ SweepClose(f) \/ SweepSave(f) PROVE SweepInv'
  BY <1>3, <1>6, LandTypes, AgeTypes, CloseTypes, SweepSaveTypes
<1>7. CASE Crash \/ Recover
  BY <1>3, <1>7, CrashTypes, RecoverTypes
<1> QED
  BY <1>3, <1>4, <1>5, <1>6, <1>7, Steps, AroundFacts

\* The tickets, and the fingerprints without one.
LEMMA TicketKept ==
    ASSUME Types, QueueInv, QueueInv', HeldInv, SweepInv, TicketInv, [Next]_vars
    PROVE  TicketInv'
<1>1. ASSUME NEW f \in Fps
      PROVE  /\ RowStep(f) /\ IssuesOf(f) \subseteq IssuesOf(f)'
             /\ Bound(row[f]) => row'[f].ticket = row[f].ticket
             /\ inflight[f] = 0 => inflight'[f] = 0 \/ (Untouched(f) /\ row[f].reserved = "fresh")
  BY RowSteps, IssueSteps, TicketsStay
<1>2. BoundTicketIsOwn'
  <2>1. ASSUME NEW f \in Fps, Bound(row[f])' PROVE row'[f].ticket \in IssuesOf(f)
    BY <1>1, <2>1 DEF TicketInv, BoundTicketIsOwn, Bound, RowStep, Untouched, Recounted, Released,
                      NewlyBound, Reserved, Aged, KeptBound
  <2> QED
    BY <1>1, <2>1 DEF BoundTicketIsOwn
<1>3. ASSUME NEW f \in Fps, ~Bound(row'[f]) PROVE \A n \in IssuesOf(f)' : issues'[n].open
  <2>1. ~Bound(row[f]) /\ \A n \in IssuesOf(f) : issues[n].open
    BY <1>1, <1>3 DEF Bound, TicketInv
  <2>2. CASE UNCHANGED issues
    BY <2>1, <2>2 DEF IssuesOf
  <2>3. ASSUME NEW g \in Fps, Lands(g) PROVE \A n \in IssuesOf(f)' : issues'[n].open
    <3>1. /\ \A n \in DOMAIN issues : issues'[n] = issues[n]
          /\ issues'[Len(issues) + 1].open = TRUE
          /\ IssuesOf(g)' = IssuesOf(g) \cup {Len(issues) + 1}
          /\ \A h \in Fps \ {g} : IssuesOf(h)' = IssuesOf(h)
      BY <2>3, LandsTypes DEF Types
    <3>2. \A n \in IssuesOf(f)' : n \in IssuesOf(f) \/ n = Len(issues) + 1
      BY <3>1
    <3> QED
      BY <2>1, <3>1, <3>2 DEF IssuesOf
  <2>4. ASSUME NEW n, issues' = [issues EXCEPT ![n].open = TRUE] PROVE \A m \in IssuesOf(f)' : issues'[m].open
    <3>1. /\ IssuesOf(f)' = IssuesOf(f) /\ \A m \in DOMAIN issues : issues'[m].open = IF m = n THEN TRUE ELSE issues[m].open
      BY <2>4, SetOpenTypes DEF Types
    <3> QED
      BY <2>1, <3>1 DEF IssuesOf
  <2>5. ASSUME NEW g \in Fps, SweepClose(g), issues' = [issues EXCEPT ![sweep.rows[g].ticket].open = FALSE]
        PROVE  \A m \in IssuesOf(f)' : issues'[m].open
    <3>1. /\ IssuesOf(f)' = IssuesOf(f)
          /\ \A m \in DOMAIN issues : issues'[m].open = IF m = sweep.rows[g].ticket THEN FALSE ELSE issues[m].open
      BY <2>5, SetOpenTypes DEF Types
    <3>2. Bound(row[g]) /\ sweep.rows[g].ticket \in IssuesOf(g)
      BY <2>5, CloseTypes DEF SweepInv, TicketInv, BoundTicketIsOwn
    <3>3. sweep.rows[g].ticket \notin IssuesOf(f)
      BY <2>1, <3>2 DEF IssuesOf
    <3> QED
      BY <2>1, <3>1, <3>3 DEF IssuesOf
  <2>6. ASSUME NEW w \in Workers, HandleEvent(w) PROVE \A m \in IssuesOf(f)' : issues'[m].open
    <3>1. CASE ClaimEvent(w) \/ LookupReservation(w) \/ Decide(w) \/ Relookup(w)
      BY <2>2, <3>1, ClaimTypes, LookupTypes, DecideTypes, RelookupTypes DEF forgeVars
    <3>2. CASE Bind(w) \/ Comment(w) \/ Mark(w)
      BY <2>2, <3>2, BindTypes, CommentTypes, MarkTypes DEF forgeVars
    <3>3. CASE Post(w)
      <4>1. Fp(w) \in Fps /\ (UNCHANGED issues \/ Lands(Fp(w)))
        BY <3>3, PostTypes, HolderTypes, Given
      <4> QED
        BY <2>2, <2>3, <4>1
    <3>4. CASE Reopen(w)
      BY <2>2, <2>4, <3>4, ReopenTypes
    <3> QED
      BY <2>6, <3>1, <3>2, <3>3, <3>4 DEF HandleEvent
  <2>7. ASSUME NEW g \in Fps, Land(g) \/ ReservationAges(g) \/ SweepClose(g) \/ SweepSave(g)
        PROVE  \A m \in IssuesOf(f)' : issues'[m].open
    BY <2>2, <2>3, <2>5, <2>7, LandTypes, AgeTypes, CloseTypes, SweepSaveTypes DEF forgeVars
  <2> QED
    BY <2>2, <2>6, <2>7, Steps, AroundFacts, ReadTypes, CrashTypes, RecoverTypes DEF forgeVars
<1>4. ASSUME NEW f \in Fps, ~Bound(row'[f])
      PROVE  /\ row'[f].reserved # "none" => Observe \/ row'[f].state = "queued-rca"
             /\ row'[f].reserved = "stale" => inflight'[f] = 0
  <2>1. /\ ~Bound(row[f])
        /\ row[f].reserved # "none" => Observe \/ row[f].state = "queued-rca"
        /\ row[f].reserved = "stale" => inflight[f] = 0
    BY <1>1, <1>4 DEF Bound, TicketInv
  <2>2. CASE Untouched(f) \/ Recounted(f) \/ Released(f) \/ NewlyBound(f) \/ Reserved(f)
    BY <1>1, <2>1, <2>2 DEF Untouched, Recounted, Released, NewlyBound, Reserved
  <2>3. CASE Aged(f) \/ KeptBound(f)
    BY <1>1, <2>1, <2>3 DEF Untouched, Aged, KeptBound
  <2> QED
    BY <1>1, <2>2, <2>3 DEF RowStep
<1> QED
  BY <1>2, <1>3, <1>4 DEF TicketInv

\* Failures only add up.
LEMMA MishapSteps ==
    ASSUME Types, QueueInv, QueueInv', [Next]_vars
    PROVE  /\ \A k \in MishapKinds : mishaps[k] \in Nat /\ mishaps'[k] \in Nat /\ mishaps[k] <= mishaps'[k]
           /\ restarts \in Nat /\ restarts' \in Nat /\ restarts <= restarts'
<1>1. Types' /\ restarts \in Nat /\ restarts' \in Nat /\ mishaps \in [MishapKinds -> Nat] /\ mishaps' \in [MishapKinds -> Nat]
  BY TypesKept DEF QueueInv, Q!TypeOK, Types, TypeOK
<1>2. ASSUME NEW k \in MishapKinds, Mishap(k) PROVE \A j \in MishapKinds : mishaps[j] <= mishaps'[j]
  <2>1. mishaps'[k] = mishaps[k] + 1 /\ \A j \in MishapKinds \ {k} : mishaps'[j] = mishaps[j]
    BY <1>2, MishapTypes DEF Types
  <2> QED
    BY <1>1, <2>1
<1>3. ASSUME NEW w \in Workers, HandleEvent(w)
      PROVE  (UNCHANGED mishaps \/ \E k \in MishapKinds : Mishap(k)) /\ restarts' = restarts
  <2> USE DEF MishapKinds
  <2>1. CASE ClaimEvent(w) \/ Mark(w)
    BY <2>1, ClaimTypes, MarkTypes DEF forgeVars, queueVars
  <2>2. CASE LookupReservation(w)
    BY <2>2, LookupTypes, HoldsFacts DEF LookupFails
  <2>3. CASE Decide(w) \/ Bind(w)
    BY <2>3, DecideTypes, BindTypes, HoldsFacts
  <2>4. CASE Post(w)
    BY <2>4, PostTypes, HoldsFacts, RaiseFacts
  <2>5. CASE Relookup(w) \/ Reopen(w) \/ Comment(w)
    BY <2>5, RelookupTypes, ReopenTypes, CommentTypes, HoldsFacts, RaiseFacts DEF LookupFails
  <2> QED
    BY <1>3, <2>1, <2>2, <2>3, <2>4, <2>5 DEF HandleEvent
<1>4. ASSUME NEW f \in Fps, Land(f) \/ ReservationAges(f) \/ SweepClose(f) \/ SweepSave(f)
      PROVE  (UNCHANGED mishaps \/ Mishap("effect")) /\ restarts' = restarts
  BY <1>4, LandTypes, AgeTypes, CloseTypes, SweepSaveTypes DEF forgeVars, queueVars
<1>5. CASE SweepRead \/ Crash \/ Recover
  BY <1>1, <1>5, ReadTypes, CrashTypes, RecoverTypes DEF forgeVars, queueVars
<1>6. UNCHANGED mishaps => \A j \in MishapKinds : mishaps[j] <= mishaps'[j]
  BY <1>1
<1>7. ASSUME UNCHANGED vars \/ (\E d \in IngestIds : Ingest(d))
                \/ (\E w \in Workers : Poll(w) \/ ClaimDelivery(w) \/ BatchDone(w) \/ Settle(w))
      PROVE  UNCHANGED <<mishaps, restarts>>
  BY <1>7, AroundFacts DEF forgeVars
<1>8. "effect" \in MishapKinds
  BY DEF MishapKinds
<1>9. \A j \in MishapKinds : mishaps[j] <= mishaps'[j]
  <2>1. CASE SweepRead \/ Crash \/ Recover
    BY <1>6, <2>1, ReadTypes, CrashTypes, RecoverTypes DEF forgeVars
  <2> QED
    BY <1>2, <1>3, <1>4, <1>6, <1>7, <1>8, <2>1, Steps
<1>10. restarts <= restarts'
  <2>1. CASE Crash
    BY <1>1, <2>1, CrashTypes
  <2>2. CASE SweepRead \/ Recover
    BY <1>1, <2>2, ReadTypes, RecoverTypes DEF queueVars
  <2> QED
    BY <1>1, <1>3, <1>4, <1>7, <2>1, <2>2, Steps
<1> QED
  BY <1>1, <1>9, <1>10

\* The reservations of a process that saw no ambiguous failure.
LEMMA ReservedKept ==
    ASSUME Types, QueueInv, QueueInv', HeldInv, SweepInv, ReservedInv, [Next]_vars
    PROVE  ReservedInv'
<1> DEFINE Clean == mishaps["lost"] + mishaps["server"] = 0
           Open(f) == ~Bound(row[f]) /\ row[f].reserved # "none"
           Mine(f) == lock # NoWorker /\ Fp(lock) = f /\ stage \in {"post", "bind"}
<1>1. /\ Clean' => Clean
      /\ \A k \in MishapKinds : mishaps[k] \in Nat /\ mishaps'[k] \in Nat /\ mishaps[k] <= mishaps'[k]
  BY MishapSteps DEF MishapKinds
<1>2. SUFFICES ASSUME Clean'
               PROVE  stage' # "relookup" /\ (mode' = "up" => \A f \in Fps : Open(f)' => Mine(f)')
  BY DEF ReservedInv, ReservationIsOwned
<1>3. stage # "relookup" /\ (mode = "up" => \A f \in Fps : Open(f) => Mine(f))
  BY <1>1, <1>2 DEF ReservedInv, ReservationIsOwned
<1> DEFINE Goal == stage' # "relookup" /\ (mode' = "up" => \A f \in Fps : Open(f)' => Mine(f)')
<1>4. ASSUME mode' = mode, UNCHANGED <<row, lock, stage>>, lock # NoWorker => Fp(lock)' = Fp(lock) PROVE Goal
  BY <1>3, <1>4 DEF Bound
<1>5. ASSUME NEW w \in Workers, HandleEvent(w) PROVE Goal
  <2>1. CASE ClaimEvent(w)
    <3>1. /\ lock = NoWorker /\ mode' = mode /\ stage' \in {stage, "lookup", "decide"} /\ Fp(w) \in Fps
          /\ \A f \in Fps : row'[f].ticket = row[f].ticket /\ row'[f].reserved = row[f].reserved
      BY <2>1, ClaimTypes DEF holderVars, queueVars
    <3> QED
      BY <1>3, <3>1 DEF Bound
  <2>2. ASSUME lock = w PROVE Fp(w) \in Fps /\ snap.ticket = row[Fp(w)].ticket /\ mode = "up"
    BY <2>2, HolderTypes, Given DEF HeldInv
  <2>3. CASE LookupReservation(w)
    <3>1. /\ Holds(w) /\ stage = "lookup" /\ stage' = "decide" /\ row'[Fp(w)].reserved = "none"
          /\ \A f \in Fps \ {Fp(w)} : row'[f] = row[f]
      BY <2>3, LookupTypes
    <3> QED
      BY <1>3, <2>2, <3>1, HoldsFacts DEF Bound
  <2>4. CASE Decide(w)
    <3>1. /\ Holds(w) /\ stage = "decide" /\ lock = w /\ lock' = w /\ w # NoWorker /\ Fp(lock)' = Fp(w) /\ mode' = mode
          /\ \A f \in Fps \ {Fp(w)} : row'[f] = row[f]
          /\ \/ stage' \in {"mark", "comment"} /\ UNCHANGED row
             \/ stage' = "post"
             \/ stage' = "reopen" /\ Bound(snap) /\ row'[Fp(w)].ticket = snap.ticket
      BY <2>4, DecideTypes, HoldsFacts
    <3> QED
      BY <1>3, <2>2, <3>1 DEF Bound
  <2>5. CASE Post(w)
    <3>1. lock = w /\ stage = "post"
      BY <2>5, PostTypes
    <3>2. ASSUME Mishap("server") \/ Mishap("lost") PROVE FALSE
      <4>1. "server" \in MishapKinds /\ "lost" \in MishapKinds
        BY DEF MishapKinds
      <4>2. mishaps'["server"] = mishaps["server"] + 1 \/ mishaps'["lost"] = mishaps["lost"] + 1
        BY <3>2, <4>1, MishapTypes DEF Types
      <4> QED
        BY <1>1, <1>2, <4>1, <4>2
    <3>3. CASE Holds(w) /\ stage' = "bind" /\ UNCHANGED row
      BY <1>3, <3>1, <3>3, HoldsFacts DEF Bound
    <3>4. CASE /\ Raise(w) /\ row'[Fp(w)].reserved = "none"
               /\ \A f \in Fps \ {Fp(w)} : row'[f] = row[f]
      <4>1. mode' = mode /\ stage' = "free"
        BY <3>4, RaiseFacts
      <4> QED
        BY <1>3, <3>1, <3>4, <4>1 DEF Bound
    <3> QED
      BY <2>5, <3>2, <3>3, <3>4, PostTypes
  <2>6. CASE Relookup(w)
    BY <1>3, <2>6, RelookupTypes
  <2>7. CASE Bind(w)
    <3>1. /\ Holds(w) /\ stage' = "mark" /\ row'[Fp(w)].reserved = "none" /\ \A f \in Fps \ {Fp(w)} : row'[f] = row[f]
      BY <2>7, BindTypes
    <3> QED
      BY <1>3, <2>2, <3>1, HoldsFacts DEF Bound
  <2>8. CASE Reopen(w) \/ Comment(w) \/ Mark(w)
    <3>1. /\ lock = w /\ stage \in {"reopen", "comment", "mark"} /\ stage' \in {"mark", "free"} /\ mode' = mode
          /\ \A f \in Fps \ {Fp(w)} : row'[f] = row[f]
          /\ UNCHANGED row \/ (row'[Fp(w)].ticket = snap.ticket /\ Bound(snap))
      <4>1. CASE Reopen(w)
        BY <4>1, ReopenTypes, HoldsFacts, RaiseFacts
      <4>2. CASE Mark(w)
        BY <4>2, MarkTypes DEF queueVars, Mark
      <4>3. CASE Comment(w)
        BY <4>3, CommentTypes, HoldsFacts, RaiseFacts, Given DEF HeldInv
      <4> QED
        BY <2>8, <4>1, <4>2, <4>3
    <3> QED
      BY <1>3, <2>2, <3>1 DEF Bound
  <2> QED
    BY <1>5, <2>1, <2>3, <2>4, <2>5, <2>6, <2>7, <2>8 DEF HandleEvent
<1>6. ASSUME NEW f \in Fps, Land(f) \/ SweepClose(f) PROVE Goal
  BY <1>4, <1>6, LandTypes, CloseTypes, StandsFacts DEF dbVars
<1>7. ASSUME NEW f \in Fps, ReservationAges(f) \/ SweepSave(f) PROVE Goal
  <2>1. /\ mode' = mode /\ UNCHANGED <<lock, stage>> /\ Fp(lock)' = Fp(lock)
        /\ \A g \in Fps \ {f} : row'[g] = row[g]
    BY <1>7, AgeTypes, SweepSaveTypes, StandsFacts
  <2>2. ReservationAges(f) => row[f].reserved = "fresh" /\ row'[f].ticket = row[f].ticket /\ (lock # NoWorker => Fp(lock) # f)
    BY AgeTypes
  <2>3. SweepSave(f) => Bound(row[f]) /\ row'[f].ticket = row[f].ticket
    BY SweepSaveTypes DEF SweepInv
  <2> QED
    BY <1>3, <1>7, <2>1, <2>2, <2>3 DEF Bound
<1>8. CASE SweepRead
  BY <1>4, <1>8, ReadTypes, StandsFacts DEF dbVars
<1>9. CASE Crash
  BY <1>9, CrashTypes
<1>10. CASE Recover
  <2>1. /\ lock = NoWorker /\ UNCHANGED stage
        /\ \A f \in Fps : \/ row'[f] = row[f] /\ (Bound(row[f]) \/ row[f].reserved = "none")
                         \/ row'[f].reserved = "none"
    BY <1>10, RecoverTypes DEF holderVars
  <2> QED
    BY <1>3, <2>1 DEF Bound
<1> QED
  BY <1>4, <1>5, <1>6, <1>7, <1>8, <1>9, <1>10, Steps, AroundFacts DEF dbVars, holderVars

\* Only the first claim of an event counts, and it counts one occurrence of its fingerprint.
LEMMA CountKept ==
    ASSUME Types, QueueInv, QueueInv', HeldInv, SweepInv, CountInv, [Next]_vars
    PROVE  CountInv'
<1> DEFINE Of(C, f) == {e \in C : FpOf[e] = f}
<1>1. ASSUME sweep'.passes = sweep.passes, counted' = counted,
             sweep.passes = 0 => \A f \in Fps : row'[f].occ = row[f].occ
      PROVE  CountInv'
  BY <1>1 DEF CountInv, CountExact
<1>2. ASSUME NEW w \in Workers, ClaimEvent(w) PROVE CountInv'
  <2>1. /\ Fp(w) \in Fps /\ Event(w) \in Events /\ FpOf[Event(w)] = Fp(w) /\ counted' = counted \cup {Event(w)}
        /\ row'[Fp(w)].occ = row[Fp(w)].occ + (IF Event(w) \in counted THEN 0 ELSE 1)
        /\ \A f \in Fps \ {Fp(w)} : row'[f] = row[f]
        /\ sweep' = sweep
    BY <1>2, ClaimTypes DEF Fp
  <2>2. \A f \in Fps : IsFiniteSet(Of(counted, f))
    <3>1. IsFiniteSet(counted)
      BY DEF Types
    <3> QED
      BY <3>1, FS_Subset
  <2>3. SUFFICES ASSUME sweep.passes = 0, NEW f \in Fps PROVE row'[f].occ = Cardinality(Of(counted', f))
    BY <2>1 DEF CountInv, CountExact
  <2>4. row[f].occ = Cardinality(Of(counted, f)) /\ row[f] \in Rows
    BY <2>3 DEF CountInv, CountExact, Types, TypeOK
  <2>5. CASE f = Fp(w) /\ Event(w) \notin counted
    <3>1. Of(counted', f) = Of(counted, f) \cup {Event(w)} /\ Event(w) \notin Of(counted, f)
      BY <2>1, <2>5
    <3>2. Cardinality(Of(counted', f)) = Cardinality(Of(counted, f)) + 1
      BY <2>2, <3>1, FS_AddElement
    <3> QED
      BY <2>1, <2>4, <2>5, <3>2
  <2>6. CASE f # Fp(w) \/ Event(w) \in counted
    <3>1. Of(counted', f) = Of(counted, f)
      BY <2>1, <2>6
    <3>2. row'[f].occ = row[f].occ
      BY <2>1, <2>4, <2>6, RowFields
    <3> QED
      BY <2>4, <3>1, <3>2
  <2> QED
    BY <2>5, <2>6
<1>3. ASSUME NEW w \in Workers, lock = w, UNCHANGED <<sweep, counted>>, row'[Fp(w)].occ = snap.occ,
             \A f \in Fps \ {Fp(w)} : row'[f] = row[f]
      PROVE  CountInv'
  <2>1. Fp(w) \in Fps /\ (sweep.passes = 0 => snap = row[Fp(w)])
    BY <1>3, HolderTypes, Given DEF HeldInv
  <2> QED
    BY <1>1, <1>3, <2>1
<1>4. ASSUME UNCHANGED <<row, counted>>, sweep'.passes = sweep.passes PROVE CountInv'
  BY <1>1, <1>4
<1>5. ASSUME NEW w \in Workers, HandleEvent(w) PROVE CountInv'
  <2>1. CASE LookupReservation(w) \/ Bind(w)
    BY <1>3, <2>1, LookupTypes, BindTypes, HoldsFacts
  <2>2. CASE Decide(w)
    BY <1>3, <1>4, <2>2, DecideTypes, HoldsFacts
  <2>3. CASE Post(w)
    BY <1>3, <1>4, <2>3, PostTypes
  <2>4. CASE Comment(w)
    BY <1>3, <1>4, <2>4, CommentTypes, HoldsFacts
  <2>5. CASE Relookup(w) \/ Reopen(w) \/ Mark(w)
    BY <1>4, <2>5, RelookupTypes, ReopenTypes, MarkTypes
  <2> QED
    BY <1>2, <1>5, <2>1, <2>2, <2>3, <2>4, <2>5 DEF HandleEvent
<1>6. ASSUME NEW f \in Fps, Land(f) \/ SweepClose(f) PROVE CountInv'
  BY <1>4, <1>6, LandTypes, CloseTypes DEF dbVars
<1>7. ASSUME NEW f \in Fps, ReservationAges(f) PROVE CountInv'
  BY <1>1, <1>7, AgeTypes
<1>8. ASSUME NEW f \in Fps, SweepSave(f) PROVE CountInv'
  <2>1. sweep.passes # 0 /\ sweep'.passes = sweep.passes
    BY <1>8, SweepSaveTypes DEF SweepInv
  <2> QED
    BY <2>1 DEF CountInv
<1>9. CASE SweepRead
  <2>1. sweep'.passes # 0
    BY <1>9, ReadTypes, SweepTypes DEF Types
  <2> QED
    BY <2>1 DEF CountInv
<1>10. CASE Crash
  BY <1>4, <1>10, CrashTypes DEF dbVars
<1>11. CASE Recover
  <2>1. UNCHANGED <<counted, sweep>> /\ \A f \in Fps : row'[f].occ = row[f].occ
    BY <1>11, RecoverTypes
  <2> QED
    BY <1>1, <2>1
<1> QED
  BY <1>4, <1>5, <1>6, <1>7, <1>8, <1>9, <1>10, <1>11, Steps, AroundFacts DEF dbVars

\* It is a number.
LEMMA CreatedTypes ==
    ASSUME Types, NEW f \in Fps
    PROVE  /\ Created(f) \in Nat /\ Cardinality(IssuesOf(f)) \in Nat /\ inflight[f] \in Nat
BY IssueTypes, FS_CardinalityType DEF Created, Types, TypeOK

\* One more issue of its fingerprint.
LEMMA CreatedLands ==
    ASSUME Types, NEW f \in Fps, Lands(f)
    PROVE  /\ Cardinality(IssuesOf(f))' = Cardinality(IssuesOf(f)) + 1
           /\ \A g \in Fps \ {f} : Cardinality(IssuesOf(g))' = Cardinality(IssuesOf(g))
<1>1. /\ IsFiniteSet(IssuesOf(f)) /\ Len(issues) + 1 \notin IssuesOf(f)
      /\ IssuesOf(f)' = IssuesOf(f) \cup {Len(issues) + 1}
      /\ \A g \in Fps \ {f} : IssuesOf(g)' = IssuesOf(g)
  BY LandsTypes, IssueTypes DEF Types
<1>2. Cardinality(IssuesOf(f) \cup {Len(issues) + 1}) = Cardinality(IssuesOf(f)) + 1
  BY <1>1, FS_AddElement
<1> QED
  BY <1>1, <1>2

\* Around the holder a late landing only turns what was under way into an issue.
LEMMA CreatedAround ==
    ASSUME Types, QueueInv, QueueInv', NEW f \in Fps,
           \/ UNCHANGED vars
           \/ \E d \in IngestIds : Ingest(d)
           \/ \E w \in Workers : Poll(w) \/ ClaimDelivery(w) \/ BatchDone(w) \/ Settle(w)
           \/ \E g \in Fps : Land(g) \/ ReservationAges(g) \/ SweepClose(g) \/ SweepSave(g)
           \/ SweepRead \/ Crash \/ Recover
    PROVE  Created(f)' = Created(f)
<1>1. Created(f) \in Nat /\ Cardinality(IssuesOf(f)) \in Nat /\ inflight[f] \in Nat
  BY CreatedTypes
<1>2. ASSUME UNCHANGED <<issues, inflight>> PROVE Created(f)' = Created(f)
  BY <1>2 DEF Created, IssuesOf
<1>3. ASSUME NEW g \in Fps, Land(g) PROVE Created(f)' = Created(f)
  <2>1. Lands(g) /\ inflight[g] > 0 /\ inflight'[g] = inflight[g] - 1 /\ \A h \in Fps \ {g} : inflight'[h] = inflight[h]
    BY <1>3, LandTypes
  <2>2. Cardinality(IssuesOf(f))' = Cardinality(IssuesOf(f)) + (IF f = g THEN 1 ELSE 0)
    BY <1>1, <2>1, CreatedLands
  <2> QED
    BY <1>1, <2>1, <2>2 DEF Created
<1>4. ASSUME NEW g \in Fps, SweepClose(g) PROVE Created(f)' = Created(f)
  <2>1. CASE UNCHANGED issues
    BY <1>2, <1>4, <2>1, CloseTypes
  <2>2. CASE issues' = [issues EXCEPT ![sweep.rows[g].ticket].open = FALSE]
    <3>1. IssuesOf(f)' = IssuesOf(f) /\ inflight' = inflight
      BY <1>4, <2>2, SetOpenTypes, CloseTypes DEF Types
    <3> QED
      BY <3>1 DEF Created
  <2> QED
    BY <1>4, <2>1, <2>2, CloseTypes
<1>5. ASSUME NEW g \in Fps, ReservationAges(g) \/ SweepSave(g) PROVE Created(f)' = Created(f)
  BY <1>2, <1>5, AgeTypes, SweepSaveTypes DEF forgeVars
<1>6. CASE SweepRead \/ Crash \/ Recover
  BY <1>2, <1>6, ReadTypes, CrashTypes, RecoverTypes DEF forgeVars
<1> QED
  BY <1>2, <1>3, <1>4, <1>5, <1>6, AroundFacts DEF forgeVars

\* Only a POST adds one.
LEMMA CreatedSteps ==
    ASSUME Types, QueueInv, QueueInv', [Next]_vars, NEW f \in Fps
    PROVE  \/ Created(f)' = Created(f)
           \/ Created(f)' = Created(f) + 1 /\ \E w \in Workers : Post(w) /\ Holds(w) /\ f = Fp(w)
<1>1. Created(f) \in Nat /\ Cardinality(IssuesOf(f)) \in Nat /\ inflight[f] \in Nat
  BY CreatedTypes
<1>2. ASSUME UNCHANGED <<issues, inflight>> PROVE Created(f)' = Created(f)
  BY <1>2 DEF Created, IssuesOf
<1>3. ASSUME UNCHANGED inflight, NEW n, NEW b \in BOOLEAN, issues' = [issues EXCEPT ![n].open = b]
      PROVE  Created(f)' = Created(f)
  <2>1. IssuesOf(f)' = IssuesOf(f)
    BY <1>3, SetOpenTypes DEF Types
  <2> QED
    BY <1>3, <2>1 DEF Created
<1>4. ASSUME NEW w \in Workers, Post(w)
      PROVE  \/ Created(f)' = Created(f)
             \/ Created(f)' = Created(f) + 1 /\ Holds(w) /\ f = Fp(w)
  <2>1. Fp(w) \in Fps
    BY <1>4, PostTypes, HolderTypes, Given
  <2>2. CASE Lands(Fp(w)) /\ UNCHANGED inflight /\ Holds(w)
    <3>1. Cardinality(IssuesOf(f))' = Cardinality(IssuesOf(f)) + (IF f = Fp(w) THEN 1 ELSE 0)
      <4>1. \A g \in Fps : Lands(g) => Cardinality(IssuesOf(f))' = Cardinality(IssuesOf(f)) + (IF f = g THEN 1 ELSE 0)
        BY <1>1, CreatedLands
      <4> QED
        BY <2>1, <2>2, <4>1
    <3> QED
      BY <1>1, <2>2, <3>1 DEF Created
  <2>3. CASE inflight' = [inflight EXCEPT ![Fp(w)] = inflight[Fp(w)] + 1] /\ UNCHANGED issues /\ Holds(w)
    <3>1. inflight'[f] = inflight[f] + (IF f = Fp(w) THEN 1 ELSE 0)
      BY <1>1, <2>1, <2>3 DEF Types, TypeOK
    <3>2. IssuesOf(f)' = IssuesOf(f)
      BY <2>3 DEF IssuesOf
    <3> QED
      BY <1>1, <2>3, <3>1, <3>2 DEF Created
  <2> QED
    BY <1>2, <1>4, <2>2, <2>3, PostTypes
<1>5. ASSUME NEW w \in Workers, HandleEvent(w), ~Post(w) PROVE Created(f)' = Created(f)
  <2>1. CASE ClaimEvent(w) \/ LookupReservation(w) \/ Decide(w) \/ Relookup(w)
    BY <1>2, <2>1, ClaimTypes, LookupTypes, DecideTypes, RelookupTypes DEF forgeVars
  <2>2. CASE Bind(w) \/ Comment(w) \/ Mark(w)
    BY <1>2, <2>2, BindTypes, CommentTypes, MarkTypes DEF forgeVars
  <2>3. CASE Reopen(w)
    BY <1>2, <1>3, <2>3, ReopenTypes
  <2> QED
    BY <1>5, <2>1, <2>2, <2>3 DEF HandleEvent
<1> QED
  BY <1>4, <1>5, Steps, CreatedAround

\* A fingerprint that has no issue and no creation under way.
LEMMA CreatedNone ==
    ASSUME TypeOK, TicketInv, NEW f \in Fps, ~Bound(row[f]), row[f].reserved = "stale", Findable(f) = {}
    PROVE  Created(f) = 0
<1>1. IssuesOf(f) = {} /\ inflight[f] = 0
  BY DEF TicketInv, Findable
<1> QED
  BY <1>1, FS_EmptySet DEF Created

\* Every further issue has its excuse.
LEMMA TwinKept ==
    ASSUME Types, QueueInv, QueueInv', HeldInv, SweepInv, TicketInv, TwinInv, [Next]_vars
    PROVE  TwinInv'
<1>1. SUFFICES ASSUME ~Observe, NEW f \in Fps
               PROVE  Created(f)' <= 1 + Price' /\ (Excused(f)' => Created(f)' <= Price')
  BY DEF TwinInv
<1>2. Created(f) <= 1 + Price /\ (Excused(f) => Created(f) <= Price)
  BY <1>1 DEF TwinInv
<1>3. /\ Created(f) \in Nat /\ Price \in Nat /\ Price' \in Nat /\ Price <= Price'
  <2>1. /\ restarts \in Nat /\ restarts' \in Nat /\ restarts <= restarts'
        /\ mishaps["lookup"] \in Nat /\ mishaps'["lookup"] \in Nat /\ mishaps["lookup"] <= mishaps'["lookup"]
        /\ mishaps["server"] \in Nat /\ mishaps'["server"] \in Nat /\ mishaps["server"] <= mishaps'["server"]
    BY MishapSteps DEF MishapKinds
  <2> QED
    BY <2>1, CreatedTypes DEF Price
<1> DEFINE Goal == Created(f)' <= 1 + Price' /\ (Excused(f)' => Created(f)' <= Price')
<1>4. ASSUME Created(f)' = Created(f), Excused(f)' => Excused(f) \/ Created(f) <= Price' PROVE Goal
  BY <1>2, <1>3, <1>4
<1>5. ASSUME \A w \in Workers : ~Post(w) PROVE Created(f)' = Created(f)
  BY <1>5, CreatedSteps
<1>6. ASSUME NEW k \in {"lookup", "server"}, Mishap(k), restarts' = restarts PROVE Price' = Price + 1
  <2>1. /\ mishaps'[k] = mishaps[k] + 1 /\ \A j \in MishapKinds \ {k} : mishaps'[j] = mishaps[j]
    BY <1>6, MishapTypes DEF MishapKinds, Types
  <2>2. mishaps["lookup"] \in Nat /\ mishaps["server"] \in Nat /\ restarts \in Nat
    BY MishapSteps DEF MishapKinds
  <2> QED
    BY <1>6, <2>1, <2>2 DEF Price, MishapKinds
\* Whoever holds the lock, but not at its POST, has excused nothing by being there.
<1>7. ASSUME mode' = mode, \A w \in Workers : ~Post(w), lock' # NoWorker => stage' # "post",
             row'[f] = row[f] \/ Recounted(f) \/ Bound(row'[f])
      PROVE  Goal
  <2>1. Excused(f)' => Excused(f)
    BY <1>7 DEF Excused, Recounted, Bound
  <2> QED
    BY <1>4, <1>5, <1>7, <2>1
<1>8. ASSUME NEW w \in Workers, lock = w
      PROVE  /\ Fp(w) \in Fps /\ mode = "up" /\ snap.ticket = row[Fp(w)].ticket /\ (~Bound(snap) => snap = row[Fp(w)])
             /\ (stage = "lookup" => NeedsLookup(snap))
             /\ (stage \in {"post", "relookup", "bind"} =>
                    ~Bound(snap) /\ snap.reserved = "fresh" /\ snap.state = "queued-rca")
             /\ (stage \in {"reopen", "comment"} => Bound(snap))
             /\ (stage = "bind" => ref \in DOMAIN issues)
  BY <1>1, <1>8, HolderTypes, Given DEF HeldInv
<1>9. 0 \notin DOMAIN issues
  BY IssueTypes DEF Types
<1>10. ASSUME NEW w \in Workers, Post(w) PROVE Goal
  <2>1. lock = w /\ stage = "post" /\ w # NoWorker
    BY <1>10, PostTypes, Given
  <2>2. Fp(w) \in Fps /\ mode = "up" /\ snap = row[Fp(w)] /\ snap.reserved = "fresh" /\ snap.state = "queued-rca"
    BY <1>8, <2>1
  <2>3. f = Fp(w) => Created(f) <= Price
    BY <1>2, <2>1 DEF Excused
  <2>4. Created(f)' = Created(f) \/ (Created(f)' = Created(f) + 1 /\ Holds(w) /\ f = Fp(w))
    <3>1. \A v \in Workers : Post(v) => v = w
      BY <2>1 DEF Post
    <3> QED
      BY <3>1, CreatedSteps
  <2>5. CASE Holds(w) /\ stage' \in {"bind", "relookup"} /\ UNCHANGED row
    <3>1. Fp(lock)' = Fp(w) /\ mode' = mode /\ lock' = w
      BY <2>5, HoldsFacts
    <3>2. f = Fp(w) => ~Excused(f)'
      BY <2>2, <2>5, <3>1 DEF Excused
    <3>3. f # Fp(w) => (Excused(f)' => Excused(f))
      BY <2>5, <3>1 DEF Excused, Bound
    <3> QED
      BY <1>2, <1>3, <2>3, <2>4, <3>2, <3>3
  <2>6. CASE Holds(w) /\ Mishap("server") /\ UNCHANGED row /\ stage' \in {"post", "relookup"}
    <3>1. Fp(lock)' = Fp(w) /\ mode' = mode /\ lock' = w /\ restarts' = restarts
      BY <2>6, HoldsFacts
    <3>2. Price' = Price + 1
      BY <1>6, <2>6, <3>1
    <3>3. f # Fp(w) => (Excused(f)' => Excused(f))
      BY <2>6, <3>1 DEF Excused, Bound
    <3> QED
      BY <1>2, <1>3, <2>3, <2>4, <3>2, <3>3
  <2>7. CASE Raise(w) /\ UNCHANGED <<issues, inflight>> /\ \A g \in Fps \ {Fp(w)} : row'[g] = row[g]
    <3>1. lock' = NoWorker /\ mode' = mode
      BY <2>7, RaiseFacts
    <3>2. Created(f)' = Created(f)
      BY <2>7 DEF Created, IssuesOf
    <3>3. f # Fp(w) => (Excused(f)' => Excused(f))
      BY <2>7, <3>1 DEF Excused, Bound
    <3> QED
      BY <1>2, <1>3, <2>3, <3>2, <3>3
  <2> QED
    BY <1>10, <2>5, <2>6, <2>7, PostTypes
<1>11. ASSUME NEW w \in Workers, LookupReservation(w) PROVE Goal
  <2>1. /\ Holds(w) /\ lock = w /\ stage = "lookup" /\ stage' = "decide" /\ mode' = mode /\ restarts' = restarts
        /\ \A g \in Fps \ {Fp(w)} : row'[g] = row[g]
        /\ \/ row'[Fp(w)].ticket \in Findable(Fp(w))
           \/ LookupFails(Fp(w))
    BY <1>11, LookupTypes, HoldsFacts
  <2>2. \A v \in Workers : ~Post(v)
    BY <2>1 DEF Post
  <2>3. CASE f # Fp(w)
    BY <1>7, <2>1, <2>2, <2>3
  <2>4. CASE row'[Fp(w)].ticket \in Findable(Fp(w)) /\ f = Fp(w)
    <3>1. Bound(row'[f])
      BY <1>9, <2>4 DEF Findable, IssuesOf, Bound
    <3> QED
      BY <1>7, <2>1, <2>2, <3>1
  <2>5. CASE f = Fp(w) /\ Findable(f) = {}
    <3>1. ~Bound(row[f]) /\ row[f].reserved = "stale"
      BY <1>8, <2>1, <2>5 DEF NeedsLookup
    <3>2. Created(f) = 0
      BY <2>5, <3>1, CreatedNone DEF Types
    <3> QED
      BY <1>3, <1>4, <1>5, <2>2, <3>2
  <2>6. CASE Mishap("lookup")
    <3>1. Price' = Price + 1
      BY <1>6, <2>1, <2>6
    <3> QED
      BY <1>2, <1>3, <1>4, <1>5, <2>2, <3>1
  <2> QED
    BY <2>1, <2>3, <2>4, <2>5, <2>6 DEF LookupFails
<1>12. ASSUME NEW w \in Workers, Decide(w) PROVE Goal
  <2>1. /\ Holds(w) /\ lock = w /\ lock' = w /\ stage = "decide" /\ mode' = mode /\ Fp(lock)' = Fp(w)
        /\ \A g \in Fps \ {Fp(w)} : row'[g] = row[g]
        /\ \/ stage' \in {"mark", "comment"} /\ UNCHANGED row
           \/ stage' = "post" /\ ~Bound(snap) /\ snap.state \notin BusyStates
           \/ stage' = "reopen" /\ Bound(snap) /\ row'[Fp(w)].ticket = snap.ticket
    BY <1>12, DecideTypes, HoldsFacts
  <2>2. \A v \in Workers : ~Post(v)
    BY <2>1 DEF Post
  <2>3. CASE stage' = "post" /\ ~Bound(snap) /\ snap.state \notin BusyStates
    <3>1. f = Fp(w) => Excused(f)
      BY <1>8, <2>1, <2>3 DEF Excused, BusyStates
    <3>2. f # Fp(w) => (Excused(f)' => Excused(f))
      BY <2>1 DEF Excused, Bound
    <3> QED
      BY <1>4, <1>5, <2>2, <3>1, <3>2
  <2>4. CASE stage' # "post"
    <3>1. row'[f] = row[f] \/ Bound(row'[f])
      BY <2>1, <2>4 DEF Bound
    <3> QED
      BY <1>7, <2>1, <2>2, <2>4, <3>1
  <2> QED
    BY <2>1, <2>3, <2>4
<1>13. ASSUME NEW w \in Workers, HandleEvent(w), ~Post(w) PROVE Goal
  <2>1. CASE ClaimEvent(w)
    <3>1. /\ lock = NoWorker /\ mode' = mode /\ (stage' \in {"lookup", "decide"} \/ lock' = NoWorker)
          /\ row'[f] = row[f] \/ Recounted(f)
      BY <2>1, ClaimTypes DEF holderVars, queueVars, Recounted
    <3>2. \A v \in Workers : ~Post(v)
      BY <3>1, Given DEF Post
    <3> QED
      BY <1>7, <3>1, <3>2
  <2>2. CASE Relookup(w) \/ Reopen(w) \/ Mark(w)
    <3>1. /\ lock = w /\ stage \in {"relookup", "reopen", "mark"} /\ stage' # "post" /\ mode' = mode /\ UNCHANGED row
      <4>1. CASE Relookup(w)
        BY <4>1, RelookupTypes, HoldsFacts, RaiseFacts
      <4>2. CASE Reopen(w)
        BY <4>2, ReopenTypes, HoldsFacts, RaiseFacts
      <4>3. CASE Mark(w)
        BY <4>3, MarkTypes DEF Mark, queueVars
      <4> QED
        BY <2>2, <4>1, <4>2, <4>3
    <3>2. \A v \in Workers : ~Post(v)
      BY <3>1 DEF Post
    <3> QED
      BY <1>7, <3>1, <3>2
  <2>3. CASE Bind(w)
    <3>1. /\ lock = w /\ stage = "bind" /\ stage' = "mark" /\ mode' = mode /\ row'[Fp(w)].ticket = ref
          /\ \A g \in Fps \ {Fp(w)} : row'[g] = row[g]
      BY <2>3, BindTypes, HoldsFacts
    <3>2. row'[f] = row[f] \/ Bound(row'[f])
      BY <1>8, <1>9, <3>1 DEF Bound
    <3>3. \A v \in Workers : ~Post(v)
      BY <3>1 DEF Post
    <3> QED
      BY <1>7, <3>1, <3>2, <3>3
  <2>4. CASE Comment(w)
    <3>1. /\ lock = w /\ stage = "comment" /\ stage' # "post" /\ mode' = mode
          /\ UNCHANGED row \/ (row'[Fp(w)].ticket = snap.ticket /\ \A g \in Fps \ {Fp(w)} : row'[g] = row[g])
      BY <2>4, CommentTypes, HoldsFacts, RaiseFacts
    <3>2. row'[f] = row[f] \/ Bound(row'[f])
      BY <1>8, <3>1 DEF Bound
    <3>3. \A v \in Workers : ~Post(v)
      BY <3>1 DEF Post
    <3> QED
      BY <1>7, <3>1, <3>2, <3>3
  <2> QED
    BY <1>11, <1>12, <1>13, <2>1, <2>2, <2>3, <2>4 DEF HandleEvent
<1>14. ASSUME UNCHANGED <<lock, stage, mode>>, lock # NoWorker => Fp(lock)' = Fp(lock),
              Created(f)' = Created(f), row'[f] = row[f] \/ Aged(f) \/ Bound(row'[f])
       PROVE  Goal
  <2>1. Excused(f)' => Excused(f)
    BY <1>14 DEF Excused, Aged, Bound
  <2> QED
    BY <1>4, <1>14, <2>1
<1>15. ASSUME NEW g \in Fps, Land(g) \/ ReservationAges(g) \/ SweepClose(g) \/ SweepSave(g) PROVE Goal
  <2>1. UNCHANGED <<lock, stage, mode>> /\ Fp(lock)' = Fp(lock)
    BY <1>15, LandTypes, AgeTypes, CloseTypes, SweepSaveTypes, StandsFacts
  <2>2. row'[f] = row[f] \/ Aged(f) \/ Bound(row'[f])
    <3>1. CASE Land(g) \/ SweepClose(g)
      BY <3>1, LandTypes, CloseTypes DEF dbVars
    <3>2. CASE ReservationAges(g)
      BY <3>2, AgeTypes DEF Aged
    <3>3. CASE SweepSave(g)
      BY <3>3, SweepSaveTypes DEF SweepInv, Bound
    <3> QED
      BY <1>15, <3>1, <3>2, <3>3
  <2> QED
    BY <1>14, <1>15, <2>1, <2>2, CreatedAround
<1>16. CASE SweepRead
  BY <1>14, <1>16, CreatedAround, ReadTypes, StandsFacts DEF dbVars
<1>17. CASE Crash
  <2>1. Price' = Price + 1
    <3>1. restarts' = restarts + 1 /\ mishaps' = mishaps
      BY <1>17, CrashTypes DEF forgeVars
    <3>2. mishaps["lookup"] \in Nat /\ mishaps["server"] \in Nat /\ restarts \in Nat
      BY MishapSteps DEF MishapKinds
    <3> QED
      BY <3>1, <3>2 DEF Price
  <2> QED
    BY <1>2, <1>3, <1>17, <2>1, CreatedAround
<1>18. CASE Recover
  <2>1. Excused(f)
    BY <1>18, RecoverTypes DEF Excused
  <2> QED
    BY <1>4, <1>18, <2>1, CreatedAround
<1>19. ASSUME UNCHANGED vars \/ (\E d \in IngestIds : Ingest(d))
                 \/ (\E w \in Workers : Poll(w) \/ ClaimDelivery(w) \/ BatchDone(w) \/ Settle(w))
       PROVE  Goal
  BY <1>14, <1>19, CreatedAround, AroundFacts DEF dbVars, holderVars
<1> QED
  BY <1>10, <1>13, <1>15, <1>16, <1>17, <1>18, <1>19, Steps

-------------------------------------------------------------------------------
(* The theorems                                                                *)

\* The invariant holds at first.
LEMMA InitIInv == Init => IInv
<1> SUFFICES ASSUME Init PROVE IInv
  OBVIOUS
<1>1. /\ row = [f \in Fps |-> NewRow] /\ counted = {} /\ dispatched = {} /\ pos = [w \in Workers |-> 1]
      /\ lock = NoWorker /\ stage = "free" /\ snap = NewRow /\ ref = 0 /\ creates = 0 /\ issues = <<>>
      /\ inflight = [f \in Fps |-> 0] /\ mishaps = [k \in MishapKinds |-> 0] /\ sweep = NoSweep
  BY DEF Init
<1>2. /\ mode = "up" /\ pc = [t \in Q!Threads |-> "idle"] /\ state = [d \in Q!Deliveries |-> "absent"]
      /\ restarts = 0
  BY DEF Init, Q!Init
<1>3. QueueInv
  BY QueueAssumption DEF Init, Q!Init, QueueInv, Q!TypeOK, Q!OneOwner, Q!Holding, Q!BudgetExact, Q!RowStates,
     Q!WorkerPcs, Q!RequestPcs, Q!Threads
<1>4. /\ NewRow \in Rows /\ NewRow.ticket = 0 /\ NewRow.occ = 0 /\ NewRow.reserved = "none" /\ NewRow.state = "new"
      /\ NoSweep \in Sweeps
  BY NewTypes
<1>5. NoSweep.todo = {} /\ NoSweep.closing = {} /\ NoSweep.passes = 0
  BY DEF NoSweep
<1>6. <<>> \in Seq(Issues) /\ DOMAIN <<>> = {}
  OBVIOUS
<1>7. Types
  BY <1>1, <1>3, <1>4, <1>5, <1>6, FS_EmptySet DEF Types, TypeOK, QueueInv, HolderInv, Stages
<1>8. BatchInv
  BY <1>2 DEF BatchInv, CompletedIsDispatched, Q!Threads, Q!Deliveries
<1>9. HeldInv /\ SweepInv
  BY <1>1, <1>5 DEF HeldInv, SweepInv
<1>10. \A f \in Fps : row[f] = NewRow /\ inflight[f] = 0 /\ IssuesOf(f) = {}
  BY <1>1, <1>6 DEF IssuesOf
<1>11. TicketInv
  BY <1>4, <1>10 DEF TicketInv, BoundTicketIsOwn, Bound
<1>12. ReservedInv
  BY <1>1, <1>4, <1>10 DEF ReservedInv, ReservationIsOwned
<1>13. CountInv
  <2>1. Cardinality({}) = 0
    BY FS_EmptySet
  <2>2. \A f \in Fps : {e \in counted : FpOf[e] = f} = {}
    BY <1>1
  <2> QED
    BY <1>4, <1>10, <2>1, <2>2 DEF CountInv, CountExact
<1>14. TwinInv
  <2>1. \A f \in Fps : Created(f) = 0
    <3>1. Cardinality({}) = 0
      BY FS_EmptySet
    <3> QED
      BY <1>10, <3>1 DEF Created
  <2>2. Price = 0
    BY <1>1, <1>2 DEF Price, MishapKinds
  <2> QED
    BY <2>1, <2>2 DEF TwinInv
<1> QED
  BY <1>3, <1>7, <1>8, <1>9, <1>11, <1>12, <1>13, <1>14 DEF IInv

\* The invariant is inductive.
THEOREM Invariance == Spec => []IInv
<1>1. ASSUME IInv, [Next]_vars PROVE IInv'
  <2>1. /\ QueueInv /\ Types /\ BatchInv /\ HeldInv /\ SweepInv /\ TicketInv /\ ReservedInv /\ CountInv /\ TwinInv
    BY <1>1 DEF IInv
  <2>2. QueueInv'
    BY <1>1, <2>1, QueueKept
  <2>3. Types' /\ BatchInv' /\ HeldInv' /\ SweepInv'
    BY <1>1, <2>1, <2>2, TypesKept, BatchKept, HeldKept, SweepKept
  <2>4. TicketInv' /\ ReservedInv' /\ CountInv' /\ TwinInv'
    BY <1>1, <2>1, <2>2, TicketKept, ReservedKept, CountKept, TwinKept
  <2> QED
    BY <2>2, <2>3, <2>4 DEF IInv
<1> QED
  BY <1>1, InitIInv, PTL DEF Spec

\* Every variable keeps to its type.
THEOREM TypeCorrect == Spec => []TypeOK
<1>1. IInv => TypeOK
  BY DEF IInv, Types
<1> QED
  BY <1>1, Invariance, PTL

\* A completed delivery has had the policy applied to each of its events.
THEOREM CompletedDispatched == Spec => []CompletedIsDispatched
<1>1. IInv => CompletedIsDispatched
  BY DEF IInv, BatchInv
<1> QED
  BY <1>1, Invariance, PTL

\* A bound ticket is an issue of the fingerprint's own, however it was found.
THEOREM TicketsAreOwn == Spec => []BoundTicketIsOwn
<1>1. IInv => BoundTicketIsOwn
  BY DEF IInv, TicketInv
<1> QED
  BY <1>1, Invariance, PTL

\* A binding is final, across the whole-row saves of the pipeline, the sweep and recovery.
THEOREM TicketsAreKept == Spec => TicketIsKept
<1>1. ASSUME IInv, IInv', [Next]_vars PROVE \A f \in Fps : Bound(row[f]) => row'[f].ticket = row[f].ticket
  BY <1>1, RowSteps, TicketsStay DEF IInv
<1>2. IInv /\ IInv' /\ [Next]_vars => [\A f \in Fps : Bound(row[f]) => row'[f].ticket = row[f].ticket]_vars
  BY <1>1
<1> QED
  BY <1>2, Invariance, PTL DEF Spec, TicketIsKept

\* A ticketless reservation has an owner while no creation failed ambiguously.
THEOREM ReservationsAreOwned == Spec => []ReservationIsOwned
<1>1. IInv => ReservationIsOwned
  BY DEF IInv, ReservedInv
<1> QED
  BY <1>1, Invariance, PTL

\* Occurrences are exact in every behaviour in which the sweep has written no row yet; there
\* the count is kept by the pipeline's own saves, its retries and every recovery.
THEOREM CountsAreExact == Spec => [](sweep.passes = 0 => CountExact)
<1>1. IInv => (sweep.passes = 0 => CountExact)
  BY DEF IInv, CountInv
<1> QED
  BY <1>1, Invariance, PTL

\* Every issue beyond a fingerprint's first has its excuse, with any number of failures.
THEOREM TwinsAreExplained == Spec => []TwinsExplained
<1>1. ASSUME IInv PROVE TwinsExplained
  <2>1. SUFFICES ASSUME ~Observe, NEW f \in Fps
                 PROVE  Cardinality(IssuesOf(f)) + inflight[f] <= 1 + restarts + mishaps["lookup"] + mishaps["server"]
    BY DEF TwinsExplained
  <2>2. Created(f) <= 1 + Price
    BY <1>1, <2>1 DEF IInv, TwinInv
  <2>3. restarts \in Nat /\ mishaps["lookup"] \in Nat /\ mishaps["server"] \in Nat
    BY <1>1 DEF IInv, QueueInv, Q!TypeOK, Types, TypeOK, MishapKinds
  <2>4. Created(f) \in Nat
    BY <1>1, <2>1, CreatedTypes DEF IInv
  <2> QED
    BY <2>2, <2>3, <2>4 DEF Created, Price
<1> QED
  BY <1>1, Invariance, PTL
===============================================================================
