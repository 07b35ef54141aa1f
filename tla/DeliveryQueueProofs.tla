------------------------- MODULE DeliveryQueueProofs --------------------------
(* Safety of the delivery table for any number of deliveries, workers,        *)
(* requests, attempts, restarts and storage faults.                           *)
EXTENDS DeliveryQueue, TLAPS

USE AttemptsAssumption, NoDeliveryAssumption, ThreadsAssumption DEF Threads

\* The first state satisfies the inductive invariant.
LEMMA InitIInv == Init => IInv
<1> SUFFICES ASSUME Init PROVE IInv
  OBVIOUS
<1>1. TypeOK
  BY DEF Init, TypeOK, RowStates, WorkerPcs, RequestPcs
<1>2. ThreadsMatchMode /\ OneOwner /\ OkWasHandled
  BY DEF Init, ThreadsMatchMode, OneOwner, OkWasHandled, Holding
<1>3. NoOrphan /\ BudgetExact /\ CompletedWasHandled
  BY DEF Init, NoOrphan, BudgetExact, CompletedWasHandled
<1> QED
  BY <1>1, <1>2, <1>3 DEF IInv

\* A save inserts a fresh row or changes nothing.
LEMMA IngestKeeps ==
    ASSUME IInv, NEW d \in Deliveries, Ingest(d)
    PROVE  IInv'
<1> USE DEF IInv, Ingest, SaveDelivery, Settled, rowVars, threadVars
<1>1. TypeOK'
  BY DEF TypeOK, RowStates, WorkerPcs, RequestPcs, ThreadsMatchMode, OneOwner, BudgetExact, Holding
<1>2. ThreadsMatchMode' /\ OkWasHandled'
  BY DEF TypeOK, ThreadsMatchMode, OneOwner, OkWasHandled, Holding
<1>3. OneOwner'
  BY DEF TypeOK, ThreadsMatchMode, OneOwner, Holding
<1>4. NoOrphan'
  BY DEF TypeOK, ThreadsMatchMode, OneOwner, NoOrphan, Holding
<1>5. BudgetExact' /\ CompletedWasHandled'
  BY DEF TypeOK, ThreadsMatchMode, OneOwner, BudgetExact, OkWasHandled, CompletedWasHandled, Holding
<1> QED
  BY <1>1, <1>2, <1>3, <1>4, <1>5

\* A webhook request saves a row it does not own yet.
LEMMA RequestSaveKeeps ==
    ASSUME IInv, NEW r \in Requests, NEW d \in WebhookIds, RequestSave(r, d)
    PROVE  IInv'
<1> USE DEF IInv, RequestSave, SaveDelivery, Settled, Deliveries, rowVars, threadVars
<1>1. TypeOK'
  BY DEF TypeOK, RowStates, WorkerPcs, RequestPcs, ThreadsMatchMode, OneOwner, BudgetExact, Holding
<1>2. ThreadsMatchMode' /\ OkWasHandled'
  BY DEF TypeOK, ThreadsMatchMode, OneOwner, OkWasHandled, Holding
<1>3. OneOwner'
  BY DEF TypeOK, ThreadsMatchMode, OneOwner, Holding
<1>4. NoOrphan'
  BY DEF TypeOK, ThreadsMatchMode, OneOwner, NoOrphan, Holding
<1>5. BudgetExact' /\ CompletedWasHandled'
  BY DEF TypeOK, ThreadsMatchMode, OneOwner, BudgetExact, OkWasHandled, CompletedWasHandled, Holding
<1> QED
  BY <1>1, <1>2, <1>3, <1>4, <1>5

\* A webhook request takes a pending row, which nobody holds, or gives up.
LEMMA RequestClaimKeeps ==
    ASSUME IInv, NEW r \in Requests, RequestClaim(r)
    PROVE  IInv'
<1> USE DEF IInv, RequestClaim, MarkProcessing, rowVars, threadVars
<1>1. TypeOK'
  BY DEF TypeOK, RowStates, WorkerPcs, RequestPcs, ThreadsMatchMode, OneOwner, BudgetExact, Holding
<1>2. ThreadsMatchMode' /\ OkWasHandled'
  BY DEF TypeOK, ThreadsMatchMode, OneOwner, OkWasHandled, Holding
<1>3. OneOwner'
  BY DEF TypeOK, ThreadsMatchMode, OneOwner, Holding
<1>4. NoOrphan'
  BY DEF TypeOK, ThreadsMatchMode, OneOwner, NoOrphan, Holding
<1>5. BudgetExact' /\ CompletedWasHandled'
  BY DEF TypeOK, ThreadsMatchMode, OneOwner, BudgetExact, OkWasHandled, CompletedWasHandled, Holding
<1> QED
  BY <1>1, <1>2, <1>3, <1>4, <1>5

\* Polling touches no row.
LEMMA WorkerPollKeeps ==
    ASSUME IInv, NEW w \in Workers, WorkerPoll(w)
    PROVE  IInv'
<1> USE DEF IInv, WorkerPoll, rowVars, threadVars
<1>1. TypeOK'
  BY DEF TypeOK, RowStates, WorkerPcs, RequestPcs, ThreadsMatchMode, OneOwner, BudgetExact, Holding
<1>2. ThreadsMatchMode' /\ OkWasHandled'
  BY DEF TypeOK, ThreadsMatchMode, OneOwner, OkWasHandled, Holding
<1>3. OneOwner'
  BY DEF TypeOK, ThreadsMatchMode, OneOwner, Holding
<1>4. NoOrphan'
  BY DEF TypeOK, ThreadsMatchMode, OneOwner, NoOrphan, Holding
<1>5. BudgetExact' /\ CompletedWasHandled'
  BY DEF TypeOK, ThreadsMatchMode, OneOwner, BudgetExact, OkWasHandled, CompletedWasHandled, Holding
<1> QED
  BY <1>1, <1>2, <1>3, <1>4, <1>5

\* A worker takes the oldest pending row, which nobody holds.
LEMMA WorkerClaimKeeps ==
    ASSUME IInv, NEW w \in Workers, WorkerClaim(w)
    PROVE  IInv'
<1> USE DEF IInv, WorkerClaim, Oldest, MarkProcessing, rowVars, threadVars
<1>1. TypeOK'
  BY DEF TypeOK, RowStates, WorkerPcs, RequestPcs, ThreadsMatchMode, OneOwner, BudgetExact, Holding
<1>2. ThreadsMatchMode' /\ OkWasHandled'
  BY DEF TypeOK, ThreadsMatchMode, OneOwner, OkWasHandled, Holding
<1>3. OneOwner'
  BY DEF TypeOK, ThreadsMatchMode, OneOwner, Holding
<1>4. NoOrphan'
  BY DEF TypeOK, ThreadsMatchMode, OneOwner, NoOrphan, Holding
<1>5. BudgetExact' /\ CompletedWasHandled'
  BY DEF TypeOK, ThreadsMatchMode, OneOwner, BudgetExact, OkWasHandled, CompletedWasHandled, Holding
<1> QED
  BY <1>1, <1>2, <1>3, <1>4, <1>5

\* The handler of a held row returns.
LEMMA HandlerReturnsKeeps ==
    ASSUME IInv, NEW t \in Threads, HandlerReturns(t)
    PROVE  IInv'
<1> USE DEF IInv, HandlerReturns, rowVars, threadVars
<1>1. TypeOK'
  BY DEF TypeOK, RowStates, WorkerPcs, RequestPcs, ThreadsMatchMode, OneOwner, BudgetExact, Holding
<1>2. ThreadsMatchMode' /\ OkWasHandled'
  BY DEF TypeOK, ThreadsMatchMode, OneOwner, OkWasHandled, Holding
<1>3. OneOwner'
  BY DEF TypeOK, ThreadsMatchMode, OneOwner, Holding
<1>4. NoOrphan'
  BY DEF TypeOK, ThreadsMatchMode, OneOwner, NoOrphan, Holding
<1>5. BudgetExact' /\ CompletedWasHandled'
  BY DEF TypeOK, ThreadsMatchMode, OneOwner, BudgetExact, OkWasHandled, CompletedWasHandled, Holding
<1> QED
  BY <1>1, <1>2, <1>3, <1>4, <1>5

\* The handler of a held row raises.
LEMMA HandlerRaisesKeeps ==
    ASSUME IInv, NEW t \in Threads, HandlerRaises(t)
    PROVE  IInv'
<1> USE DEF IInv, HandlerRaises, rowVars, threadVars
<1>1. TypeOK'
  BY DEF TypeOK, RowStates, WorkerPcs, RequestPcs, ThreadsMatchMode, OneOwner, BudgetExact, Holding
<1>2. ThreadsMatchMode' /\ OkWasHandled'
  BY DEF TypeOK, ThreadsMatchMode, OneOwner, OkWasHandled, Holding
<1>3. OneOwner'
  BY DEF TypeOK, ThreadsMatchMode, OneOwner, Holding
<1>4. NoOrphan'
  BY DEF TypeOK, ThreadsMatchMode, OneOwner, NoOrphan, Holding
<1>5. BudgetExact' /\ CompletedWasHandled'
  BY DEF TypeOK, ThreadsMatchMode, OneOwner, BudgetExact, OkWasHandled, CompletedWasHandled, Holding
<1> QED
  BY <1>1, <1>2, <1>3, <1>4, <1>5

\* Settling releases the row: its only holder lets go of it.
LEMMA SettleKeeps ==
    ASSUME IInv, NEW t \in Threads, Settle(t)
    PROVE  IInv'
<1> USE DEF IInv, Settle, CompleteDelivery, FailDelivery, rowVars, threadVars
<1>1. TypeOK'
  BY DEF TypeOK, RowStates, WorkerPcs, RequestPcs, ThreadsMatchMode, OneOwner, BudgetExact, Holding
<1>2. ThreadsMatchMode' /\ OkWasHandled'
  BY DEF TypeOK, ThreadsMatchMode, OneOwner, OkWasHandled, Holding
<1>3. OneOwner'
  BY DEF TypeOK, ThreadsMatchMode, OneOwner, Holding
<1>4. NoOrphan'
  BY DEF TypeOK, ThreadsMatchMode, OneOwner, NoOrphan, Holding
<1>5. BudgetExact' /\ CompletedWasHandled'
  BY DEF TypeOK, ThreadsMatchMode, OneOwner, BudgetExact, OkWasHandled, CompletedWasHandled, Holding
<1> QED
  BY <1>1, <1>2, <1>3, <1>4, <1>5

\* A storage exception takes the thread away and leaves the row as it is.
LEMMA StorageErrorKeeps ==
    ASSUME IInv, NEW t \in Threads, StorageError(t)
    PROVE  IInv'
<1> USE DEF IInv, StorageError, rowVars, threadVars
<1>1. TypeOK'
  BY DEF TypeOK, RowStates, WorkerPcs, RequestPcs, ThreadsMatchMode, OneOwner, BudgetExact, Holding
<1>2. ThreadsMatchMode' /\ OkWasHandled'
  BY DEF TypeOK, ThreadsMatchMode, OneOwner, OkWasHandled, Holding
<1>3. OneOwner'
  BY DEF TypeOK, ThreadsMatchMode, OneOwner, Holding
<1>4. NoOrphan'
  BY DEF TypeOK, ThreadsMatchMode, OneOwner, NoOrphan, Holding
<1>5. BudgetExact' /\ CompletedWasHandled'
  BY DEF TypeOK, ThreadsMatchMode, OneOwner, BudgetExact, OkWasHandled, CompletedWasHandled, Holding
<1> QED
  BY <1>1, <1>2, <1>3, <1>4, <1>5

\* Retention only removes settled rows, which nobody holds.
LEMMA PruneKeeps ==
    ASSUME IInv, NEW S \in SUBSET Deliveries, Prune(S)
    PROVE  IInv'
<1> USE DEF IInv, Prune, Settled, rowVars, threadVars
<1>1. TypeOK'
  BY DEF TypeOK, RowStates, WorkerPcs, RequestPcs, ThreadsMatchMode, OneOwner, BudgetExact, Holding
<1>2. ThreadsMatchMode' /\ OkWasHandled'
  BY DEF TypeOK, ThreadsMatchMode, OneOwner, OkWasHandled, Holding
<1>3. OneOwner'
  BY DEF TypeOK, ThreadsMatchMode, OneOwner, Holding
<1>4. NoOrphan'
  BY DEF TypeOK, ThreadsMatchMode, OneOwner, NoOrphan, Holding
<1>5. BudgetExact' /\ CompletedWasHandled'
  BY DEF TypeOK, ThreadsMatchMode, OneOwner, BudgetExact, OkWasHandled, CompletedWasHandled, Holding
<1> QED
  BY <1>1, <1>2, <1>3, <1>4, <1>5

\* A crash takes every thread away and keeps every row.
LEMMA CrashKeeps ==
    ASSUME IInv, Crash
    PROVE  IInv'
<1> USE DEF IInv, Crash, rowVars, threadVars
<1>1. TypeOK'
  BY DEF TypeOK, RowStates, WorkerPcs, RequestPcs, ThreadsMatchMode, OneOwner, BudgetExact, Holding
<1>2. ThreadsMatchMode' /\ OkWasHandled'
  BY DEF TypeOK, ThreadsMatchMode, OneOwner, OkWasHandled, Holding
<1>3. OneOwner'
  BY DEF TypeOK, ThreadsMatchMode, OneOwner, Holding
<1>4. NoOrphan'
  BY DEF TypeOK, ThreadsMatchMode, OneOwner, NoOrphan, Holding
<1>5. BudgetExact' /\ CompletedWasHandled'
  BY DEF TypeOK, ThreadsMatchMode, OneOwner, BudgetExact, OkWasHandled, CompletedWasHandled, Holding
<1> QED
  BY <1>1, <1>2, <1>3, <1>4, <1>5

\* Shutdown begins when no request is in flight.
LEMMA StopKeeps ==
    ASSUME IInv, Stop
    PROVE  IInv'
<1> USE DEF IInv, Stop, rowVars, threadVars
<1>1. TypeOK'
  BY DEF TypeOK, RowStates, WorkerPcs, RequestPcs, ThreadsMatchMode, OneOwner, BudgetExact, Holding
<1>2. ThreadsMatchMode' /\ OkWasHandled'
  BY DEF TypeOK, ThreadsMatchMode, OneOwner, OkWasHandled, Holding
<1>3. OneOwner'
  BY DEF TypeOK, ThreadsMatchMode, OneOwner, Holding
<1>4. NoOrphan'
  BY DEF TypeOK, ThreadsMatchMode, OneOwner, NoOrphan, Holding
<1>5. BudgetExact' /\ CompletedWasHandled'
  BY DEF TypeOK, ThreadsMatchMode, OneOwner, BudgetExact, OkWasHandled, CompletedWasHandled, Holding
<1> QED
  BY <1>1, <1>2, <1>3, <1>4, <1>5

\* The pool has drained: with no holder left, no row is processing.
LEMMA StoppedKeeps ==
    ASSUME IInv, Stopped
    PROVE  IInv'
<1> USE DEF IInv, Stopped, rowVars, threadVars
<1>1. TypeOK'
  BY DEF TypeOK, RowStates, WorkerPcs, RequestPcs, ThreadsMatchMode, OneOwner, BudgetExact, Holding
<1>2. ThreadsMatchMode' /\ OkWasHandled'
  BY DEF TypeOK, ThreadsMatchMode, OneOwner, OkWasHandled, Holding
<1>3. OneOwner'
  BY DEF TypeOK, ThreadsMatchMode, OneOwner, Holding
<1>4. NoOrphan'
  BY DEF TypeOK, ThreadsMatchMode, OneOwner, NoOrphan, Holding
<1>5. BudgetExact' /\ CompletedWasHandled'
  BY DEF TypeOK, ThreadsMatchMode, OneOwner, BudgetExact, OkWasHandled, CompletedWasHandled, Holding
<1> QED
  BY <1>1, <1>2, <1>3, <1>4, <1>5

\* Recovery finds no thread and leaves no processing row.
LEMMA RecoverKeeps ==
    ASSUME IInv, Recover
    PROVE  IInv'
<1> USE DEF IInv, Recover, rowVars, threadVars
<1>1. TypeOK'
  BY DEF TypeOK, RowStates, WorkerPcs, RequestPcs, ThreadsMatchMode, OneOwner, BudgetExact, Holding
<1>2. ThreadsMatchMode' /\ OkWasHandled'
  BY DEF TypeOK, ThreadsMatchMode, OneOwner, OkWasHandled, Holding
<1>3. OneOwner'
  BY DEF TypeOK, ThreadsMatchMode, OneOwner, Holding
<1>4. NoOrphan'
  BY DEF TypeOK, ThreadsMatchMode, OneOwner, NoOrphan, Holding
<1>5. BudgetExact' /\ CompletedWasHandled'
  BY DEF TypeOK, ThreadsMatchMode, OneOwner, BudgetExact, OkWasHandled, CompletedWasHandled, Holding
<1> QED
  BY <1>1, <1>2, <1>3, <1>4, <1>5

\* Every step of the queue keeps the inductive invariant.
LEMMA NextIInv == IInv /\ [Next]_vars => IInv'
<1> SUFFICES ASSUME IInv, [Next]_vars PROVE IInv'
  OBVIOUS
<1>1. ASSUME NEW d \in Deliveries, Ingest(d) PROVE IInv'
  BY <1>1, IngestKeeps
<1>2. ASSUME NEW r \in Requests, RequestClaim(r) PROVE IInv'
  BY <1>2, RequestClaimKeeps
<1>3. ASSUME NEW r \in Requests, NEW d \in WebhookIds, RequestSave(r, d) PROVE IInv'
  BY <1>3, RequestSaveKeeps
<1>4. ASSUME NEW w \in Workers, WorkerStep(w) PROVE IInv'
  BY <1>4, WorkerPollKeeps, WorkerClaimKeeps DEF WorkerStep
<1>5. ASSUME NEW t \in Threads, ThreadStep(t) PROVE IInv'
  BY <1>5, HandlerReturnsKeeps, HandlerRaisesKeeps, SettleKeeps DEF ThreadStep
<1>6. ASSUME NEW t \in Threads, StorageError(t) PROVE IInv'
  BY <1>6, StorageErrorKeeps
<1>7. ASSUME NEW S \in SUBSET Deliveries, Prune(S) PROVE IInv'
  BY <1>7, PruneKeeps
<1>8. CASE Crash \/ Stop \/ Stopped \/ Recover
  BY <1>8, CrashKeeps, StopKeeps, StoppedKeeps, RecoverKeeps
<1>9. CASE UNCHANGED vars
  BY <1>9 DEF vars, rowVars, threadVars, IInv, TypeOK, ThreadsMatchMode, OneOwner, NoOrphan,
      BudgetExact, OkWasHandled, CompletedWasHandled, Holding, Settled
<1> QED
  BY <1>1, <1>2, <1>3, <1>4, <1>5, <1>6, <1>7, <1>8, <1>9 DEF Next

\* The inductive invariant holds in every reachable state.
THEOREM Invariance == Spec => []IInv
BY InitIInv, NextIInv, PTL DEF Spec

\* The variables of the table, the threads and the process keep their types.
THEOREM TypeCorrect == Spec => []TypeOK
<1>1. IInv => TypeOK
  BY DEF IInv
<1> QED
  BY <1>1, Invariance, PTL

\* Whatever the interleaving of workers and webhook requests, a delivery is
\* handled by one thread at a time.
THEOREM Ownership == Spec => []OneOwner
<1>1. IInv => OneOwner
  BY DEF IInv
<1> QED
  BY <1>1, Invariance, PTL

\* Without storage exceptions a processing row always has a live holder, and a
\* shutdown leaves no processing row behind.
THEOREM NothingStranded == Spec => []NoOrphan
<1>1. IInv => NoOrphan
  BY DEF IInv
<1> QED
  BY <1>1, Invariance, PTL

\* A delivery is dead-lettered exactly when its attempts are used up.
THEOREM DeadLetterExact == Spec => []BudgetExact
<1>1. IInv => BudgetExact
  BY DEF IInv
<1> QED
  BY <1>1, Invariance, PTL

\* No row is completed whose handler did not return.
THEOREM CompletionSound == Spec => []CompletedWasHandled
<1>1. IInv => CompletedWasHandled
  BY DEF IInv
<1> QED
  BY <1>1, Invariance, PTL

-------------------------------------------------------------------------------
(* The delivery table implements DeliveryContract                             *)

\* The empty table is the contract's initial state.
LEMMA InitRefines == Init => Contract!Init
BY DEF Init, Contract!Init, PhaseOf

\* A save accepts an unknown delivery or is a stutter.
LEMMA SaveRefines ==
    ASSUME IInv, NEW d \in Deliveries, SaveDelivery(d)
    PROVE  [Contract!Next]_(Contract!vars)
<1>1. CASE state[d] = "absent"
  <2> DEFINE phase == [e \in Deliveries |-> PhaseOf[state[e]]]
  <2>1. phase[d] = "unknown"
    BY <1>1 DEF PhaseOf
  <2>2. phase' = [phase EXCEPT ![d] = "accepted"]
    <3>1. state' = [state EXCEPT ![d] = "pending"] /\ state \in [Deliveries -> RowStates]
      BY <1>1 DEF SaveDelivery, IInv, TypeOK
    <3>2. PhaseOf["pending"] = "accepted"
      BY DEF PhaseOf
    <3> QED
      BY <3>1, <3>2
  <2>3. attempts' = [attempts EXCEPT ![d] = 0] /\ handled' = handled \ {d}
    BY <1>1 DEF SaveDelivery
  <2>4. Contract!Accept(d)
    BY <2>1, <2>2, <2>3 DEF Contract!Accept
  <2> QED
    BY <2>4 DEF Contract!Next
<1>2. CASE state[d] # "absent"
  BY <1>2 DEF SaveDelivery, rowVars, Contract!vars
<1> QED
  BY <1>1, <1>2

\* Claiming a row is invisible to the sender.
LEMMA ClaimRefines ==
    ASSUME IInv, NEW t \in Threads, NEW d \in Deliveries, state[d] = "pending",
           MarkProcessing(t, d), UNCHANGED handled
    PROVE  UNCHANGED Contract!vars
BY DEF MarkProcessing, Contract!vars, IInv, TypeOK, PhaseOf

\* A handler's return is work done on an accepted delivery.
LEMMA ReturnRefines ==
    ASSUME IInv, NEW t \in Threads, HandlerReturns(t)
    PROVE  Contract!Next
<1>1. PICK d \in Deliveries : d = job[t] /\ state[d] = "processing"
  BY DEF HandlerReturns, IInv, OneOwner, Holding
<1>2. Contract!Work(d)
  BY <1>1 DEF HandlerReturns, Contract!Work, rowVars, PhaseOf
<1> QED
  BY <1>1, <1>2 DEF Contract!Next

\* Settling completes a delivery whose work is done, or charges an attempt.
LEMMA SettleRefines ==
    ASSUME IInv, NEW t \in Threads, Settle(t)
    PROVE  Contract!Next
<1>1. PICK d \in Deliveries : d = job[t] /\ state[d] = "processing"
  BY DEF Settle, IInv, OneOwner, Holding
<1>2. CASE pc[t] = "ok" /\ CompleteDelivery(job[t])
  <2>1. Contract!Complete(d)
    BY <1>1, <1>2 DEF Settle, CompleteDelivery, Contract!Complete, IInv, TypeOK, OkWasHandled, PhaseOf
  <2> QED
    BY <1>1, <2>1 DEF Contract!Next
<1>3. CASE pc[t] = "exc" /\ FailDelivery(job[t])
  <2>1. attempts[d] < MaxAttempts /\ attempts[d] \in 0..MaxAttempts
    BY <1>1 DEF IInv, BudgetExact, TypeOK
  <2>2. Contract!Charge(d)
    BY <1>1, <1>3, <2>1 DEF Settle, FailDelivery, Contract!Charge, IInv, TypeOK, PhaseOf
  <2> QED
    BY <1>1, <2>2 DEF Contract!Next
<1> QED
  BY <1>2, <1>3 DEF Settle

\* Retention forgets settled deliveries only.
LEMMA PruneRefines ==
    ASSUME IInv, NEW S \in SUBSET Deliveries, Prune(S)
    PROVE  Contract!Next
<1>1. Contract!Forget(S)
  BY DEF Prune, Contract!Forget, IInv, TypeOK, Settled, PhaseOf
<1> QED
  BY <1>1 DEF Contract!Next

\* Startup recovery is invisible to the sender.
LEMMA RecoverRefines ==
    ASSUME IInv, Recover
    PROVE  UNCHANGED Contract!vars
BY DEF Recover, Contract!vars, IInv, TypeOK, RowStates, PhaseOf

\* Every step of the queue is a step of the contract or a stutter.
LEMMA NextRefines == IInv /\ [Next]_vars => [Contract!Next]_(Contract!vars)
<1> SUFFICES ASSUME IInv, [Next]_vars PROVE [Contract!Next]_(Contract!vars)
  OBVIOUS
<1>1. ASSUME NEW d \in Deliveries, Ingest(d) PROVE [Contract!Next]_(Contract!vars)
  BY <1>1, SaveRefines DEF Ingest
<1>2. ASSUME NEW r \in Requests, NEW d \in WebhookIds, RequestSave(r, d)
      PROVE [Contract!Next]_(Contract!vars)
  BY <1>2, SaveRefines DEF RequestSave, Deliveries
<1>3. ASSUME NEW r \in Requests, RequestClaim(r) PROVE UNCHANGED Contract!vars
  <2>1. CASE state[job[r]] = "pending"
    <3>1. job[r] \in Deliveries
      BY <1>3 DEF RequestClaim, IInv, ThreadsMatchMode
    <3> QED
      BY <1>3, <2>1, <3>1, ClaimRefines DEF RequestClaim
  <2>2. CASE state[job[r]] # "pending"
    BY <1>3, <2>2 DEF RequestClaim, rowVars, Contract!vars
  <2> QED
    BY <2>1, <2>2
<1>4. ASSUME NEW w \in Workers, WorkerStep(w) PROVE UNCHANGED Contract!vars
  <2>1. CASE WorkerPoll(w)
    BY <2>1 DEF WorkerPoll, rowVars, Contract!vars
  <2>2. CASE WorkerClaim(w)
    <3>1. ASSUME NEW d \in Deliveries, Oldest(d), MarkProcessing(w, d)
          PROVE UNCHANGED Contract!vars
      BY <2>2, <3>1, ClaimRefines DEF WorkerClaim, Oldest
    <3>2. CASE UNCHANGED rowVars
      BY <2>2, <3>2 DEF WorkerClaim, rowVars, Contract!vars
    <3> QED
      BY <2>2, <3>1, <3>2 DEF WorkerClaim, rowVars
  <2> QED
    BY <1>4, <2>1, <2>2 DEF WorkerStep
<1>5. ASSUME NEW t \in Threads, ThreadStep(t) PROVE [Contract!Next]_(Contract!vars)
  <2>1. CASE HandlerRaises(t)
    BY <2>1 DEF HandlerRaises, rowVars, Contract!vars
  <2> QED
    BY <1>5, <2>1, ReturnRefines, SettleRefines DEF ThreadStep
<1>6. ASSUME NEW t \in Threads, StorageError(t) PROVE UNCHANGED Contract!vars
  BY <1>6 DEF StorageError, rowVars, Contract!vars
<1>7. ASSUME NEW S \in SUBSET Deliveries, Prune(S) PROVE Contract!Next
  BY <1>7, PruneRefines
<1>8. CASE Crash \/ Stop \/ Stopped
  BY <1>8 DEF Crash, Stop, Stopped, rowVars, Contract!vars
<1>9. CASE Recover
  BY <1>9, RecoverRefines
<1>10. CASE UNCHANGED vars
  BY <1>10 DEF vars, rowVars, Contract!vars
<1> QED
  BY <1>1, <1>2, <1>3, <1>4, <1>5, <1>6, <1>7, <1>8, <1>9, <1>10 DEF Next

\* The queue implements the delivery contract, for every interleaving of
\* workers, webhook requests, crashes, shutdowns and storage faults.
THEOREM Refinement == Spec => ImplementsContract
<1>1. Spec => Contract!Init /\ [][Contract!Next]_(Contract!vars)
  BY InitRefines, NextRefines, Invariance, PTL DEF Spec
<1> QED
  BY <1>1 DEF ImplementsContract, Contract!Spec
===============================================================================
