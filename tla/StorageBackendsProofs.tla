------------------------ MODULE StorageBackendsProofs ------------------------
(* Safety of StorageBackends for every set of databases and audit rows, any    *)
(* finite set of events, and every number of crashes, prunes and tamperings.   *)
(* The main invariant says where the migration is and what the database holds  *)
(* at that point, what the row of an event can be, and how often an event was  *)
(* counted against how often its row was deleted. The audit chain and the      *)
(* occurrences of a fingerprint have invariants of their own; the last rests   *)
(* on what MapThenSumSet computes, which is proved first.                      *)
EXTENDS StorageBackends, FiniteSetTheorems, WellFoundedInduction, TLAPS

\* The part of TypeOK the main invariant needs; Rest and AuditTypes have the others.
Types ==
    /\ backend \in Backends
    /\ boot \in {"down", "migrating", "up", "broken"}
    /\ version \in 0 .. Latest /\ done \subseteq Schema /\ at \in 1 .. Latest + 1
    /\ events \in [Events -> EventRow] /\ undo \in [Events -> EventRow]
    /\ claims \in [Events -> Nat] /\ pruned \in [Events -> Int]

\* The scripts up to the recorded version have run, and while a process migrates
\* those before the one it is at.
MigrationInv ==
    /\ 1 .. version \subseteq done
    /\ boot = "migrating" => 1 .. at - 1 \subseteq done
    /\ boot = "up" => done = Schema /\ version = Latest

\* A stored event's row names its fingerprint or none; so does a row whose
\* deletion may still be undone.
IsRowOf(e, r) == r = Absent \/ r.fp = Unknown \/ (r.fp = FpOf[e] /\ r.counted)
RowsInv == \A e \in Events : IsRowOf(e, events[e]) /\ IsRowOf(e, undo[e])

\* Each count of an event but the one its row vouches for was followed by a
\* deletion of the row. A deletion that may be undone is one that did not count.
Held(e) == IF undo[e] = Absent THEN events[e] ELSE undo[e]
Open(e) == IF undo[e] = Absent THEN 0 ELSE 1
ClaimsInv ==
    \A e \in Events :
        /\ undo[e] # Absent => events[e] = Absent
        /\ claims[e] <= pruned[e] - Open(e) + (IF Held(e).counted THEN 1 ELSE 0)
        /\ pruned[e] >= Open(e)

IInv == Types /\ MigrationInv /\ RowsInv /\ ClaimsInv

\* An event is counted again only when retention had deleted its row.
CountedOnce == \A e \in Events : claims[e] <= 1 + pruned[e]

-------------------------------------------------------------------------------
(* The initial state                                                           *)

\* The database as it is found meets the invariant.
LEMMA InitIInv == Init => IInv
<1> SUFFICES ASSUME Init PROVE IInv
  OBVIOUS
<1> USE StorageAssumption
<1>1. /\ Latest \in {3, 7} /\ version \in 0 .. Latest /\ done = 1 .. version
  BY DEF Init, Latest
<1>2. Inherited \subseteq Events /\ Unflagged \subseteq Inherited
  BY DEF Inherited, Unflagged
<1>3. \A e \in Events : events[e] \in EventRow /\ undo[e] = Absent
  <2>1. Absent \in EventRow /\ \A b \in BOOLEAN : [fp |-> Unknown, counted |-> b] \in EventRow
    BY DEF Absent, EventRow, Unknown
  <2>2. TAKE e \in Events
  <2>3. undo[e] = Absent
    BY DEF Init
  <2>4. \/ events[e] = Absent
        \/ events[e] = [fp |-> Unknown, counted |-> e \notin Unflagged]
    BY DEF Init
  <2> QED BY <2>1, <2>3, <2>4
<1>4. Types
  <2>1. backend \in Backends /\ boot = "down" /\ at = 1
    BY DEF Init
  <2>2. done \subseteq Schema
    BY <1>1 DEF Schema
  <2>3. claims \in [Events -> Nat] /\ pruned \in [Events -> Int]
    BY DEF Init
  <2>4. events \in [Events -> EventRow] /\ undo \in [Events -> EventRow]
    <3>1. events = [e \in Events |-> events[e]] /\ undo = [e \in Events |-> undo[e]]
      BY DEF Init
    <3>2. \A e \in Events : undo[e] \in EventRow
      <4>1. Absent \in EventRow
        BY DEF Absent, EventRow
      <4> QED BY <4>1, <1>3
    <3> QED BY <3>1, <3>2, <1>3
  <2> QED BY <1>1, <2>1, <2>2, <2>3, <2>4 DEF Types
<1>5. MigrationInv
  BY <1>1 DEF Init, MigrationInv
<1>6. RowsInv
  BY <1>3 DEF Init, RowsInv, IsRowOf
<1>7. ClaimsInv
  <2> SUFFICES ASSUME NEW e \in Events
               PROVE  /\ undo[e] = Absent /\ pruned[e] = 0
                      /\ claims[e] <= IF events[e].counted THEN 1 ELSE 0
    BY <1>3 DEF ClaimsInv, Held, Open
  <2>1. undo[e] = Absent /\ pruned[e] = 0
    BY DEF Init
  <2>2. CASE e \in Inherited \ Unflagged
    <3>1. claims[e] = 1
      BY <2>2 DEF Init
    <3>2. events[e] = [fp |-> Unknown, counted |-> TRUE]
      BY <2>2 DEF Init
    <3> QED BY <3>1, <3>2, <2>1
  <2>3. CASE e \notin Inherited \ Unflagged
    <3>1. claims[e] = 0
      BY <2>3 DEF Init
    <3> QED BY <3>1, <2>1
  <2> QED BY <2>1, <2>2, <2>3
<1> QED BY <1>4, <1>5, <1>6, <1>7 DEF IInv

-------------------------------------------------------------------------------
-------------------------------------------------------------------------------
(* Startup: no event is touched                                                *)

\* What leaves the events and their counts alone keeps their two parts.
LEMMA EventsUntouched ==
    ASSUME RowsInv, ClaimsInv, UNCHANGED <<events, undo, claims, pruned>>
    PROVE  RowsInv' /\ ClaimsInv'
  BY DEF RowsInv, ClaimsInv, IsRowOf, Held, Open

\* Every step of startup advances the migration in its order.
LEMMA StartupKeeps ==
    ASSUME IInv, Boot \/ RunScript \/ RunTransaction \/ FinishMigration
    PROVE  IInv'
<1> USE DEF IInv
<1>1. UNCHANGED <<backend, events, undo, claims, pruned>>
  BY DEF Boot, RunScript, RunTransaction, FinishMigration, eventVars
<1>2. Latest \in {3, 7} /\ Latest' = Latest /\ Schema' = Schema
  BY <1>1 DEF Latest, Schema
<1>3. RowsInv' /\ ClaimsInv'
  BY <1>1, EventsUntouched
<1>4. ASSUME Types', MigrationInv' PROVE IInv'
  BY <1>3, <1>4
<1>5. ASSUME /\ boot' \in {"down", "migrating", "up", "broken"}
             /\ version' \in 0 .. Latest /\ done' \subseteq Schema /\ at' \in 1 .. Latest + 1
      PROVE  Types'
  BY <1>1, <1>2, <1>5 DEF Types
<1>6. CASE Boot
  <2>1. Types'
    BY <1>2, <1>5, <1>6 DEF Boot, Types
  <2>2. MigrationInv'
    BY <1>2, <1>6 DEF Boot, Types, MigrationInv
  <2> QED BY <1>4, <2>1, <2>2
<1>7. CASE RunScript
  <2>1. CASE boot' = "broken"
    <3>1. UNCHANGED <<version, done, at>>
      BY <1>7, <2>1 DEF RunScript
    <3> QED BY <1>2, <1>4, <1>5, <2>1, <3>1 DEF Types, MigrationInv
  <2>2. CASE boot' # "broken"
    <3>1. /\ boot = "migrating" /\ at <= Latest /\ boot' = boot /\ version' = version
          /\ done' = done \cup {at} /\ at' = at + 1
      BY <1>7, <2>2 DEF RunScript
    <3>2. Types'
      BY <1>2, <1>5, <3>1 DEF Types, Schema
    <3>3. 1 .. at' - 1 \subseteq done' /\ 1 .. version' \subseteq done'
      BY <3>1 DEF Types, MigrationInv
    <3> QED BY <1>4, <3>1, <3>2, <3>3 DEF MigrationInv
  <2> QED BY <2>1, <2>2
<1>8. CASE RunTransaction
  <2>1. boot' = "up" /\ done' = Schema /\ version' = Latest /\ at' = at
    BY <1>8 DEF RunTransaction
  <2>2. 1 .. version' \subseteq done'
    BY <2>1 DEF Schema
  <2> QED BY <1>2, <1>4, <1>5, <2>1, <2>2 DEF Types, MigrationInv
<1>9. CASE FinishMigration
  <2>1. /\ boot = "migrating" /\ at > Latest /\ boot' = "up"
        /\ version' = Latest /\ done' = done /\ at' = at
    BY <1>9 DEF FinishMigration
  <2>2. at - 1 = Latest
    BY <1>2, <2>1 DEF Types
  <2>3. done' = Schema
    BY <2>1, <2>2 DEF Types, MigrationInv, Schema
  <2>4. 1 .. version' \subseteq done'
    BY <2>1, <2>3 DEF Schema
  <2> QED BY <1>2, <1>4, <1>5, <2>1, <2>3, <2>4 DEF Types, MigrationInv
<1> QED BY <1>6, <1>7, <1>8, <1>9

-------------------------------------------------------------------------------
(* Counting, retention and crashes                                             *)

\* A step that leaves the schema alone, and the process unless it dies, keeps the
\* invariant when it keeps what the invariant says of each event.
LEMMA ByEvent ==
    ASSUME IInv, UNCHANGED <<backend, version, done, at>>, boot' \in {boot, "down"},
           events' \in [Events -> EventRow], undo' \in [Events -> EventRow],
           claims' \in [Events -> Nat], pruned' \in [Events -> Int],
           \A e \in Events :
               /\ IsRowOf(e, events[e]') /\ IsRowOf(e, undo[e]')
               /\ undo[e]' # Absent => events[e]' = Absent
               /\ claims[e]' <= pruned[e]' - Open(e)' + (IF Held(e)'.counted THEN 1 ELSE 0)
               /\ pruned[e]' >= Open(e)'
    PROVE  IInv'
<1>1. Latest' = Latest /\ Schema' = Schema
  BY DEF Latest, Schema
<1>2. Types'
  BY <1>1 DEF IInv, Types
<1>3. MigrationInv'
  BY <1>1 DEF IInv, MigrationInv
<1>4. RowsInv' /\ ClaimsInv'
  BY DEF RowsInv, ClaimsInv, IsRowOf
<1> QED BY <1>2, <1>3, <1>4 DEF IInv

\* What the invariant says of one event, with the row written out by its cases.
LEMMA OneEvent ==
    ASSUME IInv, NEW e \in Events
    PROVE  /\ events[e] \in EventRow /\ undo[e] \in EventRow
           /\ claims[e] \in Nat /\ pruned[e] \in Int
           /\ IsRowOf(e, events[e]) /\ IsRowOf(e, undo[e])
           /\ undo[e] = Absent =>
                 /\ pruned[e] >= 0
                 /\ claims[e] <= pruned[e] + (IF events[e].counted THEN 1 ELSE 0)
           /\ undo[e] # Absent =>
                 /\ pruned[e] >= 1 /\ events[e] = Absent
                 /\ claims[e] <= pruned[e] - 1 + (IF undo[e].counted THEN 1 ELSE 0)
  BY DEF IInv, Types, RowsInv, ClaimsInv, Held, Open

\* The row of no event is an event row, and does not count.
LEMMA AbsentIsRow == /\ Absent \in EventRow /\ Absent.counted = FALSE
                     /\ \A e \in Events : IsRowOf(e, Absent)
  BY DEF Absent, EventRow, IsRowOf

\* With no deletion left to undo, what the row vouches for is still paid for.
LEMMA Committed ==
    ASSUME IInv, NEW e \in Events
    PROVE  /\ pruned[e] >= 0
           /\ claims[e] <= pruned[e] + (IF events[e].counted THEN 1 ELSE 0)
<1>1. CASE undo[e] = Absent
  BY <1>1, OneEvent
<1>2. CASE undo[e] # Absent
  BY <1>2, OneEvent, AbsentIsRow DEF EventRow
<1> QED BY <1>1, <1>2

\* A commit of an open deletion loses nothing: its claims were already paid for.
LEMMA CommitKeeps ==
    ASSUME IInv, UNCHANGED <<backend, boot, version, done, at, events, claims, pruned>>,
           undo' = [e \in Events |-> Absent]
    PROVE  IInv'
<1>1. undo' \in [Events -> EventRow]
  BY AbsentIsRow
<1>2. \A e \in Events : undo[e]' = Absent /\ Open(e)' = 0 /\ Held(e)' = events[e]
  BY DEF Open, Held
<1>3. Types' /\ RowsInv
  BY <1>1 DEF IInv, Types, Latest, Schema
<1> QED BY <1>1, <1>2, <1>3, ByEvent, AbsentIsRow, OneEvent, Committed DEF IInv, Types

\* A claim is counted only when no row vouches for an earlier one.
LEMMA ClaimKeeps ==
    ASSUME IInv, NEW e \in Events, ClaimEvent(e)
    PROVE  IInv'
<1>1. /\ UNCHANGED <<backend, boot, version, done, at, pruned>>
      /\ undo' = [d \in Events |-> Absent]
  BY DEF ClaimEvent, Commits, schemaVars
<1>2. \/ /\ events[e] # Absent /\ events[e].counted
         /\ UNCHANGED <<events, claims>>
      \/ /\ ~(events[e] # Absent /\ events[e].counted)
         /\ events' = [events EXCEPT ![e] = [fp |-> FpOf[e], counted |-> TRUE]]
         /\ claims' = [claims EXCEPT ![e] = claims[e] + 1]
  BY DEF ClaimEvent, ClaimSqlite, ClaimPostgres
<1>3. CASE UNCHANGED <<events, claims>>
  BY <1>1, <1>3, CommitKeeps
<1>4. CASE /\ ~(events[e] # Absent /\ events[e].counted)
           /\ events' = [events EXCEPT ![e] = [fp |-> FpOf[e], counted |-> TRUE]]
           /\ claims' = [claims EXCEPT ![e] = claims[e] + 1]
  <2> DEFINE r == [fp |-> FpOf[e], counted |-> TRUE]
  <2>1. r \in EventRow /\ r.counted = TRUE /\ IsRowOf(e, r)
    BY StorageAssumption DEF EventRow, IsRowOf
  <2> HIDE DEF r
  <2>2. ~events[e].counted
    BY <1>4, AbsentIsRow, OneEvent DEF EventRow
  <2>3. undo' \in [Events -> EventRow]
    BY <1>1, AbsentIsRow
  <2>4. \A d \in Events : undo[d]' = Absent /\ Open(d)' = 0 /\ Held(d)' = events[d]'
    BY <1>1 DEF Open, Held
  <2>5. events \in [Events -> EventRow] /\ claims \in [Events -> Nat] /\ pruned \in [Events -> Int]
    BY DEF IInv, Types
  <2>6. events' = [events EXCEPT ![e] = r] /\ claims' = [claims EXCEPT ![e] = claims[e] + 1]
    BY <1>4 DEF r
  <2>7. /\ events' \in [Events -> EventRow]
        /\ claims' \in [Events -> Nat] /\ pruned' \in [Events -> Int]
    BY <1>1, <2>1, <2>5, <2>6
  <2>8. ASSUME NEW d \in Events
        PROVE  /\ IsRowOf(d, events[d]') /\ pruned[d]' >= 0
               /\ claims[d]' <= pruned[d]' + (IF events[d]'.counted THEN 1 ELSE 0)
    <3>1. CASE d = e
      <4>1. claims[e] <= pruned[e] /\ pruned[e] >= 0
        BY <2>2, Committed, OneEvent
      <4>2. events[e]' = r /\ claims[e]' = claims[e] + 1
        BY <2>5, <2>6
      <4> QED BY <1>1, <2>1, <2>5, <3>1, <4>1, <4>2
    <3>2. CASE d # e
      <4>1. events[d]' = events[d] /\ claims[d]' = claims[d]
        BY <2>5, <2>6, <3>2
      <4> QED BY <1>1, <4>1, Committed, OneEvent
    <3> QED BY <3>1, <3>2
  <2> QED BY <1>1, <2>3, <2>4, <2>7, <2>8, AbsentIsRow, ByEvent
<1> QED BY <1>2, <1>3, <1>4

\* A deletion pays for the claim of the row it takes; until it is committed, the
\* row may come back and the payment with it.
LEMMA PruneKeeps ==
    ASSUME IInv, PruneEvents
    PROVE  IInv'
<1>1. PICK gone \in SUBSET Stored :
        /\ Deleted(gone)
        /\ undo' = IF backend = "postgres" THEN undo
                   ELSE [e \in Events |-> IF e \in gone THEN events[e] ELSE undo[e]]
  BY DEF PruneEvents
<1>2. UNCHANGED <<backend, boot, version, done, at, claims>>
  BY <1>1 DEF PruneEvents, Deleted, schemaVars
<1>3. /\ events' = [e \in Events |-> IF e \in gone THEN Absent ELSE events[e]]
      /\ pruned' = [e \in Events |-> pruned[e] + (IF e \in gone THEN 1 ELSE 0)]
  BY <1>1 DEF Deleted
<1>4. \A e \in gone : events[e] # Absent
  BY DEF Stored
<1>5. /\ undo \in [Events -> EventRow] /\ claims \in [Events -> Nat]
      /\ events \in [Events -> EventRow] /\ pruned \in [Events -> Int]
  BY DEF IInv, Types
<1>6. /\ events' \in [Events -> EventRow] /\ undo' \in [Events -> EventRow]
      /\ claims' \in [Events -> Nat] /\ pruned' \in [Events -> Int]
  <2>1. events' \in [Events -> EventRow]
    BY <1>3, <1>5, AbsentIsRow
  <2>2. undo' \in [Events -> EventRow]
    BY <1>1, <1>5
  <2>3. pruned' \in [Events -> Int]
    BY <1>3, <1>5
  <2> QED BY <1>2, <1>5, <2>1, <2>2, <2>3
<1>7. ASSUME NEW e \in Events
      PROVE  /\ IsRowOf(e, events[e]') /\ IsRowOf(e, undo[e]')
             /\ undo[e]' # Absent => events[e]' = Absent
             /\ claims[e]' <= pruned[e]' - Open(e)' + (IF Held(e)'.counted THEN 1 ELSE 0)
             /\ pruned[e]' >= Open(e)'
  <2>1. CASE e \notin gone
    <3>1. events[e]' = events[e] /\ pruned[e]' = pruned[e] /\ undo[e]' = undo[e]
      BY <1>1, <1>3, <1>5, <2>1
    <3>2. Open(e)' = Open(e) /\ Held(e)' = Held(e) /\ claims[e]' = claims[e]
      BY <1>2, <3>1 DEF Open, Held
    <3> QED BY <3>1, <3>2, OneEvent DEF IInv, ClaimsInv
  <2>2. CASE e \in gone
    <3>1. events[e]' = Absent /\ pruned[e]' = pruned[e] + 1 /\ claims[e]' = claims[e]
      BY <1>2, <1>3, <1>5, <2>2
    <3>2. undo[e] = Absent
      BY <1>4, <2>2, OneEvent
    <3>3. claims[e] <= pruned[e] + (IF events[e].counted THEN 1 ELSE 0) /\ pruned[e] >= 0
      BY Committed
    <3>4. CASE backend = "postgres"
      <4>1. undo[e]' = Absent
        BY <1>1, <3>2, <3>4
      <4>2. Open(e)' = 0 /\ Held(e)' = Absent
        BY <3>1, <4>1 DEF Open, Held
      <4> QED BY <3>1, <3>3, <4>1, <4>2, AbsentIsRow, OneEvent DEF EventRow
    <3>5. CASE backend # "postgres"
      <4>1. undo[e]' = events[e] /\ events[e] # Absent
        BY <1>1, <1>4, <2>2, <3>5
      <4>2. Open(e)' = 1 /\ Held(e)' = events[e]
        BY <4>1 DEF Open, Held
      <4> QED BY <3>1, <3>3, <4>1, <4>2, AbsentIsRow, OneEvent DEF EventRow
    <3> QED BY <3>4, <3>5
  <2> QED BY <2>1, <2>2
<1> QED BY <1>2, <1>6, <1>7, ByEvent

\* A crash undoes open deletions whole: the row comes back, and the payment goes.
LEMMA CrashKeeps ==
    ASSUME IInv, Crash
    PROVE  IInv'
<1>1. UNCHANGED <<backend, version, done, at, claims>> /\ boot' = "down"
  BY DEF Crash
<1>2. /\ events' = [e \in Events |-> IF undo[e] = Absent THEN events[e] ELSE undo[e]]
      /\ pruned' = [e \in Events |-> pruned[e] - (IF undo[e] = Absent THEN 0 ELSE 1)]
      /\ undo' = [e \in Events |-> Absent]
  BY DEF Crash
<1>3. /\ undo \in [Events -> EventRow] /\ claims \in [Events -> Nat]
      /\ events \in [Events -> EventRow] /\ pruned \in [Events -> Int]
  BY DEF IInv, Types
<1>4. /\ events' \in [Events -> EventRow] /\ undo' \in [Events -> EventRow]
      /\ claims' \in [Events -> Nat] /\ pruned' \in [Events -> Int]
  <2>1. events' \in [Events -> EventRow]
    BY <1>2, <1>3
  <2>2. undo' \in [Events -> EventRow]
    BY <1>2, AbsentIsRow
  <2>3. pruned' \in [Events -> Int]
    BY <1>2, <1>3
  <2> QED BY <1>1, <1>3, <2>1, <2>2, <2>3
<1>5. ASSUME NEW e \in Events
      PROVE  /\ IsRowOf(e, events[e]') /\ undo[e]' = Absent
             /\ claims[e]' <= pruned[e]' + (IF events[e]'.counted THEN 1 ELSE 0)
             /\ pruned[e]' >= 0
  <2>1. undo[e]' = Absent /\ claims[e]' = claims[e]
    BY <1>1, <1>2
  <2>2. CASE undo[e] = Absent
    <3>1. events[e]' = events[e] /\ pruned[e]' = pruned[e]
      BY <1>2, <1>3, <2>2
    <3> QED BY <2>1, <2>2, <3>1, OneEvent
  <2>3. CASE undo[e] # Absent
    <3>1. events[e]' = undo[e] /\ pruned[e]' = pruned[e] - 1
      BY <1>2, <2>3
    <3> QED BY <2>1, <2>3, <3>1, OneEvent
  <2> QED BY <2>2, <2>3
<1>6. \A e \in Events : Open(e)' = 0 /\ Held(e)' = events[e]'
  BY <1>2 DEF Open, Held
<1> QED BY <1>1, <1>4, <1>5, <1>6, AbsentIsRow, ByEvent

-------------------------------------------------------------------------------
(* The theorems                                                                *)

\* Every step keeps the invariant.
LEMMA NextIInv == IInv /\ [Next]_vars => IInv'
<1> SUFFICES ASSUME IInv, [Next]_vars PROVE IInv'
  OBVIOUS
<1>1. CASE Boot \/ RunScript \/ RunTransaction \/ FinishMigration
  BY <1>1, StartupKeeps
<1>2. CASE Crash
  BY <1>2, CrashKeeps
<1>3. CASE \E e \in Events : ClaimEvent(e)
  BY <1>3, ClaimKeeps
<1>4. CASE PruneEvents
  BY <1>4, PruneKeeps
<1>5. CASE PruneDeliveries \/ \E b \in Entries : RecordAudit(b)
  <2>1. /\ UNCHANGED <<backend, boot, version, done, at, events, claims, pruned>>
        /\ undo' = [e \in Events |-> Absent]
    BY <1>5 DEF PruneDeliveries, RecordAudit, Commits, schemaVars
  <2> QED BY <2>1, CommitKeeps
<1>6. CASE Tamper \/ UNCHANGED vars
  <2>1. UNCHANGED <<backend, boot, version, done, at, events, undo, claims, pruned>>
    BY <1>6 DEF Tamper, vars, schemaVars, eventVars
  <2>2. RowsInv' /\ ClaimsInv'
    BY <2>1, EventsUntouched DEF IInv
  <2> QED BY <2>1, <2>2 DEF IInv, Types, MigrationInv, Latest, Schema
<1> QED BY <1>1, <1>2, <1>3, <1>4, <1>5, <1>6 DEF Next

\* The inductive invariant holds in every state the program reaches.
THEOREM Invariance == Spec => []IInv
  BY InitIInv, NextIInv, PTL DEF Spec

\* A process serves requests only with every script applied and the version of
\* its release recorded, whatever version it found and wherever it had crashed.
THEOREM SchemaComplete == Spec => []ServesWholeSchema
<1>1. IInv => ServesWholeSchema
  BY DEF IInv, MigrationInv, ServesWholeSchema
<1> QED BY <1>1, Invariance, PTL

\* count_fingerprint_events, from which a verification verdict is drawn, never
\* answers a number that is not the number of events of the fingerprint stored.
THEOREM VerdictCounts == Spec => []VerdictCountIsHonest
<1>1. IInv => VerdictCountIsHonest
  <2> SUFFICES ASSUME IInv, NEW f \in Fps, NEW window \in SUBSET Events,
                      \A e \in window \cap Stored : events[e].fp # Unknown
               PROVE  {e \in window \cap Stored : events[e].fp = f}
                          = Of(f, window \cap Stored)
    BY DEF VerdictCountIsHonest, CountWindow
  <2>1. \A e \in window \cap Stored : events[e].fp = FpOf[e]
    BY DEF IInv, RowsInv, IsRowOf, Stored
  <2> QED BY <2>1 DEF Of
<1> QED BY <1>1, Invariance, PTL

\* claim_event counts an event once, and again only after retention deleted its row for
\* good: neither a replay nor a crash nor an undone deletion counts it.
LEMMA ClaimedOnce == IInv => CountedOnce
<1> SUFFICES ASSUME IInv, NEW e \in Events PROVE claims[e] <= 1 + pruned[e]
  BY DEF CountedOnce
<1> QED BY Committed, OneEvent

-------------------------------------------------------------------------------
(* The audit chain. Its invariant stands apart from the one above: rows that  *)
(* an old release left without hashes are all alike and untouched, until the  *)
(* migration chains them; a row of a later release always has a hash; and the *)
(* chain verifies exactly when the contents are the ones vouched for, as long *)
(* as at most one row was tampered with. Two acts may undo each other: a row  *)
(* deleted from the middle and then every row behind it is a cut at the end.  *)

AuditRow == [body : Entries, prev : Seq(Entries), hash : Seq(Entries)]
Bodies == [i \in DOMAIN audit |-> audit[i].body]
Hashed == \A i \in DOMAIN audit : audit[i].hash # NoHash

BareRow(b) == [body |-> b, prev |-> NoHash, hash |-> NoHash]
Bare == /\ boot # "up" /\ backend = "sqlite" /\ tampers = 0
        /\ \E b \in Entries : audit = <<BareRow(b), BareRow(b)>> /\ vouched = <<b, b>>

AuditTypes == audit \in Seq(AuditRow) /\ vouched \in Seq(Entries) /\ tampers \in Nat

AuditInv ==
    /\ AuditTypes
    /\ \/ Bare
       \/ /\ Hashed
          /\ tampers = 0 => VerifyAuditChain
          /\ tampers <= 1 => (VerifyAuditChain <=> Bodies = vouched)

\* What the invariant says of one row.
LEMMA OneRow ==
    ASSUME AuditTypes, NEW i \in DOMAIN audit
    PROVE  /\ audit[i] \in AuditRow /\ i \in 1 .. Len(audit)
           /\ audit[i].body \in Entries /\ audit[i].prev \in Seq(Entries)
           /\ audit[i].hash \in Seq(Entries)
<1>1. audit[i] \in AuditRow /\ i \in 1 .. Len(audit)
  BY DEF AuditTypes
<1> QED BY <1>1 DEF AuditRow

\* A bare row is an audit row.
LEMMA BareIsRow == ASSUME NEW b \in Entries
                   PROVE  BareRow(b) \in AuditRow /\ BareRow(b).hash = NoHash /\ BareRow(b).body = b
<1>1. NoHash \in Seq(Entries)
  BY DEF NoHash
<1> QED BY <1>1 DEF BareRow, AuditRow

\* The table is found empty, or bare.
LEMMA InitAudit == Init => AuditInv
<1> SUFFICES ASSUME Init PROVE AuditInv
  OBVIOUS
<1>1. PICK b \in Entries : vouched = IF backend = "sqlite" /\ version \in 1 .. 4 THEN <<b, b>> ELSE <<>>
  BY DEF Init
<1>2. /\ audit = [i \in DOMAIN vouched |-> [body |-> vouched[i], prev |-> NoHash, hash |-> NoHash]]
      /\ tampers = 0 /\ boot = "down"
  BY DEF Init
<1>3. CASE vouched = <<>>
  <2>1. DOMAIN vouched = {}
    BY <1>3
  <2>2. audit = <<>>
    BY <1>2, <1>3, <2>1
  <2>3. DOMAIN audit = {}
    BY <2>2
  <2>4. AuditTypes
    BY <1>2, <1>3, <2>2 DEF AuditTypes
  <2>5. VerifyAuditChain /\ Hashed
    BY <2>3 DEF VerifyAuditChain, Hashed
  <2>6. Bodies = vouched
    BY <1>3, <2>1, <2>2 DEF Bodies
  <2> QED BY <2>4, <2>5, <2>6 DEF AuditInv
<1>4. CASE vouched = <<b, b>> /\ backend = "sqlite"
  <2>1. DOMAIN vouched = 1 .. 2 /\ vouched[1] = b /\ vouched[2] = b
    BY <1>4
  <2>2. audit = <<BareRow(b), BareRow(b)>>
    BY <1>2, <2>1 DEF BareRow
  <2>3. AuditTypes
    BY <1>2, <1>4, <2>2, BareIsRow DEF AuditTypes
  <2> QED BY <1>2, <1>4, <2>2, <2>3 DEF AuditInv, Bare
<1> QED BY <1>1, <1>3, <1>4

\* _backfill_audit_chain chains the bare rows to one another, from the first on.
LEMMA BackfillChains ==
    ASSUME NEW b \in Entries, audit = <<BareRow(b), BareRow(b)>>
    PROVE  Backfill = << [body |-> b, prev |-> <<>>, hash |-> <<b>>],
                         [body |-> b, prev |-> <<b>>, hash |-> <<b, b>>] >>
<1> DEFINE bare == {i \in DOMAIN audit : audit[i].hash = NoHash}
           upTo(j) == {h \in bare : h <= j}
           nth(k) == CHOOSE j \in bare : Cardinality(upTo(j)) = k
           linked(i) == [k \in 1 .. Cardinality(upTo(i)) |-> audit[nth(k)].body]
<1>1. DOMAIN audit = {1, 2} /\ audit[1] = BareRow(b) /\ audit[2] = BareRow(b)
  <2>1. DOMAIN audit = 1 .. 2
    OBVIOUS
  <2> QED BY <2>1
<1>2. bare = {1, 2}
  BY <1>1, BareIsRow
<1>3. upTo(1) = {1} /\ upTo(2) = {1, 2}
  BY <1>2
<1>4. Cardinality({1}) = 1 /\ Cardinality({1, 2}) = 2
  <2>1. IsFiniteSet({1}) /\ Cardinality({1}) = 1
    BY FS_Singleton
  <2>2. Cardinality({1} \cup {2}) = 2
    BY <2>1, FS_AddElement
  <2>3. {1} \cup {2} = {1, 2}
    OBVIOUS
  <2> QED BY <2>1, <2>2, <2>3
<1>5. \A k \in {1, 2} : nth(k) \in {1, 2}
  <2>1. Cardinality(upTo(1)) = 1 /\ Cardinality(upTo(2)) = 2
    BY <1>3, <1>4
  <2> QED BY <1>2, <2>1
<1>6. \A k \in {1, 2} : audit[nth(k)].body = b
  BY <1>1, <1>5, BareIsRow
<1>7. linked(1) = <<b>>
  <2>1. Cardinality(upTo(1)) = 1
    BY <1>3, <1>4
  <2> HIDE DEF nth, upTo, bare
  <2>2. DOMAIN linked(1) = 1 .. 1 /\ linked(1)[1] = b
    BY <1>6, <2>1
  <2>3. linked(1) = [k \in 1 .. 1 |-> linked(1)[k]]
    BY <2>1
  <2> HIDE DEF linked
  <2> QED BY <2>2, <2>3
<1>8. linked(2) = <<b, b>>
  <2>1. Cardinality(upTo(2)) = 2
    BY <1>3, <1>4
  <2> HIDE DEF nth, upTo, bare
  <2>2. DOMAIN linked(2) = 1 .. 2 /\ linked(2)[1] = b /\ linked(2)[2] = b
    BY <1>6, <2>1
  <2>3. linked(2) = [k \in 1 .. 2 |-> linked(2)[k]]
    BY <2>1
  <2> HIDE DEF linked
  <2> QED BY <2>2, <2>3
<1>9. Min(bare) = 1
  BY <1>2 DEF Min
<1>10. Backfill = [i \in DOMAIN audit |->
          IF i \in bare
          THEN [audit[i] EXCEPT !.hash = NoHash \o linked(i),
                                !.prev = SubSeq(NoHash \o linked(i), 1, Len(NoHash \o linked(i)) - 1)]
          ELSE audit[i]]
  BY <1>9 DEF Backfill
<1> HIDE DEF bare, linked
<1>11. NoHash \o linked(1) = <<b>> /\ NoHash \o linked(2) = <<b, b>>
  BY <1>7, <1>8 DEF NoHash
<1>12. /\ SubSeq(<<b>>, 1, Len(<<b>>) - 1) = <<>>
       /\ SubSeq(<<b, b>>, 1, Len(<<b, b>>) - 1) = <<b>>
  <2>1. Len(<<b>>) - 1 = 0 /\ Len(<<b, b>>) - 1 = 1
    OBVIOUS
  <2>2. SubSeq(<<b>>, 1, 0) = <<>>
    OBVIOUS
  <2>3. SubSeq(<<b, b>>, 1, 1) = <<b>>
    <3>1. <<b, b>> \in Seq(Entries) /\ Len(<<b, b>>) = 2
      OBVIOUS
    <3>2. /\ SubSeq(<<b, b>>, 1, 1) \in Seq(Entries)
          /\ Len(SubSeq(<<b, b>>, 1, 1)) = 1
          /\ SubSeq(<<b, b>>, 1, 1)[1] = b
      BY <3>1
    <3> DEFINE s == SubSeq(<<b, b>>, 1, 1)
    <3>3. DOMAIN s = 1 .. 1 /\ s[1] = b
      BY <3>2
    <3>4. s = [k \in 1 .. 1 |-> s[k]]
      BY <3>2
    <3> HIDE DEF s
    <3>5. s = <<b>>
      BY <3>3, <3>4
    <3> QED BY <3>5 DEF s
  <2> QED BY <2>1, <2>2, <2>3
<1>13. /\ [BareRow(b) EXCEPT !.hash = <<b>>, !.prev = <<>>]
             = [body |-> b, prev |-> <<>>, hash |-> <<b>>]
       /\ [BareRow(b) EXCEPT !.hash = <<b, b>>, !.prev = <<b>>]
             = [body |-> b, prev |-> <<b>>, hash |-> <<b, b>>]
  <2> DEFINE r == [body |-> b, prev |-> NoHash, hash |-> NoHash]
  <2>1. ASSUME NEW h, NEW p
        PROVE  [r EXCEPT !.hash = h, !.prev = p] = [body |-> b, prev |-> p, hash |-> h]
    <3>1. [r EXCEPT !.hash = h] = [body |-> b, prev |-> NoHash, hash |-> h]
      OBVIOUS
    <3>2. [[body |-> b, prev |-> NoHash, hash |-> h] EXCEPT !.prev = p]
            = [body |-> b, prev |-> p, hash |-> h]
      OBVIOUS
    <3>3. [r EXCEPT !.hash = h, !.prev = p] = [[r EXCEPT !.hash = h] EXCEPT !.prev = p]
      OBVIOUS
    <3> QED BY <3>1, <3>2, <3>3
  <2>2. BareRow(b) = r
    BY DEF BareRow
  <2> QED BY <2>1, <2>2
<1>14. Backfill[1] = [body |-> b, prev |-> <<>>, hash |-> <<b>>]
  BY <1>1, <1>2, <1>10, <1>11, <1>12, <1>13
<1>15. Backfill[2] = [body |-> b, prev |-> <<b>>, hash |-> <<b, b>>]
  BY <1>1, <1>2, <1>10, <1>11, <1>12, <1>13
<1>16. Backfill = [i \in 1 .. 2 |-> Backfill[i]]
  BY <1>1, <1>10
<1> QED BY <1>14, <1>15, <1>16

\* Nothing is left to chain once every row has a hash.
LEMMA BackfillRests == ASSUME AuditTypes, Hashed PROVE Backfill = audit
<1>1. \A i \in DOMAIN audit : ~(i \in {j \in DOMAIN audit : audit[j].hash = NoHash})
  BY DEF Hashed
<1>2. Backfill = [i \in DOMAIN audit |-> audit[i]]
  BY <1>1 DEF Backfill
<1>3. audit = [i \in DOMAIN audit |-> audit[i]]
  BY DEF AuditTypes
<1> QED BY <1>2, <1>3

\* The contents of the table are a sequence as long as it is.
LEMMA BodiesAreSeq ==
    ASSUME AuditTypes
    PROVE  /\ Bodies \in Seq(Entries) /\ Len(Bodies) = Len(audit)
           /\ \A i \in 1 .. Len(audit) : Bodies[i] = audit[i].body
<1>1. DOMAIN audit = 1 .. Len(audit) /\ Len(audit) \in Nat
  BY DEF AuditTypes
<1>2. \A i \in 1 .. Len(audit) : audit[i].body \in Entries
  BY <1>1, OneRow
<1> QED BY <1>1, <1>2 DEF Bodies

\* The same of the next state.
LEMMA BodiesAreSeqNext ==
    ASSUME AuditTypes'
    PROVE  /\ Bodies' \in Seq(Entries) /\ Len(Bodies') = Len(audit')
           /\ \A i \in 1 .. Len(audit') : Bodies'[i] = audit'[i].body
<1>1. DOMAIN audit' = 1 .. Len(audit') /\ Len(audit') \in Nat
  BY DEF AuditTypes
<1>2. \A i \in 1 .. Len(audit') : audit'[i].body \in Entries
  <2>1. ASSUME NEW i \in 1 .. Len(audit') PROVE audit'[i] \in AuditRow
    BY <2>1 DEF AuditTypes
  <2> QED BY <2>1 DEF AuditRow
<1> QED BY <1>1, <1>2 DEF Bodies

\* Startup chains the bare rows and leaves the others alone.
LEMMA StartupChains ==
    ASSUME AuditInv, FinishMigration
    PROVE  AuditInv'
<1>1. audit' = Backfill /\ vouched' = vouched /\ tampers' = tampers
  BY DEF FinishMigration
<1>2. CASE Bare
  <2>1. PICK b \in Entries : audit = <<BareRow(b), BareRow(b)>> /\ vouched = <<b, b>>
    BY <1>2 DEF Bare
  <2> DEFINE r1 == [body |-> b, prev |-> <<>>, hash |-> <<b>>]
             r2 == [body |-> b, prev |-> <<b>>, hash |-> <<b, b>>]
  <2>2. audit' = <<r1, r2>>
    BY <1>1, <2>1, BackfillChains
  <2>3. /\ r1 \in AuditRow /\ r2 \in AuditRow
        /\ r1.body = b /\ r1.prev = <<>> /\ r1.hash = <<b>>
        /\ r2.body = b /\ r2.prev = <<b>> /\ r2.hash = <<b, b>>
    <3>1. <<>> \in Seq(Entries) /\ <<b>> \in Seq(Entries) /\ <<b, b>> \in Seq(Entries)
      OBVIOUS
    <3> QED BY <3>1 DEF AuditRow
  <2> HIDE DEF r1, r2
  <2>4. DOMAIN audit' = {1, 2} /\ audit'[1] = r1 /\ audit'[2] = r2
    <3>1. DOMAIN audit' = 1 .. 2
      BY <2>2
    <3> QED BY <2>2, <3>1
  <2>5. AuditTypes'
    <3>1. audit' \in Seq(AuditRow)
      BY <2>2, <2>3
    <3> QED BY <1>1, <3>1 DEF AuditInv, AuditTypes
  <2>6. Append(<<>>, b) = <<b>> /\ Append(<<b>>, b) = <<b, b>> /\ <<b>> # <<>> /\ <<b, b>> # <<>>
    <3> DEFINE s == Append(<<b>>, b)
    <3>1. <<b>> \in Seq(Entries) /\ Len(<<b>>) = 1 /\ <<b>>[1] = b
      OBVIOUS
    <3>2. DOMAIN s = 1 .. 2 /\ s[1] = b /\ s[2] = b
      BY <3>1
    <3>3. s = [k \in 1 .. 2 |-> s[k]]
      BY <3>1
    <3> HIDE DEF s
    <3>4. s = <<b, b>>
      BY <3>2, <3>3
    <3> QED BY <3>4 DEF s
  <2>7. Hashed'
    BY <2>3, <2>4, <2>6 DEF Hashed, NoHash
  <2>8. VerifyAuditChain'
    <3>1. audit'[1].prev = NoHash /\ audit'[1].hash = Hash(NoHash, audit'[1].body)
      BY <2>3, <2>4, <2>6 DEF NoHash, Hash
    <3>2. audit'[2].prev = audit'[1].hash /\ audit'[2].hash = Hash(audit'[1].hash, audit'[2].body)
      BY <2>3, <2>4, <2>6 DEF Hash
    <3>3. 2 - 1 = 1 /\ 2 # 1
      OBVIOUS
    <3> QED BY <2>4, <3>1, <3>2, <3>3 DEF VerifyAuditChain
  <2>9. Bodies' = vouched'
    <3>1. Bodies' = [i \in 1 .. 2 |-> b]
      BY <2>2, <2>3, <2>4 DEF Bodies
    <3> QED BY <1>1, <2>1, <3>1
  <2> QED BY <2>5, <2>7, <2>8, <2>9 DEF AuditInv
<1>3. CASE ~Bare
  <2>1. UNCHANGED <<audit, vouched, tampers>>
    BY <1>1, <1>3, BackfillRests DEF AuditInv
  <2> QED BY <1>3, <2>1 DEF AuditInv, AuditTypes, Hashed, VerifyAuditChain, Bodies
<1> QED BY <1>2, <1>3

\* What touches no row keeps the invariant, unless it begins to serve bare rows.
LEMMA AuditUntouched ==
    ASSUME AuditInv, UNCHANGED <<backend, audit, vouched, tampers>>,
           boot' # "up" \/ boot' = boot \/ backend = "postgres"
    PROVE  AuditInv'
  BY DEF AuditInv, AuditTypes, Bare, Hashed, VerifyAuditChain, Bodies

\* A new row chains to the last one, whatever that one is.
LEMMA RecordTells ==
    ASSUME AuditInv, NEW b \in Entries, RecordAudit(b)
    PROVE  AuditInv'
<1> DEFINE n == Len(audit)
           r == [body |-> b, prev |-> LastHash, hash |-> Hash(LastHash, b)]
<1>1. /\ audit' = Append(audit, r) /\ vouched' = Append(vouched, b)
      /\ tampers' = tampers /\ boot = "up"
  BY DEF RecordAudit, Commits
<1>2. AuditTypes /\ Hashed /\ n \in Nat /\ DOMAIN audit = 1 .. n
  BY <1>1 DEF AuditInv, Bare, AuditTypes
<1>3. LastHash \in Seq(Entries)
  <2>1. CASE audit = <<>>
    BY <2>1 DEF LastHash, NoHash
  <2>2. CASE audit # <<>>
    <3>1. n \in DOMAIN audit
      BY <1>2, <2>2 DEF AuditTypes
    <3> QED BY <1>2, <2>2, <3>1, OneRow DEF LastHash
  <2> QED BY <2>1, <2>2
<1>4. LastHash = IF n = 0 THEN NoHash ELSE audit[n].hash
  BY <1>2 DEF LastHash, AuditTypes
<1>5. /\ r \in AuditRow /\ r.body = b /\ r.prev = LastHash
      /\ r.hash = Hash(LastHash, b) /\ r.hash # NoHash
  BY <1>3 DEF AuditRow, Hash, NoHash
<1> HIDE DEF r
<1>6. /\ AuditTypes' /\ DOMAIN audit' = 1 .. n + 1
      /\ audit'[n + 1] = r /\ \A i \in 1 .. n : audit'[i] = audit[i]
  BY <1>1, <1>2, <1>5 DEF AuditTypes
<1>7. Hashed'
  BY <1>2, <1>5, <1>6 DEF Hashed
<1>8. VerifyAuditChain' <=> VerifyAuditChain
  <2>1. \A i \in 1 .. n : i \in 1 .. n + 1 /\ (i # 1 => i - 1 \in 1 .. n)
    BY <1>2
  <2>2. ASSUME VerifyAuditChain' PROVE VerifyAuditChain
    BY <1>2, <1>6, <2>1, <2>2 DEF VerifyAuditChain
  <2>3. ASSUME VerifyAuditChain PROVE VerifyAuditChain'
    <3> SUFFICES ASSUME NEW i \in 1 .. n + 1
                 PROVE  LET prev == IF i = 1 THEN NoHash ELSE audit'[i - 1].hash
                        IN audit'[i].prev = prev /\ audit'[i].hash = Hash(prev, audit'[i].body)
      BY <1>6 DEF VerifyAuditChain
    <3>1. CASE i \in 1 .. n
      BY <1>2, <1>6, <2>1, <2>3, <3>1 DEF VerifyAuditChain
    <3>2. CASE i = n + 1
      <4>1. (n = 0 <=> i = 1) /\ (n # 0 => n \in 1 .. n) /\ i - 1 = n
        BY <1>2, <3>2
      <4> QED BY <1>4, <1>5, <1>6, <3>2, <4>1
    <3> QED BY <1>2, <3>1, <3>2
  <2> QED BY <2>2, <2>3
<1>9. Bodies' = vouched' <=> Bodies = vouched
  <2>1. Bodies' = Append(Bodies, b)
    <3>1. /\ Bodies \in Seq(Entries) /\ Len(Bodies) = n
          /\ \A i \in 1 .. n : Bodies[i] = audit[i].body
      BY <1>2, BodiesAreSeq
    <3>2. /\ Bodies' \in Seq(Entries) /\ Len(Bodies') = n + 1
          /\ \A i \in 1 .. n + 1 : Bodies'[i] = audit'[i].body
      <4>1. audit' \in Seq(AuditRow)
        BY <1>6 DEF AuditTypes
      <4>2. Len(audit') = n + 1
        BY <1>2, <1>6, <4>1
      <4> QED BY <1>6, <4>2, BodiesAreSeqNext
    <3>3. /\ Append(Bodies, b) \in Seq(Entries) /\ Len(Append(Bodies, b)) = n + 1
          /\ Append(Bodies, b)[n + 1] = b
          /\ \A i \in 1 .. n : Append(Bodies, b)[i] = Bodies[i]
      BY <1>2, <3>1
    <3>4. \A i \in 1 .. n + 1 : Bodies'[i] = Append(Bodies, b)[i]
      <4>1. ASSUME NEW i \in 1 .. n PROVE Bodies'[i] = Append(Bodies, b)[i]
        BY <1>2, <1>6, <3>1, <3>2, <3>3
      <4>2. Bodies'[n + 1] = b
        BY <1>2, <1>5, <1>6, <3>2
      <4> QED BY <1>2, <3>3, <4>1, <4>2
    <3> QED BY <3>2, <3>3, <3>4
  <2>2. Bodies \in Seq(Entries) /\ vouched \in Seq(Entries)
    BY <1>2, BodiesAreSeq DEF AuditTypes
  <2>3. \A s, t \in Seq(Entries) : Append(s, b) = Append(t, b) => s = t
    <3> SUFFICES ASSUME NEW s \in Seq(Entries), NEW t \in Seq(Entries), Append(s, b) = Append(t, b)
                 PROVE  s = t
      OBVIOUS
    <3>1. Len(Append(s, b)) = Len(s) + 1 /\ Len(Append(t, b)) = Len(t) + 1
      OBVIOUS
    <3>2. Len(s) = Len(t)
      BY <3>1
    <3>3. \A i \in 1 .. Len(s) : Append(s, b)[i] = s[i] /\ Append(t, b)[i] = t[i]
      BY <3>2
    <3> QED BY <3>2, <3>3
  <2> QED BY <1>1, <2>1, <2>2, <2>3
<1> QED BY <1>1, <1>2, <1>6, <1>7, <1>8, <1>9 DEF AuditInv, Bare

\* An edited row no longer matches its own hash.
LEMMA EditTells ==
    ASSUME AuditInv, NEW i \in DOMAIN audit, NEW b \in Entries, boot = "up", boot' = boot,
           EditRow(i, b), tampers' = tampers + 1
    PROVE  AuditInv'
<1> DEFINE n == Len(audit)
           r == [audit[i] EXCEPT !.body = b]
<1>1. AuditTypes /\ Hashed /\ n \in Nat /\ DOMAIN audit = 1 .. n
  BY DEF AuditInv, Bare, AuditTypes
<1>2. audit' = [audit EXCEPT ![i] = r] /\ vouched' = vouched
  BY DEF EditRow
<1>3. r \in AuditRow /\ r.body = b /\ r.prev = audit[i].prev /\ r.hash = audit[i].hash
  <2>1. audit[i] \in AuditRow
    BY <1>1, OneRow
  <2> QED BY <2>1 DEF AuditRow
<1> HIDE DEF r
<1>4. /\ AuditTypes' /\ DOMAIN audit' = 1 .. n /\ audit'[i] = r
      /\ \A j \in (1 .. n) \ {i} : audit'[j] = audit[j]
  <2>1. audit' \in Seq(AuditRow) /\ DOMAIN audit' = 1 .. n
    BY <1>1, <1>2, <1>3 DEF AuditTypes
  <2> QED BY <1>1, <1>2, <2>1 DEF AuditTypes
<1>5. Hashed'
  BY <1>1, <1>3, <1>4 DEF Hashed
<1>6. \A j \in 1 .. n : audit'[j].hash = audit[j].hash /\ audit'[j].prev = audit[j].prev
  BY <1>3, <1>4
<1>7. ASSUME tampers = 0 PROVE VerifyAuditChain' <=> Bodies' = vouched'
  <2>1. VerifyAuditChain /\ Bodies = vouched
    BY <1>1, <1>7 DEF AuditInv, Bare
  <2>2. CASE b = audit[i].body
    <3>1. r = audit[i]
      <4>1. audit[i] \in AuditRow
        BY <1>1, OneRow
      <4> QED BY <2>2, <4>1 DEF AuditRow, r
    <3>2. audit' = audit
      BY <1>1, <1>2, <3>1 DEF AuditTypes
    <3>3. Bodies' = Bodies /\ VerifyAuditChain' = VerifyAuditChain
      BY <3>2 DEF Bodies, VerifyAuditChain
    <3> QED BY <1>2, <2>1, <3>3
  <2>3. CASE b # audit[i].body
    <3>1. Bodies'[i] = b /\ Bodies[i] = audit[i].body
      BY <1>1, <1>3, <1>4 DEF Bodies
    <3>2. Bodies' # vouched'
      BY <1>2, <2>1, <2>3, <3>1
    <3>3. ASSUME VerifyAuditChain' PROVE FALSE
      <4> DEFINE prev == audit[i].prev
      <4>1. audit[i].hash = Hash(prev, audit[i].body)
        BY <2>1 DEF VerifyAuditChain
      <4>2. audit'[i].hash = Hash(audit'[i].prev, audit'[i].body)
        BY <1>1, <1>4, <3>3 DEF VerifyAuditChain
      <4>3. Append(prev, audit[i].body) = Append(prev, b)
        BY <1>3, <1>4, <4>1, <4>2 DEF Hash
      <4>4. prev \in Seq(Entries) /\ audit[i].body \in Entries
        BY <1>1, OneRow
      <4>5. \A e \in Entries : Append(prev, e)[Len(prev) + 1] = e
        BY <4>4
      <4> QED BY <2>3, <4>3, <4>4, <4>5
    <3> QED BY <3>2, <3>3
  <2> QED BY <2>2, <2>3
<1>8. tampers' # 0 /\ (tampers' <= 1 => tampers = 0)
  BY <1>1 DEF AuditTypes
<1> QED BY <1>4, <1>5, <1>7, <1>8 DEF AuditInv

\* A row behind a deleted one no longer names the hash of the row before it; a
\* row deleted at the end leaves a chain as good as it was.
LEMMA DeleteTells ==
    ASSUME AuditInv, NEW i \in DOMAIN audit, boot = "up", boot' = boot,
           DeleteRow(i), tampers' = tampers + 1
    PROVE  AuditInv'
<1> DEFINE n == Len(audit)
<1>1. /\ AuditTypes /\ Hashed /\ n \in Nat /\ DOMAIN audit = 1 .. n /\ i \in 1 .. n
      /\ audit \in Seq(AuditRow) /\ vouched \in Seq(Entries)
  BY DEF AuditInv, Bare, AuditTypes
<1>2. audit' = SubSeq(audit, 1, i - 1) \o SubSeq(audit, i + 1, n)
  BY DEF DeleteRow
<1>3. /\ audit' \in Seq(AuditRow) /\ Len(audit') = n - 1 /\ DOMAIN audit' = 1 .. n - 1
      /\ \A j \in 1 .. n - 1 : audit'[j] = IF j < i THEN audit[j] ELSE audit[j + 1]
  <2> DEFINE s == SubSeq(audit, 1, i - 1)
             t == SubSeq(audit, i + 1, n)
  <2>1. /\ s \in Seq(AuditRow) /\ Len(s) = i - 1
        /\ \A j \in 1 .. i - 1 : s[j] = audit[j]
    BY <1>1
  <2>2. /\ t \in Seq(AuditRow) /\ Len(t) = n - i
        /\ \A j \in 1 .. n - i : t[j] = audit[i + j]
    BY <1>1
  <2> HIDE DEF s, t
  <2>3. /\ s \o t \in Seq(AuditRow) /\ Len(s \o t) = n - 1 /\ DOMAIN (s \o t) = 1 .. n - 1
        /\ \A j \in 1 .. n - 1 : (s \o t)[j] = IF j <= i - 1 THEN s[j] ELSE t[j - (i - 1)]
    <3>1. Len(s) + Len(t) = n - 1
      BY <1>1, <2>1, <2>2
    <3>2. s \o t \in Seq(AuditRow) /\ Len(s \o t) = n - 1
      BY <2>1, <2>2, <3>1
    <3>3. \A j \in 1 .. Len(s) + Len(t) : (s \o t)[j] = IF j <= Len(s) THEN s[j] ELSE t[j - Len(s)]
      BY <2>1, <2>2
    <3> QED BY <2>1, <3>1, <3>2, <3>3
  <2>4. \A j \in 1 .. n - 1 : ~(j <= i - 1) => /\ j - (i - 1) \in 1 .. n - i
                                              /\ i + (j - (i - 1)) = j + 1
    BY <1>1
  <2>5. \A j \in 1 .. n - 1 : (s \o t)[j] = IF j < i THEN audit[j] ELSE audit[j + 1]
    <3> SUFFICES ASSUME NEW j \in 1 .. n - 1
                 PROVE  (s \o t)[j] = IF j < i THEN audit[j] ELSE audit[j + 1]
      OBVIOUS
    <3>1. CASE j < i
      <4>1. j \in 1 .. i - 1 /\ j <= i - 1
        BY <1>1, <3>1
      <4> QED BY <2>1, <2>3, <3>1, <4>1
    <3>2. CASE ~(j < i)
      <4>1. ~(j <= i - 1)
        BY <1>1, <3>2
      <4>2. (s \o t)[j] = t[j - (i - 1)]
        BY <2>3, <4>1
      <4>3. t[j - (i - 1)] = audit[j + 1]
        BY <2>2, <2>4, <4>1
      <4> QED BY <3>2, <4>2, <4>3
    <3> QED BY <3>1, <3>2
  <2>6. audit' = s \o t
    BY <1>2 DEF s, t
  <2> QED BY <2>3, <2>5, <2>6
<1>4. vouched' = IF i = n /\ Len(vouched) = n THEN SubSeq(vouched, 1, i - 1) ELSE vouched
  BY DEF DeleteRow
<1>5. AuditTypes'
  <2>1. vouched' \in Seq(Entries)
    BY <1>1, <1>4
  <2> QED BY <1>1, <1>3, <2>1 DEF AuditTypes
<1>6. Hashed'
  <2>1. \A j \in 1 .. n - 1 : j \in 1 .. n /\ j + 1 \in 1 .. n
    BY <1>1
  <2> QED BY <1>1, <1>3, <2>1 DEF Hashed
<1>7. ASSUME tampers = 0 PROVE VerifyAuditChain' <=> Bodies' = vouched'
  <2>1. VerifyAuditChain /\ Bodies = vouched
    BY <1>1, <1>7 DEF AuditInv, Bare
  <2>2. /\ Bodies \in Seq(Entries) /\ Len(Bodies) = n
        /\ \A j \in 1 .. n : Bodies[j] = audit[j].body
    BY <1>1, BodiesAreSeq
  <2>3. /\ Bodies' \in Seq(Entries) /\ Len(Bodies') = n - 1
        /\ \A j \in 1 .. n - 1 : Bodies'[j] = audit'[j].body
    BY <1>3, <1>5, BodiesAreSeqNext
  <2>4. CASE i = n
    <3>1. \A j \in 1 .. n - 1 : audit'[j] = audit[j]
      BY <1>1, <1>3, <2>4
    <3>2. VerifyAuditChain'
      <4>1. \A j \in 1 .. n - 1 : j \in 1 .. n /\ (j # 1 => j - 1 \in 1 .. n - 1)
        BY <1>1
      <4> QED BY <1>1, <1>3, <2>1, <3>1, <4>1 DEF VerifyAuditChain
    <3>3. Bodies' = vouched'
      <4>1. vouched' = SubSeq(vouched, 1, n - 1)
        BY <1>4, <2>1, <2>2, <2>4
      <4>2. /\ vouched' \in Seq(Entries) /\ Len(vouched') = n - 1
            /\ \A j \in 1 .. n - 1 : vouched'[j] = Bodies[j]
        BY <1>1, <2>1, <2>2, <4>1
      <4>3. \A j \in 1 .. n - 1 : Bodies'[j] = vouched'[j]
        <5>1. \A j \in 1 .. n - 1 : j \in 1 .. n
          BY <1>1
        <5>2. \A j \in 1 .. n - 1 : Bodies[j] = audit[j].body
          BY <2>2, <5>1
        <5> QED BY <2>3, <3>1, <4>2, <5>2
      <4> QED BY <2>3, <4>2, <4>3
    <3> QED BY <3>2, <3>3
  <2>5. CASE i # n
    <3>1. Bodies' # vouched'
      BY <1>1, <1>4, <2>1, <2>2, <2>3, <2>5
    <3>2. ASSUME VerifyAuditChain' PROVE FALSE
      <4> DEFINE before == IF i = 1 THEN NoHash ELSE audit[i - 1].hash
      <4>1. i \in 1 .. n - 1 /\ i + 1 \in 1 .. n /\ i + 1 # 1 /\ (i + 1) - 1 = i
        BY <1>1, <2>5
      <4>2. audit[i + 1].prev = audit[i].hash
        BY <1>1, <2>1, <4>1 DEF VerifyAuditChain
      <4>3. audit[i].prev = before /\ audit[i].hash = Hash(before, audit[i].body)
        BY <1>1, <2>1 DEF VerifyAuditChain
      <4>4. audit'[i] = audit[i + 1]
        BY <1>1, <1>3, <4>1
      <4>5. i # 1 => audit'[i - 1] = audit[i - 1]
        BY <1>1, <1>3, <4>1
      <4>6. audit'[i].prev = before
        BY <1>3, <3>2, <4>1, <4>5 DEF VerifyAuditChain
      <4>7. audit[i].prev = Append(audit[i].prev, audit[i].body)
        BY <4>2, <4>3, <4>4, <4>6 DEF Hash
      <4>8. audit[i].prev \in Seq(Entries) /\ audit[i].body \in Entries
        BY <1>1, OneRow
      <4>9. Len(Append(audit[i].prev, audit[i].body)) = Len(audit[i].prev) + 1
        BY <4>8
      <4>10. Len(audit[i].prev) \in Nat
        BY <4>8
      <4> QED BY <4>7, <4>9, <4>10
    <3> QED BY <3>1, <3>2
  <2> QED BY <2>4, <2>5
<1>8. tampers' # 0 /\ (tampers' <= 1 => tampers = 0)
  BY <1>1 DEF AuditInv, AuditTypes
<1> QED BY <1>5, <1>6, <1>7, <1>8 DEF AuditInv

\* Every step keeps the invariant of the chain.
LEMMA NextAudit == AuditInv /\ [Next]_vars => AuditInv'
<1> SUFFICES ASSUME AuditInv, [Next]_vars PROVE AuditInv'
  OBVIOUS
<1>1. CASE Boot \/ RunScript \/ Crash
  <2>1. UNCHANGED <<backend, audit, vouched, tampers>> /\ boot' # "up"
    BY <1>1 DEF Boot, RunScript, Crash, auditVars
  <2> QED BY <2>1, AuditUntouched
<1>2. CASE RunTransaction
  <2>1. UNCHANGED <<backend, audit, vouched, tampers>> /\ backend = "postgres"
    BY <1>2 DEF RunTransaction, auditVars
  <2> QED BY <2>1, AuditUntouched
<1>3. CASE FinishMigration
  BY <1>3, StartupChains
<1>4. CASE (\E e \in Events : ClaimEvent(e)) \/ PruneEvents \/ PruneDeliveries \/ UNCHANGED vars
  <2>1. UNCHANGED <<backend, audit, vouched, tampers>> /\ boot' = boot
    BY <1>4 DEF ClaimEvent, PruneEvents, Deleted, PruneDeliveries, auditVars, schemaVars, vars
  <2> QED BY <2>1, AuditUntouched
<1>5. CASE \E b \in Entries : RecordAudit(b)
  BY <1>5, RecordTells
<1>6. CASE Tamper
  <2>1. boot = "up" /\ boot' = boot /\ tampers' = tampers + 1
    BY <1>6 DEF Tamper, schemaVars
  <2>2. PICK i \in DOMAIN audit : (\E b \in Entries : EditRow(i, b)) \/ DeleteRow(i)
    BY <1>6 DEF Tamper
  <2> QED BY <2>1, <2>2, EditTells, DeleteTells
<1> QED BY <1>1, <1>2, <1>3, <1>4, <1>5, <1>6 DEF Next

\* The audit table verifies as long as nobody touched it, through migrations and
\* crashes, and one edit of a row or deletion of one that is not the last shows.
THEOREM ChainTells == Spec => []AuditTells
<1>1. AuditInv => AuditTells
  BY DEF AuditInv, AuditTells, Bodies, Bare
<1> QED BY <1>1, InitAudit, NextAudit, PTL DEF Spec

-------------------------------------------------------------------------------
(* Type correctness                                                            *)

\* What the type invariant says and neither of the invariants above: the version a
\* database was found at is behind the recorded one, and counts are counts.
Rest ==
    /\ origin \in Versions /\ origin <= version
    /\ part \in 0 .. Latest
    /\ occ \in [Fps -> Nat \cup {-1}]

\* The database as it is found has the count of its inherited events.
LEMMA InitRest == Init => Rest
<1> SUFFICES ASSUME Init PROVE Rest
  OBVIOUS
<1>1. origin \in Versions /\ origin <= version /\ part \in 0 .. Latest
  BY StorageAssumption DEF Init, Latest
<1>2. ASSUME NEW f \in Fps
      PROVE  Cardinality({e \in Inherited : FpOf[e] = f}) \in Nat
  <2>1. IsFiniteSet(Inherited)
    BY StorageAssumption, FS_EmptySet, FS_Subset DEF Inherited
  <2>2. IsFiniteSet({e \in Inherited : FpOf[e] = f})
    BY <2>1, FS_Subset
  <2> QED BY <2>2, FS_CardinalityType
<1>3. occ \in [Fps -> Nat \cup {-1}]
  BY <1>2 DEF Init
<1> QED BY <1>1, <1>3 DEF Rest

\* A count grows from the first event on, and no step moves the version back.
LEMMA NextRest == Types /\ Rest /\ [Next]_vars => Rest'
<1> SUFFICES ASSUME Types, Rest, [Next]_vars PROVE Rest'
  OBVIOUS
<1>1. origin' = origin /\ Latest' = Latest /\ Latest \in {3, 7}
  BY DEF Next, vars, Boot, RunScript, RunTransaction, FinishMigration, Crash, ClaimEvent,
         PruneEvents, Deleted, PruneDeliveries, RecordAudit, Tamper, Latest
<1>2. version' \in {version, Latest} /\ version <= version'
  <2>1. version' = version \/ version' = Latest
    BY DEF Next, vars, schemaVars, Boot, RunScript, RunTransaction, FinishMigration, Crash,
           ClaimEvent, PruneEvents, Deleted, PruneDeliveries, RecordAudit, Tamper
  <2> QED BY <1>1, <2>1 DEF Types
<1>3. origin' \in Versions /\ origin' <= version'
  BY <1>1, <1>2, StorageAssumption DEF Rest, Types
<1>4. part' \in 0 .. Latest'
  <2>1. \/ part' \in {0, part}
        \/ part' = at /\ at <= Latest
    BY DEF Next, vars, schemaVars, Boot, RunScript, RunTransaction, FinishMigration, Crash,
           ClaimEvent, PruneEvents, Deleted, PruneDeliveries, RecordAudit, Tamper
  <2> QED BY <1>1, <2>1 DEF Rest, Types
<1>5. occ' \in [Fps -> Nat \cup {-1}]
  <2>1. CASE occ' = occ
    BY <2>1 DEF Rest
  <2>2. CASE \E e \in Events : ClaimEvent(e)
    <3>1. PICK e \in Events : ClaimEvent(e)
      BY <2>2
    <3>2. \E d \in {0, 1} : SqliteUpsert(FpOf[e], d) \/ PostgresUpsert(FpOf[e], d)
      BY <3>1 DEF ClaimEvent, ClaimSqlite, ClaimPostgres
    <3>3. FpOf[e] \in Fps
      BY StorageAssumption
    <3> QED BY <3>2, <3>3 DEF SqliteUpsert, PostgresUpsert, Rest
  <2> QED BY <2>1, <2>2 DEF Next, vars, eventVars, Boot, RunScript, RunTransaction,
        FinishMigration, Crash, PruneEvents, Deleted, PruneDeliveries, RecordAudit, Tamper
<1> QED BY <1>1, <1>3, <1>4, <1>5 DEF Rest

\* Every state of the database is well typed: the schema version is one of the
\* backend's and never behind the one found, an event's row and a fingerprint's count
\* are what the columns hold, and a deletion that may be undone left no row.
THEOREM TypeCorrect == Spec => []TypeOK
<1>1. IInv /\ AuditInv /\ Rest => TypeOK
  <2> SUFFICES ASSUME IInv, AuditInv, Rest PROVE TypeOK
    OBVIOUS
  <2>1. \A i \in DOMAIN audit : audit[i].body \in Entries
    BY OneRow DEF AuditInv
  <2>2. pruned \in [Events -> Nat] /\ \A e \in Events : undo[e] # Absent => events[e] = Absent
    BY DEF IInv, Types, ClaimsInv, Open
  <2> QED BY <2>1, <2>2 DEF TypeOK, IInv, Types, Rest
<1>2. IInv /\ Rest /\ [Next]_vars => Rest'
  BY NextRest DEF IInv
<1> QED BY <1>1, <1>2, Invariance, InitRest, InitAudit, NextAudit, PTL DEF Spec

-------------------------------------------------------------------------------
(* What MapThenSumSet computes. The sum of natural weights over a finite set   *)
(* is the number of its units, a unit being an element with a rank up to its   *)
(* weight: what holds of sums then follows from what holds of cardinalities.   *)

\* A non-empty set of naturals has a least element.
LEMMA LeastNat ==
    ASSUME NEW T \in SUBSET Nat, T # {}
    PROVE  \E n \in T : \A m \in T : n <= m
<1> DEFINE R == OpToRel(<, Nat)
<1>1. IsWellFoundedOn(R, Nat)
  BY NatLessThanWellFounded, Zenon
<1>2. \A m, n \in Nat : m < n => <<m, n>> \in R
  BY SMT DEF OpToRel
<1> HIDE DEF R
<1>3. PICK n \in T : \A m \in T : ~ (<<m, n>> \in R)
  BY <1>1, WFMin, Zenon
<1>4. \A m \in T : ~ (m < n)
  BY <1>2, <1>3
<1> QED BY <1>4

\* A family that has a finite set as soon as it has the set without any one of its
\* elements has all of them.
LEMMA SubsetInduction ==
    ASSUME NEW S, IsFiniteSet(S), NEW C,
           \A s \in SUBSET S : (\A x \in s : s \ {x} \in C) => s \in C
    PROVE  \A s \in SUBSET S : s \in C
<1> DEFINE T == {n \in Nat : \E s \in SUBSET S : s \notin C /\ Cardinality(s) = n}
<1> SUFFICES ASSUME NEW z \in SUBSET S, z \notin C PROVE FALSE
  OBVIOUS
<1>1. \A s \in SUBSET S : IsFiniteSet(s) /\ Cardinality(s) \in Nat
  BY FS_Subset, FS_CardinalityType
<1>2. PICK n \in T : \A m \in T : n <= m
  <2>1. Cardinality(z) \in T
    BY <1>1
  <2> HIDE DEF T
  <2>2. T \subseteq Nat
    BY DEF T
  <2> QED BY <2>1, <2>2, LeastNat
<1>3. PICK s \in SUBSET S : s \notin C /\ Cardinality(s) = n
  BY <1>2
<1>4. PICK x \in s : s \ {x} \notin C
  BY <1>3
<1>5. Cardinality(s \ {x}) = n - 1 /\ s \ {x} \in SUBSET S
  BY <1>1, <1>3, <1>4, FS_RemoveElement
<1>6. n - 1 \in T
  BY <1>1, <1>4, <1>5
<1> QED BY <1>2, <1>6

Units(w, s) == {u \in s \X Nat : u[2] \in 1 .. w[u[1]]}

\* One element has as many units as its weight.
LEMMA UnitsOfOne ==
    ASSUME NEW s, NEW x \in s, NEW w, w[x] \in Nat
    PROVE  /\ Units(w, s) = Units(w, s \ {x}) \cup ({x} \X (1 .. w[x]))
           /\ Units(w, s \ {x}) \cap ({x} \X (1 .. w[x])) = {}
           /\ IsFiniteSet({x} \X (1 .. w[x])) /\ Cardinality({x} \X (1 .. w[x])) = w[x]
<1>1. IsFiniteSet(1 .. w[x]) /\ Cardinality(1 .. w[x]) = w[x]
  BY FS_Interval
<1>2. IsFiniteSet({x}) /\ Cardinality({x}) = 1
  BY FS_Singleton
<1>3. /\ IsFiniteSet({x} \X (1 .. w[x]))
      /\ Cardinality({x} \X (1 .. w[x])) = Cardinality({x}) * Cardinality(1 .. w[x])
  BY <1>1, <1>2, FS_Product
<1> QED BY <1>1, <1>2, <1>3 DEF Units

\* The units of a set without an element, and then with it.
LEMMA UnitsAdd ==
    ASSUME NEW E, NEW w \in [E -> Nat], NEW S \in SUBSET E, IsFiniteSet(S)
    PROVE  \A s \in SUBSET S :
               /\ IsFiniteSet(Units(w, s)) /\ Cardinality(Units(w, s)) \in Nat
               /\ \A x \in S : x \in s =>
                     Cardinality(Units(w, s)) = w[x] + Cardinality(Units(w, s \ {x}))
<1> DEFINE C == {s \in SUBSET S : IsFiniteSet(Units(w, s))}
<1>1. ASSUME NEW s \in SUBSET S, \A x \in s : s \ {x} \in C PROVE s \in C
  <2>1. CASE s = {}
    BY <2>1, FS_EmptySet DEF Units
  <2>2. CASE s # {}
    <3>1. PICK x \in s : TRUE
      BY <2>2
    <3>2. IsFiniteSet(Units(w, s \ {x}))
      BY <1>1
    <3>3. w[x] \in Nat
      OBVIOUS
    <3>4. IsFiniteSet(Units(w, s \ {x}) \cup ({x} \X (1 .. w[x])))
      BY <3>2, <3>3, UnitsOfOne, FS_Union
    <3> QED BY <3>3, <3>4, UnitsOfOne
  <2> QED BY <2>1, <2>2
<1>2. \A s \in SUBSET S : s \in C
  <2> HIDE DEF C
  <2> QED BY <1>1, SubsetInduction
<1>3. \A s \in SUBSET S : IsFiniteSet(Units(w, s)) /\ Cardinality(Units(w, s)) \in Nat
  BY <1>2, FS_CardinalityType
<1>4. ASSUME NEW s \in SUBSET S, NEW x \in s
      PROVE  Cardinality(Units(w, s)) = w[x] + Cardinality(Units(w, s \ {x}))
  <2>1. w[x] \in Nat
    OBVIOUS
  <2>2. IsFiniteSet(Units(w, s \ {x})) /\ Cardinality(Units(w, s \ {x})) \in Nat
    <3>1. s \ {x} \in SUBSET S
      OBVIOUS
    <3> QED BY <1>3, <3>1
  <2> DEFINE U == Units(w, s \ {x})
             V == {x} \X (1 .. w[x])
  <2>3. Units(w, s) = U \cup V /\ U \cap V = {} /\ IsFiniteSet(V) /\ Cardinality(V) = w[x]
    BY <2>1, UnitsOfOne
  <2>4. IsFiniteSet(U) /\ Cardinality(U) \in Nat
    BY <2>2
  <2> HIDE DEF U, V
  <2>5. Cardinality(U \cup V) = Cardinality(U) + Cardinality(V) - Cardinality(U \cap V)
    BY <2>3, <2>4, FS_Union
  <2>6. Cardinality(U \cap V) = 0
    BY <2>3, FS_EmptySet
  <2>7. Cardinality(Units(w, s)) = w[x] + Cardinality(U)
    BY <2>1, <2>3, <2>4, <2>5, <2>6
  <2> QED BY <2>7 DEF U
<1> QED BY <1>3, <1>4

\* The recursion of the library's fold over the subsets of S.
Fold(g, w, S) ==
    g = [s \in SUBSET S |->
           IF s = {} THEN 0
           ELSE w[CHOOSE x \in s : TRUE] + g[s \ {CHOOSE x \in s : TRUE}]]

\* The sum of the weights is the number of units.
LEMMA SumIsUnits ==
    ASSUME NEW E, NEW w \in [E -> Nat], NEW S \in SUBSET E, IsFiniteSet(S)
    PROVE  MapThenSumSet(LAMBDA x : w[x], S) = Cardinality(Units(w, S))
<1> DEFINE h == [s \in SUBSET S |-> Cardinality(Units(w, s))]
           g == CHOOSE g : Fold(g, w, S)
<1>1. MapThenSumSet(LAMBDA x : w[x], S) = g[S]
  BY DEF MapThenSumSet, MapThenFoldSet, Fold
<1>2. ASSUME NEW s \in SUBSET S, s # {}
      PROVE  /\ (CHOOSE x \in s : TRUE) \in s
             /\ s \ {CHOOSE x \in s : TRUE} \in SUBSET S
  BY <1>2
<1>3. Cardinality(Units(w, {})) = 0
  BY FS_EmptySet DEF Units
<1>4. \A s \in SUBSET S : \A x \in S :
          x \in s => Cardinality(Units(w, s)) = w[x] + Cardinality(Units(w, s \ {x}))
  BY UnitsAdd
<1>5. Fold(h, w, S)
  <2>1. ASSUME NEW s \in SUBSET S
        PROVE  Cardinality(Units(w, s)) =
                  IF s = {} THEN 0
                  ELSE w[CHOOSE x \in s : TRUE] + h[s \ {CHOOSE x \in s : TRUE}]
    <3>1. CASE s = {}
      BY <1>3, <3>1
    <3>2. CASE s # {}
      <4>1. PICK x \in s : x = CHOOSE y \in s : TRUE
        BY <3>2
      <4>2. h[s \ {x}] = Cardinality(Units(w, s \ {x}))
        OBVIOUS
      <4>3. Cardinality(Units(w, s)) = w[x] + Cardinality(Units(w, s \ {x}))
        BY <1>4
      <4> HIDE DEF h
      <4> QED BY <3>2, <4>1, <4>2, <4>3
    <3> QED BY <3>1, <3>2
  <2> QED BY <2>1 DEF Fold
<1>6. Fold(g, w, S)
  BY <1>5
<1> DEFINE C == {s \in SUBSET S : g[s] = Cardinality(Units(w, s))}
<1> HIDE DEF g, h
<1>7. ASSUME NEW s \in SUBSET S, \A x \in s : s \ {x} \in C PROVE s \in C
  <2>1. g[s] = IF s = {} THEN 0
               ELSE w[CHOOSE x \in s : TRUE] + g[s \ {CHOOSE x \in s : TRUE}]
    BY <1>6 DEF Fold
  <2>2. CASE s = {}
    BY <1>3, <2>1, <2>2
  <2>3. CASE s # {}
    <3>1. PICK x \in s : x = CHOOSE y \in s : TRUE
      BY <2>3
    <3>2. g[s] = w[x] + Cardinality(Units(w, s \ {x}))
      BY <1>7, <2>1, <2>3, <3>1
    <3> QED BY <1>4, <3>1, <3>2
  <2> QED BY <2>2, <2>3
<1>8. \A s \in SUBSET S : s \in C
  <2> HIDE DEF C
  <2> QED BY <1>7, SubsetInduction
<1>9. S \in SUBSET S
  OBVIOUS
<1> QED BY <1>1, <1>8, <1>9

-------------------------------------------------------------------------------
(* The occurrences follow the claims                                           *)

\* One more claim of an event is one more unit, and a sum without the event is
\* unmoved.
LEMMA SumSteps ==
    ASSUME NEW E, NEW w \in [E -> Nat], NEW S \in SUBSET E, IsFiniteSet(S),
           NEW e \in E, NEW v \in [E -> Nat], v[e] = w[e] + 1,
           \A x \in E : x # e => v[x] = w[x]
    PROVE  /\ e \in S => Cardinality(Units(v, S)) = Cardinality(Units(w, S)) + 1
           /\ e \notin S => Cardinality(Units(v, S)) = Cardinality(Units(w, S))
<1>1. Cardinality(Units(w, S)) \in Nat /\ IsFiniteSet(Units(w, S))
  <2>1. S \in SUBSET S
    OBVIOUS
  <2> QED BY <2>1, UnitsAdd
<1>2. CASE e \notin S
  <2>1. Units(v, S) = Units(w, S)
    BY <1>2 DEF Units
  <2> QED BY <1>1, <1>2, <2>1
<1>3. CASE e \in S
  <2> DEFINE u == <<e, w[e] + 1>>
  <2>1. w[e] \in Nat
    OBVIOUS
  <2>2. Units(v, S) = Units(w, S) \cup {u}
    BY <1>3, <2>1 DEF Units
  <2>3. u \notin Units(w, S)
    BY <2>1 DEF Units
  <2> HIDE DEF u
  <2> QED BY <1>1, <1>3, <2>2, <2>3, FS_AddElement
<1> QED BY <1>2, <1>3

\* A fingerprint whose row is missing has no event that was counted, stored or not.
Counted(e) == events[e].counted \/ undo[e].counted
NewFp(f) == occ[f] # -1 /\ Of(f, Inherited) = {}
CountInv ==
    \A f \in Fps :
        /\ Occurrences(f) =
              Cardinality(Units(claims, Of(f, Events))) + Cardinality(Of(f, Unflagged))
                  - (IF backend = "postgres" /\ NewFp(f) THEN 1 ELSE 0)
        /\ occ[f] = -1 => Of(f, Inherited) = {} /\ \A e \in Of(f, Events) : ~Counted(e)

\* What the invariant says of sums is what the property says.
LEMMA CountsAreSums ==
    ASSUME Types, NEW f \in Fps
    PROVE  /\ IsFiniteSet(Of(f, Events)) /\ Of(f, Events) \in SUBSET Events
           /\ Claimed(f) = Cardinality(Units(claims, Of(f, Events))) + Cardinality(Of(f, Unflagged))
           /\ Cardinality(Units(claims, Of(f, Events))) \in Nat
           /\ Cardinality(Of(f, Unflagged)) \in Nat
<1>1. IsFiniteSet(Of(f, Events)) /\ Of(f, Events) \in SUBSET Events
  BY StorageAssumption, FS_Subset DEF Of
<1>2. claims \in [Events -> Nat]
  BY DEF Types
<1>3. MapThenSumSet(LAMBDA e : claims[e], Of(f, Events)) = Cardinality(Units(claims, Of(f, Events)))
  BY <1>1, <1>2, SumIsUnits
<1>4. Cardinality(Units(claims, Of(f, Events))) \in Nat
  <2>1. Of(f, Events) \in SUBSET Of(f, Events)
    OBVIOUS
  <2> QED BY <1>1, <1>2, <2>1, UnitsAdd
<1>5. Cardinality(Of(f, Unflagged)) \in Nat
  <2>1. Of(f, Unflagged) \in SUBSET Of(f, Events)
    BY StorageAssumption DEF Of, Unflagged, Inherited
  <2> QED BY <1>1, <2>1, FS_Subset, FS_CardinalityType
<1> QED BY <1>1, <1>3, <1>4, <1>5 DEF Claimed

\* An inherited event was counted by the earlier release, with its flag or without.
LEMMA InitCount == Init => CountInv
<1> SUFFICES ASSUME Init, NEW f \in Fps
             PROVE  /\ Occurrences(f) =
                          Cardinality(Units(claims, Of(f, Events))) + Cardinality(Of(f, Unflagged))
                              - (IF backend = "postgres" /\ NewFp(f) THEN 1 ELSE 0)
                    /\ occ[f] = -1 => Of(f, Inherited) = {} /\ \A e \in Of(f, Events) : ~Counted(e)
  BY DEF CountInv
<1>1. Types
  BY InitIInv DEF IInv
<1>2. occ[f] = IF Of(f, Inherited) = {} THEN -1 ELSE Cardinality(Of(f, Inherited))
  BY DEF Init, Of
<1>3. /\ Inherited \subseteq Events /\ IsFiniteSet(Of(f, Inherited))
      /\ Unflagged \in {{}, Inherited}
  <2>1. Inherited \subseteq Events
    BY StorageAssumption DEF Inherited
  <2>2. Of(f, Inherited) \in SUBSET Events
    BY <2>1 DEF Of
  <2> QED BY <2>1, <2>2, StorageAssumption, FS_Subset DEF Unflagged
<1>4. Cardinality(Of(f, Inherited)) \in Nat /\ (Of(f, Inherited) # {} => Cardinality(Of(f, Inherited)) # 0)
  BY <1>3, FS_CardinalityType, FS_EmptySet
<1>5. Cardinality(Of(f, Inherited)) =
         Cardinality(Units(claims, Of(f, Events))) + Cardinality(Of(f, Unflagged))
  <2>1. \A e \in Events : claims[e] = IF e \in Inherited \ Unflagged THEN 1 ELSE 0
    BY DEF Init
  <2>2. CASE Unflagged = Inherited
    <3>1. \A e \in Events : claims[e] = 0
      BY <2>1, <2>2
    <3>2. Units(claims, Of(f, Events)) = {}
      BY <3>1 DEF Units, Of
    <3> QED BY <1>4, <2>2, <3>2, FS_EmptySet
  <2>3. CASE Unflagged = {}
    <3>1. Units(claims, Of(f, Events)) = Of(f, Inherited) \X {1}
      BY <1>3, <2>1, <2>3 DEF Units, Of
    <3>2. Cardinality(Of(f, Inherited) \X {1}) = Cardinality(Of(f, Inherited)) * Cardinality({1})
      BY <1>3, FS_Singleton, FS_Product
    <3>3. Cardinality({1}) = 1
      BY FS_Singleton
    <3>4. Of(f, Unflagged) = {}
      BY <2>3 DEF Of
    <3> QED BY <1>4, <3>1, <3>2, <3>3, <3>4, FS_EmptySet
  <2> QED BY <1>3, <2>2, <2>3
<1>6. Of(f, Inherited) = {} => \A e \in Of(f, Events) : ~Counted(e)
  <2> SUFFICES ASSUME Of(f, Inherited) = {}, NEW e \in Of(f, Events) PROVE ~Counted(e)
    OBVIOUS
  <2>1. e \in Events /\ e \notin Inherited
    BY DEF Of
  <2>2. undo[e] = Absent /\ events[e] = Absent
    BY <2>1 DEF Init
  <2>3. Absent.counted = FALSE
    BY DEF Absent
  <2> QED BY <2>2, <2>3 DEF Counted
<1>7. ~NewFp(f) /\ Occurrences(f) = Cardinality(Of(f, Inherited))
  <2>1. CASE Of(f, Inherited) = {}
    BY <1>2, <2>1, FS_EmptySet DEF Occurrences, NewFp
  <2>2. CASE Of(f, Inherited) # {}
    BY <1>2, <1>4, <2>2 DEF Occurrences, NewFp
  <2> QED BY <2>1, <2>2
<1>8. occ[f] = -1 => Of(f, Inherited) = {}
  BY <1>2, <1>4
<1>9. Cardinality(Units(claims, Of(f, Events))) \in Nat /\ Cardinality(Of(f, Unflagged)) \in Nat
  BY <1>1, CountsAreSums
<1> QED BY <1>5, <1>6, <1>7, <1>8, <1>9

\* What the earlier release left does not change.
LEMMA SameOrigin ==
    ASSUME UNCHANGED <<backend, origin>>
    PROVE  Inherited' = Inherited /\ Unflagged' = Unflagged
  BY DEF Inherited, Unflagged, Latest, FlagVersion

\* A step that counts nothing, and after which no event is counted that was not.
LEMMA NothingCounted ==
    ASSUME CountInv, UNCHANGED <<backend, origin, occ, claims>>,
           \A e \in Events : Counted(e)' => Counted(e)
    PROVE  CountInv'
<1>1. Inherited' = Inherited /\ Unflagged' = Unflagged
  BY SameOrigin
<1>2. ASSUME NEW f \in Fps
      PROVE  /\ occ[f]' = occ[f] /\ Occurrences(f)' = Occurrences(f) /\ NewFp(f)' = NewFp(f)
             /\ Units(claims, Of(f, Events))' = Units(claims, Of(f, Events))
             /\ Of(f, Unflagged)' = Of(f, Unflagged) /\ Of(f, Inherited)' = Of(f, Inherited)
             /\ \A e \in Of(f, Events) : e \in Events
  BY <1>1 DEF Occurrences, NewFp, Of, Units
<1> QED BY <1>2 DEF CountInv, Of

\* A claim that finds its event uncounted is one more claim and one more occurrence,
\* but for the one that inserts the row on PostgreSQL; another claim is neither.
LEMMA ClaimCounts ==
    ASSUME IInv, Rest, CountInv, NEW e \in Events, ClaimEvent(e)
    PROVE  CountInv'
<1> DEFINE f == FpOf[e]
           before == events[e] # Absent /\ events[e].counted
           U(g) == Cardinality(Units(claims, Of(g, Events)))
           V(g) == Cardinality(Units(claims', Of(g, Events)))
           W(g) == Cardinality(Of(g, Unflagged))
<1>1. f \in Fps /\ claims \in [Events -> Nat] /\ claims' \in [Events -> Nat]
      /\ events \in [Events -> EventRow] /\ occ \in [Fps -> Nat \cup {-1}]
  <2>1. IInv'
    BY ClaimKeeps
  <2> QED BY <2>1, StorageAssumption DEF IInv, Types, Rest
<1>2. /\ UNCHANGED <<backend, origin>> /\ backend \in {"sqlite", "postgres"}
      /\ \A x \in Events : undo'[x] = Absent
  BY StorageAssumption DEF ClaimEvent, Commits, IInv, Types
<1>3. Inherited' = Inherited /\ Unflagged' = Unflagged
  BY <1>2, SameOrigin
<1>4. /\ claims' = IF before THEN claims ELSE [claims EXCEPT ![e] = claims[e] + 1]
      /\ \A x \in Events : x # e => events'[x] = events[x]
  BY <1>1 DEF ClaimEvent, ClaimSqlite, ClaimPostgres
<1>5. \E d \in {0, 1} : /\ d = 0 <=> before
                        /\ \/ backend = "sqlite" /\ SqliteUpsert(f, d)
                           \/ backend = "postgres" /\ PostgresUpsert(f, d)
  BY DEF ClaimEvent, ClaimSqlite, ClaimPostgres
<1>6. PICK d \in {0, 1} : /\ d = 0 <=> before
                          /\ \/ backend = "sqlite" /\ SqliteUpsert(f, d)
                             \/ backend = "postgres" /\ PostgresUpsert(f, d)
  BY <1>5
<1>7. /\ \A g \in Fps : g # f => occ'[g] = occ[g]
      /\ occ[f] # -1 => occ'[f] = occ[f] + d
      /\ occ[f] = -1 => occ'[f] = IF backend = "sqlite" THEN d ELSE 0
  BY <1>1, <1>6 DEF SqliteUpsert, PostgresUpsert
<1>8. ASSUME NEW g \in Fps
      PROVE  /\ U(g) \in Nat /\ W(g) \in Nat
             /\ g = f => V(g) = U(g) + d
             /\ g # f => V(g) = U(g)
  <2>1. /\ IsFiniteSet(Of(g, Events)) /\ Of(g, Events) \in SUBSET Events
        /\ U(g) \in Nat /\ W(g) \in Nat
    BY CountsAreSums DEF IInv
  <2>2. CASE before
    BY <1>4, <1>6, <2>1, <2>2
  <2>3. CASE ~before
    <3>1. PICK w \in [Events -> Nat], v \in [Events -> Nat], S \in SUBSET Events :
             w = claims /\ v = claims' /\ S = Of(g, Events)
      BY <1>1, <2>1
    <3>2. /\ v[e] = w[e] + 1 /\ \A x \in Events : x # e => v[x] = w[x]
          /\ IsFiniteSet(S)
      BY <1>4, <2>1, <2>3, <3>1
    <3>3. /\ e \in S => Cardinality(Units(v, S)) = Cardinality(Units(w, S)) + 1
          /\ e \notin S => Cardinality(Units(v, S)) = Cardinality(Units(w, S))
      BY <3>2, SumSteps
    <3>4. e \in S <=> g = f
      BY <3>1 DEF Of
    <3>5. Units(w, S) = Units(claims, Of(g, Events)) /\ Units(v, S) = Units(claims', Of(g, Events))
      BY <3>1
    <3>6. d = 1
      BY <1>6, <2>3
    <3> QED BY <2>1, <3>3, <3>4, <3>5, <3>6
  <2> QED BY <2>2, <2>3
<1>9. ASSUME NEW g \in Fps, g # f, occ[g] = -1
      PROVE  \A x \in Of(g, Events) : ~Counted(x)'
  <2>1. \A x \in Of(g, Events) : x \in Events /\ x # e /\ ~Counted(x)
    BY <1>9 DEF CountInv, Of
  <2>2. Absent.counted = FALSE
    BY DEF Absent
  <2> QED BY <1>2, <1>4, <2>1, <2>2 DEF Counted
<1>10. before => occ[f] # -1
  <2>1. e \in Of(f, Events)
    BY DEF Of
  <2> QED BY <1>1, <2>1 DEF CountInv, Counted
<1>11. ASSUME NEW g \in Fps
       PROVE  /\ Occurrences(g)' = V(g) + W(g) - (IF backend = "postgres" /\ NewFp(g)' THEN 1 ELSE 0)
              /\ occ'[g] = -1 => Of(g, Inherited) = {} /\ \A x \in Of(g, Events) : ~Counted(x)'
  <2>1. /\ occ[g] \in Nat \cup {-1}
        /\ Occurrences(g) = U(g) + W(g) - (IF backend = "postgres" /\ NewFp(g) THEN 1 ELSE 0)
        /\ occ[g] = -1 => Of(g, Inherited) = {}
    BY <1>1 DEF CountInv
  <2>2. /\ Occurrences(g) = IF occ[g] = -1 THEN 0 ELSE occ[g]
        /\ Occurrences(g)' = IF occ'[g] = -1 THEN 0 ELSE occ'[g]
    BY DEF Occurrences
  <2>3. /\ NewFp(g) <=> occ[g] # -1 /\ Of(g, Inherited) = {}
        /\ NewFp(g)' <=> occ'[g] # -1 /\ Of(g, Inherited) = {}
    BY <1>3 DEF NewFp, Of
  <2>4. U(g) \in Nat /\ W(g) \in Nat /\ (g = f => V(g) = U(g) + d) /\ (g # f => V(g) = U(g))
    BY <1>8
  <2> DEFINE a == U(g)
             b == V(g)
             c == W(g)
  <2>5. /\ a \in Nat /\ c \in Nat /\ (g = f => b = a + d) /\ (g # f => b = a)
        /\ Occurrences(g) = a + c - (IF backend = "postgres" /\ NewFp(g) THEN 1 ELSE 0)
    BY <2>1, <2>4
  <2> HIDE DEF a, b, c, f, before
  <2>6. CASE g # f
    <3>1. Occurrences(g)' = b + c - (IF backend = "postgres" /\ NewFp(g)' THEN 1 ELSE 0)
      BY <1>7, <2>1, <2>2, <2>3, <2>5, <2>6
    <3> QED BY <1>7, <1>9, <2>1, <2>6, <3>1 DEF b, c
  <2>7. CASE g = f
    <3>1. CASE occ[g] # -1
      <4>1. occ'[g] = occ[g] + d /\ occ'[g] # -1
        BY <1>7, <2>1, <2>7, <3>1
      <4>2. Occurrences(g)' = b + c - (IF backend = "postgres" /\ NewFp(g)' THEN 1 ELSE 0)
        BY <2>1, <2>2, <2>3, <2>5, <2>7, <3>1, <4>1
      <4> QED BY <4>1, <4>2 DEF b, c
    <3>2. CASE occ[g] = -1
      <4>1. d = 1 /\ Of(g, Inherited) = {}
        BY <1>6, <1>10, <2>1, <2>7, <3>2
      <4>2. occ'[g] = (IF backend = "sqlite" THEN 1 ELSE 0) /\ occ'[g] # -1
        BY <1>7, <2>7, <3>2, <4>1
      <4>3. Occurrences(g)' = b + c - (IF backend = "postgres" /\ NewFp(g)' THEN 1 ELSE 0)
        BY <1>2, <2>1, <2>2, <2>3, <2>5, <2>7, <3>2, <4>1, <4>2
      <4> QED BY <4>2, <4>3 DEF b, c
    <3> QED BY <3>1, <3>2
  <2> QED BY <2>6, <2>7
<1> QED BY <1>2, <1>3, <1>11 DEF CountInv, Of

LEMMA NextCount == IInv /\ Rest /\ CountInv /\ [Next]_vars => CountInv'
<1> SUFFICES ASSUME IInv, Rest, CountInv, [Next]_vars PROVE CountInv'
  OBVIOUS
<1>1. CASE \E e \in Events : ClaimEvent(e)
  BY <1>1, ClaimCounts
<1>2. CASE ~ \E e \in Events : ClaimEvent(e)
  <2>1. UNCHANGED <<backend, origin, occ, claims>>
    BY <1>2 DEF Next, vars, eventVars, Boot, RunScript, RunTransaction, FinishMigration, Crash,
           PruneEvents, Deleted, PruneDeliveries, RecordAudit, Tamper
  <2>2. Absent.counted = FALSE
    BY DEF Absent
  <2>3. \A e \in Events : /\ events'[e] \in {events[e], undo[e], Absent}
                          /\ undo'[e] \in {events[e], undo[e], Absent}
    <3>1. CASE Crash
      BY <3>1 DEF Crash
    <3>2. CASE PruneEvents
      BY <3>2 DEF PruneEvents, Deleted
    <3>3. CASE PruneDeliveries \/ \E b \in Entries : RecordAudit(b)
      BY <3>3 DEF PruneDeliveries, RecordAudit, Commits
    <3>4. CASE UNCHANGED <<events, undo>>
      BY <3>4
    <3> QED BY <1>2, <3>1, <3>2, <3>3, <3>4 DEF Next, vars, eventVars, Boot, RunScript,
          RunTransaction, FinishMigration, Tamper
  <2> QED BY <2>1, <2>2, <2>3, NothingCounted DEF Counted
<1> QED BY <1>1, <1>2

\* The occurrences of a fingerprint are the claims that counted, on either backend, and
\* whatever is replayed, pruned, undone or lost in a crash; PostgreSQL loses the first.
THEOREM CountFollows == Spec => []CountFollowsClaims
<1>1. IInv /\ CountInv => CountFollowsClaims
  <2> SUFFICES ASSUME IInv, CountInv PROVE CountFollowsClaims
    OBVIOUS
  <2>1. CountedOnce
    BY ClaimedOnce
  <2>2. ASSUME NEW f \in Fps
        PROVE  Occurrences(f) = Claimed(f) - (IF backend = "postgres" /\ NewFp(f) THEN 1 ELSE 0)
    BY CountsAreSums DEF CountInv, IInv
  <2> QED BY <2>1, <2>2 DEF CountFollowsClaims, CountedOnce, NewFp
<1>2. IInv /\ Rest /\ [Next]_vars => Rest'
  BY NextRest DEF IInv
<1> QED BY <1>1, <1>2, Invariance, InitRest, InitCount, NextCount, PTL DEF Spec
===============================================================================
