--------------------------- MODULE StorageBackends ---------------------------
(* The two implementations of the Storage contract, where they are not the    *)
(* same code: schema migration at startup, exactly-once counting with         *)
(* retention of log_events, the count a verification verdict is drawn from,   *)
(* and the hash chain of the audit table. Every method is one transaction     *)
(* under one lock, except where a definition says otherwise.                  *)
EXTENDS Integers, Sequences, FiniteSets, FiniteSetsExt

CONSTANTS
    Backends,           \* a subset of {"sqlite", "postgres"}
    Versions,           \* schema versions a database may be found at
    Fps, Events,
    FpOf,               \* FpOf[e]: the fingerprint of event e
    Legacy,             \* events counted before the fp_hash column existed
    Entries,            \* contents of an audit row
    MaxAudit, MaxPrunes, MaxTampers, MaxCrashes     \* bounds

VARIABLES
    backend,
    origin,             \* the schema version the database was found at
    boot,               \* the process: "down", "migrating", "up", or refusing to start
    version,            \* meta.schema_version
    done,               \* migration scripts whose statements are all in the database
    part,               \* a script interrupted in the middle, or 0
    at,                 \* the script the starting process is at
    occ,                \* fingerprints.occurrences; -1 without a row
    events,             \* log_events: the row of each stored event
    undo,               \* rows deleted by a prune that is not committed yet
    audit,              \* the audit table, by seq
    vouched,            \* contents recorded so far, but for what was cut off at the end
    claims, pruned,     \* how often an event was counted, and deleted
    tampers, crashes

\* SCHEMA_VERSION of each dialect, the version that adds log_events.counted and the
\* one that adds log_events.fp_hash.
Latest == IF backend = "sqlite" THEN 7 ELSE 3
FlagVersion == IF backend = "sqlite" THEN 6 ELSE 2
Schema == 1 .. Latest
schemaVars == <<boot, version, done, part, at>>
eventVars == <<occ, events, undo, claims, pruned>>
auditVars == <<audit, vouched, tampers>>
vars == <<backend, origin, schemaVars, eventVars, auditVars, crashes>>

ASSUME StorageAssumption ==
    /\ Backends \subseteq {"sqlite", "postgres"} /\ Versions \subseteq 0 .. 7
    /\ FpOf \in [Events -> Fps] /\ Legacy \subseteq Events /\ IsFiniteSet(Events)
    /\ {MaxAudit, MaxPrunes, MaxTampers, MaxCrashes} \subseteq Nat

Unknown == "unknown"        \* fp_hash is NULL
EventRow == [fp : Fps \cup {Unknown, "none"}, counted : BOOLEAN]
Absent == [fp |-> "none", counted |-> FALSE]

\* SHA-256 stands for what it identifies: the contents of the chain up to the row.
NoHash == <<>>
Hash(prev, body) == Append(prev, body)

TypeOK ==
    /\ backend \in Backends
    /\ origin \in Versions /\ origin <= version
    /\ boot \in {"down", "migrating", "up", "broken"}
    /\ version \in 0 .. Latest /\ done \subseteq Schema /\ part \in 0 .. Latest /\ at \in 1 .. Latest + 1
    /\ occ \in [Fps -> Nat \cup {-1}]
    /\ events \in [Events -> EventRow] /\ undo \in [Events -> EventRow]
    /\ \A i \in DOMAIN audit : audit[i].body \in Entries
    /\ claims \in [Events -> Nat] /\ pruned \in [Events -> Nat]
    /\ \A e \in Events : undo[e] # Absent => events[e] = Absent

-------------------------------------------------------------------------------
(* A database left by an earlier release, or an empty one. Audit rows older than *)
(* version 5 have no hash.                                                       *)

\* The events stored by the earlier release: without fp_hash, and uncounted to this
\* one when they are older than the flag.
Inherited == IF origin \in 1 .. Latest - 1 THEN Legacy ELSE {}
Unflagged == IF origin < FlagVersion THEN Inherited ELSE {}

Init ==
    /\ backend \in Backends
    /\ origin \in Versions /\ origin <= Latest /\ version = origin
    /\ boot = "down" /\ done = 1 .. version /\ part = 0 /\ at = 1
    /\ events = [e \in Events |-> IF e \in Inherited
                                  THEN [fp |-> Unknown, counted |-> e \notin Unflagged]
                                  ELSE Absent]
    /\ claims = [e \in Events |-> IF e \in Inherited \ Unflagged THEN 1 ELSE 0]
    /\ occ = [f \in Fps |-> LET old == {e \in Inherited : FpOf[e] = f}
                            IN IF old = {} THEN -1 ELSE Cardinality(old)]
    /\ undo = [e \in Events |-> Absent]
    /\ pruned = [e \in Events |-> 0]
    /\ \E b \in Entries :
          vouched = IF backend = "sqlite" /\ version \in 1 .. 4 THEN <<b, b>> ELSE <<>>
    /\ audit = [i \in DOMAIN vouched |-> [body |-> vouched[i], prev |-> NoHash, hash |-> NoHash]]
    /\ tampers = 0 /\ crashes = 0

-------------------------------------------------------------------------------
(* Startup                                                                     *)

Boot ==
    /\ boot = "down"
    /\ boot' = "migrating" /\ at' = version + 1
    /\ UNCHANGED <<backend, origin, version, done, part, eventVars, auditVars, crashes>>

\* Scripts 1 and 4 create what does not exist; every other one adds a column, which
\* fails when the column is there.
Repeatable == {1, 4}

RunScript_VersionFirst ==
    /\ boot = "migrating" /\ backend = "sqlite" /\ at <= Latest
    /\ done' = done \cup {at} /\ at' = at + 1 /\ version' = Latest
    /\ UNCHANGED <<backend, origin, boot, part, eventVars, auditVars, crashes>>

\* SqliteStorage._migrate: executescript commits each statement as it goes.
RunScript ==
    /\ boot = "migrating" /\ backend = "sqlite" /\ at <= Latest
    /\ IF at \in (done \cup {part}) \ Repeatable
       THEN boot' = "broken" /\ UNCHANGED <<done, part, at>>
       ELSE /\ done' = done \cup {at} /\ at' = at + 1
            /\ part' = IF part = at THEN 0 ELSE part
            /\ UNCHANGED boot
    /\ UNCHANGED <<backend, origin, version, eventVars, auditVars, crashes>>

\* PostgresStorage._migrate: one transaction of repeatable statements.
RunTransaction ==
    /\ boot = "migrating" /\ backend = "postgres"
    /\ done' = Schema /\ part' = 0 /\ version' = Latest /\ boot' = "up"
    /\ UNCHANGED <<backend, origin, at, eventVars, auditVars, crashes>>

Backfill_Skipped == audit

\* _backfill_audit_chain: rows without a hash are chained to the last row that has
\* one before them.
Backfill ==
    LET bare == {i \in DOMAIN audit : audit[i].hash = NoHash}
        base == IF bare = {} \/ Min(bare) = 1 THEN NoHash ELSE audit[Min(bare) - 1].hash
        linked(i) == base \o [k \in 1 .. Cardinality({j \in bare : j <= i}) |->
                               audit[CHOOSE j \in bare : Cardinality({h \in bare : h <= j}) = k].body]
    IN [i \in DOMAIN audit |->
          IF i \in bare
          THEN [audit[i] EXCEPT !.hash = linked(i), !.prev = SubSeq(linked(i), 1, Len(linked(i)) - 1)]
          ELSE audit[i]]

\* The version is recorded, and committed, after the last script.
FinishMigration ==
    /\ boot = "migrating" /\ backend = "sqlite" /\ at > Latest
    /\ version' = Latest /\ boot' = "up"
    /\ audit' = Backfill
    /\ UNCHANGED <<backend, origin, done, part, at, eventVars, vouched, tampers, crashes>>

\* The process dies: a script may be half done, and a prune not committed is undone.
Crash ==
    /\ boot \in {"migrating", "up"} /\ crashes < MaxCrashes
    /\ boot' = "down" /\ crashes' = crashes + 1
    /\ IF boot = "migrating" /\ backend = "sqlite" /\ at <= Latest
       THEN part' \in {part, at} ELSE UNCHANGED part
    /\ events' = [e \in Events |-> IF undo[e] = Absent THEN events[e] ELSE undo[e]]
    /\ pruned' = [e \in Events |-> pruned[e] - (IF undo[e] = Absent THEN 0 ELSE 1)]
    /\ undo' = [e \in Events |-> Absent]
    /\ UNCHANGED <<backend, origin, version, done, at, occ, claims, auditVars>>

-------------------------------------------------------------------------------
(* Counting and retention                                                      *)

\* Any committed write of the connection commits an open prune with it.
Commits == boot = "up" /\ undo' = [e \in Events |-> Absent]

\* _record_occurrence_locked: a missing row is inserted with the increment.
SqliteUpsert(f, delta) ==
    occ' = [occ EXCEPT ![f] = IF occ[f] = -1 THEN delta ELSE occ[f] + delta]

\* _upsert_occurrence_locked: a missing row is inserted with the occurrences of the
\* incoming fingerprint, which are 0; the increment applies on conflict only.
PostgresUpsert(f, delta) ==
    occ' = [occ EXCEPT ![f] = IF occ[f] = -1 THEN 0 ELSE occ[f] + delta]

ClaimSqlite_FlagLost(e) ==
    /\ backend = "sqlite"
    /\ IF events[e] # Absent /\ events[e].counted
       THEN SqliteUpsert(FpOf[e], 0) /\ UNCHANGED <<events, claims>>
       ELSE /\ SqliteUpsert(FpOf[e], 1)
            /\ events' = [events EXCEPT ![e] = [fp |-> Unknown, counted |-> FALSE]]
            /\ claims' = [claims EXCEPT ![e] = claims[e] + 1]

ClaimSqlite(e) ==
    /\ backend = "sqlite"
    /\ IF events[e] # Absent /\ events[e].counted
       THEN SqliteUpsert(FpOf[e], 0) /\ UNCHANGED <<events, claims>>
       ELSE /\ SqliteUpsert(FpOf[e], 1)
            /\ events' = [events EXCEPT ![e] = [fp |-> FpOf[e], counted |-> TRUE]]
            /\ claims' = [claims EXCEPT ![e] = claims[e] + 1]

ClaimPostgres(e) ==
    /\ backend = "postgres"
    /\ IF events[e] # Absent /\ events[e].counted
       THEN PostgresUpsert(FpOf[e], 0) /\ UNCHANGED <<events, claims>>
       ELSE /\ PostgresUpsert(FpOf[e], 1)
            /\ events' = [events EXCEPT ![e] = [fp |-> FpOf[e], counted |-> TRUE]]
            /\ claims' = [claims EXCEPT ![e] = claims[e] + 1]

\* claim_event, for an event that may be replayed any number of times.
ClaimEvent(e) ==
    /\ Commits
    /\ claims[e] <= MaxPrunes
    /\ ClaimSqlite(e) \/ ClaimPostgres(e)
    /\ UNCHANGED <<backend, origin, schemaVars, pruned, auditVars, crashes>>

Deleted(gone) ==
    /\ events' = [e \in Events |-> IF e \in gone THEN Absent ELSE events[e]]
    /\ pruned' = [e \in Events |-> pruned[e] + (IF e \in gone THEN 1 ELSE 0)]
    /\ UNCHANGED <<backend, origin, schemaVars, occ, claims, auditVars, crashes>>

Stored == {e \in Events : events[e] # Absent}

\* prune_events deletes by the sender's timestamp, so any stored event may be old.
\* On SQLite the delete opens a transaction that the next write commits.
PruneEvents ==
    /\ boot = "up"
    /\ \E gone \in SUBSET {e \in Stored : pruned[e] < MaxPrunes} :
          /\ gone # {}
          /\ Deleted(gone)
          /\ undo' = IF backend = "postgres" THEN undo
                     ELSE [e \in Events |-> IF e \in gone THEN events[e] ELSE undo[e]]

\* run_retention goes on to prune_deliveries, which commits.
PruneDeliveries ==
    /\ Commits /\ undo # undo'
    /\ UNCHANGED <<backend, origin, schemaVars, occ, events, claims, pruned, auditVars, crashes>>

CountWindow_TrustsNull(f, window) == Cardinality({e \in window \cap Stored : events[e].fp = f})

\* count_fingerprint_events over a window of events: no answer while one of them has
\* no fp_hash.
CountWindow(f, window) ==
    IF \E e \in window \cap Stored : events[e].fp = Unknown
    THEN -1
    ELSE Cardinality({e \in window \cap Stored : events[e].fp = f})

-------------------------------------------------------------------------------
(* Audit                                                                       *)

LastHash == IF audit = <<>> THEN NoHash ELSE audit[Len(audit)].hash

RecordAudit(b) ==
    /\ Commits /\ Len(audit) < MaxAudit
    /\ audit' = Append(audit, [body |-> b, prev |-> LastHash, hash |-> Hash(LastHash, b)])
    /\ vouched' = Append(vouched, b)
    /\ UNCHANGED <<backend, origin, schemaVars, occ, events, claims, pruned, tampers, crashes>>

\* verify_audit_chain: every row against the hash recomputed from the one before.
VerifyAuditChain ==
    \A i \in DOMAIN audit :
        LET prev == IF i = 1 THEN NoHash ELSE audit[i - 1].hash
        IN audit[i].prev = prev /\ audit[i].hash = Hash(prev, audit[i].body)

\* Someone edits a row of the table, or deletes one; the rest stays as it is.
EditRow(i, b) ==
    /\ tampers < MaxTampers /\ i \in DOMAIN audit
    /\ audit' = [audit EXCEPT ![i].body = b]
    /\ UNCHANGED vouched
DeleteRow(i) ==
    /\ tampers < MaxTampers /\ i \in DOMAIN audit
    /\ audit' = SubSeq(audit, 1, i - 1) \o SubSeq(audit, i + 1, Len(audit))
    /\ vouched' = IF i = Len(audit) /\ Len(vouched) = Len(audit)
                  THEN SubSeq(vouched, 1, i - 1) ELSE vouched
Tamper ==
    /\ boot = "up" /\ audit # <<>>
    /\ \E i \in DOMAIN audit : (\E b \in Entries : EditRow(i, b)) \/ DeleteRow(i)
    /\ tampers' = tampers + 1
    /\ UNCHANGED <<backend, origin, schemaVars, eventVars, crashes>>

Next ==
    \/ Boot \/ RunScript \/ RunTransaction \/ FinishMigration \/ Crash
    \/ \E e \in Events : ClaimEvent(e)
    \/ PruneEvents \/ PruneDeliveries
    \/ \E b \in Entries : RecordAudit(b)
    \/ Tamper

Spec == Init /\ [][Next]_vars

-------------------------------------------------------------------------------
(* Properties                                                                  *)

Occurrences(f) == IF occ[f] = -1 THEN 0 ELSE occ[f]
Of(f, S) == {e \in S : FpOf[e] = f}
Claimed(f) == MapThenSumSet(LAMBDA e : claims[e], Of(f, Events)) + Cardinality(Of(f, Unflagged))

\* What claim_event promises: every claim that found its event uncounted is in the
\* fingerprint's occurrences.
OccurrencesExact == \A f \in Fps : Occurrences(f) = Claimed(f)

\* What both backends keep: the count follows the claims, but for the one that
\* inserted the row on PostgreSQL; and an event is counted again only when retention
\* had deleted its row, never for a replay, a crash or an undone prune.
CountFollowsClaims ==
    /\ \A f \in Fps :
          LET inserted == occ[f] # -1 /\ Of(f, Inherited) = {}
          IN Occurrences(f) = Claimed(f) - (IF backend = "postgres" /\ inserted THEN 1 ELSE 0)
    /\ \A e \in Events : claims[e] <= 1 + pruned[e]

\* The count a verification verdict is drawn from is right or withheld: with events
\* older than the fp_hash column in the window it is never a number.
VerdictCountIsHonest ==
    \A f \in Fps, window \in SUBSET Events :
        CountWindow(f, window) \in {-1, Cardinality(Of(f, window \cap Stored))}

\* The chain verifies exactly when the rows are the ones recorded, in order; what it
\* cannot see is a cut at the end. Rows older than the chain are included. It tells one
\* tampering: a second may undo the first, or with it amount to a cut at the end.
AuditTells ==
    boot = "up" /\ tampers <= 1 =>
        (VerifyAuditChain <=> [i \in DOMAIN audit |-> audit[i].body] = vouched)

\* A process serves only with the whole schema and its version in place, whatever
\* crashes interrupted earlier migrations.
ServesWholeSchema == boot = "up" => done = Schema /\ version = Latest
==============================================================================
