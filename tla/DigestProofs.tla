----------------------------- MODULE DigestProofs -----------------------------
(* Safety of Digest for every number of fingerprints, of threads that handle    *)
(* comments, of audit lines read, of days and of mishaps. The invariant has     *)
(* three parts that do not need each other: where tickets come from, what the   *)
(* passes of a day know of each other, and what the approvals of a candidate    *)
(* do. Each has one lemma for the steps that leave it alone, and lemmas for the *)
(* few actions that do not.                                                     *)
EXTENDS Digest, FiniteSetTheorems, WellFoundedInduction, TLAPS

Creates == {"create", "find", "recover", "bind"}
Releasing == {"release", "fixing", "log"}

\* Who does what, and on what: a ticket, an investigation or a release is of one
\* fingerprint, a digest and a release are of a day.
RoleOf(a, r) ==
    /\ r.pc \in Creates => a = "ingest"
    /\ r.pc \in Releasing => a \in Workers
    /\ r.pc \in Creates \cup Releasing \cup {"judge"} => \E f \in Fps : r.fps = {f}
    /\ r.pc \in Releasing \cup {"open", "record"} => r.day \in Days
    /\ r.pc = "record" => r.issue \in DOMAIN issues /\ issues[r.issue].day = r.day
    /\ r.pc = "log" => r.result # "none"
Roles == \A a \in Actors : RoleOf(a, act[a])

\* Why a fingerprint may be bound to a digest that names it.
Reason(f) == f \in unanswered \/ <<f, "ticket">> \in erased
TicketOf(f, i) ==
    i \in DOMAIN issues /\ f \in issues[i].about /\ (IsDigest(i) => Reason(f))

\* What a thread holds of f: an older row, and the issue it will bind.
Holds(f, r) ==
    /\ r.snap.kept => r.snap.ticket = 0
    /\ r.snap.ticket # 0 => TicketOf(f, r.snap.ticket)
    /\ r.pc \in {"find", "recover"} => Reason(f)
    /\ r.pc = "recover" => r.snap.ticket = 0
    /\ r.pc = "bind" => TicketOf(f, r.issue)

Creating(f) == act["ingest"].pc \in Creates /\ act["ingest"].fps = {f}

\* A reservation is the ingest's, or left over from a creation without an answer.
RowOf(f) ==
    /\ row[f].kept => row[f].ticket = 0 /\ (Creating(f) \/ Reason(f))
    /\ row[f].ticket # 0 => TicketOf(f, row[f].ticket)
TicketInv ==
    /\ \A a \in Actors, f \in Fps : act[a].fps = {f} => Holds(f, act[a])
    /\ \A f \in Fps : RowOf(f)

\* So many approvals came on the day that its digest left the lines that are read.
Pushed(d) == Cardinality({n \in DOMAIN log[d] : log[d][n].what # "create"}) >= Recent
DigestsOf(d) == {i \in DOMAIN issues : issues[i].day = d}
Passing(a, d) == act[a].pc \in {"open", "record"} /\ act[a].day = d
Recorded(d, i) == \E n \in DOMAIN log[d] : log[d][n].what = "create" /\ log[d][n].issue = i
Recording(d, i) == \E a \in Actors : act[a].pc = "record" /\ act[a].day = d /\ act[a].issue = i

\* On a day without an excuse, passes come one after the other, each digest is on record
\* or about to be, and who opens one found none, or none any more.
DayInv(d) ==
    /\ \A a, b \in Actors : Passing(a, d) /\ Passing(b, d) => a = b
    /\ \A i \in DigestsOf(d) : Recorded(d, i) \/ Recording(d, i)
    /\ \A a \in Actors : act[a].pc = "open" /\ act[a].day = d /\ DigestsOf(d) # {} => Pushed(d)
    /\ \A i, j \in DigestsOf(d) : i = j \/ Pushed(d)
DigestInv == \A d \in Days \ excused : DayInv(d)

\* The branch of f was erased; the release of f from d is not among the lines read.
Erased(f) == <<f, "branch">> \in erased
Beyond(d, f) == <<d, f>> \in unrecorded \/ Len(log[d]) > Released
Told(d, f) == \E n \in DOMAIN log[d] : log[d][n].what = "delivered" /\ f \in log[d][n].fps
About(w, d, f) == act[w].day = d /\ act[w].fps = {f}
Given(d, f) == given[<<d, f>>] >= 1

\* One fix at a time. A given draft is a branch on the row, or a save erased it; it is on
\* record, or about to be, or never will; who approves it a second time did not see it.
ReleaseOf(d, f) ==
    /\ Given(d, f) =>
          /\ row[f].branch \/ Erased(f)
          /\ \/ <<d, f>> \in unrecorded \/ Told(d, f)
             \/ \E w \in Workers : act[w].pc = "log" /\ act[w].result = "delivered" /\ About(w, d, f)
    /\ \A w \in Workers :
          /\ act[w].pc = "fixing" /\ act[w].fps = {f} /\ Given(d, f) => Erased(f)
          /\ act[w].pc \in {"release", "fixing"} /\ About(w, d, f) /\ Given(d, f) => Beyond(d, f)
    /\ \A v, w \in Workers :
          act[v].pc \in Releasing /\ act[w].pc \in Releasing /\ About(v, d, f) /\ About(w, d, f)
             => v = w \/ <<d, f>> \in unrecorded
    /\ given[<<d, f>>] > 1 => Erased(f) /\ Beyond(d, f)
ApprovalInv ==
    /\ \A v, w \in Workers : act[v].pc = "fixing" /\ act[w].pc = "fixing" => v = w
    /\ \A d \in Days, f \in Fps : ReleaseOf(d, f)

Types == TypeOK /\ Roles
IInv == Types /\ TicketInv /\ DigestInv /\ ApprovalInv

-------------------------------------------------------------------------------
(* Types                                                                        *)

\* What is on record at the forge and in the audit log.
World ==
    /\ issues \in Seq(Issues) /\ Len(issues) <= MaxIssues /\ day \in Days
    /\ \A i \in DOMAIN issues : issues[i].day <= day
    /\ log \in [Days -> Seq(AuditLines)]
    /\ \A d \in Days : \A n \in DOMAIN log[d] :
          log[d][n].what = "create" => /\ log[d][n].issue \in DOMAIN issues
                                       /\ issues[log[d][n].issue].day = d
Marks ==
    /\ verdict \in [Fps -> BOOLEAN] /\ comments \in 0 .. MaxComments /\ mishaps \in 0 .. MaxMishaps
    /\ excused \subseteq Days /\ unanswered \subseteq Fps /\ given \in [Days \X Fps -> Nat]
    /\ unrecorded \subseteq Days \X Fps /\ erased \subseteq Fps \X {"branch", "ticket"}
RowTypes == row \in [Fps -> Rows] /\ \A f \in Fps : row[f].ticket \in 0 .. Len(issues)
ActTypes == act \in [Actors -> Acts] /\ \A a \in Actors : act[a].day <= day /\ act[a].issue <= Len(issues)

\* The type invariant in four parts.
LEMMA TypeParts == TypeOK <=> World /\ Marks /\ RowTypes /\ ActTypes
  BY DEF TypeOK, World, Marks, RowTypes, ActTypes

\* What only grows.
Later ==
    /\ Len(issues) <= Len(issues') /\ day <= day'
    /\ \A i \in DOMAIN issues : i \in DOMAIN issues' /\ issues'[i] = issues[i]
    /\ unanswered \subseteq unanswered' /\ erased \subseteq erased'
    /\ unrecorded \subseteq unrecorded' /\ excused \subseteq excused'
    /\ \A d \in Days : /\ Len(log[d]) <= Len(log'[d])
                       /\ \A n \in DOMAIN log[d] : n \in DOMAIN log'[d] /\ log'[d][n] = log[d][n]

\* The fields of a thread.
LEMMA ActFields ==
    ASSUME NEW r \in Acts
    PROVE  /\ r.pc \in Pcs /\ r.fps \subseteq Fps /\ r.snap \in Rows /\ r.day \in 0 .. MaxDay
           /\ r.issue \in 0 .. MaxIssues /\ r.result \in {"none", "delivered", "refused", "failed"}
  BY DEF Acts
\* The fields of a row.
LEMMA RowFields ==
    ASSUME NEW u \in Rows
    PROVE  u.state \in States /\ u.ticket \in 0 .. MaxIssues /\ u.kept \in BOOLEAN /\ u.branch \in BOOLEAN
  BY DEF Rows

\* What the types say of one thread.
LEMMA OneActor ==
    ASSUME Types, NEW a \in Actors
    PROVE  /\ act \in [Actors -> Acts] /\ act[a] \in Acts /\ act[a].snap \in Rows /\ RoleOf(a, act[a])
           /\ act[a].day <= day /\ act[a].issue <= Len(issues) /\ act[a].fps \subseteq Fps
  BY ActFields DEF Types, TypeOK, Roles

\* An idle thread.
LEMMA IdleFields ==
    /\ NewRow \in Rows /\ NewRow.ticket = 0 /\ NewRow.kept = FALSE /\ NewRow.branch = FALSE
    /\ NewRow.state = "new"
    /\ Idle \in Acts /\ Idle.pc = "idle" /\ Idle.fps = {} /\ Idle.snap = NewRow /\ Idle.day = 0
    /\ Idle.issue = 0 /\ Idle.result = "none"
<1>1. /\ NewRow \in Rows /\ NewRow.ticket = 0 /\ NewRow.kept = FALSE /\ NewRow.branch = FALSE
      /\ NewRow.state = "new"
  BY DigestAssumption DEF NewRow, Rows, States
<1>2. /\ Idle.pc = "idle" /\ Idle.fps = {} /\ Idle.snap = NewRow /\ Idle.day = 0
      /\ Idle.issue = 0 /\ Idle.result = "none"
  BY DEF Idle
<1>3. Idle \in Acts
  <2>1. "idle" \in Pcs /\ 0 \in 0 .. MaxDay /\ 0 \in 0 .. MaxIssues
    BY DigestAssumption DEF Pcs
  <2> QED BY <1>1, <2>1 DEF Acts, Idle
<1> QED BY <1>1, <1>2, <1>3

\* An idle thread has no role and holds nothing.
LEMMA IdleHolds ==
    ASSUME NEW a, NEW f PROVE RoleOf(a, Idle) /\ Holds(f, Idle)
  BY IdleFields DEF RoleOf, Holds, Creates, Releasing

\* The fingerprint of a thread that has one.
LEMMA ItsOne == ASSUME NEW a, NEW f \in Fps, act[a].fps = {f} PROVE Its(a) = f
  BY DEF Its

\* A thread a goes on with r, and nobody else moves.
Turns(a, r) == act' = [act EXCEPT ![a] = r]

\* Then the others are as they were.
LEMMA TurnedTo ==
    ASSUME Types, NEW a \in Actors, NEW r \in Acts, Turns(a, r)
    PROVE  /\ act' \in [Actors -> Acts] /\ act'[a] = r
           /\ \A b \in Actors \ {a} : act'[b] = act[b]
           /\ \A b \in Actors : act'[b] = IF b = a THEN r ELSE act[b]
  BY OneActor DEF Turns

\* The parts of the type invariant after a step.
LEMMA TypesKept ==
    ASSUME Types, NEW a \in Actors, NEW r \in Acts, Turns(a, r), Later,
           World', Marks', RowTypes', RoleOf(a, r)', r.day <= day', r.issue <= Len(issues')
    PROVE  Types'
<1>1. /\ act' \in [Actors -> Acts] /\ act'[a] = r
      /\ \A b \in Actors \ {a} : act'[b] = act[b]
  BY TurnedTo
<1>2. day \in Int /\ day' \in Int /\ day <= day'
  BY DigestAssumption DEF Types, TypeOK, World, Days, Later
<1>3. Len(issues) \in Nat /\ Len(issues') \in Nat /\ Len(issues) <= Len(issues')
  BY DEF Types, TypeOK, World, Later
<1>4. ActTypes'
  <2>1. ASSUME NEW b \in Actors PROVE act'[b].day <= day' /\ act'[b].issue <= Len(issues')
    <3>1. CASE b = a
      BY <1>1, <3>1
    <3>2. CASE b # a
      <4>1. act'[b] = act[b] /\ act[b].day <= day /\ act[b].issue <= Len(issues)
            /\ act[b].day \in Int /\ act[b].issue \in Int
        BY <1>1, <3>2, OneActor, ActFields, DigestAssumption
      <4> QED BY <1>2, <1>3, <4>1
    <3> QED BY <3>1, <3>2
  <2> QED BY <1>1, <2>1 DEF ActTypes
<1>5. Roles'
  <2>1. ASSUME NEW b \in Actors PROVE RoleOf(b, act[b])'
    <3>1. CASE b = a
      BY <1>1, <3>1 DEF RoleOf
    <3>2. CASE b # a
      <4>1. act'[b] = act[b] /\ RoleOf(b, act[b])
        BY <1>1, <3>2, OneActor
      <4> QED BY <4>1 DEF RoleOf, Later
    <3> QED BY <3>1, <3>2
  <2> QED BY <2>1 DEF Roles, RoleOf
<1>6. TypeOK'
  BY <1>4 DEF TypeOK, World, Marks, RowTypes, ActTypes
<1> QED BY <1>5, <1>6 DEF Types

-------------------------------------------------------------------------------
(* The forge and the log                                                        *)

\* Neither changes.
LEMMA WorldSame ==
    ASSUME Types, UNCHANGED <<issues, log, day>>, unanswered \subseteq unanswered', erased \subseteq erased',
           unrecorded \subseteq unrecorded', excused \subseteq excused'
    PROVE  World' /\ Later
<1>1. World'
  BY DEF Types, TypeOK, World
<1>2. Len(issues) \in Int /\ day \in Int /\ \A d \in Days : Len(log[d]) \in Int
  BY DigestAssumption DEF Types, TypeOK, Days
<1> QED BY <1>1, <1>2 DEF Later

\* An issue is made, behind the others.
LEMMA WorldLands ==
    ASSUME Types, NEW fps \in SUBSET Fps, NEW d \in 0 .. MaxDay, d <= day, Lands(fps, d), UNCHANGED <<log, day>>,
           unanswered \subseteq unanswered', erased \subseteq erased',
           unrecorded \subseteq unrecorded', excused \subseteq excused'
    PROVE  /\ World' /\ Later
           /\ Len(issues') = Len(issues) + 1 /\ DOMAIN issues' = DOMAIN issues \cup {Len(issues) + 1}
           /\ issues'[Len(issues) + 1].about = fps /\ issues'[Len(issues) + 1].day = d
           /\ Len(issues) \in Nat /\ Len(issues) + 1 \notin DOMAIN issues /\ Len(issues) < MaxIssues
<1> DEFINE v == [about |-> fps, day |-> d]
<1>1. v \in Issues /\ v.about = fps /\ v.day = d
  BY DEF Issues
<1>2. issues \in Seq(Issues) /\ issues' = Append(issues, v) /\ Len(issues) < MaxIssues
  BY DEF Lands, Types, TypeOK
<1> HIDE DEF v
<1>3. /\ issues' \in Seq(Issues) /\ Len(issues) \in Nat /\ Len(issues') = Len(issues) + 1
      /\ DOMAIN issues = 1 .. Len(issues) /\ DOMAIN issues' = 1 .. Len(issues) + 1
      /\ \A i \in 1 .. Len(issues) : issues'[i] = issues[i]
      /\ issues'[Len(issues) + 1] = v
  BY <1>1, <1>2
<1>4. day \in Int /\ \A e \in Days : Len(log[e]) \in Int
  BY DigestAssumption DEF Types, TypeOK, Days
<1>5. Later
  BY <1>3, <1>4 DEF Later
<1>6. World'
  <2>1. ASSUME NEW i \in DOMAIN issues' PROVE issues'[i].day <= day'
    <3>1. i \in 1 .. Len(issues) \/ i = Len(issues) + 1
      BY <1>3
    <3>2. CASE i \in 1 .. Len(issues)
      BY <1>3, <3>2 DEF Types, TypeOK
    <3>3. CASE i = Len(issues) + 1
      BY <1>1, <1>3, <3>3
    <3> QED BY <3>1, <3>2, <3>3
  <2>2. Len(issues') <= MaxIssues
    BY <1>2, <1>3, DigestAssumption
  <2>3. \A e \in Days : \A n \in DOMAIN log[e] :
          log[e][n].what = "create" => /\ log[e][n].issue \in DOMAIN issues'
                                       /\ issues'[log[e][n].issue].day = e
    BY <1>3 DEF Types, TypeOK
  <2> QED BY <1>3, <2>1, <2>2, <2>3 DEF World, Types, TypeOK
<1> QED BY <1>1, <1>2, <1>3, <1>5, <1>6

\* A line is written, behind the others of its day.
LEMMA WorldWrites ==
    ASSUME Types, NEW a \in Actors, act[a].day \in Days,
           NEW what \in {"create", "delivered", "refused", "failed"}, Writes(a, what),
           what = "create" => act[a].issue \in DOMAIN issues /\ issues[act[a].issue].day = act[a].day,
           UNCHANGED <<issues, day>>,
           unanswered \subseteq unanswered', erased \subseteq erased',
           unrecorded \subseteq unrecorded', excused \subseteq excused'
    PROVE  /\ World' /\ Later
           /\ \E n \in DOMAIN log'[act[a].day] :
                log'[act[a].day][n] = [what |-> what, fps |-> act[a].fps, issue |-> act[a].issue]
<1> DEFINE v == [what |-> what, fps |-> act[a].fps, issue |-> act[a].issue]
           e == act[a].day
<1>1. v \in AuditLines /\ v.what = what /\ v.issue = act[a].issue
  <2>1. act[a].fps \subseteq Fps /\ act[a].issue \in 0 .. MaxIssues
    BY OneActor, ActFields
  <2> QED BY <2>1 DEF AuditLines
<1>2. log \in [Days -> Seq(AuditLines)] /\ e \in Days /\ log' = [log EXCEPT ![e] = Append(@, v)]
  BY DEF Writes, Types, TypeOK
<1> HIDE DEF v
<1>3. \A d \in Days : log'[d] = IF d = e THEN Append(log[e], v) ELSE log[d]
  BY <1>2
<1>4. /\ log[e] \in Seq(AuditLines) /\ Append(log[e], v) \in Seq(AuditLines)
      /\ Len(log[e]) \in Nat /\ DOMAIN log[e] = 1 .. Len(log[e])
      /\ Len(Append(log[e], v)) = Len(log[e]) + 1
      /\ DOMAIN Append(log[e], v) = 1 .. Len(log[e]) + 1
      /\ \A n \in 1 .. Len(log[e]) : Append(log[e], v)[n] = log[e][n]
      /\ Append(log[e], v)[Len(log[e]) + 1] = v
  <2>1. log[e] \in Seq(AuditLines)
    BY <1>2
  <2> HIDE DEF e
  <2> QED BY <1>1, <2>1
<1>5. Len(issues) \in Int /\ day \in Int /\ \A d \in Days : Len(log[d]) \in Int
  BY DigestAssumption DEF Types, TypeOK, Days
<1>6. Later
  <2>1. ASSUME NEW d \in Days
        PROVE  /\ Len(log[d]) <= Len(log'[d])
               /\ \A n \in DOMAIN log[d] : n \in DOMAIN log'[d] /\ log'[d][n] = log[d][n]
    <3> HIDE DEF e
    <3>1. CASE d = e
      <4> DEFINE l == Append(log[e], v)
                 k == log[e]
      <4>1. log'[d] = l /\ log[d] = k
        BY <1>3, <3>1
      <4>2. Len(k) \in Nat /\ Len(l) = Len(k) + 1 /\ DOMAIN k = 1 .. Len(k) /\ DOMAIN l = 1 .. Len(k) + 1
            /\ \A n \in 1 .. Len(k) : l[n] = k[n]
        BY <1>4
      <4> HIDE DEF l, k
      <4> QED BY <4>1, <4>2
    <3>2. CASE d # e
      BY <1>3, <1>5, <3>2
    <3> QED BY <3>1, <3>2
  <2> QED BY <1>5, <2>1 DEF Later
<1>7. World'
  <2>1. log' \in [Days -> Seq(AuditLines)]
    <3> HIDE DEF e
    <3> QED BY <1>2, <1>4
  <2>2. ASSUME NEW d \in Days, NEW n \in DOMAIN log'[d], log'[d][n].what = "create"
        PROVE  log'[d][n].issue \in DOMAIN issues /\ issues[log'[d][n].issue].day = d
    <3>1. CASE d # e
      BY <1>3, <2>2, <3>1 DEF Types, TypeOK
    <3>2. CASE d = e
      <4>0. DOMAIN log'[d] = 1 .. Len(log[e]) + 1
        BY <1>3, <1>4, <3>2
      <4>1. n \in 1 .. Len(log[e]) \/ n = Len(log[e]) + 1
        BY <1>4, <2>2, <4>0
      <4>2. CASE n \in 1 .. Len(log[e])
        <5>1. log'[d][n] = log[e][n]
          BY <1>3, <1>4, <3>2, <4>2
        <5> QED BY <1>2, <1>4, <2>2, <3>2, <4>2, <5>1 DEF Types, TypeOK
      <4>3. CASE n = Len(log[e]) + 1
        <5>1. log'[d][n] = v
          BY <1>3, <1>4, <3>2, <4>3
        <5> QED BY <1>1, <2>2, <3>2, <5>1
      <4> QED BY <4>1, <4>2, <4>3
    <3> QED BY <3>1, <3>2
  <2> QED BY <2>1, <2>2 DEF World, Types, TypeOK
<1>8. \E n \in DOMAIN log'[e] : log'[e][n] = v
  <2>1. Len(log[e]) + 1 \in DOMAIN log'[e] /\ log'[e][Len(log[e]) + 1] = v
    BY <1>2, <1>3, <1>4
  <2> QED BY <2>1
<1> QED BY <1>6, <1>7, <1>8 DEF v
-------------------------------------------------------------------------------
(* Tickets: the steps that keep them                                            *)

\* A reason stays, and so does what was found to be a ticket.
LEMMA ReasonsStay ==
    ASSUME Types, Later
    PROVE  /\ \A f \in Fps : Reason(f) => Reason(f)'
           /\ \A f \in Fps : \A i : TicketOf(f, i) => TicketOf(f, i)'
<1>1. \A f \in Fps : Reason(f) => Reason(f)'
  BY DEF Later, Reason
<1>2. ASSUME NEW f \in Fps, NEW i, TicketOf(f, i) PROVE TicketOf(f, i)'
  <2>1. i \in DOMAIN issues' /\ issues'[i] = issues[i]
    BY <1>2 DEF Later, TicketOf
  <2> QED BY <1>1, <1>2, <2>1 DEF TicketOf, IsDigest
<1> QED BY <1>1, <1>2

\* And what a thread holds.
LEMMA HoldingStays ==
    ASSUME Types, Later, NEW f \in Fps, NEW r, Holds(f, r) PROVE Holds(f, r)'
  BY ReasonsStay DEF Holds

\* After a step of one thread.
LEMMA TicketsKept ==
    ASSUME Types, TicketInv, NEW a \in Actors, NEW r \in Acts, Turns(a, r), Later,
           \A f \in Fps : r.fps = {f} => Holds(f, r)',
           \A f \in Fps : RowOf(f)'
    PROVE  TicketInv'
<1>1. act'[a] = r /\ \A b \in Actors \ {a} : act'[b] = act[b]
  BY TurnedTo
<1>2. ASSUME NEW b \in Actors, NEW f \in Fps, act'[b].fps = {f} PROVE Holds(f, act[b])'
  <2>1. CASE b = a
    BY <1>1, <1>2, <2>1 DEF Holds
  <2>2. CASE b # a
    <3>1. act'[b] = act[b] /\ Holds(f, act[b])
      BY <1>1, <1>2, <2>2 DEF TicketInv
    <3> QED BY <3>1, HoldingStays, ReasonsStay DEF Holds
  <2> QED BY <2>1, <2>2
<1> QED BY <1>2 DEF TicketInv

\* No row is saved.
LEMMA RowsStay ==
    ASSUME Types, TicketInv, Later, row' = row,
           \A f \in Fps : row[f].kept /\ Creating(f) => Creating(f)' \/ Reason(f)'
    PROVE  (\A f \in Fps : RowOf(f)') /\ RowTypes'
<1>1. ASSUME NEW f \in Fps PROVE RowOf(f)'
  <2>1. RowOf(f) /\ (Reason(f) => Reason(f)') /\ (TicketOf(f, row[f].ticket) => TicketOf(f, row[f].ticket)')
    BY ReasonsStay DEF TicketInv
  <2> QED BY <2>1 DEF RowOf
<1>2. RowTypes'
  <2>1. \A f \in Fps : row[f].ticket \in 0 .. Len(issues')
    BY DEF Types, TypeOK, Later
  <2> QED BY <2>1 DEF RowTypes, Types, TypeOK
<1> QED BY <1>1, <1>2

\* A row is saved. A reservation that a save brings back is on record as such.
LEMMA RowsSaved ==
    ASSUME Types, TicketInv, Later, NEW f \in Fps, NEW new \in Rows, Saves(f, new),
           new.kept => new.ticket = 0, new.ticket # 0 => TicketOf(f, new.ticket),
           new.kept /\ new.state = "queued" => row[f].kept \/ Creating(f)',
           \A g \in Fps : Creating(g) => Creating(g)' \/ (g = f /\ ~new.kept)
    PROVE  (\A g \in Fps : RowOf(g)') /\ RowTypes'
<1>1. /\ row \in [Fps -> Rows] /\ row'[f] = new /\ \A g \in Fps \ {f} : row'[g] = row[g]
      /\ row' \in [Fps -> Rows] /\ erased' = erased \cup ({f} \X Forgets(row[f], new))
  BY DEF Saves, Types, TypeOK
<1>2. RowOf(f)'
  <2>1. new.ticket # 0 => TicketOf(f, new.ticket)'
    BY ReasonsStay
  <2>2. ASSUME new.kept PROVE Creating(f)' \/ Reason(f)'
    <3>1. CASE row[f].kept
      <4>1. Creating(f) \/ Reason(f)
        BY <3>1 DEF TicketInv, RowOf
      <4> QED BY <2>2, <4>1, ReasonsStay
    <3>2. CASE ~row[f].kept /\ new.state # "queued"
      <4>1. "ticket" \in Forgets(row[f], new)
        BY <2>2, <3>2 DEF Forgets
      <4>2. <<f, "ticket">> \in erased'
        BY <1>1, <4>1
      <4> QED BY <4>2 DEF Reason
    <3> QED BY <2>2, <3>1, <3>2
  <2> QED BY <1>1, <2>1, <2>2 DEF RowOf, TicketOf
<1>3. ASSUME NEW g \in Fps \ {f} PROVE RowOf(g)'
  <2>1. RowOf(g) /\ row'[g] = row[g] /\ (Creating(g) => Creating(g)') /\ (Reason(g) => Reason(g)')
        /\ (TicketOf(g, row[g].ticket) => TicketOf(g, row[g].ticket)')
    BY <1>1, ReasonsStay DEF TicketInv
  <2> QED BY <2>1 DEF RowOf
<1>4. RowTypes'
  <2>1. new.ticket \in 0 .. Len(issues)
    <3>1. CASE new.ticket = 0
      BY <3>1 DEF Types, TypeOK
    <3>2. CASE new.ticket # 0
      BY <3>2 DEF TicketOf, Types, TypeOK
    <3> QED BY <3>1, <3>2
  <2>2. \A g \in Fps : row'[g].ticket \in 0 .. Len(issues)
    BY <1>1, <2>1 DEF Types, TypeOK
  <2>3. Len(issues) \in Nat /\ Len(issues') \in Nat /\ Len(issues) <= Len(issues')
    BY <2>1 DEF Later, Types, TypeOK
  <2> QED BY <1>1, <2>2, <2>3 DEF RowTypes
<1> QED BY <1>2, <1>3, <1>4

\* The ingest is where it was when a thread moves that is at no ticket.
LEMMA CreatingStays ==
    ASSUME Types, NEW a \in Actors, NEW r \in Acts, Turns(a, r), act[a].pc \notin Creates
    PROVE  \A f \in Fps : Creating(f) => Creating(f)'
<1>1. "ingest" \in Actors
  BY DEF Actors
<1>2. a # "ingest" => act'["ingest"] = act["ingest"]
  BY <1>1, TurnedTo
<1> QED BY <1>2 DEF Creating

-------------------------------------------------------------------------------
(* Days and approvals: the steps that keep them                                 *)

\* Lines that push the digest out of sight stay written.
LEMMA PushedStays ==
    ASSUME Types, Later, World', NEW d \in Days, Pushed(d) PROVE Pushed(d)'
<1> DEFINE S == {n \in DOMAIN log[d] : log[d][n].what # "create"}
           T == {n \in DOMAIN log'[d] : log'[d][n].what # "create"}
<1>1. log[d] \in Seq(AuditLines) /\ log'[d] \in Seq(AuditLines)
  BY DEF Types, TypeOK, World
<1>2. S \subseteq 1 .. Len(log[d]) /\ T \subseteq 1 .. Len(log'[d])
      /\ Len(log[d]) \in Nat /\ Len(log'[d]) \in Nat
  BY <1>1
<1>3. S \subseteq T
  BY DEF Later
<1>4. IsFiniteSet(S) /\ IsFiniteSet(T)
  <2>1. \A m \in Nat : IsFiniteSet(1 .. m)
    BY FS_Interval
  <2> HIDE DEF S, T
  <2> QED BY <1>2, <2>1, FS_Subset
<1>5. Cardinality(S) <= Cardinality(T)
  <2> HIDE DEF S, T
  <2> QED BY <1>3, <1>4, FS_Subset
<1>6. Cardinality(S) \in Nat /\ Cardinality(T) \in Nat /\ Recent \in Nat
  <2> HIDE DEF S, T
  <2> QED BY <1>4, FS_CardinalityType, DigestAssumption
<1>7. Cardinality(S) >= Recent
  BY DEF Pushed
<1>8. Cardinality(T) >= Recent
  <2> HIDE DEF S, T
  <2> QED BY <1>5, <1>6, <1>7
<1> QED BY <1>8 DEF Pushed

\* A step that has nothing to do with a pass, and makes no digest.
LEMMA DaysKept ==
    ASSUME Types, DigestInv, NEW a \in Actors, NEW r \in Acts, Turns(a, r), Later, World',
           act[a].pc \notin {"open", "record"}, r.pc \notin {"open", "record"},
           \A d \in Days : DigestsOf(d)' \subseteq DigestsOf(d)
    PROVE  DigestInv'
<1> SUFFICES ASSUME NEW d \in Days \ excused' PROVE DayInv(d)'
  BY DEF DigestInv
<1>1. d \in Days /\ d \notin excused /\ DayInv(d)
  BY DEF Later, DigestInv
<1>2. \A b \in Actors : (act'[b].pc \in {"open", "record"} \/ act[b].pc \in {"open", "record"})
                           => act'[b] = act[b]
  BY TurnedTo
<1>3. Pushed(d) => Pushed(d)'
  BY <1>1, PushedStays
<1>4. \A i : Recorded(d, i) => Recorded(d, i)'
  BY <1>1 DEF Recorded, Later
<1>5. \A i : Recording(d, i) => Recording(d, i)'
  BY <1>2 DEF Recording
<1>6. \A b \in Actors : Passing(b, d)' => Passing(b, d)
  BY <1>2 DEF Passing
<1>7. \A b \in Actors : act'[b].pc = "open" /\ act'[b].day = d => act[b].pc = "open" /\ act[b].day = d
  BY <1>2
<1>8. DigestsOf(d)' \subseteq DigestsOf(d)
  BY <1>1
<1> QED BY <1>1, <1>3, <1>4, <1>5, <1>6, <1>7, <1>8 DEF DayInv

\* No issue, or a ticket.
LEMMA NoDigest ==
    ASSUME Types, UNCHANGED issues \/ (\E fps \in SUBSET Fps : Lands(fps, 0)), UNCHANGED <<log, day>>,
           unanswered \subseteq unanswered', erased \subseteq erased',
           unrecorded \subseteq unrecorded', excused \subseteq excused'
    PROVE  World' /\ Later /\ \A d \in Days : DigestsOf(d)' \subseteq DigestsOf(d)
<1>1. CASE UNCHANGED issues
  BY <1>1, WorldSame DEF DigestsOf
<1>2. CASE \E fps \in SUBSET Fps : Lands(fps, 0)
  <2>1. PICK fps \in SUBSET Fps : Lands(fps, 0)
    BY <1>2
  <2>2. 0 \in 0 .. MaxDay /\ 0 <= day
    BY DigestAssumption DEF Types, TypeOK, Days
  <2>3. /\ World' /\ Later /\ DOMAIN issues' = DOMAIN issues \cup {Len(issues) + 1}
        /\ issues'[Len(issues) + 1].day = 0
    BY <2>1, <2>2, WorldLands
  <2>4. \A d \in Days : d # 0
    BY DEF Days
  <2> QED BY <2>3, <2>4 DEF DigestsOf, Later
<1> QED BY <1>1, <1>2

\* A step that has nothing to do with a release.
LEMMA ApprovalsKept ==
    ASSUME Types, ApprovalInv, NEW a \in Actors, NEW r \in Acts, Turns(a, r), Later, World', given' = given,
           act[a].pc \notin Releasing, r.pc \notin Releasing,
           \A f \in Fps : row[f].branch => row'[f].branch \/ Erased(f)'
    PROVE  ApprovalInv'
<1>1. \A b \in Actors : (act'[b].pc \in Releasing \/ act[b].pc \in Releasing) => act'[b] = act[b]
  BY TurnedTo
<1>2. Workers \subseteq Actors
  BY DEF Actors
<1>3. \A v, w \in Workers : act'[v].pc = "fixing" /\ act'[w].pc = "fixing" => v = w
  BY <1>1, <1>2 DEF ApprovalInv, Releasing
<1>4. ASSUME NEW d \in Days, NEW f \in Fps PROVE ReleaseOf(d, f)'
  <2>1. ReleaseOf(d, f)
    BY DEF ApprovalInv
  <2>2. /\ Erased(f) => Erased(f)'
        /\ <<d, f>> \in unrecorded => <<d, f>> \in unrecorded'
        /\ Told(d, f) => Told(d, f)'
        /\ Given(d, f)' <=> Given(d, f)
    BY DEF Later, Erased, Told, Given
  <2>3. Beyond(d, f) => Beyond(d, f)'
    <3>1. Len(log[d]) \in Nat /\ Len(log'[d]) \in Nat /\ Len(log[d]) <= Len(log'[d]) /\ Released \in Nat
      BY DigestAssumption DEF Types, TypeOK, World, Later
    <3> QED BY <2>2, <3>1 DEF Beyond
  <2>4. \A w \in Workers : /\ act'[w].pc \in Releasing \/ act[w].pc \in Releasing => act'[w] = act[w]
                           /\ "fixing" \in Releasing /\ "release" \in Releasing /\ "log" \in Releasing
    BY <1>1, <1>2 DEF Releasing
  <2>5. row[f].branch \/ Erased(f) => row'[f].branch \/ Erased(f)'
    BY <2>2
  <2> QED BY <2>1, <2>2, <2>3, <2>4, <2>5 DEF ReleaseOf, About
<1> QED BY <1>3, <1>4 DEF ApprovalInv

\* A save forgets no branch without a record of it.
LEMMA BranchesStay ==
    ASSUME Types, NEW f \in Fps, NEW new \in Rows, Saves(f, new)
    PROVE  \A g \in Fps : row[g].branch => row'[g].branch \/ Erased(g)'
<1>1. /\ row \in [Fps -> Rows] /\ row'[f] = new /\ \A g \in Fps \ {f} : row'[g] = row[g]
      /\ erased' = erased \cup ({f} \X Forgets(row[f], new))
  BY DEF Saves, Types, TypeOK
<1>2. row[f].branch /\ ~new.branch => <<f, "branch">> \in erased'
  BY <1>1 DEF Forgets
<1> QED BY <1>1, <1>2 DEF Erased
-------------------------------------------------------------------------------
(* Tickets                                                                      *)

\* A row with another state, ticket, reservation or branch.
LEMMA NewState ==
    ASSUME NEW u \in Rows, NEW s \in States
    PROVE  LET v == [u EXCEPT !.state = s]
           IN  v \in Rows /\ v.state = s /\ v.ticket = u.ticket /\ v.kept = u.kept /\ v.branch = u.branch
  BY DEF Rows
\* Another ticket.
LEMMA NewTicket ==
    ASSUME NEW u \in Rows, NEW i \in 0 .. MaxIssues
    PROVE  LET v == [u EXCEPT !.ticket = i]
           IN  v \in Rows /\ v.state = u.state /\ v.ticket = i /\ v.kept = u.kept /\ v.branch = u.branch
  BY DEF Rows
\* Another reservation.
LEMMA NewKept ==
    ASSUME NEW u \in Rows, NEW k \in BOOLEAN
    PROVE  LET v == [u EXCEPT !.kept = k]
           IN  v \in Rows /\ v.state = u.state /\ v.ticket = u.ticket /\ v.kept = k /\ v.branch = u.branch
  BY DEF Rows
\* Another branch.
LEMMA NewBranch ==
    ASSUME NEW u \in Rows, NEW b \in BOOLEAN
    PROVE  LET v == [u EXCEPT !.branch = b]
           IN  v \in Rows /\ v.state = u.state /\ v.ticket = u.ticket /\ v.kept = u.kept /\ v.branch = b
  BY DEF Rows

\* A thread with another place.
LEMMA AtPc ==
    ASSUME NEW r \in Acts, NEW x \in Pcs
    PROVE  LET v == [r EXCEPT !.pc = x]
           IN  v \in Acts /\ v.pc = x /\ v.fps = r.fps /\ v.snap = r.snap /\ v.day = r.day /\ v.issue = r.issue /\ v.result = r.result
  BY DEF Acts
\* A thread with another fingerprints.
LEMMA AtFps ==
    ASSUME NEW r \in Acts, NEW x \in SUBSET Fps
    PROVE  LET v == [r EXCEPT !.fps = x]
           IN  v \in Acts /\ v.fps = x /\ v.pc = r.pc /\ v.snap = r.snap /\ v.day = r.day /\ v.issue = r.issue /\ v.result = r.result
  BY DEF Acts
\* A thread with another copy of a row.
LEMMA AtSnap ==
    ASSUME NEW r \in Acts, NEW x \in Rows
    PROVE  LET v == [r EXCEPT !.snap = x]
           IN  v \in Acts /\ v.snap = x /\ v.pc = r.pc /\ v.fps = r.fps /\ v.day = r.day /\ v.issue = r.issue /\ v.result = r.result
  BY DEF Acts
\* A thread with another day.
LEMMA AtDay ==
    ASSUME NEW r \in Acts, NEW x \in 0 .. MaxDay
    PROVE  LET v == [r EXCEPT !.day = x]
           IN  v \in Acts /\ v.day = x /\ v.pc = r.pc /\ v.fps = r.fps /\ v.snap = r.snap /\ v.issue = r.issue /\ v.result = r.result
  BY DEF Acts
\* A thread with another issue.
LEMMA AtIssue ==
    ASSUME NEW r \in Acts, NEW x \in 0 .. MaxIssues
    PROVE  LET v == [r EXCEPT !.issue = x]
           IN  v \in Acts /\ v.issue = x /\ v.pc = r.pc /\ v.fps = r.fps /\ v.snap = r.snap /\ v.day = r.day /\ v.result = r.result
  BY DEF Acts
\* A thread with another result.
LEMMA AtResult ==
    ASSUME NEW r \in Acts, NEW x \in {"none", "delivered", "refused", "failed"}
    PROVE  LET v == [r EXCEPT !.result = x]
           IN  v \in Acts /\ v.result = x /\ v.pc = r.pc /\ v.fps = r.fps /\ v.snap = r.snap /\ v.day = r.day /\ v.issue = r.issue
  BY DEF Acts

\* A thread that takes up a fingerprint holds its row.
LEMMA Taken ==
    ASSUME Types, NEW a \in Actors, NEW f \in Fps, NEW pc \in Pcs, Takes(a, f, pc)
    PROVE  \E r \in Acts : /\ Turns(a, r) /\ r.pc = pc /\ r.fps = {f} /\ r.snap = row[f]
                          /\ r.day = 0 /\ r.issue = 0
<1> DEFINE u == [Idle EXCEPT !.pc = pc]
           v == [u EXCEPT !.fps = {f}]
           r == [v EXCEPT !.snap = row[f]]
<1>1. row[f] \in Rows /\ {f} \in SUBSET Fps
  BY DEF Types, TypeOK
<1>2. Turns(a, r)
  BY DEF Takes, Turns
<1>3. u \in Acts /\ u.pc = pc /\ u.day = 0 /\ u.issue = 0
  BY IdleFields, AtPc
<1> HIDE DEF u
<1>4. v \in Acts /\ v.pc = pc /\ v.fps = {f} /\ v.day = 0 /\ v.issue = 0
  BY <1>1, <1>3, AtFps
<1> HIDE DEF v
<1>5. r \in Acts /\ r.pc = pc /\ r.fps = {f} /\ r.snap = row[f] /\ r.day = 0 /\ r.issue = 0
  BY <1>1, <1>4, AtSnap
<1> HIDE DEF r
<1> QED BY <1>2, <1>5

\* What it holds then is as the rows are.
LEMMA HoldsRow ==
    ASSUME Types, TicketInv, Later, NEW f \in Fps, NEW r, r.snap = row[f],
           r.pc \notin {"find", "recover", "bind"}
    PROVE  Holds(f, r)'
<1>1. Holds(f, r)
  BY DEF TicketInv, RowOf, Holds
<1> QED BY <1>1, HoldingStays

\* A step that is part of no pass and of no release.
LEMMA PlainStep ==
    ASSUME IInv, NEW a \in Actors, NEW r \in Acts, Turns(a, r),
           UNCHANGED issues \/ (\E fps \in SUBSET Fps : Lands(fps, 0)), UNCHANGED <<log, day, given>>,
           unanswered \subseteq unanswered', erased \subseteq erased',
           unrecorded \subseteq unrecorded', excused \subseteq excused', Marks',
           RoleOf(a, r)', r.day <= day', r.issue <= Len(issues'),
           act[a].pc \notin Releasing \cup {"open", "record"}, r.pc \notin Releasing \cup {"open", "record"},
           \A f \in Fps : r.fps = {f} => Holds(f, r)',
           \A f \in Fps : RowOf(f)', RowTypes',
           \A f \in Fps : row[f].branch => row'[f].branch \/ Erased(f)'
    PROVE  IInv'
<1>1. World' /\ Later /\ \A d \in Days : DigestsOf(d)' \subseteq DigestsOf(d)
  BY NoDigest DEF IInv
<1>2. Types'
  BY <1>1, TypesKept DEF IInv
<1>3. TicketInv'
  BY <1>1, TicketsKept DEF IInv
<1>4. DigestInv'
  BY <1>1, DaysKept DEF IInv
<1>5. ApprovalInv'
  BY <1>1, ApprovalsKept DEF IInv
<1> QED BY <1>2, <1>3, <1>4, <1>5 DEF IInv

\* The marks, when none changes but those of a save.
LEMMA MarksSaved ==
    ASSUME Types, NEW f \in Fps, NEW new \in Rows, Saves(f, new),
           verdict' \in [Fps -> BOOLEAN], comments' \in 0 .. MaxComments, mishaps' \in 0 .. MaxMishaps,
           UNCHANGED <<excused, unanswered, given, unrecorded>>
    PROVE  Marks' /\ erased \subseteq erased'
<1>1. erased' = erased \cup ({f} \X Forgets(row[f], new))
  BY DEF Saves
<1>2. Forgets(row[f], new) \subseteq {"branch", "ticket"}
  BY DEF Forgets
<1>3. erased' \subseteq Fps \X {"branch", "ticket"}
  BY <1>1, <1>2 DEF Types, TypeOK
<1> QED BY <1>1, <1>3 DEF Marks, Types, TypeOK

\* And when no row is saved.
LEMMA MarksSame ==
    ASSUME Types, comments' \in 0 .. MaxComments, mishaps' \in 0 .. MaxMishaps,
           UNCHANGED <<verdict, erased, excused, given, unrecorded>>, unanswered' \subseteq Fps
    PROVE  Marks'
  BY DEF Marks, Types, TypeOK

\* The counters.
LEMMA Counted ==
    ASSUME Types
    PROVE  /\ comments \in 0 .. MaxComments /\ mishaps \in 0 .. MaxMishaps
           /\ Mishap => mishaps' \in 0 .. MaxMishaps
           /\ Comments => comments' \in 0 .. MaxComments
           /\ verdict \in [Fps -> BOOLEAN] /\ unanswered \subseteq Fps
           /\ day \in Nat /\ Len(issues) \in Nat
  BY DigestAssumption DEF Types, TypeOK, Mishap, Comments, Days

\* The pipeline reserves a row.
LEMMA WakesKeeps == ASSUME IInv, NEW f \in Fps, Wakes(f) PROVE IInv'
<1> DEFINE i == "ingest"
           u == row[f]
           t == [u EXCEPT !.state = "queued"]
           new == [t EXCEPT !.kept = TRUE]
<1>1. Types /\ TicketInv /\ i \in Actors /\ "create" \in Pcs /\ "queued" \in States /\ u \in Rows
  BY DEF IInv, Types, TypeOK, Actors, Pcs, States
<1>2. act[i].pc = "idle" /\ u.ticket = 0 /\ Takes(i, f, "create")
      /\ UNCHANGED <<verdict, issues, log, day, comments, mishaps, excused, unanswered, given, unrecorded>>
  BY DEF Wakes, Free, bounds, ghosts
<1>3. t \in Rows /\ t.state = "queued" /\ t.ticket = u.ticket /\ t.branch = u.branch
  BY <1>1, NewState
<1>4. new \in Rows /\ new.state = t.state /\ new.kept = TRUE /\ new.ticket = t.ticket /\ new.branch = t.branch
  <2> HIDE DEF t
  <2> QED BY <1>3, NewKept
<1>5. Saves(f, new)
  <2>1. new = [u EXCEPT !.state = "queued", !.kept = TRUE]
    OBVIOUS
  <2> QED BY <2>1 DEF Wakes
<1> HIDE DEF new, t
<1>6. PICK r \in Acts : /\ Turns(i, r) /\ r.pc = "create" /\ r.fps = {f} /\ r.snap = row[f]
                        /\ r.day = 0 /\ r.issue = 0
  BY <1>1, <1>2, Taken
<1>7. Marks' /\ erased \subseteq erased'
  BY <1>1, <1>2, <1>4, <1>5, Counted, MarksSaved
<1>8. Later
  BY <1>1, <1>2, <1>7, WorldSame
<1>9. /\ act'[i] = r /\ Creating(f)' /\ \A g \in Fps : ~Creating(g)
  <2>1. act'[i] = r
    BY <1>1, <1>6, TurnedTo
  <2> QED BY <1>2, <1>6, <2>1 DEF Creating, Creates
<1>10. (\A g \in Fps : RowOf(g)') /\ RowTypes'
  BY <1>1, <1>2, <1>3, <1>4, <1>5, <1>8, <1>9, RowsSaved
<1>11. RoleOf(i, r)' /\ r.day <= day' /\ r.issue <= Len(issues')
  BY <1>1, <1>2, <1>6, Counted DEF RoleOf, Creates, Releasing
<1>12. \A g \in Fps : r.fps = {g} => Holds(g, r)'
  BY <1>1, <1>6, <1>8, HoldsRow
<1>13. \A g \in Fps : row[g].branch => row'[g].branch \/ Erased(g)'
  BY <1>1, <1>4, <1>5, BranchesStay
<1>14. act[i].pc \notin Releasing \cup {"open", "record"} /\ r.pc \notin Releasing \cup {"open", "record"}
  BY <1>2, <1>6 DEF Releasing
<1> QED BY <1>1, <1>2, <1>6, <1>7, <1>10, <1>11, <1>12, <1>13, <1>14, PlainStep
\* A thread ends that is part of no pass and of no release.
LEMMA RestStep ==
    ASSUME IInv, NEW a \in Actors, Rests(a),
           UNCHANGED issues \/ (\E fps \in SUBSET Fps : Lands(fps, 0)), UNCHANGED <<log, day, given>>,
           unanswered \subseteq unanswered', erased \subseteq erased',
           unrecorded \subseteq unrecorded', excused \subseteq excused', Marks',
           act[a].pc \notin Releasing \cup {"open", "record"},
           \A f \in Fps : RowOf(f)', RowTypes',
           \A f \in Fps : row[f].branch => row'[f].branch \/ Erased(f)'
    PROVE  IInv'
<1>1. Turns(a, Idle) /\ Idle \in Acts
  BY IdleFields DEF Rests, Turns
<1>2. World' /\ Later
  BY NoDigest DEF IInv
<1>3. day' \in Nat /\ Len(issues') \in Nat
  BY <1>2, DigestAssumption DEF World, Days
<1>4. RoleOf(a, Idle)' /\ Idle.day <= day' /\ Idle.issue <= Len(issues')
  BY <1>3, IdleFields DEF RoleOf, Creates, Releasing
<1>5. \A f \in Fps : Idle.fps = {f} => Holds(f, Idle)'
  BY IdleFields
<1>6. Idle.pc \notin Releasing \cup {"open", "record"}
  BY IdleFields DEF Releasing
<1> QED BY <1>1, <1>4, <1>5, <1>6, PlainStep

\* The ingest at work on a ticket.
LEMMA AtTicket ==
    ASSUME IInv, act["ingest"].pc \in Creates
    PROVE  \E f \in Fps :
              /\ act["ingest"].fps = {f} /\ Its("ingest") = f /\ Creating(f) /\ Holds(f, act["ingest"])
              /\ \A g \in Fps : Creating(g) => g = f
<1>1. "ingest" \in Actors
  BY DEF Actors
<1>2. PICK f \in Fps : act["ingest"].fps = {f}
  BY <1>1 DEF IInv, Types, Roles, RoleOf
<1>3. Its("ingest") = f /\ Holds(f, act["ingest"])
  BY <1>1, <1>2, ItsOne DEF IInv, TicketInv
<1> QED BY <1>2, <1>3 DEF Creating

\* The ingest goes on with a ticket, or ends.
LEMMA TicketStep ==
    ASSUME IInv, NEW f \in Fps, act["ingest"].pc \in Creates, act["ingest"].fps = {f},
           NEW r \in Acts, Turns("ingest", r), r.pc \in Creates, r.fps = {f},
           r.day = act["ingest"].day, r.issue <= Len(issues'),
           UNCHANGED issues \/ Lands({f}, 0), UNCHANGED <<log, day, given>>,
           unanswered \subseteq unanswered', erased \subseteq erased',
           unrecorded \subseteq unrecorded', excused \subseteq excused', Marks', Holds(f, r)',
           \A g \in Fps : RowOf(g)', RowTypes',
           \A g \in Fps : row[g].branch => row'[g].branch \/ Erased(g)'
    PROVE  IInv'
<1>1. "ingest" \in Actors /\ {f} \in SUBSET Fps
  BY DEF Actors
<1>2. UNCHANGED issues \/ (\E fps \in SUBSET Fps : Lands(fps, 0))
  BY <1>1
<1>3. act["ingest"].pc \notin Releasing \cup {"open", "record"} /\ r.pc \notin Releasing \cup {"open", "record"}
      /\ r.pc # "log" /\ r.pc # "record"
  BY DEF Creates, Releasing
<1>4. RoleOf("ingest", r)'
  BY <1>3 DEF RoleOf
<1>5. r.day <= day'
  BY <1>1, OneActor DEF IInv
<1>6. \A g \in Fps : r.fps = {g} => Holds(g, r)'
  OBVIOUS
<1> QED BY <1>1, <1>2, <1>3, <1>4, <1>5, <1>6, PlainStep

\* The issue of a ticket.
LEMMA TicketLands ==
    ASSUME Types, NEW f \in Fps, Lands({f}, 0), UNCHANGED <<log, day>>,
           unanswered \subseteq unanswered', erased \subseteq erased',
           unrecorded \subseteq unrecorded', excused \subseteq excused'
    PROVE  /\ Later /\ Len(issues') = Len(issues) + 1
           /\ \E n \in 0 .. MaxIssues : n = Len(issues) + 1 /\ TicketOf(f, n)'
<1>1. {f} \in SUBSET Fps /\ 0 \in 0 .. MaxDay /\ 0 <= day
  BY DigestAssumption DEF Types, TypeOK, Days
<1>2. /\ Later /\ Len(issues') = Len(issues) + 1 /\ DOMAIN issues' = DOMAIN issues \cup {Len(issues) + 1}
      /\ issues'[Len(issues) + 1].about = {f} /\ issues'[Len(issues) + 1].day = 0
      /\ Len(issues) \in Nat /\ Len(issues) < MaxIssues
  BY <1>1, WorldLands
<1>3. PICK n \in 0 .. MaxIssues : n = Len(issues) + 1
  BY <1>2, DigestAssumption
<1>4. n \in DOMAIN issues' /\ f \in issues'[n].about /\ ~(issues'[n].day > 0)
  BY <1>2, <1>3
<1>5. TicketOf(f, n)'
  BY <1>4 DEF TicketOf, IsDigest
<1> QED BY <1>2, <1>3, <1>5

\* A thread that is to bind an issue to its row.
LEMMA ToBind ==
    ASSUME NEW o \in Acts, o.snap \in Rows, NEW n \in 0 .. MaxIssues
    PROVE  \E r \in Acts : /\ r = [o EXCEPT !.pc = "bind", !.issue = n, !.snap.state = "queued"]
                           /\ r.pc = "bind" /\ r.fps = o.fps /\ r.day = o.day /\ r.issue = n
                           /\ r.snap.ticket = o.snap.ticket /\ r.snap.kept = o.snap.kept
<1> DEFINE s == [o.snap EXCEPT !.state = "queued"]
           p == [o EXCEPT !.pc = "bind"]
           q == [p EXCEPT !.issue = n]
           r == [q EXCEPT !.snap = s]
<1>1. r = [o EXCEPT !.pc = "bind", !.issue = n, !.snap.state = "queued"]
  BY DEF Acts
<1>2. "bind" \in Pcs /\ "queued" \in States
  BY DEF Pcs, States
<1>3. s \in Rows /\ s.ticket = o.snap.ticket /\ s.kept = o.snap.kept
  BY <1>2, NewState
<1> HIDE DEF s
<1>4. p \in Acts /\ p.pc = "bind" /\ p.fps = o.fps /\ p.day = o.day
  BY <1>2, AtPc
<1> HIDE DEF p
<1>5. q \in Acts /\ q.pc = "bind" /\ q.fps = o.fps /\ q.day = o.day /\ q.issue = n
  BY <1>4, AtIssue
<1> HIDE DEF q
<1>6. r \in Acts /\ r.pc = "bind" /\ r.fps = o.fps /\ r.day = o.day /\ r.issue = n /\ r.snap = s
  BY <1>3, <1>5, AtSnap
<1> HIDE DEF r
<1> QED BY <1>1, <1>3, <1>6

\* A thread that is to create its ticket anew.
LEMMA ToCreate ==
    ASSUME NEW o \in Acts, o.snap \in Rows
    PROVE  \E r \in Acts : /\ r = [o EXCEPT !.pc = "create", !.snap.state = "new", !.snap.kept = FALSE]
                           /\ r.pc = "create" /\ r.fps = o.fps /\ r.day = o.day /\ r.issue = o.issue
                           /\ r.snap.ticket = o.snap.ticket /\ r.snap.kept = FALSE
<1> DEFINE s == [o.snap EXCEPT !.state = "new"]
           t == [s EXCEPT !.kept = FALSE]
           p == [o EXCEPT !.pc = "create"]
           r == [p EXCEPT !.snap = t]
<1>1. r = [o EXCEPT !.pc = "create", !.snap.state = "new", !.snap.kept = FALSE]
  BY DEF Acts, Rows
<1>2. "create" \in Pcs /\ "new" \in States
  BY DEF Pcs, States
<1>3. s \in Rows /\ s.ticket = o.snap.ticket
  BY <1>2, NewState
<1> HIDE DEF s
<1>4. t \in Rows /\ t.ticket = o.snap.ticket /\ t.kept = FALSE
  BY <1>3, NewKept
<1> HIDE DEF t
<1>5. p \in Acts /\ p.pc = "create" /\ p.fps = o.fps /\ p.day = o.day /\ p.issue = o.issue
  BY <1>2, AtPc
<1> HIDE DEF p
<1>6. r \in Acts /\ r.pc = "create" /\ r.fps = o.fps /\ r.day = o.day /\ r.issue = o.issue /\ r.snap = t
  BY <1>4, <1>5, AtSnap
<1> HIDE DEF r
<1> QED BY <1>1, <1>4, <1>6

\* The forge takes the ticket.
LEMMA CreateAnsweredKeeps == ASSUME IInv, CreateAnswered PROVE IInv'
<1> DEFINE i == "ingest"
           o == act[i]
<1>1. Types /\ TicketInv /\ i \in Actors
  BY DEF IInv, Actors
<1>2. o \in Acts /\ o.snap \in Rows
  BY <1>1, OneActor
<1>3. o.pc = "create" /\ UNCHANGED <<row, verdict, erased, log, day, comments, mishaps, excused, unanswered, given, unrecorded>>
  BY DEF CreateAnswered, rowVars, bounds, ghosts
<1>4. PICK f \in Fps : o.fps = {f} /\ Its(i) = f /\ Creating(f) /\ Holds(f, o) /\ \A g \in Fps : Creating(g) => g = f
  BY <1>3, AtTicket DEF Creates
<1>5. Lands({f}, 0)
  BY <1>4 DEF CreateAnswered
<1>6. Later /\ Len(issues') = Len(issues) + 1
  BY <1>1, <1>3, <1>5, TicketLands
<1>7. PICK n \in 0 .. MaxIssues : n = Len(issues) + 1 /\ TicketOf(f, n)'
  BY <1>1, <1>3, <1>5, TicketLands
<1>8. PICK r \in Acts : /\ r = [o EXCEPT !.pc = "bind", !.issue = n, !.snap.state = "queued"]
                        /\ r.pc = "bind" /\ r.fps = o.fps /\ r.day = o.day /\ r.issue = n
                        /\ r.snap.ticket = o.snap.ticket /\ r.snap.kept = o.snap.kept
  BY <1>2, ToBind
<1>9. Turns(i, r)
  BY <1>7, <1>8 DEF CreateAnswered, Turns
<1>10. Holds(f, r)'
  <2>1. r.snap.ticket # 0 => TicketOf(f, r.snap.ticket)
    BY <1>4, <1>8 DEF Holds
  <2>2. r.snap.ticket # 0 => TicketOf(f, r.snap.ticket)'
    BY <1>1, <1>6, <2>1, ReasonsStay
  <2>3. r.snap.kept => r.snap.ticket = 0
    BY <1>4, <1>8 DEF Holds
  <2> QED BY <1>7, <1>8, <2>2, <2>3 DEF Holds
<1>11. Marks'
  BY <1>1, <1>3, Counted, MarksSame
<1>12. \A g \in Fps : Creating(g) => Creating(g)'
  <2>1. act'[i] = r
    BY <1>1, <1>9, TurnedTo
  <2> QED BY <1>4, <1>8, <2>1 DEF Creating, Creates
<1>13. (\A g \in Fps : RowOf(g)') /\ RowTypes'
  BY <1>1, <1>3, <1>6, <1>12, RowsStay
<1>14. r.issue <= Len(issues') /\ o.pc \in Creates /\ r.pc \in Creates
  BY <1>3, <1>6, <1>7, <1>8 DEF Creates
<1>15. \A g \in Fps : row[g].branch => row'[g].branch \/ Erased(g)'
  BY <1>3
<1> QED BY <1>3, <1>4, <1>5, <1>8, <1>9, <1>10, <1>11, <1>13, <1>14, <1>15, TicketStep
\* The forge refuses it: the reservation is released.
LEMMA CreateRejectedKeeps == ASSUME IInv, CreateRejected PROVE IInv'
<1> DEFINE i == "ingest"
           o == act[i]
           s == [o.snap EXCEPT !.state = "new"]
           t == [s EXCEPT !.kept = FALSE]
<1>1. Types /\ TicketInv /\ i \in Actors /\ "new" \in States
  BY DEF IInv, Actors, States
<1>2. o \in Acts /\ o.snap \in Rows
  BY <1>1, OneActor
<1>3. o.pc = "create" /\ Mishap /\ Rests(i)
      /\ UNCHANGED <<verdict, issues, log, day, comments, excused, unanswered, given, unrecorded>>
  BY DEF CreateRejected, ghosts
<1>4. PICK f \in Fps : o.fps = {f} /\ Its(i) = f /\ Creating(f) /\ Holds(f, o) /\ \A g \in Fps : Creating(g) => g = f
  BY <1>3, AtTicket DEF Creates
<1>5. s \in Rows /\ s.ticket = o.snap.ticket
  BY <1>1, <1>2, NewState
<1>6. t \in Rows /\ t.ticket = o.snap.ticket /\ t.kept = FALSE
  <2> HIDE DEF s
  <2> QED BY <1>5, NewKept
<1>7. PICK new \in Rows : Saves(f, new) /\ new.ticket = o.snap.ticket /\ new.kept = FALSE
  <2>1. t = [o.snap EXCEPT !.state = "new", !.kept = FALSE]
    OBVIOUS
  <2>2. Saves(f, t)
    BY <1>4, <2>1 DEF CreateRejected
  <2> QED BY <1>6, <2>2
<1>8. Marks' /\ erased \subseteq erased'
  BY <1>1, <1>3, <1>7, Counted, MarksSaved
<1>9. Later
  BY <1>1, <1>3, <1>8, WorldSame
<1>10. (\A g \in Fps : RowOf(g)') /\ RowTypes'
  <2>1. new.ticket # 0 => TicketOf(f, new.ticket)
    BY <1>4, <1>7 DEF Holds
  <2> QED BY <1>1, <1>4, <1>7, <1>9, <2>1, RowsSaved
<1>11. \A g \in Fps : row[g].branch => row'[g].branch \/ Erased(g)'
  BY <1>1, <1>7, BranchesStay
<1>12. o.pc \notin Releasing \cup {"open", "record"}
  BY <1>3 DEF Releasing
<1> QED BY <1>1, <1>3, <1>8, <1>10, <1>11, <1>12, RestStep

\* It gives no answer.
LEMMA CreateUnansweredKeeps == ASSUME IInv, CreateUnanswered PROVE IInv'
<1> DEFINE i == "ingest"
           o == act[i]
<1>1. Types /\ TicketInv /\ i \in Actors /\ "find" \in Pcs
  BY DEF IInv, Actors, Pcs
<1>2. o \in Acts /\ o.snap \in Rows
  BY <1>1, OneActor
<1>3. o.pc = "create" /\ Mishap
      /\ UNCHANGED <<row, verdict, erased, log, day, comments, excused, given, unrecorded>>
  BY DEF CreateUnanswered, rowVars
<1>4. PICK f \in Fps : o.fps = {f} /\ Its(i) = f /\ Creating(f) /\ Holds(f, o) /\ \A g \in Fps : Creating(g) => g = f
  BY <1>3, AtTicket DEF Creates
<1>5. (Lands({f}, 0) \/ UNCHANGED issues) /\ unanswered' = unanswered \cup {f}
  BY <1>4 DEF CreateUnanswered
<1>6. Later
  <2>1. {f} \in SUBSET Fps
    OBVIOUS
  <2>2. UNCHANGED issues \/ (\E fps \in SUBSET Fps : Lands(fps, 0))
    BY <1>5, <2>1
  <2> QED BY <1>1, <1>3, <1>5, <2>2, NoDigest
<1>7. PICK r \in Acts : Turns(i, r) /\ r.pc = "find" /\ r.fps = o.fps /\ r.day = o.day /\ r.issue = o.issue /\ r.snap = o.snap
  <2> DEFINE r == [o EXCEPT !.pc = "find"]
  <2>1. Turns(i, r)
    BY DEF CreateUnanswered, Goes, Turns
  <2>2. r \in Acts /\ r.pc = "find" /\ r.fps = o.fps /\ r.day = o.day /\ r.issue = o.issue /\ r.snap = o.snap
    BY <1>1, <1>2, AtPc
  <2> HIDE DEF r
  <2> QED BY <2>1, <2>2
<1>8. Holds(f, r)'
  <2>1. r.snap.ticket # 0 => TicketOf(f, r.snap.ticket)
    BY <1>4, <1>7 DEF Holds
  <2>2. r.snap.ticket # 0 => TicketOf(f, r.snap.ticket)'
    BY <1>1, <1>6, <2>1, ReasonsStay
  <2>3. r.snap.kept => r.snap.ticket = 0
    BY <1>4, <1>7 DEF Holds
  <2>4. Reason(f)'
    BY <1>5 DEF Reason
  <2> QED BY <1>7, <2>2, <2>3, <2>4 DEF Holds
<1>9. Marks'
  <2>1. unanswered' \subseteq Fps
    BY <1>1, <1>5, Counted
  <2> QED BY <1>1, <1>3, <2>1, Counted, MarksSame
<1>10. \A g \in Fps : Creating(g) => Creating(g)'
  <2>1. act'[i] = r
    BY <1>1, <1>7, TurnedTo
  <2> QED BY <1>4, <1>7, <2>1 DEF Creating, Creates
<1>11. (\A g \in Fps : RowOf(g)') /\ RowTypes'
  BY <1>1, <1>3, <1>6, <1>10, RowsStay
<1>12. r.issue <= Len(issues') /\ o.pc \in Creates /\ r.pc \in Creates
  <2>1. r.issue <= Len(issues) /\ Len(issues) <= Len(issues') /\ r.issue \in Int
    BY <1>1, <1>2, <1>6, <1>7, OneActor, ActFields, DigestAssumption DEF Later
  <2>2. Len(issues) \in Int /\ Len(issues') \in Int
    BY <1>1, <1>6, Counted, <1>5 DEF Types, TypeOK, Lands
  <2> QED BY <1>3, <1>7, <2>1, <2>2 DEF Creates
<1>13. \A g \in Fps : row[g].branch => row'[g].branch \/ Erased(g)'
  BY <1>3
<1>14. UNCHANGED <<log, day, given>> /\ unanswered \subseteq unanswered' /\ erased \subseteq erased'
       /\ unrecorded \subseteq unrecorded' /\ excused \subseteq excused'
  BY <1>3, <1>5
<1> QED BY <1>4, <1>5, <1>7, <1>8, <1>9, <1>11, <1>12, <1>13, <1>14, TicketStep

\* A set of numbers has a least one.
LEMMA LeastNat ==
    ASSUME NEW T \in SUBSET Nat, T # {}
    PROVE  \E x \in T : \A y \in T : x <= y
<1> DEFINE R == OpToRel(<, Nat)
<1>1. IsWellFoundedOn(R, Nat)
  BY NatLessThanWellFounded, Zenon
<1>3. \A x, y \in Nat : y < x => <<y, x>> \in R
  BY SMT DEF OpToRel
<1> HIDE DEF R
<1>2. \E x \in T : \A y \in T : ~ (<<y, x>> \in R)
  BY <1>1, WFMin, Zenon
<1>4. PICK x \in T : \A y \in T : ~ (<<y, x>> \in R)
  BY <1>2, Zenon
<1>5. ASSUME NEW y \in T PROVE x <= y
  <2>1. ~(y < x)
    BY <1>3, <1>4
  <2> QED BY <2>1
<1> QED BY <1>5

\* The newest issue that names a fingerprint.
LEMMA NewestNames ==
    ASSUME Types, NEW f \in Fps, Naming(f) # {}
    PROVE  Newest(f) \in DOMAIN issues /\ f \in issues[Newest(f)].about
           /\ Newest(f) \in 0 .. MaxIssues /\ Newest(f) <= Len(issues)
<1> DEFINE n == Len(issues)
           T == {n - j : j \in Naming(f)}
<1>1. n \in Nat /\ n <= MaxIssues /\ DOMAIN issues = 1 .. n /\ Naming(f) \subseteq 1 .. n
  BY DEF Types, TypeOK, Naming
<1> HIDE DEF n
<1>2. T \in SUBSET Nat /\ T # {}
  BY <1>1
<1>3. PICK x \in T : \A y \in T : x <= y
  <2> HIDE DEF T
  <2> QED BY <1>2, LeastNat
<1>4. PICK k \in Naming(f) : x = n - k
  BY <1>3
<1>5. \A j \in Naming(f) : j <= k
  <2> TAKE j \in Naming(f)
  <2>1. x <= n - j /\ j \in Int /\ k \in Int
    BY <1>1, <1>3
  <2> QED BY <1>1, <1>4, <2>1
<1>6. Newest(f) \in Naming(f)
  BY <1>5 DEF Newest
<1>7. Newest(f) \in 1 .. n /\ n \in Nat /\ n <= MaxIssues /\ MaxIssues \in Nat
  BY <1>1, <1>6, DigestAssumption
<1>8. Newest(f) \in 0 .. MaxIssues /\ Newest(f) <= n
  <2> DEFINE k0 == Newest(f)
  <2>1. k0 \in 1 .. n
    BY <1>7
  <2> HIDE DEF k0
  <2>2. k0 \in 0 .. MaxIssues /\ k0 <= n
    BY <1>7, <2>1
  <2> QED BY <2>2 DEF k0
<1> QED BY <1>6, <1>8 DEF Naming, n
\* The issue is looked for: found, or the reservation is kept.
LEMMA CreateFoundKeeps == ASSUME IInv, CreateFound PROVE IInv'
<1> DEFINE i == "ingest"
           o == act[i]
<1>1. Types /\ TicketInv /\ i \in Actors
  BY DEF IInv, Actors
<1>2. o \in Acts /\ o.snap \in Rows
  BY <1>1, OneActor
<1>3. o.pc = "find"
      /\ UNCHANGED <<row, verdict, erased, issues, log, day, comments, excused, unanswered, given, unrecorded>>
  BY DEF CreateFound, rowVars, ghosts
<1>4. PICK f \in Fps : o.fps = {f} /\ Its(i) = f /\ Creating(f) /\ Holds(f, o) /\ \A g \in Fps : Creating(g) => g = f
  BY <1>3, AtTicket DEF Creates
<1>5. Reason(f)
  BY <1>3, <1>4 DEF Holds
<1>6. mishaps' \in 0 .. MaxMishaps
  BY <1>1, Counted DEF CreateFound
<1>7. Marks' /\ Later
  BY <1>1, <1>3, <1>6, Counted, MarksSame, WorldSame
<1>8. (\A g \in Fps : RowOf(g)') /\ RowTypes'
  <2>1. Reason(f)'
    BY <1>1, <1>5, <1>7, ReasonsStay
  <2> QED BY <1>1, <1>3, <1>4, <1>7, <2>1, RowsStay
<1>9. \A g \in Fps : row[g].branch => row'[g].branch \/ Erased(g)'
  BY <1>3
<1>10. o.pc \in Creates /\ o.pc \notin Releasing \cup {"open", "record"}
  BY <1>3 DEF Releasing, Creates
<1>11. CASE Rests(i)
  BY <1>1, <1>3, <1>7, <1>8, <1>9, <1>10, <1>11, RestStep
<1>12. CASE ~Rests(i)
  <2>1. Naming(f) # {}
    BY <1>4, <1>12 DEF CreateFound
  <2>2. PICK n \in 0 .. MaxIssues : n = Newest(f) /\ TicketOf(f, n) /\ n <= Len(issues)
    BY <1>1, <1>5, <2>1, NewestNames DEF TicketOf
  <2>3. PICK r \in Acts : /\ r = [o EXCEPT !.pc = "bind", !.issue = n, !.snap.state = "queued"]
                          /\ r.pc = "bind" /\ r.fps = o.fps /\ r.day = o.day /\ r.issue = n
                          /\ r.snap.ticket = o.snap.ticket /\ r.snap.kept = o.snap.kept
    BY <1>2, ToBind
  <2>4. Turns(i, r)
    BY <1>4, <1>12, <2>2, <2>3 DEF CreateFound, Turns
  <2>5. Holds(f, r)
    BY <1>4, <2>2, <2>3 DEF Holds
  <2>6. Holds(f, r)'
    BY <1>1, <1>7, <2>5, HoldingStays
  <2>7. r.pc \in Creates /\ r.issue <= Len(issues')
    BY <1>3, <2>2, <2>3 DEF Creates
  <2> QED BY <1>3, <1>4, <1>7, <1>8, <1>9, <1>10, <2>3, <2>4, <2>6, <2>7, TicketStep
<1> QED BY <1>11, <1>12

\* An old reservation is taken up.
LEMMA ReconsidersKeeps == ASSUME IInv, NEW f \in Fps, Reconsiders(f) PROVE IInv'
<1> DEFINE i == "ingest"
<1>1. Types /\ TicketInv /\ i \in Actors /\ "recover" \in Pcs
  BY DEF IInv, Actors, Pcs
<1>2. act[i].pc = "idle" /\ row[f].ticket = 0 /\ row[f].kept /\ Takes(i, f, "recover")
      /\ UNCHANGED <<row, verdict, erased, issues, log, day, comments, mishaps, excused, unanswered, given, unrecorded>>
  BY DEF Reconsiders, Free, rowVars, bounds, ghosts
<1>3. PICK r \in Acts : /\ Turns(i, r) /\ r.pc = "recover" /\ r.fps = {f} /\ r.snap = row[f]
                        /\ r.day = 0 /\ r.issue = 0
  BY <1>1, <1>2, Taken
<1>4. Marks' /\ Later
  BY <1>1, <1>2, Counted, MarksSame, WorldSame
<1>5. \A g \in Fps : ~Creating(g)
  BY <1>2 DEF Creating, Creates
<1>6. (\A g \in Fps : RowOf(g)') /\ RowTypes'
  BY <1>1, <1>2, <1>4, <1>5, RowsStay
<1>7. Reason(f)
  BY <1>1, <1>2, <1>5 DEF TicketInv, RowOf
<1>8. Holds(f, r)
  BY <1>1, <1>2, <1>3, <1>7 DEF Holds, TicketInv, RowOf
<1>9. Holds(f, r)'
  BY <1>1, <1>4, <1>8, HoldingStays
<1>10. \A g \in Fps : r.fps = {g} => Holds(g, r)'
  BY <1>3, <1>9
<1>11. RoleOf(i, r)' /\ r.day <= day' /\ r.issue <= Len(issues')
  BY <1>1, <1>2, <1>3, Counted DEF RoleOf, Creates, Releasing
<1>12. \A g \in Fps : row[g].branch => row'[g].branch \/ Erased(g)'
  BY <1>2
<1>13. act[i].pc \notin Releasing \cup {"open", "record"} /\ r.pc \notin Releasing \cup {"open", "record"}
  BY <1>2, <1>3 DEF Releasing
<1> QED BY <1>1, <1>2, <1>3, <1>4, <1>6, <1>10, <1>11, <1>12, <1>13, PlainStep

\* Its issue is found, or it is created anew.
LEMMA RecoversKeeps == ASSUME IInv, Recovers PROVE IInv'
<1> DEFINE i == "ingest"
           o == act[i]
           s == [o.snap EXCEPT !.state = "queued"]
           t == [s EXCEPT !.kept = TRUE]
<1>1. Types /\ TicketInv /\ i \in Actors /\ "queued" \in States /\ "bind" \in Pcs
  BY DEF IInv, Actors, States, Pcs
<1>2. o \in Acts /\ o.snap \in Rows
  BY <1>1, OneActor
<1>3. o.pc = "recover"
      /\ UNCHANGED <<verdict, issues, log, day, comments, excused, unanswered, given, unrecorded>>
  BY DEF Recovers, ghosts
<1>4. PICK f \in Fps : o.fps = {f} /\ Its(i) = f /\ Creating(f) /\ Holds(f, o) /\ \A g \in Fps : Creating(g) => g = f
  BY <1>3, AtTicket DEF Creates
<1>5. Reason(f) /\ o.snap.ticket = 0
  BY <1>3, <1>4 DEF Holds
<1>6. mishaps' \in 0 .. MaxMishaps
  BY <1>1, Counted DEF Recovers
<1>7. o.pc \in Creates
  BY <1>3 DEF Creates
<1>8. CASE Naming(f) # {} /\ UNCHANGED <<row, erased, mishaps>>
           /\ act' = [act EXCEPT ![i] = [@ EXCEPT !.pc = "bind", !.issue = Newest(f)]]
  <2>1. PICK n \in 0 .. MaxIssues : n = Newest(f) /\ TicketOf(f, n) /\ n <= Len(issues)
    BY <1>1, <1>5, <1>8, NewestNames DEF TicketOf
  <2>2. PICK r \in Acts : Turns(i, r) /\ r.pc = "bind" /\ r.fps = o.fps /\ r.day = o.day /\ r.issue = n /\ r.snap = o.snap
    <3> DEFINE p == [o EXCEPT !.pc = "bind"]
               r == [p EXCEPT !.issue = n]
    <3>1. Turns(i, r)
      BY <1>8, <2>1 DEF Turns
    <3>2. p \in Acts /\ p.pc = "bind" /\ p.fps = o.fps /\ p.day = o.day /\ p.snap = o.snap
      BY <1>1, <1>2, AtPc
    <3> HIDE DEF p
    <3>3. r \in Acts /\ r.pc = "bind" /\ r.fps = o.fps /\ r.day = o.day /\ r.issue = n /\ r.snap = o.snap
      BY <3>2, AtIssue
    <3> HIDE DEF r
    <3> QED BY <3>1, <3>3
  <2>3. Marks' /\ Later
    BY <1>1, <1>3, <1>6, <1>8, Counted, MarksSame, WorldSame
  <2>4. Reason(f)'
    BY <1>1, <1>5, <2>3, ReasonsStay
  <2>5. (\A g \in Fps : RowOf(g)') /\ RowTypes'
    BY <1>1, <1>4, <1>8, <2>3, <2>4, RowsStay
  <2>6. Holds(f, r)
    BY <1>4, <1>5, <2>1, <2>2 DEF Holds
  <2>7. Holds(f, r)'
    BY <1>1, <2>3, <2>6, HoldingStays
  <2>8. r.pc \in Creates /\ r.issue <= Len(issues')
    BY <1>3, <2>1, <2>2 DEF Creates
  <2>9. \A g \in Fps : row[g].branch => row'[g].branch \/ Erased(g)'
    BY <1>8
  <2> QED BY <1>3, <1>4, <1>7, <1>8, <2>2, <2>3, <2>5, <2>7, <2>8, <2>9, TicketStep
<1>9. CASE /\ act' = [act EXCEPT ![i] =
                        [@ EXCEPT !.pc = "create", !.snap.state = "new", !.snap.kept = FALSE]]
           /\ Saves(f, [o.snap EXCEPT !.state = "queued", !.kept = TRUE])
  <2>1. s \in Rows /\ s.ticket = 0 /\ s.state = "queued"
    BY <1>1, <1>2, <1>5, NewState
  <2>2. t \in Rows /\ t.ticket = 0 /\ t.kept = TRUE /\ t.state = "queued"
    <3> HIDE DEF s
    <3> QED BY <2>1, NewKept
  <2>3. PICK new \in Rows : Saves(f, new) /\ new.ticket = 0 /\ new.kept = TRUE /\ new.state = "queued"
    <3>1. t = [o.snap EXCEPT !.state = "queued", !.kept = TRUE]
      OBVIOUS
    <3> QED BY <1>9, <2>2, <3>1
  <2>4. PICK r \in Acts : /\ r = [o EXCEPT !.pc = "create", !.snap.state = "new", !.snap.kept = FALSE]
                          /\ r.pc = "create" /\ r.fps = o.fps /\ r.day = o.day /\ r.issue = o.issue
                          /\ r.snap.ticket = o.snap.ticket /\ r.snap.kept = FALSE
    BY <1>2, ToCreate
  <2>5. Turns(i, r)
    BY <1>9, <2>4 DEF Turns
  <2>6. Marks' /\ erased \subseteq erased'
    BY <1>1, <1>3, <1>6, <2>3, Counted, MarksSaved
  <2>7. Later
    BY <1>1, <1>3, <2>6, WorldSame
  <2>8. Holds(f, r)'
    BY <1>5, <2>4 DEF Holds
  <2>9. Creating(f)'
    <3>1. act'[i] = r
      BY <1>1, <2>5, TurnedTo
    <3> QED BY <1>4, <2>4, <3>1 DEF Creating, Creates
  <2>10. (\A g \in Fps : RowOf(g)') /\ RowTypes'
    BY <1>1, <1>4, <2>3, <2>7, <2>9, RowsSaved
  <2>11. \A g \in Fps : row[g].branch => row'[g].branch \/ Erased(g)'
    BY <1>1, <2>3, BranchesStay
  <2>12. r.pc \in Creates /\ r.issue <= Len(issues')
    BY <1>1, <1>3, <2>4, OneActor DEF Creates
  <2> QED BY <1>3, <1>4, <1>7, <2>4, <2>5, <2>6, <2>8, <2>10, <2>11, <2>12, TicketStep
<1> QED BY <1>4, <1>8, <1>9 DEF Recovers
\* The row that was read is saved with its ticket.
LEMMA BindsKeeps == ASSUME IInv, Binds PROVE IInv'
<1> DEFINE i == "ingest"
           o == act[i]
           s == [o.snap EXCEPT !.ticket = o.issue]
           t == [s EXCEPT !.kept = FALSE]
<1>1. Types /\ TicketInv /\ i \in Actors
  BY DEF IInv, Actors
<1>2. o \in Acts /\ o.snap \in Rows /\ o.issue \in 0 .. MaxIssues
  BY <1>1, OneActor, ActFields
<1>3. o.pc = "bind" /\ Rests(i)
      /\ UNCHANGED <<verdict, issues, log, day, comments, mishaps, excused, unanswered, given, unrecorded>>
  BY DEF Binds, ghosts, bounds
<1>4. PICK f \in Fps : o.fps = {f} /\ Its(i) = f /\ Creating(f) /\ Holds(f, o) /\ \A g \in Fps : Creating(g) => g = f
  BY <1>3, AtTicket DEF Creates
<1>5. s \in Rows /\ s.ticket = o.issue
  <2> HIDE DEF o
  <2> QED BY <1>2, NewTicket
<1>6. t \in Rows /\ t.ticket = o.issue /\ t.kept = FALSE
  <2> HIDE DEF s
  <2> QED BY <1>5, NewKept
<1>7. PICK new \in Rows : Saves(f, new) /\ new.ticket = o.issue /\ new.kept = FALSE
  <2>1. t = [o.snap EXCEPT !.ticket = o.issue, !.kept = FALSE]
    OBVIOUS
  <2>2. Saves(f, t)
    BY <1>4, <2>1 DEF Binds
  <2> QED BY <1>6, <2>2
<1>8. Marks' /\ erased \subseteq erased'
  BY <1>1, <1>3, <1>7, Counted, MarksSaved
<1>9. Later
  BY <1>1, <1>3, <1>8, WorldSame
<1>10. (\A g \in Fps : RowOf(g)') /\ RowTypes'
  <2>1. new.ticket # 0 => TicketOf(f, new.ticket)
    BY <1>3, <1>4, <1>7 DEF Holds
  <2> QED BY <1>1, <1>4, <1>7, <1>9, <2>1, RowsSaved
<1>11. \A g \in Fps : row[g].branch => row'[g].branch \/ Erased(g)'
  BY <1>1, <1>7, BranchesStay
<1>12. o.pc \notin Releasing \cup {"open", "record"}
  BY <1>3 DEF Releasing
<1> QED BY <1>1, <1>3, <1>8, <1>10, <1>11, <1>12, RestStep

-------------------------------------------------------------------------------
(* Investigations and passes                                                    *)

\* An idle thread takes something up that is no ticket, no release and no digest yet.
LEMMA TakesUp ==
    ASSUME IInv, NEW a \in Actors, act[a].pc = "idle", NEW r \in Acts, Turns(a, r),
           r.pc \notin Creates \cup Releasing \cup {"open", "record"}, r.day = 0, r.issue = 0,
           r.pc = "judge" => \E f \in Fps : r.fps = {f},
           \A f \in Fps : r.fps = {f} => r.snap = row[f] \/ r.snap = NewRow,
           comments' \in 0 .. MaxComments,
           UNCHANGED <<row, verdict, erased, issues, log, day, mishaps, excused, unanswered, given, unrecorded>>
    PROVE  IInv'
<1>1. Types /\ TicketInv
  BY DEF IInv
<1>2. Marks' /\ Later
  BY <1>1, Counted, MarksSame, WorldSame
<1>3. act[a].pc \notin Creates /\ act[a].pc \notin Releasing \cup {"open", "record"}
  BY DEF Creates, Releasing
<1>4. (\A g \in Fps : RowOf(g)') /\ RowTypes'
  BY <1>1, <1>2, <1>3, CreatingStays, RowsStay
<1>5. ASSUME NEW f \in Fps, r.fps = {f} PROVE Holds(f, r)'
  <2>1. r.pc \notin {"find", "recover", "bind"}
    BY DEF Creates
  <2>2. Holds(f, r)
    BY <1>1, <1>5, <2>1, IdleFields DEF Holds, TicketInv, RowOf
  <2> QED BY <1>1, <1>2, <2>2, HoldingStays
<1>6. RoleOf(a, r)'
  <2>1. r.pc \notin {"open", "record", "log"} /\ r.pc \notin Creates /\ r.pc \notin Releasing
    BY DEF Releasing
  <2> QED BY <2>1 DEF RoleOf
<1>7. r.day <= day' /\ r.issue <= Len(issues')
  BY <1>1, Counted
<1>8. \A g \in Fps : row[g].branch => row'[g].branch \/ Erased(g)'
  OBVIOUS
<1>9. r.pc \notin Releasing \cup {"open", "record"}
  OBVIOUS
<1> QED BY <1>2, <1>3, <1>4, <1>5, <1>6, <1>7, <1>8, <1>9, PlainStep

\* The RCA loop takes up a row.
LEMMA RcaPicksKeeps == ASSUME IInv, NEW f \in Fps, RcaPicks(f) PROVE IInv'
<1>1. Types /\ "rca" \in Actors /\ "judge" \in Pcs
  BY DEF IInv, Actors, Pcs
<1>2. act["rca"].pc = "idle" /\ Takes("rca", f, "judge")
      /\ UNCHANGED <<row, verdict, erased, issues, log, day, comments, mishaps, excused, unanswered, given, unrecorded>>
  BY DEF RcaPicks, Free, rowVars, bounds, ghosts
<1>3. PICK r \in Acts : /\ Turns("rca", r) /\ r.pc = "judge" /\ r.fps = {f} /\ r.snap = row[f]
                        /\ r.day = 0 /\ r.issue = 0
  BY <1>1, <1>2, Taken
<1>4. r.pc \notin Creates \cup Releasing \cup {"open", "record"}
  BY <1>3 DEF Creates, Releasing
<1>5. comments' \in 0 .. MaxComments /\ (\E g \in Fps : r.fps = {g})
      /\ \A g \in Fps : r.fps = {g} => r.snap = row[g] \/ r.snap = NewRow
  BY <1>1, <1>2, <1>3, Counted
<1> QED BY <1>1, <1>2, <1>3, <1>4, <1>5, TakesUp

\* A comment has a row explained.
LEMMA ExplainsKeeps == ASSUME IInv, NEW w \in Workers, NEW f \in Fps, Explains(w, f) PROVE IInv'
<1>1. Types /\ w \in Actors /\ "judge" \in Pcs
  BY DEF IInv, Actors, Pcs
<1>2. act[w].pc = "idle" /\ Takes(w, f, "judge") /\ Comments
      /\ UNCHANGED <<row, verdict, erased, issues, log, day, mishaps, excused, unanswered, given, unrecorded>>
  BY DEF Explains, Free, rowVars, ghosts
<1>3. PICK r \in Acts : /\ Turns(w, r) /\ r.pc = "judge" /\ r.fps = {f} /\ r.snap = row[f]
                        /\ r.day = 0 /\ r.issue = 0
  BY <1>1, <1>2, Taken
<1>4. r.pc \notin Creates \cup Releasing \cup {"open", "record"}
  BY <1>3 DEF Creates, Releasing
<1>5. comments' \in 0 .. MaxComments /\ (\E g \in Fps : r.fps = {g})
      /\ \A g \in Fps : r.fps = {g} => r.snap = row[g] \/ r.snap = NewRow
  BY <1>1, <1>2, <1>3, Counted
<1> QED BY <1>1, <1>2, <1>3, <1>4, <1>5, TakesUp

\* A pass begins.
LEMMA PassesKeeps ==
    ASSUME IInv, NEW a \in Actors, act[a].pc = "idle", Passes(a), comments' \in 0 .. MaxComments
    PROVE  IInv'
<1> DEFINE p == [Idle EXCEPT !.pc = "look"]
           r == [p EXCEPT !.fps = Candidates]
<1>1. Turns(a, r)
  BY DEF Passes, Turns
<1>2. Candidates \in SUBSET Fps /\ "look" \in Pcs
  BY DEF Candidates, Pcs
<1>3. p \in Acts /\ p.pc = "look" /\ p.snap = NewRow /\ p.day = 0 /\ p.issue = 0
  BY <1>2, IdleFields, AtPc
<1> HIDE DEF p
<1>4. r \in Acts /\ r.pc = "look" /\ r.snap = NewRow /\ r.day = 0 /\ r.issue = 0
  BY <1>2, <1>3, AtFps
<1> HIDE DEF r
<1>5. PICK u \in Acts : Turns(a, u) /\ u.pc = "look" /\ u.snap = NewRow /\ u.day = 0 /\ u.issue = 0
  BY <1>1, <1>4
<1>6. UNCHANGED <<row, verdict, erased, issues, log, day, mishaps, excused, unanswered, given, unrecorded>>
  BY DEF Passes, rowVars, ghosts
<1>7. u.pc \notin Creates \cup Releasing \cup {"open", "record"} /\ u.pc # "judge"
  BY <1>5 DEF Creates, Releasing
<1> QED BY <1>5, <1>6, <1>7, TakesUp

\* Every hour.
LEMMA HourlyPassKeeps == ASSUME IInv, HourlyPass PROVE IInv'
<1>1. "daily" \in Actors /\ act["daily"].pc = "idle" /\ Passes("daily") /\ comments' \in 0 .. MaxComments
  BY Counted DEF HourlyPass, Free, Actors, IInv
<1> QED BY <1>1, PassesKeeps

\* On a comment.
LEMMA DigestCommandKeeps == ASSUME IInv, NEW w \in Workers, NEW f \in Fps, DigestCommand(w, f) PROVE IInv'
<1>1. w \in Actors /\ act[w].pc = "idle" /\ Passes(w) /\ comments' \in 0 .. MaxComments
  BY Counted DEF DigestCommand, Free, Actors, IInv
<1> QED BY <1>1, PassesKeeps

\* A verdict is saved with the row that was read.
LEMMA JudgesKeeps == ASSUME IInv, NEW a \in Actors, Judges(a) PROVE IInv'
<1> DEFINE o == act[a]
<1>1. Types /\ TicketInv
  BY DEF IInv
<1>2. o \in Acts /\ o.snap \in Rows
  BY <1>1, OneActor
<1>3. o.pc = "judge" /\ Rests(a)
      /\ UNCHANGED <<issues, log, day, comments, mishaps, excused, unanswered, given, unrecorded>>
  BY DEF Judges, ghosts, bounds
<1>4. PICK f \in Fps : o.fps = {f} /\ Its(a) = f /\ Holds(f, o)
  <2>1. PICK f \in Fps : o.fps = {f}
    BY <1>1, <1>3 DEF Types, Roles, RoleOf
  <2> QED BY <1>1, <2>1, ItsOne DEF TicketInv
<1>5. PICK st \in {"open", "awaiting"} : Saves(f, [o.snap EXCEPT !.state = st])
  BY <1>4 DEF Judges
<1>6. verdict' \in [Fps -> BOOLEAN]
  BY <1>1, Counted DEF Judges
<1>7. PICK new \in Rows : /\ Saves(f, new) /\ new.state # "queued" /\ new.ticket = o.snap.ticket
                          /\ new.kept = o.snap.kept
  <2> DEFINE s == [o.snap EXCEPT !.state = st]
  <2>1. st \in States /\ st # "queued"
    BY DEF States
  <2>2. s \in Rows /\ s.state = st /\ s.ticket = o.snap.ticket /\ s.kept = o.snap.kept
    BY <1>2, <2>1, NewState
  <2>3. Saves(f, s)
    BY <1>5
  <2> HIDE DEF s
  <2> QED BY <2>1, <2>2, <2>3
<1>8. Marks' /\ erased \subseteq erased'
  BY <1>1, <1>3, <1>6, <1>7, Counted, MarksSaved
<1>9. Later
  BY <1>1, <1>3, <1>8, WorldSame
<1>10. \A g \in Fps : Creating(g) => Creating(g)'
  <2>1. Turns(a, Idle) /\ Idle \in Acts /\ o.pc \notin Creates
    BY <1>3, IdleFields DEF Rests, Turns, Creates
  <2> QED BY <1>1, <2>1, CreatingStays
<1>11. (\A g \in Fps : RowOf(g)') /\ RowTypes'
  <2>1. (new.kept => new.ticket = 0) /\ (new.ticket # 0 => TicketOf(f, new.ticket))
    BY <1>4, <1>7 DEF Holds
  <2> QED BY <1>1, <1>7, <1>9, <1>10, <2>1, RowsSaved
<1>12. \A g \in Fps : row[g].branch => row'[g].branch \/ Erased(g)'
  BY <1>1, <1>7, BranchesStay
<1>13. o.pc \notin Releasing \cup {"open", "record"}
  BY <1>3 DEF Releasing
<1> QED BY <1>1, <1>3, <1>8, <1>11, <1>12, <1>13, RestStep
\* A step of a pass keeps everything that is not about digests.
LEMMA PassStep ==
    ASSUME IInv, NEW a \in Actors, act[a].pc \in {"look", "open", "record"},
           NEW r \in Acts, Turns(a, r), r.pc \in {"idle", "open", "record"},
           r.fps = {} \/ (r.fps = act[a].fps /\ r.snap = act[a].snap),
           World', Later, RoleOf(a, r)', r.day <= day', r.issue <= Len(issues'),
           excused' \subseteq Days, mishaps' \in 0 .. MaxMishaps,
           UNCHANGED <<row, verdict, erased, comments, unanswered, given, unrecorded>>
    PROVE  Types' /\ TicketInv' /\ ApprovalInv'
<1>1. Types /\ TicketInv /\ ApprovalInv
  BY DEF IInv
<1>2. act[a].pc \notin Creates /\ act[a].pc \notin Releasing /\ r.pc \notin Releasing
      /\ r.pc \notin {"find", "recover", "bind"}
  BY DEF Creates, Releasing
<1>3. (\A g \in Fps : RowOf(g)') /\ RowTypes'
  BY <1>1, <1>2, CreatingStays, RowsStay
<1>4. Marks'
  BY <1>1 DEF Marks, Types, TypeOK
<1>5. Types'
  BY <1>1, <1>3, <1>4, TypesKept
<1>6. ASSUME NEW f \in Fps, r.fps = {f} PROVE Holds(f, r)'
  <2>1. r.snap = act[a].snap /\ Holds(f, act[a])
    BY <1>1, <1>6 DEF TicketInv
  <2>2. Holds(f, r)
    BY <1>2, <2>1 DEF Holds
  <2> QED BY <1>1, <2>2, HoldingStays
<1>7. TicketInv'
  BY <1>1, <1>3, <1>6, TicketsKept
<1>8. ApprovalInv'
  BY <1>1, <1>2, ApprovalsKept
<1> QED BY <1>5, <1>7, <1>8

\* A day that the step of a thread is not about.
LEMMA OtherDay ==
    ASSUME Types, NEW a \in Actors, NEW r \in Acts, Turns(a, r), Later, World',
           NEW d \in Days, DayInv(d),
           act[a].pc \in {"open", "record"} => act[a].day # d,
           r.pc \in {"open", "record"} => r.day # d,
           DigestsOf(d)' \subseteq DigestsOf(d)
    PROVE  DayInv(d)'
<1>1. act'[a] = r /\ \A b \in Actors \ {a} : act'[b] = act[b]
  BY TurnedTo
<1>2. \A b \in Actors : Passing(b, d)' => Passing(b, d)
  BY <1>1 DEF Passing
<1>3. \A b \in Actors : act'[b].pc = "open" /\ act'[b].day = d => act[b].pc = "open" /\ act[b].day = d
  BY <1>1
<1>4. ASSUME NEW i, Recording(d, i) PROVE Recording(d, i)'
  <2>1. PICK b \in Actors : act[b].pc = "record" /\ act[b].day = d /\ act[b].issue = i
    BY <1>4 DEF Recording
  <2>2. act'[b] = act[b]
    BY <1>1, <2>1
  <2> QED BY <2>1, <2>2 DEF Recording
<1>5. \A i : Recorded(d, i) => Recorded(d, i)'
  BY DEF Recorded, Later
<1>6. Pushed(d) => Pushed(d)'
  BY PushedStays
<1> QED BY <1>2, <1>3, <1>4, <1>5, <1>6 DEF DayInv

\* A digest on record that a pass does not see has been pushed out of sight.
LEMMA UnseenIsPushed ==
    ASSUME Types, NEW d \in Days, ~Exists(d), NEW n \in DOMAIN log[d], log[d][n].what = "create"
    PROVE  Pushed(d)
<1> DEFINE m == Len(log[d])
           S == {k \in DOMAIN log[d] : log[d][k].what # "create"}
           T == m - Recent + 1 .. m
<1>1. m \in Nat /\ DOMAIN log[d] = 1 .. m /\ Recent \in Nat \ {0}
  BY DigestAssumption DEF Types, TypeOK
<1>2. \A k \in DOMAIN log[d] : k > m - Recent => log[d][k].what # "create"
  BY DEF Exists, Lines
<1>3. n <= m - Recent /\ n >= 1
  BY <1>1, <1>2
<1> HIDE DEF m
<1>4. T \subseteq S
  BY <1>1, <1>2, <1>3
<1>5. IsFiniteSet(T) /\ Cardinality(T) = Recent
  <2>1. m - Recent + 1 \in Int /\ m \in Int /\ ~(m - Recent + 1 > m) /\ m - (m - Recent + 1) + 1 = Recent
    BY <1>1
  <2> QED BY <2>1, FS_Interval
<1>6. IsFiniteSet(S)
  <2>1. IsFiniteSet(1 .. m) /\ S \subseteq 1 .. m
    BY <1>1, FS_Interval
  <2> HIDE DEF S
  <2> QED BY <2>1, FS_Subset
<1>7. Cardinality(T) <= Cardinality(S)
  <2> HIDE DEF S, T
  <2> QED BY <1>4, <1>6, FS_Subset
<1>8. Cardinality(S) \in Nat
  <2> HIDE DEF S
  <2> QED BY <1>6, FS_CardinalityType
<1>9. Cardinality(S) >= Recent
  <2> HIDE DEF S, T
  <2> QED BY <1>1, <1>5, <1>7, <1>8
<1> QED BY <1>9 DEF Pushed

\* A pass looks for the digest of the day.
LEMMA LooksKeeps == ASSUME IInv, NEW a \in Actors, Looks(a) PROVE IInv'
<1> DEFINE o == act[a]
<1>1. Types /\ DigestInv
  BY DEF IInv
<1>2. o \in Acts /\ o.pc = "look" /\ day \in Days /\ day \in 0 .. MaxDay
      /\ UNCHANGED <<row, verdict, erased, issues, log, day, comments, mishaps, unanswered, given, unrecorded>>
  BY <1>1, OneActor, DigestAssumption DEF Looks, rowVars, bounds, Types, TypeOK, Days
<1>3. excused \subseteq excused' /\ excused' \subseteq Days /\ mishaps' \in 0 .. MaxMishaps
  BY <1>1, <1>2, Counted DEF Looks, Types, TypeOK
<1>4. World' /\ Later
  BY <1>1, <1>2, <1>3, WorldSame
<1>5. \A d \in Days : DigestsOf(d)' \subseteq DigestsOf(d)
  BY <1>2 DEF DigestsOf
<1>6. CASE Exists(day)
  <2>1. Turns(a, Idle) /\ Idle \in Acts /\ Idle.pc = "idle" /\ Idle.fps = {} /\ Idle.day = 0 /\ Idle.issue = 0
    BY <1>6, IdleFields DEF Looks, Rests, Turns
  <2>2. RoleOf(a, Idle)' /\ Idle.day <= day' /\ Idle.issue <= Len(issues')
    BY <1>1, <1>2, <2>1, Counted DEF RoleOf, Creates, Releasing
  <2>3. Types' /\ TicketInv' /\ ApprovalInv'
    BY <1>2, <1>3, <1>4, <2>1, <2>2, PassStep
  <2>4. DigestInv'
    BY <1>1, <1>2, <1>4, <1>5, <2>1, DaysKept
  <2> QED BY <2>3, <2>4 DEF IInv
<1>7. CASE ~Exists(day)
  <2>1. PICK r \in Acts : /\ Turns(a, r) /\ r.pc = "open" /\ r.day = day /\ r.fps = o.fps
                          /\ r.snap = o.snap /\ r.issue = o.issue
    <3> DEFINE p == [o EXCEPT !.pc = "open"]
               r == [p EXCEPT !.day = day]
    <3>1. Turns(a, r)
      BY <1>7 DEF Looks, Turns
    <3>2. "open" \in Pcs
      BY DEF Pcs
    <3>3. p \in Acts /\ p.pc = "open" /\ p.fps = o.fps /\ p.snap = o.snap /\ p.issue = o.issue
      BY <1>2, <3>2, AtPc
    <3> HIDE DEF p
    <3>4. r \in Acts /\ r.pc = "open" /\ r.day = day /\ r.fps = o.fps /\ r.snap = o.snap /\ r.issue = o.issue
      BY <1>2, <3>3, AtDay
    <3> HIDE DEF r
    <3> QED BY <3>1, <3>4
  <2>2. RoleOf(a, r)' /\ r.day <= day' /\ r.issue <= Len(issues')
    BY <1>1, <1>2, <2>1, OneActor, Counted DEF RoleOf, Creates, Releasing
  <2>3. Types' /\ TicketInv' /\ ApprovalInv'
    BY <1>2, <1>3, <1>4, <2>1, <2>2, PassStep
  <2>4. ASSUME NEW d \in Days \ excused' PROVE DayInv(d)'
    <3>1. d \in Days /\ DayInv(d)
      BY <1>1, <1>3, <2>4 DEF DigestInv
    <3>2. CASE d # day
      <4>1. r.pc \in {"open", "record"} => r.day # d
        BY <2>1, <3>2
      <4>2. o.pc \in {"open", "record"} => o.day # d
        BY <1>2
      <4> QED BY <1>1, <1>4, <1>5, <2>1, <3>1, <4>1, <4>2, OtherDay
    <3>3. CASE d = day
      <4>1. \A b \in Actors : ~Passing(b, d)
        BY <1>7, <2>4, <3>3 DEF Looks, Passing
      <4>2. act'[a] = r /\ \A b \in Actors \ {a} : act'[b] = act[b]
        BY <1>1, <2>1, TurnedTo
      <4>3. \A b \in Actors : Passing(b, d)' => b = a
        BY <4>1, <4>2 DEF Passing
      <4>4. DigestsOf(d)' = DigestsOf(d) /\ log' = log
        BY <1>2 DEF DigestsOf
      <4>5. \A i \in DigestsOf(d) : Recorded(d, i)
        BY <3>1, <4>1 DEF DayInv, Recording, Passing
      <4>6. \A i \in DigestsOf(d) : Recorded(d, i)'
        BY <4>4, <4>5 DEF Recorded
      <4>7. DigestsOf(d) # {} => Pushed(d)
        BY <1>1, <1>7, <3>1, <3>3, <4>5, UnseenIsPushed DEF Recorded
      <4>8. Pushed(d) => Pushed(d)'
        BY <4>4 DEF Pushed
      <4> QED BY <3>1, <4>3, <4>4, <4>6, <4>7, <4>8 DEF DayInv
    <3> QED BY <3>2, <3>3
  <2> QED BY <2>3, <2>4 DEF IInv, DigestInv
<1> QED BY <1>6, <1>7
\* What a pass at work knows of its day.
LEMMA AtPass ==
    ASSUME IInv, NEW a \in Actors, act[a].pc \in {"open", "record"}
    PROVE  /\ Types /\ DigestInv /\ act[a] \in Acts /\ act[a].day \in Days /\ act[a].day \in 0 .. MaxDay
           /\ act[a].day <= day /\ act[a].fps \in SUBSET Fps
           /\ act[a].pc = "record" => /\ act[a].issue \in DOMAIN issues
                                      /\ issues[act[a].issue].day = act[a].day
<1>1. Types /\ DigestInv
  BY DEF IInv
<1>2. act[a] \in Acts /\ RoleOf(a, act[a]) /\ act[a].day <= day /\ act[a].fps \subseteq Fps /\ act[a].day \in 0 .. MaxDay
  BY <1>1, OneActor, ActFields
<1> QED BY <1>1, <1>2 DEF RoleOf

\* The digest is published.
LEMMA OpensKeeps == ASSUME IInv, NEW a \in Actors, Opens(a) PROVE IInv'
<1> DEFINE o == act[a]
           e == act[a].day
<1>1. o.pc = "open" /\ Lands(o.fps, e)
      /\ UNCHANGED <<row, verdict, erased, log, day, comments, mishaps, excused, unanswered, given, unrecorded>>
  BY DEF Opens, rowVars, bounds, ghosts
<1>2. Types /\ DigestInv /\ o \in Acts /\ e \in Days /\ e \in 0 .. MaxDay /\ e <= day /\ o.fps \in SUBSET Fps
  BY <1>1, AtPass
<1>3. /\ World' /\ Later
      /\ Len(issues') = Len(issues) + 1 /\ DOMAIN issues' = DOMAIN issues \cup {Len(issues) + 1}
      /\ issues'[Len(issues) + 1].day = e
      /\ Len(issues) \in Nat /\ Len(issues) < MaxIssues
  BY <1>1, <1>2, WorldLands
<1>4. PICK n \in 0 .. MaxIssues : n = Len(issues) + 1
  BY <1>3, DigestAssumption
<1>5. PICK r \in Acts : /\ Turns(a, r) /\ r.pc = "record" /\ r.day = e /\ r.fps = o.fps
                        /\ r.snap = o.snap /\ r.issue = n
  <2> DEFINE p == [o EXCEPT !.pc = "record"]
             r == [p EXCEPT !.issue = n]
  <2>1. Turns(a, r)
    BY <1>4 DEF Opens, Turns
  <2>2. "record" \in Pcs
    BY DEF Pcs
  <2>3. p \in Acts /\ p.pc = "record" /\ p.fps = o.fps /\ p.snap = o.snap /\ p.day = o.day
    BY <1>2, <2>2, AtPc
  <2> HIDE DEF p
  <2>4. r \in Acts /\ r.pc = "record" /\ r.day = e /\ r.fps = o.fps /\ r.snap = o.snap /\ r.issue = n
    BY <2>3, AtIssue
  <2> HIDE DEF r
  <2> QED BY <2>1, <2>4
<1>6. n \in DOMAIN issues' /\ issues'[n].day = e /\ n <= Len(issues')
  BY <1>3, <1>4
<1>7. RoleOf(a, r)' /\ r.day <= day' /\ r.issue <= Len(issues')
  BY <1>1, <1>2, <1>5, <1>6 DEF RoleOf, Creates, Releasing
<1>8. Types' /\ TicketInv' /\ ApprovalInv'
  <2>1. excused' \subseteq Days /\ mishaps' \in 0 .. MaxMishaps
    BY <1>1, <1>2, Counted DEF Types, TypeOK
  <2> QED BY <1>1, <1>3, <1>5, <1>7, <2>1, PassStep
<1>9. \A d \in Days : DigestsOf(d)' = IF d = e THEN DigestsOf(d) \cup {n} ELSE DigestsOf(d)
  BY <1>3, <1>4, <1>6 DEF DigestsOf, Later
<1>10. ASSUME NEW d \in Days \ excused' PROVE DayInv(d)'
  <2>1. d \in Days /\ DayInv(d)
    BY <1>1, <1>2, <1>10 DEF DigestInv
  <2>2. CASE d # e
    BY <1>2, <1>3, <1>5, <1>9, <2>1, <2>2, OtherDay
  <2>3. CASE d = e
    <3>1. act'[a] = r /\ \A b \in Actors \ {a} : act'[b] = act[b]
      BY <1>2, <1>5, TurnedTo
    <3>2. \A b \in Actors : Passing(b, d) => b = a
      BY <1>1, <2>1, <2>3 DEF DayInv, Passing
    <3>3. \A b \in Actors : Passing(b, d)' => b = a
      BY <3>1, <3>2 DEF Passing
    <3>4. \A i \in DigestsOf(d) : Recorded(d, i)
      BY <1>1, <2>1, <3>2 DEF DayInv, Recording, Passing
    <3>5. \A i \in DigestsOf(d) : Recorded(d, i)'
      BY <1>1, <3>4 DEF Recorded
    <3>6. Recording(d, n)'
      BY <1>5, <2>3, <3>1 DEF Recording
    <3>7. \A b \in Actors : ~(act'[b].pc = "open" /\ act'[b].day = d)
      BY <1>5, <3>1, <3>3 DEF Passing
    <3>8. DigestsOf(d) # {} => Pushed(d)
      BY <1>1, <2>1, <2>3 DEF DayInv
    <3>9. Pushed(d) => Pushed(d)'
      BY <1>1 DEF Pushed
    <3>10. DigestsOf(d)' = DigestsOf(d) \cup {n}
      BY <1>9, <2>1, <2>3
    <3>11. \A i, j \in DigestsOf(d)' : i = j \/ Pushed(d)'
      BY <3>8, <3>9, <3>10
    <3> QED BY <3>3, <3>5, <3>6, <3>7, <3>10, <3>11 DEF DayInv
  <2> QED BY <2>2, <2>3
<1> QED BY <1>8, <1>10 DEF IInv, DigestInv

\* It is not, or nobody knows that it is.
LEMMA PassFailsKeeps == ASSUME IInv, NEW a \in Actors, PassFails(a) PROVE IInv'
<1> DEFINE o == act[a]
           e == act[a].day
<1>1. o.pc \in {"open", "record"} /\ Mishap /\ Rests(a) /\ excused' = excused \cup {e}
      /\ (Lands(o.fps, e) \/ UNCHANGED issues)
      /\ UNCHANGED <<row, verdict, erased, log, day, comments, unanswered, given, unrecorded>>
  BY DEF PassFails, rowVars
<1>2. Types /\ DigestInv /\ o \in Acts /\ e \in Days /\ e \in 0 .. MaxDay /\ e <= day /\ o.fps \in SUBSET Fps
  BY <1>1, AtPass
<1>3. excused \subseteq excused' /\ excused' \subseteq Days /\ mishaps' \in 0 .. MaxMishaps
  BY <1>1, <1>2, Counted DEF Types, TypeOK
<1>4. World' /\ Later /\ \A d \in Days : d # e => DigestsOf(d)' \subseteq DigestsOf(d)
  <2>1. CASE UNCHANGED issues
    BY <1>1, <1>2, <1>3, <2>1, WorldSame DEF DigestsOf
  <2>2. CASE Lands(o.fps, e)
    <3>1. /\ World' /\ Later /\ DOMAIN issues' = DOMAIN issues \cup {Len(issues) + 1}
          /\ issues'[Len(issues) + 1].day = e
      BY <1>1, <1>2, <1>3, <2>2, WorldLands
    <3> QED BY <3>1 DEF DigestsOf, Later
  <2> QED BY <1>1, <2>1, <2>2
<1>5. Turns(a, Idle) /\ Idle \in Acts /\ Idle.pc = "idle" /\ Idle.fps = {} /\ Idle.day = 0 /\ Idle.issue = 0
  BY <1>1, IdleFields DEF Rests, Turns
<1>6. RoleOf(a, Idle)' /\ Idle.day <= day' /\ Idle.issue <= Len(issues')
  <2>1. day' \in Nat /\ Len(issues') \in Nat
    BY <1>4, DigestAssumption DEF World, Days
  <2> QED BY <1>5, <2>1 DEF RoleOf, Creates, Releasing
<1>7. Types' /\ TicketInv' /\ ApprovalInv'
  BY <1>1, <1>3, <1>4, <1>5, <1>6, PassStep
<1>8. ASSUME NEW d \in Days \ excused' PROVE DayInv(d)'
  <2>1. d \in Days /\ DayInv(d) /\ d # e
    BY <1>1, <1>2, <1>8 DEF DigestInv
  <2> QED BY <1>2, <1>4, <1>5, <2>1, OtherDay
<1> QED BY <1>7, <1>8 DEF IInv, DigestInv

\* It is put on record.
LEMMA RecordsKeeps == ASSUME IInv, NEW a \in Actors, Records(a) PROVE IInv'
<1> DEFINE o == act[a]
           e == act[a].day
<1>1. o.pc = "record" /\ Writes(a, "create") /\ Rests(a)
      /\ UNCHANGED <<row, verdict, erased, issues, day, comments, mishaps, excused, unanswered, given, unrecorded>>
  BY DEF Records, rowVars, bounds, ghosts
<1>2. /\ Types /\ DigestInv /\ o \in Acts /\ e \in Days /\ o.issue \in DOMAIN issues /\ issues[o.issue].day = e
  BY <1>1, AtPass
<1>3. /\ World' /\ Later
      /\ \E n \in DOMAIN log'[e] : log'[e][n] = [what |-> "create", fps |-> o.fps, issue |-> o.issue]
  BY <1>1, <1>2, WorldWrites
<1>4. Turns(a, Idle) /\ Idle \in Acts /\ Idle.pc = "idle" /\ Idle.fps = {} /\ Idle.day = 0 /\ Idle.issue = 0
  BY <1>1, IdleFields DEF Rests, Turns
<1>5. RoleOf(a, Idle)' /\ Idle.day <= day' /\ Idle.issue <= Len(issues')
  BY <1>1, <1>2, <1>4, Counted DEF RoleOf, Creates, Releasing
<1>6. Types' /\ TicketInv' /\ ApprovalInv'
  <2>1. excused' \subseteq Days /\ mishaps' \in 0 .. MaxMishaps
    BY <1>1, <1>2, Counted DEF Types, TypeOK
  <2> QED BY <1>1, <1>3, <1>4, <1>5, <2>1, PassStep
<1>7. \A d \in Days : DigestsOf(d)' = DigestsOf(d)
  BY <1>1 DEF DigestsOf
<1>8. ASSUME NEW d \in Days \ excused' PROVE DayInv(d)'
  <2>1. d \in Days /\ DayInv(d)
    BY <1>1, <1>2, <1>8 DEF DigestInv
  <2>2. CASE d # e
    BY <1>2, <1>3, <1>4, <1>7, <2>1, <2>2, OtherDay
  <2>3. CASE d = e
    <3>1. act'[a] = Idle /\ \A b \in Actors \ {a} : act'[b] = act[b]
      BY <1>2, <1>4, TurnedTo
    <3>2. \A b \in Actors : Passing(b, d) => b = a
      BY <1>1, <2>1, <2>3 DEF DayInv, Passing
    <3>3. \A b \in Actors : ~Passing(b, d)'
      BY <1>4, <3>1, <3>2 DEF Passing
    <3>4. \A i \in DigestsOf(d) : Recorded(d, i)'
      <4> TAKE i \in DigestsOf(d)
      <4>1. CASE Recorded(d, i)
        BY <1>3, <4>1, <2>1 DEF Recorded, Later
      <4>2. CASE Recording(d, i)
        <5>1. i = o.issue
          BY <3>2, <4>2 DEF Recording, Passing
        <5> QED BY <1>3, <2>3, <5>1 DEF Recorded
      <4> QED BY <2>1, <4>1, <4>2 DEF DayInv
    <3>5. Pushed(d) => Pushed(d)'
      BY <1>2, <1>3, <2>1, PushedStays
    <3>6. DigestsOf(d)' = DigestsOf(d)
      BY <1>7, <2>1
    <3> QED BY <2>1, <3>3, <3>4, <3>5, <3>6 DEF DayInv, Passing
  <2> QED BY <2>2, <2>3
<1> QED BY <1>6, <1>8 DEF IInv, DigestInv
-------------------------------------------------------------------------------
(* Approvals                                                                    *)

\* A step of an approval keeps everything that is not about approvals.
LEMMA ReleaseStep ==
    ASSUME IInv, NEW a \in Actors, act[a].pc \in {"idle"} \cup Releasing,
           NEW r \in Acts, Turns(a, r), r.pc \in {"idle"} \cup Releasing,
           World', Later, UNCHANGED issues, Marks', RoleOf(a, r)', r.day <= day', r.issue <= Len(issues'),
           \A f \in Fps : r.fps = {f} => Holds(f, r)',
           \A f \in Fps : RowOf(f)', RowTypes'
    PROVE  Types' /\ TicketInv' /\ DigestInv'
<1>1. Types /\ TicketInv /\ DigestInv
  BY DEF IInv
<1>2. act[a].pc \notin {"open", "record"} /\ r.pc \notin {"open", "record"}
  BY DEF Releasing
<1>3. \A d \in Days : DigestsOf(d)' \subseteq DigestsOf(d)
  BY DEF DigestsOf
<1>4. Types'
  BY <1>1, TypesKept
<1>5. TicketInv'
  BY <1>1, TicketsKept
<1>6. DigestInv'
  BY <1>1, <1>2, <1>3, DaysKept
<1> QED BY <1>4, <1>5, <1>6

\* A candidate of a day after a step of an approval that delivers no draft of it.
LEMMA OneRelease ==
    ASSUME Types, NEW d \in Days, NEW f \in Fps, ReleaseOf(d, f),
           NEW w \in Workers, NEW r \in Acts, Turns(w, r), Later, World',
           given'[<<d, f>>] = given[<<d, f>>],
           row[f].branch => row'[f].branch \/ Erased(f)',
           act[w].pc = "log" /\ act[w].result = "delivered" /\ About(w, d, f) =>
              Told(d, f)' \/ <<d, f>> \in unrecorded',
           r.pc = "fixing" /\ r.fps = {f} /\ Given(d, f) => Erased(f)',
           r.pc \in {"release", "fixing"} /\ r.day = d /\ r.fps = {f} /\ Given(d, f) => Beyond(d, f)',
           r.pc \in Releasing /\ r.day = d /\ r.fps = {f} =>
              \/ act[w].pc \in Releasing /\ About(w, d, f)
              \/ <<d, f>> \in unrecorded'
              \/ \A v \in Workers : ~(act[v].pc \in Releasing /\ About(v, d, f))
    PROVE  ReleaseOf(d, f)'
<1>1. Workers \subseteq Actors
  BY DEF Actors
<1>2. act'[w] = r /\ \A v \in Workers \ {w} : act'[v] = act[v]
  BY <1>1, TurnedTo
<1>3. /\ Erased(f) => Erased(f)'
      /\ <<d, f>> \in unrecorded => <<d, f>> \in unrecorded'
      /\ Told(d, f) => Told(d, f)'
      /\ Given(d, f)' <=> Given(d, f)
  BY DEF Later, Erased, Told, Given
<1>4. Beyond(d, f) => Beyond(d, f)'
  <2>1. log[d] \in Seq(AuditLines) /\ log'[d] \in Seq(AuditLines)
    BY DEF Types, TypeOK, World
  <2>2. Len(log[d]) \in Nat /\ Len(log'[d]) \in Nat /\ Released \in Nat
    BY <2>1, DigestAssumption
  <2>3. Len(log[d]) <= Len(log'[d])
    BY DEF Later
  <2> QED BY <1>3, <2>2, <2>3 DEF Beyond
<1>5. Given(d, f)' => row'[f].branch \/ Erased(f)'
  BY <1>3 DEF ReleaseOf
<1>6. ASSUME Given(d, f)'
      PROVE  \/ <<d, f>> \in unrecorded' \/ Told(d, f)'
             \/ \E v \in Workers : act'[v].pc = "log" /\ act'[v].result = "delivered" /\ About(v, d, f)'
  <2>1. CASE <<d, f>> \in unrecorded \/ Told(d, f)
    BY <1>3, <2>1
  <2>2. CASE \E v \in Workers : act[v].pc = "log" /\ act[v].result = "delivered" /\ About(v, d, f)
    <3>1. PICK v \in Workers : act[v].pc = "log" /\ act[v].result = "delivered" /\ About(v, d, f)
      BY <2>2
    <3>2. CASE v = w
      BY <3>1, <3>2
    <3>3. CASE v # w
      BY <1>2, <3>1, <3>3 DEF About
    <3> QED BY <3>2, <3>3
  <2> QED BY <1>3, <1>6, <2>1, <2>2 DEF ReleaseOf
<1>7. ASSUME NEW v \in Workers
      PROVE  /\ act'[v].pc = "fixing" /\ act'[v].fps = {f} /\ Given(d, f)' => Erased(f)'
             /\ act'[v].pc \in {"release", "fixing"} /\ About(v, d, f)' /\ Given(d, f)' => Beyond(d, f)'
  <2>1. CASE v = w
    BY <1>2, <1>3, <2>1 DEF About
  <2>2. CASE v # w
    BY <1>2, <1>3, <1>4, <2>2 DEF About, ReleaseOf
  <2> QED BY <2>1, <2>2
<1>8. ASSUME NEW v \in Workers, NEW u \in Workers, act'[v].pc \in Releasing, act'[u].pc \in Releasing,
             About(v, d, f)', About(u, d, f)', v # u
      PROVE  <<d, f>> \in unrecorded'
  <2>1. \A x \in Workers : x # w /\ act'[x].pc \in Releasing /\ About(x, d, f)'
                              => act[x].pc \in Releasing /\ About(x, d, f)
    BY <1>2 DEF About
  <2>2. CASE v # w /\ u # w
    BY <1>3, <1>8, <2>1, <2>2 DEF ReleaseOf
  <2>3. CASE v = w
    <3>1. r.pc \in Releasing /\ r.day = d /\ r.fps = {f} /\ act[u].pc \in Releasing /\ About(u, d, f)
      BY <1>2, <1>8, <2>1, <2>3 DEF About
    <3> QED BY <1>3, <1>8, <2>3, <3>1 DEF ReleaseOf
  <2>4. CASE u = w
    <3>1. r.pc \in Releasing /\ r.day = d /\ r.fps = {f} /\ act[v].pc \in Releasing /\ About(v, d, f)
      BY <1>2, <1>8, <2>1, <2>4 DEF About
    <3> QED BY <1>3, <1>8, <2>4, <3>1 DEF ReleaseOf
  <2> QED BY <2>2, <2>3, <2>4
<1>9. given'[<<d, f>>] > 1 => Erased(f)' /\ Beyond(d, f)'
  BY <1>3, <1>4 DEF ReleaseOf
<1>10. \A v, u \in Workers :
          act'[v].pc \in Releasing /\ act'[u].pc \in Releasing /\ About(v, d, f)' /\ About(u, d, f)'
             => v = u \/ <<d, f>> \in unrecorded'
  BY <1>8
<1> QED BY <1>5, <1>6, <1>7, <1>9, <1>10 DEF ReleaseOf

\* A comment approves a candidate.
LEMMA ApprovesKeeps ==
    ASSUME IInv, NEW w \in Workers, NEW i \in DOMAIN issues, NEW f \in Fps, Approves(w, i, f) PROVE IInv'
<1>1. Types /\ TicketInv /\ ApprovalInv /\ w \in Actors
  BY DEF IInv, Actors
<1>2. act[w].pc = "idle" /\ Comments
      /\ UNCHANGED <<row, verdict, erased, issues, log, day, mishaps, excused, unanswered, given>>
  BY DEF Approves, Free, rowVars
<1>3. PICK d \in Days :
         /\ IsOn(d, i, f) /\ ~WasReleased(d, f)
         /\ act' = [act EXCEPT ![w] = [Idle EXCEPT !.pc = "release", !.fps = {f}, !.day = d, !.issue = i]]
         /\ unrecorded' = IF Handling(d, f) THEN unrecorded \cup {<<d, f>>} ELSE unrecorded
  BY DEF Approves
<1>4. d \in 0 .. MaxDay /\ d <= day /\ i \in 0 .. MaxIssues /\ i <= Len(issues)
  <2>1. d \in 0 .. MaxDay /\ Len(issues) \in Nat /\ DOMAIN issues = 1 .. Len(issues) /\ Len(issues) <= MaxIssues
        /\ MaxIssues \in Nat
    BY <1>1, DigestAssumption DEF Types, TypeOK, Days
  <2>2. PICK n \in DOMAIN log[d] : log[d][n].what = "create" /\ log[d][n].issue = i
    BY <1>3 DEF IsOn
  <2>3. issues[i].day = d /\ issues[i].day <= day
    BY <1>1, <2>2 DEF Types, TypeOK
  <2>4. i \in 0 .. MaxIssues /\ i <= Len(issues)
    BY <2>1
  <2> QED BY <2>1, <2>3, <2>4
<1>5. PICK r \in Acts : /\ Turns(w, r) /\ r.pc = "release" /\ r.fps = {f} /\ r.day = d /\ r.issue = i
                        /\ r.snap = NewRow
  <2> DEFINE p == [Idle EXCEPT !.pc = "release"]
             q == [p EXCEPT !.fps = {f}]
             s == [q EXCEPT !.day = d]
             r == [s EXCEPT !.issue = i]
  <2>1. Turns(w, r)
    BY <1>3 DEF Turns
  <2>2. "release" \in Pcs /\ {f} \in SUBSET Fps
    BY DEF Pcs
  <2>3. p \in Acts /\ p.pc = "release" /\ p.snap = NewRow
    BY <2>2, IdleFields, AtPc
  <2> HIDE DEF p
  <2>4. q \in Acts /\ q.pc = "release" /\ q.snap = NewRow /\ q.fps = {f}
    BY <2>2, <2>3, AtFps
  <2> HIDE DEF q
  <2>5. s \in Acts /\ s.pc = "release" /\ s.snap = NewRow /\ s.fps = {f} /\ s.day = d
    BY <1>4, <2>4, AtDay
  <2> HIDE DEF s
  <2>6. r \in Acts /\ r.pc = "release" /\ r.snap = NewRow /\ r.fps = {f} /\ r.day = d /\ r.issue = i
    BY <1>4, <2>5, AtIssue
  <2> HIDE DEF r
  <2> QED BY <2>1, <2>6
<1>6. unrecorded \subseteq unrecorded' /\ unrecorded' \subseteq Days \X Fps
  BY <1>1, <1>3 DEF Types, TypeOK
<1>7. World' /\ Later
  BY <1>1, <1>2, <1>6, WorldSame
<1>8. Marks'
  <2>1. comments' \in 0 .. MaxComments
    BY <1>1, <1>2, Counted
  <2> QED BY <1>1, <1>2, <1>6, <2>1 DEF Marks, Types, TypeOK
<1>9. (\A g \in Fps : RowOf(g)') /\ RowTypes'
  <2>1. act[w].pc \notin Creates
    BY <1>2 DEF Creates
  <2> QED BY <1>1, <1>2, <1>5, <1>7, <2>1, CreatingStays, RowsStay
<1>10. \A g \in Fps : r.fps = {g} => Holds(g, r)'
  BY <1>5, IdleFields DEF Holds
<1>11. RoleOf(w, r)' /\ r.day <= day' /\ r.issue <= Len(issues')
  BY <1>2, <1>4, <1>5 DEF RoleOf, Creates, Releasing
<1>12. Types' /\ TicketInv' /\ DigestInv'
  <2>1. act[w].pc \in {"idle"} \cup Releasing /\ r.pc \in {"idle"} \cup Releasing
    BY <1>2, <1>5 DEF Releasing
  <2> QED BY <1>1, <1>2, <1>5, <1>7, <1>8, <1>9, <1>10, <1>11, <2>1, ReleaseStep
<1>13. ASSUME NEW e \in Days, NEW g \in Fps PROVE ReleaseOf(e, g)'
  <2>1. ReleaseOf(e, g)
    BY <1>1 DEF ApprovalInv
  <2>2. \A v \in Workers : act[v].pc \in Releasing /\ About(v, d, f) => <<d, f>> \in unrecorded'
    BY <1>3 DEF Handling, Releasing, About
  <2>3. ASSUME Given(d, f) PROVE Beyond(d, f)'
    <3>0. ReleaseOf(d, f)
      BY <1>1 DEF ApprovalInv
    <3>1. CASE <<d, f>> \in unrecorded
      BY <1>6, <3>1 DEF Beyond
    <3>2. CASE Told(d, f)
      <4>1. PICK n \in DOMAIN log[d] : log[d][n].what = "delivered" /\ f \in log[d][n].fps
        BY <3>2 DEF Told
      <4>2. ~(n > Len(log[d]) - Released)
        BY <1>3, <4>1 DEF WasReleased, Lines
      <4>3. Len(log[d]) \in Nat /\ n \in 1 .. Len(log[d]) /\ Released \in Nat
        BY <1>1, <4>1, DigestAssumption DEF Types, TypeOK
      <4>4. Len(log[d]) > Released
        BY <4>2, <4>3
      <4> QED BY <1>2, <4>4 DEF Beyond
    <3>3. CASE \E v \in Workers : act[v].pc = "log" /\ act[v].result = "delivered" /\ About(v, d, f)
      BY <2>2, <3>3 DEF Beyond, Releasing
    <3> QED BY <2>3, <3>0, <3>1, <3>2, <3>3 DEF ReleaseOf
  <2>4. r.pc = "release" /\ act[w].pc = "idle" /\ (r.day = e /\ r.fps = {g} => e = d /\ g = f)
    BY <1>2, <1>5
  <2>5. r.pc \in {"release", "fixing"} /\ r.day = e /\ r.fps = {g} /\ Given(e, g) => Beyond(e, g)'
    BY <2>3, <2>4
  <2>6. r.pc \in Releasing /\ r.day = e /\ r.fps = {g} =>
              \/ <<e, g>> \in unrecorded'
              \/ \A v \in Workers : ~(act[v].pc \in Releasing /\ About(v, e, g))
    BY <2>2, <2>4
  <2> QED BY <1>1, <1>2, <1>5, <1>7, <2>1, <2>4, <2>5, <2>6, OneRelease
<1>14. \A v, u \in Workers : act'[v].pc = "fixing" /\ act'[u].pc = "fixing" => v = u
  <2>1. \A v \in Workers : act'[v].pc = "fixing" => act[v].pc = "fixing"
    BY <1>1, <1>5, TurnedTo DEF Actors
  <2> QED BY <1>1, <2>1 DEF ApprovalInv
<1> QED BY <1>12, <1>13, <1>14 DEF IInv, ApprovalInv
\* What a thread that handles an approval is, and holds.
LEMMA AtRelease ==
    ASSUME IInv, NEW w \in Workers, act[w].pc \in Releasing
    PROVE  /\ w \in Actors /\ act[w] \in Acts /\ act[w].snap \in Rows /\ act[w].day \in Days
           /\ act[w].day <= day /\ act[w].issue <= Len(issues)
           /\ act[w].pc \notin Creates
           /\ \E f \in Fps : act[w].fps = {f} /\ Its(w) = f /\ Holds(f, act[w])
<1>1. Types /\ TicketInv /\ w \in Actors
  BY DEF IInv, Actors
<1>2. act[w] \in Acts /\ act[w].snap \in Rows /\ RoleOf(w, act[w]) /\ act[w].day <= day /\ act[w].issue <= Len(issues)
  BY <1>1, OneActor
<1>3. act[w].day \in Days /\ \E f \in Fps : act[w].fps = {f}
  BY <1>2 DEF RoleOf
<1>4. act[w].pc \notin Creates
  BY DEF Creates, Releasing
<1> QED BY <1>1, <1>2, <1>3, <1>4, ItsOne DEF TicketInv

\* The executor takes a fix up, or refuses it.
LEMMA ReleasesKeeps == ASSUME IInv, NEW w \in Workers, Releases(w) PROVE IInv'
<1> DEFINE o == act[w]
           e == act[w].day
<1>1. Types /\ TicketInv /\ ApprovalInv
  BY DEF IInv
<1>2. o.pc = "release"
      /\ UNCHANGED <<verdict, issues, log, day, comments, mishaps, excused, unanswered, given, unrecorded>>
  BY DEF Releases, bounds, ghosts
<1>3. /\ w \in Actors /\ o \in Acts /\ o.snap \in Rows /\ e \in Days /\ e <= day /\ o.issue <= Len(issues)
      /\ o.pc \notin Creates /\ o.pc \in Releasing
  BY <1>2, AtRelease DEF Releasing
<1>4. PICK f \in Fps : o.fps = {f} /\ Its(w) = f /\ Holds(f, o)
  BY <1>3, AtRelease
<1>5. CASE ~Running /\ GateOpen(f)
  <2>1. PICK r \in Acts : /\ Turns(w, r) /\ r.pc = "fixing" /\ r.fps = o.fps /\ r.day = e /\ r.issue = o.issue
                          /\ r.snap = row[f]
    <3> DEFINE p == [o EXCEPT !.pc = "fixing"]
               r == [p EXCEPT !.snap = row[f]]
    <3>1. Turns(w, r)
      BY <1>4, <1>5 DEF Releases, Turns
    <3>2. "fixing" \in Pcs /\ row[f] \in Rows
      BY <1>1 DEF Pcs, Types, TypeOK
    <3>3. p \in Acts /\ p.pc = "fixing" /\ p.fps = o.fps /\ p.day = o.day /\ p.issue = o.issue
      BY <1>3, <3>2, AtPc
    <3> HIDE DEF p
    <3>4. r \in Acts /\ r.pc = "fixing" /\ r.fps = o.fps /\ r.day = e /\ r.issue = o.issue /\ r.snap = row[f]
      BY <3>2, <3>3, AtSnap
    <3> HIDE DEF r
    <3> QED BY <3>1, <3>4
  <2>2. PICK new \in Rows : /\ Saves(f, new) /\ new.state = "fixing" /\ new.ticket = row[f].ticket
                            /\ new.kept = row[f].kept
    <3> DEFINE s == [row[f] EXCEPT !.state = "fixing"]
    <3>1. "fixing" \in States /\ row[f] \in Rows
      BY <1>1 DEF States, Types, TypeOK
    <3>2. s \in Rows /\ s.state = "fixing" /\ s.ticket = row[f].ticket /\ s.kept = row[f].kept
      BY <3>1, NewState
    <3>3. Saves(f, s)
      BY <1>4, <1>5 DEF Releases
    <3> HIDE DEF s
    <3> QED BY <3>2, <3>3
  <2>3. Marks' /\ erased \subseteq erased'
    BY <1>1, <1>2, <2>2, Counted, MarksSaved
  <2>4. World' /\ Later
    BY <1>1, <1>2, <2>3, WorldSame
  <2>5. (\A g \in Fps : RowOf(g)') /\ RowTypes'
    <3>1. (new.kept => new.ticket = 0) /\ (new.ticket # 0 => TicketOf(f, new.ticket))
      BY <1>1, <2>2 DEF TicketInv, RowOf
    <3>2. \A g \in Fps : Creating(g) => Creating(g)'
      BY <1>1, <1>3, <2>1, CreatingStays
    <3> QED BY <1>1, <2>2, <2>4, <3>1, <3>2, RowsSaved
  <2>6. \A g \in Fps : row[g].branch => row'[g].branch \/ Erased(g)'
    BY <1>1, <2>2, BranchesStay
  <2>7. \A g \in Fps : r.fps = {g} => Holds(g, r)'
    <3>1. r.pc \notin {"find", "recover", "bind"} /\ r.fps = {f}
      BY <1>4, <2>1
    <3>2. Holds(f, r)'
      BY <1>1, <2>1, <2>4, <3>1, HoldsRow
    <3> QED BY <3>1, <3>2
  <2>8. RoleOf(w, r)' /\ r.day <= day' /\ r.issue <= Len(issues')
    BY <1>2, <1>3, <1>4, <2>1 DEF RoleOf, Creates, Releasing
  <2>9. Types' /\ TicketInv' /\ DigestInv'
    <3>1. r.pc \in {"idle"} \cup Releasing
      BY <2>1 DEF Releasing
    <3> QED BY <1>2, <1>3, <2>1, <2>3, <2>4, <2>5, <2>7, <2>8, <3>1, ReleaseStep
  <2>10. ASSUME NEW d \in Days, NEW g \in Fps PROVE ReleaseOf(d, g)'
    <3>1. ReleaseOf(d, g)
      BY <1>1 DEF ApprovalInv
    <3>2. r.fps = {g} => g = f
      BY <1>4, <2>1
    <3>3. r.fps = {g} /\ Given(d, g) => Erased(g)'
      BY <1>5, <2>4, <3>1, <3>2 DEF GateOpen, ReleaseOf, Later, Erased
    <3>4. r.day = d /\ r.fps = {g} /\ Given(d, g) => Beyond(d, g)'
      BY <1>2, <2>1, <3>1 DEF ReleaseOf, About, Beyond
    <3>5. r.day = d /\ r.fps = {g} => o.pc \in Releasing /\ About(w, d, g)
      BY <1>3, <2>1 DEF About
    <3> QED BY <1>1, <1>2, <2>1, <2>4, <2>6, <3>1, <3>3, <3>4, <3>5, OneRelease
  <2>11. \A v, u \in Workers : act'[v].pc = "fixing" /\ act'[u].pc = "fixing" => v = u
    <3>1. \A v \in Workers \ {w} : act'[v] = act[v]
      BY <1>1, <1>3, <2>1, TurnedTo DEF Actors
    <3>2. \A v \in Workers : act[v].pc # "fixing"
      BY <1>5 DEF Running
    <3>3. \A v \in Workers : act'[v].pc = "fixing" => v = w
      BY <3>1, <3>2
    <3> QED BY <3>3
  <2> QED BY <2>9, <2>10, <2>11 DEF IInv, ApprovalInv
<1>6. CASE ~(~Running /\ GateOpen(f))
  <2>1. PICK r \in Acts : /\ Turns(w, r) /\ r.pc = "log" /\ r.fps = o.fps /\ r.day = e /\ r.issue = o.issue
                          /\ r.snap = o.snap /\ r.result = "refused"
    <3> DEFINE p == [o EXCEPT !.pc = "log"]
               r == [p EXCEPT !.result = "refused"]
    <3>1. Turns(w, r)
      BY <1>4, <1>6 DEF Releases, Turns
    <3>2. "log" \in Pcs
      BY DEF Pcs
    <3>3. p \in Acts /\ p.pc = "log" /\ p.fps = o.fps /\ p.day = o.day /\ p.issue = o.issue /\ p.snap = o.snap
      BY <1>3, <3>2, AtPc
    <3> HIDE DEF p
    <3>4. /\ r \in Acts /\ r.pc = "log" /\ r.fps = o.fps /\ r.day = e /\ r.issue = o.issue /\ r.snap = o.snap
          /\ r.result = "refused"
      BY <3>3, AtResult
    <3> HIDE DEF r
    <3> QED BY <3>1, <3>4
  <2>2. UNCHANGED <<row, erased>>
    BY <1>4, <1>6 DEF Releases
  <2>3. Marks'
    BY <1>1, <1>2, <2>2, Counted, MarksSame
  <2>4. World' /\ Later
    BY <1>1, <1>2, <2>2, WorldSame
  <2>5. (\A g \in Fps : RowOf(g)') /\ RowTypes'
    BY <1>1, <1>3, <2>1, <2>2, <2>4, CreatingStays, RowsStay
  <2>6. \A g \in Fps : row[g].branch => row'[g].branch \/ Erased(g)'
    BY <2>2
  <2>7. \A g \in Fps : r.fps = {g} => Holds(g, r)'
    <3>1. Holds(f, r)
      BY <1>4, <2>1 DEF Holds
    <3>2. Holds(f, r)'
      BY <1>1, <2>4, <3>1, HoldingStays
    <3> QED BY <1>4, <2>1, <3>2
  <2>8. RoleOf(w, r)' /\ r.day <= day' /\ r.issue <= Len(issues')
    BY <1>2, <1>3, <1>4, <2>1 DEF RoleOf, Creates, Releasing
  <2>9. Types' /\ TicketInv' /\ DigestInv'
    <3>1. r.pc \in {"idle"} \cup Releasing
      BY <2>1 DEF Releasing
    <3> QED BY <1>2, <1>3, <2>1, <2>3, <2>4, <2>5, <2>7, <2>8, <3>1, ReleaseStep
  <2>10. ASSUME NEW d \in Days, NEW g \in Fps PROVE ReleaseOf(d, g)'
    <3>1. ReleaseOf(d, g)
      BY <1>1 DEF ApprovalInv
    <3>2. r.day = d /\ r.fps = {g} => o.pc \in Releasing /\ About(w, d, g)
      BY <1>3, <2>1 DEF About
    <3> QED BY <1>1, <1>2, <2>1, <2>4, <2>6, <3>1, <3>2, OneRelease
  <2>11. \A v, u \in Workers : act'[v].pc = "fixing" /\ act'[u].pc = "fixing" => v = u
    <3>1. \A v \in Workers : act'[v].pc = "fixing" => act[v].pc = "fixing"
      BY <1>1, <1>3, <2>1, TurnedTo DEF Actors
    <3> QED BY <1>1, <3>1 DEF ApprovalInv
  <2> QED BY <2>9, <2>10, <2>11 DEF IInv, ApprovalInv
<1> QED BY <1>5, <1>6

\* The row that was read before the attempt is saved with its outcome.
LEMMA FixesKeeps == ASSUME IInv, NEW w \in Workers, Fixes(w) PROVE IInv'
<1> DEFINE o == act[w]
           e == act[w].day
<1>1. Types /\ TicketInv /\ ApprovalInv
  BY DEF IInv
<1>2. o.pc = "fixing"
      /\ UNCHANGED <<verdict, issues, log, day, comments, mishaps, excused, unanswered, unrecorded>>
  BY DEF Fixes, bounds
<1>3. /\ w \in Actors /\ o \in Acts /\ o.snap \in Rows /\ e \in Days /\ e <= day /\ o.issue <= Len(issues)
      /\ o.pc \notin Creates /\ o.pc \in Releasing
  BY <1>2, AtRelease DEF Releasing
<1>4. PICK f \in Fps : o.fps = {f} /\ Its(w) = f /\ Holds(f, o)
  BY <1>3, AtRelease
<1>5. PICK res \in {"delivered", "failed"} :
         /\ act' = [act EXCEPT ![w] = [@ EXCEPT !.pc = "log", !.result = res]]
         /\ IF res = "delivered"
            THEN /\ Saves(f, [o.snap EXCEPT !.state = "awaiting", !.branch = TRUE])
                 /\ given' = [given EXCEPT ![<<e, f>>] = @ + 1]
            ELSE Saves(f, [o.snap EXCEPT !.state = "open"]) /\ UNCHANGED given
  BY <1>4 DEF Fixes
<1>6. PICK r \in Acts : /\ Turns(w, r) /\ r.pc = "log" /\ r.fps = o.fps /\ r.day = e /\ r.issue = o.issue
                        /\ r.snap = o.snap /\ r.result = res
  <2> DEFINE p == [o EXCEPT !.pc = "log"]
             r == [p EXCEPT !.result = res]
  <2>1. Turns(w, r)
    BY <1>5 DEF Turns
  <2>2. "log" \in Pcs
    BY DEF Pcs
  <2>3. p \in Acts /\ p.pc = "log" /\ p.fps = o.fps /\ p.day = o.day /\ p.issue = o.issue /\ p.snap = o.snap
    BY <1>3, <2>2, AtPc
  <2> HIDE DEF p
  <2>4. res \in {"none", "delivered", "refused", "failed"}
    OBVIOUS
  <2>5. /\ r \in Acts /\ r.pc = "log" /\ r.fps = o.fps /\ r.day = e /\ r.issue = o.issue /\ r.snap = o.snap
        /\ r.result = res
    BY <2>3, <2>4, AtResult
  <2> HIDE DEF r
  <2> QED BY <2>1, <2>5
<1>7. PICK new \in Rows : /\ Saves(f, new) /\ new.state # "queued" /\ new.ticket = o.snap.ticket
                          /\ new.kept = o.snap.kept /\ (res = "delivered" => new.branch)
  <2> DEFINE st == IF res = "delivered" THEN "awaiting" ELSE "open"
             s == [o.snap EXCEPT !.state = st]
             b == [s EXCEPT !.branch = TRUE]
  <2>1. st \in States /\ st # "queued" /\ TRUE \in BOOLEAN
    BY DEF States
  <2>2. s \in Rows /\ s.state = st /\ s.ticket = o.snap.ticket /\ s.kept = o.snap.kept
    <3> HIDE DEF st
    <3> QED BY <1>3, <2>1, NewState
  <2>3. b = [o.snap EXCEPT !.state = st, !.branch = TRUE]
    OBVIOUS
  <2>4. Saves(f, IF res = "delivered" THEN b ELSE s)
    BY <1>5, <2>3
  <2>5. b \in Rows /\ b.state = st /\ b.ticket = o.snap.ticket /\ b.kept = o.snap.kept /\ b.branch = TRUE
    <3> HIDE DEF s, st
    <3> QED BY <2>1, <2>2, NewBranch
  <2> HIDE DEF b, s, st
  <2>6. CASE res = "delivered"
    BY <2>1, <2>4, <2>5, <2>6
  <2>7. CASE res # "delivered"
    BY <2>1, <2>2, <2>4, <2>7
  <2> QED BY <2>6, <2>7
<1>8. given \in [Days \X Fps -> Nat] /\ given' \in [Days \X Fps -> Nat]
      /\ \A d \in Days, g \in Fps : given'[<<d, g>>] = IF res = "delivered" /\ d = e /\ g = f
                                                       THEN given[<<d, g>>] + 1 ELSE given[<<d, g>>]
  <2>1. given \in [Days \X Fps -> Nat] /\ <<e, f>> \in Days \X Fps
    BY <1>1, <1>3 DEF Types, TypeOK
  <2>2. CASE res = "delivered"
    BY <1>5, <2>1, <2>2
  <2>3. CASE res # "delivered"
    BY <1>5, <2>1, <2>3
  <2> QED BY <2>1, <2>2, <2>3
<1>9. Marks' /\ erased \subseteq erased'
  <2>1. erased' = erased \cup ({f} \X Forgets(row[f], new)) /\ Forgets(row[f], new) \subseteq {"branch", "ticket"}
    BY <1>7 DEF Saves, Forgets
  <2>2. erased \subseteq Fps \X {"branch", "ticket"}
    BY <1>1 DEF Types, TypeOK
  <2>3. erased' \subseteq Fps \X {"branch", "ticket"}
    BY <2>1, <2>2
  <2> QED BY <1>1, <1>2, <1>8, <2>1, <2>3 DEF Marks, Types, TypeOK
<1>10. World' /\ Later
  BY <1>1, <1>2, <1>9, WorldSame
<1>11. (\A g \in Fps : RowOf(g)') /\ RowTypes'
  <2>1. (new.kept => new.ticket = 0) /\ (new.ticket # 0 => TicketOf(f, new.ticket))
    BY <1>4, <1>7 DEF Holds
  <2>2. \A g \in Fps : Creating(g) => Creating(g)'
    BY <1>1, <1>3, <1>6, CreatingStays
  <2> QED BY <1>1, <1>7, <1>10, <2>1, <2>2, RowsSaved
<1>12. \A g \in Fps : row[g].branch => row'[g].branch \/ Erased(g)'
  BY <1>1, <1>7, BranchesStay
<1>13. \A g \in Fps : r.fps = {g} => Holds(g, r)'
  <2>1. Holds(f, r)
    BY <1>4, <1>6 DEF Holds
  <2>2. Holds(f, r)'
    BY <1>1, <1>10, <2>1, HoldingStays
  <2> QED BY <1>4, <1>6, <2>2
<1>14. RoleOf(w, r)' /\ r.day <= day' /\ r.issue <= Len(issues')
  BY <1>2, <1>3, <1>4, <1>6 DEF RoleOf, Creates, Releasing
<1>15. Types' /\ TicketInv' /\ DigestInv'
  <2>1. r.pc \in {"idle"} \cup Releasing
    BY <1>6 DEF Releasing
  <2> QED BY <1>2, <1>3, <1>6, <1>9, <1>10, <1>11, <1>13, <1>14, <2>1, ReleaseStep
<1>16. ASSUME NEW d \in Days, NEW g \in Fps PROVE ReleaseOf(d, g)'
  <2>1. ReleaseOf(d, g)
    BY <1>1 DEF ApprovalInv
  <2>2. r.day = d /\ r.fps = {g} => o.pc \in Releasing /\ About(w, d, g)
    BY <1>3, <1>6 DEF About
  <2>3. CASE ~(res = "delivered" /\ d = e /\ g = f)
    BY <1>1, <1>2, <1>6, <1>8, <1>10, <1>12, <2>1, <2>2, <2>3, OneRelease
  <2>4. CASE res = "delivered" /\ d = e /\ g = f
    <3>1. About(w, d, g) /\ About(w, d, g)' /\ act'[w].pc = "log" /\ act'[w].result = "delivered"
      BY <1>1, <1>3, <1>4, <1>6, <2>4, TurnedTo DEF About
    <3>2. \A v \in Workers \ {w} : act'[v] = act[v]
      BY <1>1, <1>3, <1>6, TurnedTo DEF Actors
    <3>3. row'[g].branch
      BY <1>1, <1>7, <2>4 DEF Saves, Types, TypeOK
    <3>4. \A v \in Workers : act'[v].pc # "fixing"
      BY <1>1, <1>2, <3>1, <3>2 DEF ApprovalInv
    <3>5. \A v \in Workers : v # w /\ act'[v].pc \in Releasing /\ About(v, d, g)' => <<d, g>> \in unrecorded'
      <4> SUFFICES ASSUME NEW v \in Workers, v # w, act'[v].pc \in Releasing, About(v, d, g)'
                   PROVE  <<d, g>> \in unrecorded
        BY <1>2
      <4>1. act[v].pc \in Releasing /\ About(v, d, g)
        BY <3>2 DEF About
      <4> QED BY <1>3, <2>1, <3>1, <4>1 DEF ReleaseOf
    <3>6. given'[<<d, g>>] > 1 => Given(d, g)
      <4>1. given[<<d, g>>] \in Nat /\ given'[<<d, g>>] = given[<<d, g>>] + 1
        BY <1>8, <2>4
      <4> QED BY <4>1 DEF Given
    <3>7. Given(d, g) => Erased(g)' /\ Beyond(d, g)'
      BY <1>2, <1>4, <1>9, <2>1, <2>4, <3>1 DEF ReleaseOf, Erased, Beyond
    <3>8. \A v \in Workers : act'[v].pc \in {"release", "fixing"} /\ About(v, d, g)' => Beyond(d, g)'
      <4> SUFFICES ASSUME NEW v \in Workers, act'[v].pc \in {"release", "fixing"}, About(v, d, g)'
                   PROVE  Beyond(d, g)'
        OBVIOUS
      <4>1. v # w /\ act'[v].pc \in Releasing
        BY <3>1 DEF Releasing
      <4> QED BY <3>5, <4>1 DEF Beyond
    <3>9. \A v, u \in Workers :
             act'[v].pc \in Releasing /\ act'[u].pc \in Releasing /\ About(v, d, g)' /\ About(u, d, g)'
                => v = u \/ <<d, g>> \in unrecorded'
      BY <3>5
    <3> QED BY <3>1, <3>3, <3>4, <3>6, <3>7, <3>8, <3>9 DEF ReleaseOf
  <2> QED BY <2>3, <2>4
<1>17. \A v, u \in Workers : act'[v].pc = "fixing" /\ act'[u].pc = "fixing" => v = u
  <2>1. \A v \in Workers : act'[v].pc = "fixing" => act[v].pc = "fixing"
    BY <1>1, <1>3, <1>6, TurnedTo DEF Actors
  <2> QED BY <1>1, <2>1 DEF ApprovalInv
<1> QED BY <1>15, <1>16, <1>17 DEF IInv, ApprovalInv
\* The outcome is put on record.
LEMMA LogsKeeps == ASSUME IInv, NEW w \in Workers, Logs(w) PROVE IInv'
<1> DEFINE o == act[w]
           e == act[w].day
<1>1. Types /\ TicketInv /\ ApprovalInv
  BY DEF IInv
<1>2. o.pc = "log" /\ Writes(w, o.result) /\ Rests(w)
      /\ UNCHANGED <<row, verdict, erased, issues, day, comments, mishaps, excused, unanswered, given, unrecorded>>
  BY DEF Logs, rowVars, bounds, ghosts
<1>3. /\ w \in Actors /\ o \in Acts /\ e \in Days /\ o.pc \notin Creates /\ o.pc \in Releasing
  BY <1>2, AtRelease DEF Releasing
<1>4. PICK f \in Fps : o.fps = {f}
  BY <1>3, AtRelease
<1>5. o.result \in {"delivered", "refused", "failed"}
  BY <1>1, <1>2, <1>3, OneActor, ActFields DEF RoleOf
<1>6. /\ World' /\ Later
      /\ \E n \in DOMAIN log'[e] : log'[e][n] = [what |-> o.result, fps |-> o.fps, issue |-> o.issue]
  BY <1>1, <1>2, <1>3, <1>5, WorldWrites
<1>7. Turns(w, Idle) /\ Idle \in Acts /\ Idle.pc = "idle" /\ Idle.fps = {} /\ Idle.day = 0 /\ Idle.issue = 0
  BY <1>2, IdleFields DEF Rests, Turns
<1>8. Marks'
  BY <1>1, <1>2, Counted, MarksSame
<1>9. (\A g \in Fps : RowOf(g)') /\ RowTypes'
  BY <1>1, <1>2, <1>3, <1>6, <1>7, CreatingStays, RowsStay
<1>10. \A g \in Fps : Idle.fps = {g} => Holds(g, Idle)'
  BY <1>7
<1>11. RoleOf(w, Idle)' /\ Idle.day <= day' /\ Idle.issue <= Len(issues')
  BY <1>1, <1>2, <1>7, Counted DEF RoleOf, Creates, Releasing
<1>12. Types' /\ TicketInv' /\ DigestInv'
  BY <1>2, <1>3, <1>6, <1>7, <1>8, <1>9, <1>10, <1>11, ReleaseStep
<1>13. ASSUME NEW d \in Days, NEW g \in Fps PROVE ReleaseOf(d, g)'
  <2>1. ReleaseOf(d, g)
    BY <1>1 DEF ApprovalInv
  <2>2. o.result = "delivered" /\ About(w, d, g) => Told(d, g)'
    <3> SUFFICES ASSUME o.result = "delivered", About(w, d, g) PROVE Told(d, g)'
      OBVIOUS
    <3>1. d = e /\ o.fps = {g}
      BY DEF About
    <3>2. PICK n \in DOMAIN log'[d] : log'[d][n] = [what |-> o.result, fps |-> o.fps, issue |-> o.issue]
      BY <1>6, <3>1
    <3>3. log'[d][n].what = "delivered" /\ g \in log'[d][n].fps
      BY <3>1, <3>2
    <3> QED BY <3>3 DEF Told
  <2>3. Idle.pc \notin Releasing /\ Idle.pc \notin {"release", "fixing"} /\ Idle.pc # "fixing"
    BY <1>7 DEF Releasing
  <2>4. row[g].branch => row'[g].branch \/ Erased(g)'
    BY <1>2
  <2> QED BY <1>1, <1>2, <1>6, <1>7, <2>1, <2>2, <2>3, <2>4, OneRelease
<1>14. \A v, u \in Workers : act'[v].pc = "fixing" /\ act'[u].pc = "fixing" => v = u
  <2>1. \A v \in Workers : act'[v].pc = "fixing" => act[v].pc = "fixing"
    BY <1>1, <1>3, <1>7, TurnedTo DEF Actors
  <2> QED BY <1>1, <2>1 DEF ApprovalInv
<1> QED BY <1>12, <1>13, <1>14 DEF IInv, ApprovalInv

-------------------------------------------------------------------------------
(* Days and crashes                                                             *)

\* A day ends.
LEMMA MidnightKeeps == ASSUME IInv, Midnight PROVE IInv'
<1>1. Types /\ TicketInv /\ DigestInv /\ ApprovalInv
  BY DEF IInv
<1>2. day' = day + 1 /\ day < MaxDay /\ day \in Days /\ MaxDay \in Nat
      /\ UNCHANGED <<row, verdict, erased, issues, log, act, comments, mishaps, excused, unanswered, given, unrecorded>>
  BY <1>1, DigestAssumption DEF Midnight, rowVars, bounds, ghosts, Types, TypeOK
<1>3. day \in Int /\ day <= day' /\ day' \in Days
  BY <1>2 DEF Days
<1>4. Types'
  <2>1. \A i \in DOMAIN issues : issues[i].day <= day'
    <3> TAKE i \in DOMAIN issues
    <3>1. issues \in Seq(Issues) /\ issues[i].day <= day
      BY <1>1 DEF Types, TypeOK
    <3>2. issues[i] \in Issues
      BY <3>1
    <3>3. issues[i].day \in Int
      BY <3>2, DigestAssumption DEF Issues
    <3> QED BY <1>2, <1>3, <3>1, <3>3
  <2>2. \A a \in Actors : act[a].day <= day'
    <3> TAKE a \in Actors
    <3>1. act[a].day \in Int /\ act[a].day <= day
      BY <1>1, OneActor, ActFields, DigestAssumption
    <3> QED BY <1>2, <1>3, <3>1
  <2>3. TypeOK'
    BY <1>1, <1>2, <1>3, <2>1, <2>2 DEF Types, TypeOK
  <2>4. Roles'
    BY <1>1, <1>2 DEF Types, Roles, RoleOf
  <2> QED BY <2>3, <2>4 DEF Types
<1>5. TicketInv'
  BY <1>1, <1>2 DEF TicketInv, Holds, TicketOf, Reason, RowOf, Creating, IsDigest
<1>6. DigestInv'
  BY <1>1, <1>2 DEF DigestInv, DayInv, Passing, Recorded, Recording, DigestsOf, Pushed
<1>7. ApprovalInv'
  <2>1. ASSUME NEW d \in Days, NEW f \in Fps PROVE ReleaseOf(d, f)'
    <3>1. ReleaseOf(d, f)
      BY <1>1 DEF ApprovalInv
    <3>2. act' = act /\ row' = row /\ given' = given /\ unrecorded' = unrecorded /\ log' = log /\ erased' = erased
      BY <1>2
    <3> QED BY <3>1, <3>2 DEF ReleaseOf, Given, Erased, Told, About, Beyond
  <2>2. \A v, w \in Workers : act'[v].pc = "fixing" /\ act'[w].pc = "fixing" => v = w
    BY <1>1, <1>2 DEF ApprovalInv
  <2> QED BY <2>1, <2>2 DEF ApprovalInv
<1> QED BY <1>4, <1>5, <1>6, <1>7 DEF IInv

\* The threads end, and startup looks through the rows.
LEMMA CrashKeeps == ASSUME IInv, Crash PROVE IInv'
<1>1. Types /\ TicketInv /\ DigestInv /\ ApprovalInv
  BY DEF IInv
<1>2. /\ Mishap /\ act' = [a \in Actors |-> Idle]
      /\ row' = [f \in Fps |-> IF row[f].ticket = 0 /\ row[f].kept
                               THEN [row[f] EXCEPT !.state = "new", !.kept = FALSE] ELSE row[f]]
      /\ excused' = excused \cup {act[a].day : a \in {b \in Actors : act[b].pc = "record"}}
      /\ unrecorded' = unrecorded \cup {<<act[w].day, Its(w)>> :
                             w \in {b \in Workers : act[b].pc = "log" /\ act[b].result = "delivered"}}
      /\ UNCHANGED <<verdict, erased, issues, log, day, comments, unanswered, given>>
  BY DEF Crash
<1>3. excused \subseteq excused' /\ excused' \subseteq Days
      /\ \A a \in Actors : act[a].pc = "record" => act[a].day \in excused'
  <2>1. \A a \in Actors : act[a].pc = "record" => act[a].day \in Days
    BY <1>1, OneActor DEF RoleOf
  <2>2. excused \subseteq Days
    BY <1>1 DEF Types, TypeOK
  <2> QED BY <1>2, <2>1, <2>2
<1>4. ASSUME NEW w \in Workers, act[w].pc = "log", act[w].result = "delivered"
      PROVE  act[w].day \in Days /\ \E f \in Fps : act[w].fps = {f} /\ Its(w) = f
  BY <1>4, AtRelease DEF Releasing
<1>5. unrecorded \subseteq unrecorded' /\ unrecorded' \subseteq Days \X Fps
  <2>1. unrecorded \subseteq Days \X Fps
    BY <1>1 DEF Types, TypeOK
  <2>2. ASSUME NEW w \in {b \in Workers : act[b].pc = "log" /\ act[b].result = "delivered"}
        PROVE  <<act[w].day, Its(w)>> \in Days \X Fps
    BY <1>4
  <2> QED BY <1>2, <2>1, <2>2
<1>6. World' /\ Later
  BY <1>1, <1>2, <1>3, <1>5, WorldSame
<1>7. \A f \in Fps : /\ row'[f] \in Rows /\ row'[f].ticket = row[f].ticket /\ row'[f].branch = row[f].branch
                     /\ row'[f].kept = FALSE
  <2> TAKE f \in Fps
  <2>1. row[f] \in Rows /\ "new" \in States /\ (row[f].kept => row[f].ticket = 0)
    BY <1>1 DEF Types, TypeOK, States, TicketInv, RowOf
  <2>2. CASE row[f].ticket = 0 /\ row[f].kept
    <3> DEFINE s == [row[f] EXCEPT !.state = "new"]
               t == [s EXCEPT !.kept = FALSE]
    <3>1. row'[f] = t
      BY <1>2, <2>2
    <3>2. s \in Rows /\ s.ticket = row[f].ticket /\ s.branch = row[f].branch
      BY <2>1, NewState
    <3> HIDE DEF s
    <3>3. t \in Rows /\ t.ticket = row[f].ticket /\ t.branch = row[f].branch /\ t.kept = FALSE
      BY <3>2, NewKept
    <3> HIDE DEF t
    <3> QED BY <3>1, <3>3
  <2>3. CASE ~(row[f].ticket = 0 /\ row[f].kept)
    <3>1. row'[f] = row[f] /\ row[f].kept \in BOOLEAN
      BY <1>2, <2>1, <2>3, RowFields
    <3> QED BY <2>1, <2>3, <3>1
  <2> QED BY <2>2, <2>3
<1>8. row' \in [Fps -> Rows]
  <2>1. row' = [f \in Fps |-> row'[f]]
    BY <1>2
  <2> QED BY <1>7, <2>1
<1>9. \A a \in Actors : act'[a] = Idle
  BY <1>2
<1>10. Types'
  <2>1. Marks'
    BY <1>1, <1>2, <1>3, <1>5, Counted DEF Marks, Types, TypeOK
  <2>2. RowTypes'
    BY <1>1, <1>2, <1>7, <1>8 DEF RowTypes, Types, TypeOK
  <2>3. ActTypes'
    <3>1. Idle \in Acts /\ Idle.day <= day' /\ Idle.issue <= Len(issues')
      <4>1. day' = day /\ issues' = issues /\ day \in Nat /\ Len(issues) \in Nat
        BY <1>1, <1>2, Counted
      <4> QED BY <4>1, IdleFields
    <3>2. act' \in [Actors -> Acts]
      BY <1>2, <3>1
    <3> QED BY <1>9, <3>1, <3>2 DEF ActTypes
  <2>4. TypeOK'
    BY <1>6, <2>1, <2>2, <2>3 DEF TypeOK, World, Marks, RowTypes, ActTypes
  <2>5. Roles'
    BY <1>9, IdleFields DEF Roles, RoleOf, Creates, Releasing
  <2> QED BY <2>4, <2>5 DEF Types
<1>11. TicketInv'
  <2>1. \A a \in Actors, f \in Fps : act'[a].fps # {f}
    BY <1>9, IdleFields
  <2>2. ASSUME NEW f \in Fps PROVE RowOf(f)'
    <3>1. row[f].ticket # 0 => TicketOf(f, row[f].ticket)
      BY <1>1 DEF TicketInv, RowOf
    <3>2. row[f].ticket # 0 => TicketOf(f, row[f].ticket)'
      <4>1. \A i : TicketOf(f, i) => TicketOf(f, i)'
        BY <1>1, <1>6, ReasonsStay
      <4>2. PICK i : i = row[f].ticket
        OBVIOUS
      <4>3. i # 0 => TicketOf(f, i)'
        BY <3>1, <4>1, <4>2
      <4>4. row'[f].ticket = i
        BY <1>7, <4>2
      <4> QED BY <4>2, <4>3, <4>4 DEF TicketOf
    <3> QED BY <1>7, <3>2 DEF RowOf
  <2> QED BY <2>1, <2>2 DEF TicketInv
<1>12. DigestInv'
  <2> SUFFICES ASSUME NEW d \in Days \ excused' PROVE DayInv(d)'
    BY DEF DigestInv
  <2>1. d \in Days /\ DayInv(d)
    BY <1>1, <1>3 DEF DigestInv
  <2>2. \A a \in Actors : ~Passing(a, d)'
    BY <1>9, IdleFields DEF Passing
  <2>3. \A i : ~Recording(d, i)
    BY <1>3 DEF Recording
  <2>4. DigestsOf(d)' = DigestsOf(d) /\ (Pushed(d) => Pushed(d)') /\ \A i : Recorded(d, i) => Recorded(d, i)'
    BY <1>2 DEF DigestsOf, Pushed, Recorded
  <2> QED BY <2>1, <2>2, <2>3, <2>4 DEF DayInv, Passing
<1>13. ApprovalInv'
  <2>1. \A v \in Workers : act'[v].pc = "idle"
    BY <1>9, IdleFields DEF Actors
  <2>2. ASSUME NEW d \in Days, NEW f \in Fps PROVE ReleaseOf(d, f)'
    <3>1. ReleaseOf(d, f)
      BY <1>1 DEF ApprovalInv
    <3>2. /\ Erased(f) => Erased(f)'
          /\ Told(d, f) => Told(d, f)'
          /\ Given(d, f)' <=> Given(d, f)
          /\ Beyond(d, f) => Beyond(d, f)'
          /\ <<d, f>> \in unrecorded => <<d, f>> \in unrecorded'
      BY <1>2, <1>5 DEF Erased, Told, Given, Beyond
    <3>3. ASSUME NEW w \in Workers, act[w].pc = "log", act[w].result = "delivered", About(w, d, f)
          PROVE  <<d, f>> \in unrecorded'
      <4>1. Its(w) = f /\ act[w].day = d
        BY <3>3, ItsOne DEF About
      <4> QED BY <1>2, <3>3, <4>1
    <3>4. Given(d, f)' => /\ row'[f].branch \/ Erased(f)'
                          /\ <<d, f>> \in unrecorded' \/ Told(d, f)'
      <4>1. Given(d, f) =>
              /\ row[f].branch \/ Erased(f)
              /\ \/ <<d, f>> \in unrecorded \/ Told(d, f)
                 \/ \E w \in Workers : act[w].pc = "log" /\ act[w].result = "delivered" /\ About(w, d, f)
        BY <3>1 DEF ReleaseOf
      <4>2. row'[f].branch = row[f].branch
        BY <1>7
      <4> QED BY <3>2, <3>3, <4>1, <4>2
    <3>5. given'[<<d, f>>] > 1 => Erased(f)' /\ Beyond(d, f)'
      <4>1. given[<<d, f>>] > 1 => Erased(f) /\ Beyond(d, f)
        BY <3>1 DEF ReleaseOf
      <4>2. given' = given
        BY <1>2
      <4> QED BY <3>2, <4>1, <4>2
    <3>6. "idle" \notin Releasing
      BY DEF Releasing
    <3> QED BY <2>1, <3>4, <3>5, <3>6 DEF ReleaseOf
  <2> QED BY <2>1, <2>2 DEF ApprovalInv
<1> QED BY <1>10, <1>11, <1>12, <1>13 DEF IInv
-------------------------------------------------------------------------------
(* The theorems                                                                 *)

\* The invariant holds at first.
LEMMA InitIInv == Init => IInv
<1> SUFFICES ASSUME Init PROVE IInv
  OBVIOUS
<1>1. /\ row = [f \in Fps |-> NewRow] /\ verdict = [f \in Fps |-> FALSE]
      /\ issues = <<>> /\ log = [d \in Days |-> <<>>] /\ day = 1
      /\ act = [a \in Actors |-> Idle] /\ comments = 0 /\ mishaps = 0
      /\ excused = {} /\ unanswered = {} /\ unrecorded = {} /\ erased = {}
      /\ given = [x \in Days \X Fps |-> 0]
  BY DEF Init
<1>2. /\ \A a \in Actors : act[a] = Idle
      /\ \A f \in Fps : row[f] = NewRow
      /\ \A d \in Days : log[d] = <<>>
      /\ \A d \in Days, f \in Fps : given[<<d, f>>] = 0
      /\ Len(issues) = 0 /\ DOMAIN issues = {} /\ \A d \in Days : DOMAIN log[d] = {}
  BY <1>1
<1>3. Types
  <2>1. World
    <3>1. issues \in Seq(Issues) /\ log \in [Days -> Seq(AuditLines)]
      BY <1>1
    <3>2. Len(issues) <= MaxIssues /\ day \in Days
      BY <1>1, <1>2, DigestAssumption DEF Days
    <3> QED BY <1>2, <3>1, <3>2 DEF World
  <2>2. Marks
    BY <1>1, DigestAssumption DEF Marks
  <2>3. RowTypes
    BY <1>1, <1>2, IdleFields DEF RowTypes
  <2>4. ActTypes
    <3>1. act \in [Actors -> Acts]
      BY <1>1, IdleFields
    <3> QED BY <1>1, <1>2, <3>1, IdleFields DEF ActTypes
  <2>5. Roles
    BY <1>2, IdleHolds DEF Roles
  <2> QED BY <2>1, <2>2, <2>3, <2>4, <2>5, TypeParts DEF Types
<1>4. TicketInv
  BY <1>2, IdleHolds, IdleFields DEF TicketInv, RowOf
<1>5. DigestInv
  BY <1>2, IdleFields DEF DigestInv, DayInv, Passing, DigestsOf
<1>6. ApprovalInv
  <2>1. \A w \in Workers : act[w].pc = "idle"
    BY <1>2, IdleFields DEF Actors
  <2>2. ASSUME NEW d \in Days, NEW f \in Fps PROVE ReleaseOf(d, f)
    <3>1. ~Given(d, f) /\ ~(given[<<d, f>>] > 1) /\ "idle" \notin Releasing
      BY <1>2 DEF Given, Releasing
    <3> QED BY <2>1, <3>1 DEF ReleaseOf
  <2> QED BY <2>1, <2>2 DEF ApprovalInv
<1> QED BY <1>3, <1>4, <1>5, <1>6 DEF IInv

\* Every step keeps it.
LEMMA NextIInv == IInv /\ [Next]_vars => IInv'
<1> SUFFICES ASSUME IInv, [Next]_vars PROVE IInv'
  OBVIOUS
<1>1. CASE Ticketing
  BY <1>1, WakesKeeps, ReconsidersKeeps, CreateAnsweredKeeps, CreateRejectedKeeps, CreateUnansweredKeeps,
     CreateFoundKeeps, RecoversKeeps, BindsKeeps DEF Ticketing
<1>2. CASE Investigation
  BY <1>2, RcaPicksKeeps, ExplainsKeeps, JudgesKeeps DEF Investigation
<1>3. CASE Pass
  BY <1>3, HourlyPassKeeps, DigestCommandKeeps, LooksKeeps, OpensKeeps, PassFailsKeeps, RecordsKeeps DEF Pass
<1>4. CASE Approval
  BY <1>4, ApprovesKeeps, ReleasesKeeps, FixesKeeps, LogsKeeps DEF Approval
<1>5. CASE Midnight
  BY <1>5, MidnightKeeps
<1>6. CASE Crash
  BY <1>6, CrashKeeps
<1>7. CASE UNCHANGED vars
  <2>1. /\ row' = row /\ verdict' = verdict /\ erased' = erased /\ issues' = issues /\ log' = log /\ day' = day
        /\ act' = act /\ comments' = comments /\ mishaps' = mishaps /\ excused' = excused
        /\ unanswered' = unanswered /\ given' = given /\ unrecorded' = unrecorded
    BY <1>7 DEF vars, rowVars, bounds, ghosts
  <2>2. Types'
    <3>1. TypeOK'
      BY <2>1 DEF IInv, Types, TypeOK
    <3>2. Roles'
      BY <2>1 DEF IInv, Types, Roles, RoleOf
    <3> QED BY <3>1, <3>2 DEF Types
  <2>3. TicketInv'
    BY <2>1 DEF IInv, TicketInv, Holds, TicketOf, Reason, RowOf, Creating, IsDigest
  <2>4. DigestInv'
    BY <2>1 DEF IInv, DigestInv, DayInv, Passing, Recorded, Recording, DigestsOf, Pushed
  <2>5. ApprovalInv'
    <3>1. ASSUME NEW d \in Days, NEW f \in Fps PROVE ReleaseOf(d, f)'
      <4>1. ReleaseOf(d, f)
        BY DEF IInv, ApprovalInv
      <4> QED BY <2>1, <4>1 DEF ReleaseOf, Given, Erased, Told, About, Beyond
    <3>2. \A v, w \in Workers : act'[v].pc = "fixing" /\ act'[w].pc = "fixing" => v = w
      BY <2>1 DEF IInv, ApprovalInv
    <3> QED BY <3>1, <3>2 DEF ApprovalInv
  <2> QED BY <2>2, <2>3, <2>4, <2>5 DEF IInv
<1> QED BY <1>1, <1>2, <1>3, <1>4, <1>5, <1>6, <1>7 DEF Next

\* The invariant is one.
THEOREM Invariance == Spec => []IInv
  BY InitIInv, NextIInv, PTL DEF Spec

\* Every state is well typed: an issue on record exists, and is of its day.
THEOREM TypeCorrect == Spec => []TypeOK
<1>1. IInv => TypeOK
  BY DEF IInv, Types
<1> QED BY <1>1, Invariance, PTL

\* A ticket names its fingerprint, and is a digest only after a creation without an answer or a
\* save that brought a reservation back (_create_ticket, _bind_ticket).
THEOREM TicketReason == Spec => []TakenForATicket
<1>1. IInv => TakenForATicket
  BY DEF IInv, TicketInv, RowOf, TicketOf, Reason, TakenForATicket
<1> QED BY <1>1, Invariance, PTL

\* A second digest of a day has an excuse, or so many approvals came that the first is out of
\* sight (_ensure_digest).
THEOREM OneDigest == Spec => []OneDigestPerDay
<1>1. IInv => OneDigestPerDay
  <2> SUFFICES ASSUME IInv, NEW d \in Days \ excused,
                      Cardinality({i \in DOMAIN issues : issues[i].day = d}) > 1
               PROVE  Cardinality({n \in DOMAIN log[d] : log[d][n].what # "create"}) >= Recent
    BY DEF OneDigestPerDay
  <2> DEFINE S == DigestsOf(d)
  <2>1. IsFiniteSet(S) /\ Cardinality(S) > 1
    <3>1. Len(issues) \in Nat /\ DOMAIN issues = 1 .. Len(issues) /\ S \subseteq 1 .. Len(issues)
      BY DEF IInv, Types, TypeOK, DigestsOf
    <3>2. IsFiniteSet(1 .. Len(issues))
      BY <3>1, FS_Interval
    <3>3. IsFiniteSet(S)
      <4> HIDE DEF S
      <4> QED BY <3>1, <3>2, FS_Subset
    <3> QED BY <3>3 DEF DigestsOf
  <2>2. \E i, j \in S : i # j
    <3> HIDE DEF S
    <3> SUFFICES ASSUME \A i, j \in S : i = j PROVE FALSE
      OBVIOUS
    <3>1. CASE S = {}
      BY <2>1, <3>1, FS_EmptySet
    <3>2. CASE S # {}
      <4>1. PICK i \in S : S = {i}
        BY <3>2
      <4>2. Cardinality(S) = 1
        BY <4>1, FS_Singleton
      <4> QED BY <2>1, <4>2
    <3> QED BY <3>1, <3>2
  <2>3. Pushed(d)
    BY <2>2 DEF IInv, DigestInv, DayInv
  <2> QED BY <2>3 DEF Pushed
<1> QED BY <1>1, Invariance, PTL

\* A second draft from one digest takes a save that forgot the first, and a line of the first that
\* the second approval did not see (approve, execute).
THEOREM OnceReleased == Spec => []ReleasedOnce
<1>1. IInv => ReleasedOnce
  <2> SUFFICES ASSUME IInv, NEW x \in Days \X Fps, given[x] > 1
               PROVE  /\ <<x[2], "branch">> \in erased
                      /\ x \in unrecorded \/ Len(log[x[1]]) > Released
    BY DEF ReleasedOnce
  <2>1. PICK d \in Days, f \in Fps : x = <<d, f>>
    OBVIOUS
  <2>2. ReleaseOf(d, f)
    BY DEF IInv, ApprovalInv
  <2>3. Erased(f) /\ Beyond(d, f)
    BY <2>1, <2>2 DEF ReleaseOf
  <2> QED BY <2>1, <2>3 DEF Erased, Beyond
<1> QED BY <1>1, Invariance, PTL
===============================================================================
