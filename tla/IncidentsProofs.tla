--------------------------- MODULE IncidentsProofs ---------------------------
(* Safety of Incidents for every set of threads and commands, every number of *)
(* them in the middle of something, and every length of the window. Each step *)
(* of a thread is one of three kinds: it moves on with the row it holds, it   *)
(* saves that row, or it opens or closes the ticket. One lemma per kind says  *)
(* when it keeps the invariant; the actions only instantiate them.            *)
EXTENDS Incidents, WellFoundedInduction, TLAPS

Acts == [pc : Pcs, snap : Rows, cmd : Deliveries \cup {"none"}]
Lossy == {"state", "chronic", "drop", "ticket"}

\* What a thread may hold where it is, when m merges have happened; j: some fix was
\* confirmed.
Consistent(a, r, m, j) ==
    /\ r.snap.fix <= m
    /\ r.snap.state = "verifying" => r.snap.started > 0
    /\ r.snap.state = "verified" \/ r.pc \in {"confirm", "confirmed"} => j
    /\ a \in Workers => /\ r.pc # "idle" => r.cmd # "none"
                        /\ r.pc \in {"drop", "shut"} => r.cmd = "drop"
    /\ r.pc = "shut" => r.snap.state = "dropped"
    /\ r.pc = "unshut" => r.snap.state = "reopened"
    /\ r.pc = "deliver" => r.snap.state = "fixing"
    /\ r.pc = "return" => r.snap.state = "closed"
    /\ r.pc = "note" => r.snap.state # "dropped"
    /\ r.pc \in {"confirm", "confirmed", "refute", "refuted", "keep"} => r.snap.state = "verifying"
    /\ r.pc \in {"close", "closed"} => r.snap.state \in {"open", "reopened"}
    /\ a = "rca" /\ r.pc \in {"reserve", "deliver"} => ~r.snap.chronic

Judged == judged.to > 0
ActorsInv ==
    /\ \A a \in Actors : Consistent(a, act[a], merges, Judged)
    /\ row.state = "verified" => Judged

\* The window before the last confirming verdict was silent, and began with a deploy
\* of the fix; later events and deploys do not reach into it.
EarnedInv ==
    /\ now >= 1
    /\ judged.to \in 0 .. now /\ judged.deploys \in 0 .. Len(deploys)
    /\ events \cap (judged.to - Window .. judged.to - 1) = {}
    /\ judged.deploys > 0 =>
          \E i \in 1 .. judged.deploys :
              /\ deploys[i].fix = judged.fix
              /\ deploys[i].at \in judged.since .. judged.to - Window

\* The mark of an insufficient fix stands until a human asks for another.
MarkInv == blocked /\ "chronic" \notin lost => row.chronic /\ ~AnsweringHuman

\* A drop is done or on its way, and nobody holds the item as it was before.
Dropping == row.state = "dropped" \/ "drop" \in inbox \/ \E w \in Workers : act[w].pc = "drop"
DropInv == latest = "drop" /\ {"state", "drop"} \cap lost = {} => ~HeldAsDropped /\ Dropping

\* A settled item's ticket is closed, or a drop that will close it is on its way; who
\* is about to save it as settled has closed it.
Shutting == "drop" \in inbox \/ \E w \in Workers : act[w].pc \in {"drop", "shut"}
ShutInv ==
    lost = {} =>
        /\ row.state \in Settled /\ open => row.state = "dropped" /\ Shutting
        /\ act["sweep"].pc = "closed" \/ act["watch"].pc = "confirmed" => ~open

IInv == TypeOK /\ ActorsInv /\ EarnedInv /\ MarkInv /\ DropInv /\ ShutInv

\* A verified item was judged.
VerifiedWasJudged == row.state = "verified" => Judged

-------------------------------------------------------------------------------
(* Types                                                                       *)

\* The types of one thread and of the row.
LEMMA Typed ==
    ASSUME TypeOK
    PROVE  /\ act \in [Actors -> Acts] /\ row \in Rows /\ lost \subseteq Lossy
           /\ \A a \in Actors : /\ act[a] \in Acts /\ act[a].snap \in Rows
                                /\ act[a].pc \in Pcs /\ act[a].cmd \in Deliveries \cup {"none"}
<1>1. act \in [Actors -> Acts]
  BY DEF TypeOK, Acts
<1>2. \A r \in Acts : r.snap \in Rows /\ r.pc \in Pcs /\ r.cmd \in Deliveries \cup {"none"}
  BY DEF Acts
<1> QED BY <1>1, <1>2 DEF TypeOK, Lossy

\* The fields of a row.
LEMMA RowFields ==
    ASSUME NEW r \in Rows
    PROVE  /\ r.state \in States /\ r.seen \in Times /\ r.chronic \in BOOLEAN
           /\ r.branch \in BOOLEAN /\ r.started \in Times /\ r.fix \in 0 .. MaxMerges
  BY DEF Rows

\* The merge that a held row names is a number.
LEMMA SnapFix == ASSUME TypeOK, NEW a \in Actors PROVE act[a].snap.fix \in Int
<1>1. act[a].snap \in Rows
  BY Typed
<1> QED BY <1>1, RowFields, IncidentsAssumption

\* An idle thread is consistent with anything.
LEMMA IdleIsConsistent ==
    /\ Idle \in Acts /\ Idle.pc = "idle" /\ Idle.cmd = "none" /\ Idle.snap = NewRow
    /\ NewRow.state = "queued"
    /\ \A a, j : \A m \in Nat : Consistent(a, Idle, m, j)
<1>1. NewRow \in Rows /\ NewRow.state = "queued" /\ NewRow.fix = 0
  BY IncidentsAssumption DEF NewRow, Rows, States, Times
<1>2. Idle.pc = "idle" /\ Idle.cmd = "none" /\ Idle.snap = NewRow
  BY DEF Idle
<1>3. Idle \in Acts
  <2>1. "idle" \in Pcs
    BY DEF Pcs
  <2> QED BY <1>1, <2>1 DEF Acts, Idle
<1>4. ASSUME NEW a, NEW m \in Nat, NEW j PROVE Consistent(a, Idle, m, j)
  BY <1>1, <1>2 DEF Consistent
<1> QED BY <1>1, <1>2, <1>3, <1>4

\* What is consistent stays so when merges and verdicts are added.
LEMMA ConsistentGrows ==
    ASSUME NEW a, NEW r, r.snap.fix \in Int, NEW m \in Int, NEW n \in Int, m <= n,
           NEW j, NEW k, j => k, Consistent(a, r, m, j)
    PROVE  Consistent(a, r, n, k)
  BY DEF Consistent

\* The rows that the threads save: another state, and with it other marks.
LEMMA NewState ==
    ASSUME NEW u \in Rows, NEW s \in States
    PROVE  LET v == [u EXCEPT !.state = s]
           IN  /\ v \in Rows /\ v.state = s /\ v.chronic = u.chronic
               /\ v.started = u.started /\ v.fix = u.fix
  BY DEF Rows

\* Another mark.
LEMMA NewChronic ==
    ASSUME NEW u \in Rows, NEW c \in BOOLEAN
    PROVE  LET v == [u EXCEPT !.chronic = c]
           IN  /\ v \in Rows /\ v.state = u.state /\ v.chronic = c
               /\ v.started = u.started /\ v.fix = u.fix
  BY DEF Rows
\* Another draft.
LEMMA NewBranch ==
    ASSUME NEW u \in Rows, NEW b \in BOOLEAN
    PROVE  LET v == [u EXCEPT !.branch = b]
           IN  /\ v \in Rows /\ v.state = u.state /\ v.chronic = u.chronic
               /\ v.started = u.started /\ v.fix = u.fix
  BY DEF Rows
\* Another window.
LEMMA NewStart ==
    ASSUME NEW u \in Rows, NEW t \in Times
    PROVE  LET v == [u EXCEPT !.started = t]
           IN  /\ v \in Rows /\ v.state = u.state /\ v.chronic = u.chronic
               /\ v.started = t /\ v.fix = u.fix
  BY DEF Rows
\* Another commit.
LEMMA NewFix ==
    ASSUME NEW u \in Rows, NEW m \in 0 .. MaxMerges
    PROVE  LET v == [u EXCEPT !.fix = m]
           IN  /\ v \in Rows /\ v.state = u.state /\ v.chronic = u.chronic
               /\ v.started = u.started /\ v.fix = m
  BY DEF Rows

-------------------------------------------------------------------------------
(* The three kinds of steps                                                    *)

\* A thread a goes on with r, and nobody else moves.
Turns(a, r) == act' = [act EXCEPT ![a] = r]

\* A thread moves on: neither the row nor the ticket changes.
LEMMA MoveKeeps ==
    ASSUME IInv, NEW a \in Actors, NEW r \in Acts, Turns(a, r),
           UNCHANGED <<row, open, worldVars, latest>>,
           inbox \subseteq inbox', inbox' \subseteq Deliveries,
           arrived' \in 0 .. MaxInbox, mishaps' \in 0 .. MaxMishaps, proposed' \in BOOLEAN,
           lost \subseteq lost', lost' \subseteq Lossy, blocked' \in BOOLEAN,
           EarnedInv', Judged => Judged',
           Consistent(a, r, merges, Judged'),
           blocked' => blocked /\ ~(a \in Workers /\ r.pc \in {"reserve", "deliver"}),
           latest = "drop" /\ r.pc \in {"judge", "reserve", "reopen", "arm"} /\ r.snap.state = "dropped"
                => "drop" \in lost',
           r.pc \notin {"closed", "confirmed"}, act[a].pc # "drop",
           act[a].pc = "shut" => "drop" \in inbox'
    PROVE  IInv'
<1>1. /\ act \in [Actors -> Acts] /\ act' \in [Actors -> Acts] /\ act'[a] = r
      /\ \A b \in Actors \ {a} : act'[b] = act[b]
  BY Typed DEF Turns, IInv
<1>2. TypeOK'
  <2>1. \A w \in Workers : act'[w].pc # "idle" => act'[w].cmd # "none"
    <3> SUFFICES ASSUME NEW w \in Workers PROVE act'[w].pc # "idle" => act'[w].cmd # "none"
      OBVIOUS
    <3>1. w \in Actors
      BY DEF Actors
    <3>2. CASE w = a
      BY <1>1, <3>2 DEF Consistent
    <3>3. CASE w # a
      BY <1>1, <3>1, <3>3 DEF IInv, TypeOK
    <3> QED BY <3>2, <3>3
  <2> QED BY <1>1, <2>1 DEF IInv, TypeOK, Acts, Lossy, worldVars
<1>3. ActorsInv'
  <2>1. merges' = merges /\ row' = row /\ merges \in Nat
    BY IncidentsAssumption DEF worldVars, IInv, TypeOK
  <2>2. ASSUME NEW b \in Actors PROVE Consistent(b, act'[b], merges, Judged')
    <3>1. CASE b = a
      BY <1>1, <3>1
    <3>2. CASE b # a
      <4>1. act'[b] = act[b] /\ Consistent(b, act[b], merges, Judged) /\ act[b].snap.fix \in Int
        BY <1>1, <3>2, SnapFix DEF IInv, ActorsInv
      <4>2. merges \in Int /\ merges <= merges
        BY <2>1
      <4> QED BY <4>1, <4>2, ConsistentGrows
    <3> QED BY <3>1, <3>2
  <2> QED BY <2>1, <2>2 DEF ActorsInv, IInv
<1>4. MarkInv'
  <2>1. ASSUME NEW w \in Workers, act'[w].pc \in {"reserve", "deliver"}, blocked'
        PROVE  AnsweringHuman
    BY <1>1, <2>1 DEF Actors, AnsweringHuman
  <2> QED BY <2>1 DEF MarkInv, IInv, AnsweringHuman
<1>5. DropInv'
  <2> SUFFICES ASSUME latest = "drop", {"state", "drop"} \cap lost' = {}
               PROVE  ~HeldAsDropped' /\ Dropping'
    BY DEF DropInv
  <2>1. ~HeldAsDropped /\ Dropping
    BY DEF IInv, DropInv
  <2>2. ~HeldAsDropped'
    BY <1>1, <2>1 DEF HeldAsDropped
  <2>3. Dropping'
    BY <1>1, <2>1 DEF Dropping, Actors
  <2> QED BY <2>2, <2>3
<1>6. ShutInv'
  <2> SUFFICES ASSUME lost' = {}
               PROVE  /\ row.state \in Settled /\ open => row.state = "dropped" /\ Shutting'
                      /\ act'["sweep"].pc = "closed" \/ act'["watch"].pc = "confirmed" => ~open
    BY DEF ShutInv
  <2>1. lost = {}
    OBVIOUS
  <2>2. Shutting => Shutting'
    BY <1>1 DEF Shutting, Actors
  <2>3. /\ act'["sweep"].pc = "closed" => act["sweep"].pc = "closed"
        /\ act'["watch"].pc = "confirmed" => act["watch"].pc = "confirmed"
    <3>1. "sweep" \in Actors /\ "watch" \in Actors
      BY DEF Actors, Loops
    <3> QED BY <1>1, <3>1
  <2> QED BY <2>1, <2>2, <2>3 DEF IInv, ShutInv
<1> QED BY <1>2, <1>3, <1>4, <1>5, <1>6 DEF IInv

\* What a save may save as settled: a drop, on its way to close the ticket; what the
\* row was already; or what the sweep or the watcher closed the ticket for.
SettlesRightly(a, new, pc) ==
    \/ a \in Workers /\ new.state = "dropped" /\ pc = "shut"
    \/ act[a].pc # "drop" /\ new.state \notin Settled
    \/ act[a].pc # "drop" /\ new.state = act[a].snap.state
    \/ /\ \/ a = "sweep" /\ act[a].pc = "closed"
          \/ a = "watch" /\ act[a].pc = "confirmed"
       /\ new.state \notin {act[a].snap.state, "dropped"}
\* A thread saves new over the row. Where it saves a field differently from what the
\* row has, it had read it so, or the save is recorded as lossy.
LEMMA SaveKeeps ==
    ASSUME IInv, NEW a \in Actors, NEW new \in Rows, NEW pc \in Pcs, Saves(a, new, pc),
           UNCHANGED <<open, worldVars, mail, judged, mishaps>>,
           proposed' \in BOOLEAN, blocked' \in BOOLEAN,
           new.fix <= merges, new.state = "verifying" => new.started > 0,
           new.state = "verified" => Judged,
           pc # "idle" => Consistent(a, [pc |-> pc, snap |-> new, cmd |-> act[a].cmd], merges, Judged),
           pc \notin {"judge", "reserve", "reopen", "arm", "closed", "confirmed"},
           pc = "deliver" => act[a].pc = "reserve",
           blocked' => blocked \/ (new.chronic /\ ~AnsweringHuman),
           \/ act[a].snap.chronic => new.chronic
           \/ a \in Workers /\ act[a].pc \in {"reserve", "deliver"},
           \/ act[a].snap.state # "dropped" \/ new.state = "dropped"
           \/ act[a].pc \in {"judge", "reserve", "reopen", "arm"},
           act[a].pc # "shut", act[a].pc = "drop" => new.state = "dropped",
           SettlesRightly(a, new, pc)
    PROVE  IInv'
<1> DEFINE r == IF pc = "idle" THEN Idle ELSE [act[a] EXCEPT !.pc = pc, !.snap = new]
<1>1. /\ row' = new /\ act' = [act EXCEPT ![a] = r]
      /\ lost' = lost \cup {x \in {"state", "chronic"} : act[a].snap[x] # row[x] /\ new[x] # row[x]}
  BY DEF Saves
<1>2. r \in Acts /\ r.pc = pc /\ Consistent(a, r, merges, Judged) /\ (pc # "idle" => r.snap = new)
  <2>1. merges \in Nat
    BY IncidentsAssumption DEF IInv, TypeOK
  <2>2. CASE pc = "idle"
    BY <2>1, <2>2, IdleIsConsistent
  <2>3. CASE pc # "idle"
    <3>1. act[a] \in Acts
      BY Typed DEF IInv
    <3>2. [act[a] EXCEPT !.pc = pc, !.snap = new] = [pc |-> pc, snap |-> new, cmd |-> act[a].cmd]
      <4>1. [act[a] EXCEPT !.pc = pc] = [pc |-> pc, snap |-> act[a].snap, cmd |-> act[a].cmd]
        BY <3>1 DEF Acts
      <4>2. [[pc |-> pc, snap |-> act[a].snap, cmd |-> act[a].cmd] EXCEPT !.snap = new]
              = [pc |-> pc, snap |-> new, cmd |-> act[a].cmd]
        OBVIOUS
      <4>3. [act[a] EXCEPT !.pc = pc, !.snap = new] = [[act[a] EXCEPT !.pc = pc] EXCEPT !.snap = new]
        OBVIOUS
      <4> QED BY <4>1, <4>2, <4>3
    <3>3. act[a].cmd \in Deliveries \cup {"none"}
      BY Typed DEF IInv
    <3> QED BY <2>3, <3>2, <3>3 DEF Acts
  <2> QED BY <2>2, <2>3
<1> HIDE DEF r
<1>3. /\ act \in [Actors -> Acts] /\ act' \in [Actors -> Acts] /\ act'[a] = r
      /\ \A b \in Actors \ {a} : act'[b] = act[b]
  BY <1>1, <1>2, Typed DEF IInv
<1>4. lost \subseteq lost' /\ lost' \subseteq Lossy
  BY <1>1, Typed DEF Lossy, IInv
<1>5. /\ "state" \notin lost' => new.state = row.state \/ act[a].snap.state = row.state
      /\ "chronic" \notin lost' => new.chronic = row.chronic \/ act[a].snap.chronic = row.chronic
  BY <1>1
<1>6. /\ row.state \in States /\ row.chronic \in BOOLEAN /\ new.chronic \in BOOLEAN
      /\ act[a].snap.state \in States /\ act[a].snap.chronic \in BOOLEAN
  BY Typed, RowFields DEF IInv
<1>7. UNCHANGED <<merges, deploys, events, now, inbox, arrived, latest>>
  BY DEF worldVars, mail
<1>8. TypeOK'
  <2>1. \A w \in Workers : act'[w].pc # "idle" => act'[w].cmd # "none"
    <3> SUFFICES ASSUME NEW w \in Workers PROVE act'[w].pc # "idle" => act'[w].cmd # "none"
      OBVIOUS
    <3>1. w \in Actors
      BY DEF Actors
    <3>2. CASE w = a
      BY <1>2, <1>3, <3>2 DEF Consistent
    <3>3. CASE w # a
      BY <1>3, <3>1, <3>3 DEF IInv, TypeOK
    <3> QED BY <3>2, <3>3
  <2> QED BY <1>1, <1>3, <1>4, <1>7, <2>1 DEF IInv, TypeOK, Acts, Lossy
<1>9. ActorsInv'
  <2>1. Judged' = Judged /\ merges' = merges
    BY <1>7 DEF Judged
  <2>2. ASSUME NEW b \in Actors PROVE Consistent(b, act'[b], merges, Judged)
    BY <1>2, <1>3 DEF IInv, ActorsInv
  <2> QED BY <1>1, <2>1, <2>2 DEF ActorsInv
<1>10. EarnedInv'
  BY <1>7 DEF IInv, EarnedInv
<1>11. MarkInv'
  <2> SUFFICES ASSUME blocked', "chronic" \notin lost' PROVE new.chronic /\ ~AnsweringHuman'
    BY <1>1 DEF MarkInv
  <2>1. "chronic" \notin lost
    BY <1>4
  <2>2. ~AnsweringHuman
    BY <2>1 DEF IInv, MarkInv
  <2>3. ~AnsweringHuman'
    <3>1. \A w \in Workers : act'[w].pc \in {"reserve", "deliver"} => act[w].pc \in {"reserve", "deliver"}
      BY <1>2, <1>3 DEF Actors
    <3> QED BY <2>2, <3>1 DEF AnsweringHuman
  <2>4. CASE ~new.chronic
    <3>1. blocked /\ row.chronic
      BY <2>1, <2>4 DEF IInv, MarkInv
    <3>2. act[a].snap.chronic
      BY <1>5, <1>6, <2>4, <3>1
    <3> QED BY <2>2, <2>4, <3>2 DEF AnsweringHuman
  <2> QED BY <2>3, <2>4
<1>12. DropInv'
  <2> SUFFICES ASSUME latest = "drop", {"state", "drop"} \cap lost' = {}
               PROVE  ~HeldAsDropped' /\ Dropping'
    BY <1>7 DEF DropInv
  <2>1. ~HeldAsDropped /\ Dropping
    BY <1>4 DEF IInv, DropInv
  <2>2. ~HeldAsDropped'
    BY <1>2, <1>3, <2>1 DEF HeldAsDropped
  <2>3. row.state = "dropped" => new.state = "dropped"
    BY <1>5, <2>1 DEF HeldAsDropped
  <2>4. act[a].pc = "drop" => new.state = "dropped"
    OBVIOUS
  <2>5. Dropping'
    BY <1>1, <1>3, <1>7, <2>1, <2>3, <2>4 DEF Dropping, Actors
  <2> QED BY <2>2, <2>5
<1>13. ShutInv'
  <2> SUFFICES ASSUME lost' = {}
               PROVE  /\ new.state \in Settled /\ open => new.state = "dropped" /\ Shutting'
                      /\ act'["sweep"].pc = "closed" \/ act'["watch"].pc = "confirmed" => ~open
    BY <1>1 DEF ShutInv
  <2>1. lost = {}
    BY <1>4
  <2>2. "sweep" \in Actors /\ "watch" \in Actors
    BY DEF Actors, Loops
  <2>3. act'["sweep"].pc = "closed" \/ act'["watch"].pc = "confirmed" => ~open
    BY <1>2, <1>3, <2>1, <2>2 DEF IInv, ShutInv
  <2>4. ASSUME new.state \in Settled, open PROVE new.state = "dropped" /\ Shutting'
    <3>1. CASE a \in Workers /\ new.state = "dropped" /\ pc = "shut"
      BY <1>2, <1>3, <3>1 DEF Shutting
    <3>2. CASE act[a].pc # "drop" /\ new.state = act[a].snap.state
      <4>1. new.state = row.state
        BY <1>5, <3>2
      <4>2. row.state = "dropped" /\ Shutting
        BY <2>1, <2>4, <4>1 DEF IInv, ShutInv
      <4>3. Shutting'
        BY <1>3, <1>7, <3>2, <4>2 DEF Shutting, Actors
      <4> QED BY <4>1, <4>2, <4>3
    <3>3. CASE \/ a = "sweep" /\ act[a].pc = "closed"
               \/ a = "watch" /\ act[a].pc = "confirmed"
      BY <2>1, <2>4, <3>3 DEF IInv, ShutInv
    <3> QED BY <2>4, <3>1, <3>2, <3>3 DEF SettlesRightly
  <2> QED BY <2>3, <2>4
<1> QED BY <1>8, <1>9, <1>10, <1>11, <1>12, <1>13 DEF IInv

\* A thread opens or closes the ticket, and goes on or rests. Opening is for a row that
\* is not settled, and the call is on record as crossing another if it may undo one.
LEMMA CallKeeps ==
    ASSUME IInv, NEW a \in Actors, NEW opens \in BOOLEAN, NEW r \in Acts, Turns(a, r), Calls(a, opens),
           UNCHANGED <<row, proposed, worldVars, latest, ghosts>>,
           inbox \subseteq inbox', inbox' \subseteq Deliveries,
           arrived' \in 0 .. MaxInbox, mishaps' \in 0 .. MaxMishaps,
           Consistent(a, r, merges, Judged),
           opens => act[a].pc \in {"unshut", "refute"} /\ r.pc \notin {"closed", "confirmed"},
           r.pc \notin {"judge", "reserve", "reopen", "arm", "deliver"}, act[a].pc # "drop"
    PROVE  IInv'
<1>1. /\ open' = opens
      /\ lost' = IF row # act[a].snap \/ \E b \in Actors \ {a} : act[b].pc \in OnTicket
                 THEN lost \cup {"ticket"} ELSE lost
  BY DEF Calls
<1>2. /\ act \in [Actors -> Acts] /\ act' \in [Actors -> Acts] /\ act'[a] = r
      /\ \A b \in Actors \ {a} : act'[b] = act[b]
  BY Typed DEF Turns, IInv
<1>3. lost \subseteq lost' /\ lost' \subseteq Lossy /\ lost' \ {"ticket"} = lost \ {"ticket"}
  BY <1>1, Typed DEF Lossy, IInv
<1>4. UNCHANGED <<merges, deploys, events, now, blocked, judged>>
  BY DEF worldVars, ghosts
<1>5. TypeOK'
  <2>1. \A w \in Workers : act'[w].pc # "idle" => act'[w].cmd # "none"
    <3> SUFFICES ASSUME NEW w \in Workers PROVE act'[w].pc # "idle" => act'[w].cmd # "none"
      OBVIOUS
    <3>1. w \in Actors
      BY DEF Actors
    <3>2. CASE w = a
      BY <1>2, <3>2 DEF Consistent
    <3>3. CASE w # a
      BY <1>2, <3>1, <3>3 DEF IInv, TypeOK
    <3> QED BY <3>2, <3>3
  <2> QED BY <1>1, <1>2, <1>3, <1>4, <2>1 DEF IInv, TypeOK, Acts, Lossy
<1>6. ActorsInv'
  <2>1. Judged' = Judged
    BY <1>4 DEF Judged
  <2>2. ASSUME NEW b \in Actors PROVE Consistent(b, act'[b], merges, Judged)
    BY <1>2 DEF IInv, ActorsInv
  <2> QED BY <1>4, <2>1, <2>2 DEF ActorsInv, IInv
<1>7. EarnedInv'
  BY <1>4 DEF IInv, EarnedInv
<1>8. MarkInv'
  <2>1. AnsweringHuman' => AnsweringHuman
    BY <1>2 DEF AnsweringHuman, Actors
  <2> QED BY <1>3, <1>4, <2>1 DEF IInv, MarkInv
<1>9. DropInv'
  <2> SUFFICES ASSUME latest = "drop", {"state", "drop"} \cap lost' = {}
               PROVE  ~HeldAsDropped' /\ Dropping'
    BY DEF DropInv
  <2>1. ~HeldAsDropped /\ Dropping
    BY <1>3 DEF IInv, DropInv
  <2>2. ~HeldAsDropped'
    BY <1>2, <2>1 DEF HeldAsDropped
  <2>3. Dropping'
    BY <1>2, <2>1 DEF Dropping, Actors
  <2> QED BY <2>2, <2>3
<1>10. ShutInv'
  <2> SUFFICES ASSUME lost' = {}
               PROVE  /\ row.state \in Settled /\ opens => FALSE
                      /\ act'["sweep"].pc = "closed" \/ act'["watch"].pc = "confirmed" => ~opens
    BY <1>1 DEF ShutInv
  <2>1. row = act[a].snap /\ \A b \in Actors \ {a} : act[b].pc \notin OnTicket
    BY <1>1
  <2>2. Consistent(a, act[a], merges, Judged)
    BY DEF IInv, ActorsInv
  <2>3. ASSUME opens PROVE row.state \notin Settled
    BY <2>1, <2>2, <2>3 DEF Consistent, Settled
  <2>4. "sweep" \in Actors /\ "watch" \in Actors
    BY DEF Actors, Loops
  <2>5. ASSUME act'["sweep"].pc = "closed" \/ act'["watch"].pc = "confirmed", opens PROVE FALSE
    BY <1>2, <2>1, <2>4, <2>5 DEF OnTicket
  <2> QED BY <2>3, <2>5
<1> QED BY <1>5, <1>6, <1>7, <1>8, <1>9, <1>10 DEF IInv

-------------------------------------------------------------------------------
(* The investigation and the fix                                               *)

\* What the invariant says of a thread and the row it holds, and of the row.
LEMMA OneActor ==
    ASSUME IInv, NEW a \in Actors
    PROVE  /\ act[a] \in Acts /\ act[a].snap \in Rows /\ row \in Rows
           /\ Consistent(a, act[a], merges, Judged)
           /\ row.fix <= merges /\ (row.state = "verifying" => row.started > 0)
           /\ row.state = "verified" => Judged
           /\ lost \subseteq Lossy /\ inbox \subseteq Deliveries
  BY Typed DEF IInv, ActorsInv, TypeOK

\* A thread that reads holds the row as it is.
LEMMA Read ==
    ASSUME IInv, NEW a \in Actors, NEW pc \in Pcs, Reads(a, pc)
    PROVE  \E r \in Acts : /\ Turns(a, r) /\ r = [pc |-> pc, snap |-> row, cmd |-> act[a].cmd]
                          /\ r.pc = pc /\ r.snap = row /\ r.cmd = act[a].cmd
<1> DEFINE r == [pc |-> pc, snap |-> row, cmd |-> act[a].cmd]
<1>1. act[a] \in Acts /\ row \in Rows /\ act[a].cmd \in Deliveries \cup {"none"}
  BY Typed DEF IInv
<1>2. [act[a] EXCEPT !.pc = pc] = [pc |-> pc, snap |-> act[a].snap, cmd |-> act[a].cmd]
  BY <1>1 DEF Acts
<1>3. [[pc |-> pc, snap |-> act[a].snap, cmd |-> act[a].cmd] EXCEPT !.snap = row] = r
  OBVIOUS
<1>4. [act[a] EXCEPT !.pc = pc, !.snap = row] = [[act[a] EXCEPT !.pc = pc] EXCEPT !.snap = row]
  OBVIOUS
<1>5. act' = [act EXCEPT ![a] = [act[a] EXCEPT !.pc = pc, !.snap = row]]
  BY DEF Reads
<1>6. Turns(a, r)
  BY <1>2, <1>3, <1>4, <1>5 DEF Turns
<1>7. r \in Acts /\ r.pc = pc /\ r.snap = row /\ r.cmd = act[a].cmd
  BY <1>1 DEF Acts
<1> QED BY <1>6, <1>7

\* A thread that goes on keeps the row it holds.
LEMMA Gone ==
    ASSUME IInv, NEW a \in Actors, NEW pc \in Pcs, Goes(a, pc)
    PROVE  \E r \in Acts : Turns(a, r) /\ r.pc = pc /\ r.snap = act[a].snap /\ r.cmd = act[a].cmd
<1> DEFINE r == [act[a] EXCEPT !.pc = pc]
<1>1. act[a] \in Acts
  BY Typed DEF IInv
<1>2. r \in Acts /\ r.pc = pc /\ r.snap = act[a].snap /\ r.cmd = act[a].cmd
  BY <1>1 DEF Acts
<1>3. Turns(a, r)
  BY DEF Goes, Turns
<1> QED BY <1>2, <1>3

\* The loop takes a queued item.
LEMMA RcaPicksKeeps == ASSUME IInv, RcaPicks PROVE IInv'
<1>1. "rca" \in Actors /\ "judge" \in Pcs /\ "rca" \notin Workers
  BY IncidentsAssumption DEF Actors, Loops, Pcs
<1>2. PICK v \in Acts : Turns("rca", v) /\ v.pc = "judge" /\ v.snap = row
  BY <1>1, Read DEF RcaPicks
<1>3. act["rca"].pc = "idle" /\ row.state = "queued"
  BY DEF RcaPicks, Free
<1>4. UNCHANGED <<row, open, proposed, lost, worldVars, mail, blocked, judged, mishaps>>
  BY DEF RcaPicks, rowVars, forgeVars, ghosts
<1>5. UNCHANGED <<inbox, arrived, latest, merges, deploys, events, now>> /\ Judged' = Judged
  BY <1>4 DEF mail, worldVars, Judged
<1>6. EarnedInv'
  BY <1>4, <1>5 DEF IInv, EarnedInv
<1>7. Consistent("rca", v, merges, Judged')
  BY <1>1, <1>2, <1>3, <1>5, OneActor DEF Consistent
<1>8. arrived \in 0 .. MaxInbox /\ mishaps \in 0 .. MaxMishaps /\ proposed \in BOOLEAN /\ blocked \in BOOLEAN
  BY DEF IInv, TypeOK
<1> QED BY <1>1, <1>2, <1>3, <1>4, <1>5, <1>6, <1>7, <1>8, OneActor, MoveKeeps

\* An investigation saves the row it read, as open or a human's.
LEMMA JudgesKeeps == ASSUME IInv, NEW a \in Actors, Judges(a) PROVE IInv'
<1>1. act[a].pc = "judge" /\ UNCHANGED <<open, proposed, worldVars, mail, blocked, judged, mishaps>>
  BY DEF Judges, forgeVars, ghosts
<1>2. PICK s \in {"open", "awaiting"}, pc \in {"idle", "auto", "reply"} :
        Saves(a, [act[a].snap EXCEPT !.state = s], pc)
  BY DEF Judges
<1> DEFINE new == [act[a].snap EXCEPT !.state = s]
<1>3. s \in States /\ pc \in Pcs
  BY DEF States, Pcs
<1>4. new \in Rows /\ new.state = s /\ new.chronic = act[a].snap.chronic /\ new.fix = act[a].snap.fix
  BY <1>3, OneActor, NewState
<1>5. Saves(a, new, pc)
  BY <1>2
<1> HIDE DEF new
<1>6. Consistent(a, [pc |-> pc, snap |-> new, cmd |-> act[a].cmd], merges, Judged) /\ new.fix <= merges
  <2>1. Consistent(a, act[a], merges, Judged)
    BY OneActor
  <2> QED BY <1>1, <1>2, <1>4, <2>1 DEF Consistent
<1>7. proposed \in BOOLEAN /\ blocked \in BOOLEAN
  BY DEF IInv, TypeOK
<1>8. SettlesRightly(a, new, pc)
  BY <1>1, <1>4 DEF SettlesRightly, Settled
<1> QED BY <1>1, <1>3, <1>4, <1>5, <1>6, <1>7, <1>8, SaveKeeps

\* The executor takes the item up, as the row is now, or refuses.
LEMMA FixBeginsKeeps ==
    ASSUME IInv, NEW a \in Workers \cup {"rca"}, FixBegins(a) PROVE IInv'
<1>1. /\ a \in Actors /\ "reserve" \in Pcs /\ "rca" \notin Workers
      /\ act[a].pc = "auto"
  BY IncidentsAssumption DEF Actors, Loops, Pcs, FixBegins
<1>2. UNCHANGED <<row, open, proposed, worldVars, inbox, arrived, latest, judged, mishaps>>
  BY DEF FixBegins, forgeVars, mail
<1>3. UNCHANGED <<merges, deploys, events, now>> /\ Judged' = Judged
  BY <1>2 DEF worldVars, Judged
<1>4. EarnedInv'
  BY <1>2, <1>3 DEF IInv, EarnedInv
<1>5. /\ arrived \in 0 .. MaxInbox /\ mishaps \in 0 .. MaxMishaps /\ proposed \in BOOLEAN
      /\ blocked \in BOOLEAN /\ merges \in Nat
  BY IncidentsAssumption DEF IInv, TypeOK
<1>6. CASE ~FixUnderWay /\ MayFix(a) /\ Reads(a, "reserve") /\ blocked' = (blocked /\ ~Asked(a))
           /\ lost' = lost \cup IF row.state = "dropped" /\ latest = "drop" THEN {"drop"} ELSE {}
  <2>1. PICK r \in Acts : Turns(a, r) /\ r.pc = "reserve" /\ r.snap = row /\ r.cmd = act[a].cmd
    BY <1>1, <1>6, Read
  <2>2. Consistent(a, r, merges, Judged')
    <3>1. a = "rca" => ~row.chronic
      BY <1>1, <1>6 DEF MayFix, Asked
    <3> QED BY <1>1, <1>3, <2>1, <3>1, OneActor DEF Consistent
  <2>3. lost \subseteq lost' /\ lost' \subseteq Lossy
    BY <1>1, <1>6, OneActor DEF Lossy
  <2>4. /\ blocked' \in BOOLEAN
        /\ blocked' => blocked /\ ~(a \in Workers /\ r.pc \in {"reserve", "deliver"})
    BY <1>5, <1>6 DEF Asked
  <2>5. latest = "drop" /\ r.pc \in {"judge", "reserve", "reopen", "arm"} /\ r.snap.state = "dropped"
           => "drop" \in lost'
    BY <1>6, <2>1
  <2> QED BY <1>1, <1>2, <1>3, <1>4, <1>5, <2>1, <2>2, <2>3, <2>4, <2>5, OneActor, MoveKeeps
<1>7. CASE Rests(a) /\ UNCHANGED <<blocked, lost>>
  <2>1. Turns(a, Idle)
    BY <1>7 DEF Rests, Turns
  <2> QED BY <1>1, <1>2, <1>3, <1>4, <1>5, <1>7, <2>1, IdleIsConsistent, OneActor, MoveKeeps
<1> QED BY <1>6, <1>7 DEF FixBegins

\* It reserves the item.
LEMMA FixReservesKeeps == ASSUME IInv, NEW a \in Workers \cup {"rca"}, FixReserves(a) PROVE IInv'
<1> DEFINE new == [act[a].snap EXCEPT !.state = "fixing"]
<1>1. /\ a \in Actors /\ "deliver" \in Pcs /\ "fixing" \in States
      /\ act[a].pc = "reserve" /\ Saves(a, new, "deliver")
      /\ UNCHANGED <<open, proposed, worldVars, mail, blocked, judged, mishaps>>
  BY DEF Actors, Loops, Pcs, States, FixReserves, forgeVars, ghosts
<1>2. new \in Rows /\ new.state = "fixing" /\ new.chronic = act[a].snap.chronic /\ new.fix = act[a].snap.fix
  BY <1>1, OneActor, NewState
<1> HIDE DEF new
<1>3. Consistent(a, [pc |-> "deliver", snap |-> new, cmd |-> act[a].cmd], merges, Judged) /\ new.fix <= merges
  <2>1. Consistent(a, act[a], merges, Judged)
    BY <1>1, OneActor
  <2> QED BY <1>1, <1>2, <2>1 DEF Consistent
<1>4. proposed \in BOOLEAN /\ blocked \in BOOLEAN
  BY DEF IInv, TypeOK
<1>5. SettlesRightly(a, new, "deliver")
  BY <1>1, <1>2 DEF SettlesRightly, Settled
<1> QED BY <1>1, <1>2, <1>3, <1>4, <1>5, SaveKeeps

\* It ends with a draft or nothing.
LEMMA FixEndsKeeps == ASSUME IInv, NEW a \in Workers \cup {"rca"}, FixEnds(a) PROVE IInv'
<1> DEFINE u == act[a].snap
           new == [u EXCEPT !.state = "awaiting", !.branch = TRUE, !.chronic = FALSE]
           none == [u EXCEPT !.state = "open"]
<1>1. /\ a \in Actors /\ act[a].pc = "deliver" /\ "rca" \notin Workers
      /\ UNCHANGED <<open, worldVars, mail, blocked, judged, mishaps>>
      /\ {"idle", "reply"} \subseteq Pcs /\ {"awaiting", "open"} \subseteq States
  BY IncidentsAssumption DEF Actors, Loops, Pcs, States, FixEnds, ghosts
<1>2. proposed \in BOOLEAN /\ blocked \in BOOLEAN
  BY DEF IInv, TypeOK
<1>3. u \in Rows /\ u.fix <= merges /\ (a = "rca" => ~u.chronic) /\ (a \in Workers => act[a].cmd # "none")
  <2>1. Consistent(a, act[a], merges, Judged) /\ act[a].snap \in Rows
    BY <1>1, OneActor
  <2> QED BY <1>1, <2>1 DEF Consistent
<1>4. \E pc \in {"idle", "reply"} :
        /\ a = "rca" => pc = "idle"
        /\ \/ Saves(a, new, pc) /\ proposed' = TRUE
           \/ Saves(a, none, pc) /\ proposed' = proposed
  BY <1>1 DEF FixEnds, Asked
<1>5. PICK pc \in {"idle", "reply"} :
        /\ a = "rca" => pc = "idle"
        /\ \/ Saves(a, new, pc) /\ proposed' = TRUE
           \/ Saves(a, none, pc) /\ proposed' = proposed
  BY <1>4
<1>6. /\ new \in Rows /\ new.state = "awaiting" /\ ~new.chronic /\ new.fix = u.fix
      /\ none \in Rows /\ none.state = "open" /\ none.chronic = u.chronic /\ none.fix = u.fix
  <2> DEFINE t == [u EXCEPT !.state = "awaiting"]
             x == [t EXCEPT !.branch = TRUE]
             y == [x EXCEPT !.chronic = FALSE]
  <2>1. t \in Rows /\ t.state = "awaiting" /\ t.fix = u.fix
    BY <1>1, <1>3, NewState
  <2>2. x \in Rows /\ x.state = t.state /\ x.fix = t.fix
    <3> HIDE DEF t
    <3> QED BY <2>1, NewBranch
  <2>3. y \in Rows /\ y.state = x.state /\ y.chronic = FALSE /\ y.fix = x.fix
    <3> HIDE DEF x
    <3> QED BY <2>2, NewChronic
  <2>4. y = new
    OBVIOUS
  <2>5. none \in Rows /\ none.state = "open" /\ none.chronic = u.chronic /\ none.fix = u.fix
    BY <1>1, <1>3, NewState
  <2> HIDE DEF t, x, y, new, none, u
  <2> QED BY <2>1, <2>2, <2>3, <2>4, <2>5
<1> HIDE DEF new, none
<1>7. ASSUME NEW v \in Rows, v.state \in {"awaiting", "open"}, v.fix = u.fix, Saves(a, v, pc),
             proposed' \in BOOLEAN
      PROVE  IInv'
  <2>1. Consistent(a, [pc |-> pc, snap |-> v, cmd |-> act[a].cmd], merges, Judged) /\ v.fix <= merges
    BY <1>1, <1>3, <1>5, <1>7 DEF Consistent
  <2>2. SettlesRightly(a, v, pc)
    BY <1>1, <1>7 DEF SettlesRightly, Settled
  <2>3. (u.chronic => v.chronic) \/ (a \in Workers /\ act[a].pc \in {"reserve", "deliver"})
    BY <1>1, <1>3
  <2>4. act[a].snap.state # "dropped"
    BY <1>1, OneActor DEF Consistent
  <2> QED BY <1>1, <1>2, <1>5, <1>7, <2>1, <2>2, <2>3, <2>4, SaveKeeps
<1> QED BY <1>2, <1>5, <1>6, <1>7

-------------------------------------------------------------------------------
(* Deliveries                                                                  *)

\* Nothing but the mail, the clock, the deploys or the merges changes: time goes on.
LEMMA WorldKeeps ==
    ASSUME IInv, UNCHANGED <<row, open, act, lost, latest, blocked, judged, mishaps>>,
           inbox \subseteq inbox', inbox' \subseteq Deliveries, arrived' \in 0 .. MaxInbox,
           proposed' \in BOOLEAN, merges' \in merges .. MaxMerges,
           now' \in now .. MaxTime, events' = events, EarnedInv',
           deploys' \in Seq([at : Times, fix : 0 .. merges'])
    PROVE  IInv'
<1>1. merges \in Nat /\ merges' \in Int /\ merges <= merges' /\ now \in Int /\ now <= now' /\ MaxTime \in Int
  BY IncidentsAssumption DEF IInv, TypeOK, Times
<1>2. TypeOK'
  <2>1. row.fix <= merges'
    <3>1. row.fix <= merges /\ row.fix \in Int
      <4>1. row \in Rows /\ row.fix <= merges
        BY DEF IInv, TypeOK
      <4> QED BY <4>1, RowFields, IncidentsAssumption
    <3> QED BY <1>1, <3>1
  <2>2. merges' \in 0 .. MaxMerges /\ now' \in Times
    <3>1. now \in 0 .. MaxTime
      BY DEF IInv, TypeOK, Times
    <3> QED BY <1>1, <3>1, IncidentsAssumption DEF Times
  <2>3. events' \subseteq 1 .. now'
    BY <1>1, <2>2, IncidentsAssumption DEF IInv, TypeOK, Times
  <2> QED BY <2>1, <2>2, <2>3 DEF IInv, TypeOK
<1>3. ActorsInv'
  <2>1. Judged' = Judged
    BY DEF Judged
  <2>2. ASSUME NEW b \in Actors PROVE Consistent(b, act[b], merges', Judged')
    <3>1. Consistent(b, act[b], merges, Judged) /\ act[b].snap.fix \in Int
      BY SnapFix DEF IInv, ActorsInv
    <3>2. merges \in Int
      BY <1>1
    <3> QED BY <1>1, <2>1, <3>1, <3>2, ConsistentGrows
  <2> QED BY <2>1, <2>2 DEF ActorsInv, IInv
<1>4. MarkInv'
  BY DEF IInv, MarkInv, AnsweringHuman
<1>5. DropInv'
  BY DEF IInv, DropInv, HeldAsDropped, Dropping
<1>6. ShutInv'
  BY DEF IInv, ShutInv, Shutting
<1> QED BY <1>2, <1>3, <1>4, <1>5, <1>6 DEF IInv

\* A delivery that arrives is added to the inbox.
LEMMA Arrived ==
    ASSUME TypeOK, NEW cmd \in Deliveries, Arrives(cmd)
    PROVE  /\ inbox \subseteq inbox' /\ inbox' \subseteq Deliveries
           /\ arrived' \in 0 .. MaxInbox /\ latest' = latest
  BY IncidentsAssumption DEF TypeOK, Arrives

\* A command arrives.
LEMMA CommandedKeeps == ASSUME IInv, Commanded PROVE IInv'
<1>1. UNCHANGED <<row, lost, open, proposed, merges, deploys, events, now, act, blocked, judged, mishaps>>
  BY DEF Commanded, rowVars, forgeVars, worldVars, ghosts
<1>2. PICK cmd \in Commands : Arrives(cmd)
  BY DEF Commanded
<1>3. inbox \subseteq inbox' /\ inbox' \subseteq Deliveries /\ arrived' \in 0 .. MaxInbox /\ latest' = latest
  BY <1>2, Arrived DEF Deliveries, IInv
<1>4. EarnedInv'
  BY <1>1 DEF IInv, EarnedInv
<1>5. /\ proposed \in BOOLEAN /\ merges \in merges .. MaxMerges /\ now \in now .. MaxTime
      /\ deploys \in Seq([at : Times, fix : 0 .. merges])
  BY IncidentsAssumption DEF IInv, TypeOK, Times
<1> QED BY <1>1, <1>3, <1>4, <1>5, WorldKeeps

\* The proposal is merged.
LEMMA MergedKeeps == ASSUME IInv, Merged PROVE IInv'
<1>1. UNCHANGED <<row, lost, open, deploys, events, now, act, blocked, judged, mishaps>>
  BY DEF Merged, rowVars, ghosts
<1>2. inbox \subseteq inbox' /\ inbox' \subseteq Deliveries /\ arrived' \in 0 .. MaxInbox /\ latest' = latest
  BY Arrived DEF Merged, Deliveries, IInv
<1>3. EarnedInv'
  BY <1>1 DEF IInv, EarnedInv
<1>4. proposed' = FALSE /\ merges' = merges + 1 /\ merges < MaxMerges /\ merges \in Nat
  BY IncidentsAssumption DEF Merged, IInv, TypeOK
<1>5. merges' \in merges .. MaxMerges /\ now \in now .. MaxTime
  BY <1>4, IncidentsAssumption DEF IInv, TypeOK, Times
<1>6. deploys \in Seq([at : Times, fix : 0 .. merges'])
  <2> DEFINE D == [at : Times, fix : 0 .. merges]
             E == [at : Times, fix : 0 .. merges']
  <2>1. deploys \in Seq(D)
    BY DEF IInv, TypeOK
  <2>2. \A d \in D : d \in E
    BY <1>4
  <2> HIDE DEF D, E
  <2>3. deploys \in Seq(E)
    BY <2>1, <2>2
  <2> QED BY <2>3 DEF E
<1> QED BY <1>1, <1>2, <1>3, <1>4, <1>5, <1>6, WorldKeeps

\* Time passes.
LEMMA TickKeeps == ASSUME IInv, Tick PROVE IInv'
<1>1. /\ UNCHANGED <<row, lost, open, proposed, merges, deploys, events, act, blocked, judged, mishaps,
                     inbox, arrived, latest>>
      /\ now' = now + 1 /\ now < MaxTime
  BY DEF Tick, rowVars, forgeVars, mail, ghosts
<1>2. now \in 0 .. MaxTime /\ MaxTime \in Nat /\ merges \in Nat
  BY IncidentsAssumption DEF IInv, TypeOK, Times
<1>3. EarnedInv'
  <2>1. now' >= 1 /\ judged.to \in 0 .. now'
    BY <1>1, <1>2 DEF IInv, EarnedInv
  <2> QED BY <1>1, <2>1 DEF IInv, EarnedInv
<1>4. /\ proposed \in BOOLEAN /\ merges \in merges .. MaxMerges /\ now' \in now .. MaxTime
      /\ deploys \in Seq([at : Times, fix : 0 .. merges]) /\ arrived \in 0 .. MaxInbox
      /\ inbox \subseteq Deliveries
  BY <1>1, <1>2, IncidentsAssumption DEF IInv, TypeOK, Times
<1> QED BY <1>1, <1>3, <1>4, WorldKeeps

\* A deploy is recorded behind the others.
LEMMA DeploysKeeps == ASSUME IInv, Deploys PROVE IInv'
<1>1. UNCHANGED <<row, lost, open, proposed, merges, events, now, act, blocked, judged, mishaps,
                  inbox, arrived, latest>>
  BY DEF Deploys, rowVars, forgeVars, mail, ghosts
<1>2. PICK fix \in 0 .. merges : deploys' = Append(deploys, [at |-> now, fix |-> fix])
  BY DEF Deploys
<1> DEFINE D == [at : Times, fix : 0 .. merges]
           d == [at |-> now, fix |-> fix]
<1>3. deploys \in Seq(D) /\ d \in D
  BY DEF IInv, TypeOK
<1> HIDE DEF D, d
<1>4. /\ deploys' \in Seq(D) /\ Len(deploys') = Len(deploys) + 1 /\ Len(deploys) \in Nat
      /\ \A i \in 1 .. Len(deploys) : deploys'[i] = deploys[i]
  BY <1>2, <1>3 DEF d
<1>5. EarnedInv'
  <2>1. judged.deploys \in 0 .. Len(deploys')
    BY <1>4 DEF IInv, EarnedInv
  <2>2. judged.deploys > 0 =>
          \E i \in 1 .. judged.deploys :
              /\ deploys'[i].fix = judged.fix
              /\ deploys'[i].at \in judged.since .. judged.to - Window
    <3> SUFFICES ASSUME judged.deploys > 0
                 PROVE  \E i \in 1 .. judged.deploys :
                          /\ deploys'[i].fix = judged.fix
                          /\ deploys'[i].at \in judged.since .. judged.to - Window
      OBVIOUS
    <3>1. PICK i \in 1 .. judged.deploys :
              /\ deploys[i].fix = judged.fix
              /\ deploys[i].at \in judged.since .. judged.to - Window
      BY DEF IInv, EarnedInv
    <3>2. deploys'[i] = deploys[i]
      BY <1>4 DEF IInv, EarnedInv
    <3> QED BY <3>1, <3>2
  <2> QED BY <1>1, <2>1, <2>2 DEF IInv, EarnedInv
<1>6. /\ proposed \in BOOLEAN /\ merges \in merges .. MaxMerges /\ now \in now .. MaxTime
      /\ arrived \in 0 .. MaxInbox /\ inbox \subseteq Deliveries
  BY IncidentsAssumption DEF IInv, TypeOK, Times
<1>7. deploys' \in Seq([at : Times, fix : 0 .. merges'])
  BY <1>1, <1>4 DEF D
<1> QED BY <1>1, <1>5, <1>6, <1>7, WorldKeeps

\* What a handler begins with.
LEMMA StartsWith ==
    ASSUME NEW cmd \in Deliveries
    PROVE  /\ Starts(cmd) \in {"idle", "judge", "auto", "drop", "reopen", "arm"}
           /\ Starts(cmd) = "drop" <=> cmd = "drop"
<1>1. cmd \in {"drop", "reopen", "explain", "fix", "merge"}
  BY IncidentsAssumption DEF Deliveries
<1>2. CASE cmd = "drop"
  BY <1>2 DEF Starts
<1>3. CASE cmd = "reopen"
  BY <1>3 DEF Starts
<1>4. CASE cmd = "explain"
  BY <1>4 DEF Starts
<1>5. CASE cmd = "fix"
  BY <1>5 DEF Starts
<1>6. CASE cmd = "merge"
  BY <1>6 DEF Starts
<1> QED BY <1>1, <1>2, <1>3, <1>4, <1>5, <1>6

\* The handling of a delivery begins.
LEMMA HandlesKeeps == ASSUME IInv, NEW w \in Workers, Handles(w) PROVE IInv'
<1>1. /\ w \in Actors /\ w \notin Loops /\ act[w].pc = "idle"
      /\ UNCHANGED <<row, open, proposed, merges, deploys, events, now, arrived, blocked, judged, mishaps>>
  BY IncidentsAssumption DEF Actors, Handles, Free, forgeVars, worldVars, ghosts
<1>2. PICK cmd \in inbox :
        /\ inbox' = inbox \ {cmd} /\ latest' = cmd
        /\ lost' = lost \cup IF cmd = "drop" /\ HeldAsDropped THEN {"drop"} ELSE {}
        /\ act' = IF Starts(cmd) = "idle" THEN act
                  ELSE [act EXCEPT ![w] = [pc |-> Starts(cmd), snap |-> row, cmd |-> cmd]]
  BY DEF Handles
<1>3. cmd \in Deliveries /\ lost \subseteq Lossy /\ inbox \subseteq Deliveries
  BY <1>1, OneActor
<1> DEFINE r == IF Starts(cmd) = "idle" THEN act[w] ELSE [pc |-> Starts(cmd), snap |-> row, cmd |-> cmd]
<1>4. /\ Starts(cmd) \in Pcs /\ Starts(cmd) \in {"idle", "judge", "auto", "drop", "reopen", "arm"}
      /\ Starts(cmd) = "drop" <=> cmd = "drop"
  BY <1>3, StartsWith DEF Pcs
<1>5. r \in Acts /\ r.pc = Starts(cmd) /\ Consistent(w, r, merges, Judged)
  <2>1. CASE Starts(cmd) = "idle"
    BY <1>1, <2>1, OneActor
  <2>2. CASE Starts(cmd) # "idle"
    <3>1. r = [pc |-> Starts(cmd), snap |-> row, cmd |-> cmd] /\ row \in Rows
      BY <1>1, <2>2, OneActor
    <3>2. r \in Acts
      BY <1>3, <1>4, <3>1 DEF Acts
    <3>3. r.pc = Starts(cmd) /\ r.snap = row /\ r.cmd = cmd
      BY <3>1
    <3>4. cmd # "none" /\ row.fix <= merges /\ (row.state = "verifying" => row.started > 0)
          /\ (row.state = "verified" => Judged) /\ w # "rca"
      BY <1>1, <1>3, OneActor, IncidentsAssumption DEF Deliveries, Loops
    <3> HIDE DEF r
    <3> QED BY <1>4, <3>2, <3>3, <3>4 DEF Consistent
  <2> QED BY <2>1, <2>2
<1>6. /\ act \in [Actors -> Acts] /\ act' \in [Actors -> Acts] /\ act'[w] = r
      /\ \A b \in Actors \ {w} : act'[b] = act[b]
  BY <1>1, <1>2, <1>5, Typed DEF IInv
<1> HIDE DEF r
<1>7. lost \subseteq lost' /\ lost' \subseteq Lossy /\ ("chronic" \in lost' => "chronic" \in lost)
  BY <1>2, <1>3 DEF Lossy
<1>8. TypeOK'
  <2>1. \A v \in Workers : act'[v].pc # "idle" => act'[v].cmd # "none"
    <3> SUFFICES ASSUME NEW v \in Workers PROVE act'[v].pc # "idle" => act'[v].cmd # "none"
      OBVIOUS
    <3>1. v \in Actors
      BY DEF Actors
    <3>2. CASE v = w
      BY <1>5, <1>6, <3>2 DEF Consistent
    <3>3. CASE v # w
      BY <1>6, <3>1, <3>3 DEF IInv, TypeOK
    <3> QED BY <3>2, <3>3
  <2>2. latest' \in Deliveries \cup {"none"} /\ inbox' \subseteq Deliveries
    BY <1>2, <1>3
  <2> QED BY <1>1, <1>6, <1>7, <2>1, <2>2 DEF IInv, TypeOK, Acts, Lossy
<1>9. ActorsInv'
  <2>1. Judged' = Judged
    BY <1>1 DEF Judged
  <2>2. ASSUME NEW b \in Actors PROVE Consistent(b, act'[b], merges, Judged)
    BY <1>5, <1>6 DEF IInv, ActorsInv
  <2> QED BY <1>1, <2>1, <2>2 DEF ActorsInv, IInv
<1>10. EarnedInv'
  BY <1>1 DEF IInv, EarnedInv
<1>11. MarkInv'
  <2>1. AnsweringHuman' => AnsweringHuman
    BY <1>4, <1>5, <1>6 DEF AnsweringHuman, Actors
  <2> QED BY <1>1, <1>7, <2>1 DEF IInv, MarkInv
<1>12. DropInv'
  <2> SUFFICES ASSUME latest' = "drop", {"state", "drop"} \cap lost' = {}
               PROVE  ~HeldAsDropped' /\ Dropping'
    BY DEF DropInv
  <2>1. cmd = "drop" /\ Starts(cmd) = "drop" /\ ~HeldAsDropped
    BY <1>2, <1>4
  <2>2. ~HeldAsDropped'
    BY <1>5, <1>6, <2>1 DEF HeldAsDropped
  <2>3. Dropping'
    BY <1>5, <1>6, <2>1 DEF Dropping
  <2> QED BY <2>2, <2>3
<1>13. ShutInv'
  <2> SUFFICES ASSUME lost' = {}
               PROVE  /\ row.state \in Settled /\ open => row.state = "dropped" /\ Shutting'
                      /\ act'["sweep"].pc = "closed" \/ act'["watch"].pc = "confirmed" => ~open
    BY <1>1 DEF ShutInv
  <2>1. lost = {}
    BY <1>7
  <2>2. Shutting => Shutting'
    <3>1. CASE cmd = "drop"
      BY <1>4, <1>5, <1>6, <3>1 DEF Shutting
    <3>2. CASE cmd # "drop"
      BY <1>1, <1>2, <1>6, <3>2 DEF Shutting, Actors
    <3> QED BY <3>1, <3>2
  <2>3. act'["sweep"] = act["sweep"] /\ act'["watch"] = act["watch"]
    BY <1>1, <1>6 DEF Actors, Loops
  <2> QED BY <2>1, <2>2, <2>3 DEF IInv, ShutInv
<1> QED BY <1>8, <1>9, <1>10, <1>11, <1>12, <1>13 DEF IInv

\* A command saves the row it read, as dropped or reopened.
LEMMA CommandSaves ==
    ASSUME IInv, NEW w \in Workers, NEW s \in {"dropped", "reopened"}, NEW pc \in {"shut", "unshut"},
           \/ act[w].pc = "drop" /\ s = "dropped" /\ pc = "shut"
           \/ act[w].pc = "reopen" /\ s = "reopened" /\ pc = "unshut",
           Saves(w, [act[w].snap EXCEPT !.state = s], pc),
           UNCHANGED <<forgeVars, worldVars, mail, ghosts, mishaps>>
    PROVE  IInv'
<1> DEFINE new == [act[w].snap EXCEPT !.state = s]
<1>1. /\ w \in Actors /\ w # "rca" /\ w \notin Loops /\ pc \in Pcs /\ s \in States
      /\ UNCHANGED <<open, proposed, worldVars, mail, blocked, judged, mishaps>>
  BY IncidentsAssumption DEF Actors, Loops, Pcs, States, forgeVars, ghosts
<1>2. new \in Rows /\ new.state = s /\ new.chronic = act[w].snap.chronic /\ new.fix = act[w].snap.fix
  BY <1>1, OneActor, NewState
<1>3. Saves(w, new, pc)
  OBVIOUS
<1> HIDE DEF new
<1>4. Consistent(w, [pc |-> pc, snap |-> new, cmd |-> act[w].cmd], merges, Judged) /\ new.fix <= merges
  <2>1. Consistent(w, act[w], merges, Judged)
    BY <1>1, OneActor
  <2> QED BY <1>1, <1>2, <2>1 DEF Consistent
<1>5. proposed \in BOOLEAN /\ blocked \in BOOLEAN
  BY DEF IInv, TypeOK
<1>6. SettlesRightly(w, new, pc)
  BY <1>2 DEF SettlesRightly, Settled
<1> QED BY <1>1, <1>2, <1>3, <1>4, <1>5, <1>6, SaveKeeps

\* The drop command and the reopen command, before their calls.
LEMMA DropsKeeps == ASSUME IInv, NEW w \in Workers, Drops(w) PROVE IInv'
  BY CommandSaves DEF Drops
\* The reopen command.
LEMMA ReopensKeeps == ASSUME IInv, NEW w \in Workers, Reopens(w) PROVE IInv'
  BY CommandSaves DEF Reopens

\* A merge opens the window of its commit.
LEMMA ArmsKeeps == ASSUME IInv, NEW w \in Workers, Arms(w) PROVE IInv'
<1> DEFINE u == act[w].snap
           t == [u EXCEPT !.state = "verifying"]
           x == [t EXCEPT !.started = now]
           new == [x EXCEPT !.fix = merges]
<1>1. /\ w \in Actors /\ w # "rca" /\ w \notin Loops /\ "reply" \in Pcs /\ "verifying" \in States
      /\ act[w].pc = "arm"
      /\ UNCHANGED <<open, proposed, worldVars, mail, blocked, judged, mishaps>>
  BY IncidentsAssumption DEF Actors, Loops, Pcs, States, Arms, forgeVars, ghosts
<1>2. /\ now \in Times /\ now > 0 /\ merges \in 0 .. MaxMerges /\ merges <= merges
      /\ proposed \in BOOLEAN /\ blocked \in BOOLEAN
  BY IncidentsAssumption DEF IInv, TypeOK, EarnedInv, Times
<1>3. t \in Rows /\ t.state = "verifying" /\ t.chronic = u.chronic
  BY <1>1, OneActor, NewState
<1>4. x \in Rows /\ x.state = t.state /\ x.chronic = t.chronic /\ x.started = now
  <2> HIDE DEF t
  <2> QED BY <1>2, <1>3, NewStart
<1>5. new \in Rows /\ new.state = x.state /\ new.chronic = x.chronic /\ new.started = x.started /\ new.fix = merges
  <2> HIDE DEF x
  <2> QED BY <1>2, <1>4, NewFix
<1>6. Saves(w, new, "reply")
  <2>1. new = [u EXCEPT !.state = "verifying", !.started = now, !.fix = merges]
    OBVIOUS
  <2> QED BY <2>1 DEF Arms
<1> HIDE DEF new, x, t
<1>7. Consistent(w, [pc |-> "reply", snap |-> new, cmd |-> act[w].cmd], merges, Judged)
  <2>1. Consistent(w, act[w], merges, Judged)
    BY <1>1, OneActor
  <2> QED BY <1>1, <1>2, <1>3, <1>4, <1>5, <2>1 DEF Consistent
<1>8. SettlesRightly(w, new, "reply")
  BY <1>1, <1>3, <1>4, <1>5 DEF SettlesRightly, Settled
<1> QED BY <1>1, <1>2, <1>3, <1>4, <1>5, <1>6, <1>7, <1>8, SaveKeeps

\* A command opens or closes the ticket, for the row it saved.
LEMMA CallsForgeKeeps == ASSUME IInv, NEW w \in Workers, CallsForge(w) PROVE IInv'
<1>1. /\ w \in Actors /\ act[w].pc \in {"shut", "unshut"} /\ Calls(w, act[w].pc = "unshut")
      /\ Turns(w, Idle)
      /\ UNCHANGED <<row, proposed, worldVars, inbox, arrived, latest, ghosts, mishaps>>
  BY DEF Actors, CallsForge, Rests, Turns, mail
<1>2. arrived \in 0 .. MaxInbox /\ mishaps \in 0 .. MaxMishaps /\ inbox \subseteq Deliveries /\ merges \in Nat
  BY IncidentsAssumption DEF IInv, TypeOK
<1>3. (act[w].pc = "unshut") \in BOOLEAN
  OBVIOUS
<1> QED BY <1>1, <1>2, <1>3, IdleIsConsistent, CallKeeps

\* The handler is done.
LEMMA RepliesKeeps == ASSUME IInv, NEW w \in Workers, Replies(w) PROVE IInv'
<1>1. /\ w \in Actors /\ act[w].pc = "reply" /\ Turns(w, Idle)
      /\ UNCHANGED <<row, lost, open, proposed, worldVars, inbox, arrived, latest, blocked, judged, mishaps>>
  BY DEF Actors, Replies, Rests, Turns, mail, rowVars, forgeVars, ghosts
<1>2. UNCHANGED <<merges, deploys, events, now>> /\ Judged' = Judged
  BY <1>1 DEF worldVars, Judged
<1>3. EarnedInv'
  BY <1>1, <1>2 DEF IInv, EarnedInv
<1>4. /\ arrived \in 0 .. MaxInbox /\ mishaps \in 0 .. MaxMishaps /\ inbox \subseteq Deliveries
      /\ merges \in Nat /\ proposed \in BOOLEAN /\ blocked \in BOOLEAN /\ lost \subseteq Lossy
  BY IncidentsAssumption DEF IInv, TypeOK, Lossy
<1> QED BY <1>1, <1>2, <1>3, <1>4, IdleIsConsistent, MoveKeeps

\* The handling fails, and the delivery is kept: a drop that did not close the ticket is
\* in the inbox again.
LEMMA HandlingFailsKeeps == ASSUME IInv, NEW w \in Workers, HandlingFails(w) PROVE IInv'
<1>1. /\ w \in Actors /\ act[w].pc \in {"judge", "shut", "unshut", "reply"} /\ Turns(w, Idle)
      /\ UNCHANGED <<row, proposed, worldVars, arrived, latest, ghosts>>
      /\ inbox' = inbox \cup {act[w].cmd} /\ mishaps < MaxMishaps /\ mishaps' = mishaps + 1
  BY DEF Actors, HandlingFails, Rests, Turns, Mishap
<1>2. Consistent(w, act[w], merges, Judged) /\ act[w].cmd \in Deliveries \cup {"none"}
  BY <1>1, OneActor, Typed DEF IInv
<1>3. inbox \subseteq inbox' /\ inbox' \subseteq Deliveries /\ (act[w].pc = "shut" => "drop" \in inbox')
  BY <1>1, <1>2, OneActor DEF Consistent
<1>4. UNCHANGED <<merges, deploys, events, now, blocked, judged>> /\ Judged' = Judged
  BY <1>1 DEF worldVars, Judged, ghosts
<1>5. EarnedInv'
  BY <1>4 DEF IInv, EarnedInv
<1>6. /\ arrived' \in 0 .. MaxInbox /\ mishaps' \in 0 .. MaxMishaps
      /\ merges \in Nat /\ proposed \in BOOLEAN /\ blocked \in BOOLEAN /\ lost \subseteq Lossy
  BY <1>1, IncidentsAssumption DEF IInv, TypeOK, Lossy
<1>7. CASE Calls(w, act[w].pc = "unshut") /\ act[w].pc \in {"shut", "unshut"}
  <2>1. (act[w].pc = "unshut") \in BOOLEAN
    OBVIOUS
  <2> QED BY <1>1, <1>3, <1>6, <1>7, <2>1, IdleIsConsistent, CallKeeps
<1>8. CASE UNCHANGED <<open, lost>>
  BY <1>1, <1>3, <1>4, <1>5, <1>6, <1>8, IdleIsConsistent, MoveKeeps
<1> QED BY <1>7, <1>8 DEF HandlingFails

-------------------------------------------------------------------------------
(* Occurrences and the sweep                                                   *)

\* An occurrence is counted, and the row may be taken up for its ticket.
LEMMA OccursKeeps == ASSUME IInv, Occurs PROVE IInv'
<1> DEFINE i == "ingest"
           new == [row EXCEPT !.seen = now]
<1>1. /\ i \in Actors /\ i \notin Workers /\ act[i].pc = "idle"
      /\ events' = events \cup {now} /\ row' = new
      /\ UNCHANGED <<lost, open, proposed, merges, deploys, now, inbox, arrived, latest, blocked, judged, mishaps>>
  BY IncidentsAssumption DEF Actors, Loops, Occurs, forgeVars, mail, ghosts
<1>2. now \in Times /\ now >= 1 /\ judged.to <= now /\ judged.to \in Int /\ now \in Int
  BY IncidentsAssumption DEF IInv, TypeOK, EarnedInv, Times
<1>3. /\ row' \in Rows /\ row'.state = row.state /\ row'.chronic = row.chronic
      /\ row'.started = row.started /\ row'.fix = row.fix
  <2>1. row \in Rows
    BY <1>1, OneActor
  <2> QED BY <1>1, <1>2, <2>1 DEF Rows
<1> HIDE DEF new
<1>4. \E r \in Acts :
        /\ Turns(i, r) /\ Consistent(i, r, merges, Judged)
        /\ r = act[i] \/ r.pc \in {"return", "note"}
  <2>1. CASE act' = act
    BY <1>1, <2>1, Typed, OneActor DEF Turns, IInv
  <2>2. CASE /\ row.state \notin {"queued", "fixing", "verifying", "dropped"}
             /\ act' = [act EXCEPT ![i].snap = row',
                                   ![i].pc = IF row.state = "closed" THEN "return" ELSE "note"]
    <3> DEFINE pc == IF row.state = "closed" THEN "return" ELSE "note"
               q == row'
               r == [pc |-> pc, snap |-> q, cmd |-> act[i].cmd]
    <3>1. pc \in {"return", "note"} /\ pc \in Pcs /\ act[i] \in Acts /\ q \in Rows
          /\ act[i].cmd \in Deliveries \cup {"none"} /\ act \in [Actors -> Acts]
      BY <1>1, <1>3, Typed DEF Pcs, IInv
    <3>2. pc = "return" => row.state = "closed"
      OBVIOUS
    <3>3. act' = [act EXCEPT ![i].snap = q, ![i].pc = pc]
      BY <2>2
    <3> HIDE DEF pc, q
    <3>4. act' = [act EXCEPT ![i] = r]
      <4>1. [act[i] EXCEPT !.snap = q] = [pc |-> act[i].pc, snap |-> q, cmd |-> act[i].cmd]
        BY <3>1 DEF Acts
      <4>2. [[pc |-> act[i].pc, snap |-> q, cmd |-> act[i].cmd] EXCEPT !.pc = pc] = r
        OBVIOUS
      <4>3. [act EXCEPT ![i].snap = q, ![i].pc = pc]
              = [act EXCEPT ![i] = [[act[i] EXCEPT !.snap = q] EXCEPT !.pc = pc]]
        BY <1>1, <3>1
      <4> QED BY <3>3, <4>1, <4>2, <4>3
    <3>5. r \in Acts /\ r.pc = pc /\ r.snap = q
      BY <3>1 DEF Acts
    <3>6. Consistent(i, r, merges, Judged)
      <4>1. /\ row.fix <= merges /\ (row.state = "verified" => Judged)
        BY <1>1, OneActor
      <4>2. q.fix <= merges /\ q.state = row.state
        BY <1>3, <4>1 DEF q
      <4>3. row.state \notin {"verifying", "dropped"} /\ i \notin Workers /\ i # "rca"
        BY <1>1, <2>2
      <4> HIDE DEF r, i
      <4> QED BY <3>1, <3>2, <3>5, <4>1, <4>2, <4>3 DEF Consistent
    <3> HIDE DEF r
    <3> QED BY <3>1, <3>4, <3>5, <3>6 DEF Turns
  <2> QED BY <2>1, <2>2 DEF Occurs
<1>5. PICK r \in Acts :
        /\ Turns(i, r) /\ Consistent(i, r, merges, Judged)
        /\ r = act[i] \/ r.pc \in {"return", "note"}
  BY <1>4
<1>6. /\ act \in [Actors -> Acts] /\ act' \in [Actors -> Acts] /\ act'[i] = r
      /\ \A b \in Actors \ {i} : act'[b] = act[b]
  BY <1>1, <1>5, Typed DEF Turns, IInv
<1>7. \A w \in Workers : w \in Actors /\ act'[w] = act[w]
  BY <1>1, <1>6 DEF Actors
<1>8. TypeOK'
  <2>1. events' \subseteq 1 .. now'
    BY <1>1, <1>2 DEF IInv, TypeOK
  <2>2. row'.fix <= merges' /\ (row'.state = "verifying" => row'.started > 0)
    BY <1>1, <1>3, OneActor
  <2> QED BY <1>1, <1>3, <1>6, <1>7, <2>1, <2>2 DEF IInv, TypeOK, Acts
<1>9. ActorsInv'
  <2>1. Judged' = Judged
    BY <1>1 DEF Judged
  <2>2. ASSUME NEW b \in Actors PROVE Consistent(b, act'[b], merges, Judged)
    BY <1>5, <1>6 DEF IInv, ActorsInv
  <2> QED BY <1>1, <1>3, <2>1, <2>2 DEF ActorsInv, IInv
<1>10. EarnedInv'
  <2>1. events' \cap (judged.to - Window .. judged.to - 1) = {}
    <3>1. now \notin (judged.to - Window .. judged.to - 1)
      BY <1>2, IncidentsAssumption
    <3> QED BY <1>1, <3>1 DEF IInv, EarnedInv
  <2> QED BY <1>1, <2>1 DEF IInv, EarnedInv
<1>11. MarkInv'
  BY <1>1, <1>3, <1>7 DEF IInv, MarkInv, AnsweringHuman
<1>12. DropInv'
  <2>1. HeldAsDropped' => HeldAsDropped
    BY <1>1, <1>5, <1>6 DEF HeldAsDropped
  <2>2. Dropping => Dropping'
    BY <1>1, <1>3, <1>7 DEF Dropping
  <2> QED BY <1>1, <2>1, <2>2 DEF IInv, DropInv
<1>13. ShutInv'
  <2>1. Shutting => Shutting'
    BY <1>1, <1>7 DEF Shutting
  <2>2. act'["sweep"] = act["sweep"] /\ act'["watch"] = act["watch"]
    BY <1>6 DEF Actors, Loops
  <2> QED BY <1>1, <1>3, <2>1, <2>2 DEF IInv, ShutInv
<1> QED BY <1>8, <1>9, <1>10, <1>11, <1>12, <1>13 DEF IInv

\* A loop saves the row it holds with another state, or as it read it.
LEMMA LoopSaves ==
    ASSUME IInv, NEW a \in Loops \ {"rca"}, NEW s \in States, NEW pc \in {"idle", "unshut"},
           Saves(a, [act[a].snap EXCEPT !.state = s], pc),
           act[a].pc \notin {"drop", "shut"}, act[a].snap.state # "dropped",
           s \notin {"verified", "verifying"} \/ s = act[a].snap.state \/ act[a].pc = "confirmed",
           pc = "unshut" => s = "reopened",
           \/ s \notin Settled \/ s = act[a].snap.state
           \/ a = "sweep" /\ act[a].pc = "closed" /\ s = "closed"
           \/ a = "watch" /\ act[a].pc = "confirmed" /\ s = "verified",
           UNCHANGED <<forgeVars, worldVars, mail, ghosts, mishaps>>
    PROVE  IInv'
<1> DEFINE new == [act[a].snap EXCEPT !.state = s]
<1>1. /\ a \in Actors /\ a # "rca" /\ a \notin Workers /\ pc \in Pcs
      /\ UNCHANGED <<open, proposed, worldVars, mail, blocked, judged, mishaps>>
  BY IncidentsAssumption DEF Actors, Loops, Pcs, forgeVars, ghosts
<1>2. /\ new \in Rows /\ new.state = s /\ new.chronic = act[a].snap.chronic
      /\ new.started = act[a].snap.started /\ new.fix = act[a].snap.fix
  BY <1>1, OneActor, NewState
<1>3. Saves(a, new, pc)
  OBVIOUS
<1> HIDE DEF new
<1>4. Consistent(a, act[a], merges, Judged)
  BY <1>1, OneActor
<1>5. /\ new.fix <= merges /\ (s = "verified" => Judged)
      /\ (new.state = "verifying" => new.started > 0)
  BY <1>2, <1>4 DEF Consistent
<1>6. pc # "idle" => Consistent(a, [pc |-> pc, snap |-> new, cmd |-> act[a].cmd], merges, Judged)
  BY <1>1, <1>2, <1>5 DEF Consistent
<1>7. proposed \in BOOLEAN /\ blocked \in BOOLEAN
  BY DEF IInv, TypeOK
<1>8. SettlesRightly(a, new, pc)
  <2>1. CASE s \notin Settled \/ s = act[a].snap.state
    BY <1>2, <2>1 DEF SettlesRightly
  <2>2. CASE a = "sweep" /\ act[a].pc = "closed" /\ s = "closed"
    BY <1>2, <1>4, <2>2 DEF SettlesRightly, Consistent
  <2>3. CASE a = "watch" /\ act[a].pc = "confirmed" /\ s = "verified"
    BY <1>2, <1>4, <2>3 DEF SettlesRightly, Consistent
  <2> QED BY <2>1, <2>2, <2>3
<1> QED BY <1>1, <1>2, <1>3, <1>5, <1>6, <1>7, <1>8, SaveKeeps

\* The ingest saves the row it read as reopened.
LEMMA ReturnsKeeps == ASSUME IInv, Returns PROVE IInv'
<1>1. "ingest" \in Actors /\ "ingest" \in Loops \ {"rca"} /\ "reopened" \in States
  BY DEF Actors, Loops, States
<1>2. act["ingest"].pc = "return" /\ act["ingest"].snap.state # "dropped"
  BY <1>1, OneActor DEF Returns, Consistent
<1> QED BY <1>1, <1>2, LoopSaves DEF Returns, Settled

\* It opens the ticket of the item it reopened.
LEMMA ReopensTicketKeeps == ASSUME IInv, ReopensTicket PROVE IInv'
<1>1. /\ "ingest" \in Actors /\ act["ingest"].pc = "unshut" /\ Calls("ingest", TRUE) /\ Turns("ingest", Idle)
      /\ UNCHANGED <<row, proposed, worldVars, inbox, arrived, latest, ghosts, mishaps>>
  BY DEF Actors, Loops, ReopensTicket, Rests, Turns, mail
<1>2. arrived \in 0 .. MaxInbox /\ mishaps \in 0 .. MaxMishaps /\ inbox \subseteq Deliveries /\ merges \in Nat
  BY IncidentsAssumption DEF IInv, TypeOK
<1> QED BY <1>1, <1>2, IdleIsConsistent, CallKeeps

\* A row is itself with the state it has.
LEMMA SameState == ASSUME NEW u \in Rows PROVE [u EXCEPT !.state = u.state] = u /\ u.state \in States
  BY DEF Rows

\* A comment saves the row as it was read.
LEMMA CommentsKeeps == ASSUME IInv, Comments PROVE IInv'
<1> DEFINE u == act["ingest"].snap
<1>1. "ingest" \in Actors /\ "ingest" \in Loops \ {"rca"}
  BY DEF Actors, Loops
<1>2. act["ingest"].pc = "note" /\ u \in Rows /\ u.state # "dropped"
  BY <1>1, OneActor DEF Comments, Consistent
<1>3. u = [u EXCEPT !.state = u.state] /\ u.state \in States
  BY <1>2, SameState
<1>4. Saves("ingest", [u EXCEPT !.state = u.state], "idle")
  BY <1>3 DEF Comments
<1> QED BY <1>1, <1>2, <1>3, <1>4, LoopSaves DEF Comments

\* The sweep takes a silent item.
LEMMA SweepPicksKeeps == ASSUME IInv, SweepPicks PROVE IInv'
<1>1. "sweep" \in Actors /\ "close" \in Pcs /\ "sweep" \notin Workers
  BY IncidentsAssumption DEF Actors, Loops, Pcs
<1>2. PICK v \in Acts : Turns("sweep", v) /\ v.pc = "close" /\ v.snap = row
  BY <1>1, Read DEF SweepPicks
<1>3. act["sweep"].pc = "idle" /\ row.state \in {"open", "reopened"}
  BY DEF SweepPicks, Free, Sweepable
<1>4. UNCHANGED <<row, open, proposed, lost, worldVars, mail, blocked, judged, mishaps>>
  BY DEF SweepPicks, rowVars, forgeVars, ghosts
<1>5. UNCHANGED <<inbox, arrived, latest, merges, deploys, events, now>> /\ Judged' = Judged
  BY <1>4 DEF mail, worldVars, Judged
<1>6. EarnedInv'
  BY <1>4, <1>5 DEF IInv, EarnedInv
<1>7. Consistent("sweep", v, merges, Judged')
  BY <1>1, <1>2, <1>3, <1>5, OneActor DEF Consistent
<1>8. arrived \in 0 .. MaxInbox /\ mishaps \in 0 .. MaxMishaps /\ proposed \in BOOLEAN /\ blocked \in BOOLEAN
  BY DEF IInv, TypeOK
<1> QED BY <1>1, <1>2, <1>3, <1>4, <1>5, <1>6, <1>7, <1>8, OneActor, MoveKeeps

\* It closes the ticket first.
LEMMA SweepClosesKeeps == ASSUME IInv, SweepCloses PROVE IInv'
<1>1. /\ "sweep" \in Actors /\ "sweep" \notin Workers /\ "closed" \in Pcs
      /\ act["sweep"].pc = "close" /\ Calls("sweep", FALSE)
      /\ UNCHANGED <<row, proposed, worldVars, inbox, arrived, latest, ghosts, mishaps>>
  BY IncidentsAssumption DEF Actors, Loops, Pcs, SweepCloses, mail
<1>2. PICK r \in Acts : Turns("sweep", r) /\ r.pc = "closed" /\ r.snap = act["sweep"].snap
  BY <1>1, Gone DEF SweepCloses
<1>3. Consistent("sweep", r, merges, Judged)
  BY <1>1, <1>2, OneActor DEF Consistent
<1>4. arrived \in 0 .. MaxInbox /\ mishaps \in 0 .. MaxMishaps /\ inbox \subseteq Deliveries
  BY DEF IInv, TypeOK
<1> QED BY <1>1, <1>2, <1>3, <1>4, CallKeeps

\* And saves the row after it.
LEMMA SweepSavesKeeps == ASSUME IInv, SweepSaves PROVE IInv'
<1>1. "sweep" \in Actors /\ "sweep" \in Loops \ {"rca"} /\ "closed" \in States
  BY DEF Actors, Loops, States
<1>2. act["sweep"].pc = "closed" /\ act["sweep"].snap.state # "dropped"
  BY <1>1, OneActor DEF SweepSaves, Consistent
<1> QED BY <1>1, <1>2, LoopSaves DEF SweepSaves

-------------------------------------------------------------------------------
(* The watcher                                                                 *)

\* A set of numbers has a least one.
LEMMA LeastNat ==
    ASSUME NEW T \in SUBSET Nat, T # {}
    PROVE  \E x \in T : \A y \in T : x <= y
<1> DEFINE R == OpToRel(<, Nat)
<1>1. IsWellFoundedOn(R, Nat)
  BY NatLessThanWellFounded, Zenon
<1>3. \A x, y \in Nat : y < x => <<y, x>> \in R
  BY SMT DEF OpToRel
<1> HIDE DEF R
<1>2. \E x \in T : \A y \in T : ~ (<<y, x>> \in R)
  BY <1>1, WFMin, Zenon
<1>4. PICK x \in T : \A y \in T : ~ (<<y, x>> \in R)
  BY <1>2, Zenon
<1>5. ASSUME NEW y \in T PROVE x <= y
  <2>1. ~(y < x)
    BY <1>3, <1>4
  <2> QED BY <2>1
<1> QED BY <1>5

\* The deploys in sight are deploys on record.
LEMMA SightIsRecord ==
    ASSUME TypeOK, NEW d \in InSight
    PROVE  /\ \E i \in 1 .. Len(deploys) : d = deploys[i]
           /\ d.at \in Nat
<1> DEFINE D == [at : Times, fix : 0 .. merges]
<1>1. deploys \in Seq(D) /\ DeployLimit \in Nat /\ \A e \in D : e.at \in Nat
  BY IncidentsAssumption DEF TypeOK, Times
<1> HIDE DEF D
<1>2. CASE Len(deploys) > DeployLimit
  <2> DEFINE k == Len(deploys) - DeployLimit
             q == SubSeq(deploys, k + 1, Len(deploys))
  <2>1. Recent(deploys) = q /\ k \in Nat /\ k + DeployLimit = Len(deploys)
    BY <1>1, <1>2 DEF Recent
  <2>2. DOMAIN q = 1 .. DeployLimit /\ \A j \in 1 .. DeployLimit : q[j] = deploys[k + j]
    BY <1>1, <2>1
  <2> HIDE DEF q
  <2>3. PICK j \in 1 .. DeployLimit : d = q[j]
    BY <2>1, <2>2 DEF InSight
  <2>4. k + j \in 1 .. Len(deploys) /\ d = deploys[k + j]
    BY <1>1, <2>1, <2>2, <2>3
  <2> QED BY <1>1, <2>4
<1>3. CASE ~(Len(deploys) > DeployLimit)
  <2>1. Recent(deploys) = deploys
    BY <1>3 DEF Recent
  <2>2. PICK j \in 1 .. Len(deploys) : d = deploys[j]
    BY <1>1, <2>1 DEF InSight
  <2> QED BY <1>1, <2>2
<1> QED BY <1>2, <1>3

\* The window that is judged starts with the merge, or with a deploy that carries its
\* commit.
LEMMA Start ==
    ASSUME TypeOK, NEW r \in Rows, Judgeable(r)
    PROVE  /\ EffectiveStart(r) \in Nat
           /\ deploys # <<>> => \E i \in 1 .. Len(deploys) :
                 /\ deploys[i].fix = r.fix /\ deploys[i].at = EffectiveStart(r)
                 /\ deploys[i].at >= r.started
<1>1. CASE deploys = <<>>
  BY <1>1, RowFields, IncidentsAssumption DEF EffectiveStart, Times
<1>2. CASE deploys # <<>>
  <2> DEFINE T == {d.at : d \in Matching(r)}
  <2>1. T \in SUBSET Nat /\ T # {}
    BY <1>2, SightIsRecord DEF Judgeable, Matching
  <2>2. \E x \in T : \A y \in T : x <= y
    <3> HIDE DEF T
    <3> QED BY <2>1, LeastNat
  <2>3. \E t \in T : \A d \in Matching(r) : t <= d.at
    BY <2>2
  <2>4. EffectiveStart(r) \in T
    BY <1>2, <2>3 DEF EffectiveStart
  <2>5. PICK d \in Matching(r) : d.at = EffectiveStart(r)
    BY <2>4
  <2>6. d \in InSight /\ d.fix = r.fix /\ d.at >= r.started
    BY <2>5 DEF Matching, Carries
  <2> QED BY <2>1, <2>4, <2>5, <2>6, SightIsRecord
<1> QED BY <1>1, <1>2

\* A verdict is due, or not yet; a confirming one is earned.
LEMMA WatchPicksKeeps == ASSUME IInv, WatchPicks PROVE IInv'
<1>1. "watch" \in Actors /\ {"confirm", "refute", "keep"} \subseteq Pcs /\ "watch" \notin Workers
  BY IncidentsAssumption DEF Actors, Loops, Pcs
<1>2. act["watch"].pc = "idle" /\ row.state = "verifying" /\ row \in Rows
  BY <1>1, OneActor DEF WatchPicks, Free
<1>3. UNCHANGED <<row, open, proposed, lost, worldVars, inbox, arrived, latest, blocked, mishaps>>
  BY DEF WatchPicks, rowVars, forgeVars, mail
<1>4. UNCHANGED <<merges, deploys, events, now>>
  BY <1>3 DEF worldVars
<1>5. /\ arrived \in 0 .. MaxInbox /\ mishaps \in 0 .. MaxMishaps /\ proposed \in BOOLEAN /\ blocked \in BOOLEAN
      /\ now \in Nat /\ now >= 1 /\ events \subseteq Nat /\ Window \in Nat \ {0}
      /\ deploys \in Seq([at : Times, fix : 0 .. merges]) /\ TypeOK
  BY IncidentsAssumption DEF IInv, TypeOK, Times, EarnedInv
<1>6. \E pc \in {"confirm", "refute", "keep"} :
        /\ Reads("watch", pc)
        /\ \/ pc # "confirm" /\ judged' = judged
           \/ /\ pc = "confirm" /\ Judgeable(row) /\ Elapsed(row) /\ QuietSince(row)
              /\ judged' = [to |-> now, since |-> row.started, fix |-> row.fix, deploys |-> Len(deploys)]
  BY DEF WatchPicks
<1>7. PICK pc \in {"confirm", "refute", "keep"} :
        /\ Reads("watch", pc)
        /\ \/ pc # "confirm" /\ judged' = judged
           \/ /\ pc = "confirm" /\ Judgeable(row) /\ Elapsed(row) /\ QuietSince(row)
              /\ judged' = [to |-> now, since |-> row.started, fix |-> row.fix, deploys |-> Len(deploys)]
  BY <1>6
<1>8. PICK v \in Acts : Turns("watch", v) /\ v.pc = pc /\ v.snap = row
  BY <1>1, <1>7, Read
<1>9. EarnedInv' /\ (Judged => Judged') /\ (pc = "confirm" => Judged')
  <2>1. CASE pc # "confirm" /\ judged' = judged
    BY <1>4, <2>1 DEF IInv, EarnedInv, Judged
  <2>2. CASE /\ pc = "confirm" /\ Judgeable(row) /\ Elapsed(row) /\ QuietSince(row)
             /\ judged' = [to |-> now, since |-> row.started, fix |-> row.fix, deploys |-> Len(deploys)]
    <3> DEFINE e == EffectiveStart(row)
    <3>1. /\ judged'.to = now /\ judged'.since = row.started /\ judged'.fix = row.fix
          /\ judged'.deploys = Len(deploys)
      BY <2>2
    <3>2. e \in Nat /\ now - e >= Window /\ \A t \in events : t < e
      BY <1>2, <1>5, <2>2, Start DEF Elapsed, QuietSince
    <3>3. deploys # <<>> => \E i \in 1 .. Len(deploys) :
             deploys[i].fix = row.fix /\ deploys[i].at = e /\ deploys[i].at >= row.started
      BY <1>2, <1>5, <2>2, Start
    <3> HIDE DEF e
    <3>4. events \cap (now - Window .. now - 1) = {}
      BY <1>5, <3>2
    <3>5. Len(deploys) > 0 => \E i \in 1 .. Len(deploys) :
             deploys[i].fix = row.fix /\ deploys[i].at \in row.started .. now - Window
      <4>1. row.started \in Nat
        BY <1>2, RowFields, IncidentsAssumption DEF Times
      <4>2. SUFFICES ASSUME Len(deploys) > 0
                     PROVE  \E i \in 1 .. Len(deploys) :
                              deploys[i].fix = row.fix /\ deploys[i].at \in row.started .. now - Window
        OBVIOUS
      <4>3. deploys # <<>>
        BY <4>2
      <4>4. PICK i \in 1 .. Len(deploys) :
              deploys[i].fix = row.fix /\ deploys[i].at = e /\ deploys[i].at >= row.started
        BY <3>3, <4>3
      <4>5. deploys[i].at \in row.started .. now - Window
        BY <1>5, <3>2, <4>1, <4>4
      <4> QED BY <4>4, <4>5
    <3>6. Len(deploys) \in Nat
      BY <1>5
    <3>7. Judged'
      BY <1>5, <3>1 DEF Judged
    <3> QED BY <1>4, <1>5, <3>1, <3>4, <3>5, <3>6, <3>7 DEF EarnedInv
  <2> QED BY <1>7, <2>1, <2>2
<1>10. Consistent("watch", v, merges, Judged')
  BY <1>1, <1>2, <1>8, <1>9, OneActor DEF Consistent
<1> QED BY <1>1, <1>2, <1>3, <1>5, <1>7, <1>8, <1>9, <1>10, OneActor, MoveKeeps

\* The verdict's ticket first.
LEMMA WatchCallsKeeps == ASSUME IInv, WatchCalls PROVE IInv'
<1>1. /\ "watch" \in Actors /\ "watch" \notin Workers /\ {"refuted", "confirmed"} \subseteq Pcs
      /\ act["watch"].pc \in {"confirm", "refute"} /\ Calls("watch", act["watch"].pc = "refute")
      /\ UNCHANGED <<row, proposed, worldVars, inbox, arrived, latest, ghosts, mishaps>>
  BY IncidentsAssumption DEF Actors, Loops, Pcs, WatchCalls, mail
<1>2. \E pc \in {"refuted", "confirmed"} :
        Goes("watch", pc) /\ (pc = "confirmed" <=> act["watch"].pc = "confirm")
  BY <1>1 DEF WatchCalls
<1>3. PICK pc \in {"refuted", "confirmed"} :
        Goes("watch", pc) /\ (pc = "confirmed" <=> act["watch"].pc = "confirm")
  BY <1>2
<1>4. PICK r \in Acts : Turns("watch", r) /\ r.pc = pc /\ r.snap = act["watch"].snap
  BY <1>1, <1>3, Gone
<1>5. Consistent("watch", r, merges, Judged)
  BY <1>1, <1>3, <1>4, OneActor DEF Consistent
<1>6. arrived \in 0 .. MaxInbox /\ mishaps \in 0 .. MaxMishaps /\ inbox \subseteq Deliveries
  BY DEF IInv, TypeOK
<1>7. (act["watch"].pc = "refute") \in BOOLEAN
  OBVIOUS
<1> QED BY <1>1, <1>3, <1>4, <1>5, <1>6, <1>7, CallKeeps

\* Then its row.
LEMMA WatchSavesKeeps == ASSUME IInv, WatchSaves PROVE IInv'
<1> DEFINE u == act["watch"].snap
           w == "watch"
<1>1. /\ w \in Actors /\ w \in Loops \ {"rca"} /\ w \notin Workers /\ "idle" \in Pcs
      /\ {"verified", "reopened"} \subseteq States
      /\ UNCHANGED <<forgeVars, worldVars, mail, judged, mishaps>>
  BY IncidentsAssumption DEF Actors, Loops, Pcs, States, WatchSaves
<1>2. act[w].pc \in {"confirmed", "refuted", "keep"} /\ u \in Rows /\ u.state = "verifying"
      /\ Consistent(w, act[w], merges, Judged)
  BY <1>1, OneActor DEF WatchSaves, Consistent
<1>3. proposed \in BOOLEAN /\ blocked \in BOOLEAN
  BY DEF IInv, TypeOK
<1>4. CASE act[w].pc = "confirmed"
  <2>1. Saves(w, [u EXCEPT !.state = "verified"], "idle") /\ blocked' = blocked
    BY <1>3, <1>4 DEF WatchSaves
  <2> QED BY <1>1, <1>2, <1>4, <2>1, LoopSaves DEF ghosts
<1>5. CASE act[w].pc = "keep"
  <2>1. Saves(w, u, "idle") /\ blocked' = blocked
    BY <1>3, <1>5 DEF WatchSaves
  <2>2. u = [u EXCEPT !.state = u.state] /\ u.state \in States
    BY <1>2, SameState
  <2>3. Saves(w, [u EXCEPT !.state = u.state], "idle")
    BY <2>1, <2>2
  <2> QED BY <1>1, <1>2, <1>5, <2>1, <2>2, <2>3, LoopSaves DEF ghosts
<1>6. CASE act[w].pc = "refuted"
  <2> DEFINE t == [u EXCEPT !.state = "reopened"]
             new == [t EXCEPT !.chronic = TRUE]
  <2>1. t \in Rows /\ t.state = "reopened" /\ t.fix = u.fix
    BY <1>1, <1>2, NewState
  <2>2. new \in Rows /\ new.state = t.state /\ new.chronic = TRUE /\ new.fix = t.fix
    <3> HIDE DEF t
    <3> QED BY <2>1, NewChronic
  <2>3. new = [u EXCEPT !.state = "reopened", !.chronic = TRUE]
    OBVIOUS
  <2>4. Saves(w, new, "idle") /\ blocked' = (blocked \/ ~AnsweringHuman)
    BY <1>6, <2>3 DEF WatchSaves
  <2> HIDE DEF new, t
  <2>5. new.fix <= merges
    BY <1>2, <2>1, <2>2 DEF Consistent
  <2>6. SettlesRightly(w, new, "idle")
    BY <1>6, <2>1, <2>2 DEF SettlesRightly, Settled
  <2>7. blocked' \in BOOLEAN /\ (blocked' => blocked \/ (new.chronic /\ ~AnsweringHuman))
    BY <1>3, <2>2, <2>4
  <2>8. UNCHANGED <<open, proposed>>
    BY <1>1 DEF forgeVars
  <2> QED BY <1>1, <1>2, <1>3, <1>6, <2>1, <2>2, <2>4, <2>5, <2>6, <2>7, <2>8, SaveKeeps
<1> QED BY <1>2, <1>4, <1>5, <1>6

-------------------------------------------------------------------------------
(* Failures                                                                    *)

\* A pass of a loop fails.
LEMMA PassFailsKeeps == ASSUME IInv, PassFails PROVE IInv'
<1>1. PICK a \in Loops :
        /\ act[a].pc \in {"judge", "confirm", "refute", "close", "unshut"}
        /\ \/ act[a].pc # "judge" /\ Calls(a, act[a].pc \in {"refute", "unshut"})
           \/ UNCHANGED <<open, lost>>
        /\ Turns(a, Idle) /\ mishaps < MaxMishaps /\ mishaps' = mishaps + 1
        /\ UNCHANGED <<row, proposed, worldVars, inbox, arrived, latest, ghosts>>
  BY DEF PassFails, Rests, Turns, Mishap, mail
<1>2. a \in Actors
  BY DEF Actors
<1>3. UNCHANGED <<merges, deploys, events, now, blocked, judged>> /\ Judged' = Judged
  BY <1>1 DEF worldVars, Judged, ghosts
<1>4. EarnedInv'
  BY <1>3 DEF IInv, EarnedInv
<1>5. /\ arrived \in 0 .. MaxInbox /\ mishaps' \in 0 .. MaxMishaps /\ inbox \subseteq Deliveries
      /\ merges \in Nat /\ proposed \in BOOLEAN /\ blocked \in BOOLEAN /\ lost \subseteq Lossy
  BY <1>1, IncidentsAssumption DEF IInv, TypeOK, Lossy
<1>6. CASE act[a].pc # "judge" /\ Calls(a, act[a].pc \in {"refute", "unshut"})
  <2>1. (act[a].pc \in {"refute", "unshut"}) \in BOOLEAN
    OBVIOUS
  <2>2. act[a].pc \in {"refute", "unshut"} => act[a].pc \in {"unshut", "refute"}
    OBVIOUS
  <2> QED BY <1>1, <1>2, <1>5, <1>6, <2>1, <2>2, IdleIsConsistent, CallKeeps
<1>7. CASE UNCHANGED <<open, lost>>
  BY <1>1, <1>2, <1>3, <1>4, <1>5, <1>7, IdleIsConsistent, MoveKeeps
<1> QED BY <1>1, <1>6, <1>7

\* A restart: what was being handled is in the inbox again.
LEMMA CrashKeeps == ASSUME IInv, Crash PROVE IInv'
<1>1. /\ UNCHANGED <<row, lost, open, proposed, merges, deploys, events, now, arrived, latest, blocked, judged>>
      /\ act' = [a \in Actors |-> Idle] /\ mishaps < MaxMishaps /\ mishaps' = mishaps + 1
      /\ inbox' = inbox \cup ({act[w].cmd : w \in Workers} \ {"none"})
  BY DEF Crash, rowVars, forgeVars, worldVars, ghosts, Mishap
<1>2. \A w \in Workers : /\ w \in Actors /\ Consistent(w, act[w], merges, Judged)
                         /\ act[w].cmd \in Deliveries \cup {"none"}
  BY Typed DEF Actors, IInv, ActorsInv
<1>3. inbox \subseteq inbox' /\ inbox' \subseteq Deliveries
  BY <1>1, <1>2 DEF IInv, TypeOK
<1>4. \A w \in Workers : act[w].pc \in {"drop", "shut"} => "drop" \in inbox'
  BY <1>1, <1>2 DEF Consistent
<1>5. \A a \in Actors : act'[a] = Idle /\ act'[a].pc = "idle"
  BY <1>1, IdleIsConsistent
<1>6. Judged' = Judged /\ merges \in Nat
  BY <1>1, IncidentsAssumption DEF Judged, IInv, TypeOK
<1>7. TypeOK'
  <2>1. act' \in [Actors -> Acts]
    BY <1>1, IdleIsConsistent
  <2>2. \A w \in Workers : act'[w].pc = "idle"
    BY <1>5 DEF Actors
  <2>3. mishaps' \in 0 .. MaxMishaps
    BY <1>1, IncidentsAssumption DEF IInv, TypeOK
  <2> QED BY <1>1, <1>3, <2>1, <2>2, <2>3 DEF IInv, TypeOK, Acts
<1>8. ActorsInv'
  <2>1. \A a \in Actors : Consistent(a, act'[a], merges, Judged)
    BY <1>5, <1>6, IdleIsConsistent
  <2> QED BY <1>1, <1>6, <2>1 DEF IInv, ActorsInv
<1>9. EarnedInv'
  BY <1>1 DEF IInv, EarnedInv
<1>10. MarkInv'
  BY <1>1, <1>5 DEF IInv, MarkInv, AnsweringHuman, Actors
<1>11. DropInv'
  <2>1. ~HeldAsDropped'
    BY <1>5 DEF HeldAsDropped
  <2>2. Dropping => Dropping'
    BY <1>1, <1>3, <1>4 DEF Dropping
  <2> QED BY <1>1, <2>1, <2>2 DEF IInv, DropInv
<1>12. ShutInv'
  <2>1. Shutting => Shutting'
    BY <1>3, <1>4 DEF Shutting
  <2>2. "sweep" \in Actors /\ "watch" \in Actors
    BY DEF Actors, Loops
  <2> QED BY <1>1, <1>5, <2>1, <2>2 DEF IInv, ShutInv
<1> QED BY <1>7, <1>8, <1>9, <1>10, <1>11, <1>12 DEF IInv

-------------------------------------------------------------------------------
(* The theorems                                                                *)

\* It holds at the start.
LEMMA InitIInv == Init => IInv
<1> SUFFICES ASSUME Init PROVE IInv
  OBVIOUS
<1>1. /\ row = NewRow /\ open = TRUE /\ proposed = FALSE /\ merges = 0 /\ deploys = <<>>
      /\ events = {1} /\ now = 1 /\ act = [a \in Actors |-> Idle] /\ inbox = {} /\ arrived = 0
      /\ latest = "none" /\ blocked = FALSE /\ lost = {} /\ mishaps = 0
      /\ judged = [to |-> 0, since |-> 0, fix |-> 0, deploys |-> 0]
  BY DEF Init
<1>2. NewRow \in Rows /\ NewRow.state = "queued" /\ NewRow.fix = 0
  BY IncidentsAssumption DEF NewRow, Rows, States, Times
<1>3. \A a \in Actors : act[a] = Idle /\ act[a].pc = "idle"
  BY <1>1, IdleIsConsistent
<1>4. {"sweep", "watch"} \subseteq Actors /\ Workers \subseteq Actors
  BY DEF Actors, Loops
<1>5. TypeOK
  <2>1. act \in [Actors -> Acts]
    BY <1>1, IdleIsConsistent
  <2>2. deploys \in Seq([at : Times, fix : 0 .. merges])
    BY <1>1
  <2>3. 1 \in Times /\ 0 \in 0 .. MaxMerges /\ 0 \in 0 .. MaxInbox /\ 0 \in 0 .. MaxMishaps
    BY IncidentsAssumption DEF Times
  <2>4. merges \in 0 .. MaxMerges /\ now \in Times /\ events \subseteq 1 .. now
        /\ arrived \in 0 .. MaxInbox /\ mishaps \in 0 .. MaxMishaps
    BY <1>1, <2>3
  <2>5. row \in Rows /\ row.fix <= merges /\ row.state # "verifying"
    BY <1>1, <1>2
  <2>6. \A w \in Workers : act[w].pc = "idle"
    BY <1>3, <1>4
  <2> QED BY <1>1, <2>1, <2>2, <2>4, <2>5, <2>6 DEF TypeOK, Acts
<1>6. ActorsInv
  <2>1. \A a \in Actors : Consistent(a, act[a], merges, Judged)
    BY <1>1, <1>3, IdleIsConsistent
  <2> QED BY <1>1, <1>2, <2>1 DEF ActorsInv
<1>7. EarnedInv
  <2>1. judged.to = 0 /\ judged.deploys = 0 /\ Len(deploys) = 0
    BY <1>1
  <2>2. events \cap (judged.to - Window .. judged.to - 1) = {}
    BY <1>1, <2>1, IncidentsAssumption
  <2> QED BY <1>1, <2>1, <2>2 DEF EarnedInv
<1>8. MarkInv /\ DropInv
  BY <1>1 DEF MarkInv, DropInv
<1>9. ShutInv
  BY <1>1, <1>2, <1>3, <1>4 DEF ShutInv, Settled
<1> QED BY <1>5, <1>6, <1>7, <1>8, <1>9 DEF IInv

\* Every step keeps it.
LEMMA NextIInv == IInv /\ [Next]_vars => IInv'
<1> SUFFICES ASSUME IInv, [Next]_vars PROVE IInv'
  OBVIOUS
<1>1. CASE Work("rca") \/ \E a \in Workers : Work(a)
  <2>1. PICK a \in Workers \cup {"rca"} : Work(a)
    BY <1>1
  <2>2. a \in Actors
    BY DEF Actors, Loops
  <2> QED BY <2>1, <2>2, JudgesKeeps, FixBeginsKeeps, FixReservesKeeps, FixEndsKeeps DEF Work
<1>2. CASE \E w \in Workers : Deliver(w)
  BY <1>2, HandlesKeeps, DropsKeeps, ReopensKeeps, CallsForgeKeeps, ArmsKeeps, RepliesKeeps,
     HandlingFailsKeeps DEF Deliver
<1>3. CASE Watch
  BY <1>3, WatchPicksKeeps, WatchCallsKeeps, WatchSavesKeeps DEF Watch
<1>4. CASE Sweep
  BY <1>4, SweepPicksKeeps, SweepClosesKeeps, SweepSavesKeeps DEF Sweep
<1>5. CASE Dispatch
  BY <1>5, ReturnsKeeps, ReopensTicketKeeps, CommentsKeeps DEF Dispatch
<1>6. CASE RcaPicks \/ Occurs \/ PassFails
  BY <1>6, RcaPicksKeeps, OccursKeeps, PassFailsKeeps
<1>7. CASE Commanded \/ Merged \/ Tick \/ Deploys \/ Crash
  BY <1>7, CommandedKeeps, MergedKeeps, TickKeeps, DeploysKeeps, CrashKeeps
<1>8. CASE UNCHANGED vars
  <2>1. UNCHANGED <<row, lost, open, proposed, merges, deploys, events, now, act, inbox, arrived,
                    latest, blocked, judged, mishaps>>
    BY <1>8 DEF vars, rowVars, forgeVars, worldVars, mail, ghosts
  <2> QED BY <2>1 DEF IInv, TypeOK, ActorsInv, EarnedInv, MarkInv, DropInv, ShutInv, Judged,
                      AnsweringHuman, HeldAsDropped, Dropping, Shutting
<1> QED BY <1>1, <1>2, <1>3, <1>4, <1>5, <1>6, <1>7, <1>8 DEF Next

\* The invariant holds in every state of every behaviour.
THEOREM Invariance == Spec => []IInv
  BY InitIInv, NextIInv, PTL DEF Spec

\* Every variable keeps its type, and with it: a thread that handles a delivery knows
\* which, the row names no commit that was not merged, and a window has a start.
THEOREM TypeCorrect == Spec => []TypeOK
<1>1. IInv => TypeOK
  BY DEF IInv
<1> QED BY <1>1, Invariance, PTL

\* WF-08: whatever else saves the row, and whatever fails, a confirmed fix was silent for
\* a whole window, after a deploy of its commit where deploys are on record.
THEOREM Earned == Spec => []ConfirmedIsEarned
<1>1. IInv => ConfirmedIsEarned
  BY DEF IInv, EarnedInv, ConfirmedIsEarned
<1> QED BY <1>1, Invariance, PTL

\* And it was judged at all: no writer makes an item verified that the watcher did not.
THEOREM JudgedFirst == Spec => []VerifiedWasJudged
<1>1. IInv => VerifiedWasJudged
  BY DEF IInv, ActorsInv, VerifiedWasJudged
<1> QED BY <1>1, Invariance, PTL

\* A drop that was the last command stays, through failures and restarts, unless an older
\* copy of the row was saved over it or someone held the item as dropped.
THEOREM DropStays == Spec => []DropKept
<1>1. IInv => DropKept
  BY DEF IInv, DropInv, DropKept, Dropping, Resting, Actors
<1> QED BY <1>1, Invariance, PTL

\* A settled item at rest has a closed ticket, unless two actors crossed each other: no
\* failed call, retry or restart leaves it open.
THEOREM SettledShut == Spec => []SettledIsShut
<1>1. IInv => SettledIsShut
  BY DEF IInv, ShutInv, SettledIsShut, Shutting, Resting, Actors
<1> QED BY <1>1, Invariance, PTL

\* A thread other than the one that moves stays where it is.
LEMMA OthersStay ==
    ASSUME IInv, NEW a \in Actors, NEW b \in Actors, a # b, NEW pc, NEW new,
           Reads(a, pc) \/ Rests(a) \/ Goes(a, pc) \/ Saves(a, new, pc)
    PROVE  act'[b] = act[b]
<1>1. act \in [Actors -> Acts]
  BY Typed DEF IInv
<1> QED BY <1>1 DEF Reads, Rests, Goes, Saves

\* Only the executor takes the loop's request up.
LEMMA OnlyByFixBegins ==
    ASSUME IInv, Next, act["rca"].pc = "auto", act'["rca"].pc = "reserve"
    PROVE  FixBegins("rca")
<1> DEFINE r == "rca"
<1>1. /\ r \in Actors /\ r \notin Workers /\ act \in [Actors -> Acts] /\ act'[r] # act[r]
      /\ act'[r] # Idle
  BY IncidentsAssumption, Typed, IdleIsConsistent DEF Actors, Loops, IInv
<1>2. {"watch", "sweep", "ingest"} \subseteq Actors
  BY DEF Actors, Loops
<1>3. ~(\E a \in Workers : Work(a) \/ Deliver(a))
  <2> SUFFICES ASSUME NEW a \in Workers, Work(a) \/ Deliver(a) PROVE FALSE
    OBVIOUS
  <2>1. a \in Actors /\ a # r
    BY <1>1 DEF Actors
  <2>2. CASE Work(a)
    BY <1>1, <2>1, <2>2, OthersStay DEF Work, Judges, FixBegins, FixReserves, FixEnds
  <2>3. CASE Handles(a)
    BY <1>1, <2>1, <2>3 DEF Handles
  <2>4. CASE Drops(a) \/ Reopens(a) \/ CallsForge(a) \/ Arms(a) \/ Replies(a) \/ HandlingFails(a)
    BY <1>1, <2>1, <2>4, OthersStay DEF Drops, Reopens, CallsForge, Arms, Replies, HandlingFails
  <2> QED BY <2>2, <2>3, <2>4 DEF Deliver
<1>4. ~(Watch \/ Sweep \/ Dispatch)
  <2>1. ~Watch
    BY <1>1, <1>2, OthersStay DEF Watch, WatchPicks, WatchCalls, WatchSaves
  <2>2. ~Sweep
    BY <1>1, <1>2, OthersStay DEF Sweep, SweepPicks, SweepCloses, SweepSaves
  <2>3. ~Dispatch
    BY <1>1, <1>2, OthersStay DEF Dispatch, Returns, ReopensTicket, Comments
  <2> QED BY <2>1, <2>2, <2>3
<1>5. ~(RcaPicks \/ Occurs \/ PassFails)
  <2>1. ~RcaPicks
    BY DEF RcaPicks, Free
  <2>2. ~Occurs
    BY <1>1, <1>2 DEF Occurs
  <2>3. ~PassFails
    BY <1>1, OthersStay DEF PassFails, Actors, Rests
  <2> QED BY <2>1, <2>2, <2>3
<1>6. ~(Commanded \/ Merged \/ Tick \/ Deploys \/ Crash)
  <2>1. ~(Commanded \/ Merged \/ Tick \/ Deploys)
    BY <1>1 DEF Commanded, Merged, Tick, Deploys
  <2>2. ~Crash
    BY <1>1 DEF Crash
  <2> QED BY <2>1, <2>2
<1>7. Work(r)
  BY <1>3, <1>4, <1>5, <1>6 DEF Next
<1>8. ~Judges(r) /\ ~FixReserves(r) /\ ~FixEnds(r)
  BY DEF Judges, FixReserves, FixEnds
<1> QED BY <1>7, <1>8 DEF Work

\* WF-08: after an insufficient verdict no fix starts on its own until a human asked for
\* one, or had one under way, unless an older copy of the row erased the mark.
THEOREM Cleared == Spec => AutoFixIsCleared
<1>1. ASSUME IInv, [Next]_vars
      PROVE  [act["rca"].pc = "auto" /\ act'["rca"].pc = "reserve" /\ "chronic" \notin lost
                 => ~blocked]_vars
  <2> SUFFICES ASSUME Next, act["rca"].pc = "auto", act'["rca"].pc = "reserve",
                      "chronic" \notin lost, blocked
               PROVE  FALSE
    BY <1>1 DEF vars
  <2>1. FixBegins("rca")
    BY <1>1, OnlyByFixBegins
  <2>2. "rca" \in Actors /\ "rca" \notin Workers /\ Idle.pc = "idle" /\ act \in [Actors -> Acts]
    BY <1>1, IncidentsAssumption, IdleIsConsistent, Typed DEF Actors, Loops, IInv
  <2>3. MayFix("rca")
    BY <2>1, <2>2 DEF FixBegins, Rests
  <2>4. row.chronic
    BY <1>1 DEF IInv, MarkInv
  <2> QED BY <2>2, <2>3, <2>4 DEF MayFix, Asked
<1> QED BY <1>1, Invariance, PTL DEF Spec, AutoFixIsCleared
===============================================================================
