--------------------------- MODULE ConnectRelayProofs ---------------------------
(* Pairing, mailbox and relay for any deliveries, any number of pairings and of *)
(* requests the broker serves at a time, any limits, and any number of mishaps. *)
EXTENDS ConnectRelay, TLAPS, SequenceTheorems, FiniteSetTheorems

\* What is being acknowledged has been saved.
HeadIsSaved == recv.pc = "ack" => Head(recv.rest) \in saved

\* Requests that ask GitHub, and those that ask or hold its answer.
Asking(s, p) == jobs[s].p = p /\ jobs[s].pc = "ask"
Polling(s, p) == jobs[s].p = p /\ jobs[s].pc \in {"ask", "list"}

\* A pairing is polled by one request at a time, which goes on if it got the answer.
PolledOnce(p) ==
    /\ \A s \in Slots : Polling(s, p) => ~(conn[p].state = "pending" /\ conn[p].due)
    /\ \A s, t \in Slots : Polling(s, p) /\ Polling(t, p) => s = t
    /\ \A s \in Slots : Asking(s, p) => p \notin used /\ (conn[p].state = "revoked" => p \in ended)
    /\ conn[p].state = "pending" /\ p \in used => \E s \in Slots : Polling(s, p)
    /\ conn[p].state = "revoked" /\ p \in used => p \in ended

\* One that is not has had a poll that failed or was too slow.
PollsAreSpent == \A p \in Pairings \ spent : PolledOnce(p)

\* Once the removal of the App has arrived, what is connected is still to be revoked, or
\* was being selected at that time.
RemovalReaches ==
    removed \/ relay.d = "removal" =>
        /\ ~installed
        /\ \A s \in Slots : jobs[s].pc = "bind" => jobs[s].p \in crossed
        /\ \A p \in Pairings :
              conn[p].state = "connected" => p \in crossed \/ (~removed /\ p \in relay.rest)

IInv ==
    /\ TypeOK
    /\ AckedIsSaved /\ HeadIsSaved
    /\ PollsAreSpent
    /\ RemovalReaches

-------------------------------------------------------------------------------
(* Mailboxes                                                                   *)

\* The assumptions on single constants.
LEMMA Bounds ==
    /\ MaxPairings \in Nat \ {0} /\ BoxLimit \in Nat \ {0} /\ Batch \in Nat \ {0}
    /\ MaxRelays \in Nat /\ MaxMishaps \in Nat
    /\ "none" \notin Deliveries /\ "removal" \notin Deliveries
BY ConnectAssumption

\* Taking one element out of a sequence without repetitions.
LEMMA RemoveAtProperties ==
    ASSUME NEW S, NEW q \in Seq(S), IsInjective(q), NEW i \in DOMAIN q
    PROVE  LET r == RemoveAt(q, i) IN
           /\ r \in Seq(S) /\ Len(r) = Len(q) - 1
           /\ IsInjective(r) /\ ToSet(r) = ToSet(q) \ {q[i]}
<1> DEFINE r == RemoveAt(q, i)
           a == SubSeq(q, 1, i - 1)
           b == SubSeq(q, i + 1, Len(q))
<1>1. Len(q) \in Nat /\ i \in 1 .. Len(q) /\ DOMAIN q = 1 .. Len(q) /\ i \in Int
      /\ \A j \in 1 .. Len(q) : q[j] \in S
  BY LenProperties, ElementOfSeq
<1>2. a \in Seq(S) /\ Len(a) = i - 1 /\ \A j \in 1 .. i - 1 : a[j] = q[j]
  <2>1. \A j \in 1 .. i - 1 : q[j] \in S
    BY <1>1
  <2>2. i - 1 \in Int /\ 1 \in Int /\ 1 .. i - 1 - 1 + 1 = 1 .. i - 1
    BY <1>1
  <2>3. /\ a \in Seq(S)
        /\ Len(a) = IF 1 <= i - 1 THEN i - 1 - 1 + 1 ELSE 0
        /\ \A j \in 1 .. i - 1 - 1 + 1 : a[j] = q[1 + j - 1]
    BY <2>1, <2>2, SubSeqProperties
  <2>4. \A j \in 1 .. i - 1 : 1 + j - 1 = j
    BY <1>1
  <2> QED
    BY <1>1, <2>2, <2>3, <2>4
<1>3. b \in Seq(S) /\ Len(b) = Len(q) - i /\ \A j \in 1 .. Len(q) - i : b[j] = q[i + j]
  <2>1. \A j \in i + 1 .. Len(q) : q[j] \in S
    BY <1>1
  <2>2. i + 1 \in Int /\ Len(q) \in Int /\ Len(q) - (i + 1) + 1 = Len(q) - i
    BY <1>1
  <2>3. /\ b \in Seq(S)
        /\ Len(b) = IF i + 1 <= Len(q) THEN Len(q) - (i + 1) + 1 ELSE 0
        /\ \A j \in 1 .. Len(q) - (i + 1) + 1 : b[j] = q[i + 1 + j - 1]
    BY <2>1, <2>2, SubSeqProperties
  <2>4. \A j \in 1 .. Len(q) - i : i + 1 + j - 1 = i + j
    BY <1>1
  <2> QED
    BY <1>1, <2>2, <2>3, <2>4
<1>4. /\ r \in Seq(S) /\ Len(r) = Len(q) - 1
      /\ \A j \in 1 .. Len(q) - 1 : r[j] = IF j < i THEN q[j] ELSE q[j + 1]
  <2>1. r = a \o b
    BY DEF RemoveAt
  <2> HIDE DEF a, b, r
  <2>2. /\ r \in Seq(S) /\ Len(r) = Len(a) + Len(b)
        /\ \A j \in 1 .. Len(a) + Len(b) : r[j] = IF j <= Len(a) THEN a[j] ELSE b[j - Len(a)]
    BY <1>2, <1>3, <2>1, ConcatProperties
  <2>3. Len(a) + Len(b) = Len(q) - 1
    BY <1>1, <1>2, <1>3
  <2>4. ASSUME NEW j \in 1 .. Len(q) - 1
        PROVE  r[j] = IF j < i THEN q[j] ELSE q[j + 1]
    <3>1. CASE j < i
      <4>1. j <= Len(a) /\ j \in 1 .. i - 1
        BY <1>1, <1>2, <3>1
      <4> QED
        BY <1>2, <2>2, <2>3, <3>1, <4>1
    <3>2. CASE ~(j < i)
      <4>1. ~(j <= Len(a)) /\ j - Len(a) \in 1 .. Len(q) - i /\ i + (j - Len(a)) = j + 1
        BY <1>1, <1>2, <3>2
      <4>2. r[j] = b[j - Len(a)] /\ b[j - Len(a)] = q[i + (j - Len(a))]
        BY <1>3, <2>2, <2>3, <4>1
      <4> QED
        BY <3>2, <4>1, <4>2
    <3> QED
      BY <3>1, <3>2
  <2> QED
    BY <2>2, <2>3, <2>4
<1> HIDE DEF r, a, b
<1>5. DOMAIN r = 1 .. Len(q) - 1
  BY <1>4, LenProperties
<1>6. IsInjective(r)
  <2>1. SUFFICES ASSUME NEW j \in 1 .. Len(q) - 1, NEW k \in 1 .. Len(q) - 1, r[j] = r[k]
                 PROVE  j = k
    BY <1>5 DEF IsInjective
  <2>2. PICK x \in 1 .. Len(q) : x = (IF j < i THEN j ELSE j + 1) /\ r[j] = q[x]
    BY <1>1, <1>4
  <2>3. PICK y \in 1 .. Len(q) : y = (IF k < i THEN k ELSE k + 1) /\ r[k] = q[y]
    BY <1>1, <1>4
  <2>4. x = y
    BY <1>1, <2>1, <2>2, <2>3 DEF IsInjective
  <2> QED
    BY <1>1, <2>2, <2>3, <2>4
<1>7. ToSet(r) = ToSet(q) \ {q[i]}
  <2>1. ASSUME NEW j \in 1 .. Len(q) - 1 PROVE r[j] \in ToSet(q) \ {q[i]}
    <3>1. PICK x \in 1 .. Len(q) : x = (IF j < i THEN j ELSE j + 1) /\ r[j] = q[x]
      BY <1>1, <1>4
    <3>2. x # i
      BY <1>1, <3>1
    <3> QED
      BY <1>1, <3>1, <3>2 DEF IsInjective, ToSet
  <2>2. ASSUME NEW x \in 1 .. Len(q), q[x] # q[i] PROVE \E j \in 1 .. Len(q) - 1 : r[j] = q[x]
    <3>1. CASE x < i
      <4>1. x \in 1 .. Len(q) - 1
        BY <1>1, <3>1
      <4> QED
        BY <1>4, <3>1, <4>1
    <3>2. CASE ~(x < i)
      <4>1. x - 1 \in 1 .. Len(q) - 1 /\ ~(x - 1 < i) /\ x - 1 + 1 = x
        BY <1>1, <2>2, <3>2
      <4> QED
        BY <1>4, <4>1
    <3> QED
      BY <3>1, <3>2
  <2> QED
    BY <1>1, <1>5, <2>1, <2>2 DEF ToSet
<1> QED
  BY <1>4, <1>6, <1>7 DEF r

\* A mailbox without one delivery, and with one more.
LEMMA WithoutTypes ==
    ASSUME TypeOK, NEW p \in Pairings, NEW d
    PROVE  /\ Without(p, d) \in Seq(Deliveries) /\ IsInjective(Without(p, d))
           /\ Len(Without(p, d)) <= BoxLimit
           /\ ToSet(Without(p, d)) = Waiting(p) \ {d}
<1>1. /\ box[p] \in Seq(Deliveries) /\ IsInjective(box[p]) /\ Len(box[p]) <= BoxLimit
      /\ Len(box[p]) \in Nat
  BY DEF TypeOK
<1>2. CASE d \in Waiting(p)
  <2> DEFINE i == CHOOSE j \in DOMAIN box[p] : box[p][j] = d
  <2>1. \E j \in DOMAIN box[p] : box[p][j] = d
    BY <1>2 DEF Waiting, ToSet
  <2>2. i \in DOMAIN box[p] /\ box[p][i] = d
    BY <2>1
  <2>3. Without(p, d) = RemoveAt(box[p], i)
    BY <1>2 DEF Without
  <2> HIDE DEF i
  <2> QED
    BY <1>1, <2>2, <2>3, RemoveAtProperties, Bounds DEF Waiting
<1>3. CASE d \notin Waiting(p)
  BY <1>1, <1>3 DEF Without, Waiting
<1> QED
  BY <1>2, <1>3

\* One more delivery in a mailbox that has not had it and is not full.
LEMMA AppendTypes ==
    ASSUME TypeOK, NEW p \in Pairings, NEW d \in Deliveries, ~Known(p, d), ~Full(p)
    PROVE  LET q == Append(box[p], d) IN
           /\ q \in Seq(Deliveries) /\ IsInjective(q) /\ Len(q) <= BoxLimit
           /\ ToSet(q) = Waiting(p) \cup {d}
<1> DEFINE q == Append(box[p], d)
<1>1. /\ box[p] \in Seq(Deliveries) /\ IsInjective(box[p]) /\ Len(box[p]) \in Nat
      /\ DOMAIN box[p] = 1 .. Len(box[p]) /\ Len(box[p]) < BoxLimit
  BY LenProperties, Bounds DEF TypeOK, Full
<1>2. /\ q \in Seq(Deliveries) /\ Len(q) = Len(box[p]) + 1 /\ DOMAIN q = 1 .. Len(box[p]) + 1
      /\ q[Len(box[p]) + 1] = d /\ \A i \in 1 .. Len(box[p]) : q[i] = box[p][i]
  BY <1>1
<1> HIDE DEF q
<1>3. \A i \in 1 .. Len(box[p]) : box[p][i] # d
  BY <1>1 DEF Known, Waiting, ToSet
<1>4. IsInjective(q)
  BY <1>1, <1>2, <1>3 DEF IsInjective
<1>5. ToSet(q) = Waiting(p) \cup {d}
  <2>1. \A i \in 1 .. Len(box[p]) + 1 : i = Len(box[p]) + 1 \/ i \in 1 .. Len(box[p])
    BY <1>1
  <2>2. Len(box[p]) + 1 \in 1 .. Len(box[p]) + 1 /\ 1 .. Len(box[p]) \subseteq 1 .. Len(box[p]) + 1
    BY <1>1
  <2> QED
    BY <1>1, <1>2, <2>1, <2>2 DEF Waiting, ToSet
<1> QED
  BY <1>1, <1>2, <1>4, <1>5, Bounds DEF q

\* A set of naturals has a least element, and the relay takes it.
LEMMA Least == ASSUME NEW T \in SUBSET Nat, T # {} PROVE \E x \in T : \A y \in T : x <= y
<1> DEFINE I == {1 .. x : x \in T}
           R == StrictSubsetOrdering(Nat)
<1>1. I \subseteq FiniteSubsetsOf(Nat) /\ I # {}
  <2>1. \A x \in T : 1 .. x \in SUBSET Nat /\ IsFiniteSet(1 .. x)
    BY FS_Interval
  <2> QED
    BY <2>1 DEF FiniteSubsetsOf
<1>2. IsWellFoundedOn(R, FiniteSubsetsOf(Nat))
  BY FS_StrictSubsetOrderingWellFounded
<1>3. \E A \in I : \A B \in I : ~(<<B, A>> \in R)
  <2> HIDE DEF I, R
  <2> QED
    BY <1>1, <1>2, WFMin
<1>4. PICK x \in T : \A y \in T : ~(<<1 .. y, 1 .. x>> \in R)
  BY <1>3
<1>5. ASSUME NEW y \in T, y < x PROVE FALSE
  <2>1. /\ 1 .. y \subseteq 1 .. x /\ x \in 1 .. x /\ x \notin 1 .. y
        /\ 1 .. x \in SUBSET Nat /\ 1 .. y \in SUBSET Nat
    BY <1>5
  <2>2. <<1 .. y, 1 .. x>> \in R
    BY <2>1 DEF StrictSubsetOrdering
  <2> QED
    BY <1>4, <2>2
<1> QED
  BY <1>5

\* The relay serves one of the connections that are left.
LEMMA FirstIsThere ==
    ASSUME NEW rest \in SUBSET Pairings, rest # {}
    PROVE  First(rest) \in rest
<1>1. rest \in SUBSET Nat
  BY Bounds DEF Pairings
<1>2. \E p \in rest : \A q \in rest : p <= q
  BY <1>1, Least
<1> QED
  BY <1>2 DEF First

-------------------------------------------------------------------------------
(* Types                                                                       *)

\* The request that is served in a slot, and none.
LEMMA SlotTypes ==
    ASSUME TypeOK, NEW s \in Slots
    PROVE  /\ jobs[s] \in Jobs /\ jobs[s].p \in Pairings \cup {0} /\ jobs[s].p <= made
           /\ jobs[s].pc \in {"idle", "ask", "list", "bind"} /\ jobs[s].live \in BOOLEAN
           /\ jobs[s].pc # "idle" => jobs[s].p \in Pairings /\ jobs[s].p \in 1 .. made
<1>1. jobs[s] \in Jobs /\ jobs[s].p <= made /\ (jobs[s].pc # "idle" => jobs[s].p # 0) /\ made \in Nat
  BY Bounds DEF TypeOK
<1>2. /\ jobs[s].p \in Pairings \cup {0}
      /\ jobs[s].pc \in {"idle", "ask", "list", "bind"} /\ jobs[s].live \in BOOLEAN
  BY <1>1 DEF Jobs
<1> QED
  BY <1>1, <1>2, Bounds DEF Pairings

\* A free slot and an idle relay.
LEMMA NobodyTypes ==
    /\ Nobody \in Jobs /\ Nobody.p = 0 /\ Nobody.pc = "idle" /\ Nobody.live = FALSE
    /\ Quiet \in Relays /\ Quiet.d = "none" /\ Quiet.rest = {}
BY DEF Nobody, Jobs, Quiet, Relays

\* The binding of the deployment.
LEMMA BindingTypes ==
    ASSUME TypeOK
    PROVE  /\ me \in Bindings /\ me.p \in Pairings \cup {0} /\ me.p <= made /\ made \in Nat
           /\ me.state \in ConnStates \ {"revoked"}
           /\ me.p # 0 => me.p \in Pairings /\ me.p \in 1 .. made
           /\ me.state # "none" => me.p # 0
<1>1. me \in Bindings /\ me.p <= made /\ made \in Nat
  BY Bounds DEF TypeOK
<1>2. /\ me.p \in Pairings \cup {0} /\ me.state \in ConnStates \ {"revoked"}
      /\ me.state # "none" => me.p # 0
  BY <1>1, Bounds DEF Bindings, ConnStates, Pairings
<1> QED
  BY <1>1, <1>2, Bounds DEF Pairings

\* A connection is revoked with its mail.
LEMMA RevokeTypes ==
    ASSUME TypeOK, NEW p \in Pairings, p <= made, Revoke(p)
    PROVE  /\ conn' \in [Pairings -> Conns] /\ conn'[p].state = "revoked"
           /\ \A q \in Pairings \ {p} : conn'[q] = conn[q]
           /\ \A q \in Pairings : q > made => conn'[q].state = "none"
           /\ acked' \in [Pairings -> SUBSET Deliveries] /\ box' \in [Pairings -> Seq(Deliveries)]
           /\ \A q \in Pairings :
                 Waiting(q)' \cap acked'[q] = {} /\ IsInjective(box'[q]) /\ Len(box'[q]) <= BoxLimit
           /\ \A q \in Pairings : acked'[q] \subseteq acked[q]
<1>1. conn \in [Pairings -> Conns] /\ conn[p] \in Conns
  BY DEF TypeOK
<1>2. [conn[p] EXCEPT !.state = "revoked"] \in Conns
      /\ [conn[p] EXCEPT !.state = "revoked"].state = "revoked"
  BY <1>1 DEF Conns, ConnStates
<1>3. conn' = [conn EXCEPT ![p] = [conn[p] EXCEPT !.state = "revoked"]]
  BY DEF Revoke
<1>4. conn' \in [Pairings -> Conns] /\ conn'[p].state = "revoked"
      /\ \A q \in Pairings \ {p} : conn'[q] = conn[q]
  BY <1>1, <1>2, <1>3
<1>5. <<>> \in Seq(Deliveries) /\ IsInjective(<<>>) /\ Len(<<>>) <= BoxLimit /\ ToSet(<<>>) = {}
  BY Bounds DEF IsInjective, ToSet
<1>6. /\ box \in [Pairings -> Seq(Deliveries)] /\ acked \in [Pairings -> SUBSET Deliveries]
      /\ box' = [box EXCEPT ![p] = <<>>] /\ acked' = [acked EXCEPT ![p] = {}]
  BY DEF Revoke, TypeOK
<1>7. \A q \in Pairings :
         Waiting(q)' \cap acked'[q] = {} /\ IsInjective(box'[q]) /\ Len(box'[q]) <= BoxLimit
  BY <1>5, <1>6 DEF TypeOK, Waiting
<1>8. \A q \in Pairings : q > made => q # p
  BY BindingTypes, Bounds DEF Pairings
<1> QED
  BY <1>4, <1>5, <1>6, <1>7, <1>8 DEF TypeOK

\* A guarded write leaves the state it has found, or makes the one step it is for.
LEMMA WriteTypes ==
    ASSUME TypeOK, NEW p \in Pairings, NEW from \in ConnStates \ {"none"},
           NEW to \in ConnStates, Write(p, from, to)
    PROVE  /\ conn' \in [Pairings -> Conns]
           /\ conn[p].state = from => conn'[p].state = to /\ ~conn'[p].due
           /\ conn[p].state # from => conn'[p] = conn[p]
           /\ \A q \in Pairings \ {p} : conn'[q] = conn[q]
           /\ \A q \in Pairings : q > made => conn'[q].state = "none"
<1>1. conn \in [Pairings -> Conns] /\ conn[p] \in Conns
  BY DEF TypeOK
<1>2. CASE conn[p].state = from
  <2> DEFINE c == [conn[p] EXCEPT !.state = to, !.due = FALSE]
  <2>1. c \in Conns /\ c.state = to /\ c.due = FALSE
    BY <1>1 DEF Conns
  <2>2. conn' = [conn EXCEPT ![p] = c]
    BY <1>2 DEF Write
  <2> HIDE DEF c
  <2> QED
    BY <1>1, <1>2, <2>1, <2>2 DEF TypeOK
<1>3. CASE conn[p].state # from
  BY <1>1, <1>3 DEF Write, TypeOK
<1> QED
  BY <1>2, <1>3

\* The bound on mishaps.
LEMMA MishapTypes == ASSUME TypeOK, Mishap PROVE mishaps' \in 0 .. MaxMishaps
BY Bounds DEF TypeOK, Mishap

\* What the types say of the requests that are served and of the console.
RequestsOK ==
    /\ jobs \in [Slots -> Jobs]
    /\ \A s \in Slots : jobs[s].p <= made /\ (jobs[s].pc # "idle" => jobs[s].p # 0)
    /\ me \in Bindings /\ me.p <= made
    /\ op \in {"idle", "wait", "forget"}
    /\ \A s \in Slots : jobs[s].live => op = "wait" /\ jobs[s].p = me.p /\ jobs[s].pc # "idle"
    /\ \A s, t \in Slots : jobs[s].live /\ jobs[t].live => s = t

\* A request is taken into a slot that is free.
LEMMA ServeTypes ==
    ASSUME TypeOK, op = "idle", Readable(me.p), NEW s \in Slots, NEW pc \in {"ask", "bind"},
           Serve(s, pc), UNCHANGED <<me, made>>
    PROVE  /\ RequestsOK'
           /\ jobs'[s].p = me.p /\ jobs'[s].pc = pc /\ jobs[s].pc = "idle"
           /\ \A t \in Slots \ {s} : jobs'[t] = jobs[t]
<1> DEFINE j == [p |-> me.p, pc |-> pc, live |-> TRUE]
<1>1. j \in Jobs /\ j.p = me.p /\ j.pc = pc /\ j.live = TRUE /\ me.p # 0
  BY BindingTypes DEF Jobs, Readable
<1>2. jobs' = [jobs EXCEPT ![s] = j] /\ op' = "wait" /\ jobs[s].pc = "idle"
  BY DEF Serve
<1> HIDE DEF j
<1>3. /\ jobs' \in [Slots -> Jobs] /\ jobs'[s] = j
      /\ \A t \in Slots \ {s} : jobs'[t] = jobs[t] /\ ~jobs[t].live
  BY <1>1, <1>2 DEF TypeOK
<1> QED
  BY <1>1, <1>2, <1>3, BindingTypes DEF TypeOK, RequestsOK

\* The deployment is told the state of its connection, and the slot is free again.
LEMMA AnsweredTypes ==
    ASSUME TypeOK, NEW s \in Slots, jobs[s].pc # "idle", Answered(s),
           conn' \in [Pairings -> Conns], UNCHANGED made
    PROVE  /\ RequestsOK'
           /\ jobs'[s] = Nobody /\ \A t \in Slots \ {s} : jobs'[t] = jobs[t]
<1>1. /\ jobs' = [jobs EXCEPT ![s] = Nobody] /\ op' = IF jobs[s].live THEN "idle" ELSE op
      /\ Nobody \in Jobs /\ Nobody.p = 0 /\ Nobody.pc = "idle" /\ Nobody.live = FALSE
  BY NobodyTypes DEF Answered
<1>2. /\ jobs' \in [Slots -> Jobs] /\ jobs'[s] = Nobody
      /\ \A t \in Slots \ {s} : jobs'[t] = jobs[t]
  BY <1>1 DEF TypeOK
<1>3. me' \in Bindings /\ me'.p = me.p
  <2>1. CASE jobs[s].live /\ Valid(conn'[me.p])
    <3>1. me.p \in Pairings
      BY <2>1, SlotTypes DEF TypeOK
    <3>2. conn'[me.p] \in Conns
      BY <3>1
    <3>3. conn'[me.p].state \in ConnStates \ {"revoked"}
      BY <2>1, <3>2 DEF Valid, Conns
    <3>4. me' = [me EXCEPT !.state = conn'[me.p].state]
      BY <2>1 DEF Answered
    <3> QED
      BY <3>1, <3>3, <3>4, BindingTypes DEF Bindings
  <2>2. CASE ~(jobs[s].live /\ Valid(conn'[me.p]))
    BY <2>2, BindingTypes DEF Answered
  <2> QED
    BY <2>1, <2>2
<1>4. jobs[s].live => \A t \in Slots \ {s} : ~jobs[t].live
  BY DEF TypeOK
<1> QED
  BY <1>1, <1>2, <1>3, <1>4, BindingTypes DEF TypeOK, RequestsOK

\* A request ends, and the console with it if it still waits.
LEMMA EndedTypes ==
    ASSUME TypeOK, NEW s \in Slots, jobs' = [jobs EXCEPT ![s] = Nobody],
           op' = IF jobs[s].live THEN "idle" ELSE op,
           me' \in Bindings, me'.p = me.p, UNCHANGED made
    PROVE  /\ RequestsOK'
           /\ jobs'[s] = Nobody /\ \A t \in Slots \ {s} : jobs'[t] = jobs[t]
<1>1. Nobody \in Jobs /\ Nobody.p = 0 /\ Nobody.pc = "idle" /\ Nobody.live = FALSE
  BY NobodyTypes
<1>2. /\ jobs' \in [Slots -> Jobs] /\ jobs'[s] = Nobody
      /\ \A t \in Slots \ {s} : jobs'[t] = jobs[t]
  BY <1>1 DEF TypeOK
<1>3. jobs[s].live => \A t \in Slots \ {s} : ~jobs[t].live
  BY DEF TypeOK
<1> QED
  BY <1>1, <1>2, <1>3, BindingTypes DEF TypeOK, RequestsOK

\* The console waits no longer for a request that is still served.
LEMMA DroppedTypes ==
    ASSUME TypeOK, op' = "idle", jobs' = [s \in Slots |-> [jobs[s] EXCEPT !.live = FALSE]],
           UNCHANGED <<me, made>>
    PROVE  /\ RequestsOK'
           /\ \A s \in Slots : jobs'[s].p = jobs[s].p /\ jobs'[s].pc = jobs[s].pc
<1>1. \A s \in Slots : /\ jobs'[s] \in Jobs /\ jobs'[s].live = FALSE
                      /\ jobs'[s].p = jobs[s].p /\ jobs'[s].pc = jobs[s].pc
  <2>1. \A s \in Slots : jobs[s] \in Jobs
    BY DEF TypeOK
  <2>2. \A s \in Slots : jobs'[s] = [jobs[s] EXCEPT !.live = FALSE]
    OBVIOUS
  <2> QED
    BY <2>1, <2>2 DEF Jobs
<1>2. jobs' \in [Slots -> Jobs]
  BY <1>1
<1> QED
  BY <1>1, <1>2 DEF TypeOK, RequestsOK

\* The console, and the requests it sends.
LEMMA ConsoleTypes ==
    ASSUME TypeOK, Console
    PROVE  TypeOK'
<1>1. CASE Begin
  <2>1. /\ op = "idle" /\ made < MaxPairings /\ made' = made + 1 /\ made' \in 0 .. MaxPairings
        /\ UNCHANGED <<box, acked, jobs, relay, used, installed, op, recv, saved, relays>>
    BY <1>1, Bounds DEF Begin, TypeOK, github
  <2>2. conn' \in [Pairings -> Conns]
    <3>1. \A p \in Pairings : conn'[p] \in Conns
      <4> TAKE p \in Pairings
      <4>1. conn[p] \in Conns /\ [conn[p] EXCEPT !.state = "none"] \in Conns
        BY DEF TypeOK, Conns, ConnStates
      <4>2. [state |-> "pending", fresh |-> TRUE, due |-> FALSE] \in Conns
        BY DEF Conns, ConnStates
      <4> QED
        BY <1>1, <4>1, <4>2 DEF Begin
    <3> QED
      BY <1>1, <3>1 DEF Begin
  <2>3. \A p \in Pairings : p > made' => conn'[p].state = "none"
    <3> TAKE p \in Pairings
    <3>1. SUFFICES ASSUME p > made' PROVE conn'[p].state = "none"
      OBVIOUS
    <3>2. p # made + 1 /\ p > made
      BY <2>1, <3>1, BindingTypes, Bounds DEF Pairings
    <3>3. conn[p] \in Conns /\ conn[p].state = "none"
      BY <3>2 DEF TypeOK
    <3> QED
      BY <1>1, <3>2, <3>3 DEF Begin, Conns
  <2>4. me' \in Bindings /\ me'.p <= made' /\ mishaps' \in 0 .. MaxMishaps
    <3>1. made + 1 \in Pairings
      BY <2>1, BindingTypes, Bounds DEF Pairings
    <3>2. CASE me' = [p |-> made + 1, state |-> "pending"] /\ UNCHANGED mishaps
      BY <2>1, <3>1, <3>2 DEF Bindings, ConnStates, TypeOK
    <3>3. CASE Mishap /\ UNCHANGED me
      BY <2>1, <3>3, BindingTypes, MishapTypes
    <3> QED
      BY <1>1, <3>2, <3>3 DEF Begin
  <2>5. RequestsOK'
    <3>1. \A s \in Slots : jobs[s].p <= made' /\ ~jobs[s].live
      BY <2>1, SlotTypes, BindingTypes, Bounds DEF TypeOK, Pairings
    <3> QED
      BY <2>1, <2>4, <3>1 DEF TypeOK, RequestsOK
  <2>6. used' \subseteq 1 .. made' /\ relay' \in Relays /\ relay'.rest \subseteq 1 .. made'
    BY <2>1, BindingTypes DEF TypeOK
  <2> QED
    BY <2>1, <2>2, <2>3, <2>4, <2>5, <2>6 DEF TypeOK, RequestsOK, Waiting
<1>2. CASE Poll
  <2>1. /\ op = "idle" /\ Readable(me.p) /\ me.p \in Pairings
        /\ UNCHANGED <<made, box, acked, relay, used, installed, recv, saved, relays, mishaps>>
    BY <1>2, BindingTypes DEF Poll, Readable, github
  <2>2. CASE ClaimPoll(me.p)
    <3>1. PICK s \in Slots : Serve(s, "ask")
      BY <1>2, <2>2 DEF Poll
    <3>2. conn' = [conn EXCEPT ![me.p].due = FALSE] /\ UNCHANGED me
      BY <1>2, <2>2 DEF Poll
    <3>3. RequestsOK'
      BY <2>1, <3>1, <3>2, ServeTypes
    <3>4. /\ conn' \in [Pairings -> Conns]
          /\ \A p \in Pairings : conn'[p].state = conn[p].state
      BY <2>1, <3>2 DEF TypeOK, Conns
    <3> QED
      BY <2>1, <3>3, <3>4 DEF TypeOK, RequestsOK, Waiting
  <2>3. CASE ~ClaimPoll(me.p)
    <3>1. me' = [me EXCEPT !.state = conn[me.p].state] /\ UNCHANGED <<conn, jobs, op>>
      BY <1>2, <2>3 DEF Poll
    <3>2. conn[me.p].state \in ConnStates \ {"revoked"}
      BY <2>1 DEF TypeOK, Conns, Readable, Valid
    <3>3. me' \in Bindings /\ me'.p = me.p
      BY <2>1, <3>1, <3>2, BindingTypes DEF Bindings
    <3> QED
      BY <2>1, <3>1, <3>3 DEF TypeOK, Waiting
  <2> QED
    BY <2>2, <2>3
<1>3. CASE SelectReads
  <2>1. PICK s \in Slots : Serve(s, "bind")
    BY <1>3 DEF SelectReads
  <2>2. /\ op = "idle" /\ Readable(me.p)
        /\ UNCHANGED <<conn, made, box, acked, relay, used, installed, me, recv, saved, relays, mishaps>>
    BY <1>3 DEF SelectReads, github
  <2>3. RequestsOK'
    BY <2>1, <2>2, ServeTypes
  <2> QED
    BY <2>2, <2>3 DEF TypeOK, RequestsOK, Waiting
<1>4. CASE Disconnect
  <2>1. me.p \in Pairings /\ me.p <= made /\ Revoke(me.p)
    BY <1>4, BindingTypes DEF Disconnect, Readable
  <2>2. /\ op = "idle" /\ op' = "forget"
        /\ UNCHANGED <<made, jobs, relay, used, installed, me, recv, saved, relays, mishaps>>
    BY <1>4 DEF Disconnect, github
  <2>3. RequestsOK'
    BY <2>2 DEF TypeOK, RequestsOK
  <2> QED
    BY <2>1, <2>2, <2>3, RevokeTypes DEF TypeOK, RequestsOK
<1>5. CASE Forgets
  <2>1. /\ op = "forget" /\ op' = "idle" /\ me' = [p |-> 0, state |-> "none"]
        /\ UNCHANGED <<conn, made, box, acked, jobs, relay, used, installed, recv, saved, relays, mishaps>>
    BY <1>5 DEF Forgets, broker, github
  <2>2. me' \in Bindings /\ me'.p = 0
    BY <2>1 DEF Bindings, ConnStates
  <2>3. RequestsOK'
    BY <2>1, <2>2, BindingTypes DEF TypeOK, RequestsOK
  <2> QED
    BY <2>1, <2>3 DEF TypeOK, RequestsOK, Waiting
<1> QED
  BY <1>1, <1>2, <1>3, <1>4, <1>5 DEF Console

\* What the broker does for a request.
LEMMA ServingTypes ==
    ASSUME TypeOK, NEW s \in Slots,
           PollAsk(s) \/ PollList(s) \/ PollFails(s) \/ SelectWrites(s)
    PROVE  TypeOK'
<1> DEFINE p == jobs[s].p
<1>1. /\ jobs[s].pc # "idle" /\ p \in Pairings /\ p \in 1 .. made /\ p <= made /\ jobs[s] \in Jobs
      /\ UNCHANGED <<made, relay, installed, recv, saved, relays>>
  BY SlotTypes DEF PollAsk, PollList, PollFails, SelectWrites, github
<1>2. CASE PollAsk(s)
  <2>1. CASE UNCHANGED <<conn, box, acked, used>> /\ Answered(s)
    <3>1. RequestsOK' /\ UNCHANGED mishaps
      BY <1>1, <1>2, <2>1, AnsweredTypes DEF TypeOK, PollAsk
    <3> QED
      BY <1>1, <2>1, <3>1 DEF TypeOK, RequestsOK, Waiting
  <2>2. CASE /\ used' = used \cup {p} /\ jobs' = [jobs EXCEPT ![s].pc = "list"]
             /\ UNCHANGED <<conn, box, acked, me, op>>
    <3>1. /\ [jobs[s] EXCEPT !.pc = "list"] \in Jobs
          /\ [jobs[s] EXCEPT !.pc = "list"].p = p
          /\ [jobs[s] EXCEPT !.pc = "list"].pc = "list"
          /\ [jobs[s] EXCEPT !.pc = "list"].live = jobs[s].live
      BY <1>1 DEF Jobs
    <3>2. jobs' = [jobs EXCEPT ![s] = [jobs[s] EXCEPT !.pc = "list"]]
      BY <2>2
    <3>3. RequestsOK'
      BY <1>1, <2>2, <3>1, <3>2 DEF TypeOK, RequestsOK
    <3>4. UNCHANGED mishaps
      BY <1>2 DEF PollAsk
    <3> QED
      BY <1>1, <2>2, <3>3, <3>4 DEF TypeOK, RequestsOK, Waiting
  <2>3. CASE Revoke(p) /\ Answered(s) /\ UNCHANGED used
    <3>1. conn' \in [Pairings -> Conns]
      BY <1>1, <2>3, RevokeTypes
    <3>2. RequestsOK' /\ UNCHANGED mishaps
      BY <1>1, <1>2, <2>3, <3>1, AnsweredTypes DEF PollAsk
    <3> QED
      BY <1>1, <2>3, <3>2, RevokeTypes DEF TypeOK, RequestsOK
  <2> QED
    BY <1>2, <2>1, <2>2, <2>3 DEF PollAsk
<1>3. CASE PollList(s)
  <2>1. /\ Write(p, "pending", "selecting") /\ Answered(s)
        /\ UNCHANGED <<box, acked, used, mishaps>>
    BY <1>3 DEF PollList, github
  <2>2. conn' \in [Pairings -> Conns] /\ \A q \in Pairings : q > made => conn'[q].state = "none"
    BY <1>1, <2>1, WriteTypes DEF ConnStates
  <2>3. RequestsOK'
    BY <1>1, <2>1, <2>2, AnsweredTypes
  <2> QED
    BY <1>1, <2>1, <2>2, <2>3 DEF TypeOK, RequestsOK, Waiting
<1>4. CASE PollFails(s)
  <2>1. /\ used' = used \cup {p} /\ jobs' = [jobs EXCEPT ![s] = Nobody]
        /\ op' = IF jobs[s].live THEN "idle" ELSE op
        /\ UNCHANGED <<conn, box, acked, me>> /\ mishaps' \in 0 .. MaxMishaps
    BY <1>4, MishapTypes DEF PollFails
  <2>2. RequestsOK'
    BY <1>1, <2>1, EndedTypes, BindingTypes
  <2> QED
    BY <1>1, <2>1, <2>2 DEF TypeOK, RequestsOK, Waiting
<1>5. CASE SelectWrites(s)
  <2>1. /\ Write(p, "selecting", "connected") /\ UNCHANGED <<box, acked, used, mishaps>>
        /\ jobs' = [jobs EXCEPT ![s] = Nobody] /\ op' = IF jobs[s].live THEN "idle" ELSE op
    BY <1>5 DEF SelectWrites, github
  <2>2. conn' \in [Pairings -> Conns] /\ \A q \in Pairings : q > made => conn'[q].state = "none"
    BY <1>1, <2>1, WriteTypes DEF ConnStates
  <2>3. me' \in Bindings /\ me'.p = me.p
    <3>1. \/ me' = me
          \/ jobs[s].live /\ me' = [me EXCEPT !.state = "connected"]
      BY <1>5 DEF SelectWrites
    <3>2. jobs[s].live => me.p \in Pairings
      BY <1>1 DEF TypeOK
    <3> QED
      BY <3>1, <3>2, BindingTypes DEF Bindings, ConnStates
  <2>4. RequestsOK'
    BY <1>1, <2>1, <2>3, EndedTypes
  <2> QED
    BY <1>1, <2>1, <2>2, <2>4 DEF TypeOK, RequestsOK, Waiting
<1> QED
  BY <1>2, <1>3, <1>4, <1>5

\* Webhooks.
LEMMA RelayTypes ==
    ASSUME TypeOK, Relaying \/ WebhookArrives \/ Uninstalls
    PROVE  TypeOK'
<1>1. CASE Uninstalls
  BY <1>1 DEF Uninstalls, broker, client, TypeOK, Waiting
<1>2. CASE WebhookArrives
  <2>1. PICK d \in Deliveries \cup {"removal"} :
           relay' = [d |-> d, rest |-> {p \in Pairings : conn[p].state = "connected"}]
    BY <1>2 DEF WebhookArrives
  <2>2. relay' \in Relays /\ relay'.d # "none"
    BY <2>1, Bounds DEF Relays
  <2>3. relay'.rest \subseteq 1 .. made
    <3>1. \A p \in Pairings : conn[p].state = "connected" => p \in 1 .. made
      <4>1. \A p \in Pairings : ~(p > made) => p \in 1 .. made
        BY Bounds, BindingTypes DEF Pairings
      <4>2. \A p \in Pairings : p > made => conn[p].state # "connected"
        BY DEF TypeOK
      <4> QED
        BY <4>1, <4>2
    <3> QED
      BY <2>1, <3>1
  <2>4. relays' \in 0 .. MaxRelays
    BY <1>2, Bounds DEF WebhookArrives, TypeOK
  <2> QED
    BY <1>2, <2>2, <2>3, <2>4 DEF WebhookArrives, github, client, TypeOK, Waiting
<1>3. CASE RelayOne
  <2> DEFINE p == First(relay.rest)
  <2>1. /\ p \in Pairings /\ p <= made /\ relay.rest \in SUBSET Pairings
        /\ relay.d \in Deliveries \cup {"none", "removal"}
        /\ UNCHANGED <<made, jobs, used, installed, me, op, recv, saved, relays, mishaps>>
    <3>1. relay.rest \in SUBSET Pairings /\ relay.d \in Deliveries \cup {"none", "removal"}
      BY DEF TypeOK, Relays
    <3>2. p \in relay.rest
      BY <1>3, <3>1, FirstIsThere DEF RelayOne
    <3> QED
      BY <1>3, <3>1, <3>2, BindingTypes DEF RelayOne, github, client, TypeOK
  <2> HIDE DEF p
  <2>2. relay' \in Relays /\ relay'.rest \subseteq 1 .. made /\ (relay'.d = "none" => relay'.rest = {})
    <3>1. relay' = Quiet \/ relay' = [relay EXCEPT !.rest = relay.rest \ {p}]
      BY <1>3 DEF RelayOne, p
    <3>2. [relay EXCEPT !.rest = relay.rest \ {p}] \in Relays
          /\ [relay EXCEPT !.rest = relay.rest \ {p}].rest = relay.rest \ {p}
          /\ [relay EXCEPT !.rest = relay.rest \ {p}].d = relay.d
      BY <2>1 DEF TypeOK, Relays
    <3> QED
      BY <3>1, <3>2, NobodyTypes DEF TypeOK
  <2>3. CASE relay.d = "removal"
    <3>1. Revoke(p)
      BY <1>3, <2>3 DEF RelayOne, p
    <3> QED
      BY <2>1, <2>2, <3>1, RevokeTypes DEF TypeOK
  <2>4. CASE relay.d # "removal"
    <3>1. /\ UNCHANGED <<conn, acked>>
          /\ box' = IF Known(p, relay.d) \/ Full(p) THEN box ELSE [box EXCEPT ![p] = Append(@, relay.d)]
      BY <1>3, <2>4 DEF RelayOne, p
    <3>2. CASE Known(p, relay.d) \/ Full(p)
      BY <2>1, <2>2, <3>1, <3>2 DEF TypeOK, Waiting
    <3>3. CASE relay.d \in Deliveries /\ ~(Known(p, relay.d) \/ Full(p))
      <4> DEFINE q == Append(box[p], relay.d)
      <4>1. /\ q \in Seq(Deliveries) /\ IsInjective(q) /\ Len(q) <= BoxLimit
            /\ ToSet(q) = Waiting(p) \cup {relay.d} /\ relay.d \notin acked[p]
        <5>1. ~Known(p, relay.d) /\ ~Full(p)
          BY <3>3
        <5>2. relay.d \notin acked[p]
          BY <5>1 DEF Known
        <5> QED
          BY <2>1, <3>3, <5>1, <5>2, AppendTypes
      <4>2. box' = [box EXCEPT ![p] = q]
        BY <3>1, <3>3
      <4> HIDE DEF q
      <4>3. box' \in [Pairings -> Seq(Deliveries)]
        BY <4>1, <4>2 DEF TypeOK
      <4>4. \A r \in Pairings :
               Waiting(r)' \cap acked'[r] = {} /\ IsInjective(box'[r]) /\ Len(box'[r]) <= BoxLimit
        <5> TAKE r \in Pairings
        <5>1. CASE r = p
          <6>1. box'[r] = q /\ acked'[r] = acked[r] /\ acked[r] \cap Waiting(p) = {}
            BY <2>1, <3>1, <4>2, <5>1 DEF TypeOK
          <6> QED
            BY <4>1, <5>1, <6>1 DEF Waiting
        <5>2. CASE r # p
          <6>1. box'[r] = box[r] /\ acked'[r] = acked[r]
            BY <3>1, <4>2, <5>2 DEF TypeOK
          <6> QED
            BY <6>1 DEF TypeOK, Waiting
        <5> QED
          BY <5>1, <5>2
      <4> QED
        BY <2>1, <2>2, <3>1, <4>3, <4>4 DEF TypeOK
    <3>4. relay.d # "none"
      BY <1>3 DEF RelayOne, TypeOK
    <3> QED
      BY <2>1, <2>4, <3>2, <3>3, <3>4
  <2> QED
    BY <2>3, <2>4
<1>4. CASE RelayDone
  BY <1>4, NobodyTypes DEF RelayDone, github, client, TypeOK, Waiting
<1> QED
  BY <1>1, <1>2, <1>3, <1>4 DEF Relaying

\* An acknowledgement takes a delivery out of the mailbox of a connection.
LEMMA AcknowledgeTypes ==
    ASSUME TypeOK, NEW p \in Pairings, NEW d, NEW trace, trace \in {{}, Waiting(p) \cap {d}},
           box' = [box EXCEPT ![p] = Without(p, d)],
           \/ acked' = [acked EXCEPT ![p] = @ \cup trace]
           \/ acked' = [acked EXCEPT ![p] = @ \ {d}]
    PROVE  /\ acked' \in [Pairings -> SUBSET Deliveries] /\ box' \in [Pairings -> Seq(Deliveries)]
           /\ \A q \in Pairings :
                 Waiting(q)' \cap acked'[q] = {} /\ IsInjective(box'[q]) /\ Len(box'[q]) <= BoxLimit
<1> DEFINE w == Without(p, d)
<1>1. /\ w \in Seq(Deliveries) /\ IsInjective(w) /\ Len(w) <= BoxLimit
      /\ ToSet(w) = Waiting(p) \ {d}
  BY WithoutTypes
<1>2. /\ box \in [Pairings -> Seq(Deliveries)] /\ acked \in [Pairings -> SUBSET Deliveries]
      /\ box' = [box EXCEPT ![p] = w]
  BY DEF TypeOK
<1> HIDE DEF w
<1>3. Waiting(p) \subseteq Deliveries /\ acked[p] \cap Waiting(p) = {}
  <2>1. box[p] \in Seq(Deliveries) /\ Len(box[p]) \in Nat /\ DOMAIN box[p] = 1 .. Len(box[p])
    BY <1>2, LenProperties
  <2>2. \A i \in DOMAIN box[p] : box[p][i] \in Deliveries
    BY <2>1, ElementOfSeq
  <2> QED
    BY <2>2 DEF TypeOK, Waiting, ToSet
<1>4. acked'[p] \subseteq acked[p] \cup (Waiting(p) \cap {d}) /\ \A q \in Pairings \ {p} : acked'[q] = acked[q]
  BY <1>2
<1>5. acked' \in [Pairings -> SUBSET Deliveries] /\ box' \in [Pairings -> Seq(Deliveries)]
  BY <1>1, <1>2, <1>3
<1>6. ASSUME NEW q \in Pairings
      PROVE Waiting(q)' \cap acked'[q] = {} /\ IsInjective(box'[q]) /\ Len(box'[q]) <= BoxLimit
  <2>1. CASE q = p
    BY <1>1, <1>2, <1>3, <1>4, <2>1 DEF Waiting
  <2>2. CASE q # p
    <3>1. box'[q] = box[q] /\ acked'[q] = acked[q]
      BY <1>2, <1>4, <2>2
    <3> QED
      BY <3>1 DEF TypeOK, Waiting
  <2> QED
    BY <2>1, <2>2
<1> QED
  BY <1>5, <1>6

\* The pass is over, or goes on with the next delivery of the list.
LEMMA EndsTypes ==
    ASSUME TypeOK, recv.pc # "idle", Ends \/ Proceeds
    PROVE  /\ recv' \in Receipts /\ (recv'.pc # "idle" => recv'.rest # <<>>)
           /\ recv'.pc # "ack"
<1>1. recv \in Receipts /\ recv.rest \in Seq(Deliveries) /\ recv.rest # <<>>
  BY DEF TypeOK, Receipts
<1>2. CASE Ends
  BY <1>2 DEF Ends, Receipts
<1>3. CASE Proceeds /\ ~Ends
  <2>1. recv' = [pc |-> "save", rest |-> Tail(recv.rest)] /\ Len(recv.rest) # 1
    BY <1>3 DEF Proceeds
  <2>2. Tail(recv.rest) \in Seq(Deliveries) /\ Tail(recv.rest) # <<>>
    <3>1. Len(recv.rest) \in Nat \ {0}
      BY <1>1, EmptySeq, LenProperties
    <3>2. Tail(recv.rest) \in Seq(Deliveries) /\ Len(Tail(recv.rest)) = Len(recv.rest) - 1
      BY <1>1, HeadTailProperties
    <3>3. Len(Tail(recv.rest)) # 0
      BY <2>1, <3>1, <3>2
    <3>4. Len(<<>>) = 0
      OBVIOUS
    <3> QED
      BY <3>2, <3>3, <3>4
  <2> QED
    BY <2>1, <2>2 DEF Receipts
<1> QED
  BY <1>2, <1>3

\* The relay pass of the deployment.
LEMMA ReceivingTypes ==
    ASSUME TypeOK, Receiving \/ AckFails
    PROVE  TypeOK'
<1>1. recv \in Receipts /\ recv.rest \in Seq(Deliveries) /\ recv.pc \in {"idle", "save", "ack"}
  BY DEF TypeOK, Receipts
<1>2. CASE Fetches
  <2> DEFINE q == box[me.p]
             n == IF Len(q) < Batch THEN Len(q) ELSE Batch
  <2>1. recv' = [pc |-> "save", rest |-> Listed(me.p)] /\ Listed(me.p) # <<>> /\ conn[me.p].state = "connected"
    BY <1>2 DEF Fetches
  <2>2. me.p \in Pairings
    <3>1. me.state = "connected"
      BY <1>2 DEF Fetches
    <3> QED
      BY <3>1, BindingTypes
  <2>3. Listed(me.p) \in Seq(Deliveries)
    <3>1. q \in Seq(Deliveries) /\ Len(q) \in Nat /\ n \in Int /\ n <= Len(q)
      BY <2>2, Bounds DEF TypeOK
    <3>2. \A i \in 1 .. n : q[i] \in Deliveries
      BY <3>1, ElementOfSeq
    <3>3. Listed(me.p) = SubSeq(q, 1, n)
      BY DEF Listed, Prefix
    <3> HIDE DEF q, n
    <3> QED
      BY <3>1, <3>2, <3>3, SubSeqProperties
  <2>4. recv' \in Receipts /\ recv'.rest # <<>>
    BY <2>1, <2>3 DEF Receipts
  <2> QED
    BY <1>2, <2>4 DEF Fetches, broker, github, TypeOK, Waiting
<1>3. CASE Saves
  <2>1. Head(recv.rest) \in Deliveries
    BY <1>1, <1>3, HeadTailProperties DEF Saves, TypeOK
  <2>2. recv' \in Receipts /\ recv'.rest = recv.rest
    BY <1>1, <1>3 DEF Saves, Receipts
  <2>3. saved' \subseteq Deliveries
    BY <1>3, <2>1 DEF Saves, TypeOK
  <2> QED
    BY <1>3, <2>2, <2>3 DEF Saves, broker, github, TypeOK, Waiting
<1>4. CASE Acks \/ AckFails
  <2>1. /\ recv.pc = "ack" /\ (Ends \/ Proceeds)
        /\ UNCHANGED <<conn, made, jobs, relay, used, installed, me, op, saved, relays>>
    BY <1>4 DEF Acks, AckFails, github
  <2>2. recv' \in Receipts /\ (recv'.pc # "idle" => recv'.rest # <<>>)
    BY <2>1, EndsTypes
  <2>3. /\ acked' \in [Pairings -> SUBSET Deliveries] /\ box' \in [Pairings -> Seq(Deliveries)]
        /\ \A q \in Pairings :
              Waiting(q)' \cap acked'[q] = {} /\ IsInjective(box'[q]) /\ Len(box'[q]) <= BoxLimit
    <3>1. CASE Readable(me.p) /\ Acknowledge(Head(recv.rest))
      <4>1. me.p \in Pairings
        BY <3>1, BindingTypes DEF Readable
      <4> QED
        BY <3>1, <4>1, AcknowledgeTypes DEF Acknowledge
    <3>2. CASE UNCHANGED <<box, acked>>
      BY <3>2 DEF TypeOK, Waiting
    <3> QED
      BY <1>4, <3>1, <3>2 DEF Acks, AckFails
  <2>4. mishaps' \in 0 .. MaxMishaps
    BY <1>4, MishapTypes DEF Acks, AckFails, TypeOK
  <2> QED
    BY <2>1, <2>2, <2>3, <2>4 DEF TypeOK
<1> QED
  BY <1>2, <1>3, <1>4 DEF Receiving

\* Crashes, answers that do not come, and time.
LEMMA MishapsTypes ==
    ASSUME TypeOK, GivesUp \/ DeploymentCrashes \/ BrokerCrashes
    PROVE  TypeOK'
<1>0. mishaps' \in 0 .. MaxMishaps
  BY MishapTypes DEF GivesUp, DeploymentCrashes, BrokerCrashes
<1>1. CASE GivesUp \/ DeploymentCrashes
  <2>1. /\ op' = "idle" /\ jobs' = [s \in Slots |-> [jobs[s] EXCEPT !.live = FALSE]]
        /\ UNCHANGED <<conn, made, box, acked, relay, used, installed, me, saved, relays>>
    BY <1>1 DEF GivesUp, DeploymentCrashes, github
  <2>2. recv' \in Receipts /\ (recv'.pc # "idle" => recv'.rest # <<>>)
    <3>1. CASE GivesUp
      BY <3>1 DEF GivesUp, TypeOK
    <3>2. CASE DeploymentCrashes
      <4>1. recv' = [pc |-> "idle", rest |-> <<>>] /\ <<>> \in Seq(Deliveries)
        BY <3>2 DEF DeploymentCrashes, Ends
      <4> QED
        BY <4>1 DEF Receipts
    <3> QED
      BY <1>1, <3>1, <3>2
  <2>3. RequestsOK'
    BY <2>1, DroppedTypes
  <2> QED
    BY <1>0, <2>1, <2>2, <2>3 DEF TypeOK, RequestsOK, Waiting
<1>2. CASE BrokerCrashes
  <2>1. /\ jobs' = [s \in Slots |-> Nobody] /\ relay' = Quiet /\ op' = IF op = "wait" THEN "idle" ELSE op
        /\ UNCHANGED <<conn, made, box, acked, used, installed, me, recv, saved, relays>>
    BY <1>2 DEF BrokerCrashes, github
  <2>2. RequestsOK'
    <3>1. \A s \in Slots : jobs'[s] = Nobody
      BY <2>1
    <3>2. jobs' \in [Slots -> Jobs]
      BY <2>1, NobodyTypes
    <3>3. 0 <= made
      BY BindingTypes
    <3> QED
      BY <2>1, <3>1, <3>2, <3>3, NobodyTypes DEF TypeOK, RequestsOK
  <2> QED
    BY <1>0, <2>1, <2>2, NobodyTypes DEF TypeOK, RequestsOK, Waiting
<1> QED
  BY <1>1, <1>2

\* Time: a poll is due, a pairing expires, a delivery is a day old.
LEMMA TimeTypes ==
    ASSUME TypeOK, NEW p \in Pairings,
           PollDue(p) \/ Expires(p) \/ \E d \in Deliveries : Lapses(p, d)
    PROVE  TypeOK'
<1>1. CASE PollDue(p) \/ Expires(p)
  <2>1. /\ \/ conn' = [conn EXCEPT ![p].due = TRUE]
           \/ conn' = [conn EXCEPT ![p].fresh = FALSE]
        /\ UNCHANGED <<made, box, acked, jobs, relay, github, client, relays, mishaps>>
    BY <1>1 DEF PollDue, Expires
  <2>2. conn' \in [Pairings -> Conns] /\ \A q \in Pairings : conn'[q].state = conn[q].state
    <3>1. conn \in [Pairings -> Conns]
      BY DEF TypeOK
    <3>2. CASE conn' = [conn EXCEPT ![p].due = TRUE]
      BY <3>1, <3>2 DEF Conns
    <3>3. CASE conn' = [conn EXCEPT ![p].fresh = FALSE]
      BY <3>1, <3>3 DEF Conns
    <3> QED
      BY <2>1, <3>2, <3>3
  <2> QED
    BY <2>1, <2>2 DEF TypeOK, github, client, Waiting
<1>2. ASSUME NEW d \in Deliveries, Lapses(p, d) PROVE TypeOK'
  <2>1. /\ box' = [box EXCEPT ![p] = Without(p, d)] /\ acked' = [acked EXCEPT ![p] = @ \ {d}]
        /\ UNCHANGED <<conn, made, jobs, relay, github, client, relays, mishaps>>
    BY <1>2 DEF Lapses
  <2>2. /\ acked' \in [Pairings -> SUBSET Deliveries] /\ box' \in [Pairings -> Seq(Deliveries)]
        /\ \A q \in Pairings :
              Waiting(q)' \cap acked'[q] = {} /\ IsInjective(box'[q]) /\ Len(box'[q]) <= BoxLimit
    BY <2>1, AcknowledgeTypes
  <2> QED
    BY <2>1, <2>2 DEF TypeOK, github, client
<1> QED
  BY <1>1, <1>2

\* Every step keeps the types.
LEMMA TypesKept == TypeOK /\ [Next]_vars => TypeOK'
<1> SUFFICES ASSUME TypeOK, [Next]_vars PROVE TypeOK'
  OBVIOUS
<1>1. CASE Console
  BY <1>1, ConsoleTypes
<1>2. ASSUME NEW s \in Slots, PollAsk(s) \/ PollList(s) \/ SelectWrites(s) \/ PollFails(s)
      PROVE  TypeOK'
  BY <1>2, ServingTypes
<1>3. CASE Relaying \/ WebhookArrives \/ Uninstalls
  BY <1>3, RelayTypes
<1>4. CASE Receiving \/ AckFails
  BY <1>4, ReceivingTypes
<1>5. CASE GivesUp \/ DeploymentCrashes \/ BrokerCrashes
  BY <1>5, MishapsTypes
<1>6. ASSUME NEW p \in Pairings, PollDue(p) \/ Expires(p) \/ \E d \in Deliveries : Lapses(p, d)
      PROVE  TypeOK'
  BY <1>6, TimeTypes
<1>7. CASE UNCHANGED vars
  BY <1>7 DEF vars, broker, github, client, TypeOK, Waiting
<1> QED
  BY <1>1, <1>2, <1>3, <1>4, <1>5, <1>6, <1>7 DEF Next, Serving

-------------------------------------------------------------------------------
(* Acknowledged after it was saved                                             *)

\* The queue of the deployment is ahead of every acknowledgement.
LEMMA SavedKept ==
    ASSUME TypeOK, AckedIsSaved, HeadIsSaved, [Next]_vars
    PROVE  AckedIsSaved' /\ HeadIsSaved'
<1>0. /\ acked \in [Pairings -> SUBSET Deliveries]
      /\ recv \in Receipts /\ recv.pc \in {"idle", "save", "ack"} /\ recv.rest \in Seq(Deliveries)
  BY DEF TypeOK, Receipts
<1>1. CASE UNCHANGED <<recv, saved>> /\ \A p \in Pairings : acked'[p] \subseteq acked[p]
  BY <1>1 DEF AckedIsSaved, HeadIsSaved
<1>2. CASE Console
  <2>1. CASE Disconnect
    <3>1. me.p \in Pairings /\ me.p <= made /\ Revoke(me.p) /\ UNCHANGED <<recv, saved>>
      BY <2>1, BindingTypes DEF Disconnect, Readable
    <3> QED
      BY <1>1, <3>1, RevokeTypes
  <2>2. CASE Begin \/ Poll \/ SelectReads \/ Forgets
    <3>1. UNCHANGED <<recv, saved, acked>>
      BY <2>2 DEF Begin, Poll, SelectReads, Forgets, broker
    <3> QED
      BY <1>1, <3>1
  <2> QED
    BY <1>2, <2>1, <2>2 DEF Console
<1>3. ASSUME NEW s \in Slots, PollAsk(s) \/ PollList(s) \/ SelectWrites(s) \/ PollFails(s)
      PROVE  AckedIsSaved' /\ HeadIsSaved'
  <2>1. UNCHANGED <<recv, saved>> /\ (acked' = acked \/ (PollAsk(s) /\ Revoke(jobs[s].p)))
    BY <1>3 DEF PollAsk, PollList, SelectWrites, PollFails
  <2>2. CASE PollAsk(s) /\ Revoke(jobs[s].p)
    <3>1. jobs[s].p \in Pairings /\ jobs[s].p <= made
      BY <2>2, SlotTypes DEF PollAsk
    <3> QED
      BY <1>1, <2>1, <2>2, <3>1, RevokeTypes
  <2> QED
    BY <1>1, <2>1, <2>2
<1>4. CASE RelayOne
  <2> DEFINE p == First(relay.rest)
  <2>1. relay.rest \in SUBSET Pairings /\ relay.rest \subseteq 1 .. made
    BY DEF TypeOK, Relays
  <2>2. p \in Pairings /\ p <= made
    BY <1>4, <2>1, FirstIsThere, BindingTypes DEF RelayOne
  <2>3. UNCHANGED <<recv, saved>> /\ (Revoke(p) \/ UNCHANGED acked)
    BY <1>4 DEF RelayOne, client
  <2> QED
    BY <1>1, <2>2, <2>3, RevokeTypes
<1>5. CASE RelayDone \/ WebhookArrives \/ Uninstalls
  <2>1. UNCHANGED <<recv, saved, acked>>
    BY <1>5 DEF RelayDone, WebhookArrives, Uninstalls, client, broker
  <2> QED
    BY <1>1, <2>1
<1>6. CASE Fetches
  BY <1>6 DEF Fetches, broker, AckedIsSaved, HeadIsSaved
<1>7. CASE Saves
  <2>1. recv'.rest = recv.rest /\ saved' = saved \cup {Head(recv.rest)} /\ UNCHANGED acked
    BY <1>0, <1>7 DEF Saves, Receipts, broker
  <2> QED
    BY <2>1 DEF AckedIsSaved, HeadIsSaved
<1>8. CASE Acks \/ AckFails
  <2>1. recv.pc = "ack" /\ (Ends \/ Proceeds) /\ UNCHANGED saved
    BY <1>8 DEF Acks, AckFails
  <2>2. recv'.pc # "ack"
    BY <2>1, EndsTypes
  <2>3. Head(recv.rest) \in saved
    BY <2>1 DEF HeadIsSaved
  <2>4. CASE Readable(me.p) /\ Acknowledge(Head(recv.rest))
    <3>1. me.p \in Pairings
      BY <2>4, BindingTypes DEF Readable
    <3>2. \A p \in Pairings : acked'[p] \subseteq acked[p] \cup {Head(recv.rest)}
      BY <1>0, <2>4, <3>1 DEF Acknowledge
    <3> QED
      BY <2>1, <2>2, <2>3, <3>2 DEF AckedIsSaved, HeadIsSaved
  <2>5. CASE UNCHANGED acked
    BY <2>1, <2>2, <2>5 DEF AckedIsSaved, HeadIsSaved
  <2> QED
    BY <1>8, <2>4, <2>5 DEF Acks, AckFails
<1>9. CASE GivesUp \/ BrokerCrashes
  <2>1. UNCHANGED <<recv, saved, acked>>
    BY <1>9 DEF GivesUp, BrokerCrashes
  <2> QED
    BY <1>1, <2>1
<1>10. CASE DeploymentCrashes
  <2>1. recv'.pc = "idle" /\ UNCHANGED <<saved, acked>>
    BY <1>10 DEF DeploymentCrashes, Ends
  <2> QED
    BY <2>1 DEF AckedIsSaved, HeadIsSaved
<1>11. ASSUME NEW p \in Pairings, PollDue(p) \/ Expires(p) \/ \E d \in Deliveries : Lapses(p, d)
       PROVE  AckedIsSaved' /\ HeadIsSaved'
  <2>1. UNCHANGED <<recv, saved>>
    BY <1>11 DEF PollDue, Expires, Lapses, client
  <2>2. acked' = acked \/ \E d \in Deliveries : acked' = [acked EXCEPT ![p] = @ \ {d}]
    BY <1>11 DEF PollDue, Expires, Lapses
  <2>3. \A q \in Pairings : acked'[q] \subseteq acked[q]
    BY <1>0, <2>2
  <2> QED
    BY <1>1, <2>1, <2>3
<1>12. CASE UNCHANGED vars
  BY <1>1, <1>12 DEF vars, broker, client
<1> QED
  BY <1>2, <1>3, <1>4, <1>5, <1>6, <1>7, <1>8, <1>9, <1>10, <1>11, <1>12
     DEF Next, Serving, Relaying, Receiving

-------------------------------------------------------------------------------
(* One poll at a time                                                          *)

\* A step that does not touch the polls of a pairing, and revokes it only for good reason.
LEMMA PollsFrame ==
    ASSUME NEW p, PolledOnce(p),
           \A s \in Slots : Polling(s, p)' <=> Polling(s, p),
           \A s \in Slots : Asking(s, p)' => Asking(s, p),
           p \in used' <=> p \in used, p \in ended => p \in ended',
           conn'[p].state = "pending" =>
               conn[p].state = "pending" /\ (conn'[p].due => conn[p].due),
           conn'[p].state = "revoked" => conn[p].state = "revoked" \/ p \in ended'
    PROVE  PolledOnce(p)'
<1>1. \A s \in Slots : Polling(s, p)' => ~(conn'[p].state = "pending" /\ conn'[p].due)
  BY DEF PolledOnce
<1>2. \A s, t \in Slots : Polling(s, p)' /\ Polling(t, p)' => s = t
  BY DEF PolledOnce
<1>3. \A s \in Slots : Asking(s, p)' => p \notin used' /\ (conn'[p].state = "revoked" => p \in ended')
  BY DEF PolledOnce
<1>4. conn'[p].state = "pending" /\ p \in used' => \E s \in Slots : Polling(s, p)'
  BY DEF PolledOnce
<1>5. conn'[p].state = "revoked" /\ p \in used' => p \in ended'
  BY DEF PolledOnce
<1> QED
  BY <1>1, <1>2, <1>3, <1>4, <1>5 DEF PolledOnce

\* Requests of the console.
LEMMA ConsolePolls ==
    ASSUME TypeOK, Console, NEW p \in Pairings, PolledOnce(p)
    PROVE  PolledOnce(p)'
<1>1. CASE Begin
  <2>1. /\ UNCHANGED <<jobs, used, ended>> /\ made \in Nat /\ used \subseteq 1 .. made
        /\ \A s \in Slots : jobs[s].p <= made
        /\ p \in Int /\ conn[p] \in Conns
    BY <1>1, BindingTypes, SlotTypes, Bounds DEF Begin, github, ghosts, TypeOK, Pairings
  <2>2. CASE p = made + 1
    <3>1. /\ conn'[p] = [state |-> "pending", fresh |-> TRUE, due |-> FALSE]
          /\ p \notin used /\ \A s \in Slots : jobs[s].p # p
      BY <1>1, <2>1, <2>2 DEF Begin
    <3> QED
      BY <2>1, <3>1 DEF PolledOnce, Polling, Asking
  <2>3. CASE p # made + 1
    <3>1. conn'[p] = conn[p] \/ conn'[p] = [conn[p] EXCEPT !.state = "none"]
      BY <1>1, <2>3 DEF Begin
    <3>2. conn'[p] = conn[p] \/ conn'[p].state = "none"
      BY <2>1, <3>1 DEF Conns
    <3> QED
      BY <2>1, <3>2, PollsFrame DEF Polling, Asking
  <2> QED
    BY <2>2, <2>3
<1>2. CASE Poll
  <2>1. op = "idle" /\ Readable(me.p) /\ me.p \in Pairings /\ UNCHANGED <<made, used, ended>>
    BY <1>2, BindingTypes DEF Poll, Readable, github, ghosts
  <2>2. CASE ClaimPoll(me.p)
    <3>1. PICK s \in Slots : Serve(s, "ask")
      BY <1>2, <2>2 DEF Poll
    <3>2. conn' = [conn EXCEPT ![me.p].due = FALSE] /\ UNCHANGED me
      BY <1>2, <2>2 DEF Poll
    <3>3. /\ jobs'[s].p = me.p /\ jobs'[s].pc = "ask" /\ jobs[s].pc = "idle"
          /\ \A t \in Slots \ {s} : jobs'[t] = jobs[t]
      BY <2>1, <3>1, <3>2, ServeTypes
    <3>4. CASE p = me.p
      <4>1. conn[p].state = "pending" /\ conn[p].due /\ conn'[p].state = "pending" /\ ~conn'[p].due
        BY <2>2, <3>2, <3>4 DEF ClaimPoll, TypeOK, Conns
      <4>2. p \notin used /\ \A t \in Slots : ~Polling(t, p)
        BY <4>1 DEF PolledOnce
      <4>3. \A t \in Slots : Polling(t, p)' => t = s
        BY <3>3, <4>2 DEF Polling
      <4> QED
        BY <2>1, <4>1, <4>2, <4>3 DEF PolledOnce
    <3>5. CASE p # me.p
      <4>1. conn'[p] = conn[p]
        BY <3>2, <3>5 DEF TypeOK
      <4>2. \A t \in Slots : (Polling(t, p)' <=> Polling(t, p)) /\ (Asking(t, p)' <=> Asking(t, p))
        BY <3>3, <3>5 DEF Polling, Asking
      <4> QED
        BY <2>1, <4>1, <4>2, PollsFrame
    <3> QED
      BY <3>4, <3>5
  <2>3. CASE ~ClaimPoll(me.p)
    <3>1. UNCHANGED <<conn, jobs>>
      BY <1>2, <2>3 DEF Poll
    <3> QED
      BY <2>1, <3>1, PollsFrame DEF Polling, Asking
  <2> QED
    BY <2>2, <2>3
<1>3. CASE SelectReads
  <2>1. PICK s \in Slots : Serve(s, "bind")
    BY <1>3 DEF SelectReads
  <2>2. op = "idle" /\ Readable(me.p) /\ UNCHANGED <<conn, made, me, used, ended>>
    BY <1>3 DEF SelectReads, github, ghosts
  <2>3. /\ jobs'[s].p = me.p /\ jobs'[s].pc = "bind" /\ jobs[s].pc = "idle"
        /\ \A t \in Slots \ {s} : jobs'[t] = jobs[t]
    BY <2>1, <2>2, ServeTypes
  <2>4. \A t \in Slots : (Polling(t, p)' <=> Polling(t, p)) /\ (Asking(t, p)' <=> Asking(t, p))
    BY <2>3 DEF Polling, Asking
  <2> QED
    BY <2>2, <2>4, PollsFrame
<1>4. CASE Disconnect
  <2>1. /\ me.p \in Pairings /\ me.p <= made /\ Revoke(me.p)
        /\ UNCHANGED <<jobs, used>> /\ ended' = ended \cup {me.p}
    BY <1>4, BindingTypes DEF Disconnect, Readable, github
  <2>2. conn'[me.p].state = "revoked" /\ (p # me.p => conn'[p] = conn[p])
    BY <2>1, RevokeTypes
  <2> QED
    BY <2>1, <2>2, PollsFrame DEF Polling, Asking
<1>5. CASE Forgets
  <2>1. UNCHANGED <<conn, jobs, used, ended>>
    BY <1>5 DEF Forgets, broker, github, ghosts
  <2> QED
    BY <2>1, PollsFrame DEF Polling, Asking
<1> QED
  BY <1>1, <1>2, <1>3, <1>4, <1>5 DEF Console

\* What the broker does for a request, seen by the pairing of that request.
LEMMA AskPolls ==
    ASSUME TypeOK, NEW s \in Slots, PollAsk(s), NEW p \in Pairings, PolledOnce(p)
    PROVE  PolledOnce(p)'
<1> DEFINE q == jobs[s].p
<1>1. /\ jobs[s].pc = "ask" /\ q \in Pairings /\ q <= made /\ jobs[s] \in Jobs
      /\ UNCHANGED <<made, ended>>
  BY SlotTypes DEF PollAsk, ghosts
<1>2. p = q => p \notin used /\ (conn[p].state = "revoked" => p \in ended) /\ Asking(s, p) /\ Polling(s, p)
  BY <1>1 DEF PolledOnce, Asking, Polling
<1>3. p = q => \A t \in Slots \ {s} : ~Polling(t, p) /\ ~Asking(t, p)
  BY <1>2 DEF PolledOnce, Asking, Polling
<1>4. CASE UNCHANGED <<conn, used>> /\ Answered(s)
  <2>1. jobs'[s] = Nobody /\ \A t \in Slots \ {s} : jobs'[t] = jobs[t]
    BY <1>1, <1>4, AnsweredTypes DEF TypeOK
  <2>2. ~Polling(s, p)' /\ ~Asking(s, p)'
    BY <2>1, NobodyTypes DEF Polling, Asking
  <2>3. \A t \in Slots \ {s} : (Polling(t, p)' <=> Polling(t, p)) /\ (Asking(t, p)' <=> Asking(t, p))
    BY <2>1 DEF Polling, Asking
  <2>4. CASE p = q
    BY <1>1, <1>2, <1>3, <1>4, <2>2, <2>3, <2>4 DEF PolledOnce
  <2>5. CASE p # q
    <3>1. ~Polling(s, p)
      BY <2>5 DEF Polling
    <3> QED
      BY <1>1, <1>4, <2>2, <2>3, <3>1, PollsFrame
  <2> QED
    BY <2>4, <2>5
<1>5. CASE used' = used \cup {q} /\ jobs' = [jobs EXCEPT ![s].pc = "list"] /\ UNCHANGED conn
  <2>1. /\ [jobs[s] EXCEPT !.pc = "list"].p = q /\ [jobs[s] EXCEPT !.pc = "list"].pc = "list"
        /\ jobs' = [jobs EXCEPT ![s] = [jobs[s] EXCEPT !.pc = "list"]]
    BY <1>1, <1>5 DEF Jobs
  <2>2. jobs'[s].p = q /\ jobs'[s].pc = "list" /\ \A t \in Slots \ {s} : jobs'[t] = jobs[t]
    BY <2>1 DEF TypeOK
  <2>3. /\ ~Asking(s, p)' /\ (Polling(s, p)' <=> Polling(s, p))
        /\ \A t \in Slots \ {s} : (Polling(t, p)' <=> Polling(t, p)) /\ (Asking(t, p)' <=> Asking(t, p))
    BY <1>1, <2>2 DEF Polling, Asking
  <2>4. CASE p = q
    BY <1>1, <1>2, <1>3, <1>5, <2>3, <2>4 DEF PolledOnce
  <2>5. CASE p # q
    BY <1>1, <1>5, <2>3, <2>5, PollsFrame
  <2> QED
    BY <2>4, <2>5
<1>6. CASE Revoke(q) /\ Answered(s) /\ UNCHANGED used
  <2>1. /\ conn'[q].state = "revoked" /\ (p # q => conn'[p] = conn[p])
        /\ conn' \in [Pairings -> Conns]
    BY <1>1, <1>6, RevokeTypes
  <2>2. jobs'[s] = Nobody /\ \A t \in Slots \ {s} : jobs'[t] = jobs[t]
    BY <1>1, <1>6, <2>1, AnsweredTypes
  <2>3. ~Polling(s, p)' /\ ~Asking(s, p)'
    BY <2>2, NobodyTypes DEF Polling, Asking
  <2>4. \A t \in Slots \ {s} : (Polling(t, p)' <=> Polling(t, p)) /\ (Asking(t, p)' <=> Asking(t, p))
    BY <2>2 DEF Polling, Asking
  <2>5. CASE p = q
    BY <1>1, <1>2, <1>3, <1>6, <2>1, <2>3, <2>4, <2>5 DEF PolledOnce
  <2>6. CASE p # q
    <3>1. ~Polling(s, p)
      BY <2>6 DEF Polling
    <3> QED
      BY <1>1, <1>6, <2>1, <2>3, <2>4, <2>6, <3>1, PollsFrame
  <2> QED
    BY <2>5, <2>6
<1> QED
  BY <1>4, <1>5, <1>6 DEF PollAsk

\* A poll that ends, or a selection.
LEMMA ServingPolls ==
    ASSUME TypeOK, NEW s \in Slots, PollList(s) \/ SelectWrites(s) \/ PollFails(s),
           NEW p \in Pairings \ spent', PolledOnce(p)
    PROVE  PolledOnce(p)'
<1> DEFINE q == jobs[s].p
<1>1. /\ jobs[s].pc # "idle" /\ q \in Pairings /\ q <= made /\ jobs[s] \in Jobs /\ UNCHANGED ended
      /\ UNCHANGED made
  BY SlotTypes DEF PollList, SelectWrites, PollFails, ghosts
<1>2. jobs'[s] = Nobody /\ \A t \in Slots \ {s} : jobs'[t] = jobs[t]
  BY DEF PollList, Answered, SelectWrites, PollFails, TypeOK
<1>3. ~Polling(s, p)' /\ ~Asking(s, p)'
  BY <1>2, NobodyTypes DEF Polling, Asking
<1>4. \A t \in Slots \ {s} : (Polling(t, p)' <=> Polling(t, p)) /\ (Asking(t, p)' <=> Asking(t, p))
  BY <1>2 DEF Polling, Asking
<1>5. CASE PollList(s)
  <2>1. Write(q, "pending", "selecting") /\ UNCHANGED used /\ jobs[s].pc = "list"
    BY <1>5 DEF PollList, github
  <2>2. /\ conn[q].state = "pending" => conn'[q].state = "selecting"
        /\ conn[q].state # "pending" => conn'[q] = conn[q]
        /\ p # q => conn'[p] = conn[p]
    BY <1>1, <2>1, WriteTypes DEF ConnStates
  <2>3. CASE p = q
    <3>1. conn'[p].state # "pending" /\ (conn'[p].state = "revoked" => conn[p].state = "revoked")
      BY <2>2, <2>3
    <3> QED
      BY <1>1, <1>3, <1>4, <2>1, <3>1 DEF PolledOnce
  <2>4. CASE p # q
    <3>1. ~Polling(s, p)
      BY <2>4 DEF Polling
    <3> QED
      BY <1>1, <1>3, <1>4, <2>1, <2>2, <2>4, <3>1, PollsFrame
  <2> QED
    BY <2>3, <2>4
<1>6. CASE SelectWrites(s)
  <2>1. Write(q, "selecting", "connected") /\ UNCHANGED used /\ jobs[s].pc = "bind"
    BY <1>6 DEF SelectWrites, github
  <2>2. conn'[p] = conn[p] \/ conn'[p].state = "connected"
    BY <1>1, <2>1, WriteTypes DEF ConnStates
  <2>3. ~Polling(s, p)
    BY <2>1 DEF Polling
  <2> QED
    BY <1>1, <1>3, <1>4, <2>1, <2>2, <2>3, PollsFrame
<1>7. CASE PollFails(s)
  <2>1. p # q /\ used' = used \cup {q} /\ UNCHANGED conn
    BY <1>7 DEF PollFails
  <2>2. ~Polling(s, p)
    BY <2>1 DEF Polling
  <2> QED
    BY <1>1, <1>3, <1>4, <2>1, <2>2, PollsFrame
<1> QED
  BY <1>5, <1>6, <1>7

\* A pairing is also ended by a webhook, and polled less than once in an interval.
LEMMA OtherPolls ==
    ASSUME TypeOK, [Next]_vars, ~Console,
           \A s \in Slots : ~(PollAsk(s) \/ PollList(s) \/ SelectWrites(s) \/ PollFails(s)),
           NEW p \in Pairings \ spent', PolledOnce(p)
    PROVE  PolledOnce(p)'
<1>1. CASE UNCHANGED <<conn, jobs, used, ended>>
  BY <1>1, PollsFrame DEF Polling, Asking
<1>2. CASE RelayOne
  <2> DEFINE q == First(relay.rest)
  <2>1. relay.rest \in SUBSET Pairings /\ relay.rest \subseteq 1 .. made
    BY DEF TypeOK, Relays
  <2>2. q \in Pairings /\ q <= made
    BY <1>2, <2>1, FirstIsThere, BindingTypes DEF RelayOne
  <2>3. UNCHANGED <<jobs, used>>
    BY <1>2 DEF RelayOne, github
  <2>4. CASE relay.d = "removal"
    <3>1. Revoke(q) /\ ended' = ended \cup {q}
      BY <1>2, <2>4 DEF RelayOne
    <3>2. conn'[q].state = "revoked" /\ (p # q => conn'[p] = conn[p])
      BY <2>2, <3>1, RevokeTypes
    <3> QED
      BY <2>3, <3>1, <3>2, PollsFrame DEF Polling, Asking
  <2>5. CASE relay.d # "removal"
    <3>1. UNCHANGED <<conn, ended>>
      BY <1>2, <2>5 DEF RelayOne
    <3> QED
      BY <1>1, <2>3, <3>1
  <2> QED
    BY <2>4, <2>5
<1>3. CASE RelayDone \/ WebhookArrives \/ Uninstalls \/ Receiving \/ AckFails
  <2>1. UNCHANGED <<conn, jobs, used, ended>>
    BY <1>3 DEF RelayDone, WebhookArrives, Uninstalls, Receiving, Fetches, Saves, Acks, AckFails,
                broker, github, ghosts
  <2> QED
    BY <1>1, <2>1
<1>4. CASE GivesUp \/ DeploymentCrashes
  <2>1. /\ op' = "idle" /\ jobs' = [s \in Slots |-> [jobs[s] EXCEPT !.live = FALSE]]
        /\ UNCHANGED <<me, made, conn, used, ended>>
    BY <1>4 DEF GivesUp, DeploymentCrashes, github, ghosts
  <2>2. \A s \in Slots : jobs'[s].p = jobs[s].p /\ jobs'[s].pc = jobs[s].pc
    BY <2>1, DroppedTypes
  <2> QED
    BY <2>1, <2>2, PollsFrame DEF Polling, Asking
<1>5. CASE BrokerCrashes
  <2>1. /\ jobs' = [s \in Slots |-> Nobody] /\ UNCHANGED <<conn, used, ended>>
        /\ \A s \in Slots : jobs[s].pc = "list" => jobs[s].p # p
    BY <1>5 DEF BrokerCrashes, github
  <2>2. \A s \in Slots : ~Polling(s, p)' /\ ~Asking(s, p)'
    BY <2>1, NobodyTypes DEF Polling, Asking
  <2>3. ~(conn[p].state = "pending" /\ p \in used)
    BY <2>1 DEF PolledOnce, Polling, Asking
  <2> QED
    BY <2>1, <2>2, <2>3 DEF PolledOnce
<1>6. ASSUME NEW q \in Pairings, PollDue(q) \/ Expires(q) \/ \E d \in Deliveries : Lapses(q, d)
      PROVE  PolledOnce(p)'
  <2>1. UNCHANGED <<jobs, used, ended>>
    BY <1>6 DEF PollDue, Expires, Lapses, github, ghosts
  <2>2. conn \in [Pairings -> Conns]
    BY DEF TypeOK
  <2>3. CASE PollDue(q) /\ p = q
    <3>1. conn'[p].state = "pending" /\ conn[p].state = "pending"
      BY <2>2, <2>3 DEF PollDue, Conns
    <3>2. \A s \in Slots : ~(jobs[s].p = p /\ jobs[s].pc # "idle")
      BY <2>3 DEF PollDue
    <3>3. \A s \in Slots : ~Polling(s, p)' /\ ~Asking(s, p)' /\ ~Polling(s, p)
      BY <2>1, <3>2 DEF Polling, Asking
    <3> QED
      BY <2>1, <3>1, <3>3 DEF PolledOnce
  <2>4. CASE PollDue(q) /\ p # q
    <3>1. conn'[p] = conn[p]
      BY <2>2, <2>4 DEF PollDue
    <3> QED
      BY <2>1, <3>1, PollsFrame DEF Polling, Asking
  <2>5. CASE Expires(q)
    <3>1. conn'[p].state = conn[p].state /\ conn'[p].due = conn[p].due
      BY <2>2, <2>5 DEF Expires, Conns
    <3> QED
      BY <2>1, <3>1, PollsFrame DEF Polling, Asking
  <2>6. CASE \E d \in Deliveries : Lapses(q, d)
    <3>1. UNCHANGED conn
      BY <2>6 DEF Lapses
    <3> QED
      BY <1>1, <2>1, <3>1
  <2> QED
    BY <1>6, <2>3, <2>4, <2>5, <2>6
<1>7. CASE UNCHANGED vars
  BY <1>1, <1>7 DEF vars, broker, github, ghosts
<1> QED
  BY <1>2, <1>3, <1>4, <1>5, <1>6, <1>7 DEF Next, Serving, Relaying

\* Every step keeps the pairings polled by one request at a time.
LEMMA PollsKept ==
    ASSUME TypeOK, PollsAreSpent, [Next]_vars
    PROVE  PollsAreSpent'
<1>1. spent \subseteq spent'
  <2>1. CASE \E s \in Slots : PollFails(s)
    BY <2>1 DEF PollFails
  <2>2. CASE BrokerCrashes
    BY <2>2 DEF BrokerCrashes
  <2>3. CASE \E p \in Pairings : PollDue(p)
    BY <2>3 DEF PollDue
  <2>4. CASE Console \/ Relaying \/ Receiving \/ GivesUp \/ AckFails
    BY <2>4 DEF Console, Begin, Poll, SelectReads, Disconnect, Forgets, Relaying, RelayOne, RelayDone,
                Receiving, Fetches, Saves, Acks, GivesUp, AckFails, ghosts
  <2>5. CASE Serving \/ DeploymentCrashes \/ Uninstalls \/ WebhookArrives \/ UNCHANGED vars
    BY <2>5 DEF Serving, PollAsk, PollList, SelectWrites, DeploymentCrashes, Uninstalls,
                WebhookArrives, vars, ghosts
  <2>6. CASE \E p \in Pairings : Expires(p) \/ \E d \in Deliveries : Lapses(p, d)
    BY <2>6 DEF Expires, Lapses, ghosts
  <2> QED
    BY <2>1, <2>2, <2>3, <2>4, <2>5, <2>6 DEF Next
<1>2. SUFFICES ASSUME NEW p \in Pairings \ spent' PROVE PolledOnce(p)'
  BY DEF PollsAreSpent
<1>3. PolledOnce(p)
  BY <1>1 DEF PollsAreSpent
<1>4. CASE Console
  BY <1>3, <1>4, ConsolePolls
<1>5. CASE \E s \in Slots : PollAsk(s) \/ PollList(s) \/ SelectWrites(s) \/ PollFails(s)
  BY <1>3, <1>5, AskPolls, ServingPolls
<1> QED
  BY <1>3, <1>4, <1>5, OtherPolls

-------------------------------------------------------------------------------
(* Connections, and the removal of the App                                     *)

\* The one step a connection takes: on from where it is, to its end, or out of the table.
ConnSteps(p) ==
    \/ conn'[p].state \in {conn[p].state, "revoked", "none"}
    \/ conn[p].state = "none" /\ conn'[p].state = "pending"
    \/ conn[p].state = "pending" /\ conn'[p].state = "selecting"
    \/ /\ conn[p].state = "selecting" /\ conn'[p].state = "connected"
       /\ \E s \in Slots : jobs[s].pc = "bind" /\ jobs[s].p = p

\* No other step is taken, by whichever request that read the connection earlier.
LEMMA ConnectionSteps ==
    ASSUME TypeOK, [Next]_vars, NEW p \in Pairings
    PROVE  ConnSteps(p)
<1>0. conn \in [Pairings -> Conns] /\ conn[p] \in Conns
  BY DEF TypeOK
<1>1. CASE UNCHANGED conn
  BY <1>1 DEF ConnSteps
<1>2. ASSUME NEW q \in Pairings, q <= made, Revoke(q) PROVE ConnSteps(p)
  <2>1. conn'[q].state = "revoked" /\ (p # q => conn'[p] = conn[p])
    BY <1>2, RevokeTypes
  <2> QED
    BY <2>1 DEF ConnSteps
<1>3. CASE Console
  <2>1. CASE Begin
    <3>1. CASE p = made + 1
      <4>1. p > made /\ conn'[p] = [state |-> "pending", fresh |-> TRUE, due |-> FALSE]
        BY <2>1, <3>1, BindingTypes DEF Begin
      <4>2. conn[p].state = "none"
        BY <4>1 DEF TypeOK
      <4> QED
        BY <4>1, <4>2 DEF ConnSteps
    <3>2. CASE p # made + 1
      <4>1. conn'[p] = conn[p] \/ conn'[p] = [conn[p] EXCEPT !.state = "none"]
        BY <2>1, <3>2 DEF Begin
      <4> QED
        BY <1>0, <4>1 DEF ConnSteps, Conns
    <3> QED
      BY <3>1, <3>2
  <2>2. CASE Poll
    <3>1. UNCHANGED conn \/ conn' = [conn EXCEPT ![me.p].due = FALSE]
      BY <2>2 DEF Poll
    <3>2. conn'[p].state = conn[p].state
      BY <1>0, <3>1 DEF Conns
    <3> QED
      BY <3>2 DEF ConnSteps
  <2>3. CASE Disconnect
    <3>1. me.p \in Pairings /\ me.p <= made /\ Revoke(me.p)
      BY <2>3, BindingTypes DEF Disconnect, Readable
    <3> QED
      BY <1>2, <3>1
  <2>4. CASE SelectReads \/ Forgets
    BY <1>1, <2>4 DEF SelectReads, Forgets, broker
  <2> QED
    BY <1>3, <2>1, <2>2, <2>3, <2>4 DEF Console
<1>4. ASSUME NEW s \in Slots, PollAsk(s) \/ PollList(s) \/ SelectWrites(s) \/ PollFails(s)
      PROVE  ConnSteps(p)
  <2> DEFINE q == jobs[s].p
  <2>1. jobs[s].pc # "idle" /\ q \in Pairings /\ q <= made
    BY <1>4, SlotTypes DEF PollAsk, PollList, SelectWrites, PollFails
  <2>2. CASE PollAsk(s) \/ PollFails(s)
    <3>1. UNCHANGED conn \/ Revoke(q)
      BY <2>2 DEF PollAsk, PollFails
    <3> QED
      BY <1>1, <1>2, <2>1, <3>1
  <2>3. CASE PollList(s)
    <3>1. Write(q, "pending", "selecting")
      BY <2>3 DEF PollList
    <3> QED
      BY <2>1, <3>1, WriteTypes DEF ConnStates, ConnSteps
  <2>4. CASE SelectWrites(s)
    <3>1. Write(q, "selecting", "connected") /\ jobs[s].pc = "bind"
      BY <2>4 DEF SelectWrites
    <3> QED
      BY <2>1, <3>1, WriteTypes DEF ConnStates, ConnSteps
  <2> QED
    BY <1>4, <2>2, <2>3, <2>4
<1>5. CASE RelayOne
  <2> DEFINE q == First(relay.rest)
  <2>1. relay.rest \in SUBSET Pairings /\ relay.rest \subseteq 1 .. made
    BY DEF TypeOK, Relays
  <2>2. q \in Pairings /\ q <= made
    BY <1>5, <2>1, FirstIsThere, BindingTypes DEF RelayOne
  <2>3. UNCHANGED conn \/ Revoke(q)
    BY <1>5 DEF RelayOne
  <2> QED
    BY <1>1, <1>2, <2>2, <2>3
<1>6. CASE RelayDone \/ WebhookArrives \/ Uninstalls \/ Receiving \/ AckFails
  BY <1>1, <1>6 DEF RelayDone, WebhookArrives, Uninstalls, Receiving, Fetches, Saves, Acks, AckFails, broker
<1>7. CASE GivesUp \/ DeploymentCrashes \/ BrokerCrashes
  BY <1>1, <1>7 DEF GivesUp, DeploymentCrashes, BrokerCrashes
<1>8. ASSUME NEW q \in Pairings, PollDue(q) \/ Expires(q) \/ \E d \in Deliveries : Lapses(q, d)
      PROVE  ConnSteps(p)
  <2>1. \/ UNCHANGED conn
        \/ conn' = [conn EXCEPT ![q].due = TRUE] \/ conn' = [conn EXCEPT ![q].fresh = FALSE]
    BY <1>8 DEF PollDue, Expires, Lapses
  <2>2. conn'[p].state = conn[p].state
    BY <1>0, <2>1 DEF Conns
  <2> QED
    BY <2>2 DEF ConnSteps
<1>9. CASE UNCHANGED vars
  BY <1>1, <1>9 DEF vars, broker
<1> QED
  BY <1>3, <1>4, <1>5, <1>6, <1>7, <1>8, <1>9 DEF Next, Serving, Relaying

\* A selection begins only where the App is installed, and keeps its connection.
LEMMA BindSteps ==
    ASSUME TypeOK, [Next]_vars, ~installed, NEW s \in Slots, jobs'[s].pc = "bind"
    PROVE  jobs[s].pc = "bind" /\ jobs'[s].p = jobs[s].p
<1>1. CASE UNCHANGED jobs
  BY <1>1
<1>2. CASE Console
  <2>1. CASE Poll
    <3>1. CASE ClaimPoll(me.p)
      <4>1. PICK t \in Slots : Serve(t, "ask")
        BY <2>1, <3>1 DEF Poll
      <4>2. op = "idle" /\ Readable(me.p) /\ UNCHANGED <<me, made>>
        BY <2>1, <3>1 DEF Poll
      <4>3. jobs'[t].pc = "ask" /\ \A u \in Slots \ {t} : jobs'[u] = jobs[u]
        BY <4>1, <4>2, ServeTypes
      <4> QED
        BY <4>3
    <3> QED
      BY <1>1, <2>1, <3>1 DEF Poll
  <2>2. CASE Begin \/ Disconnect \/ Forgets
    BY <1>1, <2>2 DEF Begin, Disconnect, Forgets, broker
  <2> QED
    BY <1>2, <2>1, <2>2 DEF Console, SelectReads
<1>3. ASSUME NEW t \in Slots, PollAsk(t) \/ PollList(t) \/ SelectWrites(t) \/ PollFails(t)
      PROVE  jobs[s].pc = "bind" /\ jobs'[s].p = jobs[s].p
  <2>1. CASE jobs' = [jobs EXCEPT ![t] = Nobody]
    <3>1. jobs'[t] = Nobody /\ \A u \in Slots \ {t} : jobs'[u] = jobs[u]
      BY <2>1 DEF TypeOK
    <3> QED
      BY <3>1, NobodyTypes
  <2>2. CASE jobs' = [jobs EXCEPT ![t].pc = "list"]
    <3>1. \A u \in Slots \ {t} : jobs'[u] = jobs[u]
      BY <2>2 DEF TypeOK
    <3>2. jobs'[t].pc = "list"
      BY <2>2 DEF TypeOK, Jobs
    <3> QED
      BY <3>1, <3>2
  <2> QED
    BY <1>3, <2>1, <2>2 DEF PollAsk, PollList, Answered, SelectWrites, PollFails
<1>4. CASE Relaying \/ WebhookArrives \/ Uninstalls \/ Receiving \/ AckFails
  BY <1>1, <1>4 DEF Relaying, RelayOne, RelayDone, WebhookArrives, Uninstalls, Receiving, Fetches, Saves,
                    Acks, AckFails, broker
<1>5. CASE GivesUp \/ DeploymentCrashes
  <2>1. jobs[s] \in Jobs /\ jobs'[s] = [jobs[s] EXCEPT !.live = FALSE]
    BY <1>5 DEF GivesUp, DeploymentCrashes, TypeOK
  <2> QED
    BY <2>1 DEF Jobs
<1>6. CASE BrokerCrashes
  BY <1>6, NobodyTypes DEF BrokerCrashes
<1>7. ASSUME NEW p \in Pairings, PollDue(p) \/ Expires(p) \/ \E d \in Deliveries : Lapses(p, d)
      PROVE  UNCHANGED jobs
  BY <1>7 DEF PollDue, Expires, Lapses
<1>8. CASE UNCHANGED vars
  BY <1>1, <1>8 DEF vars, broker
<1> QED
  BY <1>1, <1>2, <1>3, <1>4, <1>5, <1>6, <1>7, <1>8 DEF Next, Serving

\* Every step keeps the removal on its way to each connection.
LEMMA RemovalKept ==
    ASSUME TypeOK, RemovalReaches, [Next]_vars
    PROVE  RemovalReaches'
<1> DEFINE Before == removed \/ relay.d = "removal"
           Reaches(p) == p \in crossed \/ (~removed /\ p \in relay.rest)
<1>1. \A p \in Pairings :
         conn'[p].state = "connected" =>
             conn[p].state = "connected" \/ \E s \in Slots : jobs[s].pc = "bind" /\ jobs[s].p = p
  BY ConnectionSteps DEF ConnSteps
<1>2. Before =>
        /\ ~installed /\ ~installed'
        /\ \A s \in Slots : jobs'[s].pc = "bind" => jobs'[s].p \in crossed
        /\ \A p \in Pairings : conn'[p].state = "connected" => Reaches(p)
  <2>1. SUFFICES ASSUME Before
                 PROVE  /\ ~installed /\ ~installed'
                        /\ \A s \in Slots : jobs'[s].pc = "bind" => jobs'[s].p \in crossed
                        /\ \A p \in Pairings : conn'[p].state = "connected" => Reaches(p)
    OBVIOUS
  <2>2. ~installed
    BY <2>1 DEF RemovalReaches
  <2>3. ~installed'
    <3>1. CASE Console \/ Serving \/ Relaying \/ Receiving
      BY <2>2, <3>1 DEF Console, Begin, Poll, SelectReads, Disconnect, Forgets, Serving, PollAsk, PollList,
                        SelectWrites, Relaying, RelayOne, RelayDone, Receiving, Fetches, Saves, Acks, github
    <3>2. CASE \/ GivesUp \/ AckFails \/ DeploymentCrashes \/ BrokerCrashes \/ Uninstalls \/ WebhookArrives
               \/ \E s \in Slots : PollFails(s)
      BY <2>2, <3>2 DEF GivesUp, AckFails, DeploymentCrashes, BrokerCrashes, Uninstalls, WebhookArrives,
                        PollFails, github
    <3>3. CASE \E p \in Pairings : PollDue(p) \/ Expires(p) \/ \E d \in Deliveries : Lapses(p, d)
      BY <2>2, <3>3 DEF PollDue, Expires, Lapses, github
    <3> QED
      BY <2>2, <3>1, <3>2, <3>3 DEF Next, vars, github
  <2>4. \A s \in Slots : jobs'[s].pc = "bind" => jobs'[s].p \in crossed
    BY <2>1, <2>2, BindSteps DEF RemovalReaches
  <2>5. \A p \in Pairings : conn'[p].state = "connected" => Reaches(p)
    BY <1>1, <2>1 DEF RemovalReaches
  <2> QED
    BY <2>2, <2>3, <2>4, <2>5
<1> HIDE DEF Before
<1>3. CASE UNCHANGED <<relay, removed, crossed>>
  BY <1>2, <1>3 DEF Before, RemovalReaches
<1>4. CASE RelayOne
  <2> DEFINE q == First(relay.rest)
  <2>1. relay.rest \in SUBSET Pairings /\ relay.rest \subseteq 1 .. made /\ relay \in Relays
    BY DEF TypeOK, Relays
  <2>2. q \in Pairings /\ q <= made
    BY <1>4, <2>1, FirstIsThere, BindingTypes DEF RelayOne
  <2>3. UNCHANGED <<removed, crossed>>
    BY <1>4 DEF RelayOne
  <2>4. CASE relay.d = "removal"
    <3>1. Revoke(q) /\ relay' = [relay EXCEPT !.rest = relay.rest \ {q}]
      BY <1>4, <2>4 DEF RelayOne
    <3>2. relay'.rest = relay.rest \ {q}
      BY <2>1, <3>1 DEF Relays
    <3>3. conn'[q].state # "connected"
      BY <2>2, <3>1, RevokeTypes
    <3> QED
      BY <1>2, <2>3, <2>4, <3>2, <3>3 DEF Before, RemovalReaches
  <2>5. CASE relay.d # "removal"
    <3>1. relay'.d # "removal"
      BY <1>4, <2>1, <2>5, NobodyTypes DEF RelayOne, Relays
    <3> QED
      BY <1>2, <2>3, <2>5, <3>1 DEF Before, RemovalReaches
  <2> QED
    BY <2>4, <2>5
<1>5. CASE RelayDone
  <2>1. relay.rest = {} /\ removed' = (removed \/ relay.d = "removal") /\ relay'.d = "none" /\ UNCHANGED crossed
    BY <1>5, NobodyTypes DEF RelayDone
  <2> QED
    BY <1>2, <2>1 DEF Before, RemovalReaches
<1>6. CASE WebhookArrives
  <2>1. PICK d \in Deliveries \cup (IF installed THEN {} ELSE {"removal"}) :
          /\ relay' = [d |-> d, rest |-> {p \in Pairings : conn[p].state = "connected"}]
          /\ crossed' = IF d # "removal" THEN crossed
                        ELSE crossed \cup {jobs[s].p : s \in {x \in Slots : jobs[x].pc = "bind"}}
    BY <1>6 DEF WebhookArrives
  <2>2. UNCHANGED <<conn, jobs, installed, removed>> /\ relay.d = "none"
    BY <1>6, NobodyTypes DEF WebhookArrives, github
  <2>3. relay'.d = d /\ relay'.rest = {p \in Pairings : conn[p].state = "connected"} /\ crossed \subseteq crossed'
    BY <2>1
  <2>4. CASE d = "removal"
    <3>1. /\ ~installed
          /\ \A s \in Slots : jobs[s].pc = "bind" => jobs[s].p \in crossed'
      BY <2>1, <2>4, Bounds
    <3>2. removed => \A p \in Pairings : conn'[p].state = "connected" => p \in crossed
      BY <1>2 DEF Before
    <3> QED
      BY <2>2, <2>3, <3>1, <3>2 DEF RemovalReaches
  <2>5. CASE d # "removal"
    <3>1. crossed' = crossed
      BY <2>1, <2>5
    <3>2. removed => \A p \in Pairings : conn'[p].state = "connected" => p \in crossed
      BY <1>2 DEF Before
    <3> QED
      BY <1>2, <2>2, <2>3, <2>5, <3>1, <3>2 DEF Before, RemovalReaches
  <2> QED
    BY <2>4, <2>5
<1>7. CASE BrokerCrashes
  <2>1. relay'.d = "none" /\ UNCHANGED <<removed, crossed>>
    BY <1>7, NobodyTypes DEF BrokerCrashes
  <2> QED
    BY <1>2, <2>1 DEF Before, RemovalReaches
<1>8. CASE Console \/ Serving \/ Receiving \/ GivesUp \/ AckFails \/ DeploymentCrashes \/ Uninstalls
  BY <1>3, <1>8 DEF Console, Begin, Poll, SelectReads, Disconnect, Forgets, Serving, PollAsk, PollList, SelectWrites,
                    Receiving, Fetches, Saves, Acks, GivesUp, AckFails, DeploymentCrashes, Uninstalls, broker, ghosts
<1>9. CASE \/ \E s \in Slots : PollFails(s)
           \/ \E p \in Pairings : PollDue(p) \/ Expires(p) \/ \E d \in Deliveries : Lapses(p, d)
           \/ UNCHANGED vars
  BY <1>3, <1>9 DEF PollFails, PollDue, Expires, Lapses, vars, broker, ghosts
<1> QED
  BY <1>4, <1>5, <1>6, <1>7, <1>8, <1>9 DEF Next, Relaying

-------------------------------------------------------------------------------
(* Theorems                                                                    *)

\* The inductive invariant holds at first.
LEMMA InitIInv == Init => IInv
<1> SUFFICES ASSUME Init PROVE IInv
  OBVIOUS
<1>1. TypeOK
  <2>1. [state |-> "none", fresh |-> FALSE, due |-> FALSE] \in Conns
    BY DEF Conns, ConnStates
  <2>2. conn \in [Pairings -> Conns] /\ \A p \in Pairings : conn[p].state = "none"
    BY <2>1 DEF Init
  <2>3. /\ box \in [Pairings -> Seq(Deliveries)] /\ acked \in [Pairings -> SUBSET Deliveries]
        /\ \A p \in Pairings :
              Waiting(p) \cap acked[p] = {} /\ IsInjective(box[p]) /\ Len(box[p]) <= BoxLimit
    <3>1. <<>> \in Seq(Deliveries) /\ IsInjective(<<>>) /\ Len(<<>>) <= BoxLimit
      BY Bounds DEF IsInjective
    <3> QED
      BY <3>1 DEF Init
  <2>4. jobs \in [Slots -> Jobs] /\ \A s \in Slots : jobs[s] = Nobody
    BY NobodyTypes DEF Init
  <2>5. me \in Bindings /\ me.p = 0
    BY DEF Init, Bindings
  <2>6. recv \in Receipts /\ recv.pc = "idle"
    <3>1. <<>> \in Seq(Deliveries)
      OBVIOUS
    <3> QED
      BY <3>1 DEF Init, Receipts
  <2>7. /\ made = 0 /\ made \in 0 .. MaxPairings /\ used = {} /\ installed \in BOOLEAN /\ op = "idle"
        /\ saved = {} /\ relays \in 0 .. MaxRelays /\ mishaps \in 0 .. MaxMishaps /\ relay = Quiet
    BY Bounds DEF Init
  <2> QED
    BY <2>2, <2>3, <2>4, <2>5, <2>6, <2>7, NobodyTypes DEF TypeOK
<1>2. AckedIsSaved /\ HeadIsSaved
  BY DEF Init, AckedIsSaved, HeadIsSaved
<1>3. PollsAreSpent
  BY NobodyTypes DEF Init, PollsAreSpent, PolledOnce, Polling, Asking
<1>4. RemovalReaches
  BY NobodyTypes DEF Init, RemovalReaches
<1> QED
  BY <1>1, <1>2, <1>3, <1>4 DEF IInv

\* Every step keeps the inductive invariant.
LEMMA NextIInv == IInv /\ [Next]_vars => IInv'
BY TypesKept, SavedKept, PollsKept, RemovalKept DEF IInv

\* The inductive invariant of the relay.
THEOREM Invariance == Spec => []IInv
BY InitIInv, NextIInv, PTL DEF Spec

\* The relay is well typed; no delivery is twice in a mailbox, or in it once it was
\* acknowledged, a mailbox keeps its limit, and the console waits for one request at most.
THEOREM TypeCorrect == Spec => []TypeOK
<1>1. IInv => TypeOK
  BY DEF IInv
<1> QED
  BY <1>1, Invariance, PTL

\* The broker never forgets a delivery that the deployment has not saved, whichever
\* credential the acknowledgement is sent with, through crashes and lost answers.
THEOREM SavedFirst == Spec => []AckedIsSaved
<1>1. IInv => AckedIsSaved
  BY DEF IInv
<1> QED
  BY <1>1, Invariance, PTL

\* The device flow takes back no pairing that its owner confirmed, unless a poll failed
\* after the answer or was still at GitHub when the next one was due.
THEOREM ConfirmedStays == Spec => []ConfirmedSurvives
<1>1. IInv => ConfirmedSurvives
  BY DEF IInv, PollsAreSpent, PolledOnce, ConfirmedSurvives
<1> QED
  BY <1>1, Invariance, PTL

\* Once the removal of the App was relayed no connection is usable, but for one that was
\* being selected when the removal arrived.
THEOREM RemovalIsDone == Spec => []RemovalRevokes
<1>1. IInv => RemovalRevokes
  BY DEF IInv, RemovalReaches, RemovalRevokes
<1> QED
  BY <1>1, Invariance, PTL

\* No request that read a connection before it was revoked brings it back.
THEOREM RevokedStays == Spec => RevokedIsFinal
<1>1. IInv /\ [Next]_vars =>
         [\A p \in Pairings : conn[p].state = "revoked" => conn'[p].state \in {"revoked", "none"}]_vars
  BY ConnectionSteps DEF IInv, ConnSteps
<1> QED
  BY <1>1, Invariance, PTL DEF Spec, RevokedIsFinal
================================================================================
