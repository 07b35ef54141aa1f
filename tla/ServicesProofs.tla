---------------------------- MODULE ServicesProofs ----------------------------
(* The row of a service, for any set of requests and any values of the bounds. *)
EXTENDS Services, TLAPS

\* Who is about to save a row that it has read.
Holding(a) == act[a].pc \in {"rotate", "patch", "save"}

\* A row exists from its one registration on, and nobody holds one before.
RowIsRegistered ==
    /\ registered = (IF row.key = 0 THEN 0 ELSE 1)
    /\ row.key = 0 => keys = 0 /\ \A a \in Actors : ~Holding(a)

\* Every key was asked for: a rotation that is under way has its request still to
\* use, and a registration makes the first key or none.
KeysAreRequested ==
    /\ keys <= requests /\ (~LoopFree => keys < requests)
    /\ \A a \in Actors : act[a].pc # "idle" /\ a # "reload" => requests > 0
    /\ overlaps <= keys
    /\ \A a \in Actors : act[a].snap.key <= keys

\* What the thread at work may be at, and that the event loop runs one rotation.
ThreadsMatch ==
    /\ act["reload"].pc \in {"idle", "read", "save"}
    /\ act["reload"].pc # "idle" => act["reload"].file > 0
    /\ \A r \in Requests : act[r].pc \in {"idle", "register", "rotate", "patch"}
    /\ \A r, s \in Requests : act[r].pc = "rotate" /\ act[s].pc = "rotate" => r = s

\* As long as no rotation overlapped an edit or the reload pass, a row that is held
\* has the newest key, and so has the one that is stored.
HeldRowIsNewest ==
    overlaps = 0 => /\ row.key = keys
                    /\ \A a \in Actors : Holding(a) => act[a].snap.key = keys

IInv ==
    /\ TypeOK
    /\ RowIsRegistered /\ KeysAreRequested /\ ThreadsMatch /\ HeldRowIsNewest

\* The first state satisfies the inductive invariant.
LEMMA InitIInv == Init => IInv
<1> SUFFICES ASSUME Init PROVE IInv
  OBVIOUS
<1> USE ServicesAssumption DEF Init, Idle, NoRow, Actors
<1>1. TypeOK
  <2>1. NoRow \in Rows
    BY DEF Rows, Configs
  <2> QED
    BY <2>1 DEF TypeOK, Acts
<1>2. RowIsRegistered /\ ThreadsMatch
  BY DEF RowIsRegistered, ThreadsMatch, Holding
<1>3. KeysAreRequested /\ HeldRowIsNewest
  BY DEF KeysAreRequested, HeldRowIsNewest, Holding, LoopFree
<1> QED
  BY <1>1, <1>2, <1>3 DEF IInv

\* What the records of the threads are made of.
LEMMA Types ==
    ASSUME TypeOK, NEW a \in Actors
    PROVE  /\ Idle \in Acts /\ Idle.pc = "idle" /\ Idle.file = 0 /\ Idle.snap.key = 0
           /\ act[a].snap \in Rows /\ act[a].file \in 0 .. MaxEdits
           /\ row.key \in Nat /\ act[a].snap.key \in Nat
<1>1. Idle \in Acts /\ Idle.pc = "idle" /\ Idle.file = 0 /\ Idle.snap.key = 0
  BY ServicesAssumption DEF Idle, Acts, NoRow, Rows, Configs
<1>2. act[a] \in Acts /\ row \in Rows
  BY DEF TypeOK
<1>3. act[a].snap \in Rows /\ act[a].file \in 0 .. MaxEdits
  BY <1>2 DEF Acts
<1> QED
  BY <1>1, <1>2, <1>3, ServicesAssumption DEF Rows

\* A request that arrives holds the row as it is now, or nothing yet.
LEMMA ArrivesKeeps ==
    ASSUME IInv, NEW r \in Requests,
           RegisterArrives(r) \/ RotateReads(r) \/ PatchReads(r)
    PROVE  IInv'
<1> USE ServicesAssumption DEF IInv, Actors
<1>1. /\ LoopFree /\ act[r].pc = "idle"
      /\ requests < MaxRequests /\ requests' = requests + 1
      /\ UNCHANGED <<row, keys, registered, yml, overlaps>>
  BY DEF RegisterArrives, RotateReads, PatchReads, Arrives
<1>2. PICK new \in Acts : /\ act' = [act EXCEPT ![r] = new]
                          /\ new.pc \in {"register", "rotate", "patch"}
                          /\ new.pc # "register" => row.key > 0
                          /\ new.snap = row /\ new.file = act[r].file
  <2>1. PICK pc \in {"register", "rotate", "patch"} :
                Holds(r, pc) /\ (pc # "register" => row.key > 0)
    BY DEF RegisterArrives, RotateReads, PatchReads
  <2> DEFINE new == [act[r] EXCEPT !.pc = pc, !.snap = row]
  <2>2. act[r] \in Acts /\ row \in Rows
    BY DEF TypeOK
  <2>3. new \in Acts /\ new.pc = pc /\ new.snap = row /\ new.file = act[r].file
    BY <2>2 DEF Acts
  <2>4. act' = [act EXCEPT ![r] = new]
    BY <2>1 DEF Holds
  <2> HIDE DEF new
  <2> QED
    BY <2>1, <2>3, <2>4
<1>3. TypeOK'
  BY <1>1, <1>2 DEF TypeOK
<1>4. RowIsRegistered' /\ HeldRowIsNewest'
  BY <1>1, <1>2 DEF TypeOK, RowIsRegistered, HeldRowIsNewest, Holding
<1>5. KeysAreRequested'
  BY <1>1, <1>2 DEF TypeOK, KeysAreRequested, LoopFree
<1>6. ThreadsMatch'
  BY <1>1, <1>2 DEF TypeOK, ThreadsMatch, LoopFree
<1> QED
  BY <1>3, <1>4, <1>5, <1>6

\* A registration makes the first key and the row, when there is none.
LEMMA RegistersKeeps ==
    ASSUME IInv, NEW r \in Requests, Registers(r)
    PROVE  IInv'
<1> USE ServicesAssumption DEF IInv, Actors
<1>1. /\ act' = [act EXCEPT ![r] = Idle] /\ Idle \in Acts /\ Idle.pc = "idle" /\ Idle.file = 0 /\ Idle.snap.key = 0
      /\ act[r].pc = "register" /\ LoopFree /\ requests > 0
      /\ UNCHANGED <<yml, requests, overlaps>>
  BY Types DEF Registers, Rests, KeysAreRequested
<1>2. CASE row.key # 0
  BY <1>1, <1>2 DEF Registers, TypeOK, RowIsRegistered, HeldRowIsNewest, Holding,
                    KeysAreRequested, LoopFree, ThreadsMatch
<1>3. CASE row.key = 0
  <2>1. /\ row'.key = 1 /\ row' \in Rows /\ keys = 0 /\ keys' = 1
        /\ registered = 0 /\ registered' = 1
    <3>1. <<"default", 0>> \in Configs
      BY DEF Configs
    <3>2. keys = 0 /\ registered = 0 /\ MaxRequests > 0
      BY <1>1, <1>3 DEF RowIsRegistered, TypeOK
    <3> QED
      BY <1>3, <3>1, <3>2 DEF Registers, Rows
  <2>2. TypeOK'
    BY <1>1, <2>1 DEF TypeOK
  <2>3. RowIsRegistered' /\ HeldRowIsNewest'
    BY <1>1, <1>3, <2>1 DEF TypeOK, RowIsRegistered, HeldRowIsNewest, Holding
  <2>4. KeysAreRequested'
    <3>1. \A a \in Actors : act'[a].snap.key = 0
      BY <1>1, <2>1, Types DEF TypeOK, KeysAreRequested
    <3> QED
      BY <1>1, <2>1, <3>1 DEF TypeOK, KeysAreRequested, LoopFree
  <2>5. ThreadsMatch'
    BY <1>1 DEF TypeOK, ThreadsMatch
  <2> QED
    BY <2>2, <2>3, <2>4, <2>5
<1> QED
  BY <1>2, <1>3

\* A rotation saves a new key; whoever holds an older row is counted as an overlap.
LEMMA RotateSavesKeeps ==
    ASSUME IInv, NEW r \in Requests, RotateSaves(r)
    PROVE  IInv'
<1> USE ServicesAssumption DEF IInv, Actors
<1>1. /\ act' = [act EXCEPT ![r] = Idle] /\ Idle \in Acts /\ Idle.pc = "idle" /\ Idle.file = 0 /\ Idle.snap.key = 0
      /\ act[r].pc = "rotate" /\ ~LoopFree /\ act[r].snap \in Rows
      /\ keys' = keys + 1
      /\ overlaps' = IF HeldByOthers(r) THEN overlaps + 1 ELSE overlaps
      /\ UNCHANGED <<registered, yml, requests>>
  BY Types DEF RotateSaves, Rests, LoopFree
<1>2. keys < requests
  BY <1>1 DEF KeysAreRequested, TypeOK
<1>3. row' \in Rows /\ row'.key = keys + 1
  BY <1>1, <1>2 DEF RotateSaves, Rows, TypeOK
<1>4. TypeOK'
  BY <1>1, <1>2, <1>3 DEF TypeOK, KeysAreRequested
<1>5. RowIsRegistered'
  BY <1>1, <1>3 DEF TypeOK, RowIsRegistered, Holding
<1>6. KeysAreRequested'
  <2>1. LoopFree'
    BY <1>1 DEF LoopFree, ThreadsMatch, TypeOK
  <2>2. \A a \in Actors : act'[a].snap.key <= keys'
    BY <1>1, Types DEF TypeOK, KeysAreRequested
  <2> QED
    BY <1>1, <1>2, <2>1, <2>2 DEF TypeOK, KeysAreRequested
<1>7. ThreadsMatch'
  BY <1>1 DEF TypeOK, ThreadsMatch
<1>8. HeldRowIsNewest'
  <2>1. ~HeldByOthers(r) => \A a \in Actors : ~Holding(a)'
    BY <1>1 DEF HeldByOthers, Holding, ThreadsMatch, TypeOK
  <2>2. HeldByOthers(r) => overlaps' > 0
    BY <1>1 DEF TypeOK
  <2> QED
    BY <1>1, <1>3, <2>1, <2>2 DEF HeldRowIsNewest
<1> QED
  BY <1>4, <1>5, <1>6, <1>7, <1>8

\* An edit saves the row that was read with another config, and its key.
LEMMA PatchSavesKeeps ==
    ASSUME IInv, NEW r \in Requests, PatchSaves(r)
    PROVE  IInv'
<1> USE ServicesAssumption DEF IInv, Actors
<1>1. /\ act' = [act EXCEPT ![r] = Idle] /\ Idle \in Acts /\ Idle.pc = "idle" /\ Idle.file = 0 /\ Idle.snap.key = 0
      /\ act[r].pc = "patch" /\ act[r].snap \in Rows
      /\ row.key \in Nat /\ act[r].snap.key \in Nat /\ act[r].snap.key <= keys
      /\ UNCHANGED <<keys, registered, yml, requests, overlaps>>
  BY Types DEF PatchSaves, Rests, KeysAreRequested
<1>2. row' \in Rows /\ row'.key \in {row.key, act[r].snap.key}
  <2>1. requests \in 1 .. MaxRequests
    BY <1>1 DEF KeysAreRequested, TypeOK
  <2>2. <<"dashboard", requests>> \in Configs
    BY <2>1 DEF Configs
  <2> QED
    BY <1>1, <2>2 DEF PatchSaves, Rows, TypeOK
<1>3. TypeOK'
  BY <1>1, <1>2 DEF TypeOK
<1>4. RowIsRegistered' /\ HeldRowIsNewest'
  BY <1>1, <1>2 DEF TypeOK, RowIsRegistered, HeldRowIsNewest, Holding
<1>5. KeysAreRequested'
  BY <1>1 DEF TypeOK, KeysAreRequested, LoopFree
<1>6. ThreadsMatch'
  BY <1>1 DEF TypeOK, ThreadsMatch
<1> QED
  BY <1>3, <1>4, <1>5, <1>6

\* A commit to the repository touches no row.
LEMMA EditsKeeps ==
    ASSUME IInv, Edits
    PROVE  IInv'
<1> USE ServicesAssumption DEF IInv, Actors
<1>1. /\ yml'.version = yml.version + 1 /\ yml' \in [version : 0 .. MaxEdits, valid : BOOLEAN]
      /\ UNCHANGED <<row, keys, registered, act, requests, overlaps>>
  BY DEF Edits, TypeOK
<1>2. TypeOK'
  BY <1>1, Types DEF TypeOK
<1>3. RowIsRegistered' /\ HeldRowIsNewest'
  BY <1>1 DEF RowIsRegistered, HeldRowIsNewest, Holding
<1>4. KeysAreRequested' /\ ThreadsMatch'
  BY <1>1 DEF KeysAreRequested, LoopFree, ThreadsMatch
<1> QED
  BY <1>2, <1>3, <1>4

\* The reload pass fetches the file, reads the row, and saves it with the file's config.
LEMMA ReloadKeeps ==
    ASSUME IInv, Reload
    PROVE  IInv'
<1> USE ServicesAssumption DEF IInv, Actors
<1>1. CASE Fetches \/ ReloadReads
  <2>1. PICK new \in Acts :
           /\ act' = [act EXCEPT !["reload"] = new]
           /\ new.pc \in {"idle", "read", "save"} /\ new.file <= yml.version
           /\ new.pc # "idle" => new.file > 0
           /\ new.pc = "save" => new.snap = row /\ row.key > 0
           /\ new.snap.key <= keys
    <3>1. act["reload"] \in Acts /\ row \in Rows /\ yml.version \in 0 .. MaxEdits
      BY DEF TypeOK
    <3>2. CASE Fetches
      <4> DEFINE new == [act["reload"] EXCEPT !.pc = "read", !.file = yml.version]
      <4>1. /\ new \in Acts /\ new.pc = "read" /\ new.file = yml.version
            /\ new.snap = act["reload"].snap
        BY <3>1 DEF Acts
      <4>2. act' = [act EXCEPT !["reload"] = new] /\ yml.version > 0
        BY <3>2 DEF Fetches
      <4> HIDE DEF new
      <4>3. new.file <= yml.version /\ new.file > 0 /\ new.snap.key <= keys
        BY <3>1, <4>1, <4>2 DEF KeysAreRequested
      <4> QED
        BY <4>1, <4>2, <4>3
    <3>3. CASE ReloadReads /\ row.key > 0
      <4> DEFINE new == [act["reload"] EXCEPT !.pc = "save", !.snap = row]
      <4>1. /\ new \in Acts /\ new.pc = "save" /\ new.file = act["reload"].file
            /\ new.snap = row
        BY <3>1 DEF Acts
      <4> QED
        BY <3>3, <4>1 DEF ReloadReads, Holds, TypeOK, ThreadsMatch
    <3>4. CASE ReloadReads /\ ~(row.key > 0)
      BY <3>1, <3>4, Types DEF ReloadReads, Rests, TypeOK
    <3> QED
      BY <1>1, <3>2, <3>3, <3>4
  <2>2. UNCHANGED <<row, keys, registered, yml, requests, overlaps>>
    BY <1>1 DEF Fetches, ReloadReads
  <2>3. TypeOK'
    BY <2>1, <2>2 DEF TypeOK
  <2>4. RowIsRegistered'
    BY <2>1, <2>2, Types DEF TypeOK, RowIsRegistered, Holding
  <2>5. HeldRowIsNewest'
    BY <2>1, <2>2 DEF TypeOK, HeldRowIsNewest, Holding
  <2>6. KeysAreRequested'
    <3>1. \A a \in Actors : act'[a].snap.key <= keys
      BY <2>1, <2>2 DEF TypeOK, KeysAreRequested
    <3> QED
      BY <2>1, <2>2, <3>1 DEF TypeOK, KeysAreRequested, LoopFree
  <2>7. ThreadsMatch'
    BY <2>1, <2>2 DEF TypeOK, ThreadsMatch
  <2> QED
    BY <2>3, <2>4, <2>5, <2>6, <2>7
<1>2. CASE ReloadSaves
  <2>1. /\ act' = [act EXCEPT !["reload"] = Idle]
        /\ Idle \in Acts /\ Idle.pc = "idle" /\ Idle.file = 0 /\ Idle.snap.key = 0
        /\ act["reload"].pc = "save" /\ act["reload"].snap \in Rows
        /\ act["reload"].snap.key \in Nat /\ act["reload"].snap.key <= keys
        /\ UNCHANGED <<keys, registered, yml, requests, overlaps>>
    BY <1>2, Types DEF ReloadSaves, Rests, KeysAreRequested
  <2>2. row' \in Rows /\ row'.key = act["reload"].snap.key
    <3>1. act["reload"].file \in 1 .. MaxEdits
      BY <2>1, Types DEF ThreadsMatch
    <3>2. <<"yml", act["reload"].file>> \in Configs
      BY <3>1 DEF Configs
    <3> QED
      BY <1>2, <2>1, <3>2 DEF ReloadSaves, Rows
  <2>3. TypeOK'
    BY <2>1, <2>2 DEF TypeOK
  <2>4. RowIsRegistered' /\ HeldRowIsNewest'
    BY <2>1, <2>2 DEF TypeOK, RowIsRegistered, HeldRowIsNewest, Holding
  <2>5. KeysAreRequested' /\ ThreadsMatch'
    BY <2>1 DEF TypeOK, KeysAreRequested, LoopFree, ThreadsMatch
  <2> QED
    BY <2>3, <2>4, <2>5
<1> QED
  BY <1>1, <1>2 DEF Reload

\* Every step keeps the inductive invariant.
LEMMA NextIInv == IInv /\ [Next]_vars => IInv'
<1> SUFFICES ASSUME IInv, [Next]_vars PROVE IInv'
  OBVIOUS
<1>1. ASSUME NEW r \in Requests, RequestStep(r) PROVE IInv'
  BY <1>1, ArrivesKeeps, RegistersKeeps, RotateSavesKeeps, PatchSavesKeeps DEF RequestStep
<1>2. CASE Edits \/ Reload
  BY <1>2, EditsKeeps, ReloadKeeps
<1>3. CASE UNCHANGED vars
  BY <1>3 DEF vars, IInv, TypeOK, RowIsRegistered, KeysAreRequested, ThreadsMatch,
              HeldRowIsNewest, Holding, LoopFree
<1> QED
  BY <1>1, <1>2, <1>3 DEF Next

\* The inductive invariant holds for ever.
THEOREM Invariance == Spec => []IInv
BY InitIInv, NextIInv, PTL DEF Spec

\* Types are kept.
THEOREM TypeCorrect == Spec => []TypeOK
<1>1. IInv => TypeOK
  BY DEF IInv
<1> QED
  BY <1>1, Invariance, PTL

\* A service is registered once, whatever requests arrive together.
THEOREM OneRegistration == Spec => []RegisteredOnce
<1>1. IInv => RegisteredOnce
  BY DEF IInv, RowIsRegistered, RegisteredOnce
<1> QED
  BY <1>1, Invariance, PTL

\* The stored key is the newest one made, unless a rotation was saved while an edit
\* or the reload pass held the row as it was before.
THEOREM NewestKey == Spec => []NewestKeyWorks
<1>1. IInv => NewestKeyWorks
  BY DEF IInv, TypeOK, HeldRowIsNewest, NewestKeyWorks
<1> QED
  BY <1>1, Invariance, PTL
================================================================================
