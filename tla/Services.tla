------------------------------- MODULE Services -------------------------------
(* The row of a service (WF-01, WF-12): the dashboard registers it, rotates its *)
(* ingest key and edits its configuration; a background pass applies the        *)
(* repository's wakey.yml to it every thirty seconds. Each writes the whole row *)
(* it has read. Handlers share one event loop and give way where they await the *)
(* body of their request; the pass runs in a thread of its own.                 *)
EXTENDS Integers, FiniteSets

CONSTANTS
    Requests,                       \* requests to the dashboard at the same time
    MaxRequests, MaxEdits           \* bounds: requests in all, edits of wakey.yml

VARIABLES
    row,            \* key: 0 while there is no row; cfg: where the stored config came from
    keys,           \* ingest keys made so far; a key is its number
    registered,     \* rows created
    yml,            \* wakey.yml: its version (0: there is none), and whether it is valid
    act,            \* what every thread does, the row it has read, the file it has fetched
    requests,
    overlaps        \* rotations saved while another writer held a row it had read before

vars == <<row, keys, registered, yml, act, requests, overlaps>>

Actors == Requests \cup {"reload"}
Configs == {<<"default", 0>>} \cup ({"yml"} \X (1 .. MaxEdits)) \cup ({"dashboard"} \X (1 .. MaxRequests))
Rows == [key : 0 .. MaxRequests, cfg : Configs]
Acts == [pc : {"idle", "register", "rotate", "patch", "read", "save"}, snap : Rows,
         file : 0 .. MaxEdits]
NoRow == [key |-> 0, cfg |-> <<"default", 0>>]
Idle == [pc |-> "idle", snap |-> NoRow, file |-> 0]

ASSUME ServicesAssumption ==
    "reload" \notin Requests /\ MaxRequests \in Nat /\ MaxEdits \in Nat

TypeOK ==
    /\ row \in Rows /\ registered \in 0 .. MaxRequests
    /\ keys \in 0 .. MaxRequests /\ row.key <= keys
    /\ yml \in [version : 0 .. MaxEdits, valid : BOOLEAN]
    /\ act \in [Actors -> Acts]
    /\ act["reload"].file <= yml.version
    /\ requests \in 0 .. MaxRequests /\ overlaps \in 0 .. MaxRequests
    \* who is about to save holds a row that there was
    /\ \A a \in Actors : act[a].pc \in {"rotate", "patch", "save"} => act[a].snap.key > 0

Init ==
    /\ row = NoRow /\ keys = 0 /\ registered = 0
    /\ yml = [version |-> 0, valid |-> TRUE]
    /\ act = [a \in Actors |-> Idle]
    /\ requests = 0 /\ overlaps = 0

-------------------------------------------------------------------------------

Rests(a) == act' = [act EXCEPT ![a] = Idle]
Holds(a, pc) == act' = [act EXCEPT ![a] = [@ EXCEPT !.pc = pc, !.snap = row]]

\* No handler is between two calls without an await: the event loop is free.
LoopFree == \A r \in Requests : act[r].pc # "rotate"
Arrives(r) ==
    /\ LoopFree /\ act[r].pc = "idle"
    /\ requests < MaxRequests /\ requests' = requests + 1

\* POST /api/services and /setup: the body is awaited first.
RegisterArrives(r) ==
    /\ Arrives(r)
    /\ Holds(r, "register")
    /\ UNCHANGED <<row, keys, registered, yml, overlaps>>

Registers_AsItWas(r) ==
    /\ act[r].pc = "register" /\ LoopFree
    /\ IF act[r].snap.key = 0
       THEN /\ row' = [key |-> keys + 1, cfg |-> <<"default", 0>>]
            /\ keys' = keys + 1 /\ registered' = registered + 1
       ELSE UNCHANGED <<row, keys, registered>>
    /\ Rests(r)
    /\ UNCHANGED <<yml, requests, overlaps>>

\* register_service: refused if there is a row, else a row with a new key.
Registers(r) ==
    /\ act[r].pc = "register" /\ LoopFree
    /\ IF row.key = 0
       THEN /\ row' = [key |-> keys + 1, cfg |-> <<"default", 0>>]
            /\ keys' = keys + 1 /\ registered' = registered + 1
       ELSE UNCHANGED <<row, keys, registered>>
    /\ Rests(r)
    /\ UNCHANGED <<yml, requests, overlaps>>

\* rotate_ingest_key reads and saves with nothing awaited in between.
RotateReads(r) ==
    /\ Arrives(r) /\ row.key > 0
    /\ Holds(r, "rotate")
    /\ UNCHANGED <<row, keys, registered, yml, overlaps>>

HeldByOthers(r) == \E a \in Actors \ {r} : act[a].pc \in {"patch", "save"}

RotateSaves(r) ==
    /\ act[r].pc = "rotate"
    /\ row' = [act[r].snap EXCEPT !.key = keys + 1]
    /\ keys' = keys + 1
    /\ overlaps' = IF HeldByOthers(r) THEN overlaps + 1 ELSE overlaps
    /\ Rests(r)
    /\ UNCHANGED <<registered, yml, requests>>

\* PATCH config reads the row, and then awaits the body.
PatchReads(r) ==
    /\ Arrives(r) /\ row.key > 0
    /\ Holds(r, "patch")
    /\ UNCHANGED <<row, keys, registered, yml, overlaps>>

\* A body that is a config is saved with the row that was read.
PatchSaves(r) ==
    /\ act[r].pc = "patch" /\ LoopFree
    /\ \/ row' = [act[r].snap EXCEPT !.cfg = <<"dashboard", requests>>]
       \/ UNCHANGED row
    /\ Rests(r)
    /\ UNCHANGED <<keys, registered, yml, requests, overlaps>>

-------------------------------------------------------------------------------
(* The reload pass                                                              *)

\* A commit to the repository.
Edits ==
    /\ yml.version < MaxEdits
    /\ \E ok \in BOOLEAN : yml' = [version |-> yml.version + 1, valid |-> ok]
    /\ UNCHANGED <<row, keys, registered, act, requests, overlaps>>

\* reload_once: without a file, or with one that is not valid, nothing is done.
Fetches ==
    /\ act["reload"].pc = "idle" /\ yml.version > 0 /\ yml.valid
    /\ act' = [act EXCEPT !["reload"] = [@ EXCEPT !.pc = "read", !.file = yml.version]]
    /\ UNCHANGED <<row, keys, registered, yml, requests, overlaps>>

ReloadReads_UnlessEdited ==
    /\ act["reload"].pc = "read"
    /\ IF row.key > 0 /\ row.cfg[1] # "dashboard" THEN Holds("reload", "save") ELSE Rests("reload")
    /\ UNCHANGED <<row, keys, registered, yml, requests, overlaps>>

\* The file applies only to a service that is registered.
ReloadReads ==
    /\ act["reload"].pc = "read"
    /\ IF row.key > 0 THEN Holds("reload", "save") ELSE Rests("reload")
    /\ UNCHANGED <<row, keys, registered, yml, requests, overlaps>>

ReloadSaves_NewRow ==
    /\ act["reload"].pc = "save"
    /\ row' = [key |-> registered, cfg |-> <<"yml", act["reload"].file>>]
    /\ Rests("reload")
    /\ UNCHANGED <<keys, registered, yml, requests, overlaps>>

ReloadSaves ==
    /\ act["reload"].pc = "save"
    /\ row' = [act["reload"].snap EXCEPT !.cfg = <<"yml", act["reload"].file>>]
    /\ Rests("reload")
    /\ UNCHANGED <<keys, registered, yml, requests, overlaps>>

Reload == Fetches \/ ReloadReads \/ ReloadSaves

RequestStep(r) ==
    \/ RegisterArrives(r) \/ Registers(r)
    \/ RotateReads(r) \/ RotateSaves(r)
    \/ PatchReads(r) \/ PatchSaves(r)

Next == Edits \/ Reload \/ \E r \in Requests : RequestStep(r)

\* The pass runs for ever; a handler that has its body ends.
Spec == Init /\ [][Next]_vars
FairSpec ==
    /\ Spec
    /\ WF_vars(Reload)
    /\ \A r \in Requests : WF_vars(Registers(r) \/ RotateSaves(r) \/ PatchSaves(r))

-------------------------------------------------------------------------------
(* Properties                                                                   *)

\* A name is registered once, whatever requests arrive together: nobody is shown
\* a key that the registration of another has already replaced.
RegisteredOnce == registered <= 1

\* "The old key stops working immediately": the key of the row is the newest one
\* made, unless a rotation was saved while an edit or the reload pass held the
\* row as it was before. Any other save leaves the key alone.
NewestKeyWorks == row.key # keys => overlaps > 0

\* Once wakey.yml no longer changes and is valid, its config is the stored one
\* from some time on, whatever edits and rotations saved older rows over it.
ConfigFollowsFile ==
    \A v \in 1 .. MaxEdits :
        <>[](row.key > 0 /\ yml = [version |-> v, valid |-> TRUE])
            => <>[](row.cfg = <<"yml", v>>)
===============================================================================
