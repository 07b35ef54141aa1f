----------------------------- MODULE ConnectRelay -----------------------------
(* Wakey Connect: a deployment is paired with the hosted broker by GitHub's     *)
(* device flow, and fetches the webhooks of its repository from a mailbox at    *)
(* the broker. The broker (connect_server, connect_store) serves requests on    *)
(* several threads, each a read of the connection, a call to GitHub and a       *)
(* guarded write; the deployment (connect_client) sends one request of its      *)
(* console at a time and gives up on one that takes too long, while the broker  *)
(* goes on with it; its relay pass runs beside them. One deployment and one     *)
(* repository; a connection is named by its credential.                         *)
EXTENDS Integers, Sequences, FiniteSets, SequencesExt

CONSTANTS
    Deliveries,         \* GitHub deliveries of events of the repository
    MaxPairings,        \* bound: pairings started
    BoxLimit,           \* unacknowledged events a mailbox takes
    Batch,              \* events of one answer
    Slots,              \* requests the broker serves at a time while it waits for GitHub
    MaxRelays,          \* bound: webhook requests at the broker
    MaxMishaps          \* bound: answers that come too late or never, crashes of either side

VARIABLES
    conn,               \* the broker's connections
    made,               \* pairings started
    used,               \* those whose device code GitHub has answered with a token
    box, acked,         \* the broker's relay table: waiting, in order, and acknowledged
    jobs,               \* requests the broker is serving, by slot
    relay,              \* the webhook it is relaying
    installed,          \* the App is installed on the repository
    me, op,             \* the deployment: its binding, and the request under its lock
    recv, saved,        \* its relay pass; the deliveries in its durable queue
    relays, mishaps,
    ended,              \* connections ended by their user or by GitHub
    spent,              \* connections with a poll that failed after GitHub answered it, or
                        \* that took longer than the polling interval
    removed, crossed,   \* the removal was relayed; connections being selected then
    lapsed              \* deliveries a day old before they were fetched

broker == <<conn, made, box, acked, jobs, relay>>
github == <<used, installed>>
client == <<me, op, recv, saved>>
ghosts == <<ended, spent, removed, crossed, lapsed>>
vars == <<broker, github, client, relays, mishaps, ghosts>>

Pairings == 1 .. MaxPairings
ConnStates == {"none", "pending", "selecting", "connected", "revoked"}
Conns == [state : ConnStates, fresh : BOOLEAN, due : BOOLEAN]
Jobs == [p : Pairings \cup {0}, pc : {"idle", "ask", "list", "bind"}, live : BOOLEAN]
Relays == [d : Deliveries \cup {"none", "removal"}, rest : SUBSET Pairings]
Bindings == [p : {0}, state : {"none"}] \cup [p : Pairings, state : ConnStates \ {"revoked"}]
Receipts == [pc : {"idle", "save", "ack"}, rest : Seq(Deliveries)]
Nobody == [p |-> 0, pc |-> "idle", live |-> FALSE]
Quiet == [d |-> "none", rest |-> {}]
Waiting(p) == ToSet(box[p])

ASSUME ConnectAssumption ==
    /\ {MaxPairings, BoxLimit, Batch} \subseteq Nat \ {0}
    /\ {MaxRelays, MaxMishaps} \subseteq Nat
    /\ Deliveries \cap {"none", "removal"} = {}

TypeOK ==
    /\ conn \in [Pairings -> Conns]
    /\ made \in 0 .. MaxPairings /\ used \subseteq 1 .. made
    /\ \A p \in Pairings : p > made => conn[p].state = "none"
    /\ acked \in [Pairings -> SUBSET Deliveries]
    /\ box \in [Pairings -> Seq(Deliveries)]
    /\ \A p \in Pairings :
          Waiting(p) \cap acked[p] = {} /\ IsInjective(box[p]) /\ Len(box[p]) <= BoxLimit
    /\ jobs \in [Slots -> Jobs]
    /\ \A s \in Slots : jobs[s].p <= made /\ (jobs[s].pc # "idle" => jobs[s].p # 0)
    /\ relay \in Relays /\ relay.rest \subseteq 1 .. made /\ (relay.d = "none" => relay.rest = {})
    /\ installed \in BOOLEAN
    /\ me \in Bindings /\ me.p <= made
    /\ op \in {"idle", "wait", "forget"}
    \* the console waits for at most one request, of its own connection
    /\ \A s \in Slots : jobs[s].live => op = "wait" /\ jobs[s].p = me.p /\ jobs[s].pc # "idle"
    /\ \A s, t \in Slots : jobs[s].live /\ jobs[t].live => s = t
    /\ recv \in Receipts /\ (recv.pc # "idle" => recv.rest # <<>>)
    /\ saved \subseteq Deliveries
    /\ relays \in 0 .. MaxRelays /\ mishaps \in 0 .. MaxMishaps

Init ==
    /\ conn = [p \in Pairings |-> [state |-> "none", fresh |-> FALSE, due |-> FALSE]]
    /\ made = 0
    /\ used = {}
    /\ box = [p \in Pairings |-> <<>>] /\ acked = [p \in Pairings |-> {}]
    /\ jobs = [s \in Slots |-> Nobody] /\ relay = Quiet
    /\ installed = TRUE
    /\ me = [p |-> 0, state |-> "none"] /\ op = "idle"
    /\ recv = [pc |-> "idle", rest |-> <<>>] /\ saved = {}
    /\ relays = 0 /\ mishaps = 0
    /\ ended = {} /\ spent = {} /\ removed = FALSE /\ crossed = {} /\ lapsed = {}

-------------------------------------------------------------------------------
(* The store                                                                   *)

\* ConnectStore.read: any other credential is denied.
Valid(c) ==
    /\ c.state \notin {"none", "revoked"}
    /\ c.state # "connected" => c.fresh
Readable(p) == p # 0 /\ Valid(conn[p])

\* revoke_id: whatever the state is, and with the mail.
Revoke(p) ==
    /\ conn' = [conn EXCEPT ![p].state = "revoked"]
    /\ box' = [box EXCEPT ![p] = <<>>]
    /\ acked' = [acked EXCEPT ![p] = {}]

Write_Blind(p, from, to) ==
    IF conn[p].state # "none" THEN conn' = [conn EXCEPT ![p].state = to, ![p].due = FALSE]
    ELSE UNCHANGED conn

\* write: only over the state its caller read.
Write(p, from, to) ==
    IF conn[p].state = from THEN conn' = [conn EXCEPT ![p].state = to, ![p].due = FALSE]
    ELSE UNCHANGED conn

ClaimPoll_AnyTime(p) == conn[p].state = "pending"

\* claim_poll: one poll of GitHub in an interval.
ClaimPoll(p) == conn[p].state = "pending" /\ conn[p].due

\* next_poll has come.
PollDue(p) ==
    /\ conn[p].state = "pending" /\ ~conn[p].due
    /\ conn' = [conn EXCEPT ![p].due = TRUE]
    /\ spent' = spent \cup {q \in {p} : \E s \in Slots : jobs[s].p = p /\ jobs[s].pc # "idle"}
    /\ UNCHANGED <<made, box, acked, jobs, relay, github, client, relays, mishaps, ended, removed, crossed, lapsed>>

\* A pairing that is not finished within its time to live.
Expires(p) ==
    /\ conn[p].fresh /\ conn[p].state \in {"pending", "selecting"}
    /\ conn' = [conn EXCEPT ![p].fresh = FALSE]
    /\ UNCHANGED <<made, box, acked, jobs, relay, github, client, relays, mishaps, ghosts>>

-------------------------------------------------------------------------------
(* The console of the deployment and the requests it sends, one at a time      *)

Mishap == mishaps < MaxMishaps /\ mishaps' = mishaps + 1

\* begin, /v1/pair: a new connection; finished and expired ones are cleared away. If
\* the answer is lost, the deployment keeps what it had.
Begin ==
    /\ op = "idle" /\ me.state # "connected" /\ made < MaxPairings
    /\ made' = made + 1
    /\ conn' = [p \in Pairings |->
                  IF p = made + 1 THEN [state |-> "pending", fresh |-> TRUE, due |-> FALSE]
                  ELSE IF conn[p].state # "connected" /\ ~conn[p].fresh
                  THEN [conn[p] EXCEPT !.state = "none"] ELSE conn[p]]
    /\ \/ me' = [p |-> made + 1, state |-> "pending"] /\ UNCHANGED mishaps
       \/ Mishap /\ UNCHANGED me
    /\ UNCHANGED <<box, acked, jobs, relay, github, op, recv, saved, relays, ghosts>>

Serve(s, pc) ==
    /\ jobs[s].pc = "idle"
    /\ jobs' = [jobs EXCEPT ![s] = [p |-> me.p, pc |-> pc, live |-> TRUE]]
    /\ op' = "wait"

\* poll, /v1/poll: what the broker knows, or a question to GitHub first.
Poll ==
    /\ op = "idle" /\ Readable(me.p)
    /\ IF ClaimPoll(me.p)
       THEN /\ \E s \in Slots : Serve(s, "ask")
            /\ conn' = [conn EXCEPT ![me.p].due = FALSE]
            /\ UNCHANGED me
       ELSE /\ me' = [me EXCEPT !.state = conn[me.p].state]
            /\ UNCHANGED <<conn, jobs, op>>
    /\ UNCHANGED <<made, box, acked, relay, github, recv, saved, relays, mishaps, ghosts>>

\* The request is served; a deployment that still waits saves the state it is told, if
\* the connection can still be read.
Answered(s) ==
    /\ jobs' = [jobs EXCEPT ![s] = Nobody]
    /\ op' = IF jobs[s].live THEN "idle" ELSE op
    /\ me' = IF jobs[s].live /\ Valid(conn'[me.p]) THEN [me EXCEPT !.state = conn'[me.p].state] ELSE me

\* GitHub's answer to the device code: its owner has not decided yet, or has confirmed it,
\* or denied it or let it expire. A code that was answered is void.
PollAsk(s) ==
    LET p == jobs[s].p IN
    /\ jobs[s].pc = "ask"
    /\ \/ p \notin used /\ UNCHANGED <<conn, box, acked, used>> /\ Answered(s)
       \/ /\ p \notin used
          /\ used' = used \cup {p}
          /\ jobs' = [jobs EXCEPT ![s].pc = "list"]
          /\ UNCHANGED <<conn, box, acked, me, op>>
       \/ Revoke(p) /\ Answered(s) /\ UNCHANGED used
    /\ UNCHANGED <<made, relay, installed, recv, saved, relays, mishaps, ghosts>>

\* The repositories of the user are listed, page by page, and kept as the choice.
PollList(s) ==
    /\ jobs[s].pc = "list"
    /\ Write(jobs[s].p, "pending", "selecting")
    /\ Answered(s)
    /\ UNCHANGED <<made, box, acked, relay, github, recv, saved, relays, mishaps, ghosts>>

\* A call to GitHub fails, its answer is lost, or there is no repository to choose.
PollFails(s) ==
    /\ jobs[s].pc \in {"ask", "list"} /\ Mishap
    /\ used' = used \cup {jobs[s].p}
    /\ jobs' = [jobs EXCEPT ![s] = Nobody] /\ op' = IF jobs[s].live THEN "idle" ELSE op
    /\ spent' = spent \cup {jobs[s].p}
    /\ UNCHANGED <<conn, made, box, acked, relay, installed, me, recv, saved, relays, ended, removed, crossed, lapsed>>

SelectReads_NoProbe ==
    /\ op = "idle" /\ me.state = "selecting"
    /\ Readable(me.p) /\ conn[me.p].state = "selecting"
    /\ \E s \in Slots : Serve(s, "bind")
    /\ UNCHANGED <<conn, made, box, acked, relay, github, me, recv, saved, relays, mishaps, ghosts>>

\* select, /v1/select: a token is minted first, to see that the App is installed there.
SelectReads ==
    /\ op = "idle" /\ me.state = "selecting"
    /\ Readable(me.p) /\ conn[me.p].state = "selecting" /\ installed
    /\ \E s \in Slots : Serve(s, "bind")
    /\ UNCHANGED <<conn, made, box, acked, relay, github, me, recv, saved, relays, mishaps, ghosts>>

SelectWrites(s) ==
    /\ jobs[s].pc = "bind"
    /\ Write(jobs[s].p, "selecting", "connected")
    /\ jobs' = [jobs EXCEPT ![s] = Nobody] /\ op' = IF jobs[s].live THEN "idle" ELSE op
    /\ me' = IF jobs[s].live /\ conn[jobs[s].p].state = "selecting"
             THEN [me EXCEPT !.state = "connected"] ELSE me
    /\ UNCHANGED <<made, box, acked, relay, github, recv, saved, relays, mishaps, ghosts>>

\* disconnect, /v1/disconnect: the broker first, then the secret.
Disconnect ==
    /\ op = "idle" /\ Readable(me.p)
    /\ Revoke(me.p)
    /\ op' = "forget" /\ ended' = ended \cup {me.p}
    /\ UNCHANGED <<made, jobs, relay, github, me, recv, saved, relays, mishaps, spent, removed, crossed, lapsed>>

Forgets ==
    /\ op = "forget" /\ op' = "idle"
    /\ me' = [p |-> 0, state |-> "none"]
    /\ UNCHANGED <<broker, github, recv, saved, relays, mishaps, ghosts>>

\* The answer does not come in time: the deployment gives up, the broker does not.
GivesUp ==
    /\ op # "idle" /\ Mishap /\ op' = "idle"
    /\ jobs' = [s \in Slots |-> [jobs[s] EXCEPT !.live = FALSE]]
    /\ UNCHANGED <<conn, made, box, acked, relay, github, me, recv, saved, relays, ghosts>>

-------------------------------------------------------------------------------
(* Webhooks                                                                    *)

\* Its owner removes the App.
Uninstalls ==
    /\ installed /\ made > 0
    /\ installed' = FALSE
    /\ UNCHANGED <<broker, used, client, relays, mishaps, ghosts>>

\* /webhooks/github, late or again: the connections are listed once.
WebhookArrives ==
    /\ relay = Quiet /\ relays < MaxRelays
    /\ \E d \in Deliveries \cup (IF installed THEN {} ELSE {"removal"}) :
          /\ relay' = [d |-> d, rest |-> {p \in Pairings : conn[p].state = "connected"}]
          /\ crossed' = IF d # "removal" THEN crossed
                        ELSE crossed \cup {jobs[s].p : s \in {x \in Slots : jobs[x].pc = "bind"}}
    /\ relays' = relays + 1
    /\ UNCHANGED <<conn, made, box, acked, jobs, github, client, mishaps, ended, spent, removed, lapsed>>

First(rest) == CHOOSE p \in rest : \A q \in rest : p <= q

\* enqueue: once for each connection, and not into a full mailbox.
Known(p, d) == d \in Waiting(p) \cup acked[p]
Full(p) == Len(box[p]) >= BoxLimit

\* _relay: one connection after the other, without reading any of them again; the
\* refusal of a full mailbox ends the whole request.
RelayOne ==
    LET p == First(relay.rest)
        rest == relay.rest \ {p} IN
    /\ relay.rest # {}
    /\ IF relay.d = "removal"
       THEN Revoke(p) /\ ended' = ended \cup {p}
       ELSE /\ box' = IF Known(p, relay.d) \/ Full(p) THEN box
                      ELSE [box EXCEPT ![p] = Append(@, relay.d)]
            /\ UNCHANGED <<conn, acked, ended>>
    /\ relay' = IF relay.d # "removal" /\ ~Known(p, relay.d) /\ Full(p) THEN Quiet
                ELSE [relay EXCEPT !.rest = rest]
    /\ UNCHANGED <<made, jobs, github, client, relays, mishaps, spent, removed, crossed, lapsed>>

RelayDone ==
    /\ relay.d # "none" /\ relay.rest = {}
    /\ relay' = Quiet
    /\ removed' = (removed \/ relay.d = "removal")
    /\ UNCHANGED <<conn, made, box, acked, jobs, github, client, relays, mishaps, ended, spent, crossed, lapsed>>

\* The mailbox but for one delivery, which has one row in it.
Without(p, d) ==
    IF d \in Waiting(p) THEN RemoveAt(box[p], CHOOSE i \in DOMAIN box[p] : box[p][i] = d) ELSE box[p]

\* A day later it is out of the mailbox, and so is the trace of an acknowledged one.
Lapses(p, d) ==
    /\ Known(p, d)
    /\ box' = [box EXCEPT ![p] = Without(p, d)]
    /\ acked' = [acked EXCEPT ![p] = @ \ {d}]
    /\ lapsed' = lapsed \cup (Waiting(p) \cap {d})
    /\ UNCHANGED <<conn, made, jobs, relay, github, client, relays, mishaps, ended, spent, removed, crossed>>

-------------------------------------------------------------------------------
(* The relay pass of the deployment, every ten seconds and outside the lock     *)

Prefix(list) == SubSeq(list, 1, IF Len(list) < Batch THEN Len(list) ELSE Batch)

Listed_Acked(p) == Prefix(SetToSeq(acked[p]) \o box[p])

\* /v1/events: the oldest that are not acknowledged.
Listed(p) == Prefix(box[p])

Fetches ==
    /\ recv.pc = "idle" /\ me.state = "connected" /\ conn[me.p].state = "connected"
    /\ Listed(me.p) # <<>>
    /\ recv' = [pc |-> "save", rest |-> Listed(me.p)]
    /\ UNCHANGED <<broker, github, me, op, saved, relays, mishaps, ghosts>>

\* save_delivery, under GitHub's own delivery id.
Saves ==
    /\ recv.pc = "save"
    /\ saved' = saved \cup {Head(recv.rest)}
    /\ recv' = [recv EXCEPT !.pc = "ack"]
    /\ UNCHANGED <<broker, github, me, op, relays, mishaps, ghosts>>

Ends == recv' = [pc |-> "idle", rest |-> <<>>]
Proceeds ==
    IF Len(recv.rest) = 1 THEN Ends
    ELSE recv' = [pc |-> "save", rest |-> Tail(recv.rest)]

\* acknowledge: with the credential the deployment has by now.
Acknowledge(d) ==
    /\ box' = [box EXCEPT ![me.p] = Without(me.p, d)]
    /\ acked' = [acked EXCEPT ![me.p] = @ \cup (Waiting(me.p) \cap {d})]

Acks_First ==
    /\ recv.pc \in {"save", "ack"}
    /\ IF Readable(me.p) THEN Acknowledge(Head(recv.rest)) ELSE UNCHANGED <<box, acked>>
    /\ IF recv.pc = "ack" /\ Readable(me.p) THEN Proceeds
       ELSE IF recv.pc = "ack" THEN Ends ELSE UNCHANGED recv
    /\ UNCHANGED <<conn, made, jobs, relay, github, me, op, saved, relays, mishaps, ghosts>>

Acks ==
    /\ recv.pc = "ack"
    /\ IF Readable(me.p) THEN Acknowledge(Head(recv.rest)) /\ Proceeds
       ELSE Ends /\ UNCHANGED <<box, acked>>
    /\ UNCHANGED <<conn, made, jobs, relay, github, me, op, saved, relays, mishaps, ghosts>>

\* The acknowledgement fails before or after its effect: the pass is over.
AckFails ==
    /\ recv.pc = "ack" /\ Mishap /\ Ends
    /\ \/ Readable(me.p) /\ Acknowledge(Head(recv.rest))
       \/ UNCHANGED <<box, acked>>
    /\ UNCHANGED <<conn, made, jobs, relay, github, me, op, saved, relays, ghosts>>

-------------------------------------------------------------------------------
(* Crashes                                                                     *)

DeploymentCrashes ==
    /\ Mishap /\ Ends
    /\ op' = "idle"
    /\ jobs' = [s \in Slots |-> [jobs[s] EXCEPT !.live = FALSE]]
    /\ UNCHANGED <<conn, made, box, acked, relay, github, me, saved, relays, ghosts>>

\* Requests end without an answer.
BrokerCrashes ==
    /\ Mishap
    /\ spent' = spent \cup {jobs[s].p : s \in {x \in Slots : jobs[x].pc = "list"}}
    /\ jobs' = [s \in Slots |-> Nobody] /\ relay' = Quiet
    /\ op' = IF op = "wait" THEN "idle" ELSE op
    /\ UNCHANGED <<conn, made, box, acked, github, me, recv, saved, relays, ended, removed, crossed, lapsed>>

-------------------------------------------------------------------------------
Serving == \E s \in Slots : PollAsk(s) \/ PollList(s) \/ SelectWrites(s)
Relaying == RelayOne \/ RelayDone
Receiving == Fetches \/ Saves \/ Acks
Console ==
    Begin \/ Poll \/ SelectReads \/ Disconnect \/ Forgets

Next ==
    \/ Console \/ Serving \/ Relaying \/ Receiving
    \/ GivesUp \/ AckFails \/ \E s \in Slots : PollFails(s)
    \/ DeploymentCrashes \/ BrokerCrashes
    \/ Uninstalls \/ WebhookArrives
    \/ \E p \in Pairings :
          \/ PollDue(p) \/ Expires(p)
          \/ \E d \in Deliveries : Lapses(p, d)

\* The passes run on, and a request that is being served ends.
Spec ==
    /\ Init /\ [][Next]_vars
    /\ WF_vars(Receiving) /\ WF_vars(Serving) /\ WF_vars(Relaying)
    /\ WF_vars(Forgets)

-------------------------------------------------------------------------------
(* Properties                                                                  *)

\* connect_client.receive: the broker's acknowledgement never runs ahead of the local
\* queue, whichever credential it is sent with, through crashes and lost answers.
AckedIsSaved == \A p \in Pairings : acked[p] \subseteq saved

\* A pairing that its owner confirmed at GitHub is not taken back by the device flow
\* itself, unless a poll failed after GitHub had answered it, or outlasted the interval
\* so that a second poll presented the used code.
ConfirmedSurvives ==
    \A p \in Pairings :
        conn[p].state = "revoked" /\ p \in used => p \in ended \cup spent

\* wakey-connect.md: once the removal of the App was relayed no connection is usable,
\* but for one whose selection was past its probe of GitHub by then.
RemovalRevokes ==
    removed => \A p \in Pairings : conn[p].state = "connected" => p \in crossed

\* A revoked connection stays revoked: no request that read it before, and no answer of
\* GitHub to one, brings it back.
RevokedIsFinal ==
    [][\A p \in Pairings : conn[p].state = "revoked" => conn'[p].state \in {"revoked", "none"}]_vars

Paired == me.state = "connected" /\ conn[me.p].state = "connected"

\* wakey-connect.md: what is in the mailbox of the deployment's connection reaches its
\* queue, unless the connection ends, the deployment leaves it, or a day goes by.
MailIsReceived ==
    \A d \in Deliveries :
        Paired /\ d \in Waiting(me.p) ~> d \in saved \cup lapsed \/ ~Paired

===============================================================================
