----------------------------- MODULE RaftQueue -----------------------------
(***************************************************************************)
(* The work-queue lane of one topic on a cluster: the calls of              *)
(* boatramp-cluster/src/messaging.rs (RaftMessaging), the state machine     *)
(* they replicate through (`apply_op` of boatramp-cluster/src/raft.rs) and  *)
(* the forwarder that carries a proposal to the leader (HttpForwarder of    *)
(* boatramp-cluster/src/http.rs).                                           *)
(*                                                                          *)
(* A call is a worker that reads some replica, sends one proposal and then  *)
(* touches the shared object store.  Every proposal is applied in one       *)
(* step.  The forwarder posts a proposal again when the transport fails,    *)
(* although the leader may have applied the first post or apply it later:   *)
(* `late` holds the posts nobody waits for any more.                        *)
(*                                                                          *)
(* Consensus itself (openraft) is external: the applied state is one state, *)
(* and a follower's applied state is an earlier value of it (`view`).       *)
(* `clock` is the slowest clock of the cluster; the node a call runs on     *)
(* stamps its own, which is ahead of it by up to MaxSkew.                   *)
(***************************************************************************)
EXTENDS ClaimPlan

CONSTANTS
    Workers,      \* calls that can be under way at the same time
    Followers,    \* replicas whose applied state may lag
    Upgraded,     \* ids that may have been indexed before ready markers existed
    Modes,        \* delivery modes of a publish: [delay, ttl, prio, inline]
    NackDelays,   \* redelivery backoffs a consumer may ask for, 0 = none
    LeaseMs,      \* lease a claim asks for
    MaxSkew,      \* how far apart the clocks of the nodes are
    MaxBatch, MaxAttempts,
    Calls,        \* the proposals clients and operators make
    MaxCalls,     \* bound: calls made in a behaviour
    MaxTries,     \* posts of one proposal (10 in the source)
    MaxLate,      \* bound: abandoned posts still in flight
    MaxClock      \* bound: the clock stops here

ASSUME RaftQueueAssumption ==
    /\ Upgraded \subseteq Ids
    /\ Modes \subseteq [delay : Nat, ttl : Nat, prio : Nat, inline : BOOLEAN]
    /\ NackDelays \subseteq Nat
    /\ LeaseMs \in Nat
    /\ MaxSkew \in Nat
    /\ MaxAttempts \in Nat
    /\ MaxBatch \in Nat
    /\ MaxCalls \in Nat
    /\ MaxTries \in Nat \ {0}
    /\ MaxLate \in Nat
    /\ MaxClock \in Nat

VARIABLES
    meta,      \* applied `mq/{topic}/{id}` records
    dead,      \* applied `mqdead/{topic}/{id}` records
    ready,     \* applied `mqready/{topic}` marker
    paused,    \* applied pause flag
    payload,   \* ids whose payload object is in the shared store
    view,      \* the applied state as each follower has it
    job,       \* what each worker is doing
    late,      \* posts whose sender no longer waits for the answer
    handles,   \* ClaimedMessages consumers hold
    clock,
    calls,     \* calls made so far
    \* history, read by the properties only
    minted,    \* ids given to a publish
    committed, \* ids whose publish was applied
    acked,     \* ids whose ack was applied
    purged,    \* ids an operator discarded
    reborn,    \* ids whose record an MqPublish created again
    overrun,   \* ids nacked by a holder after a later delivery
    delivered, \* ids handed to a consumer at least once
    marked     \* the marker was written at least once

applied == <<meta, dead, ready, paused>>
history == <<minted, committed, acked, purged, reborn, overrun, delivered, marked>>
vars == <<meta, dead, ready, paused, payload, view, job, late, handles, clock, calls,
          minted, committed, acked, purged, reborn, overrun, delivered, marked>>

Handle == [id : Ids, attempts : Nat, until : Nat, inline : BOOLEAN]

\* What a publish proposes: a record nobody has claimed yet.
Unclaimed == {r \in Record : r.attempts = 0}

\* The proposals.  `attempt` (the delivery a nack gives back) is history: the
\* source's MqNack carries the id and the new lease only.
Proposal ==
         [op : {"publish"}, id : Ids, rec : Unclaimed]
    \cup [op : {"claim"}, now : Nat]
    \cup [op : {"ack"}, id : Ids, inline : BOOLEAN]
    \cup [op : {"nack"}, id : Ids, until : Nat, attempt : Nat]
    \cup [op : {"discard"}, ids : SUBSET Ids, objects : SUBSET Ids]
    \cup [op : {"redrive"}, ids : SUBSET Ids, inlined : SUBSET Ids]
    \cup [op : {"pause"}, to : BOOLEAN]
    \cup [op : {"mark"}]

Job ==   [stage : {"idle"}]
    \cup [stage : {"propose"}, op : Proposal, tries : 1 .. MaxTries]
    \cup [stage : {"fetch"}, recs : SUBSET Handle]
    \cup [stage : {"free"}, ids : SUBSET Ids]

Replica == [meta : [Ids -> Record \cup {NoRec}], dead : [Ids -> Record \cup {NoRec}],
            ready : BOOLEAN, paused : BOOLEAN]

Leader == [meta |-> meta, dead |-> dead, ready |-> ready, paused |-> paused]

\* What the node a call runs on has applied: the leader's state or an older one.
Replicas == {Leader} \cup {view[f] : f \in Followers}

IdleJob == [stage |-> "idle"]
Propose(o) == [stage |-> "propose", op |-> o, tries |-> MaxTries]

\* Record::fresh
Fresh(inline) ==
    [attempts |-> 0, lease |-> 0, expires |-> 0, prio |-> 0, inline |-> inline]

\* An optional offset from now; 0 stands for "none" and stays 0.
From(now, offset) == IF offset = 0 THEN 0 ELSE now + offset

\* now_unix_ms on the node that makes a call, and on the node that is furthest ahead.
Latest == clock + MaxSkew
Readings == clock .. Latest

\* A cluster starts empty, or upgraded with records `old` and no ready marker.
Init ==
    \E old \in SUBSET Upgraded :
        /\ meta = [i \in Ids |-> IF i \in old THEN Fresh(FALSE) ELSE NoRec]
        /\ dead = [i \in Ids |-> NoRec]
        /\ ready = FALSE /\ paused = FALSE
        /\ payload = old
        /\ view = [f \in Followers |-> Leader]
        /\ job = [w \in Workers |-> IdleJob]
        /\ late = {} /\ handles = {}
        /\ clock = 0 /\ calls = 0
        /\ minted = old /\ committed = old
        /\ acked = {} /\ purged = {} /\ reborn = {} /\ overrun = {} /\ delivered = {}
        /\ marked = (old = {})

-----------------------------------------------------------------------------
(* apply_op: what one replicated entry does to the applied state.           *)

ApplyPublish(o) ==
    /\ meta' = IF meta[o.id] = NoRec THEN [meta EXCEPT ![o.id] = o.rec] ELSE meta
    /\ ready' = TRUE
    /\ committed' = committed \cup {o.id}
    /\ reborn' = IF meta[o.id] = NoRec /\ o.id \in committed
                 THEN reborn \cup {o.id} ELSE reborn
    /\ UNCHANGED <<dead, paused, acked, purged, overrun>>

\* Mutation of ApplyClaim: a dead-lettered record is removed but not kept.
ApplyClaimDropsDead(o) ==
    LET leases == PlanLeases(meta, o.now, MaxBatch, MaxAttempts)
        deads  == PlanDeadLetters(meta, o.now, MaxBatch, MaxAttempts)
    IN /\ meta' = [i \in Ids |-> IF i \in leases THEN Leased(meta[i], o.now, LeaseMs)
                                 ELSE IF i \in deads THEN NoRec ELSE meta[i]]
       /\ ready' = (ready /\ Live(meta') # {})
       /\ UNCHANGED <<dead, paused, committed, acked, purged, reborn, overrun>>

\* Mutation of ApplyClaim: the marker goes when nothing is claimable any more,
\* although leased records are left.
ApplyClaimPrunesEarly(o) ==
    LET leases == PlanLeases(meta, o.now, MaxBatch, MaxAttempts)
        deads  == PlanDeadLetters(meta, o.now, MaxBatch, MaxAttempts)
    IN /\ meta' = [i \in Ids |-> IF i \in leases THEN Leased(meta[i], o.now, LeaseMs)
                                 ELSE IF i \in deads THEN NoRec ELSE meta[i]]
       /\ dead' = [i \in Ids |-> IF i \in deads THEN meta[i] ELSE dead[i]]
       /\ ready' = (ready /\ Candidates(meta', o.now, MaxAttempts) # {})
       /\ UNCHANGED <<paused, committed, acked, purged, reborn, overrun>>

\* apply_mq_claim, for a topic without consumer groups.
ApplyClaim(o) ==
    LET leases == PlanLeases(meta, o.now, MaxBatch, MaxAttempts)
        deads  == PlanDeadLetters(meta, o.now, MaxBatch, MaxAttempts)
    IN /\ meta' = [i \in Ids |-> IF i \in leases THEN Leased(meta[i], o.now, LeaseMs)
                                 ELSE IF i \in deads THEN NoRec ELSE meta[i]]
       /\ dead' = [i \in Ids |-> IF i \in deads THEN meta[i] ELSE dead[i]]
       /\ ready' = (ready /\ Live(meta') # {})
       /\ UNCHANGED <<paused, committed, acked, purged, reborn, overrun>>

ApplyAck(o) ==
    /\ meta' = [meta EXCEPT ![o.id] = NoRec]
    /\ acked' = acked \cup {o.id}
    /\ UNCHANGED <<dead, ready, paused, committed, purged, reborn, overrun>>

\* The record was delivered again since the delivery that is given back.
Overruns(o) == meta[o.id] # NoRec /\ meta[o.id].attempts # o.attempt

\* Mutation of ApplyNack: a nack of a record that is gone writes it again.
ApplyNackUpserts(o) ==
    /\ meta' = [meta EXCEPT ![o.id] = [Fresh(FALSE) EXCEPT !.lease = o.until]]
    /\ ready' = TRUE
    /\ overrun' = IF Overruns(o) THEN overrun \cup {o.id} ELSE overrun
    /\ UNCHANGED <<dead, paused, committed, acked, purged, reborn>>

ApplyNack(o) ==
    /\ IF meta[o.id] = NoRec THEN UNCHANGED <<meta, ready>>
       ELSE meta' = [meta EXCEPT ![o.id].lease = o.until] /\ ready' = TRUE
    /\ overrun' = IF Overruns(o) THEN overrun \cup {o.id} ELSE overrun
    /\ UNCHANGED <<dead, paused, committed, acked, purged, reborn>>

ApplyDiscard(o) ==
    /\ dead' = [i \in Ids |-> IF i \in o.ids THEN NoRec ELSE dead[i]]
    /\ purged' = purged \cup {i \in o.ids : dead[i] # NoRec}
    /\ UNCHANGED <<meta, ready, paused, committed, acked, reborn, overrun>>

\* Mutation of ApplyRedrive: only the delete of the dead record is in the batch
\* of an id that is not indexed.
ApplyRedriveForgets(o) ==
    /\ dead' = [i \in Ids |-> IF i \in o.ids THEN NoRec ELSE dead[i]]
    /\ ready' = TRUE
    /\ UNCHANGED <<meta, paused, committed, acked, purged, reborn, overrun>>

\* One batch: MqPublish of every id, then the delete of its dead record.
ApplyRedrive(o) ==
    LET rearmed == {i \in o.ids : meta[i] = NoRec}
    IN /\ meta' = [i \in Ids |-> IF i \in rearmed THEN Fresh(i \in o.inlined) ELSE meta[i]]
       /\ dead' = [i \in Ids |-> IF i \in o.ids THEN NoRec ELSE dead[i]]
       /\ ready' = TRUE
       /\ reborn' = reborn \cup rearmed
       /\ UNCHANGED <<paused, committed, acked, purged, overrun>>

ApplyPause(o) ==
    /\ paused' = o.to
    /\ UNCHANGED <<meta, dead, ready, committed, acked, purged, reborn, overrun>>

ApplyMark(o) ==
    /\ ready' = TRUE
    /\ UNCHANGED <<meta, dead, paused, committed, acked, purged, reborn, overrun>>

ApplyOp(o) ==
    /\ \/ o.op = "publish" /\ ApplyPublish(o)
       \/ o.op = "claim"   /\ ApplyClaim(o)
       \/ o.op = "ack"     /\ ApplyAck(o)
       \/ o.op = "nack"    /\ ApplyNack(o)
       \/ o.op = "discard" /\ ApplyDiscard(o)
       \/ o.op = "redrive" /\ ApplyRedrive(o)
       \/ o.op = "pause"   /\ ApplyPause(o)
       \/ o.op = "mark"    /\ ApplyMark(o)
    /\ marked' = (marked \/ ready')

\* What the caller does with the answer: a claim fetches the payloads of what
\* was leased, an ack or a discard then frees the payload objects.
AfterApply(o) ==
    IF o.op = "claim"
    THEN [stage |-> "fetch",
          recs |-> {[id |-> i, attempts |-> meta[i].attempts + 1,
                     until |-> o.now + LeaseMs, inline |-> meta[i].inline] :
                       i \in PlanLeases(meta, o.now, MaxBatch, MaxAttempts)}]
    ELSE IF o.op = "ack" /\ ~o.inline THEN [stage |-> "free", ids |-> {o.id}]
    ELSE IF o.op = "discard" THEN [stage |-> "free", ids |-> o.objects]
    ELSE IdleJob

-----------------------------------------------------------------------------
(* The calls.                                                               *)

Start(w, o) ==
    /\ job[w] = IdleJob
    /\ o.op \in Calls /\ calls < MaxCalls
    /\ job' = [job EXCEPT ![w] = Propose(o)]
    /\ calls' = calls + 1
    /\ UNCHANGED <<applied, view, late, clock,
                   committed, acked, purged, reborn, overrun, delivered, marked>>

\* publish_ctx / _delayed / _with_ttl / _with_priority: build_publish_op puts the
\* payload object before the proposal is queued, unless the payload is inlined.
Publish(w, i, m, now) ==
    /\ i \notin minted
    /\ minted' = minted \cup {i}
    /\ payload' = IF m.inline THEN payload ELSE payload \cup {i}
    /\ Start(w, [op |-> "publish", id |-> i,
                 rec |-> [attempts |-> 0, lease |-> From(now, m.delay),
                          expires |-> From(now, m.ttl), prio |-> m.prio,
                          inline |-> m.inline]])
    /\ UNCHANGED handles

\* claim: a paused topic delivers nothing; the caller stamps its clock.
Claim(w, now) ==
    /\ \E s \in Replicas : ~s.paused
    /\ Start(w, [op |-> "claim", now |-> now])
    /\ UNCHANGED <<payload, handles, minted>>

\* Mutation of Ack: the payload is freed before the ack is proposed.
AckFreesFirst(w, h) ==
    /\ h \in handles
    /\ handles' = handles \ {h}
    /\ payload' = payload \ {h.id}
    /\ Start(w, [op |-> "ack", id |-> h.id, inline |-> h.inline])
    /\ UNCHANGED minted

Ack(w, h) ==
    /\ h \in handles
    /\ handles' = handles \ {h}
    /\ Start(w, [op |-> "ack", id |-> h.id, inline |-> h.inline])
    /\ UNCHANGED <<payload, minted>>

\* nack_after
Nack(w, h, d, now) ==
    /\ h \in handles
    /\ handles' = handles \ {h}
    /\ Start(w, [op |-> "nack", id |-> h.id, until |-> From(now, d), attempt |-> h.attempts])
    /\ UNCHANGED <<payload, minted>>

\* A node lists its dead letters in `s` and then reads them one by one: it may
\* have caught up in between, and then reads them in `t`.
ListsAndReads(s, t, ids) ==
    /\ s \in Replicas /\ t \in {s, Leader}
    /\ ids # {} /\ ids \subseteq Live(s.dead)

\* The dead letters that carry their payload.
InlinedIn(t, ids) == {i \in ids \cap Live(t.dead) : t.dead[i].inline}

\* purge_dead_letters, discard_dead_letters: any selection of the dead ids.
Discard(w, s, t, ids) ==
    /\ ListsAndReads(s, t, ids)
    /\ Start(w, [op |-> "discard", ids |-> ids, objects |-> ids \ InlinedIn(t, ids)])
    /\ UNCHANGED <<payload, handles, minted>>

\* redrive_dead_letters, redrive_dead_letters_filtered
Redrive(w, s, t, ids) ==
    /\ ListsAndReads(s, t, ids)
    /\ Start(w, [op |-> "redrive", ids |-> ids, inlined |-> InlinedIn(t, ids)])
    /\ UNCHANGED <<payload, handles, minted>>

\* set_paused
SetPaused(w, b) ==
    /\ Start(w, [op |-> "pause", to |-> b])
    /\ UNCHANGED <<payload, handles, minted>>

\* rebuild_ready_set: adds a missing marker, never removes one.
Rebuild(w, s) ==
    /\ s \in Replicas
    /\ Live(s.meta) # {} /\ ~s.ready
    /\ Start(w, [op |-> "mark"])
    /\ UNCHANGED <<payload, handles, minted>>

\* The proposal is applied and its answer reaches the caller.
Apply(w) ==
    /\ job[w].stage = "propose"
    /\ ApplyOp(job[w].op)
    /\ job' = [job EXCEPT ![w] = AfterApply(job[w].op)]
    /\ UNCHANGED <<payload, view, late, handles, clock, calls, minted, delivered>>

\* Mutation of PostFails: one post too many.
PostFailsLate(w) ==
    /\ job[w].stage = "propose"
    /\ Cardinality(late) < MaxLate
    /\ late' = late \cup {job[w].op}
    /\ job' = [job EXCEPT ![w] = IF job[w].tries = 0 THEN IdleJob
                                 ELSE [job[w] EXCEPT !.tries = @ - 1]]
    /\ UNCHANGED <<applied, payload, view, handles, clock, calls, history>>

\* The post fails at the sender; it may still be applied later.  The forwarder
\* posts again until its tries are used up, then the call returns an error.
PostFails(w) ==
    /\ job[w].stage = "propose"
    /\ Cardinality(late) < MaxLate
    /\ late' = late \cup {job[w].op}
    /\ job' = [job EXCEPT ![w] = IF job[w].tries = 1 THEN IdleJob
                                 ELSE [job[w] EXCEPT !.tries = @ - 1]]
    /\ UNCHANGED <<applied, payload, view, handles, clock, calls, history>>

\* A post nobody waits for is applied, or it is lost for good.
ApplyLate(o) ==
    /\ o \in late
    /\ late' = late \ {o}
    /\ ApplyOp(o)
    /\ UNCHANGED <<payload, view, job, handles, clock, calls, minted, delivered>>

LoseLate(o) ==
    /\ o \in late
    /\ late' = late \ {o}
    /\ UNCHANGED <<applied, payload, view, job, handles, clock, calls, history>>

\* claim reads the payload objects; one that is missing fails the whole call,
\* and the records stay leased.
Fetch(w) ==
    LET recs == job[w].recs
        found == \A h \in recs : h.inline \/ h.id \in payload
    IN /\ job[w].stage = "fetch"
       /\ handles' = IF found THEN handles \cup recs ELSE handles
       /\ delivered' = IF found THEN delivered \cup {h.id : h \in recs} ELSE delivered
       /\ job' = [job EXCEPT ![w] = IdleJob]
       /\ UNCHANGED <<applied, payload, view, late, clock, calls,
                      minted, committed, acked, purged, reborn, overrun, marked>>

\* ack and purge delete the payload objects after the proposal is applied.
FreePayload(w) ==
    /\ job[w].stage = "free"
    /\ payload' = payload \ job[w].ids
    /\ job' = [job EXCEPT ![w] = IdleJob]
    /\ UNCHANGED <<applied, view, late, handles, clock, calls, history>>

\* The node of a call dies between two of its steps.
Crash(w) ==
    /\ job[w].stage \in {"fetch", "free"}
    /\ job' = [job EXCEPT ![w] = IdleJob]
    /\ UNCHANGED <<applied, payload, view, late, handles, clock, calls, history>>

CatchUp(f) ==
    /\ view[f] # Leader
    /\ view' = [view EXCEPT ![f] = Leader]
    /\ UNCHANGED <<applied, payload, job, late, handles, clock, calls, history>>

Tick ==
    /\ clock < MaxClock
    /\ clock' = clock + 1
    /\ UNCHANGED <<applied, payload, view, job, late, handles, calls, history>>

WorkerNext(w) ==
    \/ \E i \in Ids, m \in Modes, now \in Readings : Publish(w, i, m, now)
    \/ \E now \in Readings : Claim(w, now)
    \/ \E h \in handles : Ack(w, h)
    \/ \E h \in handles, d \in NackDelays, now \in Readings : Nack(w, h, d, now)
    \/ \E s, t \in Replicas, ids \in SUBSET Ids : Discard(w, s, t, ids)
    \/ \E s, t \in Replicas, ids \in SUBSET Ids : Redrive(w, s, t, ids)
    \/ \E b \in BOOLEAN : SetPaused(w, b)
    \/ \E s \in Replicas : Rebuild(w, s)
    \/ Apply(w)
    \/ PostFails(w)
    \/ Fetch(w)
    \/ FreePayload(w)
    \/ Crash(w)

Next ==
    \/ \E w \in Workers : WorkerNext(w)
    \/ \E o \in late : ApplyLate(o)
    \/ \E o \in late : LoseLate(o)
    \/ \E f \in Followers : CatchUp(f)
    \/ Tick

Spec == Init /\ [][Next]_vars

-----------------------------------------------------------------------------
(* Properties.                                                              *)

TypeOK ==
    /\ meta \in [Ids -> Record \cup {NoRec}]
    /\ dead \in [Ids -> Record \cup {NoRec}]
    /\ ready \in BOOLEAN
    /\ paused \in BOOLEAN
    /\ payload \in SUBSET Ids
    /\ view \in [Followers -> Replica]
    /\ job \in [Workers -> Job]
    /\ late \in SUBSET Proposal
    /\ handles \in SUBSET Handle
    /\ clock \in Nat /\ calls \in Nat
    /\ minted \in SUBSET Ids /\ committed \in SUBSET Ids
    /\ acked \in SUBSET Ids /\ purged \in SUBSET Ids
    /\ reborn \in SUBSET Ids /\ overrun \in SUBSET Ids
    /\ delivered \in SUBSET Ids
    /\ marked \in BOOLEAN

\* Deliveries made or about to be made by a claim that was answered.
Holders == handles \cup UNION {job[w].recs : w \in {v \in Workers : job[v].stage = "fetch"}}

\* No message is lost: a publish that was applied stays in the index or in the
\* dead-letter store until a consumer acks it or an operator discards it, in
\* whatever order claims, redrives, discards and repeated posts are applied.
NothingLost ==
    committed \subseteq Live(meta) \cup Live(dead) \cup acked \cup purged

\* The drainer finds every backlog: once the topic's ready marker was written,
\* the marker is there whenever a record is (apply_mq_claim prunes it only when
\* the work queue is empty, and whatever adds a record adds it).
MarkerCoversBacklog ==
    marked => (ready \/ Live(meta) = {})

\* Payload first: the record of a message that was indexed once is never there
\* without its payload; its dead letter keeps the payload until an ack arrives.
PayloadPresent ==
    \A i \in Ids \ reborn :
        /\ meta[i] # NoRec => meta[i].inline \/ i \in payload
        /\ dead[i] # NoRec /\ i \notin acked => dead[i].inline \/ i \in payload

\* An ack is final for a message that was indexed once, and so is a discard.
AckedStaysGone ==
    \A i \in (acked \cup purged) \ reborn : meta[i] = NoRec /\ (i \in purged => dead[i] = NoRec)

\* A message is leased to one claimer at a time, unless a holder nacked it after
\* a later delivery or a repeated post indexed it again: two deliveries overlap
\* only once the fastest clock of the cluster is past the lease of one of them
\* (claim stamps the issuing node's clock), so by no more than the skew.
OneHolder ==
    \A g, h \in Holders :
        g.id = h.id /\ g.id \notin overrun \cup reborn /\ g # h
            => g.until <= Latest \/ h.until <= Latest

\* Every delivery is charged: no record forgets an attempt that was delivered,
\* and nothing is delivered more than max_attempts times.
AttemptsCharged ==
    \A h \in Holders :
        /\ h.attempts \in 1 .. MaxAttempts
        /\ h.id \notin reborn /\ meta[h.id] # NoRec => h.attempts <= meta[h.id].attempts

-----------------------------------------------------------------------------
(* The promise of the queue, and how the replicated state keeps it.         *)

Queue == INSTANCE AtLeastOnce WITH
    Messages <- Ids,
    MaxTries <- MaxAttempts,
    live <- Live(meta),
    parked <- Live(dead),
    gone <- acked \cup purged,
    tries <- [i \in Ids |-> IF meta[i] = NoRec THEN 0 ELSE meta[i].attempts]

\* The replicated queue implements AtLeastOnce: whatever is applied, in whatever
\* order, twice or late, each change of the records is a publish, a delivery
\* that is charged and allowed, a settlement, a discard or a redrive, and no
\* other step changes them.
ImplementsQueue == Queue!Spec

=============================================================================
