----------------------------- MODULE WorkQueue -----------------------------
(***************************************************************************)
(* The work-queue lane of one topic on a single node: LogMessaging of       *)
(* boatramp-core/src/messaging.rs.                                          *)
(*                                                                          *)
(* Every await on the key-value store or the object store is a step of its  *)
(* own, so the calls of several workers interleave between their reads and  *)
(* their writes as they do in the server.  A claim runs under `claim_lock`, *)
(* a publish commits and a claim prunes the ready marker under              *)
(* `commit_gate`; ack, nack, set_last_error, dead_letter, redrive and purge *)
(* take neither.  `write_batch` is atomic and durable.                      *)
(*                                                                          *)
(* A lock is represented by the stages in which its holder is.              *)
(***************************************************************************)
EXTENDS ClaimPlan

CONSTANTS
    Workers,      \* calls that can be under way at the same time
    Modes,        \* delivery modes of a publish: [delay, ttl, prio, inline]
    NackDelays,   \* redelivery backoffs a consumer may ask for, 0 = none
    LeaseMs, MaxBatch, MaxAttempts,
    Calls,        \* the calls the environment makes
    MaxCalls,     \* bound: operator calls made in a behaviour
    MaxCrashes,   \* bound: restarts of the process
    MaxClock      \* bound: the clock stops here

ASSUME WorkQueueAssumption ==
    /\ Modes \subseteq [delay : Nat, ttl : Nat, prio : Nat, inline : BOOLEAN]
    /\ NackDelays \subseteq Nat
    /\ LeaseMs \in Nat /\ MaxBatch \in Nat /\ MaxAttempts \in Nat
    /\ MaxCalls \in Nat /\ MaxCrashes \in Nat /\ MaxClock \in Nat

VARIABLES
    meta,      \* `mq/{topic}/{id}`
    dead,      \* `mqdead/{topic}/{id}`
    ready,     \* `mqready/{topic}`
    paused,    \* the pause flag
    payload,   \* ids whose payload object is in Storage
    job,       \* what each worker is doing
    handles,   \* ClaimedMessages consumers hold
    clock,
    calls,     \* operator calls made so far
    crashes,   \* restarts so far
    \* history, read by the properties only
    minted,    \* ids given to a publish
    committed, \* ids whose publish was acknowledged
    acked,     \* ids whose record an ack deleted
    purged,    \* ids whose dead letter an operator discarded
    rearmed,   \* ids a redrive put back into the index
    clobbered  \* ids whose record a consumer's call overwrote from a stale
               \* read, or nacked after a later delivery

store == <<meta, dead, ready, paused, payload>>
history == <<minted, committed, acked, purged, rearmed, clobbered>>
vars == <<meta, dead, ready, paused, payload, job, handles, clock, calls, crashes,
          minted, committed, acked, purged, rearmed, clobbered>>

Index == [Ids -> Record \cup {NoRec}]
Handle == [id : Ids, attempts : Nat, until : Nat, inline : BOOLEAN]

\* A job is the stage of a call and what it has read so far.
Job ==   [stage : {"idle", "claim", "check", "mark"}]
    \cup [stage : {"commit"}, id : Ids, rec : Record]
    \cup [stage : {"scan"}, now : Nat, todo : SUBSET Ids, seen : Index]
    \cup [stage : {"lease"}, now : Nat, seen : Index]
    \cup [stage : {"relist", "prune", "return"}, recs : SUBSET Handle]
    \cup [stage : {"free"}, id : Ids]
    \cup [stage : {"nack", "note", "bury"}, id : Ids, read : Record, rec : Record]
    \cup [stage : {"purge"}, todo : SUBSET Ids]
    \cup [stage : {"erase", "drop"}, id : Ids, todo : SUBSET Ids]
    \cup [stage : {"redrive"}, filtered : BOOLEAN, todo : SUBSET Ids]
    \cup [stage : {"rearm"}, id : Ids, rec : Record, filtered : BOOLEAN, todo : SUBSET Ids]
    \cup [stage : {"unbury"}, id : Ids, filtered : BOOLEAN, todo : SUBSET Ids]

IdleJob == [stage |-> "idle"]

ClaimStages == {"scan", "lease", "relist", "prune", "return"}
ClaimLocked == \E v \in Workers : job[v].stage \in ClaimStages
CommitGated == \E v \in Workers : job[v].stage = "prune"

Fresh(inline) ==
    [attempts |-> 0, lease |-> 0, expires |-> 0, prio |-> 0, inline |-> inline]
NoIndex == [i \in Ids |-> NoRec]
From(now, offset) == IF offset = 0 THEN 0 ELSE now + offset
First(S) == CHOOSE i \in S : \A j \in S : i <= j

Init ==
    /\ meta = NoIndex /\ dead = NoIndex
    /\ ready = FALSE /\ paused = FALSE
    /\ payload = {}
    /\ job = [w \in Workers |-> IdleJob]
    /\ handles = {}
    /\ clock = 0 /\ calls = 0 /\ crashes = 0
    /\ minted = {} /\ committed = {} /\ acked = {} /\ purged = {}
    /\ rearmed = {} /\ clobbered = {}

Goto(w, j) == job' = [job EXCEPT ![w] = j]

\* A consumer or publisher starts a call.
Begin(w, call) == job[w] = IdleJob /\ call \in Calls

\* An operator, or the scheduler's maintenance pass, starts a call.
BeginOperator(w, call) ==
    Begin(w, call) /\ calls < MaxCalls /\ calls' = calls + 1

-----------------------------------------------------------------------------
(* publish_ctx and its delayed, ttl and priority variants.                  *)

\* Mutation of Publish: the index is written without the payload object.
PublishWithoutPayload(w, i, m) ==
    /\ Begin(w, "publish")
    /\ i \notin minted
    /\ minted' = minted \cup {i}
    /\ Goto(w, [stage |-> "commit", id |-> i,
                rec |-> [attempts |-> 0, lease |-> From(clock, m.delay),
                         expires |-> From(clock, m.ttl), prio |-> m.prio,
                         inline |-> m.inline]])
    /\ UNCHANGED <<meta, dead, ready, paused, payload, handles, clock, calls, crashes,
                   committed, acked, purged, rearmed, clobbered>>

\* build_publish_ops: the payload object is written first.
Publish(w, i, m) ==
    /\ Begin(w, "publish")
    /\ i \notin minted
    /\ minted' = minted \cup {i}
    /\ payload' = IF m.inline THEN payload ELSE payload \cup {i}
    /\ Goto(w, [stage |-> "commit", id |-> i,
                rec |-> [attempts |-> 0, lease |-> From(clock, m.delay),
                         expires |-> From(clock, m.ttl), prio |-> m.prio,
                         inline |-> m.inline]])
    /\ UNCHANGED <<meta, dead, ready, paused, handles, clock, calls, crashes,
                   committed, acked, purged, rearmed, clobbered>>

\* Mutation of PublishCommit: the commit gate is not taken.
PublishCommitUngated(w) ==
    LET j == job[w] IN
    /\ j.stage = "commit"
    /\ meta' = [meta EXCEPT ![j.id] = j.rec]
    /\ ready' = TRUE
    /\ committed' = committed \cup {j.id}
    /\ Goto(w, IdleJob)
    /\ UNCHANGED <<dead, paused, payload, handles, clock, calls, crashes,
                   minted, acked, purged, rearmed, clobbered>>

\* group_commit: record and ready marker in one batch, under the commit gate.
PublishCommit(w) ==
    LET j == job[w] IN
    /\ j.stage = "commit"
    /\ ~CommitGated
    /\ meta' = [meta EXCEPT ![j.id] = j.rec]
    /\ ready' = TRUE
    /\ committed' = committed \cup {j.id}
    /\ Goto(w, IdleJob)
    /\ UNCHANGED <<dead, paused, payload, handles, clock, calls, crashes,
                   minted, acked, purged, rearmed, clobbered>>

-----------------------------------------------------------------------------
(* claim                                                                    *)

\* A paused topic delivers nothing.
Claim(w) ==
    /\ Begin(w, "claim")
    /\ ~paused
    /\ Goto(w, [stage |-> "claim"])
    /\ UNCHANGED <<store, handles, clock, calls, crashes, history>>

\* Mutation of ClaimList: claims are not serialized.
ClaimListUnlocked(w) ==
    /\ job[w].stage = "claim"
    /\ Goto(w, [stage |-> "scan", now |-> clock, todo |-> Live(meta), seen |-> NoIndex])
    /\ UNCHANGED <<store, handles, clock, calls, crashes, history>>

\* Take claim_lock, read the clock and list the topic's keys.
ClaimList(w) ==
    /\ job[w].stage = "claim"
    /\ ~ClaimLocked
    /\ Goto(w, [stage |-> "scan", now |-> clock, todo |-> Live(meta), seen |-> NoIndex])
    /\ UNCHANGED <<store, handles, clock, calls, crashes, history>>

\* Read the listed keys one by one; one that was acked since is skipped.
ClaimRead(w) ==
    LET j == job[w]  i == First(j.todo) IN
    /\ j.stage = "scan" /\ j.todo # {}
    /\ Goto(w, [j EXCEPT !.todo = @ \ {i}, !.seen[i] = meta[i]])
    /\ UNCHANGED <<store, handles, clock, calls, crashes, history>>

\* Plan the claim and read the payloads to deliver; a missing one fails the
\* call before anything is written.
ClaimPlanned(w) ==
    LET j == job[w]
        leases == PlanLeases(j.seen, j.now, MaxBatch, MaxAttempts)
        found == \A i \in leases : j.seen[i].inline \/ i \in payload
    IN /\ j.stage = "scan" /\ j.todo = {}
       /\ Goto(w, IF found THEN [stage |-> "lease", now |-> j.now, seen |-> j.seen]
                  ELSE IdleJob)
       /\ UNCHANGED <<store, handles, clock, calls, crashes, history>>

\* The lease writes and dead-letter moves, in one batch.  If nothing claimable
\* is left the claim goes on to prune the ready marker.
ClaimCommit(w) ==
    LET j == job[w]
        leases == PlanLeases(j.seen, j.now, MaxBatch, MaxAttempts)
        deads == PlanDeadLetters(j.seen, j.now, MaxBatch, MaxAttempts)
        drained == Candidates(j.seen, j.now, MaxAttempts) \subseteq leases
    IN /\ j.stage = "lease"
       /\ meta' = [i \in Ids |-> IF i \in leases THEN Leased(j.seen[i], j.now, LeaseMs)
                                 ELSE IF i \in deads THEN NoRec ELSE meta[i]]
       /\ dead' = [i \in Ids |-> IF i \in deads THEN j.seen[i] ELSE dead[i]]
       /\ Goto(w, [stage |-> IF drained THEN "relist" ELSE "return",
                   recs |-> {[id |-> i, attempts |-> j.seen[i].attempts + 1,
                              until |-> j.now + LeaseMs, inline |-> j.seen[i].inline] :
                                i \in leases}])
       /\ UNCHANGED <<ready, paused, payload, handles, clock, calls, crashes, history>>

\* Take the commit gate and list the topic again; only an empty one is pruned.
ClaimRelist(w) ==
    /\ job[w].stage = "relist"
    /\ Goto(w, [job[w] EXCEPT !.stage = IF Live(meta) = {} THEN "prune" ELSE "return"])
    /\ UNCHANGED <<store, handles, clock, calls, crashes, history>>

ClaimPrune(w) ==
    /\ job[w].stage = "prune"
    /\ ready' = FALSE
    /\ Goto(w, [job[w] EXCEPT !.stage = "return"])
    /\ UNCHANGED <<meta, dead, paused, payload, handles, clock, calls, crashes, history>>

\* Release the lock and hand the messages to the consumer.
ClaimReturn(w) ==
    /\ job[w].stage = "return"
    /\ handles' = handles \cup job[w].recs
    /\ Goto(w, IdleJob)
    /\ UNCHANGED <<store, clock, calls, crashes, history>>

-----------------------------------------------------------------------------
(* ack, nack_after, set_last_error, dead_letter                             *)

Ack(w, h) ==
    /\ Begin(w, "ack")
    /\ h \in handles
    /\ handles' = handles \ {h}
    /\ meta' = [meta EXCEPT ![h.id] = NoRec]
    /\ acked' = acked \cup {h.id}
    /\ Goto(w, IF h.inline THEN IdleJob ELSE [stage |-> "free", id |-> h.id])
    /\ UNCHANGED <<dead, ready, paused, payload, clock, calls, crashes,
                   minted, committed, purged, rearmed, clobbered>>

AckFree(w) ==
    /\ job[w].stage = "free"
    /\ payload' = payload \ {job[w].id}
    /\ Goto(w, IdleJob)
    /\ UNCHANGED <<meta, dead, ready, paused, handles, clock, calls, crashes, history>>

\* A read of the record, to be written back changed; gone means nothing to do.
ReadBack(w, stage, h, rec) ==
    Goto(w, IF meta[h.id] = NoRec THEN IdleJob
            ELSE [stage |-> stage, id |-> h.id, read |-> meta[h.id], rec |-> rec])

\* The record the write replaces is not the one that was read.
Clobbers(j) == meta[j.id] # j.read

Nack(w, h, d) ==
    /\ Begin(w, "nack")
    /\ h \in handles
    /\ handles' = handles \ {h}
    /\ ReadBack(w, "nack", h, [meta[h.id] EXCEPT !.lease = From(clock, d)])
    /\ clobbered' = IF meta[h.id] # NoRec /\ meta[h.id].attempts # h.attempts
                    THEN clobbered \cup {h.id} ELSE clobbered
    /\ UNCHANGED <<store, clock, calls, crashes,
                   minted, committed, acked, purged, rearmed>>

NackWrite(w) ==
    LET j == job[w] IN
    /\ j.stage = "nack"
    /\ meta' = [meta EXCEPT ![j.id] = j.rec]
    /\ ready' = TRUE
    /\ clobbered' = IF Clobbers(j) THEN clobbered \cup {j.id} ELSE clobbered
    /\ Goto(w, IdleJob)
    /\ UNCHANGED <<dead, paused, payload, handles, clock, calls, crashes,
                   minted, committed, acked, purged, rearmed>>

\* set_last_error, made on the last attempt before the nack.
SetLastError(w, h) ==
    /\ Begin(w, "note")
    /\ h \in handles /\ h.attempts >= MaxAttempts
    /\ ReadBack(w, "note", h, meta[h.id])
    /\ UNCHANGED <<store, handles, clock, calls, crashes, history>>

SetLastErrorWrite(w) ==
    LET j == job[w] IN
    /\ j.stage = "note"
    /\ meta' = [meta EXCEPT ![j.id] = j.rec]
    /\ clobbered' = IF Clobbers(j) THEN clobbered \cup {j.id} ELSE clobbered
    /\ Goto(w, IdleJob)
    /\ UNCHANGED <<dead, ready, paused, payload, handles, clock, calls, crashes,
                   minted, committed, acked, purged, rearmed>>

\* dead_letter: the quarantine of a message that must never be delivered.
DeadLetter(w, h) ==
    /\ Begin(w, "bury")
    /\ h \in handles
    /\ handles' = handles \ {h}
    /\ ReadBack(w, "bury", h, [meta[h.id] EXCEPT !.lease = 0])
    /\ UNCHANGED <<store, clock, calls, crashes, history>>

\* Mutation of DeadLetterWrite: the record is dropped, not moved.
DeadLetterWriteDrops(w) ==
    LET j == job[w] IN
    /\ j.stage = "bury"
    /\ meta' = [meta EXCEPT ![j.id] = NoRec]
    /\ Goto(w, IdleJob)
    /\ UNCHANGED <<dead, ready, paused, payload, handles, clock, calls, crashes, history>>

DeadLetterWrite(w) ==
    LET j == job[w] IN
    /\ j.stage = "bury"
    /\ dead' = [dead EXCEPT ![j.id] = j.rec]
    /\ meta' = [meta EXCEPT ![j.id] = NoRec]
    /\ clobbered' = IF Clobbers(j) THEN clobbered \cup {j.id} ELSE clobbered
    /\ Goto(w, IdleJob)
    /\ UNCHANGED <<ready, paused, payload, handles, clock, calls, crashes,
                   minted, committed, acked, purged, rearmed>>

-----------------------------------------------------------------------------
(* redrive_dead_letters, purge_dead_letters, set_paused, rebuild_ready_set  *)

\* The ids that are left, or the call returns.
Continue(w, j) == Goto(w, IF j.todo = {} THEN IdleJob ELSE j)

\* redrive_dead_letters takes every dead letter, redrive_dead_letters_filtered a
\* selection.
Redrive(w, filtered, ids) ==
    /\ BeginOperator(w, "redrive")
    /\ ids # {} /\ ids \subseteq Live(dead) /\ (filtered \/ ids = Live(dead))
    /\ Goto(w, [stage |-> "redrive", filtered |-> filtered, todo |-> ids])
    /\ UNCHANGED <<store, handles, clock, crashes, history>>

\* The record a redrive puts back; a dead letter that is gone by now is made up.
Rearmed(i) ==
    IF dead[i] = NoRec THEN Fresh(FALSE)
    ELSE [dead[i] EXCEPT !.attempts = 0, !.lease = 0, !.expires = 0]

\* Mutation of RedriveRead: the dead letter is taken out before the record is
\* put back, so a crash in between loses it.
RedriveTakes(w) ==
    LET j == job[w]  i == First(j.todo) IN
    /\ j.stage = "redrive"
    /\ dead' = [dead EXCEPT ![i] = NoRec]
    /\ Goto(w, [stage |-> "rearm", id |-> i, rec |-> Rearmed(i),
                filtered |-> j.filtered, todo |-> j.todo \ {i}])
    /\ UNCHANGED <<meta, ready, paused, payload, handles, clock, calls, crashes, history>>

\* The filtered call passes over a dead letter that is gone, the other does not.
RedriveRead(w) ==
    LET j == job[w]  i == First(j.todo) IN
    /\ j.stage = "redrive"
    /\ IF j.filtered /\ dead[i] = NoRec THEN Continue(w, [j EXCEPT !.todo = @ \ {i}])
       ELSE Goto(w, [stage |-> "rearm", id |-> i, rec |-> Rearmed(i),
                     filtered |-> j.filtered, todo |-> j.todo \ {i}])
    /\ UNCHANGED <<store, handles, clock, calls, crashes, history>>

RedrivePut(w) ==
    LET j == job[w] IN
    /\ j.stage = "rearm"
    /\ meta' = [meta EXCEPT ![j.id] = j.rec]
    /\ rearmed' = rearmed \cup {j.id}
    /\ Goto(w, [stage |-> "unbury", id |-> j.id, filtered |-> j.filtered, todo |-> j.todo])
    /\ UNCHANGED <<dead, ready, paused, payload, handles, clock, calls, crashes,
                   minted, committed, acked, purged, clobbered>>

RedriveDelete(w) ==
    LET j == job[w] IN
    /\ j.stage = "unbury"
    /\ dead' = [dead EXCEPT ![j.id] = NoRec]
    /\ Continue(w, [stage |-> "redrive", filtered |-> j.filtered, todo |-> j.todo])
    /\ UNCHANGED <<meta, ready, paused, payload, handles, clock, calls, crashes, history>>

\* purge_dead_letters takes every dead letter, discard_dead_letters a selection.
Purge(w, ids) ==
    /\ BeginOperator(w, "purge")
    /\ ids # {} /\ ids \subseteq Live(dead)
    /\ Goto(w, [stage |-> "purge", todo |-> ids])
    /\ UNCHANGED <<store, handles, clock, crashes, history>>

\* A dead letter that carries its payload has no object to free.
PurgeRead(w) ==
    LET j == job[w]  i == First(j.todo) IN
    /\ j.stage = "purge"
    /\ Goto(w, [stage |-> IF dead[i] # NoRec /\ dead[i].inline THEN "drop" ELSE "erase",
                id |-> i, todo |-> j.todo \ {i}])
    /\ UNCHANGED <<store, handles, clock, calls, crashes, history>>

PurgeFree(w) ==
    LET j == job[w] IN
    /\ j.stage = "erase"
    /\ payload' = payload \ {j.id}
    /\ Goto(w, [j EXCEPT !.stage = "drop"])
    /\ UNCHANGED <<meta, dead, ready, paused, handles, clock, calls, crashes, history>>

PurgeDelete(w) ==
    LET j == job[w] IN
    /\ j.stage = "drop"
    /\ dead' = [dead EXCEPT ![j.id] = NoRec]
    /\ purged' = IF dead[j.id] = NoRec THEN purged ELSE purged \cup {j.id}
    /\ Continue(w, [stage |-> "purge", todo |-> j.todo])
    /\ UNCHANGED <<meta, ready, paused, payload, handles, clock, calls, crashes,
                   minted, committed, acked, rearmed, clobbered>>

SetPaused(w, b) ==
    /\ BeginOperator(w, "pause")
    /\ paused' = b
    /\ UNCHANGED <<meta, dead, ready, payload, job, handles, clock, crashes, history>>

\* rebuild_ready_set: a topic with a record gets its marker back; never a prune.
Rebuild(w) ==
    /\ Begin(w, "rebuild")
    /\ Live(meta) # {}
    /\ Goto(w, [stage |-> "check"])
    /\ UNCHANGED <<store, handles, clock, calls, crashes, history>>

\* The markers are listed after the index.
RebuildCheck(w) ==
    /\ job[w].stage = "check"
    /\ Goto(w, IF ready THEN IdleJob ELSE [stage |-> "mark"])
    /\ UNCHANGED <<store, handles, clock, calls, crashes, history>>

RebuildMark(w) ==
    /\ job[w].stage = "mark"
    /\ ready' = TRUE
    /\ Goto(w, IdleJob)
    /\ UNCHANGED <<meta, dead, paused, payload, handles, clock, calls, crashes, history>>

-----------------------------------------------------------------------------

\* The process dies and restarts: the calls under way and the messages its
\* consumers hold are gone, the stores stay.
Crash ==
    /\ crashes < MaxCrashes
    /\ crashes' = crashes + 1
    /\ job' = [w \in Workers |-> IdleJob]
    /\ handles' = {}
    /\ UNCHANGED <<store, clock, calls, history>>

\* Deliveries made or about to be made.
Holders == handles \cup UNION {job[w].recs :
                w \in {v \in Workers : job[v].stage \in {"relist", "prune", "return"}}}

\* The instants somebody waits for; time only passes towards one of them.
Deadlines == {h.until : h \in Holders}
        \cup {meta[i].lease : i \in Live(meta)} \cup {meta[i].expires : i \in Live(meta)}

Tick ==
    /\ clock < MaxClock
    /\ \E t \in Deadlines : t > clock
    /\ clock' = clock + 1
    /\ UNCHANGED <<store, job, handles, calls, crashes, history>>

\* A step of a call that is under way.
Step(w) ==
    \/ PublishCommit(w)
    \/ ClaimList(w) \/ ClaimRead(w) \/ ClaimPlanned(w) \/ ClaimCommit(w)
    \/ ClaimRelist(w) \/ ClaimPrune(w) \/ ClaimReturn(w)
    \/ AckFree(w) \/ NackWrite(w) \/ SetLastErrorWrite(w) \/ DeadLetterWrite(w)
    \/ RedriveRead(w) \/ RedrivePut(w) \/ RedriveDelete(w)
    \/ PurgeRead(w) \/ PurgeFree(w) \/ PurgeDelete(w)
    \/ RebuildCheck(w) \/ RebuildMark(w)

\* A consumer disposes of a message it holds.
Dispose(w) ==
    \/ \E h \in handles : Ack(w, h)
    \/ \E h \in handles, d \in NackDelays : Nack(w, h, d)
    \/ \E h \in handles : DeadLetter(w, h)

Operate(w) ==
    \/ \E filtered \in BOOLEAN, ids \in SUBSET Ids : Redrive(w, filtered, ids)
    \/ \E ids \in SUBSET Ids : Purge(w, ids)
    \/ \E b \in BOOLEAN : SetPaused(w, b)

Next ==
    \/ \E w \in Workers : Step(w)
    \/ \E w \in Workers : Dispose(w)
    \/ \E w \in Workers : Operate(w)
    \/ \E w \in Workers, i \in Ids, m \in Modes : Publish(w, i, m)
    \/ \E w \in Workers : Claim(w)
    \/ \E w \in Workers, h \in handles : SetLastError(w, h)
    \/ \E w \in Workers : Rebuild(w)
    \/ Crash
    \/ Tick

Spec == Init /\ [][Next]_vars

\* The scheduler: the drainer claims a topic whose marker is set, consumers
\* dispose of what they are given, the safety net rebuilds the markers, calls
\* under way go on and time passes.
Drain(w) == ready /\ Claim(w)

Heal(w) == ~ready /\ Rebuild(w)

Fairness ==
    /\ \A w \in Workers : WF_vars(Step(w)) /\ SF_vars(Dispose(w))
    /\ \A w \in Workers : SF_vars(Drain(w)) /\ SF_vars(Heal(w))
    /\ WF_vars(Tick)

FairSpec == Spec /\ Fairness

-----------------------------------------------------------------------------
(* Properties.                                                              *)

TypeOK ==
    /\ meta \in Index /\ dead \in Index
    /\ ready \in BOOLEAN /\ paused \in BOOLEAN
    /\ payload \in SUBSET Ids
    /\ job \in [Workers -> Job]
    /\ handles \in SUBSET Handle
    /\ clock \in Nat /\ calls \in Nat /\ crashes \in Nat
    /\ minted \in SUBSET Ids /\ committed \in SUBSET Ids /\ acked \in SUBSET Ids
    /\ purged \in SUBSET Ids /\ rearmed \in SUBSET Ids /\ clobbered \in SUBSET Ids

\* At-least-once: a published message stays in the index or in the dead-letter
\* store until a consumer acks it or an operator purges it, whatever calls
\* overlap and wherever the process dies.
NothingLost ==
    committed \subseteq Live(meta) \cup Live(dead) \cup acked \cup purged

\* Messages that were acknowledged, dead-lettered, discarded or redriven.
Retired == acked \cup purged \cup rearmed \cup Live(dead)

\* A claim that prunes the ready marker never hides a message a publish or a
\* nack has just made claimable: the drainer finds every record that still
\* has to be delivered.
MarkerCoversBacklog ==
    \A i \in Live(meta) \ Retired : ready

\* Payload first: the record of a message nobody acked, buried or redrove is
\* never there without its payload, however calls write it back.
PayloadPresent ==
    \A i \in Live(meta) \ Retired : meta[i].inline \/ i \in payload

\* A message is leased to one consumer at a time, unless a record was written
\* back from a stale read or nacked by a former holder.
OneHolder ==
    \A g, h \in Holders :
        g.id = h.id /\ g # h /\ g.id \notin clobbered \cup rearmed
            => g.until <= clock \/ h.until <= clock

\* Every delivery is charged, with the same exception.
AttemptsCharged ==
    \A h \in Holders :
        /\ h.attempts \in 1 .. MaxAttempts
        /\ meta[h.id] # NoRec /\ h.id \notin clobbered \cup rearmed
            => h.attempts <= meta[h.id].attempts

\* Messages that left the queue: settled, discarded, or no longer this module's
\* to promise anything about.
Released == acked \cup purged \cup rearmed \cup clobbered

\* What waits for a consumer.  A message that a consumer buried while a claim was
\* under way may be leased once more by that claim, and counts as parked.
Waiting == Live(meta) \ (Released \cup Live(dead))

Queue == INSTANCE AtLeastOnce WITH
    Messages <- Ids,
    MaxTries <- MaxAttempts,
    live <- Waiting,
    parked <- Live(dead) \ Released,
    gone <- Released,
    tries <- [i \in Ids |-> IF i \in Waiting THEN meta[i].attempts ELSE 0]

\* However the reads and writes of calls interleave, a message goes through the
\* life AtLeastOnce states until it is settled, discarded, redriven, or its record
\* is overwritten from a stale read: published once, each delivery charged and
\* allowed, parked as a dead letter and never lost or delivered from nowhere.
ImplementsQueue == Queue!Spec

\* Every published message ends acknowledged, dead-lettered or purged, although
\* the process dies, a consumer keeps its lease to the end or an operator
\* redrives it: the drainer, its markers and their rebuild reach it again.
Settled ==
    \A i \in Ids : i \in committed ~> (i \in acked \cup purged \/ dead[i] # NoRec)

=============================================================================
