------------------------------ MODULE GroupLog ------------------------------
(***************************************************************************)
(* The consumer-group lane of one topic on a single node: the retained log  *)
(* and the group operations of LogMessaging, boatramp-core/src/messaging.rs.*)
(*                                                                          *)
(* Every state of a group is written under `claim_lock`, which is           *)
(* represented by the stages in which its holder is.  A publish takes no    *)
(* lock before its group commit, discard takes none at all, and redrive     *)
(* lists the dead letters before it takes it.  A read and a write that only *)
(* the lock holder can change between are one step.                         *)
(*                                                                          *)
(* The work-queue record and the ready marker that the same calls write are *)
(* in module WorkQueue.  Other topics of the process are seen only through  *)
(* the cache of grouped topics that they share with this one.               *)
(***************************************************************************)
EXTENDS GroupPlan

CONSTANTS
    Groups,       \* consumer groups of the topic
    Workers,      \* calls that can be under way at the same time
    Starts,       \* start positions: "earliest", "latest"
    NackDelays,   \* redelivery backoffs a consumer may ask for, 0 = none
    LeaseMs, MaxBatch, MaxAttempts, Retention,
    Calls,        \* the calls the environment makes
    MaxCalls,     \* bound: operator calls made in a behaviour
    MaxCrashes,   \* bound: restarts of the process
    MaxClock      \* bound: the clock stops here

ASSUME GroupLogAssumption ==
    /\ Starts \subseteq {"earliest", "latest"} /\ NackDelays \subseteq Nat
    /\ LeaseMs \in Nat /\ MaxBatch \in Nat /\ MaxAttempts \in Nat /\ Retention \in Nat
    /\ MaxCalls \in Nat /\ MaxCrashes \in Nat /\ MaxClock \in Nat

VARIABLES
    glog,      \* `mqglog/{topic}/{id}`
    logmax,    \* the gate marker of the topic, 0 before the first message
    gpayload,  \* ids whose retained payload object is in Storage
    gstate,    \* `mqgstate/{topic}/{group}`
    gdead,     \* `mqgd/{topic}/{group}/{id}`
    paused,    \* the pause flag
    cache,     \* what grouped_topics says of the topic
    born,      \* the millis in each minted id, None before it is minted
    job,       \* what each worker is doing
    handles,   \* ClaimedMessages consumers hold
    clock,
    calls,     \* operator calls made so far
    crashes,   \* restarts so far
    \* history, read by the properties only
    newest,    \* the greatest id ever committed to the log
    owed,      \* per group: ids it has still to be given, or to give back
    renewed    \* group and id: the lease was given up while a handle was held

store == <<glog, logmax, gpayload, gstate, gdead, paused>>
bounds == <<clock, calls, crashes>>
history == <<newest, owed, renewed>>
vars == <<glog, logmax, gpayload, gstate, gdead, paused, cache, born, job, handles,
          clock, calls, crashes, newest, owed, renewed>>

Handle == [group : Groups, id : Ids, attempts : Nat, until : Nat, copy : Nat]

\* A job is the stage of a call and what it has read so far.
Job ==   [stage : {"idle"}]
    \cup [stage : {"load", "plain"}, id : Ids]
    \cup [stage : {"cache"}, id : Ids, has : BOOLEAN]
    \cup [stage : {"gate"}, id : Ids]
    \cup [stage : {"commit"}, id : Ids, cur : Nat]
    \cup [stage : {"probe", "scan"}, group : Groups, now : Nat, state : GroupState]
    \cup [stage : {"bury"}, group : Groups, state : GroupState, todo : SUBSET Ids,
          recs : SUBSET Handle]
    \cup [stage : {"quarantine"}, group : Groups, id : Ids]
    \cup [stage : {"rewait", "redrive"}, filtered : BOOLEAN, todo : SUBSET (Groups \X Ids)]
    \cup [stage : {"unpin"}, filtered : BOOLEAN, todo : SUBSET (Groups \X Ids),
          pair : Groups \X Ids]
    \cup [stage : {"discard"}, todo : SUBSET (Groups \X Ids)]
    \cup [stage : {"delete"}, group : Groups, todo : SUBSET Ids]
    \cup [stage : {"sweep", "unlog"}, todo : SUBSET Ids]

IdleJob == [stage |-> "idle"]

LockStages == {"probe", "scan", "bury", "quarantine", "redrive", "unpin",
               "delete", "sweep", "unlog"}
Locked == \E v \in Workers : job[v].stage \in LockStages

Registered == {g \in Groups : gstate[g] # None}
States == {gstate[g] : g \in Registered}
DeadPairs == {p \in Groups \X Ids : p[2] \in gdead[p[1]]}
HeldPairs(H) == {<<h.group, h.id>> : h \in H}
First(S) == CHOOSE i \in S : \A k \in S : i <= k

\* Mutation of From: the delay is taken from the clock, not added.
FromBefore(now, offset) == IF offset = 0 THEN 0 ELSE now - offset

\* nack_after: the time until which a nacked message is held back.
From(now, offset) == IF offset = 0 THEN 0 ELSE now + offset

Init ==
    /\ glog = {} /\ logmax = 0 /\ gpayload = {}
    /\ gstate = [g \in Groups |-> None]
    /\ gdead = [g \in Groups |-> {}]
    /\ paused = FALSE
    /\ cache = "unloaded"
    /\ born = [i \in Ids |-> None]
    /\ job = [w \in Workers |-> IdleJob]
    /\ handles = {}
    /\ clock = 0 /\ calls = 0 /\ crashes = 0
    /\ newest = 0
    /\ owed = [g \in Groups |-> {}]
    /\ renewed = {}

Goto(w, j) == job' = [job EXCEPT ![w] = j]

\* A consumer or publisher starts a call.
Begin(w, call) == job[w] = IdleJob /\ call \in Calls

\* An operator, or the scheduler's sweep, starts a call.
BeginOperator(w, call) ==
    Begin(w, call) /\ calls < MaxCalls /\ calls' = calls + 1

-----------------------------------------------------------------------------
(* publish: build_publish_ops and the group commit.                         *)

\* Whether to retain is known: a retained payload is written before the index.
Retain(w, i, has) ==
    /\ Goto(w, IF has THEN [stage |-> "gate", id |-> i]
               ELSE [stage |-> "plain", id |-> i])
    /\ gpayload' = IF has THEN gpayload \cup {i} ELSE gpayload

\* Mint the next id and ask topic_has_groups; a loaded cache answers at once.
Publish(w) ==
    LET left == {i \in Ids : born[i] = None}  i == First(left) IN
    /\ Begin(w, "publish")
    /\ left # {}
    /\ born' = [born EXCEPT ![i] = clock]
    /\ IF cache = "unloaded"
       THEN /\ Goto(w, [stage |-> "load", id |-> i])
            /\ UNCHANGED gpayload
       ELSE Retain(w, i, cache = "grouped")
    /\ UNCHANGED <<glog, logmax, gstate, gdead, paused, cache, handles, bounds, history>>

\* Otherwise the registered groups are listed, and a listing that fails is taken
\* for an empty one ...
LoadList(w) ==
    LET j == job[w] IN
    /\ j.stage = "load"
    /\ \E has \in {Registered # {}, FALSE} :
          Goto(w, [stage |-> "cache", id |-> j.id, has |-> has])
    /\ UNCHANGED <<store, cache, born, handles, bounds, history>>

\* ... and the cache is replaced by what the listing found.
LoadCache(w) ==
    LET j == job[w] IN
    /\ j.stage = "cache"
    /\ cache' = IF j.has THEN "grouped" ELSE "ungrouped"
    /\ Retain(w, j.id, j.has)
    /\ UNCHANGED <<glog, logmax, gstate, gdead, paused, born, handles, bounds, history>>

\* Read the gate marker.
GateRead(w) ==
    LET j == job[w] IN
    /\ j.stage = "gate"
    /\ Goto(w, [stage |-> "commit", id |-> j.id, cur |-> logmax])
    /\ UNCHANGED <<store, cache, born, handles, bounds, history>>

\* group_commit: the log entry, and the gate marker if the id is beyond the one
\* that was read.  A message committed in order is owed to every group.
PublishCommit(w) ==
    LET j == job[w] IN
    /\ j.stage = "commit"
    /\ glog' = glog \cup {j.id}
    /\ logmax' = IF j.id > j.cur THEN j.id ELSE logmax
    /\ owed' = [g \in Groups |-> IF gstate[g] # None /\ j.id > newest
                                 THEN owed[g] \cup {j.id} ELSE owed[g]]
    /\ newest' = IF j.id > newest THEN j.id ELSE newest
    /\ Goto(w, IdleJob)
    /\ UNCHANGED <<gpayload, gstate, gdead, paused, cache, born, handles, bounds, renewed>>

\* group_commit of a message that is not retained: nothing for the groups.
PublishPlain(w) ==
    LET j == job[w] IN
    /\ j.stage = "plain"
    /\ Goto(w, IdleJob)
    /\ UNCHANGED <<store, cache, born, handles, bounds, history>>

-----------------------------------------------------------------------------
(* claim_grouped                                                            *)

\* mark_grouped: the cache starts from the empty set if it was not loaded.
MarkGrouped == cache' = "grouped"

\* Mutation of ClaimGrouped: claims are not serialized.
ClaimGroupedUnlocked(w, g, start) ==
    /\ Begin(w, "claim")
    /\ ~paused
    /\ Goto(w, [stage |-> "probe", group |-> g, now |-> clock,
                state |-> IF gstate[g] # None THEN gstate[g] ELSE NewGroup(0)])
    /\ MarkGrouped
    /\ UNCHANGED <<store, born, handles, bounds, history>>

\* A topic that is paused when the call looks delivers nothing.  Otherwise take
\* the lock, read the clock, and load the state of the group or make one.
ClaimGrouped(w, g, start) ==
    /\ Begin(w, "claim")
    /\ ~paused
    /\ ~Locked
    /\ IF gstate[g] # None
       THEN /\ Goto(w, [stage |-> "probe", group |-> g, now |-> clock, state |-> gstate[g]])
            /\ UNCHANGED cache
       ELSE /\ Goto(w, [stage |-> "probe", group |-> g, now |-> clock,
                        state |-> NewGroup(IF start = "latest" THEN logmax ELSE 0)])
            /\ MarkGrouped
    /\ UNCHANGED <<store, born, handles, bounds, history>>

\* What the plan says, with the payloads that are there to be read.  A group
\* state that does not change is not written.
Settle(w, j, new) ==
    LET next == Planned(j.state, j.now, LeaseMs, MaxBatch, MaxAttempts, new)
        leased == PlanLeased(j.state, j.now, MaxBatch, MaxAttempts, new)
        dead == PlanDead(j.state, j.now, MaxAttempts)
    IN Goto(w, IF gstate[j.group] # None /\ leased = {} /\ dead = {} THEN IdleJob
               ELSE [stage |-> "bury", group |-> j.group, state |-> next, todo |-> dead,
                     recs |-> {[group |-> j.group, id |-> p[1],
                                attempts |-> next.flight[p[1]][p[2]].attempts,
                                until |-> j.now + LeaseMs, copy |-> p[2]] :
                                   p \in {q \in leased : q[1] \in gpayload}}])

\* The gate: a group that has caught up with logmax does not scan.
ClaimGate(w) ==
    LET j == job[w] IN
    /\ j.stage = "probe"
    /\ IF j.state.hwm < logmax THEN Goto(w, [j EXCEPT !.stage = "scan"])
       ELSE Settle(w, j, {})
    /\ UNCHANGED <<store, cache, born, handles, bounds, history>>

\* log_ids_after: the first ids beyond the high-water.
ClaimScan(w) ==
    LET j == job[w] IN
    /\ j.stage = "scan"
    /\ Settle(w, j, Oldest({i \in glog : i > j.state.hwm}, MaxBatch))
    /\ UNCHANGED <<store, cache, born, handles, bounds, history>>

\* The dead letters are put one by one, before the state that drops them.
ClaimBury(w) ==
    LET j == job[w]  i == First(j.todo) IN
    /\ j.stage = "bury" /\ j.todo # {}
    /\ gdead' = [gdead EXCEPT ![j.group] = @ \cup {i}]
    /\ Goto(w, [j EXCEPT !.todo = @ \ {i}])
    /\ UNCHANGED <<glog, logmax, gpayload, gstate, paused, cache, born, handles, bounds,
                   history>>

\* Persist the state, release the lock and hand the messages to the consumer.
\* A group that registers is owed what its high-water leaves ahead of it.
ClaimPersist(w) ==
    LET j == job[w]  g == j.group IN
    /\ j.stage = "bury" /\ j.todo = {}
    /\ gstate' = [gstate EXCEPT ![g] = j.state]
    /\ owed' = IF gstate[g] # None THEN owed
               ELSE [owed EXCEPT ![g] =
                        {i \in glog \cap gpayload :
                            i > j.state.hwm \/ i \in InFlight(j.state)}]
    /\ handles' = handles \cup j.recs
    /\ Goto(w, IdleJob)
    /\ UNCHANGED <<glog, logmax, gpayload, gdead, paused, cache, born, bounds,
                   newest, renewed>>

-----------------------------------------------------------------------------
(* ack, nack_after and dead_letter of a grouped message.                    *)

Dropped(g, i) ==
    IF gstate[g] = None THEN gstate ELSE [gstate EXCEPT ![g].flight[i] = <<>>]

\* ack: every entry of the id leaves the in-flight set.
Ack(w, h) ==
    /\ Begin(w, "ack")
    /\ ~Locked
    /\ h \in handles
    /\ handles' = handles \ {h}
    /\ gstate' = Dropped(h.group, h.id)
    /\ owed' = [owed EXCEPT ![h.group] = @ \ {h.id}]
    /\ UNCHANGED <<glog, logmax, gpayload, gdead, paused, cache, born, job, bounds,
                   newest, renewed>>

\* nack_after: the first entry of the id becomes claimable, now or at the delay.
Nack(w, h, d) ==
    LET s == gstate[h.group] IN
    /\ Begin(w, "nack")
    /\ ~Locked
    /\ h \in handles
    /\ handles' = handles \ {h}
    /\ gstate' = IF s = None \/ h.id \notin InFlight(s) THEN gstate
                 ELSE [gstate EXCEPT ![h.group].flight[h.id][1].lease = From(clock, d)]
    /\ renewed' = renewed \cup ({<<h.group, h.id>>} \cap HeldPairs(handles \ {h}))
    /\ UNCHANGED <<glog, logmax, gpayload, gdead, paused, cache, born, job, bounds,
                   newest, owed>>

\* dead_letter: the dead record is put whether or not the id is in flight ...
DeadLetter(w, h) ==
    /\ Begin(w, "bury")
    /\ ~Locked
    /\ h \in handles
    /\ handles' = handles \ {h}
    /\ gdead' = [gdead EXCEPT ![h.group] = @ \cup {h.id}]
    /\ Goto(w, [stage |-> "quarantine", group |-> h.group, id |-> h.id])
    /\ UNCHANGED <<glog, logmax, gpayload, gstate, paused, cache, born, bounds,
                   newest, owed, renewed>>

\* ... and then the entry is dropped.
DeadLetterDrop(w) ==
    LET j == job[w] IN
    /\ j.stage = "quarantine"
    /\ gstate' = Dropped(j.group, j.id)
    /\ Goto(w, IdleJob)
    /\ UNCHANGED <<glog, logmax, gpayload, gdead, paused, cache, born, handles, bounds,
                   history>>

-----------------------------------------------------------------------------
(* redrive_dead_letters and its filtered form, purge and discard.           *)

\* List the dead letters, or those a filter matches, before the lock.
Redrive(w, filtered, pairs) ==
    /\ BeginOperator(w, "redrive")
    /\ pairs \subseteq DeadPairs /\ pairs # {}
    /\ filtered \/ pairs = DeadPairs
    /\ Goto(w, [stage |-> "rewait", filtered |-> filtered, todo |-> pairs])
    /\ UNCHANGED <<store, cache, born, handles, clock, crashes, history>>

\* The loop of a redrive goes on, or returns and releases the lock.
Continue(w, filtered, todo) ==
    Goto(w, IF todo = {} THEN IdleJob
            ELSE [stage |-> "redrive", filtered |-> filtered, todo |-> todo])

\* Under the lock, put the id of a listed dead letter in flight; a group that is
\* gone is made again at the head.  Only the filtered form looks whether the
\* dead letter is still there.
RedriveRearm(w, p) ==
    LET j == job[w]  g == p[1]  i == p[2]
        s == IF gstate[g] = None THEN NewGroup(logmax) ELSE gstate[g]
        gone == j.filtered /\ i \notin gdead[g]
    IN /\ j.stage = "redrive" \/ (j.stage = "rewait" /\ ~Locked)
       /\ p \in j.todo
       /\ IF gone
          THEN /\ Continue(w, TRUE, j.todo \ {p})
               /\ UNCHANGED <<gstate, cache, owed, renewed>>
          ELSE /\ gstate' = [gstate EXCEPT ![g] =
                      IF i \in InFlight(s) THEN s
                      ELSE [s EXCEPT !.flight[i] = <<[attempts |-> 0, lease |-> 0]>>]]
               /\ IF gstate[g] = None THEN MarkGrouped ELSE UNCHANGED cache
               /\ owed' = [owed EXCEPT ![g] = @ \cup ({i} \cap gpayload)]
               /\ renewed' = IF i > s.hwm THEN renewed \cup {p}
                             ELSE renewed \cup ({p} \cap HeldPairs(handles))
               /\ Goto(w, [stage |-> "unpin", filtered |-> j.filtered,
                           todo |-> j.todo \ {p}, pair |-> p])
       /\ UNCHANGED <<glog, logmax, gpayload, gdead, paused, born, handles, bounds,
                      newest>>

\* Delete the dead record.
RedriveUnpin(w) ==
    LET j == job[w] IN
    /\ j.stage = "unpin"
    /\ gdead' = [gdead EXCEPT ![j.pair[1]] = @ \ {j.pair[2]}]
    /\ Continue(w, j.filtered, j.todo)
    /\ UNCHANGED <<glog, logmax, gpayload, gstate, paused, cache, born, handles, bounds,
                   history>>

\* purge_dead_letters lists all, discard_dead_letters what its filter matches.
Discard(w, pairs) ==
    /\ BeginOperator(w, "discard")
    /\ pairs \subseteq DeadPairs /\ pairs # {}
    /\ Goto(w, [stage |-> "discard", todo |-> pairs])
    /\ UNCHANGED <<store, cache, born, handles, clock, crashes, history>>

\* Each dead record is deleted, without the lock; the payload is left to the
\* sweep.  An operator who discards a dead letter no longer wants the message.
DiscardDelete(w, p) ==
    LET j == job[w]  g == p[1]  i == p[2] IN
    /\ j.stage = "discard"
    /\ p \in j.todo
    /\ gdead' = [gdead EXCEPT ![g] = @ \ {i}]
    /\ owed' = [owed EXCEPT ![g] = @ \ ({i} \cap gdead[g])]
    /\ Goto(w, IF j.todo = {p} THEN IdleJob ELSE [j EXCEPT !.todo = @ \ {p}])
    /\ UNCHANGED <<glog, logmax, gpayload, gstate, paused, cache, born, handles, bounds,
                   newest, renewed>>

-----------------------------------------------------------------------------
(* reset_group, delete_group, the retention sweep, and the rest of the      *)
(* process.                                                                 *)

\* Move the cursor and drop the in-flight set; an unknown group is an error.
ResetGroup(w, g, start) ==
    /\ BeginOperator(w, "reset")
    /\ ~Locked
    /\ gstate[g] # None
    /\ gstate' = [gstate EXCEPT ![g] = NewGroup(IF start = "latest" THEN logmax ELSE 0)]
    /\ owed' = [owed EXCEPT ![g] =
                   (@ \cap gdead[g]) \cup (IF start = "latest" THEN {} ELSE glog \cap gpayload)]
    /\ renewed' = renewed \cup (({g} \X Ids) \cap HeldPairs(handles))
    /\ UNCHANGED <<glog, logmax, gpayload, gdead, paused, cache, born, job, handles,
                   clock, crashes, newest>>

\* delete_group: the group's dead letters, one by one, and then its state.
DeleteGroup(w, g) ==
    /\ BeginOperator(w, "delete")
    /\ ~Locked
    /\ Goto(w, [stage |-> "delete", group |-> g, todo |-> gdead[g]])
    /\ UNCHANGED <<store, cache, born, handles, clock, crashes, history>>

DeleteDead(w) ==
    LET j == job[w]  i == First(j.todo) IN
    /\ j.stage = "delete" /\ j.todo # {}
    /\ gdead' = [gdead EXCEPT ![j.group] = @ \ {i}]
    /\ owed' = [owed EXCEPT ![j.group] = @ \ {i}]
    /\ Goto(w, [j EXCEPT !.todo = @ \ {i}])
    /\ UNCHANGED <<glog, logmax, gpayload, gstate, paused, cache, born, handles, bounds,
                   newest, renewed>>

DeleteState(w) ==
    LET j == job[w] IN
    /\ j.stage = "delete" /\ j.todo = {}
    /\ gstate' = [gstate EXCEPT ![j.group] = None]
    /\ owed' = [owed EXCEPT ![j.group] = {}]
    /\ renewed' = renewed \cup (({j.group} \X Ids) \cap HeldPairs(handles))
    /\ Goto(w, IdleJob)
    /\ UNCHANGED <<glog, logmax, gpayload, gdead, paused, cache, born, handles, bounds,
                   newest>>

Aged(i) == born[i] + Retention < clock

\* Mutation of Reclaimable: a dead letter does not pin its payload.
ReclaimableUnpinned(i) == ~Needed(States, i) \/ Aged(i)

\* No dead letter pins the message, and no group needs it or it is too old.
Reclaimable(i) ==
    /\ \A g \in Groups : i \notin gdead[g]
    /\ ~Needed(States, i) \/ Aged(i)

\* gc_grouped: the group states, the dead letters and the log are read under
\* the lock.
Sweep(w) ==
    LET victims == {i \in glog : Reclaimable(i)} IN
    /\ BeginOperator(w, "sweep")
    /\ ~Locked
    /\ victims # {}
    /\ Goto(w, [stage |-> "sweep", todo |-> victims])
    /\ owed' = [g \in Groups |-> owed[g] \ {i \in victims : Aged(i)}]
    /\ UNCHANGED <<store, cache, born, handles, clock, crashes,
                   newest, renewed>>

\* For each one the payload is deleted ...
SweepPayload(w) ==
    LET j == job[w] IN
    /\ j.stage = "sweep"
    /\ gpayload' = gpayload \ {First(j.todo)}
    /\ Goto(w, [j EXCEPT !.stage = "unlog"])
    /\ UNCHANGED <<glog, logmax, gstate, gdead, paused, cache, born, handles, bounds, history>>

\* ... and then the log entry.
SweepLog(w) ==
    LET j == job[w]  i == First(j.todo) IN
    /\ j.stage = "unlog"
    /\ glog' = glog \ {i}
    /\ Goto(w, IF j.todo = {i} THEN IdleJob ELSE [stage |-> "sweep", todo |-> j.todo \ {i}])
    /\ UNCHANGED <<logmax, gpayload, gstate, gdead, paused, cache, born, handles, bounds,
                   history>>

SetPaused(w) ==
    /\ BeginOperator(w, "pause")
    /\ paused' = ~paused
    /\ UNCHANGED <<glog, logmax, gpayload, gstate, gdead, cache, born, job, handles,
                   clock, crashes, history>>

\* A group of another topic registers: mark_grouped puts that topic into the
\* cache, into an empty one if nothing was loaded yet.
RegisterElsewhere(w) ==
    /\ BeginOperator(w, "elsewhere")
    /\ cache' = IF cache = "unloaded" THEN "ungrouped" ELSE cache
    /\ UNCHANGED <<store, born, job, handles, clock, crashes, history>>

\* The process restarts: calls, deliveries and the cache are gone.
Crash ==
    /\ crashes < MaxCrashes
    /\ crashes' = crashes + 1
    /\ job' = [w \in Workers |-> IdleJob]
    /\ handles' = {}
    /\ cache' = "unloaded"
    /\ UNCHANGED <<store, born, clock, calls, history>>

Tick ==
    /\ clock < MaxClock
    /\ clock' = clock + 1
    /\ UNCHANGED <<store, cache, born, job, handles, calls, crashes, history>>

Call(w) ==
    \/ Publish(w)
    \/ \E g \in Groups, start \in Starts : ClaimGrouped(w, g, start)
    \/ \E h \in handles : Ack(w, h) \/ DeadLetter(w, h) \/ \E d \in NackDelays : Nack(w, h, d)
    \/ \E filtered \in BOOLEAN, pairs \in SUBSET DeadPairs : Redrive(w, filtered, pairs)
    \/ \E pairs \in SUBSET DeadPairs : Discard(w, pairs)
    \/ \E g \in Groups, start \in Starts : ResetGroup(w, g, start)
    \/ \E g \in Groups : DeleteGroup(w, g)
    \/ Sweep(w)
    \/ SetPaused(w)
    \/ RegisterElsewhere(w)

Step(w) ==
    \/ LoadList(w) \/ LoadCache(w) \/ GateRead(w) \/ PublishCommit(w) \/ PublishPlain(w)
    \/ ClaimGate(w) \/ ClaimScan(w) \/ ClaimBury(w) \/ ClaimPersist(w)
    \/ DeadLetterDrop(w)
    \/ \E p \in Groups \X Ids : RedriveRearm(w, p) \/ DiscardDelete(w, p)
    \/ RedriveUnpin(w)
    \/ DeleteDead(w) \/ DeleteState(w)
    \/ SweepPayload(w) \/ SweepLog(w)

Next == (\E w \in Workers : Call(w) \/ Step(w)) \/ Crash \/ Tick

Spec == Init /\ [][Next]_vars

-----------------------------------------------------------------------------
(* Properties                                                               *)

\* Every variable has its type, and a job holds what its stage needs.
TypeOK ==
    /\ glog \subseteq Ids /\ gpayload \subseteq Ids /\ logmax \in Nat
    /\ gstate \in [Groups -> GroupState \cup {None}]
    /\ gdead \in [Groups -> SUBSET Ids]
    /\ paused \in BOOLEAN
    /\ cache \in {"unloaded", "grouped", "ungrouped"}
    /\ born \in [Ids -> Nat \cup {None}]
    /\ job \in [Workers -> Job]
    /\ handles \subseteq Handle
    /\ clock \in Nat /\ calls \in Nat /\ crashes \in Nat
    /\ newest \in Nat
    /\ owed \in [Groups -> SUBSET Ids]
    /\ renewed \subseteq Groups \X Ids

\* The message is where the group, or an operator, will find it again.
InCustody(g, i) ==
    /\ i \in gpayload
    /\ \/ i \in gdead[g]
       \/ gstate[g] # None /\ i \in InFlight(gstate[g])
       \/ gstate[g] # None /\ i > gstate[g].hwm /\ i \in glog

\* At-least-once per group: a message that was committed in the order of the ids
\* while the group was registered is ahead of the group's high-water in the log,
\* in flight or dead-lettered, and its payload is there, until the group acks
\* it, an operator gives it up, or it is reclaimed by age.  Claims, acks, nacks
\* and quarantines of other groups, the sweep, redrives and restarts between
\* any two writes must not take it away.  A message that a concurrent publish
\* commits after a later id is not counted: the high-water may be past it.
GroupCustody == \A g \in Groups : \A i \in owed[g] : InCustody(g, i)

\* A dead letter pins its payload, "so a redrive always has its payload": no step
\* deletes the payload object of a message that is dead-lettered in any group.
\* The sweep decides this long before it deletes, and consumers, claims and
\* redrives add dead letters meanwhile.
DeadLetterPinned ==
    [][\A g \in Groups : gdead[g] \cap gpayload \subseteq gpayload']_vars

\* One consumer of a group at a time: no two unexpired deliveries of a message
\* are out in the same group, unless the lease was given up by a nack, a reset,
\* a redrive or the deletion of the group.
OneLease ==
    \A h, k \in handles :
        /\ h # k /\ h.group = k.group /\ h.id = k.id
        /\ h.until > clock /\ k.until > clock
        => <<h.group, h.id>> \in renewed

=============================================================================
