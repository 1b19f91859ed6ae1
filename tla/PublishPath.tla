---------------------------- MODULE PublishPath ----------------------------
(***************************************************************************)
(* The publish path of LogMessaging (boatramp-core/src/messaging.rs): the   *)
(* topic policies and their cache, the admission of a publish, and the      *)
(* group commit with its relaxed durability budget.                         *)
(*                                                                          *)
(* A publisher resolves the policy of each topic it writes to, pushes a job *)
(* on the commit queue, and then waits for the commit gate and for its      *)
(* outcome at the same time.  Whoever gets the gate is the leader: it       *)
(* commits everyone's jobs until the queue is empty.  Every await is the    *)
(* end of a step.  A publisher may be cancelled at any await, and the       *)
(* process may crash, which loses what the write-ahead log still buffers.   *)
(*                                                                          *)
(* A publish writes one message to each topic of a set: one for a single    *)
(* publish, several for publish_batch_ctx.  The weight of a job in the      *)
(* commit group is the number of its messages.                              *)
(***************************************************************************)
EXTENDS Integers, FiniteSets, Sequences

CONSTANTS
    Publishers,   \* tasks that publish
    Ids,          \* bound: publishes made in a behaviour, in mint order
    Topics,
    Requests,     \* the sets of topics publishers write to
    Policies,     \* topic policies an operator sets: [depth, rate, budget]
    Unset,        \* a policy, or a field of one, that is absent
    Miss,         \* what the cache has for a topic it does not know
    DefaultBudget,\* the node's max_unflushed
    GroupMax,     \* GROUP_COMMIT_MAX
    MaxEvents     \* bound: policy changes, failed writes, cancelled publishers
                  \* and restarts, together

ASSUME PublishPathAssumption ==
    /\ Ids \subseteq Nat /\ IsFiniteSet(Ids)
    /\ IsFiniteSet(Topics) /\ Requests \subseteq (SUBSET Topics) \ {{}}
    /\ Unset \notin Nat
    /\ Policies \subseteq [depth : Nat \cup {Unset}, rate : BOOLEAN,
                           budget : Nat \cup {Unset}]
    /\ Unset \notin Policies /\ Miss \notin Policies \cup {Unset}
    /\ DefaultBudget \in Nat /\ GroupMax \in Nat
    /\ MaxEvents \in Nat

VARIABLES
    policy,    \* `mqpolicy/{topic}`
    cache,     \* policy_cache: a missing entry is Miss
    setting,   \* the topic whose policy was written and not yet invalidated
    pub,       \* what each publisher is doing
    queue,     \* commit_queue
    pruning,   \* a claim holds the commit gate
    done,      \* the one-shot of each publish
    unflushed, \* the counter of messages acknowledged and not yet flushed
    buffered,  \* messages in the memtable, not yet in the durable log
    durable,   \* messages in the durable log and not yet consumed
    events,    \* what MaxEvents bounds, so far
    \* history, read by the properties only
    before,    \* the publishes that had returned Ok when each one began
    minted,    \* publishes begun
    acked,     \* publishes that returned Ok
    consumed,  \* messages delivered and acknowledged
    lost,      \* messages a crash lost
    granted,   \* the topics and the budget of each publish that was queued
    unlimited  \* topics some publish entered without a depth limit

vars == <<policy, cache, setting, pub, queue, pruning, done, unflushed, buffered,
          durable, events, before, minted, acked, consumed, lost, granted,
          unlimited>>
control == <<policy, cache, setting>>
store == <<buffered, durable>>

Event == events < MaxEvents /\ events' = events + 1

Policy == Policies \cup {Unset}
Message == Ids \X Topics
Messages(i, T) == {i} \X T
Job == [id : Ids, topics : SUBSET Topics, budget : Nat]

\* A publisher's stage, and what it has learned so far.
Stage ==   [stage : {"idle"}]
      \cup [stage : {"resolve"}, id : Ids, topics : SUBSET Topics,
            todo : SUBSET Topics, budget : Nat \cup {Unset}]
      \cup [stage : {"fill", "enforce"}, id : Ids, topics : SUBSET Topics,
            todo : SUBSET Topics, budget : Nat \cup {Unset}, topic : Topics, policy : Policy]
      \cup [stage : {"push"}, id : Ids, topics : SUBSET Topics, budget : Nat]
      \cup [stage : {"wait", "lead", "read"}, id : Ids]
      \cup [stage : {"flush"}, id : Ids, batch : Seq(Job)]
      \cup [stage : {"report"}, id : Ids, batch : Seq(Job), relaxed : BOOLEAN, ok : BOOLEAN]

Idle == [stage |-> "idle"]
Goto(p, s) == pub' = [pub EXCEPT ![p] = s]

Leading(p) == pub[p].stage \in {"lead", "flush", "report"}
GateFree == ~pruning /\ \A p \in Publishers : ~Leading(p)

Budgets(batch) == {batch[k].budget : k \in DOMAIN batch}
Carried(batch) == UNION {Messages(batch[k].id, batch[k].topics) : k \in DOMAIN batch}
Weight(batch) == Cardinality(Carried(batch))
Members(batch) == {batch[k].id : k \in DOMAIN batch}

\* Mutation of Lesser: the first topic's budget is not taken.
LesserKeeps(a, b) == IF a # Unset /\ b < a THEN b ELSE a

\* The minimum, of which an absent budget is the identity.
Lesser(a, b) == IF a = Unset \/ b < a THEN b ELSE a

\* backlog: the records of one topic, flushed or not.
Backlog(t) == Cardinality({m \in buffered \cup durable : m[2] = t})

\* A restarted node finds the policies of its store, and nothing in memory.
Init ==
    /\ policy \in [Topics -> Policy]
    /\ cache = [t \in Topics |-> Miss]
    /\ setting = {}
    /\ pub = [p \in Publishers |-> Idle]
    /\ queue = <<>> /\ pruning = FALSE
    /\ done = [i \in Ids |-> "none"]
    /\ unflushed = 0
    /\ buffered = {} /\ durable = {}
    /\ events = 0 /\ before = [i \in Ids |-> {}]
    /\ minted = {} /\ acked = {} /\ consumed = {} /\ lost = {}
    /\ granted = [i \in Ids |-> [topics |-> {}, budget |-> 0]] /\ unlimited = {}

-----------------------------------------------------------------------------
(* enforce_and_resolve_budget, and its loop in publish_batch_ctx            *)

Publish(p, T) ==
    \E i \in Ids \ minted :
    /\ pub[p] = Idle
    /\ \A j \in Ids \ minted : i <= j
    /\ minted' = minted \cup {i}
    /\ before' = [before EXCEPT ![i] = acked]
    /\ Goto(p, [stage |-> "resolve", id |-> i, topics |-> T, todo |-> T, budget |-> Unset])
    /\ UNCHANGED <<control, queue, pruning, done, unflushed, store, events,
                   acked, consumed, lost, granted, unlimited>>

\* resolve_policy: the cached policy, or a read of the store.
Resolve(p, t) ==
    LET s == pub[p]
        hit == cache[t] # Miss
    IN /\ s.stage = "resolve" /\ t \in s.todo
       /\ Goto(p, [stage |-> IF hit THEN "enforce" ELSE "fill",
                   id |-> s.id, topics |-> s.topics, todo |-> s.todo \ {t},
                   budget |-> s.budget, topic |-> t,
                   policy |-> IF hit THEN cache[t] ELSE policy[t]])
       /\ UNCHANGED <<control, queue, pruning, done, unflushed, store, events, before,
                      minted, acked, consumed, lost, granted, unlimited>>

\* What was read enters the cache, a missing policy too.
Fill(p) ==
    LET s == pub[p] IN
    /\ s.stage = "fill"
    /\ cache' = [cache EXCEPT ![s.topic] = s.policy]
    /\ Goto(p, [s EXCEPT !.stage = "enforce"])
    /\ UNCHANGED <<policy, setting, queue, pruning, done, unflushed, store, events, before,
                   minted, acked, consumed, lost, granted, unlimited>>

\* Mutation of OverDepth: the limit itself is let through.
OverDepthByOne(pol, t) ==
    pol # Unset /\ pol.depth # Unset /\ Backlog(t) > pol.depth

\* enforce_publish_policy: the backlog is at the limit.
OverDepth(pol, t) ==
    pol # Unset /\ pol.depth # Unset /\ Backlog(t) >= pol.depth

\* The topic's budget, or else the node's.
Budget(pol) ==
    IF pol # Unset /\ pol.budget # Unset THEN pol.budget ELSE DefaultBudget

Enforce(p) ==
    LET s == pub[p]
        budget == Lesser(s.budget, Budget(s.policy))
    IN /\ s.stage = "enforce"
       /\ ~OverDepth(s.policy, s.topic)
       /\ Goto(p, IF s.todo = {}
                  THEN [stage |-> "push", id |-> s.id, topics |-> s.topics, budget |-> budget]
                  ELSE [stage |-> "resolve", id |-> s.id, topics |-> s.topics,
                        todo |-> s.todo, budget |-> budget])
       /\ unlimited' = IF s.policy = Unset \/ s.policy.depth = Unset
                       THEN unlimited \cup {s.topic} ELSE unlimited
       /\ UNCHANGED <<control, queue, pruning, done, unflushed, store, events, before,
                      minted, acked, consumed, lost, granted>>

\* DepthExceeded, or RateExceeded: the token bucket of a topic with a rate may
\* be empty at any time.  Nothing was written.
Reject(p) ==
    LET s == pub[p] IN
    /\ s.stage = "enforce"
    /\ OverDepth(s.policy, s.topic) \/ (s.policy # Unset /\ s.policy.rate)
    /\ Goto(p, Idle)
    /\ UNCHANGED <<control, queue, pruning, done, unflushed, store, events, before,
                   minted, acked, consumed, lost, granted, unlimited>>

-----------------------------------------------------------------------------
(* group_commit                                                             *)

Push(p) ==
    LET s == pub[p] IN
    /\ s.stage = "push"
    /\ queue' = Append(queue, [id |-> s.id, topics |-> s.topics, budget |-> s.budget])
    /\ done' = [done EXCEPT ![s.id] = "pending"]
    /\ granted' = [granted EXCEPT ![s.id] = [topics |-> s.topics, budget |-> s.budget]]
    /\ Goto(p, [stage |-> "wait", id |-> s.id])
    /\ UNCHANGED <<control, pruning, unflushed, store, events, before,
                   minted, acked, consumed, lost, unlimited>>

\* Mutation of Lead: only the publisher at the head of the queue leads.
LeadFirst(p) ==
    /\ pub[p].stage = "wait"
    /\ GateFree
    /\ queue # <<>> /\ queue[1].id = pub[p].id
    /\ Goto(p, [stage |-> "lead", id |-> pub[p].id])
    /\ UNCHANGED <<control, queue, pruning, done, unflushed, store, events, before,
                   minted, acked, consumed, lost, granted, unlimited>>

\* The select finds the gate free.  It looks at the gate first, so its job may
\* be committed already.
Lead(p) ==
    /\ pub[p].stage = "wait"
    /\ GateFree
    /\ Goto(p, [stage |-> "lead", id |-> pub[p].id])
    /\ UNCHANGED <<control, queue, pruning, done, unflushed, store, events, before,
                   minted, acked, consumed, lost, granted, unlimited>>

\* The jobs from the head of the queue, at least one, that keep within the
\* limit.
Drained ==
    LET fits == {n \in 1 .. Len(queue) :
                    n = 1 \/ Weight(SubSeq(queue, 1, n)) <= GroupMax}
    IN CHOOSE n \in fits : \A k \in fits : k <= n

Drain(p) ==
    /\ pub[p].stage = "lead"
    /\ queue # <<>>
    /\ Goto(p, [stage |-> "flush", id |-> pub[p].id, batch |-> SubSeq(queue, 1, Drained)])
    /\ queue' = SubSeq(queue, Drained + 1, Len(queue))
    /\ UNCHANGED <<control, pruning, done, unflushed, store, events, before,
                   minted, acked, consumed, lost, granted, unlimited>>

\* Mutation of BatchBudget: the most relaxed job decides.
BatchBudgetMost(batch) ==
    CHOOSE b \in Budgets(batch) : \A c \in Budgets(batch) : c <= b

\* The strictest budget of the batch.
BatchBudget(batch) ==
    CHOOSE b \in Budgets(batch) : \A c \in Budgets(batch) : b <= c

\* commit_group: within the budget the batch is only buffered; otherwise the
\* write waits for the log, which flushes what was buffered before it.
Write(p) ==
    LET s == pub[p]
        relaxed == unflushed + Weight(s.batch) <= BatchBudget(s.batch)
    IN /\ s.stage = "flush"
       /\ buffered' = IF relaxed THEN buffered \cup Carried(s.batch) ELSE {}
       /\ durable' = IF relaxed THEN durable ELSE durable \cup buffered \cup Carried(s.batch)
       /\ Goto(p, [stage |-> "report", id |-> s.id, batch |-> s.batch,
                   relaxed |-> relaxed, ok |-> TRUE])
       /\ UNCHANGED <<control, queue, pruning, done, unflushed, events, before,
                      minted, acked, consumed, lost, granted, unlimited>>

\* The write fails: nothing was written, or it stays in the buffer.
WriteFails(p) ==
    LET s == pub[p] IN
    /\ s.stage = "flush"
    /\ Event
    /\ buffered' \in {buffered, buffered \cup Carried(s.batch)}
    /\ Goto(p, [stage |-> "report", id |-> s.id, batch |-> s.batch,
                relaxed |-> FALSE, ok |-> FALSE])
    /\ UNCHANGED <<control, queue, pruning, done, unflushed, durable, before,
                   minted, acked, consumed, lost, granted, unlimited>>

\* Mutation of Counted: a relaxed commit is not counted.
CountedNever(s) == IF s.ok /\ ~s.relaxed THEN 0 ELSE unflushed

\* The counter after a commit; a failed one leaves it alone.
Counted(s) ==
    CASE s.ok /\ s.relaxed -> unflushed + Weight(s.batch)
      [] s.ok /\ ~s.relaxed -> 0
      [] OTHER -> unflushed

\* Send the outcome to every job of the batch, and look at the queue again.
Report(p) ==
    LET s == pub[p] IN
    /\ s.stage = "report"
    /\ unflushed' = Counted(s)
    /\ done' = [i \in Ids |-> IF i \in Members(s.batch)
                              THEN IF s.ok THEN "ok" ELSE "failed" ELSE done[i]]
    /\ Goto(p, [stage |-> "lead", id |-> s.id])
    /\ UNCHANGED <<control, queue, pruning, store, events, before,
                   minted, acked, consumed, lost, granted, unlimited>>

\* The queue is empty: release the gate.
Release(p) ==
    /\ pub[p].stage = "lead"
    /\ queue = <<>>
    /\ Goto(p, [stage |-> "read", id |-> pub[p].id])
    /\ UNCHANGED <<control, queue, pruning, done, unflushed, store, events, before,
                   minted, acked, consumed, lost, granted, unlimited>>

\* Read the outcome and return it.
Return(p) ==
    LET i == pub[p].id IN
    /\ pub[p].stage \in {"wait", "read"}
    /\ done[i] # "pending"
    /\ acked' = IF done[i] = "ok" THEN acked \cup {i} ELSE acked
    /\ Goto(p, Idle)
    /\ UNCHANGED <<control, queue, pruning, done, unflushed, store, events, before,
                   minted, consumed, lost, granted, unlimited>>

-----------------------------------------------------------------------------
(* The rest of the node                                                     *)

\* Mutation of Dropped: the one-shots of the batch are kept.
DroppedNone(s) == {}

\* The one-shots that a leader takes with it.
Dropped(s) == IF s.stage \in {"flush", "report"} THEN Members(s.batch) ELSE {}

\* A publisher's task is dropped.  Its job stays in the queue; a leader takes
\* the one-shots of its batch with it.
Cancel(p) ==
    /\ pub[p] # Idle
    /\ Event
    /\ done' = [i \in Ids |-> IF i \in Dropped(pub[p]) THEN "dropped" ELSE done[i]]
    /\ Goto(p, Idle)
    /\ UNCHANGED <<control, queue, pruning, unflushed, store, before,
                   minted, acked, consumed, lost, granted, unlimited>>

\* set_topic_policy: write the policy, then drop the cached one.
SetPolicy(t, pol) ==
    /\ setting = {}
    /\ Event
    /\ policy' = [policy EXCEPT ![t] = pol]
    /\ setting' = {t}
    /\ UNCHANGED <<cache, pub, queue, pruning, done, unflushed, store, before,
                   minted, acked, consumed, lost, granted, unlimited>>

Invalidate(t) ==
    /\ t \in setting
    /\ cache' = [cache EXCEPT ![t] = Miss]
    /\ setting' = {}
    /\ UNCHANGED <<policy, pub, queue, pruning, done, unflushed, store, events, before,
                   minted, acked, consumed, lost, granted, unlimited>>

\* claim holds the gate while it looks for records and prunes the marker.
Prune ==
    /\ GateFree
    /\ pruning' = TRUE
    /\ UNCHANGED <<control, pub, queue, done, unflushed, store, events, before,
                   minted, acked, consumed, lost, granted, unlimited>>

Pruned ==
    /\ pruning
    /\ pruning' = FALSE
    /\ UNCHANGED <<control, pub, queue, done, unflushed, store, events, before,
                   minted, acked, consumed, lost, granted, unlimited>>

\* The log's flush timer, or a durable write of another call.
Flush ==
    /\ buffered # {}
    /\ durable' = durable \cup buffered
    /\ buffered' = {}
    /\ UNCHANGED <<control, pub, queue, pruning, done, unflushed, events, before,
                   minted, acked, consumed, lost, granted, unlimited>>

\* A consumer's ack deletes the record, durably.
Consume(m) ==
    /\ m \in buffered \cup durable
    /\ durable' = (durable \cup buffered) \ {m}
    /\ buffered' = {}
    /\ consumed' = consumed \cup {m}
    /\ UNCHANGED <<control, pub, queue, pruning, done, unflushed, events, before,
                   minted, acked, lost, granted, unlimited>>

Crash ==
    /\ Event
    /\ cache' = [t \in Topics |-> Miss]
    /\ setting' = {}
    /\ pub' = [p \in Publishers |-> Idle]
    /\ queue' = <<>> /\ pruning' = FALSE
    /\ done' = [i \in Ids |-> "none"]
    /\ unflushed' = 0
    /\ buffered' = {}
    /\ lost' = lost \cup buffered
    /\ UNCHANGED <<policy, durable, before, minted, acked, consumed, granted, unlimited>>

Step(p) ==
    \/ \E t \in Topics : Resolve(p, t)
    \/ Fill(p) \/ Enforce(p) \/ Reject(p) \/ Push(p)
    \/ Lead(p) \/ Drain(p) \/ Write(p) \/ Report(p) \/ Release(p) \/ Return(p)

Next ==
    \/ \E p \in Publishers :
         \/ \E T \in Requests : Publish(p, T)
         \/ Step(p) \/ WriteFails(p) \/ Cancel(p)
    \/ \E t \in Topics : (\E pol \in Policies : SetPolicy(t, pol)) \/ Invalidate(t)
    \/ Prune \/ Pruned \/ Flush \/ Crash
    \/ \E m \in Message : Consume(m)

Spec == Init /\ [][Next]_vars

\* A task that can run is polled again, a claim gives the gate back, and a gate
\* that claims take again and again is also given to a publisher that waits.
FairSpec ==
    /\ Spec
    /\ \A p \in Publishers : WF_vars(Step(p))
    /\ WF_vars(Pruned)
    /\ SF_vars(\E p \in Publishers : Lead(p))

-----------------------------------------------------------------------------

TypeOK ==
    /\ policy \in [Topics -> Policy]
    /\ cache \in [Topics -> Policy \cup {Miss}]
    /\ setting \subseteq Topics
    /\ pub \in [Publishers -> Stage]
    /\ queue \in Seq(Job)
    /\ pruning \in BOOLEAN
    /\ done \in [Ids -> {"none", "pending", "ok", "failed", "dropped"}]
    /\ unflushed \in Nat
    /\ buffered \subseteq Message /\ durable \subseteq Message
    /\ before \in [Ids -> SUBSET Ids]
    /\ minted \subseteq Ids /\ acked \subseteq minted
    /\ consumed \subseteq Message /\ lost \subseteq Message
    /\ granted \in [Ids -> [topics : SUBSET Topics, budget : Nat]]
    /\ unlimited \subseteq Topics

\* A publish that waits for its outcome is in the queue or in the batch of the
\* one leader, and a leader that has released the gate has its own outcome: the
\* select of group_commit leaves no publisher waiting for a commit that nobody
\* will make, whoever is cancelled.
NeverStranded ==
    \A p \in Publishers :
      /\ pub[p].stage = "read" => done[pub[p].id] # "pending"
      /\ pub[p].stage = "wait" /\ done[pub[p].id] = "pending" =>
           \/ \E k \in DOMAIN queue : queue[k].id = pub[p].id
           \/ \E q \in Publishers :
                pub[q].stage \in {"flush", "report"} /\ pub[p].id \in Members(pub[q].batch)

\* Messages whose publish returned Ok and that a crash now would lose.
Exposed == {m \in buffered : m[1] \in acked}

\* A crash never loses more acknowledged messages than the budget one of them
\* was committed under: the counter of commit_group, read before the write and
\* changed after it, never falls below what is really at risk.
LossWithinBudget ==
    Exposed # {} => \E m \in Exposed : Cardinality(Exposed) <= granted[m[1]].budget

\* A publish that returned Ok is in the durable log or was consumed.  Only one
\* with a budget may still be buffered, or have been lost by a crash: "a single
\* strong topic anywhere forces the whole batch durable", and the outcome of a
\* failed group is reported to each member.
AckKept ==
    \A i \in acked : \A m \in Messages(i, granted[i].topics) :
        \/ m \in durable \cup consumed
        \/ granted[i].budget > 0 /\ m \in buffered \cup lost

\* max_depth is checked before the publish is queued, so publishes that overlap
\* pass it together, and only those: a message that got into a limited topic found
\* fewer than max_depth messages there of publishes that had already returned,
\* whatever the cache, the batches and restarts did (enforce_publish_policy).
DepthHolds ==
    \A t \in Topics \ unlimited, i \in Ids :
        <<i, t>> \in buffered \cup durable =>
            \E pol \in Policies :
                /\ pol.depth # Unset
                /\ Cardinality({j \in before[i] : <<j, t>> \in buffered \cup durable}) < pol.depth

\* Every publish that was queued returns, with an outcome or an error: a leader
\* finishes its turn, and a cancelled one takes no publisher's outcome with it.
Returns == \A p \in Publishers : pub[p].stage = "wait" ~> pub[p] = Idle
=============================================================================
