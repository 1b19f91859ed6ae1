# TLA+ models of boatramp

boatramp is one binary that serves sites, runs functions and keeps the state
they need: deployments, a key-value store, SQL databases, sessions, a durable
message queue. It runs on one node or as a Raft cluster. This directory holds
TLA+ models of its core logic, the TLC configurations that check them, and
TLAPS proofs. The message queue comes first: everything asynchronous (queues,
async invocations, workflows, events) is delivered through it, and it is where
concurrent calls, restarts, retries and lagging replicas meet.

## Inventory

Paths are relative to `src/crates/`. `PROJECT.json` lists every component.

| Component | State | Operations | Hard behaviour | Status |
|---|---|---|---|---|
| Claim decision, `boatramp-core/src/messaging.rs` (`plan_claim`) | none (pure) | leases and dead letters of one claim | order, batch limit, boundaries | modelled |
| Single-node queue, same file (`LogMessaging`) | index `mq/`, dead letters `mqdead/`, ready markers `mqready/`, pause flags, payload objects | publish (plain, delayed, TTL, priority, batch), claim, ack, nack, set_last_error, dead_letter, purge, redrive, pause, rebuild | calls interleave between their reads and writes; restarts | partly |
| Replicated queue, `boatramp-cluster/src/{messaging,raft,http}.rs` | the same keys in the Raft state machine, payloads in shared storage | one proposal per call, applied atomically | repeated and late posts, lagging replicas, clocks that differ, payloads outside Raft | partly |
| Consumer groups, same files | retained log, group state (high-water mark, in-flight), per-group dead letters, cache of grouped topics | claim_grouped, ack, nack, dead_letter, redrive, discard, reset, delete, sweep, replay | commit order against the high-water mark, retention across groups, stale cache | one node modelled, cluster planned |
| Topic policies and group commit, `boatramp-core/src/messaging.rs` | stored and cached policy, token buckets, commit queue and gate, un-flushed counter | publish limits, leader hand-over, set_topic_policy | check then act, stale cache, dropped leader, loss by a crash | one node |
| Drainer and scheduler, `boatramp-server/src/scheduler.rs` | due-heap, timers | drain ready topics, rebuild, crons | liveness, sharding while members change | fairness only |
| Async invocations, `boatramp-core/src/deploy.rs`, `boatramp-server/src/function_runtime.rs` | one record per invocation (status, attempts, lease), permits | enqueue (call, cron, blob change), drain, claim, run, settle, re-fire | two nodes drain at once, clocks differ, a run outlives its lease, writes posted again | modelled; workflows are not |
| Sessions, `boatramp-core/src/session.rs`, `boatramp-server/src/session_{store,serve}.rs` | session record: cursors, outbound buffer, dedup window, checkpoint | open, send, ack, seen, record, checkpoint, close, stream, post, reap | load and put without a compare, reconnects, traps | HTTP lane |
| Deployments, `boatramp-core/src/deploy.rs`, `boatramp-server/src/admin_api.rs` | manifests, blobs, current pointers, aliases, histories | create, upload, activate, alias, delete, collect | collector against upload and activation | sites |
| Store migration, cache coherence, workflows, mesh admission | see `PROJECT.json` | | phases, invalidation, single use | planned |
| Serving, gateway, handlers, compute drivers, certificates, tokens, SQL, overlay, CLI | | | I/O, generated code, cryptography | not modelled |

How the parts interact: publishers and consumers call the `Messaging` trait.
On one node `LogMessaging` reads and writes the key-value store and the object
store directly. In a cluster `RaftMessaging` reads the applied state of its own
node, sends a `WriteOp` through a forwarder to the leader, and touches the
shared object store before (publish) or after (claim, ack, purge) it is applied.
The drainer lists the ready markers, claims each topic it finds and hands the
messages to consumers, who ack, nack or quarantine them. Async invocations and
sessions are records of the same key-value store, the former created by
a put or a compare-and-swap and changed by compare-and-swap, the latter by a load
and a put. Deployments keep manifests and
pointers there and their blobs in the object store.

What makes the queue correct: no acknowledged publish is lost; a message is
leased to one consumer at a time; each delivery is charged, so that a poison
message ends in the dead-letter store; a record never lacks its payload; a
disposed message stays gone; the drainer finds every backlog; every message is
settled in the end; no publisher waits for ever, and a crash loses only what its
topic's budget allows. An invocation has one live run and keeps its outcome; a
session streams every frame once it was sent; what a site or an alias points at
is complete.

## Modules

| Module | Models |
|---|---|
| `ClaimPlan` | `plan_claim`, stated without its loop: which records a claim leases and which it dead-letters |
| `PlanLoop` | the loop of `plan_claim`, one step per iteration |
| `WorkQueue` | `LogMessaging`, the work-queue lane of one topic |
| `GroupPlan` | `plan_claim_grouped` and `grouped_message_needed`, stated without loops |
| `GroupLog` | `LogMessaging`, the consumer-group lane of one topic |
| `RaftQueue` | `RaftMessaging`, `apply_op` and `HttpForwarder`, the same lane on a cluster |
| `AtLeastOnce` | what the `Messaging` trait promises of the lane: the abstract queue that `RaftQueue` and `WorkQueue` implement |
| `PublishPath` | `LogMessaging`, policies, group commit and durability budgets across topics |
| `Invocations` | the async invocations of one function on a cluster |
| `Session` | one resumable session over HTTP |
| `DeployGc` | `DeployStore`: deployments, pointers and the collector |
| `PlanLoopProofs`, `WorkQueueProofs`, `RaftQueueProofs`, `GroupLogProofs`, `InvocationsProofs`, `SessionProofs`, `PublishPathProofs`, `DeployGcProofs` | theorems about the modules they are named after |
| `MC*` | constants for TLC |

`WorkQueue`, `RaftQueue` and `PlanLoop` use `ClaimPlan`; `GroupLog` uses
`GroupPlan`; `RaftQueue` and `WorkQueue` instantiate `AtLeastOnce`.

**ClaimPlan.** An index maps ids to records or `NoRec`. Ids are naturals in mint
order. Records keep what the decision reads: attempts, lease, expiry, priority,
and whether the payload is inlined. The loop leases a record unless `max_batch`
records that precede it were leased, so the result can be stated by counting
(`Reached`), which keeps recursion out of the modules with proofs. `PlanLoop`
shows that this is the same: it takes the records in the order of `records.sort_by`
(`Sortings`, the sort by its contract) and decides on one per step.

**WorkQueue.** Each worker runs one call at a time. A call is a chain of stages,
one per access to a store, with what it has read so far in its job record:
`claim` is `Claim`, `ClaimList`, `ClaimRead` (once per key), `ClaimPlanned`,
`ClaimCommit`, `ClaimRelist`, `ClaimPrune`, `ClaimReturn`. `claim_lock` is held
in the stages from the listing to the return, `commit_gate` by a claim that
prunes; a publish needs the gate for its single commit step. nack,
set_last_error and dead_letter read a record, and write it back in a later step.
redrive and purge handle one id after the other with separate writes; their
filtered variants are a flag and a selection. `Crash` ends all calls and drops
the messages held by consumers; the stores stay. The payload reads of one claim
are one step, and so is `group_commit` (its leader hand-over is in `PublishPath`). The topic has no consumer groups: those are in `GroupLog`.

**GroupLog.** The log (`glog`), its gate marker (`logmax`), the retained payloads,
the group states and the grouped dead letters of one topic. A group state is its
high-water mark and a sequence of in-flight entries per id (an id can be in
flight twice). All writes of group states happen under `claim_lock`, held in the
stages of `LockStages`; a read and a write that only the lock holder can change
between are one step, and every other access is a step of its own. A publish
mints an id, asks the cache of grouped topics (loading it if need be), writes the
payload, reads the gate marker and commits, without a lock before the commit.
`RegisterElsewhere` is a group registering on another topic, which shares the
cache. The work-queue record and the ready marker that publish and nack also
write are in `WorkQueue`. `owed` is the history the main property reads: the ids
each group has still to be given. Ids enter it when they are committed in order
while the group is registered, when the group registers or is reset to the
earliest message, and when they are redriven; they leave it by an ack, a discard,
a reset to the latest, the deletion of the group, or by age.

**RaftQueue.** A call is a worker that proposes, waits, and then fetches or frees
payload objects. `Apply*` are the arms of `apply_op`; one proposal is one step.
`PostFails` leaves a copy of the proposal in `late` and tries again, as
`HttpForwarder::commit` does after a transport error: a copy may be applied at any
later time or never. `view` is the applied state of each follower: purge, redrive,
the pause check and the rebuild read the state of the node they run on, and a node
may catch up between listing the dead letters and reading them. Consensus is
openraft's and taken as given. The node a call runs on stamps the time
(`now_unix_ms()` in `publish`, `claim` and `nack_after`; a comment at
`messaging.rs:1065` calls it the leader's clock), so a proposal carries any of
`Readings`: from `clock`, the slowest clock of the cluster, to `Latest`, `MaxSkew`
ahead. A node ahead takes over a lease that has not ended for its holder, and
`OneHolder` says that deliveries overlap by no more than the skew. A cluster may
start upgraded, with records but no markers. `MqSetLastError` changes only
`last_error`, which nothing reads, and is left out.

**AtLeastOnce.** Messages are live, parked (dead letters) or gone, and each live
one counts its deliveries. `Queue` in `RaftQueue` maps the index to `live`, the
dead letters to `parked`, the attempts to `tries`; leases, markers, payloads,
proposals, replicas and retries disappear. The promise is at least once: a
publish that is applied again after the ack is accepted again. `Queue` in
`WorkQueue` maps what waits in the index (`Waiting`) to `live`, the dead letters to
`parked`, and to `gone` what was acked, purged or redriven, or whose record a
consumer wrote back from a stale read (`Released`): of those the single-node queue
promises nothing more. A message that is buried while a claim is under way may be
leased once more by that claim; it counts as parked.

**PublishPath.** A publisher resolves the policy of each topic through the cache
(`Resolve`, `Fill`), is admitted or refused (`Enforce`, `Reject`), pushes its job
and waits for the commit gate and for its outcome at once. The leader drains,
writes and reports until the queue is empty. Every await ends a step: a task can
be dropped there (`Cancel`), a write can fail, an operator can replace a policy,
and a claim can hold the gate (`Prune`). A relaxed write goes to `buffered`, which
`Flush` or the next durable write empties into `durable` and a crash loses. A
token bucket may refuse at any time.

**Invocations.** `store` has the record of each id. A drain lists the records one
by one, fixes its time, and claims each by a compare-and-swap on the whole record,
which Raft applies atomically; a run is a slot with the record it claimed. A run
finishes (`Finish`) and then settles by a swap on that record (`SettleWins`,
`SettleLost`). A node's clock is ahead by `Skew`. Every write is a proposal of
`HttpForwarder::commit`: when its answer does not come (`*PostFails`) the caller
posts it again or fails, and the copy in `late` is applied at any later time
(`ApplyLate`), or never. A late swap is refused unless the record is still the
expected one. The put of a new call (`EnqueueCall`, `EnqueuePut`) is not: a second
copy resets a record in flight, or a settled one, to `Queued`. `revived` has the
ids that were enqueued again with the same bytes: by such a put, or by two fires
of one blob change in one second, whose records are equal, so that a swap prepared
for the first finds the second. `LeaseHolds` and `OneLiveRun` except those ids;
another node then runs such an id within the first run's lease. Crons create their
record with a swap on absence; a late copy of it is one more `EnqueueScheduled`.
`created` is kept, since it tells fires apart; `updated`, which nothing reads, is
not. Faults are a crash and a post without an answer. Idempotency keys, and the
record a synchronous call with such a key puts after it has run, are not modelled.

**Session.** A request is a task that loads the record, computes the next one and
puts it in a later step. `SessionState`'s operations are operators on records.
The client reconnects with the last cursor it saw, may repeat a post with the same
key, and receives frames one by one from the stream.

**DeployGc.** A client's request is a chain of steps, one per key or blob. The
collector reads histories, pointers and aliases, lists the manifests, sorts them
into referenced and orphaned, and deletes blobs and manifests one by one. `raced`
has the deployments pointed at while a pass was under way that did not protect
them. The module is about one node: `domain_claim_lock` is a mutex of the process,
and a read returns the latest write. An upload is stored first and compared with its
hash afterwards: wrong bytes are there (`UploadWrong`) until they are deleted, and
the failure of that delete is ignored (`RejectUpload`). `spoiled` has those blobs.

Variables under "history" record what happened to an id (minted, committed,
acked, purged, ...). Only properties read them. `overrun` and `clobbered` name
the messages for which a consumer's late or stale call broke the lease
discipline, `reborn` and `rearmed` the ones indexed again. Several properties
hold except for those: the exceptions are what the code permits, and the
properties say that nothing else goes wrong.

## Runs

| Run | Shows | Bounds |
|---|---|---|
| `plan_loop` | `PlanAgrees`, `NoOvertaking` | all indexes of 3 records over 3 attempt counts, free or leased, with and without expiry, 2 priorities; batches 0 to 2 |
| `raft_queue` | type, nothing lost, markers right, payloads present, acks final, one holder, deliveries charged, `ImplementsQueue` | 1 message (fresh or upgraded), 2 workers, 1 follower, 2 attempts, 4 calls, 2 posts per proposal, 1 late copy, lease 2, skew 1, clock 0 to 2 |
| `wq_delivery` | nothing lost, markers right, payloads present, one holder, deliveries charged, `ImplementsQueue` | 1 message in each of 4 delivery modes, 2 workers, 1 pause, purge or rebuild, 1 restart, clock 0 to 3 |
| `wq_liveness` | nothing lost, `Settled` | 1 message whose payload is stored, 1 worker, 1 redrive or purge, 1 restart, clock 0 to 12 |
| `group_delivery` | type, `GroupCustody`, `OneLease`, `DeadLetterPinned` | 1 group, 2 messages, 2 workers, batches of 1, 2 attempts, 1 operator call, 1 restart, clock 0 to 2 |
| `publish_path` | type, `NeverStranded`, `LossWithinBudget`, `AckKept`, `DepthHolds`, `Returns` | 2 publishers, 2 publishes to one or two topics, a policy (depth 1, rate, budget 2) or none per topic, groups of 2, 1 event (crash, failed write, dropped task or policy change) |
| `invocations` | type, `LeaseHolds`, `OneLiveRun`, `OutcomeStays`, `Settles` | 2 nodes with skew 0 and 1, 1 id of any kind, 1 permit, lease 2, 1 attempt before a failure is final, 1 blob change, 1 unanswered post, clock 1 to 3 |
| `sessions` | type, `BufferExact`, `DedupRan`, `KeptUnlessClobbered` | 2 tasks, 2 keys and none, buffer 2, dedup window 1, 2 guest calls, 2 posts, 1 lost connection or request, clock 0 to 1 |
| `deploy_gc` | type, `PinnedComplete` | 2 deployments that share a blob, 1 site, 1 alias, 2 clients, 3 calls, 1 pass, history 2, keep 1, grace 1, clock 0 to 1 |
| `session_lost_frame` | violation of `FramesNeverLost` | 2 tasks, 2 sends |
| `deploy_gc_race` | violation of `NeverIncomplete` | 1 client, 2 calls, 1 pass |
| `invocations_refire` | violation of `NotResurrected` | 2 nodes, 1 id, 2 blob changes, no fault |

Two workers are enough for every hazard that takes two overlapping calls; claims
exclude each other, so a third adds only more of the same. One message suffices
where a property speaks about one id; two where a claim or an operator call
handles several: the high-water mark and the batch of a group need two. Several
groups that share the log are left to the proofs, which hold for any number,
because two groups with two messages are out of reach. Clocks are long enough for
a lease to expire and the message to be delivered again, or for an invocation to
be reclaimed and settled. In the runs of `Invocations` enqueues and faults happen
at clock 1 (`MaxCreated`, `MaxFaulty`); late copies are applied at any time, and
an invocation is run again when a lease ends. One collector pass suffices: passes
share nothing (`PinnedStaysComplete` is for any number). Deadlock checking is off:
calls, crashes and the clock are bounded, and a queue at rest is a legal end.

**Fairness.** In `wq_liveness` a call under way goes on (weak fairness of `Step`),
time passes, and the scheduler is strongly fair to three kinds of work: draining a
topic whose marker is there, repairing a missing marker, and disposing of a held
message. In the server these are separate tasks (`run_delivery_drainer`, its
rebuild timer, the consumers), each of which runs again and again; in the run they
share one worker, so that each is enabled again and again rather than all the
time. In `publish_path` a task that can run is polled, a claim gives the gate
back, and a gate that claims take again and again is also given to a waiting
publisher (strong fairness: claims that prune are rare and the mutex wakes its
waiters). In `invocations` every node's scheduler ticks for ever (`DrainStep`),
the engine bounds a run and its outcome is written (`SettleStep`), and time
passes; faults stop early enough for the last lease to run out before the clock's
bound. Publishes, operator calls, crashes and enqueues have no fairness.

**Findings.** Three runs show where the code departs from its comments;
`PROJECT.json` quotes the lines.

1. `session_lost_frame`: session operations load and put the record without a
   compare. Of two overlapping requests the later put removes the frame the other
   one appended.
2. `deploy_gc_race`: the grace window protects only manifests that the pass has
   listed. A deployment stored after the listing loses its blobs, although its
   activation found them.
3. `invocations_refire`: a change that two watchers observe is run again if it
   settled in between. A comment says that a settled record is not resurrected; a
   test and another comment say what the code does.

Other departures are visible in the models, described here without a run of their
own. Where a property or the choice of calls in a cfg excludes them, the property
says of everything else that it goes right.

- `redrive_dead_letters` (one node): the live record is put and the dead one
  deleted in two writes. A claim and a quarantine in between lose the message; a
  dead letter redriven or purged since the listing comes back as a fresh record.
- `ack` (one node) after the message was dead-lettered frees its payload; after a
  redrive every claim that reaches the record fails. `Settled`
  counts a message as done once it was acked, so it does not see what follows.
- `nack_after` and `set_last_error` (one node) write back a record they read before
  an await: a message acked meanwhile comes back, a delivery made meanwhile is
  uncharged and its lease forgotten (`clobbered`).
- A nack that comes after the lease has ended clears the lease of the next holder
  (cluster, `overrun`).
- A purge on a cluster frees the payloads of the dead letters it listed after its
  proposal, also of one that a redrive has made live again (`reborn`).
- A publish posted twice on a cluster, whose second copy is applied after the ack,
  leaves a record without payload.
- Groups: a message that commits after a later id can be passed by the high-water
  mark; `logmax` can move backward, which closes the gate until the next publish;
  the first group that registers after a restart keeps the cache of grouped topics
  from being loaded, and other topics are not retained for their groups; a reset to
  the earliest message followed by a redrive puts an id in flight twice, and it is
  leased twice.
- `resolve_policy` may cache a policy that was replaced between its read and its
  insert; the old one then stays.
- Invocations: the put of a new async call is posted again when its answer does not
  come. Applied after the claim, it resets the record to `Queued`, and another node
  runs the invocation within the first run's lease; applied after the settle, it has
  the call run again (`revived`). The comment at `deploy.rs:2037` names this fault as
  the reason why the cron path does not put. The attempt limit is looked at when a run settles, so one that takes
  its node down each time is run for ever.
- Sessions: a reaper deletes a session used since its listing; two posts with the
  same key that overlap both run; a put after a close or a delete brings the record
  back; an ack that moves nothing does not refresh the liveness of the session.
- Deployments: a deployment that moves from an alias to a site between two reads of
  the collector is seen in neither; storing a manifest again keeps its first
  `created_at`, so the grace window may be over; a collector that deletes a manifest
  stored again meanwhile also drops its metadata; an upload whose content does not
  match overwrites the blob another client stored and then deletes it, and stays if
  that delete fails.

## Proofs

The theorems hold for every value of the constants that satisfies the assumptions
of the modules: `IdsAssumption`, `NoRecAssumption` and `RaftQueueAssumption` for
`RaftQueue` (types, at least one post per proposal; any skew and lease), `PlanLoopAssumption` with the
same two for `PlanLoop` (finitely many ids; any batch, clock and attempt limit), `WorkQueueAssumption` with
the same two for `WorkQueue` (any workers, modes, batch size and limits),
`GroupIdsAssumption`, `NoneAssumption` and `GroupLogAssumption` for `GroupLog`
(finitely many ids, any groups, workers, batch size, attempt limit and retention),
`InvocationsAssumption` (any
nodes, ids and permits, any skew up to `MaxSkew`, any lease),
`SessionAssumption` and `NoRecAssumption` (any tasks, keys, buffer and dedup
window; an absent record is no record), `PublishPathAssumption` (finite ids and
topics; any policies, budgets and group limit), `DeployGcAssumption` (any sites,
aliases, manifests and clients, at least one set of collector options).

| Theorem | States |
|---|---|
| `PlanLoopProofs!LoopAgrees` | `PlanAgrees`: the loop of `plan_claim` leases and buries what `ClaimPlan` says, in that order |
| `NeverOvertakes` | `NoOvertaking` |
| `RaftQueueProofs!TypeCorrect` | `TypeOK` always holds |
| `NeverLost` | `NothingLost` |
| `NeverHidden` | `MarkerCoversBacklog` |
| `ImplementsAtLeastOnce` | `RaftQueue` implements `AtLeastOnce` |
| `PayloadKept` | `PayloadPresent` |
| `DisposedStaysGone` | `AckedStaysGone` |
| `LeasedOnce` | `OneHolder` |
| `DeliveriesCharged` | `AttemptsCharged` |
| `WorkQueueProofs!TypeCorrect` | `TypeOK` |
| `MarkerNeverHides` | `MarkerCoversBacklog` |
| `PayloadFirst` | `PayloadPresent` |
| `OneHolderAtATime` | `OneHolder` |
| `DeliveriesCharged` | `AttemptsCharged` |
| `NothingIsLost` | `NothingLost`, if `Calls` has no redrive |
| `LostOnlyAfterRedrive` | a message that was never redriven is not lost |
| `DeadLettersReadable` | if `Calls` has no purge, a record, live or dead, has its payload until the message is acked or redriven |
| `ImplementsAtLeastOnce` | `WorkQueue` implements `AtLeastOnce` |
| `GroupLogProofs!TypeCorrect` | `TypeOK` |
| `CustodyKept` | `GroupCustody` |
| `LeasedOncePerGroup` | `OneLease` |
| `DeadLettersPinned` | `DeadLetterPinned` |
| `InvocationsProofs!TypeCorrect` | `TypeOK` |
| `LeaseExclusive`, `RunExclusive` | `LeaseHolds`, `OneLiveRun` |
| `OutcomeKept` | `OutcomeStays` |
| `SessionProofs!TypeCorrect` | `TypeOK` |
| `RecordExactAlways` | `BufferExact` |
| `DuplicatesRan` | `DedupRan` |
| `LostOnlyByClobber` | `KeptUnlessClobbered` |
| `PublishPathProofs!TypeCorrect` | `TypeOK` |
| `NobodyStranded` | `NeverStranded` |
| `AcksKept` | `AckKept` |
| `LossBounded` | `LossWithinBudget` |
| `DepthRespected` | `DepthHolds` |
| `DeployGcProofs!TypeCorrect` | `TypeOK` |
| `PinnedStaysComplete` | `PinnedComplete` |

`PlanLoopProofs`: at any iteration the records that are left are in order and come
after all that were looked at (`InOrder`); the leases so far are the planned ones
among those, counted, and none of those was looked at after the batch was full
(`Counted`); each was leased, buried or passed over as the plan says, in order
(`ActedOn`). When none is left this is `PlanAgrees`. The count is where finitely
many ids are needed.

`NeverLost` and `NeverHidden` are inductive given the type invariant: the applied
state changes only where some proposal is applied (`AppliedSteps`), whoever sent
it and whenever, so each needs one case per arm of `apply_op`
(`ApplyLosesNothing`, `ApplyKeepsMarker`).

`PayloadPresent` and `AckedStaysGone` are not inductive: a proposal under way may
free or re-create things long after the state it was made from. The invariant
`Custody` adds what every pending proposal relies on (`Grounded`: a publish not
yet applied has its payload in the store, a discard names ids that were dead),
what every replica shows (`WasDead`), and that only disposed ids are being freed.

`OneHolder` and `AttemptsCharged` rest on `Leasing`: the last delivery of a
message carries the lease of the record, the lease of each earlier one is over
(`LastLease`), each delivery is held once (`HeldOnce`), a nack gives back a
delivery that nobody holds any more (`GivenUp`), and a claim carries a reading
that the fastest clock has reached (`Latest`), so that a late claim cannot cut short
a lease that no clock has passed.

`ImplementsAtLeastOnce` needs the type invariant only. `Mapping` says what the
abstract variables are; one lemma per arm of `apply_op` shows the step it is
(`PublishAccepts`, `ClaimDelivers`, `AckSettles`, `NackStutters`,
`DiscardDiscards`, `RedriveRedrives`); every other action leaves the applied state
alone (`QueueNext`).

`WorkQueueProofs`: every call of the single-node queue acts on what it read some
steps ago, so none of its properties is inductive. `IInv` says of every call under
way (`JobOK`) what is still true of its reads, and of every two of them (`Agree`)
how their reads relate. For `NothingLost`, `MarkerCoversBacklog` and
`PayloadPresent` the key is that `Placed` (in the index or retired) and `Retired`
only grow: what a write-back or a scan read was placed (`PlaceJob`) and backed by a
payload (`PayloadJob`), and stays so; a claim that found the topic empty prunes the
marker under the gate, where nothing can be published. Until its commit nobody but
the publish knows its id (`FreshJob`). For `OneHolder` and `AttemptsCharged` the key
is that attempts only grow, but for the messages the properties except: the
record, and the copy a claim has read under `claim_lock`, is not older than any
delivery (`HolderInv`, `Covers`, `ScanJob`), a claim has not handed out what it is
about to return (`DeliverJob`), and a write-back never raises the attempts
(`BackJob`). `Keeps` lists what a step of one call leaves the others, and
`JobStays` and `JobStep` show that this suffices. `NothingLost` is proved where no
redrive is called: the two writes of a redrive can lose the message (see the
findings), and `LostOnlyAfterRedrive` says that nothing else can.

`PayloadPresent` says nothing of dead letters, since a purge frees the object before
the record. `KeptInv` does, for a queue without purges: payloads are freed only by
acks, so what was kept when a call read it (`KeptJob`) is kept when it writes it.

`ImplementsAtLeastOnce` of `WorkQueue` needs `IInv`. A claim delivers from records
it read earlier: `ScanJob` says that their attempts are still those of the index,
unless the message was released, so the delivery it writes is the next one the
abstract queue allows (`ClaimDelivers`). A write-back puts the attempts it found
(`WriteBackStutters`), a quarantine parks a message that waits or is parked
(`BuryParks`), and whatever an ack, an operator or a stale write-back does leaves
only the messages it releases in a new place (`LeavesQueue`).

`GroupLogProofs`: what the groups keep is written under `claim_lock`, but by the
holder's reading of several steps ago, and publishes and discards go on meanwhile.
`JobOK` says what each call relies on: a claim's state is the stored one until it
writes the next (`ProbeJob`); the state it is about to write leaves every owed
message in flight, dead-lettered, about to be, or ahead, and what it hands out is
not out already (`BuryJob`); a quarantine has put its dead letter before it drops
the entry, a redrive has the id in flight before it deletes the dead letter, and
what a sweep is about to free is neither dead-lettered nor owed in any group
(`HoldJob`), which is `DeadLetterPinned`. `Unlocked` lists what a step without the
lock may do, `JobStays` shows that the holder's view outlives it, and `GroupStep`
that a step under the lock has to answer for its own group only. `OneLease` needs
the group states too (`StateOK`): unless its lease was given up, an id is in flight
once, behind the high-water, until the end of every lease on it (`Single`,
`Covers`). About the plan itself, `PlanKeeps` shows that it drops only what it
dead-letters and passes nothing in the log, and `PlanSingle` that it delivers an id
once and only after the lease; both count entries (`Rank`) instead of following the
loops of the source.

The invariant `IInv` of `InvocationsProofs` says what drains, watchers and runs hold
from earlier reads (`ScanInv`, `WatchInv`, `RunInv`), and the same of the writes in
`late`, which outlive their callers (`LateInv`). Each write has a shape (`Shape`): the
put of a call and a re-fire bring a fresh record, and a re-fire expects none or a
settled one; a claim expects a record that is claimable by the fastest clock and adds
an attempt; a settle keeps the attempts and is of a run that is over (`Over`). Within one
life of an id, which `created` tells apart (`StoreInv`), attempts only grow
(`Charged`), so no record is claimed twice and each run has its own (`Own`,
`LifeInv`). A late swap therefore finds the record it expects only if nothing has
happened to it since. This fails for an id that is enqueued again under an old
`created`, which is why the theorems except `revived`.

`SessionProofs`: `BufferExact` speaks of the record in the store, but a request
puts a copy it computed from an older load, and the next load starts from that. So
`RecordInv` says the same of every copy that a task is about to put, with the keys
of both among those that ran; it holds however puts overwrite each other.
Each copy is derived from the record the task loaded (`Derived`). A stream's pending
frames are distinct and not ahead of its cursor (`StreamInv`). `KeptUnlessClobbered`
needs `DeliveryInv`, while no put fell on a changed record: the client has every
frame up to the last it saw and up to each ack that is on its way (`Given`), the
client has or the stream holds every frame up to the stream's cursor (`Streamed`),
and so an ack frees only what the client has.

`PublishPathProofs`: `GateInv` (one leader) and `JobInv` (a pending publish has one
job, in the queue or in the leader's batch) carry `NeverStranded`. `KeptInv` says
of a batch that is about to be reported Ok what `AckKept` says of an acknowledged
publish. `LossWithinBudget` is not inductive: reporting a batch exposes several
messages at once, and any subset of them may be acknowledged first. `LossInv`
therefore bounds every set of messages whose outcome is Ok (`Counts`) by the budget
of one of its members, and the whole by the counter; a batch that was only buffered
is within the budget of each of its jobs (`WithinBudget`) because the counter is
read under the gate. Finite sets enter by cardinality, the least budget of a batch
and the jobs of a drain by a least-number principle (`LeastNat`, from the
well-foundedness of `<`). `DepthInv` carries the room that a publish found from its
check to its commit: publishes counted in `before` have returned and write no more
(`RoomStays`).

`DeployGcProofs`: what is pinned is uncondemned as well as complete (`PinInv`),
since a condemned deployment is deleted later. The pass has seen all that was
pinned when it looked, except what moved since (`LiveInv`); what it deletes belongs
to condemned deployments (`SweepInv`); a completeness check that no condemnation
overlapped is right so far (`CheckInv`); and an activation that has not recorded
itself still has its site pointing at what it set, thanks to the lock (`LockInv`),
which is why recording it later is safe. `RecordedFacts` shows that recording moves
no other entry towards the front, so nothing becomes retained that was not.

Each of these invariants was checked by TLC on the bounds of its module's run
before it was proved.

`TypeOK` of `PlanLoop` and `WorkQueue` is proved (`LoopInvariant`, `TypeCorrect`)
and in no run.

Checked by TLC only: liveness (`Settled`, `Returns`, `Settles`), because TLAPS does
not prove fairness arguments, and `NothingLost` of a queue with redrives, which
`wq_liveness` checks for one worker.

## Plan

1. `RaftGroups`: the consumer groups of a cluster on `GroupPlan`: the grouped
   proposals, the sweep that decides on a lagging replica.
2. A liveness property of the grouped lane.
3. Workflows on top of `Invocations`; store migration; mesh admission; cache
   coherence.

## Not modelled

Consumer groups and publish limits of a cluster, replay, peek and statistics, live
streams, sharding and the due-heap (they choose who claims when; any worker may
claim at any time here), the Raft log and membership, workflows and idempotency
keys, socket sessions, function components in the blob store, project pruning and
export, and the components `PROJECT.json` marks `not_modelled`: mostly I/O,
configuration, protocol adapters, generated bindings and cryptography, which keep
no shared state a property could relate.
