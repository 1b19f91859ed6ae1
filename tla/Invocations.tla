---------------------------- MODULE Invocations ----------------------------
(***************************************************************************)
(* The durable async invocations of one function on a cluster: the records *)
(* of boatramp-core/src/deploy.rs, the drain of                             *)
(* boatramp-server/src/function_runtime.rs that claims, runs and settles    *)
(* them, and the three ways they are enqueued (a call, a cron, a blob       *)
(* change).                                                                 *)
(*                                                                          *)
(* Any node may drain: the owner of the function and, in the window of a    *)
(* membership change or on the unsharded safety net, any other node at the  *)
(* same time.  What keeps them apart is a compare-and-swap on the whole     *)
(* record and a lease in wall-clock seconds.  Clocks of nodes differ by up  *)
(* to MaxSkew.                                                              *)
(*                                                                          *)
(* Every write is a proposal that a follower posts to the leader and posts  *)
(* again when the answer does not come; a copy that was given up may be     *)
(* applied at any later time.  A swap is then refused unless the record is  *)
(* still the expected one, the put of a new call is not.                    *)
(*                                                                          *)
(* The request, the result and the pinned version of a record are left out, *)
(* and so is `updated`, which no code reads: that of a Running record is    *)
(* its lease less LeaseSecs.  `created` is kept: it is what tells two fires *)
(* of one blob change apart.                                                *)
(***************************************************************************)
EXTENDS Integers

CONSTANTS
    Nodes,
    Ids,          \* invocation ids, numbered in the order of their keys
    Permits,      \* permits of `async_drain_gate` on one node
    NoRec,        \* no such key, and "nothing" wherever a record could be
    Skew,         \* how far each node's clock is ahead
    MaxSkew,
    LeaseSecs,    \* lease_ttl_secs
    MaxAttempts,  \* MAX_INVOKE_ATTEMPTS
    MaxTries,     \* rounds of refire_invocation
    MaxFires,     \* bound: blob changes observed
    MaxCreated,   \* bound: nothing is enqueued with a later clock than this
    MaxFails,     \* bound: posts that are not answered
    MaxFaulty,    \* bound: no node crashes and no post fails with a later clock than this
    MaxClock      \* bound: the clock stops here

Slots == Nodes \X Permits

\* No lease is a lease of 0: `lease_expires` is None.
Invocation == [status : {"Queued", "Running", "Succeeded", "Failed"},
               attempts : Nat, lease : Nat, created : Nat]
Observed == Invocation \cup {NoRec}

ASSUME InvocationsAssumption ==
    /\ Ids \subseteq Nat /\ NoRec \notin Invocation
    /\ LeaseSecs \in Nat /\ MaxAttempts \in Nat /\ MaxTries \in Nat
    /\ MaxFires \in Nat /\ MaxCreated \in Nat /\ MaxFails \in Nat
    /\ MaxFaulty \in Nat /\ MaxClock \in Nat
    /\ MaxSkew \in Nat /\ Skew \in [Nodes -> 0 .. MaxSkew]

VARIABLES
    kind,     \* what each id is made of: a nonce ("call"), a cron and its minute
              \* ("cron"), a blob and a change of it ("blob"); never changes
    store,    \* the record of each id
    scan,     \* the drain under way on each node
    run,      \* the runs in flight, by node and permit
    watch,    \* the blob change each node's watcher is enqueuing
    enq,      \* the record that the handler of each call is putting
    late,     \* the writes that were posted and given up, none of them lost for sure
    fires,
    fails,
    clock,
    stamps,   \* history: when each id was enqueued, as its records have it
    revived   \* history: the ids enqueued again by a put that was posted twice, or by a
              \* second fire of a blob change in one second

hist == <<stamps, revived>>
base == <<store, hist>>
posts == <<late, fails>>
vars == <<kind, base, scan, run, watch, enq, posts, fires, clock>>

\* A drain first reads the records of `todo`, then fixes `now` and works
\* through those it has `seen`.
Scan == [stage : {"idle", "listing", "claiming"}, todo : SUBSET Ids,
         seen : [Ids -> Observed], now : Nat]
\* `out` is what a run that is over settles its record to.
Claimed == [id : Ids, rec : Invocation, out : Observed]
Refire == [stage : {"read", "swap"}, id : Ids, tries : Nat, current : Observed,
           rec : Invocation]
Write == [op : {"put", "swap"}, id : Ids, expected : Observed, new : Invocation]

Now(n) == clock + Skew[n]
Nothing == [i \in Ids |-> NoRec]
IdleScan == [stage |-> "idle", todo |-> {}, seen |-> Nothing, now |-> 0]

Terminal(rec) == rec \in Invocation /\ rec.status \in {"Succeeded", "Failed"}

Enqueued(now) == [status |-> "Queued", attempts |-> 0, lease |-> 0, created |-> now]

Init ==
    /\ kind \in [Ids -> {"call", "cron", "blob"}]
    /\ store = Nothing
    /\ scan = [n \in Nodes |-> IdleScan]
    /\ run = [s \in Slots |-> NoRec]
    /\ watch = [n \in Nodes |-> NoRec]
    /\ enq = Nothing
    /\ late = {}
    /\ fires = 0
    /\ fails = 0
    /\ clock = 1
    /\ stamps = [i \in Ids |-> {}]
    /\ revived = {}

-----------------------------------------------------------------------------
(* Writes. *)

PutOf(id, rec) == [op |-> "put", id |-> id, expected |-> NoRec, new |-> rec]
SwapOf(id, expected, rec) == [op |-> "swap", id |-> id, expected |-> expected, new |-> rec]

\* Mutant: the swap of a backend that cannot compare.
MatchesAlways(o) == TRUE

\* compare_and_swap compares the whole record; put does not look.
Matches(o) == o.op = "put" \/ store[o.id] = o.expected

\* The leader applies a write.  Only a record that enqueues has no attempt yet.
Commit(o) ==
    LET fresh == o.new.attempts = 0
        again == \/ o.op = "put" /\ store[o.id] # NoRec
                 \/ fresh /\ o.new.created \in stamps[o.id]
    IN  /\ store' = [store EXCEPT ![o.id] = o.new]
        /\ stamps' = [stamps EXCEPT ![o.id] = @ \cup {c \in {o.new.created} : fresh}]
        /\ revived' = revived \cup {i \in {o.id} : again}

FaultsAllowed == clock <= MaxFaulty

\* A post gets no answer.  It is still on its way, or applied, or lost.
Unanswered(o) ==
    /\ FaultsAllowed /\ fails < MaxFails
    /\ fails' = fails + 1
    /\ late' = late \cup {o}

\* A post that nobody waits for any more arrives, once.
ApplyLate(o) ==
    /\ o \in late /\ late' = late \ {o}
    /\ \/ Matches(o) /\ Commit(o)
       \/ ~Matches(o) /\ UNCHANGED base
    /\ UNCHANGED <<kind, scan, run, watch, enq, fires, fails, clock>>

-----------------------------------------------------------------------------
(* Enqueuing. *)

\* enqueue_invocation: an async call, under an id of its own.
EnqueueCall(n, id) ==
    /\ clock <= MaxCreated
    /\ kind[id] = "call" /\ store[id] = NoRec /\ enq[id] = NoRec
    /\ \A o \in late : o.id # id
    /\ enq' = [enq EXCEPT ![id] = Enqueued(Now(n))]
    /\ UNCHANGED <<kind, base, scan, run, watch, posts, fires, clock>>

\* put_invocation, which replaces whatever an earlier copy of it has become.
EnqueuePut(id) ==
    /\ enq[id] # NoRec /\ Commit(PutOf(id, enq[id]))
    /\ enq' = [enq EXCEPT ![id] = NoRec]
    /\ UNCHANGED <<kind, scan, run, watch, posts, fires, clock>>

\* commit posts again, or has no try left and the call fails.
EnqueuePostFails(id) ==
    /\ enq[id] # NoRec /\ Unanswered(PutOf(id, enq[id]))
    /\ \/ UNCHANGED enq
       \/ enq' = [enq EXCEPT ![id] = NoRec]
    /\ UNCHANGED <<kind, base, scan, run, watch, fires, clock>>

\* enqueue_scheduled_invocation: every owner that sees the minute may fire it,
\* only the first creates the record.  A late copy is one more such fire.
EnqueueScheduled(n, id) ==
    LET o == SwapOf(id, NoRec, Enqueued(Now(n)))
    IN  /\ clock <= MaxCreated /\ kind[id] = "cron" /\ Matches(o) /\ Commit(o)
        /\ UNCHANGED <<kind, scan, run, watch, enq, posts, fires, clock>>

\* enqueue_blob_invocation, up to refire_invocation.
ObserveChange(n, id) ==
    /\ clock <= MaxCreated
    /\ kind[id] = "blob" /\ watch[n] = NoRec /\ fires < MaxFires
    /\ fires' = fires + 1
    /\ watch' = [watch EXCEPT ![n] = [stage |-> "read", id |-> id, tries |-> 0,
                                      current |-> NoRec, rec |-> Enqueued(Now(n))]]
    /\ UNCHANGED <<kind, base, scan, run, enq, posts, clock>>

\* A round reads the record.  One that is in flight absorbs the change.
RefireRead(n) ==
    /\ watch[n] # NoRec /\ watch[n].stage = "read"
    /\ LET w == watch[n]
           coalesces == store[w.id] # NoRec /\ ~Terminal(store[w.id])
       IN  watch' = [watch EXCEPT ![n] =
                       IF coalesces \/ w.tries >= MaxTries THEN NoRec
                       ELSE [w EXCEPT !.stage = "swap", !.current = store[w.id]]]
    /\ UNCHANGED <<kind, base, scan, run, enq, posts, fires, clock>>

RefireWrite(w) == SwapOf(w.id, w.current, w.rec)

\* The swap of a round: a lost race goes round again.
RefireSwap(n) ==
    /\ watch[n] # NoRec /\ watch[n].stage = "swap"
    /\ LET w == watch[n]
       IN  \/ /\ Matches(RefireWrite(w)) /\ Commit(RefireWrite(w))
              /\ watch' = [watch EXCEPT ![n] = NoRec]
           \/ /\ ~Matches(RefireWrite(w)) /\ UNCHANGED base
              /\ watch' = [watch EXCEPT ![n] = [w EXCEPT !.stage = "read", !.current = NoRec,
                                                         !.tries = @ + 1]]
    /\ UNCHANGED <<kind, scan, run, enq, posts, fires, clock>>

\* The swap is posted again, or the watcher gives the change up.
RefirePostFails(n) ==
    /\ watch[n] # NoRec /\ watch[n].stage = "swap" /\ Unanswered(RefireWrite(watch[n]))
    /\ \/ UNCHANGED watch
       \/ watch' = [watch EXCEPT ![n] = NoRec]
    /\ UNCHANGED <<kind, base, scan, run, enq, fires, clock>>

-----------------------------------------------------------------------------
(* drain_function_invocations. *)

\* list_invocations lists the keys, then reads them one by one in key order.
StartDrain(n) ==
    /\ scan[n].stage = "idle"
    /\ scan' = [scan EXCEPT ![n] = [IdleScan EXCEPT !.stage = "listing",
                                      !.todo = {i \in Ids : store[i] # NoRec}]]
    /\ UNCHANGED <<kind, base, run, watch, enq, posts, fires, clock>>

First(n, id) == id \in scan[n].todo /\ \A i \in scan[n].todo : id <= i

ListOne(n, id) ==
    /\ scan[n].stage = "listing" /\ First(n, id)
    /\ scan' = [scan EXCEPT ![n].todo = @ \ {id}, ![n].seen[id] = store[id]]
    /\ UNCHANGED <<kind, base, run, watch, enq, posts, fires, clock>>

\* Mutants: a reclaim that forgets the lease, and no reclaim at all.
ClaimableRunning(rec, now) == rec # NoRec /\ rec.status \in {"Queued", "Running"}
ClaimableQueued(rec, now) == rec # NoRec /\ rec.status = "Queued"

Claimable(rec, now) ==
    /\ rec # NoRec
    /\ \/ rec.status = "Queued"
       \/ rec.status = "Running" /\ rec.lease <= now

\* The time of the pass is read once, after the listing.
FixNow(n) ==
    /\ scan[n].stage = "listing" /\ scan[n].todo = {}
    /\ LET due == {i \in Ids : Claimable(scan[n].seen[i], Now(n))}
       IN  scan' = [scan EXCEPT ![n] = [stage |-> "claiming", todo |-> due, now |-> Now(n),
                      seen |-> [i \in Ids |-> IF i \in due THEN @.seen[i] ELSE NoRec]]]
    /\ UNCHANGED <<kind, base, run, watch, enq, posts, fires, clock>>

ClaimedFrom(rec, now) ==
    [rec EXCEPT !.status = "Running", !.attempts = @ + 1, !.lease = now + LeaseSecs]

FreeSlots(n) == {s \in Slots : s[1] = n /\ run[s] = NoRec}

\* The loop goes on to the next record.
Passed(n, id) ==
    scan' = [scan EXCEPT ![n].todo = @ \ {id}, ![n].seen[id] = NoRec]

\* What a claim needs before the swap: a record to claim and a permit.
Claiming(n, id) ==
    scan[n].stage = "claiming" /\ First(n, id) /\ FreeSlots(n) # {}

ClaimWrite(n, id) ==
    SwapOf(id, scan[n].seen[id], ClaimedFrom(scan[n].seen[id], scan[n].now))

\* claim_invocation wins: the run is spawned with the permit.
Claim(n, id) ==
    LET o == ClaimWrite(n, id)
    IN  /\ Claiming(n, id) /\ Matches(o) /\ Commit(o)
        /\ \E s \in FreeSlots(n) :
              run' = [run EXCEPT ![s] = [id |-> id, rec |-> o.new, out |-> NoRec]]
        /\ Passed(n, id)
        /\ UNCHANGED <<kind, watch, enq, posts, fires, clock>>

\* claim_invocation loses: the record is not the one that was listed.
ClaimLost(n, id) ==
    /\ Claiming(n, id) /\ ~Matches(ClaimWrite(n, id))
    /\ Passed(n, id)
    /\ UNCHANGED <<kind, base, run, watch, enq, posts, fires, clock>>

\* The swap is posted again, or the claim fails and nobody runs the invocation,
\* whether it was applied or not.
ClaimPostFails(n, id) ==
    /\ Claiming(n, id) /\ Unanswered(ClaimWrite(n, id))
    /\ \/ UNCHANGED scan
       \/ Passed(n, id)
    /\ UNCHANGED <<kind, base, run, watch, enq, fires, clock>>

\* No permit: the rest stays for a later pass.
GateFull(n) ==
    /\ scan[n].stage = "claiming" /\ scan[n].todo # {} /\ FreeSlots(n) = {}
    /\ scan' = [scan EXCEPT ![n] = IdleScan]
    /\ UNCHANGED <<kind, base, run, watch, enq, posts, fires, clock>>

EndDrain(n) ==
    /\ scan[n].stage = "claiming" /\ scan[n].todo = {}
    /\ scan' = [scan EXCEPT ![n] = IdleScan]
    /\ UNCHANGED <<kind, base, run, watch, enq, posts, fires, clock>>

-----------------------------------------------------------------------------
(* run_claimed_invocation. *)

\* Mutant: no lease written as -1.
SettledSigned(rec, outcome) == [rec EXCEPT !.lease = 0 - 1, !.status = "Succeeded"]

\* What the record becomes: the guest answered, the engine failed, or the
\* pinned version is gone.
Settled(rec, outcome) ==
    [rec EXCEPT !.lease = 0,
                !.status = CASE outcome = "delivered" -> "Succeeded"
                             [] outcome = "unresolved" -> "Failed"
                             [] OTHER -> IF rec.attempts >= MaxAttempts
                                         THEN "Failed" ELSE "Queued"]

\* The guest is done.
Finish(s, outcome) ==
    /\ run[s] # NoRec /\ run[s].out = NoRec
    /\ run' = [run EXCEPT ![s].out = Settled(run[s].rec, outcome)]
    /\ UNCHANGED <<kind, base, scan, watch, enq, posts, fires, clock>>

SettleWrite(r) == SwapOf(r.id, r.rec, r.out)

\* Mutant: a settle that writes over whatever is there.
SettleWinsBlindly(s) ==
    /\ run[s] # NoRec /\ run[s].out # NoRec
    /\ Commit(SettleWrite(run[s]))
    /\ run' = [run EXCEPT ![s] = NoRec]
    /\ UNCHANGED <<kind, scan, watch, enq, posts, fires, clock>>

\* settle_invocation on the record that was claimed.
SettleWins(s) ==
    /\ run[s] # NoRec /\ run[s].out # NoRec
    /\ Matches(SettleWrite(run[s])) /\ Commit(SettleWrite(run[s]))
    /\ run' = [run EXCEPT ![s] = NoRec]
    /\ UNCHANGED <<kind, scan, watch, enq, posts, fires, clock>>

\* A peer took the invocation over: the outcome is dropped.
SettleLost(s) ==
    /\ run[s] # NoRec /\ run[s].out # NoRec /\ ~Matches(SettleWrite(run[s]))
    /\ run' = [run EXCEPT ![s] = NoRec]
    /\ UNCHANGED <<kind, base, scan, watch, enq, posts, fires, clock>>

\* The swap is posted again, or given up: the record may stay Running.
SettlePostFails(s) ==
    /\ run[s] # NoRec /\ run[s].out # NoRec /\ Unanswered(SettleWrite(run[s]))
    /\ \/ UNCHANGED run
       \/ run' = [run EXCEPT ![s] = NoRec]
    /\ UNCHANGED <<kind, base, scan, watch, enq, fires, clock>>

-----------------------------------------------------------------------------
\* A node dies and comes back: only the records survive, and what it posted.
Crash(n) ==
    /\ FaultsAllowed
    /\ scan' = [scan EXCEPT ![n] = IdleScan]
    /\ run' = [s \in Slots |-> IF s[1] = n THEN NoRec ELSE run[s]]
    /\ watch' = [watch EXCEPT ![n] = NoRec]
    /\ UNCHANGED <<kind, base, enq, posts, fires, clock>>

Tick ==
    /\ clock < MaxClock
    /\ clock' = clock + 1
    /\ UNCHANGED <<kind, base, scan, run, watch, enq, posts, fires>>

-----------------------------------------------------------------------------
Outcomes == {"delivered", "undelivered", "unresolved"}

DrainStep(n) ==
    \/ StartDrain(n) \/ FixNow(n) \/ GateFull(n) \/ EndDrain(n)
    \/ \E id \in Ids : ListOne(n, id) \/ Claim(n, id) \/ ClaimLost(n, id)
SettleStep(s) ==
    (\E outcome \in Outcomes : Finish(s, outcome)) \/ SettleWins(s) \/ SettleLost(s)
WatchStep(n) == RefireRead(n) \/ RefireSwap(n)
EnqueueStep ==
    \E id \in Ids : \/ EnqueuePut(id)
                    \/ \E n \in Nodes : \/ EnqueueCall(n, id) \/ EnqueueScheduled(n, id)
                                         \/ ObserveChange(n, id)
FaultStep ==
    \/ \E n \in Nodes : \/ Crash(n) \/ RefirePostFails(n)
                       \/ \E id \in Ids : ClaimPostFails(n, id)
    \/ \E id \in Ids : EnqueuePostFails(id)
    \/ \E s \in Slots : SettlePostFails(s)
    \/ \E o \in late : ApplyLate(o)

Next ==
    \/ EnqueueStep
    \/ \E n \in Nodes : DrainStep(n) \/ WatchStep(n)
    \/ \E s \in Slots : SettleStep(s)
    \/ FaultStep
    \/ Tick

Spec == Init /\ [][Next]_vars

\* The scheduler of every node ticks for ever and its safety net drains every
\* function; the engine bounds a run; time passes.
FairSpec ==
    /\ Spec
    /\ \A n \in Nodes : WF_vars(DrainStep(n))
    /\ \A s \in Slots : WF_vars(SettleStep(s))
    /\ WF_vars(Tick)

-----------------------------------------------------------------------------
TypeOK ==
    /\ kind \in [Ids -> {"call", "cron", "blob"}]
    /\ store \in [Ids -> Observed]
    /\ scan \in [Nodes -> Scan]
    /\ run \in [Slots -> Claimed \cup {NoRec}]
    /\ watch \in [Nodes -> Refire \cup {NoRec}]
    /\ enq \in [Ids -> Observed]
    /\ late \subseteq Write
    /\ fires \in 0 .. MaxFires
    /\ fails \in 0 .. MaxFails
    /\ clock \in Nat
    /\ stamps \in [Ids -> SUBSET Nat]
    /\ revived \subseteq Ids

\* A run that is executing and whose lease no clock of the cluster has passed.
Live(s) ==
    run[s] # NoRec /\ run[s].out = NoRec /\ run[s].rec.lease > clock + MaxSkew

\* While its lease lasts, the record of a run is exactly the one it claimed: no
\* other drain, late claim or settle, cron, watcher or restart has touched it, so
\* its own settle will be accepted (drain_function_invocations,
\* settle_invocation).  Only a revived id has no such hold: the re-posted
\* put of put_invocation replaces a record in flight.
LeaseHolds ==
    \A s \in Slots : Live(s) /\ run[s].id \notin revived => store[run[s].id] = run[s].rec

\* At most one run of an invocation is within its lease, on whatever node: the
\* swap admits one claim in the double-owner window, and a late copy of one
\* starts none (claim_invocation).  Revived ids aside.
OneLiveRun ==
    \A s, t \in Slots :
        Live(s) /\ Live(t) /\ run[s].id = run[t].id /\ run[s].id \notin revived => s = t

\* A settled outcome stays: a run that outlived its lease, a second fire of a
\* cron, a claim from an old listing or a late swap never changes it.  Only a blob
\* change observed later and the re-posted put of a call replace it, and with
\* nothing but a fresh Queued record (settle_invocation,
\* enqueue_invocation_if_absent, refire_invocation, put_invocation).
OutcomeStays ==
    [][\A id \in Ids : Terminal(store[id]) /\ store'[id] # store[id] =>
          /\ kind[id] = "blob" \/ id \in revived'
          /\ store'[id].status = "Queued" /\ store'[id].attempts = 0]_vars

\* No invocation is stranded: whatever crashes, loses an answer or outlives its
\* lease, each one enqueued is settled (drain_function_invocations).
Settles == \A id \in Ids : store[id] # NoRec ~> Terminal(store[id])

\* What enqueue_blob_invocation says of the id of a blob change: a settled record
\* with this id is not resurrected.  refire_invocation does just that.
NotResurrected ==
    [][\A id \in Ids : kind[id] = "blob" /\ Terminal(store[id]) => store'[id] = store[id]]_vars

=============================================================================
