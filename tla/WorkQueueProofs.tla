-------------------------- MODULE WorkQueueProofs --------------------------
(***************************************************************************)
(* Proofs about the single-node work queue of WorkQueue: for any number of  *)
(* messages, workers, operator calls and restarts, and any batch, lease and *)
(* attempt limit.                                                           *)
(***************************************************************************)
EXTENDS WorkQueue, WellFoundedInduction, TLAPS

\* Calls that write back a record they read, claims that have read the index,
\* and claims that have leased.
WriteBacks == {"nack", "note", "bury"}
Scans == {"scan", "lease"}
Deliveries == {"relist", "prune", "return"}

\* A message that was published is in the index, or it was retired.
Placed == Live(meta) \cup Retired

\* A record that is in the index, or that a call may put there, has its payload.
Backed(i, r) == i \in Retired \/ r.inline \/ i \in payload

\* Written back from a stale read, nacked by a former holder, or redriven.
Excepted == clobbered \cup rearmed

\* The record is not older than the delivery, and holds its lease or a later one.
Covers(r, h) ==
    /\ h.attempts <= r.attempts
    /\ h.attempts = r.attempts => h.until <= r.lease
    /\ h.attempts < r.attempts => h.until <= clock

QueueInv ==
    /\ committed \subseteq minted
    /\ Live(meta) \cup Live(dead) \subseteq committed
    /\ committed \subseteq Placed
    /\ MarkerCoversBacklog
    /\ \A i \in Live(meta) : Backed(i, meta[i])

\* The deliveries of a message have different attempts, and all but the last are
\* over; the last one is in the index until its consumer disposes of it.
HolderInv ==
    /\ \A h \in Holders : h.id \in committed /\ h.attempts \in 1 .. MaxAttempts
    /\ \A g, h \in Holders : g.id = h.id /\ g.id \notin Excepted =>
          /\ g.attempts = h.attempts => g = h
          /\ g.attempts < h.attempts => g.until <= clock
    /\ \A h \in Holders : h.id \in Live(meta) \ Excepted => Covers(meta[h.id], h)

\* A loop over dead letters goes on only while there are some left.
LoopJob(j) == j.stage \in {"redrive", "purge"} => j.todo # {}

\* Until its commit, a publish is the only one who knows its id; nothing is charged yet.
FreshJob(j) ==
    /\ j.stage = "commit" => j.id \in minted \ committed /\ j.rec.attempts = 0
    /\ j.stage \in WriteBacks => j.id \in committed
    /\ j.stage \in Scans => Live(j.seen) \subseteq committed
    /\ j.stage \in {"redrive", "rearm", "unbury"} => j.todo \subseteq committed
    /\ j.stage = "rearm" => j.id \in committed

\* What a call knows of a message is still so, or the message was retired.
PlaceJob(j) ==
    /\ j.stage = "free" => j.id \in acked
    /\ j.stage = "unbury" => j.id \in rearmed
    /\ j.stage = "purge" => j.todo \subseteq Retired
    /\ j.stage \in {"erase", "drop"} => j.todo \cup {j.id} \subseteq Retired
    /\ j.stage \in WriteBacks => j.id \in Placed
    /\ j.stage \in Scans => Live(j.seen) \subseteq Placed
    /\ j.stage = "prune" => Live(meta) \subseteq Retired

\* What a call may put into the index has its payload.
PayloadJob(j) ==
    /\ j.stage \in {"commit"} \cup WriteBacks => Backed(j.id, j.rec)
    /\ j.stage \in Scans => \A i \in Live(j.seen) : Backed(i, j.seen[i])

\* What a claim is about to hand out is not out already.
DeliverJob(j) ==
    j.stage \in Deliveries => \A h \in j.recs : h \in handles => h.id \in Excepted

\* A record that a claim has read has the attempts of the index, and is not older than a delivery.
ScanJob(j) ==
    j.stage \in Scans =>
      /\ j.now <= clock
      /\ \A i \in Live(j.seen) \ Excepted :
            /\ \A h \in Holders : h.id = i => Covers(j.seen[i], h)
            /\ i \in Live(meta) => meta[i].attempts = j.seen[i].attempts

\* A write-back keeps the attempts it read, they are not ahead of the index, and a
\* nack is that of the last delivery.
BackJob(j) ==
    j.stage \in WriteBacks /\ j.id \notin Excepted =>
      /\ j.rec.attempts = j.read.attempts
      /\ j.stage = "note" => j.rec = j.read
      /\ j.id \in Live(meta) => j.read.attempts <= meta[j.id].attempts
      /\ j.stage = "nack" => \A h \in Holders : h.id = j.id => h.attempts # j.read.attempts

JobOK(j) ==
    /\ LoopJob(j) /\ FreshJob(j) /\ PlaceJob(j) /\ PayloadJob(j) /\ DeliverJob(j)
    /\ ScanJob(j) /\ BackJob(j)

\* Of two calls under way one at most has claim_lock, both publish something else,
\* and the attempts a write-back has read are not ahead of those of a claim.
Agree(j, k) ==
    /\ ~(j.stage \in ClaimStages /\ k.stage \in ClaimStages)
    /\ j.stage = "commit" /\ k.stage = "commit" => j.id # k.id
    /\ j.stage \in WriteBacks /\ k.stage \in Scans /\ j.id \in Live(k.seen) \ Excepted =>
          j.read.attempts <= k.seen[j.id].attempts

IInv ==
    /\ TypeOK /\ QueueInv /\ HolderInv
    /\ \A w \in Workers : JobOK(job[w])
    /\ \A v, w \in Workers : v # w => Agree(job[v], job[w])

-----------------------------------------------------------------------------
(* The first of the ids that are left, jobs by their stage, and the plan. *)

\* Every nonempty set of natural numbers has a least element.
LEMMA LeastNat ==
    ASSUME NEW S \in SUBSET Nat, S # {}
    PROVE  \E m \in S : \A k \in S : m <= k
<1> DEFINE R == OpToRel(<, Nat)
<1>1. IsWellFoundedOn(R, Nat) BY NatLessThanWellFounded
<1>2. \A a, b \in Nat : a < b => <<a, b>> \in R BY DEF OpToRel
<1> HIDE DEF R
<1>3. PICK m \in S : \A k \in S : <<k, m>> \notin R BY <1>1, WFMin
<1>4. \A k \in S : m <= k
  <2> TAKE k \in S
  <2>1. ~(k < m) BY <1>2, <1>3
  <2> QED BY <2>1
<1> QED BY <1>4

\* The loops of claim, redrive and purge take an id of those that are left.
LEMMA FirstIn ==
    ASSUME NEW S \in SUBSET Ids, S # {}
    PROVE  First(S) \in S
<1>1. S \in SUBSET Nat BY IdsAssumption DEF IdsAssumption
<1>2. \E i \in S : \A k \in S : i <= k BY <1>1, LeastNat
<1> QED BY <1>2 DEF First

\* What a job of each stage has read.
LEMMA JobFields ==
    ASSUME NEW j \in Job
    PROVE  /\ j.stage = "commit" => j.id \in Ids /\ j.rec \in Record
           /\ j.stage \in Scans => j.now \in Nat /\ j.seen \in Index
           /\ j.stage = "scan" => j.todo \in SUBSET Ids
           /\ j.stage \in Deliveries => j.recs \in SUBSET Handle
           /\ j.stage = "free" => j.id \in Ids
           /\ j.stage \in WriteBacks => j.id \in Ids /\ j.read \in Record /\ j.rec \in Record
           /\ j.stage = "purge" => j.todo \in SUBSET Ids
           /\ j.stage \in {"erase", "drop"} => j.id \in Ids /\ j.todo \in SUBSET Ids
           /\ j.stage = "redrive" => j.todo \in SUBSET Ids /\ j.filtered \in BOOLEAN
           /\ j.stage = "rearm" => /\ j.id \in Ids /\ j.rec \in Record
                                   /\ j.todo \in SUBSET Ids /\ j.filtered \in BOOLEAN
           /\ j.stage = "unbury" => /\ j.id \in Ids
                                    /\ j.todo \in SUBSET Ids /\ j.filtered \in BOOLEAN
BY DEF Job, Scans, Deliveries, WriteBacks

\* A message is leased or dead-lettered if the claim has read its record and found
\* it due, never both.
LEMMA PlanFacts ==
    ASSUME NEW seen \in Index, NEW now \in Nat
    PROVE  /\ \A i \in PlanLeases(seen, now, MaxBatch, MaxAttempts) :
                 /\ i \in Live(seen) /\ seen[i] \in Record
                 /\ seen[i].lease <= now /\ seen[i].attempts < MaxAttempts
           /\ \A i \in PlanDeadLetters(seen, now, MaxBatch, MaxAttempts) :
                 /\ i \in Live(seen) /\ seen[i] \in Record
                 /\ i \notin PlanLeases(seen, now, MaxBatch, MaxAttempts)
BY DEF PlanLeases, PlanDeadLetters, Candidates, Leasable, Due, Live, Index

\* A job that is replaced by a job of some stage.
LEMMA GotoType ==
    ASSUME TypeOK, NEW w \in Workers, NEW j \in Job, Goto(w, j)
    PROVE  job' \in [Workers -> Job]
BY DEF TypeOK, Goto

\* A record of the index has its type ...
LEMMA IndexType ==
    ASSUME NEW f \in Index, NEW i \in Ids
    PROVE  /\ f[i] # NoRec => f[i] \in Record
           /\ \A r \in Record \cup {NoRec} : [f EXCEPT ![i] = r] \in Index
BY DEF Index

\* ... and keeps it with another lease, a fresh start or one more delivery.
LEMMA RecordType ==
    ASSUME NEW r \in Record, NEW n \in Nat
    PROVE  /\ [r EXCEPT !.lease = n] \in Record
           /\ [r EXCEPT !.attempts = 0, !.lease = 0, !.expires = 0] \in Record
           /\ Leased(r, n, LeaseMs) \in Record
           /\ Leased(r, n, LeaseMs).attempts = r.attempts + 1
           /\ Leased(r, n, LeaseMs).lease = n + LeaseMs
           /\ Leased(r, n, LeaseMs).inline = r.inline
<1>1. LeaseMs \in Nat BY WorkQueueAssumption DEF WorkQueueAssumption
<1>2. [r EXCEPT !.lease = n] \in Record BY DEF Record
<1>3. [r EXCEPT !.attempts = 0, !.lease = 0, !.expires = 0] \in Record BY DEF Record
<1>4. r.attempts + 1 \in Nat /\ n + LeaseMs \in Nat BY <1>1 DEF Record
<1>5. \A a, l \in Nat : [r EXCEPT !.attempts = a, !.lease = l] \in Record BY DEF Record
<1>6. Leased(r, n, LeaseMs) \in Record BY <1>4, <1>5 DEF Leased
<1>7. /\ Leased(r, n, LeaseMs).attempts = r.attempts + 1
      /\ Leased(r, n, LeaseMs).lease = n + LeaseMs
      /\ Leased(r, n, LeaseMs).inline = r.inline
  BY DEF Leased, Record
<1> QED BY <1>2, <1>3, <1>6, <1>7

LEMMA FromType == \A now, offset \in Nat : From(now, offset) \in Nat
BY DEF From

-----------------------------------------------------------------------------
(* A step of one call, seen by the others. *)

\* What every step leaves as it is, but the commits of a publish and of a claim.
Keeps ==
    /\ committed' = committed /\ clock' = clock
    /\ minted \subseteq minted' /\ acked \subseteq acked' /\ rearmed \subseteq rearmed'
    /\ Retired \subseteq Retired' /\ Placed \subseteq Placed' /\ Excepted \subseteq Excepted'
    /\ Holders' \subseteq Holders
    /\ payload \ Retired' \subseteq payload'
    /\ Live(meta') \subseteq Live(meta) \cup Retired'
    /\ \A i \in Live(meta') \ Excepted' :
          /\ i \in Live(meta) /\ meta'[i].attempts = meta[i].attempts
          /\ \/ meta'[i].lease = meta[i].lease
             \/ \A h \in Holders' : h.id = i => h.attempts # meta[i].attempts

\* Who holds a delivery.
LEMMA HolderIff ==
    /\ \A h : h \in Holders <=>
          h \in handles \/ \E v \in Workers : job[v].stage \in Deliveries /\ h \in job[v].recs
    /\ \A h : h \in Holders' <=>
          h \in handles' \/ \E v \in Workers : job'[v].stage \in Deliveries /\ h \in job'[v].recs
BY Zenon DEF Holders, Deliveries

\* What another call knows outlives such a step.
LEMMA JobStays ==
    ASSUME IInv, TypeOK', Keeps, NEW j \in Job, JobOK(j), 
           handles' \subseteq handles \/ j.stage \notin Deliveries
    PROVE  JobOK(j)'
<1>1. LoopJob(j)' BY DEF JobOK, LoopJob
<1>2. FreshJob(j)' BY DEF JobOK, FreshJob, Keeps
<1>3. PlaceJob(j)' BY DEF JobOK, PlaceJob, Keeps
<1>4. PayloadJob(j)' BY DEF JobOK, PayloadJob, Backed, Keeps
<1>5. DeliverJob(j)' BY DEF JobOK, DeliverJob, Keeps
<1>6. ScanJob(j)'
  <2> SUFFICES ASSUME j.stage \in Scans PROVE ScanJob(j)' BY DEF ScanJob
  <2>1. j.now <= clock' BY DEF JobOK, ScanJob, Keeps
  <2>2. ASSUME NEW i \in Live(j.seen) \ Excepted'
        PROVE  /\ \A h \in Holders' : h.id = i => Covers(j.seen[i], h)'
               /\ i \in Live(meta') => meta'[i].attempts = j.seen[i].attempts
    <3>1. i \in Live(j.seen) \ Excepted BY <2>2 DEF Keeps
    <3>2. \A h \in Holders' : h.id = i => Covers(j.seen[i], h) BY <3>1 DEF JobOK, ScanJob, Keeps
    <3>3. \A h \in Holders' : h.id = i => Covers(j.seen[i], h)' BY <3>2 DEF Covers, Keeps
    <3>4. i \in Live(meta') => meta'[i].attempts = j.seen[i].attempts
      BY <2>2, <3>1 DEF JobOK, ScanJob, Keeps
    <3> QED BY <3>3, <3>4
  <2> QED BY <2>1, <2>2 DEF ScanJob
<1>7. BackJob(j)'
  BY DEF JobOK, BackJob, Keeps
<1> QED BY <1>1, <1>2, <1>3, <1>4, <1>5, <1>6, <1>7 DEF JobOK

\* So the invariant is about the job that changes, and about the index.
LEMMA JobStep ==
    ASSUME IInv, TypeOK', Keeps, NEW w \in Workers, NEW j \in Job, Goto(w, j),
           handles' \subseteq handles \/ job[w].stage \in ClaimStages,
           Live(meta') \cup Live(dead') \subseteq committed,
           MarkerCoversBacklog',
           (\A i \in Live(meta) : Backed(i, meta[i]))',
           JobOK(j)',
           \A v \in Workers \ {w} : Agree(j, job[v]) /\ Agree(job[v], j)
    PROVE  IInv'
<1>1. job \in [Workers -> Job] BY DEF IInv, TypeOK
<1>2. job'[w] = j /\ \A v \in Workers \ {w} : job'[v] = job[v] BY <1>1 DEF Goto
<1>3. QueueInv'
  <2>1. committed' \subseteq minted' /\ committed' \subseteq Placed'
    BY DEF IInv, QueueInv, Keeps
  <2>2. Live(meta') \cup Live(dead') \subseteq committed' BY DEF Keeps
  <2> QED BY <2>1, <2>2 DEF QueueInv
<1>4. HolderInv'
  <2>1. \A h \in Holders' : h.id \in committed' /\ h.attempts \in 1 .. MaxAttempts
    BY DEF IInv, HolderInv, Keeps
  <2>2. \A g, h \in Holders' : g.id = h.id /\ g.id \notin Excepted' =>
          /\ g.attempts = h.attempts => g = h
          /\ g.attempts < h.attempts => g.until <= clock'
    BY DEF IInv, HolderInv, Keeps
  <2>3. ASSUME NEW h \in Holders', h.id \in Live(meta') \ Excepted'
        PROVE  Covers(meta[h.id], h)'
    <3>1. h \in Holders /\ h.id \in Live(meta) \ Excepted BY <2>3 DEF Keeps
    <3>2. Covers(meta[h.id], h) BY <3>1 DEF IInv, HolderInv
    <3> QED BY <2>3, <3>1, <3>2 DEF Covers, Keeps
  <2> QED BY <2>1, <2>2, <2>3 DEF HolderInv
<1>5. ASSUME NEW v \in Workers PROVE JobOK(job[v])'
  <2>1. CASE v = w BY <1>2, <2>1 DEF JobOK, LoopJob, FreshJob, PlaceJob, PayloadJob, DeliverJob,
                                     ScanJob, BackJob
  <2>2. CASE v # w
    <3>1. PICK i : i = job[v] OBVIOUS
    <3>2. i \in Job /\ JobOK(i) BY <1>1, <3>1 DEF IInv
    <3>3. job[w].stage \in ClaimStages => i.stage \notin Deliveries
      BY <2>2, <3>1 DEF IInv, Agree, ClaimStages, Deliveries
    <3>4. JobOK(i)' BY <3>2, <3>3, JobStays
    <3>5. job'[v] = i BY <1>2, <2>2, <3>1
    <3> QED BY <3>4, <3>5 DEF JobOK, LoopJob, FreshJob, PlaceJob, PayloadJob, DeliverJob,
                              ScanJob, BackJob
  <2> QED BY <2>1, <2>2
<1>6. \A u, v : Agree(u, v) => Agree(u, v)' BY DEF Agree, Keeps
<1>7. ASSUME NEW u \in Workers, NEW v \in Workers, u # v PROVE Agree(job[u], job[v])'
  <2>1. PICK a, b : a = job'[u] /\ b = job'[v] OBVIOUS
  <2>2. Agree(a, b) BY <1>2, <1>7, <2>1 DEF IInv
  <2>3. Agree(a, b)' BY <1>6, <2>2
  <2> QED BY <2>1, <2>3 DEF Agree
<1> QED BY <1>3, <1>4, <1>5, <1>7 DEF IInv

\* Most stages claim nothing.
LEMMA QuietJob ==
    ASSUME NEW j, j.stage \in {"idle", "claim", "check", "mark"}
    PROVE  JobOK(j)' /\ \A k : Agree(j, k) /\ Agree(k, j)
BY DEF JobOK, LoopJob, FreshJob, PlaceJob, PayloadJob, DeliverJob, ScanJob, BackJob, Agree,
       WriteBacks, Scans, Deliveries, ClaimStages

\* A step that leaves the index and the dead letters as they are.
LEMMA StillStep ==
    ASSUME IInv, TypeOK', NEW w \in Workers, NEW j \in Job, Goto(w, j),
           UNCHANGED <<meta, dead, clock, committed, acked, purged, rearmed>>,
           ready => ready', payload \subseteq payload', minted \subseteq minted',
           clobbered \subseteq clobbered',
           handles' \subseteq handles,
           j.stage \in Deliveries => job[w].stage \in Deliveries /\ j.recs = job[w].recs,
           JobOK(j)',
           \A v \in Workers \ {w} : Agree(j, job[v]) /\ Agree(job[v], j)
    PROVE  IInv'
<1>1. job \in [Workers -> Job] BY DEF IInv, TypeOK
<1>2. job'[w] = j /\ \A v \in Workers \ {w} : job'[v] = job[v] BY <1>1 DEF Goto
<1>3. Holders' \subseteq Holders BY <1>2, HolderIff
<1>4. Retired' = Retired /\ Placed' = Placed BY DEF Retired, Placed
<1>5. Keeps BY <1>3, <1>4 DEF Keeps, Placed, Excepted
<1>6. Live(meta') \cup Live(dead') \subseteq committed BY DEF IInv, QueueInv
<1>7. MarkerCoversBacklog' BY <1>4 DEF IInv, QueueInv, MarkerCoversBacklog
<1>8. (\A i \in Live(meta) : Backed(i, meta[i]))' BY <1>4 DEF IInv, QueueInv, Backed
<1> QED BY <1>5, <1>6, <1>7, <1>8, JobStep

\* The same with a job that claims nothing.
LEMMA QuietStep ==
    ASSUME IInv, TypeOK', NEW w \in Workers, NEW j \in Job, Goto(w, j),
           UNCHANGED <<meta, dead, payload, clock, minted, committed, acked, purged, rearmed,
                       clobbered>>,
           ready => ready', handles' \subseteq handles,
           j.stage \in {"idle", "claim", "check", "mark"}
    PROVE  IInv'
<1>1. j.stage \notin Deliveries BY DEF Deliveries
<1>2. JobOK(j)' /\ \A k : Agree(j, k) /\ Agree(k, j) BY QuietJob
<1> QED BY <1>1, <1>2, StillStep

-----------------------------------------------------------------------------
(* publish and claim *)

LEMMA PublishStep ==
    ASSUME IInv, NEW w \in Workers, NEW i \in Ids, NEW m \in Modes, Publish(w, i, m)
    PROVE  IInv'
<1>1. m \in [delay : Nat, ttl : Nat, prio : Nat, inline : BOOLEAN]
  BY WorkQueueAssumption DEF WorkQueueAssumption
<1>2. PICK j : j = [stage |-> "commit", id |-> i,
                    rec |-> [attempts |-> 0, lease |-> From(clock, m.delay),
                             expires |-> From(clock, m.ttl), prio |-> m.prio,
                             inline |-> m.inline]]
  OBVIOUS
<1>3. From(clock, m.delay) \in Nat /\ From(clock, m.ttl) \in Nat
  BY <1>1, FromType DEF IInv, TypeOK
<1>4. j \in Job BY <1>1, <1>2, <1>3 DEF Job, Record
<1>5. Goto(w, j) BY <1>2 DEF Publish
<1>6. job' \in [Workers -> Job] BY <1>4, <1>5, GotoType DEF IInv
<1>7. TypeOK' BY <1>6 DEF IInv, Publish, TypeOK
<1>8. JobOK(j)'
  <2>1. i \notin minted /\ i \in minted' BY DEF Publish
  <2>2. i \in (minted \ committed)' BY <2>1 DEF Publish, IInv, QueueInv
  <2>3. m.inline \/ i \in payload' BY DEF Publish
  <2> QED BY <1>2, <2>2, <2>3
          DEF JobOK, LoopJob, FreshJob, PlaceJob, PayloadJob, DeliverJob, ScanJob, BackJob, Backed,
              WriteBacks, Scans, Deliveries
<1>9. \A v \in Workers \ {w} : Agree(j, job[v]) /\ Agree(job[v], j)
  <2>1. \A v \in Workers : job[v].stage = "commit" => job[v].id \in minted
    BY DEF IInv, JobOK, FreshJob
  <2>2. \A v \in Workers : job[v].stage = "commit" => job[v].id # i BY <2>1 DEF Publish
  <2> QED BY <1>2, <2>2 DEF Agree, ClaimStages, WriteBacks, Scans
<1>10. /\ UNCHANGED <<meta, dead, clock, committed, acked, purged, rearmed, ready, clobbered, handles>>
       /\ payload \subseteq payload' /\ minted \subseteq minted'
  BY DEF Publish
<1>11. j.stage \notin Deliveries BY <1>2 DEF Deliveries
<1> QED BY <1>4, <1>5, <1>7, <1>8, <1>9, <1>10, <1>11, StillStep

LEMMA ClaimStep ==
    ASSUME IInv, NEW w \in Workers, Claim(w)
    PROVE  IInv'
<1>1. PICK j : j = [stage |-> "claim"] OBVIOUS
<1>2. j \in Job BY <1>1 DEF Job
<1>3. Goto(w, j) BY <1>1 DEF Claim
<1>4. job' \in [Workers -> Job] BY <1>2, <1>3, GotoType DEF IInv
<1>5. TypeOK' BY <1>4 DEF IInv, Claim, TypeOK, store, history
<1> QED BY <1>1, <1>2, <1>3, <1>5, QuietStep DEF Claim, store, history

\* The holder of claim_lock may go on to any stage of a claim.
LEMMA LockKept ==
    ASSUME IInv, NEW w \in Workers, job[w].stage \in ClaimStages
    PROVE  \A v \in Workers \ {w} : job[v].stage \notin ClaimStages
BY DEF IInv, Agree

LEMMA ClaimListStep ==
    ASSUME IInv, NEW w \in Workers, ClaimList(w)
    PROVE  IInv'
<1>1. PICK j : j = [stage |-> "scan", now |-> clock, todo |-> Live(meta), seen |-> NoIndex]
  OBVIOUS
<1>2. j \in Job BY <1>1 DEF Job, NoIndex, Index, Live, IInv, TypeOK
<1>3. Goto(w, j) BY <1>1 DEF ClaimList
<1>4. job' \in [Workers -> Job] BY <1>2, <1>3, GotoType DEF IInv
<1>5. TypeOK' BY <1>4 DEF IInv, ClaimList, TypeOK, store, history
<1>6. Live(j.seen) = {} BY <1>1 DEF Live, NoIndex
<1>7. clock \in Nat /\ clock' = clock BY DEF IInv, TypeOK, ClaimList
<1>8. JobOK(j)'
  BY <1>1, <1>6, <1>7
  DEF JobOK, LoopJob, FreshJob, PlaceJob, PayloadJob, DeliverJob, ScanJob, BackJob,
      WriteBacks, Scans, Deliveries
<1>9. \A v \in Workers \ {w} : Agree(j, job[v]) /\ Agree(job[v], j)
  <2>1. \A v \in Workers : job[v].stage \notin ClaimStages BY DEF ClaimList, ClaimLocked
  <2> QED BY <1>1, <1>6, <2>1 DEF Agree, WriteBacks, Scans
<1>10. j.stage \notin Deliveries BY <1>1 DEF Deliveries
<1> QED BY <1>2, <1>3, <1>5, <1>8, <1>9, <1>10, StillStep DEF ClaimList, store, history

LEMMA ClaimReadStep ==
    ASSUME IInv, NEW w \in Workers, ClaimRead(w)
    PROVE  IInv'
<1>1. PICK o : o = job[w] OBVIOUS
<1>2. PICK i : i = First(o.todo) OBVIOUS
<1>3. o \in Job /\ JobOK(o) /\ o.stage = "scan" /\ o.todo # {}
  BY <1>1 DEF ClaimRead, IInv, TypeOK
<1>4. o.todo \in SUBSET Ids /\ o.seen \in Index /\ o.now \in Nat BY <1>3, JobFields DEF Scans
<1>5. i \in Ids BY <1>2, <1>3, <1>4, FirstIn
<1>6. meta[i] \in Record \cup {NoRec} BY <1>5 DEF IInv, TypeOK, Index
<1>7. PICK s : s = [o.seen EXCEPT ![i] = meta[i]] OBVIOUS
<1>8. s \in Index BY <1>4, <1>5, <1>6, <1>7, IndexType
<1>9. PICK j : j = [o EXCEPT !.todo = o.todo \ {i}, !.seen = s] OBVIOUS
<1>10. j = [stage |-> "scan", now |-> o.now, todo |-> o.todo \ {i}, seen |-> s]
  BY <1>3, <1>9 DEF Job
<1>11. j \in Job BY <1>4, <1>8, <1>10 DEF Job
<1>12. Goto(w, j) BY <1>1, <1>2, <1>7, <1>9 DEF ClaimRead
<1>13. job' \in [Workers -> Job] BY <1>11, <1>12, GotoType DEF IInv
<1>14. TypeOK' BY <1>13 DEF IInv, ClaimRead, TypeOK, store, history
<1>15. ASSUME NEW n \in Live(s)
       PROVE  (n \in Live(o.seen) /\ s[n] = o.seen[n]) \/ (n \in Live(meta) /\ s[n] = meta[n])
  BY <1>4, <1>5, <1>7, <1>15 DEF Live, Index
<1>16. UNCHANGED <<store, handles, clock, history>> /\ Holders' \subseteq Holders
  <2>1. UNCHANGED <<store, handles, clock, history>> BY DEF ClaimRead
  <2>2. job'[w] = j /\ \A v \in Workers \ {w} : job'[v] = job[v]
    BY <1>12 DEF Goto, IInv, TypeOK
  <2>3. Holders' \subseteq Holders BY <1>10, <2>1, <2>2, HolderIff DEF Deliveries
  <2> QED BY <2>1, <2>3
<1>17. JobOK(j)'
  <2>1. FreshJob(j)'
    BY <1>3, <1>10, <1>15, <1>16 DEF IInv, QueueInv, JobOK, FreshJob, Scans, WriteBacks, history
  <2>2. PlaceJob(j)'
    <3>1. Live(o.seen) \subseteq Placed BY <1>3 DEF JobOK, PlaceJob, Scans
    <3>2. Live(s) \subseteq Placed BY <1>15, <3>1 DEF Placed
    <3>3. Placed' = Placed BY <1>16 DEF Placed, Retired, store, history
    <3> QED BY <1>10, <3>2, <3>3 DEF PlaceJob, Scans, WriteBacks
  <2>3. PayloadJob(j)'
    <3>1. \A n \in Live(o.seen) : Backed(n, o.seen[n]) BY <1>3 DEF JobOK, PayloadJob, Scans
    <3>2. \A n \in Live(meta) : Backed(n, meta[n]) BY DEF IInv, QueueInv
    <3>3. \A n \in Live(s) : Backed(n, s[n]) BY <1>15, <3>1, <3>2
    <3>4. \A n \in Live(s) : Backed(n, s[n])' BY <1>16, <3>3 DEF Backed, Retired, store, history
    <3> QED BY <1>10, <3>4 DEF PayloadJob, Scans, WriteBacks
  <2>4. ScanJob(j)'
    <3>1. o.now <= clock BY <1>3 DEF JobOK, ScanJob, Scans
    <3>2. ASSUME NEW n \in Live(s) \ Excepted
          PROVE  /\ \A h \in Holders : h.id = n => Covers(s[n], h)
                 /\ n \in Live(meta) => meta[n].attempts = s[n].attempts
      <4>1. CASE n \in Live(o.seen) /\ s[n] = o.seen[n]
        BY <1>3, <3>2, <4>1 DEF JobOK, ScanJob, Scans
      <4>2. CASE n \in Live(meta) /\ s[n] = meta[n]
        <5>1. meta[n] \in Record BY <4>2 DEF Live, IInv, TypeOK, Index
        <5>2. meta[n].attempts \in Nat BY <5>1 DEF Record
        <5> QED BY <3>2, <4>2, <5>2 DEF IInv, HolderInv
      <4> QED BY <1>15, <3>2, <4>1, <4>2
    <3>3. Excepted' = Excepted /\ meta' = meta /\ clock' = clock
      BY <1>16 DEF Excepted, store, history
    <3>4. ASSUME NEW n \in Live(s) \ Excepted'
          PROVE  /\ \A h \in Holders' : h.id = n => Covers(s[n], h)'
                 /\ n \in Live(meta') => meta'[n].attempts = s[n].attempts
      BY <1>16, <3>2, <3>3 DEF Covers
    <3> QED BY <1>10, <3>1, <3>3, <3>4 DEF ScanJob
  <2> QED BY <1>10, <2>1, <2>2, <2>3, <2>4
          DEF JobOK, LoopJob, DeliverJob, BackJob, WriteBacks, Deliveries
<1>18. \A v \in Workers \ {w} : Agree(j, job[v]) /\ Agree(job[v], j)
  <2> TAKE v \in Workers \ {w}
  <2>1. job[v].stage \notin ClaimStages BY <1>1, <1>3, LockKept DEF ClaimStages
  <2>2. Agree(j, job[v]) BY <1>10, <2>1 DEF Agree, ClaimStages, WriteBacks
  <2>3. ASSUME job[v].stage \in WriteBacks, job[v].id \in Live(s) \ Excepted
        PROVE  job[v].read.attempts <= s[job[v].id].attempts
    <3>1. PICK n : n = job[v].id OBVIOUS
    <3>2. CASE n \in Live(o.seen) /\ s[n] = o.seen[n]
      BY <1>1, <1>3, <2>3, <3>1, <3>2 DEF IInv, Agree, Scans
    <3>3. CASE n \in Live(meta) /\ s[n] = meta[n]
      BY <2>3, <3>1, <3>3 DEF IInv, JobOK, BackJob
    <3> QED BY <1>15, <2>3, <3>1, <3>2, <3>3
  <2>4. Agree(job[v], j) BY <1>10, <2>1, <2>3 DEF Agree
  <2> QED BY <2>2, <2>4
<1>19. j.stage \notin Deliveries BY <1>10 DEF Deliveries
<1> QED BY <1>11, <1>12, <1>14, <1>16, <1>17, <1>18, <1>19, StillStep DEF store, history

LEMMA ClaimPlannedStep ==
    ASSUME IInv, NEW w \in Workers, ClaimPlanned(w)
    PROVE  IInv'
<1>1. PICK o : o = job[w] OBVIOUS
<1>2. o \in Job /\ JobOK(o) /\ o.stage = "scan" BY <1>1 DEF ClaimPlanned, IInv, TypeOK
<1>3. o.seen \in Index /\ o.now \in Nat BY <1>2, JobFields DEF Scans
<1>4. PICK j : j = [stage |-> "lease", now |-> o.now, seen |-> o.seen] OBVIOUS
<1>5. j \in Job /\ IdleJob \in Job BY <1>3, <1>4 DEF Job, IdleJob
<1>6. Goto(w, j) \/ Goto(w, IdleJob) BY <1>1, <1>4 DEF ClaimPlanned, Goto
<1>7. job' \in [Workers -> Job] BY <1>5, <1>6, GotoType DEF IInv
<1>8. TypeOK' BY <1>7 DEF IInv, ClaimPlanned, TypeOK, store, history
<1>9. UNCHANGED <<store, handles, clock, history>> BY DEF ClaimPlanned
<1>10. CASE Goto(w, IdleJob) BY <1>5, <1>8, <1>9, <1>10, QuietStep DEF IdleJob, store, history
<1>11. CASE Goto(w, j)
  <2>1. job'[w] = j /\ \A v \in Workers \ {w} : job'[v] = job[v]
    BY <1>11 DEF Goto, IInv, TypeOK
  <2>2. Holders' \subseteq Holders BY <1>4, <1>9, <2>1, HolderIff DEF Deliveries
  <2>3. FreshJob(j)'
    BY <1>2, <1>4, <1>9 DEF JobOK, FreshJob, Scans, WriteBacks, history
  <2>4. PlaceJob(j)'
    BY <1>2, <1>4, <1>9 DEF JobOK, PlaceJob, Placed, Retired, Scans, WriteBacks, store, history
  <2>5. PayloadJob(j)'
    BY <1>2, <1>4, <1>9 DEF JobOK, PayloadJob, Backed, Retired, Scans, WriteBacks, store, history
  <2>6. ScanJob(j)'
    BY <1>2, <1>4, <1>9, <2>2 DEF JobOK, ScanJob, Covers, Excepted, Scans, store, history
  <2>7. JobOK(j)'
    BY <1>4, <2>3, <2>4, <2>5, <2>6
    DEF JobOK, LoopJob, DeliverJob, BackJob, WriteBacks, Deliveries
  <2>8. \A v \in Workers \ {w} : Agree(j, job[v]) /\ Agree(job[v], j)
    BY <1>1, <1>2, <1>4 DEF IInv, Agree, ClaimStages, WriteBacks, Scans
  <2>9. j.stage \notin Deliveries BY <1>4 DEF Deliveries
  <2> QED BY <1>5, <1>8, <1>9, <1>11, <2>7, <2>8, <2>9, StillStep DEF store, history
<1> QED BY <1>6, <1>10, <1>11

LEMMA ClaimRelistStep ==
    ASSUME IInv, NEW w \in Workers, ClaimRelist(w)
    PROVE  IInv'
<1>1. PICK o : o = job[w] OBVIOUS
<1>2. o \in Job /\ JobOK(o) /\ o.stage = "relist" BY <1>1 DEF ClaimRelist, IInv, TypeOK
<1>3. o.recs \in SUBSET Handle BY <1>2, JobFields DEF Deliveries
<1>4. PICK st : st = IF Live(meta) = {} THEN "prune" ELSE "return" OBVIOUS
<1>5. PICK j : j = [o EXCEPT !.stage = st] OBVIOUS
<1>6. j = [stage |-> st, recs |-> o.recs] BY <1>2, <1>5 DEF Job
<1>7. j \in Job BY <1>3, <1>4, <1>6 DEF Job
<1>8. Goto(w, j) BY <1>1, <1>4, <1>5 DEF ClaimRelist
<1>9. job' \in [Workers -> Job] BY <1>7, <1>8, GotoType DEF IInv
<1>10. TypeOK' BY <1>9 DEF IInv, ClaimRelist, TypeOK, store, history
<1>11. UNCHANGED <<store, handles, clock, history>> BY DEF ClaimRelist
<1>12. JobOK(j)'
  <2>1. DeliverJob(j)'
    BY <1>2, <1>6, <1>11 DEF JobOK, DeliverJob, Excepted, Deliveries, history
  <2>2. PlaceJob(j)'
    BY <1>4, <1>6, <1>11 DEF PlaceJob, WriteBacks, Scans, store
  <2> QED BY <1>4, <1>6, <2>1, <2>2
          DEF JobOK, LoopJob, FreshJob, PayloadJob, ScanJob, BackJob, WriteBacks, Scans
<1>13. \A v \in Workers \ {w} : Agree(j, job[v]) /\ Agree(job[v], j)
  <2>1. \A v \in Workers \ {w} : job[v].stage \notin ClaimStages
    BY <1>1, <1>2, LockKept DEF ClaimStages
  <2> QED BY <1>4, <1>6, <2>1 DEF Agree, ClaimStages, WriteBacks, Scans
<1>14. job[w].stage \in Deliveries /\ j.recs = job[w].recs BY <1>1, <1>2, <1>6 DEF Deliveries
<1> QED BY <1>7, <1>8, <1>10, <1>11, <1>12, <1>13, <1>14, StillStep DEF store, history

\* The marker goes while every record left is of a message that was retired.
LEMMA ClaimPruneStep ==
    ASSUME IInv, NEW w \in Workers, ClaimPrune(w)
    PROVE  IInv'
<1>1. PICK o : o = job[w] OBVIOUS
<1>2. o \in Job /\ JobOK(o) /\ o.stage = "prune" BY <1>1 DEF ClaimPrune, IInv, TypeOK
<1>3. o.recs \in SUBSET Handle BY <1>2, JobFields DEF Deliveries
<1>4. PICK j : j = [o EXCEPT !.stage = "return"] OBVIOUS
<1>5. j = [stage |-> "return", recs |-> o.recs] BY <1>2, <1>4 DEF Job
<1>6. j \in Job BY <1>3, <1>5 DEF Job
<1>7. Goto(w, j) BY <1>1, <1>4 DEF ClaimPrune
<1>8. job' \in [Workers -> Job] BY <1>6, <1>7, GotoType DEF IInv
<1>9. TypeOK' BY <1>8 DEF IInv, ClaimPrune, TypeOK, store, history
<1>10. UNCHANGED <<meta, dead, payload, handles, clock, history>> BY DEF ClaimPrune
<1>11. JobOK(j)'
  <2>1. DeliverJob(j)'
    BY <1>2, <1>5, <1>10 DEF JobOK, DeliverJob, Excepted, Deliveries, history
  <2> QED BY <1>5, <2>1
          DEF JobOK, LoopJob, FreshJob, PlaceJob, PayloadJob, ScanJob, BackJob, WriteBacks, Scans
<1>12. \A v \in Workers \ {w} : Agree(j, job[v]) /\ Agree(job[v], j)
  <2>1. \A v \in Workers \ {w} : job[v].stage \notin ClaimStages
    BY <1>1, <1>2, LockKept DEF ClaimStages
  <2> QED BY <1>5, <2>1 DEF Agree, ClaimStages, WriteBacks, Scans
<1>13. Holders' \subseteq Holders
  <2>1. job'[w] = j /\ \A v \in Workers \ {w} : job'[v] = job[v]
    BY <1>7 DEF Goto, IInv, TypeOK
  <2> QED BY <1>1, <1>2, <1>5, <1>10, <2>1, HolderIff DEF Deliveries
<1>14. Retired' = Retired BY <1>10 DEF Retired, history
<1>15. Keeps BY <1>10, <1>13, <1>14 DEF Keeps, Placed, Excepted, history
<1>16. Live(meta') \cup Live(dead') \subseteq committed BY <1>10 DEF IInv, QueueInv
<1>17. MarkerCoversBacklog'
  <2>1. Live(meta) \subseteq Retired BY <1>2 DEF JobOK, PlaceJob
  <2> QED BY <1>10, <1>14, <2>1 DEF MarkerCoversBacklog
<1>18. (\A i \in Live(meta) : Backed(i, meta[i]))' BY <1>10, <1>14 DEF IInv, QueueInv, Backed
<1>19. handles' \subseteq handles BY <1>10
<1> QED BY <1>6, <1>7, <1>9, <1>11, <1>12, <1>15, <1>16, <1>17, <1>18, <1>19, JobStep

LEMMA ClaimReturnStep ==
    ASSUME IInv, NEW w \in Workers, ClaimReturn(w)
    PROVE  IInv'
<1>1. PICK o : o = job[w] OBVIOUS
<1>2. o \in Job /\ JobOK(o) /\ o.stage = "return" BY <1>1 DEF ClaimReturn, IInv, TypeOK
<1>3. o.recs \in SUBSET Handle BY <1>2, JobFields DEF Deliveries
<1>4. PICK j : j = IdleJob OBVIOUS
<1>5. j \in Job /\ j.stage = "idle" BY <1>4 DEF Job, IdleJob
<1>6. Goto(w, j) BY <1>4 DEF ClaimReturn
<1>7. job' \in [Workers -> Job] BY <1>5, <1>6, GotoType DEF IInv
<1>8. handles' = handles \cup o.recs BY <1>1 DEF ClaimReturn
<1>9. TypeOK' BY <1>3, <1>7, <1>8 DEF IInv, ClaimReturn, TypeOK, store, history
<1>10. UNCHANGED <<store, clock, history>> BY DEF ClaimReturn
<1>11. JobOK(j)' /\ \A k : Agree(j, k) /\ Agree(k, j) BY <1>5, QuietJob
<1>12. Holders' \subseteq Holders
  <2>1. job'[w] = j /\ \A v \in Workers \ {w} : job'[v] = job[v]
    BY <1>6 DEF Goto, IInv, TypeOK
  <2> QED BY <1>1, <1>2, <1>5, <1>8, <2>1, HolderIff DEF Deliveries
<1>13. Retired' = Retired BY <1>10 DEF Retired, history, store
<1>14. Keeps BY <1>10, <1>12, <1>13 DEF Keeps, Placed, Excepted, history, store
<1>15. Live(meta') \cup Live(dead') \subseteq committed BY <1>10 DEF IInv, QueueInv, store
<1>16. MarkerCoversBacklog'
  BY <1>10, <1>13 DEF MarkerCoversBacklog, IInv, QueueInv, store
<1>17. (\A i \in Live(meta) : Backed(i, meta[i]))'
  BY <1>10, <1>13 DEF IInv, QueueInv, Backed, store
<1>18. job[w].stage \in ClaimStages BY <1>1, <1>2 DEF ClaimStages
<1> QED BY <1>5, <1>6, <1>9, <1>11, <1>14, <1>15, <1>16, <1>17, <1>18, JobStep

-----------------------------------------------------------------------------
(* ack, nack_after, set_last_error, dead_letter *)

\* A call that will write back the record it has just read.
LEMMA ReadBackStep ==
    ASSUME IInv, TypeOK', NEW w \in Workers, NEW h \in handles, NEW stage \in WriteBacks,
           NEW rec \in Record, NEW j, meta[h.id] # NoRec,
           j = [stage |-> stage, id |-> h.id, read |-> meta[h.id], rec |-> rec],
           rec.attempts = meta[h.id].attempts, rec.inline = meta[h.id].inline,
           stage = "note" => rec = meta[h.id],
           stage = "nack" => /\ h \notin handles'
                             /\ h.id \notin Excepted' => meta[h.id].attempts = h.attempts,
           Goto(w, j), UNCHANGED <<store, clock, minted, committed, acked, purged, rearmed>>,
           clobbered \subseteq clobbered', handles' \subseteq handles
    PROVE  IInv'
<1>1. h \in Handle /\ h.id \in Ids BY DEF IInv, TypeOK, Handle
<1>2. meta[h.id] \in Record /\ h.id \in Live(meta) BY <1>1, IndexType DEF IInv, TypeOK, Live
<1>3. j \in Job BY <1>1, <1>2 DEF Job, WriteBacks
<1>4. j.stage = stage /\ j.id = h.id /\ j.read = meta[h.id] /\ j.rec = rec OBVIOUS
<1>5. j.stage \notin Deliveries BY <1>4 DEF Deliveries, WriteBacks
<1>6. job'[w] = j /\ \A v \in Workers \ {w} : job'[v] = job[v] BY DEF Goto, IInv, TypeOK
<1>7. Holders' \subseteq Holders BY <1>5, <1>6, HolderIff
<1>8. Excepted \subseteq Excepted' BY DEF Excepted
<1>9. FreshJob(j)'
  BY <1>2, <1>4 DEF FreshJob, IInv, QueueInv, WriteBacks, Scans
<1>10. PlaceJob(j)'
  BY <1>2, <1>4 DEF PlaceJob, Placed, WriteBacks, Scans, store
<1>11. PayloadJob(j)'
  <2>1. Backed(h.id, meta[h.id]) BY <1>2 DEF IInv, QueueInv
  <2>2. Backed(h.id, rec) BY <2>1 DEF Backed
  <2>3. PICK i : i = h.id OBVIOUS
  <2>4. Backed(i, rec)' BY <2>2, <2>3 DEF Backed, Retired, store
  <2> QED BY <1>4, <2>3, <2>4 DEF PayloadJob, WriteBacks, Scans
<1>12. BackJob(j)'
  <2> SUFFICES ASSUME h.id \notin Excepted' PROVE BackJob(j)' BY <1>4 DEF BackJob
  <2>1. meta[h.id].attempts \in Nat BY <1>2 DEF Record
  <2>2. ASSUME stage = "nack", NEW g \in Holders', g.id = h.id
        PROVE  g.attempts # meta[h.id].attempts
    <3>1. g \in Holders BY <1>7
    <3>2. h \in Holders /\ h.attempts = meta[h.id].attempts BY <2>2, HolderIff
    <3>3. SUFFICES ASSUME g.attempts = h.attempts PROVE FALSE BY <3>2
    <3>4. g = h BY <1>8, <2>2, <3>1, <3>2, <3>3 DEF IInv, HolderInv
    <3>5. PICK v \in Workers : job'[v].stage \in Deliveries /\ h \in job'[v].recs
      BY <2>2, <3>4, HolderIff
    <3>6. job[v].stage \in Deliveries /\ h \in job[v].recs BY <1>5, <1>6, <3>5
    <3>7. h.id \in Excepted BY <3>6 DEF IInv, JobOK, DeliverJob
    <3> QED BY <1>8, <3>7
  <2>3. meta' = meta BY DEF store
  <2> QED BY <1>4, <2>1, <2>2, <2>3 DEF BackJob
<1>13. JobOK(j)'
  BY <1>4, <1>9, <1>10, <1>11, <1>12
  DEF JobOK, LoopJob, DeliverJob, ScanJob, WriteBacks, Scans, Deliveries
<1>14. \A v \in Workers \ {w} : Agree(j, job[v]) /\ Agree(job[v], j)
  <2> TAKE v \in Workers \ {w}
  <2>1. Agree(job[v], j) BY <1>4 DEF Agree, ClaimStages, WriteBacks, Scans
  <2>2. ASSUME job[v].stage \in Scans, h.id \in Live(job[v].seen) \ Excepted
        PROVE  meta[h.id].attempts <= job[v].seen[h.id].attempts
    <3>1. meta[h.id].attempts = job[v].seen[h.id].attempts
      BY <1>2, <2>2 DEF IInv, JobOK, ScanJob
    <3>2. meta[h.id] \in Record BY <1>2 DEF Live, IInv, TypeOK, Index
    <3>3. meta[h.id].attempts \in Nat BY <3>2 DEF Record
    <3> QED BY <3>1, <3>3
  <2>3. Agree(j, job[v]) BY <1>4, <2>2 DEF Agree, ClaimStages, WriteBacks, Scans
  <2> QED BY <2>1, <2>3
<1> QED BY <1>3, <1>5, <1>13, <1>14, StillStep DEF store

LEMMA NackStep ==
    ASSUME IInv, NEW w \in Workers, NEW h \in handles, NEW d \in NackDelays, Nack(w, h, d)
    PROVE  IInv'
<1>1. d \in Nat BY WorkQueueAssumption DEF WorkQueueAssumption
<1>2. h \in Handle /\ h.id \in Ids BY DEF IInv, TypeOK, Handle
<1>3. PICK r : r = meta[h.id] OBVIOUS
<1>4. PICK n : n = From(clock, d) OBVIOUS
<1>5. n \in Nat BY <1>1, <1>4, FromType DEF IInv, TypeOK
<1>6. r # NoRec => r \in Record BY <1>2, <1>3, IndexType DEF IInv, TypeOK
<1>7. /\ UNCHANGED <<store, clock, calls, crashes, minted, committed, acked, purged, rearmed>>
      /\ handles' = handles \ {h}
      /\ clobbered' = IF r # NoRec /\ r.attempts # h.attempts
                      THEN clobbered \cup {h.id} ELSE clobbered
  BY <1>3 DEF Nack
<1>8. ASSUME job' \in [Workers -> Job] PROVE TypeOK'
  BY <1>2, <1>7, <1>8 DEF IInv, TypeOK, store
<1>9. CASE r = NoRec
  <2>1. Goto(w, IdleJob) BY <1>3, <1>9 DEF Nack, ReadBack
  <2>2. IdleJob \in Job /\ IdleJob.stage = "idle" BY DEF IdleJob, Job
  <2>3. TypeOK' BY <1>8, <2>1, <2>2, GotoType DEF IInv
  <2> QED BY <1>7, <1>9, <2>1, <2>2, <2>3, QuietStep DEF store
<1>10. CASE r # NoRec
  <2>1. PICK rec : rec = [r EXCEPT !.lease = n] OBVIOUS
  <2>2. r \in Record BY <1>6, <1>10
  <2>3. rec \in Record BY <1>5, <2>1, <2>2, RecordType
  <2>4. rec.attempts = r.attempts /\ rec.inline = r.inline BY <2>1, <2>2 DEF Record
  <2>5. PICK j : j = [stage |-> "nack", id |-> h.id, read |-> r, rec |-> rec] OBVIOUS
  <2>6. Goto(w, j) BY <1>3, <1>4, <1>10, <2>1, <2>5 DEF Nack, ReadBack
  <2>7. j \in Job BY <1>2, <2>2, <2>3, <2>5 DEF Job
  <2>8. TypeOK' BY <1>8, <2>6, <2>7, GotoType DEF IInv
  <2>9. h.id \notin Excepted' => r.attempts = h.attempts BY <1>7, <1>10 DEF Excepted
  <2>10. "nack" \in WriteBacks BY DEF WriteBacks
  <2>11. h \notin handles' /\ handles' \subseteq handles /\ clobbered \subseteq clobbered' BY <1>7
  <2> QED BY <1>3, <1>7, <1>10, <2>3, <2>4, <2>5, <2>6, <2>8, <2>9, <2>10, <2>11, ReadBackStep
<1> QED BY <1>9, <1>10

LEMMA SetLastErrorStep ==
    ASSUME IInv, NEW w \in Workers, NEW h \in handles, SetLastError(w, h)
    PROVE  IInv'
<1>1. h \in Handle /\ h.id \in Ids BY DEF IInv, TypeOK, Handle
<1>2. PICK r : r = meta[h.id] OBVIOUS
<1>3. r # NoRec => r \in Record BY <1>1, <1>2, IndexType DEF IInv, TypeOK
<1>4. UNCHANGED <<store, handles, clock, calls, crashes, history>> BY DEF SetLastError
<1>5. ASSUME job' \in [Workers -> Job] PROVE TypeOK'
  BY <1>4, <1>5 DEF IInv, TypeOK, store, history
<1>6. CASE r = NoRec
  <2>1. Goto(w, IdleJob) BY <1>2, <1>6 DEF SetLastError, ReadBack
  <2>2. IdleJob \in Job /\ IdleJob.stage = "idle" BY DEF IdleJob, Job
  <2>3. TypeOK' BY <1>5, <2>1, <2>2, GotoType DEF IInv
  <2> QED BY <1>4, <2>1, <2>2, <2>3, QuietStep DEF store, history
<1>7. CASE r # NoRec
  <2>1. PICK j : j = [stage |-> "note", id |-> h.id, read |-> r, rec |-> r] OBVIOUS
  <2>2. Goto(w, j) BY <1>2, <1>7, <2>1 DEF SetLastError, ReadBack
  <2>3. r \in Record BY <1>3, <1>7
  <2>4. j \in Job BY <1>1, <2>1, <2>3 DEF Job
  <2>5. TypeOK' BY <1>5, <2>2, <2>4, GotoType DEF IInv
  <2>6. "note" \in WriteBacks BY DEF WriteBacks
  <2>7. UNCHANGED <<store, clock, minted, committed, acked, purged, rearmed, clobbered, handles>>
    BY <1>4 DEF history
  <2> QED BY <1>2, <1>7, <2>1, <2>2, <2>3, <2>5, <2>6, <2>7, ReadBackStep
<1> QED BY <1>6, <1>7

LEMMA DeadLetterStep ==
    ASSUME IInv, NEW w \in Workers, NEW h \in handles, DeadLetter(w, h)
    PROVE  IInv'
<1>1. h \in Handle /\ h.id \in Ids BY DEF IInv, TypeOK, Handle
<1>2. PICK r : r = meta[h.id] OBVIOUS
<1>3. r # NoRec => r \in Record BY <1>1, <1>2, IndexType DEF IInv, TypeOK
<1>4. UNCHANGED <<store, clock, calls, crashes, history>> /\ handles' = handles \ {h}
  BY DEF DeadLetter
<1>5. ASSUME job' \in [Workers -> Job] PROVE TypeOK'
  BY <1>4, <1>5 DEF IInv, TypeOK, store, history
<1>6. CASE r = NoRec
  <2>1. Goto(w, IdleJob) BY <1>2, <1>6 DEF DeadLetter, ReadBack
  <2>2. IdleJob \in Job /\ IdleJob.stage = "idle" BY DEF IdleJob, Job
  <2>3. TypeOK' BY <1>5, <2>1, <2>2, GotoType DEF IInv
  <2> QED BY <1>4, <2>1, <2>2, <2>3, QuietStep DEF store, history
<1>7. CASE r # NoRec
  <2>1. PICK rec : rec = [r EXCEPT !.lease = 0] OBVIOUS
  <2>2. r \in Record BY <1>3, <1>7
  <2>3. rec \in Record BY <2>1, <2>2, RecordType
  <2>4. rec.attempts = r.attempts /\ rec.inline = r.inline BY <2>1, <2>2 DEF Record
  <2>5. PICK j : j = [stage |-> "bury", id |-> h.id, read |-> r, rec |-> rec] OBVIOUS
  <2>6. Goto(w, j) BY <1>2, <1>7, <2>1, <2>5 DEF DeadLetter, ReadBack
  <2>7. j \in Job BY <1>1, <2>2, <2>3, <2>5 DEF Job
  <2>8. TypeOK' BY <1>5, <2>6, <2>7, GotoType DEF IInv
  <2>9. "bury" \in WriteBacks BY DEF WriteBacks
  <2>10. /\ UNCHANGED <<store, clock, minted, committed, acked, purged, rearmed, clobbered>>
         /\ handles' \subseteq handles
    BY <1>4 DEF history
  <2> QED BY <1>2, <1>7, <2>3, <2>4, <2>5, <2>6, <2>8, <2>9, <2>10, ReadBackStep
<1> QED BY <1>6, <1>7

LEMMA AckStep ==
    ASSUME IInv, NEW w \in Workers, NEW h \in handles, Ack(w, h)
    PROVE  IInv'
<1>1. h \in Handle /\ h.id \in Ids BY DEF IInv, TypeOK, Handle
<1>2. PICK i : i = h.id OBVIOUS
<1>3. PICK j : j = IF h.inline THEN IdleJob ELSE [stage |-> "free", id |-> i] OBVIOUS
<1>4. j \in Job BY <1>1, <1>2, <1>3 DEF Job, IdleJob
<1>5. j.stage \in {"idle", "free"} /\ (j.stage = "free" => j.id = i) BY <1>3 DEF IdleJob
<1>6. Goto(w, j) BY <1>2, <1>3 DEF Ack
<1>7. /\ meta' = [meta EXCEPT ![i] = NoRec] /\ acked' = acked \cup {i} /\ handles' = handles \ {h}
      /\ UNCHANGED <<dead, ready, paused, payload, clock, calls, crashes,
                     minted, committed, purged, rearmed, clobbered>>
  BY <1>2 DEF Ack
<1>8. job' \in [Workers -> Job] BY <1>4, <1>6, GotoType DEF IInv
<1>9. meta' \in Index BY <1>1, <1>2, <1>7, IndexType DEF IInv, TypeOK
<1>10. TypeOK' BY <1>1, <1>2, <1>7, <1>8, <1>9 DEF IInv, TypeOK
<1>11. \A n \in Ids : n # i => meta'[n] = meta[n] BY <1>7 DEF IInv, TypeOK, Index
<1>12. meta'[i] = NoRec BY <1>1, <1>2, <1>7 DEF IInv, TypeOK, Index
<1>13. Live(meta') = Live(meta) \ {i} /\ \A n \in Live(meta') : meta'[n] = meta[n]
  BY <1>11, <1>12 DEF Live
<1>14. Retired' = Retired \cup {i} BY <1>7 DEF Retired
<1>15. Holders' \subseteq Holders
  <2>1. job'[w] = j /\ \A v \in Workers \ {w} : job'[v] = job[v]
    BY <1>6 DEF Goto, IInv, TypeOK
  <2> QED BY <1>5, <1>7, <2>1, HolderIff DEF Deliveries
<1>16. Keeps BY <1>7, <1>13, <1>14, <1>15 DEF Keeps, Placed, Excepted
<1>17. Live(meta') \cup Live(dead') \subseteq committed BY <1>7, <1>13 DEF IInv, QueueInv
<1>18. MarkerCoversBacklog' BY <1>7, <1>13, <1>14 DEF MarkerCoversBacklog, IInv, QueueInv
<1>19. (\A n \in Live(meta) : Backed(n, meta[n]))'
  BY <1>7, <1>13, <1>14 DEF IInv, QueueInv, Backed
<1>20. JobOK(j)'
  BY <1>5, <1>7
  DEF JobOK, LoopJob, FreshJob, PlaceJob, PayloadJob, DeliverJob, ScanJob, BackJob,
      WriteBacks, Scans, Deliveries
<1>21. \A v \in Workers \ {w} : Agree(j, job[v]) /\ Agree(job[v], j)
  BY <1>5 DEF Agree, ClaimStages, WriteBacks, Scans
<1>22. handles' \subseteq handles BY <1>7
<1> QED BY <1>4, <1>6, <1>10, <1>16, <1>17, <1>18, <1>19, <1>20, <1>21, <1>22, JobStep

\* Only payloads of retired messages are freed.
LEMMA FreeStep ==
    ASSUME IInv, TypeOK', NEW w \in Workers, NEW j \in Job, NEW i \in Retired, Goto(w, j),
           payload' = payload \ {i},
           UNCHANGED <<meta, dead, ready, handles, clock, minted, committed, acked, purged,
                       rearmed, clobbered>>,
           j.stage \in {"idle", "drop"}, JobOK(j)'
    PROVE  IInv'
<1>1. Retired' = Retired BY DEF Retired
<1>2. Holders' \subseteq Holders
  <2>1. job'[w] = j /\ \A v \in Workers \ {w} : job'[v] = job[v]
    BY DEF Goto, IInv, TypeOK
  <2> QED BY <2>1, HolderIff DEF Deliveries
<1>3. Keeps BY <1>1, <1>2 DEF Keeps, Placed, Excepted
<1>4. Live(meta') \cup Live(dead') \subseteq committed BY DEF IInv, QueueInv
<1>5. MarkerCoversBacklog' BY <1>1 DEF MarkerCoversBacklog, IInv, QueueInv
<1>6. (\A n \in Live(meta) : Backed(n, meta[n]))' BY <1>1 DEF IInv, QueueInv, Backed
<1>7. \A v \in Workers \ {w} : Agree(j, job[v]) /\ Agree(job[v], j)
  BY DEF Agree, ClaimStages, WriteBacks, Scans
<1> QED BY <1>3, <1>4, <1>5, <1>6, <1>7, JobStep

LEMMA AckFreeStep ==
    ASSUME IInv, NEW w \in Workers, AckFree(w)
    PROVE  IInv'
<1>1. PICK i : i = job[w].id OBVIOUS
<1>2. PICK j : j = IdleJob OBVIOUS
<1>3. j \in Job /\ j.stage = "idle" BY <1>2 DEF Job, IdleJob
<1>4. Goto(w, j) BY <1>2 DEF AckFree
<1>5. job' \in [Workers -> Job] BY <1>3, <1>4, GotoType DEF IInv
<1>6. TypeOK' BY <1>5 DEF IInv, TypeOK, AckFree, history
<1>7. i \in Retired BY <1>1 DEF AckFree, IInv, JobOK, PlaceJob, Retired
<1>8. JobOK(j)' BY <1>3, QuietJob
<1> QED BY <1>1, <1>3, <1>4, <1>6, <1>7, <1>8, FreeStep DEF AckFree, history

\* A record is written back or moved to the dead letters.
LEMMA WriteBackStep ==
    ASSUME IInv, NEW w \in Workers, NEW o, NEW x, o = job[w], o.stage \in WriteBacks,
           Goto(w, IdleJob), meta' = [meta EXCEPT ![o.id] = x],
           \/ o.stage \in {"nack", "note"} /\ x = o.rec /\ dead' = dead
           \/ x = NoRec /\ dead' = [dead EXCEPT ![o.id] = o.rec],
           clobbered' = IF meta[o.id] # o.read THEN clobbered \cup {o.id} ELSE clobbered,
           UNCHANGED <<paused, payload, handles, clock, calls, crashes, minted, committed, acked,
                       purged, rearmed>>,
           ready' \in BOOLEAN, ready => ready'
    PROVE  IInv'
<1>1. o \in Job /\ JobOK(o) BY DEF IInv, TypeOK
<1>2. PICK i : i = o.id OBVIOUS
<1>3. i \in Ids /\ o.read \in Record /\ o.rec \in Record BY <1>1, <1>2, JobFields
<1>4. PICK j : j = IdleJob OBVIOUS
<1>5. j \in Job /\ j.stage = "idle" BY <1>4 DEF Job, IdleJob
<1>6. Goto(w, j) BY <1>4
<1>7. job' \in [Workers -> Job] BY <1>5, <1>6, GotoType DEF IInv
<1>8. NoRec \notin Record BY NoRecAssumption DEF NoRecAssumption
<1>9. meta' \in Index /\ dead' \in Index
  <2>1. x \in Record \cup {NoRec} BY <1>3
  <2>2. meta \in Index /\ dead \in Index BY DEF IInv, TypeOK
  <2>3. meta' \in Index BY <1>2, <1>3, <2>1, <2>2, IndexType
  <2>4. dead' = dead \/ dead' = [dead EXCEPT ![i] = o.rec] BY <1>2
  <2>5. dead' \in Index BY <1>3, <2>2, <2>4, IndexType
  <2> QED BY <2>3, <2>5
<1>10. clobbered' \in SUBSET Ids BY <1>2, <1>3 DEF IInv, TypeOK
<1>11. TypeOK' BY <1>7, <1>9, <1>10 DEF IInv, TypeOK
<1>12. meta'[i] = x /\ \A n \in Ids : n # i => meta'[n] = meta[n]
  BY <1>2, <1>3 DEF IInv, TypeOK, Index
<1>13. \/ o.stage \in {"nack", "note"} /\ x = o.rec /\ dead' = dead
       \/ x = NoRec /\ dead'[i] = o.rec /\ \A n \in Ids : n # i => dead'[n] = dead[n]
  BY <1>2, <1>3 DEF IInv, TypeOK, Index
<1>14. i \in Placed BY <1>1, <1>2 DEF JobOK, PlaceJob
<1>15. Live(dead) \subseteq Live(dead') /\ (x = NoRec => i \in Live(dead'))
  BY <1>3, <1>8, <1>13 DEF Live
<1>16. Retired \subseteq Retired' BY <1>15 DEF Retired
<1>17. x # NoRec => x = o.rec /\ o.stage \in {"nack", "note"} BY <1>13
<1>18. Live(meta) \ {i} \subseteq Live(meta') /\ Live(meta') \subseteq Live(meta) \cup {i}
  BY <1>12 DEF Live
<1>19. x # NoRec => i \in Live(meta') BY <1>3, <1>12 DEF Live
<1>20. Placed \subseteq Placed' BY <1>15, <1>16, <1>18, <1>19 DEF Placed, Retired
<1>21. Live(meta') \subseteq Live(meta) \cup Retired' BY <1>14, <1>16, <1>18 DEF Placed
<1>22. Holders' \subseteq Holders
  <2>1. job'[w] = j /\ \A v \in Workers \ {w} : job'[v] = job[v]
    BY <1>6 DEF Goto, IInv, TypeOK
  <2> QED BY <1>5, <2>1, HolderIff DEF Deliveries
<1>23. Excepted \subseteq Excepted' BY DEF Excepted
<1>24. ASSUME NEW n \in Live(meta') \ Excepted'
       PROVE  /\ n \in Live(meta) /\ meta'[n].attempts = meta[n].attempts
              /\ \/ meta'[n].lease = meta[n].lease
                 \/ \A h \in Holders' : h.id = n => h.attempts # meta[n].attempts
  <2>1. CASE n # i BY <1>12, <1>18, <1>24, <2>1 DEF Live
  <2>2. CASE n = i
    <3>1. x # NoRec BY <1>12, <1>24, <2>2 DEF Live
    <3>2. meta[i] = o.read BY <1>2, <1>24, <2>2 DEF Excepted
    <3>3. i \in Live(meta) BY <1>3, <1>8, <3>2 DEF Live
    <3>4. /\ o.rec.attempts = o.read.attempts
          /\ o.stage = "note" => o.rec = o.read
          /\ o.stage = "nack" => \A h \in Holders : h.id = i => h.attempts # o.read.attempts
      BY <1>1, <1>2, <1>23, <1>24, <2>2 DEF JobOK, BackJob
    <3> QED BY <1>12, <1>17, <1>22, <2>2, <3>1, <3>2, <3>3, <3>4
  <2> QED BY <2>1, <2>2
<1>25. Keeps BY <1>16, <1>20, <1>21, <1>22, <1>23, <1>24 DEF Keeps
<1>26. Live(meta') \cup Live(dead') \subseteq committed
  <2>1. i \in committed BY <1>1, <1>2 DEF JobOK, FreshJob
  <2>2. Live(dead') \subseteq Live(dead) \cup {i} BY <1>13 DEF Live
  <2> QED BY <1>18, <2>1, <2>2 DEF IInv, QueueInv
<1>27. MarkerCoversBacklog' BY <1>16, <1>21 DEF MarkerCoversBacklog, IInv, QueueInv
<1>28. (\A n \in Live(meta) : Backed(n, meta[n]))'
  <2> SUFFICES ASSUME NEW n \in Live(meta') PROVE Backed(n, meta[n])' OBVIOUS
  <2>1. CASE n # i
    <3>1. n \in Live(meta) /\ meta'[n] = meta[n] BY <1>12, <1>18, <2>1 DEF Live
    <3>2. Backed(n, meta[n]) BY <3>1 DEF IInv, QueueInv
    <3> QED BY <1>16, <3>1, <3>2 DEF Backed
  <2>2. CASE n = i
    <3>1. meta'[n] = o.rec BY <1>12, <1>17, <2>2 DEF Live
    <3>2. Backed(i, o.rec) BY <1>1, <1>2 DEF JobOK, PayloadJob
    <3> QED BY <1>16, <2>2, <3>1, <3>2 DEF Backed
  <2> QED BY <2>1, <2>2
<1>29. JobOK(j)' /\ \A k : Agree(j, k) /\ Agree(k, j) BY <1>5, QuietJob
<1> QED BY <1>5, <1>6, <1>11, <1>25, <1>26, <1>27, <1>28, <1>29, JobStep

LEMMA NackWriteStep ==
    ASSUME IInv, NEW w \in Workers, NackWrite(w)
    PROVE  IInv'
<1>1. PICK o : o = job[w] OBVIOUS
<1>2. o.stage = "nack" /\ o.stage \in WriteBacks BY <1>1 DEF NackWrite, WriteBacks
<1>3. PICK x : x = o.rec OBVIOUS
<1> QED BY <1>1, <1>2, <1>3, WriteBackStep DEF NackWrite, Clobbers

LEMMA SetLastErrorWriteStep ==
    ASSUME IInv, NEW w \in Workers, SetLastErrorWrite(w)
    PROVE  IInv'
<1>1. PICK o : o = job[w] OBVIOUS
<1>2. o.stage = "note" /\ o.stage \in WriteBacks BY <1>1 DEF SetLastErrorWrite, WriteBacks
<1>3. PICK x : x = o.rec OBVIOUS
<1>4. ready' \in BOOLEAN /\ (ready => ready') BY DEF SetLastErrorWrite, IInv, TypeOK
<1> QED BY <1>1, <1>2, <1>3, <1>4, WriteBackStep DEF SetLastErrorWrite, Clobbers

LEMMA DeadLetterWriteStep ==
    ASSUME IInv, NEW w \in Workers, DeadLetterWrite(w)
    PROVE  IInv'
<1>1. PICK o : o = job[w] OBVIOUS
<1>2. o.stage \in WriteBacks BY <1>1 DEF DeadLetterWrite, WriteBacks
<1>3. PICK x : x = NoRec OBVIOUS
<1>4. ready' \in BOOLEAN /\ (ready => ready') BY DEF DeadLetterWrite, IInv, TypeOK
<1> QED BY <1>1, <1>2, <1>3, <1>4, WriteBackStep DEF DeadLetterWrite, Clobbers

-----------------------------------------------------------------------------
(* redrive_dead_letters, purge_dead_letters, set_paused, rebuild_ready_set *)

\* The loops over dead letters bind nobody else.
LEMMA LoopAgrees ==
    ASSUME NEW j, j.stage \in {"idle", "redrive", "rearm", "unbury", "purge", "erase", "drop"}
    PROVE  \A k : Agree(j, k) /\ Agree(k, j)
BY DEF Agree, ClaimStages, WriteBacks, Scans

LEMMA RedriveStep ==
    ASSUME IInv, NEW w \in Workers, NEW filtered \in BOOLEAN, NEW ids \in SUBSET Ids,
           Redrive(w, filtered, ids)
    PROVE  IInv'
<1>1. PICK j : j = [stage |-> "redrive", filtered |-> filtered, todo |-> ids] OBVIOUS
<1>2. j \in Job BY <1>1 DEF Job
<1>3. Goto(w, j) BY <1>1 DEF Redrive
<1>4. job' \in [Workers -> Job] BY <1>2, <1>3, GotoType DEF IInv
<1>5. calls' \in Nat BY DEF Redrive, BeginOperator, IInv, TypeOK
<1>6. UNCHANGED <<store, handles, clock, crashes, history>> BY DEF Redrive
<1>7. TypeOK' BY <1>4, <1>5, <1>6 DEF IInv, TypeOK, store, history
<1>8. ids # {} /\ ids \subseteq committed' BY <1>6 DEF Redrive, IInv, QueueInv, history
<1>9. JobOK(j)'
  BY <1>1, <1>8
  DEF JobOK, LoopJob, FreshJob, PlaceJob, PayloadJob, DeliverJob, ScanJob, BackJob,
      WriteBacks, Scans, Deliveries
<1>10. \A k : Agree(j, k) /\ Agree(k, j) BY <1>1, LoopAgrees
<1>11. j.stage \notin Deliveries BY <1>1 DEF Deliveries
<1> QED BY <1>2, <1>3, <1>6, <1>7, <1>9, <1>10, <1>11, StillStep DEF store, history

\* The record a redrive puts back has its type.
LEMMA RearmedType ==
    ASSUME TypeOK, NEW i \in Ids
    PROVE  Rearmed(i) \in Record
<1>1. CASE dead[i] = NoRec BY <1>1 DEF Rearmed, Fresh, Record
<1>2. CASE dead[i] # NoRec
  <2>1. dead[i] \in Record BY <1>2, IndexType DEF TypeOK
  <2>2. PICK r : r = dead[i] OBVIOUS
  <2>3. r \in Record /\ Rearmed(i) = [r EXCEPT !.attempts = 0, !.lease = 0, !.expires = 0]
    BY <1>2, <2>1, <2>2 DEF Rearmed
  <2> QED BY <2>3, RecordType
<1> QED BY <1>1, <1>2

LEMMA RedriveReadStep ==
    ASSUME IInv, NEW w \in Workers, RedriveRead(w)
    PROVE  IInv'
<1>1. PICK o : o = job[w] OBVIOUS
<1>2. PICK i : i = First(o.todo) OBVIOUS
<1>3. o \in Job /\ JobOK(o) /\ o.stage = "redrive" BY <1>1 DEF RedriveRead, IInv, TypeOK
<1>4. o.todo \in SUBSET Ids /\ o.filtered \in BOOLEAN BY <1>3, JobFields
<1>5. o.todo # {} /\ o.todo \subseteq committed BY <1>3 DEF JobOK, LoopJob, FreshJob
<1>6. i \in o.todo /\ i \in Ids BY <1>2, <1>4, <1>5, FirstIn
<1>7. PICK rec : rec = Rearmed(i) OBVIOUS
<1>8. rec \in Record BY <1>6, <1>7, RearmedType DEF IInv
<1>9. PICK a : a = [o EXCEPT !.todo = o.todo \ {i}] OBVIOUS
<1>10. a = [stage |-> "redrive", filtered |-> o.filtered, todo |-> o.todo \ {i}]
  BY <1>3, <1>9 DEF Job
<1>11. PICK b : b = [stage |-> "rearm", id |-> i, rec |-> rec, filtered |-> o.filtered,
                     todo |-> o.todo \ {i}]
  OBVIOUS
<1>12. PICK j : /\ j = IdleJob \/ (j = a /\ a.todo # {}) \/ j = b
                /\ Goto(w, j)
  <2>1. Goto(w, IF a.todo = {} THEN IdleJob ELSE a) \/ Goto(w, b)
    BY <1>1, <1>2, <1>7, <1>9, <1>11 DEF RedriveRead, Continue
  <2>2. Goto(w, IdleJob) \/ (a.todo # {} /\ Goto(w, a)) \/ Goto(w, b) BY <2>1 DEF Goto
  <2> QED BY <2>2
<1>13. j \in Job BY <1>4, <1>6, <1>8, <1>10, <1>11, <1>12 DEF Job, IdleJob
<1>14. job' \in [Workers -> Job] BY <1>12, <1>13, GotoType DEF IInv
<1>15. UNCHANGED <<store, handles, clock, calls, crashes, history>> BY DEF RedriveRead
<1>16. TypeOK' BY <1>14, <1>15 DEF IInv, TypeOK, store, history
<1>17. o.todo \ {i} \subseteq committed' /\ i \in committed' BY <1>5, <1>6, <1>15 DEF history
<1>18. j.stage \in {"idle", "redrive", "rearm"} BY <1>10, <1>11, <1>12 DEF IdleJob
<1>19. LoopJob(j)' /\ FreshJob(j)'
  BY <1>10, <1>11, <1>12, <1>17 DEF LoopJob, FreshJob, IdleJob, WriteBacks, Scans
<1>20. JobOK(j)'
  BY <1>18, <1>19
  DEF JobOK, PlaceJob, PayloadJob, DeliverJob, ScanJob, BackJob, WriteBacks, Scans, Deliveries
<1>21. \A k : Agree(j, k) /\ Agree(k, j) BY <1>18, LoopAgrees
<1>22. j.stage \notin Deliveries BY <1>18 DEF Deliveries
<1> QED BY <1>12, <1>13, <1>15, <1>16, <1>20, <1>21, <1>22, StillStep DEF store, history

LEMMA RedrivePutStep ==
    ASSUME IInv, NEW w \in Workers, RedrivePut(w)
    PROVE  IInv'
<1>1. PICK o : o = job[w] OBVIOUS
<1>2. PICK i : i = o.id OBVIOUS
<1>3. o \in Job /\ JobOK(o) /\ o.stage = "rearm" BY <1>1 DEF RedrivePut, IInv, TypeOK
<1>4. i \in Ids /\ o.rec \in Record /\ o.todo \in SUBSET Ids /\ o.filtered \in BOOLEAN
  BY <1>2, <1>3, JobFields
<1>5. i \in committed /\ o.todo \subseteq committed BY <1>2, <1>3 DEF JobOK, FreshJob
<1>6. PICK j : j = [stage |-> "unbury", id |-> i, filtered |-> o.filtered, todo |-> o.todo]
  OBVIOUS
<1>7. j \in Job BY <1>4, <1>6 DEF Job
<1>8. Goto(w, j) BY <1>1, <1>2, <1>6 DEF RedrivePut
<1>9. /\ meta' = [meta EXCEPT ![i] = o.rec] /\ rearmed' = rearmed \cup {i}
      /\ UNCHANGED <<dead, ready, paused, payload, handles, clock, calls, crashes,
                     minted, committed, acked, purged, clobbered>>
  BY <1>1, <1>2 DEF RedrivePut
<1>10. job' \in [Workers -> Job] BY <1>7, <1>8, GotoType DEF IInv
<1>11. meta' \in Index BY <1>4, <1>9, IndexType DEF IInv, TypeOK
<1>12. TypeOK' BY <1>4, <1>9, <1>10, <1>11 DEF IInv, TypeOK
<1>13. meta'[i] = o.rec /\ \A n \in Ids : n # i => meta'[n] = meta[n]
  BY <1>4, <1>9 DEF IInv, TypeOK, Index
<1>14. Live(meta) \subseteq Live(meta') \cup {i} /\ Live(meta') \subseteq Live(meta) \cup {i}
  BY <1>13 DEF Live
<1>15. Retired' = Retired \cup {i} /\ Excepted' = Excepted \cup {i} BY <1>9 DEF Retired, Excepted
<1>16. Holders' \subseteq Holders
  <2>1. job'[w] = j /\ \A v \in Workers \ {w} : job'[v] = job[v]
    BY <1>8 DEF Goto, IInv, TypeOK
  <2> QED BY <1>6, <1>9, <2>1, HolderIff DEF Deliveries
<1>17. ASSUME NEW n \in Live(meta') \ Excepted'
       PROVE  n \in Live(meta) /\ meta'[n] = meta[n]
  BY <1>13, <1>14, <1>15, <1>17 DEF Live
<1>18. Keeps BY <1>9, <1>14, <1>15, <1>16, <1>17 DEF Keeps, Placed
<1>19. Live(meta') \cup Live(dead') \subseteq committed BY <1>5, <1>9, <1>14 DEF IInv, QueueInv
<1>20. MarkerCoversBacklog' BY <1>9, <1>14, <1>15 DEF MarkerCoversBacklog, IInv, QueueInv
<1>21. (\A n \in Live(meta) : Backed(n, meta[n]))'
  <2> SUFFICES ASSUME NEW n \in Live(meta') PROVE Backed(n, meta[n])' OBVIOUS
  <2>1. CASE n # i
    <3>1. n \in Live(meta) /\ meta'[n] = meta[n] BY <1>13, <1>14, <2>1 DEF Live
    <3>2. Backed(n, meta[n]) BY <3>1 DEF IInv, QueueInv
    <3> QED BY <1>9, <1>15, <3>1, <3>2 DEF Backed
  <2>2. CASE n = i BY <1>15, <2>2 DEF Backed
  <2> QED BY <2>1, <2>2
<1>22. JobOK(j)'
  BY <1>5, <1>6, <1>9
  DEF JobOK, LoopJob, FreshJob, PlaceJob, PayloadJob, DeliverJob, ScanJob, BackJob,
      WriteBacks, Scans, Deliveries
<1>23. \A k : Agree(j, k) /\ Agree(k, j) BY <1>6, LoopAgrees
<1>24. handles' \subseteq handles BY <1>9
<1> QED BY <1>7, <1>8, <1>12, <1>18, <1>19, <1>20, <1>21, <1>22, <1>23, <1>24, JobStep

\* A dead letter goes once the message is in the index again, or on purpose.
LEMMA DeadGoneStep ==
    ASSUME IInv, TypeOK', NEW w \in Workers, NEW j \in Job, NEW i \in Ids, Goto(w, j),
           dead' = [dead EXCEPT ![i] = NoRec],
           i \in Live(dead) => i \in purged' \cup rearmed,
           purged \subseteq purged',
           UNCHANGED <<meta, ready, payload, handles, clock, minted, committed, acked,
                       rearmed, clobbered>>,
           j.stage \in {"idle", "redrive", "purge"}, JobOK(j)'
    PROVE  IInv'
<1>1. Live(dead') = Live(dead) \ {i} BY DEF Live, IInv, TypeOK, Index
<1>2. Retired \subseteq Retired' BY <1>1 DEF Retired
<1>3. Holders' \subseteq Holders
  <2>1. job'[w] = j /\ \A v \in Workers \ {w} : job'[v] = job[v]
    BY DEF Goto, IInv, TypeOK
  <2> QED BY <2>1, HolderIff DEF Deliveries
<1>4. Keeps BY <1>2, <1>3 DEF Keeps, Placed, Excepted
<1>5. Live(meta') \cup Live(dead') \subseteq committed BY <1>1 DEF IInv, QueueInv
<1>6. MarkerCoversBacklog' BY <1>2 DEF MarkerCoversBacklog, IInv, QueueInv
<1>7. (\A n \in Live(meta) : Backed(n, meta[n]))' BY <1>2 DEF IInv, QueueInv, Backed
<1>8. \A k : Agree(j, k) /\ Agree(k, j) BY LoopAgrees
<1> QED BY <1>4, <1>5, <1>6, <1>7, <1>8, JobStep

LEMMA RedriveDeleteStep ==
    ASSUME IInv, NEW w \in Workers, RedriveDelete(w)
    PROVE  IInv'
<1>1. PICK o : o = job[w] OBVIOUS
<1>2. PICK i : i = o.id OBVIOUS
<1>3. o \in Job /\ JobOK(o) /\ o.stage = "unbury" BY <1>1 DEF RedriveDelete, IInv, TypeOK
<1>4. i \in Ids /\ o.todo \in SUBSET Ids /\ o.filtered \in BOOLEAN BY <1>2, <1>3, JobFields
<1>5. i \in rearmed /\ o.todo \subseteq committed BY <1>2, <1>3 DEF JobOK, PlaceJob, FreshJob
<1>6. PICK a : a = [stage |-> "redrive", filtered |-> o.filtered, todo |-> o.todo] OBVIOUS
<1>7. PICK j : (j = IdleJob \/ (j = a /\ a.todo # {})) /\ Goto(w, j)
  <2>1. Goto(w, IF a.todo = {} THEN IdleJob ELSE a)
    BY <1>1, <1>6 DEF RedriveDelete, Continue
  <2>2. Goto(w, IdleJob) \/ (a.todo # {} /\ Goto(w, a)) BY <2>1 DEF Goto
  <2> QED BY <2>2
<1>8. j \in Job BY <1>4, <1>6, <1>7 DEF Job, IdleJob
<1>9. /\ dead' = [dead EXCEPT ![i] = NoRec]
      /\ UNCHANGED <<meta, ready, paused, payload, handles, clock, calls, crashes, history>>
  BY <1>1, <1>2 DEF RedriveDelete
<1>10. job' \in [Workers -> Job] BY <1>7, <1>8, GotoType DEF IInv
<1>11. dead' \in Index BY <1>4, <1>9, IndexType DEF IInv, TypeOK
<1>12. TypeOK' BY <1>9, <1>10, <1>11 DEF IInv, TypeOK, history
<1>13. j.stage \in {"idle", "redrive"} BY <1>6, <1>7 DEF IdleJob
<1>14. LoopJob(j)' /\ FreshJob(j)'
  BY <1>5, <1>6, <1>7, <1>9 DEF LoopJob, FreshJob, IdleJob, WriteBacks, Scans, history
<1>15. JobOK(j)'
  BY <1>13, <1>14
  DEF JobOK, PlaceJob, PayloadJob, DeliverJob, ScanJob, BackJob, WriteBacks, Scans, Deliveries
<1> QED BY <1>4, <1>5, <1>7, <1>8, <1>9, <1>12, <1>13, <1>15, DeadGoneStep DEF history

LEMMA PurgeStep ==
    ASSUME IInv, NEW w \in Workers, NEW ids \in SUBSET Ids, Purge(w, ids)
    PROVE  IInv'
<1>1. PICK j : j = [stage |-> "purge", todo |-> ids] OBVIOUS
<1>2. j \in Job BY <1>1 DEF Job
<1>3. Goto(w, j) BY <1>1 DEF Purge
<1>4. job' \in [Workers -> Job] BY <1>2, <1>3, GotoType DEF IInv
<1>5. calls' \in Nat BY DEF Purge, BeginOperator, IInv, TypeOK
<1>6. UNCHANGED <<store, handles, clock, crashes, history>> BY DEF Purge
<1>7. TypeOK' BY <1>4, <1>5, <1>6 DEF IInv, TypeOK, store, history
<1>8. ids # {} /\ ids \subseteq Retired' BY <1>6 DEF Purge, Retired, store, history
<1>9. JobOK(j)'
  BY <1>1, <1>8
  DEF JobOK, LoopJob, FreshJob, PlaceJob, PayloadJob, DeliverJob, ScanJob, BackJob,
      WriteBacks, Scans, Deliveries
<1>10. \A k : Agree(j, k) /\ Agree(k, j) BY <1>1, LoopAgrees
<1>11. j.stage \notin Deliveries BY <1>1 DEF Deliveries
<1> QED BY <1>2, <1>3, <1>6, <1>7, <1>9, <1>10, <1>11, StillStep DEF store, history

LEMMA PurgeReadStep ==
    ASSUME IInv, NEW w \in Workers, PurgeRead(w)
    PROVE  IInv'
<1>1. PICK o : o = job[w] OBVIOUS
<1>2. PICK i : i = First(o.todo) OBVIOUS
<1>3. o \in Job /\ JobOK(o) /\ o.stage = "purge" BY <1>1 DEF PurgeRead, IInv, TypeOK
<1>4. o.todo \in SUBSET Ids BY <1>3, JobFields
<1>5. o.todo # {} /\ o.todo \subseteq Retired BY <1>3 DEF JobOK, LoopJob, PlaceJob
<1>6. i \in o.todo /\ i \in Ids BY <1>2, <1>4, <1>5, FirstIn
<1>7. PICK st : st = IF dead[i] # NoRec /\ dead[i].inline THEN "drop" ELSE "erase" OBVIOUS
<1>8. st \in {"drop", "erase"} BY <1>7
<1>9. PICK j : j = [stage |-> st, id |-> i, todo |-> o.todo \ {i}] OBVIOUS
<1>10. j \in Job BY <1>4, <1>6, <1>8, <1>9 DEF Job
<1>11. Goto(w, j) BY <1>1, <1>2, <1>7, <1>9 DEF PurgeRead
<1>12. job' \in [Workers -> Job] BY <1>10, <1>11, GotoType DEF IInv
<1>13. UNCHANGED <<store, handles, clock, calls, crashes, history>> BY DEF PurgeRead
<1>14. TypeOK' BY <1>12, <1>13 DEF IInv, TypeOK, store, history
<1>15. i \in Retired' /\ o.todo \ {i} \subseteq Retired'
  BY <1>5, <1>6, <1>13 DEF Retired, store, history
<1>16. JobOK(j)'
  BY <1>8, <1>9, <1>15
  DEF JobOK, LoopJob, FreshJob, PlaceJob, PayloadJob, DeliverJob, ScanJob, BackJob,
      WriteBacks, Scans, Deliveries
<1>17. \A k : Agree(j, k) /\ Agree(k, j) BY <1>8, <1>9, LoopAgrees
<1>18. j.stage \notin Deliveries BY <1>8, <1>9 DEF Deliveries
<1> QED BY <1>10, <1>11, <1>13, <1>14, <1>16, <1>17, <1>18, StillStep DEF store, history

LEMMA PurgeFreeStep ==
    ASSUME IInv, NEW w \in Workers, PurgeFree(w)
    PROVE  IInv'
<1>1. PICK o : o = job[w] OBVIOUS
<1>2. PICK i : i = o.id OBVIOUS
<1>3. o \in Job /\ JobOK(o) /\ o.stage = "erase" BY <1>1 DEF PurgeFree, IInv, TypeOK
<1>4. i \in Ids /\ o.todo \in SUBSET Ids BY <1>2, <1>3, JobFields
<1>5. i \in Retired /\ o.todo \subseteq Retired BY <1>2, <1>3 DEF JobOK, PlaceJob
<1>6. PICK j : j = [o EXCEPT !.stage = "drop"] OBVIOUS
<1>7. j = [stage |-> "drop", id |-> i, todo |-> o.todo] BY <1>2, <1>3, <1>6 DEF Job
<1>8. j \in Job BY <1>4, <1>7 DEF Job
<1>9. Goto(w, j) BY <1>1, <1>6 DEF PurgeFree
<1>10. job' \in [Workers -> Job] BY <1>8, <1>9, GotoType DEF IInv
<1>11. /\ payload' = payload \ {i}
       /\ UNCHANGED <<meta, dead, ready, paused, handles, clock, calls, crashes, history>>
  BY <1>1, <1>2 DEF PurgeFree
<1>12. TypeOK' BY <1>10, <1>11 DEF IInv, TypeOK, history
<1>13. i \in Retired' /\ o.todo \subseteq Retired' BY <1>5, <1>11 DEF Retired, history
<1>14. JobOK(j)'
  BY <1>7, <1>13
  DEF JobOK, LoopJob, FreshJob, PlaceJob, PayloadJob, DeliverJob, ScanJob, BackJob,
      WriteBacks, Scans, Deliveries
<1>15. j.stage \in {"idle", "drop"} BY <1>7
<1> QED BY <1>5, <1>8, <1>9, <1>11, <1>12, <1>14, <1>15, FreeStep DEF history

LEMMA PurgeDeleteStep ==
    ASSUME IInv, NEW w \in Workers, PurgeDelete(w)
    PROVE  IInv'
<1>1. PICK o : o = job[w] OBVIOUS
<1>2. PICK i : i = o.id OBVIOUS
<1>3. o \in Job /\ JobOK(o) /\ o.stage = "drop" BY <1>1 DEF PurgeDelete, IInv, TypeOK
<1>4. i \in Ids /\ o.todo \in SUBSET Ids BY <1>2, <1>3, JobFields
<1>5. o.todo \subseteq Retired BY <1>3 DEF JobOK, PlaceJob
<1>6. PICK a : a = [stage |-> "purge", todo |-> o.todo] OBVIOUS
<1>7. PICK j : (j = IdleJob \/ (j = a /\ a.todo # {})) /\ Goto(w, j)
  <2>1. Goto(w, IF a.todo = {} THEN IdleJob ELSE a)
    BY <1>1, <1>6 DEF PurgeDelete, Continue
  <2>2. Goto(w, IdleJob) \/ (a.todo # {} /\ Goto(w, a)) BY <2>1 DEF Goto
  <2> QED BY <2>2
<1>8. j \in Job BY <1>4, <1>6, <1>7 DEF Job, IdleJob
<1>9. /\ dead' = [dead EXCEPT ![i] = NoRec]
      /\ purged' = IF dead[i] = NoRec THEN purged ELSE purged \cup {i}
      /\ UNCHANGED <<meta, ready, paused, payload, handles, clock, calls, crashes,
                     minted, committed, acked, rearmed, clobbered>>
  BY <1>1, <1>2 DEF PurgeDelete
<1>10. job' \in [Workers -> Job] BY <1>7, <1>8, GotoType DEF IInv
<1>11. dead' \in Index BY <1>4, <1>9, IndexType DEF IInv, TypeOK
<1>12. TypeOK' BY <1>4, <1>9, <1>10, <1>11 DEF IInv, TypeOK
<1>13. j.stage \in {"idle", "purge"} BY <1>6, <1>7 DEF IdleJob
<1>14. purged \subseteq purged' /\ (i \in Live(dead) => i \in purged')
  BY <1>9 DEF Live
<1>15. Retired \subseteq Retired'
  <2>1. Live(dead) \subseteq Live(dead') \cup {i} BY <1>4, <1>9 DEF Live, IInv, TypeOK, Index
  <2> QED BY <1>9, <1>14, <2>1 DEF Retired
<1>16. LoopJob(j)' /\ PlaceJob(j)'
  BY <1>5, <1>6, <1>7, <1>15 DEF LoopJob, PlaceJob, IdleJob, WriteBacks, Scans
<1>17. JobOK(j)'
  BY <1>13, <1>16
  DEF JobOK, FreshJob, PayloadJob, DeliverJob, ScanJob, BackJob, WriteBacks, Scans, Deliveries
<1> QED BY <1>4, <1>7, <1>8, <1>9, <1>12, <1>13, <1>14, <1>17, DeadGoneStep

LEMMA RebuildSteps ==
    ASSUME IInv, NEW w \in Workers, Rebuild(w) \/ RebuildCheck(w) \/ RebuildMark(w)
    PROVE  IInv'
<1>1. PICK j : j \in {IdleJob, [stage |-> "check"], [stage |-> "mark"]} /\ Goto(w, j)
  <2>1. CASE Rebuild(w) BY <2>1 DEF Rebuild
  <2>2. CASE RebuildCheck(w) BY <2>2 DEF RebuildCheck
  <2>3. CASE RebuildMark(w) BY <2>3 DEF RebuildMark
  <2> QED BY <2>1, <2>2, <2>3
<1>2. j \in Job /\ j.stage \in {"idle", "check", "mark"} BY <1>1 DEF Job, IdleJob
<1>3. job' \in [Workers -> Job] BY <1>1, <1>2, GotoType DEF IInv
<1>4. /\ ready' \in BOOLEAN /\ (ready => ready')
      /\ UNCHANGED <<meta, dead, paused, payload, handles, clock, calls, crashes, history>>
  BY DEF Rebuild, RebuildCheck, RebuildMark, store, IInv, TypeOK
<1>5. TypeOK' BY <1>3, <1>4 DEF IInv, TypeOK, history
<1> QED BY <1>1, <1>2, <1>4, <1>5, QuietStep DEF history

-----------------------------------------------------------------------------
(* The commits of a publish and of a claim. *)

\* The record of a publish is new to everybody.
LEMMA PublishCommitStep ==
    ASSUME IInv, NEW w \in Workers, PublishCommit(w)
    PROVE  IInv'
<1>1. PICK o : o = job[w] OBVIOUS
<1>2. PICK i : i = o.id OBVIOUS
<1>3. o \in Job /\ JobOK(o) /\ o.stage = "commit" BY <1>1 DEF PublishCommit, IInv, TypeOK
<1>4. i \in Ids /\ o.rec \in Record BY <1>2, <1>3, JobFields
<1>5. i \in minted \ committed BY <1>2, <1>3 DEF JobOK, FreshJob
<1>6. /\ meta' = [meta EXCEPT ![i] = o.rec] /\ ready' = TRUE /\ committed' = committed \cup {i}
      /\ Goto(w, IdleJob)
      /\ UNCHANGED <<dead, paused, payload, handles, clock, calls, crashes,
                     minted, acked, purged, rearmed, clobbered>>
  BY <1>1, <1>2 DEF PublishCommit
<1>7. IdleJob \in Job /\ IdleJob.stage = "idle" BY DEF Job, IdleJob
<1>8. job' \in [Workers -> Job] BY <1>6, <1>7, GotoType DEF IInv
<1>9. meta' \in Index BY <1>4, <1>6, IndexType DEF IInv, TypeOK
<1>10. TypeOK' BY <1>4, <1>6, <1>8, <1>9 DEF IInv, TypeOK
<1>11. meta'[i] = o.rec /\ \A n \in Ids : n # i => meta'[n] = meta[n]
  BY <1>4, <1>6 DEF IInv, TypeOK, Index
<1>12. o.rec # NoRec BY <1>4, NoRecAssumption DEF NoRecAssumption
<1>13. Live(meta') = Live(meta) \cup {i} BY <1>4, <1>11, <1>12 DEF Live
<1>14. Retired' = Retired /\ Excepted' = Excepted BY <1>6 DEF Retired, Excepted
<1>15. Placed' = Placed \cup {i} BY <1>13, <1>14 DEF Placed
<1>16. job'[w] = IdleJob /\ \A v \in Workers \ {w} : job'[v] = job[v]
  BY <1>6 DEF Goto, IInv, TypeOK
<1>17. Holders' \subseteq Holders BY <1>6, <1>7, <1>16, HolderIff DEF Deliveries
<1>18. QueueInv'
  <2>1. committed' \subseteq minted' /\ Live(meta') \cup Live(dead') \subseteq committed'
    BY <1>5, <1>6, <1>13 DEF IInv, QueueInv
  <2>2. committed' \subseteq Placed' BY <1>6, <1>15 DEF IInv, QueueInv
  <2>3. MarkerCoversBacklog' BY <1>6 DEF MarkerCoversBacklog
  <2>4. (\A n \in Live(meta) : Backed(n, meta[n]))'
    <3> SUFFICES ASSUME NEW n \in Live(meta') PROVE Backed(n, meta[n])' OBVIOUS
    <3>1. CASE n # i
      <4>1. n \in Live(meta) /\ meta'[n] = meta[n] BY <1>11, <1>13, <3>1 DEF Live
      <4>2. Backed(n, meta[n]) BY <4>1 DEF IInv, QueueInv
      <4> QED BY <1>6, <1>14, <4>1, <4>2 DEF Backed
    <3>2. CASE n = i
      <4>1. Backed(i, o.rec) BY <1>2, <1>3 DEF JobOK, PayloadJob
      <4> QED BY <1>6, <1>11, <1>14, <3>2, <4>1 DEF Backed
    <3> QED BY <3>1, <3>2
  <2> QED BY <2>1, <2>2, <2>3, <2>4 DEF QueueInv
<1>19. \A n \in committed : n \in Ids => meta'[n] = meta[n] BY <1>5, <1>11
<1>20. committed \subseteq Ids BY DEF IInv, TypeOK
<1>21. \A n \in committed : meta'[n] = meta[n] /\ (n \in Live(meta') <=> n \in Live(meta))
  BY <1>5, <1>13, <1>19, <1>20
<1>22. HolderInv'
  <2>1. \A h \in Holders' : h.id \in committed /\ h.attempts \in 1 .. MaxAttempts
    BY <1>17 DEF IInv, HolderInv
  <2>2. \A g, h \in Holders' : g.id = h.id /\ g.id \notin Excepted' =>
          /\ g.attempts = h.attempts => g = h
          /\ g.attempts < h.attempts => g.until <= clock'
    BY <1>6, <1>14, <1>17 DEF IInv, HolderInv
  <2>3. ASSUME NEW h \in Holders', h.id \in Live(meta') \ Excepted'
        PROVE  Covers(meta[h.id], h)'
    <3>1. h.id \in Live(meta) \ Excepted /\ meta'[h.id] = meta[h.id]
      BY <1>14, <1>21, <2>1, <2>3
    <3>2. Covers(meta[h.id], h) BY <1>17, <3>1 DEF IInv, HolderInv
    <3> QED BY <1>6, <3>1, <3>2 DEF Covers
  <2> QED BY <1>6, <2>1, <2>2, <2>3 DEF HolderInv
<1>23. ASSUME NEW v \in Workers PROVE JobOK(job[v])'
  <2>1. CASE v = w
    <3>1. PICK j : j = IdleJob OBVIOUS
    <3>2. JobOK(j)' BY <1>7, <3>1, QuietJob
    <3> QED BY <1>16, <2>1, <3>1, <3>2
            DEF JobOK, LoopJob, FreshJob, PlaceJob, PayloadJob, DeliverJob, ScanJob, BackJob
  <2>2. CASE v # w
    <3>1. PICK k : k = job[v] OBVIOUS
    <3>2. k \in Job /\ JobOK(k) BY <3>1 DEF IInv, TypeOK
    <3>3. k.stage = "commit" => k.id # i
      BY <1>1, <1>2, <1>3, <2>2, <3>1 DEF IInv, Agree
    <3>4. k.stage # "prune" BY <3>1 DEF PublishCommit, CommitGated
    <3>5. LoopJob(k)' BY <3>2 DEF JobOK, LoopJob
    <3>6. FreshJob(k)' BY <1>6, <3>2, <3>3 DEF JobOK, FreshJob, WriteBacks, Scans
    <3>7. PlaceJob(k)' BY <1>6, <1>14, <1>15, <3>2, <3>4 DEF JobOK, PlaceJob
    <3>8. PayloadJob(k)' BY <1>6, <1>14, <3>2 DEF JobOK, PayloadJob, Backed
    <3>9. DeliverJob(k)' BY <1>6, <1>14, <3>2 DEF JobOK, DeliverJob
    <3>10. ScanJob(k)'
      <4> SUFFICES ASSUME k.stage \in Scans PROVE ScanJob(k)' BY DEF ScanJob
      <4>1. Live(k.seen) \subseteq committed BY <3>2 DEF JobOK, FreshJob
      <4>2. k.now <= clock' BY <1>6, <3>2 DEF JobOK, ScanJob
      <4>3. ASSUME NEW n \in Live(k.seen) \ Excepted'
            PROVE  /\ \A h \in Holders' : h.id = n => Covers(k.seen[n], h)'
                   /\ n \in Live(meta') => meta'[n].attempts = k.seen[n].attempts
        <5>1. /\ \A h \in Holders : h.id = n => Covers(k.seen[n], h)
              /\ n \in Live(meta) => meta[n].attempts = k.seen[n].attempts
          BY <1>14, <3>2, <4>3 DEF JobOK, ScanJob
        <5>2. \A h \in Holders' : h.id = n => Covers(k.seen[n], h)'
          BY <1>6, <1>17, <5>1 DEF Covers
        <5> QED BY <1>21, <4>1, <4>3, <5>1, <5>2
      <4> QED BY <4>2, <4>3 DEF ScanJob
    <3>11. BackJob(k)'
      <4> SUFFICES ASSUME k.stage \in WriteBacks PROVE BackJob(k)' BY DEF BackJob
      <4>1. k.id \in committed BY <3>2 DEF JobOK, FreshJob
      <4> QED BY <1>14, <1>17, <1>21, <3>2, <4>1 DEF JobOK, BackJob
    <3>12. JobOK(k)' BY <3>5, <3>6, <3>7, <3>8, <3>9, <3>10, <3>11 DEF JobOK
    <3>13. job'[v] = k BY <1>16, <2>2, <3>1
    <3> QED BY <3>12, <3>13
            DEF JobOK, LoopJob, FreshJob, PlaceJob, PayloadJob, DeliverJob, ScanJob, BackJob
  <2> QED BY <2>1, <2>2
<1>24. ASSUME NEW u \in Workers, NEW v \in Workers, u # v PROVE Agree(job[u], job[v])'
  <2>1. PICK a, b : a = job'[u] /\ b = job'[v] OBVIOUS
  <2>2. PICK j : j = IdleJob OBVIOUS
  <2>3. \A k : Agree(j, k) /\ Agree(k, j) BY <1>7, <2>2, QuietJob
  <2>4. Agree(a, b) BY <1>16, <1>24, <2>1, <2>2, <2>3 DEF IInv
  <2>5. Agree(a, b)' BY <1>14, <2>4 DEF Agree
  <2> QED BY <2>1, <2>5 DEF Agree
<1> QED BY <1>10, <1>18, <1>22, <1>23, <1>24 DEF IInv

\* A claim leases what nobody holds any more: whatever consumers did since it read
\* the index, a delivery that it has not read as over was excepted.
LEMMA ClaimCommitStep ==
    ASSUME IInv, NEW w \in Workers, ClaimCommit(w)
    PROVE  IInv'
<1>1. PICK o : o = job[w] OBVIOUS
<1>2. PICK seen, now : seen = o.seen /\ now = o.now OBVIOUS
<1>3. o \in Job /\ JobOK(o) /\ o.stage = "lease" BY <1>1 DEF ClaimCommit, IInv, TypeOK
<1>4. seen \in Index /\ now \in Nat BY <1>2, <1>3, JobFields DEF Scans
<1>5. PICK L, D : /\ L = PlanLeases(seen, now, MaxBatch, MaxAttempts)
                  /\ D = PlanDeadLetters(seen, now, MaxBatch, MaxAttempts)
  OBVIOUS
<1>6. \A i \in L : /\ i \in Live(seen) /\ seen[i] \in Record
                   /\ seen[i].lease <= now /\ seen[i].attempts < MaxAttempts
  BY <1>4, <1>5, PlanFacts
<1>7. \A i \in D : i \in Live(seen) /\ seen[i] \in Record /\ i \notin L
  BY <1>4, <1>5, PlanFacts
<1>8. PICK R : R = {[id |-> i, attempts |-> seen[i].attempts + 1,
                     until |-> now + LeaseMs, inline |-> seen[i].inline] : i \in L}
  OBVIOUS
<1>9. PICK j : j \in [stage : {"relist", "return"}, recs : {R}] /\ Goto(w, j)
  <2>1. PICK st : st = IF Candidates(seen, now, MaxAttempts) \subseteq L THEN "relist" ELSE "return"
    OBVIOUS
  <2>2. Goto(w, [stage |-> st, recs |-> R]) BY <1>1, <1>2, <1>5, <1>8, <2>1 DEF ClaimCommit
  <2>3. [stage |-> st, recs |-> R] \in [stage : {"relist", "return"}, recs : {R}] BY <2>1
  <2> QED BY <2>2, <2>3
<1>10. j.stage \in {"relist", "return"} /\ j.recs = R BY <1>9
<1>11. /\ meta' = [i \in Ids |-> IF i \in L THEN Leased(seen[i], now, LeaseMs)
                                 ELSE IF i \in D THEN NoRec ELSE meta[i]]
       /\ dead' = [i \in Ids |-> IF i \in D THEN seen[i] ELSE dead[i]]
       /\ UNCHANGED <<ready, paused, payload, handles, clock, calls, crashes, history>>
  BY <1>1, <1>2, <1>5 DEF ClaimCommit
<1>12. LeaseMs \in Nat /\ MaxAttempts \in Nat /\ NoRec \notin Record
  BY WorkQueueAssumption, NoRecAssumption DEF WorkQueueAssumption, NoRecAssumption
<1>13. \A i \in L : /\ Leased(seen[i], now, LeaseMs) \in Record
                    /\ Leased(seen[i], now, LeaseMs).attempts = seen[i].attempts + 1
                    /\ Leased(seen[i], now, LeaseMs).lease = now + LeaseMs
                    /\ Leased(seen[i], now, LeaseMs).inline = seen[i].inline
                    /\ seen[i].attempts \in Nat /\ seen[i].inline \in BOOLEAN
  <2> TAKE i \in L
  <2>1. PICK r : r = seen[i] OBVIOUS
  <2>2. r \in Record BY <1>6, <2>1
  <2>3. r.attempts \in Nat /\ r.inline \in BOOLEAN BY <2>2 DEF Record
  <2> QED BY <1>4, <2>1, <2>2, <2>3, RecordType
<1>14. L \subseteq Ids /\ D \subseteq Ids BY <1>6, <1>7 DEF Live
<1>15. meta' \in Index /\ dead' \in Index
  <2>1. ASSUME NEW i \in Ids
        PROVE  /\ (IF i \in L THEN Leased(seen[i], now, LeaseMs)
                   ELSE IF i \in D THEN NoRec ELSE meta[i]) \in Record \cup {NoRec}
               /\ (IF i \in D THEN seen[i] ELSE dead[i]) \in Record \cup {NoRec}
    BY <1>7, <1>13 DEF IInv, TypeOK, Index
  <2> QED BY <1>11, <2>1 DEF Index
<1>16. R \in SUBSET Handle
  <2>1. \A i \in L : [id |-> i, attempts |-> seen[i].attempts + 1,
                      until |-> now + LeaseMs, inline |-> seen[i].inline] \in Handle
    BY <1>4, <1>12, <1>13, <1>14 DEF Handle
  <2> QED BY <1>8, <2>1
<1>17. j \in Job BY <1>9, <1>16 DEF Job
<1>18. job' \in [Workers -> Job] BY <1>9, <1>17, GotoType DEF IInv
<1>19. TypeOK' BY <1>11, <1>15, <1>18 DEF IInv, TypeOK, history
<1>20. /\ \A i \in L : meta'[i] = Leased(seen[i], now, LeaseMs)
       /\ \A i \in D : meta'[i] = NoRec /\ dead'[i] = seen[i]
       /\ \A i \in Ids \ (L \cup D) : meta'[i] = meta[i]
       /\ \A i \in Ids \ D : dead'[i] = dead[i]
  BY <1>7, <1>11, <1>14
<1>21. /\ Live(meta') = (Live(meta) \ D) \cup L
       /\ Live(dead') = Live(dead) \cup D
  BY <1>7, <1>12, <1>13, <1>14, <1>20 DEF Live
<1>22. Retired' = Retired \cup D BY <1>11, <1>21 DEF Retired, history
<1>23. Placed \subseteq Placed' BY <1>21, <1>22 DEF Placed
<1>24. Excepted' = Excepted /\ clock' = clock /\ committed' = committed /\ handles' = handles
  BY <1>11 DEF Excepted, history
<1>25. Live(seen) \subseteq committed /\ Live(seen) \subseteq Placed
  BY <1>2, <1>3 DEF JobOK, FreshJob, PlaceJob, Scans
<1>26. Live(meta') \subseteq Live(meta) \cup Retired' BY <1>6, <1>21, <1>22, <1>25 DEF Placed
<1>27. job'[w] = j /\ \A v \in Workers \ {w} : job'[v] = job[v]
  BY <1>9 DEF Goto, IInv, TypeOK
<1>28. \A h \in Holders' : h \in Holders \/ h \in R
  BY <1>10, <1>24, <1>27, HolderIff
<1>29. \A h \in R : /\ h.id \in L /\ h.attempts = seen[h.id].attempts + 1
                    /\ h.until = now + LeaseMs /\ h.inline = seen[h.id].inline
  BY <1>8
<1>30. now <= clock /\ clock \in Nat BY <1>2, <1>3 DEF JobOK, ScanJob, Scans, IInv, TypeOK
<1>31. Holders \subseteq Handle
  <2>1. ASSUME NEW v \in Workers, job[v].stage \in Deliveries PROVE job[v].recs \in SUBSET Handle
    <3>1. job[v] \in Job BY DEF IInv, TypeOK
    <3> QED BY <2>1, <3>1, JobFields
  <2>2. handles \in SUBSET Handle BY DEF IInv, TypeOK
  <2> QED BY <2>1, <2>2, HolderIff
\* A delivery that is out and was not excepted has been read as over.
<1>32. ASSUME NEW h \in Holders, h.id \in L \ Excepted
       PROVE  h.attempts <= seen[h.id].attempts /\ h.until <= clock
  <2>1. Covers(seen[h.id], h)
    BY <1>2, <1>3, <1>6, <1>32 DEF JobOK, ScanJob, Scans
  <2>2. h.attempts \in Nat /\ h.until \in Nat BY <1>31 DEF Handle
  <2>3. seen[h.id].attempts \in Nat /\ seen[h.id].lease \in Nat /\ seen[h.id].lease <= now
    <3>1. seen[h.id] \in Record BY <1>6, <1>32
    <3> QED BY <1>6, <1>32, <3>1 DEF Record
  <2> QED BY <1>4, <1>30, <2>1, <2>2, <2>3 DEF Covers
<1>33. QueueInv'
  <2>1. committed' \subseteq minted' BY <1>11 DEF IInv, QueueInv, history
  <2>2. Live(meta') \cup Live(dead') \subseteq committed'
    BY <1>6, <1>7, <1>21, <1>24, <1>25 DEF IInv, QueueInv
  <2>3. committed' \subseteq Placed' BY <1>23, <1>24 DEF IInv, QueueInv
  <2>4. MarkerCoversBacklog' BY <1>11, <1>22, <1>26 DEF MarkerCoversBacklog, IInv, QueueInv
  <2>5. (\A n \in Live(meta) : Backed(n, meta[n]))'
    <3> SUFFICES ASSUME NEW n \in Live(meta') PROVE Backed(n, meta[n])' OBVIOUS
    <3>1. CASE n \in L
      <4>1. Backed(n, seen[n]) BY <1>2, <1>3, <1>6, <3>1 DEF JobOK, PayloadJob, Scans
      <4>2. meta'[n].inline = seen[n].inline BY <1>13, <1>20, <3>1
      <4> QED BY <1>11, <1>22, <4>1, <4>2 DEF Backed
    <3>2. CASE n \notin L
      <4>1. n \in Live(meta) /\ meta'[n] = meta[n] BY <1>20, <1>21, <3>2 DEF Live
      <4>2. Backed(n, meta[n]) BY <4>1 DEF IInv, QueueInv
      <4> QED BY <1>11, <1>22, <4>1, <4>2 DEF Backed
    <3> QED BY <3>1, <3>2
  <2> QED BY <2>1, <2>2, <2>3, <2>4, <2>5 DEF QueueInv
<1>34. HolderInv'
  <2>1. ASSUME NEW h \in Holders' PROVE h.id \in committed' /\ h.attempts \in 1 .. MaxAttempts
    <3>1. CASE h \in Holders BY <1>24, <3>1 DEF IInv, HolderInv
    <3>2. CASE h \in R BY <1>6, <1>12, <1>13, <1>24, <1>25, <1>29, <3>2
    <3> QED BY <1>28, <3>1, <3>2
  <2>2. ASSUME NEW g \in Holders', NEW h \in Holders', g.id = h.id, g.id \notin Excepted'
        PROVE  /\ g.attempts = h.attempts => g = h
               /\ g.attempts < h.attempts => g.until <= clock'
    <3>1. CASE g \in Holders /\ h \in Holders BY <1>24, <2>2, <3>1 DEF IInv, HolderInv
    <3>2. CASE g \in R /\ h \in R
      <4>1. g = h BY <1>8, <2>2, <3>2
      <4>2. g.attempts \in Nat BY <1>13, <1>29, <3>2
      <4> QED BY <4>1, <4>2
    <3>3. CASE g \in Holders /\ h \in R
      <4>1. g.id \in L \ Excepted /\ h.attempts = seen[g.id].attempts + 1
        BY <1>24, <1>29, <2>2, <3>3
      <4>2. g.attempts <= seen[g.id].attempts /\ g.until <= clock BY <1>32, <3>3, <4>1
      <4>3. g.attempts \in Nat /\ seen[g.id].attempts \in Nat
        BY <1>13, <1>31, <3>3, <4>1 DEF Handle
      <4> QED BY <1>24, <4>1, <4>2, <4>3
    <3>4. CASE g \in R /\ h \in Holders
      <4>1. h.id \in L \ Excepted /\ g.attempts = seen[h.id].attempts + 1
        BY <1>24, <1>29, <2>2, <3>4
      <4>2. h.attempts <= seen[h.id].attempts BY <1>32, <3>4, <4>1
      <4>3. h.attempts \in Nat /\ seen[h.id].attempts \in Nat
        BY <1>13, <1>31, <3>4, <4>1 DEF Handle
      <4> QED BY <4>1, <4>2, <4>3
    <3> QED BY <1>28, <3>1, <3>2, <3>3, <3>4
  <2>3. ASSUME NEW h \in Holders', h.id \in Live(meta') \ Excepted'
        PROVE  Covers(meta[h.id], h)'
    <3>1. CASE h \in R
      <4>1. /\ meta'[h.id].attempts = h.attempts /\ meta'[h.id].lease = h.until
            /\ h.attempts \in Nat /\ h.until \in Nat
        BY <1>4, <1>12, <1>13, <1>20, <1>29, <3>1
      <4> QED BY <4>1 DEF Covers
    <3>2. CASE h \in Holders /\ h.id \in L
      <4>1. h.attempts <= seen[h.id].attempts /\ h.until <= clock BY <1>24, <1>32, <2>3, <3>2
      <4>2. meta'[h.id].attempts = seen[h.id].attempts + 1 /\ seen[h.id].attempts \in Nat
        BY <1>13, <1>20, <3>2
      <4>3. h.attempts \in Nat BY <1>31, <3>2 DEF Handle
      <4> QED BY <1>24, <4>1, <4>2, <4>3 DEF Covers
    <3>3. CASE h \in Holders /\ h.id \notin L
      <4>1. h.id \in Live(meta) /\ meta'[h.id] = meta[h.id] BY <1>20, <1>21, <2>3, <3>3 DEF Live
      <4>2. Covers(meta[h.id], h) BY <1>24, <2>3, <3>3, <4>1 DEF IInv, HolderInv
      <4> QED BY <1>24, <4>1, <4>2 DEF Covers
    <3> QED BY <1>28, <3>1, <3>2, <3>3
  <2> QED BY <2>1, <2>2, <2>3 DEF HolderInv
<1>35. ASSUME NEW v \in Workers \ {w} PROVE job[v].stage \notin ClaimStages
  BY <1>1, <1>3, LockKept DEF ClaimStages
<1>36. ASSUME NEW v \in Workers PROVE JobOK(job[v])'
  <2>1. CASE v = w
    <3>1. DeliverJob(j)'
      <4> SUFFICES ASSUME NEW h \in R, h \in handles, h.id \notin Excepted PROVE FALSE
        BY <1>10, <1>24 DEF DeliverJob
      <4>1. h \in Holders /\ h.id \in L BY <1>29, HolderIff
      <4>2. h.attempts <= seen[h.id].attempts BY <1>32, <4>1
      <4> QED BY <1>13, <1>29, <4>1, <4>2
    <3>2. JobOK(j)'
      BY <1>10, <3>1
      DEF JobOK, LoopJob, FreshJob, PlaceJob, PayloadJob, ScanJob, BackJob, WriteBacks, Scans
    <3> QED BY <1>27, <2>1, <3>2
            DEF JobOK, LoopJob, FreshJob, PlaceJob, PayloadJob, DeliverJob, ScanJob, BackJob
  <2>2. CASE v # w
    <3>1. PICK k : k = job[v] OBVIOUS
    <3>2. k \in Job /\ JobOK(k) /\ k.stage \notin ClaimStages BY <1>35, <2>2, <3>1 DEF IInv, TypeOK
    <3>3. FreshJob(k)' BY <1>11, <3>2 DEF JobOK, FreshJob, history
    <3>4. PlaceJob(k)'
      BY <1>11, <1>22, <1>23, <3>2 DEF JobOK, PlaceJob, ClaimStages, Scans, history
    <3>5. PayloadJob(k)'
      BY <1>11, <1>22, <3>2 DEF JobOK, PayloadJob, Backed, ClaimStages, Scans
    <3>6. BackJob(k)'
      <4> SUFFICES ASSUME k.stage \in WriteBacks, k.id \notin Excepted PROVE BackJob(k)'
        BY <1>24 DEF BackJob
      <4>1. PICK i : i = k.id OBVIOUS
      <4>2. k.read.attempts \in Nat
        <5>1. k.read \in Record BY <3>2, JobFields
        <5> QED BY <5>1 DEF Record
      <4>3. i \in L => k.read.attempts <= seen[i].attempts
        BY <1>1, <1>2, <1>3, <1>6, <2>2, <3>1, <4>1 DEF IInv, Agree, Scans
      <4>4. i \in Live(meta') => k.read.attempts <= meta'[i].attempts
        <5>1. CASE i \in L
          <6>1. meta'[i].attempts = seen[i].attempts + 1 /\ seen[i].attempts \in Nat
            BY <1>13, <1>20, <5>1
          <6> QED BY <4>2, <4>3, <5>1, <6>1
        <5>2. CASE i \notin L
          <6>1. i \in Live(meta') => i \in Live(meta) /\ meta'[i] = meta[i]
            BY <1>20, <1>21, <5>2 DEF Live
          <6> QED BY <3>2, <4>1, <6>1 DEF JobOK, BackJob
        <5> QED BY <5>1, <5>2
      <4>5. ASSUME k.stage = "nack", NEW h \in Holders', h.id = i
            PROVE  h.attempts # k.read.attempts
        <5>1. CASE h \in Holders BY <3>2, <4>1, <4>5, <5>1 DEF JobOK, BackJob
        <5>2. CASE h \in R BY <1>13, <1>29, <4>2, <4>3, <4>5, <5>2
        <5> QED BY <1>28, <4>5, <5>1, <5>2
      <4> QED BY <3>2, <4>1, <4>4, <4>5 DEF JobOK, BackJob
    <3>7. JobOK(k)'
      BY <3>2, <3>3, <3>4, <3>5, <3>6
      DEF JobOK, LoopJob, DeliverJob, ScanJob, ClaimStages, Deliveries, Scans
    <3>8. job'[v] = k BY <1>27, <2>2, <3>1
    <3> QED BY <3>7, <3>8
            DEF JobOK, LoopJob, FreshJob, PlaceJob, PayloadJob, DeliverJob, ScanJob, BackJob
  <2> QED BY <2>1, <2>2
<1>37. ASSUME NEW u \in Workers, NEW v \in Workers, u # v PROVE Agree(job[u], job[v])'
  <2>1. PICK a, b : a = job'[u] /\ b = job'[v] OBVIOUS
  <2>2. ASSUME NEW k, k.stage \notin ClaimStages PROVE Agree(j, k) /\ Agree(k, j)
    BY <1>10, <2>2 DEF Agree, WriteBacks, Scans
  <2>3. Agree(a, b) BY <1>27, <1>35, <1>37, <2>1, <2>2 DEF IInv
  <2>4. Agree(a, b)' BY <1>24, <2>3 DEF Agree
  <2> QED BY <2>1, <2>4 DEF Agree
<1> QED BY <1>19, <1>33, <1>34, <1>36, <1>37 DEF IInv

-----------------------------------------------------------------------------
(* Restarts, time, and the theorems. *)

\* Steps that touch no call.
LEMMA IdleStep ==
    ASSUME IInv, TypeOK', clock' >= clock,
           UNCHANGED <<meta, dead, ready, payload, job, handles, minted, committed, acked, purged,
                       rearmed, clobbered>>
    PROVE  IInv'
<1>1. /\ Holders' = Holders /\ Retired' = Retired /\ Placed' = Placed /\ Excepted' = Excepted
      /\ clock \in Nat /\ clock' \in Nat
  BY DEF Holders, Retired, Placed, Excepted, IInv, TypeOK
<1>2. QueueInv' BY <1>1 DEF IInv, QueueInv, MarkerCoversBacklog, Backed
<1>3. Holders \subseteq Handle
  <2>1. ASSUME NEW v \in Workers, job[v].stage \in Deliveries PROVE job[v].recs \in SUBSET Handle
    <3>1. job[v] \in Job BY DEF IInv, TypeOK
    <3> QED BY <2>1, <3>1, JobFields
  <2>2. handles \in SUBSET Handle BY DEF IInv, TypeOK
  <2> QED BY <2>1, <2>2, HolderIff
<1>4. \A h \in Holders : h.until \in Nat BY <1>3 DEF Handle
<1>5. \A r : \A h \in Holders : Covers(r, h) => Covers(r, h)' BY <1>1, <1>4 DEF Covers
<1>6. HolderInv'
  <2>1. \A g, h \in Holders' : g.id = h.id /\ g.id \notin Excepted' =>
          /\ g.attempts = h.attempts => g = h
          /\ g.attempts < h.attempts => g.until <= clock'
    BY <1>1, <1>4 DEF IInv, HolderInv
  <2>2. ASSUME NEW h \in Holders', h.id \in Live(meta') \ Excepted'
        PROVE  Covers(meta[h.id], h)'
    <3>1. PICK r : r = meta[h.id] OBVIOUS
    <3>2. Covers(r, h) BY <1>1, <2>2, <3>1 DEF IInv, HolderInv
    <3>3. Covers(r, h)' BY <1>1, <1>5, <3>2
    <3> QED BY <3>1, <3>3 DEF Covers
  <2>3. \A h \in Holders' : h.id \in committed' /\ h.attempts \in 1 .. MaxAttempts
    BY <1>1 DEF IInv, HolderInv
  <2> QED BY <2>1, <2>2, <2>3 DEF HolderInv
<1>7. ASSUME NEW v \in Workers PROVE JobOK(job[v])'
  <2>1. PICK k : k = job[v] OBVIOUS
  <2>2. JobOK(k) /\ k \in Job BY <2>1 DEF IInv, TypeOK
  <2>3. ScanJob(k)'
    <3> SUFFICES ASSUME k.stage \in Scans PROVE ScanJob(k)' BY DEF ScanJob
    <3>1. k.now <= clock'
      <4>1. k.now \in Nat /\ k.now <= clock BY <2>2, JobFields DEF JobOK, ScanJob
      <4> QED BY <1>1, <4>1
    <3>2. ASSUME NEW n \in Live(k.seen) \ Excepted'
          PROVE  /\ \A h \in Holders' : h.id = n => Covers(k.seen[n], h)'
                 /\ n \in Live(meta') => meta'[n].attempts = k.seen[n].attempts
      <4>1. /\ \A h \in Holders : h.id = n => Covers(k.seen[n], h)
            /\ n \in Live(meta) => meta[n].attempts = k.seen[n].attempts
        BY <1>1, <2>2, <3>2 DEF JobOK, ScanJob
      <4> QED BY <1>1, <1>5, <4>1
    <3> QED BY <3>1, <3>2 DEF ScanJob
  <2>4. JobOK(k)'
    BY <1>1, <2>2, <2>3
    DEF JobOK, LoopJob, FreshJob, PlaceJob, PayloadJob, DeliverJob, BackJob, Backed
  <2> QED BY <2>1, <2>4
          DEF JobOK, LoopJob, FreshJob, PlaceJob, PayloadJob, DeliverJob, ScanJob, BackJob
<1>8. \A u, v \in Workers : u # v => Agree(job[u], job[v])'
  BY <1>1 DEF IInv, Agree
<1> QED BY <1>2, <1>6, <1>7, <1>8 DEF IInv

LEMMA CrashStep ==
    ASSUME IInv, Crash
    PROVE  IInv'
<1>1. IdleJob \in Job /\ IdleJob.stage = "idle" BY DEF Job, IdleJob
<1>2. /\ job' \in [Workers -> Job] /\ \A v \in Workers : job'[v] = IdleJob
      /\ handles' = {} /\ crashes' \in Nat
      /\ UNCHANGED <<store, clock, calls, history>>
  BY <1>1 DEF Crash, IInv, TypeOK
<1>3. TypeOK' BY <1>2 DEF IInv, TypeOK, store, history
<1>4. Holders' = {} BY <1>1, <1>2, HolderIff DEF Deliveries
<1>5. QueueInv'
  BY <1>2 DEF IInv, QueueInv, MarkerCoversBacklog, Backed, Placed, Retired, store, history
<1>6. HolderInv' BY <1>4 DEF HolderInv
<1>7. PICK j : j = IdleJob OBVIOUS
<1>8. JobOK(j)' /\ Agree(j, j) BY <1>1, <1>7, QuietJob
<1>9. \A v \in Workers : JobOK(job[v])'
  BY <1>2, <1>7, <1>8
  DEF JobOK, LoopJob, FreshJob, PlaceJob, PayloadJob, DeliverJob, ScanJob, BackJob
<1>10. Agree(j, j)' BY <1>1, <1>7 DEF Agree, ClaimStages, WriteBacks, Scans
<1>11. \A u, v \in Workers : Agree(job[u], job[v])' BY <1>2, <1>7, <1>10 DEF Agree
<1> QED BY <1>3, <1>5, <1>6, <1>9, <1>11 DEF IInv

LEMMA InitInv == Init => IInv
<1> SUFFICES ASSUME Init PROVE IInv OBVIOUS
<1>1. IdleJob \in Job /\ IdleJob.stage = "idle" BY DEF Job, IdleJob
<1>2. NoIndex \in Index /\ Live(NoIndex) = {} BY DEF NoIndex, Index, Live
<1>3. job \in [Workers -> Job] /\ \A v \in Workers : job[v] = IdleJob BY <1>1 DEF Init
<1>4. TypeOK BY <1>2, <1>3 DEF Init, TypeOK
<1>5. Live(meta) = {} /\ Live(dead) = {} BY <1>2 DEF Init
<1>6. QueueInv BY <1>5 DEF Init, QueueInv, MarkerCoversBacklog
<1>7. Holders = {} BY <1>1, <1>3, HolderIff DEF Init, Deliveries
<1>8. HolderInv BY <1>7 DEF HolderInv
<1>9. \A v \in Workers : JobOK(job[v])
  BY <1>1, <1>3
  DEF JobOK, LoopJob, FreshJob, PlaceJob, PayloadJob, DeliverJob, ScanJob, BackJob,
      WriteBacks, Scans, Deliveries
<1>10. \A u, v \in Workers : Agree(job[u], job[v])
  BY <1>1, <1>3 DEF Agree, ClaimStages, WriteBacks, Scans
<1> QED BY <1>4, <1>6, <1>8, <1>9, <1>10 DEF IInv

LEMMA NextInv == IInv /\ [Next]_vars => IInv'
<1> SUFFICES ASSUME IInv, [Next]_vars PROVE IInv' OBVIOUS
<1>1. ASSUME NEW w \in Workers, Step(w) PROVE IInv'
  BY <1>1, PublishCommitStep, ClaimListStep, ClaimReadStep, ClaimPlannedStep, ClaimCommitStep,
     ClaimRelistStep, ClaimPruneStep, ClaimReturnStep, AckFreeStep, NackWriteStep,
     SetLastErrorWriteStep, DeadLetterWriteStep, RedriveReadStep, RedrivePutStep,
     RedriveDeleteStep, PurgeReadStep, PurgeFreeStep, PurgeDeleteStep, RebuildSteps
  DEF Step
<1>2. ASSUME NEW w \in Workers, Dispose(w) PROVE IInv'
  BY <1>2, AckStep, NackStep, DeadLetterStep DEF Dispose
<1>3. ASSUME NEW w \in Workers, Operate(w) PROVE IInv'
  <2>1. ASSUME NEW b \in BOOLEAN, SetPaused(w, b) PROVE IInv'
    <3>1. TypeOK' BY <2>1 DEF SetPaused, BeginOperator, IInv, TypeOK, history
    <3>2. clock' >= clock BY <2>1 DEF SetPaused, IInv, TypeOK
    <3> QED BY <2>1, <3>1, <3>2, IdleStep DEF SetPaused, history
  <2> QED BY <1>3, <2>1, RedriveStep, PurgeStep DEF Operate
<1>4. ASSUME NEW w \in Workers, NEW i \in Ids, NEW m \in Modes, Publish(w, i, m) PROVE IInv'
  BY <1>4, PublishStep
<1>5. ASSUME NEW w \in Workers, Claim(w) PROVE IInv' BY <1>5, ClaimStep
<1>6. ASSUME NEW w \in Workers, NEW h \in handles, SetLastError(w, h) PROVE IInv'
  BY <1>6, SetLastErrorStep
<1>7. ASSUME NEW w \in Workers, Rebuild(w) PROVE IInv' BY <1>7, RebuildSteps
<1>8. CASE Crash BY <1>8, CrashStep
<1>9. CASE Tick
  <2>1. TypeOK' /\ clock' >= clock BY <1>9 DEF Tick, IInv, TypeOK, store, history
  <2> QED BY <1>9, <2>1, IdleStep DEF Tick, store, history
<1>10. CASE UNCHANGED vars
  <2>1. TypeOK' /\ clock' >= clock BY <1>10 DEF vars, IInv, TypeOK
  <2> QED BY <1>10, <2>1, IdleStep DEF vars
<1> QED BY <1>1, <1>2, <1>3, <1>4, <1>5, <1>6, <1>7, <1>8, <1>9, <1>10 DEF Next

LEMMA Invariance == Spec => []IInv
BY InitInv, NextInv, PTL DEF Spec

\* Every variable of LogMessaging's work-queue lane keeps its type, and a call holds
\* what its stage needs.
THEOREM TypeCorrect == Spec => []TypeOK
<1>1. IInv => TypeOK BY DEF IInv
<1> QED BY <1>1, Invariance, PTL

\* The drainer's marker: prune_ready never hides a message that is still to be
\* delivered, whatever publishes, nacks and rebuilds overlap the claim.
THEOREM MarkerNeverHides == Spec => []MarkerCoversBacklog
<1>1. IInv => MarkerCoversBacklog BY DEF IInv, QueueInv
<1> QED BY <1>1, Invariance, PTL

\* The payload is written before the record and freed only after an ack, by a purge
\* of the dead letter or of a message that was redriven.
THEOREM PayloadFirst == Spec => []PayloadPresent
<1>1. IInv => PayloadPresent BY DEF IInv, QueueInv, PayloadPresent, Backed
<1> QED BY <1>1, Invariance, PTL

\* claim leases a message to one consumer at a time: two unexpired deliveries are out
\* only of a message that a consumer wrote back late or an operator redrove.
THEOREM OneHolderAtATime == Spec => []OneHolder
<1>1. IInv => OneHolder
  <2> SUFFICES ASSUME IInv, NEW g \in Holders, NEW h \in Holders,
                      g.id = h.id, g # h, g.id \notin clobbered \cup rearmed
               PROVE  g.until <= clock \/ h.until <= clock
    BY DEF OneHolder
  <2>1. g.attempts \in 1 .. MaxAttempts /\ h.attempts \in 1 .. MaxAttempts
    BY DEF IInv, HolderInv
  <2>2. g.attempts # h.attempts BY DEF IInv, HolderInv, Excepted
  <2>3. MaxAttempts \in Nat BY WorkQueueAssumption DEF WorkQueueAssumption
  <2>4. g.attempts < h.attempts \/ h.attempts < g.attempts BY <2>1, <2>2, <2>3
  <2> QED BY <2>4 DEF IInv, HolderInv, Excepted
<1> QED BY <1>1, Invariance, PTL

\* Every delivery is charged in the record, and none is made beyond max_attempts.
THEOREM DeliveriesCharged == Spec => []AttemptsCharged
<1>1. IInv => AttemptsCharged
  <2> SUFFICES ASSUME IInv, NEW h \in Holders
               PROVE  /\ h.attempts \in 1 .. MaxAttempts
                      /\ meta[h.id] # NoRec /\ h.id \notin clobbered \cup rearmed
                          => h.attempts <= meta[h.id].attempts
    BY DEF AttemptsCharged
  <2>1. h.attempts \in 1 .. MaxAttempts BY DEF IInv, HolderInv
  <2>2. h.id \in Ids BY DEF IInv, HolderInv, TypeOK
  <2> QED BY <2>1, <2>2 DEF IInv, HolderInv, Covers, Excepted, Live
<1> QED BY <1>1, Invariance, PTL

\* Nothing is redriven.
RedriveStages == {"redrive", "rearm", "unbury"}
NoRedrive == rearmed = {} /\ \A w \in Workers : job[w].stage \notin RedriveStages

\* A step of another call starts no redrive.
LEMMA NoRedriveGoto ==
    ASSUME IInv, NoRedrive, NEW w \in Workers, NEW j, Goto(w, j), j.stage \notin RedriveStages,
           rearmed' = rearmed
    PROVE  NoRedrive'
<1>1. \A v \in Workers : job'[v] = j \/ job'[v] = job[v] BY DEF Goto, IInv, TypeOK
<1> QED BY <1>1 DEF NoRedrive

LEMMA NoRedriveStep ==
    ASSUME IInv, NoRedrive, NEW w \in Workers, Step(w)
    PROVE  NoRedrive'
<1> USE DEF RedriveStages
<1>1. job[w] \in Job /\ job[w].stage \notin RedriveStages BY DEF IInv, TypeOK, NoRedrive
<1>2. IdleJob.stage \notin RedriveStages BY DEF IdleJob
<1>3. CASE \/ PublishCommit(w) \/ ClaimReturn(w) \/ AckFree(w) \/ NackWrite(w)
           \/ SetLastErrorWrite(w) \/ DeadLetterWrite(w) \/ RebuildMark(w)
  <2>1. Goto(w, IdleJob) /\ rearmed' = rearmed
    BY <1>3 DEF PublishCommit, ClaimReturn, AckFree, NackWrite, SetLastErrorWrite,
                DeadLetterWrite, RebuildMark, history
  <2> QED BY <1>2, <2>1, NoRedriveGoto
<1>4. CASE ClaimList(w)
  <2>1. PICK j : j = [stage |-> "scan", now |-> clock, todo |-> Live(meta), seen |-> NoIndex]
    OBVIOUS
  <2>2. Goto(w, j) /\ rearmed' = rearmed BY <1>4, <2>1 DEF ClaimList, history
  <2> QED BY <2>1, <2>2, NoRedriveGoto
<1>5. CASE ClaimRead(w)
  <2>1. PICK o, i, s : o = job[w] /\ i = First(o.todo) /\ s = [o.seen EXCEPT ![i] = meta[i]]
    OBVIOUS
  <2>2. PICK j : j = [o EXCEPT !.todo = o.todo \ {i}, !.seen = s] OBVIOUS
  <2>3. o \in Job /\ o.stage = "scan" BY <1>1, <1>5, <2>1 DEF ClaimRead
  <2>4. j.stage = "scan" BY <2>2, <2>3 DEF Job
  <2>5. Goto(w, j) /\ rearmed' = rearmed BY <1>5, <2>1, <2>2 DEF ClaimRead, history
  <2> QED BY <2>4, <2>5, NoRedriveGoto
<1>6. CASE ClaimPlanned(w)
  <2>1. PICK j : j = [stage |-> "lease", now |-> job[w].now, seen |-> job[w].seen] OBVIOUS
  <2>2. (Goto(w, j) \/ Goto(w, IdleJob)) /\ rearmed' = rearmed
    BY <1>6, <2>1 DEF ClaimPlanned, Goto, history
  <2> QED BY <1>2, <2>1, <2>2, NoRedriveGoto
<1>7. CASE ClaimCommit(w)
  <2>1. PICK j : j.stage \in {"relist", "return"} /\ Goto(w, j)
    BY <1>7 DEF ClaimCommit
  <2> QED BY <1>7, <2>1, NoRedriveGoto DEF ClaimCommit, history
<1>8. CASE ClaimRelist(w)
  <2>1. PICK o, st : o = job[w] /\ st = IF Live(meta) = {} THEN "prune" ELSE "return" OBVIOUS
  <2>2. PICK j : j = [o EXCEPT !.stage = st] OBVIOUS
  <2>3. j.stage = st BY <1>1, <1>8, <2>1, <2>2 DEF ClaimRelist, Job
  <2>4. Goto(w, j) /\ rearmed' = rearmed BY <1>8, <2>1, <2>2 DEF ClaimRelist, history
  <2> QED BY <2>1, <2>3, <2>4, NoRedriveGoto
<1>9. CASE ClaimPrune(w)
  <2>1. PICK o : o = job[w] OBVIOUS
  <2>2. PICK j : j = [o EXCEPT !.stage = "return"] OBVIOUS
  <2>3. j.stage = "return" BY <1>1, <1>9, <2>1, <2>2 DEF ClaimPrune, Job
  <2>4. Goto(w, j) /\ rearmed' = rearmed BY <1>9, <2>1, <2>2 DEF ClaimPrune, history
  <2> QED BY <2>3, <2>4, NoRedriveGoto
<1>10. CASE PurgeRead(w)
  <2>1. PICK i : i = First(job[w].todo) OBVIOUS
  <2>2. PICK st : st = IF dead[i] # NoRec /\ dead[i].inline THEN "drop" ELSE "erase" OBVIOUS
  <2>3. PICK j : j = [stage |-> st, id |-> i, todo |-> job[w].todo \ {i}] OBVIOUS
  <2>4. Goto(w, j) /\ rearmed' = rearmed BY <1>10, <2>1, <2>2, <2>3 DEF PurgeRead, history
  <2> QED BY <2>2, <2>3, <2>4, NoRedriveGoto
<1>11. CASE PurgeFree(w)
  <2>1. PICK o : o = job[w] OBVIOUS
  <2>2. PICK j : j = [o EXCEPT !.stage = "drop"] OBVIOUS
  <2>3. j.stage = "drop" BY <1>1, <1>11, <2>1, <2>2 DEF PurgeFree, Job
  <2>4. Goto(w, j) /\ rearmed' = rearmed BY <1>11, <2>1, <2>2 DEF PurgeFree, history
  <2> QED BY <2>3, <2>4, NoRedriveGoto
<1>12. CASE PurgeDelete(w)
  <2>1. PICK j : j = [stage |-> "purge", todo |-> job[w].todo] OBVIOUS
  <2>2. (Goto(w, j) \/ Goto(w, IdleJob)) /\ rearmed' = rearmed
    BY <1>12, <2>1 DEF PurgeDelete, Continue, Goto
  <2> QED BY <1>2, <2>1, <2>2, NoRedriveGoto
<1>13. CASE RebuildCheck(w)
  <2>1. PICK j : j = [stage |-> "mark"] OBVIOUS
  <2>2. (Goto(w, j) \/ Goto(w, IdleJob)) /\ rearmed' = rearmed
    BY <1>13, <2>1 DEF RebuildCheck, Goto, history
  <2> QED BY <1>2, <2>1, <2>2, NoRedriveGoto
<1>14. ~RedriveRead(w) /\ ~RedrivePut(w) /\ ~RedriveDelete(w)
  BY <1>1 DEF RedriveRead, RedrivePut, RedriveDelete
<1> QED BY <1>3, <1>4, <1>5, <1>6, <1>7, <1>8, <1>9, <1>10, <1>11, <1>12, <1>13, <1>14 DEF Step

LEMMA NoRedriveNext ==
    ASSUME "redrive" \notin Calls
    PROVE  IInv /\ NoRedrive /\ [Next]_vars => NoRedrive'
<1> SUFFICES ASSUME IInv, NoRedrive, [Next]_vars PROVE NoRedrive' OBVIOUS
<1> USE DEF RedriveStages
<1>1. IdleJob.stage \notin RedriveStages BY DEF IdleJob
<1>2. ASSUME NEW w \in Workers, Step(w) PROVE NoRedrive' BY <1>2, NoRedriveStep
<1>3. ASSUME NEW w \in Workers, NEW h \in handles, NEW st \in WriteBacks, NEW rec,
             ReadBack(w, st, h, rec), rearmed' = rearmed
      PROVE  NoRedrive'
  <2>1. PICK j : j = [stage |-> st, id |-> h.id, read |-> meta[h.id], rec |-> rec] OBVIOUS
  <2>2. j.stage \notin RedriveStages BY <2>1 DEF WriteBacks
  <2>3. Goto(w, j) \/ Goto(w, IdleJob) BY <1>3, <2>1 DEF ReadBack, Goto
  <2> QED BY <1>1, <1>3, <2>2, <2>3, NoRedriveGoto
<1>4. ASSUME NEW w \in Workers, Dispose(w) PROVE NoRedrive'
  <2>1. ASSUME NEW h \in handles, Ack(w, h) PROVE NoRedrive'
    <3>1. PICK j : j = [stage |-> "free", id |-> h.id] OBVIOUS
    <3>2. (Goto(w, j) \/ Goto(w, IdleJob)) /\ rearmed' = rearmed BY <2>1, <3>1 DEF Ack, Goto
    <3> QED BY <1>1, <3>1, <3>2, NoRedriveGoto
  <2>2. ASSUME NEW h \in handles, NEW d \in NackDelays, Nack(w, h, d) PROVE NoRedrive'
    <3>1. PICK rec : rec = [meta[h.id] EXCEPT !.lease = From(clock, d)] OBVIOUS
    <3>2. ReadBack(w, "nack", h, rec) /\ rearmed' = rearmed BY <2>2, <3>1 DEF Nack
    <3> QED BY <1>3, <3>2 DEF WriteBacks
  <2>3. ASSUME NEW h \in handles, DeadLetter(w, h) PROVE NoRedrive'
    <3>1. PICK rec : rec = [meta[h.id] EXCEPT !.lease = 0] OBVIOUS
    <3>2. ReadBack(w, "bury", h, rec) /\ rearmed' = rearmed BY <2>3, <3>1 DEF DeadLetter, history
    <3> QED BY <1>3, <3>2 DEF WriteBacks
  <2> QED BY <1>4, <2>1, <2>2, <2>3 DEF Dispose
<1>5. ASSUME NEW w \in Workers, Operate(w) PROVE NoRedrive'
  <2>1. ASSUME NEW b \in BOOLEAN, SetPaused(w, b) PROVE NoRedrive'
    BY <2>1 DEF SetPaused, history, NoRedrive
  <2>2. ASSUME NEW ids \in SUBSET Ids, Purge(w, ids) PROVE NoRedrive'
    <3>1. PICK j : j = [stage |-> "purge", todo |-> ids] OBVIOUS
    <3>2. Goto(w, j) /\ rearmed' = rearmed BY <2>2, <3>1 DEF Purge, history
    <3> QED BY <3>1, <3>2, NoRedriveGoto
  <2>3. \A f \in BOOLEAN, ids \in SUBSET Ids : ~Redrive(w, f, ids)
    BY DEF Redrive, BeginOperator, Begin
  <2> QED BY <1>5, <2>1, <2>2, <2>3 DEF Operate
<1>6. ASSUME NEW w \in Workers, NEW i \in Ids, NEW m \in Modes, Publish(w, i, m) PROVE NoRedrive'
  <2>1. PICK j : j.stage = "commit" /\ Goto(w, j) BY <1>6 DEF Publish
  <2> QED BY <1>6, <2>1, NoRedriveGoto DEF Publish
<1>7. ASSUME NEW w \in Workers, Claim(w) PROVE NoRedrive'
  <2>1. PICK j : j.stage = "claim" /\ Goto(w, j) BY <1>7 DEF Claim
  <2> QED BY <1>7, <2>1, NoRedriveGoto DEF Claim, history
<1>8. ASSUME NEW w \in Workers, NEW h \in handles, SetLastError(w, h) PROVE NoRedrive'
  <2>1. PICK rec : rec = meta[h.id] OBVIOUS
  <2>2. ReadBack(w, "note", h, rec) /\ rearmed' = rearmed BY <1>8, <2>1 DEF SetLastError, history
  <2> QED BY <1>3, <2>2 DEF WriteBacks
<1>9. ASSUME NEW w \in Workers, Rebuild(w) PROVE NoRedrive'
  <2>1. PICK j : j.stage = "check" /\ Goto(w, j) BY <1>9 DEF Rebuild
  <2> QED BY <1>9, <2>1, NoRedriveGoto DEF Rebuild, history
<1>10. CASE Crash BY <1>1, <1>10 DEF Crash, history, NoRedrive
<1>11. CASE Tick BY <1>11 DEF Tick, history, NoRedrive
<1>12. CASE UNCHANGED vars BY <1>12 DEF vars, NoRedrive
<1> QED BY <1>2, <1>4, <1>5, <1>6, <1>7, <1>8, <1>9, <1>10, <1>11, <1>12 DEF Next

\* At-least-once: as long as no dead letter is redriven, a published message stays in
\* the index or in the dead-letter store until it is acked or purged.  A redrive that
\* overlaps a quarantine of the same message does lose it.
THEOREM NothingIsLost ==
    ASSUME "redrive" \notin Calls
    PROVE  Spec => []NothingLost
<1>1. Init => NoRedrive BY DEF Init, NoRedrive, IdleJob, RedriveStages
<1>2. IInv /\ NoRedrive /\ [Next]_vars => NoRedrive' BY NoRedriveNext
<1>3. IInv /\ NoRedrive => NothingLost
  BY DEF IInv, QueueInv, Placed, Retired, NoRedrive, NothingLost
<1> QED BY <1>1, <1>2, <1>3, Invariance, PTL DEF Spec

\* With redrives, only a message that was redriven can be lost.
THEOREM LostOnlyAfterRedrive ==
    Spec => [](committed \ rearmed \subseteq Live(meta) \cup Live(dead) \cup acked \cup purged)
<1>1. IInv => committed \ rearmed \subseteq Live(meta) \cup Live(dead) \cup acked \cup purged
  BY DEF IInv, QueueInv, Placed, Retired
<1> QED BY <1>1, Invariance, PTL

-----------------------------------------------------------------------------
(* The single-node queue and AtLeastOnce. *)

Parked == Live(dead) \ Released
Charges == [i \in Ids |-> IF i \in Waiting THEN meta[i].attempts ELSE 0]
Abstract == <<Waiting, Parked, Released, Charges>>

\* The mapping, in the words of this module.
LEMMA Mapping ==
    /\ Queue!Init <=> /\ Waiting \in SUBSET Ids
                      /\ Parked = {} /\ Released = {}
                      /\ Charges = [i \in Ids |-> 0]
    /\ Queue!queue = Abstract
BY DEF Queue!Init, Queue!queue, Parked, Charges, Abstract

\* A new topic is an empty queue.
LEMMA QueueInit == Init => Queue!Init
<1> SUFFICES ASSUME Init PROVE Queue!Init OBVIOUS
<1>1. Live(meta) = {} /\ Live(dead) = {} BY DEF Init, NoIndex, Live
<1>2. Released = {} BY DEF Init, Released
<1>3. Waiting = {} /\ Parked = {} BY <1>1, <1>2 DEF Waiting, Parked
<1>4. Charges = [i \in Ids |-> 0] BY <1>3 DEF Charges
<1> QED BY <1>2, <1>3, <1>4, Mapping

\* Where a message is, by its keys.
LEMMA WhereIs ==
    /\ \A i : i \in Waiting <=> i \in Ids /\ meta[i] # NoRec /\ dead[i] = NoRec /\ i \notin Released
    /\ \A i : i \in Parked <=> i \in Ids /\ dead[i] # NoRec /\ i \notin Released
    /\ \A i : i \in Waiting' <=>
          i \in Ids /\ meta'[i] # NoRec /\ dead'[i] = NoRec /\ i \notin Released'
    /\ \A i : i \in Parked' <=> i \in Ids /\ dead'[i] # NoRec /\ i \notin Released'
BY DEF Waiting, Parked, Live

\* Nothing of the abstract queue changes with what is neither stored nor released.
LEMMA StoreStutters ==
    UNCHANGED <<meta, dead, acked, purged, rearmed, clobbered>> => UNCHANGED Abstract
BY DEF Abstract, Waiting, Parked, Released, Charges

\* A message is settled, discarded, redriven or overwritten: it leaves the queue.
\* What happens to one that has left before is nothing to the queue.
LEMMA LeavesQueue ==
    ASSUME NEW m \in Ids, m \in Released', Released' \subseteq Released \cup {m},
           Released \subseteq Released',
           \A i \in Ids \ {m} : meta'[i] = meta[i] /\ dead'[i] = dead[i]
    PROVE  Queue!Next \/ UNCHANGED Abstract
<1>1. \A i \in Ids \ {m} : i \in Released' <=> i \in Released OBVIOUS
<1>2. m \notin Waiting' /\ m \notin Parked' BY WhereIs
<1>3. \A i \in Ids \ {m} : (i \in Waiting' <=> i \in Waiting) /\ (i \in Parked' <=> i \in Parked)
  BY <1>1, WhereIs
<1>4. Waiting \in SUBSET Ids /\ Parked \in SUBSET Ids /\ Waiting' \in SUBSET Ids
      /\ Parked' \in SUBSET Ids
  BY WhereIs
<1>5. Waiting' = Waiting \ {m} /\ Parked' = Parked \ {m} BY <1>2, <1>3, <1>4
<1>6. \A i \in Ids : Charges'[i] = IF i = m THEN 0 ELSE Charges[i]
  <2> SUFFICES ASSUME NEW i \in Ids PROVE Charges'[i] = IF i = m THEN 0 ELSE Charges[i] OBVIOUS
  <2>1. CASE i = m BY <1>2, <2>1 DEF Charges
  <2>2. CASE i # m
    <3>1. (i \in Waiting' <=> i \in Waiting) /\ meta'[i] = meta[i] BY <1>3, <2>2
    <3> QED BY <2>2, <3>1 DEF Charges
  <2> QED BY <2>1, <2>2
<1>7. Charges' = [Charges EXCEPT ![m] = 0] BY <1>6 DEF Charges
<1>8. m \notin Waiting => Charges' = Charges BY <1>7 DEF Charges
<1>9. CASE m \in Released
  <2>1. Released' = Released BY <1>9
  <2>2. m \notin Waiting /\ m \notin Parked BY <1>9, WhereIs
  <2> QED BY <1>5, <1>8, <2>1, <2>2 DEF Abstract
<1>10. CASE m \notin Released
  <2>1. Released' = Released \cup {m} OBVIOUS
  <2>2. CASE m \in Parked
    <3>1. m \notin Waiting BY <2>2, WhereIs
    <3>2. Waiting' = Waiting /\ Charges' = Charges BY <1>5, <1>8, <3>1
    <3>3. Released' = Released \cup ({m} \cap Parked) BY <2>1, <2>2
    <3>4. Queue!Discard({m}) BY <1>5, <3>2, <3>3 DEF Queue!Discard, Parked, Charges
    <3>5. {m} \in SUBSET Ids OBVIOUS
    <3> QED BY <3>4, <3>5 DEF Queue!Next
  <2>3. CASE m \notin Parked
    <3>1. Parked' = Parked BY <1>5, <2>3
    <3>2. Queue!Settle(m) BY <1>5, <1>7, <2>1, <3>1 DEF Queue!Settle, Parked, Charges
    <3> QED BY <3>2 DEF Queue!Next
  <2> QED BY <2>2, <2>3
<1> QED BY <1>9, <1>10

\* A record is written back with the attempts it has.
LEMMA WrittenBack ==
    ASSUME NEW m \in Ids, NEW r, r # NoRec, meta[m] # NoRec, r.attempts = meta[m].attempts,
           meta[m] \in Record, meta \in Index,
           meta' = [meta EXCEPT ![m] = r], dead' = dead, Released' = Released
    PROVE  UNCHANGED Abstract
<1>1. meta'[m] = r /\ \A i \in Ids \ {m} : meta'[i] = meta[i] BY DEF Index
<1>2. \A i \in Ids : meta'[i] # NoRec <=> meta[i] # NoRec BY <1>1
<1>3. Waiting' = Waiting /\ Parked' = Parked BY <1>2, WhereIs
<1>4. \A i \in Ids : Charges'[i] = Charges[i] BY <1>1, <1>3 DEF Charges
<1>5. Charges' = Charges BY <1>4 DEF Charges
<1> QED BY <1>3, <1>5 DEF Abstract

\* publish is the acceptance of a message.
LEMMA PublishAccepts ==
    ASSUME IInv, NEW w \in Workers, PublishCommit(w)
    PROVE  Queue!Next \/ UNCHANGED Abstract
<1> DEFINE j == job[w]
           m == j.id
<1>1. /\ j.stage = "commit" /\ meta' = [meta EXCEPT ![m] = j.rec]
      /\ UNCHANGED <<dead, acked, purged, rearmed, clobbered>>
  BY DEF PublishCommit
<1>2. j \in Job /\ JobOK(j) /\ TypeOK /\ QueueInv BY DEF IInv, TypeOK
<1>3. m \in Ids /\ j.rec \in Record /\ m \notin committed BY <1>1, <1>2, JobFields DEF JobOK, FreshJob
<1>4. meta[m] = NoRec /\ dead[m] = NoRec BY <1>2, <1>3 DEF QueueInv, Live
<1>5. Released' = Released BY <1>1 DEF Released
<1>6. meta'[m] = j.rec /\ \A i \in Ids \ {m} : meta'[i] = meta[i] BY <1>1, <1>2, <1>3 DEF TypeOK, Index
<1>7. j.rec # NoRec BY <1>3, NoRecAssumption DEF NoRecAssumption
<1>8. CASE m \in Released BY <1>1, <1>3, <1>5, <1>6, <1>8, LeavesQueue
<1>9. CASE m \notin Released
  <2>1. m \notin Waiting /\ Waiting' = Waiting \cup {m} /\ Parked' = Parked
    BY <1>1, <1>3, <1>4, <1>5, <1>6, <1>7, <1>9, WhereIs
  <2>2. j.rec.attempts = 0 BY <1>1, <1>2 DEF JobOK, FreshJob
  <2>3. \A i \in Ids : Charges'[i] = Charges[i]
    <3> SUFFICES ASSUME NEW i \in Ids PROVE Charges'[i] = Charges[i] OBVIOUS
    <3>1. CASE i = m BY <1>6, <2>1, <2>2, <3>1 DEF Charges
    <3>2. CASE i # m BY <1>6, <2>1, <3>2 DEF Charges
    <3> QED BY <3>1, <3>2
  <2>4. Charges' = Charges BY <2>3 DEF Charges
  <2>5. Queue!Accept(m) BY <1>5, <2>1, <2>4 DEF Queue!Accept, Parked, Charges
  <2> QED BY <1>3, <2>5 DEF Queue!Next
<1> QED BY <1>8, <1>9

\* nack and set_last_error leave the attempts alone, unless they overwrite a record.
LEMMA WriteBackStutters ==
    ASSUME IInv, NEW w \in Workers, NackWrite(w) \/ SetLastErrorWrite(w)
    PROVE  Queue!Next \/ UNCHANGED Abstract
<1> DEFINE j == job[w]
           m == j.id
<1>1. /\ j.stage \in WriteBacks /\ meta' = [meta EXCEPT ![m] = j.rec] /\ dead' = dead
      /\ UNCHANGED <<acked, purged, rearmed>>
      /\ clobbered' = IF Clobbers(j) THEN clobbered \cup {m} ELSE clobbered
  BY DEF NackWrite, SetLastErrorWrite, WriteBacks
<1>2. j \in Job /\ JobOK(j) /\ TypeOK BY DEF IInv, TypeOK
<1>3. m \in Ids /\ j.read \in Record /\ j.rec \in Record BY <1>1, <1>2, JobFields
<1>4. \A i \in Ids \ {m} : meta'[i] = meta[i] BY <1>1, <1>2 DEF TypeOK, Index
<1>5. CASE Clobbers(j)
  <2>1. Released' = Released \cup {m} BY <1>1, <1>5 DEF Released
  <2> QED BY <1>1, <1>3, <1>4, <2>1, LeavesQueue
<1>6. CASE ~Clobbers(j)
  <2>1. Released' = Released /\ meta[m] = j.read BY <1>1, <1>6 DEF Released, Clobbers
  <2>2. CASE m \in Released BY <1>1, <1>3, <1>4, <2>1, <2>2, LeavesQueue
  <2>3. CASE m \notin Released
    <3>1. m \notin Excepted BY <2>3 DEF Released, Excepted
    <3>2. j.rec.attempts = j.read.attempts BY <1>1, <1>2, <3>1 DEF JobOK, BackJob
    <3>3. j.rec # NoRec /\ meta[m] # NoRec
      BY <1>3, <2>1, NoRecAssumption DEF NoRecAssumption
    <3>4. meta \in Index BY <1>2 DEF TypeOK
    <3> QED BY <1>1, <1>3, <2>1, <3>2, <3>3, <3>4, WrittenBack
  <2> QED BY <2>2, <2>3
<1> QED BY <1>5, <1>6

\* dead_letter parks a message, unless it overwrites a record.
LEMMA BuryParks ==
    ASSUME IInv, NEW w \in Workers, DeadLetterWrite(w)
    PROVE  Queue!Next \/ UNCHANGED Abstract
<1> DEFINE j == job[w]
           m == j.id
<1>1. /\ j.stage \in WriteBacks
      /\ dead' = [dead EXCEPT ![m] = j.rec] /\ meta' = [meta EXCEPT ![m] = NoRec]
      /\ UNCHANGED <<acked, purged, rearmed>>
      /\ clobbered' = IF Clobbers(j) THEN clobbered \cup {m} ELSE clobbered
  BY DEF DeadLetterWrite, WriteBacks
<1>2. j \in Job /\ TypeOK BY DEF IInv, TypeOK
<1>3. m \in Ids /\ j.read \in Record /\ j.rec \in Record BY <1>1, <1>2, JobFields
<1>4. \A i \in Ids \ {m} : meta'[i] = meta[i] /\ dead'[i] = dead[i]
  BY <1>1, <1>2 DEF TypeOK, Index
<1>5. CASE Clobbers(j)
  <2>1. Released' = Released \cup {m} BY <1>1, <1>5 DEF Released
  <2> QED BY <1>3, <1>4, <2>1, LeavesQueue
<1>6. CASE ~Clobbers(j)
  <2>1. Released' = Released /\ meta[m] = j.read BY <1>1, <1>6 DEF Released, Clobbers
  <2>2. CASE m \in Released BY <1>3, <1>4, <2>1, <2>2, LeavesQueue
  <2>3. CASE m \notin Released
    <3>1. j.rec # NoRec /\ meta[m] # NoRec
      BY <1>3, <2>1, NoRecAssumption DEF NoRecAssumption
    <3>2. meta'[m] = NoRec /\ dead'[m] = j.rec BY <1>1, <1>2, <1>3 DEF TypeOK, Index
    <3>3. Waiting' = Waiting \ {m} /\ Parked' = Parked \cup {m}
      BY <1>3, <1>4, <2>1, <2>3, <3>1, <3>2, WhereIs
    <3>4. \A i \in Ids : Charges'[i] = IF i = m THEN 0 ELSE Charges[i]
      <4> SUFFICES ASSUME NEW i \in Ids PROVE Charges'[i] = IF i = m THEN 0 ELSE Charges[i]
        OBVIOUS
      <4>1. CASE i = m BY <3>3, <4>1 DEF Charges
      <4>2. CASE i # m BY <1>4, <3>3, <4>2 DEF Charges
      <4> QED BY <4>1, <4>2
    <3>5. CASE m \in Waiting
      <4>1. Charges' = [i \in Ids |-> IF i \in {} THEN Charges[i] + 1
                                      ELSE IF i \in {m} THEN 0 ELSE Charges[i]]
        BY <3>4 DEF Charges
      <4>2. PICK S, D : S = {} /\ D = {m} OBVIOUS
      <4>3. Queue!Deliver(S, D)
        BY <2>1, <3>3, <3>5, <4>1, <4>2 DEF Queue!Deliver, Parked, Charges
      <4>4. S \in SUBSET Ids /\ D \in SUBSET Ids BY <1>3, <4>2
      <4> QED BY <4>3, <4>4 DEF Queue!Next
    <3>6. CASE m \notin Waiting
      <4>1. Waiting' = Waiting BY <3>3, <3>6
      <4>2. m \in Parked BY <1>3, <2>3, <3>1, <3>6, WhereIs
      <4>3. Parked' = Parked BY <3>3, <4>2
      <4>4. \A i \in Ids : Charges'[i] = Charges[i] BY <3>4, <3>6 DEF Charges
      <4>5. Charges' = Charges BY <4>4 DEF Charges
      <4> QED BY <2>1, <4>1, <4>3, <4>5 DEF Abstract
    <3> QED BY <3>5, <3>6
  <2> QED BY <2>2, <2>3
<1> QED BY <1>5, <1>6

\* A claim delivers, charges and parks what waits.  What it has read of the other
\* messages is stale, and nothing to the queue.
LEMMA ClaimDelivers ==
    ASSUME IInv, NEW w \in Workers, ClaimCommit(w)
    PROVE  Queue!Next
<1>1. PICK o : o = job[w] OBVIOUS
<1>2. PICK L, E : /\ L = PlanLeases(o.seen, o.now, MaxBatch, MaxAttempts)
                  /\ E = PlanDeadLetters(o.seen, o.now, MaxBatch, MaxAttempts)
  OBVIOUS
<1>3. /\ o.stage = "lease"
      /\ meta' = [i \in Ids |-> IF i \in L THEN Leased(o.seen[i], o.now, LeaseMs)
                                ELSE IF i \in E THEN NoRec ELSE meta[i]]
      /\ dead' = [i \in Ids |-> IF i \in E THEN o.seen[i] ELSE dead[i]]
      /\ UNCHANGED <<acked, purged, rearmed, clobbered>>
  BY <1>1, <1>2 DEF ClaimCommit, history
<1>4. o \in Job /\ JobOK(o) /\ TypeOK BY <1>1 DEF IInv, TypeOK
<1>5. o.now \in Nat /\ o.seen \in Index /\ o.stage \in Scans BY <1>3, <1>4, JobFields DEF Scans
<1>6. /\ \A i \in L : i \in Live(o.seen) /\ o.seen[i] \in Record /\ o.seen[i].attempts < MaxAttempts
      /\ \A i \in E : i \in Live(o.seen) /\ o.seen[i] \in Record /\ i \notin L
  BY <1>2, <1>5, PlanFacts
<1>7. \A i \in Live(o.seen) : i \in Ids /\ o.seen[i] # NoRec BY DEF Live
<1>8. \A i \in Live(o.seen) : i \in Waiting => meta[i].attempts = o.seen[i].attempts
  <2>1. \A i \in Waiting : i \in Live(meta) /\ i \notin Excepted
    BY DEF Waiting, Released, Excepted
  <2> QED BY <1>4, <1>5, <2>1 DEF JobOK, ScanJob
<1>9. \A i \in L : /\ Leased(o.seen[i], o.now, LeaseMs) # NoRec
                   /\ Leased(o.seen[i], o.now, LeaseMs).attempts = o.seen[i].attempts + 1
  BY <1>5, <1>6, RecordType, NoRecAssumption DEF NoRecAssumption
<1>10. Released' = Released BY <1>3 DEF Released
<1>11. \A i \in Live(o.seen) : i \in Waiting \/ i \in Parked \/ i \in Released
  <2>1. \A i \in Live(o.seen) : i \in Live(meta) \/ i \in Retired
    BY <1>4, <1>5 DEF JobOK, PlaceJob, Placed
  <2> QED BY <2>1 DEF Waiting, Parked, Released, Retired
<1>12. PICK S, D : S = L \cap Waiting /\ D = E \cap Waiting OBVIOUS
<1>13. \A i \in Ids :
         /\ meta'[i] = IF i \in L THEN Leased(o.seen[i], o.now, LeaseMs)
                       ELSE IF i \in E THEN NoRec ELSE meta[i]
         /\ dead'[i] = IF i \in E THEN o.seen[i] ELSE dead[i]
  BY <1>3
<1>14. \A i \in Ids : i \in Waiting' <=> i \in Waiting /\ i \notin E
  <2> SUFFICES ASSUME NEW i \in Ids PROVE i \in Waiting' <=> i \in Waiting /\ i \notin E OBVIOUS
  <2>1. CASE i \in E BY <1>6, <1>7, <1>13, <2>1, WhereIs
  <2>2. CASE i \in L
    <3>1. meta'[i] # NoRec /\ dead'[i] = dead[i] /\ i \notin E BY <1>6, <1>9, <1>13, <2>2
    <3>2. i \in Waiting \/ i \in Parked \/ i \in Released BY <1>6, <1>11, <2>2
    <3> QED BY <1>10, <3>1, <3>2, WhereIs
  <2>3. CASE i \notin E /\ i \notin L BY <1>10, <1>13, <2>3, WhereIs
  <2> QED BY <2>1, <2>2, <2>3
<1>15. \A i \in Ids : i \in Parked' <=> i \in Parked \/ i \in D
  <2> SUFFICES ASSUME NEW i \in Ids PROVE i \in Parked' <=> i \in Parked \/ i \in D OBVIOUS
  <2>1. CASE i \in E
    <3>1. dead'[i] # NoRec BY <1>6, <1>7, <1>13, <2>1
    <3>2. i \in Waiting \/ i \in Parked \/ i \in Released BY <1>6, <1>11, <2>1
    <3> QED BY <1>10, <1>12, <2>1, <3>1, <3>2, WhereIs
  <2>2. CASE i \notin E BY <1>10, <1>13, <1>12, <2>2, WhereIs
  <2> QED BY <2>1, <2>2
<1>16. Waiting' = Waiting \ D /\ Parked' = Parked \cup D
  <2>1. Waiting \subseteq Ids /\ Waiting' \subseteq Ids /\ Parked \subseteq Ids /\ Parked' \subseteq Ids
    BY WhereIs
  <2> QED BY <1>14, <1>15, <1>12, <2>1
<1>17. \A i \in Ids : Charges'[i] = IF i \in S THEN Charges[i] + 1
                                    ELSE IF i \in D THEN 0 ELSE Charges[i]
  <2> SUFFICES ASSUME NEW i \in Ids
               PROVE  Charges'[i] = IF i \in S THEN Charges[i] + 1
                                    ELSE IF i \in D THEN 0 ELSE Charges[i]
    OBVIOUS
  <2>1. CASE i \in S
    <3>1. i \in Waiting' /\ Charges[i] = o.seen[i].attempts BY <1>6, <1>8, <1>14, <1>12, <2>1 DEF Charges
    <3>2. Charges'[i] = o.seen[i].attempts + 1 BY <1>9, <1>13, <1>12, <2>1, <3>1 DEF Charges
    <3> QED BY <2>1, <3>1, <3>2
  <2>2. CASE i \in D
    <3>1. i \notin Waiting' /\ i \notin S BY <1>6, <1>14, <1>12, <2>2
    <3> QED BY <2>2, <3>1 DEF Charges
  <2>3. CASE i \notin S /\ i \notin D
    <3>1. i \in Waiting' <=> i \in Waiting BY <1>14, <1>12, <2>3
    <3>2. i \in Waiting => meta'[i] = meta[i] BY <1>13, <1>12, <2>3
    <3> QED BY <2>3, <3>1, <3>2 DEF Charges
  <2> QED BY <2>1, <2>2, <2>3
<1>18. Charges' = [i \in Ids |-> IF i \in S THEN Charges[i] + 1
                                 ELSE IF i \in D THEN 0 ELSE Charges[i]]
  BY <1>17 DEF Charges
<1>19. \A i \in S : Charges[i] < MaxAttempts BY <1>6, <1>7, <1>8, <1>12 DEF Charges
<1>20. S \cup D \subseteq Waiting /\ S \cap D = {} BY <1>6, <1>12
<1>21. Waiting \subseteq Ids BY WhereIs
<1>22. Queue!Deliver(S, D)
  BY <1>10, <1>16, <1>18, <1>19, <1>20 DEF Queue!Deliver, Parked, Charges
<1>23. S \in SUBSET Ids /\ D \in SUBSET Ids BY <1>20, <1>21
<1> QED BY <1>22, <1>23 DEF Queue!Next

\* An ack, a late nack, a redrive and a purge take their message out of the queue.
LEMMA AckLeaves ==
    ASSUME IInv, NEW w \in Workers, NEW h \in handles,
           \/ Ack(w, h)
           \/ \E d \in NackDelays : Nack(w, h, d)
    PROVE  Queue!Next \/ UNCHANGED Abstract
<1>1. h.id \in Ids /\ TypeOK BY DEF IInv, TypeOK, Handle
<1>2. CASE Ack(w, h)
  <2>1. /\ meta' = [meta EXCEPT ![h.id] = NoRec] /\ dead' = dead
        /\ Released' = Released \cup {h.id}
    BY <1>2 DEF Ack, Released
  <2>2. \A i \in Ids \ {h.id} : meta'[i] = meta[i] BY <1>1, <2>1 DEF TypeOK, Index
  <2> QED BY <1>1, <2>1, <2>2, LeavesQueue
<1>3. CASE \E d \in NackDelays : Nack(w, h, d)
  <2>1. UNCHANGED <<meta, dead, acked, purged, rearmed>>
        /\ (clobbered' = clobbered \cup {h.id} \/ clobbered' = clobbered)
    BY <1>3 DEF Nack, store
  <2>2. CASE clobbered' = clobbered BY <2>1, <2>2, StoreStutters
  <2>3. CASE clobbered' = clobbered \cup {h.id}
    <3>1. Released' = Released \cup {h.id} BY <2>1, <2>3 DEF Released
    <3> QED BY <1>1, <2>1, <3>1, LeavesQueue
  <2> QED BY <2>1, <2>2, <2>3
<1> QED BY <1>2, <1>3

LEMMA OperatorLeaves ==
    ASSUME IInv, NEW w \in Workers, RedrivePut(w) \/ RedriveDelete(w) \/ PurgeDelete(w)
    PROVE  Queue!Next \/ UNCHANGED Abstract
<1> DEFINE j == job[w]
           m == j.id
<1>1. j \in Job /\ JobOK(j) /\ TypeOK BY DEF IInv, TypeOK
<1>2. CASE RedrivePut(w)
  <2>1. /\ j.stage = "rearm" /\ meta' = [meta EXCEPT ![m] = j.rec] /\ dead' = dead
        /\ Released' = Released \cup {m}
    BY <1>2 DEF RedrivePut, Released
  <2>2. m \in Ids BY <1>1, <2>1, JobFields
  <2>3. \A i \in Ids \ {m} : meta'[i] = meta[i] BY <1>1, <2>1 DEF TypeOK, Index
  <2> QED BY <2>1, <2>2, <2>3, LeavesQueue
<1>3. CASE RedriveDelete(w)
  <2>1. /\ j.stage = "unbury" /\ dead' = [dead EXCEPT ![m] = NoRec] /\ meta' = meta
        /\ Released' = Released
    BY <1>3 DEF RedriveDelete, Released, history
  <2>2. m \in Ids BY <1>1, <2>1, JobFields
  <2>3. m \in Released BY <1>1, <2>1 DEF JobOK, PlaceJob, Released
  <2>4. \A i \in Ids \ {m} : dead'[i] = dead[i] BY <1>1, <2>1 DEF TypeOK, Index
  <2> QED BY <2>1, <2>2, <2>3, <2>4, LeavesQueue
<1>4. CASE PurgeDelete(w)
  <2>1. /\ j.stage = "drop" /\ dead' = [dead EXCEPT ![m] = NoRec] /\ meta' = meta
        /\ UNCHANGED <<acked, rearmed, clobbered>>
        /\ purged' = IF dead[m] = NoRec THEN purged ELSE purged \cup {m}
    BY <1>4 DEF PurgeDelete
  <2>2. m \in Ids BY <1>1, <2>1, JobFields
  <2>3. \A i \in Ids \ {m} : dead'[i] = dead[i] BY <1>1, <2>1 DEF TypeOK, Index
  <2>4. CASE dead[m] = NoRec
    <3>1. dead' = dead BY <1>1, <2>1, <2>2, <2>4 DEF TypeOK, Index
    <3> QED BY <2>1, <2>4, <3>1, StoreStutters
  <2>5. CASE dead[m] # NoRec
    <3>1. Released' = Released \cup {m} BY <2>1, <2>5 DEF Released
    <3> QED BY <2>1, <2>2, <2>3, <3>1, LeavesQueue
  <2> QED BY <2>4, <2>5
<1> QED BY <1>2, <1>3, <1>4

\* Every step of a call is a step of the abstract queue, or none.
LEMMA QueueNext == IInv /\ [Next]_vars => [Queue!Next]_(Queue!queue)
<1> SUFFICES ASSUME IInv, [Next]_vars PROVE Queue!Next \/ UNCHANGED Abstract
  BY Mapping DEF Queue!queue, Abstract, Parked, Charges
<1>1. ASSUME UNCHANGED <<meta, dead, acked, purged, rearmed, clobbered>>
      PROVE  UNCHANGED Abstract
  BY <1>1, StoreStutters
<1>2. ASSUME NEW w \in Workers, Step(w) PROVE Queue!Next \/ UNCHANGED Abstract
  <2>1. CASE PublishCommit(w) BY <2>1, PublishAccepts
  <2>2. CASE ClaimCommit(w) BY <2>2, ClaimDelivers
  <2>3. CASE NackWrite(w) \/ SetLastErrorWrite(w) BY <2>3, WriteBackStutters
  <2>4. CASE DeadLetterWrite(w) BY <2>4, BuryParks
  <2>5. CASE RedrivePut(w) \/ RedriveDelete(w) \/ PurgeDelete(w) BY <2>5, OperatorLeaves
  <2>6. CASE \/ ClaimList(w) \/ ClaimRead(w) \/ ClaimPlanned(w) \/ ClaimRelist(w)
             \/ ClaimReturn(w) \/ RedriveRead(w) \/ PurgeRead(w) \/ RebuildCheck(w)
    BY <1>1, <2>6 DEF ClaimList, ClaimRead, ClaimPlanned, ClaimRelist, ClaimReturn, RedriveRead,
                      PurgeRead, RebuildCheck, store, history
  <2>7. CASE \/ ClaimPrune(w) \/ AckFree(w) \/ PurgeFree(w) \/ RebuildMark(w)
    BY <1>1, <2>7 DEF ClaimPrune, AckFree, PurgeFree, RebuildMark, history
  <2> QED BY <1>2, <2>1, <2>2, <2>3, <2>4, <2>5, <2>6, <2>7 DEF Step
<1>3. ASSUME NEW w \in Workers, Dispose(w) PROVE Queue!Next \/ UNCHANGED Abstract
  <2>1. ASSUME NEW h \in handles, DeadLetter(w, h) PROVE UNCHANGED Abstract
    BY <1>1, <2>1 DEF DeadLetter, store, history
  <2> QED BY <1>3, <2>1, AckLeaves DEF Dispose
<1>4. ASSUME NEW w \in Workers, Operate(w) PROVE UNCHANGED Abstract
  BY <1>1, <1>4 DEF Operate, Redrive, Purge, SetPaused, store, history
<1>5. ASSUME NEW w \in Workers, NEW i \in Ids, NEW m \in Modes, Publish(w, i, m)
      PROVE  UNCHANGED Abstract
  BY <1>1, <1>5 DEF Publish
<1>6. ASSUME NEW w \in Workers, Claim(w) PROVE UNCHANGED Abstract
  BY <1>1, <1>6 DEF Claim, store, history
<1>7. ASSUME NEW w \in Workers, NEW h \in handles, SetLastError(w, h) PROVE UNCHANGED Abstract
  BY <1>1, <1>7 DEF SetLastError, store, history
<1>8. ASSUME NEW w \in Workers, Rebuild(w) PROVE UNCHANGED Abstract
  BY <1>1, <1>8 DEF Rebuild, store, history
<1>9. CASE Crash BY <1>1, <1>9 DEF Crash, store, history
<1>10. CASE Tick BY <1>1, <1>10 DEF Tick, store, history
<1>11. CASE UNCHANGED vars BY <1>1, <1>11 DEF vars
<1> QED BY <1>2, <1>3, <1>4, <1>5, <1>6, <1>7, <1>8, <1>9, <1>10, <1>11 DEF Next

\* The single-node coordinator implements the abstract queue for every message until
\* it is settled, discarded, redriven or overwritten: although every call acts on
\* what it read some steps ago, a claim delivers only what waits, charges it, and
\* parks what it may not deliver.
THEOREM ImplementsAtLeastOnce == Spec => ImplementsQueue
<1>1. Init => Queue!Init BY QueueInit
<1>2. IInv /\ [Next]_vars => [Queue!Next]_(Queue!queue) BY QueueNext
<1> QED BY <1>1, <1>2, Invariance, PTL DEF Spec, ImplementsQueue, Queue!Spec


-----------------------------------------------------------------------------
(* The payloads of dead letters. *)

\* The payload of a record is in the record or in the store, unless a consumer
\* acked the message or an operator redrove it.
Kept(i, r) == i \in acked \cup rearmed \/ r.inline \/ i \in payload

PurgeStages == {"purge", "erase", "drop"}

\* What a call may put into the index or the dead-letter store is kept.
KeptJob(j) ==
    /\ j.stage \notin PurgeStages
    /\ j.stage \in {"commit"} \cup WriteBacks => Kept(j.id, j.rec)
    /\ j.stage \in Scans => \A i \in Live(j.seen) : Kept(i, j.seen[i])

KeptInv ==
    /\ \A i \in Live(meta) : Kept(i, meta[i])
    /\ \A i \in Live(dead) : Kept(i, dead[i])
    /\ \A w \in Workers : KeptJob(job[w])

\* Only payloads of acked messages are freed, so what is kept stays so; a call that
\* goes on has to answer for what it writes and for what it will write.
LEMMA KeptStep ==
    ASSUME IInv, KeptInv, NEW w \in Workers, NEW j, Goto(w, j), KeptJob(j)',
           acked \subseteq acked', rearmed \subseteq rearmed', payload \ acked' \subseteq payload',
           \A i \in Ids : meta'[i] \in {NoRec, meta[i]} \/ Kept(i, meta[i])',
           \A i \in Ids : dead'[i] \in {NoRec, dead[i]} \/ Kept(i, dead[i])'
    PROVE  KeptInv'
<1>1. \A i, r : Kept(i, r) => Kept(i, r)' BY DEF Kept
<1>2. \A k : KeptJob(k) => KeptJob(k)' BY <1>1 DEF KeptJob
<1>3. \A v \in Workers : job'[v] = j \/ job'[v] = job[v] BY DEF Goto, IInv, TypeOK
<1>4. (\A v \in Workers : KeptJob(job[v]))'
  <2> SUFFICES ASSUME NEW v \in Workers PROVE KeptJob(job[v])' OBVIOUS
  <2>1. PICK k : k = job'[v] OBVIOUS
  <2>2. k = j \/ k = job[v] BY <1>3, <2>1
  <2>3. KeptJob(k)'
    <3>1. CASE k = j BY <3>1
    <3>2. CASE k = job[v]
      <4>1. KeptJob(k) BY <3>2 DEF KeptInv
      <4> QED BY <1>2, <4>1
    <3> QED BY <2>2, <3>1, <3>2
  <2> QED BY <2>1, <2>3 DEF KeptJob, Kept
<1>5. \A i \in Live(meta)' : Kept(i, meta[i])'
  <2> TAKE i \in Live(meta)'
  <2>1. i \in Ids /\ meta'[i] # NoRec BY DEF Live
  <2>2. CASE meta'[i] = meta[i]
    <3>1. PICK r : r = meta[i] OBVIOUS
    <3>2. Kept(i, r) BY <2>1, <2>2, <3>1 DEF KeptInv, Live
    <3>3. Kept(i, r)' BY <1>1, <3>2
    <3> QED BY <2>2, <3>1, <3>3 DEF Kept
  <2> QED BY <2>1, <2>2
<1>6. \A i \in Live(dead)' : Kept(i, dead[i])'
  <2> TAKE i \in Live(dead)'
  <2>1. i \in Ids /\ dead'[i] # NoRec BY DEF Live
  <2>2. CASE dead'[i] = dead[i]
    <3>1. PICK r : r = dead[i] OBVIOUS
    <3>2. Kept(i, r) BY <2>1, <2>2, <3>1 DEF KeptInv, Live
    <3>3. Kept(i, r)' BY <1>1, <3>2
    <3> QED BY <2>2, <3>1, <3>3 DEF Kept
  <2> QED BY <2>1, <2>2
<1> QED BY <1>4, <1>5, <1>6 DEF KeptInv

\* A step that writes no record and frees no payload.
LEMMA KeptQuiet ==
    ASSUME IInv, KeptInv, NEW w \in Workers, NEW j, Goto(w, j), KeptJob(j),
           UNCHANGED <<meta, dead, payload, acked, rearmed>>
    PROVE  KeptInv'
<1>1. KeptJob(j)' BY DEF KeptJob, Kept
<1>2. /\ \A i \in Ids : meta'[i] \in {NoRec, meta[i]}
      /\ \A i \in Ids : dead'[i] \in {NoRec, dead[i]}
  OBVIOUS
<1> QED BY <1>1, <1>2, KeptStep

\* A stage in which a call puts no record.
LEMMA KeptIdle ==
    ASSUME NEW j, j.stage \notin {"commit"} \cup WriteBacks \cup Scans \cup PurgeStages
    PROVE  KeptJob(j) /\ KeptJob(j)'
BY DEF KeptJob

\* Every stage of a call.
LEMMA KeptSteps ==
    ASSUME IInv, KeptInv, NEW w \in Workers, Step(w)
    PROVE  KeptInv'
<1> USE DEF WriteBacks, Scans, PurgeStages
<1>1. job[w] \in Job /\ JobOK(job[w]) /\ KeptJob(job[w]) BY DEF IInv, TypeOK, KeptInv
<1>2. KeptJob(IdleJob) /\ KeptJob(IdleJob)'
  <2>1. IdleJob.stage = "idle" BY DEF IdleJob
  <2> QED BY <2>1, KeptIdle
<1>3. meta \in [Ids -> Record \cup {NoRec}] /\ dead \in [Ids -> Record \cup {NoRec}]
  BY DEF IInv, TypeOK, Index
<1>4. CASE PublishCommit(w) \/ NackWrite(w) \/ SetLastErrorWrite(w)
  <2>1. PICK i, r : /\ i = job[w].id /\ r = job[w].rec /\ Goto(w, IdleJob)
                    /\ job[w].stage \in {"commit"} \cup WriteBacks
                    /\ meta' = [meta EXCEPT ![i] = r]
                    /\ UNCHANGED <<dead, payload, acked, rearmed>>
    BY <1>4 DEF PublishCommit, NackWrite, SetLastErrorWrite
  <2>2. Kept(i, r) BY <1>1, <2>1 DEF KeptJob
  <2>3. Kept(i, r)' BY <2>1, <2>2 DEF Kept
  <2>4. \A k \in Ids : meta'[k] \in {NoRec, meta[k]} \/ Kept(k, meta[k])'
    BY <1>3, <2>1, <2>3 DEF Kept
  <2>5. \A k \in Ids : dead'[k] \in {NoRec, dead[k]} BY <2>1
  <2> QED BY <1>2, <2>1, <2>4, <2>5, KeptStep
<1>5. CASE DeadLetterWrite(w)
  <2>1. PICK i, r : /\ i = job[w].id /\ r = job[w].rec /\ Goto(w, IdleJob)
                    /\ job[w].stage \in WriteBacks
                    /\ meta' = [meta EXCEPT ![i] = NoRec]
                    /\ dead' = [dead EXCEPT ![i] = r]
                    /\ UNCHANGED <<payload, acked, rearmed>>
    BY <1>5 DEF DeadLetterWrite
  <2>2. Kept(i, r) BY <1>1, <2>1 DEF KeptJob
  <2>3. Kept(i, r)' BY <2>1, <2>2 DEF Kept
  <2>4. \A k \in Ids : dead'[k] \in {NoRec, dead[k]} \/ Kept(k, dead[k])'
    BY <1>3, <2>1, <2>3 DEF Kept
  <2>5. \A k \in Ids : meta'[k] \in {NoRec, meta[k]} BY <1>3, <2>1
  <2> QED BY <1>2, <2>1, <2>4, <2>5, KeptStep
<1>6. CASE ClaimList(w)
  <2>1. PICK j : j = [stage |-> "scan", now |-> clock, todo |-> Live(meta), seen |-> NoIndex]
    OBVIOUS
  <2>2. KeptJob(j) BY <2>1 DEF KeptJob, Live, NoIndex
  <2> QED BY <1>6, <2>1, <2>2, KeptQuiet DEF ClaimList, store, history
<1>7. CASE ClaimRead(w)
  <2>1. PICK o, i, s : o = job[w] /\ i = First(o.todo) /\ s = [o.seen EXCEPT ![i] = meta[i]]
    OBVIOUS
  <2>2. PICK j : j = [o EXCEPT !.todo = o.todo \ {i}, !.seen = s] OBVIOUS
  <2>3. o \in Job /\ o.stage = "scan" /\ KeptJob(o) BY <1>1, <1>7, <2>1 DEF ClaimRead
  <2>4. j.stage = "scan" /\ j.seen = s /\ o.seen \in Index BY <2>2, <2>3 DEF Job
  <2>5. \A k \in Ids : s[k] = o.seen[k] \/ s[k] = meta[k] BY <2>1, <2>4 DEF Index
  <2>6. \A k \in Live(s) : Kept(k, s[k])
    <3> TAKE k \in Live(s)
    <3>1. k \in Ids /\ s[k] # NoRec BY DEF Live
    <3>2. CASE s[k] = o.seen[k] BY <2>3, <3>1, <3>2 DEF KeptJob, Live
    <3>3. CASE s[k] = meta[k] BY <3>1, <3>3 DEF KeptInv, Live
    <3> QED BY <2>5, <3>1, <3>2, <3>3
  <2>7. KeptJob(j) BY <2>4, <2>6 DEF KeptJob
  <2>8. Goto(w, j) BY <1>7, <2>1, <2>2 DEF ClaimRead
  <2> QED BY <1>7, <2>7, <2>8, KeptQuiet DEF ClaimRead, store, history
<1>8. CASE ClaimPlanned(w)
  <2>1. PICK j : j = [stage |-> "lease", now |-> job[w].now, seen |-> job[w].seen] OBVIOUS
  <2>2. Goto(w, j) \/ Goto(w, IdleJob) BY <1>8, <2>1 DEF ClaimPlanned, Goto
  <2>3. KeptJob(j) BY <1>1, <1>8, <2>1 DEF ClaimPlanned, KeptJob
  <2> QED BY <1>2, <1>8, <2>2, <2>3, KeptQuiet DEF ClaimPlanned, store, history
<1>9. CASE ClaimCommit(w)
  <2>1. PICK o, L, D : /\ o = job[w]
                       /\ L = PlanLeases(o.seen, o.now, MaxBatch, MaxAttempts)
                       /\ D = PlanDeadLetters(o.seen, o.now, MaxBatch, MaxAttempts)
    OBVIOUS
  <2>2. PICK j : j.stage \in {"relist", "return"} /\ Goto(w, j) BY <1>9 DEF ClaimCommit
  <2>3. UNCHANGED <<payload, acked, rearmed>> BY <1>9 DEF ClaimCommit, history
  <2>4. o.stage = "lease" /\ o \in Job BY <1>1, <1>9, <2>1 DEF ClaimCommit
  <2>5. o.seen \in Index BY <2>4 DEF Job
  <2>6. L \subseteq Live(o.seen) /\ D \subseteq Live(o.seen)
    BY <2>1 DEF PlanLeases, PlanDeadLetters, Candidates
  <2>7. \A i \in L \cup D : Kept(i, o.seen[i])' BY <1>1, <2>1, <2>3, <2>4, <2>6 DEF KeptJob, Kept
  <2>8. \A i \in L : Leased(o.seen[i], o.now, LeaseMs).inline = o.seen[i].inline
    BY <2>5, <2>6 DEF Leased, Live, Index, Record
  <2>9. \A i \in Ids : meta'[i] \in {NoRec, meta[i]} \/ Kept(i, meta[i])'
    <3>1. \A i \in Ids : meta'[i] = IF i \in L THEN Leased(o.seen[i], o.now, LeaseMs)
                                    ELSE IF i \in D THEN NoRec ELSE meta[i]
      BY <1>9, <2>1 DEF ClaimCommit
    <3> QED BY <2>7, <2>8, <3>1 DEF Kept
  <2>10. \A i \in Ids : dead'[i] \in {NoRec, dead[i]} \/ Kept(i, dead[i])'
    <3>1. \A i \in Ids : dead'[i] = IF i \in D THEN o.seen[i] ELSE dead[i]
      BY <1>9, <2>1 DEF ClaimCommit
    <3> QED BY <2>7, <3>1 DEF Kept
  <2>11. KeptJob(j)' BY <2>2, KeptIdle
  <2> QED BY <2>2, <2>3, <2>9, <2>10, <2>11, KeptStep
<1>10. CASE ClaimRelist(w)
  <2>1. PICK o, st : o = job[w] /\ st = IF Live(meta) = {} THEN "prune" ELSE "return" OBVIOUS
  <2>2. PICK j : j = [o EXCEPT !.stage = st] OBVIOUS
  <2>3. j.stage = st BY <1>1, <1>10, <2>1, <2>2 DEF ClaimRelist, Job
  <2>4. KeptJob(j) BY <2>1, <2>3, KeptIdle
  <2> QED BY <1>10, <2>1, <2>2, <2>4, KeptQuiet DEF ClaimRelist, store, history
<1>11. CASE ClaimPrune(w)
  <2>1. PICK o : o = job[w] OBVIOUS
  <2>2. PICK j : j = [o EXCEPT !.stage = "return"] OBVIOUS
  <2>3. j.stage = "return" BY <1>1, <1>11, <2>1, <2>2 DEF ClaimPrune, Job
  <2>4. KeptJob(j) BY <2>3, KeptIdle
  <2> QED BY <1>11, <2>1, <2>2, <2>4, KeptQuiet DEF ClaimPrune, history
<1>12. CASE ClaimReturn(w) \/ RebuildMark(w)
  BY <1>2, <1>12, KeptQuiet DEF ClaimReturn, RebuildMark, store, history
<1>13. CASE AckFree(w)
  <2>1. job[w].id \in acked BY <1>1, <1>13 DEF AckFree, JobOK, PlaceJob
  <2>2. payload \ acked' \subseteq payload' /\ UNCHANGED <<meta, dead, acked, rearmed>>
    BY <1>13, <2>1 DEF AckFree, history
  <2>3. /\ \A i \in Ids : meta'[i] \in {NoRec, meta[i]}
        /\ \A i \in Ids : dead'[i] \in {NoRec, dead[i]}
    BY <2>2
  <2> QED BY <1>2, <1>13, <2>2, <2>3, KeptStep DEF AckFree
<1>14. CASE RedriveRead(w)
  <2>1. PICK i : i = First(job[w].todo) OBVIOUS
  <2>2. PICK o, r : o = job[w] /\ r = Rearmed(i) OBVIOUS
  <2>3. PICK j : j = [stage |-> "rearm", id |-> i, rec |-> r,
                      filtered |-> o.filtered, todo |-> o.todo \ {i}] OBVIOUS
  <2>4. PICK k : k = [o EXCEPT !.todo = o.todo \ {i}] OBVIOUS
  <2>5. Goto(w, j) \/ Goto(w, k) \/ Goto(w, IdleJob)
    BY <1>14, <2>1, <2>2, <2>3, <2>4 DEF RedriveRead, Continue, Goto
  <2>6. o.stage = "redrive" /\ o \in Job BY <1>1, <1>14, <2>2 DEF RedriveRead
  <2>7. k.stage = "redrive" BY <2>4, <2>6 DEF Job
  <2>8. KeptJob(j) /\ KeptJob(k) BY <2>3, <2>7, KeptIdle
  <2> QED BY <1>2, <1>14, <2>5, <2>8, KeptQuiet DEF RedriveRead, store, history
<1>15. CASE RedrivePut(w)
  <2>1. PICK i, r : i = job[w].id /\ r = job[w].rec /\ meta' = [meta EXCEPT ![i] = r]
    BY <1>15 DEF RedrivePut
  <2>2. PICK j : j.stage = "unbury" /\ Goto(w, j) BY <1>15 DEF RedrivePut
  <2>3. i \in rearmed' /\ rearmed \subseteq rearmed' /\ UNCHANGED <<dead, payload, acked>>
    BY <1>15, <2>1 DEF RedrivePut
  <2>4. \A k \in Ids : meta'[k] \in {NoRec, meta[k]} \/ Kept(k, meta[k])'
    BY <1>3, <2>1, <2>3 DEF Kept
  <2>5. \A k \in Ids : dead'[k] \in {NoRec, dead[k]} BY <2>3
  <2>6. KeptJob(j)' BY <2>2, KeptIdle
  <2> QED BY <2>2, <2>3, <2>4, <2>5, <2>6, KeptStep
<1>16. CASE RedriveDelete(w)
  <2>1. PICK o : o = job[w] OBVIOUS
  <2>2. PICK j : j = [stage |-> "redrive", filtered |-> o.filtered, todo |-> o.todo] OBVIOUS
  <2>3. Goto(w, j) \/ Goto(w, IdleJob) BY <1>16, <2>1, <2>2 DEF RedriveDelete, Continue, Goto
  <2>4. UNCHANGED <<meta, payload, acked, rearmed>> BY <1>16 DEF RedriveDelete, history
  <2>5. \A k \in Ids : dead'[k] \in {NoRec, dead[k]} BY <1>3, <1>16 DEF RedriveDelete
  <2>6. \A k \in Ids : meta'[k] \in {NoRec, meta[k]} BY <2>4
  <2>7. KeptJob(j)' BY <2>2, KeptIdle
  <2> QED BY <1>2, <2>3, <2>4, <2>5, <2>6, <2>7, KeptStep
<1>17. CASE RebuildCheck(w)
  <2>1. PICK j : j = [stage |-> "mark"] OBVIOUS
  <2>2. Goto(w, j) \/ Goto(w, IdleJob) BY <1>17, <2>1 DEF RebuildCheck, Goto
  <2>3. KeptJob(j) BY <2>1, KeptIdle
  <2> QED BY <1>2, <1>17, <2>2, <2>3, KeptQuiet DEF RebuildCheck, store, history
<1>18. ~PurgeRead(w) /\ ~PurgeFree(w) /\ ~PurgeDelete(w)
  BY <1>1 DEF PurgeRead, PurgeFree, PurgeDelete, KeptJob
<1> QED BY <1>4, <1>5, <1>6, <1>7, <1>8, <1>9, <1>10, <1>11, <1>12, <1>13, <1>14, <1>15,
           <1>16, <1>17, <1>18 DEF Step

LEMMA KeptNext ==
    ASSUME "purge" \notin Calls
    PROVE  IInv /\ KeptInv /\ [Next]_vars => KeptInv'
<1> SUFFICES ASSUME IInv, KeptInv, [Next]_vars PROVE KeptInv' OBVIOUS
<1> USE DEF WriteBacks, Scans, PurgeStages
<1>1. KeptJob(IdleJob) /\ KeptJob(IdleJob)'
  <2>1. IdleJob.stage = "idle" BY DEF IdleJob
  <2> QED BY <2>1, KeptIdle
<1>2. ASSUME NEW w \in Workers, Step(w) PROVE KeptInv' BY <1>2, KeptSteps
<1>3. ASSUME NEW w \in Workers, NEW h \in handles, NEW st \in WriteBacks, NEW rec,
             ReadBack(w, st, h, rec), meta[h.id] # NoRec => rec.inline = meta[h.id].inline,
             UNCHANGED <<meta, dead, payload, acked, rearmed>>
      PROVE  KeptInv'
  <2>1. PICK j : j = [stage |-> st, id |-> h.id, read |-> meta[h.id], rec |-> rec] OBVIOUS
  <2>2. h.id \in Ids BY DEF IInv, TypeOK, Handle
  <2>3. CASE meta[h.id] = NoRec
    <3>1. Goto(w, IdleJob) BY <1>3, <2>3 DEF ReadBack
    <3> QED BY <1>1, <1>3, <3>1, KeptQuiet
  <2>4. CASE meta[h.id] # NoRec
    <3>1. Goto(w, j) BY <1>3, <2>1, <2>4 DEF ReadBack
    <3>2. Kept(h.id, meta[h.id]) BY <2>2, <2>4 DEF KeptInv, Live
    <3>3. Kept(j.id, j.rec) BY <1>3, <2>1, <2>4, <3>2 DEF Kept
    <3>4. KeptJob(j) BY <2>1, <3>3 DEF KeptJob
    <3> QED BY <1>3, <3>1, <3>4, KeptQuiet
  <2> QED BY <2>3, <2>4
<1>4. \A i \in Ids : meta[i] # NoRec => meta[i] \in Record BY DEF IInv, TypeOK, Index
<1>5. \A h \in handles : h.id \in Ids BY DEF IInv, TypeOK, Handle
<1>6. ASSUME NEW w \in Workers, Dispose(w) PROVE KeptInv'
  <2>1. ASSUME NEW h \in handles, Ack(w, h) PROVE KeptInv'
    <3>1. PICK j : j = [stage |-> "free", id |-> h.id] OBVIOUS
    <3>2. Goto(w, j) \/ Goto(w, IdleJob) BY <2>1, <3>1 DEF Ack, Goto
    <3>3. acked \subseteq acked' /\ UNCHANGED <<dead, payload, rearmed>> BY <2>1 DEF Ack
    <3>4. \A i \in Ids : meta'[i] \in {NoRec, meta[i]} BY <2>1 DEF Ack, IInv, TypeOK, Index
    <3>5. \A i \in Ids : dead'[i] \in {NoRec, dead[i]} BY <3>3
    <3>6. KeptJob(j)' BY <3>1, KeptIdle
    <3> QED BY <1>1, <3>2, <3>3, <3>4, <3>5, <3>6, KeptStep
  <2>2. ASSUME NEW h \in handles, NEW d \in NackDelays, Nack(w, h, d) PROVE KeptInv'
    <3>1. PICK rec : rec = [meta[h.id] EXCEPT !.lease = From(clock, d)] OBVIOUS
    <3>2. ReadBack(w, "nack", h, rec) /\ UNCHANGED <<meta, dead, payload, acked, rearmed>>
      BY <2>2, <3>1 DEF Nack, store
    <3>3. meta[h.id] # NoRec => rec.inline = meta[h.id].inline BY <1>4, <1>5, <3>1 DEF Record
    <3> QED BY <1>3, <3>2, <3>3
  <2>3. ASSUME NEW h \in handles, DeadLetter(w, h) PROVE KeptInv'
    <3>1. PICK rec : rec = [meta[h.id] EXCEPT !.lease = 0] OBVIOUS
    <3>2. ReadBack(w, "bury", h, rec) /\ UNCHANGED <<meta, dead, payload, acked, rearmed>>
      BY <2>3, <3>1 DEF DeadLetter, store, history
    <3>3. meta[h.id] # NoRec => rec.inline = meta[h.id].inline BY <1>4, <1>5, <3>1 DEF Record
    <3> QED BY <1>3, <3>2, <3>3
  <2> QED BY <1>6, <2>1, <2>2, <2>3 DEF Dispose
<1>7. ASSUME NEW w \in Workers, Operate(w) PROVE KeptInv'
  <2>1. ASSUME NEW b \in BOOLEAN, SetPaused(w, b) PROVE KeptInv'
    BY <2>1 DEF SetPaused, history, KeptInv, KeptJob, Kept
  <2>2. ASSUME NEW f \in BOOLEAN, NEW ids \in SUBSET Ids, Redrive(w, f, ids) PROVE KeptInv'
    <3>1. PICK j : j = [stage |-> "redrive", filtered |-> f, todo |-> ids] OBVIOUS
    <3>2. KeptJob(j) BY <3>1, KeptIdle
    <3> QED BY <2>2, <3>1, <3>2, KeptQuiet DEF Redrive, store, history
  <2>3. \A ids \in SUBSET Ids : ~Purge(w, ids) BY DEF Purge, BeginOperator, Begin
  <2> QED BY <1>7, <2>1, <2>2, <2>3 DEF Operate
<1>8. ASSUME NEW w \in Workers, NEW i \in Ids, NEW m \in Modes, Publish(w, i, m) PROVE KeptInv'
  <2>1. PICK r : r = [attempts |-> 0, lease |-> From(clock, m.delay),
                      expires |-> From(clock, m.ttl), prio |-> m.prio, inline |-> m.inline]
    OBVIOUS
  <2>2. PICK j : j = [stage |-> "commit", id |-> i, rec |-> r] OBVIOUS
  <2>3. Goto(w, j) /\ payload \subseteq payload' /\ (m.inline \/ i \in payload')
        /\ UNCHANGED <<meta, dead, acked, rearmed>>
    BY <1>8, <2>1, <2>2 DEF Publish
  <2>4. KeptJob(j)' BY <2>1, <2>2, <2>3 DEF KeptJob, Kept
  <2>5. /\ \A k \in Ids : meta'[k] \in {NoRec, meta[k]}
        /\ \A k \in Ids : dead'[k] \in {NoRec, dead[k]}
    BY <2>3
  <2> QED BY <2>3, <2>4, <2>5, KeptStep
<1>9. ASSUME NEW w \in Workers, Claim(w) \/ Rebuild(w) PROVE KeptInv'
  <2>1. PICK j : j.stage \in {"claim", "check"} /\ Goto(w, j) BY <1>9 DEF Claim, Rebuild
  <2>2. KeptJob(j) BY <2>1, KeptIdle
  <2> QED BY <1>9, <2>1, <2>2, KeptQuiet DEF Claim, Rebuild, store, history
<1>10. ASSUME NEW w \in Workers, NEW h \in handles, SetLastError(w, h) PROVE KeptInv'
  <2>1. PICK rec : rec = meta[h.id] OBVIOUS
  <2>2. ReadBack(w, "note", h, rec) /\ UNCHANGED <<meta, dead, payload, acked, rearmed>>
    BY <1>10, <2>1 DEF SetLastError, store, history
  <2> QED BY <1>3, <2>1, <2>2
<1>11. CASE Crash
  <2>1. \A w \in Workers : job'[w] = IdleJob BY <1>11 DEF Crash
  <2>2. UNCHANGED <<meta, dead, payload, acked, rearmed>> BY <1>11 DEF Crash, store, history
  <2> QED BY <1>1, <2>1, <2>2 DEF KeptInv, KeptJob, Kept
<1>12. CASE Tick BY <1>12 DEF Tick, store, history, KeptInv, KeptJob, Kept
<1>13. CASE UNCHANGED vars BY <1>13 DEF vars, KeptInv, KeptJob, Kept
<1> QED BY <1>2, <1>6, <1>7, <1>8, <1>9, <1>10, <1>11, <1>12, <1>13 DEF Next

\* A dead letter can be inspected and redriven: as long as no purge is called, every
\* record, live or dead, has its payload until a consumer acks the message or an
\* operator redrives it.  Nothing but an ack, and a late one of a buried message
\* among them, takes the payload away from a dead letter.
THEOREM DeadLettersReadable ==
    ASSUME "purge" \notin Calls
    PROVE  Spec => [](/\ \A i \in Live(meta) \ (acked \cup rearmed) :
                            meta[i].inline \/ i \in payload
                      /\ \A i \in Live(dead) \ (acked \cup rearmed) :
                            dead[i].inline \/ i \in payload)
<1>1. Init => KeptInv
  BY DEF Init, KeptInv, KeptJob, Live, NoIndex, IdleJob, WriteBacks, Scans, PurgeStages
<1>2. IInv /\ KeptInv /\ [Next]_vars => KeptInv' BY KeptNext
<1>3. KeptInv => /\ \A i \in Live(meta) \ (acked \cup rearmed) :
                        meta[i].inline \/ i \in payload
                 /\ \A i \in Live(dead) \ (acked \cup rearmed) :
                        dead[i].inline \/ i \in payload
  BY DEF KeptInv, Kept
<1> QED BY <1>1, <1>2, <1>3, Invariance, PTL DEF Spec
=============================================================================
