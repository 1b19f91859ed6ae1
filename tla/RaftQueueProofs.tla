-------------------------- MODULE RaftQueueProofs --------------------------
(* Proofs about module RaftQueue, for every value of its constants.         *)
EXTENDS RaftQueue, TLAPS

\* The fields of a WriteOp, by its kind.
LEMMA ProposalTypes ==
    ASSUME NEW o \in Proposal
    PROVE  /\ o.op = "publish" => o.id \in Ids /\ o.rec \in Record /\ o.rec.attempts = 0
           /\ o.op = "claim" => o.now \in Nat
           /\ o.op = "ack" => o.id \in Ids /\ o.inline \in BOOLEAN
           /\ o.op = "nack" => o.id \in Ids /\ o.until \in Nat /\ o.attempt \in Nat
           /\ o.op = "discard" => o.ids \in SUBSET Ids /\ o.objects \in SUBSET Ids
           /\ o.op = "redrive" => o.ids \in SUBSET Ids /\ o.inlined \in SUBSET Ids
           /\ o.op = "pause" => o.to \in BOOLEAN
BY DEF Proposal, Unclaimed

\* What a call carries, by its stage.
LEMMA JobTypes ==
    ASSUME NEW j \in Job
    PROVE  /\ j.stage = "propose" => j.op \in Proposal /\ j.tries \in 1 .. MaxTries
           /\ j.stage = "fetch" => j.recs \in SUBSET Handle
           /\ j.stage = "free" => j.ids \in SUBSET Ids
BY DEF Job

\* Every record the code writes back has the type of a record.
LEMMA RecordWrites ==
    /\ \A b \in BOOLEAN : Fresh(b) \in Record
    /\ \A r \in Record, t \in Nat : Leased(r, t, LeaseMs) \in Record
    /\ \A r \in Record, t \in Nat : [r EXCEPT !.lease = t] \in Record
    /\ \A t, d \in Nat : From(t, d) \in Nat
<1>1. \A b \in BOOLEAN : Fresh(b) \in Record
  BY DEF Fresh, Record
<1>2. ASSUME NEW r \in Record, NEW t \in Nat
      PROVE  Leased(r, t, LeaseMs) \in Record /\ [r EXCEPT !.lease = t] \in Record
  <2>1. [r EXCEPT !.lease = t] \in Record
    BY DEF Record
  <2>2. t + LeaseMs \in Nat
    BY RaftQueueAssumption
  <2>3. r.attempts + 1 \in Nat
    BY DEF Record
  <2>4. Leased(r, t, LeaseMs) \in Record
    BY <2>2, <2>3 DEF Leased, Record
  <2> QED
    BY <2>1, <2>4
<1>3. \A t, d \in Nat : From(t, d) \in Nat
  BY DEF From
<1> QED
  BY <1>1, <1>2, <1>3

\* plan_claim leases and dead-letters only records that exist; what it leases is
\* due, has an attempt left, and is not dead-lettered as well.
LEMMA PlanFacts ==
    ASSUME NEW idx, NEW now
    PROVE  /\ PlanLeases(idx, now, MaxBatch, MaxAttempts) \subseteq Live(idx)
           /\ PlanDeadLetters(idx, now, MaxBatch, MaxAttempts) \subseteq Live(idx)
           /\ \A i \in PlanLeases(idx, now, MaxBatch, MaxAttempts) :
                  /\ Due(idx[i], now) /\ idx[i].attempts < MaxAttempts
                  /\ i \notin PlanDeadLetters(idx, now, MaxBatch, MaxAttempts)
BY DEF PlanLeases, PlanDeadLetters, Candidates, Leasable

-----------------------------------------------------------------------------
(* Type correctness.                                                        *)

\* The part of TypeOK that applying a proposal can change.
AppliedOK ==
    /\ meta \in [Ids -> Record \cup {NoRec}]
    /\ dead \in [Ids -> Record \cup {NoRec}]
    /\ ready \in BOOLEAN
    /\ paused \in BOOLEAN
    /\ committed \in SUBSET Ids
    /\ acked \in SUBSET Ids /\ purged \in SUBSET Ids
    /\ reborn \in SUBSET Ids /\ overrun \in SUBSET Ids
    /\ marked \in BOOLEAN

\* A key that exists holds a record.
LEMMA LiveRecord ==
    ASSUME NEW idx \in [Ids -> Record \cup {NoRec}]
    PROVE  \A i \in Live(idx) : i \in Ids /\ idx[i] \in Record
BY DEF Live

\* apply_op keeps the type of the applied state.
LEMMA ApplyOpType ==
    ASSUME AppliedOK, NEW o \in Proposal, ApplyOp(o)
    PROVE  AppliedOK'
<1> USE DEF AppliedOK
<1>1. CASE o.op = "publish" /\ ApplyPublish(o)
  BY <1>1, ProposalTypes DEF ApplyPublish, ApplyOp
<1>2. CASE o.op = "claim" /\ ApplyClaim(o)
  <2> DEFINE leases == PlanLeases(meta, o.now, MaxBatch, MaxAttempts)
             deads == PlanDeadLetters(meta, o.now, MaxBatch, MaxAttempts)
  <2>1. leases \subseteq Live(meta) /\ deads \subseteq Live(meta)
    BY PlanFacts
  <2>2. \A i \in leases : Leased(meta[i], o.now, LeaseMs) \in Record
    BY <1>2, <2>1, LiveRecord, ProposalTypes, RecordWrites
  <2>3. meta' = [i \in Ids |-> IF i \in leases THEN Leased(meta[i], o.now, LeaseMs)
                               ELSE IF i \in deads THEN NoRec ELSE meta[i]]
    BY <1>2 DEF ApplyClaim
  <2>4. dead' = [i \in Ids |-> IF i \in deads THEN meta[i] ELSE dead[i]]
    BY <1>2 DEF ApplyClaim
  <2>5. ready' \in BOOLEAN
    BY <1>2 DEF ApplyClaim
  <2> HIDE DEF leases, deads
  <2>6. meta' \in [Ids -> Record \cup {NoRec}]
    BY <2>2, <2>3
  <2>7. dead' \in [Ids -> Record \cup {NoRec}]
    BY <2>4
  <2>8. UNCHANGED <<paused, committed, acked, purged, reborn, overrun>>
    BY <1>2 DEF ApplyClaim
  <2>9. marked' \in BOOLEAN
    BY DEF ApplyOp
  <2> QED
    BY <2>5, <2>6, <2>7, <2>8, <2>9
<1>3. CASE o.op = "ack" /\ ApplyAck(o)
  BY <1>3, ProposalTypes DEF ApplyAck, ApplyOp
<1>4. CASE o.op = "nack" /\ ApplyNack(o)
  <2>1. o.id \in Ids /\ o.until \in Nat
    BY <1>4, ProposalTypes
  <2>2. meta[o.id] # NoRec => [meta[o.id] EXCEPT !.lease = o.until] \in Record
    BY <2>1, RecordWrites
  <2>3. meta' \in [Ids -> Record \cup {NoRec}] /\ ready' \in BOOLEAN
    <3>1. CASE meta[o.id] = NoRec
      BY <1>4, <3>1 DEF ApplyNack
    <3>2. CASE meta[o.id] # NoRec
      <4>1. meta' = [meta EXCEPT ![o.id] = [meta[o.id] EXCEPT !.lease = o.until]] /\ ready'
        BY <1>4, <3>2 DEF ApplyNack
      <4> QED
        BY <2>1, <2>2, <3>2, <4>1
    <3> QED
      BY <3>1, <3>2
  <2>4. /\ UNCHANGED <<dead, paused, committed, acked, purged, reborn>>
    BY <1>4 DEF ApplyNack
  <2>5. overrun' \in SUBSET Ids
    BY <1>4, <2>1 DEF ApplyNack
  <2>6. marked' \in BOOLEAN
    BY DEF ApplyOp
  <2> QED
    BY <2>3, <2>4, <2>5, <2>6
<1>5. CASE o.op = "discard" /\ ApplyDiscard(o)
  BY <1>5, ProposalTypes DEF ApplyDiscard, ApplyOp
<1>6. CASE o.op = "redrive" /\ ApplyRedrive(o)
  <2>1. \A i : Fresh(i \in o.inlined) \in Record
    BY DEF Fresh, Record
  <2> QED
    BY <1>6, <2>1, ProposalTypes DEF ApplyRedrive, ApplyOp
<1>7. CASE o.op = "pause" /\ ApplyPause(o)
  BY <1>7, ProposalTypes DEF ApplyPause, ApplyOp
<1>8. CASE o.op = "mark" /\ ApplyMark(o)
  BY <1>8 DEF ApplyMark, ApplyOp
<1> QED
  BY <1>1, <1>2, <1>3, <1>4, <1>5, <1>6, <1>7, <1>8 DEF ApplyOp

\* What a caller goes on with after apply_op answers is a job.
LEMMA AfterApplyType ==
    ASSUME AppliedOK, NEW o \in Proposal
    PROVE  AfterApply(o) \in Job
<1>1. CASE o.op = "claim"
  <2> DEFINE leases == PlanLeases(meta, o.now, MaxBatch, MaxAttempts)
             H(i) == [id |-> i, attempts |-> meta[i].attempts + 1,
                      until |-> o.now + LeaseMs, inline |-> meta[i].inline]
  <2>1. o.now \in Nat /\ o.now + LeaseMs \in Nat
    BY <1>1, ProposalTypes, RaftQueueAssumption
  <2>2. \A i \in leases : i \in Ids /\ meta[i] \in Record
    BY PlanFacts, LiveRecord DEF AppliedOK
  <2>3. \A i \in leases : H(i) \in Handle
    BY <2>1, <2>2 DEF Handle, Record
  <2>4. AfterApply(o) = [stage |-> "fetch", recs |-> {H(i) : i \in leases}]
    BY <1>1 DEF AfterApply
  <2> HIDE DEF leases, H
  <2> QED
    BY <2>3, <2>4 DEF Job
<1>2. CASE o.op # "claim"
  BY <1>2, ProposalTypes DEF AfterApply, IdleJob, Job
<1> QED
  BY <1>1, <1>2

\* Whatever node a call runs on, it reads a state of the right type.
LEMMA ReplicaType ==
    ASSUME TypeOK
    PROVE  Replicas \subseteq Replica
BY DEF TypeOK, Replicas, Replica, Leader

\* An empty or an upgraded cluster has the right type.
LEMMA TypeInit == Init => TypeOK
<1> SUFFICES ASSUME Init PROVE TypeOK
  OBVIOUS
<1> PICK old \in SUBSET Upgraded :
        /\ meta = [i \in Ids |-> IF i \in old THEN Fresh(FALSE) ELSE NoRec]
        /\ payload = old /\ minted = old /\ committed = old /\ marked = (old = {})
  BY DEF Init
<1>1. meta \in [Ids -> Record \cup {NoRec}] /\ dead \in [Ids -> Record \cup {NoRec}]
  BY RecordWrites DEF Init
<1>2. Leader \in Replica
  BY <1>1 DEF Init, Leader, Replica
<1>3. view \in [Followers -> Replica]
  BY <1>2 DEF Init
<1>4. job \in [Workers -> Job]
  BY DEF Init, IdleJob, Job
<1>5. /\ payload \in SUBSET Ids /\ minted \in SUBSET Ids /\ committed \in SUBSET Ids
  BY RaftQueueAssumption
<1>6. marked \in BOOLEAN
  OBVIOUS
<1>7. /\ ready \in BOOLEAN /\ paused \in BOOLEAN /\ late = {} /\ handles = {}
      /\ clock = 0 /\ calls = 0 /\ acked = {} /\ purged = {}
      /\ reborn = {} /\ overrun = {} /\ delivered = {}
  BY DEF Init
<1> QED
  BY <1>1, <1>3, <1>4, <1>5, <1>6, <1>7 DEF TypeOK

\* A call starts: only the proposal it makes has to be looked at.
LEMMA StartType ==
    ASSUME TypeOK, NEW w \in Workers, NEW o \in Proposal, Start(w, o),
           payload' \in SUBSET Ids, handles' \in SUBSET Handle, minted' \in SUBSET Ids
    PROVE  TypeOK'
<1>1. Propose(o) \in Job
  BY RaftQueueAssumption DEF Propose, Job
<1>2. job' \in [Workers -> Job] /\ calls' \in Nat
  BY <1>1 DEF Start, TypeOK
<1> QED
  BY <1>2 DEF Start, TypeOK, applied

\* A node's clock reading is a number, and so is the one furthest ahead.
LEMMA ReadingNat ==
    ASSUME TypeOK
    PROVE  Latest \in Nat /\ \A now \in Readings : now \in Nat /\ now <= Latest
BY RaftQueueAssumption DEF TypeOK, Readings, Latest

\* No step of a call, the forwarder, a follower or the clock breaks the type.
LEMMA TypeNext == TypeOK /\ [Next]_vars => TypeOK'
<1> SUFFICES ASSUME TypeOK, [Next]_vars PROVE TypeOK'
  OBVIOUS
<1>0. AppliedOK
  BY DEF TypeOK, AppliedOK
<1>1. ASSUME NEW w \in Workers, NEW i \in Ids, NEW m \in Modes,
             NEW now \in Readings, Publish(w, i, m, now)
      PROVE  TypeOK'
  <2> DEFINE r == [attempts |-> 0, lease |-> From(now, m.delay),
                   expires |-> From(now, m.ttl), prio |-> m.prio, inline |-> m.inline]
             o == [op |-> "publish", id |-> i, rec |-> r]
  <2>1. m.delay \in Nat /\ m.ttl \in Nat /\ m.prio \in Nat /\ m.inline \in BOOLEAN
    BY RaftQueueAssumption
  <2>0. now \in Nat
    BY ReadingNat
  <2>2. From(now, m.delay) \in Nat /\ From(now, m.ttl) \in Nat
    BY <2>0, <2>1, RecordWrites
  <2>3. r \in Unclaimed
    BY <2>1, <2>2 DEF Record, Unclaimed
  <2>4. o \in Proposal
    BY <2>3 DEF Proposal
  <2>5. /\ payload' \in SUBSET Ids /\ handles' \in SUBSET Handle /\ minted' \in SUBSET Ids
        /\ Start(w, o)
    BY <1>1 DEF Publish, TypeOK
  <2> HIDE DEF o
  <2> QED
    BY <2>4, <2>5, StartType
<1>2. ASSUME NEW w \in Workers, NEW now \in Readings, Claim(w, now)
      PROVE  TypeOK'
  <2>1. [op |-> "claim", now |-> now] \in Proposal
    BY ReadingNat DEF Proposal
  <2> QED
    BY <1>2, <2>1, StartType DEF Claim, TypeOK
<1>3. ASSUME NEW w \in Workers, NEW h \in handles, Ack(w, h)
      PROVE  TypeOK'
  <2>1. [op |-> "ack", id |-> h.id, inline |-> h.inline] \in Proposal
    BY DEF TypeOK, Handle, Proposal
  <2> QED
    BY <1>3, <2>1, StartType DEF Ack, TypeOK
<1>4. ASSUME NEW w \in Workers, NEW h \in handles, NEW d \in NackDelays,
             NEW now \in Readings, Nack(w, h, d, now)
      PROVE  TypeOK'
  <2>1. From(now, d) \in Nat
    BY ReadingNat, RecordWrites, RaftQueueAssumption
  <2>2. [op |-> "nack", id |-> h.id, until |-> From(now, d), attempt |-> h.attempts]
          \in Proposal
    BY <2>1 DEF TypeOK, Handle, Proposal
  <2> QED
    BY <1>4, <2>2, StartType DEF Nack, TypeOK
<1>5. ASSUME NEW w \in Workers, NEW s \in Replicas, NEW t \in Replicas, NEW ids \in SUBSET Ids,
             Discard(w, s, t, ids) \/ Redrive(w, s, t, ids)
      PROVE  TypeOK'
  <2>1. [op |-> "discard", ids |-> ids, objects |-> ids \ InlinedIn(t, ids)]
          \in Proposal
    BY DEF Proposal, InlinedIn
  <2>2. [op |-> "redrive", ids |-> ids, inlined |-> InlinedIn(t, ids)]
          \in Proposal
    BY DEF Proposal, InlinedIn
  <2> QED
    BY <1>5, <2>1, <2>2, StartType DEF Discard, Redrive, TypeOK
<1>6. ASSUME NEW w \in Workers, NEW b \in BOOLEAN, SetPaused(w, b)
      PROVE  TypeOK'
  <2>1. [op |-> "pause", to |-> b] \in Proposal
    BY DEF Proposal
  <2> QED
    BY <1>6, <2>1, StartType DEF SetPaused, TypeOK
<1>7. ASSUME NEW w \in Workers, NEW s \in Replicas, Rebuild(w, s)
      PROVE  TypeOK'
  <2>1. [op |-> "mark"] \in Proposal
    BY DEF Proposal
  <2> QED
    BY <1>7, <2>1, StartType DEF Rebuild, TypeOK
<1>8. ASSUME NEW w \in Workers, Apply(w)
      PROVE  TypeOK'
  <2>1. job[w].op \in Proposal
    BY <1>8, JobTypes DEF Apply, TypeOK
  <2>2. AppliedOK'
    BY <1>0, <1>8, <2>1, ApplyOpType DEF Apply
  <2>3. AfterApply(job[w].op) \in Job
    BY <1>0, <2>1, AfterApplyType
  <2>4. job' \in [Workers -> Job]
    BY <1>8, <2>3 DEF Apply, TypeOK
  <2> QED
    BY <1>8, <2>2, <2>4 DEF Apply, TypeOK, AppliedOK
<1>9. ASSUME NEW w \in Workers, PostFails(w)
      PROVE  TypeOK'
  <2>1. job[w].stage = "propose" /\ job[w].op \in Proposal /\ job[w].tries \in 1 .. MaxTries
    BY <1>9, JobTypes DEF PostFails, TypeOK
  <2>2. late' \in SUBSET Proposal
    BY <1>9, <2>1 DEF PostFails, TypeOK
  <2>3. job' \in [Workers -> Job]
    <3>1. CASE job[w].tries = 1
      BY <1>9, <3>1 DEF PostFails, TypeOK, IdleJob, Job
    <3>2. CASE job[w].tries # 1
      <4>1. job[w].tries - 1 \in 1 .. MaxTries
        BY <2>1, <3>2, RaftQueueAssumption
      <4>2. [job[w] EXCEPT !.tries = job[w].tries - 1] \in Job
        BY <2>1, <4>1 DEF TypeOK, Job
      <4> QED
        BY <1>9, <3>2, <4>2 DEF PostFails, TypeOK
    <3> QED
      BY <3>1, <3>2
  <2> QED
    BY <1>9, <2>2, <2>3 DEF PostFails, TypeOK, applied, history
<1>10. ASSUME NEW o \in late, ApplyLate(o)
       PROVE  TypeOK'
  <2>1. AppliedOK'
    BY <1>0, <1>10, ApplyOpType DEF ApplyLate, TypeOK
  <2> QED
    BY <1>10, <2>1 DEF ApplyLate, TypeOK, AppliedOK
<1>11. ASSUME NEW o \in late, LoseLate(o)
       PROVE  TypeOK'
  BY <1>11 DEF LoseLate, TypeOK, applied, history
<1>12. ASSUME NEW w \in Workers, Fetch(w)
       PROVE  TypeOK'
  <2>1. job[w].recs \in SUBSET Handle
    BY <1>12, JobTypes DEF Fetch, TypeOK
  <2>2. handles' \in SUBSET Handle /\ delivered' \in SUBSET Ids
    BY <1>12, <2>1 DEF Fetch, TypeOK, Handle
  <2>3. job' \in [Workers -> Job]
    BY <1>12 DEF Fetch, TypeOK, IdleJob, Job
  <2> QED
    BY <1>12, <2>2, <2>3 DEF Fetch, TypeOK, applied
<1>13. ASSUME NEW w \in Workers, FreePayload(w) \/ Crash(w)
       PROVE  TypeOK'
  <2>1. job' \in [Workers -> Job]
    BY <1>13 DEF FreePayload, Crash, TypeOK, IdleJob, Job
  <2> QED
    BY <1>13, <2>1 DEF FreePayload, Crash, TypeOK, applied, history
<1>14. ASSUME NEW f \in Followers, CatchUp(f)
       PROVE  TypeOK'
  <2>1. Leader \in Replica
    BY ReplicaType DEF Replicas
  <2>2. view' \in [Followers -> Replica]
    BY <1>14, <2>1 DEF CatchUp, TypeOK
  <2> QED
    BY <1>14, <2>2 DEF CatchUp, TypeOK, applied, history
<1>15. CASE Tick
  BY <1>15 DEF Tick, TypeOK, applied, history
<1>16. CASE UNCHANGED vars
  BY <1>16 DEF vars, TypeOK
<1> QED
  BY <1>1, <1>2, <1>3, <1>4, <1>5, <1>6, <1>7, <1>8, <1>9, <1>10, <1>11, <1>12, <1>13,
     <1>14, <1>15, <1>16 DEF Next, WorkerNext

\* Every reachable state of the replicated queue is well typed: in particular a
\* proposal is posted at most MaxTries times and a key holds a record or nothing.
THEOREM TypeCorrect == Spec => []TypeOK
BY TypeInit, TypeNext, PTL DEF Spec

-----------------------------------------------------------------------------
(* No message is lost, and no backlog is hidden from the drainer.           *)

\* The replicated state changes only where a proposal is applied.
LEMMA AppliedSteps ==
    ASSUME TypeOK, [Next]_vars
    PROVE  \/ \E o \in Proposal : ApplyOp(o)
           \/ UNCHANGED <<meta, dead, ready, paused,
                          committed, acked, purged, reborn, overrun, marked>>
<1>1. ASSUME NEW w \in Workers, Apply(w)
      PROVE  \E o \in Proposal : ApplyOp(o)
  BY <1>1, JobTypes DEF Apply, TypeOK
<1>2. ASSUME NEW o \in late, ApplyLate(o)
      PROVE  \E q \in Proposal : ApplyOp(q)
  BY <1>2 DEF ApplyLate, TypeOK
<1>3. ASSUME NEW w \in Workers, WorkerNext(w), ~Apply(w)
      PROVE  UNCHANGED <<meta, dead, ready, paused,
                         committed, acked, purged, reborn, overrun, marked>>
  BY <1>3 DEF WorkerNext, Publish, Claim, Ack, Nack, Discard, Redrive, SetPaused, Rebuild,
              PostFails, Fetch, FreePayload, Crash, Start, applied, history
<1>4. ASSUME \/ \E o \in late : LoseLate(o)
             \/ \E f \in Followers : CatchUp(f)
             \/ Tick
             \/ UNCHANGED vars
      PROVE  UNCHANGED <<meta, dead, ready, paused,
                         committed, acked, purged, reborn, overrun, marked>>
  BY <1>4 DEF LoseLate, CatchUp, Tick, applied, history, vars
<1> QED
  BY <1>1, <1>2, <1>3, <1>4 DEF Next

\* Applying one proposal loses nothing: what leaves the index goes to the
\* dead-letter store or was acked, what leaves that store was discarded or is
\* in the index.
LEMMA ApplyLosesNothing ==
    ASSUME AppliedOK, NEW o \in Proposal, ApplyOp(o), NothingLost
    PROVE  NothingLost'
<1> USE NoRecAssumption DEF AppliedOK, NothingLost, Live
<1>1. CASE o.op = "publish" /\ ApplyPublish(o)
  BY <1>1, ProposalTypes DEF ApplyPublish
<1>2. CASE o.op = "claim" /\ ApplyClaim(o)
  <2> DEFINE leases == PlanLeases(meta, o.now, MaxBatch, MaxAttempts)
             deads == PlanDeadLetters(meta, o.now, MaxBatch, MaxAttempts)
  <2>1. leases \subseteq Live(meta) /\ deads \subseteq Live(meta)
    BY PlanFacts
  <2>2. \A i \in leases : Leased(meta[i], o.now, LeaseMs) # NoRec
    BY <1>2, <2>1, LiveRecord, ProposalTypes, RecordWrites
  <2>3. /\ meta' = [i \in Ids |-> IF i \in leases THEN Leased(meta[i], o.now, LeaseMs)
                                  ELSE IF i \in deads THEN NoRec ELSE meta[i]]
        /\ dead' = [i \in Ids |-> IF i \in deads THEN meta[i] ELSE dead[i]]
        /\ UNCHANGED <<committed, acked, purged>>
    BY <1>2 DEF ApplyClaim
  <2> HIDE DEF leases, deads
  <2> QED
    BY <2>1, <2>2, <2>3
<1>3. CASE o.op = "ack" /\ ApplyAck(o)
  BY <1>3, ProposalTypes DEF ApplyAck
<1>4. CASE o.op = "nack" /\ ApplyNack(o)
  <2>1. o.id \in Ids /\ o.until \in Nat
    BY <1>4, ProposalTypes
  <2>2. meta[o.id] # NoRec => [meta[o.id] EXCEPT !.lease = o.until] # NoRec
    BY <2>1, RecordWrites
  <2>3. CASE meta[o.id] = NoRec
    BY <1>4, <2>3 DEF ApplyNack
  <2>4. CASE meta[o.id] # NoRec
    <3>1. /\ meta' = [meta EXCEPT ![o.id] = [meta[o.id] EXCEPT !.lease = o.until]]
          /\ UNCHANGED <<dead, committed, acked, purged>>
      BY <1>4, <2>4 DEF ApplyNack
    <3> QED
      BY <2>1, <2>2, <2>4, <3>1
  <2> QED
    BY <2>3, <2>4
<1>5. CASE o.op = "discard" /\ ApplyDiscard(o)
  BY <1>5, ProposalTypes DEF ApplyDiscard
<1>6. CASE o.op = "redrive" /\ ApplyRedrive(o)
  <2>1. \A i : Fresh(i \in o.inlined) \in Record
    BY DEF Fresh, Record
  <2> QED
    BY <1>6, <2>1, ProposalTypes DEF ApplyRedrive
<1>7. CASE o.op = "pause" /\ ApplyPause(o)
  BY <1>7 DEF ApplyPause
<1>8. CASE o.op = "mark" /\ ApplyMark(o)
  BY <1>8 DEF ApplyMark
<1> QED
  BY <1>1, <1>2, <1>3, <1>4, <1>5, <1>6, <1>7, <1>8 DEF ApplyOp

\* At-least-once for the cluster: a publish that was applied stays in the index
\* or in the dead-letter store until it is acked or discarded, for any number of
\* messages, callers, replicas, repeated and late posts.
THEOREM NeverLost == Spec => []NothingLost
<1>1. Init => NothingLost
  <2> SUFFICES ASSUME Init PROVE NothingLost
    OBVIOUS
  <2>1. Fresh(FALSE) \in Record
    BY RecordWrites
  <2>2. PICK old \in SUBSET Upgraded :
            /\ meta = [i \in Ids |-> IF i \in old THEN Fresh(FALSE) ELSE NoRec]
            /\ committed = old
    BY DEF Init
  <2>3. committed \subseteq Live(meta)
    BY <2>1, <2>2, RaftQueueAssumption, NoRecAssumption DEF Live
  <2> QED
    BY <2>3 DEF NothingLost
<1>2. TypeOK /\ NothingLost /\ [Next]_vars => NothingLost'
  <2> SUFFICES ASSUME TypeOK, NothingLost, [Next]_vars PROVE NothingLost'
    OBVIOUS
  <2>1. AppliedOK
    BY DEF TypeOK, AppliedOK
  <2>2. ASSUME NEW o \in Proposal, ApplyOp(o)
        PROVE  NothingLost'
    BY <2>1, <2>2, ApplyLosesNothing
  <2>3. CASE UNCHANGED <<meta, dead, committed, acked, purged>>
    BY <2>3 DEF NothingLost, Live
  <2> QED
    BY <2>2, <2>3, AppliedSteps
<1> QED
  BY <1>1, <1>2, TypeCorrect, PTL DEF Spec

\* Applying one proposal keeps the marker over the backlog: a claim prunes it
\* only when it leaves the index empty, whatever adds a record sets it.
LEMMA ApplyKeepsMarker ==
    ASSUME AppliedOK, NEW o \in Proposal, ApplyOp(o), MarkerCoversBacklog
    PROVE  MarkerCoversBacklog'
<1>0. marked' = (marked \/ ready')
  BY DEF ApplyOp
<1>1. CASE ready'
  BY <1>1 DEF MarkerCoversBacklog
<1>2. CASE ~ready'
  <2>1. marked' => marked
    BY <1>0, <1>2
  <2>2. CASE o.op = "claim" /\ ApplyClaim(o)
    <3> DEFINE leases == PlanLeases(meta, o.now, MaxBatch, MaxAttempts)
               deads == PlanDeadLetters(meta, o.now, MaxBatch, MaxAttempts)
    <3>1. CASE Live(meta') = {}
      BY <3>1 DEF MarkerCoversBacklog, Live
    <3>2. CASE Live(meta') # {}
      <4>1. ~ready
        BY <1>2, <2>2, <3>2 DEF ApplyClaim
      <4>2. CASE marked
        <5>1. Live(meta) = {}
          BY <4>1, <4>2 DEF MarkerCoversBacklog
        <5>2. leases = {} /\ deads = {}
          BY <5>1, PlanFacts
        <5>3. \A i \in Ids : meta'[i] = meta[i]
          BY <2>2, <5>2 DEF ApplyClaim
        <5>4. Live(meta') = {}
          BY <5>1, <5>3 DEF Live
        <5> QED
          BY <3>2, <5>4
      <4> QED
        BY <2>1, <4>2 DEF MarkerCoversBacklog
    <3> QED
      BY <3>1, <3>2
  <2>3. CASE o.op # "claim"
    <3>1. ready' = ready /\ \A i \in Ids : meta[i] = NoRec => meta'[i] = NoRec
      BY <1>2, <2>3, ProposalTypes
         DEF ApplyOp, ApplyPublish, ApplyAck, ApplyNack, ApplyDiscard, ApplyRedrive,
             ApplyPause, ApplyMark, AppliedOK
    <3> QED
      BY <1>2, <2>1, <3>1 DEF MarkerCoversBacklog, Live
  <2> QED
    BY <2>2, <2>3 DEF ApplyOp
<1> QED
  BY <1>1, <1>2

\* Once the topic's ready marker was written (by the first publish, or by the
\* rebuild after an upgrade) every record in the index is found by the drainer.
THEOREM NeverHidden == Spec => []MarkerCoversBacklog
<1>1. Init => MarkerCoversBacklog
  BY DEF Init, MarkerCoversBacklog, Live
<1>2. TypeOK /\ MarkerCoversBacklog /\ [Next]_vars => MarkerCoversBacklog'
  <2> SUFFICES ASSUME TypeOK, MarkerCoversBacklog, [Next]_vars PROVE MarkerCoversBacklog'
    OBVIOUS
  <2>1. AppliedOK
    BY DEF TypeOK, AppliedOK
  <2>2. ASSUME NEW o \in Proposal, ApplyOp(o)
        PROVE  MarkerCoversBacklog'
    BY <2>1, <2>2, ApplyKeepsMarker
  <2>3. CASE UNCHANGED <<meta, ready, marked>>
    BY <2>3 DEF MarkerCoversBacklog, Live
  <2> QED
    BY <2>2, <2>3, AppliedSteps
<1> QED
  BY <1>1, <1>2, TypeCorrect, PTL DEF Spec

-----------------------------------------------------------------------------
(* The replicated queue keeps the promise of AtLeastOnce: each arm of       *)
(* apply_op is a step of the abstract queue or leaves it alone.             *)

\* The abstract state, as the refinement mapping of Queue computes it.
Waiting == Live(meta)
Parked  == Live(dead)
Gone    == acked \cup purged
Charges == [i \in Ids |-> IF meta[i] = NoRec THEN 0 ELSE meta[i].attempts]
Abstract == <<Waiting, Parked, Gone, Charges>>

\* The mapping, in the words of this module.
LEMMA Mapping ==
    /\ Queue!Init <=> /\ Waiting \in SUBSET Ids
                      /\ Parked = {} /\ Gone = {}
                      /\ Charges = [i \in Ids |-> 0]
    /\ Queue!queue = Abstract
BY DEF Queue!Init, Queue!queue, Waiting, Parked, Gone, Charges, Abstract

\* A cluster starts with an empty queue, or with an old one that was never read.
LEMMA QueueInit == Init => Queue!Init
<1> SUFFICES ASSUME Init PROVE Queue!Init
  OBVIOUS
<1>1. PICK old \in SUBSET Upgraded :
         /\ meta = [i \in Ids |-> IF i \in old THEN Fresh(FALSE) ELSE NoRec]
         /\ dead = [i \in Ids |-> NoRec]
         /\ acked = {} /\ purged = {}
  BY DEF Init
<1>2. Fresh(FALSE).attempts = 0
  BY DEF Fresh
<1>3. Waiting \in SUBSET Ids /\ Parked = {} /\ Gone = {}
  BY <1>1 DEF Waiting, Parked, Gone, Live
<1>4. Charges = [i \in Ids |-> 0]
  BY <1>1, <1>2 DEF Charges
<1> QED
  BY <1>3, <1>4, Mapping

\* MqPublish is the acceptance of a message, unless its record is there already.
LEMMA PublishAccepts ==
    ASSUME AppliedOK, NEW o \in Proposal, o.op = "publish", ApplyPublish(o)
    PROVE  (\E i \in Ids : Queue!Accept(i)) \/ UNCHANGED Abstract
<1>1. o.id \in Ids /\ o.rec \in Record /\ o.rec.attempts = 0
  BY ProposalTypes
<1>2. UNCHANGED <<dead, acked, purged>>
  BY DEF ApplyPublish
<1>3. CASE meta[o.id] # NoRec
  BY <1>2, <1>3 DEF ApplyPublish, Abstract, Waiting, Parked, Gone, Charges
<1>4. CASE meta[o.id] = NoRec
  <2>1. meta' = [meta EXCEPT ![o.id] = o.rec]
    BY <1>4 DEF ApplyPublish
  <2>2. Waiting' = Waiting \cup {o.id} /\ o.id \notin Waiting
    BY <1>1, <1>4, <2>1, NoRecAssumption DEF Waiting, Live, AppliedOK, NoRecAssumption
  <2>3. Charges' = Charges
    BY <1>1, <1>4, <2>1 DEF Charges, AppliedOK
  <2>4. Parked' = Parked /\ Gone' = Gone
    BY <1>2 DEF Parked, Gone
  <2>5. Queue!Accept(o.id)
    BY <2>2, <2>3, <2>4 DEF Queue!Accept, Waiting, Parked, Gone, Charges
  <2> QED
    BY <1>1, <2>5
<1> QED
  BY <1>3, <1>4

\* MqClaim delivers what it leases, charges it, and parks what it dead-letters.
LEMMA ClaimDelivers ==
    ASSUME AppliedOK, NEW o \in Proposal, o.op = "claim", ApplyClaim(o)
    PROVE  \E S, D \in SUBSET Ids : Queue!Deliver(S, D)
<1>0. PICK S, D : /\ S = PlanLeases(meta, o.now, MaxBatch, MaxAttempts)
                  /\ D = PlanDeadLetters(meta, o.now, MaxBatch, MaxAttempts)
  OBVIOUS
<1>1. S \cup D \subseteq Waiting /\ S \cap D = {}
  BY <1>0, PlanFacts DEF Waiting
<1>2. \A i \in S : meta[i].attempts < MaxAttempts
  BY <1>0, PlanFacts
<1>3. /\ meta' = [i \in Ids |-> IF i \in S THEN Leased(meta[i], o.now, LeaseMs)
                                ELSE IF i \in D THEN NoRec ELSE meta[i]]
      /\ dead' = [i \in Ids |-> IF i \in D THEN meta[i] ELSE dead[i]]
      /\ UNCHANGED <<acked, purged>>
  BY <1>0 DEF ApplyClaim
<1>4. \A i \in Waiting : i \in Ids /\ meta[i] \in Record /\ meta[i] # NoRec
  BY LiveRecord DEF Waiting, AppliedOK, Live
<1>5. \A i \in S : Leased(meta[i], o.now, LeaseMs) # NoRec
                   /\ Leased(meta[i], o.now, LeaseMs).attempts = meta[i].attempts + 1
  <2>1. o.now \in Nat
    BY ProposalTypes
  <2>2. \A i \in S : Leased(meta[i], o.now, LeaseMs) \in Record
    BY <1>1, <1>4, <2>1, RecordWrites
  <2>3. \A i \in S : Leased(meta[i], o.now, LeaseMs).attempts = meta[i].attempts + 1
    BY <1>1, <1>4 DEF Leased, Record
  <2> QED
    BY <2>2, <2>3, NoRecAssumption DEF NoRecAssumption
<1>6. Waiting' = Waiting \ D
  BY <1>1, <1>3, <1>4, <1>5 DEF Waiting, Live
<1>7. Parked' = Parked \cup D
  BY <1>1, <1>3, <1>4 DEF Parked, Live
<1>8. \A i \in Ids : Charges'[i] = IF i \in S THEN Charges[i] + 1
                                   ELSE IF i \in D THEN 0 ELSE Charges[i]
  BY <1>1, <1>3, <1>4, <1>5 DEF Charges
<1>9. \A i \in S : Charges[i] < MaxAttempts
  BY <1>1, <1>2, <1>4 DEF Charges
<1>10. Charges' = [i \in Ids |-> IF i \in S THEN Charges[i] + 1
                                 ELSE IF i \in D THEN 0 ELSE Charges[i]]
  BY <1>8 DEF Charges
<1>11. Gone' = Gone
  BY <1>3 DEF Gone
<1>12. Queue!Deliver(S, D)
  BY <1>1, <1>6, <1>7, <1>9, <1>10, <1>11
     DEF Queue!Deliver, Waiting, Parked, Gone, Charges
<1> QED
  BY <1>1, <1>4, <1>12

\* MqAck settles the message, MqNack changes its lease only.
LEMMA AckSettles ==
    ASSUME AppliedOK, NEW o \in Proposal, o.op = "ack", ApplyAck(o)
    PROVE  \E i \in Ids : Queue!Settle(i)
<1>1. o.id \in Ids
  BY ProposalTypes
<1>2. /\ meta' = [meta EXCEPT ![o.id] = NoRec]
      /\ acked' = acked \cup {o.id}
      /\ UNCHANGED <<dead, purged>>
  BY DEF ApplyAck
<1>3. Waiting' = Waiting \ {o.id} /\ Gone' = Gone \cup {o.id} /\ Parked' = Parked
  BY <1>1, <1>2 DEF Waiting, Gone, Parked, Live, AppliedOK
<1>4. Charges' = [Charges EXCEPT ![o.id] = 0]
  BY <1>1, <1>2 DEF Charges, AppliedOK
<1>5. Queue!Settle(o.id)
  BY <1>3, <1>4 DEF Queue!Settle, Waiting, Parked, Gone, Charges
<1> QED
  BY <1>1, <1>5

LEMMA NackStutters ==
    ASSUME AppliedOK, NEW o \in Proposal, o.op = "nack", ApplyNack(o)
    PROVE  UNCHANGED Abstract
<1>1. o.id \in Ids /\ o.until \in Nat /\ UNCHANGED <<dead, acked, purged>>
  BY ProposalTypes DEF ApplyNack
<1>2. CASE meta[o.id] = NoRec
  BY <1>1, <1>2 DEF ApplyNack, Abstract, Waiting, Parked, Gone, Charges
<1>3. CASE meta[o.id] # NoRec
  <2> DEFINE r == [meta[o.id] EXCEPT !.lease = o.until]
  <2>1. meta' = [meta EXCEPT ![o.id] = r]
    BY <1>3 DEF ApplyNack
  <2>2. r \in Record /\ r.attempts = meta[o.id].attempts
    BY <1>1, <1>3 DEF AppliedOK, Record
  <2> HIDE DEF r
  <2>3. Waiting' = Waiting
    BY <1>1, <1>3, <2>1, <2>2, NoRecAssumption DEF Waiting, Live, AppliedOK, NoRecAssumption
  <2>4. Charges' = Charges
    BY <1>1, <1>3, <2>1, <2>2, NoRecAssumption DEF Charges, AppliedOK, NoRecAssumption
  <2> QED
    BY <1>1, <2>3, <2>4 DEF Abstract, Parked, Gone
<1> QED
  BY <1>2, <1>3

\* The two operator batches.
LEMMA DiscardDiscards ==
    ASSUME AppliedOK, NEW o \in Proposal, o.op = "discard", ApplyDiscard(o)
    PROVE  \E D \in SUBSET Ids : Queue!Discard(D)
<1>1. o.ids \in SUBSET Ids
  BY ProposalTypes
<1>2. /\ dead' = [i \in Ids |-> IF i \in o.ids THEN NoRec ELSE dead[i]]
      /\ purged' = purged \cup {i \in o.ids : dead[i] # NoRec}
      /\ UNCHANGED <<meta, acked>>
  BY DEF ApplyDiscard
<1>3. Parked' = Parked \ o.ids
  BY <1>2 DEF Parked, Live
<1>4. Gone' = Gone \cup (o.ids \cap Parked)
  BY <1>1, <1>2 DEF Gone, Parked, Live
<1>5. Waiting' = Waiting /\ Charges' = Charges
  BY <1>2 DEF Waiting, Charges
<1>6. Queue!Discard(o.ids)
  BY <1>3, <1>4, <1>5 DEF Queue!Discard, Waiting, Parked, Gone, Charges
<1> QED
  BY <1>1, <1>6

LEMMA RedriveRedrives ==
    ASSUME AppliedOK, NEW o \in Proposal, o.op = "redrive", ApplyRedrive(o)
    PROVE  \E D \in SUBSET Ids : Queue!Redrive(D)
<1>1. o.ids \in SUBSET Ids
  BY ProposalTypes
<1>2. /\ meta' = [i \in Ids |-> IF i \in {k \in o.ids : meta[k] = NoRec}
                                THEN Fresh(i \in o.inlined) ELSE meta[i]]
      /\ dead' = [i \in Ids |-> IF i \in o.ids THEN NoRec ELSE dead[i]]
      /\ UNCHANGED <<acked, purged>>
  BY DEF ApplyRedrive
<1>3. \A i : Fresh(i \in o.inlined) \in Record /\ Fresh(i \in o.inlined).attempts = 0
  BY DEF Fresh, Record
<1>4. \A i : Fresh(i \in o.inlined) # NoRec
  BY <1>3, NoRecAssumption DEF NoRecAssumption
<1>5. Waiting' = Waiting \cup o.ids
  BY <1>1, <1>2, <1>4 DEF Waiting, Live
<1>6. Charges' = Charges
  BY <1>2, <1>3, <1>4 DEF Charges
<1>7. Parked' = Parked \ o.ids /\ Gone' = Gone
  BY <1>2 DEF Parked, Gone, Live
<1>8. Queue!Redrive(o.ids)
  BY <1>5, <1>6, <1>7 DEF Queue!Redrive, Waiting, Parked, Gone, Charges
<1> QED
  BY <1>1, <1>8

\* Every step of the cluster is a step of the abstract queue, or none.
LEMMA QueueNext == TypeOK /\ [Next]_vars => [Queue!Next]_(Queue!queue)
<1> SUFFICES ASSUME TypeOK, [Next]_vars PROVE Queue!Next \/ UNCHANGED Abstract
  BY Mapping DEF Queue!queue, Abstract, Waiting, Parked, Gone, Charges
<1>1. AppliedOK
  BY DEF TypeOK, AppliedOK
<1>2. ASSUME NEW o \in Proposal, ApplyOp(o)
      PROVE  Queue!Next \/ UNCHANGED Abstract
  <2>1. CASE o.op = "publish" /\ ApplyPublish(o)
    BY <1>1, <2>1, PublishAccepts DEF Queue!Next
  <2>2. CASE o.op = "claim" /\ ApplyClaim(o)
    BY <1>1, <2>2, ClaimDelivers DEF Queue!Next
  <2>3. CASE o.op = "ack" /\ ApplyAck(o)
    BY <1>1, <2>3, AckSettles DEF Queue!Next
  <2>4. CASE o.op = "nack" /\ ApplyNack(o)
    BY <1>1, <2>4, NackStutters
  <2>5. CASE o.op = "discard" /\ ApplyDiscard(o)
    BY <1>1, <2>5, DiscardDiscards DEF Queue!Next
  <2>6. CASE o.op = "redrive" /\ ApplyRedrive(o)
    BY <1>1, <2>6, RedriveRedrives DEF Queue!Next
  <2>7. CASE o.op = "pause" /\ ApplyPause(o)
    BY <2>7 DEF ApplyPause, Abstract, Waiting, Parked, Gone, Charges
  <2>8. CASE o.op = "mark" /\ ApplyMark(o)
    BY <2>8 DEF ApplyMark, Abstract, Waiting, Parked, Gone, Charges
  <2> QED
    BY <1>2, <2>1, <2>2, <2>3, <2>4, <2>5, <2>6, <2>7, <2>8 DEF ApplyOp
<1>3. ASSUME UNCHANGED <<meta, dead, ready, paused,
                         committed, acked, purged, reborn, overrun, marked>>
      PROVE  UNCHANGED Abstract
  BY <1>3 DEF Abstract, Waiting, Parked, Gone, Charges
<1> QED
  BY <1>2, <1>3, AppliedSteps

\* The cluster's queue implements the abstract queue: repeated, late and lost
\* posts, lagging replicas and crashes of callers add no behaviour that an
\* at-least-once queue of the same messages and attempts does not have.
THEOREM ImplementsAtLeastOnce == Spec => ImplementsQueue
<1>1. Init => Queue!Init
  BY QueueInit
<1>2. TypeOK /\ [Next]_vars => [Queue!Next]_(Queue!queue)
  BY QueueNext
<1> QED
  BY <1>1, <1>2, TypeCorrect, PTL DEF Spec, ImplementsQueue, Queue!Spec


-----------------------------------------------------------------------------
(* Who has a message, and who may free its payload: the inductive            *)
(* invariants behind PayloadPresent, AckedStaysGone, AttemptsCharged and     *)
(* OneHolder, and their proofs.                                              *)

\* The workers in each stage of a call: proposing, fetching payloads, freeing them.
Proposing == {w \in Workers : job[w].stage = "propose"}
Fetching  == {w \in Workers : job[w].stage = "fetch"}
Freeing   == {w \in Workers : job[w].stage = "free"}

\* The proposals that may still be applied.
Posts == late \cup {job[w].op : w \in Proposing}

\* A dead letter was there, and has not been lost since.
WasDead(i) == i \in committed /\ (dead[i] # NoRec \/ i \in purged \cup reborn)

\* Where message i may be.  Only a message whose publish was applied is stored
\* or disposed of; unless it was indexed again it is in one place, gone once it
\* is acked or discarded, and its payload is there while it can be delivered.
Sound(i) ==
    /\ meta[i] # NoRec \/ dead[i] # NoRec \/ i \in acked \cup purged \cup reborn
          => i \in committed
    /\ i \notin reborn =>
          /\ dead[i] # NoRec => meta[i] = NoRec
          /\ i \in acked \cup purged => meta[i] = NoRec
          /\ i \in purged => dead[i] = NoRec
          /\ meta[i] # NoRec => meta[i].inline \/ i \in payload
          /\ dead[i] # NoRec /\ i \notin acked => dead[i].inline \/ i \in payload

\* What a proposal under way relies on.
Grounded(o) ==
    /\ o.op = "publish" => o.id \in committed \/ o.rec.inline \/ o.id \in payload
    /\ o.op \in {"ack", "nack"} => o.id \in committed
    /\ o.op = "discard" => o.objects \subseteq o.ids /\ \A i \in o.ids : WasDead(i)
    /\ o.op = "redrive" => o.ids \subseteq committed

\* The invariant: every message is sound and every proposal grounded; consumers
\* hold published messages; what a replica shows as dead was dead; a payload
\* object is freed only for an id that was disposed of.
Custody ==
    /\ \A i \in Ids : Sound(i)
    /\ \A o \in Posts : Grounded(o)
    /\ \A h \in handles : h.id \in committed
    /\ \A w \in Fetching : \A h \in job[w].recs : h.id \in committed
    /\ \A f \in Followers : \A i \in Live(view[f].dead) : WasDead(i)
    /\ \A w \in Freeing : job[w].ids \subseteq acked \cup purged \cup reborn

\* Each delivery is held once: by the consumer, or by the claim that fetches it.
HeldOnce ==
    /\ \A g, h \in handles :
          g.id = h.id /\ g.id \notin reborn /\ g.attempts = h.attempts => g = h
    /\ \A w \in Fetching : \A h \in job[w].recs, g \in handles :
          g.id = h.id /\ g.id \notin reborn => g.attempts # h.attempts
    /\ \A v, w \in Fetching : \A g \in job[v].recs, h \in job[w].recs :
          g.id = h.id /\ g.id \notin reborn /\ g.attempts = h.attempts => v = w /\ g = h

\* Delivery h was charged to its record.
Charged(h) ==
    /\ h.attempts \in 1 .. MaxAttempts
    /\ h.id \notin reborn /\ meta[h.id] # NoRec => h.attempts <= meta[h.id].attempts

\* The last delivery has the record's lease, the lease of an earlier one is over.
LastLease(h) ==
    h.id \notin overrun \cup reborn /\ meta[h.id] # NoRec =>
        /\ h.attempts = meta[h.id].attempts => h.until = meta[h.id].lease
        /\ h.attempts < meta[h.id].attempts => h.until <= Latest

\* The delivery that nack o gives back was charged.
NackCharged(o) ==
    o.op = "nack" /\ o.id \notin reborn /\ meta[o.id] # NoRec
        => o.attempt <= meta[o.id].attempts

\* Nobody holds the delivery that nack o gives back.
GivenUp(o) ==
    o.op = "nack" /\ o.id \notin reborn
        => \A h \in Holders : h.id = o.id => h.attempts # o.attempt

\* The invariant behind OneHolder.  A claim carries a reading no clock of the
\* cluster is behind for good: the fastest one has reached it, so the lease of the
\* delivery before the one it makes is over on that clock.
Leasing ==
    /\ \A h \in Holders : Charged(h) /\ LastLease(h)
    /\ \A o \in Posts : NackCharged(o) /\ GivenUp(o) /\ (o.op = "claim" => o.now <= Latest)
    /\ HeldOnce
    /\ OneHolder

-----------------------------------------------------------------------------

\* Every post that may still be applied is a proposal.
LEMMA PostTypes ==
    ASSUME TypeOK
    PROVE  Posts \subseteq Proposal
BY JobTypes DEF Posts, Proposing, TypeOK

\* A step that starts no proposal.
LEMMA NoNewPost ==
    ASSUME TypeOK, NEW w \in Workers, NEW j, job' = [job EXCEPT ![w] = j],
           j.stage # "propose", late' \subseteq Posts
    PROVE  Posts' \subseteq Posts
BY DEF Posts, Proposing, TypeOK

\* A caller that returns leaves no post behind but the abandoned ones.
LEMMA ReturnPosts ==
    ASSUME TypeOK, NEW w \in Workers, job' = [job EXCEPT ![w] = IdleJob], late' = late
    PROVE  Posts' \subseteq Posts
<1>1. IdleJob.stage # "propose" /\ late' \subseteq Posts
  BY DEF IdleJob, Posts
<1> QED
  BY <1>1, NoNewPost

\* A step that starts a proposal.
LEMMA StartPosts ==
    ASSUME TypeOK, NEW w \in Workers, NEW o, Start(w, o)
    PROVE  /\ Posts' \subseteq Posts \cup {o}
           /\ Fetching' = Fetching /\ Freeing' = Freeing
           /\ \A v \in Fetching \cup Freeing : job'[v] = job[v]
BY DEF Start, Propose, IdleJob, Posts, Proposing, Fetching, Freeing, TypeOK

\* Applying a proposal forgets nothing about a message.
LEMMA ApplyMonotone ==
    ASSUME AppliedOK, NEW o \in Proposal, ApplyOp(o), \A i \in Ids : Sound(i)
    PROVE  /\ committed \subseteq committed'
           /\ acked \cup purged \cup reborn \subseteq (acked \cup purged \cup reborn)'
           /\ \A i \in Ids : WasDead(i) => WasDead(i)'
<1>1. /\ committed \subseteq committed' /\ acked \subseteq acked'
      /\ purged \subseteq purged' /\ reborn \subseteq reborn'
  BY DEF ApplyOp, ApplyPublish, ApplyClaim, ApplyAck, ApplyNack, ApplyDiscard, ApplyRedrive,
         ApplyPause, ApplyMark
<1>2. ASSUME NEW i \in Ids, WasDead(i)
      PROVE  WasDead(i)'
  <2>1. CASE i \in purged \cup reborn
    BY <1>1, <1>2, <2>1 DEF WasDead
  <2>2. CASE dead[i] # NoRec /\ i \notin reborn
    <3>1. meta[i] = NoRec
      BY <2>2 DEF Sound
    <3>2. CASE o.op = "claim" /\ ApplyClaim(o)
      <4>1. i \notin PlanDeadLetters(meta, o.now, MaxBatch, MaxAttempts)
        BY <3>1, PlanFacts DEF Live
      <4>2. dead'[i] = dead[i]
        BY <3>2, <4>1 DEF ApplyClaim
      <4> QED
        BY <1>1, <1>2, <2>2, <4>2 DEF WasDead
    <3>3. CASE o.op = "discard" /\ ApplyDiscard(o)
      BY <1>1, <1>2, <2>2, <3>3 DEF WasDead, ApplyDiscard
    <3>4. CASE o.op = "redrive" /\ ApplyRedrive(o)
      BY <1>1, <1>2, <2>2, <3>1, <3>4 DEF WasDead, ApplyRedrive
    <3>5. CASE o.op \notin {"claim", "discard", "redrive"}
      <4>1. dead' = dead
        BY <3>5 DEF ApplyOp, ApplyPublish, ApplyAck, ApplyNack, ApplyPause, ApplyMark
      <4> QED
        BY <1>1, <1>2, <2>2, <4>1 DEF WasDead
    <3> QED
      BY <3>2, <3>3, <3>4, <3>5 DEF ApplyOp
  <2> QED
    BY <1>2, <2>1, <2>2 DEF WasDead
<1> QED
  BY <1>1, <1>2

\* Applying a grounded proposal keeps every message sound.
LEMMA ApplySound ==
    ASSUME AppliedOK, NEW o \in Proposal, Grounded(o), ApplyOp(o),
           \A i \in Ids : Sound(i), payload' = payload,
           NEW i \in Ids
    PROVE  Sound(i)'
<1>0. Sound(i)
  OBVIOUS
<1>1. CASE o.op = "publish" /\ ApplyPublish(o)
  BY <1>0, <1>1, ProposalTypes DEF Sound, Grounded, ApplyPublish, AppliedOK
<1>2. CASE o.op = "claim" /\ ApplyClaim(o)
  <2> DEFINE leases == PlanLeases(meta, o.now, MaxBatch, MaxAttempts)
             deads == PlanDeadLetters(meta, o.now, MaxBatch, MaxAttempts)
  <2>1. /\ leases \subseteq Live(meta) /\ deads \subseteq Live(meta)
        /\ leases \cap deads = {}
    BY PlanFacts
  <2>2. /\ meta'[i] = IF i \in leases THEN Leased(meta[i], o.now, LeaseMs)
                      ELSE IF i \in deads THEN NoRec ELSE meta[i]
        /\ dead'[i] = IF i \in deads THEN meta[i] ELSE dead[i]
        /\ UNCHANGED <<committed, acked, purged, reborn>>
    BY <1>2 DEF ApplyClaim
  <2>3. i \in leases => Leased(meta[i], o.now, LeaseMs).inline = meta[i].inline
    <3>1. i \in leases => meta[i] \in Record
      BY <2>1, LiveRecord DEF AppliedOK
    <3> QED
      BY <3>1 DEF Leased, Record
  <2>4. i \in leases \cup deads => meta[i] # NoRec
    BY <2>1 DEF Live
  <2> HIDE DEF leases, deads
  <2> QED
    BY <1>0, <2>1, <2>2, <2>3, <2>4 DEF Sound
<1>3. CASE o.op = "ack" /\ ApplyAck(o)
  BY <1>0, <1>3, ProposalTypes DEF Sound, Grounded, ApplyAck, AppliedOK
<1>4. CASE o.op = "nack" /\ ApplyNack(o)
  <2>1. o.id \in Ids
    BY <1>4, ProposalTypes
  <2>2. UNCHANGED <<dead, committed, acked, purged, reborn>>
    BY <1>4 DEF ApplyNack
  <2>3. CASE meta'[i] = meta[i]
    BY <1>0, <2>2, <2>3 DEF Sound
  <2>4. CASE meta'[i] # meta[i]
    <3>1. i = o.id /\ meta[i] # NoRec /\ meta'[i] = [meta[i] EXCEPT !.lease = o.until]
      BY <1>4, <2>1, <2>4 DEF ApplyNack, AppliedOK
    <3>2. meta'[i].inline = meta[i].inline
      BY <3>1 DEF AppliedOK, Record
    <3> QED
      BY <1>0, <2>2, <3>1, <3>2 DEF Sound
  <2> QED
    BY <2>3, <2>4
<1>5. CASE o.op = "discard" /\ ApplyDiscard(o)
  BY <1>0, <1>5 DEF Sound, ApplyDiscard
<1>6. CASE o.op = "redrive" /\ ApplyRedrive(o)
  <2>1. o.ids \subseteq committed
    BY <1>6 DEF Grounded
  <2> QED
    BY <1>0, <1>6, <2>1 DEF Sound, ApplyRedrive
<1>7. CASE o.op \in {"pause", "mark"}
  BY <1>0, <1>7 DEF Sound, ApplyOp, ApplyPause, ApplyMark
<1> QED
  BY <1>1, <1>2, <1>3, <1>4, <1>5, <1>6, <1>7 DEF ApplyOp

\* Custody holds of an empty and of an upgraded cluster.
LEMMA CustodyInit == Init => Custody
<1> SUFFICES ASSUME Init PROVE Custody
  OBVIOUS
<1>1. PICK old \in SUBSET Upgraded :
          /\ meta = [i \in Ids |-> IF i \in old THEN Fresh(FALSE) ELSE NoRec]
          /\ payload = old /\ committed = old
  BY DEF Init
<1>2. /\ dead = [i \in Ids |-> NoRec] /\ acked = {} /\ purged = {} /\ reborn = {}
      /\ handles = {} /\ late = {} /\ job = [w \in Workers |-> IdleJob]
      /\ view = [f \in Followers |-> Leader]
  BY DEF Init
<1>3. \A i \in Ids : Sound(i)
  BY <1>1, <1>2 DEF Sound
<1>4. Proposing = {} /\ Fetching = {} /\ Freeing = {}
  BY <1>2 DEF Proposing, Fetching, Freeing, IdleJob
<1>5. Posts = {}
  BY <1>2, <1>4 DEF Posts
<1>6. \A f \in Followers : Live(view[f].dead) = {}
  BY <1>2 DEF Leader, Live
<1> QED
  BY <1>2, <1>3, <1>4, <1>5, <1>6 DEF Custody

\* Starting a call with a grounded proposal disturbs nothing.
LEMMA StartCustody ==
    ASSUME TypeOK, Custody, NEW w \in Workers, NEW o, Start(w, o), Grounded(o)',
           payload \subseteq payload', handles' \subseteq handles
    PROVE  Custody'
<1>1. /\ Posts' \subseteq Posts \cup {o}
      /\ Fetching' = Fetching /\ Freeing' = Freeing
      /\ \A v \in Fetching \cup Freeing : job'[v] = job[v]
  BY StartPosts
<1>2. UNCHANGED <<meta, dead, view, committed, acked, purged, reborn>>
  BY DEF Start, applied
<1>3. \A i \in Ids : Sound(i)'
  BY <1>2 DEF Custody, Sound
<1>4. \A q \in Posts : Grounded(q)'
  BY <1>2 DEF Custody, Grounded, WasDead
<1>5. \A f \in Followers : \A i \in Live(view'[f].dead) : WasDead(i)'
  BY <1>2 DEF Custody, WasDead, Live
<1>6. \A q \in Posts' : Grounded(q)'
  BY <1>1, <1>4
<1>7. /\ \A h \in handles' : h.id \in committed'
      /\ \A v \in Fetching' : \A h \in job'[v].recs : h.id \in committed'
      /\ \A v \in Freeing' : job'[v].ids \subseteq acked' \cup purged' \cup reborn'
  BY <1>1, <1>2 DEF Custody
<1> QED
  BY <1>3, <1>5, <1>6, <1>7 DEF Custody, Live

\* What any replica shows as dead was dead.
LEMMA ReplicaDead ==
    ASSUME TypeOK, Custody, NEW s \in Replicas, NEW i \in Live(s.dead)
    PROVE  WasDead(i)
<1>1. CASE s = Leader
  BY <1>1 DEF Leader, Live, Custody, Sound, WasDead
<1>2. CASE \E f \in Followers : s = view[f]
  BY <1>2 DEF Custody
<1> QED
  BY <1>1, <1>2 DEF Replicas

\* Applying a pending proposal, whoever waits for its answer.
LEMMA ApplyCustody ==
    ASSUME TypeOK, Custody, NEW o \in Posts, ApplyOp(o), Posts' \subseteq Posts,
           UNCHANGED <<payload, view, handles>>
    PROVE  /\ \A i \in Ids : Sound(i)'
           /\ \A q \in Posts' : Grounded(q)'
           /\ \A h \in handles' : h.id \in committed'
           /\ \A f \in Followers : \A i \in Live(view'[f].dead) : WasDead(i)'
<1>1. o \in Proposal /\ Grounded(o) /\ AppliedOK
  BY PostTypes DEF Custody, TypeOK, AppliedOK
<1>2. \A i \in Ids : Sound(i)
  BY DEF Custody
<1>3. /\ committed \subseteq committed'
      /\ \A i \in Ids : WasDead(i) => WasDead(i)'
  BY <1>1, <1>2, ApplyMonotone
<1>4. \A i \in Ids : Sound(i)'
  BY <1>1, <1>2, ApplySound
<1>5. ASSUME NEW q \in Posts'
      PROVE  Grounded(q)'
  <2>1. q \in Proposal /\ Grounded(q)
    BY <1>5, PostTypes DEF Custody
  <2>2. q.op = "discard" => q.ids \subseteq Ids
    BY <2>1, ProposalTypes
  <2> QED
    BY <1>3, <2>1, <2>2 DEF Grounded
<1>6. \A h \in handles' : h.id \in committed'
  BY <1>3 DEF Custody
<1>7. \A f \in Followers : \A i \in Live(view'[f].dead) : WasDead(i)'
  BY <1>3 DEF Custody, Live
<1> QED
  BY <1>4, <1>5, <1>6, <1>7

\* Custody is inductive: one step per call, forwarder and replica action.
LEMMA CustodyNext == TypeOK /\ Custody /\ [Next]_vars => Custody'
<1> SUFFICES ASSUME TypeOK, Custody, [Next]_vars PROVE Custody'
  OBVIOUS
<1>1. ASSUME NEW w \in Workers, NEW i \in Ids, NEW m \in Modes,
             NEW now \in Readings, Publish(w, i, m, now)
      PROVE  Custody'
  <2> DEFINE r == [attempts |-> 0, lease |-> From(now, m.delay),
                   expires |-> From(now, m.ttl), prio |-> m.prio, inline |-> m.inline]
             o == [op |-> "publish", id |-> i, rec |-> r]
  <2>1. Start(w, o) /\ payload \subseteq payload' /\ handles' \subseteq handles
    BY <1>1 DEF Publish
  <2>2. Grounded(o)'
    BY <1>1 DEF Publish, Grounded
  <2> HIDE DEF o
  <2> QED
    BY <2>1, <2>2, StartCustody
<1>2. ASSUME NEW w \in Workers, NEW now \in Readings, Claim(w, now)
      PROVE  Custody'
  <2> DEFINE o == [op |-> "claim", now |-> now]
  <2>1. Start(w, o) /\ payload \subseteq payload' /\ handles' \subseteq handles
    BY <1>2 DEF Claim
  <2>2. Grounded(o)'
    BY DEF Grounded
  <2> HIDE DEF o
  <2> QED
    BY <2>1, <2>2, StartCustody
<1>3. ASSUME NEW w \in Workers, NEW h \in handles, Ack(w, h)
      PROVE  Custody'
  <2> DEFINE o == [op |-> "ack", id |-> h.id, inline |-> h.inline]
  <2>1. Start(w, o) /\ payload \subseteq payload' /\ handles' \subseteq handles
    BY <1>3 DEF Ack
  <2>2. Grounded(o)'
    BY <2>1 DEF Start, Custody, Grounded
  <2> HIDE DEF o
  <2> QED
    BY <2>1, <2>2, StartCustody
<1>4. ASSUME NEW w \in Workers, NEW h \in handles, NEW d \in NackDelays,
             NEW now \in Readings, Nack(w, h, d, now)
      PROVE  Custody'
  <2> DEFINE o == [op |-> "nack", id |-> h.id, until |-> From(now, d), attempt |-> h.attempts]
  <2>1. Start(w, o) /\ payload \subseteq payload' /\ handles' \subseteq handles
    BY <1>4 DEF Nack
  <2>2. Grounded(o)'
    BY <2>1 DEF Start, Custody, Grounded
  <2> HIDE DEF o
  <2> QED
    BY <2>1, <2>2, StartCustody
<1>5. ASSUME NEW w \in Workers, NEW s \in Replicas, NEW t \in Replicas, NEW ids \in SUBSET Ids,
             Discard(w, s, t, ids)
      PROVE  Custody'
  <2> DEFINE o == [op |-> "discard", ids |-> ids, objects |-> ids \ InlinedIn(t, ids)]
  <2>1. Start(w, o) /\ payload \subseteq payload' /\ handles' \subseteq handles
    BY <1>5 DEF Discard
  <2>2. \A i \in ids : WasDead(i)
    BY <1>5, ReplicaDead DEF Discard, ListsAndReads
  <2>3. UNCHANGED <<dead, committed, purged, reborn>>
    BY <2>1 DEF Start, applied
  <2>4. Grounded(o)'
    BY <2>2, <2>3 DEF Grounded, WasDead
  <2> HIDE DEF o
  <2> QED
    BY <2>1, <2>4, StartCustody
<1>6. ASSUME NEW w \in Workers, NEW s \in Replicas, NEW t \in Replicas, NEW ids \in SUBSET Ids,
             Redrive(w, s, t, ids)
      PROVE  Custody'
  <2> DEFINE o == [op |-> "redrive", ids |-> ids, inlined |-> InlinedIn(t, ids)]
  <2>1. Start(w, o) /\ payload \subseteq payload' /\ handles' \subseteq handles
    BY <1>6 DEF Redrive
  <2>2. ids \subseteq committed
    BY <1>6, ReplicaDead DEF Redrive, ListsAndReads, WasDead
  <2>3. Grounded(o)'
    BY <2>1, <2>2 DEF Start, Grounded
  <2> HIDE DEF o
  <2> QED
    BY <2>1, <2>3, StartCustody
<1>7. ASSUME NEW w \in Workers, NEW b \in BOOLEAN, SetPaused(w, b)
      PROVE  Custody'
  <2> DEFINE o == [op |-> "pause", to |-> b]
  <2>1. Start(w, o) /\ payload \subseteq payload' /\ handles' \subseteq handles
    BY <1>7 DEF SetPaused
  <2>2. Grounded(o)'
    BY DEF Grounded
  <2> HIDE DEF o
  <2> QED
    BY <2>1, <2>2, StartCustody
<1>8. ASSUME NEW w \in Workers, NEW s \in Replicas, Rebuild(w, s)
      PROVE  Custody'
  <2> DEFINE o == [op |-> "mark"]
  <2>1. Start(w, o) /\ payload \subseteq payload' /\ handles' \subseteq handles
    BY <1>8 DEF Rebuild
  <2>2. Grounded(o)'
    BY DEF Grounded
  <2> HIDE DEF o
  <2> QED
    BY <2>1, <2>2, StartCustody
<1>9. ASSUME NEW w \in Workers, Apply(w)
      PROVE  Custody'
  <2> DEFINE o == job[w].op
  <2>1. /\ job[w].stage = "propose" /\ ApplyOp(o) /\ late' = late
        /\ job' = [job EXCEPT ![w] = AfterApply(o)]
        /\ UNCHANGED <<payload, view, handles>>
    BY <1>9 DEF Apply
  <2>2. o \in Posts /\ o \in Proposal /\ AppliedOK
    BY <2>1, PostTypes DEF Posts, Proposing, TypeOK, AppliedOK
  <2>3. AfterApply(o).stage # "propose"
    BY DEF AfterApply, IdleJob
  <2>4. Posts' \subseteq Posts
    BY <2>1, <2>3, NoNewPost DEF Posts
  <2>5. /\ committed \subseteq committed'
        /\ acked \cup purged \cup reborn \subseteq (acked \cup purged \cup reborn)'
    BY <2>1, <2>2, ApplyMonotone DEF Custody
  <2>6. \A v \in Workers \ {w} : job'[v] = job[v]
    BY <2>1 DEF TypeOK
  <2>7. job'[w] = AfterApply(o)
    BY <2>1 DEF TypeOK
  <2>8. ASSUME NEW v \in Fetching', NEW h \in job'[v].recs
        PROVE  h.id \in committed'
    <3>1. CASE v # w
      BY <2>5, <2>6, <2>8, <3>1 DEF Fetching, Custody
    <3>2. CASE v = w
      <4>1. o.op = "claim"
        BY <2>7, <2>8, <3>2 DEF Fetching, AfterApply, IdleJob
      <4>2. h.id \in PlanLeases(meta, o.now, MaxBatch, MaxAttempts)
        BY <2>7, <2>8, <3>2, <4>1 DEF AfterApply
      <4>3. h.id \in Live(meta)
        BY <4>2, PlanFacts
      <4> QED
        BY <2>5, <4>3 DEF Live, Custody, Sound
    <3> QED
      BY <3>1, <3>2
  <2>9. ASSUME NEW v \in Freeing'
        PROVE  job'[v].ids \subseteq (acked \cup purged \cup reborn)'
    <3>1. CASE v # w
      BY <2>5, <2>6, <2>9, <3>1 DEF Freeing, Custody
    <3>2. CASE v = w /\ o.op = "ack"
      BY <2>1, <2>7, <2>9, <3>2 DEF Freeing, AfterApply, IdleJob, ApplyOp, ApplyAck
    <3>3. CASE v = w /\ o.op = "discard"
      <4>1. Grounded(o)
        BY <2>2 DEF Custody
      <4>2. job'[v].ids \subseteq o.ids
        BY <2>7, <3>3, <4>1 DEF AfterApply, Grounded
      <4>3. o.ids \subseteq (purged \cup reborn)'
        BY <2>1, <3>3, <4>1 DEF Grounded, WasDead, ApplyOp, ApplyDiscard
      <4> QED
        BY <4>2, <4>3
    <3>4. v = w => o.op \in {"ack", "discard"}
      BY <2>7, <2>9 DEF Freeing, AfterApply, IdleJob
    <3> QED
      BY <3>1, <3>2, <3>3, <3>4
  <2>10. /\ \A i \in Ids : Sound(i)'
         /\ \A q \in Posts' : Grounded(q)'
         /\ \A h \in handles' : h.id \in committed'
         /\ \A f \in Followers : \A i \in Live(view'[f].dead) : WasDead(i)'
    BY <2>1, <2>2, <2>4, ApplyCustody
  <2> HIDE DEF o
  <2> QED
    BY <2>8, <2>9, <2>10 DEF Custody, Live
<1>10. ASSUME NEW o \in late, ApplyLate(o)
       PROVE  Custody'
  <2>1. /\ o \in Posts /\ ApplyOp(o)
        /\ Posts' \subseteq Posts /\ Fetching' = Fetching /\ Freeing' = Freeing
        /\ UNCHANGED <<payload, view, job, handles>>
    BY <1>10 DEF ApplyLate, Posts, Proposing, Fetching, Freeing
  <2>2. /\ \A i \in Ids : Sound(i)'
        /\ \A q \in Posts' : Grounded(q)'
        /\ \A h \in handles' : h.id \in committed'
        /\ \A f \in Followers : \A i \in Live(view'[f].dead) : WasDead(i)'
    BY <2>1, ApplyCustody
  <2>3. o \in Proposal /\ AppliedOK
    BY DEF TypeOK, AppliedOK
  <2>4. /\ committed \subseteq committed'
        /\ acked \cup purged \cup reborn \subseteq (acked \cup purged \cup reborn)'
    BY <2>1, <2>3, ApplyMonotone DEF Custody
  <2>5. /\ \A w \in Fetching' : \A h \in job'[w].recs : h.id \in committed'
        /\ \A w \in Freeing' : job'[w].ids \subseteq (acked \cup purged \cup reborn)'
    BY <2>1, <2>4 DEF Custody
  <2> QED
    BY <2>2, <2>5 DEF Custody, Live
<1>11. ASSUME NEW w \in Workers, PostFails(w)
       PROVE  Custody'
  <2>1. /\ job[w].stage = "propose" /\ late' = late \cup {job[w].op}
        /\ job' = [job EXCEPT ![w] = IF job[w].tries = 1 THEN IdleJob
                                     ELSE [job[w] EXCEPT !.tries = @ - 1]]
        /\ UNCHANGED <<meta, dead, payload, view, handles, committed, acked, purged, reborn>>
    BY <1>11 DEF PostFails, applied, history
  <2>2. \/ job'[w] = IdleJob
        \/ job'[w].stage = "propose" /\ job'[w].op = job[w].op
    BY <2>1 DEF TypeOK, Job, IdleJob
  <2>3. \A v \in Workers \ {w} : job'[v] = job[v]
    BY <2>1 DEF TypeOK
  <2>4. Posts' \subseteq Posts
    BY <2>1, <2>2, <2>3 DEF Posts, Proposing, IdleJob
  <2>5. /\ \A v \in Fetching' : v \in Fetching /\ job'[v] = job[v]
        /\ \A v \in Freeing' : v \in Freeing /\ job'[v] = job[v]
    BY <2>2, <2>3 DEF Fetching, Freeing, IdleJob
  <2> QED
    BY <2>1, <2>4, <2>5 DEF Custody, Sound, Grounded, WasDead, Live
<1>12. ASSUME NEW o \in late, LoseLate(o)
       PROVE  Custody'
  <2>1. /\ Posts' \subseteq Posts /\ Fetching' = Fetching /\ Freeing' = Freeing
        /\ UNCHANGED <<meta, dead, payload, view, job, handles, committed, acked, purged, reborn>>
    BY <1>12 DEF LoseLate, Posts, Proposing, Fetching, Freeing, applied, history
  <2> QED
    BY <2>1 DEF Custody, Sound, Grounded, WasDead, Live
<1>13. ASSUME NEW w \in Workers, Fetch(w)
       PROVE  Custody'
  <2>1. /\ job[w].stage = "fetch" /\ late' = late
        /\ job' = [job EXCEPT ![w] = IdleJob] /\ handles' \subseteq handles \cup job[w].recs
        /\ UNCHANGED <<meta, dead, payload, view, committed, acked, purged, reborn>>
    BY <1>13 DEF Fetch, applied
  <2>2. Posts' \subseteq Posts
    BY <2>1, ReturnPosts
  <2>3. \A h \in handles' : h.id \in committed'
    BY <2>1 DEF Custody, Fetching
  <2>4. /\ \A v \in Fetching' : v \in Fetching /\ job'[v] = job[v]
        /\ \A v \in Freeing' : v \in Freeing /\ job'[v] = job[v]
    BY <2>1 DEF Fetching, Freeing, IdleJob, TypeOK
  <2> QED
    BY <2>1, <2>2, <2>3, <2>4 DEF Custody, Sound, Grounded, WasDead, Live
<1>14. ASSUME NEW w \in Workers, FreePayload(w)
       PROVE  Custody'
  <2>1. /\ job[w].stage = "free" /\ late' = late
        /\ job' = [job EXCEPT ![w] = IdleJob] /\ payload' = payload \ job[w].ids
        /\ UNCHANGED <<meta, dead, handles, view, committed, acked, purged, reborn>>
    BY <1>14 DEF FreePayload, applied, history
  <2>2. Posts' \subseteq Posts
    BY <2>1, ReturnPosts
  <2>3. job[w].ids \subseteq acked \cup purged \cup reborn /\ job[w].ids \subseteq Ids
    BY <2>1, JobTypes DEF Custody, Freeing, TypeOK
  <2>4. \A i \in Ids : Sound(i)'
    BY <2>1, <2>3 DEF Custody, Sound
  <2>5. job[w].ids \subseteq committed
    BY <2>3 DEF Custody, Sound
  <2>6. \A o \in Posts' : Grounded(o)'
    BY <2>1, <2>2, <2>5 DEF Custody, Grounded, WasDead
  <2>7. /\ \A v \in Fetching' : v \in Fetching /\ job'[v] = job[v]
        /\ \A v \in Freeing' : v \in Freeing /\ job'[v] = job[v]
    BY <2>1 DEF Fetching, Freeing, IdleJob, TypeOK
  <2> QED
    BY <2>1, <2>4, <2>6, <2>7 DEF Custody, WasDead, Live
<1>15. ASSUME NEW w \in Workers, Crash(w)
       PROVE  Custody'
  <2>1. /\ late' = late /\ job' = [job EXCEPT ![w] = IdleJob]
        /\ UNCHANGED <<meta, dead, payload, handles, view, committed, acked, purged, reborn>>
    BY <1>15 DEF Crash, applied, history
  <2>2. Posts' \subseteq Posts
    BY <2>1, ReturnPosts
  <2>3. /\ \A v \in Fetching' : v \in Fetching /\ job'[v] = job[v]
        /\ \A v \in Freeing' : v \in Freeing /\ job'[v] = job[v]
    BY <2>1 DEF Fetching, Freeing, IdleJob, TypeOK
  <2> QED
    BY <2>1, <2>2, <2>3 DEF Custody, Sound, Grounded, WasDead, Live
<1>16. ASSUME NEW f \in Followers, CatchUp(f)
       PROVE  Custody'
  <2>1. /\ view' = [view EXCEPT ![f] = Leader] /\ Posts' = Posts
        /\ Fetching' = Fetching /\ Freeing' = Freeing
        /\ UNCHANGED <<meta, dead, payload, job, handles, committed, acked, purged, reborn>>
    BY <1>16 DEF CatchUp, Posts, Proposing, Fetching, Freeing, applied, history
  <2>2. \A g \in Followers : view'[g] \in Replicas
    BY <2>1 DEF Replicas, TypeOK
  <2>3. \A g \in Followers : \A i \in Live(view'[g].dead) : WasDead(i)
    BY <2>2, ReplicaDead
  <2> QED
    BY <2>1, <2>3 DEF Custody, Sound, Grounded, WasDead, Live
<1>17. CASE Tick \/ UNCHANGED vars
  <2>1. /\ Posts' = Posts /\ Fetching' = Fetching /\ Freeing' = Freeing
        /\ UNCHANGED <<meta, dead, payload, view, job, handles, committed, acked, purged, reborn>>
    BY <1>17 DEF Tick, vars, Posts, Proposing, Fetching, Freeing, applied, history
  <2> QED
    BY <2>1 DEF Custody, Sound, Grounded, WasDead, Live
<1> QED
  BY <1>1, <1>2, <1>3, <1>4, <1>5, <1>6, <1>7, <1>8, <1>9, <1>10, <1>11, <1>12, <1>13,
     <1>14, <1>15, <1>16, <1>17 DEF Next, WorkerNext

\* Custody holds in every reachable state.
LEMMA CustodyInvariant == Spec => []Custody
BY CustodyInit, CustodyNext, TypeCorrect, PTL DEF Spec

\* Payload first, for the cluster: a record indexed once always has its payload,
\* and so has its dead letter until an ack arrives, however acks, discards and
\* the deletes of payload objects that follow them interleave.
THEOREM PayloadKept == Spec => []PayloadPresent
<1>1. Custody => PayloadPresent
  BY DEF Custody, Sound, PayloadPresent
<1> QED
  BY <1>1, CustodyInvariant, PTL

\* An ack and a discard are final, unless a repeated MqPublish or a redrive
\* indexes the id again.
THEOREM DisposedStaysGone == Spec => []AckedStaysGone
<1>1. TypeOK /\ Custody => AckedStaysGone
  BY DEF TypeOK, Custody, Sound, AckedStaysGone
<1> QED
  BY <1>1, TypeCorrect, CustodyInvariant, PTL

-----------------------------------------------------------------------------
(* Leases and attempts.                                                     *)

\* The deliveries made are those consumers hold and those a claim fetches.
LEMMA HoldersAre ==
    /\ Holders = handles \cup UNION {job[w].recs : w \in Fetching}
    /\ TypeOK => Holders \subseteq Handle
BY JobTypes DEF Holders, Fetching, TypeOK

\* What applying a proposal can do to the record of a message that is not
\* indexed again: nothing, remove it, create it, give it back, or lease it.
LEMMA RecordChange ==
    ASSUME AppliedOK, NEW o \in Proposal, ApplyOp(o), NEW i \in Ids, i \notin reborn'
    PROVE  \/ meta'[i] = meta[i]
           \/ meta'[i] = NoRec
           \/ meta[i] = NoRec /\ i \notin committed
           \/ /\ o.op = "nack" /\ o.id = i /\ meta[i] # NoRec
              /\ meta'[i].attempts = meta[i].attempts
              /\ meta[i].attempts # o.attempt => i \in overrun'
           \/ /\ o.op = "claim" /\ meta[i] # NoRec
              /\ i \in PlanLeases(meta, o.now, MaxBatch, MaxAttempts)
              /\ meta'[i].attempts = meta[i].attempts + 1
              /\ meta'[i].lease = o.now + LeaseMs
              /\ meta[i].lease <= o.now
<1>1. CASE o.op = "publish" /\ ApplyPublish(o)
  BY <1>1, ProposalTypes DEF ApplyPublish, AppliedOK
<1>2. CASE o.op = "claim" /\ ApplyClaim(o)
  <2> DEFINE leases == PlanLeases(meta, o.now, MaxBatch, MaxAttempts)
             deads == PlanDeadLetters(meta, o.now, MaxBatch, MaxAttempts)
  <2>1. meta'[i] = IF i \in leases THEN Leased(meta[i], o.now, LeaseMs)
                   ELSE IF i \in deads THEN NoRec ELSE meta[i]
    BY <1>2 DEF ApplyClaim
  <2>2. ASSUME i \in leases
        PROVE  /\ meta[i] # NoRec /\ meta[i] \in Record
               /\ meta[i].lease <= o.now
    BY <2>2, PlanFacts, LiveRecord DEF AppliedOK, Live, Due
  <2>3. ASSUME i \in leases
        PROVE  /\ Leased(meta[i], o.now, LeaseMs).attempts = meta[i].attempts + 1
               /\ Leased(meta[i], o.now, LeaseMs).lease = o.now + LeaseMs
    BY <2>2, <2>3 DEF Leased, Record
  <2> HIDE DEF deads
  <2> QED
    BY <1>2, <2>1, <2>2, <2>3
<1>3. CASE o.op = "ack" /\ ApplyAck(o)
  BY <1>3 DEF ApplyAck, AppliedOK
<1>4. CASE o.op = "nack" /\ ApplyNack(o)
  <2>1. o.id \in Ids
    BY <1>4, ProposalTypes
  <2>2. CASE meta'[i] = meta[i]
    BY <2>2
  <2>3. CASE meta'[i] # meta[i]
    <3>1. /\ i = o.id /\ meta[i] # NoRec
          /\ meta'[i] = [meta[i] EXCEPT !.lease = o.until]
      BY <1>4, <2>1, <2>3 DEF ApplyNack, AppliedOK
    <3>2. meta'[i].attempts = meta[i].attempts
      BY <3>1 DEF AppliedOK, Record
    <3>3. meta[i].attempts # o.attempt => i \in overrun'
      BY <1>4, <3>1 DEF ApplyNack, Overruns
    <3> QED
      BY <1>4, <3>1, <3>2, <3>3
  <2> QED
    BY <2>2, <2>3
<1>5. CASE o.op = "redrive" /\ ApplyRedrive(o)
  BY <1>5 DEF ApplyRedrive
<1>6. CASE o.op \in {"discard", "pause", "mark"}
  BY <1>6 DEF ApplyOp, ApplyDiscard, ApplyPause, ApplyMark
<1> QED
  BY <1>1, <1>2, <1>3, <1>4, <1>5, <1>6 DEF ApplyOp

\* Applying a proposal keeps every delivery made before it charged, and ends no
\* lease of the last one but by a claim after it is over.
LEMMA ApplyLeases ==
    ASSUME TypeOK, Custody, Leasing, NEW o \in Posts, ApplyOp(o), clock' = clock
    PROVE  /\ reborn \subseteq reborn' /\ overrun \subseteq overrun'
           /\ \A h \in Holders : Charged(h)' /\ LastLease(h)'
           /\ \A q \in Posts : NackCharged(q)'
<1>1. o \in Proposal /\ AppliedOK
  BY PostTypes DEF TypeOK, AppliedOK
<1>2. reborn \subseteq reborn' /\ overrun \subseteq overrun'
  BY DEF ApplyOp, ApplyPublish, ApplyClaim, ApplyAck, ApplyNack, ApplyDiscard, ApplyRedrive,
         ApplyPause, ApplyMark
<1>3. \A i \in Ids : meta[i] # NoRec => meta[i].attempts \in Nat /\ meta[i].lease \in Nat
  BY <1>1 DEF AppliedOK, Record
<1>4. Latest \in Nat /\ Latest' = Latest
  BY ReadingNat DEF Latest
<1>5. ASSUME NEW h \in Holders
      PROVE  Charged(h)' /\ LastLease(h)'
  <2> DEFINE i == h.id
  <2>1. /\ i \in Ids /\ h.attempts \in Nat /\ h.until \in Nat
        /\ Charged(h) /\ LastLease(h) /\ i \in committed
    BY <1>5, HoldersAre DEF Handle, Leasing, Custody
  <2>2. CASE i \in reborn'
    BY <2>1, <2>2 DEF Charged, LastLease
  <2>3. CASE i \notin reborn'
    <3>1. i \notin reborn /\ (i \notin overrun' => i \notin overrun)
      BY <1>2, <2>3
    <3>2. CASE meta'[i] = meta[i]
      BY <1>4, <2>1, <3>1, <3>2 DEF Charged, LastLease
    <3>3. CASE meta'[i] = NoRec
      BY <2>1, <3>3 DEF Charged, LastLease
    <3>4. CASE /\ o.op = "nack" /\ o.id = i /\ meta[i] # NoRec
               /\ meta'[i].attempts = meta[i].attempts
               /\ meta[i].attempts # o.attempt => i \in overrun'
      <4>1. h.attempts # o.attempt
        BY <1>5, <3>1, <3>4 DEF Leasing, GivenUp
      <4> QED
        BY <1>4, <2>1, <3>1, <3>4, <4>1 DEF Charged, LastLease
    <3>5. CASE /\ o.op = "claim" /\ meta[i] # NoRec
               /\ meta'[i].attempts = meta[i].attempts + 1
               /\ meta'[i].lease = o.now + LeaseMs
               /\ meta[i].lease <= o.now
      <4>1. o.now <= Latest /\ o.now \in Nat
        BY <1>1, <3>5, ProposalTypes DEF Leasing
      <4> HIDE DEF i
      <4>2. h.attempts <= meta[i].attempts
        BY <2>1, <3>1, <3>5 DEF Charged, i
      <4>3. i \notin overrun' => h.until <= Latest
        BY <1>3, <1>4, <2>1, <3>1, <3>5, <4>1, <4>2 DEF LastLease, i
      <4>4. h.attempts < meta'[i].attempts /\ h.attempts <= meta'[i].attempts
        BY <1>3, <2>1, <3>5, <4>2
      <4>5. Charged(h)'
        BY <2>1, <4>4 DEF Charged, i
      <4>6. LastLease(h)'
        BY <1>3, <1>4, <2>1, <3>5, <4>3, <4>4 DEF LastLease, i
      <4> QED
        BY <4>5, <4>6
    <3> QED
      BY <1>1, <2>1, <2>3, <3>2, <3>3, <3>4, <3>5, RecordChange
  <2> QED
    BY <2>2, <2>3
<1>6. ASSUME NEW q \in Posts, q.op = "nack", q.id \notin reborn', meta'[q.id] # NoRec
      PROVE  q.attempt <= meta'[q.id].attempts
  <2>1. q.id \in Ids /\ q.attempt \in Nat
    BY <1>6, PostTypes, ProposalTypes
  <2>2. q.id \in committed /\ q.id \notin reborn
    BY <1>2, <1>6 DEF Custody, Grounded
  <2>3. meta[q.id] # NoRec => q.attempt <= meta[q.id].attempts
    BY <1>6, <2>2 DEF Leasing, NackCharged
  <2>4. /\ meta[q.id] # NoRec
        /\ \/ meta'[q.id].attempts = meta[q.id].attempts
           \/ meta'[q.id].attempts = meta[q.id].attempts + 1
    BY <1>1, <1>6, <2>1, <2>2, RecordChange
  <2> QED
    BY <1>3, <2>1, <2>3, <2>4
<1> QED
  BY <1>2, <1>5, <1>6 DEF NackCharged

\* A step that applies nothing and delivers nothing new.
LEMMA QuietLeasing ==
    ASSUME TypeOK, Leasing, UNCHANGED <<meta, reborn, overrun>>,
           clock' \in Nat, clock <= clock', Holders' \subseteq Holders, HeldOnce',
           \A o \in Posts' : \/ o \in Posts
                            \/ /\ NackCharged(o)' /\ GivenUp(o)'
                               /\ o.op = "claim" => o.now \in Nat /\ o.now <= Latest
    PROVE  Leasing'
<1>1. Holders \subseteq Handle /\ Latest \in Nat /\ Latest' \in Nat /\ Latest <= Latest'
  <2>1. Holders \subseteq Handle
    BY HoldersAre
  <2>2. \A a, b, s \in Nat : a <= b => a + s \in Nat /\ b + s \in Nat /\ a + s <= b + s
    OBVIOUS
  <2>3. clock \in Nat /\ MaxSkew \in Nat
    BY RaftQueueAssumption DEF TypeOK
  <2>4. Latest = clock + MaxSkew /\ Latest' = clock' + MaxSkew
    BY DEF Latest
  <2>5. Latest \in Nat /\ Latest' \in Nat /\ Latest <= Latest'
    BY <2>2, <2>3, <2>4, Zenon
  <2> QED
    BY <2>1, <2>5
<1>2. ASSUME NEW h \in Holders'
      PROVE  Charged(h)' /\ LastLease(h)'
  <2>1. Charged(h) /\ LastLease(h) /\ h \in Handle
    BY <1>1, <1>2 DEF Leasing
  <2> QED
    BY <1>1, <2>1 DEF Charged, LastLease, Handle
<1>3. ASSUME NEW o \in Posts'
      PROVE  /\ NackCharged(o)' /\ GivenUp(o)'
             /\ o.op = "claim" => o.now <= Latest'
  <2>1. CASE o \in Posts
    <3>1. NackCharged(o) /\ GivenUp(o) /\ (o.op = "claim" => o.now <= Latest)
      BY <2>1 DEF Leasing
    <3>2. NackCharged(o)' /\ GivenUp(o)'
      BY <3>1 DEF NackCharged, GivenUp
    <3>3. o.op = "claim" => o.now \in Nat
      BY <2>1, PostTypes, ProposalTypes
    <3> QED
      BY <1>1, <3>1, <3>2, <3>3
  <2>2. CASE o \notin Posts
    <3>1. NackCharged(o)' /\ GivenUp(o)' /\ (o.op = "claim" => o.now \in Nat /\ o.now <= Latest)
      BY <1>3, <2>2
    <3> QED
      BY <1>1, <3>1
  <2> QED
    BY <2>1, <2>2
<1>4. OneHolder'
  <2> SUFFICES ASSUME NEW g \in Holders', NEW h \in Holders', g.id = h.id,
                      g.id \notin overrun' \cup reborn', g # h
               PROVE  g.until <= Latest' \/ h.until <= Latest'
    BY DEF OneHolder
  <2>1. g.until \in Nat /\ h.until \in Nat
    BY <1>1 DEF Handle
  <2>2. g.until <= Latest \/ h.until <= Latest
    BY DEF Leasing, OneHolder
  <2> QED
    BY <1>1, <2>1, <2>2
<1> QED
  BY <1>2, <1>3, <1>4 DEF Leasing

\* A call starts; if it gives a delivery back, it was charged and nobody holds it.
LEMMA StartLeasing ==
    ASSUME TypeOK, Leasing, NEW w \in Workers, NEW o, Start(w, o), handles' \subseteq handles,
           NackCharged(o)', GivenUp(o)',
           o.op = "claim" => o.now \in Nat /\ o.now <= Latest
    PROVE  Leasing'
<1>1. /\ Posts' \subseteq Posts \cup {o} /\ Fetching' = Fetching
      /\ \A v \in Fetching : job'[v] = job[v]
  BY StartPosts
<1>2. UNCHANGED <<meta, reborn, overrun, clock>> /\ clock \in Nat
  BY DEF Start, applied, TypeOK
<1>3. Holders' \subseteq Holders
  BY <1>1, HoldersAre DEF Holders, Fetching
<1>4. HeldOnce'
  BY <1>1, <1>2 DEF Leasing, HeldOnce
<1>5. \A q \in Posts' : \/ q \in Posts
                        \/ /\ NackCharged(q)' /\ GivenUp(q)'
                           /\ q.op = "claim" => q.now \in Nat /\ q.now <= Latest
  BY <1>1
<1> QED
  BY <1>2, <1>3, <1>4, <1>5, QuietLeasing

\* A caller returns, with what it fetched or without: nothing new is held.
LEMMA ReturnLeasing ==
    ASSUME TypeOK, Leasing, NEW w \in Workers, job' = [job EXCEPT ![w] = IdleJob],
           UNCHANGED <<meta, reborn, overrun, clock, late>>,
           \/ handles' = handles
           \/ w \in Fetching /\ handles' = handles \cup job[w].recs
    PROVE  Leasing'
<1>1. Posts' \subseteq Posts
  BY ReturnPosts
<1>2. /\ Fetching' = Fetching \ {w}
      /\ \A v \in Fetching' : job'[v] = job[v]
  BY DEF Fetching, IdleJob, TypeOK
<1>3. Holders' \subseteq Holders
  BY <1>2 DEF Holders, Fetching
<1>4. HeldOnce'
  <2>1. HeldOnce
    BY DEF Leasing
  <2>2. CASE handles' = handles
    BY <1>2, <2>1, <2>2 DEF HeldOnce
  <2>3. CASE w \in Fetching /\ handles' = handles \cup job[w].recs
    <3>1. \A g, h \in handles' :
              g.id = h.id /\ g.id \notin reborn' /\ g.attempts = h.attempts => g = h
      BY <2>1, <2>3 DEF HeldOnce
    <3>2. \A v \in Fetching' : \A h \in job'[v].recs, g \in handles' :
              g.id = h.id /\ g.id \notin reborn' => g.attempts # h.attempts
      BY <1>2, <2>1, <2>3 DEF HeldOnce
    <3>3. \A u, v \in Fetching' : \A g \in job'[u].recs, h \in job'[v].recs :
              g.id = h.id /\ g.id \notin reborn' /\ g.attempts = h.attempts => u = v /\ g = h
      BY <1>2, <2>1 DEF HeldOnce
    <3> QED
      BY <3>1, <3>2, <3>3 DEF HeldOnce
  <2> QED
    BY <2>2, <2>3
<1>5. clock' \in Nat /\ clock <= clock'
  BY DEF TypeOK
<1> QED
  BY <1>1, <1>3, <1>4, <1>5, QuietLeasing

\* A proposal is applied that delivers nothing: not a claim, or nobody waits.
LEMMA ApplyQuietly ==
    ASSUME TypeOK, Custody, Leasing, NEW o \in Posts, ApplyOp(o),
           Posts' \subseteq Posts, UNCHANGED <<handles, clock>>,
           Fetching' = Fetching, \A v \in Fetching : job'[v] = job[v]
    PROVE  Leasing'
<1>1. /\ reborn \subseteq reborn' /\ overrun \subseteq overrun'
      /\ \A h \in Holders : Charged(h)' /\ LastLease(h)'
      /\ \A q \in Posts : NackCharged(q)'
  BY ApplyLeases
<1>2. Holders' = Holders
  BY DEF Holders, Fetching
<1>3. HeldOnce'
  BY <1>1 DEF Leasing, HeldOnce
<1>4. OneHolder'
  BY <1>1, <1>2 DEF Leasing, OneHolder, Latest
<1>5. \A q \in Posts' : GivenUp(q)' /\ (q.op = "claim" => q.now <= Latest')
  BY <1>1, <1>2 DEF Leasing, GivenUp, Latest
<1> QED
  BY <1>1, <1>2, <1>3, <1>4, <1>5 DEF Leasing

\* A claim is applied and answered: the deliveries it makes are new, charged and
\* leased, and the leases of all earlier deliveries of the same message are over.
LEMMA ApplyDelivers ==
    ASSUME TypeOK, Custody, Leasing, NEW w \in Workers, Apply(w), job[w].op.op = "claim"
    PROVE  Leasing'
<1> DEFINE o == job[w].op
           leases == PlanLeases(meta, o.now, MaxBatch, MaxAttempts)
           H(i) == [id |-> i, attempts |-> meta[i].attempts + 1,
                    until |-> o.now + LeaseMs, inline |-> meta[i].inline]
           new == {H(i) : i \in leases}
<1>1. /\ job[w].stage = "propose" /\ o \in Posts /\ o \in Proposal /\ o.op = "claim"
      /\ ApplyOp(o) /\ UNCHANGED <<late, handles, clock>>
  BY PostTypes DEF Apply, Posts, Proposing
<1>2. job' = [job EXCEPT ![w] = [stage |-> "fetch", recs |-> new]]
  BY DEF Apply, AfterApply
<1>3. Posts' \subseteq Posts
  BY <1>1, <1>2 DEF Posts, Proposing, TypeOK
<1>4. /\ w \notin Fetching /\ Fetching' = Fetching \cup {w} /\ job'[w].recs = new
      /\ \A v \in Fetching : job'[v] = job[v]
  BY <1>1, <1>2 DEF Fetching, TypeOK
<1>5. /\ reborn \subseteq reborn' /\ overrun \subseteq overrun'
      /\ \A h \in Holders : Charged(h)' /\ LastLease(h)'
      /\ \A q \in Posts : NackCharged(q)'
  BY <1>1, ApplyLeases
<1>6. AppliedOK
  BY DEF TypeOK, AppliedOK
<1>7. /\ o.now \in Nat /\ o.now <= Latest /\ o.now + LeaseMs \in Nat
      /\ Latest \in Nat /\ Latest' = Latest
  BY <1>1, ProposalTypes, ReadingNat, RaftQueueAssumption DEF Leasing, Latest
<1>8. ASSUME NEW i \in leases
      PROVE  /\ i \in Ids /\ meta[i] # NoRec /\ meta[i] \in Record
             /\ meta[i].attempts \in Nat /\ meta[i].lease \in Nat
             /\ meta[i].attempts < MaxAttempts /\ meta[i].lease <= o.now
             /\ meta'[i].attempts = meta[i].attempts + 1
             /\ meta'[i].lease = o.now + LeaseMs
  <2>1. i \in Ids /\ meta[i] # NoRec /\ meta[i] \in Record
    BY <1>6, PlanFacts, LiveRecord DEF AppliedOK, Live
  <2>2. meta[i].attempts < MaxAttempts /\ meta[i].lease <= o.now
    BY PlanFacts DEF Due
  <2>3. meta'[i] = Leased(meta[i], o.now, LeaseMs)
    BY <1>1, <2>1 DEF ApplyOp, ApplyClaim
  <2>4. /\ Leased(meta[i], o.now, LeaseMs).attempts = meta[i].attempts + 1
        /\ Leased(meta[i], o.now, LeaseMs).lease = o.now + LeaseMs
    BY <2>1 DEF Leased, Record
  <2> QED
    BY <2>1, <2>2, <2>3, <2>4 DEF Record
<1>9. \A h \in new : /\ h.id \in leases /\ h.attempts = meta[h.id].attempts + 1
                     /\ h.until = o.now + LeaseMs /\ h.inline = meta[h.id].inline
  OBVIOUS
<1>10. \A g, h \in new : g.id = h.id => g = h
  OBVIOUS
<1> HIDE DEF o, leases, H, new
<1>11. Holders' = Holders \cup new
  BY <1>1, <1>4, HoldersAre DEF Holders, Fetching
<1>12. ASSUME NEW h \in new
       PROVE  Charged(h)' /\ LastLease(h)'
  <2>1. /\ meta'[h.id].attempts = h.attempts /\ meta'[h.id].lease = h.until
        /\ h.attempts \in 1 .. MaxAttempts
    BY <1>8, <1>9, RaftQueueAssumption
  <2> QED
    BY <2>1 DEF Charged, LastLease
<1>13. ASSUME NEW g \in Holders, NEW h \in new, g.id = h.id, g.id \notin reborn'
       PROVE  /\ g.attempts < h.attempts /\ g.attempts # h.attempts
              /\ g.id \notin overrun' => g.until <= Latest
  <2>1. g \in Handle /\ Charged(g) /\ LastLease(g) /\ g.id \notin reborn
    BY <1>5, <1>13, HoldersAre DEF Leasing
  <2>2. g.attempts \in Nat /\ g.until \in Nat
    BY <2>1 DEF Handle
  <2>3. g.attempts <= meta[g.id].attempts
    BY <1>8, <1>9, <1>13, <2>1 DEF Charged
  <2>4. g.attempts < h.attempts
    BY <1>8, <1>9, <1>13, <2>2, <2>3
  <2>5. ASSUME g.id \notin overrun'
        PROVE  g.until <= Latest
    <3>1. g.id \notin overrun /\ meta[g.id] # NoRec
      BY <1>5, <1>8, <1>9, <1>13, <2>5
    <3>2. CASE g.attempts = meta[g.id].attempts
      <4>1. g.until = meta[g.id].lease
        BY <2>1, <3>1, <3>2 DEF LastLease
      <4> QED
        BY <1>7, <1>8, <1>9, <1>13, <4>1
    <3>3. CASE g.attempts < meta[g.id].attempts
      BY <2>1, <3>1, <3>3 DEF LastLease
    <3> QED
      BY <1>8, <1>9, <1>13, <2>2, <2>3, <3>2, <3>3
  <2> QED
    BY <1>8, <1>9, <1>13, <2>2, <2>4, <2>5
<1>14. HeldOnce'
  <2>1. HeldOnce /\ handles \subseteq Holders
        /\ \A v \in Fetching : job[v].recs \subseteq Holders
    BY HoldersAre DEF Leasing
  <2>2. \A g, h \in handles' :
            g.id = h.id /\ g.id \notin reborn' /\ g.attempts = h.attempts => g = h
    BY <1>1, <1>5, <2>1 DEF HeldOnce
  <2>3. \A v \in Fetching' : \A h \in job'[v].recs, g \in handles' :
            g.id = h.id /\ g.id \notin reborn' => g.attempts # h.attempts
    BY <1>1, <1>4, <1>5, <1>13, <2>1 DEF HeldOnce
  <2>4. ASSUME NEW u \in Fetching', NEW v \in Fetching',
               NEW g \in job'[u].recs, NEW h \in job'[v].recs,
               g.id = h.id, g.id \notin reborn', g.attempts = h.attempts
        PROVE  u = v /\ g = h
    <3>1. CASE u # w /\ v # w
      BY <1>4, <1>5, <2>1, <2>4, <3>1 DEF HeldOnce
    <3>2. CASE u = w /\ v # w
      BY <1>4, <1>13, <2>1, <2>4, <3>2
    <3>3. CASE u # w /\ v = w
      BY <1>4, <1>13, <2>1, <2>4, <3>3
    <3>4. CASE u = w /\ v = w
      BY <1>4, <1>10, <2>4, <3>4
    <3> QED
      BY <3>1, <3>2, <3>3, <3>4
  <2> QED
    BY <2>2, <2>3, <2>4 DEF HeldOnce
<1>15. OneHolder'
  <2> SUFFICES ASSUME NEW g \in Holders', NEW h \in Holders', g.id = h.id,
                      g.id \notin overrun' \cup reborn', g # h
               PROVE  g.until <= Latest' \/ h.until <= Latest'
    BY DEF OneHolder
  <2>1. CASE g \in Holders /\ h \in Holders
    BY <1>5, <1>7, <2>1 DEF Leasing, OneHolder
  <2>2. CASE g \in Holders /\ h \in new
    BY <1>7, <1>13, <2>2
  <2>3. CASE g \in new /\ h \in Holders
    BY <1>7, <1>13, <2>3
  <2>4. CASE g \in new /\ h \in new
    BY <1>10, <2>4
  <2> QED
    BY <1>11, <2>1, <2>2, <2>3, <2>4
<1>16. ASSUME NEW q \in Posts'
       PROVE  NackCharged(q)' /\ GivenUp(q)' /\ (q.op = "claim" => q.now <= Latest')
  <2>1. q \in Posts /\ q \in Proposal
    BY <1>3, <1>16, PostTypes
  <2>2. ASSUME q.op = "nack", q.id \notin reborn', NEW h \in Holders', h.id = q.id
        PROVE  h.attempts # q.attempt
    <3>1. q.id \notin reborn /\ q.attempt \in Nat
      BY <1>5, <2>1, <2>2, ProposalTypes
    <3>2. CASE h \in Holders
      BY <2>1, <2>2, <3>1, <3>2 DEF Leasing, GivenUp
    <3>3. CASE h \in new
      <4>1. q.attempt <= meta[q.id].attempts
        BY <1>8, <1>9, <2>1, <2>2, <3>1, <3>3 DEF Leasing, NackCharged
      <4> QED
        BY <1>8, <1>9, <2>2, <3>1, <3>3, <4>1
    <3> QED
      BY <1>11, <2>2, <3>2, <3>3
  <2> QED
    BY <1>7, <2>1, <1>5, <2>2 DEF Leasing, GivenUp
<1> QED
  BY <1>5, <1>11, <1>12, <1>14, <1>15, <1>16 DEF Leasing

\* Nothing is delivered in the initial states.
LEMMA LeasingInit == Init => Leasing
<1> SUFFICES ASSUME Init PROVE Leasing
  OBVIOUS
<1>1. handles = {} /\ late = {} /\ job = [w \in Workers |-> IdleJob]
  BY DEF Init
<1>2. Proposing = {} /\ Fetching = {}
  BY <1>1 DEF Proposing, Fetching, IdleJob
<1>3. Posts = {} /\ Holders = {}
  BY <1>1, <1>2, HoldersAre DEF Posts
<1>4. HeldOnce
  BY <1>1, <1>2 DEF HeldOnce
<1> QED
  BY <1>3, <1>4 DEF Leasing, OneHolder

\* Leasing is inductive relative to Custody.
LEMMA LeasingNext == TypeOK /\ Custody /\ Leasing /\ [Next]_vars => Leasing'
<1> SUFFICES ASSUME TypeOK, Custody, Leasing, [Next]_vars PROVE Leasing'
  OBVIOUS
<1>1. ASSUME NEW w \in Workers, NEW i \in Ids, NEW m \in Modes,
             NEW now \in Readings, Publish(w, i, m, now)
      PROVE  Leasing'
  <2> DEFINE r == [attempts |-> 0, lease |-> From(now, m.delay),
                   expires |-> From(now, m.ttl), prio |-> m.prio, inline |-> m.inline]
             o == [op |-> "publish", id |-> i, rec |-> r]
  <2>1. Start(w, o) /\ handles' \subseteq handles
    BY <1>1 DEF Publish
  <2>2. NackCharged(o)' /\ GivenUp(o)' /\ o.op # "claim"
    BY DEF NackCharged, GivenUp
  <2> HIDE DEF o
  <2> QED
    BY <2>1, <2>2, StartLeasing
<1>2. ASSUME NEW w \in Workers, NEW now \in Readings, Claim(w, now)
      PROVE  Leasing'
  <2> DEFINE o == [op |-> "claim", now |-> now]
  <2>1. Start(w, o) /\ handles' \subseteq handles /\ o.now \in Nat /\ o.now <= Latest
    BY <1>2, ReadingNat DEF Claim
  <2>2. NackCharged(o)' /\ GivenUp(o)'
    BY DEF NackCharged, GivenUp
  <2> HIDE DEF o
  <2> QED
    BY <2>1, <2>2, StartLeasing
<1>3. ASSUME NEW w \in Workers, NEW h \in handles, Ack(w, h)
      PROVE  Leasing'
  <2> DEFINE o == [op |-> "ack", id |-> h.id, inline |-> h.inline]
  <2>1. Start(w, o) /\ handles' \subseteq handles
    BY <1>3 DEF Ack
  <2>2. NackCharged(o)' /\ GivenUp(o)' /\ o.op # "claim"
    BY DEF NackCharged, GivenUp
  <2> HIDE DEF o
  <2> QED
    BY <2>1, <2>2, StartLeasing
<1>4. ASSUME NEW w \in Workers, NEW h \in handles, NEW d \in NackDelays,
             NEW now \in Readings, Nack(w, h, d, now)
      PROVE  Leasing'
  <2> DEFINE o == [op |-> "nack", id |-> h.id, until |-> From(now, d), attempt |-> h.attempts]
  <2>1. Start(w, o) /\ handles' = handles \ {h}
    BY <1>4 DEF Nack
  <2>2. UNCHANGED <<meta, reborn, overrun>>
    BY <2>1 DEF Start, applied
  <2>3. Charged(h)
    BY <1>4, HoldersAre DEF Leasing
  <2>4. NackCharged(o)'
    BY <2>2, <2>3 DEF NackCharged, Charged
  <2>5. /\ Fetching' = Fetching
        /\ \A v \in Fetching : job'[v] = job[v]
    BY <2>1, StartPosts
  <2>6. ASSUME NEW g \in Holders', g.id = h.id, h.id \notin reborn'
        PROVE  g.attempts # h.attempts
    <3>1. HeldOnce
      BY DEF Leasing
    <3>2. CASE g \in handles \ {h}
      BY <2>2, <2>6, <3>1, <3>2 DEF HeldOnce
    <3>3. CASE \E v \in Fetching : g \in job[v].recs
      BY <1>4, <2>2, <2>6, <3>1, <3>3 DEF HeldOnce
    <3>4. g \in handles' \/ \E v \in Fetching' : g \in job'[v].recs
      BY <2>6 DEF Holders, Fetching
    <3> QED
      BY <2>1, <2>5, <3>2, <3>3, <3>4
  <2>7. GivenUp(o)' /\ o.op # "claim"
    BY <2>6 DEF GivenUp
  <2> HIDE DEF o
  <2> QED
    BY <2>1, <2>4, <2>7, StartLeasing
<1>5. ASSUME NEW w \in Workers, NEW s \in Replicas, NEW t \in Replicas, NEW ids \in SUBSET Ids,
             Discard(w, s, t, ids)
      PROVE  Leasing'
  <2> DEFINE o == [op |-> "discard", ids |-> ids, objects |-> ids \ InlinedIn(t, ids)]
  <2>1. Start(w, o) /\ handles' \subseteq handles
    BY <1>5 DEF Discard
  <2>2. NackCharged(o)' /\ GivenUp(o)' /\ o.op # "claim"
    BY DEF NackCharged, GivenUp
  <2> HIDE DEF o
  <2> QED
    BY <2>1, <2>2, StartLeasing
<1>6. ASSUME NEW w \in Workers, NEW s \in Replicas, NEW t \in Replicas, NEW ids \in SUBSET Ids,
             Redrive(w, s, t, ids)
      PROVE  Leasing'
  <2> DEFINE o == [op |-> "redrive", ids |-> ids, inlined |-> InlinedIn(t, ids)]
  <2>1. Start(w, o) /\ handles' \subseteq handles
    BY <1>6 DEF Redrive
  <2>2. NackCharged(o)' /\ GivenUp(o)' /\ o.op # "claim"
    BY DEF NackCharged, GivenUp
  <2> HIDE DEF o
  <2> QED
    BY <2>1, <2>2, StartLeasing
<1>7. ASSUME NEW w \in Workers, NEW b \in BOOLEAN, SetPaused(w, b)
      PROVE  Leasing'
  <2> DEFINE o == [op |-> "pause", to |-> b]
  <2>1. Start(w, o) /\ handles' \subseteq handles
    BY <1>7 DEF SetPaused
  <2>2. NackCharged(o)' /\ GivenUp(o)' /\ o.op # "claim"
    BY DEF NackCharged, GivenUp
  <2> HIDE DEF o
  <2> QED
    BY <2>1, <2>2, StartLeasing
<1>8. ASSUME NEW w \in Workers, NEW s \in Replicas, Rebuild(w, s)
      PROVE  Leasing'
  <2> DEFINE o == [op |-> "mark"]
  <2>1. Start(w, o) /\ handles' \subseteq handles
    BY <1>8 DEF Rebuild
  <2>2. NackCharged(o)' /\ GivenUp(o)' /\ o.op # "claim"
    BY DEF NackCharged, GivenUp
  <2> HIDE DEF o
  <2> QED
    BY <2>1, <2>2, StartLeasing
<1>9. ASSUME NEW w \in Workers, Apply(w)
      PROVE  Leasing'
  <2>1. CASE job[w].op.op = "claim"
    BY <1>9, <2>1, ApplyDelivers
  <2>2. CASE job[w].op.op # "claim"
    <3> DEFINE o == job[w].op
    <3>1. /\ job[w].stage = "propose" /\ o \in Posts /\ ApplyOp(o)
          /\ job' = [job EXCEPT ![w] = AfterApply(o)]
          /\ UNCHANGED <<late, handles, clock>>
      BY <1>9 DEF Apply, Posts, Proposing
    <3>2. AfterApply(o).stage \notin {"propose", "fetch"}
      BY <2>2 DEF AfterApply, IdleJob
    <3>3. Posts' \subseteq Posts
      BY <3>1, <3>2, NoNewPost DEF Posts
    <3> HIDE DEF o
    <3>4. Fetching' = Fetching /\ \A v \in Fetching : job'[v] = job[v]
      BY <3>1, <3>2 DEF Fetching, TypeOK
    <3> QED
      BY <3>1, <3>3, <3>4, ApplyQuietly
  <2> QED
    BY <2>1, <2>2
<1>10. ASSUME NEW o \in late, ApplyLate(o)
       PROVE  Leasing'
  <2>1. /\ o \in Posts /\ ApplyOp(o) /\ Posts' \subseteq Posts /\ Fetching' = Fetching
        /\ UNCHANGED <<job, handles, clock>>
    BY <1>10 DEF ApplyLate, Posts, Proposing, Fetching
  <2> QED
    BY <2>1, ApplyQuietly
<1>11. ASSUME NEW w \in Workers, PostFails(w)
       PROVE  Leasing'
  <2>1. /\ job[w].stage = "propose" /\ late' = late \cup {job[w].op}
        /\ job' = [job EXCEPT ![w] = IF job[w].tries = 1 THEN IdleJob
                                     ELSE [job[w] EXCEPT !.tries = @ - 1]]
        /\ UNCHANGED <<meta, reborn, overrun, clock, handles>>
    BY <1>11 DEF PostFails, applied, history
  <2>2. \/ job'[w] = IdleJob
        \/ job'[w].stage = "propose" /\ job'[w].op = job[w].op
    BY <2>1 DEF TypeOK, Job, IdleJob
  <2>3. \A v \in Workers \ {w} : job'[v] = job[v]
    BY <2>1 DEF TypeOK
  <2>4. Posts' \subseteq Posts
    BY <2>1, <2>2, <2>3 DEF Posts, Proposing, IdleJob
  <2>5. Fetching' = Fetching /\ \A v \in Fetching : job'[v] = job[v]
    BY <2>1, <2>2, <2>3 DEF Fetching, IdleJob
  <2>6. Holders' \subseteq Holders
    BY <2>1, <2>5 DEF Holders, Fetching
  <2>7. HeldOnce'
    BY <2>1, <2>5 DEF Leasing, HeldOnce
  <2>8. clock' \in Nat /\ clock <= clock'
    BY <2>1 DEF TypeOK
  <2> QED
    BY <2>1, <2>4, <2>6, <2>7, <2>8, QuietLeasing
<1>12. ASSUME NEW w \in Workers, Fetch(w) \/ FreePayload(w) \/ Crash(w)
       PROVE  Leasing'
  <2>1. /\ job' = [job EXCEPT ![w] = IdleJob]
        /\ UNCHANGED <<meta, reborn, overrun, clock, late>>
        /\ \/ handles' = handles
           \/ w \in Fetching /\ handles' = handles \cup job[w].recs
    BY <1>12 DEF Fetch, FreePayload, Crash, Fetching, applied, history
  <2> QED
    BY <2>1, ReturnLeasing
<1>13. ASSUME \/ \E o \in late : LoseLate(o)
              \/ \E f \in Followers : CatchUp(f)
              \/ Tick
              \/ UNCHANGED vars
       PROVE  Leasing'
  <2>1. /\ UNCHANGED <<meta, reborn, overrun, job, handles>> /\ late' \subseteq late
    BY <1>13 DEF LoseLate, CatchUp, Tick, vars, applied, history
  <2>2. clock' \in Nat /\ clock <= clock'
    BY <1>13 DEF LoseLate, CatchUp, Tick, vars, TypeOK
  <2>3. Posts' \subseteq Posts /\ Holders' = Holders /\ Fetching' = Fetching
    BY <2>1 DEF Posts, Proposing, Holders, Fetching
  <2>4. HeldOnce'
    BY <2>1, <2>3 DEF Leasing, HeldOnce
  <2> QED
    BY <2>1, <2>2, <2>3, <2>4, QuietLeasing
<1> QED
  BY <1>1, <1>2, <1>3, <1>4, <1>5, <1>6, <1>7, <1>8, <1>9, <1>10, <1>11, <1>12, <1>13
     DEF Next, WorkerNext

\* Leasing holds in every reachable state.
LEMMA LeasingInvariant == Spec => []Leasing
BY LeasingInit, LeasingNext, TypeCorrect, CustodyInvariant, PTL DEF Spec

\* A message is leased to one claimer at a time, unless a holder nacks it after a
\* later delivery or it is indexed again: for any lease, batch size and clock skew,
\* however late a claim or a nack is applied, two deliveries overlap only once the
\* lease of one of them is over on the fastest clock.
THEOREM LeasedOnce == Spec => []OneHolder
<1>1. Leasing => OneHolder
  BY DEF Leasing
<1> QED
  BY <1>1, LeasingInvariant, PTL

\* No message is delivered more than max_attempts times, and no record forgets a
\* delivery unless it is indexed again.
THEOREM DeliveriesCharged == Spec => []AttemptsCharged
<1>1. Leasing => AttemptsCharged
  BY DEF Leasing, Charged, AttemptsCharged
<1> QED
  BY <1>1, LeasingInvariant, PTL
=============================================================================
