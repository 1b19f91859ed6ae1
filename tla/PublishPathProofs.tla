------------------------- MODULE PublishPathProofs -------------------------
(***************************************************************************)
(* Proofs about the publish path of PublishPath: for any publishers, topics, *)
(* policies, budgets and group limit, and any number of failed writes,       *)
(* cancelled publishers and crashes.                                         *)
(***************************************************************************)
EXTENDS PublishPath, FiniteSetTheorems, SequenceTheorems, WellFoundedInduction, TLAPS

Busy(p) == pub[p].stage # "idle"
Early(p) == pub[p].stage \in {"resolve", "fill", "enforce", "push"}
Batched(p) == pub[p].stage \in {"flush", "report"}

InQueue(i) == \E k \in DOMAIN queue : queue[k].id = i
InBatch(p, i) == Batched(p) /\ i \in Members(pub[p].batch)

\* The commit gate has one holder.
GateInv ==
    /\ \A p, q \in Publishers : Leading(p) /\ Leading(q) => p = q
    /\ pruning => \A p \in Publishers : ~Leading(p)

\* A publish belongs to one publisher until it returns, and has written nothing
\* before it is queued.
Unwritten(i) == done[i] = "none" /\ \A m \in buffered \cup durable : m[1] # i

IdInv ==
    /\ \A p \in Publishers : Busy(p) => pub[p].id \in minted \ acked
    /\ \A p, q \in Publishers : Busy(p) /\ Busy(q) /\ pub[p].id = pub[q].id => p = q
    /\ \A p \in Publishers : Early(p) => Unwritten(pub[p].id)
    /\ \A i \in Ids \ minted : Unwritten(i)
    /\ \A i \in acked : done[i] \in {"ok", "none"}
    /\ \A m \in buffered : m[1] \in acked => done[m[1]] = "ok"

\* A job in the queue or in a batch is pending, and in one of them only.
Pending(job) ==
    /\ done[job.id] = "pending"
    /\ granted[job.id] = [topics |-> job.topics, budget |-> job.budget]

JobInv ==
    /\ \A k \in DOMAIN queue : Pending(queue[k])
    /\ \A j, k \in DOMAIN queue : queue[j].id = queue[k].id => j = k
    /\ \A p \in Publishers : Batched(p) =>
          \A k \in DOMAIN pub[p].batch :
             Pending(pub[p].batch[k]) /\ ~InQueue(pub[p].batch[k].id)

\* Whoever is pending has a job that somebody will commit.
StrandInv ==
    \A p \in Publishers :
      /\ pub[p].stage = "read" => done[pub[p].id] # "pending"
      /\ pub[p].stage \in {"wait", "lead", "flush", "report"} /\ done[pub[p].id] = "pending" =>
           InQueue(pub[p].id) \/ \E q \in Publishers : InBatch(q, pub[p].id)

Kept(i) ==
    \A m \in Messages(i, granted[i].topics) :
        \/ m \in durable \cup consumed
        \/ granted[i].budget > 0 /\ m \in buffered \cup lost

KeptInv ==
    /\ \A i \in Ids : i \in acked \/ done[i] = "ok" => Kept(i)
    /\ \A p \in Publishers : pub[p].stage = "report" /\ pub[p].ok =>
          \A i \in Members(pub[p].batch) : Kept(i)

\* Buffered messages of publishes that are, or may be, reported Ok.
Counts == {m \in buffered : done[m[1]] = "ok"}

\* A batch that was only buffered is within the budget of each of its jobs; after
\* any other nothing is buffered.
WithinBudget(s, count, buffer) ==
    IF s.relaxed THEN \A k \in DOMAIN s.batch : count + Weight(s.batch) <= s.batch[k].budget
    ELSE buffer = {}

LossInv ==
    /\ \A m \in buffered : m[2] \in granted[m[1]].topics
    /\ \A p \in Publishers : pub[p].stage = "report" /\ pub[p].ok =>
          WithinBudget(pub[p], unflushed, buffered)
    /\ Cardinality(Counts) <= unflushed
    /\ \A X \in SUBSET Counts : X # {} => \E m \in X : Cardinality(X) <= granted[m[1]].budget

\* The topic has room, in some policy, beside the messages of these publishes.
Room(ids, messages, t) ==
    \E pol \in Policies :
        pol.depth # Unset /\ Cardinality({j \in ids : <<j, t>> \in messages}) < pol.depth

\* When the publish was checked, the topic had room for it.
Admitted(i, t) == Room(before[i], buffered \cup durable, t)

\* The topics a publisher has checked so far.
Checked(s) ==
    CASE s.stage = "resolve" -> s.topics \ s.todo
      [] s.stage \in {"fill", "enforce"} -> s.topics \ (s.todo \cup {s.topic})
      [] s.stage = "push" -> s.topics
      [] OTHER -> {}

Fits(i, T) == \A t \in T \ unlimited : Admitted(i, t)

DepthInv ==
    /\ \A i \in Ids : before[i] \subseteq acked
    /\ \A p \in Publishers : Early(p) => Fits(pub[p].id, Checked(pub[p]))
    /\ \A k \in DOMAIN queue : Fits(queue[k].id, queue[k].topics)
    /\ \A p \in Publishers : Batched(p) =>
          \A k \in DOMAIN pub[p].batch : Fits(pub[p].batch[k].id, pub[p].batch[k].topics)
    /\ \A t \in Topics \ unlimited, i \in Ids :
          <<i, t>> \in buffered \cup durable => Admitted(i, t)

IInv == TypeOK /\ GateInv /\ IdInv /\ JobInv /\ StrandInv /\ KeptInv /\ LossInv /\ DepthInv

-----------------------------------------------------------------------------
(* Numbers, batches and the shape of a publisher's stage. *)

\* Every nonempty set of natural numbers has a least element ...
LEMMA LeastNat ==
    ASSUME NEW S \in SUBSET Nat, S # {}
    PROVE  \E m \in S : \A k \in S : m <= k
<1> DEFINE R == OpToRel(<, Nat)
<1>1. IsWellFoundedOn(R, Nat) BY NatLessThanWellFounded
<1>2. \A a, b \in Nat : a < b => <<a, b>> \in R BY DEF OpToRel
<1> HIDE DEF R
<1>3. PICK m \in S : \A k \in S : <<k, m>> \notin R BY <1>1, WFMin
<1>4. \A k \in S : m <= k
  <2> TAKE k \in S
  <2>1. ~(k < m) BY <1>2, <1>3
  <2> QED BY <2>1
<1> QED BY <1>4

\* ... and, when it is bounded, a greatest one.
LEMMA GreatestNat ==
    ASSUME NEW S \in SUBSET Nat, S # {}, NEW n \in Nat, \A k \in S : k <= n
    PROVE  \E m \in S : \A k \in S : k <= m
<1> DEFINE D == {n - k : k \in S}
<1>1. D \in SUBSET Nat
  <2>1. \A k \in S : n - k \in Nat OBVIOUS
  <2> QED BY <2>1
<1>2. \A k \in S : n - k \in D OBVIOUS
<1>3. \A d \in D : \E m \in S : d = n - m OBVIOUS
<1>4. D # {} BY <1>2
<1> HIDE DEF D
<1>5. PICK d \in D : \A e \in D : d <= e BY <1>1, <1>4, LeastNat
<1>6. PICK m \in S : d = n - m BY <1>3
<1>7. \A k \in S : n - m <= n - k BY <1>2, <1>5, <1>6
<1>8. \A k \in S : k <= m BY <1>7
<1> QED BY <1>8

LEMMA MessageFinite ==
    /\ IsFiniteSet(Message)
    /\ \A S \in SUBSET Message : IsFiniteSet(S) /\ Cardinality(S) \in Nat
<1>1. IsFiniteSet(Message) BY PublishPathAssumption, FS_Product DEF PublishPathAssumption, Message
<1> QED BY <1>1, FS_Subset, FS_CardinalityType

LEMMA IdsFinite == \A S \in SUBSET Ids : IsFiniteSet(S) /\ Cardinality(S) \in Nat
  BY PublishPathAssumption, FS_Subset, FS_CardinalityType DEF PublishPathAssumption

\* The messages of a batch are those of its jobs.
LEMMA CarriedIs ==
    ASSUME NEW batch \in Seq(Job)
    PROVE  /\ Carried(batch) \in SUBSET Message /\ Weight(batch) \in Nat
           /\ \A k \in DOMAIN batch : \A t \in batch[k].topics : <<batch[k].id, t>> \in Carried(batch)
           /\ \A m \in Carried(batch) : \E k \in DOMAIN batch :
                 m[1] = batch[k].id /\ m[2] \in batch[k].topics /\ m = <<m[1], m[2]>>
           /\ Carried(batch) # {} => Weight(batch) >= 1
<1>1. \A k \in DOMAIN batch : batch[k] \in Job OBVIOUS
<1>2. \A k \in DOMAIN batch : batch[k].id \in Ids /\ batch[k].topics \subseteq Topics
  BY <1>1 DEF Job
<1>3. Carried(batch) \in SUBSET Message BY <1>2 DEF Carried, Messages, Message
<1>4. Weight(batch) \in Nat BY <1>3, MessageFinite DEF Weight
<1>5. \A k \in DOMAIN batch : \A t \in batch[k].topics : <<batch[k].id, t>> \in Carried(batch)
  BY DEF Carried, Messages
<1>6. \A m \in Carried(batch) : \E k \in DOMAIN batch :
         m[1] = batch[k].id /\ m[2] \in batch[k].topics /\ m = <<m[1], m[2]>>
  BY DEF Carried, Messages
<1>7. Carried(batch) # {} => Weight(batch) >= 1
  BY <1>3, <1>4, MessageFinite, FS_EmptySet DEF Weight
<1> QED BY <1>3, <1>4, <1>5, <1>6, <1>7

\* The budget of a batch is no more than that of any of its jobs.
LEMMA BudgetIsLeast ==
    ASSUME NEW batch \in Seq(Job), NEW k \in DOMAIN batch
    PROVE  /\ BatchBudget(batch) \in Nat /\ batch[k].budget \in Nat
           /\ BatchBudget(batch) <= batch[k].budget
<1> DEFINE B == Budgets(batch)
<1>1. \A j \in DOMAIN batch : batch[j] \in Job OBVIOUS
<1>2. \A j \in DOMAIN batch : batch[j].budget \in Nat BY <1>1 DEF Job
<1>3. B \in SUBSET Nat /\ batch[k].budget \in B BY <1>2 DEF Budgets
<1> HIDE DEF B
<1>4. \E b \in B : \A c \in B : b <= c BY <1>3, LeastNat
<1> DEFINE Least(b) == b \in B /\ \A c \in B : b <= c
<1>5. Least(CHOOSE b \in B : \A c \in B : b <= c) BY <1>4
<1>6. BatchBudget(batch) \in B /\ \A c \in B : BatchBudget(batch) <= c
  BY <1>5 DEF BatchBudget, B
<1> QED BY <1>3, <1>6

\* A drain takes jobs from the head of the queue, at least one.
LEMMA DrainedRange ==
    ASSUME queue \in Seq(Job), queue # <<>>
    PROVE  Drained \in 1 .. Len(queue)
<1> DEFINE fits == {n \in 1 .. Len(queue) : n = 1 \/ Weight(SubSeq(queue, 1, n)) <= GroupMax}
<1>1. Len(queue) \in Nat /\ Len(queue) >= 1 BY EmptySeq
<1>2. fits \in SUBSET Nat /\ fits \subseteq 1 .. Len(queue) OBVIOUS
<1>3. 1 \in fits BY <1>1
<1> HIDE DEF fits
<1>4. \E n \in fits : \A k \in fits : k <= n
  <2>1. fits # {} /\ \A k \in fits : k <= Len(queue) BY <1>1, <1>2, <1>3
  <2> QED BY <1>1, <1>2, <2>1, GreatestNat
<1>5. (CHOOSE n \in fits : \A k \in fits : k <= n) \in fits BY <1>4
<1> QED BY <1>2, <1>5 DEF Drained, fits

LEMMA DrainSplits ==
    ASSUME queue \in Seq(Job), NEW d \in 1 .. Len(queue)
    PROVE  LET batch == SubSeq(queue, 1, d)
               rest == SubSeq(queue, d + 1, Len(queue))
           IN  /\ batch \in Seq(Job) /\ rest \in Seq(Job)
               /\ DOMAIN batch = 1 .. d /\ DOMAIN rest = 1 .. (Len(queue) - d)
               /\ \A k \in 1 .. d : batch[k] = queue[k]
               /\ \A k \in 1 .. (Len(queue) - d) : rest[k] = queue[d + k]
<1>0. Len(queue) \in Nat /\ DOMAIN queue = 1 .. Len(queue) BY LenProperties
<1>1. \A k \in 1 .. Len(queue) : queue[k] \in Job BY ElementOfSeq
<1> DEFINE batch == SubSeq(queue, 1, d)
           rest == SubSeq(queue, d + 1, Len(queue))
<1>2. batch \in Seq(Job) /\ Len(batch) = d /\ \A k \in 1 .. d : batch[k] = queue[k]
  <2>1. \A k \in 1 .. d : queue[k] \in Job BY <1>0, <1>1
  <2>2. /\ batch \in Seq(Job)
        /\ Len(batch) = IF 1 <= d THEN d - 1 + 1 ELSE 0
        /\ \A k \in 1 .. d - 1 + 1 : batch[k] = queue[1 + k - 1]
    BY <2>1, SubSeqProperties
  <2> HIDE DEF batch
  <2> QED BY <1>0, <2>2
<1>3. /\ rest \in Seq(Job) /\ Len(rest) = Len(queue) - d
      /\ \A k \in 1 .. (Len(queue) - d) : rest[k] = queue[d + k]
  <2>1. \A k \in (d + 1) .. Len(queue) : queue[k] \in Job BY <1>0, <1>1
  <2>2. /\ rest \in Seq(Job)
        /\ Len(rest) = IF d + 1 <= Len(queue) THEN Len(queue) - (d + 1) + 1 ELSE 0
        /\ \A k \in 1 .. Len(queue) - (d + 1) + 1 : rest[k] = queue[(d + 1) + k - 1]
    BY <1>0, <2>1, SubSeqProperties
  <2> HIDE DEF rest
  <2>3. Len(rest) = Len(queue) - d
    <3>1. Len(rest) = IF d + 1 <= Len(queue) THEN Len(queue) - (d + 1) + 1 ELSE 0 BY <2>2
    <3>2. Len(queue) \in Nat /\ d \in Nat /\ d <= Len(queue) BY <1>0
    <3> QED BY <3>1, <3>2
  <2>4. \A k \in 1 .. (Len(queue) - d) : rest[k] = queue[d + k]
    <3> TAKE k \in 1 .. (Len(queue) - d)
    <3>1. k \in 1 .. Len(queue) - (d + 1) + 1 /\ (d + 1) + k - 1 = d + k BY <1>0
    <3> QED BY <2>2, <3>1
  <2> QED BY <2>2, <2>3, <2>4
<1> HIDE DEF batch, rest
<1>4. DOMAIN batch = 1 .. d /\ DOMAIN rest = 1 .. (Len(queue) - d)
  BY <1>2, <1>3, LenProperties
<1> QED BY <1>2, <1>3, <1>4 DEF batch, rest

\* What a stage holds.
LEMMA StageFields ==
    ASSUME TypeOK, NEW p \in Publishers
    PROVE  LET s == pub[p] IN
           /\ s.stage \in {"idle", "resolve", "fill", "enforce", "push", "wait", "lead",
                            "flush", "report", "read"}
           /\ Busy(p) => s.id \in Ids
           /\ Early(p) => s.topics \in SUBSET Topics
           /\ s.stage \in {"resolve", "fill", "enforce"} =>
                 s.todo \in SUBSET Topics /\ s.budget \in Nat \cup {Unset}
           /\ s.stage \in {"fill", "enforce"} => s.topic \in Topics /\ s.policy \in Policy
           /\ s.stage = "push" => s.budget \in Nat
           /\ Batched(p) => s.batch \in Seq(Job)
           /\ s.stage = "report" => s.relaxed \in BOOLEAN /\ s.ok \in BOOLEAN
<1>1. pub[p] \in Stage BY DEF TypeOK
<1> QED BY <1>1 DEF Stage, Busy, Early, Batched

LEMMA StageIs ==
    ASSUME NEW i \in Ids, NEW T \in SUBSET Topics, NEW U \in SUBSET Topics, NEW t \in Topics,
           NEW b \in Nat \cup {Unset}, NEW pol \in Policy
    PROVE  /\ [stage |-> "resolve", id |-> i, topics |-> T, todo |-> U, budget |-> b] \in Stage
           /\ \A st \in {"fill", "enforce"} :
                [stage |-> st, id |-> i, topics |-> T, todo |-> U, budget |-> b,
                 topic |-> t, policy |-> pol] \in Stage
  BY DEF Stage

LEMMA StageIsLate ==
    ASSUME NEW i \in Ids, NEW T \in SUBSET Topics, NEW b \in Nat, NEW batch \in Seq(Job),
           NEW relaxed \in BOOLEAN, NEW ok \in BOOLEAN
    PROVE  /\ Idle \in Stage /\ Idle.stage = "idle"
           /\ [stage |-> "push", id |-> i, topics |-> T, budget |-> b] \in Stage
           /\ \A st \in {"wait", "lead", "read"} : [stage |-> st, id |-> i] \in Stage
           /\ [stage |-> "flush", id |-> i, batch |-> batch] \in Stage
           /\ [stage |-> "report", id |-> i, batch |-> batch, relaxed |-> relaxed, ok |-> ok] \in Stage
  BY DEF Stage, Idle

-----------------------------------------------------------------------------
(* Before the queue: a publisher checks its topics. *)

\* A check stays true: the publishes counted have returned and write no more.
LEMMA RoomStays ==
    ASSUME NEW ids \in SUBSET Ids, NEW M, NEW N, NEW t,
           \A m \in N : m \in M \/ m[1] \notin ids, Room(ids, M, t)
    PROVE  Room(ids, N, t)
<1> DEFINE S == {j \in ids : <<j, t>> \in M}
           S2 == {j \in ids : <<j, t>> \in N}
<1>1. S2 \subseteq S
  <2> SUFFICES ASSUME NEW j \in ids, <<j, t>> \in N PROVE <<j, t>> \in M
    OBVIOUS
  <2>1. <<j, t>>[1] = j OBVIOUS
  <2> QED BY <2>1
<1>2. S \in SUBSET Ids OBVIOUS
<1>3. PICK pol \in Policies : pol.depth # Unset /\ Cardinality(S) < pol.depth
  BY DEF Room
<1> HIDE DEF S, S2
<1>4. IsFiniteSet(S) /\ Cardinality(S) \in Nat BY <1>2, IdsFinite
<1>5. Cardinality(S2) <= Cardinality(S) /\ IsFiniteSet(S2) BY <1>1, <1>4, FS_Subset
<1>6. Cardinality(S2) \in Nat BY <1>5, FS_CardinalityType
<1>7. pol.depth \in Nat BY <1>3, PublishPathAssumption DEF PublishPathAssumption
<1>8. Cardinality(S2) < pol.depth BY <1>4, <1>5, <1>6, <1>3, <1>7
<1> QED BY <1>3, <1>8 DEF Room, S2

LEMMA AdmittedStays ==
    ASSUME TypeOK, DepthInv, NEW i \in Ids, NEW t, before'[i] = before[i],
           \A m \in (buffered \cup durable)' : m \in buffered \cup durable \/ m[1] \notin acked,
           Admitted(i, t)
    PROVE  Room(before'[i], (buffered \cup durable)', t)
  BY RoomStays DEF Admitted, TypeOK, DepthInv

\* What is queued or in a batch was begun.
LEMMA JobsMinted ==
    ASSUME TypeOK, IdInv, JobInv
    PROVE  /\ \A k \in DOMAIN queue : queue[k] \in Job /\ queue[k].id \in minted
           /\ \A p \in Publishers : Batched(p) => \A k \in DOMAIN pub[p].batch :
                 pub[p].batch[k] \in Job /\ pub[p].batch[k].id \in minted
<1>1. \A i \in Ids : done[i] = "pending" => i \in minted BY DEF IdInv, Unwritten
<1>2. ASSUME NEW k \in DOMAIN queue PROVE queue[k] \in Job /\ queue[k].id \in minted
  <2>1. queue[k] \in Job BY DEF TypeOK
  <2>2. queue[k].id \in Ids /\ done[queue[k].id] = "pending" BY <2>1 DEF Job, JobInv, Pending
  <2> QED BY <1>1, <2>1, <2>2
<1>3. ASSUME NEW p \in Publishers, Batched(p), NEW k \in DOMAIN pub[p].batch
      PROVE  pub[p].batch[k] \in Job /\ pub[p].batch[k].id \in minted
  <2>1. pub[p].batch[k] \in Job BY <1>3, StageFields
  <2>2. pub[p].batch[k].id \in Ids /\ done[pub[p].batch[k].id] = "pending"
    BY <1>3, <2>1 DEF Job, JobInv, Pending
  <2> QED BY <1>1, <2>1, <2>2
<1> QED BY <1>2, <1>3

\* An early step of a publisher touches neither the queue nor the store.
LEMMA EarlyMove ==
    ASSUME IInv, NEW p \in Publishers, NEW s \in Stage, pub' = [pub EXCEPT ![p] = s],
           s.stage \in {"idle", "resolve", "fill", "enforce", "push"},
           pub[p].stage \in {"idle", "resolve", "fill", "enforce", "push"},
           UNCHANGED <<queue, pruning, done, unflushed, buffered, durable, acked, consumed,
                       lost, granted>>,
           policy' \in [Topics -> Policy], cache' \in [Topics -> Policy \cup {Miss}],
           setting' \subseteq Topics,
           minted \subseteq minted', minted' \subseteq Ids,
           before' \in [Ids -> SUBSET acked],
           \A i \in minted : before'[i] = before[i],
           unlimited \subseteq unlimited', unlimited' \subseteq Topics,
           s.stage # "idle" => /\ s.id \in minted' \ acked /\ Unwritten(s.id)
                               /\ \A q \in Publishers \ {p} : Busy(q) => pub[q].id # s.id
                               /\ \A t \in Checked(s) \ unlimited' :
                                     Room(before'[s.id], buffered \cup durable, t)
    PROVE  IInv'
<1>0. \A q \in Publishers : pub'[q] = IF q = p THEN s ELSE pub[q] BY DEF IInv, TypeOK
<1>1. TypeOK' BY DEF IInv, TypeOK
<1>2. GateInv' BY <1>0 DEF IInv, GateInv, Leading
<1>3. \A q \in Publishers : Batched(q)' <=> Batched(q) BY <1>0 DEF Batched
<1>4. \A q \in Publishers : Batched(q) => pub'[q] = pub[q] BY <1>0 DEF Batched
<1>5. IdInv'
  <2>1. \A q \in Publishers : Busy(q)' => pub'[q].id \in minted' \ acked'
    BY <1>0 DEF IInv, IdInv, Busy
  <2>2. \A q, r \in Publishers : Busy(q)' /\ Busy(r)' /\ pub'[q].id = pub'[r].id => q = r
    BY <1>0 DEF IInv, IdInv, Busy
  <2>3. \A q \in Publishers : Early(q)' => Unwritten(pub[q].id)'
    BY <1>0 DEF IInv, IdInv, Early, Unwritten
  <2>4. \A i \in Ids \ minted' : Unwritten(i)' BY DEF IInv, IdInv, Unwritten
  <2> QED BY <2>1, <2>2, <2>3, <2>4 DEF IInv, IdInv
<1>6. JobInv' BY <1>3, <1>4 DEF IInv, JobInv, Pending, InQueue
<1>7. StrandInv'
  BY <1>0, <1>3, <1>4 DEF IInv, StrandInv, InQueue, InBatch, Members
<1>8. KeptInv' BY <1>0 DEF IInv, KeptInv, Kept
<1>9. LossInv' BY <1>0 DEF IInv, LossInv, Counts
<1>10. DepthInv'
  <2>1. \A i \in Ids : before'[i] \subseteq acked' OBVIOUS
  <2>2. \A i \in minted : \A t : Admitted(i, t) => Room(before'[i], (buffered \cup durable)', t)
    BY AdmittedStays DEF IInv, TypeOK
  <2>3. \A q \in Publishers : Early(q)' => Fits(pub[q].id, Checked(pub[q]))'
    <3> SUFFICES ASSUME NEW q \in Publishers, Early(q)' PROVE Fits(pub[q].id, Checked(pub[q]))'
      OBVIOUS
    <3>1. CASE q = p
      <4>1. pub'[q] = s /\ s.stage # "idle" BY <1>0, <3>1 DEF Early
      <4> QED BY <4>1 DEF Fits, Admitted, Checked
    <3>2. CASE q # p
      <4>1. pub'[q] = pub[q] /\ Early(q) /\ pub[q].id \in minted
        BY <1>0, <3>2 DEF Early, IInv, IdInv, Busy
      <4>2. Fits(pub[q].id, Checked(pub[q])) BY <4>1 DEF IInv, DepthInv
      <4> QED BY <2>2, <4>1, <4>2 DEF Fits, Admitted, Checked
    <3> QED BY <3>1, <3>2
  <2>4. \A k \in DOMAIN queue' : Fits(queue[k].id, queue[k].topics)'
    <3> SUFFICES ASSUME NEW k \in DOMAIN queue PROVE Fits(queue[k].id, queue[k].topics)'
      OBVIOUS
    <3>1. queue[k].id \in minted BY JobsMinted DEF IInv
    <3>2. Fits(queue[k].id, queue[k].topics) BY DEF IInv, DepthInv
    <3> QED BY <2>2, <3>1, <3>2 DEF Fits, Admitted
  <2>5. \A q \in Publishers : Batched(q)' =>
           \A k \in DOMAIN pub'[q].batch : Fits(pub[q].batch[k].id, pub[q].batch[k].topics)'
    <3> SUFFICES ASSUME NEW q \in Publishers, Batched(q), NEW k \in DOMAIN pub[q].batch
                 PROVE  Fits(pub[q].batch[k].id, pub[q].batch[k].topics)'
      BY <1>3, <1>4
    <3>1. pub[q].batch[k].id \in minted BY JobsMinted DEF IInv
    <3>2. Fits(pub[q].batch[k].id, pub[q].batch[k].topics) BY DEF IInv, DepthInv
    <3> QED BY <1>4, <2>2, <3>1, <3>2 DEF Fits, Admitted
  <2>6. \A t \in Topics \ unlimited', i \in Ids :
           <<i, t>> \in (buffered \cup durable)' => Admitted(i, t)'
    <3> SUFFICES ASSUME NEW t \in Topics \ unlimited', NEW i \in Ids,
                        <<i, t>> \in buffered \cup durable
                 PROVE  Admitted(i, t)'
      OBVIOUS
    <3>1. <<i, t>>[1] = i OBVIOUS
    <3>2. i \in minted BY <3>1 DEF IInv, IdInv, Unwritten
    <3>3. Admitted(i, t) BY DEF IInv, DepthInv
    <3> QED BY <2>2, <3>2, <3>3 DEF Admitted
  <2> QED BY <2>1, <2>3, <2>4, <2>5, <2>6 DEF DepthInv
<1> QED BY <1>1, <1>2, <1>5, <1>6, <1>7, <1>8, <1>9, <1>10 DEF IInv

\* A backlog under the limit leaves room beside any publishes.
LEMMA BacklogRoom ==
    ASSUME TypeOK, NEW ids \in SUBSET Ids, NEW t \in Topics, NEW pol \in Policy,
           pol # Unset, pol.depth # Unset, ~OverDepth(pol, t)
    PROVE  Room(ids, buffered \cup durable, t)
<1> DEFINE S == {j \in ids : <<j, t>> \in buffered \cup durable}
           B == {m \in buffered \cup durable : m[2] = t}
           f == [j \in S |-> <<j, t>>]
<1>1. pol \in Policies /\ pol.depth \in Nat
  BY PublishPathAssumption DEF PublishPathAssumption, Policy
<1>2. B \in SUBSET Message BY DEF TypeOK
<1>3. IsFiniteSet(B) /\ Cardinality(B) \in Nat BY <1>2, MessageFinite
<1>4. Cardinality(B) < pol.depth BY <1>1, <1>3 DEF OverDepth, Backlog
<1>5. f \in Injection(S, B)
  <2>1. \A j \in S : <<j, t>> \in B OBVIOUS
  <2>2. f \in [S -> B] BY <2>1
  <2>3. \A j, k \in S : f[j] = f[k] => j = k OBVIOUS
  <2> QED BY <2>2, <2>3 DEF Injection, IsInjective
<1>6. Cardinality(S) <= Cardinality(B) /\ IsFiniteSet(S)
  <2> HIDE DEF S, B, f
  <2> QED BY <1>3, <1>5, FS_Injection
<1>7. Cardinality(S) \in Nat BY <1>6, FS_CardinalityType
<1> HIDE DEF B
<1>8. Cardinality(S) < pol.depth BY <1>1, <1>3, <1>4, <1>6, <1>7
<1> QED BY <1>1, <1>8 DEF Room

LEMMA EarlyFacts ==
    ASSUME IInv
    PROVE  /\ policy \in [Topics -> Policy] /\ cache \in [Topics -> Policy \cup {Miss}]
           /\ setting \subseteq Topics /\ minted \subseteq Ids /\ acked \subseteq minted
           /\ before \in [Ids -> SUBSET acked] /\ unlimited \subseteq Topics
           /\ \A p \in Publishers : Early(p) =>
                /\ pub[p].id \in minted \ acked /\ pub[p].id \in Ids /\ Unwritten(pub[p].id)
                /\ \A q \in Publishers \ {p} : Busy(q) => pub[q].id # pub[p].id
                /\ \A t \in Checked(pub[p]) \ unlimited :
                      Room(before[pub[p].id], buffered \cup durable, t)
<1>1. before \in [Ids -> SUBSET acked] BY DEF IInv, TypeOK, DepthInv
<1>2. ASSUME NEW p \in Publishers, Early(p)
      PROVE  /\ pub[p].id \in minted \ acked /\ pub[p].id \in Ids /\ Unwritten(pub[p].id)
             /\ \A q \in Publishers \ {p} : Busy(q) => pub[q].id # pub[p].id
             /\ \A t \in Checked(pub[p]) \ unlimited :
                   Room(before[pub[p].id], buffered \cup durable, t)
  <2>1. Busy(p) BY <1>2 DEF Busy, Early
  <2> QED BY <1>2, <2>1 DEF IInv, IdInv, TypeOK, DepthInv, Fits, Admitted
<1> QED BY <1>1, <1>2 DEF IInv, TypeOK

LEMMA PublishStep ==
    ASSUME IInv, NEW p \in Publishers, NEW T \in Requests, Publish(p, T)
    PROVE  IInv'
<1>1. PICK i \in Ids \ minted :
         /\ pub[p] = Idle
         /\ minted' = minted \cup {i} /\ before' = [before EXCEPT ![i] = acked]
         /\ Goto(p, [stage |-> "resolve", id |-> i, topics |-> T, todo |-> T, budget |-> Unset])
  BY DEF Publish
<1> DEFINE s == [stage |-> "resolve", id |-> i, topics |-> T, todo |-> T, budget |-> Unset]
<1>2. UNCHANGED <<policy, cache, setting, queue, pruning, done, unflushed, buffered, durable,
                  acked, consumed, lost, granted, unlimited>>
  BY DEF Publish, control, store
<1>3. T \in SUBSET Topics BY PublishPathAssumption DEF PublishPathAssumption
<1>4. s \in Stage BY <1>3 DEF Stage
<1>5. pub' = [pub EXCEPT ![p] = s] /\ pub[p].stage = "idle" BY <1>1 DEF Goto, Idle
<1>6. before' \in [Ids -> SUBSET acked] /\ \A j \in minted : before'[j] = before[j]
  BY <1>1, EarlyFacts
<1>7. /\ s.id \in minted' \ acked /\ Unwritten(s.id) /\ Checked(s) = {}
      /\ \A q \in Publishers \ {p} : Busy(q) => pub[q].id # s.id
  BY <1>1, EarlyFacts DEF IInv, IdInv, Checked
<1>8. s.stage = "resolve" /\ minted' \subseteq Ids /\ minted \subseteq minted' BY <1>1, EarlyFacts
<1> HIDE DEF s
<1> QED BY <1>2, <1>4, <1>5, <1>6, <1>7, <1>8, EarlyFacts, EarlyMove

LEMMA ResolveStep ==
    ASSUME IInv, NEW p \in Publishers, NEW t \in Topics, Resolve(p, t)
    PROVE  IInv'
<1> DEFINE hit == cache[t] # Miss
           s == [stage |-> IF hit THEN "enforce" ELSE "fill",
                 id |-> pub[p].id, topics |-> pub[p].topics, todo |-> pub[p].todo \ {t},
                 budget |-> pub[p].budget, topic |-> t,
                 policy |-> IF hit THEN cache[t] ELSE policy[t]]
<1>1. /\ pub[p].stage = "resolve" /\ t \in pub[p].todo /\ pub' = [pub EXCEPT ![p] = s]
      /\ UNCHANGED <<policy, cache, setting, queue, pruning, done, unflushed, buffered, durable,
                     events, before, minted, acked, consumed, lost, granted, unlimited>>
  BY DEF Resolve, Goto, control, store
<1>2. Early(p) /\ TypeOK BY <1>1 DEF Early, IInv
<1>3. /\ pub[p].id \in Ids /\ pub[p].topics \in SUBSET Topics
      /\ pub[p].todo \ {t} \in SUBSET Topics /\ pub[p].budget \in Nat \cup {Unset}
  BY <1>1, <1>2, StageFields, EarlyFacts
<1>4. (IF hit THEN cache[t] ELSE policy[t]) \in Policy BY EarlyFacts
<1>5. s \in Stage BY <1>3, <1>4, StageIs
<1>6. s.stage \in {"fill", "enforce"} /\ s.id = pub[p].id OBVIOUS
<1>7. Checked(s) = Checked(pub[p])
  <2>1. Checked(s) = pub[p].topics \ ((pub[p].todo \ {t}) \cup {t}) BY DEF Checked
  <2>2. Checked(pub[p]) = pub[p].topics \ pub[p].todo BY <1>1 DEF Checked
  <2> QED BY <1>1, <2>1, <2>2
<1> HIDE DEF s
<1> QED BY <1>1, <1>2, <1>5, <1>6, <1>7, EarlyFacts, EarlyMove

LEMMA FillStep == ASSUME IInv, NEW p \in Publishers, Fill(p) PROVE IInv'
<1> DEFINE s == [pub[p] EXCEPT !.stage = "enforce"]
<1>1. /\ pub[p].stage = "fill" /\ pub' = [pub EXCEPT ![p] = s]
      /\ cache' = [cache EXCEPT ![pub[p].topic] = pub[p].policy]
      /\ UNCHANGED <<policy, setting, queue, pruning, done, unflushed, buffered, durable,
                     events, before, minted, acked, consumed, lost, granted, unlimited>>
  BY DEF Fill, Goto, store
<1>2. Early(p) /\ TypeOK BY <1>1 DEF Early, IInv
<1>3. pub[p].topic \in Topics /\ pub[p].policy \in Policy BY <1>1, <1>2, StageFields
<1>4. cache' \in [Topics -> Policy \cup {Miss}] BY <1>1, <1>3, EarlyFacts
<1>5. /\ s \in Stage /\ s.stage = "enforce" /\ s.id = pub[p].id /\ s.topics = pub[p].topics
      /\ s.todo = pub[p].todo /\ s.topic = pub[p].topic
  <2>1. pub[p] \in Stage BY <1>2 DEF TypeOK
  <2> QED BY <1>1, <2>1 DEF Stage
<1> HIDE DEF s
<1>6. Checked(s) = Checked(pub[p]) BY <1>1, <1>5 DEF Checked
<1> QED BY <1>1, <1>2, <1>4, <1>5, <1>6, EarlyFacts, EarlyMove

LEMMA EnforceStep == ASSUME IInv, NEW p \in Publishers, Enforce(p) PROVE IInv'
<1> DEFINE o == pub[p]
           budget == Lesser(o.budget, Budget(o.policy))
           s == IF o.todo = {}
                THEN [stage |-> "push", id |-> o.id, topics |-> o.topics, budget |-> budget]
                ELSE [stage |-> "resolve", id |-> o.id, topics |-> o.topics,
                      todo |-> o.todo, budget |-> budget]
           free == o.policy = Unset \/ o.policy.depth = Unset
<1>1. /\ o.stage = "enforce" /\ pub' = [pub EXCEPT ![p] = s] /\ ~OverDepth(o.policy, o.topic)
      /\ unlimited' = IF free THEN unlimited \cup {o.topic} ELSE unlimited
      /\ UNCHANGED <<policy, cache, setting, queue, pruning, done, unflushed, buffered, durable,
                     events, before, minted, acked, consumed, lost, granted>>
  BY DEF Enforce, Goto, control, store
<1>2. Early(p) /\ TypeOK BY <1>1 DEF Early, IInv
<1>3. /\ o.id \in Ids /\ o.topics \in SUBSET Topics /\ o.todo \in SUBSET Topics
      /\ o.budget \in Nat \cup {Unset} /\ o.topic \in Topics /\ o.policy \in Policy
  BY <1>1, <1>2, StageFields, EarlyFacts
<1>4. Budget(o.policy) \in Nat
  BY <1>3, PublishPathAssumption DEF Budget, Policy, PublishPathAssumption
<1>5. budget \in Nat BY <1>3, <1>4 DEF Lesser
<1> HIDE DEF budget
<1>6. s \in Stage /\ s.stage \in {"resolve", "push"} /\ s.id = o.id
      /\ Checked(s) = o.topics \ o.todo
  <2>1. CASE o.todo = {}
    <3>1. s = [stage |-> "push", id |-> o.id, topics |-> o.topics, budget |-> budget] BY <2>1
    <3>2. s \in Stage BY <1>3, <1>5, <3>1 DEF Stage
    <3> QED BY <2>1, <3>1, <3>2 DEF Checked
  <2>2. CASE o.todo # {}
    <3>1. s = [stage |-> "resolve", id |-> o.id, topics |-> o.topics, todo |-> o.todo,
               budget |-> budget]
      BY <2>2
    <3>2. s \in Stage BY <1>3, <1>5, <3>1 DEF Stage
    <3> QED BY <3>1, <3>2 DEF Checked
  <2> QED BY <2>1, <2>2
<1> HIDE DEF s
<1>7. \A t \in Checked(s) \ unlimited' : Room(before'[s.id], buffered \cup durable, t)
  <2> SUFFICES ASSUME NEW t \in (o.topics \ o.todo) \ unlimited'
               PROVE  Room(before[o.id], buffered \cup durable, t)
    BY <1>1, <1>6
  <2>1. CASE t = o.topic
    <3>1. o.policy # Unset /\ o.policy.depth # Unset BY <1>1, <2>1
    <3>2. before[o.id] \in SUBSET Ids BY <1>2, <1>3 DEF TypeOK
    <3> QED BY <1>1, <1>2, <1>3, <2>1, <3>1, <3>2, BacklogRoom
  <2>2. CASE t # o.topic
    <3>1. Checked(o) = o.topics \ (o.todo \cup {o.topic}) BY <1>1 DEF Checked
    <3>2. t \in Checked(o) \ unlimited BY <1>1, <2>2, <3>1
    <3> QED BY <1>2, <3>2, EarlyFacts
  <2> QED BY <2>1, <2>2
<1>8. unlimited \subseteq unlimited' /\ unlimited' \subseteq Topics BY <1>1, <1>3, EarlyFacts
<1> QED BY <1>1, <1>2, <1>6, <1>7, <1>8, EarlyFacts, EarlyMove

LEMMA RejectStep == ASSUME IInv, NEW p \in Publishers, Reject(p) PROVE IInv'
<1>1. /\ pub[p].stage = "enforce" /\ pub' = [pub EXCEPT ![p] = Idle]
      /\ UNCHANGED <<policy, cache, setting, queue, pruning, done, unflushed, buffered, durable,
                     events, before, minted, acked, consumed, lost, granted, unlimited>>
  BY DEF Reject, Goto, control, store
<1>2. Idle \in Stage /\ Idle.stage = "idle" BY DEF Stage, Idle
<1> QED BY <1>1, <1>2, EarlyFacts, EarlyMove

-----------------------------------------------------------------------------
(* What each part of the invariant asks of a step. *)

LEMMA GateMove ==
    ASSUME TypeOK, GateInv, NEW p \in Publishers, NEW s, pub' = [pub EXCEPT ![p] = s],
           pruning' = pruning,
           s.stage \in {"lead", "flush", "report"} => Leading(p) \/ GateFree
    PROVE  GateInv'
<1>0. \A q \in Publishers : pub'[q] = IF q = p THEN s ELSE pub[q] BY DEF TypeOK
<1> QED BY <1>0 DEF GateInv, Leading, GateFree

\* A publish's outcome is decided once, when it is pending, and only a pending
\* publish writes.
LEMMA IdMove ==
    ASSUME TypeOK, IdInv, NEW p \in Publishers, NEW s, pub' = [pub EXCEPT ![p] = s],
           s.stage \notin {"resolve", "fill", "enforce", "push"},
           s.stage # "idle" => Busy(p) /\ s.id = pub[p].id /\ acked' = acked,
           minted' = minted,
           \/ acked' = acked
           \/ /\ Busy(p) /\ acked' = acked \cup {pub[p].id} /\ done'[pub[p].id] = "ok",
           \A i \in Ids : done'[i] = done[i] \/ done[i] = "pending",
           buffered' \subseteq Message, durable' \subseteq Message,
           \A m \in buffered' : m \in buffered \/ done[m[1]] = "pending",
           \A m \in durable' : m \in buffered \cup durable \/ done[m[1]] = "pending"
    PROVE  IdInv'
<1>0. \A q \in Publishers : pub'[q] = IF q = p THEN s ELSE pub[q] BY DEF TypeOK
<1>a. minted \subseteq Ids /\ acked \subseteq Ids BY DEF TypeOK
<1>b. \A m \in buffered' \cup durable' : m[1] \in Ids BY DEF Message
<1>1. \A q \in Publishers : Busy(q)' => Busy(q) /\ pub'[q].id = pub[q].id BY <1>0 DEF Busy
<1>2. \A q \in Publishers : Busy(q)' => pub'[q].id \in minted' \ acked'
  <2> SUFFICES ASSUME NEW q \in Publishers, Busy(q)' PROVE pub'[q].id \in minted' \ acked'
    OBVIOUS
  <2>1. Busy(q) /\ pub'[q].id = pub[q].id /\ pub[q].id \in minted \ acked BY <1>1 DEF IdInv
  <2>2. CASE acked' = acked BY <2>1, <2>2
  <2>3. CASE Busy(p) /\ acked' = acked \cup {pub[p].id} /\ acked' # acked
    <3>1. q # p BY <1>0, <2>3 DEF Busy
    <3>2. pub[q].id # pub[p].id BY <2>1, <2>3, <3>1 DEF IdInv
    <3> QED BY <2>1, <2>3, <3>2
  <2> QED BY <2>2, <2>3
<1>3. \A q, r \in Publishers : Busy(q)' /\ Busy(r)' /\ pub'[q].id = pub'[r].id => q = r
  BY <1>1 DEF IdInv
<1>4. \A i \in Ids : Unwritten(i) => Unwritten(i)'
  <2> SUFFICES ASSUME NEW i \in Ids, Unwritten(i) PROVE Unwritten(i)'
    OBVIOUS
  <2>1. done[i] = "none" /\ done'[i] = "none" BY DEF Unwritten
  <2>2. \A m \in buffered' \cup durable' : m[1] # i BY <2>1 DEF Unwritten
  <2> QED BY <2>1, <2>2 DEF Unwritten
<1>5. \A q \in Publishers : Early(q)' => Unwritten(pub[q].id)'
  <2> SUFFICES ASSUME NEW q \in Publishers, Early(q)' PROVE Unwritten(pub[q].id)'
    OBVIOUS
  <2>1. q # p /\ pub'[q] = pub[q] /\ Early(q) BY <1>0 DEF Early
  <2>2. Unwritten(pub[q].id) /\ pub[q].id \in Ids BY <1>a, <2>1 DEF IdInv, Busy, Early
  <2> QED BY <1>4, <2>1, <2>2 DEF Unwritten
<1>6. \A i \in Ids \ minted' : Unwritten(i)' BY <1>4 DEF IdInv
<1>7. \A i \in acked' : done'[i] \in {"ok", "none"} BY <1>a DEF IdInv
<1>8. \A m \in buffered' : m[1] \in acked' => done'[m[1]] = "ok"
  <2> SUFFICES ASSUME NEW m \in buffered', m[1] \in acked' PROVE done'[m[1]] = "ok"
    OBVIOUS
  <2>1. CASE m[1] \in acked
    <3>1. done[m[1]] # "pending" BY <2>1 DEF IdInv
    <3> QED BY <1>b, <2>1, <3>1 DEF IdInv
  <2>2. CASE m[1] \notin acked BY <2>2
  <2> QED BY <2>1, <2>2
<1> QED BY <1>2, <1>3, <1>5, <1>6, <1>7, <1>8 DEF IdInv

LEMMA JobMove ==
    ASSUME TypeOK, JobInv, UNCHANGED <<queue, granted>>,
           \A k \in DOMAIN queue : done'[queue[k].id] = done[queue[k].id],
           \A q \in Publishers : Batched(q)' =>
              /\ Batched(q) /\ pub'[q].batch = pub[q].batch
              /\ \A k \in DOMAIN pub[q].batch :
                    done'[pub[q].batch[k].id] = done[pub[q].batch[k].id]
    PROVE  JobInv'
<1>1. \A k \in DOMAIN queue' : Pending(queue[k])' BY DEF JobInv, Pending
<1>2. \A q \in Publishers : Batched(q)' =>
         \A k \in DOMAIN pub'[q].batch : Pending(pub[q].batch[k])' /\ ~InQueue(pub[q].batch[k].id)'
  BY DEF JobInv, Pending, InQueue
<1> QED BY <1>1, <1>2 DEF JobInv

LEMMA KeptStays ==
    ASSUME TypeOK, UNCHANGED granted,
           durable \cup consumed \subseteq durable' \cup consumed',
           buffered \cup lost \subseteq durable' \cup consumed' \cup buffered' \cup lost',
           NEW i \in Ids, Kept(i)
    PROVE  Kept(i)'
<1>1. \A m \in Messages(i, granted[i].topics) :
         \/ m \in durable' \cup consumed'
         \/ granted[i].budget > 0 /\ m \in buffered' \cup lost'
  BY DEF Kept
<1> QED BY <1>1 DEF Kept

\* A step that queues nothing new.
LEMMA DepthMove ==
    ASSUME TypeOK, DepthInv, UNCHANGED <<before, unlimited>>, acked \subseteq acked',
           buffered' \subseteq Message, durable' \subseteq Message,
           \A q \in Publishers : Early(q)' => Early(q) /\ pub'[q] = pub[q] /\ pub[q].id \in Ids,
           \A k \in DOMAIN queue' : queue'[k].id \in Ids /\ Fits(queue'[k].id, queue'[k].topics),
           \A q \in Publishers : Batched(q)' => \A k \in DOMAIN pub'[q].batch :
              /\ pub'[q].batch[k].id \in Ids
              /\ Fits(pub'[q].batch[k].id, pub'[q].batch[k].topics),
           \A m \in buffered' \cup durable' :
              \/ m \in buffered \cup durable
              \/ m[1] \notin acked /\ Fits(m[1], {m[2]})
    PROVE  DepthInv'
<1>1. \A i \in Ids : \A t : Admitted(i, t) => Room(before'[i], (buffered \cup durable)', t)
  BY AdmittedStays
<1>2. \A i \in Ids : before'[i] \subseteq acked' BY DEF DepthInv
<1>3. \A q \in Publishers : Early(q)' => Fits(pub[q].id, Checked(pub[q]))'
  <2> SUFFICES ASSUME NEW q \in Publishers, Early(q)' PROVE Fits(pub[q].id, Checked(pub[q]))'
    OBVIOUS
  <2>1. Fits(pub[q].id, Checked(pub[q])) BY DEF DepthInv
  <2> QED BY <1>1, <2>1 DEF Fits, Admitted, Checked
<1>4. \A k \in DOMAIN queue' : Fits(queue[k].id, queue[k].topics)'
  BY <1>1 DEF Fits, Admitted
<1>5. \A q \in Publishers : Batched(q)' =>
         \A k \in DOMAIN pub'[q].batch : Fits(pub[q].batch[k].id, pub[q].batch[k].topics)'
  BY <1>1 DEF Fits, Admitted
<1>6. \A t \in Topics \ unlimited', i \in Ids :
         <<i, t>> \in (buffered \cup durable)' => Admitted(i, t)'
  <2> SUFFICES ASSUME NEW t \in Topics \ unlimited, NEW i \in Ids,
                      <<i, t>> \in (buffered \cup durable)'
               PROVE  Admitted(i, t)'
    OBVIOUS
  <2>1. <<i, t>>[1] = i /\ <<i, t>>[2] = t OBVIOUS
  <2>2. Admitted(i, t) BY <2>1 DEF DepthInv, Fits
  <2> QED BY <1>1, <2>2 DEF Admitted
<1> QED BY <1>2, <1>3, <1>4, <1>5, <1>6 DEF DepthInv

LEMMA CountsFinite ==
    ASSUME TypeOK
    PROVE  Counts \in SUBSET Message /\ IsFiniteSet(Counts) /\ Cardinality(Counts) \in Nat
<1>1. Counts \in SUBSET Message BY DEF TypeOK, Counts
<1> QED BY <1>1, MessageFinite

LEMMA LossMove ==
    ASSUME TypeOK, LossInv, UNCHANGED <<granted, unflushed>>, Counts' \subseteq Counts,
           \A m \in buffered' : m[2] \in granted[m[1]].topics,
           \A q \in Publishers : pub'[q].stage = "report" /\ pub'[q].ok =>
              WithinBudget(pub'[q], unflushed, buffered')
    PROVE  LossInv'
<1>1. Cardinality(Counts') <= unflushed
  <2>1. IsFiniteSet(Counts') /\ Cardinality(Counts') <= Cardinality(Counts)
    BY CountsFinite, FS_Subset
  <2>2. Cardinality(Counts') \in Nat BY <2>1, FS_CardinalityType
  <2> QED BY <2>1, <2>2, CountsFinite DEF LossInv, TypeOK
<1>2. \A X \in SUBSET Counts' : X # {} => \E m \in X : Cardinality(X) <= granted[m[1]].budget
  BY DEF LossInv
<1> QED BY <1>1, <1>2 DEF LossInv

LEMMA JobFacts ==
    ASSUME IInv
    PROVE  /\ \A k \in DOMAIN queue :
                /\ queue[k] \in Job /\ queue[k].id \in Ids /\ Pending(queue[k])
                /\ Fits(queue[k].id, queue[k].topics)
           /\ \A q \in Publishers : Batched(q) => \A k \in DOMAIN pub[q].batch :
                /\ pub[q].batch[k] \in Job /\ pub[q].batch[k].id \in Ids
                /\ Pending(pub[q].batch[k]) /\ ~InQueue(pub[q].batch[k].id)
                /\ Fits(pub[q].batch[k].id, pub[q].batch[k].topics)
           /\ \A q \in Publishers : Busy(q) => pub[q].id \in Ids
           /\ \A q, r \in Publishers : Batched(q) /\ Batched(r) => q = r
<1>1. \A k \in DOMAIN queue : queue[k] \in Job /\ queue[k].id \in Ids
  BY JobsMinted DEF IInv, Job
<1>2. \A q \in Publishers : Batched(q) => \A k \in DOMAIN pub[q].batch :
         pub[q].batch[k] \in Job /\ pub[q].batch[k].id \in Ids
  BY JobsMinted DEF IInv, Job
<1>3. \A q \in Publishers : Busy(q) => pub[q].id \in Ids BY StageFields DEF IInv
<1>4. \A q, r \in Publishers : Batched(q) /\ Batched(r) => q = r
  BY DEF IInv, GateInv, Batched, Leading
<1> QED BY <1>1, <1>2, <1>3, <1>4 DEF IInv, JobInv, DepthInv

\* A publisher takes or leaves the gate, or stops: the outcomes it takes with it
\* are those of its batch.
LEMMA LateMove ==
    ASSUME IInv, NEW p \in Publishers, NEW s \in Stage, pub' = [pub EXCEPT ![p] = s],
           s.stage \in {"idle", "lead", "read"},
           s.stage # "idle" => Busy(p) /\ s.id = pub[p].id /\ acked' = acked,
           s.stage = "lead" => pub[p].stage = "wait" /\ GateFree,
           s.stage = "read" => done[s.id] # "pending" /\ ~Batched(p),
           \/ acked' = acked
           \/ /\ Busy(p) /\ acked' = acked \cup {pub[p].id}
              /\ done[pub[p].id] = "ok" /\ pub[p].stage \in {"wait", "read"},
           UNCHANGED <<policy, cache, setting, queue, pruning, unflushed, buffered, durable,
                       before, minted, consumed, lost, granted, unlimited>>,
           done' \in [Ids -> {"none", "pending", "ok", "failed", "dropped"}],
           \A i \in Ids : done'[i] = IF InBatch(p, i) THEN "dropped" ELSE done[i]
    PROVE  IInv'
<1>0. \A q \in Publishers : pub'[q] = IF q = p THEN s ELSE pub[q] BY DEF IInv, TypeOK
<1>1. TypeOK'
  <2>1. acked' \subseteq minted' BY DEF IInv, TypeOK, IdInv
  <2> QED BY <2>1 DEF IInv, TypeOK
<1>2. GateInv' BY GateMove DEF IInv
<1>3. \A i \in Ids : InBatch(p, i) => done[i] = "pending"
  <2> SUFFICES ASSUME NEW i \in Ids, InBatch(p, i) PROVE done[i] = "pending"
    OBVIOUS
  <2>1. PICK k \in DOMAIN pub[p].batch : pub[p].batch[k].id = i BY DEF InBatch, Members
  <2>2. Pending(pub[p].batch[k]) BY JobFacts DEF InBatch
  <2> QED BY <2>1, <2>2 DEF Pending
<1>4. IdInv'
  <2>1. done'[pub[p].id] = "ok" \/ acked' = acked
    BY JobFacts DEF InBatch, Batched
  <2>2. s.stage \notin {"resolve", "fill", "enforce", "push"} OBVIOUS
  <2>3. \A i \in Ids : done'[i] = done[i] \/ done[i] = "pending" BY <1>3
  <2>4. buffered' \subseteq Message /\ durable' \subseteq Message BY <1>1 DEF TypeOK
  <2> QED BY <2>1, <2>2, <2>3, <2>4, IdMove DEF IInv
<1>5. \A q \in Publishers : Batched(q)' => q # p /\ Batched(q) /\ pub'[q] = pub[q]
  BY <1>0 DEF Batched
<1>6. JobInv'
  <2>1. \A k \in DOMAIN queue : done'[queue[k].id] = done[queue[k].id]
    BY JobFacts DEF InBatch, InQueue, Members
  <2>2. \A q \in Publishers : Batched(q)' => ~Batched(p) BY <1>5, JobFacts
  <2>3. \A q \in Publishers : Batched(q)' => \A k \in DOMAIN pub[q].batch :
           done'[pub[q].batch[k].id] = done[pub[q].batch[k].id]
    BY <1>5, <2>2, JobFacts DEF InBatch
  <2> QED BY <1>5, <2>1, <2>3, JobMove DEF IInv
<1>7. StrandInv'
  <2> SUFFICES ASSUME NEW q \in Publishers, Busy(q)'
               PROVE  /\ pub'[q].stage = "read" => done'[pub'[q].id] # "pending"
                      /\ pub'[q].stage \in {"wait", "lead", "flush", "report"}
                           /\ done'[pub'[q].id] = "pending" =>
                         InQueue(pub[q].id)' \/ \E r \in Publishers : InBatch(r, pub[q].id)'
    BY DEF StrandInv, Busy
  <2>1. Busy(q) /\ pub'[q].id = pub[q].id /\ pub[q].id \in Ids
    <3>1. Busy(q) /\ pub'[q].id = pub[q].id BY <1>0 DEF Busy
    <3> QED BY <3>1, JobFacts
  <2>2. done'[pub[q].id] = "pending" => done[pub[q].id] = "pending" /\ ~InBatch(p, pub[q].id)
    BY <2>1
  <2>3. pub'[q].stage = "read" => done'[pub'[q].id] # "pending"
    BY <1>0, <2>1, <2>2 DEF IInv, StrandInv
  <2>4. ASSUME pub'[q].stage \in {"wait", "lead", "flush", "report"}, done'[pub'[q].id] = "pending"
        PROVE  InQueue(pub[q].id)' \/ \E r \in Publishers : InBatch(r, pub[q].id)'
    <3>1. pub[q].stage \in {"wait", "lead", "flush", "report"} BY <1>0, <2>4
    <3>2. InQueue(pub[q].id) \/ \E r \in Publishers : InBatch(r, pub[q].id)
      BY <2>1, <2>2, <2>4, <3>1 DEF IInv, StrandInv
    <3>3. CASE InQueue(pub[q].id) BY <2>1, <3>3 DEF InQueue
    <3>4. ASSUME NEW r \in Publishers, InBatch(r, pub[q].id)
          PROVE  InBatch(r, pub[q].id)'
      <4>1. r # p BY <2>1, <2>2, <2>4, <3>4
      <4> QED BY <1>0, <2>1, <3>4, <4>1 DEF InBatch, Batched, Members
    <3> QED BY <3>2, <3>3, <3>4
  <2> QED BY <2>3, <2>4
<1>8. KeptInv'
  <2>1. \A i \in Ids : Kept(i) => Kept(i)' BY KeptStays DEF IInv
  <2>2. \A i \in Ids : i \in acked' \/ done'[i] = "ok" => i \in acked \/ done[i] = "ok"
    OBVIOUS
  <2>3. \A q \in Publishers : pub'[q].stage = "report" => pub'[q] = pub[q] BY <1>0
  <2>4. \A q \in Publishers : Batched(q) => Members(pub[q].batch) \subseteq Ids
    BY JobFacts DEF Members
  <2>5. \A q \in Publishers : pub'[q].stage = "report" /\ pub'[q].ok =>
           \A i \in Members(pub'[q].batch) : Kept(i)'
    BY <2>1, <2>3, <2>4 DEF IInv, KeptInv, Batched
  <2> QED BY <2>1, <2>2, <2>5 DEF IInv, KeptInv, Members
<1>9. LossInv'
  <2>1. Counts' \subseteq Counts BY DEF Counts, IInv, TypeOK, Message
  <2>2. \A q \in Publishers : pub'[q].stage = "report" => pub'[q] = pub[q] BY <1>0
  <2> QED BY <2>1, <2>2, LossMove DEF IInv, LossInv
<1>10. DepthInv'
  <2>1. \A q \in Publishers : Early(q)' => Early(q) /\ pub'[q] = pub[q] BY <1>0 DEF Early
  <2>2. \A q \in Publishers : Early(q) => Busy(q) BY DEF Early, Busy
  <2>3. \A q \in Publishers : Early(q)' => Early(q) /\ pub'[q] = pub[q] /\ pub[q].id \in Ids
    BY <2>1, <2>2, JobFacts
  <2>4. buffered' \subseteq Message /\ durable' \subseteq Message /\ acked \subseteq acked'
    BY <1>1 DEF TypeOK
  <2> QED BY <1>5, <2>3, <2>4, JobFacts, DepthMove DEF IInv
<1> QED BY <1>1, <1>2, <1>4, <1>6, <1>7, <1>8, <1>9, <1>10 DEF IInv

LEMMA GateSteps ==
    ASSUME IInv, NEW p \in Publishers, Lead(p) \/ Release(p) \/ Return(p) \/ Cancel(p)
    PROVE  IInv'
<1>a. /\ Idle \in Stage /\ Idle.stage = "idle"
      /\ \A i \in Ids : \A st \in {"lead", "read"} : [stage |-> st, id |-> i] \in Stage
  BY DEF Stage, Idle
<1>b. done \in [Ids -> {"none", "pending", "ok", "failed", "dropped"}] BY DEF IInv, TypeOK
<1>c. Busy(p) => pub[p].id \in Ids BY JobFacts
<1>1. CASE Lead(p)
  <2> DEFINE s == [stage |-> "lead", id |-> pub[p].id]
  <2>1. /\ pub[p].stage = "wait" /\ GateFree /\ pub' = [pub EXCEPT ![p] = s]
        /\ UNCHANGED <<policy, cache, setting, queue, pruning, unflushed, buffered, durable, done,
                       before, minted, acked, consumed, lost, granted, unlimited>>
    BY <1>1 DEF Lead, Goto, control, store
  <2>2. Busy(p) /\ \A i \in Ids : ~InBatch(p, i) BY <2>1 DEF Busy, InBatch, Batched
  <2>3. s \in Stage /\ s.stage = "lead" /\ s.id = pub[p].id BY <1>a, <1>c, <2>2
  <2> HIDE DEF s
  <2> QED BY <1>b, <2>1, <2>2, <2>3, LateMove
<1>2. CASE Release(p)
  <2> DEFINE s == [stage |-> "read", id |-> pub[p].id]
  <2>1. /\ pub[p].stage = "lead" /\ queue = <<>> /\ pub' = [pub EXCEPT ![p] = s]
        /\ UNCHANGED <<policy, cache, setting, queue, pruning, unflushed, buffered, durable, done,
                       before, minted, acked, consumed, lost, granted, unlimited>>
    BY <1>2 DEF Release, Goto, control, store
  <2>2. Busy(p) /\ \A i \in Ids : ~InBatch(p, i) BY <2>1 DEF Busy, InBatch, Batched
  <2>3. s \in Stage /\ s.stage = "read" /\ s.id = pub[p].id BY <1>a, <1>c, <2>2
  <2>4. done[pub[p].id] # "pending"
    <3>1. ~InQueue(pub[p].id) BY <2>1 DEF InQueue
    <3>2. \A q \in Publishers : ~Batched(q)
      BY <2>1 DEF IInv, GateInv, Leading, Batched
    <3> QED BY <2>1, <3>1, <3>2 DEF IInv, StrandInv, InBatch
  <2>5. ~Batched(p) BY <2>1 DEF Batched
  <2> HIDE DEF s
  <2> QED BY <1>b, <2>1, <2>2, <2>3, <2>4, <2>5, LateMove
<1>3. CASE Return(p)
  <2>1. /\ pub[p].stage \in {"wait", "read"} /\ pub' = [pub EXCEPT ![p] = Idle]
        /\ acked' = IF done[pub[p].id] = "ok" THEN acked \cup {pub[p].id} ELSE acked
        /\ UNCHANGED <<policy, cache, setting, queue, pruning, unflushed, buffered, durable, done,
                       before, minted, consumed, lost, granted, unlimited>>
    BY <1>3 DEF Return, Goto, control, store
  <2>2. Busy(p) /\ \A i \in Ids : ~InBatch(p, i) BY <2>1 DEF Busy, InBatch, Batched
  <2> QED BY <1>a, <1>b, <2>1, <2>2, LateMove
<1>4. CASE Cancel(p)
  <2>1. /\ pub' = [pub EXCEPT ![p] = Idle]
        /\ done' = [i \in Ids |-> IF i \in Dropped(pub[p]) THEN "dropped" ELSE done[i]]
        /\ UNCHANGED <<policy, cache, setting, queue, pruning, unflushed, buffered, durable,
                       before, minted, acked, consumed, lost, granted, unlimited>>
    BY <1>4 DEF Cancel, Goto, control, store
  <2>2. \A i \in Ids : i \in Dropped(pub[p]) <=> InBatch(p, i) BY DEF Dropped, InBatch, Batched
  <2>3. /\ done' \in [Ids -> {"none", "pending", "ok", "failed", "dropped"}]
        /\ \A i \in Ids : done'[i] = IF InBatch(p, i) THEN "dropped" ELSE done[i]
    BY <1>b, <2>1, <2>2
  <2> QED BY <1>a, <2>1, <2>3, LateMove
<1> QED BY <1>1, <1>2, <1>3, <1>4

-----------------------------------------------------------------------------
(* The queue: a job enters it, and leaves it with a batch. *)

LEMMA PushStep == ASSUME IInv, NEW p \in Publishers, Push(p) PROVE IInv'
<1> DEFINE o == pub[p]
           job == [id |-> o.id, topics |-> o.topics, budget |-> o.budget]
           g == [topics |-> o.topics, budget |-> o.budget]
           s == [stage |-> "wait", id |-> o.id]
<1>1. /\ o.stage = "push" /\ queue' = Append(queue, job)
      /\ done' = [done EXCEPT ![o.id] = "pending"]
      /\ granted' = [granted EXCEPT ![o.id] = g]
      /\ pub' = [pub EXCEPT ![p] = s]
      /\ UNCHANGED <<policy, cache, setting, pruning, unflushed, buffered, durable,
                     before, minted, acked, consumed, lost, unlimited>>
  BY DEF Push, Goto, control, store
<1>2. Early(p) /\ Busy(p) /\ TypeOK /\ ~Batched(p) BY <1>1 DEF Early, Busy, IInv, Batched
<1>3. /\ o.id \in Ids /\ o.topics \in SUBSET Topics /\ o.budget \in Nat
      /\ o.id \in minted \ acked /\ Unwritten(o.id)
      /\ \A q \in Publishers \ {p} : Busy(q) => pub[q].id # o.id
  BY <1>1, <1>2, StageFields, EarlyFacts
<1>4. job \in Job /\ job.id = o.id /\ job.topics = o.topics /\ job.budget = o.budget
  BY <1>3 DEF Job
<1>5. s \in Stage /\ s.stage = "wait" /\ s.id = o.id BY <1>3 DEF Stage
<1>6. g \in [topics : SUBSET Topics, budget : Nat] BY <1>3
<1> HIDE DEF job, s, g
<1>7. /\ queue' \in Seq(Job) /\ DOMAIN queue = 1 .. Len(queue) /\ Len(queue) \in Nat
      /\ DOMAIN queue' = 1 .. Len(queue) + 1
      /\ \A k \in DOMAIN queue : queue'[k] = queue[k]
      /\ queue'[Len(queue) + 1] = job
  <2>1. queue \in Seq(Job) BY <1>2 DEF TypeOK
  <2>2. Len(queue) \in Nat /\ DOMAIN queue = 1 .. Len(queue) BY <2>1, LenProperties
  <2>3. /\ queue' \in Seq(Job) /\ Len(queue') = Len(queue) + 1
        /\ \A k \in 1 .. Len(queue) : queue'[k] = queue[k]
        /\ queue'[Len(queue) + 1] = job
    BY <1>1, <1>4, <2>1, AppendProperties
  <2>4. DOMAIN queue' = 1 .. Len(queue) + 1 BY <2>3, LenProperties
  <2> QED BY <2>2, <2>3, <2>4
<1>8. /\ \A k \in DOMAIN queue' : k \in DOMAIN queue \/ k = Len(queue) + 1
      /\ \A k \in DOMAIN queue : k \in DOMAIN queue'
      /\ Len(queue) + 1 \notin DOMAIN queue /\ Len(queue) + 1 \in DOMAIN queue'
  BY <1>7
<1>9. \A q \in Publishers : pub'[q] = IF q = p THEN s ELSE pub[q] BY <1>1, <1>2 DEF TypeOK
<1>10. \A i \in Ids : /\ done'[i] = IF i = o.id THEN "pending" ELSE done[i]
                      /\ granted'[i] = IF i = o.id THEN g ELSE granted[i]
  BY <1>1, <1>2, <1>3 DEF TypeOK
<1>11. \A k \in DOMAIN queue : queue[k].id # o.id
  BY <1>3, JobFacts DEF Unwritten, Pending
<1>12. \A q \in Publishers : Batched(q) => \A k \in DOMAIN pub[q].batch : pub[q].batch[k].id # o.id
  BY <1>3, JobFacts DEF Unwritten, Pending
<1>13. \A q \in Publishers : Batched(q)' => Batched(q) /\ pub'[q] = pub[q] BY <1>5, <1>9 DEF Batched
<1>14. TypeOK' BY <1>1, <1>2, <1>3, <1>5, <1>6, <1>7 DEF TypeOK
<1>15. GateInv' BY <1>1, <1>2, <1>5, GateMove DEF IInv
<1>16. IdInv'
  <2>1. \A q \in Publishers : Busy(q)' => Busy(q) /\ pub'[q].id = pub[q].id
    BY <1>2, <1>5, <1>9 DEF Busy
  <2>2. \A q \in Publishers : Busy(q)' => pub'[q].id \in minted' \ acked'
    BY <1>1, <2>1 DEF IInv, IdInv
  <2>3. \A q, r \in Publishers : Busy(q)' /\ Busy(r)' /\ pub'[q].id = pub'[r].id => q = r
    BY <2>1 DEF IInv, IdInv
  <2>4. \A i \in Ids : i # o.id /\ Unwritten(i) => Unwritten(i)' BY <1>1, <1>10 DEF Unwritten
  <2>5. \A q \in Publishers : Early(q)' => Unwritten(pub[q].id)'
    <3> SUFFICES ASSUME NEW q \in Publishers, Early(q)' PROVE Unwritten(pub[q].id)'
      OBVIOUS
    <3>1. q # p /\ pub'[q] = pub[q] /\ Early(q) BY <1>5, <1>9 DEF Early
    <3>2. Busy(q) BY <3>1 DEF Early, Busy
    <3>3. pub[q].id # o.id /\ Unwritten(pub[q].id) /\ pub[q].id \in Ids
      BY <1>3, <3>1, <3>2, EarlyFacts
    <3> QED BY <2>4, <3>1, <3>3 DEF Unwritten
  <2>6. \A i \in Ids \ minted' : Unwritten(i)' BY <1>1, <1>3, <2>4 DEF IInv, IdInv
  <2>7. \A i \in acked' : done'[i] \in {"ok", "none"}
    BY <1>1, <1>2, <1>3, <1>10 DEF IInv, IdInv, TypeOK
  <2>8. \A m \in buffered' : m[1] \in acked' => done'[m[1]] = "ok"
    <3>1. \A m \in buffered : m[1] \in Ids BY <1>2 DEF TypeOK, Message
    <3> QED BY <1>1, <1>3, <1>10, <3>1 DEF IInv, IdInv
  <2> QED BY <2>2, <2>3, <2>5, <2>6, <2>7, <2>8 DEF IdInv
<1>17. JobInv'
  <2>1. \A k \in DOMAIN queue' : Pending(queue[k])'
    <3> SUFFICES ASSUME NEW k \in DOMAIN queue' PROVE Pending(queue[k])'
      OBVIOUS
    <3>1. CASE k \in DOMAIN queue
      BY <1>7, <1>10, <1>11, <3>1, JobFacts DEF Pending
    <3>2. CASE k = Len(queue) + 1 BY <1>3, <1>4, <1>7, <1>10, <3>2 DEF Pending, g
    <3> QED BY <1>8, <3>1, <3>2
  <2>2. \A j, k \in DOMAIN queue' : queue'[j].id = queue'[k].id => j = k
    BY <1>4, <1>7, <1>8, <1>11 DEF IInv, JobInv
  <2>3. \A q \in Publishers : Batched(q)' => \A k \in DOMAIN pub'[q].batch :
           Pending(pub[q].batch[k])' /\ ~InQueue(pub[q].batch[k].id)'
    <3> SUFFICES ASSUME NEW q \in Publishers, Batched(q), pub'[q] = pub[q],
                        NEW k \in DOMAIN pub[q].batch
                 PROVE  Pending(pub[q].batch[k])' /\ ~InQueue(pub[q].batch[k].id)'
      BY <1>13
    <3>1. pub[q].batch[k].id \in Ids /\ pub[q].batch[k].id # o.id BY <1>12, JobFacts
    <3>2. Pending(pub[q].batch[k]) /\ ~InQueue(pub[q].batch[k].id) BY JobFacts
    <3> QED BY <1>4, <1>7, <1>8, <1>10, <3>1, <3>2 DEF Pending, InQueue
  <2> QED BY <2>1, <2>2, <2>3 DEF JobInv
<1>18. StrandInv'
  <2> SUFFICES ASSUME NEW q \in Publishers, Busy(q)'
               PROVE  /\ pub'[q].stage = "read" => done'[pub'[q].id] # "pending"
                      /\ pub'[q].stage \in {"wait", "lead", "flush", "report"}
                           /\ done'[pub'[q].id] = "pending" =>
                         InQueue(pub[q].id)' \/ \E r \in Publishers : InBatch(r, pub[q].id)'
    BY DEF StrandInv, Busy
  <2>1. CASE q = p
    <3>1. pub'[q].id = o.id /\ pub'[q].stage = "wait" BY <1>5, <1>9, <2>1
    <3>2. InQueue(pub[q].id)' BY <1>4, <1>7, <1>8, <3>1 DEF InQueue
    <3> QED BY <3>1, <3>2
  <2>2. CASE q # p
    <3>1. pub'[q] = pub[q] /\ Busy(q) BY <1>9, <2>2 DEF Busy
    <3>2. pub[q].id \in Ids /\ pub[q].id # o.id BY <1>3, <2>2, <3>1, JobFacts
    <3>3. done'[pub'[q].id] = done[pub[q].id] BY <1>10, <3>1, <3>2
    <3>4. InQueue(pub[q].id) => InQueue(pub[q].id)' BY <1>7, <1>8, <3>1 DEF InQueue
    <3>5. \A r \in Publishers : InBatch(r, pub[q].id) => InBatch(r, pub[q].id)'
      BY <1>2, <1>9, <3>1 DEF InBatch, Batched, Members
    <3> QED BY <3>1, <3>3, <3>4, <3>5 DEF IInv, StrandInv
  <2> QED BY <2>1, <2>2
<1>19. KeptInv'
  <2>1. \A i \in Ids : i # o.id /\ Kept(i) => Kept(i)' BY <1>1, <1>10 DEF Kept
  <2>2. \A i \in Ids : i \in acked' \/ done'[i] = "ok" => Kept(i)'
    BY <1>1, <1>3, <1>10, <2>1 DEF IInv, KeptInv
  <2>3. \A q \in Publishers : pub'[q].stage = "report" /\ pub'[q].ok =>
           \A i \in Members(pub'[q].batch) : Kept(i)'
    <3> SUFFICES ASSUME NEW q \in Publishers, pub'[q].stage = "report", pub'[q].ok,
                        NEW i \in Members(pub'[q].batch)
                 PROVE  Kept(i)'
      OBVIOUS
    <3>1. Batched(q) /\ pub'[q] = pub[q] BY <1>13 DEF Batched
    <3>2. i \in Ids /\ i # o.id BY <1>12, <3>1, JobFacts DEF Members
    <3> QED BY <2>1, <3>1, <3>2 DEF IInv, KeptInv
  <2> QED BY <2>2, <2>3 DEF KeptInv, Members
<1>20. LossInv'
  <2>1. \A m \in buffered : m[1] \in Ids /\ m[1] # o.id BY <1>2, <1>3 DEF TypeOK, Message, Unwritten
  <2>2. Counts' = Counts BY <1>1, <1>10, <2>1 DEF Counts
  <2>3. \A m \in buffered : granted'[m[1]] = granted[m[1]] BY <1>10, <2>1
  <2>4. \A q \in Publishers : pub'[q].stage = "report" => pub'[q] = pub[q] BY <1>5, <1>9
  <2>5. Counts \subseteq buffered BY DEF Counts
  <2>6. \A X \in SUBSET Counts' : X # {} => \E m \in X : Cardinality(X) <= granted'[m[1]].budget
    <3> SUFFICES ASSUME NEW X \in SUBSET Counts, X # {}
                 PROVE  \E m \in X : Cardinality(X) <= granted'[m[1]].budget
      BY <2>2
    <3>1. PICK m \in X : Cardinality(X) <= granted[m[1]].budget BY DEF IInv, LossInv
    <3> QED BY <2>3, <2>5, <3>1
  <2> QED BY <1>1, <2>2, <2>3, <2>4, <2>6 DEF IInv, LossInv
<1>21. DepthInv'
  <2>1. \A q \in Publishers : Early(q)' => Early(q) /\ pub'[q] = pub[q] BY <1>5, <1>9 DEF Early
  <2>2. \A q \in Publishers : Early(q) => Busy(q) BY DEF Early, Busy
  <2>3. \A q \in Publishers : Early(q)' => Early(q) /\ pub'[q] = pub[q] /\ pub[q].id \in Ids
    BY <2>1, <2>2, JobFacts
  <2>4. buffered' \subseteq Message /\ durable' \subseteq Message BY <1>14 DEF TypeOK
  <2>5. Fits(o.id, o.topics) BY <1>1, <1>2 DEF IInv, DepthInv, Checked
  <2>6. \A k \in DOMAIN queue' : queue'[k].id \in Ids /\ Fits(queue'[k].id, queue'[k].topics)
    BY <1>3, <1>4, <1>7, <1>8, <2>5, JobFacts
  <2> QED BY <1>1, <1>13, <2>3, <2>4, <2>6, JobFacts, DepthMove DEF IInv
<1> QED BY <1>14, <1>15, <1>16, <1>17, <1>18, <1>19, <1>20, <1>21 DEF IInv

LEMMA DrainStep == ASSUME IInv, NEW p \in Publishers, Drain(p) PROVE IInv'
<1>a. PICK d : d = Drained OBVIOUS
<1>b. PICK batch : batch = SubSeq(queue, 1, d) OBVIOUS
<1>c. PICK rest : rest = SubSeq(queue, d + 1, Len(queue)) OBVIOUS
<1>d. PICK s : s = [stage |-> "flush", id |-> pub[p].id, batch |-> batch] OBVIOUS
<1>1. /\ pub[p].stage = "lead" /\ queue # <<>> /\ pub' = [pub EXCEPT ![p] = s] /\ queue' = rest
      /\ UNCHANGED <<policy, cache, setting, pruning, done, unflushed, buffered, durable,
                     before, minted, acked, consumed, lost, granted, unlimited>>
  BY <1>a, <1>b, <1>c, <1>d DEF Drain, Goto, control, store
<1>2. TypeOK /\ Busy(p) /\ Leading(p) /\ ~Batched(p) /\ queue \in Seq(Job)
  BY <1>1 DEF IInv, TypeOK, Busy, Leading, Batched
<1>3. d \in 1 .. Len(queue) BY <1>1, <1>2, <1>a, DrainedRange
<1>4. Len(queue) \in Nat /\ DOMAIN queue = 1 .. Len(queue) BY <1>2, LenProperties
<1>5. /\ batch \in Seq(Job) /\ rest \in Seq(Job)
      /\ DOMAIN batch = 1 .. d /\ DOMAIN rest = 1 .. (Len(queue) - d)
      /\ \A k \in 1 .. d : batch[k] = queue[k]
      /\ \A k \in 1 .. (Len(queue) - d) : rest[k] = queue[d + k]
  BY <1>2, <1>3, <1>b, <1>c, DrainSplits
<1>6. pub[p].id \in Ids BY <1>2, JobFacts
<1>7. s \in Stage /\ s.stage = "flush" /\ s.id = pub[p].id /\ s.batch = batch
  BY <1>5, <1>6, <1>d DEF Stage
<1>8. /\ \A k \in DOMAIN batch : k \in DOMAIN queue /\ batch[k] = queue[k]
      /\ \A k \in DOMAIN rest : d + k \in DOMAIN queue /\ rest[k] = queue[d + k]
      /\ \A k \in DOMAIN batch : \A j \in DOMAIN rest : k # d + j
      /\ \A j, k \in DOMAIN rest : d + j = d + k => j = k
      /\ \A k \in DOMAIN queue : k \in DOMAIN batch \/ \E j \in DOMAIN rest : k = d + j
  <2>1. d \in Nat /\ d >= 1 /\ d <= Len(queue) BY <1>3, <1>4
  <2>2. \A k \in 1 .. Len(queue) : k \in 1 .. d \/ (k - d \in 1 .. (Len(queue) - d) /\ k = d + (k - d))
    BY <1>4, <2>1
  <2>3. \A k \in 1 .. (Len(queue) - d) : d + k \in 1 .. Len(queue) BY <1>4, <2>1
  <2>4. \A k \in 1 .. d : k \in 1 .. Len(queue) /\ \A j \in 1 .. (Len(queue) - d) : k # d + j
    BY <1>4, <2>1
  <2>5. \A j, k \in 1 .. (Len(queue) - d) : d + j = d + k => j = k BY <1>4, <2>1
  <2> QED BY <1>4, <1>5, <2>2, <2>3, <2>4, <2>5
<1>9. \A q \in Publishers : pub'[q] = IF q = p THEN s ELSE pub[q] BY <1>1, <1>2 DEF TypeOK
<1>10. \A q \in Publishers : Batched(q)' => q = p
  BY <1>2, <1>7, <1>9 DEF IInv, GateInv, Batched, Leading
<1>11. TypeOK' BY <1>1, <1>2, <1>5, <1>7 DEF TypeOK
<1>12. GateInv' BY <1>1, <1>2, GateMove DEF IInv
<1>13. IdInv'
  <2>1. /\ s.stage \notin {"resolve", "fill", "enforce", "push"}
        /\ buffered' \subseteq Message /\ durable' \subseteq Message
    BY <1>7, <1>11 DEF TypeOK
  <2> QED BY <1>1, <1>2, <1>7, <2>1, IdMove DEF IInv
<1>14. JobInv'
  <2>1. \A k \in DOMAIN queue' : Pending(queue[k])'
    BY <1>1, <1>8, JobFacts DEF Pending
  <2>2. \A j, k \in DOMAIN queue' : queue'[j].id = queue'[k].id => j = k
    BY <1>1, <1>8 DEF IInv, JobInv
  <2>3. \A k \in DOMAIN batch : Pending(batch[k])' /\ ~InQueue(batch[k].id)'
    <3> SUFFICES ASSUME NEW k \in DOMAIN batch PROVE Pending(batch[k])' /\ ~InQueue(batch[k].id)'
      OBVIOUS
    <3>1. Pending(batch[k]) BY <1>8, JobFacts
    <3>2. \A j \in DOMAIN rest : rest[j].id # batch[k].id BY <1>8 DEF IInv, JobInv
    <3> QED BY <1>1, <3>1, <3>2 DEF Pending, InQueue
  <2>4. \A q \in Publishers : Batched(q)' => \A k \in DOMAIN pub'[q].batch :
           Pending(pub[q].batch[k])' /\ ~InQueue(pub[q].batch[k].id)'
    BY <1>7, <1>9, <1>10, <2>3
  <2> QED BY <2>1, <2>2, <2>4 DEF JobInv
<1>15. StrandInv'
  <2> SUFFICES ASSUME NEW q \in Publishers, Busy(q)'
               PROVE  /\ pub'[q].stage = "read" => done'[pub'[q].id] # "pending"
                      /\ pub'[q].stage \in {"wait", "lead", "flush", "report"}
                           /\ done'[pub'[q].id] = "pending" =>
                         InQueue(pub[q].id)' \/ \E r \in Publishers : InBatch(r, pub[q].id)'
    BY DEF StrandInv, Busy
  <2>1. pub'[q].id = pub[q].id BY <1>7, <1>9
  <2>2. InQueue(pub[q].id) => InQueue(pub[q].id)' \/ InBatch(p, pub[q].id)'
    <3> SUFFICES ASSUME NEW k \in DOMAIN queue, queue[k].id = pub[q].id
                 PROVE  InQueue(pub[q].id)' \/ InBatch(p, pub[q].id)'
      BY DEF InQueue
    <3>1. CASE k \in DOMAIN batch
      BY <1>7, <1>8, <1>9, <2>1, <3>1 DEF InBatch, Batched, Members
    <3>2. ASSUME NEW j \in DOMAIN rest, k = d + j PROVE InQueue(pub[q].id)'
      BY <1>1, <1>8, <2>1, <3>2 DEF InQueue
    <3> QED BY <1>8, <3>1, <3>2
  <2>3. \A r \in Publishers : ~InBatch(r, pub[q].id)
    BY <1>2 DEF InBatch, IInv, GateInv, Batched, Leading
  <2> QED BY <1>1, <1>7, <1>9, <2>1, <2>2, <2>3 DEF IInv, StrandInv
<1>16. KeptInv'
  <2>1. \A i \in Ids : Kept(i) => Kept(i)' BY <1>1, <1>2, KeptStays
  <2>2. \A q \in Publishers : pub'[q].stage # "report" BY <1>7, <1>9, <1>10 DEF Batched
  <2> QED BY <1>1, <2>1, <2>2 DEF IInv, KeptInv
<1>17. LossInv'
  <2>1. Counts' = Counts BY <1>1 DEF Counts
  <2>2. \A q \in Publishers : pub'[q].stage # "report" BY <1>7, <1>9, <1>10 DEF Batched
  <2> QED BY <1>1, <2>1, <2>2, LossMove DEF IInv, LossInv
<1>18. DepthInv'
  <2>1. \A q \in Publishers : Early(q)' => Early(q) /\ pub'[q] = pub[q] BY <1>7, <1>9 DEF Early
  <2>2. \A q \in Publishers : Early(q) => Busy(q) BY DEF Early, Busy
  <2>3. \A q \in Publishers : Early(q)' => Early(q) /\ pub'[q] = pub[q] /\ pub[q].id \in Ids
    BY <2>1, <2>2, JobFacts
  <2>4. buffered' \subseteq Message /\ durable' \subseteq Message BY <1>11 DEF TypeOK
  <2>5. \A k \in DOMAIN queue' : queue'[k].id \in Ids /\ Fits(queue'[k].id, queue'[k].topics)
    BY <1>1, <1>8, JobFacts
  <2>6. \A q \in Publishers : Batched(q)' => \A k \in DOMAIN pub'[q].batch :
           pub'[q].batch[k].id \in Ids /\ Fits(pub'[q].batch[k].id, pub'[q].batch[k].topics)
    BY <1>7, <1>8, <1>9, <1>10, JobFacts
  <2> QED BY <1>1, <2>3, <2>4, <2>5, <2>6, DepthMove DEF IInv
<1> QED BY <1>11, <1>12, <1>13, <1>14, <1>15, <1>16, <1>17, <1>18 DEF IInv

-----------------------------------------------------------------------------
(* The commit: the batch is written, and its outcome is reported. *)

\* The messages of a leader's batch are of pending publishes, which had room in
\* their topics.
LEMMA BatchFacts ==
    ASSUME IInv, NEW p \in Publishers, Batched(p)
    PROVE  /\ pub[p].batch \in Seq(Job) /\ pub[p].id \in Ids /\ Busy(p)
           /\ Carried(pub[p].batch) \in SUBSET Message
           /\ \A i \in Members(pub[p].batch) :
                 /\ i \in Ids /\ done[i] = "pending" /\ ~InQueue(i)
                 /\ Messages(i, granted[i].topics) \subseteq Carried(pub[p].batch)
           /\ \A m \in Carried(pub[p].batch) :
                 /\ m[1] \in Members(pub[p].batch) /\ m[2] \in granted[m[1]].topics
                 /\ Fits(m[1], {m[2]})
<1> DEFINE b == pub[p].batch
<1>1. b \in Seq(Job) /\ Busy(p) BY StageFields DEF IInv, Batched, Busy
<1>2. pub[p].id \in Ids BY <1>1, JobFacts
<1>3. \A k \in DOMAIN b : /\ b[k] \in Job /\ b[k].id \in Ids /\ Pending(b[k])
                          /\ ~InQueue(b[k].id) /\ Fits(b[k].id, b[k].topics)
  BY JobFacts
<1> HIDE DEF b
<1>4. ASSUME NEW i \in Members(b)
      PROVE  /\ i \in Ids /\ done[i] = "pending" /\ ~InQueue(i)
             /\ Messages(i, granted[i].topics) \subseteq Carried(b)
  <2>1. PICK k \in DOMAIN b : b[k].id = i BY DEF Members
  <2>2. granted[i].topics = b[k].topics /\ done[i] = "pending"
    <3>1. Pending(b[k]) BY <1>3
    <3> QED BY <2>1, <3>1 DEF Pending
  <2>3. Messages(i, granted[i].topics) \subseteq Carried(b)
    BY <2>1, <2>2 DEF Carried
  <2> QED BY <1>3, <2>1, <2>2, <2>3
<1>5. ASSUME NEW m \in Carried(b)
      PROVE  m[1] \in Members(b) /\ m[2] \in granted[m[1]].topics /\ Fits(m[1], {m[2]})
  <2>1. PICK k \in DOMAIN b : m[1] = b[k].id /\ m[2] \in b[k].topics BY <1>1, CarriedIs
  <2>2. granted[m[1]].topics = b[k].topics
    <3>1. Pending(b[k]) BY <1>3
    <3> QED BY <2>1, <3>1 DEF Pending
  <2> QED BY <1>3, <2>1, <2>2 DEF Members, Fits
<1>6. Carried(b) \in SUBSET Message BY <1>1, CarriedIs
<1> QED BY <1>1, <1>2, <1>4, <1>5, <1>6 DEF b

LEMMA WriteMove ==
    ASSUME IInv, NEW p \in Publishers, pub[p].stage = "flush",
           NEW s \in Stage, s.stage = "report", s.id = pub[p].id, s.batch = pub[p].batch,
           pub' = [pub EXCEPT ![p] = s],
           UNCHANGED <<policy, cache, setting, queue, pruning, done, unflushed, before,
                       minted, acked, consumed, lost, granted, unlimited>>,
           buffered' \subseteq buffered \cup Carried(s.batch),
           durable \subseteq durable', buffered \subseteq buffered' \cup durable',
           durable' \subseteq durable \cup buffered \cup Carried(s.batch),
           s.ok => /\ WithinBudget(s, unflushed, buffered')
                   /\ \A i \in Members(s.batch) : Kept(i)'
    PROVE  IInv'
<1>1. Batched(p) /\ Leading(p) BY DEF Batched, Leading
<1>2. \A q \in Publishers : pub'[q] = IF q = p THEN s ELSE pub[q] BY DEF IInv, TypeOK
<1>3. /\ s.batch \in Seq(Job) /\ pub[p].id \in Ids /\ Busy(p)
      /\ Carried(s.batch) \in SUBSET Message
      /\ \A m \in Carried(s.batch) :
           /\ m[1] \in Ids /\ done[m[1]] = "pending" /\ m[2] \in granted[m[1]].topics
           /\ Fits(m[1], {m[2]})
  BY <1>1, BatchFacts
<1>4. \A q \in Publishers : Batched(q)' => Batched(q) /\ q = p /\ pub'[q].batch = pub[q].batch
  BY <1>1, <1>2, JobFacts DEF Batched
<1>5. TypeOK' BY <1>3 DEF IInv, TypeOK
<1>6. GateInv' BY <1>1, GateMove DEF IInv
<1>7. buffered' \subseteq Message /\ durable' \subseteq Message BY <1>5 DEF TypeOK
<1>8. IdInv'
  <2>1. /\ \A m \in buffered' : m \in buffered \/ done[m[1]] = "pending"
        /\ \A m \in durable' : m \in buffered \cup durable \/ done[m[1]] = "pending"
    BY <1>3
  <2>2. s.stage \notin {"resolve", "fill", "enforce", "push"} OBVIOUS
  <2> QED BY <1>3, <1>7, <2>1, <2>2, IdMove DEF IInv
<1>9. JobInv' BY <1>4, JobMove DEF IInv
<1>10. StrandInv'
  <2> SUFFICES ASSUME NEW q \in Publishers, Busy(q)'
               PROVE  /\ pub'[q].stage = "read" => done'[pub'[q].id] # "pending"
                      /\ pub'[q].stage \in {"wait", "lead", "flush", "report"}
                           /\ done'[pub'[q].id] = "pending" =>
                         InQueue(pub[q].id)' \/ \E r \in Publishers : InBatch(r, pub[q].id)'
    BY DEF StrandInv, Busy
  <2>1. pub'[q].id = pub[q].id BY <1>2
  <2>2. InQueue(pub[q].id) => InQueue(pub[q].id)' BY <2>1 DEF InQueue
  <2>3. \A r \in Publishers : InBatch(r, pub[q].id) => InBatch(r, pub[q].id)'
    BY <1>2, <2>1 DEF InBatch, Batched
  <2>4. pub'[q].stage = "read" => pub[q].stage = "read" BY <1>2
  <2>5. pub'[q].stage \in {"wait", "lead", "flush", "report"}
          => pub[q].stage \in {"wait", "lead", "flush", "report"}
    BY <1>2
  <2> QED BY <2>1, <2>2, <2>3, <2>4, <2>5 DEF IInv, StrandInv
<1>11. KeptInv'
  <2>1. \A i \in Ids : Kept(i) => Kept(i)' BY KeptStays DEF IInv
  <2>2. \A q \in Publishers : pub'[q].stage = "report" /\ pub'[q].ok =>
           \A i \in Members(pub'[q].batch) : Kept(i)'
    BY <1>2, <1>4 DEF Batched
  <2> QED BY <2>1, <2>2 DEF IInv, KeptInv, Members
<1>12. LossInv'
  <2>1. Counts' \subseteq Counts BY <1>3 DEF Counts
  <2>2. \A q \in Publishers : pub'[q].stage = "report" /\ pub'[q].ok =>
           WithinBudget(pub'[q], unflushed, buffered')
    BY <1>2, <1>4 DEF Batched
  <2>3. \A m \in buffered' : m[2] \in granted[m[1]].topics BY <1>3 DEF IInv, LossInv
  <2> QED BY <2>1, <2>2, <2>3, LossMove DEF IInv
<1>13. DepthInv'
  <2>1. \A q \in Publishers : Early(q)' => Early(q) /\ pub'[q] = pub[q] BY <1>2 DEF Early
  <2>2. \A q \in Publishers : Early(q) => Busy(q) BY DEF Early, Busy
  <2>3. \A q \in Publishers : Early(q)' => Early(q) /\ pub'[q] = pub[q] /\ pub[q].id \in Ids
    BY <2>1, <2>2, JobFacts
  <2>4. \A m \in buffered' \cup durable' :
           m \in buffered \cup durable \/ (m[1] \notin acked /\ Fits(m[1], {m[2]}))
    BY <1>3 DEF IInv, IdInv
  <2> QED BY <1>4, <1>7, <2>3, <2>4, JobFacts, DepthMove DEF IInv
<1> QED BY <1>5, <1>6, <1>8, <1>9, <1>10, <1>11, <1>12, <1>13 DEF IInv

LEMMA WriteStep == ASSUME IInv, NEW p \in Publishers, Write(p) PROVE IInv'
<1> DEFINE b == pub[p].batch
<1>a. PICK relaxed : relaxed = (unflushed + Weight(b) <= BatchBudget(b)) OBVIOUS
<1>b. PICK s : s = [stage |-> "report", id |-> pub[p].id, batch |-> b,
                    relaxed |-> relaxed, ok |-> TRUE]
  OBVIOUS
<1>1. /\ pub[p].stage = "flush" /\ pub' = [pub EXCEPT ![p] = s]
      /\ buffered' = IF relaxed THEN buffered \cup Carried(b) ELSE {}
      /\ durable' = IF relaxed THEN durable ELSE durable \cup buffered \cup Carried(b)
      /\ UNCHANGED <<policy, cache, setting, queue, pruning, done, unflushed, before,
                     minted, acked, consumed, lost, granted, unlimited>>
  BY <1>a, <1>b, Zenon DEF Write, Goto, control
<1>c. relaxed \in BOOLEAN BY <1>a
<1>d. relaxed => unflushed + Weight(b) <= BatchBudget(b) BY <1>a, Zenon
<1>2. Batched(p) BY <1>1 DEF Batched
<1>3. /\ b \in Seq(Job) /\ pub[p].id \in Ids
      /\ \A i \in Members(b) : Messages(i, granted[i].topics) \subseteq Carried(b)
  BY <1>2, BatchFacts
<1>4. /\ s \in Stage /\ s.stage = "report" /\ s.id = pub[p].id /\ s.batch = b
      /\ s.relaxed = relaxed /\ s.ok = TRUE
  BY <1>3, <1>b, <1>c DEF Stage
<1>5. Weight(b) \in Nat /\ (Carried(b) # {} => Weight(b) >= 1) BY <1>3, CarriedIs
<1>6. unflushed \in Nat BY DEF IInv, TypeOK
<1>7. relaxed => \A k \in DOMAIN b : unflushed + Weight(b) <= b[k].budget
  BY <1>3, <1>5, <1>6, <1>d, BudgetIsLeast
<1>8. WithinBudget(s, unflushed, buffered') BY <1>1, <1>4, <1>7 DEF WithinBudget
<1>9. ASSUME NEW i \in Members(s.batch) PROVE Kept(i)'
  <2>1. PICK k \in DOMAIN b : b[k].id = i BY <1>4 DEF Members
  <2>2. granted[i].budget = b[k].budget /\ b[k].budget \in Nat
    <3>1. Pending(b[k]) BY <1>2, JobFacts
    <3> QED BY <1>3, <2>1, <3>1, BudgetIsLeast DEF Pending
  <2>3. \A m \in Messages(i, granted[i].topics) : m \in Carried(b) BY <1>3, <1>4
  <2>4. ASSUME NEW m \in Messages(i, granted[i].topics)
        PROVE  m \in durable' \cup consumed' \/ (granted[i].budget > 0 /\ m \in buffered' \cup lost')
    <3>1. CASE ~relaxed BY <1>1, <2>3, <3>1
    <3>2. CASE relaxed
      <4>1. granted[i].budget > 0 BY <1>5, <1>6, <1>7, <2>2, <2>3, <3>2
      <4> QED BY <1>1, <2>3, <3>2, <4>1
    <3> QED BY <3>1, <3>2
  <2>5. granted' = granted BY <1>1
  <2> QED BY <2>4, <2>5 DEF Kept
<1> QED BY <1>1, <1>4, <1>8, <1>9, WriteMove

LEMMA WriteFailsStep == ASSUME IInv, NEW p \in Publishers, WriteFails(p) PROVE IInv'
<1>a. PICK s : s = [stage |-> "report", id |-> pub[p].id, batch |-> pub[p].batch,
                    relaxed |-> FALSE, ok |-> FALSE]
  OBVIOUS
<1>1. /\ pub[p].stage = "flush" /\ pub' = [pub EXCEPT ![p] = s]
      /\ buffered' \in {buffered, buffered \cup Carried(pub[p].batch)}
      /\ UNCHANGED <<policy, cache, setting, queue, pruning, done, unflushed, durable, before,
                     minted, acked, consumed, lost, granted, unlimited>>
  BY <1>a DEF WriteFails, Goto, control
<1>2. Batched(p) BY <1>1 DEF Batched
<1>3. pub[p].batch \in Seq(Job) /\ pub[p].id \in Ids BY <1>2, BatchFacts
<1>4. s \in Stage /\ s.stage = "report" /\ s.id = pub[p].id /\ s.batch = pub[p].batch /\ ~s.ok
  BY <1>3, <1>a DEF Stage
<1> QED BY <1>1, <1>4, WriteMove

\* A commit that was only buffered adds its messages to those at risk, and the
\* counter grows by as many.
LEMMA RelaxedCommit ==
    ASSUME IInv, NEW p \in Publishers, pub[p].stage = "report", pub[p].ok, pub[p].relaxed,
           unflushed' = unflushed + Weight(pub[p].batch), UNCHANGED granted,
           Counts' \subseteq Counts \cup Carried(pub[p].batch)
    PROVE  /\ Cardinality(Counts') <= unflushed'
           /\ \A X \in SUBSET Counts' : X # {} => \E m \in X : Cardinality(X) <= granted'[m[1]].budget
<1> DEFINE b == pub[p].batch
           C == Carried(pub[p].batch)
<1>1. Batched(p) BY DEF Batched
<1>2. C \in SUBSET Message /\ b \in Seq(Job) BY <1>1, BatchFacts
<1>3. Counts \in SUBSET Message /\ IsFiniteSet(Counts) /\ Cardinality(Counts) \in Nat
  BY CountsFinite DEF IInv
<1>4. Weight(b) = Cardinality(C) /\ Cardinality(C) \in Nat /\ IsFiniteSet(C)
  BY <1>2, MessageFinite DEF Weight
<1>5. unflushed \in Nat /\ Cardinality(Counts) <= unflushed BY DEF IInv, TypeOK, LossInv
<1>6. \A k \in DOMAIN b : unflushed + Weight(b) <= b[k].budget BY DEF IInv, LossInv, WithinBudget
<1>7. \A m \in C : \E k \in DOMAIN b : granted[m[1]].budget = b[k].budget /\ b[k].budget \in Nat
  <2> SUFFICES ASSUME NEW m \in C
               PROVE  \E k \in DOMAIN b : granted[m[1]].budget = b[k].budget /\ b[k].budget \in Nat
    OBVIOUS
  <2>1. PICK k \in DOMAIN b : b[k].id = m[1] BY <1>1, BatchFacts DEF Members
  <2>2. Pending(b[k]) BY <1>1, JobFacts
  <2>3. granted[m[1]].budget = b[k].budget BY <2>1, <2>2 DEF Pending
  <2>4. b[k].budget \in Nat BY <1>2, BudgetIsLeast
  <2> QED BY <2>3, <2>4
<1> HIDE DEF b, C
<1>8. /\ IsFiniteSet(Counts \cup C) /\ Cardinality(Counts \cup C) \in Nat
      /\ Cardinality(Counts \cup C) <= unflushed + Weight(b)
  <2>1. Counts \cup C \in SUBSET Message /\ Counts \cap C \in SUBSET Message BY <1>2, <1>3
  <2>2. /\ IsFiniteSet(Counts \cup C) /\ Cardinality(Counts \cup C) \in Nat
        /\ Cardinality(Counts \cap C) \in Nat
    BY <2>1, MessageFinite
  <2>3. Cardinality(Counts \cup C) = Cardinality(Counts) + Cardinality(C) - Cardinality(Counts \cap C)
    BY <1>3, <1>4, FS_Union
  <2> QED BY <1>3, <1>4, <1>5, <2>2, <2>3
<1>9. \A X \in SUBSET Counts' : Cardinality(X) \in Nat /\ Cardinality(X) <= unflushed + Weight(b)
  <2> SUFFICES ASSUME NEW X \in SUBSET Counts'
               PROVE  Cardinality(X) \in Nat /\ Cardinality(X) <= unflushed + Weight(b)
    OBVIOUS
  <2>1. X \subseteq Counts \cup C BY DEF C
  <2>2. IsFiniteSet(X) /\ Cardinality(X) <= Cardinality(Counts \cup C) BY <1>8, <2>1, FS_Subset
  <2>3. Cardinality(X) \in Nat BY <2>2, FS_CardinalityType
  <2> QED BY <1>4, <1>5, <1>8, <2>2, <2>3
<1>10. ASSUME NEW X \in SUBSET Counts', X # {}
       PROVE  \E m \in X : Cardinality(X) <= granted'[m[1]].budget
  <2>1. CASE X \cap C = {}
    <3>1. X \subseteq Counts BY <1>10, <2>1 DEF C
    <3> QED BY <1>10, <3>1 DEF IInv, LossInv
  <2>2. CASE X \cap C # {}
    <3>1. PICK m \in X : m \in C BY <2>2
    <3>2. PICK k \in DOMAIN b : granted[m[1]].budget = b[k].budget /\ b[k].budget \in Nat
      BY <1>7, <3>1
    <3>3. Cardinality(X) <= granted[m[1]].budget
      <4>1. Cardinality(X) \in Nat /\ Cardinality(X) <= unflushed + Weight(b) BY <1>9
      <4>2. unflushed + Weight(b) <= b[k].budget BY <1>6
      <4> QED BY <1>4, <1>5, <3>2, <4>1, <4>2
    <3> QED BY <3>1, <3>3
  <2> QED BY <2>1, <2>2
<1>11. Cardinality(Counts') <= unflushed' BY <1>9 DEF b
<1> QED BY <1>10, <1>11

LEMMA ReportStep == ASSUME IInv, NEW p \in Publishers, Report(p) PROVE IInv'
<1>a. PICK s : s = [stage |-> "lead", id |-> pub[p].id] OBVIOUS
<1> DEFINE o == pub[p]
<1>1. /\ o.stage = "report" /\ unflushed' = Counted(o) /\ pub' = [pub EXCEPT ![p] = s]
      /\ done' = [i \in Ids |-> IF i \in Members(o.batch)
                                THEN IF o.ok THEN "ok" ELSE "failed" ELSE done[i]]
      /\ UNCHANGED <<policy, cache, setting, queue, pruning, buffered, durable, before,
                     minted, acked, consumed, lost, granted, unlimited>>
  BY <1>a DEF Report, Goto, control, store
<1>2. Batched(p) /\ Leading(p) /\ TypeOK BY <1>1 DEF Batched, Leading, IInv
<1>3. /\ o.batch \in Seq(Job) /\ o.id \in Ids /\ Busy(p)
      /\ \A i \in Members(o.batch) :
           /\ i \in Ids /\ done[i] = "pending" /\ ~InQueue(i)
           /\ Messages(i, granted[i].topics) \subseteq Carried(o.batch)
  BY <1>2, BatchFacts
<1>4. o.relaxed \in BOOLEAN /\ o.ok \in BOOLEAN BY <1>1, <1>2, StageFields
<1>5. s \in Stage /\ s.stage = "lead" /\ s.id = o.id BY <1>3, <1>a DEF Stage
<1>6. \A q \in Publishers : pub'[q] = IF q = p THEN s ELSE pub[q] BY <1>1, <1>2 DEF TypeOK
<1>7. \A q \in Publishers : ~Batched(q)' BY <1>2, <1>5, <1>6, JobFacts DEF Batched
<1>8. \A i \in Ids : done'[i] = IF i \in Members(o.batch)
                                THEN IF o.ok THEN "ok" ELSE "failed" ELSE done[i]
  BY <1>1
<1>9. unflushed' \in Nat
  BY <1>1, <1>2, <1>3, CarriedIs DEF Counted, TypeOK
<1>10. TypeOK' BY <1>1, <1>2, <1>5, <1>9 DEF TypeOK
<1>11. GateInv' BY <1>1, <1>2, GateMove DEF IInv
<1>12. IdInv'
  <2>1. /\ s.stage \notin {"resolve", "fill", "enforce", "push"}
        /\ buffered' \subseteq Message /\ durable' \subseteq Message
    BY <1>5, <1>10 DEF TypeOK
  <2>2. \A i \in Ids : done'[i] = done[i] \/ done[i] = "pending" BY <1>3, <1>8
  <2> QED BY <1>1, <1>2, <1>3, <1>5, <2>1, <2>2, IdMove DEF IInv
<1>13. JobInv'
  <2>1. \A k \in DOMAIN queue : done'[queue[k].id] = done[queue[k].id]
    BY <1>3, <1>8, JobFacts DEF InQueue
  <2> QED BY <1>1, <1>2, <1>7, <2>1, JobMove DEF IInv
<1>14. StrandInv'
  <2> SUFFICES ASSUME NEW q \in Publishers, Busy(q)'
               PROVE  /\ pub'[q].stage = "read" => done'[pub'[q].id] # "pending"
                      /\ pub'[q].stage \in {"wait", "lead", "flush", "report"}
                           /\ done'[pub'[q].id] = "pending" =>
                         InQueue(pub[q].id)' \/ \E r \in Publishers : InBatch(r, pub[q].id)'
    BY DEF StrandInv, Busy
  <2>1. pub'[q].id = pub[q].id /\ Busy(q) BY <1>3, <1>5, <1>6 DEF Busy
  <2>2. pub[q].id \in Ids BY <2>1, JobFacts
  <2>3. done'[pub[q].id] = "pending" => done[pub[q].id] = "pending" /\ pub[q].id \notin Members(o.batch)
    BY <1>8, <2>2
  <2>4. done'[pub[q].id] = "pending" => \A r \in Publishers : ~InBatch(r, pub[q].id)
    BY <1>2, <2>3, JobFacts DEF InBatch
  <2>5. InQueue(pub[q].id) => InQueue(pub[q].id)' BY <1>1, <2>1 DEF InQueue
  <2>6. pub'[q].stage = "read" => pub[q].stage = "read" BY <1>5, <1>6
  <2>7. pub'[q].stage \in {"wait", "lead", "flush", "report"}
          => pub[q].stage \in {"wait", "lead", "flush", "report"}
    BY <1>1, <1>6
  <2> QED BY <2>1, <2>3, <2>4, <2>5, <2>6, <2>7 DEF IInv, StrandInv
<1>15. KeptInv'
  <2>1. \A i \in Ids : Kept(i) => Kept(i)' BY <1>1, <1>2, KeptStays
  <2>2. \A i \in Ids : i \in acked' \/ done'[i] = "ok" => Kept(i)
    BY <1>1, <1>8 DEF IInv, KeptInv
  <2>3. \A q \in Publishers : pub'[q].stage # "report" BY <1>7 DEF Batched
  <2> QED BY <2>1, <2>2, <2>3 DEF KeptInv
<1>16. LossInv'
  <2>1. \A q \in Publishers : pub'[q].stage # "report" BY <1>7 DEF Batched
  <2>2. \A m \in buffered' : m[2] \in granted'[m[1]].topics BY <1>1 DEF IInv, LossInv
  <2>3. \A m \in buffered : m[1] \in Ids /\ m = <<m[1], m[2]>> BY <1>2 DEF TypeOK, Message
  <2>4. CASE ~o.ok
    <3>1. Counts' \subseteq Counts BY <1>1, <1>8, <2>3, <2>4 DEF Counts
    <3>2. unflushed' = unflushed BY <1>1, <1>4, <2>4 DEF Counted
    <3> QED BY <1>1, <1>2, <2>1, <2>2, <3>1, <3>2, LossMove DEF IInv
  <2>5. CASE o.ok /\ ~o.relaxed
    <3>1. buffered = {} BY <1>1, <2>5 DEF IInv, LossInv, WithinBudget
    <3>2. Counts' = {} BY <1>1, <3>1 DEF Counts
    <3>3. unflushed' = 0 /\ Cardinality(Counts') = 0
      BY <1>1, <1>4, <2>5, <3>2, FS_EmptySet DEF Counted
    <3> QED BY <2>1, <2>2, <3>2, <3>3 DEF LossInv
  <2>6. CASE o.ok /\ o.relaxed
    <3>1. unflushed' = unflushed + Weight(o.batch) BY <1>1, <1>4, <2>6 DEF Counted
    <3>2. Counts' \subseteq Counts \cup Carried(o.batch)
      <4> SUFFICES ASSUME NEW m \in buffered, done'[m[1]] = "ok"
                   PROVE  m \in Counts \cup Carried(o.batch)
        BY <1>1 DEF Counts
      <4>1. CASE m[1] \in Members(o.batch)
        <5>1. m[2] \in granted[m[1]].topics BY DEF IInv, LossInv
        <5>2. m \in Messages(m[1], granted[m[1]].topics) BY <2>3, <5>1 DEF Messages
        <5> QED BY <1>3, <4>1, <5>2
      <4>2. CASE m[1] \notin Members(o.batch) BY <1>8, <2>3, <4>2 DEF Counts
      <4> QED BY <4>1, <4>2
    <3>3. /\ Cardinality(Counts') <= unflushed'
          /\ \A X \in SUBSET Counts' : X # {} =>
               \E m \in X : Cardinality(X) <= granted'[m[1]].budget
      BY <1>1, <2>6, <3>1, <3>2, RelaxedCommit
    <3> QED BY <2>1, <2>2, <3>3 DEF LossInv
  <2> QED BY <1>4, <2>4, <2>5, <2>6
<1>17. DepthInv'
  <2>1. \A q \in Publishers : Early(q)' => Early(q) /\ pub'[q] = pub[q] BY <1>5, <1>6 DEF Early
  <2>2. \A q \in Publishers : Early(q) => Busy(q) BY DEF Early, Busy
  <2>3. \A q \in Publishers : Early(q)' => Early(q) /\ pub'[q] = pub[q] /\ pub[q].id \in Ids
    BY <2>1, <2>2, JobFacts
  <2>4. buffered' \subseteq Message /\ durable' \subseteq Message BY <1>10 DEF TypeOK
  <2> QED BY <1>1, <1>2, <1>7, <2>3, <2>4, JobFacts, DepthMove DEF IInv
<1> QED BY <1>10, <1>11, <1>12, <1>13, <1>14, <1>15, <1>16, <1>17 DEF IInv

-----------------------------------------------------------------------------
(* The rest of the node: no publisher moves. *)

LEMMA StoreMove ==
    ASSUME IInv, TypeOK', GateInv',
           UNCHANGED <<pub, queue, done, unflushed, before, minted, acked, granted, unlimited>>,
           buffered' \subseteq buffered, durable' \subseteq buffered \cup durable,
           durable \cup consumed \subseteq durable' \cup consumed',
           buffered \cup lost \subseteq durable' \cup consumed' \cup buffered' \cup lost'
    PROVE  IInv'
<1>1. IdInv' BY DEF IInv, IdInv, Busy, Early, Unwritten
<1>2. JobInv' BY JobMove DEF IInv, Batched
<1>3. StrandInv' BY DEF IInv, StrandInv, InQueue, InBatch, Batched, Members
<1>4. KeptInv'
  <2>1. \A i \in Ids : Kept(i) => Kept(i)' BY KeptStays DEF IInv
  <2>2. \A q \in Publishers : Batched(q) => Members(pub[q].batch) \subseteq Ids
    BY JobFacts DEF Members
  <2>3. \A q \in Publishers : pub'[q].stage = "report" /\ pub'[q].ok =>
           \A i \in Members(pub'[q].batch) : Kept(i)'
    BY <2>1, <2>2 DEF IInv, KeptInv, Batched
  <2> QED BY <2>1, <2>3 DEF IInv, KeptInv, Members
<1>5. LossInv'
  <2>1. Counts' \subseteq Counts BY DEF Counts
  <2>2. \A q \in Publishers : pub'[q].stage = "report" /\ pub'[q].ok =>
           WithinBudget(pub'[q], unflushed, buffered')
    BY DEF IInv, LossInv, WithinBudget
  <2>3. \A m \in buffered' : m[2] \in granted[m[1]].topics BY DEF IInv, LossInv
  <2> QED BY <2>1, <2>2, <2>3, LossMove DEF IInv
<1>6. DepthInv'
  <2>1. \A q \in Publishers : Early(q) => Busy(q) BY DEF Early, Busy
  <2>2. \A q \in Publishers : Early(q)' => Early(q) /\ pub'[q] = pub[q] /\ pub[q].id \in Ids
    BY <2>1, JobFacts DEF Early
  <2>3. buffered' \subseteq Message /\ durable' \subseteq Message BY DEF TypeOK
  <2>4. \A q \in Publishers : Batched(q)' => Batched(q) BY DEF Batched
  <2> QED BY <2>2, <2>3, <2>4, JobFacts, DepthMove DEF IInv
<1> QED BY <1>1, <1>2, <1>3, <1>4, <1>5, <1>6 DEF IInv

LEMMA NodeSteps ==
    ASSUME IInv,
           \/ \E t \in Topics : (\E pol \in Policies : SetPolicy(t, pol)) \/ Invalidate(t)
           \/ Prune \/ Pruned \/ Flush \/ UNCHANGED vars
           \/ \E m \in Message : Consume(m)
    PROVE  IInv'
<1>a. TypeOK /\ GateInv BY DEF IInv
<1>1. ASSUME NEW t \in Topics, NEW pol \in Policies, SetPolicy(t, pol) PROVE IInv'
  <2>1. TypeOK' BY <1>a, <1>1 DEF SetPolicy, TypeOK, Policy, store
  <2>2. GateInv' BY <1>a, <1>1 DEF SetPolicy, GateInv, Leading
  <2> QED BY <1>1, <2>1, <2>2, StoreMove DEF SetPolicy, store
<1>2. ASSUME NEW t \in Topics, Invalidate(t) PROVE IInv'
  <2>1. TypeOK' BY <1>a, <1>2 DEF Invalidate, TypeOK, store
  <2>2. GateInv' BY <1>a, <1>2 DEF Invalidate, GateInv, Leading
  <2> QED BY <1>2, <2>1, <2>2, StoreMove DEF Invalidate, store
<1>3. CASE Prune
  <2>1. TypeOK' BY <1>a, <1>3 DEF Prune, TypeOK, store, control
  <2>2. GateInv' BY <1>a, <1>3 DEF Prune, GateInv, GateFree, Leading
  <2> QED BY <1>3, <2>1, <2>2, StoreMove DEF Prune, store
<1>4. CASE Pruned
  <2>1. TypeOK' BY <1>a, <1>4 DEF Pruned, TypeOK, store, control
  <2>2. GateInv' BY <1>a, <1>4 DEF Pruned, GateInv, Leading
  <2> QED BY <1>4, <2>1, <2>2, StoreMove DEF Pruned, store
<1>5. CASE Flush
  <2>1. TypeOK' BY <1>a, <1>5 DEF Flush, TypeOK, control
  <2>2. GateInv' BY <1>a, <1>5 DEF Flush, GateInv, Leading
  <2> QED BY <1>5, <2>1, <2>2, StoreMove DEF Flush
<1>6. ASSUME NEW m \in Message, Consume(m) PROVE IInv'
  <2>1. TypeOK' BY <1>a, <1>6 DEF Consume, TypeOK, control
  <2>2. GateInv' BY <1>a, <1>6 DEF Consume, GateInv, Leading
  <2> QED BY <1>6, <2>1, <2>2, StoreMove DEF Consume
<1>7. CASE UNCHANGED vars
  <2>1. TypeOK' BY <1>a, <1>7 DEF vars, TypeOK
  <2>2. GateInv' BY <1>a, <1>7 DEF vars, GateInv, Leading
  <2> QED BY <1>7, <2>1, <2>2, StoreMove DEF vars
<1> QED BY <1>1, <1>2, <1>3, <1>4, <1>5, <1>6, <1>7

\* A crash takes every publisher and what was buffered.
LEMMA CrashStep == ASSUME IInv, Crash PROVE IInv'
<1>1. /\ \A p \in Publishers : pub'[p] = Idle
      /\ queue' = <<>> /\ pruning' = FALSE /\ unflushed' = 0 /\ buffered' = {}
      /\ lost' = lost \cup buffered
      /\ \A i \in Ids : done'[i] = "none"
      /\ UNCHANGED <<policy, durable, before, minted, acked, consumed, granted, unlimited>>
  BY DEF Crash
<1>2. Idle.stage = "idle" /\ Idle \in Stage BY DEF Idle, Stage
<1>3. TypeOK /\ acked \subseteq Ids /\ DOMAIN queue' = {} BY <1>1 DEF IInv, TypeOK
<1>4. \A p \in Publishers : ~Busy(p)' /\ ~Early(p)' /\ ~Batched(p)' /\ ~Leading(p)'
  BY <1>1, <1>2 DEF Busy, Early, Batched, Leading
<1>5. TypeOK'
  <2>1. <<>> \in Seq(Job) BY EmptySeq
  <2>2. /\ pub' \in [Publishers -> Stage] /\ cache' \in [Topics -> Policy \cup {Miss}]
        /\ done' \in [Ids -> {"none", "pending", "ok", "failed", "dropped"}]
        /\ setting' \subseteq Topics
    BY <1>2 DEF Crash
  <2> QED BY <1>1, <1>3, <2>1, <2>2 DEF TypeOK
<1>6. GateInv' BY <1>1, <1>4 DEF GateInv
<1>7. IdInv'
  <2>1. \A i \in Ids \ minted' : Unwritten(i)' BY <1>1 DEF IInv, IdInv, Unwritten
  <2>2. \A i \in acked' : done'[i] \in {"ok", "none"} BY <1>1, <1>3
  <2> QED BY <1>1, <1>4, <2>1, <2>2 DEF IdInv
<1>8. JobInv' BY <1>3, <1>4 DEF JobInv
<1>9. StrandInv' BY <1>1, <1>2 DEF StrandInv
<1>10. KeptInv'
  <2>1. \A i \in Ids : Kept(i) => Kept(i)' BY <1>1, <1>3, KeptStays
  <2> QED BY <1>1, <1>2, <2>1 DEF IInv, KeptInv
<1>11. LossInv'
  <2>1. Counts' = {} /\ Cardinality(Counts') = 0 BY <1>1, FS_EmptySet DEF Counts
  <2> QED BY <1>1, <1>2, <2>1 DEF LossInv
<1>12. DepthInv'
  <2>1. buffered' \subseteq Message /\ durable' \subseteq Message BY <1>5 DEF TypeOK
  <2> QED BY <1>1, <1>3, <1>4, <2>1, DepthMove DEF IInv
<1> QED BY <1>5, <1>6, <1>7, <1>8, <1>9, <1>10, <1>11, <1>12 DEF IInv

-----------------------------------------------------------------------------

LEMMA InitInv == ASSUME Init PROVE IInv
<1>1. /\ \A p \in Publishers : pub[p] = Idle
      /\ \A i \in Ids : done[i] = "none" /\ before[i] = {}
      /\ DOMAIN queue = {}
  BY DEF Init
<1>2. Idle.stage = "idle" /\ Idle \in Stage BY DEF Idle, Stage
<1>3. \A p \in Publishers : ~Busy(p) /\ ~Early(p) /\ ~Batched(p) /\ ~Leading(p)
  BY <1>1, <1>2 DEF Busy, Early, Batched, Leading
<1>4. TypeOK
  <2>1. <<>> \in Seq(Job) BY EmptySeq
  <2>2. pub \in [Publishers -> Stage] BY <1>2 DEF Init
  <2>3. granted \in [Ids -> [topics : SUBSET Topics, budget : Nat]] BY DEF Init
  <2> QED BY <2>1, <2>2, <2>3 DEF Init, TypeOK
<1>5. GateInv BY <1>3 DEF GateInv, Init
<1>6. IdInv BY <1>1, <1>3 DEF IdInv, Unwritten, Init
<1>7. JobInv BY <1>1, <1>3 DEF JobInv
<1>8. StrandInv BY <1>1, <1>2 DEF StrandInv
<1>9. KeptInv BY <1>1, <1>2 DEF KeptInv, Init
<1>10. LossInv
  <2>1. Counts = {} /\ Cardinality(Counts) = 0 BY FS_EmptySet DEF Counts, Init
  <2> QED BY <1>1, <1>2, <2>1 DEF LossInv, Init
<1>11. DepthInv BY <1>1, <1>3 DEF DepthInv, Init
<1> QED BY <1>4, <1>5, <1>6, <1>7, <1>8, <1>9, <1>10, <1>11 DEF IInv

LEMMA StepInv == ASSUME IInv, [Next]_vars PROVE IInv'
<1>1. ASSUME NEW p \in Publishers, NEW T \in Requests, Publish(p, T) PROVE IInv'
  BY <1>1, PublishStep
<1>2. ASSUME NEW p \in Publishers, Step(p) PROVE IInv'
  <2>1. ASSUME NEW t \in Topics, Resolve(p, t) PROVE IInv' BY <2>1, ResolveStep
  <2>2. CASE Fill(p) BY <2>2, FillStep
  <2>3. CASE Enforce(p) BY <2>3, EnforceStep
  <2>4. CASE Reject(p) BY <2>4, RejectStep
  <2>5. CASE Push(p) BY <2>5, PushStep
  <2>6. CASE Lead(p) \/ Release(p) \/ Return(p) BY <2>6, GateSteps
  <2>7. CASE Drain(p) BY <2>7, DrainStep
  <2>8. CASE Write(p) BY <2>8, WriteStep
  <2>9. CASE Report(p) BY <2>9, ReportStep
  <2> QED BY <1>2, <2>1, <2>2, <2>3, <2>4, <2>5, <2>6, <2>7, <2>8, <2>9 DEF Step
<1>3. ASSUME NEW p \in Publishers, WriteFails(p) PROVE IInv' BY <1>3, WriteFailsStep
<1>4. ASSUME NEW p \in Publishers, Cancel(p) PROVE IInv' BY <1>4, GateSteps
<1>5. CASE Crash BY <1>5, CrashStep
<1>6. CASE \/ \E t \in Topics : (\E pol \in Policies : SetPolicy(t, pol)) \/ Invalidate(t)
           \/ Prune \/ Pruned \/ Flush \/ UNCHANGED vars
           \/ \E m \in Message : Consume(m)
  BY <1>6, NodeSteps
<1> QED BY <1>1, <1>2, <1>3, <1>4, <1>5, <1>6 DEF Next

LEMMA Invariance == Spec => []IInv
<1>1. Init => IInv BY InitInv
<1>2. IInv /\ [Next]_vars => IInv' BY StepInv
<1> QED BY <1>1, <1>2, PTL DEF Spec

\* Every variable keeps its type, the one-shots, the batches and the stages of
\* enforce_and_resolve_budget and group_commit among them.
THEOREM TypeCorrect == Spec => []TypeOK
<1>1. IInv => TypeOK BY DEF IInv
<1> QED BY <1>1, Invariance, PTL

\* No publisher of group_commit waits for a commit that nobody will make, and a
\* leader that released the gate has its outcome, for any number of publishers,
\* any GROUP_COMMIT_MAX and whoever is cancelled.
THEOREM NobodyStranded == Spec => []NeverStranded
<1>1. IInv => NeverStranded
  BY DEF IInv, StrandInv, NeverStranded, InQueue, InBatch, Batched
<1> QED BY <1>1, Invariance, PTL

\* A publish that group_commit answered with Ok is durable or consumed, unless
\* each of its topics has an unflushed budget: one strong job makes the whole
\* batch of commit_group durable.
THEOREM AcksKept == Spec => []AckKept
<1>1. IInv => AckKept BY DEF IInv, TypeOK, KeptInv, Kept, AckKept
<1> QED BY <1>1, Invariance, PTL

\* The counter of commit_group covers what a crash would lose: never more
\* acknowledged messages than the budget of one of them, whatever flushes,
\* cancelled leaders and failed writes came between its read and its update.
THEOREM LossBounded == Spec => []LossWithinBudget
<1>1. IInv => LossWithinBudget
  <2> SUFFICES ASSUME IInv, Exposed # {}
               PROVE  \E m \in Exposed : Cardinality(Exposed) <= granted[m[1]].budget
    BY DEF LossWithinBudget
  <2>1. Exposed \in SUBSET Counts BY DEF IInv, IdInv, Exposed, Counts
  <2> QED BY <2>1 DEF IInv, LossInv
<1> QED BY <1>1, Invariance, PTL

\* enforce_publish_policy holds max_depth against every publish that had
\* returned: a message of a limited topic found room for it in some policy that
\* was set, although the policy is cached and the backlog is read before the
\* publish is queued.
THEOREM DepthRespected == Spec => []DepthHolds
<1>1. IInv => DepthHolds BY DEF IInv, DepthInv, Admitted, Room, DepthHolds
<1> QED BY <1>1, Invariance, PTL
=============================================================================
