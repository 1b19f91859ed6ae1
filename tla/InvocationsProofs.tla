------------------------- MODULE InvocationsProofs -------------------------
(* What Invocations guarantees for any number of nodes, permits and ids,    *)
(* any lease, any skew of the clocks up to MaxSkew, any crashes and any     *)
(* number of posts that are repeated, delayed or lost.                      *)
EXTENDS Invocations, TLAPS

Fresh(rec) == rec.status = "Queued" /\ rec.attempts = 0

\* A record of one life of an id: it has been enqueued, and if it is of the life
\* in the store then no attempt of it is later than the store's.
Charged(id, rec) ==
    /\ rec.created \in stamps[id]
    /\ store[id] # NoRec /\ store[id].created = rec.created => rec.attempts <= store[id].attempts

\* What a write may be, at the latest when it is applied: the put of a call, an
\* enqueue by a cron or a watcher, a claim, or a settle by a run that is over.
PutShape(o) == o.op = "put" /\ Fresh(o.new)
RefireShape(o) ==
    /\ o.op = "swap" /\ Fresh(o.new)
    /\ o.expected = NoRec \/ (Terminal(o.expected) /\ kind[o.id] = "blob")
ClaimShape(o) ==
    /\ o.op = "swap" /\ Claimable(o.expected, clock + MaxSkew)
    /\ o.new.created = o.expected.created /\ o.new.attempts = o.expected.attempts + 1
Over(o) ==
    \A s \in Slots : run[s] # NoRec /\ run[s].id = o.id /\ run[s].rec = o.expected
                        => run[s].out # NoRec
SettleShape(o) ==
    /\ o.op = "swap" /\ o.expected # NoRec /\ o.expected.status = "Running"
    /\ o.new.created = o.expected.created /\ o.new.attempts = o.expected.attempts
    /\ o.new.attempts > 0
    /\ o.id \notin revived => Charged(o.id, o.expected) /\ Over(o)
Shape(o) == PutShape(o) \/ RefireShape(o) \/ ClaimShape(o) \/ SettleShape(o)
LateInv == \A o \in late : Shape(o)

\* A drain that is claiming took its time from a clock that is not ahead by
\* more than MaxSkew, and what it still has to claim was claimable then.
ScanInv ==
    \A n \in Nodes : scan[n].stage = "claiming" =>
        /\ scan[n].now <= clock + MaxSkew
        /\ \A id \in scan[n].todo : Claimable(scan[n].seen[id], scan[n].now)

\* A run holds a Running record and settles it without a new attempt.  A watcher
\* works on the id of a blob change and swaps only on a key that was absent or a
\* record that was settled.  What a call puts is fresh.
RunInv ==
    \A s \in Slots : run[s] # NoRec =>
        /\ run[s].rec.status = "Running" /\ run[s].rec.attempts > 0
        /\ run[s].out # NoRec =>
              run[s].out.created = run[s].rec.created /\ run[s].out.attempts = run[s].rec.attempts
WatchInv ==
    \A n \in Nodes : watch[n] # NoRec =>
        /\ kind[watch[n].id] = "blob" /\ Fresh(watch[n].rec)
        /\ watch[n].stage = "swap" => watch[n].current = NoRec \/ Terminal(watch[n].current)
EnqInv == \A id \in Ids : enq[id] # NoRec => Fresh(enq[id])

\* Every life of an id has its stamp, and every run its own record: a claim adds
\* an attempt to the life in the store, so no record is ever claimed twice unless
\* a life begins again under an old stamp.
StoreInv == \A id \in Ids : store[id] # NoRec => store[id].created \in stamps[id]
Own(s) ==
    \A t \in Slots : run[t] # NoRec /\ run[t].id = run[s].id /\ run[t].rec = run[s].rec => t = s
LifeInv ==
    \A s \in Slots : run[s] # NoRec /\ run[s].id \notin revived =>
        Charged(run[s].id, run[s].rec) /\ Own(s)

\* The inductive invariant.  LeaseHolds alone is not inductive: a settle, on time
\* or late, is only refused for a live run of another claim if no two runs hold
\* the same record, which is LifeInv, and that rests on the stamps and attempts.
Held == StoreInv /\ LateInv /\ LifeInv /\ LeaseHolds
IInv == TypeOK /\ ScanInv /\ RunInv /\ WatchInv /\ EnqInv /\ Held

LEMMA ClaimedType ==
    ASSUME NEW rec \in Invocation, NEW now \in Nat
    PROVE  /\ ClaimedFrom(rec, now) \in Invocation
           /\ ClaimedFrom(rec, now).status = "Running"
           /\ ClaimedFrom(rec, now).created = rec.created
           /\ ClaimedFrom(rec, now).attempts = rec.attempts + 1
<1>1. now + LeaseSecs \in Nat /\ rec.attempts + 1 \in Nat
  BY InvocationsAssumption DEF InvocationsAssumption, Invocation
<1>2. PICK a \in Nat, l \in Nat : a = rec.attempts + 1 /\ l = now + LeaseSecs BY <1>1
<1>3. ClaimedFrom(rec, now) = [rec EXCEPT !.status = "Running", !.attempts = a, !.lease = l]
  BY <1>2 DEF ClaimedFrom
<1> QED BY <1>2, <1>3 DEF Invocation

LEMMA SettledType ==
    ASSUME NEW rec \in Invocation, NEW outcome
    PROVE  /\ Settled(rec, outcome) \in Invocation
           /\ Settled(rec, outcome).created = rec.created
           /\ Settled(rec, outcome).attempts = rec.attempts
<1>1. CASE outcome = "delivered" BY <1>1 DEF Settled, Invocation
<1>2. CASE outcome = "unresolved" BY <1>2 DEF Settled, Invocation
<1>3. CASE outcome # "delivered" /\ outcome # "unresolved"
  BY <1>3, InvocationsAssumption DEF InvocationsAssumption, Settled, Invocation
<1> QED BY <1>1, <1>2, <1>3

LEMMA InitType == Init => TypeOK
  BY InvocationsAssumption
  DEF InvocationsAssumption, Init, TypeOK, Nothing, IdleScan, Scan, Observed, Slots

LEMMA NowType == ASSUME TypeOK, NEW n \in Nodes PROVE Now(n) \in Nat /\ Now(n) <= clock + MaxSkew
  BY InvocationsAssumption DEF InvocationsAssumption, TypeOK, Now

LEMMA EnqueuedType ==
    ASSUME TypeOK, NEW n \in Nodes
    PROVE  Enqueued(Now(n)) \in Invocation /\ Fresh(Enqueued(Now(n)))
  BY NowType DEF Enqueued, Invocation, Fresh

LEMMA IdleType == IdleScan \in Scan
  BY DEF IdleScan, Scan, Nothing, Observed

LEMMA CommitType ==
    ASSUME TypeOK, NEW o \in Write, Commit(o)
    PROVE  /\ store' \in [Ids -> Observed] /\ stamps' \in [Ids -> SUBSET Nat]
           /\ revived' \subseteq Ids
<1>1. o.id \in Ids /\ o.new \in Observed /\ o.new.created \in Nat
  BY DEF Write, Observed, Invocation
<1>2. store' = [store EXCEPT ![o.id] = o.new] BY DEF Commit
<1>3. PICK c \in SUBSET Nat : stamps' = [stamps EXCEPT ![o.id] = @ \cup c]
  BY <1>1 DEF Commit
<1>4. revived' \subseteq revived \cup {o.id} BY DEF Commit
<1> QED BY <1>1, <1>2, <1>3, <1>4 DEF TypeOK

LEMMA LateType ==
    ASSUME TypeOK, NEW o \in Write, Unanswered(o)
    PROVE  late' \subseteq Write /\ fails' \in 0 .. MaxFails
  BY InvocationsAssumption DEF InvocationsAssumption, TypeOK, Unanswered

LEMMA PassedType ==
    ASSUME TypeOK, NEW n \in Nodes, NEW id \in Ids, Passed(n, id)
    PROVE  scan' \in [Nodes -> Scan]
<1> DEFINE sc == [scan[n] EXCEPT !.todo = @ \ {id}, !.seen[id] = NoRec]
<1>0. scan[n] \in Scan BY DEF TypeOK
<1>1. sc \in Scan BY <1>0 DEF Scan, Observed
<1>2. scan' = [scan EXCEPT ![n] = sc] BY DEF Passed, TypeOK
<1> QED BY <1>1, <1>2 DEF TypeOK

-----------------------------------------------------------------------------
(* What each operation writes. *)

\* A claim is of a record that was there when it was listed.
LEMMA SeenType ==
    ASSUME TypeOK, ScanInv, NEW n \in Nodes, NEW id \in Ids, Claiming(n, id)
    PROVE  /\ scan[n].seen[id] \in Invocation /\ scan[n].now \in Nat
           /\ scan[n].now <= clock + MaxSkew /\ Claimable(scan[n].seen[id], scan[n].now)
<1>1. scan[n] \in Scan BY DEF TypeOK
<1>2. Claimable(scan[n].seen[id], scan[n].now) /\ scan[n].now <= clock + MaxSkew
  BY DEF ScanInv, Claiming, First
<1> QED BY <1>1, <1>2 DEF Scan, Observed, Claimable

LEMMA ClaimWrites ==
    ASSUME IInv, NEW n \in Nodes, NEW id \in Ids, Claiming(n, id)
    PROVE  ClaimWrite(n, id) \in Write /\ ClaimShape(ClaimWrite(n, id))
<1> USE InvocationsAssumption DEF InvocationsAssumption
<1>1. PICK seen \in Invocation, now \in Nat :
         /\ seen = scan[n].seen[id] /\ now = scan[n].now
         /\ now <= clock + MaxSkew /\ Claimable(seen, now)
  BY SeenType DEF IInv
<1>2. PICK claimed : claimed = ClaimedFrom(seen, now) OBVIOUS
<1>3. /\ claimed \in Invocation /\ claimed.created = seen.created
      /\ claimed.attempts = seen.attempts + 1
  BY <1>2, ClaimedType
<1>4. ClaimWrite(n, id) = [op |-> "swap", id |-> id, expected |-> seen, new |-> claimed]
  BY <1>1, <1>2 DEF ClaimWrite, SwapOf
<1>5. Claimable(seen, clock + MaxSkew)
  BY <1>1 DEF Claimable, Invocation, IInv, TypeOK
<1> QED BY <1>3, <1>4, <1>5 DEF Write, ClaimShape, Observed

LEMMA RefireWrites ==
    ASSUME IInv, NEW n \in Nodes, watch[n] # NoRec, watch[n].stage = "swap"
    PROVE  RefireWrite(watch[n]) \in Write /\ RefireShape(RefireWrite(watch[n]))
<1>1. PICK w \in Refire : w = watch[n] BY DEF IInv, TypeOK
<1>2. /\ kind[w.id] = "blob" /\ Fresh(w.rec)
      /\ w.current = NoRec \/ Terminal(w.current)
  BY <1>1 DEF IInv, WatchInv
<1> QED BY <1>1, <1>2 DEF RefireWrite, SwapOf, Write, Refire, RefireShape

LEMMA SettleWrites ==
    ASSUME IInv, NEW s \in Slots, run[s] # NoRec, run[s].out # NoRec
    PROVE  SettleWrite(run[s]) \in Write /\ SettleShape(SettleWrite(run[s]))
<1>1. PICK r \in Claimed : r = run[s] BY DEF IInv, TypeOK
<1>2. /\ r.rec.status = "Running" /\ r.rec.attempts > 0
      /\ r.out.created = r.rec.created /\ r.out.attempts = r.rec.attempts
  BY <1>1 DEF IInv, RunInv
<1>3. /\ r.id \in Ids /\ r.rec \in Invocation /\ r.out \in Invocation /\ r.rec # NoRec
  BY <1>1, InvocationsAssumption DEF InvocationsAssumption, Claimed, Observed
<1>4. PICK o : o = SettleWrite(r) OBVIOUS
<1>5. o = [op |-> "swap", id |-> r.id, expected |-> r.rec, new |-> r.out]
  BY <1>4 DEF SettleWrite, SwapOf
<1>6. r.id \notin revived => Charged(r.id, r.rec) /\ Own(s)
  BY <1>1 DEF IInv, Held, LifeInv
<1>7. r.id \notin revived => Over(o) BY <1>1, <1>5, <1>6 DEF Own, Over
<1> QED BY <1>1, <1>2, <1>3, <1>4, <1>5, <1>6, <1>7 DEF Write, SettleShape, Observed

LEMMA PutWrites ==
    ASSUME IInv, NEW id \in Ids, enq[id] # NoRec
    PROVE  PutOf(id, enq[id]) \in Write /\ PutShape(PutOf(id, enq[id]))
  BY DEF IInv, TypeOK, EnqInv, Observed, PutOf, Write, PutShape

LEMMA ScheduledWrites ==
    ASSUME TypeOK, NEW n \in Nodes, NEW id \in Ids
    PROVE  /\ SwapOf(id, NoRec, Enqueued(Now(n))) \in Write
           /\ RefireShape(SwapOf(id, NoRec, Enqueued(Now(n))))
  BY EnqueuedType DEF SwapOf, Write, RefireShape, Observed


-----------------------------------------------------------------------------
(* Types. *)

\* A step that only moves one drain on keeps the types.
LEMMA ScanType ==
    ASSUME TypeOK, NEW n \in Nodes, NEW sc \in Scan, scan' = [scan EXCEPT ![n] = sc],
           UNCHANGED <<kind, base, run, watch, enq, posts, fires, clock>>
    PROVE  TypeOK'
  BY DEF TypeOK, base, hist, posts

LEMMA TypeStep == IInv /\ [Next]_vars => TypeOK'
<1> SUFFICES ASSUME IInv, [Next]_vars PROVE TypeOK'
  OBVIOUS
<1> USE InvocationsAssumption DEF InvocationsAssumption, base, hist, posts
<1>0. TypeOK BY DEF IInv
<1>1. CASE UNCHANGED vars BY <1>0, <1>1 DEF TypeOK, vars
<1>2. CASE EnqueueStep
  <2>1. ASSUME NEW id \in Ids, EnqueuePut(id) PROVE TypeOK'
    <3>1. PICK o \in Write : Commit(o) BY <2>1, PutWrites DEF EnqueuePut
    <3>2. enq' \in [Ids -> Observed] BY <2>1, <1>0 DEF EnqueuePut, TypeOK, Observed
    <3> QED BY <1>0, <2>1, <3>1, <3>2, CommitType DEF EnqueuePut, TypeOK
  <2>2. ASSUME NEW id \in Ids, NEW n \in Nodes, EnqueueCall(n, id) PROVE TypeOK'
    <3>1. Enqueued(Now(n)) \in Observed BY <1>0, EnqueuedType DEF Observed
    <3> QED BY <1>0, <2>2, <3>1 DEF EnqueueCall, TypeOK
  <2>3. ASSUME NEW id \in Ids, NEW n \in Nodes, EnqueueScheduled(n, id) PROVE TypeOK'
    <3>1. PICK o \in Write : Commit(o) BY <1>0, <2>3, ScheduledWrites DEF EnqueueScheduled
    <3> QED BY <1>0, <2>3, <3>1, CommitType DEF EnqueueScheduled, TypeOK
  <2>4. ASSUME NEW id \in Ids, NEW n \in Nodes, ObserveChange(n, id) PROVE TypeOK'
    <3>1. PICK r \in Invocation : r = Enqueued(Now(n)) BY <1>0, EnqueuedType
    <3>2. [stage |-> "read", id |-> id, tries |-> 0, current |-> NoRec, rec |-> r] \in Refire
      BY DEF Refire, Observed
    <3> QED BY <1>0, <2>4, <3>1, <3>2 DEF ObserveChange, TypeOK
  <2> QED BY <1>2, <2>1, <2>2, <2>3, <2>4 DEF EnqueueStep
<1>3. ASSUME NEW n \in Nodes, WatchStep(n) PROVE TypeOK'
  <2>1. CASE RefireRead(n)
    <3>1. PICK w \in Refire : w = watch[n] BY <1>0, <2>1 DEF RefireRead, TypeOK
    <3>2. store[w.id] \in Observed BY <1>0 DEF TypeOK, Refire
    <3>3. [w EXCEPT !.stage = "swap", !.current = store[w.id]] \in Refire BY <3>2 DEF Refire
    <3>4. watch' \in [Nodes -> Refire \cup {NoRec}]
      BY <1>0, <2>1, <3>1, <3>3 DEF RefireRead, TypeOK
    <3> QED BY <1>0, <2>1, <3>4 DEF RefireRead, TypeOK
  <2>2. CASE RefireSwap(n)
    <3>1. watch[n] # NoRec /\ watch[n].stage = "swap" /\ watch[n] \in Refire
      BY <1>0, <2>2 DEF RefireSwap, TypeOK
    <3>2. RefireWrite(watch[n]) \in Write BY <3>1, RefireWrites
    <3>3. [watch[n] EXCEPT !.stage = "read", !.current = NoRec, !.tries = @ + 1] \in Refire
      <4>1. PICK w \in Refire : w = watch[n] BY <3>1
      <4>2. PICK k \in Nat : k = w.tries + 1 BY DEF Refire
      <4>3. [w EXCEPT !.stage = "read", !.current = NoRec, !.tries = k] \in Refire
        BY DEF Refire, Observed
      <4> QED BY <4>1, <4>2, <4>3
    <3>4. watch' \in [Nodes -> Refire \cup {NoRec}]
      BY <1>0, <2>2, <3>3 DEF RefireSwap, TypeOK
    <3>5. Commit(RefireWrite(watch[n])) \/ UNCHANGED base BY <2>2 DEF RefireSwap
    <3>6. /\ store' \in [Ids -> Observed] /\ stamps' \in [Ids -> SUBSET Nat]
          /\ revived' \subseteq Ids
      BY <1>0, <3>2, <3>5, CommitType DEF TypeOK
    <3> QED BY <1>0, <2>2, <3>4, <3>6 DEF RefireSwap, TypeOK
  <2> QED BY <1>3, <2>1, <2>2 DEF WatchStep
<1>4. ASSUME NEW n \in Nodes, DrainStep(n) PROVE TypeOK'
  <2>0. scan[n] \in Scan BY <1>0 DEF TypeOK
  <2>1. CASE StartDrain(n)
    <3>1. [IdleScan EXCEPT !.stage = "listing", !.todo = {i \in Ids : store[i] # NoRec}] \in Scan
      BY DEF IdleScan, Scan, Nothing, Observed
    <3> QED BY <1>0, <2>1, <3>1, ScanType DEF StartDrain
  <2>2. CASE FixNow(n)
    <3> DEFINE due == {i \in Ids : Claimable(scan[n].seen[i], Now(n))}
               sc == [stage |-> "claiming", todo |-> due, now |-> Now(n),
                      seen |-> [i \in Ids |-> IF i \in due THEN scan[n].seen[i] ELSE NoRec]]
    <3>1. sc \in Scan BY <1>0, <2>0, NowType DEF Scan, Observed
    <3>2. scan' = [scan EXCEPT ![n] = sc] BY <1>0, <2>2 DEF FixNow, TypeOK
    <3> QED BY <1>0, <2>2, <3>1, <3>2, ScanType DEF FixNow
  <2>3. CASE GateFull(n) BY <1>0, <2>3, IdleType, ScanType DEF GateFull
  <2>4. CASE EndDrain(n) BY <1>0, <2>4, IdleType, ScanType DEF EndDrain
  <2>5. ASSUME NEW id \in Ids, ListOne(n, id) PROVE TypeOK'
    <3> DEFINE sc == [scan[n] EXCEPT !.todo = @ \ {id}, !.seen[id] = store[id]]
    <3>1. sc \in Scan BY <1>0, <2>0 DEF Scan, TypeOK
    <3>2. scan' = [scan EXCEPT ![n] = sc] BY <1>0, <2>5 DEF ListOne, TypeOK
    <3> QED BY <1>0, <2>5, <3>1, <3>2, ScanType DEF ListOne
  <2>7. ASSUME NEW id \in Ids, ClaimLost(n, id) PROVE TypeOK'
    BY <1>0, <2>7, PassedType DEF ClaimLost, TypeOK
  <2>8. ASSUME NEW id \in Ids, Claim(n, id) PROVE TypeOK'
    <3>1. PICK o \in Write : o = ClaimWrite(n, id) BY <2>8, ClaimWrites DEF Claim
    <3>2. PICK s \in FreeSlots(n) :
            run' = [run EXCEPT ![s] = [id |-> id, rec |-> o.new, out |-> NoRec]]
      BY <2>8, <3>1 DEF Claim
    <3>3. run' \in [Slots -> Claimed \cup {NoRec}]
      BY <1>0, <3>2 DEF TypeOK, Claimed, FreeSlots, Write, Observed
    <3>4. Commit(o) /\ Passed(n, id) BY <2>8, <3>1 DEF Claim
    <3> QED BY <1>0, <2>8, <3>3, <3>4, CommitType, PassedType DEF Claim, TypeOK
  <2> QED BY <1>4, <2>1, <2>2, <2>3, <2>4, <2>5, <2>7, <2>8 DEF DrainStep
<1>5. ASSUME NEW s \in Slots, SettleStep(s) PROVE TypeOK'
  <2>1. ASSUME NEW outcome, Finish(s, outcome) PROVE TypeOK'
    <3>1. run[s] \in Claimed BY <1>0, <2>1 DEF Finish, TypeOK
    <3>2. PICK out \in Invocation : out = Settled(run[s].rec, outcome)
      BY <3>1, SettledType DEF Claimed
    <3>3. [run[s] EXCEPT !.out = out] \in Claimed BY <3>1 DEF Claimed, Observed
    <3>4. run' = [run EXCEPT ![s] = [run[s] EXCEPT !.out = out]]
      BY <1>0, <2>1, <3>2 DEF Finish, TypeOK
    <3> QED BY <1>0, <2>1, <3>3, <3>4 DEF Finish, TypeOK
  <2>2. CASE SettleLost(s) BY <1>0, <2>2 DEF SettleLost, TypeOK
  <2>3. CASE SettleWins(s)
    <3>1. PICK o \in Write : Commit(o) BY <2>3, SettleWrites DEF SettleWins
    <3> QED BY <1>0, <2>3, <3>1, CommitType DEF SettleWins, TypeOK
  <2> QED BY <1>5, <2>1, <2>2, <2>3 DEF SettleStep
<1>6. CASE FaultStep
  <2>1. ASSUME NEW n \in Nodes, Crash(n) PROVE TypeOK'
    <3>1. scan' \in [Nodes -> Scan] BY <1>0, <2>1, IdleType DEF Crash, TypeOK
    <3>2. run' \in [Slots -> Claimed \cup {NoRec}] BY <1>0, <2>1 DEF Crash, TypeOK
    <3> QED BY <1>0, <2>1, <3>1, <3>2 DEF Crash, TypeOK
  <2>2. ASSUME NEW n \in Nodes, RefirePostFails(n) PROVE TypeOK'
    <3>1. PICK o \in Write : Unanswered(o) BY <2>2, RefireWrites DEF RefirePostFails
    <3> QED BY <1>0, <2>2, <3>1, LateType DEF RefirePostFails, TypeOK
  <2>3. ASSUME NEW n \in Nodes, NEW id \in Ids, ClaimPostFails(n, id) PROVE TypeOK'
    <3>1. PICK o \in Write : Unanswered(o) BY <2>3, ClaimWrites DEF ClaimPostFails
    <3>2. scan' \in [Nodes -> Scan] BY <1>0, <2>3, PassedType DEF ClaimPostFails, TypeOK
    <3> QED BY <1>0, <2>3, <3>1, <3>2, LateType DEF ClaimPostFails, TypeOK
  <2>4. ASSUME NEW id \in Ids, EnqueuePostFails(id) PROVE TypeOK'
    <3>1. PICK o \in Write : Unanswered(o) BY <2>4, PutWrites DEF EnqueuePostFails
    <3>2. enq' \in [Ids -> Observed] BY <1>0, <2>4 DEF EnqueuePostFails, TypeOK, Observed
    <3> QED BY <1>0, <2>4, <3>1, <3>2, LateType DEF EnqueuePostFails, TypeOK
  <2>5. ASSUME NEW s \in Slots, SettlePostFails(s) PROVE TypeOK'
    <3>1. PICK o \in Write : Unanswered(o) BY <2>5, SettleWrites DEF SettlePostFails
    <3> QED BY <1>0, <2>5, <3>1, LateType DEF SettlePostFails, TypeOK
  <2>6. ASSUME NEW o \in late, ApplyLate(o) PROVE TypeOK'
    <3>1. o \in Write BY <1>0 DEF TypeOK
    <3>2. Commit(o) \/ UNCHANGED base BY <2>6 DEF ApplyLate
    <3>3. /\ store' \in [Ids -> Observed] /\ stamps' \in [Ids -> SUBSET Nat]
          /\ revived' \subseteq Ids
      BY <1>0, <3>1, <3>2, CommitType DEF TypeOK
    <3> QED BY <1>0, <2>6, <3>3 DEF ApplyLate, TypeOK
  <2> QED BY <1>6, <2>1, <2>2, <2>3, <2>4, <2>5, <2>6 DEF FaultStep
<1>7. CASE Tick BY <1>0, <1>7 DEF Tick, TypeOK
<1> QED BY <1>1, <1>2, <1>3, <1>4, <1>5, <1>6, <1>7 DEF Next


-----------------------------------------------------------------------------
(* Drains, runs, watchers and calls. *)

\* A drain only ever learns of what it listed, and time only goes forward.
LEMMA ScanStep == TypeOK /\ ScanInv /\ [Next]_vars => ScanInv'
<1> SUFFICES ASSUME TypeOK, ScanInv, [Next]_vars PROVE ScanInv'
  OBVIOUS
<1> USE InvocationsAssumption DEF InvocationsAssumption
<1>0. clock \in Nat /\ scan \in [Nodes -> Scan] BY DEF TypeOK
<1>1. ASSUME UNCHANGED <<scan, clock>> PROVE ScanInv'
  BY <1>1 DEF ScanInv, Claimable
<1>2. ASSUME NEW n \in Nodes, NEW sc \in Scan, scan' = [scan EXCEPT ![n] = sc],
             UNCHANGED clock,
             sc.stage = "claiming" =>
                /\ sc.now <= clock + MaxSkew
                /\ \A id \in sc.todo : Claimable(sc.seen[id], sc.now)
      PROVE  ScanInv'
  BY <1>0, <1>2 DEF ScanInv, Claimable
<1>3. ASSUME NEW n \in Nodes, NEW id \in Ids, Passed(n, id), UNCHANGED clock,
             scan[n].stage = "claiming"
      PROVE  ScanInv'
  <2>0. scan[n] \in Scan BY <1>0
  <2> DEFINE sc == [scan[n] EXCEPT !.todo = @ \ {id}, !.seen[id] = NoRec]
  <2>1. sc \in Scan BY <2>0 DEF Scan, Observed
  <2>2. scan' = [scan EXCEPT ![n] = sc] BY <1>0, <1>3 DEF Passed
  <2>3. sc.now = scan[n].now /\ sc.todo = scan[n].todo \ {id} BY <2>0 DEF Scan
  <2>4. \A i \in sc.todo : sc.seen[i] = scan[n].seen[i] BY <2>0 DEF Scan
  <2>5. sc.now <= clock + MaxSkew /\ \A i \in sc.todo : Claimable(sc.seen[i], sc.now)
    BY <2>3, <2>4, <1>3 DEF ScanInv
  <2> HIDE DEF sc
  <2> QED BY <1>2, <1>3, <2>1, <2>2, <2>5
<1>4. ASSUME NEW n \in Nodes, DrainStep(n) PROVE ScanInv'
  <2>0. scan[n] \in Scan BY <1>0
  <2>1. CASE StartDrain(n)
    <3> DEFINE sc == [IdleScan EXCEPT !.stage = "listing", !.todo = {i \in Ids : store[i] # NoRec}]
    <3>1. sc \in Scan /\ sc.stage = "listing" BY DEF IdleScan, Scan, Nothing, Observed
    <3>2. scan' = [scan EXCEPT ![n] = sc] BY <2>1 DEF StartDrain
    <3> QED BY <2>1, <3>1, <3>2, <1>2 DEF StartDrain
  <2>2. CASE FixNow(n)
    <3> DEFINE due == {i \in Ids : Claimable(scan[n].seen[i], Now(n))}
               sc == [stage |-> "claiming", todo |-> due, now |-> Now(n),
                      seen |-> [i \in Ids |-> IF i \in due THEN scan[n].seen[i] ELSE NoRec]]
    <3>1. sc \in Scan BY <2>0, NowType DEF Scan, Observed
    <3>2. scan' = [scan EXCEPT ![n] = sc] BY <2>2, <1>0 DEF FixNow
    <3>3. sc.now <= clock + MaxSkew BY NowType
    <3>4. \A id \in sc.todo : Claimable(sc.seen[id], sc.now) BY <2>0 DEF Scan
    <3>5. UNCHANGED clock BY <2>2 DEF FixNow
    <3> HIDE DEF sc
    <3> QED BY <3>1, <3>2, <3>3, <3>4, <3>5, <1>2
  <2>3. CASE GateFull(n) \/ EndDrain(n)
    <3>1. IdleScan.stage = "idle" BY DEF IdleScan
    <3> QED BY <2>3, <3>1, IdleType, <1>2 DEF GateFull, EndDrain
  <2>5. ASSUME NEW id \in Ids, ListOne(n, id) PROVE ScanInv'
    <3> DEFINE sc == [scan[n] EXCEPT !.todo = @ \ {id}, !.seen[id] = store[id]]
    <3>1. sc \in Scan BY <2>0 DEF Scan, TypeOK
    <3>2. scan' = [scan EXCEPT ![n] = sc] BY <2>5, <1>0 DEF ListOne
    <3>3. sc.stage = "listing" BY <2>5, <2>0 DEF ListOne, Scan
    <3>4. UNCHANGED clock BY <2>5 DEF ListOne
    <3> HIDE DEF sc
    <3> QED BY <3>1, <3>2, <3>3, <3>4, <1>2
  <2>6. ASSUME NEW id \in Ids, Claim(n, id) \/ ClaimLost(n, id) PROVE ScanInv'
    BY <2>6, <1>3 DEF Claim, ClaimLost, Claiming
  <2> QED BY <1>4, <2>1, <2>2, <2>3, <2>5, <2>6 DEF DrainStep
<1>5. CASE FaultStep
  <2>1. ASSUME NEW n \in Nodes, Crash(n) PROVE ScanInv'
    <3>1. IdleScan.stage = "idle" BY DEF IdleScan
    <3> QED BY <2>1, <3>1, IdleType, <1>2 DEF Crash
  <2>2. ASSUME NEW n \in Nodes, NEW id \in Ids, ClaimPostFails(n, id) PROVE ScanInv'
    BY <2>2, <1>1, <1>3 DEF ClaimPostFails, Claiming
  <2> QED BY <1>5, <1>1, <2>1, <2>2
        DEF FaultStep, RefirePostFails, EnqueuePostFails, SettlePostFails, ApplyLate
<1>7. CASE Tick
  <2>1. \A n \in Nodes : scan[n].now \in Nat BY <1>0 DEF Scan
  <2> QED BY <1>7, <1>0, <2>1 DEF Tick, ScanInv, Claimable
<1>8. CASE UNCHANGED vars BY <1>8, <1>1 DEF vars
<1>9. CASE EnqueueStep
  BY <1>9, <1>1 DEF EnqueueStep, EnqueuePut, EnqueueCall, EnqueueScheduled, ObserveChange
<1>10. ASSUME NEW n \in Nodes, WatchStep(n) PROVE ScanInv'
  BY <1>10, <1>1 DEF WatchStep, RefireRead, RefireSwap
<1>11. ASSUME NEW s \in Slots, SettleStep(s) PROVE ScanInv'
  BY <1>11, <1>1 DEF SettleStep, Finish, SettleWins, SettleLost
<1> QED BY <1>4, <1>5, <1>7, <1>8, <1>9, <1>10, <1>11 DEF Next

LEMMA EnqStep == IInv /\ [Next]_vars => EnqInv'
<1> SUFFICES ASSUME IInv, [Next]_vars PROVE EnqInv'
  OBVIOUS
<1>0. TypeOK /\ enq \in [Ids -> Observed] BY DEF IInv, TypeOK
<1>1. ASSUME NEW id \in Ids, NEW r, r = NoRec \/ Fresh(r), enq' = [enq EXCEPT ![id] = r]
      PROVE  EnqInv'
  BY <1>0, <1>1 DEF IInv, EnqInv, Fresh
<1>2. CASE UNCHANGED enq BY <1>2 DEF IInv, EnqInv, Fresh
<1>3. CASE EnqueueStep
  <2>1. ASSUME NEW id \in Ids, NEW n \in Nodes, EnqueueCall(n, id) PROVE EnqInv'
    BY <1>0, <1>1, <2>1, EnqueuedType DEF EnqueueCall
  <2> QED BY <1>1, <1>2, <1>3, <2>1
        DEF EnqueueStep, EnqueuePut, EnqueueScheduled, ObserveChange
<1>4. CASE FaultStep
  BY <1>1, <1>2, <1>4
  DEF FaultStep, Crash, RefirePostFails, ClaimPostFails, EnqueuePostFails, SettlePostFails, ApplyLate
<1>5. ASSUME NEW n \in Nodes, DrainStep(n) \/ WatchStep(n) PROVE EnqInv'
  BY <1>2, <1>5
  DEF DrainStep, StartDrain, FixNow, GateFull, EndDrain, ListOne, Claim, ClaimLost, WatchStep,
      RefireRead, RefireSwap
<1>6. ASSUME NEW s \in Slots, SettleStep(s) PROVE EnqInv'
  BY <1>2, <1>6 DEF SettleStep, Finish, SettleWins, SettleLost
<1>7. CASE Tick \/ UNCHANGED vars BY <1>2, <1>7 DEF Tick, vars
<1> QED BY <1>3, <1>4, <1>5, <1>6, <1>7 DEF Next

LEMMA WatchStepInv == IInv /\ [Next]_vars => WatchInv'
<1> SUFFICES ASSUME IInv, [Next]_vars PROVE WatchInv'
  OBVIOUS
<1>0. TypeOK /\ watch \in [Nodes -> Refire \cup {NoRec}] /\ store \in [Ids -> Observed]
  BY DEF IInv, TypeOK
<1>1. ASSUME UNCHANGED <<kind, watch>> PROVE WatchInv'
  BY <1>1 DEF IInv, WatchInv, Terminal, Fresh
<1>2. ASSUME NEW n \in Nodes, NEW w, watch' = [watch EXCEPT ![n] = w], UNCHANGED kind,
             w # NoRec =>
                /\ kind[w.id] = "blob" /\ Fresh(w.rec)
                /\ w.stage = "swap" => w.current = NoRec \/ Terminal(w.current)
      PROVE  WatchInv'
  BY <1>0, <1>2 DEF IInv, WatchInv, Terminal, Fresh
<1>3. CASE EnqueueStep
  <2>1. ASSUME NEW n \in Nodes, NEW id \in Ids, ObserveChange(n, id) PROVE WatchInv'
    <3>0. PICK r : r = Enqueued(Now(n)) /\ Fresh(r) BY <1>0, EnqueuedType
    <3> DEFINE w == [stage |-> "read", id |-> id, tries |-> 0, current |-> NoRec, rec |-> r]
    <3>1. /\ watch' = [watch EXCEPT ![n] = w] /\ UNCHANGED kind
          /\ kind[id] = "blob"
      BY <2>1, <3>0 DEF ObserveChange
    <3>2. w.stage # "swap" /\ w.id = id /\ w.rec = r OBVIOUS
    <3> HIDE DEF w
    <3> QED BY <1>2, <3>0, <3>1, <3>2
  <2> QED BY <1>3, <1>1, <2>1 DEF EnqueueStep, EnqueuePut, EnqueueCall, EnqueueScheduled
<1>4. ASSUME NEW n \in Nodes, RefireRead(n) PROVE WatchInv'
  <2> DEFINE w == watch[n]
             coalesces == store[w.id] # NoRec /\ ~Terminal(store[w.id])
             next == IF coalesces \/ w.tries >= MaxTries THEN NoRec
                     ELSE [w EXCEPT !.stage = "swap", !.current = store[w.id]]
  <2>1. w \in Refire /\ w # NoRec /\ UNCHANGED kind BY <1>0, <1>4 DEF RefireRead
  <2>2. watch' = [watch EXCEPT ![n] = next] BY <1>4 DEF RefireRead
  <2>3. next # NoRec =>
          next.current = store[w.id] /\ ~coalesces /\ next.id = w.id /\ next.rec = w.rec
    BY <2>1 DEF Refire
  <2>4. kind[w.id] = "blob" /\ Fresh(w.rec) BY <2>1 DEF IInv, WatchInv
  <2> HIDE DEF next
  <2> QED BY <1>2, <2>1, <2>2, <2>3, <2>4
<1>5. ASSUME NEW n \in Nodes, RefireSwap(n) PROVE WatchInv'
  <2>0. PICK v \in Refire : v = watch[n] BY <1>0, <1>5 DEF RefireSwap
  <2> DEFINE w == [v EXCEPT !.stage = "read", !.current = NoRec, !.tries = @ + 1]
  <2>1. w.stage # "swap" /\ w.id = v.id /\ w.rec = v.rec BY DEF Refire
  <2>2. /\ watch' = [watch EXCEPT ![n] = NoRec] \/ watch' = [watch EXCEPT ![n] = w]
        /\ UNCHANGED kind
    BY <1>5, <2>0 DEF RefireSwap
  <2>3. kind[v.id] = "blob" /\ Fresh(v.rec) BY <1>5, <2>0 DEF RefireSwap, IInv, WatchInv
  <2> HIDE DEF w
  <2> QED BY <1>2, <2>1, <2>2, <2>3
<1>6. CASE FaultStep
  BY <1>1, <1>2, <1>6
  DEF FaultStep, Crash, RefirePostFails, ClaimPostFails, EnqueuePostFails, SettlePostFails, ApplyLate
<1>7. ASSUME NEW n \in Nodes, DrainStep(n) PROVE WatchInv'
  BY <1>1, <1>7 DEF DrainStep, StartDrain, FixNow, GateFull, EndDrain, ListOne, Claim, ClaimLost
<1>8. ASSUME NEW s \in Slots, SettleStep(s) PROVE WatchInv'
  BY <1>1, <1>8 DEF SettleStep, Finish, SettleWins, SettleLost
<1>10. CASE Tick \/ UNCHANGED vars BY <1>1, <1>10 DEF Tick, vars
<1> QED BY <1>3, <1>4, <1>5, <1>6, <1>7, <1>8, <1>10 DEF Next, WatchStep

LEMMA RunStep == IInv /\ [Next]_vars => RunInv'
<1> SUFFICES ASSUME IInv, [Next]_vars PROVE RunInv'
  OBVIOUS
<1>0. TypeOK /\ RunInv /\ run \in [Slots -> Claimed \cup {NoRec}] BY DEF IInv, TypeOK
<1>1. ASSUME \A s \in Slots : run'[s] # NoRec => run'[s] = run[s] PROVE RunInv'
  BY <1>0, <1>1 DEF RunInv
<1>2. ASSUME NEW s \in Slots, NEW r \in Claimed, run' = [run EXCEPT ![s] = r],
             r.rec.status = "Running" /\ r.rec.attempts > 0,
             r.out # NoRec => r.out.created = r.rec.created /\ r.out.attempts = r.rec.attempts
      PROVE  RunInv'
  BY <1>0, <1>2 DEF RunInv
<1>3. ASSUME NEW n \in Nodes, NEW id \in Ids, Claim(n, id) PROVE RunInv'
  <2>1. PICK seen \in Invocation, now \in Nat : seen = scan[n].seen[id] /\ now = scan[n].now
    BY <1>3, SeenType DEF Claim, IInv
  <2>2. PICK c \in Invocation :
          /\ c = ClaimedFrom(seen, now) /\ c.status = "Running"
          /\ c.attempts = seen.attempts + 1
    BY ClaimedType
  <2>3. ClaimWrite(n, id).new = c BY <2>1, <2>2 DEF ClaimWrite, SwapOf
  <2>4. PICK s \in FreeSlots(n) :
          run' = [run EXCEPT ![s] = [id |-> id, rec |-> c, out |-> NoRec]]
    BY <1>3, <2>3 DEF Claim
  <2>5. [id |-> id, rec |-> c, out |-> NoRec] \in Claimed BY DEF Claimed, Observed
  <2>6. c.attempts > 0 /\ s \in Slots BY <2>2, <2>4 DEF Invocation, FreeSlots
  <2> QED BY <1>2, <2>2, <2>4, <2>5, <2>6
<1>4. ASSUME NEW s \in Slots, NEW outcome, Finish(s, outcome) PROVE RunInv'
  <2>1. PICK r \in Claimed : r = run[s] BY <1>0, <1>4 DEF Finish
  <2>2. PICK out \in Invocation :
          /\ out = Settled(r.rec, outcome)
          /\ out.created = r.rec.created /\ out.attempts = r.rec.attempts
    BY <2>1, SettledType DEF Claimed
  <2>3. PICK q \in Claimed : q = [r EXCEPT !.out = out] BY DEF Claimed, Observed
  <2>4. run' = [run EXCEPT ![s] = q] BY <1>0, <1>4, <2>1, <2>2, <2>3 DEF Finish
  <2>5. q.rec = r.rec /\ q.out = out BY <2>3 DEF Claimed
  <2>6. r.rec.status = "Running" /\ r.rec.attempts > 0 BY <1>0, <1>4, <2>1 DEF RunInv, Finish
  <2> QED BY <1>2, <2>2, <2>4, <2>5, <2>6
<1>5. CASE FaultStep
  BY <1>0, <1>1, <1>5
  DEF FaultStep, Crash, RefirePostFails, ClaimPostFails, EnqueuePostFails, SettlePostFails, ApplyLate
<1>6. ASSUME NEW s \in Slots, SettleWins(s) \/ SettleLost(s) PROVE RunInv'
  BY <1>0, <1>1, <1>6 DEF SettleWins, SettleLost
<1>7. ASSUME NEW n \in Nodes, DrainStep(n) \/ WatchStep(n) PROVE RunInv'
  BY <1>1, <1>3, <1>7
  DEF DrainStep, StartDrain, FixNow, GateFull, EndDrain, ListOne, ClaimLost, WatchStep,
      RefireRead, RefireSwap
<1>8. CASE EnqueueStep
  BY <1>1, <1>8 DEF EnqueueStep, EnqueuePut, EnqueueCall, EnqueueScheduled, ObserveChange
<1>9. CASE Tick \/ UNCHANGED vars BY <1>1, <1>9 DEF Tick, vars
<1> QED BY <1>4, <1>5, <1>6, <1>7, <1>8, <1>9 DEF Next, SettleStep


-----------------------------------------------------------------------------
(* Leases. *)

\* What a write of the right shape does to the lives of its id.
LEMMA Grows ==
    ASSUME IInv, NEW o \in Write, Shape(o), Matches(o), Commit(o)
    PROVE  /\ revived \subseteq revived' /\ StoreInv'
           /\ \A id \in Ids : \A rec \in Invocation :
                 id \notin revived' /\ Charged(id, rec) => Charged(id, rec)'
<1>0. /\ store \in [Ids -> Observed] /\ stamps \in [Ids -> SUBSET Nat] /\ StoreInv
      /\ NoRec \notin Invocation
  BY InvocationsAssumption DEF InvocationsAssumption, IInv, TypeOK, Held
<1>1. /\ o.id \in Ids /\ o.new \in Invocation /\ o.expected \in Observed
      /\ o.new # NoRec /\ o.new.attempts \in Nat /\ o.new.created \in Nat
  BY <1>0 DEF Write, Invocation
<1>2. revived \subseteq revived' BY DEF Commit
<1>3. store'[o.id] = o.new /\ \A i \in Ids \ {o.id} : store'[i] = store[i] /\ stamps'[i] = stamps[i]
  BY <1>0, <1>1 DEF Commit
<1>4. stamps[o.id] \subseteq stamps'[o.id] BY <1>0, <1>1 DEF Commit
<1>5. CASE o.new.attempts = 0
  <2>1. o.new.created \in stamps'[o.id] BY <1>0, <1>1, <1>5 DEF Commit
  <2>2. o.id \notin revived' => o.new.created \notin stamps[o.id] BY <1>5 DEF Commit
  <2>3. StoreInv' BY <1>0, <1>3, <2>1 DEF StoreInv
  <2>4. ASSUME NEW id \in Ids, NEW rec \in Invocation, id \notin revived', Charged(id, rec)
        PROVE  Charged(id, rec)'
    BY <1>3, <1>4, <2>2, <2>4 DEF Charged
  <2> QED BY <1>2, <2>3, <2>4
<1>6. CASE o.new.attempts # 0
  <2>1. ClaimShape(o) \/ SettleShape(o)
    BY <1>6 DEF Shape, PutShape, RefireShape, Fresh
  <2>2. o.op = "swap" /\ o.expected # NoRec /\ o.new.created = o.expected.created
    BY <2>1 DEF ClaimShape, SettleShape, Claimable
  <2>3. PICK e \in Invocation : e = o.expected /\ e = store[o.id]
    BY <1>1, <2>2 DEF Matches, Observed
  <2>4. e.attempts \in Nat /\ e.attempts <= o.new.attempts
    BY <1>1, <2>1, <2>3 DEF ClaimShape, SettleShape, Invocation
  <2>5. StoreInv'
    BY <1>0, <1>1, <1>3, <1>4, <2>2, <2>3 DEF StoreInv
  <2>6. ASSUME NEW id \in Ids, NEW rec \in Invocation, id \notin revived', Charged(id, rec)
        PROVE  Charged(id, rec)'
    <3>1. rec.attempts \in Nat BY DEF Invocation
    <3>2. CASE id # o.id BY <1>3, <2>6, <3>2 DEF Charged
    <3>3. CASE id = o.id
      <4>1. e # NoRec BY <1>0, <2>3
      <4>2. rec.created = e.created => rec.attempts <= e.attempts
        BY <2>3, <2>6, <3>3, <4>1 DEF Charged
      <4>3. rec.created = o.new.created => rec.attempts <= o.new.attempts
        <5>1. rec.created = o.new.created => rec.created = e.created BY <2>2, <2>3
        <5>2. PICK a \in Nat, b \in Nat, c \in Nat :
                a = rec.attempts /\ b = e.attempts /\ c = o.new.attempts
          BY <1>1, <2>4, <3>1
        <5>3. b <= c BY <2>4, <5>2
        <5>4. rec.created = e.created => a <= b BY <4>2, <5>2
        <5>5. a <= b => a <= c BY <5>3
        <5> QED BY <5>1, <5>2, <5>4, <5>5
      <4> QED BY <1>3, <1>4, <2>6, <3>3, <4>3 DEF Charged
    <3> QED BY <3>2, <3>3
  <2> QED BY <1>2, <2>5, <2>6
<1> QED BY <1>5, <1>6

\* No run is live of an invocation whose record a write may replace, unless the
\* write is the repeated put of a call.
LEMMA NoneLive ==
    ASSUME IInv, NEW o \in Write, Shape(o), Matches(o), Commit(o), o.id \notin revived'
    PROVE  \A t \in Slots : Live(t) => run[t].id # o.id
<1> SUFFICES ASSUME NEW t \in Slots, Live(t), run[t].id = o.id PROVE FALSE
  OBVIOUS
<1> USE InvocationsAssumption DEF InvocationsAssumption
<1>0. o.id \notin revived BY DEF Commit
<1>1. PICK rec \in Invocation : rec = run[t].rec BY DEF Live, IInv, TypeOK, Claimed
<1>2. store[o.id] = rec BY <1>0, <1>1 DEF IInv, Held, LeaseHolds
<1>3. rec.status = "Running" /\ rec.lease > clock + MaxSkew
  BY <1>1 DEF Live, IInv, RunInv
<1>4. rec # NoRec /\ ~Terminal(rec) /\ rec.lease \in Nat /\ clock \in Nat
  BY <1>3 DEF Terminal, Invocation, IInv, TypeOK
<1>5. CASE PutShape(o) BY <1>2, <1>4, <1>5 DEF PutShape, Commit
<1>6. CASE RefireShape(o) BY <1>2, <1>4, <1>6 DEF RefireShape, Matches
<1>7. CASE ClaimShape(o)
  BY <1>2, <1>3, <1>4, <1>7 DEF ClaimShape, Matches, Claimable
<1>8. CASE SettleShape(o)
  BY <1>0, <1>1, <1>2, <1>8 DEF SettleShape, Matches, Over, Live
<1> QED BY <1>5, <1>6, <1>7, <1>8 DEF Shape

\* A write that waits keeps its shape.
LEMMA ShapeKept ==
    ASSUME IInv, TypeOK', NEW o \in Write, Shape(o), UNCHANGED kind, clock' >= clock,
           revived \subseteq revived',
           \A id \in Ids : \A rec \in Invocation :
              id \notin revived' /\ Charged(id, rec) => Charged(id, rec)',
           SettleShape(o) /\ o.id \notin revived' => Over(o)'
    PROVE  Shape(o)'
<1> USE InvocationsAssumption DEF InvocationsAssumption
<1>1. CASE PutShape(o) BY <1>1 DEF PutShape, Shape, Fresh
<1>2. CASE RefireShape(o) BY <1>2 DEF RefireShape, Shape, Fresh, Terminal
<1>3. CASE ClaimShape(o)
  <2>1. o.expected # NoRec /\ o.expected \in Invocation
    BY <1>3 DEF ClaimShape, Claimable, Write, Observed
  <2>2. o.expected.lease \in Nat /\ clock \in Nat /\ clock' \in Nat
    BY <2>1 DEF Invocation, IInv, TypeOK
  <2>3. Claimable(o.expected, clock' + MaxSkew)
    BY <1>3, <2>2 DEF ClaimShape, Claimable
  <2> QED BY <1>3, <2>3 DEF ClaimShape, Shape
<1>4. CASE SettleShape(o)
  <2>1. o.id \in Ids /\ o.expected \in Invocation BY <1>4 DEF SettleShape, Write, Observed
  <2>2. o.id \notin revived' => Charged(o.id, o.expected)' /\ Over(o)'
    BY <1>4, <2>1 DEF SettleShape
  <2> QED BY <1>4, <2>2 DEF SettleShape, Shape
<1> QED BY <1>1, <1>2, <1>3, <1>4 DEF Shape

\* What holds after a step that starts no run, given what it may do to the runs
\* and the records.
LEMMA Kept ==
    ASSUME IInv, TypeOK', UNCHANGED kind, clock' >= clock, StoreInv',
           revived \subseteq revived',
           \A id \in Ids : \A rec \in Invocation :
              id \notin revived' /\ Charged(id, rec) => Charged(id, rec)',
           \A s \in Slots : run'[s] # NoRec =>
              /\ run[s] # NoRec /\ run'[s].id = run[s].id /\ run'[s].rec = run[s].rec
              /\ run[s].out # NoRec => run'[s].out # NoRec,
           \A s \in Slots : Live(s) /\ run[s].id \notin revived' =>
              store'[run[s].id] = store[run[s].id],
           \A o \in late' : Shape(o)
    PROVE  Held'
<1> USE InvocationsAssumption DEF InvocationsAssumption
<1>1. LateInv'
  <2> SUFFICES ASSUME NEW o \in late' PROVE Shape(o)'
    BY DEF LateInv
  <2>1. o \in Write /\ Shape(o) BY DEF TypeOK
  <2>2. SettleShape(o) /\ o.id \notin revived' => Over(o)' BY DEF SettleShape, Over
  <2> QED BY <2>1, <2>2, ShapeKept
<1>2. LifeInv'
  <2> SUFFICES ASSUME NEW s \in Slots, run'[s] # NoRec, run'[s].id \notin revived'
               PROVE  Charged(run[s].id, run[s].rec)' /\ Own(s)'
    BY DEF LifeInv
  <2>1. PICK id \in Ids, rec \in Invocation : id = run[s].id /\ rec = run[s].rec
    BY DEF IInv, TypeOK, Claimed
  <2>2. id = run'[s].id /\ rec = run'[s].rec BY <2>1
  <2>3. Charged(id, rec) /\ Own(s) BY <2>1, <2>2 DEF IInv, Held, LifeInv
  <2>4. Charged(id, rec)' BY <2>2, <2>3
  <2>5. Own(s)' BY <2>3 DEF Own
  <2> QED BY <2>2, <2>4, <2>5
<1>3. LeaseHolds'
  <2> SUFFICES ASSUME NEW s \in Slots, Live(s)', run'[s].id \notin revived'
               PROVE  store'[run'[s].id] = run'[s].rec
    BY DEF LeaseHolds
  <2>1. run'[s] # NoRec /\ run'[s].out = NoRec /\ run'[s].rec.lease > clock' + MaxSkew
    BY DEF Live
  <2>2. run[s] # NoRec /\ run'[s].id = run[s].id /\ run'[s].rec = run[s].rec /\ run[s].out = NoRec
    BY <2>1
  <2>3. run[s].rec.lease \in Nat /\ clock \in Nat /\ clock' \in Nat
    BY <2>2 DEF IInv, TypeOK, Claimed, Invocation
  <2>4. Live(s) BY <2>1, <2>2, <2>3 DEF Live
  <2> QED BY <2>2, <2>4 DEF IInv, Held, LeaseHolds
<1> QED BY <1>1, <1>2, <1>3 DEF Held


\* The same after a claim: the record it writes is one that no run and no waiting
\* settle has seen.
LEMMA Taken ==
    ASSUME IInv, TypeOK', NEW n \in Nodes, NEW id \in Ids, Claim(n, id)
    PROVE  Held'
<1> USE InvocationsAssumption DEF InvocationsAssumption
<1>1. PICK o \in Write : o = ClaimWrite(n, id) /\ ClaimShape(o)
  BY ClaimWrites DEF Claim
<1>2. Shape(o) /\ Matches(o) /\ Commit(o) /\ o.id = id
  BY <1>1 DEF Claim, Shape, ClaimWrite, SwapOf
<1>3. /\ revived \subseteq revived' /\ StoreInv'
      /\ \A i \in Ids : \A rec \in Invocation :
            i \notin revived' /\ Charged(i, rec) => Charged(i, rec)'
  BY <1>2, Grows
<1>4. PICK c \in Invocation : c = o.new BY DEF Write
<1>5. PICK e \in Invocation : e = store[id] /\ c.created = e.created /\ c.attempts = e.attempts + 1
  BY <1>1, <1>2, <1>4 DEF ClaimShape, Claimable, Matches, Write, Observed
<1>6. e # NoRec /\ c # NoRec /\ e.attempts \in Nat /\ c.attempts \in Nat BY DEF Invocation
<1>7. ASSUME NEW rec \in Invocation, Charged(id, rec) PROVE rec # c
  <2>1. SUFFICES ASSUME rec = c PROVE FALSE OBVIOUS
  <2>2. c.attempts <= e.attempts BY <1>5, <1>6, <1>7, <2>1 DEF Charged
  <2> QED BY <1>5, <1>6, <2>2
<1>8. PICK s \in FreeSlots(n) : run' = [run EXCEPT ![s] = [id |-> id, rec |-> c, out |-> NoRec]]
  BY <1>1, <1>4 DEF Claim
<1>9. s \in Slots /\ run[s] = NoRec BY <1>8 DEF FreeSlots
<1>10. /\ run'[s] = [id |-> id, rec |-> c, out |-> NoRec]
       /\ \A t \in Slots \ {s} : run'[t] = run[t]
  BY <1>8, <1>9 DEF IInv, TypeOK
<1>11. /\ store'[id] = c /\ \A i \in Ids \ {id} : store'[i] = store[i]
       /\ UNCHANGED <<kind, late, clock>> /\ clock \in Nat
  BY <1>2, <1>4 DEF Claim, Commit, IInv, TypeOK, posts
<1>12. Charged(id, c)'
  <2>1. c.created \in stamps'[id] BY <1>3, <1>6, <1>11 DEF StoreInv
  <2> QED BY <1>6, <1>11, <2>1 DEF Charged
<1>13. LateInv'
  <2> SUFFICES ASSUME NEW p \in late PROVE Shape(p)'
    BY <1>11 DEF LateInv
  <2>1. p \in Write /\ Shape(p) BY DEF IInv, TypeOK, Held, LateInv
  <2>2. ASSUME SettleShape(p), p.id \notin revived' PROVE Over(p)'
    <3>1. Charged(p.id, p.expected) /\ Over(p) /\ p.expected \in Invocation
      BY <1>3, <2>1, <2>2 DEF SettleShape, Write, Observed
    <3>2. p.id = id => p.expected # c BY <1>7, <3>1
    <3> QED BY <1>10, <3>1, <3>2 DEF Over
  <2> QED BY <1>3, <1>11, <2>1, <2>2, ShapeKept
<1>14. ASSUME NEW t \in Slots, t # s, run[t] # NoRec, run[t].id \notin revived'
       PROVE  /\ Charged(run[t].id, run[t].rec)' /\ Own(t)
              /\ run[t].id = id => run[t].rec # c
  <2>1. PICK i \in Ids, rec \in Invocation : i = run[t].id /\ rec = run[t].rec
    BY <1>14 DEF IInv, TypeOK, Claimed
  <2>2. Charged(i, rec) /\ Own(t) BY <1>3, <1>14, <2>1 DEF IInv, Held, LifeInv
  <2>3. Charged(i, rec)' BY <1>3, <1>14, <2>1, <2>2
  <2>4. i = id => rec # c BY <1>7, <2>2
  <2>5. i = run'[t].id /\ rec = run'[t].rec BY <1>10, <1>14, <2>1
  <2> QED BY <2>1, <2>2, <2>3, <2>4, <2>5
<1>15. LifeInv'
  <2> SUFFICES ASSUME NEW t \in Slots, run'[t] # NoRec, run'[t].id \notin revived'
               PROVE  Charged(run[t].id, run[t].rec)' /\ Own(t)'
    BY DEF LifeInv
  <2>1. CASE t = s
    <3>1. run'[t].id = id /\ run'[t].rec = c BY <1>10, <2>1
    <3>2. Own(t)'
      <4> SUFFICES ASSUME NEW u \in Slots, run'[u] # NoRec, run'[u].id = id, run'[u].rec = c
                   PROVE  u = t
        BY <3>1 DEF Own
      <4> QED BY <1>10, <1>14, <2>1, <3>1
    <3> QED BY <1>12, <3>1, <3>2
  <2>2. CASE t # s
    <3>1. run'[t] = run[t] BY <1>10, <2>2
    <3>2. /\ Charged(run[t].id, run[t].rec)' /\ Own(t)
          /\ run[t].id = id => run[t].rec # c
      BY <1>14, <2>2, <3>1
    <3>3. Own(t)'
      <4> SUFFICES ASSUME NEW u \in Slots, run'[u] # NoRec, run'[u].id = run'[t].id,
                          run'[u].rec = run'[t].rec
                   PROVE  u = t
        BY DEF Own
      <4>1. u # s BY <1>10, <3>1, <3>2
      <4> QED BY <1>10, <3>1, <3>2, <4>1 DEF Own
    <3> QED BY <3>2, <3>3
  <2> QED BY <2>1, <2>2
<1>16. LeaseHolds'
  <2> SUFFICES ASSUME NEW t \in Slots, Live(t)', run'[t].id \notin revived'
               PROVE  store'[run'[t].id] = run'[t].rec
    BY DEF LeaseHolds
  <2>1. CASE t = s BY <1>10, <1>11, <2>1
  <2>2. CASE t # s
    <3>1. run'[t] = run[t] /\ Live(t) BY <1>10, <1>11, <2>2 DEF Live
    <3>2. run[t].id \in Ids /\ run[t].id # id
      BY <1>2, <3>1, NoneLive DEF Live, IInv, TypeOK, Claimed
    <3> QED BY <1>3, <1>11, <3>1, <3>2 DEF IInv, Held, LeaseHolds
  <2> QED BY <2>1, <2>2
<1> QED BY <1>3, <1>13, <1>15, <1>16 DEF Held

LEMMA HeldStep == IInv /\ TypeOK' /\ [Next]_vars => Held'
<1> SUFFICES ASSUME IInv, TypeOK', [Next]_vars PROVE Held'
  OBVIOUS
<1> USE DEF hist, posts
<1>0. /\ run \in [Slots -> Claimed \cup {NoRec}] /\ clock \in Nat /\ clock <= clock
      /\ store \in [Ids -> Observed]
      /\ StoreInv /\ \A o \in late : Shape(o)
  BY DEF IInv, TypeOK, Held, LateInv
\* A run goes on, finishes or ends.
<1> DEFINE GoesOn == \A s \in Slots : run'[s] # NoRec =>
              /\ run[s] # NoRec /\ run'[s].id = run[s].id /\ run'[s].rec = run[s].rec
              /\ run[s].out # NoRec => run'[s].out # NoRec
<1>1. ASSUME UNCHANGED run PROVE GoesOn BY <1>1
<1>2. ASSUME NEW s \in Slots, run' = [run EXCEPT ![s] = NoRec] PROVE GoesOn BY <1>0, <1>2
<1>3. ASSUME UNCHANGED <<kind, base>>, GoesOn, clock' >= clock, \A o \in late' : Shape(o)
      PROVE  Held'
  <2>1. UNCHANGED <<store, stamps, revived>> BY <1>3 DEF base
  <2>2. StoreInv' BY <1>0, <2>1 DEF StoreInv
  <2>3. \A id \in Ids : \A rec \in Invocation :
           id \notin revived' /\ Charged(id, rec) => Charged(id, rec)'
    BY <2>1 DEF Charged
  <2> QED BY <1>3, <2>1, <2>2, <2>3, Kept
<1>4. ASSUME NEW o \in Write, Shape(o), Matches(o), Commit(o), GoesOn,
             UNCHANGED <<kind, clock>>, late' \subseteq late
      PROVE  Held'
  <2>1. /\ revived \subseteq revived' /\ StoreInv'
        /\ \A id \in Ids : \A rec \in Invocation :
              id \notin revived' /\ Charged(id, rec) => Charged(id, rec)'
    BY <1>4, Grows
  <2>2. ASSUME NEW s \in Slots, Live(s), run[s].id \notin revived'
        PROVE  store'[run[s].id] = store[run[s].id]
    <3>1. run[s].id # o.id BY <1>4, <2>2, NoneLive
    <3>2. run[s].id \in Ids BY <1>0, <2>2 DEF Live, Claimed
    <3> QED BY <1>0, <1>4, <3>1, <3>2 DEF Commit
  <2>3. \A p \in late' : Shape(p) BY <1>0, <1>4
  <2>4. clock' >= clock BY <1>0, <1>4
  <2> QED BY <1>4, <2>1, <2>2, <2>3, <2>4, Kept
<1>5. ASSUME NEW o \in Write, Shape(o), Unanswered(o), GoesOn, UNCHANGED <<kind, base, clock>>
      PROVE  Held'
  <2>1. \A p \in late' : Shape(p) BY <1>0, <1>5 DEF Unanswered
  <2>2. clock' >= clock BY <1>0, <1>5
  <2> QED BY <1>3, <1>5, <2>1, <2>2
<1> HIDE DEF GoesOn
<1>6. CASE EnqueueStep
  <2>1. ASSUME NEW id \in Ids, EnqueuePut(id) PROVE Held'
    <3>1. PICK o \in Write : o = PutOf(id, enq[id]) /\ Shape(o)
      BY <2>1, PutWrites DEF EnqueuePut, Shape
    <3>2. Commit(o) /\ Matches(o) /\ UNCHANGED <<kind, run, clock, late>>
      BY <2>1, <3>1 DEF EnqueuePut, Matches, PutOf
    <3> QED BY <1>1, <1>4, <3>1, <3>2
  <2>2. ASSUME NEW id \in Ids, NEW n \in Nodes, EnqueueScheduled(n, id) PROVE Held'
    <3>1. PICK o \in Write : o = SwapOf(id, NoRec, Enqueued(Now(n))) /\ Shape(o)
      BY ScheduledWrites DEF Shape, IInv
    <3>2. Commit(o) /\ Matches(o) /\ UNCHANGED <<kind, run, clock, late>>
      BY <2>2, <3>1 DEF EnqueueScheduled
    <3> QED BY <1>1, <1>4, <3>1, <3>2
  <2>3. ASSUME NEW id \in Ids, NEW n \in Nodes, EnqueueCall(n, id) \/ ObserveChange(n, id)
        PROVE  Held'
    BY <1>0, <1>1, <1>3, <2>3 DEF EnqueueCall, ObserveChange
  <2> QED BY <1>6, <2>1, <2>2, <2>3 DEF EnqueueStep
<1>7. ASSUME NEW n \in Nodes, WatchStep(n) PROVE Held'
  <2>1. CASE RefireRead(n) BY <1>0, <1>1, <1>3, <2>1 DEF RefireRead
  <2>2. CASE RefireSwap(n)
    <3>1. PICK o \in Write : o = RefireWrite(watch[n]) /\ Shape(o)
      BY <2>2, RefireWrites DEF RefireSwap, Shape
    <3>2. UNCHANGED <<kind, run, clock, late>> BY <2>2 DEF RefireSwap
    <3>3. (Commit(o) /\ Matches(o)) \/ UNCHANGED base BY <2>2, <3>1 DEF RefireSwap
    <3> QED BY <1>0, <1>1, <1>3, <1>4, <3>1, <3>2, <3>3
  <2> QED BY <1>7, <2>1, <2>2 DEF WatchStep
<1>8. ASSUME NEW n \in Nodes, DrainStep(n) PROVE Held'
  <2>1. ASSUME NEW id \in Ids, Claim(n, id) PROVE Held' BY <2>1, Taken
  <2>2. ASSUME NEW id \in Ids, ListOne(n, id) \/ ClaimLost(n, id) PROVE Held'
    BY <1>0, <1>1, <1>3, <2>2 DEF ListOne, ClaimLost
  <2>3. CASE StartDrain(n) \/ FixNow(n) \/ GateFull(n) \/ EndDrain(n)
    BY <1>0, <1>1, <1>3, <2>3 DEF StartDrain, FixNow, GateFull, EndDrain
  <2> QED BY <1>8, <2>1, <2>2, <2>3 DEF DrainStep
<1>9. ASSUME NEW s \in Slots, SettleStep(s) PROVE Held'
  <2>1. ASSUME NEW outcome, Finish(s, outcome) PROVE Held'
    <3>1. PICK r \in Claimed : r = run[s] /\ r # NoRec /\ r.out = NoRec
      BY <1>0, <2>1 DEF Finish
    <3>2. PICK out : out = Settled(run[s].rec, outcome) OBVIOUS
    <3>3. run' = [run EXCEPT ![s] = [r EXCEPT !.out = out]] BY <1>0, <2>1, <3>1, <3>2 DEF Finish
    <3>4. GoesOn BY <1>0, <3>1, <3>3 DEF GoesOn, Claimed
    <3> QED BY <1>0, <1>3, <2>1, <3>4 DEF Finish
  <2>2. CASE SettleWins(s)
    <3>1. PICK o \in Write : o = SettleWrite(run[s]) /\ Shape(o)
      BY <2>2, SettleWrites DEF SettleWins, Shape
    <3>2. Commit(o) /\ Matches(o) /\ UNCHANGED <<kind, clock, late>> /\ GoesOn
      BY <1>2, <2>2, <3>1 DEF SettleWins
    <3> QED BY <1>4, <3>1, <3>2
  <2>3. CASE SettleLost(s) BY <1>0, <1>2, <1>3, <2>3 DEF SettleLost
  <2> QED BY <1>9, <2>1, <2>2, <2>3 DEF SettleStep
<1>10. CASE FaultStep
  <2>1. ASSUME NEW n \in Nodes, Crash(n) PROVE Held'
    <3>1. GoesOn BY <1>0, <2>1 DEF Crash, GoesOn
    <3> QED BY <1>0, <1>3, <2>1, <3>1 DEF Crash
  <2>2. ASSUME NEW n \in Nodes, RefirePostFails(n) PROVE Held'
    <3>1. PICK o \in Write : Unanswered(o) /\ Shape(o)
      BY <2>2, RefireWrites DEF RefirePostFails, Shape
    <3> QED BY <1>1, <1>5, <2>2, <3>1 DEF RefirePostFails
  <2>3. ASSUME NEW n \in Nodes, NEW id \in Ids, ClaimPostFails(n, id) PROVE Held'
    <3>1. PICK o \in Write : Unanswered(o) /\ Shape(o)
      BY <2>3, ClaimWrites DEF ClaimPostFails, Shape
    <3> QED BY <1>1, <1>5, <2>3, <3>1 DEF ClaimPostFails
  <2>4. ASSUME NEW id \in Ids, EnqueuePostFails(id) PROVE Held'
    <3>1. PICK o \in Write : Unanswered(o) /\ Shape(o)
      BY <2>4, PutWrites DEF EnqueuePostFails, Shape
    <3> QED BY <1>1, <1>5, <2>4, <3>1 DEF EnqueuePostFails
  <2>5. ASSUME NEW s \in Slots, SettlePostFails(s) PROVE Held'
    <3>1. PICK o \in Write : Unanswered(o) /\ Shape(o)
      BY <2>5, SettleWrites DEF SettlePostFails, Shape
    <3> QED BY <1>1, <1>2, <1>5, <2>5, <3>1 DEF SettlePostFails
  <2>6. ASSUME NEW o \in late, ApplyLate(o) PROVE Held'
    <3>1. o \in Write /\ Shape(o) BY <1>0 DEF IInv, TypeOK
    <3>2. UNCHANGED <<kind, run, clock>> /\ late' \subseteq late BY <2>6 DEF ApplyLate
    <3>3. (Commit(o) /\ Matches(o)) \/ UNCHANGED base BY <2>6 DEF ApplyLate
    <3> QED BY <1>0, <1>1, <1>3, <1>4, <3>1, <3>2, <3>3
  <2> QED BY <1>10, <2>1, <2>2, <2>3, <2>4, <2>5, <2>6 DEF FaultStep
<1>11. CASE Tick BY <1>0, <1>1, <1>3, <1>11 DEF Tick
<1>12. CASE UNCHANGED vars BY <1>0, <1>1, <1>3, <1>12 DEF vars
<1> QED BY <1>6, <1>7, <1>8, <1>9, <1>10, <1>11, <1>12 DEF Next

LEMMA InitInv == Init => IInv
<1> SUFFICES ASSUME Init PROVE IInv
  OBVIOUS
<1>1. TypeOK BY InitType
<1>2. ScanInv BY DEF Init, ScanInv, IdleScan
<1>3. RunInv /\ LifeInv /\ LeaseHolds BY DEF Init, RunInv, LifeInv, LeaseHolds, Live
<1>4. WatchInv /\ EnqInv /\ StoreInv /\ LateInv
  BY DEF Init, WatchInv, EnqInv, StoreInv, LateInv, Nothing
<1> QED BY <1>1, <1>2, <1>3, <1>4 DEF IInv, Held

LEMMA StepInv == IInv /\ [Next]_vars => IInv'
<1>1. IInv => TypeOK /\ ScanInv BY DEF IInv
<1> QED BY <1>1, TypeStep, ScanStep, EnqStep, WatchStepInv, RunStep, HeldStep DEF IInv

LEMMA Invariance == Spec => []IInv
  BY InitInv, StepInv, PTL DEF Spec

\* Every record, drain, run, watcher and post of the async lane has its type.
THEOREM TypeCorrect == Spec => []TypeOK
<1>1. IInv => TypeOK BY DEF IInv
<1> QED BY <1>1, Invariance, PTL

\* The lease of drain_function_invocations holds on any cluster, whatever is posted
\* twice, delayed or lost: until some clock of it is past the lease, the record of
\* a claimed invocation is the one its run claimed, unless the put of its own
\* enqueue was repeated or it was fired twice in one second.
THEOREM LeaseExclusive == Spec => []LeaseHolds
<1>1. IInv => LeaseHolds BY DEF IInv, Held
<1> QED BY <1>1, Invariance, PTL

\* No second run of an invocation starts while a first one is within its lease,
\* whichever nodes drain the queue, however far apart their clocks are and however
\* often their claims are posted, with the same exception.
THEOREM RunExclusive == Spec => []OneLiveRun
<1>1. IInv => OneLiveRun
  <2> SUFFICES ASSUME IInv, NEW s \in Slots, NEW t \in Slots, Live(s), Live(t),
                      run[s].id = run[t].id, run[s].id \notin revived
               PROVE  s = t
    BY DEF OneLiveRun
  <2>1. run[s].rec = run[t].rec BY DEF IInv, Held, LeaseHolds
  <2>2. Own(t) BY DEF IInv, Held, LifeInv, Live
  <2> QED BY <2>1, <2>2 DEF Own, Live
<1> QED BY <1>1, Invariance, PTL


\* An outcome that was settled is only ever replaced by a fresh enqueue: of a later
\* blob change, or by the repeated put of its own call.
THEOREM OutcomeKept == Spec => OutcomeStays
<1> DEFINE Stays == \A id \in Ids : Terminal(store[id]) /\ store'[id] # store[id] =>
              /\ kind[id] = "blob" \/ id \in revived'
              /\ store'[id].status = "Queued" /\ store'[id].attempts = 0
<1>1. IInv /\ [Next]_vars => [Stays]_vars
  <2> SUFFICES ASSUME IInv, Next PROVE Stays
    OBVIOUS
  <2> USE InvocationsAssumption DEF InvocationsAssumption, base
  <2>0. store \in [Ids -> Observed] BY DEF IInv, TypeOK
  <2>1. CASE UNCHANGED store BY <2>1
  <2>2. ASSUME NEW o \in Write, Shape(o), Matches(o), Commit(o) PROVE Stays
    <3>1. /\ o.id \in Ids
          /\ store' = [store EXCEPT ![o.id] = o.new]
      BY <2>2 DEF Write, Commit
    <3>2. CASE PutShape(o)
      <4>1. Terminal(store[o.id]) => o.id \in revived'
        BY <2>2, <3>2 DEF PutShape, Commit, Terminal
      <4> QED BY <2>0, <3>1, <3>2, <4>1 DEF PutShape, Fresh
    <3>3. CASE RefireShape(o)
      <4>1. Terminal(store[o.id]) => kind[o.id] = "blob"
        BY <2>2, <3>3 DEF RefireShape, Matches, Terminal
      <4> QED BY <2>0, <3>1, <3>3, <4>1 DEF RefireShape, Fresh
    <3>4. CASE ClaimShape(o) \/ SettleShape(o)
      <4>1. ~Terminal(store[o.id])
        BY <2>2, <3>4 DEF ClaimShape, SettleShape, Matches, Claimable, Terminal
      <4> QED BY <2>0, <3>1, <4>1
    <3> QED BY <2>2, <3>2, <3>3, <3>4 DEF Shape
  <2> HIDE DEF Stays
  <2>3. ASSUME NEW id \in Ids, EnqueuePut(id) PROVE Stays
    <3>1. PutOf(id, enq[id]) \in Write /\ Shape(PutOf(id, enq[id])) /\ Matches(PutOf(id, enq[id]))
      BY <2>3, PutWrites DEF EnqueuePut, Shape, Matches, PutOf
    <3> QED BY <2>2, <2>3, <3>1 DEF EnqueuePut
  <2>4. ASSUME NEW n \in Nodes, NEW id \in Ids, EnqueueScheduled(n, id) PROVE Stays
    <3>1. PICK o \in Write : o = SwapOf(id, NoRec, Enqueued(Now(n))) /\ Shape(o)
      BY ScheduledWrites DEF Shape, IInv
    <3> QED BY <2>2, <2>4, <3>1 DEF EnqueueScheduled
  <2>5. ASSUME NEW n \in Nodes, RefireSwap(n) PROVE Stays
    <3>1. PICK o \in Write : o = RefireWrite(watch[n]) /\ Shape(o)
      BY <2>5, RefireWrites DEF RefireSwap, Shape
    <3> QED BY <2>1, <2>2, <2>5, <3>1 DEF RefireSwap
  <2>6. ASSUME NEW n \in Nodes, NEW id \in Ids, Claim(n, id) PROVE Stays
    <3>1. PICK o \in Write : o = ClaimWrite(n, id) /\ Shape(o)
      BY <2>6, ClaimWrites DEF Claim, Shape
    <3> QED BY <2>2, <2>6, <3>1 DEF Claim
  <2>7. ASSUME NEW s \in Slots, SettleWins(s) PROVE Stays
    <3>1. PICK o \in Write : o = SettleWrite(run[s]) /\ Shape(o)
      BY <2>7, SettleWrites DEF SettleWins, Shape
    <3> QED BY <2>2, <2>7, <3>1 DEF SettleWins
  <2>8. ASSUME NEW o \in late, ApplyLate(o) PROVE Stays
    <3>1. o \in Write /\ Shape(o) BY DEF IInv, TypeOK, Held, LateInv
    <3> QED BY <2>1, <2>2, <2>8, <3>1 DEF ApplyLate
  <2>9. ASSUME NEW n \in Nodes, DrainStep(n) \/ WatchStep(n) PROVE Stays
    BY <2>1, <2>5, <2>6, <2>9
    DEF DrainStep, StartDrain, FixNow, GateFull, EndDrain, ListOne, ClaimLost, WatchStep, RefireRead
  <2>10. CASE EnqueueStep
    BY <2>1, <2>3, <2>4, <2>10 DEF EnqueueStep, EnqueueCall, ObserveChange
  <2>11. ASSUME NEW s \in Slots, SettleStep(s) PROVE Stays
    BY <2>1, <2>7, <2>11 DEF SettleStep, Finish, SettleLost
  <2>12. CASE FaultStep
    BY <2>1, <2>8, <2>12
    DEF FaultStep, Crash, RefirePostFails, ClaimPostFails, EnqueuePostFails, SettlePostFails
  <2>13. CASE Tick BY <2>1, <2>13 DEF Tick
  <2> QED BY <2>9, <2>10, <2>11, <2>12, <2>13 DEF Next
<1> QED BY <1>1, Invariance, PTL DEF Spec, OutcomeStays
=============================================================================
