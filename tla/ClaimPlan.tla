----------------------------- MODULE ClaimPlan -----------------------------
(***************************************************************************)
(* The pure claim decision `plan_claim` of boatramp-core/src/messaging.rs,  *)
(* shared by the single-node coordinator (module WorkQueue) and by the      *)
(* replicated state machine (module RaftQueue).                             *)
(*                                                                          *)
(* A topic's index is a function from message ids to records, or NoRec      *)
(* where the key `mq/{topic}/{id}` does not exist.  Ids are naturals whose  *)
(* order is the lexical order of the `{millis}-{...}` strings.  The fields  *)
(* of a record are the ones the decision reads: attempts, lease             *)
(* (lease_until_ms), expires (expires_at_ms, 0 = never), prio (priority),   *)
(* and whether the payload is inlined in the record.  version,              *)
(* signed_context and last_error are carried through unread and left out.   *)
(*                                                                          *)
(* The loop of the source visits the records by priority and id and stops   *)
(* when max_batch of them are leased.  Here the result is stated without a  *)
(* loop; module PlanLoop has the loop, and TLC checks that both agree.      *)
(***************************************************************************)
EXTENDS Integers, FiniteSets

CONSTANTS Ids,    \* message ids, in mint order
          NoRec   \* the value of a key that does not exist

ASSUME IdsAssumption == Ids \subseteq Nat

Record == [attempts : Nat, lease : Nat, expires : Nat, prio : Nat, inline : BOOLEAN]

ASSUME NoRecAssumption == NoRec \notin Record

Live(index) == {i \in Ids : index[i] # NoRec}

\* Mutation of Precedes: the comparison of the ids is swapped.
PrecedesNewest(index, i, j) ==
    \/ index[i].prio > index[j].prio
    \/ index[i].prio = index[j].prio /\ i > j

\* The total order `plan_claim` sorts by: higher priority first, then id.
Precedes(index, i, j) ==
    \/ index[i].prio > index[j].prio
    \/ index[i].prio = index[j].prio /\ i < j

\* Mutation of Due: off by one, the lease is over one tick early.
DueEarly(r, now) == r.lease <= now + 1

Due(r, now) == r.lease <= now
Expired(r, now) == r.expires # 0 /\ r.expires <= now

\* Mutation of Leasable: `>` for `>=` in the attempts check.
LeasableOnceMore(r, now, maxAttempts) ==
    Due(r, now) /\ ~Expired(r, now) /\ r.attempts <= maxAttempts

Leasable(r, now, maxAttempts) ==
    Due(r, now) /\ ~Expired(r, now) /\ r.attempts < maxAttempts

\* The records the loop leases if it gets that far.
Candidates(index, now, maxAttempts) ==
    {i \in Live(index) : Leasable(index[i], now, maxAttempts)}

\* Mutation of Reached: the batch is checked after the record, not before.
ReachedLate(index, i, now, maxBatch, maxAttempts) ==
    Cardinality({j \in Candidates(index, now, maxAttempts) : Precedes(index, j, i)}) <= maxBatch

\* The loop reaches record i iff fewer than max_batch records were leased before it.
Reached(index, i, now, maxBatch, maxAttempts) ==
    Cardinality({j \in Candidates(index, now, maxAttempts) : Precedes(index, j, i)}) < maxBatch

\* ClaimAction::Lease
PlanLeases(index, now, maxBatch, maxAttempts) ==
    {i \in Candidates(index, now, maxAttempts) : Reached(index, i, now, maxBatch, maxAttempts)}

\* ClaimAction::DeadLetter: attempts exhausted, or the time to live is over.
PlanDeadLetters(index, now, maxBatch, maxAttempts) ==
    {i \in Live(index) :
        /\ Due(index[i], now)
        /\ ~Leasable(index[i], now, maxAttempts)
        /\ Reached(index, i, now, maxBatch, maxAttempts)}

\* Mutation of Leased: the attempt is not charged.
LeasedFree(r, now, leaseMs) == [r EXCEPT !.lease = now + leaseMs]

\* The record a lease writes back: one attempt charged, leased until now + lease_ms.
Leased(r, now, leaseMs) == [r EXCEPT !.attempts = @ + 1, !.lease = now + leaseMs]

=============================================================================
