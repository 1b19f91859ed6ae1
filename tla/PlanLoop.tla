------------------------------ MODULE PlanLoop ------------------------------
(***************************************************************************)
(* The loop of `plan_claim` (boatramp-core/src/messaging.rs): the records   *)
(* are sorted by priority and id and visited one by one, each step being    *)
(* one iteration.  Module ClaimPlan states the result without the loop;     *)
(* TLC checks for every index over small records that both give the same    *)
(* leases and the same dead letters, and PlanLoopProofs proves it for       *)
(* every index.                                                             *)
(***************************************************************************)
EXTENDS ClaimPlan, Sequences, Functions

CONSTANTS SmallRecords,  \* the records an index may hold
          Nows,          \* the claim times tried
          Batches,       \* the values of max_batch tried
          MaxAttempts, LeaseMs

ASSUME PlanLoopAssumption ==
    /\ IsFiniteSet(Ids)
    /\ SmallRecords \subseteq Record
    /\ Nows \subseteq Nat /\ Batches \subseteq Nat
    /\ MaxAttempts \in Nat /\ LeaseMs \in Nat

VARIABLES index,    \* the records given to the claim
          now, maxBatch,
          rest,     \* the sorted records still to visit
          actions,  \* the ClaimActions so far: [kind, id, rec]
          leased    \* how many of them are leases

vars == <<index, now, maxBatch, rest, actions, leased>>

\* What records.sort_by guarantees: the same records, in order.  Precedes is
\* a total order, so there is one such sequence.
Sortings(idx) ==
    {s \in Bijection(1 .. Cardinality(Live(idx)), Live(idx)) :
        \A m, n \in DOMAIN s : m < n => Precedes(idx, s[m], s[n])}

Init ==
    /\ index \in [Ids -> SmallRecords \cup {NoRec}]
    /\ now \in Nows /\ maxBatch \in Batches
    /\ rest \in Sortings(index)
    /\ actions = <<>>
    /\ leased = 0

More == rest # <<>> /\ leased < maxBatch
Current == index[Head(rest)]
Emit(kind, rec) == actions' = Append(actions, [kind |-> kind, id |-> Head(rest), rec |-> rec])
Advance == rest' = Tail(rest) /\ UNCHANGED <<index, now, maxBatch>>

SkipLeased ==
    /\ More /\ Current.lease > now
    /\ Advance
    /\ UNCHANGED <<actions, leased>>

ExpireRecord ==
    /\ More /\ Current.lease <= now
    /\ Current.expires # 0 /\ Current.expires <= now
    /\ Emit("DeadLetter", Current)
    /\ Advance
    /\ UNCHANGED leased

ExhaustRecord ==
    /\ More /\ Current.lease <= now
    /\ Current.expires = 0 \/ Current.expires > now
    /\ Current.attempts >= MaxAttempts
    /\ Emit("DeadLetter", Current)
    /\ Advance
    /\ UNCHANGED leased

LeaseRecord ==
    /\ More /\ Current.lease <= now
    /\ Current.expires = 0 \/ Current.expires > now
    /\ Current.attempts < MaxAttempts
    /\ Emit("Lease", [Current EXCEPT !.attempts = @ + 1, !.lease = now + LeaseMs])
    /\ Advance
    /\ leased' = leased + 1

Next == SkipLeased \/ ExpireRecord \/ ExhaustRecord \/ LeaseRecord

Spec == Init /\ [][Next]_vars

IdsOf(kind) == {a.id : a \in {b \in Range(actions) : b.kind = kind}}

\* When plan_claim returns, its actions are exactly the leases and the dead
\* letters ClaimPlan states, each with the record ClaimPlan writes back, and
\* they are in the order of the records: no record is acted on twice.
PlanAgrees ==
    ~More =>
        /\ IdsOf("Lease") = PlanLeases(index, now, maxBatch, MaxAttempts)
        /\ IdsOf("DeadLetter") = PlanDeadLetters(index, now, maxBatch, MaxAttempts)
        /\ \A m, n \in DOMAIN actions :
              m < n => Precedes(index, actions[m].id, actions[n].id)
        /\ \A a \in Range(actions) :
              a.rec = IF a.kind = "Lease" THEN Leased(index[a.id], now, LeaseMs)
                      ELSE index[a.id]

\* No message overtakes another of the same or a higher priority that was
\* published before it and could be leased as well.
NoOvertaking ==
    \A i \in IdsOf("Lease"), j \in Candidates(index, now, MaxAttempts) :
        index[j].prio >= index[i].prio /\ j < i => j \in IdsOf("Lease")

=============================================================================
