----------------------------- MODULE GroupPlan -----------------------------
(***************************************************************************)
(* The pure decisions of the consumer-group lane of                         *)
(* boatramp-core/src/messaging.rs: which messages a grouped claim leases    *)
(* and dead-letters (`plan_claim_grouped`) and which retained messages the  *)
(* sweep may reclaim (`grouped_message_needed`).                            *)
(*                                                                          *)
(* Ids are positive naturals in the lexical order of the source's strings;  *)
(* 0 stands for the empty string, the high-water of a group that starts at  *)
(* the earliest message.                                                    *)
(*                                                                          *)
(* `in_flight` is a vector that may hold an id twice: a reset to the        *)
(* earliest message followed by a redrive puts an id in flight that is also *)
(* ahead of the high-water.  The source sorts the vector by id, keeping the *)
(* order of equal ids, before it uses it, so it is modelled as a sequence   *)
(* of entries per id.  The loops of the source run over the entries in that *)
(* order with a batch budget; here their results are stated by counting the *)
(* entries before each one.                                                 *)
(***************************************************************************)
EXTENDS Integers, FiniteSets, Sequences

CONSTANTS Ids,   \* message ids, in mint order
          None   \* the state of a group that is not registered

ASSUME GroupIdsAssumption == Ids \subseteq Nat \ {0} /\ IsFiniteSet(Ids)

Entry == [attempts : Nat, lease : Nat]
GroupState == [hwm : Nat, flight : [Ids -> Seq(Entry)]]

ASSUME NoneAssumption == None \notin GroupState

NewGroup(hwm) == [hwm |-> hwm, flight |-> [i \in Ids |-> <<>>]]
InFlight(s) == {i \in Ids : s.flight[i] # <<>>}

\* The first n ids of S.
Oldest(S, n) == {i \in S : Cardinality({k \in S : k < i}) < n}
Newest(S) == CHOOSE i \in S : \A k \in S : k <= i

\* An entry to dead-letter, whatever the batch has room for.
Exhausted(e, now, maxAttempts) == e.lease <= now /\ e.attempts >= maxAttempts

PlanDead(s, now, maxAttempts) ==
    {i \in Ids : \E k \in DOMAIN s.flight[i] : Exhausted(s.flight[i][k], now, maxAttempts)}

\* The entries of an id that stay in flight, in their order: the n-th is the one
\* with n - 1 of them before it.
Kept(s, i, now, maxAttempts) ==
    LET stay == {k \in DOMAIN s.flight[i] : ~Exhausted(s.flight[i][k], now, maxAttempts)}
        Place(n) == CHOOSE k \in stay : Cardinality({l \in stay : l < k}) = n - 1
    IN [n \in 1 .. Cardinality(stay) |-> s.flight[i][Place(n)]]

\* The entries, as id and place among those kept, whose lease is over.
Lapsed(s, now, maxAttempts) ==
    LET Places(i) == {k \in DOMAIN Kept(s, i, now, maxAttempts) :
                         Kept(s, i, now, maxAttempts)[k].lease <= now}
    IN UNION {{i} \X Places(i) : i \in Ids}

\* The oldest of them are redelivered, while the batch has room.
PlanRedelivered(s, now, maxBatch, maxAttempts) ==
    LET lapsed == Lapsed(s, now, maxAttempts)
        Before(p, q) == p[1] < q[1] \/ (p[1] = q[1] /\ p[2] < q[2])
    IN {p \in lapsed : Cardinality({q \in lapsed : Before(q, p)}) < maxBatch}

\* New log ids are leased with what is left of the batch.
PlanFresh(s, now, maxBatch, maxAttempts, new) ==
    Oldest({i \in new : i > s.hwm},
           maxBatch - Cardinality(PlanRedelivered(s, now, maxBatch, maxAttempts)))

\* Mutation of Planned: the high-water moves to the end of the scan, past new ids
\* that no longer fit in the batch.
PlannedOverruns(s, now, leaseMs, maxBatch, maxAttempts, new) ==
    LET again == PlanRedelivered(s, now, maxBatch, maxAttempts)
        fresh == PlanFresh(s, now, maxBatch, maxAttempts, new)
    IN [hwm |-> IF new = {} THEN s.hwm ELSE Newest(new),
        flight |-> [i \in Ids |->
            [k \in DOMAIN Kept(s, i, now, maxAttempts) |->
                LET e == Kept(s, i, now, maxAttempts)[k] IN
                IF <<i, k>> \in again
                THEN [attempts |-> e.attempts + 1, lease |-> now + leaseMs] ELSE e]
            \o (IF i \in fresh THEN <<[attempts |-> 1, lease |-> now + leaseMs]>> ELSE <<>>)]]

\* The group state after the claim.
Planned(s, now, leaseMs, maxBatch, maxAttempts, new) ==
    LET again == PlanRedelivered(s, now, maxBatch, maxAttempts)
        fresh == PlanFresh(s, now, maxBatch, maxAttempts, new)
    IN [hwm |-> IF fresh = {} THEN s.hwm ELSE Newest(fresh),
        flight |-> [i \in Ids |->
            [k \in DOMAIN Kept(s, i, now, maxAttempts) |->
                LET e == Kept(s, i, now, maxAttempts)[k] IN
                IF <<i, k>> \in again
                THEN [attempts |-> e.attempts + 1, lease |-> now + leaseMs] ELSE e]
            \o (IF i \in fresh THEN <<[attempts |-> 1, lease |-> now + leaseMs]>> ELSE <<>>)]]

\* What the claim delivers, as ids and places in the state after it.
PlanLeased(s, now, maxBatch, maxAttempts, new) ==
    PlanRedelivered(s, now, maxBatch, maxAttempts)
        \cup {<<i, Len(Kept(s, i, now, maxAttempts)) + 1>> :
                 i \in PlanFresh(s, now, maxBatch, maxAttempts, new)}

\* Some group has the message in flight or still ahead of it.
Needed(states, i) == \E s \in states : i > s.hwm \/ s.flight[i] # <<>>
=============================================================================
