--------------------------- MODULE GroupLogProofs ---------------------------
(***************************************************************************)
(* Proofs about module GroupLog, for every value of its constants.  All     *)
(* that the groups keep is written under claim_lock; IInv says what the     *)
(* holder of the lock relies on, and that publishes and discards, which do  *)
(* not take it, leave that alone.                                           *)
(***************************************************************************)
EXTENDS GroupLog, FiniteSetTheorems, WellFoundedInduction, TLAPS

\* The ids are not beyond the greatest one that was committed.
Known(S) == \A i \in S : i <= newest

\* Unless its lease was given up, an id is in flight once, and then the high-water
\* is past it.
Single(s, i) == Len(s.flight[i]) <= 1 /\ (s.flight[i] # <<>> => i <= s.hwm)

\* The state does not let a delivery go before its lease is over.
Covers(s, h) ==
    /\ h.id <= s.hwm
    /\ s.flight[h.id] # <<>> => h.until <= s.flight[h.id][1].lease

\* A group state, as far as it matters to who holds what.
StateOK(g, s) ==
    /\ s.hwm <= newest /\ Known(InFlight(s))
    /\ \A i \in Ids : <<g, i>> \notin renewed => Single(s, i)
    /\ \A h \in handles : h.group = g /\ <<g, h.id>> \notin renewed => Covers(s, h)

KnownInv ==
    /\ Known(glog) /\ logmax <= newest
    /\ \A g \in Groups : Known(gdead[g])
    /\ \A h \in handles : h.id <= newest

GroupInv ==
    /\ \A g \in Registered : StateOK(g, gstate[g])
    /\ \A h \in handles : gstate[h.group] = None => <<h.group, h.id>> \in renewed

LockInv ==
    \A v, w \in Workers :
        job[v].stage \in LockStages /\ job[w].stage \in LockStages => v = w

\* A message that is about to be retained has its payload, unless a later one was
\* committed before it; a redrive knows only ids that were committed.
FreeJob(j) ==
    /\ j.stage \in {"gate", "commit"} => j.id <= newest \/ j.id \in gpayload
    /\ j.stage = "commit" => j.cur <= newest
    /\ j.stage = "rewait" => \A p \in j.todo : p[2] <= newest

\* A claim that has loaded the state of its group, or made one.
ProbeJob(j) ==
    j.stage \in {"probe", "scan"} =>
      /\ j.now <= clock
      /\ IF gstate[j.group] # None THEN j.state = gstate[j.group]
         ELSE j.state.flight = [i \in Ids |-> <<>>] /\ j.state.hwm <= newest

\* A claim that is about to write the state of its group: nothing that is owed
\* leaves the custody of the group, and what it hands out is not out already.
BuryJob(j) ==
    j.stage = "bury" =>
      /\ Known(j.todo)
      /\ StateOK(j.group, j.state)
      /\ gstate[j.group] # None => \A i \in owed[j.group] :
            \/ i \in j.todo \/ i \in gdead[j.group] \/ i \in InFlight(j.state)
            \/ i > j.state.hwm /\ i \in glog
      /\ \A r \in j.recs :
            /\ r.group = j.group /\ r.id <= newest
            /\ <<j.group, r.id>> \notin renewed =>
                  /\ Covers(j.state, r)
                  /\ \A h \in handles : h.group = j.group /\ h.id = r.id => h.until <= clock
                  /\ \A q \in j.recs : q.id = r.id => q = r

\* An operation on a message, or on several, that must not take an owed one away.
HoldJob(j) ==
    /\ j.stage = "quarantine" =>
          j.id <= newest /\ (j.id \in owed[j.group] => j.id \in gdead[j.group])
    /\ j.stage \in {"redrive", "unpin"} => \A p \in j.todo : p[2] <= newest
    /\ j.stage = "unpin" =>
          gstate[j.pair[1]] # None /\ j.pair[2] \in InFlight(gstate[j.pair[1]])
    /\ j.stage \in {"sweep", "unlog"} =>
          /\ j.todo # {} /\ Known(j.todo)
          /\ \A g \in Groups : j.todo \cap gdead[g] = {} /\ j.todo \cap owed[g] = {}

JobOK(j) == FreeJob(j) /\ ProbeJob(j) /\ BuryJob(j) /\ HoldJob(j)

IInv ==
    /\ TypeOK /\ LockInv /\ KnownInv /\ GroupInv /\ GroupCustody /\ OneLease
    /\ \A w \in Workers : JobOK(job[w])


-----------------------------------------------------------------------------
(* Numbers: least and greatest members, and how many precede one. *)

\* Every nonempty set of natural numbers has a least element ...
LEMMA LeastNat ==
    ASSUME NEW S \in SUBSET Nat, S # {}
    PROVE  \E m \in S : \A k \in S : m <= k
<1> DEFINE R == OpToRel(<, Nat)
<1>1. IsWellFoundedOn(R, Nat) BY NatLessThanWellFounded
<1>2. \A a, b \in Nat : a < b => <<a, b>> \in R BY DEF OpToRel
<1> HIDE DEF R
<1>3. PICK m \in S : \A k \in S : <<k, m>> \notin R BY <1>1, WFMin
<1>4. \A k \in S : m <= k
  <2> TAKE k \in S
  <2>1. ~(k < m) BY <1>2, <1>3
  <2> QED BY <2>1
<1> QED BY <1>4

\* ... and, when it is bounded, a greatest one.
LEMMA GreatestNat ==
    ASSUME NEW S \in SUBSET Nat, S # {}, NEW n \in Nat, \A k \in S : k <= n
    PROVE  \E m \in S : \A k \in S : k <= m
<1> DEFINE D == {n - k : k \in S}
<1>1. D \in SUBSET Nat
  <2>1. \A k \in S : n - k \in Nat OBVIOUS
  <2> QED BY <2>1
<1>2. \A k \in S : n - k \in D OBVIOUS
<1>3. \A d \in D : \E m \in S : d = n - m OBVIOUS
<1>4. D # {} BY <1>2
<1> HIDE DEF D
<1>5. PICK d \in D : \A e \in D : d <= e BY <1>1, <1>4, LeastNat
<1>6. PICK m \in S : d = n - m BY <1>3
<1>7. \A k \in S : n - m <= n - k BY <1>2, <1>5, <1>6
<1>8. \A k \in S : k <= m BY <1>7
<1> QED BY <1>8

\* How many members of S are below k.
Rank(S, k) == Cardinality({l \in S : l < k})

LEMMA RankType ==
    ASSUME NEW S \in SUBSET Nat, IsFiniteSet(S), NEW k
    PROVE  Rank(S, k) \in Nat /\ IsFiniteSet({l \in S : l < k})
<1>1. IsFiniteSet({l \in S : l < k}) BY FS_Subset
<1> QED BY <1>1, FS_CardinalityType DEF Rank

\* The rank grows strictly from a member on.
LEMMA RankGrows ==
    ASSUME NEW S \in SUBSET Nat, IsFiniteSet(S), NEW k \in S, NEW m \in Nat, k < m
    PROVE  Rank(S, k) < Rank(S, m)
<1> DEFINE A == {l \in S : l < k}  B == {l \in S : l < m}
<1>1. A \subseteq B
  <2> SUFFICES ASSUME NEW l \in S, l < k PROVE l < m OBVIOUS
  <2> QED OBVIOUS
<1>2. A # B
  <2>1. k \in B OBVIOUS
  <2>2. k \notin A OBVIOUS
  <2> QED BY <2>1, <2>2
<1>3. IsFiniteSet(B) BY FS_Subset
<1> HIDE DEF A, B
<1>4. Cardinality(A) < Cardinality(B) BY <1>1, <1>2, <1>3, FS_Subset, FS_CardinalityType
<1> QED BY <1>4 DEF Rank, A, B

\* A nonempty finite set of numbers has a greatest member.
LEMMA GreatestFinite ==
    ASSUME NEW S \in SUBSET Nat, IsFiniteSet(S), S # {}
    PROVE  \E m \in S : \A k \in S : k <= m
<1> DEFINE R == {Rank(S, k) : k \in S}
<1>1. \A k \in S : Rank(S, k) \in Nat /\ Rank(S, k) <= Cardinality(S)
  <2> TAKE k \in S
  <2>1. {l \in S : l < k} \subseteq S OBVIOUS
  <2>2. Cardinality({l \in S : l < k}) <= Cardinality(S) BY <2>1, FS_Subset
  <2> QED BY <2>2, RankType DEF Rank
<1>2. R \in SUBSET Nat BY <1>1
<1>3. \A k \in S : Rank(S, k) \in R OBVIOUS
<1>4. \A r \in R : \E k \in S : r = Rank(S, k) OBVIOUS
<1>5. R # {} BY <1>3
<1>6. Cardinality(S) \in Nat BY FS_CardinalityType
<1>7. \A r \in R : r <= Cardinality(S) BY <1>1, <1>4
<1> HIDE DEF R
<1>8. PICK r \in R : \A q \in R : q <= r BY <1>2, <1>5, <1>6, <1>7, GreatestNat
<1>9. PICK m \in S : r = Rank(S, m) BY <1>4
<1>10. ASSUME NEW k \in S, ~(k <= m) PROVE FALSE
  <2>1. k \in Nat /\ m \in Nat /\ m < k BY <1>10
  <2>2. Rank(S, m) < Rank(S, k) BY <2>1, RankGrows
  <2> QED BY <1>1, <1>3, <1>8, <1>9, <2>2
<1> QED BY <1>10

\* Without its greatest member, what is below it is left.
LEMMA RankOfGreatest ==
    ASSUME NEW S \in SUBSET Nat, IsFiniteSet(S), NEW m \in S, \A k \in S : k <= m
    PROVE  Rank(S, m) = Cardinality(S) - 1
<1>1. {l \in S : l < m} = S \ {m}
  <2> SUFFICES ASSUME NEW l \in S PROVE l < m <=> l # m OBVIOUS
  <2>1. l \in Nat /\ m \in Nat /\ l <= m OBVIOUS
  <2> QED BY <2>1
<1>2. Cardinality(S \ {m}) = Cardinality(S) - 1 BY FS_RemoveElement
<1> QED BY <1>1, <1>2 DEF Rank

\* Every place has its member.
LEMMA RankExists ==
    ASSUME NEW S \in SUBSET Nat, IsFiniteSet(S), NEW n \in 1 .. Cardinality(S)
    PROVE  \E k \in S : Rank(S, k) = n - 1
<1> DEFINE T == {k \in S : Rank(S, k) >= n - 1}
<1>1. Cardinality(S) \in Nat BY FS_CardinalityType
<1>2. S # {} BY <1>1, FS_EmptySet
<1>3. PICK m \in S : \A k \in S : k <= m BY <1>2, GreatestFinite
<1>4. Rank(S, m) = Cardinality(S) - 1 BY <1>3, RankOfGreatest
<1>5. m \in T BY <1>1, <1>4
<1>6. T \in SUBSET Nat OBVIOUS
<1>7. PICK k \in T : \A l \in T : k <= l BY <1>5, <1>6, LeastNat
<1>8. k \in S /\ k \in Nat /\ Rank(S, k) >= n - 1 /\ Rank(S, k) \in Nat BY <1>7, RankType
<1>9. ASSUME Rank(S, k) # n - 1 PROVE FALSE
  <2> DEFINE B == {l \in S : l < k}
  <2>1. B \in SUBSET Nat /\ IsFiniteSet(B) BY RankType
  <2>2. Cardinality(B) > n - 1 BY <1>8, <1>9 DEF Rank
  <2>3. B # {} BY <2>2, FS_EmptySet
  <2>4. \A l \in B : l \in S /\ l < k OBVIOUS
  <2>5. \A l \in S : l < k => l \in B OBVIOUS
  <2> HIDE DEF B
  <2>6. PICK p \in B : \A l \in B : l <= p BY <2>1, <2>3, GreatestFinite
  <2>7. Rank(B, p) = Cardinality(B) - 1 BY <2>1, <2>6, RankOfGreatest
  <2>8. {l \in S : l < p} = {l \in B : l < p}
    <3> SUFFICES ASSUME NEW l \in S, l < p PROVE l \in B BY <2>4
    <3>1. l \in Nat /\ p \in Nat /\ k \in Nat /\ p < k BY <1>8, <2>1, <2>4, <2>6
    <3> QED BY <2>5, <3>1
  <2>9. Rank(S, p) = Cardinality(B) - 1 BY <2>7, <2>8 DEF Rank
  <2>10. Cardinality(B) \in Nat BY <2>1, FS_CardinalityType
  <2>11. p \in T BY <2>2, <2>4, <2>6, <2>9, <2>10
  <2>12. p \in Nat /\ p < k BY <2>1, <2>4, <2>6
  <2> QED BY <1>7, <1>8, <2>11, <2>12
<1> QED BY <1>8, <1>9


-----------------------------------------------------------------------------
(* The plan of a claim. *)

LEMMA IdsFacts ==
    /\ Ids \in SUBSET Nat /\ 0 \notin Ids /\ None \notin GroupState
    /\ \A S \in SUBSET Ids : S \in SUBSET Nat /\ IsFiniteSet(S) /\ Cardinality(S) \in Nat
BY GroupIdsAssumption, NoneAssumption, FS_Subset, FS_CardinalityType
   DEF GroupIdsAssumption, NoneAssumption

LEMMA FirstIn ==
    ASSUME NEW S \in SUBSET Ids, S # {}
    PROVE  First(S) \in S
<1>1. \E i \in S : \A k \in S : i <= k BY IdsFacts, LeastNat
<1> QED BY <1>1 DEF First

LEMMA NewestIn ==
    ASSUME NEW S \in SUBSET Ids, S # {}
    PROVE  Newest(S) \in S /\ \A k \in S : k <= Newest(S)
<1>1. \E i \in S : \A k \in S : k <= i BY IdsFacts, GreatestFinite
<1> QED BY <1>1 DEF Newest

\* The first ids of a set are a beginning of it.
LEMMA OldestFacts ==
    ASSUME NEW S \in SUBSET Ids, NEW n \in Int
    PROVE  /\ Oldest(S, n) \in SUBSET S
           /\ \A m \in Oldest(S, n) : \A i \in S : i <= m => i \in Oldest(S, n)
<1>1. Oldest(S, n) \in SUBSET S BY DEF Oldest
<1>2. ASSUME NEW m \in Oldest(S, n), NEW i \in S, i <= m PROVE i \in Oldest(S, n)
  <2>1. m \in S /\ m \in Nat /\ i \in Nat BY <1>1, <1>2, IdsFacts
  <2>2. IsFiniteSet(S) /\ S \in SUBSET Nat BY IdsFacts
  <2>3. Rank(S, m) < n BY <1>2 DEF Oldest, Rank
  <2>4. Rank(S, i) \in Nat /\ Rank(S, m) \in Nat BY <2>2, RankType
  <2>5. CASE i = m BY <1>2, <2>5
  <2>6. CASE i < m
    <3>1. Rank(S, i) < Rank(S, m) BY <2>1, <2>2, <2>6, RankGrows
    <3>2. Rank(S, i) < n BY <2>3, <2>4, <3>1
    <3> QED BY <3>2 DEF Oldest, Rank
  <2> QED BY <1>2, <2>1, <2>5, <2>6
<1> QED BY <1>1, <1>2

LEMMA FlightType ==
    ASSUME NEW s \in GroupState, NEW i \in Ids
    PROVE  /\ s.hwm \in Nat /\ s.flight \in [Ids -> Seq(Entry)]
           /\ s.flight[i] \in Seq(Entry) /\ Len(s.flight[i]) \in Nat
           /\ DOMAIN s.flight[i] = 1 .. Len(s.flight[i])
           /\ \A k \in 1 .. Len(s.flight[i]) :
                 /\ s.flight[i][k] \in Entry
                 /\ s.flight[i][k].attempts \in Nat /\ s.flight[i][k].lease \in Nat
           /\ s.flight[i] # <<>> <=> 1 \in 1 .. Len(s.flight[i])
<1>1. s.hwm \in Nat /\ s.flight \in [Ids -> Seq(Entry)] BY DEF GroupState
<1>2. s.flight[i] \in Seq(Entry) BY <1>1
<1>3. PICK f \in Seq(Entry) : f = s.flight[i] BY <1>2
<1>4. /\ Len(f) \in Nat /\ DOMAIN f = 1 .. Len(f)
      /\ \A k \in 1 .. Len(f) : f[k] \in Entry
      /\ f # <<>> <=> Len(f) # 0
  OBVIOUS
<1>5. \A e \in Entry : e.attempts \in Nat /\ e.lease \in Nat BY DEF Entry
<1> QED BY <1>1, <1>3, <1>4, <1>5

\* The entries that stay are among those that were in flight, and if one is to stay
\* there is one.
LEMMA KeptFacts ==
    ASSUME NEW s \in GroupState, NEW i \in Ids, NEW now \in Nat
    PROVE  LET F == s.flight[i]  K == Kept(s, i, now, MaxAttempts) IN
           /\ K \in Seq(Entry) /\ Len(K) <= Len(F)
           /\ \A k \in 1 .. Len(K) : \E l \in 1 .. Len(F) : K[k] = F[l]
           /\ (\E l \in 1 .. Len(F) : ~Exhausted(F[l], now, MaxAttempts)) => K # <<>>
<1> DEFINE F == s.flight[i]
           stay == {k \in DOMAIN F : ~Exhausted(F[k], now, MaxAttempts)}
           Place(n) == CHOOSE k \in stay : Cardinality({l \in stay : l < k}) = n - 1
           K == Kept(s, i, now, MaxAttempts)
<1>1. /\ F \in Seq(Entry) /\ Len(F) \in Nat /\ DOMAIN F = 1 .. Len(F)
      /\ \A k \in 1 .. Len(F) : F[k] \in Entry
  BY FlightType
<1>2. stay \in SUBSET (1 .. Len(F)) BY <1>1
<1>3. IsFiniteSet(1 .. Len(F)) /\ Cardinality(1 .. Len(F)) = Len(F) BY <1>1, FS_Interval
<1>4. /\ IsFiniteSet(stay) /\ Cardinality(stay) \in Nat /\ Cardinality(stay) <= Len(F)
      /\ stay # {} => Cardinality(stay) # 0
  <2> HIDE DEF stay, F
  <2>1. IsFiniteSet(stay) /\ Cardinality(stay) <= Cardinality(1 .. Len(F))
    BY <1>2, <1>3, FS_Subset
  <2> QED BY <1>3, <2>1, FS_CardinalityType, FS_EmptySet
<1>5. K = [n \in 1 .. Cardinality(stay) |-> F[Place(n)]] BY DEF Kept
<1>6. (\E l \in 1 .. Len(F) : ~Exhausted(F[l], now, MaxAttempts)) => stay # {} BY <1>1
<1>7. stay \in SUBSET Nat BY <1>2
<1> HIDE DEF stay
<1>8. ASSUME NEW n \in 1 .. Cardinality(stay) PROVE Place(n) \in stay
  <2>1. \E k \in stay : Rank(stay, k) = n - 1 BY <1>4, <1>7, RankExists
  <2>2. \E k \in stay : Cardinality({l \in stay : l < k}) = n - 1 BY <2>1 DEF Rank
  <2> QED BY <2>2
<1> HIDE DEF Place
<1>9. \A n \in 1 .. Cardinality(stay) : K[n] = F[Place(n)] BY <1>5
<1>10. \A n \in 1 .. Cardinality(stay) : F[Place(n)] \in Entry BY <1>1, <1>2, <1>8
<1> HIDE DEF F, K
<1>11. K \in Seq(Entry) /\ Len(K) = Cardinality(stay) BY <1>4, <1>5, <1>10
<1>12. \A k \in 1 .. Len(K) : \E l \in 1 .. Len(F) : K[k] = F[l] BY <1>2, <1>8, <1>9, <1>11
<1>13. stay # {} => K # <<>> BY <1>4, <1>11
<1> QED BY <1>4, <1>6, <1>11, <1>12, <1>13 DEF F, K


\* What is redelivered is a finite set of places of entries that stay.
LEMMA RedeliveredFacts ==
    ASSUME NEW s \in GroupState, NEW now \in Nat
    PROVE  LET again == PlanRedelivered(s, now, MaxBatch, MaxAttempts) IN
           /\ Cardinality(again) \in Nat
           /\ \A p \in again : \E i \in Ids :
                 \E k \in 1 .. Len(Kept(s, i, now, MaxAttempts)) :
                    p = <<i, k>> /\ Kept(s, i, now, MaxAttempts)[k].lease <= now
<1> DEFINE K(i) == Kept(s, i, now, MaxAttempts)
           P(i) == {k \in DOMAIN K(i) : K(i)[k].lease <= now}
           parts == {{i} \X P(i) : i \in Ids}
           lapsed == Lapsed(s, now, MaxAttempts)
           again == PlanRedelivered(s, now, MaxBatch, MaxAttempts)
<1>1. lapsed = UNION parts BY DEF Lapsed
<1>2. \A i \in Ids : K(i) \in Seq(Entry) BY KeptFacts
<1> HIDE DEF K
<1>3. ASSUME NEW i \in Ids
      PROVE  DOMAIN K(i) = 1 .. Len(K(i)) /\ IsFiniteSet({i} \X P(i))
  <2>1. DOMAIN K(i) = 1 .. Len(K(i)) /\ Len(K(i)) \in Nat BY <1>2
  <2>2. IsFiniteSet(1 .. Len(K(i))) BY <2>1, FS_Interval
  <2>3. IsFiniteSet(P(i)) BY <2>1, <2>2, FS_Subset
  <2>4. IsFiniteSet({i}) BY FS_Singleton
  <2> QED BY <2>1, <2>3, <2>4, FS_Product
<1>4. IsFiniteSet(parts)
  <2> DEFINE f == [i \in Ids |-> {i} \X P(i)]
  <2>1. f \in Surjection(Ids, parts) BY DEF Surjection
  <2> QED BY <2>1, IdsFacts, FS_Surjection
<1>5. \A T \in parts : IsFiniteSet(T) BY <1>3
<1>6. again \subseteq lapsed BY DEF PlanRedelivered
<1>7. IsFiniteSet(UNION parts) BY <1>4, <1>5, FS_UNION
<1>8. Cardinality(again) \in Nat BY <1>1, <1>6, <1>7, FS_Subset, FS_CardinalityType
<1>9. ASSUME NEW p \in again
      PROVE  \E i \in Ids : \E k \in 1 .. Len(K(i)) : p = <<i, k>> /\ K(i)[k].lease <= now
  <2>1. PICK i \in Ids : p \in {i} \X P(i) BY <1>1, <1>6
  <2>2. PICK k \in P(i) : p = <<i, k>> BY <2>1
  <2> QED BY <1>3, <2>2
<1> QED BY <1>8, <1>9 DEF K

\* The new ids that are leased: a beginning of the new ones beyond the high-water,
\* which moves to the last of them.
LEMMA FreshFacts ==
    ASSUME NEW s \in GroupState, NEW now \in Nat, NEW new \in SUBSET Ids
    PROVE  LET fresh == PlanFresh(s, now, MaxBatch, MaxAttempts, new)
               hwm == Planned(s, now, LeaseMs, MaxBatch, MaxAttempts, new).hwm
           IN /\ fresh \in SUBSET {i \in new : i > s.hwm}
              /\ hwm \in Nat /\ s.hwm <= hwm
              /\ hwm = s.hwm \/ hwm \in new
              /\ \A i \in fresh : i <= hwm
              /\ \A i \in new : i > s.hwm /\ i <= hwm => i \in fresh
<1> DEFINE ahead == {i \in new : i > s.hwm}
           again == PlanRedelivered(s, now, MaxBatch, MaxAttempts)
           room == MaxBatch - Cardinality(again)
           fresh == PlanFresh(s, now, MaxBatch, MaxAttempts, new)
           hwm == Planned(s, now, LeaseMs, MaxBatch, MaxAttempts, new).hwm
<1>1. s.hwm \in Nat BY DEF GroupState
<1>2. room \in Int
  BY RedeliveredFacts, GroupLogAssumption DEF GroupLogAssumption
<1>3. ahead \in SUBSET Ids OBVIOUS
<1>4. fresh = Oldest(ahead, room) BY DEF PlanFresh
<1>5. hwm = IF fresh = {} THEN s.hwm ELSE Newest(fresh) BY DEF Planned
<1>6. \A i \in ahead : i \in new /\ i > s.hwm OBVIOUS
<1>7. \A i \in new : i > s.hwm => i \in ahead OBVIOUS
<1> HIDE DEF ahead, room, fresh, hwm
<1>8. /\ fresh \in SUBSET ahead
      /\ \A m \in fresh : \A i \in ahead : i <= m => i \in fresh
  BY <1>2, <1>3, <1>4, OldestFacts
<1>9. CASE fresh = {}
  <2>1. hwm = s.hwm BY <1>5, <1>9
  <2>2. \A i \in new : i \in Nat BY IdsFacts
  <2> QED BY <1>1, <1>8, <1>9, <2>1, <2>2 DEF fresh, hwm, ahead
<1>10. CASE fresh # {}
  <2>1. hwm = Newest(fresh) BY <1>5, <1>10
  <2>2. fresh \in SUBSET Ids BY <1>3, <1>8
  <2>3. hwm \in fresh /\ \A k \in fresh : k <= hwm BY <1>10, <2>1, <2>2, NewestIn
  <2>4. hwm \in Nat /\ hwm > s.hwm /\ hwm \in new BY <1>6, <1>8, <2>2, <2>3, IdsFacts
  <2>5. \A i \in new : i > s.hwm /\ i <= hwm => i \in fresh BY <1>7, <1>8, <2>3
  <2>6. s.hwm <= hwm BY <1>1, <2>4
  <2> QED BY <1>8, <2>3, <2>4, <2>5, <2>6 DEF fresh, hwm, ahead
<1> QED BY <1>9, <1>10


LEMMA ConcatFacts ==
    ASSUME NEW a \in Seq(Entry), NEW b \in Seq(Entry)
    PROVE  /\ a \o b \in Seq(Entry) /\ Len(a \o b) = Len(a) + Len(b)
           /\ \A k \in 1 .. Len(a) : (a \o b)[k] = a[k]
           /\ Len(b) = 1 => (a \o b)[Len(a) + 1] = b[1]
OBVIOUS

\* The entries of an id after the claim: those kept, leased or not, and a new one.
LEMMA PlanFlight ==
    ASSUME NEW s \in GroupState, NEW now \in Nat, NEW new \in SUBSET Ids, NEW i \in Ids
    PROVE  LET K == Kept(s, i, now, MaxAttempts)
               again == PlanRedelivered(s, now, MaxBatch, MaxAttempts)
               fresh == PlanFresh(s, now, MaxBatch, MaxAttempts, new)
               N == Planned(s, now, LeaseMs, MaxBatch, MaxAttempts, new).flight[i]
           IN /\ N \in Seq(Entry)
              /\ \A k \in 1 .. Len(K) :
                    /\ <<i, k>> \in again => N[k].lease = now + LeaseMs
                    /\ <<i, k>> \notin again => N[k] = K[k]
              /\ i \in fresh => Len(N) = Len(K) + 1 /\ N[Len(K) + 1].lease = now + LeaseMs
              /\ i \notin fresh => Len(N) = Len(K)
<1> DEFINE K == Kept(s, i, now, MaxAttempts)
           again == PlanRedelivered(s, now, MaxBatch, MaxAttempts)
           fresh == PlanFresh(s, now, MaxBatch, MaxAttempts, new)
           N == Planned(s, now, LeaseMs, MaxBatch, MaxAttempts, new).flight[i]
           E(k) == IF <<i, k>> \in again
                   THEN [attempts |-> K[k].attempts + 1, lease |-> now + LeaseMs] ELSE K[k]
           A == [k \in 1 .. Len(K) |-> E(k)]
           B == IF i \in fresh THEN <<[attempts |-> 1, lease |-> now + LeaseMs]>> ELSE <<>>
<1> SUFFICES
      /\ N \in Seq(Entry)
      /\ \A k \in 1 .. Len(K) : /\ <<i, k>> \in again => N[k].lease = now + LeaseMs
                                /\ <<i, k>> \notin again => N[k] = K[k]
      /\ i \in fresh => Len(N) = Len(K) + 1 /\ N[Len(K) + 1].lease = now + LeaseMs
      /\ i \notin fresh => Len(N) = Len(K)
  OBVIOUS
<1>1. now + LeaseMs \in Nat BY GroupLogAssumption DEF GroupLogAssumption
<1>2. K \in Seq(Entry) BY KeptFacts
<1>3. N = [k \in DOMAIN K |-> E(k)] \o B BY DEF Planned
<1> HIDE DEF K, N, again, fresh
<1>4. DOMAIN K = 1 .. Len(K) /\ Len(K) \in Nat /\ \A k \in 1 .. Len(K) : K[k] \in Entry BY <1>2
<1>5. N = A \o B BY <1>3, <1>4
<1>6. \A a, l \in Nat : [attempts |-> a, lease |-> l] \in Entry BY DEF Entry
<1>7. \A e \in Entry : e.attempts + 1 \in Nat BY DEF Entry
<1>8. \A k \in 1 .. Len(K) : E(k) \in Entry BY <1>1, <1>4, <1>6, <1>7
<1>9. [attempts |-> 1, lease |-> now + LeaseMs] \in Entry BY <1>1, <1>6
<1>10. \A k \in 1 .. Len(K) : A[k] = E(k) OBVIOUS
<1> HIDE DEF E
<1>11. A \in Seq(Entry) /\ Len(A) = Len(K) BY <1>4, <1>8
<1>12. B \in Seq(Entry) /\ Len(B) = IF i \in fresh THEN 1 ELSE 0 BY <1>9
<1>13. i \in fresh => B[1] = [attempts |-> 1, lease |-> now + LeaseMs] OBVIOUS
<1> HIDE DEF A, B
<1>14. N \in Seq(Entry) /\ Len(N) = Len(A) + Len(B) BY <1>5, <1>11, <1>12, ConcatFacts
<1>15. \A k \in 1 .. Len(A) : N[k] = A[k] BY <1>5, <1>11, <1>12, ConcatFacts
<1>16. Len(B) = 1 => N[Len(A) + 1] = B[1] BY <1>5, <1>11, <1>12, ConcatFacts
<1>17. \A k \in 1 .. Len(K) : N[k] = E(k) BY <1>10, <1>11, <1>15
<1>18. \A k \in 1 .. Len(K) : /\ <<i, k>> \in again => N[k].lease = now + LeaseMs
                              /\ <<i, k>> \notin again => N[k] = K[k]
  <2> TAKE k \in 1 .. Len(K)
  <2>1. N[k] = E(k) BY <1>17
  <2>2. CASE <<i, k>> \in again
    <3>1. E(k) = [attempts |-> K[k].attempts + 1, lease |-> now + LeaseMs] BY <2>2 DEF E
    <3> QED BY <2>1, <2>2, <3>1
  <2>3. CASE <<i, k>> \notin again BY <2>1, <2>3 DEF E
  <2> QED BY <2>2, <2>3
<1>19. i \in fresh => Len(N) = Len(K) + 1 /\ N[Len(K) + 1].lease = now + LeaseMs
  BY <1>11, <1>12, <1>13, <1>14, <1>16
<1>20. i \notin fresh => Len(N) = Len(K) BY <1>4, <1>11, <1>12, <1>14
<1> QED BY <1>14, <1>18, <1>19, <1>20

\* The plan gives a group state, and every delivery has its entry there.
LEMMA PlanType ==
    ASSUME NEW s \in GroupState, NEW now \in Nat, NEW new \in SUBSET Ids
    PROVE  LET next == Planned(s, now, LeaseMs, MaxBatch, MaxAttempts, new) IN
           /\ next \in GroupState
           /\ PlanDead(s, now, MaxAttempts) \in SUBSET Ids
           /\ \A p \in PlanLeased(s, now, MaxBatch, MaxAttempts, new) :
                 /\ p[1] \in Ids /\ p[2] \in Nat
                 /\ next.flight[p[1]][p[2]] \in Entry
                 /\ next.flight[p[1]][p[2]].lease = now + LeaseMs
                 /\ p[2] \in 1 .. Len(next.flight[p[1]])
                 /\ \/ /\ p[1] \in PlanFresh(s, now, MaxBatch, MaxAttempts, new)
                       /\ p[2] = Len(Kept(s, p[1], now, MaxAttempts)) + 1
                    \/ /\ p[2] \in 1 .. Len(Kept(s, p[1], now, MaxAttempts))
                       /\ Kept(s, p[1], now, MaxAttempts)[p[2]].lease <= now
<1> DEFINE K(i) == Kept(s, i, now, MaxAttempts)
           again == PlanRedelivered(s, now, MaxBatch, MaxAttempts)
           fresh == PlanFresh(s, now, MaxBatch, MaxAttempts, new)
           next == Planned(s, now, LeaseMs, MaxBatch, MaxAttempts, new)
<1>1. next.hwm \in Nat /\ fresh \in SUBSET Ids BY FreshFacts
<1>2. \A i \in Ids : next.flight[i] \in Seq(Entry) BY PlanFlight
<1>3. next = [hwm |-> next.hwm, flight |-> [i \in Ids |-> next.flight[i]]]
  <2> DEFINE L == [attempts |-> 1, lease |-> now + LeaseMs]
             E(i, k) == IF <<i, k>> \in again
                        THEN [attempts |-> K(i)[k].attempts + 1, lease |-> now + LeaseMs]
                        ELSE K(i)[k]
             N(i) == [k \in DOMAIN K(i) |-> E(i, k)] \o (IF i \in fresh THEN <<L>> ELSE <<>>)
             top == IF fresh = {} THEN s.hwm ELSE Newest(fresh)
  <2>1. next = [hwm |-> top, flight |-> [i \in Ids |-> N(i)]] BY DEF Planned
  <2> HIDE DEF N, next, top
  <2> QED BY <2>1
<1>4. \A i \in Ids : K(i) \in Seq(Entry) BY KeptFacts
<1>5. /\ \A p \in again : \E i \in Ids : \E k \in 1 .. Len(K(i)) :
            p = <<i, k>> /\ K(i)[k].lease <= now
  BY RedeliveredFacts
<1>6. \A i \in Ids :
         /\ \A k \in 1 .. Len(K(i)) : <<i, k>> \in again => next.flight[i][k].lease = now + LeaseMs
         /\ i \in fresh => /\ Len(next.flight[i]) = Len(K(i)) + 1
                            /\ next.flight[i][Len(K(i)) + 1].lease = now + LeaseMs
         /\ i \notin fresh => Len(next.flight[i]) = Len(K(i))
  BY PlanFlight
<1>7. \A p \in PlanLeased(s, now, MaxBatch, MaxAttempts, new) :
         p \in again \/ \E i \in fresh : p = <<i, Len(K(i)) + 1>>
  BY DEF PlanLeased
<1> HIDE DEF K, again, fresh, next
<1>8. next \in GroupState
  <2>1. next.flight = [i \in Ids |-> next.flight[i]] BY <1>3
  <2>2. next.flight \in [Ids -> Seq(Entry)] BY <1>2, <2>1
  <2> QED BY <1>1, <1>3, <2>2 DEF GroupState
<1>9. \A i \in Ids : Len(K(i)) \in Nat /\ Len(next.flight[i]) \in Nat BY <1>2, <1>4
<1>10. ASSUME NEW p \in PlanLeased(s, now, MaxBatch, MaxAttempts, new)
       PROVE  /\ p[1] \in Ids /\ p[2] \in Nat
              /\ next.flight[p[1]][p[2]].lease = now + LeaseMs
              /\ p[2] \in 1 .. Len(next.flight[p[1]])
              /\ \/ p[1] \in fresh /\ p[2] = Len(K(p[1])) + 1
                 \/ p[2] \in 1 .. Len(K(p[1])) /\ K(p[1])[p[2]].lease <= now
  <2>1. CASE p \in again
    <3>0. PICK i \in Ids : \E k \in 1 .. Len(K(i)) : p = <<i, k>> /\ K(i)[k].lease <= now
      BY <1>5, <2>1
    <3>1. PICK k \in 1 .. Len(K(i)) : p = <<i, k>> /\ K(i)[k].lease <= now BY <3>0
    <3>2. p[1] = i /\ p[2] = k BY <3>1
    <3>3. next.flight[i][k].lease = now + LeaseMs BY <1>6, <2>1, <3>1
    <3> QED BY <1>6, <1>9, <3>1, <3>2, <3>3
  <2>2. CASE p \notin again
    <3>1. PICK i \in fresh : p = <<i, Len(K(i)) + 1>> BY <1>7, <1>10, <2>2
    <3>2. i \in Ids /\ p[1] = i /\ p[2] = Len(K(i)) + 1 BY <1>1, <3>1
    <3> QED BY <1>6, <1>9, <3>1, <3>2
  <2> QED BY <2>1, <2>2
<1>11. \A p \in PlanLeased(s, now, MaxBatch, MaxAttempts, new) :
          next.flight[p[1]][p[2]] \in Entry
  <2> TAKE p \in PlanLeased(s, now, MaxBatch, MaxAttempts, new)
  <2>1. p[1] \in Ids /\ p[2] \in 1 .. Len(next.flight[p[1]]) BY <1>10
  <2>2. PICK f \in Seq(Entry) : f = next.flight[p[1]] BY <1>2, <2>1
  <2> QED BY <2>1, <2>2
<1>12. PlanDead(s, now, MaxAttempts) \in SUBSET Ids BY DEF PlanDead
<1> QED BY <1>8, <1>10, <1>11, <1>12 DEF K, fresh, next

\* Nothing leaves the group: what was in flight is dead-lettered or still in flight,
\* and the high-water passes only new ids that are leased.
LEMMA PlanKeeps ==
    ASSUME NEW s \in GroupState, NEW now \in Nat, NEW new \in SUBSET Ids
    PROVE  LET next == Planned(s, now, LeaseMs, MaxBatch, MaxAttempts, new) IN
           /\ \A i \in InFlight(s) : i \in PlanDead(s, now, MaxAttempts) \/ i \in InFlight(next)
           /\ \A i \in new : i > s.hwm => i > next.hwm \/ i \in InFlight(next)
           /\ \A i \in InFlight(next) : i \in InFlight(s) \/ i \in new
           /\ s.hwm <= next.hwm /\ (next.hwm = s.hwm \/ next.hwm \in new)
           /\ PlanDead(s, now, MaxAttempts) \subseteq InFlight(s)
<1> DEFINE next == Planned(s, now, LeaseMs, MaxBatch, MaxAttempts, new)
           fresh == PlanFresh(s, now, MaxBatch, MaxAttempts, new)
           K(i) == Kept(s, i, now, MaxAttempts)
           Out(i, l) == Exhausted(s.flight[i][l], now, MaxAttempts)
<1>1. /\ fresh \subseteq new /\ next.hwm \in Nat
      /\ s.hwm <= next.hwm /\ (next.hwm = s.hwm \/ next.hwm \in new)
      /\ \A i \in new : i > s.hwm /\ i <= next.hwm => i \in fresh
  BY FreshFacts
<1>2. \A i \in Ids :
         /\ K(i) \in Seq(Entry) /\ Len(K(i)) <= Len(s.flight[i])
         /\ (\E l \in 1 .. Len(s.flight[i]) : ~Out(i, l)) => K(i) # <<>>
  BY KeptFacts
<1>3. \A i \in Ids :
         /\ next.flight[i] \in Seq(Entry)
         /\ i \in fresh => Len(next.flight[i]) = Len(K(i)) + 1
         /\ i \notin fresh => Len(next.flight[i]) = Len(K(i))
  BY PlanFlight
<1>4. \A i \in Ids :
         i \in PlanDead(s, now, MaxAttempts) <=> \E l \in 1 .. Len(s.flight[i]) : Out(i, l)
  BY FlightType DEF PlanDead
<1>5. \A i : i \in PlanDead(s, now, MaxAttempts) => i \in Ids BY DEF PlanDead
<1>6. \A i \in Ids : s.flight[i] \in Seq(Entry) BY FlightType
<1> HIDE DEF next, fresh, K, Out
<1>7. \A i \in Ids : /\ Len(s.flight[i]) \in Nat /\ Len(K(i)) \in Nat /\ Len(next.flight[i]) \in Nat
                     /\ s.flight[i] = <<>> <=> Len(s.flight[i]) = 0
                     /\ K(i) = <<>> <=> Len(K(i)) = 0
                     /\ next.flight[i] = <<>> <=> Len(next.flight[i]) = 0
  BY <1>2, <1>3, <1>6
<1>8. \A i \in InFlight(s) : i \in PlanDead(s, now, MaxAttempts) \/ i \in InFlight(next)
  <2> SUFFICES ASSUME NEW i \in Ids, s.flight[i] # <<>>, i \notin PlanDead(s, now, MaxAttempts)
               PROVE  next.flight[i] # <<>>
    BY DEF InFlight
  <2>1. 1 \in 1 .. Len(s.flight[i]) BY <1>7
  <2>2. ~Out(i, 1) BY <1>4, <2>1
  <2>3. K(i) # <<>> BY <1>2, <2>1, <2>2
  <2> QED BY <1>3, <1>7, <2>3
<1>9. ASSUME NEW i \in new, i > s.hwm PROVE i > next.hwm \/ i \in InFlight(next)
  <2>1. CASE i \in fresh
    <3>1. next.flight[i] # <<>> BY <1>3, <1>7, <2>1
    <3> QED BY <3>1 DEF InFlight
  <2>2. CASE i \notin fresh
    <3>1. i \in Nat BY IdsFacts
    <3> QED BY <1>1, <1>9, <2>2, <3>1
  <2> QED BY <2>1, <2>2
<1>10. ASSUME NEW i \in InFlight(next) PROVE i \in InFlight(s) \/ i \in new
  <2>1. i \in Ids /\ next.flight[i] # <<>> BY <1>10 DEF InFlight
  <2>2. i \in fresh \/ Len(K(i)) # 0 BY <1>3, <1>7, <2>1
  <2>3. i \in fresh \/ Len(s.flight[i]) # 0 BY <1>2, <1>7, <2>1, <2>2
  <2> QED BY <1>1, <1>7, <2>1, <2>3 DEF InFlight
<1>11. PlanDead(s, now, MaxAttempts) \subseteq InFlight(s)
  <2> SUFFICES ASSUME NEW i \in Ids, \E l \in 1 .. Len(s.flight[i]) : Out(i, l)
               PROVE  s.flight[i] # <<>>
    BY <1>4, <1>5 DEF InFlight
  <2> QED BY <1>7
<1> QED BY <1>1, <1>8, <1>9, <1>10, <1>11 DEF next

\* A delivery of an id that is in flight at most once: its lease was over, the entry
\* has the new one, and the id is not delivered twice.
LEMMA PlanSingle ==
    ASSUME NEW s \in GroupState, NEW now \in Nat, NEW new \in SUBSET Ids, NEW i \in Ids,
           Single(s, i)
    PROVE  LET next == Planned(s, now, LeaseMs, MaxBatch, MaxAttempts, new) IN
           /\ Single(next, i)
           /\ i <= s.hwm /\ next.flight[i] # <<>> =>
                 s.flight[i] # <<>> /\ s.flight[i][1].lease <= next.flight[i][1].lease
           /\ \A p \in PlanLeased(s, now, MaxBatch, MaxAttempts, new) : p[1] = i =>
                 /\ p[2] = 1 /\ i <= next.hwm
                 /\ next.flight[i] # <<>> /\ next.flight[i][1].lease = now + LeaseMs
                 /\ i <= s.hwm => s.flight[i] # <<>> /\ s.flight[i][1].lease <= now
<1> DEFINE next == Planned(s, now, LeaseMs, MaxBatch, MaxAttempts, new)
           fresh == PlanFresh(s, now, MaxBatch, MaxAttempts, new)
           again == PlanRedelivered(s, now, MaxBatch, MaxAttempts)
           leased == PlanLeased(s, now, MaxBatch, MaxAttempts, new)
           K == Kept(s, i, now, MaxAttempts)
           F == s.flight[i]
           N == next.flight[i]
<1>1. /\ \A k \in fresh : k > s.hwm /\ k <= next.hwm
      /\ s.hwm <= next.hwm /\ next.hwm \in Nat
  BY FreshFacts
<1>2. /\ K \in Seq(Entry) /\ Len(K) <= Len(F)
      /\ \A k \in 1 .. Len(K) : \E l \in 1 .. Len(F) : K[k] = F[l]
  BY KeptFacts
<1>3. /\ N \in Seq(Entry)
      /\ i \in fresh => Len(N) = Len(K) + 1
      /\ i \notin fresh => Len(N) = Len(K)
      /\ \A k \in 1 .. Len(K) :
            /\ <<i, k>> \in again => N[k].lease = now + LeaseMs
            /\ <<i, k>> \notin again => N[k] = K[k]
  BY PlanFlight
<1>4. /\ F \in Seq(Entry) /\ Len(F) \in Nat /\ s.hwm \in Nat
      /\ F # <<>> => F[1].lease \in Nat
  BY FlightType
<1>5. Len(F) <= 1 /\ (F # <<>> => i <= s.hwm) BY DEF Single
<1>6. \A p \in leased : p[1] = i =>
         /\ N[p[2]].lease = now + LeaseMs
         /\ \/ i \in fresh /\ p[2] = Len(K) + 1
            \/ p[2] \in 1 .. Len(K) /\ K[p[2]].lease <= now
  BY PlanType
<1>7. \A p \in again : \E j \in Ids :
         \E k \in 1 .. Len(Kept(s, j, now, MaxAttempts)) :
            p = <<j, k>> /\ Kept(s, j, now, MaxAttempts)[k].lease <= now
  BY RedeliveredFacts
<1>8. <<i, 1>> \in again => K[1].lease <= now
  <2> SUFFICES ASSUME <<i, 1>> \in again PROVE K[1].lease <= now OBVIOUS
  <2>1. \E j \in Ids : \E k \in 1 .. Len(Kept(s, j, now, MaxAttempts)) :
           <<i, 1>> = <<j, k>> /\ Kept(s, j, now, MaxAttempts)[k].lease <= now
    BY <1>7
  <2> QED BY <2>1
<1>9. i \in Nat /\ LeaseMs \in Nat
  BY IdsFacts, GroupLogAssumption DEF GroupLogAssumption
<1> HIDE DEF next, fresh, again, leased, K, F, N
<1>10. /\ Len(K) \in Nat /\ Len(N) \in Nat
       /\ F = <<>> <=> Len(F) = 0 
       /\ K = <<>> <=> Len(K) = 0 
       /\ N = <<>> <=> Len(N) = 0
  BY <1>2, <1>3, <1>4
<1>11. i \in fresh => Len(F) = 0 /\ Len(K) = 0 /\ ~(i <= s.hwm)
  BY <1>1, <1>2, <1>4, <1>5, <1>9, <1>10
<1>12. Len(K) = 1 => K[1] = F[1] /\ Len(F) = 1
  <2> SUFFICES ASSUME Len(K) = 1 PROVE K[1] = F[1] /\ Len(F) = 1 OBVIOUS
  <2>1. Len(F) = 1 BY <1>2, <1>4, <1>5
  <2>2. PICK l \in 1 .. Len(F) : K[1] = F[l] BY <1>2
  <2> QED BY <2>1, <2>2
<1>13. Len(N) <= 1 BY <1>2, <1>3, <1>4, <1>5, <1>10, <1>11
<1>14. N # <<>> => i <= next.hwm
  <2>1. CASE i \in fresh BY <1>1, <2>1
  <2>2. CASE i \notin fresh
    <3>1. N # <<>> => F # <<>> BY <1>2, <1>3, <1>4, <1>10, <2>2
    <3> QED BY <1>1, <1>4, <1>5, <1>9, <3>1
  <2> QED BY <2>1, <2>2
<1>15. ASSUME i <= s.hwm, N # <<>> PROVE F # <<>> /\ F[1].lease <= N[1].lease
  <2>1. i \notin fresh BY <1>11, <1>15
  <2>2. Len(K) = 1 /\ Len(F) = 1 /\ K[1] = F[1]
    BY <1>2, <1>3, <1>4, <1>5, <1>10, <1>12, <1>15, <2>1
  <2>3. /\ <<i, 1>> \in again => N[1].lease = now + LeaseMs
        /\ <<i, 1>> \notin again => N[1] = K[1]
    BY <1>3, <2>2
  <2>4. F # <<>> /\ F[1].lease \in Nat BY <1>4, <1>10, <2>2
  <2>5. CASE <<i, 1>> \in again
    <3>1. F[1].lease <= now /\ N[1].lease = now + LeaseMs BY <1>8, <2>2, <2>3, <2>5
    <3> QED BY <1>9, <2>4, <3>1
  <2>6. CASE <<i, 1>> \notin again BY <2>2, <2>3, <2>4, <2>6
  <2> QED BY <2>5, <2>6
<1>16. ASSUME NEW p \in leased, p[1] = i
       PROVE  /\ p[2] = 1 /\ i <= next.hwm
              /\ N # <<>> /\ N[1].lease = now + LeaseMs
              /\ i <= s.hwm => F # <<>> /\ F[1].lease <= now
  <2>1. N[p[2]].lease = now + LeaseMs BY <1>6, <1>16
  <2>2. CASE i \in fresh /\ p[2] = Len(K) + 1
    <3>0. Len(K) = 0 BY <1>11, <2>2
    <3>1. p[2] = 1 /\ Len(N) = 1 BY <1>3, <2>2, <3>0
    <3>2. N # <<>> /\ N[1].lease = now + LeaseMs BY <1>10, <2>1, <3>1
    <3> QED BY <1>1, <1>11, <2>2, <3>1, <3>2
  <2>3. CASE p[2] \in 1 .. Len(K) /\ K[p[2]].lease <= now
    <3>1. Len(K) <= 1 /\ Len(K) \in Nat BY <1>2, <1>4, <1>5, <1>10
    <3>2. PICK n \in Nat : n = Len(K) BY <3>1
    <3>3. n = 0 \/ n = 1 BY <3>1, <3>2
    <3>4. p[2] \in 1 .. n BY <2>3, <3>2
    <3>5. n = 1 /\ p[2] = 1 BY <3>3, <3>4
    <3>6. K[1] = F[1] /\ Len(F) = 1 BY <1>12, <3>2, <3>5
    <3>7. Len(N) # 0 BY <1>3, <3>2, <3>5
    <3>8. F # <<>> /\ N # <<>> BY <1>10, <3>6, <3>7
    <3> QED BY <1>14, <2>1, <2>3, <3>5, <3>6, <3>8
  <2> QED BY <1>6, <1>16, <2>2, <2>3
<1> QED BY <1>13, <1>14, <1>15, <1>16 DEF Single, next, leased, F, N


-----------------------------------------------------------------------------
(* Types. *)

\* What a job of each stage has read.
LEMMA JobFields ==
    ASSUME NEW j \in Job
    PROVE  /\ j.stage \in {"load", "plain", "cache", "gate", "commit"} => j.id \in Ids
           /\ j.stage = "cache" => j.has \in BOOLEAN
           /\ j.stage = "commit" => j.cur \in Nat
           /\ j.stage \in {"probe", "scan"} =>
                 j.group \in Groups /\ j.now \in Nat /\ j.state \in GroupState
           /\ j.stage = "bury" => /\ j.group \in Groups /\ j.state \in GroupState
                                  /\ j.todo \in SUBSET Ids /\ j.recs \in SUBSET Handle
           /\ j.stage = "quarantine" => j.group \in Groups /\ j.id \in Ids
           /\ j.stage \in {"rewait", "redrive", "unpin"} =>
                 j.filtered \in BOOLEAN /\ j.todo \in SUBSET (Groups \X Ids)
           /\ j.stage = "unpin" => j.pair \in Groups \X Ids
           /\ j.stage = "discard" => j.todo \in SUBSET (Groups \X Ids)
           /\ j.stage = "delete" => j.group \in Groups /\ j.todo \in SUBSET Ids
           /\ j.stage \in {"sweep", "unlog"} => j.todo \in SUBSET Ids
BY DEF Job

\* A job of each stage, from what it has read.
LEMMA JobMade ==
    /\ IdleJob \in Job
    /\ \A i \in Ids : /\ [stage |-> "load", id |-> i] \in Job
                      /\ [stage |-> "plain", id |-> i] \in Job
                      /\ [stage |-> "gate", id |-> i] \in Job
                      /\ \A has \in BOOLEAN : [stage |-> "cache", id |-> i, has |-> has] \in Job
                      /\ \A n \in Nat : [stage |-> "commit", id |-> i, cur |-> n] \in Job
                      /\ \A g \in Groups : [stage |-> "quarantine", group |-> g, id |-> i] \in Job
    /\ \A g \in Groups, s \in GroupState :
          /\ \A now \in Nat :
                [stage |-> "probe", group |-> g, now |-> now, state |-> s] \in Job
          /\ \A todo \in SUBSET Ids, recs \in SUBSET Handle :
                [stage |-> "bury", group |-> g, state |-> s, todo |-> todo, recs |-> recs] \in Job
    /\ \A g \in Groups, todo \in SUBSET Ids : [stage |-> "delete", group |-> g, todo |-> todo] \in Job
    /\ \A todo \in SUBSET Ids : [stage |-> "sweep", todo |-> todo] \in Job
    /\ \A f \in BOOLEAN, todo \in SUBSET (Groups \X Ids) :
          /\ [stage |-> "rewait", filtered |-> f, todo |-> todo] \in Job
          /\ [stage |-> "redrive", filtered |-> f, todo |-> todo] \in Job
          /\ \A p \in Groups \X Ids :
                [stage |-> "unpin", filtered |-> f, todo |-> todo, pair |-> p] \in Job
    /\ \A todo \in SUBSET (Groups \X Ids) : [stage |-> "discard", todo |-> todo] \in Job
<1>1. IdleJob \in Job BY DEF Job, IdleJob
<1>2. ASSUME NEW i \in Ids
      PROVE  /\ [stage |-> "load", id |-> i] \in Job
             /\ [stage |-> "plain", id |-> i] \in Job
             /\ [stage |-> "gate", id |-> i] \in Job
             /\ \A has \in BOOLEAN : [stage |-> "cache", id |-> i, has |-> has] \in Job
             /\ \A n \in Nat : [stage |-> "commit", id |-> i, cur |-> n] \in Job
             /\ \A g \in Groups : [stage |-> "quarantine", group |-> g, id |-> i] \in Job
  BY <1>2 DEF Job
<1>3. ASSUME NEW g \in Groups, NEW s \in GroupState, NEW now \in Nat
      PROVE  [stage |-> "probe", group |-> g, now |-> now, state |-> s] \in Job
  BY <1>3 DEF Job
<1>4. ASSUME NEW g \in Groups, NEW s \in GroupState,
             NEW todo \in SUBSET Ids, NEW recs \in SUBSET Handle
      PROVE  [stage |-> "bury", group |-> g, state |-> s, todo |-> todo, recs |-> recs] \in Job
  BY <1>4 DEF Job
<1>5. ASSUME NEW g \in Groups, NEW todo \in SUBSET Ids
      PROVE  [stage |-> "delete", group |-> g, todo |-> todo] \in Job
  BY <1>5 DEF Job
<1>6. ASSUME NEW todo \in SUBSET Ids PROVE [stage |-> "sweep", todo |-> todo] \in Job
  BY <1>6 DEF Job
<1>7. ASSUME NEW f \in BOOLEAN, NEW todo \in SUBSET (Groups \X Ids)
      PROVE  /\ [stage |-> "rewait", filtered |-> f, todo |-> todo] \in Job
             /\ [stage |-> "redrive", filtered |-> f, todo |-> todo] \in Job
             /\ [stage |-> "discard", todo |-> todo] \in Job
  BY <1>7 DEF Job
<1>8. ASSUME NEW f \in BOOLEAN, NEW todo \in SUBSET (Groups \X Ids), NEW p \in Groups \X Ids
      PROVE  [stage |-> "unpin", filtered |-> f, todo |-> todo, pair |-> p] \in Job
  BY <1>8 DEF Job
<1> QED BY <1>1, <1>2, <1>3, <1>4, <1>5, <1>6, <1>7, <1>8

\* A job that goes on to its next stage, or to the rest of its work.
LEMMA JobMoved ==
    ASSUME NEW j \in Job
    PROVE  /\ j.stage = "probe" =>
                 /\ [j EXCEPT !.stage = "scan"] \in Job
                 /\ [j EXCEPT !.stage = "scan"].stage = "scan"
                 /\ [j EXCEPT !.stage = "scan"].group = j.group
                 /\ [j EXCEPT !.stage = "scan"].now = j.now
                 /\ [j EXCEPT !.stage = "scan"].state = j.state
           /\ j.stage = "sweep" =>
                 /\ [j EXCEPT !.stage = "unlog"] \in Job
                 /\ [j EXCEPT !.stage = "unlog"].stage = "unlog"
                 /\ [j EXCEPT !.stage = "unlog"].todo = j.todo
           /\ \A T \in SUBSET Ids :
                 /\ j.stage = "bury" =>
                       /\ [j EXCEPT !.todo = T] \in Job
                       /\ [j EXCEPT !.todo = T].stage = "bury"
                       /\ [j EXCEPT !.todo = T].group = j.group
                       /\ [j EXCEPT !.todo = T].state = j.state
                       /\ [j EXCEPT !.todo = T].todo = T
                       /\ [j EXCEPT !.todo = T].recs = j.recs
                 /\ j.stage = "delete" =>
                       /\ [j EXCEPT !.todo = T] \in Job
                       /\ [j EXCEPT !.todo = T].stage = "delete"
           /\ \A T \in SUBSET (Groups \X Ids) : j.stage = "discard" =>
                 /\ [j EXCEPT !.todo = T] \in Job
                 /\ [j EXCEPT !.todo = T].stage = "discard"
<1>1. CASE j.stage = "probe" BY <1>1 DEF Job
<1>2. CASE j.stage = "sweep" BY <1>2 DEF Job
<1>3. CASE j.stage = "bury" BY <1>3 DEF Job
<1>4. CASE j.stage = "delete" BY <1>4 DEF Job
<1>5. CASE j.stage = "discard" BY <1>5 DEF Job
<1> QED BY <1>1, <1>2, <1>3, <1>4, <1>5

LEMMA GotoType ==
    ASSUME TypeOK, NEW w \in Workers, NEW j \in Job, Goto(w, j)
    PROVE  /\ job' \in [Workers -> Job] /\ job'[w] = j
           /\ \A v \in Workers : v # w => job'[v] = job[v]
BY DEF TypeOK, Goto

\* A group state with other entries for one id.
Put(s, i, f) == [s EXCEPT !.flight[i] = f]

LEMMA PutFacts ==
    ASSUME NEW s \in GroupState, NEW i \in Ids, NEW f \in Seq(Entry)
    PROVE  /\ Put(s, i, f) \in GroupState /\ Put(s, i, f).hwm = s.hwm
           /\ Put(s, i, f).flight[i] = f
           /\ \A k \in Ids : k # i => Put(s, i, f).flight[k] = s.flight[k]
BY DEF Put, GroupState

LEMMA NewGroupFacts ==
    ASSUME NEW n \in Nat
    PROVE  /\ NewGroup(n) \in GroupState /\ NewGroup(n).hwm = n
           /\ NewGroup(n).flight = [i \in Ids |-> <<>>]
           /\ InFlight(NewGroup(n)) = {}
           /\ \A i \in Ids : NewGroup(n).flight[i] = <<>>
<1>1. <<>> \in Seq(Entry) OBVIOUS
<1> QED BY <1>1 DEF NewGroup, GroupState, InFlight

LEMMA StateType ==
    ASSUME TypeOK, NEW g \in Groups, gstate[g] # None
    PROVE  gstate[g] \in GroupState
BY DEF TypeOK

\* ack and dead_letter drop the entries of an id.
LEMMA DroppedFacts ==
    ASSUME TypeOK, NEW g \in Groups, NEW i \in Ids
    PROVE  /\ gstate[g] = None => Dropped(g, i) = gstate
           /\ gstate[g] # None =>
                 Dropped(g, i) = [gstate EXCEPT ![g] = Put(gstate[g], i, <<>>)]
           /\ Dropped(g, i) \in [Groups -> GroupState \cup {None}]
<1>1. gstate[g] = None => Dropped(g, i) = gstate BY DEF Dropped
<1>2. gstate[g] # None => Dropped(g, i) = [gstate EXCEPT ![g] = Put(gstate[g], i, <<>>)]
  BY DEF Dropped, Put
<1>3. <<>> \in Seq(Entry) OBVIOUS
<1>4. gstate[g] # None => Put(gstate[g], i, <<>>) \in GroupState
  BY <1>3, StateType, PutFacts
<1>5. gstate \in [Groups -> GroupState \cup {None}] BY DEF TypeOK
<1> QED BY <1>1, <1>2, <1>4, <1>5

\* nack_after gives the first entry another lease.
LEMMA NackFacts ==
    ASSUME NEW f \in Seq(Entry), f # <<>>, NEW n \in Nat
    PROVE  /\ [f EXCEPT ![1].lease = n] \in Seq(Entry)
           /\ [f EXCEPT ![1].lease = n] # <<>>
           /\ Len([f EXCEPT ![1].lease = n]) = Len(f)
<1>1. f[1] \in Entry /\ 1 \in 1 .. Len(f) /\ DOMAIN f = 1 .. Len(f) /\ Len(f) \in Nat OBVIOUS
<1>2. PICK e \in Entry : e = f[1] BY <1>1
<1>3. [e EXCEPT !.lease = n] \in Entry BY DEF Entry
<1>4. PICK d \in Entry : d = [f[1] EXCEPT !.lease = n] BY <1>2, <1>3
<1>5. [f EXCEPT ![1].lease = n] = [f EXCEPT ![1] = d] BY <1>4
<1>6. [f EXCEPT ![1] = d] \in Seq(Entry) /\ Len([f EXCEPT ![1] = d]) = Len(f) BY <1>1
<1>7. Len(f) # 0 OBVIOUS
<1> QED BY <1>5, <1>6, <1>7

LEMMA FromType == \A now, offset \in Nat : From(now, offset) \in Nat
BY DEF From


\* What a claim goes on with after its plan.
LEMMA SettleFacts ==
    ASSUME NEW w, NEW j \in Job, j.stage \in {"probe", "scan"}, NEW new \in SUBSET Ids,
           Settle(w, j, new)
    PROVE  LET next == Planned(j.state, j.now, LeaseMs, MaxBatch, MaxAttempts, new)
               leased == PlanLeased(j.state, j.now, MaxBatch, MaxAttempts, new)
           IN \E k \in Job :
                 /\ Goto(w, k)
                 /\ \/ k = IdleJob
                    \/ /\ k.stage = "bury" /\ k.group = j.group /\ k.state = next
                       /\ k.todo = PlanDead(j.state, j.now, MaxAttempts)
                       /\ \A r \in k.recs : \E p \in leased :
                             r = [group |-> j.group, id |-> p[1],
                                  attempts |-> next.flight[p[1]][p[2]].attempts,
                                  until |-> j.now + LeaseMs, copy |-> p[2]]
<1> DEFINE next == Planned(j.state, j.now, LeaseMs, MaxBatch, MaxAttempts, new)
           leased == PlanLeased(j.state, j.now, MaxBatch, MaxAttempts, new)
           dead == PlanDead(j.state, j.now, MaxAttempts)
           H(p) == [group |-> j.group, id |-> p[1],
                    attempts |-> next.flight[p[1]][p[2]].attempts,
                    until |-> j.now + LeaseMs, copy |-> p[2]]
           recs == {H(p) : p \in {q \in leased : q[1] \in gpayload}}
           bury == [stage |-> "bury", group |-> j.group, state |-> next, todo |-> dead,
                    recs |-> recs]
<1>1. j.group \in Groups /\ j.now \in Nat /\ j.state \in GroupState BY JobFields
<1>2. /\ next \in GroupState /\ dead \in SUBSET Ids
      /\ \A p \in leased : /\ p[1] \in Ids /\ p[2] \in Nat
                           /\ next.flight[p[1]][p[2]] \in Entry
  BY <1>1, PlanType
<1>3. j.now + LeaseMs \in Nat BY <1>1, GroupLogAssumption DEF GroupLogAssumption
<1>4. Goto(w, IF gstate[j.group] # None /\ leased = {} /\ dead = {} THEN IdleJob ELSE bury)
  BY DEF Settle
<1> HIDE DEF next, leased, dead
<1>5. ASSUME NEW p \in leased PROVE H(p) \in Handle
  <2>1. next.flight[p[1]][p[2]].attempts \in Nat BY <1>2 DEF Entry
  <2> QED BY <1>1, <1>2, <1>3, <2>1 DEF Handle
<1>6. recs \in SUBSET Handle BY <1>5
<1>7. \A r \in recs : \E p \in leased : r = H(p) OBVIOUS
<1> HIDE DEF recs, H
<1>8. bury \in Job BY <1>1, <1>2, <1>6, JobMade
<1>9. /\ bury.stage = "bury" /\ bury.group = j.group /\ bury.state = next
      /\ bury.todo = dead /\ bury.recs = recs
  OBVIOUS
<1> HIDE DEF bury
<1>10. \E k \in Job : /\ Goto(w, k)
                      /\ \/ k = IdleJob
                         \/ /\ k.stage = "bury" /\ k.group = j.group /\ k.state = next
                            /\ k.todo = dead
                            /\ \A r \in k.recs : \E p \in leased : r = H(p)
  <2>1. CASE gstate[j.group] # None /\ leased = {} /\ dead = {}
    BY <1>4, <2>1, JobMade
  <2>2. CASE ~(gstate[j.group] # None /\ leased = {} /\ dead = {})
    <3>1. Goto(w, bury) BY <1>4, <2>2
    <3> QED BY <1>7, <1>8, <1>9, <3>1
  <2> QED BY <2>1, <2>2
<1> QED BY <1>10 DEF next, leased, dead, H

\* TypeOK but for the jobs.
StoreType ==
    /\ glog \subseteq Ids /\ gpayload \subseteq Ids /\ logmax \in Nat
    /\ gstate \in [Groups -> GroupState \cup {None}]
    /\ gdead \in [Groups -> SUBSET Ids]
    /\ paused \in BOOLEAN
    /\ cache \in {"unloaded", "grouped", "ungrouped"}
    /\ born \in [Ids -> Nat \cup {None}]
    /\ handles \subseteq Handle
    /\ clock \in Nat /\ calls \in Nat /\ crashes \in Nat
    /\ newest \in Nat
    /\ owed \in [Groups -> SUBSET Ids]
    /\ renewed \subseteq Groups \X Ids

LEMMA TypeParts == TypeOK <=> StoreType /\ job \in [Workers -> Job]
BY DEF TypeOK, StoreType

LEMMA HeldPairsType ==
    ASSUME NEW H \in SUBSET Handle
    PROVE  HeldPairs(H) \in SUBSET (Groups \X Ids)
BY DEF HeldPairs, Handle

LEMMA PublishTypes ==
    ASSUME TypeOK, NEW w \in Workers,
           Publish(w) \/ LoadList(w) \/ LoadCache(w) \/ GateRead(w) \/ PublishCommit(w) \/ PublishPlain(w)
    PROVE  TypeOK'
<1> USE DEF store, bounds, history
<1>1. job[w] \in Job /\ StoreType BY TypeParts DEF TypeOK
<1>2. ASSUME NEW i \in Ids, NEW has \in BOOLEAN, Retain(w, i, has)
      PROVE  job' \in [Workers -> Job] /\ gpayload' \subseteq Ids
  <2>1. \E k \in Job : Goto(w, k) BY <1>2, JobMade DEF Retain
  <2>2. job' \in [Workers -> Job] BY <2>1, GotoType
  <2> QED BY <1>1, <1>2, <2>2 DEF Retain, StoreType
<1>3. CASE Publish(w)
  <2> DEFINE left == {i \in Ids : born[i] = None}
  <2>1. PICK i \in Ids : /\ born' = [born EXCEPT ![i] = clock]
                         /\ IF cache = "unloaded"
                            THEN /\ Goto(w, [stage |-> "load", id |-> i])
                                 /\ UNCHANGED gpayload
                            ELSE Retain(w, i, cache = "grouped")
    <3>1. left # {} BY <1>3 DEF Publish
    <3>2. First(left) \in left BY <3>1, FirstIn
    <3> QED BY <1>3, <3>2 DEF Publish
  <2>2. job' \in [Workers -> Job] /\ gpayload' \subseteq Ids
    <3>1. CASE cache = "unloaded"
      <4>1. [stage |-> "load", id |-> i] \in Job BY JobMade
      <4> QED BY <1>1, <2>1, <3>1, <4>1, GotoType DEF StoreType
    <3>2. CASE cache # "unloaded"
      <4>1. Retain(w, i, cache = "grouped") BY <2>1, <3>2
      <4>2. (cache = "grouped") \in BOOLEAN OBVIOUS
      <4> QED BY <1>2, <4>1, <4>2
    <3> QED BY <3>1, <3>2
  <2>3. born' \in [Ids -> Nat \cup {None}] BY <1>1, <2>1 DEF StoreType
  <2>4. StoreType' BY <1>1, <1>3, <2>2, <2>3 DEF StoreType, Publish
  <2> QED BY <2>2, <2>4 DEF TypeOK, StoreType
<1>4. CASE LoadList(w)
  <2>1. PICK has \in BOOLEAN : Goto(w, [stage |-> "cache", id |-> job[w].id, has |-> has])
    BY <1>4 DEF LoadList
  <2>2. job[w].id \in Ids BY <1>1, <1>4, JobFields DEF LoadList
  <2>3. [stage |-> "cache", id |-> job[w].id, has |-> has] \in Job BY <2>2, JobMade
  <2>4. job' \in [Workers -> Job] BY <2>1, <2>3, GotoType
  <2> QED BY <1>1, <1>4, <2>4 DEF TypeOK, StoreType, LoadList
<1>5. CASE LoadCache(w)
  <2>1. job[w].id \in Ids /\ job[w].has \in BOOLEAN BY <1>1, <1>5, JobFields DEF LoadCache
  <2>2. job' \in [Workers -> Job] /\ gpayload' \subseteq Ids BY <1>2, <1>5, <2>1 DEF LoadCache
  <2>3. cache' \in {"unloaded", "grouped", "ungrouped"} BY <1>5 DEF LoadCache
  <2> QED BY <1>1, <1>5, <2>2, <2>3 DEF TypeOK, StoreType, LoadCache
<1>6. CASE GateRead(w)
  <2>1. job[w].id \in Ids BY <1>1, <1>6, JobFields DEF GateRead
  <2>2. [stage |-> "commit", id |-> job[w].id, cur |-> logmax] \in Job
    BY <1>1, <2>1, JobMade DEF StoreType
  <2>3. job' \in [Workers -> Job] BY <1>6, <2>2, GotoType DEF GateRead
  <2> QED BY <1>1, <1>6, <2>3 DEF TypeOK, StoreType, GateRead
<1>7. CASE PublishCommit(w)
  <2>1. job[w].id \in Ids /\ job[w].id \in Nat
    BY <1>1, <1>7, JobFields, IdsFacts DEF PublishCommit
  <2>2. job' \in [Workers -> Job] BY <1>7, JobMade, GotoType DEF PublishCommit
  <2>3. /\ glog' \subseteq Ids /\ logmax' \in Nat /\ newest' \in Nat
        /\ owed' \in [Groups -> SUBSET Ids]
    BY <1>1, <1>7, <2>1 DEF StoreType, PublishCommit
  <2> QED BY <1>1, <1>7, <2>2, <2>3 DEF TypeOK, StoreType, PublishCommit
<1>8. CASE PublishPlain(w)
  <2>1. job' \in [Workers -> Job] BY <1>8, JobMade, GotoType DEF PublishPlain
  <2> QED BY <1>1, <1>8, <2>1 DEF TypeOK, StoreType, PublishPlain
<1> QED BY <1>3, <1>4, <1>5, <1>6, <1>7, <1>8


LEMMA ClaimTypes ==
    ASSUME TypeOK, NEW w \in Workers,
           \/ \E g \in Groups, start \in Starts : ClaimGrouped(w, g, start)
           \/ ClaimGate(w) \/ ClaimScan(w) \/ ClaimBury(w) \/ ClaimPersist(w)
    PROVE  TypeOK'
<1> USE DEF store, bounds, history
<1>1. job[w] \in Job /\ StoreType BY TypeParts DEF TypeOK
<1>2. CASE \E g \in Groups, start \in Starts : ClaimGrouped(w, g, start)
  <2> SUFFICES ASSUME NEW g \in Groups, NEW start \in Starts, ClaimGrouped(w, g, start)
               PROVE  TypeOK'
    BY <1>2
  <2>1. cache' \in {"unloaded", "grouped", "ungrouped"}
    BY <1>1 DEF ClaimGrouped, MarkGrouped, StoreType
  <2>2. \E s \in GroupState :
           Goto(w, [stage |-> "probe", group |-> g, now |-> clock, state |-> s])
    <3>1. CASE gstate[g] # None
      <4>1. gstate[g] \in GroupState BY <3>1, StateType
      <4> QED BY <3>1, <4>1 DEF ClaimGrouped
    <3>2. CASE gstate[g] = None
      <4>1. (IF start = "latest" THEN logmax ELSE 0) \in Nat BY <1>1 DEF StoreType
      <4>2. NewGroup(IF start = "latest" THEN logmax ELSE 0) \in GroupState
        BY <4>1, NewGroupFacts
      <4> QED BY <3>2, <4>2 DEF ClaimGrouped
    <3> QED BY <3>1, <3>2
  <2>3. clock \in Nat BY <1>1 DEF StoreType
  <2>4. job' \in [Workers -> Job] BY <2>2, <2>3, JobMade, GotoType
  <2> QED BY <1>1, <2>1, <2>4 DEF TypeOK, StoreType, ClaimGrouped
<1>3. ASSUME NEW new \in SUBSET Ids, job[w].stage \in {"probe", "scan"}, Settle(w, job[w], new)
      PROVE  job' \in [Workers -> Job]
  <2>1. \E k \in Job : Goto(w, k) BY <1>1, <1>3, SettleFacts
  <2> QED BY <2>1, GotoType
<1>4. CASE ClaimGate(w)
  <2>1. CASE job[w].state.hwm < logmax
    <3>1. [job[w] EXCEPT !.stage = "scan"] \in Job BY <1>1, <1>4, JobMoved DEF ClaimGate
    <3>2. job' \in [Workers -> Job] BY <1>4, <2>1, <3>1, GotoType DEF ClaimGate
    <3> QED BY <1>1, <1>4, <3>2 DEF TypeOK, StoreType, ClaimGate
  <2>2. CASE ~(job[w].state.hwm < logmax)
    <3>1. Settle(w, job[w], {}) BY <1>4, <2>2 DEF ClaimGate
    <3>2. job' \in [Workers -> Job] BY <1>3, <1>4, <3>1 DEF ClaimGate
    <3> QED BY <1>1, <1>4, <3>2 DEF TypeOK, StoreType, ClaimGate
  <2> QED BY <2>1, <2>2
<1>5. CASE ClaimScan(w)
  <2> DEFINE new == Oldest({i \in glog : i > job[w].state.hwm}, MaxBatch)
  <2>1. new \in SUBSET Ids BY <1>1 DEF Oldest, StoreType
  <2>2. Settle(w, job[w], new) /\ job[w].stage = "scan" BY <1>5 DEF ClaimScan
  <2>3. job' \in [Workers -> Job] BY <1>3, <2>1, <2>2
  <2> QED BY <1>1, <1>5, <2>3 DEF TypeOK, StoreType, ClaimScan
<1>6. CASE ClaimBury(w)
  <2>1. job[w].group \in Groups /\ job[w].todo \in SUBSET Ids /\ job[w].todo # {}
    BY <1>1, <1>6, JobFields DEF ClaimBury
  <2>2. First(job[w].todo) \in Ids BY <2>1, FirstIn
  <2>3. gdead' \in [Groups -> SUBSET Ids] BY <1>1, <1>6, <2>1, <2>2 DEF StoreType, ClaimBury
  <2>4. [job[w] EXCEPT !.todo = @ \ {First(job[w].todo)}] \in Job
    BY <1>1, <1>6, <2>1, JobMoved DEF ClaimBury
  <2>5. job' \in [Workers -> Job] BY <1>6, <2>4, GotoType DEF ClaimBury
  <2> QED BY <1>1, <1>6, <2>3, <2>5 DEF TypeOK, StoreType, ClaimBury
<1>7. CASE ClaimPersist(w)
  <2>1. /\ job[w].group \in Groups /\ job[w].state \in GroupState
        /\ job[w].recs \in SUBSET Handle
    BY <1>1, <1>7, JobFields DEF ClaimPersist
  <2>2. gstate' \in [Groups -> GroupState \cup {None}]
    BY <1>1, <1>7, <2>1 DEF StoreType, ClaimPersist
  <2>3. owed' \in [Groups -> SUBSET Ids] BY <1>1, <1>7, <2>1 DEF StoreType, ClaimPersist
  <2>4. handles' \subseteq Handle BY <1>1, <1>7, <2>1 DEF StoreType, ClaimPersist
  <2>5. job' \in [Workers -> Job] BY <1>7, JobMade, GotoType DEF ClaimPersist
  <2> QED BY <1>1, <1>7, <2>2, <2>3, <2>4, <2>5 DEF TypeOK, StoreType, ClaimPersist
<1> QED BY <1>2, <1>4, <1>5, <1>6, <1>7

\* The state of a group after a nack of one of its messages.
LEMMA NackState ==
    ASSUME TypeOK, NEW w, NEW h \in handles, NEW d \in NackDelays, Nack(w, h, d)
    PROVE  /\ gstate' \in [Groups -> GroupState \cup {None}]
           /\ \/ gstate' = gstate
              \/ /\ gstate[h.group] # None /\ h.id \in InFlight(gstate[h.group])
                 /\ \E f \in Seq(Entry) :
                       /\ f # <<>> /\ Len(f) = Len(gstate[h.group].flight[h.id])
                       /\ gstate' = [gstate EXCEPT ![h.group] = Put(gstate[h.group], h.id, f)]
<1> DEFINE g == h.group  i == h.id  s == gstate[g]
<1>1. h.group \in Groups /\ h.id \in Ids BY DEF TypeOK, Handle
<1>2. CASE s = None \/ i \notin InFlight(s) BY <1>2 DEF Nack, TypeOK
<1>3. CASE s # None /\ i \in InFlight(s)
  <2>1. s \in GroupState BY <1>1, <1>3, StateType
  <2>2. s.flight[i] \in Seq(Entry) BY <1>1, <2>1, FlightType
  <2>3. s.flight[i] # <<>> BY <1>3 DEF InFlight
  <2>4. From(clock, d) \in Nat
    <3>1. d \in Nat /\ clock \in Nat BY GroupLogAssumption DEF GroupLogAssumption, TypeOK
    <3> QED BY <3>1, FromType
  <2> DEFINE n == From(clock, d)
             f == [s.flight[i] EXCEPT ![1].lease = n]
  <2>5. gstate' = [gstate EXCEPT ![g].flight[i][1].lease = n] BY <1>3 DEF Nack
  <2> HIDE DEF n
  <2>6. f \in Seq(Entry) /\ f # <<>> /\ Len(f) = Len(s.flight[i])
    BY <2>2, <2>3, <2>4, NackFacts DEF n
  <2>7. [gstate EXCEPT ![g].flight[i][1].lease = n] = [gstate EXCEPT ![g] = Put(s, i, f)]
    BY DEF Put
  <2>8. Put(s, i, f) \in GroupState BY <1>1, <2>1, <2>6, PutFacts
  <2>9. gstate \in [Groups -> GroupState \cup {None}] BY DEF TypeOK
  <2> HIDE DEF f
  <2> QED BY <1>1, <1>3, <2>5, <2>6, <2>7, <2>8, <2>9
<1> QED BY <1>2, <1>3

LEMMA DisposeTypes ==
    ASSUME TypeOK, NEW w \in Workers,
           \/ \E h \in handles : Ack(w, h) \/ DeadLetter(w, h) \/ \E d \in NackDelays : Nack(w, h, d)
           \/ DeadLetterDrop(w)
    PROVE  TypeOK'
<1> USE DEF store, bounds, history
<1>1. job[w] \in Job /\ StoreType BY TypeParts DEF TypeOK
<1>2. \A h \in handles : h.group \in Groups /\ h.id \in Ids BY <1>1 DEF StoreType, Handle
<1>3. ASSUME NEW h \in handles, Ack(w, h) PROVE TypeOK'
  <2>1. gstate' \in [Groups -> GroupState \cup {None}] BY <1>2, <1>3, DroppedFacts DEF Ack
  <2>2. owed' \in [Groups -> SUBSET Ids] BY <1>1, <1>2, <1>3 DEF StoreType, Ack
  <2>3. handles' \subseteq Handle BY <1>1, <1>3 DEF StoreType, Ack
  <2> QED BY <1>1, <1>3, <2>1, <2>2, <2>3 DEF TypeOK, StoreType, Ack
<1>4. ASSUME NEW h \in handles, DeadLetter(w, h) PROVE TypeOK'
  <2>1. gdead' \in [Groups -> SUBSET Ids] BY <1>1, <1>2, <1>4 DEF StoreType, DeadLetter
  <2>2. handles' \subseteq Handle BY <1>1, <1>4 DEF StoreType, DeadLetter
  <2>3. [stage |-> "quarantine", group |-> h.group, id |-> h.id] \in Job BY <1>2, JobMade
  <2>4. job' \in [Workers -> Job] BY <1>4, <2>3, GotoType DEF DeadLetter
  <2> QED BY <1>1, <1>4, <2>1, <2>2, <2>4 DEF TypeOK, StoreType, DeadLetter
<1>5. ASSUME NEW h \in handles, NEW d \in NackDelays, Nack(w, h, d) PROVE TypeOK'
  <2>1. gstate' \in [Groups -> GroupState \cup {None}]
    BY <1>2, <1>5, NackState
  <2>2. handles' \subseteq Handle BY <1>1, <1>5 DEF StoreType, Nack
  <2>3. HeldPairs(handles \ {h}) \in SUBSET (Groups \X Ids)
    BY <1>1, HeldPairsType DEF StoreType
  <2>4. renewed' \subseteq Groups \X Ids BY <1>1, <1>5, <2>3 DEF StoreType, Nack
  <2> QED BY <1>1, <1>5, <2>1, <2>2, <2>4 DEF TypeOK, StoreType, Nack
<1>6. CASE DeadLetterDrop(w)
  <2>1. job[w].group \in Groups /\ job[w].id \in Ids
    BY <1>1, <1>6, JobFields DEF DeadLetterDrop
  <2>2. gstate' \in [Groups -> GroupState \cup {None}]
    BY <1>6, <2>1, DroppedFacts DEF DeadLetterDrop
  <2>3. job' \in [Workers -> Job] BY <1>6, JobMade, GotoType DEF DeadLetterDrop
  <2> QED BY <1>1, <1>6, <2>2, <2>3 DEF TypeOK, StoreType, DeadLetterDrop
<1> QED BY <1>3, <1>4, <1>5, <1>6


\* The state a redrive writes: the id is in flight once more, or still.
Base(g) == IF gstate[g] = None THEN NewGroup(logmax) ELSE gstate[g]
Armed(g, i) ==
    IF i \in InFlight(Base(g)) THEN Base(g)
    ELSE Put(Base(g), i, <<[attempts |-> 0, lease |-> 0]>>)

LEMMA ArmedFacts ==
    ASSUME TypeOK, NEW g \in Groups, NEW i \in Ids
    PROVE  /\ Base(g) \in GroupState /\ Armed(g, i) \in GroupState
           /\ Armed(g, i).hwm = Base(g).hwm
           /\ Armed(g, i).flight[i] # <<>>
           /\ i \notin InFlight(Base(g)) => Len(Armed(g, i).flight[i]) = 1
           /\ i \in InFlight(Base(g)) => Armed(g, i) = Base(g)
           /\ \A k \in Ids : k # i => Armed(g, i).flight[k] = Base(g).flight[k]
<1> DEFINE f == <<[attempts |-> 0, lease |-> 0]>>
<1>1. Base(g) \in GroupState
  <2>1. logmax \in Nat BY DEF TypeOK
  <2> QED BY <2>1, NewGroupFacts, StateType DEF Base
<1>2. f \in Seq(Entry) /\ f # <<>> /\ Len(f) = 1 BY DEF Entry
<1>3. CASE i \in InFlight(Base(g))
  <2>1. Armed(g, i) = Base(g) BY <1>3 DEF Armed
  <2>2. Base(g).flight[i] # <<>> BY <1>3 DEF InFlight
  <2> QED BY <1>1, <1>3, <2>1, <2>2
<1>4. CASE i \notin InFlight(Base(g))
  <2>1. Armed(g, i) = Put(Base(g), i, f) BY <1>4 DEF Armed
  <2> HIDE DEF f
  <2> QED BY <1>1, <1>2, <1>4, <2>1, PutFacts
<1> QED BY <1>3, <1>4

\* What a redrive of one dead letter does.
LEMMA RearmFacts ==
    ASSUME NEW w, NEW p \in Groups \X Ids, RedriveRearm(w, p)
    PROVE  /\ p[1] \in Groups /\ p[2] \in Ids /\ p = <<p[1], p[2]>>
           /\ job[w].stage \in {"redrive", "rewait"} /\ p \in job[w].todo
           /\ job[w].stage = "rewait" => ~Locked
           /\ \/ /\ Continue(w, TRUE, job[w].todo \ {p})
                 /\ UNCHANGED <<gstate, cache, owed, renewed>>
              \/ /\ gstate' = [gstate EXCEPT ![p[1]] = Armed(p[1], p[2])]
                 /\ cache' = IF gstate[p[1]] = None THEN "grouped" ELSE cache
                 /\ owed' = [owed EXCEPT ![p[1]] = @ \cup ({p[2]} \cap gpayload)]
                 /\ renewed' = IF p[2] > Base(p[1]).hwm THEN renewed \cup {p}
                               ELSE renewed \cup ({p} \cap HeldPairs(handles))
                 /\ Goto(w, [stage |-> "unpin", filtered |-> job[w].filtered,
                             todo |-> job[w].todo \ {p}, pair |-> p])
           /\ UNCHANGED <<glog, logmax, gpayload, gdead, paused, born, handles, bounds, newest>>
<1> DEFINE gone == job[w].filtered /\ p[2] \notin gdead[p[1]]
<1>1. p[1] \in Groups /\ p[2] \in Ids /\ p = <<p[1], p[2]>> OBVIOUS
<1>2. /\ job[w].stage \in {"redrive", "rewait"} /\ p \in job[w].todo
      /\ job[w].stage = "rewait" => ~Locked
      /\ UNCHANGED <<glog, logmax, gpayload, gdead, paused, born, handles, bounds, newest>>
  BY DEF RedriveRearm
<1>3. CASE gone
  <2>1. Continue(w, TRUE, job[w].todo \ {p}) /\ UNCHANGED <<gstate, cache, owed, renewed>>
    BY <1>3 DEF RedriveRearm
  <2> QED BY <1>1, <1>2, <2>1
<1>4. CASE ~gone
  <2>1. /\ gstate' = [gstate EXCEPT ![p[1]] = Armed(p[1], p[2])]
        /\ renewed' = IF p[2] > Base(p[1]).hwm THEN renewed \cup {p}
                      ELSE renewed \cup ({p} \cap HeldPairs(handles))
    BY <1>4 DEF RedriveRearm, Armed, Base, Put
  <2>2. /\ cache' = IF gstate[p[1]] = None THEN "grouped" ELSE cache
        /\ owed' = [owed EXCEPT ![p[1]] = @ \cup ({p[2]} \cap gpayload)]
        /\ Goto(w, [stage |-> "unpin", filtered |-> job[w].filtered,
                    todo |-> job[w].todo \ {p}, pair |-> p])
    BY <1>4 DEF RedriveRearm, MarkGrouped
  <2> QED BY <1>1, <1>2, <2>1, <2>2
<1> QED BY <1>3, <1>4

LEMMA ContinueFacts ==
    ASSUME NEW w, NEW f \in BOOLEAN, NEW todo \in SUBSET (Groups \X Ids), Continue(w, f, todo)
    PROVE  \E k \in Job : /\ Goto(w, k)
                          /\ \/ k = IdleJob
                             \/ k.stage = "redrive" /\ k.filtered = f /\ k.todo = todo
BY JobMade DEF Continue

LEMMA RedriveTypes ==
    ASSUME TypeOK, NEW w \in Workers,
           \/ \E f \in BOOLEAN, pairs \in SUBSET DeadPairs : Redrive(w, f, pairs)
           \/ \E pairs \in SUBSET DeadPairs : Discard(w, pairs)
           \/ \E p \in Groups \X Ids : RedriveRearm(w, p) \/ DiscardDelete(w, p)
           \/ RedriveUnpin(w)
    PROVE  TypeOK'
<1> USE DEF store, bounds, history
<1>1. job[w] \in Job /\ StoreType BY TypeParts DEF TypeOK
<1>2. ASSUME NEW f \in BOOLEAN, NEW pairs \in SUBSET DeadPairs, Redrive(w, f, pairs)
      PROVE  TypeOK'
  <2>1. pairs \in SUBSET (Groups \X Ids) BY DEF DeadPairs
  <2>2. [stage |-> "rewait", filtered |-> f, todo |-> pairs] \in Job BY <2>1, JobMade
  <2>3. job' \in [Workers -> Job] BY <1>2, <2>2, GotoType DEF Redrive
  <2> QED BY <1>1, <1>2, <2>3 DEF TypeOK, StoreType, Redrive, BeginOperator
<1>3. ASSUME NEW pairs \in SUBSET DeadPairs, Discard(w, pairs) PROVE TypeOK'
  <2>1. pairs \in SUBSET (Groups \X Ids) BY DEF DeadPairs
  <2>2. [stage |-> "discard", todo |-> pairs] \in Job BY <2>1, JobMade
  <2>3. job' \in [Workers -> Job] BY <1>3, <2>2, GotoType DEF Discard
  <2> QED BY <1>1, <1>3, <2>3 DEF TypeOK, StoreType, Discard, BeginOperator
<1>4. ASSUME NEW p \in Groups \X Ids, RedriveRearm(w, p) PROVE TypeOK'
  <2>1. /\ p[1] \in Groups /\ p[2] \in Ids
        /\ job[w].stage \in {"redrive", "rewait"}
        /\ \/ /\ Continue(w, TRUE, job[w].todo \ {p})
              /\ UNCHANGED <<gstate, cache, owed, renewed>>
           \/ /\ gstate' = [gstate EXCEPT ![p[1]] = Armed(p[1], p[2])]
              /\ cache' = IF gstate[p[1]] = None THEN "grouped" ELSE cache
              /\ owed' = [owed EXCEPT ![p[1]] = @ \cup ({p[2]} \cap gpayload)]
              /\ renewed' = IF p[2] > Base(p[1]).hwm THEN renewed \cup {p}
                            ELSE renewed \cup ({p} \cap HeldPairs(handles))
              /\ Goto(w, [stage |-> "unpin", filtered |-> job[w].filtered,
                          todo |-> job[w].todo \ {p}, pair |-> p])
        /\ UNCHANGED <<glog, logmax, gpayload, gdead, paused, born, handles, bounds, newest>>
    BY <1>4, RearmFacts
  <2>2. job[w].filtered \in BOOLEAN /\ job[w].todo \in SUBSET (Groups \X Ids)
    BY <1>1, <2>1, JobFields
  <2>3. CASE Continue(w, TRUE, job[w].todo \ {p}) /\ UNCHANGED <<gstate, cache, owed, renewed>>
    <3>1. \E k \in Job : Goto(w, k) BY <2>2, <2>3, ContinueFacts
    <3>2. job' \in [Workers -> Job] BY <3>1, GotoType
    <3> QED BY <1>1, <2>1, <2>3, <3>2 DEF TypeOK, StoreType
  <2>4. CASE /\ gstate' = [gstate EXCEPT ![p[1]] = Armed(p[1], p[2])]
             /\ cache' = IF gstate[p[1]] = None THEN "grouped" ELSE cache
             /\ owed' = [owed EXCEPT ![p[1]] = @ \cup ({p[2]} \cap gpayload)]
             /\ renewed' = IF p[2] > Base(p[1]).hwm THEN renewed \cup {p}
                           ELSE renewed \cup ({p} \cap HeldPairs(handles))
             /\ Goto(w, [stage |-> "unpin", filtered |-> job[w].filtered,
                         todo |-> job[w].todo \ {p}, pair |-> p])
    <3>1. [stage |-> "unpin", filtered |-> job[w].filtered,
           todo |-> job[w].todo \ {p}, pair |-> p] \in Job
      BY <2>2, JobMade
    <3>2. job' \in [Workers -> Job] BY <2>4, <3>1, GotoType
    <3>3. Armed(p[1], p[2]) \in GroupState BY <2>1, ArmedFacts
    <3>4. gstate' \in [Groups -> GroupState \cup {None}] BY <1>1, <2>4, <3>3 DEF StoreType
    <3>5. owed' \in [Groups -> SUBSET Ids] BY <1>1, <2>1, <2>4 DEF StoreType
    <3>6. renewed' \subseteq Groups \X Ids BY <1>1, <2>4 DEF StoreType
    <3>7. cache' \in {"unloaded", "grouped", "ungrouped"} BY <1>1, <2>4 DEF StoreType
    <3> QED BY <1>1, <2>1, <3>2, <3>4, <3>5, <3>6, <3>7 DEF TypeOK, StoreType
  <2> QED BY <2>1, <2>3, <2>4
<1>5. ASSUME NEW p \in Groups \X Ids, DiscardDelete(w, p) PROVE TypeOK'
  <2>1. p[1] \in Groups /\ p[2] \in Ids OBVIOUS
  <2>2. job[w].todo \in SUBSET (Groups \X Ids) BY <1>1, <1>5, JobFields DEF DiscardDelete
  <2>3. [job[w] EXCEPT !.todo = @ \ {p}] \in Job
    BY <1>1, <1>5, <2>2, JobMoved DEF DiscardDelete
  <2>4. \E k \in Job : Goto(w, k) BY <1>5, <2>3, JobMade DEF DiscardDelete
  <2>5. job' \in [Workers -> Job] BY <2>4, GotoType
  <2>6. gdead' \in [Groups -> SUBSET Ids] /\ owed' \in [Groups -> SUBSET Ids]
    BY <1>1, <1>5, <2>1 DEF StoreType, DiscardDelete
  <2> QED BY <1>1, <1>5, <2>5, <2>6 DEF TypeOK, StoreType, DiscardDelete
<1>6. CASE RedriveUnpin(w)
  <2>1. /\ job[w].filtered \in BOOLEAN /\ job[w].todo \in SUBSET (Groups \X Ids)
        /\ job[w].pair \in Groups \X Ids
    BY <1>1, <1>6, JobFields DEF RedriveUnpin
  <2>2. \E k \in Job : Goto(w, k) BY <1>6, <2>1, ContinueFacts DEF RedriveUnpin
  <2>3. job' \in [Workers -> Job] BY <2>2, GotoType
  <2>4. gdead' \in [Groups -> SUBSET Ids] BY <1>1, <1>6, <2>1 DEF StoreType, RedriveUnpin
  <2> QED BY <1>1, <1>6, <2>3, <2>4 DEF TypeOK, StoreType, RedriveUnpin
<1> QED BY <1>2, <1>3, <1>4, <1>5, <1>6

LEMMA OperatorTypes ==
    ASSUME TypeOK, NEW w \in Workers,
           \/ \E g \in Groups, start \in Starts : ResetGroup(w, g, start)
           \/ \E g \in Groups : DeleteGroup(w, g)
           \/ DeleteDead(w) \/ DeleteState(w) \/ Sweep(w) \/ SweepPayload(w) \/ SweepLog(w)
           \/ SetPaused(w) \/ RegisterElsewhere(w)
    PROVE  TypeOK'
<1> USE DEF store, bounds, history
<1>1. job[w] \in Job /\ StoreType BY TypeParts DEF TypeOK
<1>2. HeldPairs(handles) \in SUBSET (Groups \X Ids) BY <1>1, HeldPairsType DEF StoreType
<1>3. ASSUME NEW g \in Groups, NEW start \in Starts, ResetGroup(w, g, start) PROVE TypeOK'
  <2>1. (IF start = "latest" THEN logmax ELSE 0) \in Nat BY <1>1 DEF StoreType
  <2>2. NewGroup(IF start = "latest" THEN logmax ELSE 0) \in GroupState BY <2>1, NewGroupFacts
  <2>3. gstate' \in [Groups -> GroupState \cup {None}]
    BY <1>1, <1>3, <2>2 DEF StoreType, ResetGroup
  <2>4. owed' \in [Groups -> SUBSET Ids] /\ renewed' \subseteq Groups \X Ids
    BY <1>1, <1>2, <1>3 DEF StoreType, ResetGroup
  <2> QED BY <1>1, <1>3, <2>3, <2>4 DEF TypeOK, StoreType, ResetGroup, BeginOperator
<1>4. ASSUME NEW g \in Groups, DeleteGroup(w, g) PROVE TypeOK'
  <2>1. [stage |-> "delete", group |-> g, todo |-> gdead[g]] \in Job
    BY <1>1, JobMade DEF StoreType
  <2>2. job' \in [Workers -> Job] BY <1>4, <2>1, GotoType DEF DeleteGroup
  <2> QED BY <1>1, <1>4, <2>2 DEF TypeOK, StoreType, DeleteGroup, BeginOperator
<1>5. CASE DeleteDead(w)
  <2>1. job[w].group \in Groups /\ job[w].todo \in SUBSET Ids
    BY <1>1, <1>5, JobFields DEF DeleteDead
  <2>2. gdead' \in [Groups -> SUBSET Ids] /\ owed' \in [Groups -> SUBSET Ids]
    BY <1>1, <1>5, <2>1 DEF StoreType, DeleteDead
  <2>3. [job[w] EXCEPT !.todo = @ \ {First(job[w].todo)}] \in Job
    BY <1>1, <1>5, <2>1, JobMoved DEF DeleteDead
  <2>4. job' \in [Workers -> Job] BY <1>5, <2>3, GotoType DEF DeleteDead
  <2> QED BY <1>1, <1>5, <2>2, <2>4 DEF TypeOK, StoreType, DeleteDead
<1>6. CASE DeleteState(w)
  <2>1. job[w].group \in Groups BY <1>1, <1>6, JobFields DEF DeleteState
  <2>2. gstate' \in [Groups -> GroupState \cup {None}] BY <1>1, <1>6, <2>1 DEF StoreType, DeleteState
  <2>3. owed' \in [Groups -> SUBSET Ids] /\ renewed' \subseteq Groups \X Ids
    BY <1>1, <1>2, <1>6, <2>1 DEF StoreType, DeleteState
  <2>4. job' \in [Workers -> Job] BY <1>6, JobMade, GotoType DEF DeleteState
  <2> QED BY <1>1, <1>6, <2>2, <2>3, <2>4 DEF TypeOK, StoreType, DeleteState
<1>7. CASE Sweep(w)
  <2> DEFINE victims == {i \in glog : Reclaimable(i)}
  <2>1. victims \in SUBSET Ids BY <1>1 DEF StoreType
  <2>2. [stage |-> "sweep", todo |-> victims] \in Job BY <2>1, JobMade
  <2>3. job' \in [Workers -> Job] BY <1>7, <2>2, GotoType DEF Sweep
  <2>4. owed' \in [Groups -> SUBSET Ids] BY <1>1, <1>7 DEF StoreType, Sweep
  <2> QED BY <1>1, <1>7, <2>3, <2>4 DEF TypeOK, StoreType, Sweep, BeginOperator
<1>8. CASE SweepPayload(w)
  <2>1. [job[w] EXCEPT !.stage = "unlog"] \in Job BY <1>1, <1>8, JobMoved DEF SweepPayload
  <2>2. job' \in [Workers -> Job] BY <1>8, <2>1, GotoType DEF SweepPayload
  <2> QED BY <1>1, <1>8, <2>2 DEF TypeOK, StoreType, SweepPayload
<1>9. CASE SweepLog(w)
  <2>1. job[w].todo \in SUBSET Ids BY <1>1, <1>9, JobFields DEF SweepLog
  <2>2. \E k \in Job : Goto(w, k) BY <1>9, <2>1, JobMade DEF SweepLog
  <2>3. job' \in [Workers -> Job] BY <2>2, GotoType
  <2> QED BY <1>1, <1>9, <2>3 DEF TypeOK, StoreType, SweepLog
<1>10. CASE SetPaused(w)
  BY <1>1, <1>10 DEF TypeOK, StoreType, SetPaused, BeginOperator
<1>11. CASE RegisterElsewhere(w)
  BY <1>1, <1>11 DEF TypeOK, StoreType, RegisterElsewhere, BeginOperator
<1> QED BY <1>3, <1>4, <1>5, <1>6, <1>7, <1>8, <1>9, <1>10, <1>11

LEMMA TypeInit == Init => TypeOK
<1> SUFFICES ASSUME Init PROVE TypeOK OBVIOUS
<1>1. IdleJob \in Job BY JobMade
<1>2. job \in [Workers -> Job] BY <1>1 DEF Init
<1>3. StoreType BY DEF Init, StoreType
<1> QED BY <1>2, <1>3, TypeParts

LEMMA TypeNext == TypeOK /\ [Next]_vars => TypeOK'
<1> SUFFICES ASSUME TypeOK, [Next]_vars PROVE TypeOK' OBVIOUS
<1>1. ASSUME NEW w \in Workers, Call(w) PROVE TypeOK'
  BY <1>1, PublishTypes, ClaimTypes, DisposeTypes, RedriveTypes, OperatorTypes DEF Call
<1>2. ASSUME NEW w \in Workers, Step(w) PROVE TypeOK'
  BY <1>2, PublishTypes, ClaimTypes, DisposeTypes, RedriveTypes, OperatorTypes DEF Step
<1>3. CASE Crash BY <1>3, JobMade DEF Crash, TypeOK, store, history
<1>4. CASE Tick BY <1>4 DEF Tick, TypeOK, store, history
<1>5. CASE UNCHANGED vars BY <1>5 DEF vars, TypeOK
<1> QED BY <1>1, <1>2, <1>3, <1>4, <1>5 DEF Next


-----------------------------------------------------------------------------
(* What a step of one call leaves to the others. *)

\* Every step: ids are committed in any order, and only payloads of ids that are
\* already committed are freed.
Grows == newest <= newest' /\ \A i \in gpayload : i <= newest' \/ i \in gpayload'

\* A step without the lock: it touches neither the group states nor the deliveries,
\* and what is owed stays in custody.
Unlocked ==
    /\ gstate' = gstate /\ handles' = handles /\ renewed' = renewed /\ clock <= clock'
    /\ newest <= newest' /\ glog \subseteq glog' /\ gpayload \subseteq gpayload'
    /\ \A g \in Groups :
          /\ gdead'[g] \subseteq gdead[g]
          /\ owed'[g] \cap gdead[g] \subseteq gdead'[g]
          /\ \A i \in owed'[g] \ owed[g] :
                i > newest /\ i \in glog' /\ i \in gpayload' /\ gstate[g] # None

\* The lock is the worker's, or can be.
HasLock(w) == job[w].stage \in LockStages \/ ~Locked

LEMMA UnlockedGrows == Unlocked => Grows
BY DEF Unlocked, Grows

\* A call without the lock relies only on what grows.
LEMMA FreeStays ==
    ASSUME TypeOK, TypeOK', Grows, NEW j \in Job, FreeJob(j)
    PROVE  FreeJob(j)'
<1>1. newest \in Nat /\ newest' \in Nat /\ newest <= newest' BY DEF TypeOK, Grows
<1>2. j.stage \in {"gate", "commit"} => j.id \in Nat BY JobFields, IdsFacts
<1>3. j.stage = "commit" => j.cur \in Nat BY JobFields
<1>4. j.stage = "rewait" => \A p \in j.todo : p[2] \in Nat BY JobFields, IdsFacts
<1>5. j.stage \in {"gate", "commit"} => (j.id <= newest \/ j.id \in gpayload)' 
  BY <1>1, <1>2 DEF FreeJob, Grows
<1>6. j.stage = "commit" => j.cur <= newest' BY <1>1, <1>3 DEF FreeJob
<1>7. j.stage = "rewait" => \A p \in j.todo : p[2] <= newest' BY <1>1, <1>4 DEF FreeJob
<1> QED BY <1>5, <1>6, <1>7 DEF FreeJob

LEMMA IdleOK == JobOK(IdleJob)
BY DEF JobOK, FreeJob, ProbeJob, BuryJob, HoldJob, IdleJob

LEMMA HandleFacts ==
    ASSUME TypeOK, NEW h \in handles
    PROVE  h.group \in Groups /\ h.id \in Ids /\ h.id \in Nat /\ h.until \in Nat
BY IdsFacts DEF TypeOK, Handle

\* A group state stays right while ids are committed.
LEMMA StateStays ==
    ASSUME TypeOK, TypeOK', NEW g \in Groups, NEW s \in GroupState, StateOK(g, s),
           newest <= newest', handles' \subseteq handles, renewed \subseteq renewed'
    PROVE  StateOK(g, s)'
<1>1. newest \in Nat /\ newest' \in Nat BY DEF TypeOK
<1>2. s.hwm \in Nat /\ \A i \in InFlight(s) : i \in Nat BY IdsFacts DEF GroupState, InFlight
<1>3. (s.hwm <= newest)' BY <1>1, <1>2 DEF StateOK
<1>4. Known(InFlight(s))' BY <1>1, <1>2 DEF StateOK, Known
<1>5. (\A i \in Ids : <<g, i>> \notin renewed => Single(s, i))' BY DEF StateOK, Single
<1>6. (\A h \in handles : h.group = g /\ <<g, h.id>> \notin renewed => Covers(s, h))'
  BY DEF StateOK, Covers
<1> QED BY <1>3, <1>4, <1>5, <1>6 DEF StateOK

\* What the holder of the lock relies on outlives a step without the lock.
LEMMA JobStays ==
    ASSUME TypeOK, TypeOK', Unlocked, NEW j \in Job, JobOK(j)
    PROVE  JobOK(j)'
<1>1. /\ newest \in Nat /\ newest' \in Nat /\ newest <= newest'
      /\ clock \in Nat /\ clock' \in Nat /\ clock <= clock'
  BY DEF TypeOK, Unlocked
<1>2. FreeJob(j)' BY UnlockedGrows, FreeStays DEF JobOK
<1>3. ProbeJob(j)'
  <2> SUFFICES ASSUME j.stage \in {"probe", "scan"} PROVE ProbeJob(j)' BY DEF ProbeJob
  <2>1. j.now \in Nat /\ j.state.hwm \in Nat BY JobFields DEF GroupState
  <2>2. ProbeJob(j) BY DEF JobOK
  <2>3. j.now <= clock' BY <1>1, <2>1, <2>2 DEF ProbeJob
  <2>4. gstate' = gstate BY DEF Unlocked
  <2>5. CASE gstate[j.group] # None BY <2>2, <2>3, <2>4, <2>5 DEF ProbeJob
  <2>6. CASE gstate[j.group] = None
    <3>1. j.state.flight = [i \in Ids |-> <<>>] /\ j.state.hwm <= newest
      BY <2>2, <2>6 DEF ProbeJob
    <3>2. j.state.hwm <= newest' BY <1>1, <2>1, <3>1
    <3> QED BY <2>3, <2>4, <2>6, <3>1, <3>2 DEF ProbeJob
  <2> QED BY <2>5, <2>6
<1>4. BuryJob(j)'
  <2> SUFFICES ASSUME j.stage = "bury" PROVE BuryJob(j)' BY DEF BuryJob
  <2>1. /\ j.group \in Groups /\ j.state \in GroupState /\ j.todo \in SUBSET Ids
        /\ j.recs \in SUBSET Handle
    BY JobFields
  <2>2. BuryJob(j) BY DEF JobOK
  <2>3. Known(j.todo)'
    <3>1. \A i \in j.todo : i \in Nat BY <2>1, IdsFacts
    <3> QED BY <1>1, <2>2, <3>1 DEF BuryJob, Known
  <2>4. StateOK(j.group, j.state)' BY <1>1, <2>1, <2>2, StateStays DEF BuryJob, Unlocked
  <2>5. (gstate[j.group] # None => \A i \in owed[j.group] :
            \/ i \in j.todo \/ i \in gdead[j.group] \/ i \in InFlight(j.state)
            \/ i > j.state.hwm /\ i \in glog)'
    <3> SUFFICES ASSUME gstate'[j.group] # None, NEW i \in owed'[j.group]
                 PROVE  \/ i \in j.todo \/ i \in gdead'[j.group] \/ i \in InFlight(j.state)
                        \/ (i > j.state.hwm /\ i \in glog')
      OBVIOUS
    <3>1. gstate[j.group] # None BY DEF Unlocked
    <3>2. CASE i \in owed[j.group]
      <4>1. \/ i \in j.todo \/ i \in gdead[j.group] \/ i \in InFlight(j.state)
            \/ (i > j.state.hwm /\ i \in glog)
        BY <2>2, <3>1, <3>2 DEF BuryJob
      <4>2. i \in gdead[j.group] => i \in gdead'[j.group] BY <2>1 DEF Unlocked
      <4>3. glog \subseteq glog' BY DEF Unlocked
      <4> QED BY <4>1, <4>2, <4>3
    <3>3. CASE i \notin owed[j.group]
      <4>1. i > newest /\ i \in glog' BY <2>1, <3>3 DEF Unlocked
      <4>2. j.state.hwm <= newest /\ j.state.hwm \in Nat
        BY <2>1, <2>2 DEF BuryJob, StateOK, GroupState
      <4>3. i \in Nat BY <4>1, IdsFacts DEF TypeOK
      <4> QED BY <1>1, <4>1, <4>2, <4>3
    <3> QED BY <3>2, <3>3
  <2>6. ASSUME NEW r \in j.recs
        PROVE  (/\ r.group = j.group /\ r.id <= newest
                /\ <<j.group, r.id>> \notin renewed =>
                      /\ Covers(j.state, r)
                      /\ \A h \in handles : h.group = j.group /\ h.id = r.id => h.until <= clock
                      /\ \A q \in j.recs : q.id = r.id => q = r)'
    <3>1. /\ r.group = j.group /\ r.id <= newest
          /\ <<j.group, r.id>> \notin renewed =>
                /\ Covers(j.state, r)
                /\ \A h \in handles : h.group = j.group /\ h.id = r.id => h.until <= clock
                /\ \A q \in j.recs : q.id = r.id => q = r
      BY <2>2 DEF BuryJob
    <3>2. r.id \in Nat BY <2>1, IdsFacts DEF Handle
    <3>3. r.id <= newest' BY <1>1, <3>1, <3>2
    <3>4. renewed' = renewed /\ handles' = handles BY DEF Unlocked
    <3>5. ASSUME NEW h \in handles, h.until <= clock PROVE h.until <= clock'
      <4>1. h.until \in Nat BY HandleFacts
      <4> QED BY <1>1, <3>5, <4>1
    <3> QED BY <3>1, <3>3, <3>4, <3>5 DEF Covers
  <2> QED BY <2>3, <2>4, <2>5, <2>6 DEF BuryJob
<1>5. HoldJob(j)'
  <2>1. HoldJob(j) BY DEF JobOK
  <2>2. ASSUME j.stage = "quarantine"
        PROVE  j.id <= newest' /\ (j.id \in owed'[j.group] => j.id \in gdead'[j.group])
    <3>1. j.group \in Groups /\ j.id \in Nat BY <2>2, JobFields, IdsFacts
    <3>2. j.id <= newest /\ (j.id \in owed[j.group] => j.id \in gdead[j.group])
      BY <2>1, <2>2 DEF HoldJob
    <3>3. j.id \in owed'[j.group] => j.id \in owed[j.group]
      BY <1>1, <3>1, <3>2 DEF Unlocked
    <3>4. j.id \in owed'[j.group] => j.id \in gdead'[j.group]
      BY <3>1, <3>2, <3>3 DEF Unlocked
    <3> QED BY <1>1, <3>1, <3>2, <3>4
  <2>3. ASSUME j.stage \in {"redrive", "unpin"} PROVE \A p \in j.todo : p[2] <= newest'
    <3>1. \A p \in j.todo : p[2] \in Nat BY <2>3, JobFields, IdsFacts
    <3> QED BY <1>1, <2>1, <2>3, <3>1 DEF HoldJob
  <2>4. ASSUME j.stage = "unpin"
        PROVE  (gstate[j.pair[1]] # None /\ j.pair[2] \in InFlight(gstate[j.pair[1]]))'
    BY <2>1, <2>4 DEF HoldJob, Unlocked
  <2>5. ASSUME j.stage \in {"sweep", "unlog"}
        PROVE  /\ j.todo # {} /\ Known(j.todo)'
               /\ \A g \in Groups : j.todo \cap gdead'[g] = {} /\ j.todo \cap owed'[g] = {}
    <3>1. /\ j.todo # {} /\ Known(j.todo)
          /\ \A g \in Groups : j.todo \cap gdead[g] = {} /\ j.todo \cap owed[g] = {}
      BY <2>1, <2>5 DEF HoldJob
    <3>2. \A i \in j.todo : i \in Nat BY <2>5, JobFields, IdsFacts
    <3>3. Known(j.todo)' BY <1>1, <3>1, <3>2 DEF Known
    <3>4. \A g \in Groups : j.todo \cap gdead'[g] = {} BY <3>1 DEF Unlocked
    <3>5. ASSUME NEW g \in Groups, NEW i \in j.todo, i \in owed'[g] PROVE FALSE
      <4>1. i \notin owed[g] /\ i <= newest BY <3>1, <3>5 DEF Known
      <4>2. i > newest BY <3>5, <4>1 DEF Unlocked
      <4> QED BY <1>1, <3>2, <4>1, <4>2
    <3> QED BY <3>1, <3>3, <3>4, <3>5
  <2> QED BY <2>2, <2>3, <2>4, <2>5 DEF HoldJob
<1> QED BY <1>2, <1>3, <1>4, <1>5 DEF JobOK

\* The calls after a step of one of them.
LEMMA JobStep ==
    ASSUME IInv, TypeOK', NEW w \in Workers, NEW k \in Job, Goto(w, k), JobOK(k)', Grows,
           Unlocked \/ HasLock(w), k.stage \in LockStages => HasLock(w)
    PROVE  LockInv' /\ (\A v \in Workers : JobOK(job[v]))'
<1> USE DEF IInv
<1>1. job'[w] = k /\ \A v \in Workers : v # w => job'[v] = job[v] BY GotoType
<1>2. HasLock(w) => \A v \in Workers : v # w => job[v].stage \notin LockStages
  BY DEF HasLock, LockInv, Locked
<1>3. LockInv' BY <1>1, <1>2 DEF LockInv
<1>4. ASSUME NEW v \in Workers, v # w PROVE JobOK(job[v])'
  <2>1. job[v] \in Job /\ JobOK(job[v]) BY DEF TypeOK
  <2>2. PICK j \in Job : j = job[v] BY <2>1
  <2>3. JobOK(j) BY <2>1, <2>2
  <2>4. CASE Unlocked
    <3>1. JobOK(j)' BY <2>3, <2>4, JobStays
    <3>2. job'[v] = j BY <1>1, <1>4, <2>2
    <3> QED BY <3>1, <3>2
  <2>5. CASE HasLock(w)
    <3>1. j.stage \notin LockStages BY <1>2, <1>4, <2>2, <2>5
    <3>2. FreeJob(j) BY <2>3 DEF JobOK
    <3>3. FreeJob(j)' BY <3>2, FreeStays
    <3>4. JobOK(j)' BY <3>1, <3>3 DEF JobOK, ProbeJob, BuryJob, HoldJob, LockStages
    <3>5. job'[v] = j BY <1>1, <1>4, <2>2
    <3> QED BY <3>4, <3>5
  <2> QED BY <2>4, <2>5
<1>5. JobOK(job[w])' BY <1>1
<1> QED BY <1>3, <1>4, <1>5


-----------------------------------------------------------------------------
(* Steps that need no lock, or only take it. *)

StoreInv == KnownInv /\ GroupInv /\ GroupCustody /\ OneLease

\* A step without the lock keeps what the store promises.
LEMMA StoreStays ==
    ASSUME IInv, TypeOK', Unlocked, Known(glog)', logmax' <= newest'
    PROVE  StoreInv'
<1> USE DEF IInv
<1>1. /\ newest \in Nat /\ newest' \in Nat /\ newest <= newest'
      /\ clock \in Nat /\ clock' \in Nat /\ clock <= clock'
      /\ gstate' = gstate /\ handles' = handles /\ renewed' = renewed
  BY DEF TypeOK, Unlocked
<1>2. KnownInv'
  <2>1. (\A g \in Groups : Known(gdead[g]))'
    <3> SUFFICES ASSUME NEW g \in Groups, NEW i \in gdead'[g] PROVE i <= newest' BY DEF Known
    <3>1. i \in gdead[g] BY DEF Unlocked
    <3>2. i <= newest BY <3>1 DEF KnownInv, Known
    <3>3. i \in Nat BY <3>1, IdsFacts DEF TypeOK
    <3> QED BY <1>1, <3>2, <3>3
  <2>2. (\A h \in handles : h.id <= newest)'
    <3> SUFFICES ASSUME NEW h \in handles PROVE h.id <= newest' BY <1>1
    <3>1. h.id <= newest /\ h.id \in Nat BY HandleFacts DEF KnownInv
    <3> QED BY <1>1, <3>1
  <2> QED BY <2>1, <2>2 DEF KnownInv
<1>3. GroupInv'
  <2>1. (\A g \in Registered : StateOK(g, gstate[g]))'
    <3> SUFFICES ASSUME NEW g \in Groups, gstate'[g] # None PROVE StateOK(g, gstate[g])'
      BY DEF Registered
    <3>1. gstate[g] # None BY <1>1
    <3>2. PICK s \in GroupState : s = gstate[g] BY <3>1, StateType
    <3>3. StateOK(g, s) BY <3>1, <3>2 DEF GroupInv, Registered
    <3>4. StateOK(g, s)' BY <1>1, <3>3, StateStays
    <3>5. gstate'[g] = s BY <1>1, <3>2
    <3> QED BY <3>4, <3>5
  <2>2. (\A h \in handles : gstate[h.group] = None => <<h.group, h.id>> \in renewed)'
    BY <1>1 DEF GroupInv
  <2> QED BY <2>1, <2>2 DEF GroupInv
<1>4. GroupCustody'
  <2> SUFFICES ASSUME NEW g \in Groups, NEW i \in owed'[g] PROVE InCustody(g, i)'
    BY DEF GroupCustody
  <2>1. i \in Nat BY IdsFacts DEF TypeOK
  <2>2. CASE i \in owed[g]
    <3>1. InCustody(g, i) BY <2>2 DEF GroupCustody
    <3>2. i \in gdead[g] => i \in gdead'[g] BY DEF Unlocked
    <3>3. gpayload \subseteq gpayload' /\ glog \subseteq glog' BY DEF Unlocked
    <3> QED BY <1>1, <3>1, <3>2, <3>3 DEF InCustody
  <2>3. CASE i \notin owed[g]
    <3>1. i > newest /\ i \in glog' /\ i \in gpayload' /\ gstate[g] # None
      BY <2>3 DEF Unlocked
    <3>2. gstate[g].hwm <= newest /\ gstate[g].hwm \in Nat
      BY <3>1, StateType DEF GroupInv, StateOK, Registered, GroupState
    <3>3. i > gstate[g].hwm BY <1>1, <2>1, <3>1, <3>2
    <3> QED BY <1>1, <3>1, <3>3 DEF InCustody
  <2> QED BY <2>2, <2>3
<1>5. OneLease'
  <2> SUFFICES ASSUME NEW h \in handles, NEW k \in handles, h # k, h.group = k.group, h.id = k.id,
                      h.until > clock', k.until > clock'
               PROVE  <<h.group, h.id>> \in renewed
    BY <1>1 DEF OneLease
  <2>1. h.until \in Nat /\ k.until \in Nat BY HandleFacts
  <2>2. h.until > clock /\ k.until > clock BY <1>1, <2>1
  <2> QED BY <2>2 DEF OneLease
<1> QED BY <1>2, <1>3, <1>4, <1>5 DEF StoreInv

LEMMA UnlockedStep ==
    ASSUME IInv, TypeOK', NEW w \in Workers, NEW k \in Job, Goto(w, k), JobOK(k)', Unlocked,
           k.stage \in LockStages => HasLock(w), Known(glog)', logmax' <= newest'
    PROVE  IInv'
<1>1. StoreInv' BY StoreStays
<1>2. LockInv' /\ (\A v \in Workers : JobOK(job[v]))' BY JobStep, UnlockedGrows
<1> QED BY <1>1, <1>2 DEF IInv, StoreInv

LEMMA LockedStep ==
    ASSUME IInv, TypeOK', NEW w \in Workers, NEW k \in Job, Goto(w, k), JobOK(k)', Grows,
           HasLock(w), StoreInv'
    PROVE  IInv'
<1>1. LockInv' /\ (\A v \in Workers : JobOK(job[v]))' BY JobStep
<1> QED BY <1>1 DEF IInv, StoreInv

\* A step that holds the lock and works on one group.
LEMMA GroupStep ==
    ASSUME IInv, TypeOK', NEW w \in Workers, NEW k \in Job, Goto(w, k), JobOK(k)', HasLock(w),
           NEW g \in Groups, UNCHANGED <<glog, logmax, gpayload, clock, newest>>,
           renewed \subseteq renewed',
           \A q \in Groups : q # g =>
               gstate'[q] = gstate[q] /\ gdead'[q] = gdead[q] /\ owed'[q] = owed[q],
           Known(gdead'[g]),
           gstate'[g] # None => StateOK(g, gstate[g])',
           \A i \in owed'[g] : InCustody(g, i)',
           \A h \in handles' : h \in handles \/ (h.group = g /\ h.id <= newest),
           \A h \in handles' : h.group = g /\ gstate'[g] = None => <<g, h.id>> \in renewed',
           \A h, q \in handles' :
               h \notin handles /\ h # q /\ q.group = g /\ q.id = h.id
                   /\ h.until > clock /\ q.until > clock => <<g, h.id>> \in renewed'
    PROVE  IInv'
<1> USE DEF IInv
<1>1. /\ newest \in Nat /\ newest' = newest /\ clock' = clock
      /\ glog' = glog /\ logmax' = logmax /\ gpayload' = gpayload
  BY DEF TypeOK
<1>2. Grows BY <1>1 DEF Grows
<1>3. KnownInv'
  <2>1. (\A q \in Groups : Known(gdead[q]))'
    <3> SUFFICES ASSUME NEW q \in Groups, NEW i \in gdead'[q] PROVE i <= newest' BY DEF Known
    <3>1. CASE q = g BY <1>1, <3>1 DEF Known
    <3>2. CASE q # g
      <4>1. i \in gdead[q] BY <3>2
      <4> QED BY <1>1, <4>1 DEF KnownInv, Known
    <3> QED BY <3>1, <3>2
  <2>2. \A h \in handles' : h.id <= newest' BY <1>1 DEF KnownInv
  <2>3. Known(glog)' /\ logmax' <= newest' BY <1>1 DEF KnownInv, Known
  <2> QED BY <2>1, <2>2, <2>3 DEF KnownInv
<1>4. GroupInv'
  <2>1. ASSUME NEW q \in Groups, gstate'[q] # None PROVE StateOK(q, gstate[q])'
    <3>1. CASE q = g BY <2>1, <3>1
    <3>2. CASE q # g
      <4>1. gstate'[q] = gstate[q] BY <3>2
      <4>2. PICK s \in GroupState : s = gstate[q] BY <2>1, <4>1, StateType
      <4>3. StateOK(q, s) BY <2>1, <4>1, <4>2 DEF GroupInv, Registered
      <4>4. \A h \in handles' : h.group = q => h \in handles BY <3>2
      <4>5. StateOK(q, s)'
        BY <1>1, <4>3, <4>4 DEF StateOK, Known, Single, Covers
      <4>6. gstate'[q] = s BY <4>1, <4>2
      <4> QED BY <4>5, <4>6
    <3> QED BY <3>1, <3>2
  <2>2. ASSUME NEW h \in handles', gstate'[h.group] = None PROVE <<h.group, h.id>> \in renewed'
    <3>1. h.group \in Groups BY DEF TypeOK, Handle
    <3>2. CASE h.group = g BY <2>2, <3>2
    <3>3. CASE h.group # g
      <4>1. h \in handles /\ gstate[h.group] = None BY <2>2, <3>1, <3>3
      <4> QED BY <4>1 DEF GroupInv
    <3> QED BY <3>2, <3>3
  <2> QED BY <2>1, <2>2 DEF GroupInv, Registered
<1>5. GroupCustody'
  <2> SUFFICES ASSUME NEW q \in Groups, NEW i \in owed'[q] PROVE InCustody(q, i)'
    BY DEF GroupCustody
  <2>1. CASE q = g BY <2>1
  <2>2. CASE q # g
    <3>1. gstate'[q] = gstate[q] /\ gdead'[q] = gdead[q] /\ i \in owed[q] BY <2>2
    <3>2. InCustody(q, i) BY <3>1 DEF GroupCustody
    <3> QED BY <1>1, <3>1, <3>2 DEF InCustody
  <2> QED BY <2>1, <2>2
<1>6. OneLease'
  <2> SUFFICES ASSUME NEW h \in handles', NEW q \in handles', h # q, h.group = q.group,
                      h.id = q.id, h.until > clock', q.until > clock'
               PROVE  <<h.group, h.id>> \in renewed'
    BY DEF OneLease
  <2>1. CASE h \in handles /\ q \in handles BY <1>1, <2>1 DEF OneLease
  <2>2. CASE h \notin handles
    <3>1. h.group = g BY <2>2
    <3> QED BY <1>1, <2>2, <3>1
  <2>3. CASE q \notin handles
    <3>1. q.group = g BY <2>3
    <3> QED BY <1>1, <2>3, <3>1
  <2> QED BY <2>1, <2>2, <2>3
<1>7. StoreInv' BY <1>3, <1>4, <1>5, <1>6 DEF StoreInv
<1> QED BY <1>2, <1>7, LockedStep

\* A step that leaves the store, the deliveries and the clock alone.
LEMMA QuietStep ==
    ASSUME IInv, TypeOK', UNCHANGED <<glog, logmax, gstate, gdead, handles, clock, newest, renewed>>,
           gpayload \subseteq gpayload', \A g \in Groups : owed'[g] \subseteq owed[g]
    PROVE  Unlocked /\ Known(glog)' /\ logmax' <= newest'
<1>1. clock <= clock' /\ newest <= newest' BY DEF IInv, TypeOK
<1> QED BY <1>1 DEF Unlocked, Known, IInv, KnownInv

\* A call that does not hold the lock and knows nothing.
LEMMA PlainJob ==
    ASSUME NEW k, k.stage \in {"idle", "load", "plain", "cache", "discard", "delete"}
    PROVE  JobOK(k)'
BY DEF JobOK, FreeJob, ProbeJob, BuryJob, HoldJob

\* publish, up to its commit and after it.
LEMMA PublishNext ==
    ASSUME IInv, TypeOK', NEW w \in Workers,
           Publish(w) \/ LoadList(w) \/ LoadCache(w) \/ GateRead(w) \/ PublishCommit(w) \/ PublishPlain(w)
    PROVE  IInv'
<1> USE DEF store, bounds, history
<1>1. TypeOK /\ job[w] \in Job /\ JobOK(job[w]) BY DEF IInv, TypeOK
<1>2. ASSUME NEW i \in Ids, NEW has \in BOOLEAN, Retain(w, i, has)
      PROVE  /\ gpayload \subseteq gpayload'
             /\ \E k \in Job : Goto(w, k) /\ JobOK(k)' /\ k.stage \notin LockStages
  <2>1. gpayload \subseteq gpayload' BY <1>2 DEF Retain
  <2>2. CASE has
    <3>1. PICK k \in Job : k = [stage |-> "gate", id |-> i] BY JobMade
    <3>2. Goto(w, k) /\ i \in gpayload' BY <1>2, <2>2, <3>1 DEF Retain
    <3>3. JobOK(k)' BY <3>1, <3>2 DEF JobOK, FreeJob, ProbeJob, BuryJob, HoldJob
    <3> QED BY <2>1, <3>1, <3>2, <3>3 DEF LockStages
  <2>3. CASE ~has
    <3>1. PICK k \in Job : k = [stage |-> "plain", id |-> i] BY JobMade
    <3>2. Goto(w, k) BY <1>2, <2>3, <3>1 DEF Retain
    <3>3. JobOK(k)' BY <3>1, PlainJob
    <3> QED BY <2>1, <3>1, <3>2, <3>3 DEF LockStages
  <2> QED BY <2>2, <2>3
<1>3. CASE Publish(w)
  <2> DEFINE left == {i \in Ids : born[i] = None}
  <2>1. PICK i \in Ids : IF cache = "unloaded"
                         THEN /\ Goto(w, [stage |-> "load", id |-> i])
                              /\ UNCHANGED gpayload
                         ELSE Retain(w, i, cache = "grouped")
    <3>1. left # {} BY <1>3 DEF Publish
    <3>2. First(left) \in left BY <3>1, FirstIn
    <3> QED BY <1>3, <3>2 DEF Publish
  <2>2. /\ gpayload \subseteq gpayload'
        /\ \E k \in Job : Goto(w, k) /\ JobOK(k)' /\ k.stage \notin LockStages
    <3>1. CASE cache = "unloaded"
      <4>1. PICK k \in Job : k = [stage |-> "load", id |-> i] BY JobMade
      <4>2. Goto(w, k) /\ gpayload' = gpayload BY <2>1, <3>1, <4>1
      <4>3. JobOK(k)' BY <4>1, PlainJob
      <4> QED BY <4>1, <4>2, <4>3 DEF LockStages
    <3>2. CASE cache # "unloaded"
      <4>1. Retain(w, i, cache = "grouped") BY <2>1, <3>2
      <4>2. (cache = "grouped") \in BOOLEAN OBVIOUS
      <4> QED BY <1>2, <4>1, <4>2
    <3> QED BY <3>1, <3>2
  <2>3. Unlocked /\ Known(glog)' /\ logmax' <= newest' BY <1>3, <2>2, QuietStep DEF Publish
  <2> QED BY <2>2, <2>3, UnlockedStep
<1>4. CASE LoadList(w)
  <2>1. PICK has \in BOOLEAN : Goto(w, [stage |-> "cache", id |-> job[w].id, has |-> has])
    BY <1>4 DEF LoadList
  <2>2. job[w].id \in Ids BY <1>1, <1>4, JobFields DEF LoadList
  <2>3. PICK k \in Job : k = [stage |-> "cache", id |-> job[w].id, has |-> has]
    BY <2>2, JobMade
  <2>4. JobOK(k)' BY <2>3, PlainJob
  <2>5. Unlocked /\ Known(glog)' /\ logmax' <= newest' BY <1>4, QuietStep DEF LoadList
  <2>6. Goto(w, k) /\ k.stage \notin LockStages BY <2>1, <2>3 DEF LockStages
  <2> QED BY <2>4, <2>5, <2>6, UnlockedStep
<1>5. CASE LoadCache(w)
  <2>1. job[w].id \in Ids /\ job[w].has \in BOOLEAN BY <1>1, <1>5, JobFields DEF LoadCache
  <2>2. /\ gpayload \subseteq gpayload'
        /\ \E k \in Job : Goto(w, k) /\ JobOK(k)' /\ k.stage \notin LockStages
    BY <1>2, <1>5, <2>1 DEF LoadCache
  <2>3. Unlocked /\ Known(glog)' /\ logmax' <= newest' BY <1>5, <2>2, QuietStep DEF LoadCache
  <2> QED BY <2>2, <2>3, UnlockedStep
<1>6. CASE GateRead(w)
  <2>1. job[w].id \in Ids BY <1>1, <1>6, JobFields DEF GateRead
  <2>2. PICK k \in Job : k = [stage |-> "commit", id |-> job[w].id, cur |-> logmax]
    BY <1>1, <2>1, JobMade DEF TypeOK
  <2>3. k.id <= newest \/ k.id \in gpayload
    BY <1>1, <1>6, <2>2 DEF GateRead, JobOK, FreeJob
  <2>4. k.cur <= newest BY <2>2 DEF IInv, KnownInv
  <2>5. JobOK(k)'
    BY <1>6, <2>2, <2>3, <2>4 DEF GateRead, JobOK, FreeJob, ProbeJob, BuryJob, HoldJob
  <2>6. Unlocked /\ Known(glog)' /\ logmax' <= newest' BY <1>6, QuietStep DEF GateRead
  <2>7. Goto(w, k) /\ k.stage \notin LockStages BY <1>6, <2>2 DEF GateRead, LockStages
  <2> QED BY <2>5, <2>6, <2>7, UnlockedStep
<1>7. CASE PublishCommit(w)
  <2> DEFINE i == job[w].id
  <2>1. i \in Ids /\ i \in Nat BY <1>1, <1>7, JobFields, IdsFacts DEF PublishCommit
  <2>2. newest \in Nat /\ newest' = IF i > newest THEN i ELSE newest
    BY <1>1, <1>7 DEF PublishCommit, TypeOK
  <2>3. newest <= newest' /\ i <= newest' BY <2>1, <2>2
  <2>4. i <= newest \/ i \in gpayload BY <1>1, <1>7 DEF PublishCommit, JobOK, FreeJob
  <2>5. /\ glog' = glog \cup {i} /\ gpayload' = gpayload
        /\ gstate' = gstate /\ gdead' = gdead /\ handles' = handles /\ renewed' = renewed
        /\ clock' = clock
        /\ \A g \in Groups : owed'[g] = IF gstate[g] # None /\ i > newest
                                        THEN owed[g] \cup {i} ELSE owed[g]
    BY <1>7 DEF PublishCommit
  <2> HIDE DEF i
  <2>6. Unlocked
    <3>1. clock <= clock' BY <1>1, <2>5 DEF TypeOK
    <3>2. ASSUME NEW g \in Groups, NEW k \in owed'[g] \ owed[g]
          PROVE  k > newest /\ k \in glog' /\ k \in gpayload' /\ gstate[g] # None
      <4>1. k = i /\ i > newest /\ gstate[g] # None BY <2>5, <3>2
      <4> QED BY <2>1, <2>2, <2>4, <2>5, <4>1
    <3> QED BY <2>3, <2>5, <3>1, <3>2 DEF Unlocked
  <2>7. Known(glog)'
    <3> SUFFICES ASSUME NEW k \in glog' PROVE k <= newest' BY DEF Known
    <3>1. CASE k = i BY <2>3, <3>1
    <3>2. CASE k \in glog
      <4>1. k <= newest /\ k \in Nat BY <1>1, <3>2, IdsFacts DEF IInv, KnownInv, Known, TypeOK
      <4> QED BY <2>1, <2>2, <4>1
    <3> QED BY <2>5, <3>1, <3>2
  <2>8. logmax' <= newest'
    <3>1. logmax' = i \/ logmax' = logmax BY <1>7 DEF PublishCommit, i
    <3>2. logmax <= newest /\ logmax \in Nat BY <1>1 DEF IInv, KnownInv, TypeOK
    <3> QED BY <2>1, <2>2, <2>3, <3>1, <3>2
  <2>9. PICK k \in Job : k = IdleJob BY JobMade
  <2>10. Goto(w, k) /\ k.stage = "idle" BY <1>7, <2>9 DEF PublishCommit, IdleJob
  <2>11. JobOK(k)' BY <2>10, PlainJob
  <2> QED BY <2>6, <2>7, <2>8, <2>10, <2>11, UnlockedStep DEF LockStages
<1>8. CASE PublishPlain(w)
  <2>1. PICK k \in Job : k = IdleJob BY JobMade
  <2>2. Goto(w, k) /\ k.stage = "idle" BY <1>8, <2>1 DEF PublishPlain, IdleJob
  <2>3. JobOK(k)' BY <2>2, PlainJob
  <2>4. Unlocked /\ Known(glog)' /\ logmax' <= newest' BY <1>8, QuietStep DEF PublishPlain
  <2> QED BY <2>2, <2>3, <2>4, UnlockedStep DEF LockStages
<1> QED BY <1>3, <1>4, <1>5, <1>6, <1>7, <1>8


-----------------------------------------------------------------------------
(* claim_grouped *)

\* The state a claim has loaded, or made, is right.
LEMMA ProbeState ==
    ASSUME IInv, NEW j \in Job, j.stage \in {"probe", "scan"}, JobOK(j)
    PROVE  StateOK(j.group, j.state)
<1>1. j.group \in Groups /\ j.state \in GroupState BY JobFields
<1>2. ProbeJob(j) BY DEF JobOK
<1>3. CASE gstate[j.group] # None
  BY <1>1, <1>2, <1>3 DEF ProbeJob, IInv, GroupInv, Registered
<1>4. CASE gstate[j.group] = None
  <2>1. j.state.flight = [i \in Ids |-> <<>>] /\ j.state.hwm <= newest
    BY <1>2, <1>4 DEF ProbeJob
  <2>2. \A i \in Ids : j.state.flight[i] = <<>> BY <2>1
  <2>3. Known(InFlight(j.state)) BY <2>2 DEF Known, InFlight
  <2>4. \A i \in Ids : Single(j.state, i) BY <2>2 DEF Single
  <2>5. \A h \in handles : h.group = j.group => <<j.group, h.id>> \in renewed
    BY <1>4 DEF IInv, GroupInv
  <2> QED BY <2>1, <2>3, <2>4, <2>5 DEF StateOK
<1> QED BY <1>3, <1>4

\* The plan of a claim over a beginning of what is ahead in the log.
LEMMA PlanOK ==
    ASSUME IInv, NEW j \in Job, j.stage \in {"probe", "scan"}, JobOK(j),
           NEW new \in SUBSET glog,
           \A m \in new : \A i \in glog : i > j.state.hwm /\ i <= m => i \in new,
           NEW k \in Job, k.stage = "bury", k.group = j.group,
           k.state = Planned(j.state, j.now, LeaseMs, MaxBatch, MaxAttempts, new),
           k.todo = PlanDead(j.state, j.now, MaxAttempts),
           \A r \in k.recs : \E p \in PlanLeased(j.state, j.now, MaxBatch, MaxAttempts, new) :
              r = [group |-> j.group, id |-> p[1],
                   attempts |-> k.state.flight[p[1]][p[2]].attempts,
                   until |-> j.now + LeaseMs, copy |-> p[2]]
    PROVE  JobOK(k)
<1> DEFINE s == j.state  g == j.group  now == j.now  next == k.state
           leased == PlanLeased(s, now, MaxBatch, MaxAttempts, new)
<1>1. g \in Groups /\ s \in GroupState /\ now \in Nat /\ s.hwm \in Nat
  BY JobFields DEF GroupState
<1>2. TypeOK /\ newest \in Nat /\ clock \in Nat BY DEF IInv, TypeOK
<1>3. new \in SUBSET Ids /\ \A i \in new : i \in Nat BY <1>2, IdsFacts DEF TypeOK
<1>4. StateOK(g, s) BY ProbeState
<1>5. next \in GroupState /\ next.hwm \in Nat BY JobFields DEF GroupState
<1>6. /\ \A i \in InFlight(s) : i \in k.todo \/ i \in InFlight(next)
      /\ \A i \in new : i > s.hwm => (i > next.hwm \/ i \in InFlight(next))
      /\ \A i \in InFlight(next) : i \in InFlight(s) \/ i \in new
      /\ s.hwm <= next.hwm /\ (next.hwm = s.hwm \/ next.hwm \in new)
      /\ k.todo \subseteq InFlight(s)
  BY <1>1, <1>3, PlanKeeps
<1>7. \A i \in new : i <= newest BY DEF IInv, KnownInv, Known
<1>8. ASSUME NEW i \in Ids, <<g, i>> \notin renewed
      PROVE  /\ Single(next, i)
             /\ i <= s.hwm /\ next.flight[i] # <<>> =>
                   s.flight[i] # <<>> /\ s.flight[i][1].lease <= next.flight[i][1].lease
             /\ \A p \in leased : p[1] = i =>
                   /\ p[2] = 1 /\ i <= next.hwm
                   /\ next.flight[i] # <<>> /\ next.flight[i][1].lease = now + LeaseMs
                   /\ i <= s.hwm => s.flight[i] # <<>> /\ s.flight[i][1].lease <= now
  <2>1. Single(s, i) BY <1>4, <1>8 DEF StateOK
  <2> QED BY <1>1, <1>3, <2>1, PlanSingle
<1>9. \A p \in leased : p[1] \in Ids /\ p[2] \in Nat /\ p[2] \in 1 .. Len(next.flight[p[1]])
  BY <1>1, <1>3, PlanType
<1>10. ProbeJob(j) BY DEF JobOK
<1>11. /\ now <= clock
       /\ gstate[g] # None => s = gstate[g]
  BY <1>10 DEF ProbeJob
<1>12. \A r \in k.recs : \E p \in leased :
          r = [group |-> g, id |-> p[1], attempts |-> next.flight[p[1]][p[2]].attempts,
               until |-> now + LeaseMs, copy |-> p[2]]
  OBVIOUS
<1>13. now + LeaseMs \in Nat BY <1>1, GroupLogAssumption DEF GroupLogAssumption
<1> HIDE DEF s, g, now, next, leased
<1>14. Known(k.todo) BY <1>4, <1>6 DEF StateOK, Known
<1>15. Known(InFlight(next)) BY <1>4, <1>6, <1>7 DEF StateOK, Known
<1>16. ASSUME NEW h \in handles, h.group = g, <<g, h.id>> \notin renewed PROVE Covers(next, h)
  <2>1. Covers(s, h) BY <1>4, <1>16 DEF StateOK
  <2>2. h.id \in Ids /\ h.id \in Nat /\ h.until \in Nat BY <1>2, HandleFacts
  <2>3. h.id <= s.hwm BY <2>1 DEF Covers
  <2>4. h.id <= next.hwm BY <1>1, <1>5, <1>6, <2>2, <2>3
  <2>5. ASSUME next.flight[h.id] # <<>> PROVE h.until <= next.flight[h.id][1].lease
    <3>1. s.flight[h.id] # <<>> /\ s.flight[h.id][1].lease <= next.flight[h.id][1].lease
      BY <1>8, <1>16, <2>2, <2>3, <2>5
    <3>2. h.until <= s.flight[h.id][1].lease BY <2>1, <3>1 DEF Covers
    <3>3. s.flight[h.id][1].lease \in Nat BY <1>1, <2>2, <3>1, FlightType
    <3>4. next.flight[h.id][1].lease \in Nat BY <1>5, <2>2, <2>5, FlightType
    <3> QED BY <2>2, <3>1, <3>2, <3>3, <3>4
  <2> QED BY <2>4, <2>5 DEF Covers
<1>17. StateOK(g, next)
  <2>1. next.hwm <= newest BY <1>1, <1>2, <1>4, <1>5, <1>6, <1>7 DEF StateOK
  <2>2. \A i \in Ids : <<g, i>> \notin renewed => Single(next, i) BY <1>8
  <2> QED BY <1>15, <1>16, <2>1, <2>2 DEF StateOK
<1>18. ASSUME gstate[g] # None, NEW i \in owed[g]
       PROVE  \/ i \in k.todo \/ i \in gdead[g] \/ i \in InFlight(next)
              \/ (i > next.hwm /\ i \in glog)
  <2>1. InCustody(g, i) BY <1>1, <1>18 DEF IInv, GroupCustody
  <2>2. s = gstate[g] BY <1>11, <1>18
  <2>3. i \in gdead[g] \/ i \in InFlight(s) \/ (i > s.hwm /\ i \in glog)
    BY <2>1, <2>2 DEF InCustody
  <2>4. CASE i > s.hwm /\ i \in glog
    <3>1. i \in Nat BY <1>2, <2>4, IdsFacts DEF TypeOK
    <3>2. CASE i \in new BY <1>6, <2>4, <3>2
    <3>3. CASE i \notin new
      <4>1. next.hwm \in new => ~(i <= next.hwm) BY <2>4, <3>3 DEF s
      <4> QED BY <1>5, <1>6, <2>4, <3>1, <4>1
    <3> QED BY <3>2, <3>3
  <2> QED BY <1>6, <2>3, <2>4
<1>19. ASSUME NEW r \in k.recs
       PROVE  /\ r.group = g /\ r.id <= newest
              /\ <<g, r.id>> \notin renewed =>
                    /\ Covers(next, r)
                    /\ \A h \in handles : h.group = g /\ h.id = r.id => h.until <= clock
                    /\ \A q \in k.recs : q.id = r.id => q = r
  <2>1. PICK p \in leased :
           r = [group |-> g, id |-> p[1], attempts |-> next.flight[p[1]][p[2]].attempts,
                until |-> now + LeaseMs, copy |-> p[2]]
    BY <1>12
  <2>2. r.group = g /\ r.id = p[1] /\ r.until = now + LeaseMs BY <2>1
  <2>3. p[1] \in Ids /\ p[2] \in 1 .. Len(next.flight[p[1]]) BY <1>9
  <2>4. p[1] \in InFlight(next)
    <3>1. next.flight[p[1]] # <<>> BY <1>5, <2>3, FlightType
    <3> QED BY <2>3, <3>1 DEF InFlight
  <2>5. r.id <= newest BY <1>15, <2>2, <2>4 DEF Known
  <2>6. ASSUME <<g, r.id>> \notin renewed
        PROVE  /\ Covers(next, r)
               /\ \A h \in handles : h.group = g /\ h.id = r.id => h.until <= clock
               /\ \A q \in k.recs : q.id = r.id => q = r
    <3> DEFINE i == p[1]
    <3>1. /\ p[2] = 1 /\ i <= next.hwm
          /\ next.flight[i] # <<>> /\ next.flight[i][1].lease = now + LeaseMs
          /\ i <= s.hwm => s.flight[i] # <<>> /\ s.flight[i][1].lease <= now
      BY <1>8, <2>2, <2>3, <2>6
    <3>2. Covers(next, r) BY <1>13, <2>2, <3>1 DEF Covers
    <3>3. ASSUME NEW h \in handles, h.group = g, h.id = r.id PROVE h.until <= clock
      <4>1. Covers(s, h) BY <1>4, <2>6, <3>3 DEF StateOK
      <4>2. i <= s.hwm BY <2>2, <3>3, <4>1 DEF Covers
      <4>3. s.flight[i] # <<>> /\ s.flight[i][1].lease <= now BY <3>1, <4>2
      <4>4. h.until <= s.flight[i][1].lease BY <2>2, <3>3, <4>1, <4>3 DEF Covers
      <4>5. s.flight[i][1].lease \in Nat BY <1>1, <2>3, <4>3, FlightType
      <4>6. h.until \in Nat BY <1>2, HandleFacts
      <4> QED BY <1>1, <1>2, <1>11, <4>3, <4>4, <4>5, <4>6
    <3>4. ASSUME NEW q \in k.recs, q.id = r.id PROVE q = r
      <4>1. PICK o \in leased :
               q = [group |-> g, id |-> o[1], attempts |-> next.flight[o[1]][o[2]].attempts,
                    until |-> now + LeaseMs, copy |-> o[2]]
        BY <1>12
      <4>2. o[1] = i BY <2>2, <3>4, <4>1
      <4>3. o[2] = 1 BY <1>8, <2>2, <2>3, <2>6, <4>2
      <4> QED BY <2>1, <3>1, <4>1, <4>2, <4>3
    <3> QED BY <3>2, <3>3, <3>4
  <2> QED BY <2>2, <2>5, <2>6
<1>20. BuryJob(k) BY <1>14, <1>17, <1>18, <1>19 DEF BuryJob, g, next
<1>21. FreeJob(k) /\ ProbeJob(k) /\ HoldJob(k) BY DEF FreeJob, ProbeJob, HoldJob
<1> QED BY <1>20, <1>21 DEF JobOK

\* A claim that has its plan goes on with it, or returns.
LEMMA SettleNext ==
    ASSUME IInv, TypeOK', NEW w \in Workers, job[w].stage \in {"probe", "scan"},
           NEW new \in SUBSET glog,
           \A m \in new : \A i \in glog : i > job[w].state.hwm /\ i <= m => i \in new,
           Settle(w, job[w], new), UNCHANGED <<store, cache, born, handles, bounds, history>>
    PROVE  IInv'
<1>1. TypeOK /\ job[w] \in Job /\ JobOK(job[w]) BY DEF IInv, TypeOK
<1>2. new \in SUBSET Ids BY <1>1 DEF TypeOK
<1>3. PICK j \in Job : j = job[w] BY <1>1
<1>3a. Settle(w, j, new) /\ j.stage \in {"probe", "scan"} BY <1>3
<1>4. PICK k \in Job :
         /\ Goto(w, k)
         /\ \/ k = IdleJob
            \/ /\ k.stage = "bury" /\ k.group = j.group
               /\ k.state = Planned(j.state, j.now, LeaseMs, MaxBatch, MaxAttempts, new)
               /\ k.todo = PlanDead(j.state, j.now, MaxAttempts)
               /\ \A r \in k.recs :
                     \E p \in PlanLeased(j.state, j.now, MaxBatch, MaxAttempts, new) :
                        r = [group |-> j.group, id |-> p[1],
                             attempts |-> Planned(j.state, j.now, LeaseMs, MaxBatch,
                                             MaxAttempts, new).flight[p[1]][p[2]].attempts,
                             until |-> j.now + LeaseMs, copy |-> p[2]]
  BY <1>2, <1>3a, SettleFacts
<1>5. Unlocked /\ Known(glog)' /\ logmax' <= newest' BY QuietStep DEF store, bounds, history
<1>6. JobOK(k)
  <2>1. CASE k = IdleJob BY <2>1, IdleOK
  <2>2. CASE k # IdleJob
    <3>1. JobOK(j) BY <1>1, <1>3
    <3>2. j.stage \in {"probe", "scan"} BY <1>3
    <3>3. \A m \in new : \A i \in glog : i > j.state.hwm /\ i <= m => i \in new BY <1>3
    <3> QED BY <1>4, <2>2, <3>1, <3>2, <3>3, PlanOK
  <2> QED BY <2>1, <2>2
<1>7. JobOK(k)' BY <1>1, <1>5, <1>6, JobStays
<1>8. HasLock(w) BY DEF HasLock, LockStages
<1> QED BY <1>4, <1>5, <1>7, <1>8, UnlockedStep

\* Up to the plan a claim only reads.
LEMMA ProbeNext ==
    ASSUME IInv, TypeOK', NEW w \in Workers,
           (\E g \in Groups, start \in Starts : ClaimGrouped(w, g, start))
               \/ ClaimGate(w) \/ ClaimScan(w)
    PROVE  IInv'
<1>1. TypeOK /\ job[w] \in Job /\ JobOK(job[w]) BY DEF IInv, TypeOK
<1>2. clock \in Nat /\ logmax \in Nat /\ newest \in Nat BY <1>1 DEF TypeOK
<1>3. ASSUME NEW g \in Groups, NEW start \in Starts, ClaimGrouped(w, g, start) PROVE IInv'
  <2>1. PICK n \in Nat : n = IF start = "latest" THEN logmax ELSE 0 BY <1>2
  <2>2. n <= newest BY <1>2, <2>1 DEF IInv, KnownInv
  <2>3. PICK s \in GroupState : s = IF gstate[g] # None THEN gstate[g] ELSE NewGroup(n)
    BY <1>1, StateType, NewGroupFacts
  <2>4. PICK k \in Job : k = [stage |-> "probe", group |-> g, now |-> clock, state |-> s]
    BY <1>2, JobMade
  <2>5. Goto(w, k) BY <1>3, <2>1, <2>3, <2>4 DEF ClaimGrouped
  <2>6. Unlocked /\ Known(glog)' /\ logmax' <= newest'
    BY <1>3, QuietStep DEF ClaimGrouped, store, bounds, history
  <2>7. JobOK(k)
    <3>1. k.stage = "probe" /\ k.group = g /\ k.now = clock /\ k.state = s BY <2>4
    <3>2. gstate[g] = None => s.flight = [i \in Ids |-> <<>>] /\ s.hwm <= newest
      BY <2>2, <2>3, NewGroupFacts
    <3>3. ProbeJob(k) BY <1>2, <2>3, <3>1, <3>2 DEF ProbeJob
    <3> QED BY <3>1, <3>3 DEF JobOK, FreeJob, BuryJob, HoldJob
  <2>8. JobOK(k)' BY <1>1, <2>6, <2>7, JobStays
  <2>9. HasLock(w) BY <1>3 DEF ClaimGrouped, HasLock
  <2> QED BY <2>5, <2>6, <2>8, <2>9, UnlockedStep
<1>4. CASE ClaimGate(w)
  <2>1. UNCHANGED <<store, cache, born, handles, bounds, history>> BY <1>4 DEF ClaimGate
  <2>2. PICK j \in Job : j = job[w] BY <1>1
  <2>3. j.stage = "probe" BY <1>4, <2>2 DEF ClaimGate
  <2>4. CASE j.state.hwm < logmax
    <3>1. PICK k \in Job : k = [j EXCEPT !.stage = "scan"] BY <2>3, JobMoved
    <3>2. Goto(w, k) BY <1>4, <2>2, <2>4, <3>1 DEF ClaimGate
    <3>3. k.stage = "scan" /\ k.group = j.group /\ k.now = j.now /\ k.state = j.state
      BY <2>3, <3>1, JobMoved
    <3>4. Unlocked /\ Known(glog)' /\ logmax' <= newest'
      BY <2>1, QuietStep DEF store, bounds, history
    <3>5. JobOK(k)
      BY <1>1, <2>2, <2>3, <3>3 DEF JobOK, FreeJob, ProbeJob, BuryJob, HoldJob
    <3>6. JobOK(k)' BY <1>1, <3>4, <3>5, JobStays
    <3>7. HasLock(w) BY <2>2, <2>3 DEF HasLock, LockStages
    <3> QED BY <3>2, <3>4, <3>6, <3>7, UnlockedStep
  <2>5. CASE ~(j.state.hwm < logmax)
    <3>1. Settle(w, job[w], {}) BY <1>4, <2>2, <2>5 DEF ClaimGate
    <3>2. job[w].stage \in {"probe", "scan"} BY <2>2, <2>3
    <3> QED BY <2>1, <3>1, <3>2, SettleNext
  <2> QED BY <2>4, <2>5
<1>5. CASE ClaimScan(w)
  <2>1. UNCHANGED <<store, cache, born, handles, bounds, history>> BY <1>5 DEF ClaimScan
  <2>2. job[w].stage = "scan" BY <1>5 DEF ClaimScan
  <2>3. PICK h \in Nat : h = job[w].state.hwm BY <1>1, <2>2, JobFields DEF GroupState
  <2>4. PICK ahead \in SUBSET Ids : ahead = {i \in glog : i > h} BY <1>1 DEF TypeOK
  <2>5. PICK new \in SUBSET glog : new = Oldest(ahead, MaxBatch)
    BY <2>4 DEF Oldest
  <2>6. ASSUME NEW m \in new, NEW i \in glog, i > h, i <= m PROVE i \in new
    <3>1. i \in ahead BY <2>4, <2>6
    <3> QED BY <2>4, <2>5, <2>6, <3>1, OldestFacts, GroupLogAssumption DEF GroupLogAssumption
  <2>7. Settle(w, job[w], new) BY <1>5, <2>3, <2>4, <2>5 DEF ClaimScan
  <2> QED BY <2>1, <2>2, <2>3, <2>6, <2>7, SettleNext
<1> QED BY <1>3, <1>4, <1>5

LEMMA StateSame ==
    ASSUME IInv, TypeOK', NEW g \in Groups, gstate[g] # None, gstate'[g] = gstate[g],
           newest' = newest, handles' \subseteq handles, renewed \subseteq renewed'
    PROVE  StateOK(g, gstate[g])'
<1>1. PICK s \in GroupState : s = gstate[g] BY StateType DEF IInv
<1>2. StateOK(g, s) BY <1>1 DEF IInv, GroupInv, Registered
<1>3. newest <= newest' BY DEF IInv, TypeOK
<1>4. StateOK(g, s)' BY <1>2, <1>3, StateStays DEF IInv
<1>5. gstate'[g] = s BY <1>1
<1> QED BY <1>4, <1>5

\* A claim writes its dead letters, and then the state that has dropped them.
LEMMA BuryNext ==
    ASSUME IInv, TypeOK', NEW w \in Workers, ClaimBury(w) \/ ClaimPersist(w)
    PROVE  IInv'
<1>1. TypeOK /\ job[w] \in Job /\ JobOK(job[w]) BY DEF IInv, TypeOK
<1>2. PICK j \in Job : j = job[w] BY <1>1
<1>3. j.stage = "bury" BY <1>2 DEF ClaimBury, ClaimPersist
<1>4. PICK g \in Groups : g = j.group BY <1>3, JobFields
<1>5. j.state \in GroupState /\ j.todo \in SUBSET Ids /\ j.recs \in SUBSET Handle
  BY <1>3, JobFields
<1>6. BuryJob(j) BY <1>1, <1>2 DEF JobOK
<1>7. /\ Known(j.todo) /\ StateOK(g, j.state)
      /\ gstate[g] # None => \A i \in owed[g] :
            \/ i \in j.todo \/ i \in gdead[g] \/ i \in InFlight(j.state)
            \/ i > j.state.hwm /\ i \in glog
      /\ \A r \in j.recs :
            /\ r.group = g /\ r.id <= newest
            /\ <<g, r.id>> \notin renewed =>
                  /\ Covers(j.state, r)
                  /\ \A h \in handles : h.group = g /\ h.id = r.id => h.until <= clock
                  /\ \A q \in j.recs : q.id = r.id => q = r
  BY <1>3, <1>4, <1>6 DEF BuryJob
<1>8. HasLock(w) BY <1>2, <1>3 DEF HasLock, LockStages
<1>9. Known(gdead[g]) BY DEF IInv, KnownInv
<1>10. CASE ClaimBury(w)
  <2>1. PICK i \in j.todo : i = First(j.todo)
    <3>1. j.todo # {} BY <1>2, <1>10 DEF ClaimBury
    <3> QED BY <1>5, <3>1, FirstIn
  <2>2. PICK rest \in SUBSET Ids : rest = j.todo \ {i} BY <1>5
  <2>3. PICK k \in Job : k = [j EXCEPT !.todo = rest] BY <1>3, JobMoved
  <2>4. Goto(w, k) BY <1>2, <1>10, <2>1, <2>2, <2>3 DEF ClaimBury
  <2>5. /\ k.stage = "bury" /\ k.group = g /\ k.state = j.state /\ k.todo = rest
        /\ k.recs = j.recs
    BY <1>3, <1>4, <2>3, JobMoved
  <2>6. /\ UNCHANGED <<glog, logmax, gpayload, gstate, clock, newest, owed, renewed, handles>>
        /\ gdead' = [gdead EXCEPT ![g] = @ \cup {i}]
    BY <1>2, <1>4, <1>10, <2>1 DEF ClaimBury, bounds, history
  <2>7. gdead'[g] = gdead[g] \cup {i} /\ \A q \in Groups : q # g => gdead'[q] = gdead[q]
    BY <1>1, <2>6 DEF TypeOK
  <2>8. BuryJob(k)'
    <3>1. Known(rest)' BY <1>7, <2>2, <2>6 DEF Known
    <3>2. StateOK(g, j.state)' BY <1>7, <2>6 DEF StateOK, Known, Single, Covers
    <3>3. gstate'[g] # None => \A n \in owed'[g] :
              \/ n \in rest \/ n \in gdead'[g] \/ n \in InFlight(j.state)
              \/ n > j.state.hwm /\ n \in glog'
      BY <1>7, <2>2, <2>6, <2>7
    <3>4. \A r \in j.recs :
            /\ r.group = g /\ r.id <= newest'
            /\ <<g, r.id>> \notin renewed' =>
                  /\ Covers(j.state, r)
                  /\ \A h \in handles' : h.group = g /\ h.id = r.id => h.until <= clock'
                  /\ \A q \in j.recs : q.id = r.id => q = r
      BY <1>7, <2>6
    <3> QED BY <2>5, <3>1, <3>2, <3>3, <3>4 DEF BuryJob, Covers
  <2>9. JobOK(k)' BY <2>5, <2>8 DEF JobOK, FreeJob, ProbeJob, HoldJob
  <2>10. Known(gdead'[g]) BY <1>7, <1>9, <2>7 DEF Known
  <2>11. gstate'[g] # None => StateOK(g, gstate[g])' BY <2>6, StateSame
  <2>12. \A n \in owed'[g] : InCustody(g, n)'
    BY <2>6, <2>7 DEF IInv, GroupCustody, InCustody
  <2>13. \A h \in handles' : h.group = g /\ gstate'[g] = None => <<g, h.id>> \in renewed'
    BY <2>6 DEF IInv, GroupInv
  <2> QED BY <1>8, <2>4, <2>6, <2>7, <2>9, <2>10, <2>11, <2>12, <2>13, GroupStep
<1>11. CASE ClaimPersist(w)
  <2>1. j.todo = {} BY <1>2, <1>11 DEF ClaimPersist
  <2>2. /\ UNCHANGED <<glog, logmax, gpayload, clock, newest, gdead, renewed>>
        /\ gstate' = [gstate EXCEPT ![g] = j.state]
        /\ handles' = handles \cup j.recs
        /\ owed' = IF gstate[g] # None THEN owed
                   ELSE [owed EXCEPT ![g] =
                            {i \in glog \cap gpayload :
                                i > j.state.hwm \/ i \in InFlight(j.state)}]
    BY <1>2, <1>4, <1>11 DEF ClaimPersist, bounds
  <2>3. PICK k \in Job : k = IdleJob BY JobMade
  <2>4. Goto(w, k) /\ k.stage = "idle" BY <1>11, <2>3 DEF ClaimPersist, IdleJob
  <2>5. JobOK(k)' BY <2>4, PlainJob
  <2>6. gstate'[g] = j.state /\ \A q \in Groups : q # g => gstate'[q] = gstate[q]
    BY <1>1, <2>2 DEF TypeOK
  <2>7. \A q \in Groups : q # g => owed'[q] = owed[q] BY <1>1, <2>2 DEF TypeOK
  <2>8. gstate'[g] # None BY <1>5, <2>6, IdsFacts
  <2>9. StateOK(g, gstate[g])'
    <3>1. \A h \in handles' : h.group = g /\ <<g, h.id>> \notin renewed => Covers(j.state, h)
      BY <1>7, <2>2 DEF StateOK
    <3> QED BY <1>7, <2>2, <2>6, <3>1 DEF StateOK, Known, Single, Covers
  <2>10. ASSUME NEW i \in owed'[g] PROVE InCustody(g, i)'
    <3>1. CASE gstate[g] # None
      <4>1. i \in owed[g] BY <2>2, <2>10, <3>1
      <4>2. i \in gpayload BY <4>1 DEF IInv, GroupCustody, InCustody
      <4>3. i \in gdead[g] \/ i \in InFlight(j.state) \/ (i > j.state.hwm /\ i \in glog)
        BY <1>7, <2>1, <3>1, <4>1
      <4> QED BY <2>2, <2>6, <2>8, <4>2, <4>3 DEF InCustody
    <3>2. CASE gstate[g] = None
      <4>1. owed'[g] = {n \in glog \cap gpayload : n > j.state.hwm \/ n \in InFlight(j.state)}
        BY <1>1, <2>2, <3>2 DEF TypeOK
      <4> QED BY <2>2, <2>6, <2>8, <2>10, <4>1 DEF InCustody
    <3> QED BY <3>1, <3>2
  <2>11. \A h \in handles' : h \in handles \/ (h.group = g /\ h.id <= newest) BY <1>7, <2>2
  <2>12. ASSUME NEW h \in handles', NEW q \in handles', h \notin handles, h # q, q.group = g,
                q.id = h.id, h.until > clock, q.until > clock, <<g, h.id>> \notin renewed
         PROVE  FALSE
    <3>1. h \in j.recs BY <2>2, <2>12
    <3>2. CASE q \in j.recs BY <1>7, <2>12, <3>1, <3>2
    <3>3. CASE q \in handles
      <4>1. q.until <= clock BY <1>7, <2>12, <3>1, <3>3
      <4>2. q.until \in Nat /\ clock \in Nat BY <1>1, <3>3, HandleFacts DEF TypeOK
      <4> QED BY <2>12, <4>1, <4>2
    <3> QED BY <2>2, <2>12, <3>2, <3>3
  <2>13. /\ Known(gdead'[g]) /\ renewed \subseteq renewed'
         /\ \A q \in Groups : q # g =>
               gstate'[q] = gstate[q] /\ gdead'[q] = gdead[q] /\ owed'[q] = owed[q]
         /\ UNCHANGED <<glog, logmax, gpayload, clock, newest>>
    BY <1>9, <2>2, <2>6, <2>7
  <2>14. \A h, q \in handles' :
             h \notin handles /\ h # q /\ q.group = g /\ q.id = h.id
                 /\ h.until > clock /\ q.until > clock => <<g, h.id>> \in renewed'
    BY <2>2, <2>12
  <2> QED BY <1>8, <2>4, <2>5, <2>8, <2>9, <2>10, <2>11, <2>13, <2>14, GroupStep
<1> QED BY <1>10, <1>11


-----------------------------------------------------------------------------
(* ack, nack_after and dead_letter. *)

\* Other entries for one id are right if nobody holds the id, or if they keep the
\* lease of who does.
LEMMA PutOK ==
    ASSUME TypeOK, TypeOK', NEW g \in Groups, NEW s \in GroupState, StateOK(g, s),
           NEW i \in Ids, NEW f \in Seq(Entry),
           newest' = newest, handles' \subseteq handles, renewed \subseteq renewed',
           f # <<>> => i <= newest,
           <<g, i>> \notin renewed' => Len(f) <= 1 /\ (f # <<>> => i <= s.hwm),
           f # <<>> /\ <<g, i>> \notin renewed' =>
               \A h \in handles' : ~(h.group = g /\ h.id = i)
    PROVE  StateOK(g, Put(s, i, f))'
<1>1. PICK t \in GroupState : t = Put(s, i, f) BY PutFacts
<1>2. t.hwm = s.hwm /\ t.flight[i] = f /\ \A n \in Ids : n # i => t.flight[n] = s.flight[n]
  BY <1>1, PutFacts
<1>3. (t.hwm <= newest)' BY <1>2 DEF StateOK
<1>4. ASSUME NEW n \in InFlight(t) PROVE n <= newest'
  <2>1. n \in Ids /\ t.flight[n] # <<>> BY DEF InFlight
  <2>2. CASE n = i BY <1>2, <2>1, <2>2
  <2>3. CASE n # i
    <3>1. n \in InFlight(s) BY <1>2, <2>1, <2>3 DEF InFlight
    <3> QED BY <3>1 DEF StateOK, Known
  <2> QED BY <2>2, <2>3
<1>5. ASSUME NEW n \in Ids, <<g, n>> \notin renewed' PROVE Single(t, n)
  <2>1. CASE n = i BY <1>2, <1>5, <2>1 DEF Single
  <2>2. CASE n # i
    <3>1. Single(s, n) BY <1>5 DEF StateOK
    <3> QED BY <1>2, <2>2, <3>1 DEF Single
  <2> QED BY <2>1, <2>2
<1>6. ASSUME NEW h \in handles', h.group = g, <<g, h.id>> \notin renewed' PROVE Covers(t, h)
  <2>1. h \in handles /\ h.id \in Ids BY DEF TypeOK, Handle
  <2>2. Covers(s, h) BY <1>6, <2>1 DEF StateOK
  <2>3. CASE h.id = i
    <3>1. f = <<>> BY <1>6, <2>3
    <3> QED BY <1>2, <2>2, <2>3, <3>1 DEF Covers
  <2>4. CASE h.id # i BY <1>2, <2>1, <2>2, <2>4 DEF Covers
  <2> QED BY <2>3, <2>4
<1>7. StateOK(g, t)' BY <1>3, <1>4, <1>5, <1>6 DEF StateOK, Known, Single, Covers, InFlight
<1> QED BY <1>1, <1>7

LEMMA StayIdle ==
    ASSUME TypeOK, NEW w \in Workers, job[w] = IdleJob, job' = job
    PROVE  Goto(w, IdleJob) /\ IdleJob \in Job /\ JobOK(IdleJob)'
<1>1. IdleJob.stage = "idle" BY DEF IdleJob
<1>2. JobOK(IdleJob)' BY <1>1, PlainJob DEF IdleJob
<1> QED BY <1>2, JobMade DEF Goto, TypeOK

\* What is owed but for one id stays in custody when only the entries of that id change.
LEMMA CustodyPut ==
    ASSUME IInv, NEW g \in Groups, gstate[g] # None, NEW i \in Ids, NEW f \in Seq(Entry),
           gstate'[g] = Put(gstate[g], i, f), Put(gstate[g], i, f) # None,
           gpayload' = gpayload, glog' = glog, gdead[g] \subseteq gdead'[g],
           NEW n \in owed[g], n = i => n \in gdead[g] \/ f # <<>>
    PROVE  InCustody(g, n)'
<1>1. TypeOK /\ InCustody(g, n) /\ n \in Ids BY DEF IInv, GroupCustody, TypeOK
<1>2. PICK s \in GroupState : s = gstate[g] BY <1>1, StateType
<1>3. PICK t \in GroupState : t = Put(s, i, f) BY PutFacts
<1>4. t.hwm = s.hwm /\ t.flight[i] = f /\ \A m \in Ids : m # i => t.flight[m] = s.flight[m]
  BY <1>3, PutFacts
<1>5. n \in gdead[g] \/ n \in InFlight(s) \/ (n > s.hwm /\ n \in glog)
  BY <1>1, <1>2 DEF InCustody
<1>6. n \in gdead'[g] \/ n \in InFlight(t) \/ (n > t.hwm /\ n \in glog')
  BY <1>1, <1>4, <1>5 DEF InFlight
<1>7. gstate'[g] = t /\ t # None BY <1>2, <1>3
<1> QED BY <1>1, <1>6, <1>7 DEF InCustody

\* The entries of an id are dropped: by an ack, which settles what was owed, or
\* after a dead letter was put.
LEMMA DropStep ==
    ASSUME IInv, TypeOK', NEW w \in Workers, NEW k \in Job, Goto(w, k), JobOK(k)', HasLock(w),
           NEW g \in Groups, NEW i \in Ids, gstate' = Dropped(g, i),
           UNCHANGED <<glog, logmax, gpayload, clock, newest, gdead, renewed>>,
           handles' \subseteq handles,
           \A q \in Groups : q # g => owed'[q] = owed[q],
           owed'[g] \subseteq owed[g], i \in owed'[g] => i \in gdead[g]
    PROVE  IInv'
<1>1. TypeOK BY DEF IInv
<1>0. <<>> \in Seq(Entry) /\ Len(<<>>) = 0 OBVIOUS
<1>2. PICK f \in Seq(Entry) : f = <<>> BY <1>0
<1>3. \A q \in Groups : q # g => gstate'[q] = gstate[q] BY <1>1, DroppedFacts DEF TypeOK
<1>4. gstate[g] = None => gstate'[g] = None BY <1>1, DroppedFacts
<1>5. ASSUME gstate[g] # None
      PROVE  /\ StateOK(g, gstate[g])' /\ gstate'[g] # None
             /\ \A n \in owed'[g] : InCustody(g, n)'
  <2>1. gstate'[g] = Put(gstate[g], i, f) BY <1>1, <1>2, <1>5, DroppedFacts DEF TypeOK
  <2>2. PICK s \in GroupState : s = gstate[g] BY <1>1, <1>5, StateType
  <2>3. StateOK(g, s) BY <1>5, <2>2 DEF IInv, GroupInv, Registered
  <2>4. StateOK(g, Put(s, i, f))'
    <3>1. newest' = newest /\ renewed \subseteq renewed' OBVIOUS
    <3>2. Len(f) <= 1 BY <1>2, <1>0
    <3> QED BY <1>1, <1>2, <2>3, <3>1, <3>2, PutOK
  <2>5. gstate'[g] = Put(s, i, f) BY <2>1, <2>2
  <2>6. Put(s, i, f) \in GroupState BY PutFacts
  <2>7. gstate'[g] # None BY <2>5, <2>6, IdsFacts
  <2>8. StateOK(g, gstate[g])' BY <2>4, <2>5
  <2>9. \A n \in owed'[g] : InCustody(g, n)'
    BY <1>2, <1>5, <2>1, <2>7, CustodyPut
  <2> QED BY <2>7, <2>8, <2>9
<1>6. ASSUME gstate[g] = None, NEW n \in owed'[g] PROVE InCustody(g, n)'
  <2>1. InCustody(g, n) BY DEF IInv, GroupCustody
  <2> QED BY <1>6, <2>1 DEF InCustody
<1>7. Known(gdead'[g]) BY DEF IInv, KnownInv
<1>8. ASSUME NEW h \in handles', h.group = g, gstate'[g] = None PROVE <<g, h.id>> \in renewed'
  <2>1. gstate[g] = None BY <1>5, <1>8
  <2> QED BY <1>8, <2>1 DEF IInv, GroupInv
<1>9. gstate'[g] # None => StateOK(g, gstate[g])' BY <1>4, <1>5
<1>10. \A n \in owed'[g] : InCustody(g, n)' BY <1>5, <1>6
<1>11. \A q \in Groups : q # g =>
           gstate'[q] = gstate[q] /\ gdead'[q] = gdead[q] /\ owed'[q] = owed[q]
  BY <1>3
<1> QED BY <1>7, <1>8, <1>9, <1>10, <1>11, GroupStep

LEMMA AckNext ==
    ASSUME IInv, TypeOK', NEW w \in Workers, NEW h \in handles, Ack(w, h)
    PROVE  IInv'
<1>1. TypeOK BY DEF IInv
<1>2. PICK g \in Groups, i \in Ids : g = h.group /\ i = h.id BY <1>1, HandleFacts
<1>3. /\ job[w] = IdleJob /\ job' = job /\ ~Locked
      /\ UNCHANGED <<glog, logmax, gpayload, clock, newest, gdead, renewed>>
      /\ handles' \subseteq handles
      /\ gstate' = Dropped(g, i)
      /\ owed' = [owed EXCEPT ![g] = @ \ {i}]
  BY <1>2 DEF Ack, Begin, bounds
<1>4. Goto(w, IdleJob) /\ IdleJob \in Job /\ JobOK(IdleJob)' BY <1>1, <1>3, StayIdle
<1>5. /\ owed'[g] = owed[g] \ {i} /\ \A q \in Groups : q # g => owed'[q] = owed[q]
  BY <1>1, <1>3 DEF TypeOK
<1>6. HasLock(w) BY <1>3 DEF HasLock
<1> QED BY <1>3, <1>4, <1>5, <1>6, DropStep

LEMMA NackNext ==
    ASSUME IInv, TypeOK', NEW w \in Workers, NEW h \in handles, NEW d \in NackDelays, Nack(w, h, d)
    PROVE  IInv'
<1>1. TypeOK BY DEF IInv
<1>2. PICK g \in Groups, i \in Ids : g = h.group /\ i = h.id BY <1>1, HandleFacts
<1>3. /\ job[w] = IdleJob /\ job' = job /\ ~Locked
      /\ UNCHANGED <<glog, logmax, gpayload, clock, newest, gdead, owed>>
      /\ handles' = handles \ {h}
      /\ renewed' = renewed \cup ({<<g, i>>} \cap HeldPairs(handles \ {h}))
  BY <1>2 DEF Nack, Begin, bounds
<1>4. Goto(w, IdleJob) /\ IdleJob \in Job /\ JobOK(IdleJob)' BY <1>1, <1>3, StayIdle
<1>5. HasLock(w) BY <1>3 DEF HasLock
<1>6. renewed \subseteq renewed' /\ handles' \subseteq handles BY <1>3
<1>7. \A q \in Groups : q # g => gstate'[q] = gstate[q] BY <1>1, <1>2, NackState DEF TypeOK
<1>8. Known(gdead'[g]) BY <1>3 DEF IInv, KnownInv
<1>9. /\ gstate'[g] # None => StateOK(g, gstate[g])'
      /\ \A n \in owed'[g] : InCustody(g, n)'
      /\ gstate'[g] = None => gstate[g] = None
  <2>1. CASE gstate' = gstate
    <3>1. gstate'[g] # None => StateOK(g, gstate[g])' BY <1>3, <1>6, <2>1, StateSame
    <3>2. \A n \in owed'[g] : InCustody(g, n)' BY <1>3, <2>1 DEF IInv, GroupCustody, InCustody
    <3> QED BY <2>1, <3>1, <3>2
  <2>2. CASE gstate' # gstate
    <3>1. /\ gstate[g] # None /\ i \in InFlight(gstate[g])
          /\ \E f \in Seq(Entry) :
                /\ f # <<>> /\ Len(f) = Len(gstate[g].flight[i])
                /\ gstate' = [gstate EXCEPT ![g] = Put(gstate[g], i, f)]
      BY <1>1, <1>2, <2>2, NackState
    <3>2. PICK f \in Seq(Entry) :
                /\ f # <<>> /\ Len(f) = Len(gstate[g].flight[i])
                /\ gstate' = [gstate EXCEPT ![g] = Put(gstate[g], i, f)]
      BY <3>1
    <3>3. PICK s \in GroupState : s = gstate[g] BY <1>1, <3>1, StateType
    <3>4. StateOK(g, s) BY <3>1, <3>3 DEF IInv, GroupInv, Registered
    <3>5. i <= newest BY <3>1, <3>3, <3>4 DEF StateOK, Known
    <3>6. <<g, i>> \notin renewed' => Len(f) <= 1 /\ i <= s.hwm
      <4>1. <<g, i>> \notin renewed' => Single(s, i) BY <1>6, <3>4 DEF StateOK
      <4>2. s.flight[i] # <<>> BY <3>1, <3>3 DEF InFlight
      <4> QED BY <3>2, <3>3, <4>1, <4>2 DEF Single
    <3>7. <<g, i>> \notin renewed' => \A q \in handles' : ~(q.group = g /\ q.id = i)
      BY <1>3 DEF HeldPairs
    <3>8. StateOK(g, Put(s, i, f))' BY <1>1, <1>3, <1>6, <3>4, <3>5, <3>6, <3>7, PutOK
    <3>9. gstate'[g] = Put(gstate[g], i, f) /\ gstate'[g] = Put(s, i, f)
      BY <1>1, <3>2, <3>3 DEF TypeOK
    <3>10. Put(s, i, f) \in GroupState BY PutFacts
    <3>11. gstate'[g] # None BY <3>9, <3>10, IdsFacts
    <3>12. StateOK(g, gstate[g])' BY <3>8, <3>9
    <3>13. \A n \in owed'[g] : InCustody(g, n)'
      BY <1>3, <3>1, <3>2, <3>9, <3>11, CustodyPut
    <3> QED BY <3>11, <3>12, <3>13
  <2> QED BY <2>1, <2>2
<1>10. \A q \in handles' : q.group = g /\ gstate'[g] = None => <<g, q.id>> \in renewed'
  BY <1>6, <1>9 DEF IInv, GroupInv
<1>11. \A q \in Groups : q # g =>
           gstate'[q] = gstate[q] /\ gdead'[q] = gdead[q] /\ owed'[q] = owed[q]
  BY <1>3, <1>7
<1> QED BY <1>3, <1>4, <1>5, <1>6, <1>8, <1>9, <1>10, <1>11, GroupStep

LEMMA DeadLetterNext ==
    ASSUME IInv, TypeOK', NEW w \in Workers,
           (\E h \in handles : DeadLetter(w, h)) \/ DeadLetterDrop(w)
    PROVE  IInv'
<1>1. TypeOK /\ job[w] \in Job /\ JobOK(job[w]) BY DEF IInv, TypeOK
<1>2. ASSUME NEW h \in handles, DeadLetter(w, h) PROVE IInv'
  <2>1. PICK g \in Groups, i \in Ids : g = h.group /\ i = h.id BY <1>1, HandleFacts
  <2>2. PICK k \in Job : k = [stage |-> "quarantine", group |-> g, id |-> i] BY JobMade
  <2>3. /\ UNCHANGED <<glog, logmax, gpayload, clock, newest, gstate, owed, renewed>>
        /\ handles' \subseteq handles /\ ~Locked
        /\ gdead' = [gdead EXCEPT ![g] = @ \cup {i}]
        /\ Goto(w, k)
    BY <1>2, <2>1, <2>2 DEF DeadLetter, bounds
  <2>4. HasLock(w) BY <2>3 DEF HasLock
  <2>5. gdead'[g] = gdead[g] \cup {i} /\ \A q \in Groups : q # g => gdead'[q] = gdead[q]
    BY <1>1, <2>3 DEF TypeOK
  <2>6. i <= newest BY <2>1 DEF IInv, KnownInv
  <2>7. JobOK(k)'
    <3>1. k.stage = "quarantine" /\ k.group = g /\ k.id = i BY <2>2
    <3> QED BY <2>3, <2>5, <2>6, <3>1 DEF JobOK, FreeJob, ProbeJob, BuryJob, HoldJob
  <2>8. Known(gdead'[g]) BY <2>5, <2>6 DEF Known, IInv, KnownInv
  <2>9. gstate'[g] # None => StateOK(g, gstate[g])' BY <2>3, StateSame
  <2>10. \A n \in owed'[g] : InCustody(g, n)'
    BY <2>3, <2>5 DEF IInv, GroupCustody, InCustody
  <2>11. \A q \in handles' : q.group = g /\ gstate'[g] = None => <<g, q.id>> \in renewed'
    BY <2>3 DEF IInv, GroupInv
  <2>12. \A q \in Groups : q # g =>
             gstate'[q] = gstate[q] /\ gdead'[q] = gdead[q] /\ owed'[q] = owed[q]
    BY <2>3, <2>5
  <2> QED BY <2>3, <2>4, <2>7, <2>8, <2>9, <2>10, <2>11, <2>12, GroupStep
<1>3. CASE DeadLetterDrop(w)
  <2>1. PICK j \in Job : j = job[w] BY <1>1
  <2>2. j.stage = "quarantine" BY <1>3, <2>1 DEF DeadLetterDrop
  <2>3. PICK g \in Groups, i \in Ids : g = j.group /\ i = j.id BY <2>2, JobFields
  <2>4. i \in owed[g] => i \in gdead[g] BY <1>1, <2>1, <2>2, <2>3 DEF JobOK, HoldJob
  <2>5. /\ UNCHANGED <<glog, logmax, gpayload, clock, newest, gdead, owed, renewed, handles>>
        /\ gstate' = Dropped(g, i)
        /\ Goto(w, IdleJob)
    BY <1>3, <2>1, <2>3 DEF DeadLetterDrop, bounds, history
  <2>6. HasLock(w) BY <2>1, <2>2 DEF HasLock, LockStages
  <2>7. PICK k \in Job : k = IdleJob /\ k.stage = "idle" BY JobMade DEF IdleJob
  <2>8. JobOK(k)' BY <2>7, PlainJob
  <2> QED BY <2>4, <2>5, <2>6, <2>7, <2>8, DropStep
<1> QED BY <1>2, <1>3


-----------------------------------------------------------------------------
(* redrive_dead_letters, purge and discard. *)

LEMMA DeadPairsKnown ==
    ASSUME IInv, NEW p \in DeadPairs
    PROVE  p[2] <= newest
BY DEF IInv, KnownInv, Known, DeadPairs

\* Listing the dead letters takes no lock and changes nothing.
LEMMA ListNext ==
    ASSUME IInv, TypeOK', NEW w \in Workers,
           \/ \E f \in BOOLEAN, pairs \in SUBSET DeadPairs : Redrive(w, f, pairs)
           \/ \E pairs \in SUBSET DeadPairs : Discard(w, pairs)
    PROVE  IInv'
<1>1. TypeOK /\ \A pairs \in SUBSET DeadPairs : pairs \in SUBSET (Groups \X Ids)
  BY DEF IInv, DeadPairs
<1>2. ASSUME NEW f \in BOOLEAN, NEW pairs \in SUBSET DeadPairs, Redrive(w, f, pairs) PROVE IInv'
  <2>1. PICK k \in Job : k = [stage |-> "rewait", filtered |-> f, todo |-> pairs]
    BY <1>1, JobMade
  <2>2. Goto(w, k) BY <1>2, <2>1 DEF Redrive
  <2>3. Unlocked /\ Known(glog)' /\ logmax' <= newest'
    BY <1>2, QuietStep DEF Redrive, store, history
  <2>4. JobOK(k)
    <3>1. k.stage = "rewait" /\ k.todo = pairs BY <2>1
    <3>2. \A p \in k.todo : p[2] <= newest BY <3>1, DeadPairsKnown
    <3> QED BY <3>1, <3>2 DEF JobOK, FreeJob, ProbeJob, BuryJob, HoldJob
  <2>5. JobOK(k)' BY <1>1, <2>3, <2>4, JobStays
  <2>6. k.stage \notin LockStages BY <2>1 DEF LockStages
  <2> QED BY <2>2, <2>3, <2>5, <2>6, UnlockedStep
<1>3. ASSUME NEW pairs \in SUBSET DeadPairs, Discard(w, pairs) PROVE IInv'
  <2>1. PICK k \in Job : k = [stage |-> "discard", todo |-> pairs] BY <1>1, JobMade
  <2>2. Goto(w, k) BY <1>3, <2>1 DEF Discard
  <2>3. Unlocked /\ Known(glog)' /\ logmax' <= newest'
    BY <1>3, QuietStep DEF Discard, store, history
  <2>4. JobOK(k)' BY <2>1, PlainJob
  <2>5. k.stage \notin LockStages BY <2>1 DEF LockStages
  <2> QED BY <2>2, <2>3, <2>4, <2>5, UnlockedStep
<1> QED BY <1>2, <1>3

\* A discard works without the lock, on dead letters that the holder of the lock
\* may just have redriven.
LEMMA DiscardNext ==
    ASSUME IInv, TypeOK', NEW w \in Workers, NEW p \in Groups \X Ids, DiscardDelete(w, p)
    PROVE  IInv'
<1>1. TypeOK /\ job[w] \in Job BY DEF IInv, TypeOK
<1>2. PICK j \in Job : j = job[w] BY <1>1
<1>3. PICK g \in Groups, i \in Ids : p[1] = g /\ p[2] = i OBVIOUS
<1>4. j.stage = "discard" BY <1>2 DEF DiscardDelete
<1>5. PICK rest \in SUBSET (Groups \X Ids) : rest = j.todo \ {p} BY <1>4, JobFields
<1>6. PICK k \in Job : /\ k = IF j.todo = {p} THEN IdleJob ELSE [j EXCEPT !.todo = rest]
                       /\ k.stage \in {"idle", "discard"}
  <2>1. IdleJob \in Job /\ IdleJob.stage = "idle" BY JobMade DEF IdleJob
  <2>2. [j EXCEPT !.todo = rest] \in Job /\ [j EXCEPT !.todo = rest].stage = "discard"
    BY <1>4, JobMoved
  <2>3. CASE j.todo = {p} BY <2>1, <2>3
  <2>4. CASE j.todo # {p} BY <2>2, <2>4
  <2> QED BY <2>3, <2>4
<1>7. /\ Goto(w, k)
      /\ gdead' = [gdead EXCEPT ![g] = @ \ {i}]
      /\ owed' = [owed EXCEPT ![g] = @ \ ({i} \cap gdead[g])]
      /\ UNCHANGED <<glog, logmax, gpayload, gstate, handles, clock, newest, renewed>>
  <2>1. Goto(w, k) BY <1>2, <1>5, <1>6 DEF DiscardDelete
  <2>2. /\ gdead' = [gdead EXCEPT ![g] = @ \ {i}]
        /\ owed' = [owed EXCEPT ![g] = @ \ ({i} \cap gdead[g])]
        /\ UNCHANGED <<glog, logmax, gpayload, gstate, handles, clock, newest, renewed>>
    BY <1>3 DEF DiscardDelete, bounds
  <2> QED BY <2>1, <2>2
<1>8. JobOK(k)'
  <2>1. CASE k.stage = "idle" BY <2>1, PlainJob
  <2>2. CASE k.stage = "discard" BY <2>2, PlainJob
  <2> QED BY <1>6, <2>1, <2>2
<1>9. Unlocked
  <2>1. /\ gdead'[g] = gdead[g] \ {i} /\ owed'[g] = owed[g] \ ({i} \cap gdead[g])
        /\ \A q \in Groups : q # g => gdead'[q] = gdead[q] /\ owed'[q] = owed[q]
    BY <1>1, <1>7 DEF TypeOK
  <2>2. clock <= clock' /\ newest <= newest' BY <1>1, <1>7 DEF TypeOK
  <2>3. ASSUME NEW q \in Groups
        PROVE  /\ gdead'[q] \subseteq gdead[q] /\ owed'[q] \subseteq owed[q]
               /\ owed'[q] \cap gdead[q] \subseteq gdead'[q]
    <3>1. CASE q = g BY <2>1, <3>1
    <3>2. CASE q # g BY <2>1, <3>2
    <3> QED BY <3>1, <3>2
  <2> QED BY <1>7, <2>2, <2>3 DEF Unlocked
<1>10. Known(glog)' /\ logmax' <= newest' BY <1>7 DEF IInv, KnownInv, Known
<1>11. k.stage \notin LockStages BY <1>6 DEF LockStages
<1> QED BY <1>7, <1>8, <1>9, <1>10, <1>11, UnlockedStep

\* The state a redrive starts from is right.
LEMMA BaseOK ==
    ASSUME IInv, NEW g \in Groups
    PROVE  StateOK(g, Base(g)) /\ (gstate[g] # None => Base(g) = gstate[g])
<1>1. CASE gstate[g] # None BY <1>1 DEF Base, IInv, GroupInv, Registered
<1>2. CASE gstate[g] = None
  <2>1. PICK n \in Nat : n = logmax BY DEF IInv, TypeOK
  <2>2. PICK b \in GroupState : b = NewGroup(n) BY NewGroupFacts
  <2>3. b.hwm = n /\ InFlight(b) = {} /\ \A i \in Ids : b.flight[i] = <<>>
    BY <2>2, NewGroupFacts
  <2>4. b.hwm <= newest BY <2>1, <2>3 DEF IInv, KnownInv
  <2>5. \A i \in Ids : Single(b, i) BY <2>3 DEF Single
  <2>6. \A h \in handles : h.group = g => <<g, h.id>> \in renewed
    BY <1>2 DEF IInv, GroupInv
  <2>7. StateOK(g, b) BY <2>3, <2>4, <2>5, <2>6 DEF StateOK, Known
  <2> QED BY <1>2, <2>1, <2>2, <2>7 DEF Base
<1> QED BY <1>1, <1>2

\* The state a redrive writes is right: an id ahead of the high-water, or one that
\* a consumer still holds, is marked as given up.
LEMMA ArmedOK ==
    ASSUME IInv, TypeOK', NEW g \in Groups, NEW i \in Ids, i <= newest,
           newest' = newest, handles' = handles,
           renewed' = IF i > Base(g).hwm THEN renewed \cup {<<g, i>>}
                      ELSE renewed \cup ({<<g, i>>} \cap HeldPairs(handles)),
           NEW t \in GroupState, t = Armed(g, i)
    PROVE  StateOK(g, t)'
<1>1. TypeOK BY DEF IInv
<1>2. PICK b \in GroupState : b = Base(g) BY <1>1, ArmedFacts
<1>3. StateOK(g, b) BY <1>2, BaseOK
<1>4. renewed \subseteq renewed' /\ newest <= newest' /\ handles' \subseteq handles
  BY <1>1 DEF TypeOK
<1>5. CASE i \in InFlight(b)
  <2>1. t = b BY <1>1, <1>2, <1>5, ArmedFacts
  <2>2. StateOK(g, b)' BY <1>1, <1>3, <1>4, StateStays
  <2> QED BY <2>1, <2>2
<1>6. CASE i \notin InFlight(b)
  <2>1. <<[attempts |-> 0, lease |-> 0]>> \in Seq(Entry)
        /\ Len(<<[attempts |-> 0, lease |-> 0]>>) = 1
    BY DEF Entry
  <2>2. PICK f \in Seq(Entry) : f = <<[attempts |-> 0, lease |-> 0]>> BY <2>1
  <2>3. t = Put(b, i, f) BY <1>2, <1>6, <2>2 DEF Armed
  <2>4. Len(f) <= 1 BY <2>1, <2>2
  <2>5. <<g, i>> \notin renewed' => i <= b.hwm
    <3>1. i \in Nat /\ b.hwm \in Nat BY IdsFacts DEF GroupState
    <3> QED BY <1>2, <3>1
  <2>6. <<g, i>> \notin renewed' => \A h \in handles' : ~(h.group = g /\ h.id = i)
    BY DEF HeldPairs
  <2>7. StateOK(g, Put(b, i, f))' BY <1>1, <1>3, <1>4, <2>4, <2>5, <2>6, PutOK
  <2> QED BY <2>3, <2>7
<1> QED BY <1>5, <1>6

LEMMA RedriveNext ==
    ASSUME IInv, TypeOK', NEW w \in Workers, NEW p \in Groups \X Ids, RedriveRearm(w, p)
    PROVE  IInv'
<1>1. TypeOK /\ job[w] \in Job /\ JobOK(job[w]) BY DEF IInv, TypeOK
<1>2. PICK j \in Job : j = job[w] BY <1>1
<1>3. PICK g \in Groups, i \in Ids : p[1] = g /\ p[2] = i /\ p = <<g, i>> BY RearmFacts
<1>4. j.stage \in {"redrive", "rewait"} /\ p \in j.todo BY <1>2, RearmFacts
<1>5. HasLock(w) BY <1>2, <1>4, RearmFacts DEF HasLock, LockStages
<1>6. \A q \in j.todo : q[2] <= newest BY <1>1, <1>2, <1>4 DEF JobOK, FreeJob, HoldJob
<1>7. PICK rest \in SUBSET (Groups \X Ids) : rest = j.todo \ {p} BY <1>4, JobFields
<1>8. UNCHANGED <<glog, logmax, gpayload, gdead, handles, clock, newest>>
  BY RearmFacts DEF bounds
<1>9. CASE Continue(w, TRUE, job[w].todo \ {p}) /\ UNCHANGED <<gstate, cache, owed, renewed>>
  <2>1. PICK f \in BOOLEAN : Continue(w, f, rest) BY <1>2, <1>7, <1>9
  <2>2. PICK k \in Job : Goto(w, k) /\ (k = IdleJob \/ (k.stage = "redrive" /\ k.todo = rest))
    BY <2>1, ContinueFacts
  <2>3. Unlocked /\ Known(glog)' /\ logmax' <= newest' BY <1>8, <1>9, QuietStep
  <2>4. JobOK(k)
    <3>1. CASE k = IdleJob BY <3>1, IdleOK
    <3>2. CASE k.stage = "redrive" /\ k.todo = rest
      BY <1>6, <1>7, <3>2 DEF JobOK, FreeJob, ProbeJob, BuryJob, HoldJob
    <3> QED BY <2>2, <3>1, <3>2
  <2>5. JobOK(k)' BY <1>1, <2>3, <2>4, JobStays
  <2> QED BY <1>5, <2>2, <2>3, <2>5, UnlockedStep
<1>10. CASE ~(Continue(w, TRUE, job[w].todo \ {p}) /\ UNCHANGED <<gstate, cache, owed, renewed>>)
  <2>1. /\ gstate' = [gstate EXCEPT ![p[1]] = Armed(p[1], p[2])]
        /\ owed' = [owed EXCEPT ![p[1]] = @ \cup ({p[2]} \cap gpayload)]
        /\ renewed' = IF p[2] > Base(p[1]).hwm THEN renewed \cup {p}
                      ELSE renewed \cup ({p} \cap HeldPairs(handles))
        /\ Goto(w, [stage |-> "unpin", filtered |-> job[w].filtered,
                    todo |-> job[w].todo \ {p}, pair |-> p])
    BY <1>10, RearmFacts
  <2>2. PICK t \in GroupState : t = Armed(g, i) BY <1>1, ArmedFacts
  <2>3. gstate'[g] = t /\ \A q \in Groups : q # g => gstate'[q] = gstate[q]
    BY <1>1, <1>3, <2>1, <2>2 DEF TypeOK
  <2>4. t # None BY IdsFacts
  <2>5. /\ owed'[g] = owed[g] \cup ({i} \cap gpayload)
        /\ \A q \in Groups : q # g => owed'[q] = owed[q]
    BY <1>1, <1>3, <2>1 DEF TypeOK
  <2>6. PICK k \in Job :
           k = [stage |-> "unpin", filtered |-> j.filtered, todo |-> rest, pair |-> p]
    BY <1>4, JobFields, JobMade
  <2>7. Goto(w, k) BY <1>2, <1>7, <2>1, <2>6
  <2>8. t.flight[i] # <<>> BY <1>1, <2>2, ArmedFacts
  <2>9. StateOK(g, t)'
    <3>1. i <= newest BY <1>3, <1>4, <1>6
    <3>2. renewed' = IF i > Base(g).hwm THEN renewed \cup {<<g, i>>}
                     ELSE renewed \cup ({<<g, i>>} \cap HeldPairs(handles))
      BY <1>3, <2>1
    <3> QED BY <1>8, <2>2, <3>1, <3>2, ArmedOK
  <2>10. gstate'[g] # None /\ StateOK(g, gstate[g])' BY <2>3, <2>4, <2>9
  <2>11. JobOK(k)'
    <3>1. /\ k.stage = "unpin" /\ k.todo = rest /\ k.pair = p /\ k.pair[1] = g /\ k.pair[2] = i
      BY <1>3, <2>6
    <3>2. \A q \in rest : q[2] <= newest' BY <1>6, <1>7, <1>8
    <3>3. gstate'[g] # None /\ i \in InFlight(gstate'[g])
      BY <2>3, <2>4, <2>8 DEF InFlight
    <3>4. HoldJob(k)' BY <3>1, <3>2, <3>3 DEF HoldJob, InFlight
    <3> QED BY <3>1, <3>4 DEF JobOK, FreeJob, ProbeJob, BuryJob
  <2>12. ASSUME NEW n \in owed'[g] PROVE InCustody(g, n)'
    <3>1. n \in Ids /\ (n = i \/ n \in owed[g]) BY <2>5 DEF TypeOK
    <3>2. n \in gpayload
      <4>1. CASE n \in owed[g] BY <4>1 DEF IInv, GroupCustody, InCustody
      <4>2. CASE n \notin owed[g] BY <2>5, <2>12, <4>2
      <4> QED BY <4>1, <4>2
    <3>3. CASE n = i
      <4>1. n \in InFlight(t) BY <2>8, <3>3 DEF InFlight
      <4> QED BY <1>8, <2>3, <2>4, <3>2, <4>1 DEF InCustody
    <3>4. CASE n # i
      <4>1. InCustody(g, n) BY <3>1, <3>4 DEF IInv, GroupCustody
      <4>2. CASE gstate[g] # None
        <5>1. PICK s \in GroupState : s = gstate[g] BY <1>1, <4>2, StateType
        <5>2. Base(g) = s BY <4>2, <5>1, BaseOK
        <5>3. t.hwm = s.hwm /\ t.flight[n] = s.flight[n]
          BY <1>1, <2>2, <3>1, <3>4, <5>2, ArmedFacts
        <5>4. n \in gdead[g] \/ n \in InFlight(s) \/ (n > s.hwm /\ n \in glog)
          BY <4>1, <5>1 DEF InCustody
        <5>5. n \in gdead[g] \/ n \in InFlight(t) \/ (n > t.hwm /\ n \in glog)
          BY <5>3, <5>4 DEF InFlight
        <5> QED BY <1>8, <2>3, <2>4, <3>2, <5>5 DEF InCustody
      <4>3. CASE gstate[g] = None BY <1>8, <3>2, <4>1, <4>3 DEF InCustody
      <4> QED BY <4>2, <4>3
    <3> QED BY <3>3, <3>4
  <2>13. Known(gdead'[g]) BY <1>8 DEF IInv, KnownInv
  <2>14. renewed \subseteq renewed' BY <2>1
  <2>15. \A q \in Groups : q # g =>
             gstate'[q] = gstate[q] /\ gdead'[q] = gdead[q] /\ owed'[q] = owed[q]
    BY <1>8, <2>3, <2>5
  <2> QED BY <1>5, <1>8, <2>7, <2>10, <2>11, <2>12, <2>13, <2>14, <2>15, GroupStep
<1> QED BY <1>9, <1>10

\* A dead letter is deleted when the id is in flight.
LEMMA UnpinNext ==
    ASSUME IInv, TypeOK', NEW w \in Workers, RedriveUnpin(w)
    PROVE  IInv'
<1>1. TypeOK /\ job[w] \in Job /\ JobOK(job[w]) BY DEF IInv, TypeOK
<1>2. PICK j \in Job : j = job[w] BY <1>1
<1>3. j.stage = "unpin" BY <1>2 DEF RedriveUnpin
<1>4. PICK g \in Groups, i \in Ids : j.pair[1] = g /\ j.pair[2] = i BY <1>3, JobFields
<1>5. /\ \A q \in j.todo : q[2] <= newest
      /\ gstate[g] # None /\ i \in InFlight(gstate[g])
  BY <1>1, <1>2, <1>3, <1>4 DEF JobOK, HoldJob
<1>6. j.filtered \in BOOLEAN /\ j.todo \in SUBSET (Groups \X Ids) BY <1>3, JobFields
<1>7. Continue(w, j.filtered, j.todo) BY <1>2 DEF RedriveUnpin
<1>8. PICK k \in Job : Goto(w, k) /\ (k = IdleJob \/ (k.stage = "redrive" /\ k.todo = j.todo))
  BY <1>6, <1>7, ContinueFacts
<1>9. /\ UNCHANGED <<glog, logmax, gpayload, gstate, handles, clock, newest, owed, renewed>>
      /\ gdead' = [gdead EXCEPT ![g] = @ \ {i}]
  BY <1>2, <1>4 DEF RedriveUnpin, bounds, history
<1>10. gdead'[g] = gdead[g] \ {i} /\ \A q \in Groups : q # g => gdead'[q] = gdead[q]
  BY <1>1, <1>9 DEF TypeOK
<1>11. JobOK(k)'
  <2>1. CASE k = IdleJob
    <3>1. k.stage = "idle" BY <2>1 DEF IdleJob
    <3> QED BY <3>1, PlainJob
  <2>2. CASE k.stage = "redrive" /\ k.todo = j.todo
    <3>1. \A q \in k.todo : q[2] <= newest' BY <1>5, <1>9, <2>2
    <3> QED BY <2>2, <3>1 DEF JobOK, FreeJob, ProbeJob, BuryJob, HoldJob
  <2> QED BY <1>8, <2>1, <2>2
<1>12. HasLock(w) BY <1>2, <1>3 DEF HasLock, LockStages
<1>13. Known(gdead'[g]) BY <1>10 DEF Known, IInv, KnownInv
<1>14. StateOK(g, gstate[g])' BY <1>5, <1>9, StateSame
<1>15. \A n \in owed'[g] : InCustody(g, n)'
  BY <1>5, <1>9, <1>10 DEF IInv, GroupCustody, InCustody
<1>16. gstate'[g] # None BY <1>5, <1>9
<1>17. \A q \in Groups : q # g =>
           gstate'[q] = gstate[q] /\ gdead'[q] = gdead[q] /\ owed'[q] = owed[q]
  BY <1>9, <1>10
<1> QED BY <1>8, <1>9, <1>11, <1>12, <1>13, <1>14, <1>15, <1>16, <1>17, GroupStep


-----------------------------------------------------------------------------
(* reset_group, delete_group, the retention sweep, and the rest. *)

LEMMA ResetNext ==
    ASSUME IInv, TypeOK', NEW w \in Workers, NEW g \in Groups, NEW start \in Starts,
           ResetGroup(w, g, start)
    PROVE  IInv'
<1>1. TypeOK BY DEF IInv
<1>2. logmax \in Nat /\ newest \in Nat /\ logmax <= newest BY DEF IInv, TypeOK, KnownInv
<1>3. PICK m \in Nat : m = IF start = "latest" THEN logmax ELSE 0 BY <1>2
<1>4. PICK t \in GroupState : t = NewGroup(m) BY NewGroupFacts
<1>5. t.hwm = m /\ InFlight(t) = {} /\ \A n \in Ids : t.flight[n] = <<>>
  BY <1>4, NewGroupFacts
<1>6. /\ job[w] = IdleJob /\ job' = job /\ ~Locked
      /\ UNCHANGED <<glog, logmax, gpayload, gdead, handles, clock, newest>>
      /\ gstate' = [gstate EXCEPT ![g] = t]
      /\ owed' = [owed EXCEPT ![g] =
             (@ \cap gdead[g]) \cup (IF start = "latest" THEN {} ELSE glog \cap gpayload)]
      /\ renewed' = renewed \cup (({g} \X Ids) \cap HeldPairs(handles))
  BY <1>3, <1>4 DEF ResetGroup, BeginOperator, Begin
<1>7. gstate'[g] = t /\ t # None /\ \A q \in Groups : q # g => gstate'[q] = gstate[q]
  BY <1>1, <1>6, IdsFacts DEF TypeOK
<1>8. /\ owed'[g] = (owed[g] \cap gdead[g])
                        \cup (IF start = "latest" THEN {} ELSE glog \cap gpayload)
      /\ \A q \in Groups : q # g => owed'[q] = owed[q]
  BY <1>1, <1>6 DEF TypeOK
<1>9. \A h \in handles' : h.group = g => <<g, h.id>> \in renewed'
  BY <1>1, <1>6, HandleFacts DEF HeldPairs
<1>10. StateOK(g, t)'
  <2>1. (t.hwm <= newest)' BY <1>2, <1>3, <1>5, <1>6
  <2>2. Known(InFlight(t))' BY <1>5 DEF Known, InFlight
  <2>3. \A n \in Ids : Single(t, n) BY <1>5 DEF Single
  <2> QED BY <1>9, <2>1, <2>2, <2>3 DEF StateOK, Known, InFlight, Single, Covers
<1>11. StateOK(g, gstate[g])' BY <1>7, <1>10
<1>12. ASSUME NEW n \in owed'[g] PROVE InCustody(g, n)'
  <2>1. CASE n \in owed[g] \cap gdead[g]
    BY <1>6, <2>1 DEF IInv, GroupCustody, InCustody
  <2>2. CASE n \notin owed[g] \cap gdead[g]
    <3>1. start # "latest" /\ n \in glog /\ n \in gpayload BY <1>8, <1>12, <2>2
    <3>2. n \in Nat /\ n # 0 BY <1>1, <3>1, IdsFacts DEF TypeOK
    <3>3. n > t.hwm BY <1>3, <1>5, <3>1, <3>2
    <3> QED BY <1>6, <1>7, <3>1, <3>3 DEF InCustody
  <2> QED BY <2>1, <2>2
<1>13. Goto(w, IdleJob) /\ IdleJob \in Job /\ JobOK(IdleJob)' BY <1>1, <1>6, StayIdle
<1>14. HasLock(w) BY <1>6 DEF HasLock
<1>15. Known(gdead'[g]) /\ renewed \subseteq renewed' BY <1>6 DEF IInv, KnownInv
<1>16. \A q \in Groups : q # g =>
           gstate'[q] = gstate[q] /\ gdead'[q] = gdead[q] /\ owed'[q] = owed[q]
  BY <1>6, <1>7, <1>8
<1> QED BY <1>6, <1>7, <1>11, <1>12, <1>13, <1>14, <1>15, <1>16, GroupStep

LEMMA DeleteNext ==
    ASSUME IInv, TypeOK', NEW w \in Workers,
           (\E g \in Groups : DeleteGroup(w, g)) \/ DeleteDead(w) \/ DeleteState(w)
    PROVE  IInv'
<1>1. TypeOK /\ job[w] \in Job BY DEF IInv, TypeOK
<1>2. PICK j \in Job : j = job[w] BY <1>1
<1>3. ASSUME NEW g \in Groups, DeleteGroup(w, g) PROVE IInv'
  <2>1. PICK todo \in SUBSET Ids : todo = gdead[g] BY <1>1 DEF TypeOK
  <2>2. PICK k \in Job : k = [stage |-> "delete", group |-> g, todo |-> todo] BY JobMade
  <2>3. Goto(w, k) /\ ~Locked BY <1>3, <2>1, <2>2 DEF DeleteGroup
  <2>4. Unlocked /\ Known(glog)' /\ logmax' <= newest'
    BY <1>3, QuietStep DEF DeleteGroup, store, history
  <2>5. JobOK(k)' BY <2>2, PlainJob
  <2>6. HasLock(w) BY <2>3 DEF HasLock
  <2> QED BY <2>3, <2>4, <2>5, <2>6, UnlockedStep
<1>4. ASSUME DeleteDead(w) \/ DeleteState(w)
      PROVE  j.stage = "delete" /\ HasLock(w)
  BY <1>2, <1>4 DEF DeleteDead, DeleteState, HasLock, LockStages
<1>5. CASE DeleteDead(w)
  <2>1. PICK g \in Groups : g = j.group BY <1>4, <1>5, JobFields
  <2>2. j.todo \in SUBSET Ids /\ j.todo # {} BY <1>2, <1>4, <1>5, JobFields DEF DeleteDead
  <2>3. PICK i \in j.todo : i = First(j.todo) BY <2>2, FirstIn
  <2>4. PICK rest \in SUBSET Ids : rest = j.todo \ {i} BY <2>2
  <2>5. PICK k \in Job : k = [j EXCEPT !.todo = rest] BY <1>4, <1>5, JobMoved
  <2>6. k.stage = "delete" BY <1>4, <1>5, <2>5, JobMoved
  <2>7. Goto(w, k) BY <1>2, <1>5, <2>3, <2>4, <2>5 DEF DeleteDead
  <2>8. /\ UNCHANGED <<glog, logmax, gpayload, gstate, handles, clock, newest, renewed>>
        /\ gdead' = [gdead EXCEPT ![g] = @ \ {i}]
        /\ owed' = [owed EXCEPT ![g] = @ \ {i}]
    BY <1>2, <1>5, <2>1, <2>3 DEF DeleteDead, bounds
  <2>9. /\ gdead'[g] = gdead[g] \ {i} /\ owed'[g] = owed[g] \ {i}
        /\ \A q \in Groups : q # g => gdead'[q] = gdead[q] /\ owed'[q] = owed[q]
    BY <1>1, <2>8 DEF TypeOK
  <2>10. JobOK(k)' BY <2>6, PlainJob
  <2>11. Known(gdead'[g]) BY <2>9 DEF Known, IInv, KnownInv
  <2>12. gstate'[g] # None => StateOK(g, gstate[g])' BY <2>8, StateSame
  <2>13. \A n \in owed'[g] : InCustody(g, n)'
    BY <2>8, <2>9 DEF IInv, GroupCustody, InCustody
  <2>14. \A h \in handles' : h.group = g /\ gstate'[g] = None => <<g, h.id>> \in renewed'
    BY <2>8 DEF IInv, GroupInv
  <2>15. \A q \in Groups : q # g =>
             gstate'[q] = gstate[q] /\ gdead'[q] = gdead[q] /\ owed'[q] = owed[q]
    BY <2>8, <2>9
  <2> QED BY <1>4, <1>5, <2>7, <2>8, <2>10, <2>11, <2>12, <2>13, <2>14, <2>15, GroupStep
<1>6. CASE DeleteState(w)
  <2>1. PICK g \in Groups : g = j.group BY <1>4, <1>6, JobFields
  <2>2. PICK k \in Job : k = IdleJob /\ k.stage = "idle" BY JobMade DEF IdleJob
  <2>3. Goto(w, k) BY <1>6, <2>2 DEF DeleteState
  <2>4. /\ UNCHANGED <<glog, logmax, gpayload, gdead, handles, clock, newest>>
        /\ gstate' = [gstate EXCEPT ![g] = None]
        /\ owed' = [owed EXCEPT ![g] = {}]
        /\ renewed' = renewed \cup (({g} \X Ids) \cap HeldPairs(handles))
    BY <1>2, <1>6, <2>1 DEF DeleteState, bounds
  <2>5. /\ gstate'[g] = None /\ owed'[g] = {}
        /\ \A q \in Groups : q # g => gstate'[q] = gstate[q] /\ owed'[q] = owed[q]
    BY <1>1, <2>4 DEF TypeOK
  <2>6. JobOK(k)' BY <2>2, PlainJob
  <2>7. Known(gdead'[g]) /\ renewed \subseteq renewed' BY <2>4 DEF IInv, KnownInv
  <2>8. \A h \in handles' : h.group = g /\ gstate'[g] = None => <<g, h.id>> \in renewed'
    BY <1>1, <2>4, HandleFacts DEF HeldPairs
  <2>9. \A q \in Groups : q # g =>
            gstate'[q] = gstate[q] /\ gdead'[q] = gdead[q] /\ owed'[q] = owed[q]
    BY <2>4, <2>5
  <2> QED BY <1>4, <1>6, <2>3, <2>4, <2>5, <2>6, <2>7, <2>8, <2>9, GroupStep
<1> QED BY <1>3, <1>5, <1>6

\* What the sweep takes is neither dead-lettered nor owed.
LEMMA SweepStart ==
    ASSUME IInv, TypeOK', NEW w \in Workers, Sweep(w)
    PROVE  IInv'
<1>1. TypeOK BY DEF IInv
<1>2. PICK victims \in SUBSET Ids : victims = {i \in glog : Reclaimable(i)} BY <1>1 DEF TypeOK
<1>3. PICK k \in Job : k = [stage |-> "sweep", todo |-> victims] BY JobMade
<1>4. /\ Goto(w, k) /\ ~Locked /\ victims # {}
      /\ UNCHANGED <<glog, logmax, gpayload, gstate, gdead, handles, clock, newest, renewed>>
      /\ owed' = [g \in Groups |-> owed[g] \ {i \in victims : Aged(i)}]
  <2>1. Goto(w, k) /\ ~Locked /\ victims # {} BY <1>2, <1>3 DEF Sweep
  <2>2. UNCHANGED <<glog, logmax, gpayload, gstate, gdead, handles, clock, newest, renewed>>
    BY DEF Sweep, store
  <2>3. owed' = [g \in Groups |-> owed[g] \ {i \in victims : Aged(i)}] BY <1>2 DEF Sweep
  <2> QED BY <2>1, <2>2, <2>3
<1>5. \A g \in Groups : owed'[g] = owed[g] \ {i \in victims : Aged(i)} BY <1>4
<1>6. Unlocked /\ Known(glog)' /\ logmax' <= newest' BY <1>4, <1>5, QuietStep
<1>7. ASSUME NEW g \in Groups, NEW i \in victims PROVE i \notin gdead[g] /\ i \notin owed'[g]
  <2>1. Reclaimable(i) BY <1>2
  <2>2. i \notin gdead[g] BY <2>1 DEF Reclaimable
  <2>3. ASSUME i \in owed'[g] PROVE FALSE
    <3>1. i \in owed[g] /\ ~Aged(i) BY <1>5, <2>3
    <3>2. ~Needed(States, i) BY <2>1, <3>1 DEF Reclaimable
    <3>3. InCustody(g, i) BY <3>1 DEF IInv, GroupCustody
    <3>4. gstate[g] # None /\ (gstate[g].flight[i] # <<>> \/ i > gstate[g].hwm)
      BY <2>2, <3>3 DEF InCustody, InFlight
    <3>5. gstate[g] \in States BY <3>4 DEF States, Registered
    <3> QED BY <3>2, <3>4, <3>5 DEF Needed
  <2> QED BY <2>2, <2>3
<1>8. JobOK(k)'
  <2>1. k.stage = "sweep" /\ k.todo = victims BY <1>3
  <2>2. Known(victims)' BY <1>2, <1>4 DEF Known, IInv, KnownInv
  <2>3. \A g \in Groups : victims \cap gdead'[g] = {} /\ victims \cap owed'[g] = {}
    BY <1>4, <1>7
  <2>4. HoldJob(k)' BY <1>4, <2>1, <2>2, <2>3 DEF HoldJob
  <2> QED BY <2>1, <2>4 DEF JobOK, FreeJob, ProbeJob, BuryJob
<1>9. HasLock(w) BY <1>4 DEF HasLock
<1> QED BY <1>4, <1>6, <1>8, <1>9, UnlockedStep

\* What the sweep frees was not owed and not dead-lettered, and still is not.
LEMMA SweepNext ==
    ASSUME IInv, TypeOK', NEW w \in Workers, SweepPayload(w) \/ SweepLog(w)
    PROVE  IInv'
<1>1. TypeOK /\ job[w] \in Job /\ JobOK(job[w]) BY DEF IInv, TypeOK
<1>2. PICK j \in Job : j = job[w] BY <1>1
<1>3. j.stage \in {"sweep", "unlog"} BY <1>2 DEF SweepPayload, SweepLog
<1>4. /\ j.todo \in SUBSET Ids /\ j.todo # {} /\ Known(j.todo)
      /\ \A g \in Groups : j.todo \cap gdead[g] = {} /\ j.todo \cap owed[g] = {}
  BY <1>1, <1>2, <1>3, JobFields DEF JobOK, HoldJob
<1>5. PICK i \in j.todo : i = First(j.todo) BY <1>4, FirstIn
<1>6. UNCHANGED <<logmax, gstate, gdead, handles, clock, newest, owed, renewed>>
  BY DEF SweepPayload, SweepLog, bounds, history
<1>7. /\ \A n \in gpayload : n = i \/ n \in gpayload'
      /\ \A n \in glog : n = i \/ n \in glog'
      /\ glog' \subseteq glog
  BY <1>2, <1>5 DEF SweepPayload, SweepLog
<1>8. i <= newest BY <1>4 DEF Known
<1>9. newest \in Nat /\ newest <= newest' BY <1>1, <1>6 DEF TypeOK
<1>10. Grows BY <1>6, <1>7, <1>8, <1>9 DEF Grows
<1>11. StoreInv'
  <2>1. KnownInv' BY <1>6, <1>7 DEF IInv, KnownInv, Known
  <2>2. GroupInv' BY <1>6 DEF IInv, GroupInv, StateOK, Known, Single, Covers, Registered, InFlight
  <2>3. GroupCustody'
    <3> SUFFICES ASSUME NEW g \in Groups, NEW n \in owed'[g] PROVE InCustody(g, n)'
      BY DEF GroupCustody
    <3>1. n \in owed[g] /\ n # i BY <1>4, <1>6
    <3>2. InCustody(g, n) BY <3>1 DEF IInv, GroupCustody
    <3> QED BY <1>6, <1>7, <3>1, <3>2 DEF InCustody
  <2>4. OneLease' BY <1>6 DEF IInv, OneLease
  <2> QED BY <2>1, <2>2, <2>3, <2>4 DEF StoreInv
<1>12. PICK k \in Job :
          /\ Goto(w, k)
          /\ \/ k.stage = "idle"
             \/ k.stage \in {"sweep", "unlog"} /\ k.todo # {} /\ k.todo \subseteq j.todo
  <2>1. CASE SweepPayload(w)
    <3>1. j.stage = "sweep" BY <1>2, <2>1 DEF SweepPayload
    <3>2. PICK k \in Job : k = [j EXCEPT !.stage = "unlog"] BY <3>1, JobMoved
    <3>3. k.stage = "unlog" /\ k.todo = j.todo BY <3>1, <3>2, JobMoved
    <3>4. Goto(w, k) BY <1>2, <2>1, <3>2 DEF SweepPayload
    <3> QED BY <1>4, <3>3, <3>4
  <2>2. CASE SweepLog(w)
    <3>1. CASE j.todo = {i}
      <4>1. PICK k \in Job : k = IdleJob /\ k.stage = "idle" BY JobMade DEF IdleJob
      <4>2. Goto(w, k) BY <1>2, <1>5, <2>2, <3>1, <4>1 DEF SweepLog
      <4> QED BY <4>1, <4>2
    <3>2. CASE j.todo # {i}
      <4>1. PICK rest \in SUBSET Ids : rest = j.todo \ {i} /\ rest # {} BY <1>4, <3>2
      <4>2. PICK k \in Job : k = [stage |-> "sweep", todo |-> rest] BY JobMade
      <4>3. Goto(w, k) BY <1>2, <1>5, <2>2, <3>2, <4>1, <4>2 DEF SweepLog
      <4>4. k.stage = "sweep" /\ k.todo = rest BY <4>2
      <4> QED BY <4>1, <4>3, <4>4
    <3> QED BY <3>1, <3>2
  <2> QED BY <2>1, <2>2
<1>13. JobOK(k)'
  <2>1. CASE k.stage = "idle" BY <2>1, PlainJob
  <2>2. CASE k.stage \in {"sweep", "unlog"} /\ k.todo # {} /\ k.todo \subseteq j.todo
    <3>1. Known(k.todo)' BY <1>4, <1>6, <2>2 DEF Known
    <3>2. \A g \in Groups : k.todo \cap gdead'[g] = {} /\ k.todo \cap owed'[g] = {}
      BY <1>4, <1>6, <2>2
    <3>3. HoldJob(k)' BY <2>2, <3>1, <3>2 DEF HoldJob
    <3> QED BY <2>2, <3>3 DEF JobOK, FreeJob, ProbeJob, BuryJob
  <2> QED BY <1>12, <2>1, <2>2
<1>14. HasLock(w) BY <1>2, <1>3 DEF HasLock, LockStages
<1> QED BY <1>10, <1>11, <1>12, <1>13, <1>14, LockedStep

\* The calls stay where they are.
LEMMA CalmStep ==
    ASSUME IInv, TypeOK', UNCHANGED <<job, store, handles, history>>, clock <= clock'
    PROVE  IInv'
<1>1. TypeOK /\ newest <= newest' BY DEF IInv, TypeOK, history
<1>2. Unlocked BY <1>1 DEF Unlocked, store, history
<1>3. Known(glog)' /\ logmax' <= newest' BY DEF IInv, KnownInv, Known, store, history
<1>4. StoreInv' BY <1>2, <1>3, StoreStays
<1>5. LockInv' BY DEF IInv, LockInv
<1>6. ASSUME NEW v \in Workers PROVE JobOK(job[v])'
  <2>1. PICK j \in Job : j = job[v] BY <1>1 DEF TypeOK
  <2>2. JobOK(j) BY <2>1 DEF IInv
  <2>3. JobOK(j)' BY <1>1, <1>2, <2>2, JobStays
  <2>4. job'[v] = j BY <2>1
  <2> QED BY <2>3, <2>4
<1> QED BY <1>4, <1>5, <1>6 DEF IInv, StoreInv

\* A restart: what the store promises is in the store, and nobody holds anything.
LEMMA CrashNext ==
    ASSUME IInv, TypeOK', Crash
    PROVE  IInv'
<1>1. TypeOK BY DEF IInv
<1>2. /\ \A v \in Workers : job'[v] = IdleJob
      /\ handles' = {}
      /\ UNCHANGED <<glog, logmax, gpayload, gstate, gdead, clock, newest, owed, renewed>>
  BY DEF Crash, store, history
<1>3. LockInv' BY <1>2 DEF LockInv, IdleJob, LockStages
<1>4. KnownInv' BY <1>2 DEF IInv, KnownInv, Known
<1>5. GroupInv'
  <2>1. \A g \in Groups : gstate'[g] # None => StateOK(g, gstate[g])' BY <1>2, StateSame
  <2> QED BY <1>2, <2>1 DEF GroupInv, Registered
<1>6. GroupCustody' BY <1>2 DEF IInv, GroupCustody, InCustody
<1>7. OneLease' BY <1>2 DEF OneLease
<1>8. ASSUME NEW v \in Workers PROVE JobOK(job[v])'
  <2>1. PICK j \in Job : j = IdleJob /\ j.stage = "idle" BY JobMade DEF IdleJob
  <2>2. JobOK(j)' BY <2>1, PlainJob
  <2>3. job'[v] = j BY <1>2, <2>1
  <2> QED BY <2>2, <2>3
<1> QED BY <1>3, <1>4, <1>5, <1>6, <1>7, <1>8 DEF IInv

-----------------------------------------------------------------------------
(* The theorems. *)

LEMMA InvInit == Init => IInv
<1> SUFFICES ASSUME Init PROVE IInv OBVIOUS
<1>1. TypeOK BY TypeInit
<1>2. LockInv BY DEF Init, LockInv, IdleJob, LockStages
<1>3. KnownInv BY DEF Init, KnownInv, Known
<1>4. GroupInv BY DEF Init, GroupInv, Registered
<1>5. GroupCustody BY DEF Init, GroupCustody
<1>6. OneLease BY DEF Init, OneLease
<1>7. \A v \in Workers : JobOK(job[v]) BY IdleOK DEF Init
<1> QED BY <1>1, <1>2, <1>3, <1>4, <1>5, <1>6, <1>7 DEF IInv

LEMMA InvNext == IInv /\ [Next]_vars => IInv'
<1> SUFFICES ASSUME IInv, [Next]_vars PROVE IInv' OBVIOUS
<1>1. TypeOK /\ TypeOK' BY TypeNext DEF IInv
<1>2. ASSUME NEW w \in Workers, Call(w) PROVE IInv'
  <2>1. CASE Publish(w) BY <1>1, <2>1, PublishNext
  <2>2. CASE \E g \in Groups, start \in Starts : ClaimGrouped(w, g, start)
    BY <1>1, <2>2, ProbeNext
  <2>3. ASSUME NEW h \in handles, Ack(w, h) PROVE IInv' BY <1>1, <2>3, AckNext
  <2>4. CASE \E h \in handles : DeadLetter(w, h) BY <1>1, <2>4, DeadLetterNext
  <2>5. ASSUME NEW h \in handles, NEW d \in NackDelays, Nack(w, h, d) PROVE IInv'
    BY <1>1, <2>5, NackNext
  <2>6. CASE \/ \E f \in BOOLEAN, pairs \in SUBSET DeadPairs : Redrive(w, f, pairs)
             \/ \E pairs \in SUBSET DeadPairs : Discard(w, pairs)
    BY <1>1, <2>6, ListNext
  <2>7. ASSUME NEW g \in Groups, NEW start \in Starts, ResetGroup(w, g, start) PROVE IInv'
    BY <1>1, <2>7, ResetNext
  <2>8. CASE \E g \in Groups : DeleteGroup(w, g) BY <1>1, <2>8, DeleteNext
  <2>9. CASE Sweep(w) BY <1>1, <2>9, SweepStart
  <2>10. CASE SetPaused(w) \/ RegisterElsewhere(w)
    <3>1. Unlocked /\ Known(glog)' /\ logmax' <= newest'
      BY <1>1, <2>10, QuietStep DEF SetPaused, RegisterElsewhere, store, history
    <3>2. job[w] = IdleJob /\ job' = job
      BY <2>10 DEF SetPaused, RegisterElsewhere, BeginOperator, Begin
    <3>3. Goto(w, IdleJob) /\ IdleJob \in Job /\ JobOK(IdleJob)' BY <1>1, <3>2, StayIdle
    <3>4. IdleJob.stage \notin LockStages BY DEF IdleJob, LockStages
    <3> QED BY <1>1, <3>1, <3>3, <3>4, UnlockedStep
  <2> QED BY <1>2, <2>1, <2>2, <2>3, <2>4, <2>5, <2>6, <2>7, <2>8, <2>9, <2>10 DEF Call
<1>3. ASSUME NEW w \in Workers, Step(w) PROVE IInv'
  <2>1. CASE LoadList(w) \/ LoadCache(w) \/ GateRead(w) \/ PublishCommit(w) \/ PublishPlain(w)
    BY <1>1, <2>1, PublishNext
  <2>2. CASE ClaimGate(w) \/ ClaimScan(w) BY <1>1, <2>2, ProbeNext
  <2>3. CASE ClaimBury(w) \/ ClaimPersist(w) BY <1>1, <2>3, BuryNext
  <2>4. CASE DeadLetterDrop(w) BY <1>1, <2>4, DeadLetterNext
  <2>5. ASSUME NEW p \in Groups \X Ids, RedriveRearm(w, p) PROVE IInv'
    BY <1>1, <2>5, RedriveNext
  <2>6. ASSUME NEW p \in Groups \X Ids, DiscardDelete(w, p) PROVE IInv'
    BY <1>1, <2>6, DiscardNext
  <2>7. CASE RedriveUnpin(w) BY <1>1, <2>7, UnpinNext
  <2>8. CASE DeleteDead(w) \/ DeleteState(w) BY <1>1, <2>8, DeleteNext
  <2>9. CASE SweepPayload(w) \/ SweepLog(w) BY <1>1, <2>9, SweepNext
  <2> QED BY <1>3, <2>1, <2>2, <2>3, <2>4, <2>5, <2>6, <2>7, <2>8, <2>9 DEF Step
<1>4. CASE Crash BY <1>1, <1>4, CrashNext
<1>5. CASE Tick
  <2>1. clock <= clock' BY <1>1, <1>5 DEF Tick, TypeOK
  <2> QED BY <1>1, <1>5, <2>1, CalmStep DEF Tick
<1>6. CASE UNCHANGED vars
  <2>1. clock <= clock' BY <1>1, <1>6 DEF vars, TypeOK
  <2> QED BY <1>1, <1>6, <2>1, CalmStep DEF vars, store, history
<1> QED BY <1>2, <1>3, <1>4, <1>5, <1>6 DEF Next

LEMMA Invariance == Spec => []IInv
BY InvInit, InvNext, PTL DEF Spec

\* No step of the group lane takes a variable out of its type: what a call carries
\* from one await to the next is always what its next step reads.
THEOREM TypeCorrect == Spec => []TypeOK
<1>1. IInv => TypeOK BY DEF IInv
<1> QED BY <1>1, Invariance, PTL

\* At least once per group: whatever other calls do between any two writes of a
\* claim, a nack, a quarantine, a redrive or a sweep, and wherever the process
\* restarts, a message that is owed to a group is ahead of the group in the log,
\* in flight or dead-lettered, and its payload is there.
THEOREM CustodyKept == Spec => []GroupCustody
<1>1. IInv => GroupCustody BY DEF IInv
<1> QED BY <1>1, Invariance, PTL

\* No two unexpired deliveries of a message are out in a group unless the lease was
\* given up: the plan of a claim redelivers only lapsed entries, and the state it
\* was made from is the stored one until the claim writes the next.
THEOREM LeasedOncePerGroup == Spec => []OneLease
<1>1. IInv => OneLease BY DEF IInv
<1> QED BY <1>1, Invariance, PTL

\* The sweep never deletes the payload of a dead letter, although it decides what
\* to delete many writes before it does.
THEOREM DeadLettersPinned == Spec => DeadLetterPinned
<1>1. ASSUME IInv, [Next]_vars PROVE [\A g \in Groups : gdead[g] \cap gpayload \subseteq gpayload']_vars
  <2> SUFFICES ASSUME Next, NEW g \in Groups, NEW i \in gdead[g], i \in gpayload
               PROVE  i \in gpayload'
    BY <1>1
  <2>1. ASSUME NEW w \in Workers, SweepPayload(w) PROVE i \in gpayload'
    <3>1. job[w] \in Job /\ JobOK(job[w]) BY <1>1 DEF IInv, TypeOK
    <3>2. job[w].stage = "sweep" /\ gpayload' = gpayload \ {First(job[w].todo)}
      BY <2>1 DEF SweepPayload
    <3>3. /\ job[w].todo \in SUBSET Ids /\ job[w].todo # {}
          /\ job[w].todo \cap gdead[g] = {}
      BY <3>1, <3>2, JobFields DEF JobOK, HoldJob
    <3>4. First(job[w].todo) \in job[w].todo BY <3>3, FirstIn
    <3> QED BY <3>2, <3>3, <3>4
  <2>2. ASSUME NEW w \in Workers, Call(w) PROVE gpayload \subseteq gpayload'
    BY <2>2 DEF Call, Publish, Retain, ClaimGrouped, Ack, DeadLetter, Nack, Redrive, Discard,
                ResetGroup, DeleteGroup, Sweep, SetPaused, RegisterElsewhere, store
  <2>3. ASSUME NEW w \in Workers, Step(w), ~SweepPayload(w) PROVE gpayload \subseteq gpayload'
    BY <2>3 DEF Step, LoadList, LoadCache, Retain, GateRead, PublishCommit, PublishPlain,
                ClaimGate, ClaimScan, ClaimBury, ClaimPersist, DeadLetterDrop, RedriveRearm,
                DiscardDelete, RedriveUnpin, DeleteDead, DeleteState, SweepLog, store
  <2>4. CASE Crash \/ Tick BY <2>4 DEF Crash, Tick, store
  <2> QED BY <2>1, <2>2, <2>3, <2>4 DEF Next
<1> QED BY <1>1, Invariance, PTL DEF Spec, DeadLetterPinned
=============================================================================
