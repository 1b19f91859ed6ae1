--------------------------- MODULE PlanLoopProofs ---------------------------
(***************************************************************************)
(* The loop of plan_claim computes the plan of module ClaimPlan, for every  *)
(* index, time and batch.  LoopInv says what the loop has done after some   *)
(* iterations: the records visited come before the others in the order the  *)
(* source sorts by, and those of them that are due were acted on.           *)
(***************************************************************************)
EXTENDS PlanLoop, FiniteSetTheorems, TLAPS

Plan == Candidates(index, now, MaxAttempts)

\* The records the loop is done with.
Visited == Live(index) \ Range(rest)

ActionType == [kind : {"Lease", "DeadLetter"}, id : Ids, rec : Record]

TypeOK ==
    /\ index \in [Ids -> Record \cup {NoRec}]
    /\ now \in Nat /\ maxBatch \in Nat /\ leased \in Nat
    /\ rest \in Seq(Live(index))
    /\ actions \in Seq(ActionType)

\* The records are visited in order.
InOrder ==
    /\ \A m, n \in DOMAIN rest : m < n => Precedes(index, rest[m], rest[n])
    /\ \A i \in Visited, n \in DOMAIN rest : Precedes(index, i, rest[n])

\* The batch so far, which was not full when a record was visited.
Counted ==
    /\ leased = Cardinality(Visited \cap Plan)
    /\ \A i \in Visited : Reached(index, i, now, maxBatch, MaxAttempts)

\* What was visited and due was acted on, in order.
ActedOn ==
    /\ IdsOf("Lease") = Visited \cap Plan
    /\ IdsOf("DeadLetter") = {i \in Visited : Due(index[i], now) /\ i \notin Plan}
    /\ \A m, n \in DOMAIN actions : m < n => Precedes(index, actions[m].id, actions[n].id)
    /\ \A n \in DOMAIN actions : actions[n].id \in Visited
    /\ \A a \in Range(actions) :
          a.rec = IF a.kind = "Lease" THEN Leased(index[a.id], now, LeaseMs)
                  ELSE index[a.id]

LoopInv == TypeOK /\ InOrder /\ Counted /\ ActedOn

-----------------------------------------------------------------------------
(* The order of the records, and the operators of ClaimPlan. *)

\* The records of an index, and that the ids compare as numbers.
LEMMA IndexFacts ==
    ASSUME NEW idx \in [Ids -> Record \cup {NoRec}]
    PROVE  /\ Live(idx) \subseteq Ids /\ IsFiniteSet(Live(idx))
           /\ \A i \in Live(idx) : idx[i] \in Record /\ i \in Nat
<1>1. Live(idx) \subseteq Ids BY DEF Live
<1>2. IsFiniteSet(Live(idx)) BY <1>1, PlanLoopAssumption, FS_Subset
<1>3. \A i \in Live(idx) : idx[i] \in Record BY DEF Live
<1> QED BY <1>1, <1>2, <1>3, IdsAssumption

\* Precedes is a strict total order of the records.
LEMMA PrecedesOrder ==
    ASSUME NEW idx \in [Ids -> Record \cup {NoRec}],
           NEW i \in Live(idx), NEW j \in Live(idx), NEW k \in Live(idx)
    PROVE  /\ ~(Precedes(idx, i, j) /\ Precedes(idx, j, i))
           /\ Precedes(idx, i, j) /\ Precedes(idx, j, k) => Precedes(idx, i, k)
           /\ i = j \/ Precedes(idx, i, j) \/ Precedes(idx, j, i)
<1>1. /\ i \in Nat /\ j \in Nat /\ k \in Nat
      /\ idx[i] \in Record /\ idx[j] \in Record /\ idx[k] \in Record
  BY IndexFacts
<1>2. idx[i].prio \in Nat /\ idx[j].prio \in Nat /\ idx[k].prio \in Nat
  BY <1>1 DEF Record
<1> QED BY <1>1, <1>2 DEF Precedes

\* A sorted vector holds every record once, in order.
LEMMA SortingFacts ==
    ASSUME NEW idx \in [Ids -> Record \cup {NoRec}], NEW s \in Sortings(idx)
    PROVE  /\ s \in Seq(Live(idx)) /\ Range(s) = Live(idx)
           /\ \A m, n \in DOMAIN s : m < n => Precedes(idx, s[m], s[n])
<1> DEFINE c == Cardinality(Live(idx))
<1>1. c \in Nat BY IndexFacts, FS_CardinalityType
<1>2. s \in Bijection(1 .. c, Live(idx)) BY DEF Sortings
<1>3. s \in [1 .. c -> Live(idx)] /\ \A t \in Live(idx) : \E n \in 1 .. c : s[n] = t
  BY <1>2 DEF Bijection, Injection, Surjection
<1>4. s \in Seq(Live(idx)) BY <1>1, <1>3
<1>5. Range(s) = Live(idx) BY <1>3 DEF Range
<1> QED BY <1>4, <1>5 DEF Sortings

\* A lease writes a record back.
LEMMA LeasedType ==
    ASSUME NEW r \in Record, NEW t \in Nat, NEW ms \in Nat
    PROVE  Leased(r, t, ms) \in Record
<1>1. r.attempts + 1 \in Nat /\ t + ms \in Nat BY DEF Record
<1> QED BY <1>1 DEF Leased, Record

\* A candidate is a live record that is due and may be leased.
LEMMA PlanFacts ==
    ASSUME NEW idx \in [Ids -> Record \cup {NoRec}], NEW t \in Nat
    PROVE  LET C == Candidates(idx, t, MaxAttempts) IN
           /\ C \subseteq Live(idx) /\ IsFiniteSet(C)
           /\ \A S : /\ IsFiniteSet(S \cap C) /\ IsFiniteSet(C \cap S)
                     /\ Cardinality(S \cap C) \in Nat
           /\ \A i \in Live(idx) : i \in C <=> Leasable(idx[i], t, MaxAttempts)
           /\ \A i \in C : Due(idx[i], t)
<1> DEFINE C == Candidates(idx, t, MaxAttempts)
<1>1. C \subseteq Live(idx) /\ \A i \in Live(idx) : i \in C <=> Leasable(idx[i], t, MaxAttempts)
  BY DEF Candidates
<1>2. IsFiniteSet(C) BY <1>1, IndexFacts, FS_Subset
<1>3. \A S : IsFiniteSet(S \cap C) /\ IsFiniteSet(C \cap S) BY <1>2, FS_Intersection
<1>4. \A S : Cardinality(S \cap C) \in Nat BY <1>3, FS_CardinalityType
<1>5. \A i \in C : Due(idx[i], t) BY DEF Candidates, Leasable
<1> QED BY <1>1, <1>2, <1>3, <1>4, <1>5

-----------------------------------------------------------------------------
(* One iteration. *)

\* What taking the head off the vector does to the records visited.
LEMMA HeadVisited ==
    ASSUME TypeOK, InOrder, More
    PROVE  LET h == Head(rest) IN
           /\ h \in Live(index) /\ h \notin Visited /\ index[h] \in Record /\ h \in Ids
           /\ Tail(rest) \in Seq(Live(index))
           /\ Live(index) \ Range(Tail(rest)) = Visited \cup {h}
           /\ \A n \in DOMAIN Tail(rest) : n + 1 \in DOMAIN rest /\ Tail(rest)[n] = rest[n + 1]
           /\ \A i \in Visited : Precedes(index, i, h)
           /\ \A n \in DOMAIN Tail(rest) : Precedes(index, h, Tail(rest)[n])
<1> DEFINE h == Head(rest)
           T == Tail(rest)
<1>1. rest \in Seq(Live(index)) /\ rest # <<>> BY DEF TypeOK, More
<1>2. Len(rest) \in Nat /\ Len(rest) >= 1 /\ DOMAIN rest = 1 .. Len(rest) /\ h = rest[1] BY <1>1
<1>3. h \in Live(index) /\ h \in Range(rest) BY <1>1, <1>2 DEF Range
<1>4. T \in Seq(Live(index)) /\ Len(T) = Len(rest) - 1 /\ DOMAIN T = 1 .. Len(T) BY <1>1
<1>5. \A n \in DOMAIN T : n + 1 \in DOMAIN rest /\ T[n] = rest[n + 1] BY <1>1, <1>2, <1>4
<1>6. \A n \in DOMAIN T : Precedes(index, h, T[n]) /\ T[n] \in Live(index)
  <2> SUFFICES ASSUME NEW n \in DOMAIN T PROVE Precedes(index, h, T[n]) /\ T[n] \in Live(index)
    OBVIOUS
  <2>1. n \in Nat /\ 1 \in DOMAIN rest /\ n + 1 \in DOMAIN rest /\ 1 < n + 1 BY <1>2, <1>4, <1>5
  <2>2. Precedes(index, rest[1], rest[n + 1]) BY <2>1 DEF InOrder
  <2> QED BY <1>1, <1>2, <1>5, <2>1, <2>2
<1>7. Live(index) \ Range(T) = Visited \cup {h}
  <2>1. Range(rest) = Range(T) \cup {h}
    <3>1. \A n \in DOMAIN rest : n = 1 \/ (n - 1 \in DOMAIN T /\ rest[n] = T[n - 1])
      BY <1>2, <1>4, <1>5
    <3>2. 1 \in DOMAIN rest BY <1>2
    <3> QED BY <1>2, <1>5, <3>1, <3>2 DEF Range
  <2>2. h \notin Range(T)
    <3> SUFFICES ASSUME NEW n \in DOMAIN T, T[n] = h PROVE FALSE BY DEF Range
    <3>1. Precedes(index, h, h) BY <1>6
    <3> QED BY <1>3, <3>1, PrecedesOrder DEF TypeOK
  <2> QED BY <1>3, <2>1, <2>2 DEF Visited
<1>8. h \notin Visited BY <1>3 DEF Visited
<1>9. \A i \in Visited : Precedes(index, i, h)
  <2>1. 1 \in DOMAIN rest BY <1>2
  <2> QED BY <1>2, <2>1 DEF InOrder
<1>10. index[h] \in Record /\ h \in Ids BY <1>3, IndexFacts DEF TypeOK
<1> HIDE DEF h, T
<1> QED BY <1>3, <1>4, <1>5, <1>6, <1>7, <1>8, <1>9, <1>10 DEF h, T

\* The record visited next was reached: the candidates before it are those
\* that were leased.
LEMMA HeadReached ==
    ASSUME LoopInv, More
    PROVE  Reached(index, Head(rest), now, maxBatch, MaxAttempts)
<1> DEFINE h == Head(rest)
<1>1. {j \in Plan : Precedes(index, j, h)} = Visited \cap Plan
  <2>1. ASSUME NEW j \in Plan, Precedes(index, j, h) PROVE j \in Visited
    <3>1. j \in Live(index) BY PlanFacts DEF LoopInv, TypeOK, Plan
    <3>2. CASE j \in Range(rest)
      <4>1. j = h \/ j \in Range(Tail(rest))
        BY <3>1, <3>2, HeadVisited DEF Visited, LoopInv
      <4>2. CASE j = h
        BY <2>1, <3>1, <4>2, PrecedesOrder DEF LoopInv, TypeOK
      <4>3. CASE j \in Range(Tail(rest))
        <5>1. Precedes(index, h, j) BY <4>3, HeadVisited DEF Range, LoopInv
        <5>2. h \in Live(index) BY HeadVisited DEF LoopInv
        <5> QED BY <2>1, <3>1, <5>1, <5>2, PrecedesOrder DEF LoopInv, TypeOK
      <4> QED BY <4>1, <4>2, <4>3
    <3> QED BY <3>1, <3>2 DEF Visited
  <2>2. \A j \in Visited : Precedes(index, j, h) BY HeadVisited DEF LoopInv
  <2> QED BY <2>1, <2>2
<1>2. leased = Cardinality({j \in Plan : Precedes(index, j, h)}) BY <1>1 DEF LoopInv, Counted
<1> QED BY <1>2 DEF More, Reached, Plan

\* Every iteration moves one record from the vector to the visited ones.
LEMMA Advanced ==
    ASSUME LoopInv, More, Advance
    PROVE  /\ index' = index /\ now' = now /\ maxBatch' = maxBatch
           /\ rest' \in Seq(Live(index)) /\ Plan' = Plan
           /\ Visited' = Visited \cup {Head(rest)}
           /\ InOrder'
           /\ \A i \in Visited' : Reached(index, i, now, maxBatch, MaxAttempts)
<1> DEFINE h == Head(rest)
           T == Tail(rest)
<1>1. index' = index /\ now' = now /\ maxBatch' = maxBatch /\ rest' = T BY DEF Advance
<1>2. TypeOK /\ InOrder BY DEF LoopInv
<1>3. Plan' = Plan BY <1>1 DEF Plan
<1>4. Visited' = Live(index) \ Range(T) BY <1>1 DEF Visited
<1>5. Visited' = Visited \cup {h} BY <1>2, <1>4, HeadVisited
<1>6. \A i \in Visited' : Reached(index, i, now, maxBatch, MaxAttempts)
  BY <1>5, HeadReached DEF LoopInv, Counted
<1>7. \A m, n \in DOMAIN T : m < n => Precedes(index, T[m], T[n])
  <2> SUFFICES ASSUME NEW m \in DOMAIN T, NEW n \in DOMAIN T, m < n
               PROVE  Precedes(index, T[m], T[n])
    OBVIOUS
  <2>1. /\ m + 1 \in DOMAIN rest /\ T[m] = rest[m + 1]
        /\ n + 1 \in DOMAIN rest /\ T[n] = rest[n + 1]
    BY <1>2, HeadVisited
  <2>2. m \in Nat /\ n \in Nat BY <1>2, HeadVisited
  <2>3. m + 1 < n + 1 BY <2>2
  <2> QED BY <1>2, <2>1, <2>3 DEF InOrder
<1>8. \A i \in Visited', n \in DOMAIN T : Precedes(index, i, T[n])
  <2> SUFFICES ASSUME NEW i \in Visited', NEW n \in DOMAIN T PROVE Precedes(index, i, T[n])
    OBVIOUS
  <2>1. CASE i = h BY <1>2, <2>1, HeadVisited
  <2>2. CASE i \in Visited
    <3>1. n + 1 \in DOMAIN rest /\ T[n] = rest[n + 1] BY <1>2, HeadVisited
    <3> QED BY <1>2, <2>2, <3>1 DEF InOrder
  <2> QED BY <1>5, <2>1, <2>2
<1>9. InOrder' BY <1>1, <1>7, <1>8 DEF InOrder
<1>10. T \in Seq(Live(index)) BY <1>2, HeadVisited
<1> QED BY <1>1, <1>3, <1>5, <1>6, <1>9, <1>10

\* Appending an action of kind k for the record visited adds its id to those
\* of that kind, and keeps the actions in order.
LEMMA Emitted ==
    ASSUME LoopInv, More, Advance,
           NEW k \in {"Lease", "DeadLetter"}, NEW r \in Record, Emit(k, r),
           r = IF k = "Lease" THEN Leased(index[Head(rest)], now, LeaseMs)
               ELSE index[Head(rest)]
    PROVE  /\ actions' \in Seq(ActionType)
           /\ IdsOf(k)' = IdsOf(k) \cup {Head(rest)}
           /\ \A l \in {"Lease", "DeadLetter"} : l # k => IdsOf(l)' = IdsOf(l)
           /\ \A m, n \in DOMAIN actions' :
                 m < n => Precedes(index, actions'[m].id, actions'[n].id)
           /\ \A n \in DOMAIN actions' : actions'[n].id \in Visited'
           /\ \A a \in Range(actions') :
                 a.rec = IF a.kind = "Lease" THEN Leased(index[a.id], now, LeaseMs)
                         ELSE index[a.id]
<1> DEFINE h == Head(rest)
           a == [kind |-> k, id |-> h, rec |-> r]
           L == Len(actions)
<1>1. TypeOK /\ InOrder /\ ActedOn /\ actions \in Seq(ActionType) BY DEF LoopInv, TypeOK
<1>2. h \in Ids /\ h \in Live(index) BY <1>1, HeadVisited
<1>3. a \in ActionType /\ a.kind = k /\ a.id = h /\ a.rec = r BY <1>2 DEF ActionType
<1>4. actions' = Append(actions, a) BY DEF Emit
<1> HIDE DEF a
<1>5. /\ actions' \in Seq(ActionType) /\ L \in Nat
      /\ DOMAIN actions = 1 .. L /\ DOMAIN actions' = 1 .. L + 1
      /\ actions'[L + 1] = a
      /\ \A n \in 1 .. L : actions'[n] = actions[n]
  BY <1>1, <1>3, <1>4
<1>6. Range(actions') = Range(actions) \cup {a}
  <2>1. \A n \in 1 .. L + 1 : n \in 1 .. L \/ n = L + 1 BY <1>5
  <2>2. L + 1 \in DOMAIN actions' /\ \A n \in 1 .. L : n \in DOMAIN actions' BY <1>5
  <2> QED BY <1>5, <2>1, <2>2 DEF Range
<1>7. IdsOf(k)' = IdsOf(k) \cup {h} BY <1>3, <1>6 DEF IdsOf
<1>8. \A l \in {"Lease", "DeadLetter"} : l # k => IdsOf(l)' = IdsOf(l) BY <1>3, <1>6 DEF IdsOf
<1>9. \A n \in 1 .. L : actions[n].id \in Visited BY <1>1, <1>5 DEF ActedOn
<1>10. \A m, n \in DOMAIN actions' : m < n => Precedes(index, actions'[m].id, actions'[n].id)
  <2> SUFFICES ASSUME NEW m \in 1 .. L + 1, NEW n \in 1 .. L + 1, m < n
               PROVE  Precedes(index, actions'[m].id, actions'[n].id)
    BY <1>5
  <2>1. m \in 1 .. L BY <1>5
  <2>2. CASE n = L + 1
    <3>1. actions'[n].id = h /\ actions'[m] = actions[m] BY <1>3, <1>5, <2>1, <2>2
    <3> QED BY <1>1, <1>9, <2>1, <3>1, HeadVisited
  <2>3. CASE n \in 1 .. L
    <3>1. actions'[n] = actions[n] /\ actions'[m] = actions[m] BY <1>5, <2>1, <2>3
    <3>2. Precedes(index, actions[m].id, actions[n].id) BY <1>1, <1>5, <2>1, <2>3 DEF ActedOn
    <3> QED BY <3>1, <3>2
  <2> QED BY <1>5, <2>2, <2>3
<1>11. \A n \in DOMAIN actions' : actions'[n].id \in Visited'
  <2> SUFFICES ASSUME NEW n \in 1 .. L + 1 PROVE actions'[n].id \in Visited' BY <1>5
  <2>1. Visited' = Visited \cup {h} BY Advanced
  <2>2. CASE n = L + 1 BY <1>3, <1>5, <2>1, <2>2
  <2>3. CASE n \in 1 .. L BY <1>5, <1>9, <2>1, <2>3
  <2> QED BY <1>5, <2>2, <2>3
<1>12. \A b \in Range(actions') :
          b.rec = IF b.kind = "Lease" THEN Leased(index[b.id], now, LeaseMs) ELSE index[b.id]
  BY <1>1, <1>3, <1>6 DEF ActedOn
<1> QED BY <1>5, <1>7, <1>8, <1>10, <1>11, <1>12

\* A record still leased is passed over.
LEMMA SkipLeasedInv == LoopInv /\ SkipLeased => LoopInv'
<1> SUFFICES ASSUME LoopInv, SkipLeased PROVE LoopInv' OBVIOUS
<1> DEFINE h == Head(rest)
<1>1. More /\ Advance /\ actions' = actions /\ leased' = leased /\ index[h].lease > now
  BY DEF SkipLeased, Current
<1>2. TypeOK /\ InOrder /\ Counted /\ ActedOn BY DEF LoopInv
<1>3. /\ index' = index /\ now' = now /\ maxBatch' = maxBatch
      /\ rest' \in Seq(Live(index)) /\ Plan' = Plan /\ Visited' = Visited \cup {h} /\ InOrder'
      /\ \A i \in Visited' : Reached(index, i, now, maxBatch, MaxAttempts)
  BY <1>1, Advanced
<1>4. ~Due(index[h], now)
  <2>1. index[h] \in Record BY <1>1, <1>2, HeadVisited
  <2>2. index[h].lease \in Nat BY <2>1 DEF Record
  <2> QED BY <1>1, <1>2, <2>2 DEF Due, TypeOK
<1>5. h \notin Plan BY <1>2, <1>4, PlanFacts DEF Plan, TypeOK
<1>6. Visited' \cap Plan = Visited \cap Plan BY <1>3, <1>5
<1>7. TypeOK' BY <1>1, <1>2, <1>3 DEF TypeOK
<1>8. Counted' BY <1>1, <1>2, <1>3, <1>6 DEF Counted
<1>9. ActedOn'
  <2>1. IdsOf("Lease")' = IdsOf("Lease") /\ IdsOf("DeadLetter")' = IdsOf("DeadLetter")
    BY <1>1 DEF IdsOf
  <2>2. {i \in Visited' : Due(index[i], now) /\ i \notin Plan}
           = {i \in Visited : Due(index[i], now) /\ i \notin Plan}
    BY <1>3, <1>4
  <2> QED BY <1>1, <1>2, <1>3, <1>6, <2>1, <2>2 DEF ActedOn
<1> QED BY <1>3, <1>7, <1>8, <1>9 DEF LoopInv

\* A record that is due and may not be leased becomes a dead letter.
LEMMA DeadLetterInv ==
    ASSUME LoopInv, More, Advance, Emit("DeadLetter", Current), leased' = leased,
           Due(Current, now), ~Leasable(Current, now, MaxAttempts)
    PROVE  LoopInv'
<1> DEFINE h == Head(rest)
<1>1. TypeOK /\ InOrder /\ Counted /\ ActedOn /\ Current = index[h] BY DEF LoopInv, Current
<1>2. h \in Live(index) /\ index[h] \in Record BY <1>1, HeadVisited
<1>3. /\ index' = index /\ now' = now /\ maxBatch' = maxBatch
      /\ rest' \in Seq(Live(index)) /\ Plan' = Plan /\ Visited' = Visited \cup {h} /\ InOrder'
      /\ \A i \in Visited' : Reached(index, i, now, maxBatch, MaxAttempts)
  BY Advanced
<1>4. PICK k \in {"Lease", "DeadLetter"} : k = "DeadLetter" OBVIOUS
<1>5. Emit(k, index[h]) /\ k # "Lease" BY <1>1, <1>4
<1>6. /\ actions' \in Seq(ActionType)
      /\ IdsOf(k)' = IdsOf(k) \cup {h}
      /\ \A l \in {"Lease", "DeadLetter"} : l # k => IdsOf(l)' = IdsOf(l)
      /\ \A m, n \in DOMAIN actions' : m < n => Precedes(index, actions'[m].id, actions'[n].id)
      /\ \A n \in DOMAIN actions' : actions'[n].id \in Visited'
      /\ \A a \in Range(actions') :
            a.rec = IF a.kind = "Lease" THEN Leased(index[a.id], now, LeaseMs) ELSE index[a.id]
  BY <1>2, <1>5, Emitted
<1>7. h \notin Plan /\ Due(index[h], now) BY <1>1, <1>2, PlanFacts DEF Plan, TypeOK
<1>8. Visited' \cap Plan = Visited \cap Plan BY <1>3, <1>7
<1>9. TypeOK' BY <1>1, <1>3, <1>6 DEF TypeOK
<1>10. Counted' BY <1>1, <1>3, <1>8 DEF Counted
<1>11. IdsOf("Lease")' = Visited' \cap Plan BY <1>1, <1>4, <1>6, <1>8 DEF ActedOn
<1>12. IdsOf("DeadLetter")' = {i \in Visited' : Due(index[i], now) /\ i \notin Plan}
  <2>1. IdsOf("DeadLetter")' = IdsOf("DeadLetter") \cup {h} BY <1>4, <1>6
  <2> QED BY <1>1, <1>3, <1>7, <2>1 DEF ActedOn
<1>13. ActedOn' BY <1>3, <1>6, <1>11, <1>12 DEF ActedOn
<1> QED BY <1>3, <1>9, <1>10, <1>13 DEF LoopInv

\* A record that may be leased is, and counts.
LEMMA LeaseRecordInv == LoopInv /\ LeaseRecord => LoopInv'
<1> SUFFICES ASSUME LoopInv, LeaseRecord PROVE LoopInv' OBVIOUS
<1> DEFINE h == Head(rest)
           r == Leased(index[h], now, LeaseMs)
<1>1. /\ More /\ Advance /\ leased' = leased + 1 /\ Emit("Lease", r)
      /\ index[h].lease <= now /\ (index[h].expires = 0 \/ index[h].expires > now)
      /\ index[h].attempts < MaxAttempts
  BY DEF LeaseRecord, Current, Leased
<1>2. TypeOK /\ InOrder /\ Counted /\ ActedOn BY DEF LoopInv
<1>3. h \in Live(index) /\ h \notin Visited /\ index[h] \in Record BY <1>1, <1>2, HeadVisited
<1>4. /\ index' = index /\ now' = now /\ maxBatch' = maxBatch
      /\ rest' \in Seq(Live(index)) /\ Plan' = Plan /\ Visited' = Visited \cup {h} /\ InOrder'
      /\ \A i \in Visited' : Reached(index, i, now, maxBatch, MaxAttempts)
  BY <1>1, Advanced
<1>5. now \in Nat /\ LeaseMs \in Nat /\ MaxAttempts \in Nat BY <1>2, PlanLoopAssumption DEF TypeOK
<1>6. /\ index[h].attempts \in Nat /\ index[h].lease \in Nat /\ index[h].expires \in Nat
  BY <1>3 DEF Record
<1>7. r \in Record BY <1>3, <1>5, LeasedType
<1>8. h \in Plan
  <2>1. Leasable(index[h], now, MaxAttempts) BY <1>1, <1>5, <1>6 DEF Leasable, Due, Expired
  <2> QED BY <1>2, <1>3, <2>1, PlanFacts DEF Plan, TypeOK
<1> HIDE DEF r
<1>9. PICK k \in {"Lease", "DeadLetter"} : k = "Lease" OBVIOUS
<1>10. Emit(k, r) /\ r = IF k = "Lease" THEN Leased(index[h], now, LeaseMs) ELSE index[h]
  BY <1>1, <1>9 DEF r
<1>11. /\ actions' \in Seq(ActionType)
       /\ IdsOf(k)' = IdsOf(k) \cup {h}
       /\ \A l \in {"Lease", "DeadLetter"} : l # k => IdsOf(l)' = IdsOf(l)
       /\ \A m, n \in DOMAIN actions' : m < n => Precedes(index, actions'[m].id, actions'[n].id)
       /\ \A n \in DOMAIN actions' : actions'[n].id \in Visited'
       /\ \A a \in Range(actions') :
             a.rec = IF a.kind = "Lease" THEN Leased(index[a.id], now, LeaseMs) ELSE index[a.id]
  BY <1>1, <1>7, <1>10, Emitted
<1>12. Visited' \cap Plan = (Visited \cap Plan) \cup {h} BY <1>4, <1>8
<1>13. Cardinality(Visited' \cap Plan) = leased + 1 /\ leased \in Nat
  <2>1. IsFiniteSet(Visited \cap Plan) BY <1>2, PlanFacts DEF Plan, TypeOK
  <2>2. h \notin Visited \cap Plan BY <1>3
  <2>3. Cardinality((Visited \cap Plan) \cup {h}) = Cardinality(Visited \cap Plan) + 1
    BY <2>1, <2>2, FS_AddElement
  <2> QED BY <1>2, <1>12, <2>3 DEF Counted, TypeOK
<1>14. TypeOK' BY <1>1, <1>2, <1>4, <1>11, <1>13 DEF TypeOK
<1>15. Counted' BY <1>1, <1>4, <1>13 DEF Counted
<1>16. IdsOf("Lease")' = Visited' \cap Plan BY <1>2, <1>9, <1>11, <1>12 DEF ActedOn
<1>17. IdsOf("DeadLetter")' = {i \in Visited' : Due(index[i], now) /\ i \notin Plan}
  <2>1. IdsOf("DeadLetter")' = IdsOf("DeadLetter") BY <1>9, <1>11
  <2> QED BY <1>2, <1>4, <1>8, <2>1 DEF ActedOn
<1>18. ActedOn' BY <1>4, <1>11, <1>16, <1>17 DEF ActedOn
<1> QED BY <1>4, <1>14, <1>15, <1>18 DEF LoopInv

-----------------------------------------------------------------------------
(* The theorems. *)

LEMMA LoopInit == Init => LoopInv
<1> SUFFICES ASSUME Init PROVE LoopInv OBVIOUS
<1>1. /\ index \in [Ids -> Record \cup {NoRec}] /\ now \in Nat /\ maxBatch \in Nat
      /\ rest \in Sortings(index) /\ actions = <<>> /\ leased = 0
  BY PlanLoopAssumption DEF Init
<1>2. /\ rest \in Seq(Live(index)) /\ Range(rest) = Live(index)
      /\ \A m, n \in DOMAIN rest : m < n => Precedes(index, rest[m], rest[n])
  BY <1>1, SortingFacts
<1>3. Visited = {} BY <1>2 DEF Visited
<1>4. Range(actions) = {} /\ DOMAIN actions = {} BY <1>1 DEF Range
<1>5. IdsOf("Lease") = {} /\ IdsOf("DeadLetter") = {} BY <1>4 DEF IdsOf
<1>6. TypeOK BY <1>1, <1>2 DEF TypeOK
<1>7. InOrder BY <1>2, <1>3 DEF InOrder
<1>8. Visited \cap Plan = {} BY <1>3
<1>9. Counted BY <1>1, <1>3, <1>8, FS_EmptySet DEF Counted
<1>10. ActedOn BY <1>3, <1>4, <1>5 DEF ActedOn
<1> QED BY <1>6, <1>7, <1>9, <1>10 DEF LoopInv

LEMMA LoopNext == LoopInv /\ [Next]_vars => LoopInv'
<1> SUFFICES ASSUME LoopInv, [Next]_vars PROVE LoopInv' OBVIOUS
<1>1. CASE SkipLeased BY <1>1, SkipLeasedInv
<1>2. ASSUME More, Current.lease <= now PROVE
        /\ Due(Current, now) /\ Current.expires \in Nat /\ Current.attempts \in Nat
        /\ now \in Nat /\ MaxAttempts \in Nat
  <2>1. Current \in Record BY <1>2, HeadVisited DEF LoopInv, Current
  <2> QED BY <1>2, <2>1, PlanLoopAssumption DEF Due, Record, LoopInv, TypeOK
<1>3. CASE ExpireRecord
  <2>1. /\ More /\ Current.lease <= now /\ Advance /\ Emit("DeadLetter", Current)
        /\ leased' = leased /\ Current.expires # 0 /\ Current.expires <= now
    BY <1>3 DEF ExpireRecord
  <2>2. ~Leasable(Current, now, MaxAttempts) BY <2>1 DEF Leasable, Expired
  <2> QED BY <1>2, <2>1, <2>2, DeadLetterInv
<1>4. CASE ExhaustRecord
  <2>1. /\ More /\ Current.lease <= now /\ Advance /\ Emit("DeadLetter", Current)
        /\ leased' = leased /\ Current.attempts >= MaxAttempts
    BY <1>4 DEF ExhaustRecord
  <2>2. ~Leasable(Current, now, MaxAttempts) BY <1>2, <2>1 DEF Leasable
  <2> QED BY <1>2, <2>1, <2>2, DeadLetterInv
<1>5. CASE LeaseRecord BY <1>5, LeaseRecordInv
<1>6. CASE UNCHANGED vars
  BY <1>6 DEF vars, LoopInv, TypeOK, InOrder, Counted, ActedOn, Visited, Plan, IdsOf
<1> QED BY <1>1, <1>3, <1>4, <1>5, <1>6 DEF Next

\* The invariant of the loop of plan_claim.
THEOREM LoopInvariant == Spec => []LoopInv
BY LoopInit, LoopNext, PTL DEF Spec

\* A full batch leaves unreached what it has not visited.
LEMMA RestUnreached ==
    ASSUME LoopInv, leased >= maxBatch, NEW i \in Live(index), i \notin Visited
    PROVE  ~Reached(index, i, now, maxBatch, MaxAttempts)
<1> DEFINE B == {j \in Plan : Precedes(index, j, i)}
<1>1. TypeOK /\ InOrder /\ Counted BY DEF LoopInv
<1>2. PICK n \in DOMAIN rest : rest[n] = i BY DEF Visited, Range
<1>3. Visited \cap Plan \subseteq B BY <1>1, <1>2 DEF InOrder
<1>4. IsFiniteSet(B)
  <2>1. IsFiniteSet(Plan) BY <1>1, PlanFacts DEF Plan, TypeOK
  <2> QED BY <2>1, FS_Subset
<1>5. Cardinality(B) \in Nat BY <1>4, FS_CardinalityType
<1>6. leased <= Cardinality(B) BY <1>1, <1>3, <1>4, FS_Subset DEF Counted
<1>7. leased \in Nat /\ maxBatch \in Nat BY <1>1 DEF TypeOK
<1>8. ~(Cardinality(B) < maxBatch) BY <1>5, <1>6, <1>7
<1> QED BY <1>8 DEF Reached, Plan

\* When plan_claim returns, its actions are the leases and dead letters of
\* ClaimPlan: the decision that WorkQueue and RaftQueue apply is the loop's.
THEOREM LoopAgrees == Spec => []PlanAgrees
<1>1. LoopInv => PlanAgrees
  <2> SUFFICES ASSUME LoopInv, ~More PROVE PlanAgrees BY DEF PlanAgrees
  <2>1. TypeOK /\ InOrder /\ Counted /\ ActedOn BY DEF LoopInv
  <2>2. Visited \subseteq Live(index) BY DEF Visited
  <2>3. \A i \in Live(index) : i \in Visited <=> Reached(index, i, now, maxBatch, MaxAttempts)
    <3>1. \A i \in Visited : Reached(index, i, now, maxBatch, MaxAttempts) BY <2>1 DEF Counted
    <3>2. CASE rest = <<>>
      <4>1. Visited = Live(index) BY <3>2 DEF Visited, Range
      <4> QED BY <3>1, <4>1
    <3>3. CASE rest # <<>>
      <4>1. leased >= maxBatch BY <2>1, <3>3 DEF More, TypeOK
      <4> QED BY <3>1, <4>1, RestUnreached
    <3> QED BY <3>2, <3>3
  <2>4. Plan \subseteq Live(index)
        /\ \A i \in Live(index) : i \in Plan <=> Leasable(index[i], now, MaxAttempts)
    BY <2>1, PlanFacts DEF Plan, TypeOK
  <2>5. IdsOf("Lease") = PlanLeases(index, now, maxBatch, MaxAttempts)
    BY <2>1, <2>2, <2>3, <2>4 DEF ActedOn, PlanLeases, Plan
  <2>6. IdsOf("DeadLetter") = PlanDeadLetters(index, now, maxBatch, MaxAttempts)
    BY <2>1, <2>2, <2>3, <2>4 DEF ActedOn, PlanDeadLetters
  <2> QED BY <2>1, <2>5, <2>6 DEF PlanAgrees, ActedOn
<1> QED BY <1>1, LoopInvariant, PTL

\* plan_claim leases by priority, and by publish order within one: at no time
\* is a message leased before an earlier one it may not overtake.
THEOREM NeverOvertakes == Spec => []NoOvertaking
<1>1. LoopInv => NoOvertaking
  <2> SUFFICES ASSUME LoopInv, NEW i \in IdsOf("Lease"), NEW j \in Plan,
                      index[j].prio >= index[i].prio, j < i
               PROVE  j \in IdsOf("Lease")
    BY DEF NoOvertaking, Plan
  <2>1. TypeOK /\ InOrder /\ ActedOn BY DEF LoopInv
  <2>2. i \in Visited /\ i \in Live(index) BY <2>1 DEF ActedOn, Visited
  <2>3. j \in Live(index) BY <2>1, PlanFacts DEF Plan, TypeOK
  <2>4. Precedes(index, j, i)
    <3>1. index[i] \in Record /\ index[j] \in Record BY <2>1, <2>2, <2>3, IndexFacts DEF TypeOK
    <3>2. index[i].prio \in Nat /\ index[j].prio \in Nat BY <3>1 DEF Record
    <3> QED BY <3>2 DEF Precedes
  <2>5. j \in Visited
    <3> SUFFICES ASSUME j \notin Visited PROVE FALSE OBVIOUS
    <3>1. PICK n \in DOMAIN rest : rest[n] = j BY <2>3 DEF Visited, Range
    <3>2. Precedes(index, i, j) BY <2>1, <2>2, <3>1 DEF InOrder
    <3> QED BY <2>1, <2>2, <2>3, <2>4, <3>2, PrecedesOrder DEF TypeOK
  <2> QED BY <2>1, <2>5 DEF ActedOn
<1> QED BY <1>1, LoopInvariant, PTL
=============================================================================
