--------------------------- MODULE DeployGcProofs ---------------------------
(***************************************************************************)
(* Proofs about DeployGc: for any sites, aliases, manifests and retention    *)
(* options, any number of requests at a time and any number of passes of the *)
(* collector.                                                                *)
(***************************************************************************)
EXTENDS DeployGc, FiniteSetTheorems, SequenceTheorems, TLAPS

\* A deployment is in a site's history once.
HistoryInv ==
    \A s \in Sites : \A j, k \in DOMAIN history[s] :
        history[s][j].id = history[s][k].id => j = k

\* An activation that has not recorded itself holds the lock: one at a time, and
\* its site still points at what it set.
LockInv ==
    /\ \A c \in Clients : client[c].stage = "record" => points[client[c].root] = client[c].id
    /\ \A c, d \in Clients : client[c].stage = "record" /\ client[d].stage = "record" => c = d

\* The pass has seen what was pinned when it looked, except what moved since.
LiveInv ==
    /\ gc.stage \in {"current", "alias", "list", "sort"} => Retained \ moved \subseteq gc.live
    /\ gc.stage \in {"alias", "list", "sort"} => Targets(Sites) \ moved \subseteq gc.live
    /\ gc.stage \in {"list", "sort"} => Targets(Aliases) \ moved \subseteq gc.live

\* What the pass will delete belongs to deployments it has condemned.
SweepInv ==
    /\ gc.stage \notin {"sort", "sweep", "forget"} => condemned = {}
    /\ gc.stage = "sort" => \A d \in Deployments \ condemned :
          d \notin gc.orphans /\ (d \in gc.todo \/ Files[d] \subseteq gc.referenced)
    /\ gc.stage = "sweep" => \A d \in Deployments \ condemned : Files[d] \cap gc.todo = {}
    /\ gc.stage \in {"sweep", "forget"} => gc.orphans \subseteq condemned

\* A completeness check that no condemnation overlaps is right so far.
Checked(s) == IF s.stage = "check" THEN Files[s.id] \ s.todo ELSE Files[s.id]

CheckInv ==
    \A c \in Clients \ tainted : client[c].stage \in {"check", "switch"} =>
        /\ client[c].id \in stored \ condemned
        /\ Checked(client[c]) \subseteq blobs \cup spoiled

PinInv ==
    \A d \in (Targets(Roots) \cup Retained) \ raced : Complete(d) /\ d \notin condemned

IInv == TypeOK /\ HistoryInv /\ LockInv /\ LiveInv /\ SweepInv /\ CheckInv /\ PinInv

-----------------------------------------------------------------------------
(* Histories, and what is retained of them. *)

\* Recording a deployment puts it first, keeps the ids of a history apart, and
\* moves no other entry towards the front.
LEMMA RecordedFacts ==
    ASSUME NEW h \in Seq(Entry), \A j, k \in DOMAIN h : h[j].id = h[k].id => j = k,
           NEW d \in Deployments, clock \in Nat
    PROVE  /\ Recorded(h, d) \in Seq(Entry) /\ Len(Recorded(h, d)) <= MaxHistory
           /\ \A i, k \in DOMAIN Recorded(h, d) :
                 Recorded(h, d)[i].id = Recorded(h, d)[k].id => i = k
           /\ \A i \in DOMAIN Recorded(h, d) :
                 \/ Recorded(h, d)[i].id = d
                 \/ \E j \in DOMAIN h : j <= i /\ h[j].id = Recorded(h, d)[i].id
<1> DEFINE older == {k \in DOMAIN h : h[k].id = d}
           n == Len(h) - Cardinality(older)
           others == [k \in 1 .. n |-> IF \E j \in older : j <= k THEN h[k + 1] ELSE h[k]]
           new == [id |-> d, at |-> clock]
           all == <<new>> \o others
           m == IF Len(all) < MaxHistory THEN Len(all) ELSE MaxHistory
           R == SubSeq(all, 1, m)
<1>1. Len(h) \in Nat /\ DOMAIN h = 1 .. Len(h) /\ \A k \in DOMAIN h : h[k] \in Entry
  BY LenProperties, ElementOfSeq
<1>2. new \in Entry /\ new.id = d BY DEF Entry
<1>3. \/ older = {} /\ Cardinality(older) = 0
      \/ \E o \in DOMAIN h : older = {o} /\ Cardinality(older) = 1 /\ h[o].id = d
  <2>1. CASE older = {} BY <2>1, FS_EmptySet
  <2>2. CASE older # {}
    <3>1. PICK o \in DOMAIN h : h[o].id = d BY <2>2
    <3>2. older = {o} BY <3>1
    <3>3. Cardinality({o}) = 1 BY FS_Singleton
    <3> QED BY <3>1, <3>2, <3>3
  <2> QED BY <2>1, <2>2
<1> HIDE DEF older
\* Where each remaining entry comes from.
<1>4. /\ n \in Nat
      /\ \A k \in 1 .. n : \E j \in DOMAIN h :
            /\ j \in {k, k + 1} /\ others[k] = h[j] /\ h[j].id # d
            /\ j = k + 1 <=> \E o \in older : o <= k
  <2>1. CASE older = {} /\ Cardinality(older) = 0
    <3>1. n = Len(h) /\ \A k \in DOMAIN h : h[k].id # d BY <1>1, <2>1 DEF older
    <3> QED BY <1>1, <2>1, <3>1
  <2>2. ASSUME NEW o \in DOMAIN h, older = {o}, Cardinality(older) = 1, h[o].id = d
        PROVE  /\ n \in Nat
               /\ \A k \in 1 .. n : \E j \in DOMAIN h :
                     /\ j \in {k, k + 1} /\ others[k] = h[j] /\ h[j].id # d
                     /\ j = k + 1 <=> \E x \in older : x <= k
    <3>1. n = Len(h) - 1 /\ n \in Nat BY <1>1, <2>2
    <3> HIDE DEF n
    <3> SUFFICES ASSUME NEW k \in 1 .. n
                 PROVE  \E j \in DOMAIN h :
                           /\ j \in {k, k + 1} /\ others[k] = h[j] /\ h[j].id # d
                           /\ j = k + 1 <=> \E x \in older : x <= k
      BY <3>1
    <3>2. k \in DOMAIN h /\ k + 1 \in DOMAIN h /\ k # k + 1 BY <1>1, <3>1
    <3>3. CASE o <= k
      <4>1. others[k] = h[k + 1] /\ k + 1 # o BY <1>1, <2>2, <3>3
      <4>2. h[k + 1].id # d BY <2>2, <3>2, <4>1
      <4> QED BY <2>2, <3>2, <3>3, <4>1, <4>2
    <3>4. CASE ~(o <= k)
      <4>1. others[k] = h[k] /\ k # o BY <1>1, <2>2, <3>4
      <4>2. h[k].id # d BY <2>2, <3>2, <4>1
      <4> QED BY <2>2, <3>2, <3>4, <4>1, <4>2
    <3> QED BY <3>3, <3>4
  <2> QED BY <1>3, <2>1, <2>2
<1>5. DOMAIN others = 1 .. n OBVIOUS
<1> HIDE DEF others, n
<1>6. others \in Seq(Entry) /\ Len(others) = n
  <2>1. \A k \in 1 .. n : others[k] \in Entry BY <1>1, <1>4
  <2>2. others = [k \in 1 .. n |-> others[k]] BY DEF others
  <2>3. others \in Seq(Entry) BY <1>4, <2>1, <2>2, IsASeq
  <2> QED BY <1>4, <1>5, <2>3, LenProperties
<1>7. /\ all \in Seq(Entry) /\ Len(all) = 1 + n /\ all[1] = new
      /\ \A i \in 2 .. (1 + n) : all[i] = others[i - 1]
  <2>1. <<new>> \in Seq(Entry) /\ Len(<<new>>) = 1 /\ <<new>>[1] = new BY <1>2
  <2>2. /\ all \in Seq(Entry) /\ Len(all) = Len(<<new>>) + Len(others)
        /\ \A i \in 1 .. Len(<<new>>) + Len(others) :
              all[i] = IF i <= Len(<<new>>) THEN <<new>>[i] ELSE others[i - Len(<<new>>)]
    BY <1>6, <2>1, ConcatProperties
  <2> HIDE DEF all
  <2> QED BY <1>4, <1>6, <2>1, <2>2
<1> HIDE DEF all, new
<1>8. /\ R \in Seq(Entry) /\ Len(R) = m /\ m \in Nat /\ m <= MaxHistory /\ m <= 1 + n
      /\ DOMAIN R = 1 .. m /\ \A i \in 1 .. m : R[i] = all[i]
  <2>1. MaxHistory \in Nat /\ MaxHistory >= 1 BY DeployGcAssumption DEF DeployGcAssumption
  <2>2. m \in Nat /\ m >= 1 /\ m <= MaxHistory /\ m <= 1 + n BY <1>4, <1>7, <2>1
  <2>3. \A i \in 1 .. m : all[i] \in Entry
    <3>1. \A i \in 1 .. Len(all) : all[i] \in Entry BY <1>7, ElementOfSeq
    <3> QED BY <1>4, <1>7, <2>2, <3>1
  <2> HIDE DEF m
  <2>4. /\ R \in Seq(Entry) /\ Len(R) = IF 1 <= m THEN m - 1 + 1 ELSE 0
        /\ \A i \in 1 .. m - 1 + 1 : R[i] = all[1 + i - 1]
    BY <1>7, <2>2, <2>3, SubSeqProperties
  <2> HIDE DEF R
  <2>5. Len(R) = m /\ \A i \in 1 .. m : R[i] = all[i] BY <2>2, <2>4
  <2> QED BY <2>2, <2>4, <2>5, LenProperties
<1>9. Recorded(h, d) = R BY DEF Recorded, R, m, all, new, others, n, older
<1> HIDE DEF R, m
<1>10. \A i \in DOMAIN R :
          \/ i = 1 /\ R[i].id = d
          \/ \E j \in DOMAIN h : /\ i > 1 /\ j <= i /\ h[j].id = R[i].id /\ h[j].id # d
                                 /\ j \in {i - 1, i} /\ (j = i <=> \E o \in older : o <= i - 1)
  <2> SUFFICES ASSUME NEW i \in 1 .. m, i # 1
               PROVE  \E j \in DOMAIN h :
                         /\ i > 1 /\ j <= i /\ h[j].id = R[i].id /\ h[j].id # d
                         /\ j \in {i - 1, i} /\ (j = i <=> \E o \in older : o <= i - 1)
    BY <1>2, <1>7, <1>8
  <2>1. i \in 2 .. (1 + n) /\ i - 1 \in 1 .. n BY <1>4, <1>8
  <2>2. R[i] = others[i - 1] BY <1>7, <1>8, <2>1
  <2>3. PICK j \in DOMAIN h : /\ j \in {i - 1, i - 1 + 1} /\ others[i - 1] = h[j] /\ h[j].id # d
                              /\ j = i - 1 + 1 <=> \E o \in older : o <= i - 1
    BY <1>4, <2>1
  <2>4. i - 1 + 1 = i /\ i > 1 /\ j <= i BY <2>1, <2>3
  <2> QED BY <2>2, <2>3, <2>4
<1>11. \A i, k \in DOMAIN R : R[i].id = R[k].id => i = k
  <2> SUFFICES ASSUME NEW i \in DOMAIN R, NEW k \in DOMAIN R, R[i].id = R[k].id, i < k
               PROVE  FALSE
    BY <1>8
  <2>1. i \in Nat /\ k \in Nat /\ k # 1 BY <1>8
  <2>2. PICK y \in DOMAIN h : /\ h[y].id = R[k].id /\ h[y].id # d /\ y \in {k - 1, k}
                              /\ (y = k <=> \E o \in older : o <= k - 1)
    BY <1>10, <2>1
  <2>3. i # 1 BY <1>2, <1>7, <1>8, <2>2
  <2>4. PICK x \in DOMAIN h : /\ h[x].id = R[i].id /\ x \in {i - 1, i}
                              /\ (x = i <=> \E o \in older : o <= i - 1)
    BY <1>10, <2>3
  <2>5. x = y BY <2>2, <2>4
  <2>6. x = i /\ y = k - 1 /\ y # k /\ i = k - 1 BY <2>1, <2>2, <2>4, <2>5
  <2>7. PICK o \in older : o <= i - 1 BY <2>4, <2>6
  <2>8. o \in Nat BY <1>1 DEF older
  <2>9. o <= k - 1 BY <2>1, <2>6, <2>7, <2>8
  <2> QED BY <2>2, <2>6, <2>7, <2>9
<1> QED BY <1>8, <1>9, <1>10, <1>11

RetainedOf(hist, now) ==
    {d \in Deployments : \A opts \in Options : \E s \in Sites :
        d \in Kept(hist[s], [opts EXCEPT !.age = None], now)}

\* Without an age limit, an entry is kept for its place.
LEMMA KeptIs ==
    ASSUME NEW h, NEW opts \in Options, NEW now, NEW d
    PROVE  d \in Kept(h, [opts EXCEPT !.age = None], now) <=>
              \E k \in DOMAIN h : (opts.keep = None \/ k <= opts.keep) /\ h[k].id = d
<1>1. opts \in [grace : Nat, keep : Nat \cup {None}, age : Nat \cup {None}]
  BY DeployGcAssumption DEF DeployGcAssumption
<1>2. [opts EXCEPT !.age = None].keep = opts.keep /\ [opts EXCEPT !.age = None].age = None
  BY <1>1
<1> QED BY <1>2 DEF Kept

\* A deployment stays retained as long as no entry moves towards the front.
LEMMA RetainedMove ==
    ASSUME NEW hist, NEW hist2, NEW now, NEW now2, NEW x,
           \A s \in Sites : hist[s] \in Seq(Entry) /\ hist2[s] \in Seq(Entry),
           \A s \in Sites : \A i \in DOMAIN hist2[s] :
              \/ hist2[s][i].id = x
              \/ \E j \in DOMAIN hist[s] : j <= i /\ hist[s][j].id = hist2[s][i].id
    PROVE  RetainedOf(hist2, now2) \subseteq RetainedOf(hist, now) \cup {x}
<1> SUFFICES ASSUME NEW d \in Deployments, d # x, d \in RetainedOf(hist2, now2)
             PROVE  d \in RetainedOf(hist, now)
  BY DEF RetainedOf
<1> SUFFICES ASSUME NEW opts \in Options
             PROVE  \E s \in Sites : d \in Kept(hist[s], [opts EXCEPT !.age = None], now)
  BY DEF RetainedOf
<1>1. PICK s \in Sites : d \in Kept(hist2[s], [opts EXCEPT !.age = None], now2) BY DEF RetainedOf
<1>2. PICK i \in DOMAIN hist2[s] : (opts.keep = None \/ i <= opts.keep) /\ hist2[s][i].id = d
  BY <1>1, KeptIs
<1>3. PICK j \in DOMAIN hist[s] : j <= i /\ hist[s][j].id = d BY <1>2
<1>4. i \in Nat /\ j \in Nat BY LenProperties
<1>5. opts.keep \in Nat \cup {None} BY DeployGcAssumption DEF DeployGcAssumption
<1>6. opts.keep = None \/ j <= opts.keep BY <1>2, <1>3, <1>4, <1>5
<1> QED BY <1>3, <1>6, KeptIs

LEMMA RetainedSame ==
    ASSUME TypeOK, UNCHANGED history PROVE Retained' = Retained
<1>1. \A s \in Sites : history[s] \in Seq(Entry) BY DEF TypeOK
<1>2. \A s \in Sites : \A i \in DOMAIN history[s] : i <= i
  BY <1>1, LenProperties
<1>3. Retained = RetainedOf(history, clock) /\ Retained' = RetainedOf(history', clock')
  BY Zenon DEF Retained, RetainedOf
<1>4. Retained' = RetainedOf(history, clock') BY <1>3
<1>5. PICK x : x \notin Deployments BY DeployGcAssumption DEF DeployGcAssumption
<1>6. /\ RetainedOf(history, clock') \subseteq RetainedOf(history, clock) \cup {x}
      /\ RetainedOf(history, clock) \subseteq RetainedOf(history, clock') \cup {x}
  BY <1>1, <1>2, RetainedMove
<1> QED BY <1>3, <1>4, <1>5, <1>6 DEF RetainedOf

\* A pass keeps what is retained, under its own options too.
LEMMA RetainedLive ==
    ASSUME TypeOK, NEW opts \in Options
    PROVE  Retained \subseteq UNION {Kept(history[s], opts, clock) : s \in Sites}
<1> SUFFICES ASSUME NEW d \in Retained
             PROVE  \E s \in Sites : d \in Kept(history[s], opts, clock)
  OBVIOUS
<1>1. PICK s \in Sites : d \in Kept(history[s], [opts EXCEPT !.age = None], clock) BY DEF Retained
<1>2. d \in Kept(history[s], [opts EXCEPT !.age = None], clock) <=>
         \E k \in DOMAIN history[s] : (opts.keep = None \/ k <= opts.keep) /\ history[s][k].id = d
  BY KeptIs
<1>3. PICK k \in DOMAIN history[s] :
         (opts.keep = None \/ k <= opts.keep) /\ history[s][k].id = d
  BY <1>1, <1>2
<1> QED BY <1>3 DEF Kept

-----------------------------------------------------------------------------
(* What a request and the collector hold. *)

LEMMA ClientFields ==
    ASSUME TypeOK, NEW c \in Clients
    PROVE  LET s == client[c] IN
           /\ s.stage \in {"idle", "store", "ask", "upload", "reject", "check", "switch", "record"}
           /\ s.stage = "reject" => s.blob \in Blobs
           /\ s.stage \in {"store", "ask", "check", "switch", "record"} => s.id \in Deployments
           /\ s.stage = "store" => s.created \in Nat
           /\ s.stage \in {"ask", "check"} => s.todo \subseteq Blobs
           /\ s.stage \in {"ask", "upload"} => s.missing \subseteq Blobs
           /\ s.stage \in {"check", "switch"} => s.root \in Roots
           /\ s.stage = "record" => s.root \in Sites
<1>1. client[c] \in Client BY DEF TypeOK
<1> QED BY <1>1 DEF Client

LEMMA CollectorFields ==
    ASSUME TypeOK
    PROVE  /\ gc.stage \in {"idle", "history", "current", "alias", "list", "sort", "sweep", "forget"}
           /\ gc.stage \in {"history", "current", "alias", "list", "sort"} =>
                 gc.opts \in Options /\ gc.live \subseteq Deployments
           /\ gc.stage = "sort" => /\ gc.now \in Nat /\ gc.todo \subseteq Deployments
                                   /\ gc.referenced \subseteq Blobs
           /\ gc.stage = "sweep" => gc.todo \subseteq Blobs
           /\ gc.stage = "forget" => gc.id \in Deployments
           /\ gc.stage \in {"sort", "sweep", "forget"} => gc.orphans \subseteq Deployments
<1>1. gc \in Collector BY DEF TypeOK
<1> QED BY <1>1 DEF Collector

LEMMA ClientIs ==
    ASSUME NEW d \in Deployments, NEW B \in SUBSET Blobs, NEW M \in SUBSET Blobs,
           NEW r \in Roots, NEW n \in Nat
    PROVE  /\ Idle \in Client /\ Idle.stage = "idle"
           /\ [stage |-> "store", id |-> d, created |-> n] \in Client
           /\ [stage |-> "ask", id |-> d, todo |-> B, missing |-> M] \in Client
           /\ [stage |-> "upload", missing |-> M] \in Client
           /\ [stage |-> "check", id |-> d, root |-> r, todo |-> B] \in Client
           /\ [stage |-> "switch", id |-> d, root |-> r] \in Client
           /\ r \in Sites => [stage |-> "record", id |-> d, root |-> r] \in Client
  BY DEF Client, Idle

LEMMA FilesAre == \A d \in Deployments : Files[d] \in SUBSET Blobs
  BY DeployGcAssumption DEF DeployGcAssumption

-----------------------------------------------------------------------------
(* Requests *)

\* A request moves on without setting a pointer: blobs and manifests only come,
\* but for a blob that is spoiled.
LEMMA ClientMove ==
    ASSUME IInv, TypeOK', NEW c \in Clients, NEW s, client' = [client EXCEPT ![c] = s],
           UNCHANGED <<points, history, gc, moved, condemned, raced>>,
           stored \subseteq stored', blobs \cup spoiled \subseteq blobs' \cup spoiled',
           \A e \in Clients \ {c} : e \in tainted' <=> e \in tainted,
           s.stage # "record",
           s.stage \in {"check", "switch"} /\ c \notin tainted' =>
              s.id \in stored \ condemned /\ Checked(s) \subseteq blobs \cup spoiled
    PROVE  IInv'
<1>1. \A e \in Clients : client'[e] = IF e = c THEN s ELSE client[e] BY DEF IInv, TypeOK
<1>2. /\ Retained' = Retained /\ Targets(Roots)' = Targets(Roots)
      /\ Targets(Sites)' = Targets(Sites) /\ Targets(Aliases)' = Targets(Aliases)
  BY RetainedSame DEF IInv, Targets
<1>3. HistoryInv' BY DEF IInv, HistoryInv
<1>4. LockInv' BY <1>1 DEF IInv, LockInv
<1>5. LiveInv' BY <1>2 DEF IInv, LiveInv
<1>6. SweepInv' BY DEF IInv, SweepInv
<1>7. CheckInv'
  <2> SUFFICES ASSUME NEW e \in Clients, e \notin tainted', client'[e].stage \in {"check", "switch"}
               PROVE  /\ client'[e].id \in stored' \ condemned'
                      /\ Checked(client'[e]) \subseteq blobs' \cup spoiled'
    BY DEF CheckInv, Checked
  <2>1. CASE e = c BY <1>1, <2>1
  <2>2. CASE e # c BY <1>1, <2>2 DEF IInv, CheckInv
  <2> QED BY <2>1, <2>2
<1>8. PinInv' BY <1>2 DEF IInv, PinInv, Complete
<1> QED BY <1>3, <1>4, <1>5, <1>6, <1>7, <1>8 DEF IInv

LEMMA CreateSteps ==
    ASSUME IInv, NEW c \in Clients,
           \/ \E d \in Deployments : PutManifest(c, d)
           \/ StoreManifest(c) \/ Uploaded(c) \/ RejectUpload(c) \/ RecordFails(c)
           \/ \E b \in Blobs : Ask(c, b) \/ Upload(c, b) \/ UploadWrong(c, b)
    PROVE  IInv'
<1>a. TypeOK BY DEF IInv
<1>b. Idle \in Client /\ Idle.stage = "idle" BY DEF Client, Idle
\* The answer to a client that asked is not a check.
<1>c. ASSUME NEW d \in Deployments, NEW B \in SUBSET Blobs, NEW M \in SUBSET Blobs
      PROVE  Asked(d, B, M) \in Client /\ Asked(d, B, M).stage \in {"upload", "ask"}
  BY DEF Asked, Client
<1>1. ASSUME NEW d \in Deployments, PutManifest(c, d) PROVE IInv'
  <2>1. PICK s : s = [stage |-> "store", id |-> d, created |-> CreatedAt(d)] OBVIOUS
  <2>2. CreatedAt(d) \in Nat BY <1>a DEF CreatedAt, TypeOK
  <2>3. s \in Client /\ s.stage = "store" BY <2>1, <2>2 DEF Client
  <2>4. /\ client' = [client EXCEPT ![c] = s]
        /\ UNCHANGED <<stored, created, blobs, points, history, gc, clock, moved, condemned,
                       tainted, raced, spoiled>>
    BY <1>1, <2>1 DEF PutManifest, Goto, disk, ghosts
  <2>5. TypeOK' BY <1>a, <2>3, <2>4 DEF TypeOK
  <2> QED BY <2>3, <2>4, <2>5, ClientMove
<1>2. CASE StoreManifest(c)
  <2>1. PICK d : d = client[c].id OBVIOUS
  <2>2. PICK s : s = Asked(d, Files[d], {}) OBVIOUS
  <2>3. /\ client[c].stage = "store" /\ stored' = stored \cup {d}
        /\ created' = [created EXCEPT ![d] = client[c].created]
        /\ client' = [client EXCEPT ![c] = s]
        /\ UNCHANGED <<blobs, points, history, gc, clock, moved, condemned, tainted, raced, spoiled>>
    BY <1>2, <2>1, <2>2 DEF StoreManifest, Goto, ghosts
  <2>4. d \in Deployments /\ client[c].created \in Nat BY <1>a, <2>1, <2>3, ClientFields
  <2>5. s \in Client /\ s.stage \in {"upload", "ask"} BY <1>c, <2>2, <2>4, FilesAre
  <2>6. TypeOK' BY <1>a, <2>3, <2>4, <2>5 DEF TypeOK
  <2> QED BY <2>3, <2>5, <2>6, ClientMove
<1>3. CASE Uploaded(c) \/ RecordFails(c)
  <2>1. /\ client' = [client EXCEPT ![c] = Idle]
        /\ UNCHANGED <<stored, created, blobs, points, history, gc, clock, moved, condemned,
                       tainted, raced, spoiled>>
    BY <1>3 DEF Uploaded, RecordFails, Goto, disk, ghosts
  <2>2. TypeOK' BY <1>a, <1>b, <2>1 DEF TypeOK
  <2> QED BY <1>b, <2>1, <2>2, ClientMove
<1>4. ASSUME NEW b \in Blobs, Ask(c, b) PROVE IInv'
  <2>1. PICK missing : missing = IF b \in blobs THEN client[c].missing ELSE client[c].missing \cup {b}
    OBVIOUS
  <2>2. PICK s : s = Asked(client[c].id, client[c].todo \ {b}, missing) OBVIOUS
  <2>3. /\ client[c].stage = "ask" /\ client' = [client EXCEPT ![c] = s]
        /\ UNCHANGED <<stored, created, blobs, points, history, gc, clock, moved, condemned,
                       tainted, raced, spoiled>>
    BY <1>4, <2>1, <2>2 DEF Ask, Goto, disk, ghosts
  <2>4. /\ client[c].id \in Deployments /\ client[c].todo \ {b} \in SUBSET Blobs
        /\ missing \in SUBSET Blobs
    BY <1>a, <2>1, <2>3, ClientFields
  <2>5. s \in Client /\ s.stage \in {"upload", "ask"} BY <1>c, <2>2, <2>4
  <2>6. TypeOK' BY <1>a, <2>3, <2>5 DEF TypeOK
  <2> QED BY <2>3, <2>5, <2>6, ClientMove
<1>5. ASSUME NEW b \in Blobs, Upload(c, b) PROVE IInv'
  <2>1. PICK s : s = [stage |-> "upload", missing |-> client[c].missing \ {b}] OBVIOUS
  <2>2. /\ client[c].stage = "upload" /\ client' = [client EXCEPT ![c] = s]
        /\ blobs' = blobs \cup {b} /\ spoiled' = spoiled \ {b}
        /\ UNCHANGED <<stored, created, points, history, gc, clock, moved, condemned, tainted, raced>>
    BY <1>5, <2>1 DEF Upload, Goto
  <2>3. client[c].missing \subseteq Blobs BY <1>a, <2>2, ClientFields
  <2>4. s \in Client /\ s.stage = "upload" BY <2>1, <2>3 DEF Client
  <2>5. TypeOK' BY <1>a, <2>2, <2>4 DEF TypeOK
  <2> QED BY <2>2, <2>4, <2>5, ClientMove
<1>6. ASSUME NEW b \in Blobs, UploadWrong(c, b) PROVE IInv'
  <2>1. PICK s : s = [stage |-> "reject", blob |-> b] OBVIOUS
  <2>2. s \in Client /\ s.stage = "reject" BY <2>1 DEF Client
  <2>3. /\ client' = [client EXCEPT ![c] = s]
        /\ blobs' = blobs \cup {b} /\ spoiled' = spoiled \cup {b}
        /\ UNCHANGED <<stored, created, points, history, gc, clock, moved, condemned, tainted, raced>>
    BY <1>6, <2>1 DEF UploadWrong, Goto
  <2>4. TypeOK' BY <1>a, <2>2, <2>3 DEF TypeOK
  <2> QED BY <2>2, <2>3, <2>4, ClientMove
<1>7. CASE RejectUpload(c)
  <2>1. PICK b : b = client[c].blob OBVIOUS
  <2>2. /\ client[c].stage = "reject" /\ client' = [client EXCEPT ![c] = Idle]
        /\ \/ blobs' = blobs \ {b} /\ spoiled' = spoiled \cup {b}
           \/ UNCHANGED <<blobs, spoiled>>
        /\ UNCHANGED <<stored, created, points, history, gc, clock, moved, condemned, tainted, raced>>
    BY <1>7, <2>1 DEF RejectUpload, Goto
  <2>3. b \in Blobs BY <1>a, <2>1, <2>2, ClientFields
  <2>4. TypeOK' BY <1>a, <1>b, <2>2, <2>3 DEF TypeOK
  <2> QED BY <1>b, <2>2, <2>4, ClientMove
<1> QED BY <1>1, <1>2, <1>3, <1>4, <1>5, <1>6, <1>7

LEMMA CheckingIs ==
    ASSUME NEW d \in Deployments, NEW r \in Roots, NEW B \in SUBSET Blobs
    PROVE  LET s == Checking(d, r, B) IN
           /\ s \in Client /\ s.stage \in {"check", "switch"} /\ s.id = d /\ s.root = r
           /\ Checked(s) = Files[d] \ B
  BY ClientIs DEF Checking, Checked

LEMMA PointStep ==
    ASSUME IInv, NEW c \in Clients, NEW r \in Roots, NEW d \in Deployments, Point(c, r, d)
    PROVE  IInv'
<1>1. TypeOK /\ Files[d] \in SUBSET Blobs BY FilesAre DEF IInv
<1>2. PICK s : s = Checking(d, r, Files[d]) OBVIOUS
<1>3. /\ d \in stored /\ client' = [client EXCEPT ![c] = s]
      /\ tainted' = IF d \in condemned THEN tainted \cup {c} ELSE tainted \ {c}
      /\ UNCHANGED <<stored, created, blobs, points, history, gc, clock, moved, condemned,
                     raced, spoiled>>
  BY <1>2 DEF Point, Goto, disk
<1>4. s \in Client /\ s.stage \in {"check", "switch"} /\ s.id = d /\ Checked(s) = {}
  BY <1>1, <1>2, CheckingIs
<1>5. TypeOK' BY <1>1, <1>3, <1>4 DEF TypeOK
<1> QED BY <1>3, <1>4, <1>5, ClientMove

LEMMA CheckStep ==
    ASSUME IInv, NEW c \in Clients, NEW b \in Blobs, Check(c, b) PROVE IInv'
<1>1. PICK o : o = client[c] OBVIOUS
<1>2. PICK s : s = IF b \in blobs THEN Checking(o.id, o.root, o.todo \ {b}) ELSE Idle OBVIOUS
<1>3. /\ o.stage = "check" /\ b \in o.todo /\ client' = [client EXCEPT ![c] = s]
      /\ UNCHANGED <<stored, created, blobs, points, history, gc, clock, moved, condemned,
                     tainted, raced, spoiled>>
  BY <1>1, <1>2 DEF Check, Found, Goto, disk, ghosts
<1>4. TypeOK /\ o.id \in Deployments /\ o.root \in Roots /\ o.todo \subseteq Blobs
  BY <1>1, <1>3, ClientFields DEF IInv
<1>5. CASE b \in blobs
  <2>1. /\ s \in Client /\ s.stage \in {"check", "switch"} /\ s.id = o.id
        /\ Checked(s) = Files[o.id] \ (o.todo \ {b})
    BY <1>2, <1>4, <1>5, CheckingIs
  <2>2. c \notin tainted => /\ o.id \in stored \ condemned
                            /\ Files[o.id] \ o.todo \subseteq blobs \cup spoiled
    BY <1>1, <1>3 DEF IInv, CheckInv, Checked
  <2>3. TypeOK' BY <1>3, <1>4, <2>1 DEF TypeOK
  <2> QED BY <1>3, <1>5, <2>1, <2>2, <2>3, ClientMove
<1>6. CASE b \notin blobs
  <2>1. s \in Client /\ s.stage = "idle" BY <1>2, <1>6 DEF Client, Idle
  <2>2. TypeOK' BY <1>3, <1>4, <2>1 DEF TypeOK
  <2> QED BY <1>3, <2>1, <2>2, ClientMove
<1> QED BY <1>5, <1>6

LEMMA RootsAre == Targets(Roots) = Targets(Sites) \cup Targets(Aliases)
  BY DEF Targets, Roots

\* A pointer or a history is set, to a deployment of X, or cleared.
LEMMA PinMove ==
    ASSUME IInv, TypeOK', HistoryInv', LockInv', CheckInv', NEW X,
           UNCHANGED <<stored, blobs, gc, condemned, spoiled>>,
           Retained' \subseteq Retained \cup X,
           Targets(Sites)' \subseteq Targets(Sites) \cup X,
           Targets(Aliases)' \subseteq Targets(Aliases) \cup X,
           moved \cup X \subseteq moved', raced \subseteq raced' \cup X,
           \A d \in X \ raced' : Complete(d) /\ d \notin condemned
    PROVE  IInv'
<1>1. LiveInv' BY DEF IInv, LiveInv
<1>2. SweepInv' BY DEF IInv, SweepInv
<1>3. PinInv'
  <2>1. Targets(Roots) = Targets(Sites) \cup Targets(Aliases) BY RootsAre
  <2>2. Targets(Roots)' = Targets(Sites)' \cup Targets(Aliases)' BY DEF Targets, Roots
  <2> SUFFICES ASSUME NEW d \in (Targets(Roots)' \cup Retained') \ raced'
               PROVE  d \in stored' /\ Files[d] \subseteq blobs' \cup spoiled' /\ d \notin condemned'
    BY DEF PinInv, Complete
  <2>3. CASE d \in X BY <2>3 DEF Complete
  <2>4. CASE d \notin X
    <3>1. d \in (Targets(Roots) \cup Retained) \ raced BY <2>1, <2>2, <2>4
    <3> QED BY <3>1 DEF IInv, PinInv, Complete
  <2> QED BY <2>3, <2>4
<1> QED BY <1>1, <1>2, <1>3 DEF IInv

LEMMA SwitchStep == ASSUME IInv, NEW c \in Clients, Switch(c) PROVE IInv'
<1>a. PICK d : d = client[c].id OBVIOUS
<1>b. PICK r : r = client[c].root OBVIOUS
<1>c. PICK s : s = IF r \in Sites THEN [stage |-> "record", id |-> d, root |-> r] ELSE Idle OBVIOUS
<1>1. /\ client[c].stage = "switch" /\ (r \in Sites => ~Locked)
      /\ points' = [points EXCEPT ![r] = d] /\ moved' = moved \cup {d}
      /\ raced' = IF c \in tainted \/ d \in condemned THEN raced \cup {d} ELSE raced \ {d}
      /\ client' = [client EXCEPT ![c] = s]
      /\ UNCHANGED <<stored, created, blobs, history, gc, clock, condemned, tainted, spoiled>>
  BY <1>a, <1>b, <1>c DEF Switch, Goto
<1>2. TypeOK /\ d \in Deployments /\ r \in Roots BY <1>1, <1>a, <1>b, ClientFields DEF IInv
<1>3. /\ s \in Client /\ s.stage \in {"idle", "record"} /\ (s.stage = "record" <=> r \in Sites)
      /\ s.stage = "record" => s.id = d /\ s.root = r
  BY <1>2, <1>c DEF Client, Idle
<1>4. \A e \in Clients : client'[e] = IF e = c THEN s ELSE client[e] BY <1>1, <1>2 DEF TypeOK
<1>5. \A x \in Roots : points'[x] = IF x = r THEN d ELSE points[x] BY <1>1, <1>2 DEF TypeOK
<1>6. TypeOK' BY <1>1, <1>2, <1>3 DEF TypeOK
<1>7. HistoryInv' BY <1>1 DEF IInv, HistoryInv
<1>8. LockInv'
  <2>1. \A e \in Clients : client'[e].stage = "record" => points'[client'[e].root] = client'[e].id
    <3> SUFFICES ASSUME NEW e \in Clients, client'[e].stage = "record"
                 PROVE  points'[client'[e].root] = client'[e].id
      OBVIOUS
    <3>1. CASE e = c BY <1>2, <1>3, <1>4, <1>5, <3>1
    <3>2. CASE e # c
      <4>1. client[e].stage = "record" /\ client'[e] = client[e] BY <1>4, <3>2
      <4>2. client[e].root \in Sites /\ client[e].root \in Roots BY <1>2, <4>1, ClientFields DEF Roots
      <4>3. client[e].root # r BY <1>1, <4>1, <4>2 DEF Locked
      <4> QED BY <1>5, <4>1, <4>2, <4>3 DEF IInv, LockInv
    <3> QED BY <3>1, <3>2
  <2>2. \A e, f \in Clients : client'[e].stage = "record" /\ client'[f].stage = "record" => e = f
    BY <1>1, <1>3, <1>4 DEF IInv, LockInv, Locked
  <2> QED BY <2>1, <2>2 DEF LockInv
<1>9. CheckInv'
  <2>1. \A e \in Clients : client'[e].stage \in {"check", "switch"} => client'[e] = client[e]
    BY <1>3, <1>4
  <2> QED BY <1>1, <2>1 DEF IInv, CheckInv, Checked
<1>10. Retained' = Retained BY <1>1, <1>2, RetainedSame
<1>11. /\ Targets(Sites)' \subseteq Targets(Sites) \cup {d}
       /\ Targets(Aliases)' \subseteq Targets(Aliases) \cup {d}
  BY <1>5 DEF Targets, Roots
<1>12. d \notin raced' => Complete(d) /\ d \notin condemned
  BY <1>1, <1>a DEF IInv, CheckInv, Checked, Complete
<1> QED BY <1>1, <1>6, <1>7, <1>8, <1>9, <1>10, <1>11, <1>12, PinMove

LEMMA RecordStep == ASSUME IInv, NEW c \in Clients, Record(c) PROVE IInv'
<1>a. PICK d : d = client[c].id OBVIOUS
<1>b. PICK r : r = client[c].root OBVIOUS
<1>1. PICK h \in {history[r], <<>>} : history' = [history EXCEPT ![r] = Recorded(h, d)]
  BY <1>a, <1>b DEF Record
<1>2. /\ client[c].stage = "record" /\ moved' = moved \cup {d}
      /\ raced' = IF d \in condemned THEN raced \cup {d} ELSE raced
      /\ client' = [client EXCEPT ![c] = Idle]
      /\ UNCHANGED <<stored, created, blobs, points, gc, clock, condemned, tainted, spoiled>>
  BY <1>a DEF Record, Goto
<1>3. TypeOK /\ d \in Deployments /\ r \in Sites BY <1>2, <1>a, <1>b, ClientFields DEF IInv
<1>4. Idle \in Client /\ Idle.stage = "idle" BY DEF Client, Idle
<1>5. \A e \in Clients : client'[e] = IF e = c THEN Idle ELSE client[e] BY <1>2, <1>3 DEF TypeOK
<1>6. PICK R : R = Recorded(h, d) OBVIOUS
<1>7. /\ R \in Seq(Entry) /\ Len(R) <= MaxHistory
      /\ \A i, k \in DOMAIN R : R[i].id = R[k].id => i = k
      /\ \A i \in DOMAIN R : R[i].id = d \/ \E j \in DOMAIN h : j <= i /\ h[j].id = R[i].id
  <2>1. history[r] \in Seq(Entry) /\ clock \in Nat BY <1>3 DEF TypeOK
  <2>2. h \in Seq(Entry) /\ \A j, k \in DOMAIN h : h[j].id = h[k].id => j = k
    <3>1. CASE h = history[r] BY <1>3, <2>1, <3>1 DEF IInv, HistoryInv
    <3>2. CASE h = <<>> BY <3>2, EmptySeq
    <3> QED BY <3>1, <3>2
  <2> QED BY <1>3, <1>6, <2>1, <2>2, RecordedFacts
<1>8. \A x \in Sites : history'[x] = IF x = r THEN R ELSE history[x] BY <1>1, <1>3, <1>6 DEF TypeOK
<1>9. TypeOK'
  <2>1. history' \in [Sites -> Seq(Entry)] BY <1>1, <1>3, <1>6, <1>7 DEF TypeOK
  <2>2. \A x \in Sites : Len(history'[x]) <= MaxHistory BY <1>3, <1>7, <1>8 DEF TypeOK
  <2>3. raced' \subseteq Deployments /\ client' \in [Clients -> Client]
    BY <1>2, <1>3, <1>4 DEF TypeOK
  <2> QED BY <1>2, <1>3, <2>1, <2>2, <2>3 DEF TypeOK
<1>10. HistoryInv' BY <1>7, <1>8 DEF IInv, HistoryInv
<1>11. LockInv' BY <1>2, <1>4, <1>5 DEF IInv, LockInv
<1>12. CheckInv'
  <2>1. \A e \in Clients : client'[e].stage \in {"check", "switch"} => client'[e] = client[e]
    BY <1>4, <1>5
  <2> QED BY <1>2, <2>1 DEF IInv, CheckInv, Checked
<1>13. Retained' \subseteq Retained \cup {d}
  <2>1. \A x \in Sites : history[x] \in Seq(Entry) /\ history'[x] \in Seq(Entry)
    BY <1>3, <1>9 DEF TypeOK
  <2>2. \A x \in Sites : \A i \in DOMAIN history'[x] :
           \/ history'[x][i].id = d
           \/ \E j \in DOMAIN history[x] : j <= i /\ history[x][j].id = history'[x][i].id
    <3> SUFFICES ASSUME NEW x \in Sites, NEW i \in DOMAIN history'[x]
                 PROVE  \/ history'[x][i].id = d
                        \/ \E j \in DOMAIN history[x] : j <= i /\ history[x][j].id = history'[x][i].id
      OBVIOUS
    <3>1. CASE x # r
      <4>1. history'[x] = history[x] /\ i \in DOMAIN history[x] BY <1>8, <3>1
      <4>2. i <= i BY <2>1, <4>1, LenProperties
      <4> QED BY <4>1, <4>2
    <3>2. CASE x = r
      <4>1. history'[x] = R BY <1>8, <3>2
      <4>2. CASE h = history[r] BY <1>7, <3>2, <4>1, <4>2
      <4>3. CASE h = <<>> BY <1>7, <4>1, <4>3
      <4> QED BY <4>2, <4>3
    <3> QED BY <3>1, <3>2
  <2>3. Retained = RetainedOf(history, clock) /\ Retained' = RetainedOf(history', clock')
    BY Zenon DEF Retained, RetainedOf
  <2> QED BY <2>1, <2>2, <2>3, RetainedMove
<1>14. Targets(Sites)' = Targets(Sites) /\ Targets(Aliases)' = Targets(Aliases)
  BY <1>2 DEF Targets
\* The site still points at it.
<1>15. d \notin raced' => Complete(d) /\ d \notin condemned
  <2>1. points[r] = d BY <1>2, <1>a, <1>b DEF IInv, LockInv
  <2>2. d \in Targets(Roots) BY <1>3, <2>1, DeployGcAssumption DEF Targets, Roots, DeployGcAssumption
  <2> QED BY <1>2, <2>2 DEF IInv, PinInv
<1> QED BY <1>2, <1>9, <1>10, <1>11, <1>12, <1>13, <1>14, <1>15, PinMove

LEMMA ClearSteps ==
    ASSUME IInv, (\E a \in Aliases : RemoveAlias(a)) \/ (\E s \in Sites : DeleteSite(s))
    PROVE  IInv'
<1>a. TypeOK BY DEF IInv
<1>b. /\ \A s \in Sites : history[s] \in Seq(Entry) /\ \A i \in DOMAIN history[s] : i <= i
      /\ <<>> \in Seq(Entry) /\ DOMAIN <<>> = {} /\ Len(<<>>) = 0
  BY <1>a, EmptySeq, LenProperties DEF TypeOK
<1>c. MaxHistory \in Nat /\ Aliases \subseteq Roots /\ Sites \cap Aliases = {}
  BY DeployGcAssumption DEF DeployGcAssumption, Roots
<1>1. ASSUME NEW a \in Aliases, RemoveAlias(a) PROVE IInv'
  <2>1. /\ points' = [points EXCEPT ![a] = None]
        /\ UNCHANGED <<stored, created, blobs, history, client, gc, clock, moved, condemned,
                       tainted, raced, spoiled>>
    BY <1>1 DEF RemoveAlias, ghosts
  <2>2. \A x \in Roots : points'[x] = IF x = a THEN None ELSE points[x] BY <1>a, <2>1 DEF TypeOK
  <2>3. TypeOK' BY <1>a, <2>1 DEF TypeOK
  <2>4. HistoryInv' BY <2>1 DEF IInv, HistoryInv
  <2>5. LockInv'
    <3>1. \A e \in Clients : client[e].stage = "record" => client[e].root \in Sites
      BY <1>a, ClientFields
    <3>2. \A x \in Sites : points'[x] = points[x] BY <1>c, <2>2 DEF Roots
    <3> QED BY <2>1, <3>1, <3>2 DEF IInv, LockInv
  <2>6. CheckInv' BY <2>1 DEF IInv, CheckInv, Checked
  <2>7. Targets(Sites)' \subseteq Targets(Sites) /\ Targets(Aliases)' \subseteq Targets(Aliases)
    BY <2>2 DEF Targets, Roots
  <2>8. Retained' = Retained BY <1>a, <2>1, RetainedSame
  <2>9. PICK X : X = {} OBVIOUS
  <2> QED BY <2>1, <2>3, <2>4, <2>5, <2>6, <2>7, <2>8, <2>9, PinMove
<1>2. ASSUME NEW s \in Sites, DeleteSite(s) PROVE IInv'
  <2>1. /\ ~Locked
        /\ points' = [r \in Roots |-> IF r = s \/ (r \in Aliases /\ SiteOf[r] = s)
                                      THEN None ELSE points[r]]
        /\ history' = [history EXCEPT ![s] = <<>>]
        /\ UNCHANGED <<stored, created, blobs, client, gc, clock, moved, condemned,
                       tainted, raced, spoiled>>
    BY <1>2 DEF DeleteSite, ghosts
  <2>2. \A x \in Roots : points'[x] \in {None, points[x]} BY <2>1
  <2>3. \A x \in Sites : history'[x] = IF x = s THEN <<>> ELSE history[x] BY <1>a, <2>1 DEF TypeOK
  <2>4. TypeOK'
    <3>1. points' \in [Roots -> Deployments \cup {None}] BY <1>a, <2>1 DEF TypeOK
    <3>2. history' \in [Sites -> Seq(Entry)] BY <1>a, <1>b, <2>1 DEF TypeOK
    <3>3. \A x \in Sites : Len(history'[x]) <= MaxHistory BY <1>a, <1>b, <1>c, <2>3 DEF TypeOK
    <3> QED BY <1>a, <2>1, <3>1, <3>2, <3>3 DEF TypeOK
  <2>5. HistoryInv' BY <1>b, <2>3 DEF IInv, HistoryInv
  <2>6. LockInv' BY <2>1 DEF LockInv, Locked
  <2>7. CheckInv' BY <2>1 DEF IInv, CheckInv, Checked
  <2>8. Targets(Sites)' \subseteq Targets(Sites) /\ Targets(Aliases)' \subseteq Targets(Aliases)
    BY <2>2 DEF Targets, Roots
  <2>9. Retained' \subseteq Retained
    <3>1. \A x \in Sites : history'[x] \in Seq(Entry) BY <2>4 DEF TypeOK
    <3>2. PICK y : y \notin Deployments BY DeployGcAssumption DEF DeployGcAssumption
    <3>3. \A x \in Sites : \A i \in DOMAIN history'[x] :
             \E j \in DOMAIN history[x] : j <= i /\ history[x][j].id = history'[x][i].id
      BY <1>b, <2>3
    <3>4. Retained = RetainedOf(history, clock) /\ Retained' = RetainedOf(history', clock')
      BY Zenon DEF Retained, RetainedOf
    <3>5. RetainedOf(history', clock') \subseteq RetainedOf(history, clock) \cup {y}
      BY <1>b, <3>1, <3>3, RetainedMove
    <3> QED BY <3>2, <3>4, <3>5 DEF RetainedOf
  <2>10. PICK X : X = {} OBVIOUS
  <2> QED BY <2>1, <2>4, <2>5, <2>6, <2>7, <2>8, <2>9, <2>10, PinMove
<1> QED BY <1>1, <1>2

-----------------------------------------------------------------------------
(* The collector *)

\* The collector moves on: it deletes only what belongs to condemned deployments,
\* and what it condemns was moved since the pass began or is not pinned.
LEMMA GcMove ==
    ASSUME IInv, TypeOK', UNCHANGED <<points, history, client, spoiled>>, LiveInv', SweepInv',
           NEW D, condemned' \subseteq condemned \cup D,
           D \cap (Targets(Roots) \cup Retained) \subseteq raced',
           raced \subseteq raced', tainted \subseteq tainted',
           \A c \in Clients : client[c].stage \in {"check", "switch"} /\ client[c].id \in D =>
              c \in tainted',
           \A d \in Deployments \ condemned :
              /\ d \in stored => d \in stored'
              /\ Files[d] \cap blobs \subseteq blobs'
    PROVE  IInv'
<1>1. /\ Retained' = Retained /\ Targets(Roots)' = Targets(Roots) BY RetainedSame DEF IInv, Targets
<1>2. HistoryInv' /\ LockInv' BY DEF IInv, HistoryInv, LockInv
<1>3. CheckInv'
  <2> SUFFICES ASSUME NEW c \in Clients, c \notin tainted', client[c].stage \in {"check", "switch"}
               PROVE  /\ client[c].id \in stored' \ condemned'
                      /\ Checked(client[c]) \subseteq blobs' \cup spoiled
    BY DEF CheckInv, Checked
  <2>1. /\ client[c].id \in stored \ condemned /\ client[c].id \notin D
        /\ Checked(client[c]) \subseteq blobs \cup spoiled
    BY DEF IInv, CheckInv
  <2>2. client[c].id \in Deployments /\ Checked(client[c]) \subseteq Files[client[c].id]
    BY ClientFields DEF IInv, Checked
  <2> QED BY <2>1, <2>2
<1>4. PinInv'
  <2> SUFFICES ASSUME NEW d \in (Targets(Roots) \cup Retained) \ raced'
               PROVE  d \in stored' /\ Files[d] \subseteq blobs' \cup spoiled /\ d \notin condemned'
    BY <1>1 DEF PinInv, Complete
  <2>1. d \in stored /\ Files[d] \subseteq blobs \cup spoiled /\ d \notin condemned /\ d \notin D
    BY DEF IInv, PinInv, Complete
  <2>2. d \in Deployments BY <2>1 DEF IInv, TypeOK
  <2> QED BY <2>1, <2>2
<1> QED BY <1>2, <1>3, <1>4 DEF IInv

\* The pass begins, or looks at the histories and pointers.
LEMMA GcReadSteps ==
    ASSUME IInv, (\E opts \in Options : GcBegin(opts)) \/ GcHistory \/ GcCurrent \/ GcAlias \/ GcEnd
    PROVE  IInv'
<1>a. TypeOK /\ LiveInv /\ SweepInv BY DEF IInv
<1>b. PICK D : D = {} OBVIOUS
<1>c. Targets(Sites) \subseteq Deployments /\ Targets(Aliases) \subseteq Deployments
  BY <1>a DEF TypeOK, Targets, Roots
<1>1. ASSUME NEW opts \in Options, GcBegin(opts) PROVE IInv'
  <2>1. PICK g : g = [stage |-> "history", opts |-> opts, live |-> {}] OBVIOUS
  <2>2. /\ gc' = g /\ moved' = {} /\ condemned' = {}
        /\ UNCHANGED <<stored, created, blobs, points, history, client, clock,
                       tainted, raced, spoiled>>
    BY <1>1, <2>1 DEF GcBegin, disk
  <2>3. g \in Collector /\ g.stage = "history" BY <2>1 DEF Collector
  <2>4. TypeOK' BY <1>a, <2>2, <2>3 DEF TypeOK
  <2>5. LiveInv' /\ SweepInv' BY <2>2, <2>3 DEF LiveInv, SweepInv
  <2> QED BY <1>b, <2>2, <2>4, <2>5, GcMove
<1>2. CASE GcHistory
  <2>1. PICK L : L = UNION {Kept(history[s], gc.opts, clock) : s \in Sites} OBVIOUS
  <2>2. PICK g : g = [stage |-> "current", opts |-> gc.opts, live |-> L] OBVIOUS
  <2>3. /\ gc.stage = "history" /\ gc' = g
        /\ UNCHANGED <<stored, created, blobs, points, history, client, clock, moved, condemned,
                       tainted, raced, spoiled>>
    BY <1>2, <2>1, <2>2 DEF GcHistory, disk, ghosts
  <2>4. gc.opts \in Options BY <1>a, <2>3, CollectorFields
  <2>5. L \subseteq Deployments
    <3>1. \A s \in Sites : \A k \in DOMAIN history[s] : history[s][k] \in Entry
      BY <1>a, ElementOfSeq, LenProperties DEF TypeOK
    <3>2. \A s \in Sites : \A k \in DOMAIN history[s] : history[s][k].id \in Deployments
      BY <3>1 DEF Entry
    <3> QED BY <2>1, <3>2 DEF Kept
  <2>6. g \in Collector /\ g.stage = "current" /\ g.live = L BY <2>2, <2>4, <2>5 DEF Collector
  <2>7. TypeOK' BY <1>a, <2>3, <2>6 DEF TypeOK
  <2>8. Retained' = Retained /\ Retained \subseteq L
    BY <1>a, <2>1, <2>3, <2>4, RetainedSame, RetainedLive
  <2>9. LiveInv' BY <2>3, <2>6, <2>8 DEF LiveInv
  <2>10. SweepInv' BY <1>a, <2>3, <2>6 DEF SweepInv
  <2> QED BY <1>b, <2>3, <2>7, <2>9, <2>10, GcMove
<1>3. CASE GcCurrent
  <2>1. PICK g : g = [stage |-> "alias", opts |-> gc.opts, live |-> gc.live \cup Targets(Sites)]
    OBVIOUS
  <2>2. /\ gc.stage = "current" /\ gc' = g
        /\ UNCHANGED <<stored, created, blobs, points, history, client, clock, moved, condemned,
                       tainted, raced, spoiled>>
    BY <1>3, <2>1 DEF GcCurrent, disk, ghosts
  <2>3. gc.opts \in Options /\ gc.live \subseteq Deployments BY <1>a, <2>2, CollectorFields
  <2>4. g \in Collector /\ g.stage = "alias" /\ g.live = gc.live \cup Targets(Sites)
    BY <1>c, <2>1, <2>3 DEF Collector
  <2>5. TypeOK' BY <1>a, <2>2, <2>4 DEF TypeOK
  <2>6. Retained' = Retained /\ Targets(Sites)' = Targets(Sites)
    BY <1>a, <2>2, RetainedSame DEF Targets
  <2>7. LiveInv' BY <1>a, <2>2, <2>4, <2>6 DEF LiveInv
  <2>8. SweepInv' BY <1>a, <2>2, <2>4 DEF SweepInv
  <2> QED BY <1>b, <2>2, <2>5, <2>7, <2>8, GcMove
<1>4. CASE GcAlias
  <2>1. PICK g : g = [stage |-> "list", opts |-> gc.opts, live |-> gc.live \cup Targets(Aliases)]
    OBVIOUS
  <2>2. /\ gc.stage = "alias" /\ gc' = g
        /\ UNCHANGED <<stored, created, blobs, points, history, client, clock, moved, condemned,
                       tainted, raced, spoiled>>
    BY <1>4, <2>1 DEF GcAlias, disk, ghosts
  <2>3. gc.opts \in Options /\ gc.live \subseteq Deployments BY <1>a, <2>2, CollectorFields
  <2>4. g \in Collector /\ g.stage = "list" /\ g.live = gc.live \cup Targets(Aliases)
    BY <1>c, <2>1, <2>3 DEF Collector
  <2>5. TypeOK' BY <1>a, <2>2, <2>4 DEF TypeOK
  <2>6. /\ Retained' = Retained /\ Targets(Sites)' = Targets(Sites)
        /\ Targets(Aliases)' = Targets(Aliases)
    BY <1>a, <2>2, RetainedSame DEF Targets
  <2>7. LiveInv' BY <1>a, <2>2, <2>4, <2>6 DEF LiveInv
  <2>8. SweepInv' BY <1>a, <2>2, <2>4 DEF SweepInv
  <2> QED BY <1>b, <2>2, <2>5, <2>7, <2>8, GcMove
<1>5. CASE GcEnd
  <2>1. /\ gc' = Idle /\ condemned' = {}
        /\ UNCHANGED <<stored, created, blobs, points, history, client, clock, moved,
                       tainted, raced, spoiled>>
    BY <1>5 DEF GcEnd, disk
  <2>2. Idle \in Collector /\ Idle.stage = "idle" BY DEF Collector, Idle
  <2>3. TypeOK' BY <1>a, <2>1, <2>2 DEF TypeOK
  <2>4. LiveInv' /\ SweepInv' BY <2>1, <2>2 DEF LiveInv, SweepInv
  <2> QED BY <1>b, <2>1, <2>3, <2>4, GcMove
<1> QED BY <1>1, <1>2, <1>3, <1>4, <1>5

\* The two ways to say that a manifest is young agree.
LEMMA FreshIsWithinGrace ==
    ASSUME TypeOK, gc.stage = "sort", NEW d \in Deployments PROVE Fresh(d) <=> WithinGrace(d)
<1>1. gc.now \in Nat /\ gc.opts \in Options BY CollectorFields
<1>2. gc.opts.grace \in Nat BY <1>1, DeployGcAssumption DEF DeployGcAssumption
<1>3. created[d] \in Nat \cup {None} BY DEF TypeOK
<1>4. CASE created[d] = None BY <1>4 DEF Fresh, WithinGrace
<1>5. CASE created[d] \in Nat BY <1>1, <1>2, <1>5 DEF Fresh, WithinGrace
<1> QED BY <1>3, <1>4, <1>5

LEMMA CondemnIs ==
    ASSUME TypeOK, NEW D \in SUBSET Deployments, Condemn(D)
    PROVE  /\ condemned' = condemned \cup D /\ raced' = raced \cup (D \cap moved)
           /\ tainted \subseteq tainted' /\ UNCHANGED <<moved, spoiled>>
           /\ \A c \in Clients : client[c].stage \in {"check", "switch"} /\ client[c].id \in D =>
                 c \in tainted'
           /\ condemned' \subseteq Deployments /\ raced' \subseteq Deployments
           /\ tainted' \subseteq Clients
  BY DEF Condemn, TypeOK

LEMMA GcListStep == ASSUME IInv, GcList PROVE IInv'
<1>a. TypeOK /\ LiveInv /\ SweepInv BY DEF IInv
<1>b. PICK D : D = Deployments \ stored OBVIOUS
<1>c. PICK g : g = [stage |-> "sort", opts |-> gc.opts, live |-> gc.live, now |-> clock,
                    todo |-> stored, referenced |-> {}, orphans |-> {}]
  OBVIOUS
<1>1. /\ gc.stage = "list" /\ gc' = g /\ Condemn(D)
      /\ UNCHANGED <<stored, created, blobs, points, history, client, clock>>
  BY <1>b, <1>c DEF GcList, disk
<1>2. /\ condemned' = condemned \cup D /\ raced' = raced \cup (D \cap moved)
      /\ tainted \subseteq tainted' /\ UNCHANGED <<moved, spoiled>>
      /\ \A c \in Clients : client[c].stage \in {"check", "switch"} /\ client[c].id \in D =>
            c \in tainted'
      /\ condemned' \subseteq Deployments /\ raced' \subseteq Deployments
      /\ tainted' \subseteq Clients
  BY <1>1, <1>a, <1>b, CondemnIs
<1>3. gc.opts \in Options /\ gc.live \subseteq Deployments BY <1>a, <1>1, CollectorFields
<1>4. /\ g \in Collector /\ g.stage = "sort" /\ g.live = gc.live /\ g.todo = stored
      /\ g.orphans = {} /\ g.referenced = {}
  BY <1>a, <1>c, <1>3 DEF Collector, TypeOK
<1>5. TypeOK' BY <1>a, <1>1, <1>2, <1>4 DEF TypeOK
<1>6. /\ Retained' = Retained /\ Targets(Sites)' = Targets(Sites)
      /\ Targets(Aliases)' = Targets(Aliases)
  BY <1>a, <1>1, RetainedSame DEF Targets
<1>7. LiveInv' BY <1>a, <1>1, <1>2, <1>4, <1>6 DEF LiveInv
<1>8. SweepInv' BY <1>1, <1>2, <1>4, <1>b DEF SweepInv
<1>9. D \cap (Targets(Roots) \cup Retained) \subseteq raced'
  BY <1>2, <1>b DEF IInv, PinInv, Complete
<1> QED BY <1>1, <1>2, <1>5, <1>7, <1>8, <1>9, GcMove

LEMMA GcSortStep == ASSUME IInv, NEW d \in Deployments, GcSort(d) PROVE IInv'
<1>a. TypeOK /\ LiveInv /\ SweepInv BY DEF IInv
<1>b. PICK protected \in BOOLEAN : protected <=> d \in gc.live \/ WithinGrace(d) OBVIOUS
<1>c. PICK g : g = [stage |-> "sort", opts |-> gc.opts, live |-> gc.live, now |-> gc.now,
                    todo |-> gc.todo \ {d},
                    referenced |-> IF protected THEN gc.referenced \cup Files[d] ELSE gc.referenced,
                    orphans |-> IF protected THEN gc.orphans ELSE gc.orphans \cup {d}]
  OBVIOUS
<1>d. PICK D : D = IF protected THEN {} ELSE {d} OBVIOUS
<1>1. /\ gc.stage = "sort" /\ d \in gc.todo /\ gc' = g
      /\ UNCHANGED <<stored, created, blobs, points, history, client, clock>>
  BY <1>b, <1>c DEF GcSort, disk
<1>2. Condemn(D)
  <2>1. Fresh(d) <=> WithinGrace(d) BY <1>1, <1>a, FreshIsWithinGrace
  <2>2. (IF (d \in gc.live \/ WithinGrace(d)) \/ Fresh(d) THEN {} ELSE {d}) = D BY <2>1, <1>b, <1>d
  <2>3. Condemn(IF (d \in gc.live \/ WithinGrace(d)) \/ Fresh(d) THEN {} ELSE {d}) BY DEF GcSort
  <2> QED BY <2>2, <2>3
<1>3. /\ condemned' = condemned \cup D /\ raced' = raced \cup (D \cap moved)
      /\ tainted \subseteq tainted' /\ UNCHANGED <<moved, spoiled>>
      /\ \A c \in Clients : client[c].stage \in {"check", "switch"} /\ client[c].id \in D =>
            c \in tainted'
      /\ condemned' \subseteq Deployments /\ raced' \subseteq Deployments
      /\ tainted' \subseteq Clients
  BY <1>2, <1>a, <1>d, CondemnIs
<1>4. /\ gc.opts \in Options /\ gc.live \subseteq Deployments /\ gc.now \in Nat
      /\ gc.todo \subseteq Deployments /\ gc.referenced \subseteq Blobs
      /\ gc.orphans \subseteq Deployments /\ Files[d] \subseteq Blobs
  BY <1>a, <1>1, CollectorFields, FilesAre
<1>5. /\ g \in Collector /\ g.stage = "sort" /\ g.live = gc.live /\ g.todo = gc.todo \ {d}
      /\ g.orphans = IF protected THEN gc.orphans ELSE gc.orphans \cup {d}
      /\ g.referenced = IF protected THEN gc.referenced \cup Files[d] ELSE gc.referenced
  BY <1>c, <1>4 DEF Collector
<1>6. TypeOK' BY <1>a, <1>1, <1>3, <1>5 DEF TypeOK
<1>7. /\ Retained' = Retained /\ Targets(Sites)' = Targets(Sites)
      /\ Targets(Aliases)' = Targets(Aliases)
  BY <1>a, <1>1, RetainedSame DEF Targets
<1>8. LiveInv' BY <1>a, <1>1, <1>3, <1>5, <1>7 DEF LiveInv
<1>9. SweepInv'
  <2>1. ASSUME NEW e \in Deployments, e \notin condemned'
        PROVE  e \notin g.orphans /\ (e \in g.todo \/ Files[e] \subseteq g.referenced)
    <3>1. e \notin gc.orphans /\ (e \in gc.todo \/ Files[e] \subseteq gc.referenced)
      BY <1>a, <1>1, <1>3, <2>1 DEF SweepInv
    <3>2. e = d => protected BY <1>3, <1>d, <2>1
    <3> QED BY <1>5, <3>1, <3>2
  <2> QED BY <1>1, <1>5, <2>1 DEF SweepInv
\* Unprotected and pinned: it was moved since the pass looked.
<1>10. D \cap (Targets(Roots) \cup Retained) \subseteq raced'
  <2>1. ~protected /\ d \in Targets(Roots) \cup Retained => d \in moved
    BY <1>a, <1>1, <1>b, RootsAre DEF LiveInv
  <2> QED BY <1>3, <1>d, <2>1
<1> QED BY <1>1, <1>3, <1>6, <1>8, <1>9, <1>10, GcMove

\* The pass deletes blobs, then manifests.
LEMMA GcSweepSteps ==
    ASSUME IInv, \/ GcSweep \/ GcForget
                 \/ \E b \in Blobs : GcDeleteBlob(b)
                 \/ \E d \in Deployments : GcDeleteManifest(d)
    PROVE  IInv'
<1>a. TypeOK /\ SweepInv BY DEF IInv
<1>b. PICK D : D = {} OBVIOUS
<1>1. CASE GcSweep
  <2>1. PICK g : g = [stage |-> "sweep", todo |-> blobs \ gc.referenced, orphans |-> gc.orphans]
    OBVIOUS
  <2>2. /\ gc.stage = "sort" /\ gc.todo = {} /\ gc' = g
        /\ UNCHANGED <<stored, created, blobs, points, history, client, clock, moved, condemned,
                       tainted, raced, spoiled>>
    BY <1>1, <2>1 DEF GcSweep, disk, ghosts
  <2>3. gc.orphans \subseteq Deployments BY <1>a, <2>2, CollectorFields
  <2>4. /\ g \in Collector /\ g.stage = "sweep" /\ g.orphans = gc.orphans
        /\ g.todo = blobs \ gc.referenced
    BY <1>a, <2>1, <2>3 DEF Collector, TypeOK
  <2>5. TypeOK' BY <1>a, <2>2, <2>4 DEF TypeOK
  <2>6. LiveInv' BY <2>2, <2>4 DEF LiveInv
  <2>7. SweepInv' BY <1>a, <2>2, <2>3, <2>4 DEF SweepInv
  <2> QED BY <1>b, <2>2, <2>5, <2>6, <2>7, GcMove
<1>2. CASE GcForget
  <2>1. PICK g : g = [stage |-> "sweep", todo |-> {}, orphans |-> gc.orphans] OBVIOUS
  <2>2. /\ gc.stage = "forget" /\ gc' = g /\ created' = [created EXCEPT ![gc.id] = None]
        /\ UNCHANGED <<stored, blobs, points, history, client, clock, moved, condemned,
                       tainted, raced, spoiled>>
    BY <1>2, <2>1 DEF GcForget, ghosts
  <2>3. gc.orphans \subseteq Deployments BY <1>a, <2>2, CollectorFields
  <2>4. g \in Collector /\ g.stage = "sweep" /\ g.orphans = gc.orphans /\ g.todo = {}
    BY <2>1, <2>3 DEF Collector
  <2>5. TypeOK' BY <1>a, <2>2, <2>4 DEF TypeOK
  <2>6. LiveInv' BY <2>2, <2>4 DEF LiveInv
  <2>7. SweepInv' BY <1>a, <2>2, <2>4 DEF SweepInv
  <2> QED BY <1>b, <2>2, <2>5, <2>6, <2>7, GcMove
<1>3. ASSUME NEW b \in Blobs, GcDeleteBlob(b) PROVE IInv'
  <2>1. PICK g : g = [stage |-> "sweep", todo |-> gc.todo \ {b}, orphans |-> gc.orphans] OBVIOUS
  <2>2. /\ gc.stage = "sweep" /\ b \in gc.todo /\ gc' = g /\ blobs' = blobs \ {b}
        /\ UNCHANGED <<stored, created, points, history, client, clock, moved, condemned,
                       tainted, raced, spoiled>>
    BY <1>3, <2>1 DEF GcDeleteBlob, ghosts
  <2>3. gc.orphans \subseteq Deployments /\ gc.todo \subseteq Blobs BY <1>a, <2>2, CollectorFields
  <2>4. g \in Collector /\ g.stage = "sweep" /\ g.orphans = gc.orphans /\ g.todo = gc.todo \ {b}
    BY <2>1, <2>3 DEF Collector
  <2>5. TypeOK' BY <1>a, <2>2, <2>4 DEF TypeOK
  <2>6. LiveInv' BY <2>2, <2>4 DEF LiveInv
  <2>7. SweepInv' BY <1>a, <2>2, <2>4 DEF SweepInv
  <2>8. \A d \in Deployments \ condemned : Files[d] \cap blobs \subseteq blobs'
    BY <1>a, <2>2 DEF SweepInv
  <2> QED BY <1>b, <2>2, <2>5, <2>6, <2>7, <2>8, GcMove
<1>4. ASSUME NEW d \in Deployments, GcDeleteManifest(d) PROVE IInv'
  <2>1. PICK g : g = [stage |-> "forget", id |-> d, orphans |-> gc.orphans \ {d}] OBVIOUS
  <2>2. /\ gc.stage = "sweep" /\ d \in gc.orphans /\ gc' = g /\ stored' = stored \ {d}
        /\ UNCHANGED <<created, blobs, points, history, client, clock, moved, condemned,
                       tainted, raced, spoiled>>
    BY <1>4, <2>1 DEF GcDeleteManifest, ghosts
  <2>3. gc.orphans \subseteq Deployments BY <1>a, <2>2, CollectorFields
  <2>4. g \in Collector /\ g.stage = "forget" /\ g.orphans = gc.orphans \ {d}
    BY <2>1, <2>3 DEF Collector
  <2>5. TypeOK' BY <1>a, <2>2, <2>4 DEF TypeOK
  <2>6. LiveInv' BY <2>2, <2>4 DEF LiveInv
  <2>7. SweepInv' BY <1>a, <2>2, <2>4 DEF SweepInv
  <2>8. \A e \in Deployments \ condemned : e \in stored => e \in stored'
    BY <1>a, <2>2 DEF SweepInv
  <2> QED BY <1>b, <2>2, <2>5, <2>6, <2>7, <2>8, GcMove
<1> QED BY <1>1, <1>2, <1>3, <1>4

-----------------------------------------------------------------------------

LEMMA InitInv == ASSUME Init PROVE IInv
<1>1. /\ \A r \in Roots : points[r] = None
      /\ \A s \in Sites : history[s] = <<>>
      /\ \A c \in Clients : client[c] = Idle
      /\ gc = Idle /\ condemned = {}
  BY DEF Init
<1>2. Idle \in Client /\ Idle \in Collector /\ Idle.stage = "idle" BY DEF Client, Collector, Idle
<1>3. <<>> \in Seq(Entry) /\ Len(<<>>) = 0 /\ DOMAIN <<>> = {} BY EmptySeq
<1>4. TypeOK
  <2>1. MaxHistory \in Nat BY DeployGcAssumption DEF DeployGcAssumption
  <2>2. blobs \subseteq Blobs BY FilesAre DEF Init
  <2>3. created \in [Deployments -> Nat \cup {None}] BY DEF Init
  <2>4. history \in [Sites -> Seq(Entry)] /\ \A s \in Sites : Len(history[s]) <= MaxHistory
    BY <1>1, <1>3, <2>1 DEF Init
  <2>5. client \in [Clients -> Client] BY <1>2 DEF Init
  <2> QED BY <1>2, <2>2, <2>3, <2>4, <2>5 DEF Init, TypeOK
<1>5. HistoryInv BY <1>1, <1>3 DEF HistoryInv
<1>6. LockInv BY <1>1, <1>2 DEF LockInv
<1>7. LiveInv /\ SweepInv BY <1>1, <1>2 DEF LiveInv, SweepInv
<1>8. CheckInv BY <1>1, <1>2 DEF CheckInv
<1>9. PinInv
  <2>1. Targets(Roots) = {} BY <1>1 DEF Targets
  <2>2. Retained = {}
    <3> SUFFICES ASSUME NEW d \in Retained PROVE FALSE
      OBVIOUS
    <3>1. PICK opts : opts \in Options BY DeployGcAssumption DEF DeployGcAssumption
    <3>2. PICK s \in Sites : d \in Kept(history[s], [opts EXCEPT !.age = None], clock)
      BY <3>1 DEF Retained
    <3> QED BY <1>1, <1>3, <3>2 DEF Kept
  <2> QED BY <2>1, <2>2 DEF PinInv
<1> QED BY <1>4, <1>5, <1>6, <1>7, <1>8, <1>9 DEF IInv

LEMMA IdleSteps == ASSUME IInv, Tick \/ UNCHANGED vars PROVE IInv'
<1>1. /\ UNCHANGED <<stored, created, blobs, points, history, client, gc, moved, condemned,
                     tainted, raced, spoiled>>
      /\ clock' \in {clock, clock + 1}
  BY DEF Tick, vars, disk, ghosts
<1>2. TypeOK' BY <1>1 DEF IInv, TypeOK
<1>3. /\ Retained' = Retained /\ Targets(Sites)' = Targets(Sites)
      /\ Targets(Aliases)' = Targets(Aliases)
  BY <1>1, RetainedSame DEF IInv, Targets
<1>4. LiveInv' BY <1>1, <1>3 DEF IInv, LiveInv
<1>5. SweepInv' BY <1>1 DEF IInv, SweepInv
<1>6. PICK D : D = {} OBVIOUS
<1> QED BY <1>1, <1>2, <1>4, <1>5, <1>6, GcMove

LEMMA StepInv == ASSUME IInv, [Next]_vars PROVE IInv'
<1>1. ASSUME NEW c \in Clients, Request(c) PROVE IInv'
  <2>1. CASE \/ \E d \in Deployments : PutManifest(c, d)
             \/ StoreManifest(c) \/ Uploaded(c) \/ RejectUpload(c) \/ RecordFails(c)
             \/ \E b \in Blobs : Ask(c, b) \/ Upload(c, b) \/ UploadWrong(c, b)
    BY <2>1, CreateSteps
  <2>2. ASSUME NEW d \in Deployments, NEW r \in Roots, Point(c, r, d) PROVE IInv'
    BY <2>2, PointStep
  <2>3. ASSUME NEW b \in Blobs, Check(c, b) PROVE IInv' BY <2>3, CheckStep
  <2>4. CASE Switch(c) BY <2>4, SwitchStep
  <2>5. CASE Record(c) BY <2>5, RecordStep
  <2> QED BY <1>1, <2>1, <2>2, <2>3, <2>4, <2>5 DEF Request
<1>2. CASE (\E a \in Aliases : RemoveAlias(a)) \/ (\E s \in Sites : DeleteSite(s))
  BY <1>2, ClearSteps
<1>3. CASE Collect
  <2>1. CASE (\E opts \in Options : GcBegin(opts)) \/ GcHistory \/ GcCurrent \/ GcAlias \/ GcEnd
    BY <2>1, GcReadSteps
  <2>2. CASE GcList BY <2>2, GcListStep
  <2>3. ASSUME NEW d \in Deployments, GcSort(d) PROVE IInv' BY <2>3, GcSortStep
  <2>4. CASE \/ GcSweep \/ GcForget
             \/ \E b \in Blobs : GcDeleteBlob(b)
             \/ \E d \in Deployments : GcDeleteManifest(d)
    BY <2>4, GcSweepSteps
  <2> QED BY <1>3, <2>1, <2>2, <2>3, <2>4 DEF Collect
<1>4. CASE Tick \/ UNCHANGED vars BY <1>4, IdleSteps
<1> QED BY <1>1, <1>2, <1>3, <1>4 DEF Next

LEMMA Invariance == Spec => []IInv
<1>1. Init => IInv BY InitInv
<1>2. IInv /\ [Next]_vars => IInv' BY StepInv
<1> QED BY <1>1, <1>2, PTL DEF Spec

\* Every variable keeps its type; record_history, which drops the older entry and
\* truncates, keeps a history within MAX_HISTORY.
THEOREM TypeCorrect == Spec => []TypeOK
<1>1. IInv => TypeOK BY DEF IInv
<1> QED BY <1>1, Invariance, PTL

\* What current/, an alias or the retained history names is complete, for any
\* number of requests and passes of collect_garbage_with, unless it was pointed at
\* while a pass that did not protect it was under way, or an upload spoiled it.
THEOREM PinnedStaysComplete == Spec => []PinnedComplete
<1>1. IInv => PinnedComplete BY DEF IInv, PinInv, PinnedComplete
<1> QED BY <1>1, Invariance, PTL
=============================================================================
