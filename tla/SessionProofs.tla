--------------------------- MODULE SessionProofs ---------------------------
(***************************************************************************)
(* Proofs about the resumable session of Session: for any number of         *)
(* overlapping requests and reaper passes, any keys, limits and clock.       *)
(***************************************************************************)
EXTENDS Session, FiniteSetTheorems, SequenceTheorems, TLAPS

Ats == {"idle", "open", "ack", "connect", "admit", "seen", "guest", "put", "delete"}
Task == [kind : {"none", "get", "post", "reap"}, at : Ats, key : Keys \cup {NoRec},
         ack : Nat, now : Nat, base : State \cup {NoRec}, next : State \cup {NoRec},
         then : {"idle", "ack", "connect", "admit", "guest"}]

Types ==
    /\ rec \in State \cup {NoRec}
    /\ task \in [Tasks -> Task]
    /\ stream \in [on : BOOLEAN, cursor : Nat, pending : SUBSET Frame, done : BOOLEAN]
    /\ client \in [last : Nat, over : BOOLEAN]
    /\ clock \in Nat /\ made \in Nat
    /\ sent \subseteq Frame /\ ran \subseteq Keys

\* A record of the delivery model: one frame for each cursor after the ack.
Exact(r) ==
    /\ r.acked <= r.out
    /\ \A f \in r.buf : r.acked < f.cursor /\ f.cursor <= r.out
    /\ r.closed => r.buf = {}
    /\ ~r.closed => \A c \in (r.acked + 1) .. r.out : \E f \in r.buf : f.cursor = c
    /\ \A f, g \in r.buf : f.cursor = g.cursor => f = g
    /\ IsFiniteSet(r.buf) /\ Cardinality(r.buf) <= MaxBuffered
    /\ Len(r.seen) <= DedupWindow

AllRan(r, keys) == \A i \in DOMAIN r.seen : r.seen[i] \in keys

\* What a load and a change make of the record they loaded.
Derived(base, next, ack) ==
    \/ base = NoRec /\ next.out = 0 /\ next.buf = {}
    \/ /\ base \in State
       /\ base.out <= next.out
       /\ \A f \in base.buf \ next.buf : next.closed \/ f.cursor <= ack
       /\ \A f \in next.buf \ base.buf : f.cursor = next.out /\ f.cursor = base.out + 1

\* The stored record, and the copy of every task about to put one.
RecordInv ==
    /\ rec # NoRec => Exact(rec) /\ AllRan(rec, ran)
    /\ \A t \in Tasks : task[t].at = "put" =>
          /\ task[t].next \in State
          /\ Exact(task[t].next) /\ AllRan(task[t].next, ran)
          /\ Derived(task[t].base, task[t].next, task[t].ack)

Out == IF rec = NoRec THEN 0 ELSE rec.out

\* The client has every frame sent up to the cursor.
Given(c) == c <= Out /\ \A f \in sent : f.cursor <= c => f.frame \in got

\* The client has, or its stream holds, every frame sent up to the stream's cursor.
Streamed ==
    /\ stream.cursor <= Out
    /\ \A f \in sent : f.cursor <= stream.cursor => f.frame \in got \/ f \in stream.pending

DeliveryInv ==
    /\ Given(client.last)
    /\ \A t \in Tasks : Given(task[t].ack)
    /\ Streamed
    /\ \A f \in sent : FrameKept(f)

StreamInv ==
    /\ \A f \in stream.pending : f.cursor <= stream.cursor
    /\ \A f, g \in stream.pending : f.cursor = g.cursor => f = g
    /\ \A f \in sent : f.cursor >= 1

IInv == Types /\ RecordInv /\ StreamInv /\ (over = {} => DeliveryInv)

-----------------------------------------------------------------------------
(* The operations of SessionState keep a record exact. *)

LEMMA NewExact ==
    ASSUME NEW now \in Nat
    PROVE  /\ New(now) \in State /\ Exact(New(now)) /\ AllRan(New(now), ran)
           /\ New(now).out = 0 /\ New(now).buf = {}
  BY FS_EmptySet, SessionAssumption DEF New, State, Exact, AllRan, SessionAssumption

LEMMA EnqueueExact ==
    ASSUME NEW st \in State, Exact(st), CanEnqueue(st), NEW frame \in Nat, NEW now \in Nat,
           NEW ack, AllRan(st, ran)
    PROVE  LET next == EnqueueOutbound(st, frame, now)
           IN  /\ next \in State /\ Exact(next) /\ AllRan(next, ran)
               /\ Derived(st, next, ack)
<1> USE SessionAssumption DEF SessionAssumption
<1> DEFINE new == [cursor |-> st.out + 1, frame |-> frame]
           next == EnqueueOutbound(st, frame, now)
<1>0. st.out \in Nat /\ st.acked \in Nat /\ st.buf \subseteq Frame /\ ~st.closed BY DEF State, CanEnqueue
<1>1. new \in Frame /\ new.cursor = st.out + 1 BY <1>0 DEF Frame
<1>2. next \in State
  <2> DEFINE buf == st.buf \cup {new}
  <2>1. buf \in SUBSET Frame /\ st.out + 1 \in Nat BY <1>0, <1>1
  <2>2. next = [st EXCEPT !.out = st.out + 1, !.buf = buf, !.active = now]
    BY DEF EnqueueOutbound
  <2> HIDE DEF buf, next
  <2> QED BY <2>1, <2>2 DEF State
<1>3. /\ next.out = st.out + 1 /\ next.buf = st.buf \cup {new} /\ next.acked = st.acked
      /\ next.closed = st.closed /\ next.seen = st.seen
  BY DEF EnqueueOutbound, State
<1> HIDE DEF next, new
<1>4. new \notin st.buf BY <1>0, <1>1 DEF Exact, Frame
<1>5. IsFiniteSet(next.buf) /\ Cardinality(next.buf) = Cardinality(st.buf) + 1
  <2>1. IsFiniteSet(st.buf) BY DEF Exact
  <2>2. /\ IsFiniteSet(st.buf \cup {new})
        /\ Cardinality(st.buf \cup {new}) = Cardinality(st.buf) + 1
    BY <1>4, <2>1, FS_AddElement
  <2> QED BY <1>3, <2>2
<1>6. Cardinality(next.buf) <= MaxBuffered
  BY <1>5, FS_CardinalityType DEF Exact, CanEnqueue
<1>7. \A f \in st.buf : f.cursor \in Nat BY <1>0 DEF Frame
<1>8. \A c \in (next.acked + 1) .. next.out : \E f \in next.buf : f.cursor = c
  <2> SUFFICES ASSUME NEW c \in (next.acked + 1) .. next.out PROVE \E f \in next.buf : f.cursor = c
    OBVIOUS
  <2>1. CASE c = st.out + 1 BY <2>1, <1>1, <1>3
  <2>2. CASE c # st.out + 1
    <3>1. c \in (st.acked + 1) .. st.out BY <2>2, <1>0, <1>3
    <3> QED BY <3>1, <1>0, <1>3 DEF Exact
  <2> QED BY <2>1, <2>2
<1>9. \A f, g \in next.buf : f.cursor = g.cursor => f = g BY <1>0, <1>1, <1>3, <1>7 DEF Exact
<1>10. Exact(next)
  BY <1>0, <1>1, <1>3, <1>5, <1>6, <1>7, <1>8, <1>9 DEF Exact
<1>11. AllRan(next, ran) BY <1>3 DEF AllRan
<1>12. Derived(st, next, ack) BY <1>0, <1>1, <1>3 DEF Derived
<1> QED BY <1>2, <1>10, <1>11, <1>12 DEF next

LEMMA AckExact ==
    ASSUME NEW st \in State, Exact(st), NEW cursor \in Nat, NEW now \in Nat, AllRan(st, ran)
    PROVE  LET next == Ack(st, cursor, now)
           IN  /\ next \in State /\ Exact(next) /\ AllRan(next, ran)
               /\ Derived(st, next, cursor)
<1> USE SessionAssumption DEF SessionAssumption
<1> DEFINE target == IF cursor < st.out THEN cursor ELSE st.out
           next == Ack(st, cursor, now)
<1>0. st.out \in Nat /\ st.acked \in Nat /\ st.buf \subseteq Frame BY DEF State
<1>1. target \in Nat /\ target <= st.out /\ target <= cursor BY <1>0
<1>2. CASE target <= st.acked
  <2>1. next = st BY <1>2 DEF Ack
  <2> QED BY <2>1, <1>0 DEF Derived
<1>3. CASE ~(target <= st.acked)
  <2> DEFINE kept == {f \in st.buf : f.cursor > target}
  <2>1. next = [st EXCEPT !.acked = target, !.active = now, !.buf = kept] BY <1>3 DEF Ack
  <2>2. next \in State BY <1>0, <1>1, <2>1 DEF State
  <2>3. /\ next.out = st.out /\ next.buf = kept /\ next.acked = target
        /\ next.closed = st.closed /\ next.seen = st.seen
    BY <2>1 DEF State
  <2>4. IsFiniteSet(kept) /\ Cardinality(kept) <= Cardinality(st.buf)
    <3>1. kept \in SUBSET st.buf OBVIOUS
    <3> HIDE DEF kept
    <3> QED BY <3>1, FS_Subset DEF Exact
  <2>5. Cardinality(kept) <= MaxBuffered BY <2>4, FS_CardinalityType DEF Exact
  <2>6. \A f \in st.buf : f.cursor \in Nat BY <1>0 DEF Frame
  <2> HIDE DEF target, next
  <2>7. Exact(next)
    BY <1>0, <1>1, <1>3, <2>3, <2>4, <2>5, <2>6 DEF Exact
  <2>8. Derived(st, next, cursor)
    BY <1>0, <1>1, <2>3, <2>6 DEF Derived
  <2>9. AllRan(next, ran) BY <2>3 DEF AllRan
  <2> QED BY <2>2, <2>7, <2>8, <2>9 DEF next
<1> QED BY <1>2, <1>3

LEMMA RecordExact ==
    ASSUME NEW st \in State, Exact(st), NEW key \in Keys, NEW now \in Nat, NEW ack,
           NEW keys, AllRan(st, keys)
    PROVE  LET next == RecordInbound(st, key, now)
           IN  /\ next \in State /\ Exact(next) /\ AllRan(next, keys \cup {key})
               /\ Derived(st, next, ack)
<1> USE SessionAssumption DEF SessionAssumption
<1> DEFINE all == Append(st.seen, key)
           seen == IF Len(all) > DedupWindow THEN Tail(all) ELSE all
           next == RecordInbound(st, key, now)
<1>0. st.seen \in Seq(Keys) /\ st.out \in Nat BY DEF State
<1>1. CASE ContainsInbound(st, key)
  <2>1. next = st BY <1>1 DEF RecordInbound
  <2> QED BY <2>1, <1>0 DEF Derived, AllRan
<1>2. CASE ~ContainsInbound(st, key)
  <2>1. /\ all \in Seq(Keys) /\ Len(all) = Len(st.seen) + 1 /\ all # <<>>
        /\ \A i \in 1 .. Len(all) : all[i] \in keys \cup {key}
    BY <1>0 DEF AllRan
  <2> HIDE DEF all
  <2>2. /\ Tail(all) \in Seq(Keys) /\ Len(Tail(all)) = Len(all) - 1
        /\ \A i \in 1 .. Len(Tail(all)) : Tail(all)[i] = all[i + 1]
    BY <2>1
  <2>3. /\ seen \in Seq(Keys) /\ Len(seen) <= DedupWindow
        /\ \A i \in DOMAIN seen : seen[i] \in keys \cup {key}
    <3>1. CASE Len(all) > DedupWindow
      <4>1. seen = Tail(all) BY <3>1
      <4>2. Len(seen) <= DedupWindow BY <1>0, <2>1, <2>2, <4>1 DEF Exact
      <4>3. \A i \in DOMAIN seen : seen[i] \in keys \cup {key} BY <2>1, <2>2, <4>1
      <4> QED BY <4>1, <4>2, <4>3, <2>2
    <3>2. CASE ~(Len(all) > DedupWindow)
      <4>1. seen = all BY <3>2
      <4> QED BY <3>2, <4>1, <2>1
    <3> QED BY <3>1, <3>2
  <2> DEFINE rest == [st EXCEPT !.active = now, !.seen = seen]
  <2>4. next = rest BY <1>2 DEF RecordInbound, all
  <2> HIDE DEF seen, next
  <2>5. next \in State BY <2>3, <2>4 DEF State
  <2>6. /\ next.out = st.out /\ next.buf = st.buf /\ next.acked = st.acked
        /\ next.closed = st.closed /\ next.seen = seen
    BY <2>4 DEF State
  <2>7. Exact(next) BY <2>3, <2>6 DEF Exact
  <2>8. Derived(st, next, ack) BY <1>0, <2>6 DEF Derived
  <2>9. AllRan(next, keys \cup {key}) BY <2>3, <2>6 DEF AllRan
  <2> QED BY <2>5, <2>7, <2>8, <2>9 DEF next
<1> QED BY <1>1, <1>2

LEMMA CheckpointExact ==
    ASSUME NEW st \in State, Exact(st), NEW key \in Keys \cup {NoRec}, NEW now \in Nat, NEW ack,
           AllRan(st, ran)
    PROVE  LET next == SetCheckpoint(st, key, now)
           IN  /\ next \in State /\ Exact(next) /\ AllRan(next, ran)
               /\ Derived(st, next, ack)
<1> DEFINE next == SetCheckpoint(st, key, now)
<1>1. next \in State BY DEF SetCheckpoint, State
<1>2. /\ next.out = st.out /\ next.buf = st.buf /\ next.acked = st.acked
      /\ next.closed = st.closed /\ next.seen = st.seen /\ st.out \in Nat
  BY DEF SetCheckpoint, State
<1> HIDE DEF next
<1>3. Exact(next) /\ AllRan(next, ran) /\ Derived(st, next, ack)
  BY <1>2 DEF Exact, AllRan, Derived
<1> QED BY <1>1, <1>3 DEF next

LEMMA CloseExact ==
    ASSUME NEW st \in State, Exact(st), NEW now \in Nat, NEW ack, AllRan(st, ran)
    PROVE  LET next == Close(st, now)
           IN  /\ next \in State /\ Exact(next) /\ AllRan(next, ran)
               /\ Derived(st, next, ack)
<1> USE SessionAssumption DEF SessionAssumption
<1> DEFINE next == Close(st, now)
<1>0. st.out \in Nat BY DEF State
<1>1. CASE st.closed
  <2>1. next = st BY <1>1 DEF Close
  <2> QED BY <2>1, <1>0 DEF Derived
<1>2. CASE ~st.closed
  <2>1. next \in State
    <3>1. <<>> \in Seq(Keys) /\ {} \in SUBSET Frame OBVIOUS
    <3> QED BY <1>2, <3>1 DEF Close, State
  <2>2. /\ next.out = st.out /\ next.buf = {} /\ next.acked = st.acked
        /\ next.closed = TRUE /\ next.seen = <<>>
    BY <1>2 DEF Close, State
  <2> HIDE DEF next
  <2>3. Exact(next) BY <2>2, FS_EmptySet DEF Exact
  <2>4. AllRan(next, ran) /\ Derived(st, next, ack) BY <2>2, <1>0 DEF AllRan, Derived
  <2> QED BY <2>1, <2>3, <2>4 DEF next
<1> QED BY <1>1, <1>2

\* The last frame of a poll is the last frame sent.
LEMMA LastFrame ==
    ASSUME NEW st \in State, Exact(st), NEW after \in Nat,
           FramesSince(st, after) # {}
    PROVE  LET frames == FramesSince(st, after)
           IN  (CHOOSE c \in {f.cursor : f \in frames} : \A f \in frames : f.cursor <= c) = st.out
<1> DEFINE frames == FramesSince(st, after)
<1>0. st.out \in Nat /\ st.acked \in Nat /\ st.buf \subseteq Frame BY DEF State
<1>1. \A f \in st.buf : f.cursor \in Nat BY <1>0 DEF Frame
<1>2. PICK f \in st.buf : f.cursor > after BY DEF FramesSince
<1>3. ~st.closed BY <1>2 DEF Exact
<1>4. st.out \in (st.acked + 1) .. st.out BY <1>0, <1>1, <1>2 DEF Exact
<1>5. PICK g \in st.buf : g.cursor = st.out BY <1>3, <1>4 DEF Exact
<1>6. g \in frames BY <1>0, <1>1, <1>2, <1>5 DEF FramesSince, Exact
<1>7. \A h \in frames : h.cursor \in Nat /\ h.cursor <= st.out BY <1>1 DEF FramesSince, Exact
<1> HIDE DEF frames
<1> DEFINE Last(c) == c \in {h.cursor : h \in frames} /\ \A h \in frames : h.cursor <= c
<1>8. Last(st.out) BY <1>5, <1>6, <1>7
<1>9. \A c : Last(c) => c = st.out
  <2> SUFFICES ASSUME NEW c, Last(c) PROVE c = st.out
    OBVIOUS
  <2>1. c \in Nat /\ c <= st.out BY <1>7
  <2>2. g.cursor <= c BY <1>6
  <2> QED BY <2>1, <2>2, <1>0, <1>5
<1> QED BY <1>8, <1>9 DEF frames

-----------------------------------------------------------------------------
(* The steps of a request that leave the record alone. *)

LEMMA IdleType == Idle \in Task /\ Idle.at = "idle" /\ Idle.ack = 0
  BY DEF Idle, Task, Ats

LEMMA GivenZero == IInv => Given(0)
<1> SUFFICES ASSUME IInv PROVE Given(0)
  OBVIOUS
<1>1. Out \in Nat BY DEF IInv, Types, Out, State
<1>2. \A f \in sent : f.cursor \in Nat /\ f.cursor >= 1 BY DEF IInv, Types, StreamInv, Frame
<1> QED BY <1>1, <1>2 DEF Given

\* A task takes a step, with what it will put, if anything, in order.
LEMMA TaskMoves ==
    ASSUME IInv, NEW t \in Tasks, NEW v \in Task, task' = [task EXCEPT ![t] = v],
           v.at = "put" => /\ v.next \in State /\ Exact(v.next) /\ AllRan(v.next, ran')
                           /\ Derived(v.base, v.next, v.ack),
           v.ack \in {0, client.last, task[t].ack},
           UNCHANGED <<rec, stream, client, sent, got, over>>,
           clock' \in Nat, made' \in Nat, ran \subseteq ran', ran' \subseteq Keys
    PROVE  IInv'
<1>1. Types' BY DEF IInv, Types
<1>2. RecordInv'
  <2>1. rec' # NoRec => Exact(rec') /\ AllRan(rec', ran')
    BY DEF IInv, RecordInv, AllRan
  <2>2. ASSUME NEW u \in Tasks, task'[u].at = "put"
        PROVE  /\ task'[u].next \in State
               /\ Exact(task'[u].next) /\ AllRan(task'[u].next, ran')
               /\ Derived(task'[u].base, task'[u].next, task'[u].ack)
    <3>1. CASE u = t
      <4>1. task'[u] = v BY <3>1 DEF IInv, Types
      <4> QED BY <2>2, <4>1
    <3>2. CASE u # t
      <4>1. task'[u] = task[u] BY <3>2 DEF IInv, Types
      <4> QED BY <2>2, <4>1 DEF IInv, RecordInv, AllRan
    <3> QED BY <3>1, <3>2
  <2> QED BY <2>1, <2>2 DEF RecordInv
<1>3. StreamInv' BY DEF IInv, StreamInv
<1>4. over' = {} => DeliveryInv'
  <2> SUFFICES ASSUME over = {} PROVE DeliveryInv'
    OBVIOUS
  <2>1. DeliveryInv BY DEF IInv
  <2>3. Given(client.last)' BY <2>1 DEF DeliveryInv, Given, Out
  <2>4. Streamed' BY <2>1 DEF DeliveryInv, Streamed, Out
  <2>5. \A f \in sent' : FrameKept(f)' BY <2>1 DEF DeliveryInv, FrameKept
  <2>6. \A u \in Tasks : Given(task[u].ack)'
    <3> SUFFICES ASSUME NEW u \in Tasks PROVE Given(task[u].ack)'
      OBVIOUS
    <3>1. task'[u].ack \in {0, client.last, task[t].ack, task[u].ack} BY DEF IInv, Types
    <3>2. Given(task'[u].ack) BY <2>1, <3>1, GivenZero DEF DeliveryInv
    <3> QED BY <3>2 DEF Given, Out
  <2> QED BY <2>3, <2>4, <2>5, <2>6 DEF DeliveryInv
<1> QED BY <1>1, <1>2, <1>3, <1>4 DEF IInv

LEMMA TaskEnds ==
    ASSUME IInv, NEW t \in Tasks, Ends(t), UNCHANGED <<rec, stream, client, sent, got, over>>,
           clock' \in Nat, made' \in Nat, ran \subseteq ran', ran' \subseteq Keys
    PROVE  IInv'
  BY IdleType, TaskMoves DEF Ends

LEMMA TaskGoes ==
    ASSUME IInv, NEW t \in Tasks, NEW at \in Ats \ {"put"}, Goes(t, at),
           UNCHANGED <<rec, stream, client, clock, made, sent, got, ran, over>>
    PROVE  IInv'
<1> DEFINE v == [task[t] EXCEPT !.at = at]
<1>1. task[t] \in Task BY DEF IInv, Types
<1>2. v \in Task /\ v.at = at /\ v.ack = task[t].ack BY <1>1 DEF Task
<1>3. task' = [task EXCEPT ![t] = v] BY DEF Goes
<1>4. clock \in Nat /\ made \in Nat /\ ran \subseteq Keys BY DEF IInv, Types
<1> HIDE DEF v
<1> QED BY <1>2, <1>3, <1>4, TaskMoves

LEMMA TaskChanges ==
    ASSUME IInv, NEW t \in Tasks, NEW next \in State, Exact(next), AllRan(next, ran'),
           Derived(rec, next, task[t].ack),
           NEW then \in {"idle", "ack", "connect", "admit", "guest"}, Changes(t, next, then),
           UNCHANGED <<rec, stream, client, clock, sent, got, over>>,
           made' \in Nat, ran \subseteq ran', ran' \subseteq Keys
    PROVE  IInv'
<1> DEFINE v == [task[t] EXCEPT !.at = "put", !.base = rec, !.next = next, !.then = then]
<1>1. task[t] \in Task /\ rec \in State \cup {NoRec} /\ clock \in Nat BY DEF IInv, Types
<1>2. v \in Task BY <1>1 DEF Task, Ats
<1>3. v.base = rec /\ v.next = next /\ v.ack = task[t].ack BY <1>1 DEF Task
<1>4. task' = [task EXCEPT ![t] = v] BY DEF Changes
<1> HIDE DEF v
<1> QED BY <1>1, <1>2, <1>3, <1>4, TaskMoves

LEMMA StartStep ==
    ASSUME IInv, NEW t \in Tasks,
           GetStart(t) \/ Reap(t)
             \/ \E key \in Keys \cup {NoRec} : PostStart(t, key, 0) \/ PostStart(t, key, client.last)
    PROVE  IInv'
<1>0. /\ clock \in Nat /\ made \in Nat /\ ran \subseteq Keys /\ client.last \in Nat
      /\ rec \in State \cup {NoRec}
  BY DEF IInv, Types
<1>1. CASE GetStart(t)
  <2> DEFINE v == [Idle EXCEPT !.kind = "get", !.at = "open", !.ack = client.last, !.now = clock]
  <2>1. v \in Task /\ v.at = "open" /\ v.ack = client.last BY <1>0, IdleType DEF Task, Ats
  <2>2. task' = [task EXCEPT ![t] = v] BY <1>1 DEF GetStart
  <2> HIDE DEF v
  <2> QED BY <1>0, <1>1, <2>1, <2>2, TaskMoves DEF GetStart, bounds, history
<1>2. CASE Reap(t)
  <2> DEFINE v == [Idle EXCEPT !.kind = "reap", !.at = "delete", !.base = rec]
  <2>1. v \in Task /\ v.at = "delete" /\ v.ack = 0 BY <1>0, IdleType DEF Task, Ats
  <2>2. task' = [task EXCEPT ![t] = v] BY <1>2 DEF Reap
  <2> HIDE DEF v
  <2> QED BY <1>0, <1>2, <2>1, <2>2, TaskMoves DEF Reap, bounds, history
<1>3. ASSUME NEW key \in Keys \cup {NoRec}, NEW ack \in {0, client.last}, PostStart(t, key, ack)
      PROVE  IInv'
  <2> DEFINE v == [Idle EXCEPT !.kind = "post", !.at = "open", !.key = key, !.ack = ack,
                               !.now = clock]
  <2>1. v \in Task /\ v.at = "open" /\ v.ack = ack BY <1>0, IdleType DEF Task, Ats
  <2>2. task' = [task EXCEPT ![t] = v] BY <1>3 DEF PostStart
  <2> HIDE DEF v
  <2> QED BY <1>0, <1>3, <2>1, <2>2, TaskMoves DEF PostStart, history
<1> QED BY <1>1, <1>2, <1>3

LEMMA LoadStep ==
    ASSUME IInv, NEW t \in Tasks,
           OpenOrVerify(t) \/ AckCursor(t) \/ Admit(t) \/ Seen(t)
    PROVE  IInv'
<1>0. /\ clock \in Nat /\ made \in Nat /\ ran \subseteq Keys
      /\ task[t].now \in Nat /\ task[t].ack \in Nat
  BY DEF IInv, Types, Task
<1>1. rec # NoRec => rec \in State /\ Exact(rec) /\ AllRan(rec, ran)
  BY DEF IInv, Types, RecordInv
<1>2. UNCHANGED <<rec, stream, client, clock, made, sent, got, ran, over>>
  BY DEF OpenOrVerify, AckCursor, Admit, Seen, bounds, history
<1>3. ASSUME NEW at \in Ats \ {"put"}, Goes(t, at) PROVE IInv'
  BY <1>2, <1>3, TaskGoes
<1>4. CASE Ends(t) BY <1>0, <1>2, <1>4, TaskEnds
<1>5. CASE OpenOrVerify(t)
  <2>1. CASE Goes(t, "ack") BY <1>3, <2>1 DEF Ats
  <2>2. CASE rec = NoRec /\ Changes(t, New(task[t].now), "ack")
    <3> DEFINE next == New(task[t].now)
    <3>1. /\ next \in State /\ Exact(next) /\ AllRan(next, ran)
          /\ next.out = 0 /\ next.buf = {}
      BY <1>0, NewExact
    <3>2. Derived(rec, next, task[t].ack) BY <2>2, <3>1 DEF Derived
    <3>3. Changes(t, next, "ack") BY <2>2
    <3> HIDE DEF next
    <3> QED BY <1>0, <1>2, <3>1, <3>2, <3>3, TaskChanges
  <2> QED BY <1>5, <2>1, <2>2 DEF OpenOrVerify
<1>6. CASE AckCursor(t)
  <2> DEFINE then == IF task[t].kind = "get" THEN "connect" ELSE "admit"
             next == Ack(rec, task[t].ack, task[t].now)
  <2>1. then \in {"connect", "admit"} OBVIOUS
  <2>2. Goes(t, then) \/ (rec # NoRec /\ Changes(t, next, then)) BY <1>6 DEF AckCursor
  <2> HIDE DEF then
  <2>3. CASE Goes(t, then) BY <1>3, <2>1, <2>3 DEF Ats
  <2>4. CASE rec # NoRec /\ Changes(t, next, then)
    <3>1. /\ next \in State /\ Exact(next) /\ AllRan(next, ran)
          /\ Derived(rec, next, task[t].ack)
      BY <1>0, <1>1, <2>4, AckExact
    <3> HIDE DEF next
    <3> QED BY <1>0, <1>2, <2>1, <2>4, <3>1, TaskChanges
  <2> QED BY <2>2, <2>3, <2>4
<1>7. CASE Admit(t)
  <2>1. Ends(t) \/ Goes(t, "seen") BY <1>7 DEF Admit
  <2> QED BY <1>3, <1>4, <2>1 DEF Ats
<1>8. CASE Seen(t)
  <2>1. Ends(t) \/ Goes(t, "guest") BY <1>8 DEF Seen
  <2> QED BY <1>3, <1>4, <2>1 DEF Ats
<1> QED BY <1>5, <1>6, <1>7, <1>8

LEMMA GuestStep ==
    ASSUME IInv, NEW t \in Tasks,
           GuestSend(t) \/ GuestCheckpoint(t) \/ GuestClose(t) \/ GuestReturns(t) \/ GuestTraps(t)
    PROVE  IInv'
<1>0. /\ clock \in Nat /\ made \in Nat /\ ran \subseteq Keys
      /\ task[t].key \in Keys \cup {NoRec}
  BY DEF IInv, Types, Task
<1>1. rec # NoRec => rec \in State /\ Exact(rec) /\ AllRan(rec, ran)
  BY DEF IInv, Types, RecordInv
<1>2. UNCHANGED <<rec, stream, client, clock, sent, got, over>>
  BY DEF GuestSend, GuestCheckpoint, GuestClose, GuestReturns, GuestTraps, bounds, history
<1>3. ASSUME NEW next \in State, Exact(next), AllRan(next, ran), Derived(rec, next, task[t].ack),
             Changes(t, next, "guest"), made' \in Nat, ran' = ran
      PROVE  IInv'
  BY <1>0, <1>2, <1>3, TaskChanges
<1>4. CASE GuestSend(t)
  <2> DEFINE next == EnqueueOutbound(rec, made', clock)
  <2>1. rec # NoRec /\ CanEnqueue(rec) /\ made' \in Nat /\ ran' = ran
    BY <1>0, <1>4 DEF GuestSend, history
  <2>2. Changes(t, next, "guest") BY <1>4 DEF GuestSend
  <2>3. /\ next \in State /\ Exact(next) /\ AllRan(next, ran)
        /\ Derived(rec, next, task[t].ack)
    BY <1>0, <1>1, <2>1, EnqueueExact
  <2> HIDE DEF next
  <2> QED BY <1>3, <2>1, <2>2, <2>3
<1>5. CASE GuestCheckpoint(t)
  <2> DEFINE next == SetCheckpoint(rec, task[t].key, clock)
  <2>1. rec # NoRec /\ made' \in Nat /\ ran' = ran
    BY <1>0, <1>5 DEF GuestCheckpoint, history
  <2>2. Changes(t, next, "guest") BY <1>5 DEF GuestCheckpoint
  <2>3. /\ next \in State /\ Exact(next) /\ AllRan(next, ran)
        /\ Derived(rec, next, task[t].ack)
    BY <1>0, <1>1, <2>1, CheckpointExact
  <2> HIDE DEF next
  <2> QED BY <1>3, <2>1, <2>2, <2>3
<1>6. CASE GuestClose(t)
  <2> DEFINE next == Close(rec, clock)
  <2>1. rec # NoRec /\ made' \in Nat /\ ran' = ran
    BY <1>0, <1>6 DEF GuestClose, history
  <2>2. Changes(t, next, "guest") BY <1>6 DEF GuestClose
  <2>3. /\ next \in State /\ Exact(next) /\ AllRan(next, ran)
        /\ Derived(rec, next, task[t].ack)
    BY <1>0, <1>1, <2>1, CloseExact
  <2> HIDE DEF next
  <2> QED BY <1>3, <2>1, <2>2, <2>3
<1>7. CASE GuestReturns(t)
  <2>1. ran' = ran \cup ({task[t].key} \ {NoRec}) /\ made' = made
    BY <1>7 DEF GuestReturns, bounds
  <2>2. ran \subseteq ran' /\ ran' \subseteq Keys BY <1>0, <2>1
  <2>3. CASE Ends(t) BY <1>0, <1>2, <2>1, <2>2, <2>3, TaskEnds
  <2>4. CASE /\ rec # NoRec /\ task[t].key # NoRec
             /\ Changes(t, RecordInbound(rec, task[t].key, clock), "idle")
    <3> DEFINE next == RecordInbound(rec, task[t].key, clock)
    <3>1. task[t].key \in Keys /\ ran' = ran \cup {task[t].key} BY <1>0, <2>1, <2>4
    <3>2. /\ next \in State /\ Exact(next) /\ AllRan(next, ran \cup {task[t].key})
          /\ Derived(rec, next, task[t].ack)
      BY <1>0, <1>1, <2>4, <3>1, RecordExact
    <3>3. Changes(t, next, "idle") BY <2>4
    <3> HIDE DEF next
    <3>4. AllRan(next, ran') BY <3>1, <3>2 DEF AllRan
    <3> QED BY <1>0, <1>2, <2>1, <2>2, <3>2, <3>3, <3>4, TaskChanges
  <2> QED BY <1>7, <2>3, <2>4 DEF GuestReturns
<1>8. CASE GuestTraps(t)
  BY <1>0, <1>2, <1>8, TaskEnds DEF GuestTraps, bounds, history
<1> QED BY <1>4, <1>5, <1>6, <1>7, <1>8

-----------------------------------------------------------------------------
(* The put, the reaper's delete and the client's stream. *)

\* What follows a put on the record the task had loaded: every frame is kept, and
\* a cursor the client was given keeps its meaning.
LEMMA PutDelivers ==
    ASSUME IInv, NEW t \in Tasks, Put(t), over' = {}
    PROVE  DeliveryInv'
<1> DEFINE b == task[t].base
           n == task[t].next
<1>0. /\ over = {} /\ rec = b /\ rec' = n /\ ~n.closed
      /\ sent' = sent \cup {f \in n.buf : f.cursor = n.out /\ b # NoRec /\ f \notin b.buf}
      /\ UNCHANGED <<stream, client, got>>
  BY DEF Put
<1>1. DeliveryInv BY <1>0 DEF IInv
<1>2. /\ n \in State /\ Derived(b, n, task[t].ack) /\ n # NoRec
      /\ sent \subseteq Frame /\ task[t] \in Task
  BY NoRecAssumption DEF Put, IInv, RecordInv, Types
<1>3. \A u \in Tasks : task'[u].ack \in {0, task[u].ack}
  <2>1. task[t].then # "idle" =>
           [task[t] EXCEPT !.at = task[t].then, !.base = NoRec, !.next = NoRec,
                           !.then = "idle"].ack = task[t].ack
    BY <1>2 DEF Task
  <2> QED BY <2>1, IdleType DEF IInv, Types, Put
<1>4. n.out \in Nat /\ n.buf \subseteq Frame /\ task[t].ack \in Nat BY <1>2 DEF State, Task
<1>5. Out' = n.out BY <1>0, <1>2 DEF Out
<1>6. /\ Out \in Nat /\ Out <= n.out
      /\ \A f \in sent' \ sent : f \in n.buf /\ f.cursor = Out + 1
      /\ \A f \in sent : FrameKept(f) => f.frame \in got \/ f \in n.buf
  <2>1. CASE b = NoRec
    <3>1. n.out = 0 /\ n.buf = {} BY <1>2, <2>1, NoRecAssumption DEF Derived
    <3> QED BY <1>0, <2>1, <3>1 DEF Out, FrameKept
  <2>2. CASE b # NoRec
    <3>1. /\ b \in State /\ b.out <= n.out
          /\ \A f \in b.buf \ n.buf : f.cursor <= task[t].ack
          /\ \A f \in n.buf \ b.buf : f.cursor = n.out /\ f.cursor = b.out + 1
      BY <1>0, <1>2, <2>2 DEF Derived
    <3>2. Out = b.out /\ b.out \in Nat BY <1>0, <2>2, <3>1 DEF Out, State
    <3>3. \A f \in sent : f.cursor <= task[t].ack => f.frame \in got
      BY <1>1 DEF DeliveryInv, Given
    <3> QED BY <1>0, <2>2, <3>1, <3>2, <3>3 DEF FrameKept
  <2> QED BY <2>1, <2>2
<1> HIDE DEF b, n
<1>7. \A f \in sent' : f.cursor \in Nat BY <1>0, <1>2, <1>4 DEF Frame
<1>8. \A c \in Nat : Given(c) => c <= Out' /\ \A f \in sent' : f.cursor <= c => f.frame \in got
  BY <1>5, <1>6, <1>7, <1>4 DEF Given
<1>9. Given(client.last)'
  BY <1>0, <1>1, <1>8 DEF DeliveryInv, Given, IInv, Types
<1>10. \A u \in Tasks : Given(task[u].ack)'
  <2> SUFFICES ASSUME NEW u \in Tasks PROVE Given(task[u].ack)'
    OBVIOUS
  <2>1. Given(task'[u].ack) BY <1>1, <1>3, GivenZero DEF DeliveryInv
  <2>2. task'[u].ack \in Nat BY <1>3 DEF IInv, Types, Task
  <2> QED BY <1>0, <1>8, <2>1, <2>2 DEF Given
<1>11. Streamed'
  BY <1>0, <1>1, <1>4, <1>5, <1>6, <1>7 DEF DeliveryInv, Streamed, IInv, Types
<1>12. \A f \in sent' : FrameKept(f)'
  BY <1>0, <1>1, <1>2, <1>6 DEF DeliveryInv, FrameKept
<1> QED BY <1>9, <1>10, <1>11, <1>12 DEF DeliveryInv

LEMMA PutStep == ASSUME IInv, NEW t \in Tasks, Put(t) PROVE IInv'
<1> DEFINE n == task[t].next
           v == IF task[t].then = "idle" THEN Idle
                ELSE [task[t] EXCEPT !.at = task[t].then, !.base = NoRec, !.next = NoRec,
                                     !.then = "idle"]
<1>0. /\ n \in State /\ Exact(n) /\ AllRan(n, ran) /\ Derived(task[t].base, n, task[t].ack)
      /\ task[t] \in Task
  BY DEF Put, IInv, RecordInv, Types
<1>1. v \in Task /\ v.at # "put"
  <2>1. CASE task[t].then = "idle" BY <2>1, IdleType
  <2>2. CASE task[t].then # "idle" BY <1>0, <2>2 DEF Task, Ats
  <2> QED BY <2>1, <2>2
<1>2. task' = [task EXCEPT ![t] = v] /\ rec' = n BY DEF Put
<1> HIDE DEF v
<1>3. sent' \subseteq sent \cup {f \in n.buf : f.cursor = n.out} BY DEF Put
<1>4. UNCHANGED <<stream, client, clock, made, got, ran>> BY DEF Put, bounds
<1> HIDE DEF n
<1>5. n.buf \subseteq Frame BY <1>0 DEF State
<1>6. Types' BY <1>0, <1>1, <1>2, <1>3, <1>4, <1>5 DEF IInv, Types
<1>7. RecordInv'
  <2>1. \A u \in Tasks : task'[u].at = "put" => task'[u] = task[u]
    BY <1>1, <1>2 DEF IInv, Types
  <2>2. rec' # NoRec => Exact(rec') /\ AllRan(rec', ran') BY <1>0, <1>2, <1>4
  <2>3. ASSUME NEW u \in Tasks, task'[u].at = "put"
        PROVE  /\ task'[u].next \in State
               /\ Exact(task'[u].next) /\ AllRan(task'[u].next, ran')
               /\ Derived(task'[u].base, task'[u].next, task'[u].ack)
    <3>1. task'[u] = task[u] BY <2>1, <2>3
    <3> QED BY <1>4, <2>3, <3>1 DEF IInv, RecordInv
  <2> QED BY <2>2, <2>3 DEF RecordInv
<1>8. StreamInv'
  <2>1. \A f \in n.buf : f.cursor \in Nat /\ f.cursor > n.acked /\ n.acked \in Nat
    BY <1>0, <1>5 DEF Exact, Frame, State
  <2> QED BY <1>3, <1>4, <2>1 DEF IInv, StreamInv
<1> QED BY <1>6, <1>7, <1>8, PutDelivers DEF IInv

\* Steps of the stream and of its client leave the record and the tasks alone.
LEMMA StreamStep ==
    ASSUME IInv, UNCHANGED <<rec, task, clock, made, sent, ran, over>>,
           stream' \in [on : BOOLEAN, cursor : Nat, pending : SUBSET Frame, done : BOOLEAN],
           client' \in [last : Nat, over : BOOLEAN],
           \A f \in stream'.pending : f.cursor <= stream'.cursor,
           \A f, g \in stream'.pending : f.cursor = g.cursor => f = g,
           got \subseteq got',
           over = {} => Streamed' /\ Given(client.last)'
    PROVE  IInv'
<1>1. Types' BY DEF IInv, Types
<1>2. RecordInv' BY DEF IInv, RecordInv
<1>3. StreamInv' BY DEF IInv, StreamInv
<1>4. over' = {} => DeliveryInv'
  BY DEF IInv, DeliveryInv, Given, Out, FrameKept
<1> QED BY <1>1, <1>2, <1>3, <1>4 DEF IInv

LEMMA OffStep ==
    ASSUME IInv, stream' = Off, client' \in [last : Nat, over : BOOLEAN],
           client'.last = client.last,
           UNCHANGED <<rec, task, clock, made, sent, got, ran, over>>
    PROVE  IInv'
<1>1. Off \in [on : BOOLEAN, cursor : Nat, pending : SUBSET Frame, done : BOOLEAN]
  BY DEF Off
<1>2. Off.cursor = 0 /\ Off.pending = {} BY DEF Off
<1>3. over = {} => Streamed' /\ Given(client.last)'
  <2> SUFFICES ASSUME over = {} PROVE Streamed' /\ Given(client.last)'
    OBVIOUS
  <2>1. Given(0) /\ Given(client.last) BY GivenZero DEF IInv, DeliveryInv
  <2>2. Streamed' BY <1>2, <2>1 DEF Streamed, Given, Out
  <2>3. Given(client.last)' BY <2>1 DEF Given, Out
  <2> QED BY <2>2, <2>3
<1> QED BY <1>1, <1>2, <1>3, StreamStep

LEMMA ConnectStep == ASSUME IInv, NEW t \in Tasks, Connect(t) PROVE IInv'
<1> DEFINE v == [on |-> TRUE, cursor |-> task[t].ack, pending |-> {}, done |-> FALSE]
<1>0. /\ stream' = v /\ task' = [task EXCEPT ![t] = Idle] /\ task \in [Tasks -> Task]
      /\ UNCHANGED <<rec, client, clock, made, sent, got, ran, over>>
  BY DEF Connect, Ends, bounds, history, IInv, Types
<1>1. /\ v \in [on : BOOLEAN, cursor : Nat, pending : SUBSET Frame, done : BOOLEAN]
      /\ v.cursor = task[t].ack /\ v.pending = {}
  BY <1>0 DEF Task
<1> HIDE DEF v
<1>2. Types' BY <1>0, <1>1, IdleType DEF IInv, Types
<1>3. \A u \in Tasks : /\ task'[u].at = "put" => task'[u] = task[u]
                       /\ task'[u].ack \in {0, task[u].ack}
  BY <1>0, IdleType
<1>4. RecordInv'
  <2>1. ASSUME NEW u \in Tasks, task'[u].at = "put"
        PROVE  /\ task'[u].next \in State
               /\ Exact(task'[u].next) /\ AllRan(task'[u].next, ran')
               /\ Derived(task'[u].base, task'[u].next, task'[u].ack)
    <3>1. task'[u] = task[u] BY <1>3, <2>1
    <3> QED BY <1>0, <2>1, <3>1 DEF IInv, RecordInv
  <2> QED BY <1>0, <2>1 DEF IInv, RecordInv
<1>5. StreamInv' BY <1>0, <1>1 DEF IInv, StreamInv
<1>6. over' = {} => DeliveryInv'
  <2> SUFFICES ASSUME over = {} PROVE DeliveryInv'
    BY <1>0
  <2>1. DeliveryInv /\ Given(0) BY GivenZero DEF IInv
  <2>2. \A u \in Tasks : Given(task[u].ack)'
    <3> SUFFICES ASSUME NEW u \in Tasks PROVE Given(task[u].ack)'
      OBVIOUS
    <3>1. Given(task'[u].ack) BY <1>3, <2>1 DEF DeliveryInv
    <3> QED BY <1>0, <3>1 DEF Given, Out
  <2>3. Given(client.last)' /\ \A f \in sent' : FrameKept(f)'
    BY <1>0, <2>1 DEF DeliveryInv, Given, Out, FrameKept
  <2>4. Streamed' BY <1>0, <1>1, <2>1 DEF DeliveryInv, Given, Streamed, Out
  <2> QED BY <2>2, <2>3, <2>4 DEF DeliveryInv
<1> QED BY <1>2, <1>4, <1>5, <1>6 DEF IInv

LEMMA PollStep == ASSUME IInv, Poll PROVE IInv'
<1>0. UNCHANGED <<rec, task, client, clock, made, sent, got, ran, over>>
  BY DEF Poll, bounds, history
<1>1. client \in [last : Nat, over : BOOLEAN] BY DEF IInv, Types
<1>2. CASE rec = NoRec
  <2>1. stream' = Off BY <1>2 DEF Poll
  <2> QED BY <1>0, <1>1, <2>1, OffStep
<1>3. CASE rec # NoRec
  <2> DEFINE frames == FramesSince(rec, stream.cursor)
             cur == IF frames = {} THEN stream.cursor
                    ELSE CHOOSE c \in {f.cursor : f \in frames} : \A f \in frames : f.cursor <= c
             fin == rec.closed \/ (frames = {} /\ Expired(rec))
  <2>1. /\ stream' = [stream EXCEPT !.pending = frames, !.cursor = cur, !.done = fin]
        /\ stream.pending = {}
    BY <1>3 DEF Poll
  <2>2. /\ rec \in State /\ Exact(rec) /\ stream.cursor \in Nat
        /\ stream \in [on : BOOLEAN, cursor : Nat, pending : SUBSET Frame, done : BOOLEAN]
    BY <1>3 DEF IInv, Types, RecordInv
  <2>3. frames # {} => cur = rec.out BY <2>2, LastFrame
  <2>4. /\ frames \subseteq rec.buf /\ rec.buf \subseteq Frame /\ rec.out \in Nat
        /\ \A f \in rec.buf : f \in frames \/ f.cursor <= stream.cursor
    BY <2>2 DEF FramesSince, State, Frame
  <2>5. frames = {} => cur = stream.cursor OBVIOUS
  <2>6. fin \in BOOLEAN OBVIOUS
  <2> HIDE DEF frames, cur, fin
  <2>7. cur \in Nat BY <2>2, <2>3, <2>4, <2>5
  <2>8. /\ stream' \in [on : BOOLEAN, cursor : Nat, pending : SUBSET Frame, done : BOOLEAN]
        /\ stream'.pending = frames /\ stream'.cursor = cur
    BY <2>1, <2>2, <2>4, <2>6, <2>7
  <2>9. \A f \in frames : f.cursor <= cur BY <2>2, <2>3, <2>4 DEF Exact
  <2>10. \A f, g \in frames : f.cursor = g.cursor => f = g BY <2>2, <2>4 DEF Exact
  <2>11. over = {} => Streamed' /\ Given(client.last)'
    <3> SUFFICES ASSUME over = {} PROVE Streamed' /\ Given(client.last)'
      OBVIOUS
    <3>1. DeliveryInv BY DEF IInv
    <3>2. Given(client.last)' BY <1>0, <3>1 DEF DeliveryInv, Given, Out
    <3>3. \A f \in sent : f.cursor <= stream.cursor => f.frame \in got
      BY <2>1, <3>1 DEF DeliveryInv, Streamed
    <3>4. \A f \in sent : f.frame \in got \/ f \in frames
      BY <1>3, <2>4, <3>1, <3>3 DEF DeliveryInv, FrameKept
    <3>5. cur <= Out'
      BY <1>0, <1>3, <2>2, <2>3, <2>4, <2>5, <3>1 DEF Out, DeliveryInv, Streamed
    <3> QED BY <1>0, <2>8, <3>2, <3>4, <3>5 DEF Streamed
  <2> QED BY <1>0, <1>1, <2>8, <2>9, <2>10, <2>11, StreamStep
<1> QED BY <1>2, <1>3

LEMMA ReceiveStep == ASSUME IInv, Receive PROVE IInv'
<1>0. UNCHANGED <<rec, task, clock, made, sent, ran, over>> BY DEF Receive, bounds
<1>1. /\ client \in [last : Nat, over : BOOLEAN]
      /\ stream \in [on : BOOLEAN, cursor : Nat, pending : SUBSET Frame, done : BOOLEAN]
  BY DEF IInv, Types
<1>2. CASE /\ stream' = Off /\ client' = [client EXCEPT !.over = TRUE] /\ UNCHANGED got
  <2>1. client' \in [last : Nat, over : BOOLEAN] /\ client'.last = client.last
    BY <1>1, <1>2
  <2> QED BY <1>0, <1>2, <2>1, OffStep
<1>3. ASSUME NEW f \in stream.pending, \A g \in stream.pending : f.cursor <= g.cursor,
             stream' = [stream EXCEPT !.pending = @ \ {f}],
             client' = [client EXCEPT !.last = f.cursor], got' = got \cup {f.frame}
      PROVE  IInv'
  <2>1. f \in Frame /\ f.cursor \in Nat BY <1>1 DEF Frame
  <2>2. client' \in [last : Nat, over : BOOLEAN] /\ client'.last = f.cursor
    BY <1>1, <1>3, <2>1
  <2>3. /\ stream' \in [on : BOOLEAN, cursor : Nat, pending : SUBSET Frame, done : BOOLEAN]
        /\ stream'.pending = stream.pending \ {f} /\ stream'.cursor = stream.cursor
    BY <1>1, <1>3
  <2>4. /\ \A g \in stream'.pending : g.cursor <= stream'.cursor
        /\ \A g, h \in stream'.pending : g.cursor = h.cursor => g = h
        /\ f.cursor <= stream.cursor
    BY <2>3 DEF IInv, StreamInv
  <2>5. over = {} => Streamed' /\ Given(client.last)'
    <3> SUFFICES ASSUME over = {} PROVE Streamed' /\ Given(client.last)'
      OBVIOUS
    <3>1. Streamed BY DEF IInv, DeliveryInv
    <3>2. Out \in Nat /\ Out' = Out /\ stream.cursor \in Nat
      BY <1>0, <1>1 DEF IInv, Types, Out, State
    <3>3. Streamed' BY <1>0, <1>3, <2>3, <3>1, <3>2 DEF Streamed
    <3>4. \A g \in sent : g.cursor <= f.cursor => g.frame \in got'
      <4> SUFFICES ASSUME NEW g \in sent, g.cursor <= f.cursor PROVE g.frame \in got'
        OBVIOUS
      <4>1. g.cursor \in Nat BY DEF IInv, Types, Frame
      <4>2. g.frame \in got \/ g \in stream.pending
        BY <1>1, <2>1, <2>4, <3>1, <3>2, <4>1 DEF Streamed
      <4>3. CASE g \in stream.pending
        <5>1. f.cursor = g.cursor BY <1>3, <2>1, <4>1, <4>3
        <5>2. g = f BY <4>3, <5>1 DEF IInv, StreamInv
        <5> QED BY <1>3, <5>2
      <4> QED BY <1>3, <4>2, <4>3
    <3>5. f.cursor <= Out' BY <2>1, <2>4, <3>1, <3>2 DEF Streamed
    <3> QED BY <1>0, <2>2, <3>3, <3>4, <3>5 DEF Given
  <2> QED BY <1>0, <1>3, <2>2, <2>3, <2>4, <2>5, StreamStep
<1> QED BY <1>2, <1>3 DEF Receive

LEMMA ReapDeleteStep == ASSUME IInv, NEW t \in Tasks, ReapDelete(t) PROVE IInv'
<1>0. /\ rec' = NoRec /\ task' = [task EXCEPT ![t] = Idle] /\ over' # {}
      /\ UNCHANGED <<stream, client, clock, made, sent, got, ran>>
      /\ task \in [Tasks -> Task]
  BY DEF ReapDelete, Ends, bounds, IInv, Types
<1>1. Types' BY <1>0, IdleType DEF IInv, Types
<1>2. RecordInv'
  <2>1. ASSUME NEW u \in Tasks, task'[u].at = "put"
        PROVE  /\ task'[u].next \in State
               /\ Exact(task'[u].next) /\ AllRan(task'[u].next, ran')
               /\ Derived(task'[u].base, task'[u].next, task'[u].ack)
    <3>1. task'[u] = task[u] BY <1>0, <2>1, IdleType
    <3> QED BY <1>0, <2>1, <3>1 DEF IInv, RecordInv
  <2> QED BY <1>0, <2>1 DEF RecordInv
<1>3. StreamInv' BY <1>0 DEF IInv, StreamInv
<1> QED BY <1>0, <1>1, <1>2, <1>3 DEF IInv

-----------------------------------------------------------------------------
(* The theorems. *)

LEMMA InitInv == Init => IInv
<1> SUFFICES ASSUME Init PROVE IInv
  OBVIOUS
<1>1. Types BY IdleType DEF Init, Types
<1>2. RecordInv BY IdleType DEF Init, RecordInv
<1>3. StreamInv BY DEF Init, StreamInv
<1>4. DeliveryInv BY IdleType DEF Init, DeliveryInv, Given, Streamed, Out
<1> QED BY <1>1, <1>2, <1>3, <1>4 DEF IInv

LEMMA StepInv == IInv /\ [Next]_vars => IInv'
<1> SUFFICES ASSUME IInv, [Next]_vars PROVE IInv'
  OBVIOUS
<1>0. clock \in Nat /\ made \in Nat /\ ran \subseteq Keys /\ client \in [last : Nat, over : BOOLEAN]
  BY DEF IInv, Types
<1>1. ASSUME NEW t \in Tasks, Requests(t) PROVE IInv'
  BY <1>1, StartStep, ConnectStep, LoadStep, PutStep, GuestStep DEF Requests
<1>2. ASSUME NEW t \in Tasks, Reap(t) \/ ReapDelete(t) PROVE IInv'
  BY <1>2, StartStep, ReapDeleteStep
<1>3. ASSUME NEW t \in Tasks, Cancel(t) PROVE IInv'
  BY <1>0, <1>3, TaskEnds DEF Cancel, history
<1>4. CASE Poll BY <1>4, PollStep
<1>5. CASE Receive BY <1>5, ReceiveStep
<1>6. CASE Drop BY <1>0, <1>6, OffStep DEF Drop, history
<1>7. CASE Tick
  <2>1. clock' \in Nat /\ UNCHANGED <<rec, task, stream, client, made, sent, got, ran, over>>
    BY <1>0, <1>7 DEF Tick, history
  <2> QED BY <2>1 DEF IInv, Types, RecordInv, StreamInv, DeliveryInv, Given, Streamed, Out, FrameKept
<1>8. CASE UNCHANGED vars
  BY <1>8 DEF vars, IInv, Types, RecordInv, StreamInv, DeliveryInv, Given, Streamed, Out, FrameKept
<1> QED BY <1>1, <1>2, <1>3, <1>4, <1>5, <1>6, <1>7, <1>8 DEF Next

LEMMA Invariance == Spec => []IInv
  BY InitInv, StepInv, PTL DEF Spec

\* The record, the copies requests hold of it and the frames on their way to the
\* client have their types.
THEOREM TypeCorrect == Spec => []TypeOK
<1>1. IInv => TypeOK BY DEF IInv, Types, TypeOK, Task
<1> QED BY <1>1, Invariance, PTL

\* However requests, reapers and nodes overlap, the record of an open session holds
\* exactly one frame for each cursor after the ack, within max_buffered_outbound,
\* and its dedup window is within its limit: no lost update can leave a gap.
THEOREM RecordExactAlways == Spec => []BufferExact
<1>1. IInv => BufferExact
  <2> SUFFICES ASSUME IInv, rec # NoRec
               PROVE  /\ rec.acked <= rec.out
                      /\ {f.cursor : f \in rec.buf} =
                            IF rec.closed THEN {} ELSE (rec.acked + 1) .. rec.out
                      /\ Cardinality(rec.buf) = Cardinality({f.cursor : f \in rec.buf})
                      /\ Cardinality(rec.buf) <= MaxBuffered /\ Len(rec.seen) <= DedupWindow
    BY DEF BufferExact
  <2>1. rec \in State /\ Exact(rec) BY DEF IInv, Types, RecordInv
  <2>2. /\ rec.out \in Nat /\ rec.acked \in Nat /\ rec.closed \in BOOLEAN
        /\ \A f \in rec.buf : f.cursor \in Nat
    BY <2>1 DEF State, Frame
  <2>3. {f.cursor : f \in rec.buf} = IF rec.closed THEN {} ELSE (rec.acked + 1) .. rec.out
    BY <2>1, <2>2 DEF Exact
  <2>4. Cardinality(rec.buf) = Cardinality({f.cursor : f \in rec.buf})
    <3> DEFINE S == {f.cursor : f \in rec.buf}
               g == [f \in rec.buf |-> f.cursor]
    <3>1. g \in Bijection(rec.buf, S)
      BY <2>1 DEF Exact, Bijection, Injection, Surjection, IsInjective
    <3>2. ExistsBijection(rec.buf, S) BY <3>1 DEF ExistsBijection
    <3>3. IsFiniteSet(rec.buf) BY <2>1 DEF Exact
    <3> HIDE DEF S
    <3>4. Cardinality(S) = Cardinality(rec.buf) BY <3>2, <3>3, FS_Bijection
    <3> QED BY <3>4 DEF S
  <2> QED BY <2>1, <2>3, <2>4 DEF Exact
<1> QED BY <1>1, Invariance, PTL

\* A frame is answered as a duplicate only when a re-entry with its key succeeded:
\* dispatch_session_post never swallows a frame whose guest trapped.
THEOREM DuplicatesRan == Spec => []DedupRan
<1>1. IInv => DedupRan BY DEF IInv, RecordInv, AllRan, DedupRan
<1> QED BY <1>1, Invariance, PTL

\* A frame is lost in two ways only: a put on a record that changed since it was
\* loaded, and the end of the session.  Cancelled requests, broken connections and
\* resumed streams lose none.
THEOREM LostOnlyByClobber == Spec => []KeptUnlessClobbered
<1>1. IInv => KeptUnlessClobbered BY DEF IInv, DeliveryInv, KeptUnlessClobbered
<1> QED BY <1>1, Invariance, PTL
=============================================================================
