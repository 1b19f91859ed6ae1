------------------------------ MODULE Session ------------------------------
(***************************************************************************)
(* One resumable session: the delivery state of boatramp-core/src/session.rs,*)
(* its store boatramp-server/src/session_store.rs, and the two requests of   *)
(* session_serve.rs that drive it, the GET that streams outbound frames and  *)
(* the POST that runs the guest on an inbound one, with the client that      *)
(* sends them and the scheduler's reaper.                                    *)
(*                                                                           *)
(* Every store call that changes the record loads it, changes the copy and   *)
(* puts the copy back; nothing keeps two such calls apart, on one node or    *)
(* two.  A request is therefore a sequence of loads and puts, and the steps  *)
(* of other requests fall between them.                                      *)
(*                                                                           *)
(* The principal of the session is that of every caller and its route and    *)
(* frame sizes are within the limits: those refusals change nothing.         *)
(***************************************************************************)
EXTENDS Integers, FiniteSets, Sequences

CONSTANTS
    Tasks,        \* requests and reaper passes under way at the same time
    Keys,         \* idempotency keys of the client's frames
    GuestCalls,   \* what the guest may call: "send", "checkpoint", "close"
    NoRec,        \* no such session
    MaxBuffered,  \* max_buffered_outbound
    DedupWindow, IdleTtl,
    MaxCalls,     \* bound: calls the guest makes
    MaxPosts,     \* bound: POSTs the client sends
    MaxDrops,     \* bound: connections that break
    MaxClock      \* bound: the clock stops here

ASSUME SessionAssumption ==
    /\ GuestCalls \subseteq {"send", "checkpoint", "close"}
    /\ {MaxBuffered, DedupWindow, IdleTtl, MaxCalls, MaxPosts, MaxDrops, MaxClock} \subseteq Nat

VARIABLES
    rec,      \* the record in the KV
    task,     \* what each task is doing
    stream,   \* the SSE producer of the client's connection
    client,   \* Last-Event-ID, and whether it was told the session is over
    clock, made, posts, drops,
    \* history, read by the properties only
    sent,     \* frames whose send the guest saw succeed
    got,      \* frames the client received
    ran,      \* keys whose re-entry succeeded
    over      \* "closed", "reaped", "clobbered": what has happened so far

bounds == <<clock, made, posts, drops>>
history == <<sent, got, ran, over>>
vars == <<rec, task, stream, client, clock, made, posts, drops, sent, got, ran, over>>

Frame == [cursor : Nat, frame : Nat]
State == [out : Nat, acked : Nat, buf : SUBSET Frame, seen : Seq(Keys),
          checkpoint : Keys \cup {NoRec}, closed : BOOLEAN, active : Nat]

\* A missing record is told apart from every record (Option::None).
ASSUME NoRecAssumption == NoRec \notin State

\* A task: the step it is at, the frame's key, the ack the client gave, the time
\* the request came in, the record it loaded and the one it is about to put, and
\* the step after the put.
Idle == [kind |-> "none", at |-> "idle", key |-> NoRec, ack |-> 0, now |-> 0,
         base |-> NoRec, next |-> NoRec, then |-> "idle"]

-----------------------------------------------------------------------------
(* SessionState. *)

\* Mutant: a session that is opened already idle.
NewIdle(now) == [out |-> 0, acked |-> 0, buf |-> {}, seen |-> <<>>,
                 checkpoint |-> NoRec, closed |-> FALSE, active |-> now - IdleTtl - 1]

New(now) == [out |-> 0, acked |-> 0, buf |-> {}, seen |-> <<>>,
             checkpoint |-> NoRec, closed |-> FALSE, active |-> now]

CanEnqueue(st) == ~st.closed /\ Cardinality(st.buf) < MaxBuffered

\* Mutant: the cursor of the frame is taken before it is advanced.
EnqueueOutboundEarly(st, frame, now) ==
    [st EXCEPT !.out = @ + 1, !.buf = @ \cup {[cursor |-> st.out, frame |-> frame]},
               !.active = now]

EnqueueOutbound(st, frame, now) ==
    [st EXCEPT !.out = @ + 1, !.buf = @ \cup {[cursor |-> st.out + 1, frame |-> frame]},
               !.active = now]

Ack(st, cursor, now) ==
    LET target == IF cursor < st.out THEN cursor ELSE st.out
    IN  IF target <= st.acked THEN st
        ELSE [st EXCEPT !.acked = target, !.active = now,
                        !.buf = {f \in @ : f.cursor > target}]

ContainsInbound(st, key) == \E i \in DOMAIN st.seen : st.seen[i] = key

RecordInbound(st, key, now) ==
    LET keys == Append(st.seen, key)
    IN  IF ContainsInbound(st, key) THEN st
        ELSE [st EXCEPT !.active = now,
                        !.seen = IF Len(keys) > DedupWindow THEN Tail(keys) ELSE keys]

SetCheckpoint(st, key, now) == [st EXCEPT !.checkpoint = key, !.active = now]

Close(st, now) ==
    IF st.closed THEN st
    ELSE [st EXCEPT !.closed = TRUE, !.buf = {}, !.seen = <<>>, !.active = now]

Expired(st) == st.closed \/ clock - st.active > IdleTtl

FramesSince(st, after) == {f \in st.buf : f.cursor > after}

-----------------------------------------------------------------------------
(* SessionStore. *)

Init ==
    /\ rec = NoRec
    /\ task = [t \in Tasks |-> Idle]
    /\ stream = [on |-> FALSE, cursor |-> 0, pending |-> {}, done |-> FALSE]
    /\ client = [last |-> 0, over |-> FALSE]
    /\ clock = 0 /\ made = 0 /\ posts = 0 /\ drops = 0
    /\ sent = {} /\ got = {} /\ ran = {} /\ over = {}

Goes(t, at) == task' = [task EXCEPT ![t] = [@ EXCEPT !.at = at]]
Ends(t) == task' = [task EXCEPT ![t] = Idle]

\* The task has loaded the record and will put `next` in its place.
Changes(t, next, then) ==
    task' = [task EXCEPT ![t] = [@ EXCEPT !.at = "put", !.base = rec, !.next = next, !.then = then]]

\* The put of a load-change-put: whatever was written since the load is gone.
Put(t) ==
    /\ task[t].at = "put"
    /\ rec' = task[t].next
    /\ task' = [task EXCEPT ![t] = IF task[t].then = "idle" THEN Idle
                                   ELSE [@ EXCEPT !.at = task[t].then, !.base = NoRec,
                                                  !.next = NoRec, !.then = "idle"]]
    /\ sent' = sent \cup {f \in rec'.buf : f.cursor = rec'.out /\ task[t].base # NoRec
                                            /\ f \notin task[t].base.buf}
    /\ over' = over \cup (IF rec # task[t].base THEN {"clobbered"} ELSE {})
                    \cup (IF rec'.closed THEN {"closed"} ELSE {})
    /\ UNCHANGED <<stream, client, bounds, got, ran>>

\* open_or_verify: the first half of every request.
OpenOrVerify(t) ==
    /\ task[t].at = "open"
    /\ \/ rec # NoRec /\ Goes(t, "ack")
       \/ rec = NoRec /\ Changes(t, New(task[t].now), "ack")
    /\ UNCHANGED <<rec, stream, client, bounds, history>>

\* ack: a GET always, a POST when the client gave a cursor.  A record that was
\* reaped meanwhile is an error the request ignores.
AckCursor(t) ==
    /\ task[t].at = "ack"
    /\ LET then == IF task[t].kind = "get" THEN "connect" ELSE "admit"
       IN  IF rec = NoRec \/ (task[t].kind = "post" /\ task[t].ack = 0)
           THEN Goes(t, then)
           ELSE Changes(t, Ack(rec, task[t].ack, task[t].now), then)
    /\ UNCHANGED <<rec, stream, client, bounds, history>>

-----------------------------------------------------------------------------
(* serve_session_open: the GET, and its client. *)

Connected == stream.on \/ \E t \in Tasks : task[t].kind = "get"

GetStart(t) ==
    /\ task[t].at = "idle" /\ ~Connected /\ ~client.over
    /\ task' = [task EXCEPT ![t] = [Idle EXCEPT !.kind = "get", !.at = "open",
                                                !.ack = client.last, !.now = clock]]
    /\ UNCHANGED <<rec, stream, client, bounds, history>>

Connect(t) ==
    /\ task[t].at = "connect"
    /\ stream' = [on |-> TRUE, cursor |-> task[t].ack, pending |-> {}, done |-> FALSE]
    /\ Ends(t)
    /\ UNCHANGED <<rec, client, bounds, history>>

Off == [on |-> FALSE, cursor |-> 0, pending |-> {}, done |-> FALSE]

\* Mutant: a poll goes on from the last cursor handed out, not from the frames.
PollSkips ==
    /\ stream.on /\ stream.pending = {} /\ ~stream.done /\ rec # NoRec
    /\ stream' = [stream EXCEPT !.pending = FramesSince(rec, stream.cursor + 1),
                                !.cursor = rec.out, !.done = Expired(rec)]
    /\ UNCHANGED <<rec, task, client, bounds, history>>

\* One poll of the producer, and the end of the stream of a reaped session.
Poll ==
    /\ stream.on /\ stream.pending = {} /\ ~stream.done
    /\ LET frames == FramesSince(rec, stream.cursor)
       IN  IF rec = NoRec THEN stream' = Off
           ELSE stream' = [stream EXCEPT
                  !.pending = frames,
                  !.cursor = IF frames = {} THEN @
                             ELSE CHOOSE c \in {f.cursor : f \in frames} :
                                      \A f \in frames : f.cursor <= c,
                  !.done = rec.closed \/ (frames = {} /\ Expired(rec))]
    /\ UNCHANGED <<rec, task, client, bounds, history>>

\* The client receives the next event: a frame, or the final close.
Receive ==
    /\ stream.on
    /\ \/ \E f \in stream.pending :
            /\ \A g \in stream.pending : f.cursor <= g.cursor
            /\ stream' = [stream EXCEPT !.pending = @ \ {f}]
            /\ client' = [client EXCEPT !.last = f.cursor]
            /\ got' = got \cup {f.frame}
       \/ /\ stream.pending = {} /\ stream.done
          /\ stream' = Off /\ client' = [client EXCEPT !.over = TRUE]
          /\ UNCHANGED got
    /\ UNCHANGED <<rec, task, bounds, sent, ran, over>>

\* The connection breaks: events not yet received are gone with it.
Drop ==
    /\ stream.on /\ drops < MaxDrops
    /\ drops' = drops + 1 /\ stream' = Off
    /\ UNCHANGED <<rec, task, client, clock, made, posts, history>>

-----------------------------------------------------------------------------
(* dispatch_session_post: the POST. *)

\* The client sends a frame, new or again, with or without an idempotency key
\* (NoRec) and its Last-Event-ID.
PostStart(t, key, ack) ==
    /\ task[t].at = "idle" /\ posts < MaxPosts /\ ~client.over
    /\ posts' = posts + 1
    /\ task' = [task EXCEPT ![t] = [Idle EXCEPT !.kind = "post", !.at = "open", !.key = key,
                                                !.ack = ack, !.now = clock]]
    /\ UNCHANGED <<rec, stream, client, clock, made, drops, history>>

\* is_closed: a closed or reaped session refuses the frame ...
Admit(t) ==
    /\ task[t].at = "admit"
    /\ LET refused == IF rec = NoRec THEN TRUE ELSE rec.closed
       IN  IF refused THEN Ends(t) ELSE Goes(t, "seen")
    /\ UNCHANGED <<rec, stream, client, bounds, history>>

\* Mutant: the key is committed before the guest runs.
SeenRecording(t) ==
    /\ task[t].at = "seen" /\ rec # NoRec
    /\ IF ContainsInbound(rec, task[t].key) THEN Ends(t)
       ELSE Changes(t, RecordInbound(rec, task[t].key, clock), "guest")
    /\ UNCHANGED <<rec, stream, client, bounds, history>>

\* ... and, in a second read of the record, seen: a frame whose key is in the
\* window is answered without running the guest.  Without a key it always runs.
Seen(t) ==
    /\ task[t].at = "seen"
    /\ LET refused == IF rec = NoRec THEN TRUE ELSE ContainsInbound(rec, task[t].key)
       IN  IF refused /\ task[t].key # NoRec THEN Ends(t) ELSE Goes(t, "guest")
    /\ UNCHANGED <<rec, stream, client, bounds, history>>

\* The guest calls the session controller; a refused call changes nothing.
GuestSend(t) ==
    /\ task[t].at = "guest" /\ "send" \in GuestCalls /\ made < MaxCalls
    /\ rec # NoRec /\ CanEnqueue(rec)
    /\ made' = made + 1
    /\ Changes(t, EnqueueOutbound(rec, made', clock), "guest")
    /\ UNCHANGED <<rec, stream, client, clock, posts, drops, history>>

GuestCheckpoint(t) ==
    /\ task[t].at = "guest" /\ "checkpoint" \in GuestCalls /\ made < MaxCalls
    /\ rec # NoRec
    /\ made' = made + 1
    /\ Changes(t, SetCheckpoint(rec, task[t].key, clock), "guest")
    /\ UNCHANGED <<rec, stream, client, clock, posts, drops, history>>

GuestClose(t) ==
    /\ task[t].at = "guest" /\ "close" \in GuestCalls /\ made < MaxCalls
    /\ rec # NoRec
    /\ made' = made + 1
    /\ Changes(t, Close(rec, clock), "guest")
    /\ UNCHANGED <<rec, stream, client, clock, posts, drops, history>>

\* The re-entry succeeded: only now is its key committed, unless the session is
\* closed or gone.
GuestReturns(t) ==
    /\ task[t].at = "guest"
    /\ ran' = ran \cup ({task[t].key} \ {NoRec})
    /\ LET refused == IF rec = NoRec THEN TRUE ELSE rec.closed
       IN  IF refused \/ task[t].key = NoRec THEN Ends(t)
           ELSE Changes(t, RecordInbound(rec, task[t].key, clock), "idle")
    /\ UNCHANGED <<rec, stream, client, bounds, sent, got, over>>

\* The guest traps.  What it sent is stored and its frame may come again.
GuestTraps(t) ==
    /\ task[t].at = "guest" /\ Ends(t)
    /\ UNCHANGED <<rec, stream, client, bounds, history>>

-----------------------------------------------------------------------------
(* reap_expired, for this session. *)

Reap(t) ==
    /\ task[t].at = "idle" /\ rec # NoRec /\ Expired(rec)
    /\ task' = [task EXCEPT ![t] = [Idle EXCEPT !.kind = "reap", !.at = "delete", !.base = rec]]
    /\ UNCHANGED <<rec, stream, client, bounds, history>>

ReapDelete(t) ==
    /\ task[t].at = "delete"
    /\ rec' = NoRec
    /\ Ends(t)
    /\ over' = over \cup {"reaped"}
    /\ UNCHANGED <<stream, client, bounds, sent, got, ran>>

\* The node of a request dies, or its client goes away.
Cancel(t) ==
    /\ task[t].at # "idle" /\ drops < MaxDrops
    /\ drops' = drops + 1 /\ Ends(t)
    /\ UNCHANGED <<rec, stream, client, clock, made, posts, history>>

Tick ==
    /\ clock < MaxClock /\ clock' = clock + 1
    /\ UNCHANGED <<rec, task, stream, client, made, posts, drops, history>>

-----------------------------------------------------------------------------
Requests(t) ==
    \/ GetStart(t) \/ Connect(t) \/ OpenOrVerify(t) \/ AckCursor(t) \/ Put(t)
    \/ \E key \in Keys \cup {NoRec} : PostStart(t, key, 0) \/ PostStart(t, key, client.last)
    \/ Admit(t) \/ Seen(t) \/ GuestSend(t) \/ GuestCheckpoint(t) \/ GuestClose(t)
    \/ GuestReturns(t) \/ GuestTraps(t)

Next ==
    \/ \E t \in Tasks : Requests(t) \/ Reap(t) \/ ReapDelete(t) \/ Cancel(t)
    \/ Poll \/ Receive \/ Drop \/ Tick

Spec == Init /\ [][Next]_vars

-----------------------------------------------------------------------------
TypeOK ==
    /\ rec = NoRec \/ rec \in State
    /\ \A t \in Tasks : \A r \in {task[t].base, task[t].next} : r = NoRec \/ r \in State
    /\ stream.pending \subseteq Frame
    /\ sent \subseteq Frame /\ ran \subseteq Keys

\* Whatever requests overlap, the stored record is one the delivery model knows:
\* the buffer of an open session holds one frame for each cursor after the ack, so
\* that a client resumes without a gap, and it and the dedup window keep within
\* their limits (SessionState, enqueue_outbound, ack, close).
BufferExact ==
    rec # NoRec =>
        /\ rec.acked <= rec.out
        /\ {f.cursor : f \in rec.buf} = IF rec.closed THEN {} ELSE (rec.acked + 1) .. rec.out
        /\ Cardinality(rec.buf) = Cardinality({f.cursor : f \in rec.buf})
        /\ Cardinality(rec.buf) <= MaxBuffered /\ Len(rec.seen) <= DedupWindow

\* A duplicate is only ever dropped for a frame whose re-entry succeeded: a guest
\* that trapped is run again (dispatch_session_post commits the key last).
DedupRan == rec # NoRec => \A i \in DOMAIN rec.seen : rec.seen[i] \in ran

\* A frame the guest sent is with the client or still buffered for it.
FrameKept(f) == f.frame \in got \/ (rec # NoRec /\ f \in rec.buf)

\* As long as no put fell on a record changed since its load and the session was
\* neither closed nor reaped, no frame is lost, however requests, connections and
\* nodes come and go.
KeptUnlessClobbered == over = {} => \A f \in sent : FrameKept(f)

\* What the comments of SESSION_POLL_INTERVAL and of SessionError promise of every
\* open session: a frame sent stays buffered until it is acked.
FramesNeverLost == over \cap {"closed", "reaped"} = {} => \A f \in sent : FrameKept(f)
=============================================================================
