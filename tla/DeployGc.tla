------------------------------ MODULE DeployGc ------------------------------
(***************************************************************************)
(* Deployments and their garbage collector: DeployStore of                  *)
(* boatramp-core/src/deploy.rs, as the admin API of boatramp-server calls   *)
(* it.                                                                      *)
(*                                                                          *)
(* A deployment is a manifest that names blobs.  A client stores the        *)
(* manifest, is told which blobs are missing, uploads them, and then points *)
(* a site or an alias at the deployment.  The collector reads the pointers, *)
(* then the manifests, then the blobs, and deletes what it did not find     *)
(* referenced.  Neither waits for the other: every read or write of a key   *)
(* or a blob is a step of its own, but the collector reads all histories,   *)
(* all sites' pointers and all aliases in one step each.                    *)
(*                                                                          *)
(* The module is about one node: domain_claim_lock is process-local, and    *)
(* every read sees the last write.                                          *)
(*                                                                          *)
(* Functions, whose components share the blob store, and the config bodies  *)
(* are left out.                                                            *)
(***************************************************************************)
EXTENDS Integers, FiniteSets, Sequences

CONSTANTS
    Deployments,  \* ids of manifests
    Blobs,
    Files,        \* the blobs each manifest names
    Sites, Aliases, \* pointers: one `current/` per site, and named aliases
    SiteOf,       \* the site of each alias
    None,         \* a pointer or a record that is absent
    Options,      \* GcOptions of the passes: [grace, keep, age]
    MaxHistory,   \* MAX_HISTORY
    Clients,      \* requests that can be under way at the same time
    MaxCalls,     \* bound: requests
    MaxPasses,    \* bound: passes of the collector
    MaxClock      \* bound: the clock stops here

Roots == Sites \cup Aliases

ASSUME DeployGcAssumption ==
    /\ Files \in [Deployments -> SUBSET Blobs]
    /\ Sites \cap Aliases = {} /\ SiteOf \in [Aliases -> Sites]
    /\ None \notin Deployments /\ None \notin Nat
    /\ Options \subseteq [grace : Nat, keep : Nat \cup {None}, age : Nat \cup {None}]
    /\ Options # {}
    /\ MaxHistory \in Nat \ {0}
    /\ MaxCalls \in Nat /\ MaxPasses \in Nat /\ MaxClock \in Nat

VARIABLES
    stored,    \* `manifests/{id}`
    created,   \* created_at of `meta/{id}`, or None
    blobs,     \* the blobs in Storage
    points,    \* `current/{site}` and `alias/{site}/{name}`
    history,   \* `history/{site}`, most recent first
    client,    \* what each client's request is doing
    gc,        \* what the collector is doing
    clock,
    calls, passes,
    \* history of the behaviour, read by the properties only
    moved,     \* deployments that a pointer or a history was set to since the
               \* pass began
    condemned, \* deployments the pass will not protect
    tainted,   \* clients whose completeness check overlaps a condemnation
    raced,     \* deployments both moved and condemned by one pass
    spoiled    \* blobs a mismatched upload wrote or deleted

disk == <<stored, created, blobs, points, history>>
ghosts == <<moved, condemned, tainted, raced, spoiled>>
vars == <<stored, created, blobs, points, history, client, gc, clock, calls, passes,
          moved, condemned, tainted, raced, spoiled>>

Entry == [id : Deployments, at : Nat]

Client ==   [stage : {"idle"}]
       \cup [stage : {"store"}, id : Deployments, created : Nat]
       \cup [stage : {"ask"}, id : Deployments, todo : SUBSET Blobs, missing : SUBSET Blobs]
       \cup [stage : {"upload"}, missing : SUBSET Blobs]
       \cup [stage : {"reject"}, blob : Blobs]
       \cup [stage : {"check"}, id : Deployments, root : Roots, todo : SUBSET Blobs]
       \cup [stage : {"switch"}, id : Deployments, root : Roots]
       \cup [stage : {"record"}, id : Deployments, root : Sites]

Collector ==   [stage : {"idle"}]
          \cup [stage : {"history", "current", "alias", "list"}, opts : Options,
                live : SUBSET Deployments]
          \cup [stage : {"sort"}, opts : Options, live : SUBSET Deployments, now : Nat,
                todo : SUBSET Deployments, referenced : SUBSET Blobs,
                orphans : SUBSET Deployments]
          \cup [stage : {"sweep"}, todo : SUBSET Blobs, orphans : SUBSET Deployments]
          \cup [stage : {"forget"}, id : Deployments, orphans : SUBSET Deployments]

Idle == [stage |-> "idle"]
Goto(c, s) == client' = [client EXCEPT ![c] = s]

\* A restarted node finds manifests and some of their blobs, pointed at or not.
Init ==
    /\ stored \in SUBSET Deployments
    /\ created = [d \in Deployments |-> IF d \in stored THEN 0 ELSE None]
    /\ blobs \in SUBSET UNION {Files[d] : d \in stored}
    /\ points = [r \in Roots |-> None]
    /\ history = [s \in Sites |-> <<>>]
    /\ client = [c \in Clients |-> Idle]
    /\ gc = Idle
    /\ clock = 0 /\ calls = 0 /\ passes = 0
    /\ moved = {} /\ condemned = {} /\ tainted = {} /\ raced = {} /\ spoiled = {}

\* A client's request arrives.
Begin(c) == client[c] = Idle /\ calls < MaxCalls /\ calls' = calls + 1

-----------------------------------------------------------------------------
(* create_deployment and put_blob                                           *)

\* Mutation of CreatedAt: a manifest without metadata gets none.
CreatedAtOld(d) == created[d]

\* The age of a manifest is kept when it is stored again.
CreatedAt(d) == IF created[d] # None THEN created[d] ELSE clock

PutManifest(c, d) ==
    /\ Begin(c)
    /\ Goto(c, [stage |-> "store", id |-> d, created |-> CreatedAt(d)])
    /\ UNCHANGED <<disk, gc, clock, passes, ghosts>>

\* missing_blobs: look for one blob after the other, and answer.
Asked(d, todo, missing) ==
    IF todo = {} THEN [stage |-> "upload", missing |-> missing]
    ELSE [stage |-> "ask", id |-> d, todo |-> todo, missing |-> missing]

\* The manifest and its metadata, in one batch.
StoreManifest(c) ==
    LET s == client[c] IN
    /\ s.stage = "store"
    /\ stored' = stored \cup {s.id}
    /\ created' = [created EXCEPT ![s.id] = s.created]
    /\ Goto(c, Asked(s.id, Files[s.id], {}))
    /\ UNCHANGED <<blobs, points, history, gc, clock, calls, passes, ghosts>>

Ask(c, b) ==
    LET s == client[c]
        missing == IF b \in blobs THEN s.missing ELSE s.missing \cup {b}
    IN /\ s.stage = "ask" /\ b \in s.todo
       /\ Goto(c, Asked(s.id, s.todo \ {b}, missing))
       /\ UNCHANGED <<disk, gc, clock, calls, passes, ghosts>>

Upload(c, b) ==
    LET s == client[c] IN
    /\ s.stage = "upload" /\ b \in s.missing
    /\ blobs' = blobs \cup {b}
    /\ spoiled' = spoiled \ {b}
    /\ Goto(c, [stage |-> "upload", missing |-> s.missing \ {b}])
    /\ UNCHANGED <<stored, created, points, history, gc, clock, calls, passes,
                   moved, condemned, tainted, raced>>

\* The bytes are stored as they stream in, before it is known whether they hash to
\* the name: until the delete, has_blob finds the wrong ones, and they replace what
\* another client had uploaded.
UploadWrong(c, b) ==
    /\ client[c].stage = "upload" /\ b \in client[c].missing
    /\ blobs' = blobs \cup {b}
    /\ spoiled' = spoiled \cup {b}
    /\ Goto(c, [stage |-> "reject", blob |-> b])
    /\ UNCHANGED <<stored, created, points, history, gc, clock, calls, passes,
                   moved, condemned, tainted, raced>>

\* The hash does not match: the blob is deleted, also when another client has
\* uploaded it since; a failure to delete is ignored.
RejectUpload(c) ==
    LET b == client[c].blob IN
    /\ client[c].stage = "reject"
    /\ \/ blobs' = blobs \ {b} /\ spoiled' = spoiled \cup {b}
       \/ UNCHANGED <<blobs, spoiled>>
    /\ Goto(c, Idle)
    /\ UNCHANGED <<stored, created, points, history, gc, clock, calls, passes,
                   moved, condemned, tainted, raced>>

\* The client has uploaded everything, or gives up.
Uploaded(c) ==
    /\ client[c].stage = "upload"
    /\ Goto(c, Idle)
    /\ UNCHANGED <<disk, gc, clock, calls, passes, ghosts>>

-----------------------------------------------------------------------------
(* activate_with_principal, set_alias, remove_alias, delete_site            *)

Checking(d, r, todo) ==
    IF todo = {} THEN [stage |-> "switch", id |-> d, root |-> r]
    ELSE [stage |-> "check", id |-> d, root |-> r, todo |-> todo]

\* Read the manifest.
Point(c, r, d) ==
    /\ Begin(c)
    /\ d \in stored
    /\ Goto(c, Checking(d, r, Files[d]))
    /\ tainted' = IF d \in condemned THEN tainted \cup {c} ELSE tainted \ {c}
    /\ UNCHANGED <<disk, gc, clock, passes, moved, condemned, raced, spoiled>>

Found(b) == b \in blobs

\* missing_blobs again: the request fails unless every blob is there.
Check(c, b) ==
    LET s == client[c] IN
    /\ s.stage = "check" /\ b \in s.todo
    /\ Goto(c, IF Found(b) THEN Checking(s.id, s.root, s.todo \ {b}) ELSE Idle)
    /\ UNCHANGED <<disk, gc, clock, calls, passes, ghosts>>

\* domain_claim_lock is held by an activation that has not recorded itself.
Locked == \E c \in Clients : client[c].stage = "record"

\* Write the pointer; an activation does so under the lock.
Switch(c) ==
    LET s == client[c] IN
    /\ s.stage = "switch"
    /\ s.root \in Sites => ~Locked
    /\ points' = [points EXCEPT ![s.root] = s.id]
    /\ moved' = moved \cup {s.id}
    /\ raced' = IF c \in tainted \/ s.id \in condemned THEN raced \cup {s.id}
                ELSE raced \ {s.id}
    /\ Goto(c, IF s.root \in Sites THEN [stage |-> "record", id |-> s.id, root |-> s.root]
               ELSE Idle)
    /\ UNCHANGED <<stored, created, blobs, history, gc, clock, calls, passes,
                   condemned, tainted, spoiled>>

\* record_history: the deployment becomes the first entry.  It has at most one
\* older entry, because every entry gets there in this way; those behind it move
\* up.
Recorded(h, d) ==
    LET older == {k \in DOMAIN h : h[k].id = d}
        others == [k \in 1 .. (Len(h) - Cardinality(older)) |->
                     IF \E j \in older : j <= k THEN h[k + 1] ELSE h[k]]
        all == <<[id |-> d, at |-> clock]>> \o others
    IN SubSeq(all, 1, IF Len(all) < MaxHistory THEN Len(all) ELSE MaxHistory)

\* A history that cannot be read counts as empty.
Record(c) ==
    LET s == client[c] IN
    /\ s.stage = "record"
    /\ \E h \in {history[s.root], <<>>} :
         history' = [history EXCEPT ![s.root] = Recorded(h, s.id)]
    /\ moved' = moved \cup {s.id}
    /\ raced' = IF s.id \in condemned THEN raced \cup {s.id} ELSE raced
    /\ Goto(c, Idle)
    /\ UNCHANGED <<stored, created, blobs, points, gc, clock, calls, passes,
                   condemned, tainted, spoiled>>

\* A failure to record is ignored.
RecordFails(c) ==
    /\ client[c].stage = "record"
    /\ Goto(c, Idle)
    /\ UNCHANGED <<disk, gc, clock, calls, passes, ghosts>>

RemoveAlias(a) ==
    /\ calls < MaxCalls /\ calls' = calls + 1
    /\ points[a] # None
    /\ points' = [points EXCEPT ![a] = None]
    /\ UNCHANGED <<stored, created, blobs, history, client, gc, clock, passes, ghosts>>

\* Under the lock, in one batch.  An alias set after the listing and before the
\* batch stays, as if it had been set afterwards.
DeleteSite(s) ==
    /\ calls < MaxCalls /\ calls' = calls + 1
    /\ ~Locked
    /\ points' = [r \in Roots |-> IF r = s \/ (r \in Aliases /\ SiteOf[r] = s)
                                  THEN None ELSE points[r]]
    /\ history' = [history EXCEPT ![s] = <<>>]
    /\ UNCHANGED <<stored, created, blobs, client, gc, clock, passes, ghosts>>

-----------------------------------------------------------------------------
(* collect_garbage_with                                                     *)

GcBegin(opts) ==
    /\ gc = Idle
    /\ passes < MaxPasses
    /\ passes' = passes + 1
    /\ gc' = [stage |-> "history", opts |-> opts, live |-> {}]
    /\ moved' = {} /\ condemned' = {}
    /\ UNCHANGED <<disk, client, clock, calls, tainted, raced, spoiled>>

\* The entries a retention policy keeps.
Kept(h, opts, now) ==
    {h[k].id : k \in {k \in DOMAIN h :
        \/ opts.keep = None \/ k <= opts.keep
        \/ opts.age # None /\ now - h[k].at <= opts.age}}

\* live_deployment_ids: histories, then the pointers of sites, then aliases.
GcHistory ==
    /\ gc.stage = "history"
    /\ gc' = [stage |-> "current", opts |-> gc.opts,
              live |-> UNION {Kept(history[s], gc.opts, clock) : s \in Sites}]
    /\ UNCHANGED <<disk, client, clock, calls, passes, ghosts>>

Targets(R) == {points[r] : r \in R} \ {None}

GcCurrent ==
    /\ gc.stage = "current"
    /\ gc' = [stage |-> "alias", opts |-> gc.opts, live |-> gc.live \cup Targets(Sites)]
    /\ UNCHANGED <<disk, client, clock, calls, passes, ghosts>>

\* Mutation of GcAlias: aliases do not protect.
GcAliasSkipped ==
    /\ gc.stage = "alias"
    /\ gc' = [stage |-> "list", opts |-> gc.opts, live |-> gc.live]
    /\ UNCHANGED <<disk, client, clock, calls, passes, ghosts>>

GcAlias ==
    /\ gc.stage = "alias"
    /\ gc' = [stage |-> "list", opts |-> gc.opts, live |-> gc.live \cup Targets(Aliases)]
    /\ UNCHANGED <<disk, client, clock, calls, passes, ghosts>>

\* Deployments D turn out to be unprotected by the pass.
Condemn(D) ==
    /\ condemned' = condemned \cup D
    /\ raced' = raced \cup (D \cap moved)
    /\ tainted' = tainted \cup {c \in Clients :
                      client[c].stage \in {"check", "switch"} /\ client[c].id \in D}
    /\ UNCHANGED <<moved, spoiled>>

\* List the manifests; one that is stored from now on is not seen.
GcList ==
    /\ gc.stage = "list"
    /\ gc' = [stage |-> "sort", opts |-> gc.opts, live |-> gc.live, now |-> clock,
              todo |-> stored, referenced |-> {}, orphans |-> {}]
    /\ Condemn(Deployments \ stored)
    /\ UNCHANGED <<disk, client, clock, calls, passes>>

\* For the history only: manifests younger than the grace period are promised to
\* be safe from the pass.
Fresh(d) ==
    gc.opts.grace # 0 /\ created[d] # None /\ created[d] + gc.opts.grace > gc.now

WithinGrace(d) ==
    gc.opts.grace # 0 /\ created[d] # None /\ gc.now - created[d] < gc.opts.grace

\* Sort one manifest: its blobs are referenced, or it is an orphan.
GcSort(d) ==
    LET protected == d \in gc.live \/ WithinGrace(d) IN
    /\ gc.stage = "sort" /\ d \in gc.todo
    /\ gc' = [stage |-> "sort", opts |-> gc.opts, live |-> gc.live, now |-> gc.now,
              todo |-> gc.todo \ {d},
              referenced |-> IF protected THEN gc.referenced \cup Files[d] ELSE gc.referenced,
              orphans |-> IF protected THEN gc.orphans ELSE gc.orphans \cup {d}]
    /\ Condemn(IF protected \/ Fresh(d) THEN {} ELSE {d})
    /\ UNCHANGED <<disk, client, clock, calls, passes>>

\* List the blobs.
GcSweep ==
    /\ gc.stage = "sort" /\ gc.todo = {}
    /\ gc' = [stage |-> "sweep", todo |-> blobs \ gc.referenced, orphans |-> gc.orphans]
    /\ UNCHANGED <<disk, client, clock, calls, passes, ghosts>>

GcDeleteBlob(b) ==
    /\ gc.stage = "sweep" /\ b \in gc.todo
    /\ blobs' = blobs \ {b}
    /\ gc' = [stage |-> "sweep", todo |-> gc.todo \ {b}, orphans |-> gc.orphans]
    /\ UNCHANGED <<stored, created, points, history, client, clock, calls, passes, ghosts>>

\* Delete an orphan's manifest, and then its metadata.
GcDeleteManifest(d) ==
    /\ gc.stage = "sweep" /\ gc.todo = {} /\ d \in gc.orphans
    /\ stored' = stored \ {d}
    /\ gc' = [stage |-> "forget", id |-> d, orphans |-> gc.orphans \ {d}]
    /\ UNCHANGED <<created, blobs, points, history, client, clock, calls, passes, ghosts>>

GcForget ==
    /\ gc.stage = "forget"
    /\ created' = [created EXCEPT ![gc.id] = None]
    /\ gc' = [stage |-> "sweep", todo |-> {}, orphans |-> gc.orphans]
    /\ UNCHANGED <<stored, blobs, points, history, client, clock, calls, passes, ghosts>>

\* The pass is over, or one of its accesses failed.
GcEnd ==
    /\ gc # Idle
    /\ gc' = Idle
    /\ condemned' = {}
    /\ UNCHANGED <<disk, client, clock, calls, passes, moved, tainted, raced, spoiled>>

Tick ==
    /\ clock < MaxClock
    /\ clock' = clock + 1
    /\ UNCHANGED <<disk, client, gc, calls, passes, ghosts>>

Request(c) ==
    \/ \E d \in Deployments : PutManifest(c, d) \/ (\E r \in Roots : Point(c, r, d))
    \/ StoreManifest(c) \/ Uploaded(c) \/ RejectUpload(c)
    \/ \E b \in Blobs : Ask(c, b) \/ Upload(c, b) \/ UploadWrong(c, b) \/ Check(c, b)
    \/ Switch(c) \/ Record(c) \/ RecordFails(c)

Collect ==
    \/ \E opts \in Options : GcBegin(opts)
    \/ GcHistory \/ GcCurrent \/ GcAlias \/ GcList \/ GcSweep \/ GcForget \/ GcEnd
    \/ \E d \in Deployments : GcSort(d) \/ GcDeleteManifest(d)
    \/ \E b \in Blobs : GcDeleteBlob(b)

Next ==
    \/ \E c \in Clients : Request(c)
    \/ \E a \in Aliases : RemoveAlias(a)
    \/ \E s \in Sites : DeleteSite(s)
    \/ Collect
    \/ Tick

Spec == Init /\ [][Next]_vars

-----------------------------------------------------------------------------

TypeOK ==
    /\ stored \subseteq Deployments
    /\ created \in [Deployments -> Nat \cup {None}]
    /\ blobs \subseteq Blobs
    /\ points \in [Roots -> Deployments \cup {None}]
    /\ history \in [Sites -> Seq(Entry)]
    /\ \A s \in Sites : Len(history[s]) <= MaxHistory
    /\ client \in [Clients -> Client]
    /\ gc \in Collector
    /\ clock \in Nat
    /\ moved \subseteq Deployments /\ condemned \subseteq Deployments
    /\ tainted \subseteq Clients /\ raced \subseteq Deployments
    /\ spoiled \subseteq Blobs

Complete(d) == d \in stored /\ Files[d] \subseteq blobs \cup spoiled

\* Deployments to roll back to: the entries that every pass keeps.
Retained ==
    {d \in Deployments : \A opts \in Options : \E s \in Sites :
        d \in Kept(history[s], [opts EXCEPT !.age = None], clock)}

\* What a site or an alias points at, and what the retention policy keeps for a
\* roll-back, has its manifest and all its blobs, however the collector
\* interleaves with uploads and activations.  Two exceptions are what the code
\* permits: a deployment that was pointed at while a pass that did not protect
\* it was under way, and a blob that a mismatched upload wrote or deleted.
PinnedComplete == \A d \in (Targets(Roots) \cup Retained) \ raced : Complete(d)

\* The collector never races a deployment in flight: what a site or an alias
\* points at has its manifest and its blobs, unless an upload was wrong.
NeverIncomplete == \A d \in Targets(Roots) : Complete(d)
=============================================================================
