---------------------------- MODULE AtLeastOnce ----------------------------
(***************************************************************************)
(* What the work-queue lane of a topic promises (the Messaging trait of     *)
(* boatramp-core/src/messaging.rs), without leases, markers, payloads,      *)
(* replicas or retries: a message that was accepted is live until it is     *)
(* settled or parked as a dead letter, each delivery is charged, and no     *)
(* message is delivered more often than allowed before it is parked.        *)
(*                                                                          *)
(* It promises at least once, not exactly once: a message may be accepted   *)
(* again after it was settled.                                              *)
(***************************************************************************)
EXTENDS Naturals

CONSTANTS Messages, MaxTries

VARIABLES
    live,    \* messages that wait for delivery or for their settlement
    parked,  \* dead letters
    gone,    \* messages settled or discarded at least once
    tries    \* deliveries charged to each live message

queue == <<live, parked, gone, tries>>

Init ==
    /\ live \in SUBSET Messages
    /\ parked = {} /\ gone = {}
    /\ tries = [m \in Messages |-> 0]

\* publish
Accept(m) ==
    /\ m \notin live
    /\ live' = live \cup {m}
    /\ UNCHANGED <<parked, gone, tries>>

\* claim: deliver the messages S, park the messages D.
Deliver(S, D) ==
    /\ S \cup D \subseteq live /\ S \cap D = {}
    /\ \A m \in S : tries[m] < MaxTries
    /\ live' = live \ D
    /\ parked' = parked \cup D
    /\ tries' = [m \in Messages |-> IF m \in S THEN tries[m] + 1
                                    ELSE IF m \in D THEN 0 ELSE tries[m]]
    /\ UNCHANGED gone

\* ack
Settle(m) ==
    /\ live' = live \ {m}
    /\ gone' = gone \cup {m}
    /\ tries' = [tries EXCEPT ![m] = 0]
    /\ UNCHANGED parked

\* discard_dead_letters, purge_dead_letters
Discard(D) ==
    /\ parked' = parked \ D
    /\ gone' = gone \cup (D \cap parked)
    /\ UNCHANGED <<live, tries>>

\* redrive_dead_letters: all of D is live afterwards.
Redrive(D) ==
    /\ live' = live \cup D
    /\ parked' = parked \ D
    /\ UNCHANGED <<gone, tries>>

Next ==
    \/ \E m \in Messages : Accept(m) \/ Settle(m)
    \/ \E S, D \in SUBSET Messages : Deliver(S, D)
    \/ \E D \in SUBSET Messages : Discard(D) \/ Redrive(D)

Spec == Init /\ [][Next]_queue
=============================================================================
