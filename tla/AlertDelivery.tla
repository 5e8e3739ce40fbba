---------------------------- MODULE AlertDelivery ----------------------------
(***************************************************************************)
(* What the outbox promises of one dispatcher at a time: an alert is sent   *)
(* at least once before its event for some chat counts as delivered, is     *)
(* sent only for a queued event and while no delivery is on record, and an  *)
(* event stays settled until it is forgotten.  No claims, delays,           *)
(* transactions or crashes.                                                 *)
(***************************************************************************)
EXTENDS Naturals

CONSTANTS Alerts, Destinations

Events == Alerts \X Destinations

VARIABLES
    phase,      \* absent, queued, delivered, failed
    reached,    \* some message of the alert reached a chat
    onRecord    \* a delivery of the alert is remembered

vars == <<phase, reached, onRecord>>

Init ==
    /\ phase = [e \in Events |-> "absent"]
    /\ reached = [a \in Alerts |-> FALSE]
    /\ onRecord = [a \in Alerts |-> FALSE]

Request(es) ==
    /\ \A e \in es : phase[e] = "absent"
    /\ phase' = [e \in Events |-> IF e \in es THEN "queued" ELSE phase[e]]
    /\ UNCHANGED <<reached, onRecord>>

Send(e) ==
    /\ phase[e] = "queued" /\ ~onRecord[e[1]]
    /\ reached' = [reached EXCEPT ![e[1]] = TRUE]
    /\ UNCHANGED <<phase, onRecord>>

\* Delivered now, or known to have been delivered before.
Deliver(e) ==
    /\ phase[e] = "queued" /\ reached[e[1]]
    /\ phase' = [phase EXCEPT ![e] = "delivered"]
    /\ onRecord' \in {onRecord, [onRecord EXCEPT ![e[1]] = TRUE]}
    /\ UNCHANGED reached

GiveUp(e) ==
    /\ phase[e] = "queued"
    /\ phase' = [phase EXCEPT ![e] = "failed"]
    /\ UNCHANGED <<reached, onRecord>>

\* Settled events and old records are forgotten.
Forget(es, as) ==
    /\ \A e \in es : phase[e] \in {"delivered", "failed"}
    /\ phase' = [e \in Events |-> IF e \in es THEN "absent" ELSE phase[e]]
    /\ onRecord' = [a \in Alerts |-> onRecord[a] /\ a \notin as]
    /\ UNCHANGED reached

Next ==
    \/ \E es \in SUBSET Events : Request(es)
    \/ \E e \in Events : Send(e) \/ Deliver(e) \/ GiveUp(e)
    \/ \E es \in SUBSET Events, as \in SUBSET Alerts : Forget(es, as)

Spec == Init /\ [][Next]_vars
=============================================================================
