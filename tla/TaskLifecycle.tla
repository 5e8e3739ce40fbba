---------------------------- MODULE TaskLifecycle ----------------------------
(***************************************************************************)
(* What the collection queue promises for one table of deduplicated tasks,  *)
(* without workers, transactions, delays or row identities: a task is       *)
(* absent, pending, done or failed; each failed attempt is counted once;    *)
(* the last one gives it up; a done task has its day stored, or there was   *)
(* nothing to store; a stored day is kept; a settled task changes no more   *)
(* until it is forgotten.                                                   *)
(***************************************************************************)
EXTENDS Naturals

CONSTANTS Tasks, MaxAttempts

VARIABLES phase, tries, kept

vars == <<phase, tries, kept>>

Init ==
    /\ phase = [t \in Tasks |-> "absent"]
    /\ tries = [t \in Tasks |-> 0]
    /\ kept = [t \in Tasks |-> FALSE]

Submit(t) ==
    /\ phase[t] = "absent"
    /\ phase' = [phase EXCEPT ![t] = "pending"]
    /\ UNCHANGED <<tries, kept>>

\* The day may also be stored outside the queue, by the daily job.
Store(t) ==
    /\ kept' = [kept EXCEPT ![t] = TRUE]
    /\ UNCHANGED <<phase, tries>>

Succeed(t) ==
    /\ phase[t] = "pending"
    /\ phase' = [phase EXCEPT ![t] = "done"]
    /\ \E answered \in BOOLEAN : kept' = [kept EXCEPT ![t] = @ \/ answered]
    /\ UNCHANGED tries

Retry(t) ==
    /\ phase[t] = "pending" /\ tries[t] + 1 < MaxAttempts
    /\ tries' = [tries EXCEPT ![t] = @ + 1]
    /\ UNCHANGED <<phase, kept>>

GiveUp(t) ==
    /\ phase[t] = "pending" /\ tries[t] + 1 = MaxAttempts
    /\ tries' = [tries EXCEPT ![t] = @ + 1]
    /\ phase' = [phase EXCEPT ![t] = "failed"]
    /\ UNCHANGED kept

Forget(t) ==
    /\ phase[t] \in {"done", "failed"}
    /\ phase' = [phase EXCEPT ![t] = "absent"]
    /\ tries' = [tries EXCEPT ![t] = 0]
    /\ UNCHANGED kept

Next ==
    \E t \in Tasks :
        Submit(t) \/ Store(t) \/ Succeed(t) \/ Retry(t) \/ GiveUp(t) \/ Forget(t)

Spec == Init /\ [][Next]_vars
=============================================================================
