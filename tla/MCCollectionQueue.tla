-------------------------- MODULE MCCollectionQueue --------------------------
(* Finite instances of CollectionQueue and its refinement of TaskLifecycle. *)
EXTENDS CollectionQueue

\* A task as the lifecycle sees it, without its row.
Named == [PENDING |-> "pending", COMPLETED |-> "done", FAILED |-> "failed"]
PhaseOf(t) == IF Exists(t) THEN Named[row[t].status] ELSE "absent"
TriesOf(t) == IF Exists(t) THEN row[t].attempts ELSE 0

Phase == [t \in Tasks |-> PhaseOf(t)]
Tries == [t \in Tasks |-> TriesOf(t)]

Lifecycle == INSTANCE TaskLifecycle WITH phase <- Phase, tries <- Tries, kept <- stored

\* With one worker the table follows the task lifecycle: in particular a
\* COMPLETED task never reopens and no failed attempt is lost or counted twice.
ImplementsLifecycle == Lifecycle!Spec
=============================================================================
