----------------------------- MODULE ReportExport -----------------------------
(***************************************************************************)
(* The asynchronous export of monthly reports: the table                    *)
(* report_export_tasks, the endpoint that enqueues and the drain job that   *)
(* claims a batch in one transaction and then settles its tasks one by one. *)
(*   reports/export_service.py, reports/drain.py, reports/router.py.        *)
(*                                                                          *)
(* A task is named by its place in the order of created_at.  Rows are never *)
(* deleted: no retention window covers them.                                *)
(***************************************************************************)
EXTENDS Naturals, FiniteSets

CONSTANTS
    Drains,         \* concurrent runs of drain_report_exports
    MaxTasks,       \* bound: tasks ever enqueued
    BatchSize,      \* --batch-size
    NoRow,          \* no row in the table
    MaxCrashes      \* bound: drains killed

Tasks == 1 .. MaxTasks

ASSUME ConstantsAssumption ==
    /\ MaxTasks \in Nat
    /\ BatchSize \in Nat \ {0}
    /\ MaxCrashes \in Nat

VARIABLES
    row,        \* report_export_tasks
    pc,         \* where each drain is
    unclaimed,  \* listed ids the claim transaction has not tried yet
    locked,     \* rows its open claim transaction has locked
    todo,       \* listed ids the drain has not visited yet
    seen,       \* status the result transaction read
    crashes

drainVars == <<pc, unclaimed, locked, todo, seen>>
vars == <<row, drainVars, crashes>>

Statuses == {"pending", "processing", "completed", "failed"}
Settled == {"completed", "failed"}
Row == [status : Statuses, claimed : BOOLEAN, artifact : BOOLEAN, error : BOOLEAN]
ASSUME NoRowAssumption == NoRow \notin Row

PCs == {"idle", "claiming", "visiting", "building", "completing", "failing", "recording"}

TypeOK ==
    /\ row \in [Tasks -> Row \cup {NoRow}]
    /\ pc \in [Drains -> PCs]
    /\ unclaimed \in [Drains -> SUBSET Tasks]
    /\ locked \in [Drains -> SUBSET Tasks]
    /\ todo \in [Drains -> SUBSET Tasks]
    /\ seen \in [Drains -> Statuses \cup {"none"}]
    /\ crashes \in Nat

Init ==
    /\ row = [t \in Tasks |-> NoRow]
    /\ pc = [d \in Drains |-> "idle"]
    /\ unclaimed = [d \in Drains |-> {}]
    /\ locked = [d \in Drains |-> {}]
    /\ todo = [d \in Drains |-> {}]
    /\ seen = [d \in Drains |-> "none"]
    /\ crashes = 0

-----------------------------------------------------------------------------
Exists(t) == row[t] # NoRow
Status(t) == IF Exists(t) THEN row[t].status ELSE "none"
Locked(t) == \E d \in Drains : t \in locked[d]

\* Mutant of Pending: tasks that were claimed and never settled are listed too.
PendingOrStuck == {t \in Tasks : Status(t) \in {"pending", "processing"}}

Pending == {t \in Tasks : Status(t) = "pending"}

\* ORDER BY created_at LIMIT BatchSize.
Oldest(ts) == {t \in ts : Cardinality({u \in ts : u < t}) < BatchSize}

First(ts) == CHOOSE t \in ts : \A u \in ts : t <= u

\* The task being processed: the first of those not visited yet.
Task(d) == First(todo[d])

\* Mutant of Visitable: any row of the batch is processed.
VisitableAlways(t) == Exists(t)

Visitable(t) == Status(t) = "processing"

\* An UPDATE names a column only when its value differs from the one read.
StatusWritten(r, read, status) == IF read = status THEN r.status ELSE status

\* Mutant of Completed: the artifact is left out of the row.
CompletedWithoutArtifact(r, read) ==
    [r EXCEPT !.status = StatusWritten(r, read, "completed")]

\* Mutant of Completed: a status the readers do not know.
CompletedAsDone(r, read) ==
    [r EXCEPT !.status = StatusWritten(r, read, "done"), !.artifact = TRUE]

Completed(r, read) ==
    [r EXCEPT !.status = StatusWritten(r, read, "completed"), !.artifact = TRUE]

\* Mutant of Failed: a task that failed is put back for another try.
FailedRequeued(r, read) ==
    [r EXCEPT !.status = StatusWritten(r, read, "pending"), !.error = TRUE]

Failed(r, read) ==
    [r EXCEPT !.status = StatusWritten(r, read, "failed"), !.error = TRUE]

-----------------------------------------------------------------------------
(* POST /reports/monthly/exports.                                           *)
Enqueue(t) ==
    /\ ~Exists(t)
    /\ row' = [row EXCEPT ![t] = [status |-> "pending", claimed |-> FALSE,
                                  artifact |-> FALSE, error |-> FALSE]]
    /\ UNCHANGED <<drainVars, crashes>>

-----------------------------------------------------------------------------
(* _claim_batch: one transaction.                                           *)

ListPending(d) ==
    /\ pc[d] = "idle"
    /\ Pending # {}
    /\ unclaimed' = [unclaimed EXCEPT ![d] = Oldest(Pending)]
    /\ todo' = [todo EXCEPT ![d] = Oldest(Pending)]
    /\ pc' = [pc EXCEPT ![d] = "claiming"]
    /\ UNCHANGED <<row, locked, seen, crashes>>

\* FOR UPDATE SKIP LOCKED on a row still pending; a task that is not claimed
\* stays in the list all the same.
Claim(d) ==
    /\ pc[d] = "claiming"
    /\ unclaimed[d] # {}
    /\ LET t == First(unclaimed[d])
       IN  /\ unclaimed' = [unclaimed EXCEPT ![d] = @ \ {t}]
           /\ locked' = [locked EXCEPT ![d] =
                    IF t \in Pending /\ ~Locked(t) THEN @ \cup {t} ELSE @]
    /\ UNCHANGED <<row, pc, todo, seen, crashes>>

CommitClaims(d) ==
    /\ pc[d] = "claiming"
    /\ unclaimed[d] = {}
    /\ row' = [t \in Tasks |->
            IF t \in locked[d]
            THEN [row[t] EXCEPT !.status = "processing", !.claimed = TRUE]
            ELSE row[t]]
    /\ locked' = [locked EXCEPT ![d] = {}]
    /\ pc' = [pc EXCEPT ![d] = "visiting"]
    /\ UNCHANGED <<unclaimed, todo, seen, crashes>>

-----------------------------------------------------------------------------
(* _process_task and _fail_task: a transaction to look, one to materialize  *)
(* the snapshot, one to store the result or the failure.                    *)

\* The drain is done with its current task.
Leave(d) ==
    /\ todo' = [todo EXCEPT ![d] = @ \ {Task(d)}]
    /\ pc' = [pc EXCEPT ![d] = IF todo[d] = {Task(d)} THEN "idle" ELSE "visiting"]
    /\ seen' = [seen EXCEPT ![d] = "none"]

Visit(d) ==
    /\ pc[d] = "visiting"
    /\ IF Visitable(Task(d))
       THEN pc' = [pc EXCEPT ![d] = "building"] /\ UNCHANGED <<todo, seen>>
       ELSE Leave(d)
    /\ UNCHANGED <<row, unclaimed, locked, crashes>>

\* No confirmed bill, a corrupt snapshot, a renderer error.
BuildFails(d) ==
    /\ pc[d] = "building"
    /\ pc' = [pc EXCEPT ![d] = "failing"]
    /\ UNCHANGED <<row, unclaimed, locked, todo, seen, crashes>>

\* The artifact is built; mark_completed reads the row without a lock.
ReadToComplete(d) ==
    /\ pc[d] = "building"
    /\ seen' = [seen EXCEPT ![d] = row[Task(d)].status]
    /\ pc' = [pc EXCEPT ![d] = "completing"]
    /\ UNCHANGED <<row, unclaimed, locked, todo, crashes>>

MarkCompleted(d) ==
    /\ pc[d] = "completing"
    /\ row' = [row EXCEPT ![Task(d)] = Completed(@, seen[d])]
    /\ Leave(d)
    /\ UNCHANGED <<unclaimed, locked, crashes>>

\* The commit of the result fails: the task is handed to _fail_task.
CompletionLost(d) ==
    /\ pc[d] = "completing"
    /\ pc' = [pc EXCEPT ![d] = "failing"]
    /\ seen' = [seen EXCEPT ![d] = "none"]
    /\ UNCHANGED <<row, unclaimed, locked, todo, crashes>>

ReadToFail(d) ==
    /\ pc[d] = "failing"
    /\ seen' = [seen EXCEPT ![d] = row[Task(d)].status]
    /\ pc' = [pc EXCEPT ![d] = "recording"]
    /\ UNCHANGED <<row, unclaimed, locked, todo, crashes>>

MarkFailed(d) ==
    /\ pc[d] = "recording"
    /\ row' = [row EXCEPT ![Task(d)] = Failed(@, seen[d])]
    /\ Leave(d)
    /\ UNCHANGED <<unclaimed, locked, crashes>>

\* _fail_task swallows its own failure and the drain goes on.
FailureLost(d) ==
    /\ pc[d] \in {"failing", "recording"}
    /\ Leave(d)
    /\ UNCHANGED <<row, unclaimed, locked, crashes>>

\* The process is killed: an open claim is rolled back, its list is lost.
Crash(d) ==
    /\ pc[d] # "idle"
    /\ crashes < MaxCrashes
    /\ crashes' = crashes + 1
    /\ pc' = [pc EXCEPT ![d] = "idle"]
    /\ unclaimed' = [unclaimed EXCEPT ![d] = {}]
    /\ locked' = [locked EXCEPT ![d] = {}]
    /\ todo' = [todo EXCEPT ![d] = {}]
    /\ seen' = [seen EXCEPT ![d] = "none"]
    /\ UNCHANGED row

-----------------------------------------------------------------------------
Step(d) ==
    \/ ListPending(d) \/ Claim(d) \/ CommitClaims(d) \/ Visit(d)
    \/ ReadToComplete(d) \/ MarkCompleted(d)
    \/ ReadToFail(d) \/ MarkFailed(d)

Fault(d) == BuildFails(d) \/ CompletionLost(d) \/ FailureLost(d) \/ Crash(d)

Next ==
    \/ \E t \in Tasks : Enqueue(t)
    \/ \E d \in Drains : Step(d) \/ Fault(d)

\* The drain runs in every daily cycle, and a run that is not killed goes on.
Spec == Init /\ [][Next]_vars /\ \A d \in Drains : WF_vars(Step(d))

-----------------------------------------------------------------------------
(* Properties.                                                              *)

\* A task two drains process may get its result replaced by the other result,
\* but no late mark, written from an unlocked read, takes a settled task back to
\* pending or processing.
SettledNeverReopens ==
    [][\A t \in Tasks : Status(t) \in Settled => Status(t)' \in Settled]_vars

\* _claim_batch ignores the answer of claim, so a drain visits tasks another
\* drain has locked or claimed; still a task that no claim ever committed
\* (the other drain was killed) gets neither an artifact nor an error.
ResultNeedsClaim ==
    \A t \in Tasks :
        Exists(t) /\ (row[t].artifact \/ row[t].error) => row[t].claimed

\* The download endpoint serves the bytes of every completed task, and a failed
\* one says why, whatever interleaving of unlocked marks led there.
ResultMatchesStatus ==
    \A t \in Tasks :
        /\ Status(t) = "completed" => row[t].artifact
        /\ Status(t) = "failed" => row[t].error

\* A killed drain gives its claims back or leaves them processing; either way
\* no pending task waits forever behind the tasks of dead drains.
PendingIsTaken == \A t \in Tasks : Status(t) = "pending" ~> Status(t) # "pending"

\* The documented life of a task (reports/db_models.py: pending -> processing ->
\* completed | failed) promises every claimed one a result.
ProcessingSettles == \A t \in Tasks : Status(t) = "processing" ~> Status(t) \in Settled
=============================================================================
