-------------------------- MODULE PipelineExecution --------------------------
(***************************************************************************)
(* The ledger of the daily analysis of one plant: pipeline_executions is at *)
(* once its record and its lock per target date.  Runs come from the cloud  *)
(* job daily-pipeline and from POST /pipeline/run; the watchdog reads the    *)
(* latest row.                                                              *)
(*   orchestration/execution_repository.py, orchestration/runtime.py,        *)
(*   orchestration/daily_pipeline.py, orchestration/router.py,               *)
(*   cloud_jobs.py, alerts/operations.py, retention/service.py               *)
(*                                                                          *)
(* A run keeps one transaction open from the acquisition to the commit of    *)
(* its alert intents, or to its end when the plant has no alerts: until then *)
(* nobody sees its row, and whoever writes that row waits.                   *)
(***************************************************************************)
EXTENDS Naturals, FiniteSets

CONSTANTS
    Runs,               \* concurrent executions
    LastDay,            \* target dates are 1 .. LastDay
    NoRow, Never,
    StaleAfter,         \* pipeline_stale_lock_timeout_minutes
    StuckAfter,         \* the watchdog's 30 minutes
    DelayedAfter,       \* the watchdog's 26 hours
    Retention,          \* pipeline_executions_days
    MaxAttempts, MaxRows, MaxCrashes    \* bounds

Days == 1 .. LastDay

Statuses == {"RUNNING", "SUCCEEDED", "FAILED"}

\* started and finished are ages; failed: error_code is set.
Row == [status : Statuses, attempts : Nat, started : Nat,
        finished : Nat \cup {Never}, failed : BOOLEAN, id : Nat]

ConstantsOK ==
    /\ {LastDay, StaleAfter, StuckAfter, DelayedAfter, Retention, MaxAttempts, MaxRows, MaxCrashes}
        \subseteq Nat
    /\ LastDay > 0 /\ Never \notin Nat /\ NoRow \notin Row

VARIABLES
    row,        \* pipeline_executions as committed, by target date
    data,       \* the day's analysis as committed: none, partial, full
    pc,
    caller,     \* job or api
    alerts,     \* the plant has an expectation, so its alerts are dispatched
    day,        \* target date
    seen,       \* the row as acquire read it (ages left out)
    draft,      \* the row as the run's open transaction will commit it
    mine,       \* id of the run's row
    inserted,   \* rows ever inserted: the id of the last one
    sinceSuccess, sinceAcquire,     \* history: ticks since the last of each
    crashes

runVars == <<pc, caller, alerts, day, seen, draft, mine>>
history == <<sinceSuccess, sinceAcquire>>
vars == <<row, data, inserted, runVars, history, crashes>>

PCs == {"idle", "reading", "working", "dispatching"}

TypeOK ==
    /\ row \in [Days -> Row \cup {NoRow}]
    /\ data \in [Days -> {"none", "partial", "full"}]
    /\ pc \in [Runs -> PCs]
    /\ caller \in [Runs -> {"job", "api"}]
    /\ alerts \in [Runs -> BOOLEAN]
    /\ day \in [Runs -> Days]
    /\ seen \in [Runs -> Row \cup {NoRow}] /\ draft \in [Runs -> Row \cup {NoRow}]
    /\ mine \in [Runs -> Nat] /\ inserted \in Nat
    /\ {sinceSuccess, sinceAcquire} \subseteq Nat \cup {Never}
    /\ crashes \in Nat

Init ==
    /\ row = [k \in Days |-> NoRow]
    /\ data = [k \in Days |-> "none"]
    /\ pc = [r \in Runs |-> "idle"]
    /\ caller = [r \in Runs |-> "job"]
    /\ alerts = [r \in Runs |-> FALSE]
    /\ day = [r \in Runs |-> 1]
    /\ seen = [r \in Runs |-> NoRow] /\ draft = [r \in Runs |-> NoRow]
    /\ mine = [r \in Runs |-> 0] /\ inserted = 0
    /\ sinceSuccess = Never /\ sinceAcquire = Never
    /\ crashes = 0

-----------------------------------------------------------------------------
Exists(k) == row[k] # NoRow
Live(k, id) == Exists(k) /\ row[k].id = id

Stale(x) == x.started >= StaleAfter

\* The row is written in an open transaction of another run: a write waits.
LockedByOther(r) ==
    \E o \in Runs \ {r} : draft[o] # NoRow /\ day[o] = day[r]

Working(r) == pc[r] \in {"working", "dispatching"}

\* The run is over; what it had not committed is rolled back.
Leave(r) ==
    /\ pc' = [pc EXCEPT ![r] = "idle"]
    /\ seen' = [seen EXCEPT ![r] = NoRow]
    /\ draft' = [draft EXCEPT ![r] = NoRow]
    /\ caller' = [caller EXCEPT ![r] = "job"]
    /\ alerts' = [alerts EXCEPT ![r] = FALSE]
    /\ day' = [day EXCEPT ![r] = 1]
    /\ mine' = [mine EXCEPT ![r] = 0]

-----------------------------------------------------------------------------
(* acquire.                                                                 *)

Seen(x) ==
    IF x = NoRow THEN x
    ELSE [x EXCEPT !.started = 0, !.finished = IF @ = Never THEN @ ELSE 0]

\* The SELECT, which locks nothing.  A row that is RUNNING and not stale
\* refuses the run: PipelineExecutionAlreadyRunningError.
AcquireRead(r, k, who, withAlerts) ==
    /\ pc[r] = "idle"
    /\ ~(Exists(k) /\ row[k].status = "RUNNING" /\ ~Stale(row[k]))
    /\ pc' = [pc EXCEPT ![r] = "reading"]
    /\ caller' = [caller EXCEPT ![r] = who]
    /\ alerts' = [alerts EXCEPT ![r] = withAlerts]
    /\ day' = [day EXCEPT ![r] = k]
    /\ seen' = [seen EXCEPT ![r] = Seen(row[k])]
    /\ UNCHANGED <<row, data, inserted, draft, mine, history, crashes>>

Insertable(r) == ~Exists(day[r])

NewRow == [status |-> "RUNNING", attempts |-> 1, started |-> 0, finished |-> Never,
           failed |-> FALSE, id |-> inserted + 1]

\* Mutant of Reacquired: the stage is written into the status.
ReacquiredAsStarted(now, old) == [now EXCEPT !.status = "STARTED"]

\* The flush writes the columns that differ from what the SELECT returned; the
\* recovery of a stale lock writes all of them twice.
Reacquired(now, old) ==
    LET recovered == old.status = "RUNNING"
    IN  [now EXCEPT !.status = "RUNNING",
                    !.attempts = old.attempts + 1,
                    !.started = 0,
                    !.finished = IF recovered \/ old.finished # Never THEN Never ELSE @,
                    !.failed = IF recovered \/ old.failed THEN FALSE ELSE @]

\* INSERT or UPDATE, once no other transaction holds the row.  The INSERT of a
\* row that exists by then is refused; the UPDATE of a purged row raises.
AcquireWrite(r) ==
    LET k == day[r]
        inserts == seen[r] = NoRow /\ Insertable(r)
        updates == seen[r] # NoRow /\ Live(k, seen[r].id)
    IN  /\ pc[r] = "reading" /\ ~LockedByOther(r)
        /\ inserts => inserted < MaxRows
        /\ updates => seen[r].attempts < MaxAttempts
        /\ IF inserts \/ updates
           THEN /\ draft' = [draft EXCEPT ![r] =
                        IF inserts THEN NewRow ELSE Reacquired(row[k], seen[r])]
                /\ mine' = [mine EXCEPT ![r] = draft'[r].id]
                /\ pc' = [pc EXCEPT ![r] = "working"]
                /\ UNCHANGED <<caller, alerts, day, seen>>
           ELSE Leave(r)
        /\ inserted' = IF inserts THEN inserted + 1 ELSE inserted
        /\ sinceAcquire' = IF inserts \/ updates THEN 0 ELSE sinceAcquire
        /\ UNCHANGED <<row, data, sinceSuccess, crashes>>

-----------------------------------------------------------------------------
(* The analysis.                                                            *)

\* Climate, performance, baseline and losses are in; the alert intents are
\* committed with them and the row becomes visible as RUNNING.
CommitIntents(r) ==
    /\ pc[r] = "working" /\ alerts[r]
    /\ row' = [row EXCEPT ![day[r]] = draft[r]]
    /\ data' = [data EXCEPT ![day[r]] = "full"]
    /\ draft' = [draft EXCEPT ![r] = NoRow]
    /\ pc' = [pc EXCEPT ![r] = "dispatching"]
    /\ UNCHANGED <<inserted, caller, alerts, day, seen, mine, history, crashes>>

\* The row the final UPDATE starts from: the run's own draft, or what others
\* have committed since.
Current(r) == IF pc[r] = "working" THEN draft[r] ELSE row[day[r]]

\* A run that still has to write waits for the row and finds it.
MayEnd(r) == ~LockedByOther(r) /\ Current(r) # NoRow /\ Current(r).id = mine[r]

\* Mutant of Succeed: the status is committed before the analysis.
SucceedEarly(r) ==
    /\ pc[r] = "working" /\ MayEnd(r)
    /\ row' = [row EXCEPT ![day[r]] = [Current(r) EXCEPT !.status = "SUCCEEDED", !.finished = 0]]
    /\ sinceSuccess' = 0
    /\ Leave(r)
    /\ UNCHANGED <<data, inserted, sinceAcquire, crashes>>

\* succeed sets error_code to the None it already has: the column is not written.
Succeed(r) ==
    /\ pc[r] = "dispatching" \/ (pc[r] = "working" /\ ~alerts[r])
    /\ MayEnd(r)
    /\ row' = [row EXCEPT ![day[r]] = [Current(r) EXCEPT !.status = "SUCCEEDED", !.finished = 0]]
    /\ data' = [data EXCEPT ![day[r]] = "full"]
    /\ sinceSuccess' = 0
    /\ Leave(r)
    /\ UNCHANGED <<inserted, sinceAcquire, crashes>>

\* fail flushes FAILED.  The job commits it, and with it the part of the
\* analysis that was done; the router rolls everything back.
Fail(r) ==
    /\ Working(r) /\ MayEnd(r)
    /\ IF caller[r] = "job"
       THEN /\ row' = [row EXCEPT ![day[r]] =
                    [Current(r) EXCEPT !.status = "FAILED", !.finished = 0, !.failed = TRUE]]
            /\ data' \in {data, [data EXCEPT ![day[r]] = IF @ = "full" THEN @ ELSE "partial"]}
       ELSE UNCHANGED <<row, data>>
    /\ Leave(r)
    /\ UNCHANGED <<inserted, history, crashes>>

\* The row was purged under the run: the last UPDATE matches nothing.
EndWithoutRow(r) ==
    /\ pc[r] = "dispatching" /\ ~LockedByOther(r) /\ ~Live(day[r], mine[r])
    /\ Leave(r)
    /\ UNCHANGED <<row, data, inserted, history, crashes>>

-----------------------------------------------------------------------------
(* The environment.                                                         *)

\* The process is killed or its connection is lost.
Crash(r) ==
    /\ pc[r] # "idle" /\ crashes < MaxCrashes
    /\ crashes' = crashes + 1
    /\ Leave(r)
    /\ UNCHANGED <<row, data, inserted, history>>

\* RetentionService.purge: terminal rows by started_at; a row under an open
\* transaction is waited for.
Purge(k) ==
    /\ Exists(k) /\ row[k].status # "RUNNING" /\ row[k].started >= Retention
    /\ ~\E r \in Runs : draft[r] # NoRow /\ day[r] = k
    /\ row' = [row EXCEPT ![k] = NoRow]
    /\ UNCHANGED <<data, inserted, runVars, history, crashes>>

Horizon == CHOOSE n \in {StaleAfter, StuckAfter + 1, DelayedAfter + 1, Retention} :
    \A m \in {StaleAfter, StuckAfter + 1, DelayedAfter + 1, Retention} : m <= n

Older(n) == IF n = Never \/ n = Horizon THEN n ELSE n + 1
Aged(x) == IF x = NoRow THEN x ELSE [x EXCEPT !.started = Older(@), !.finished = Older(@)]

Tick ==
    /\ row' = [k \in Days |-> Aged(row[k])]
    /\ draft' = [r \in Runs |-> Aged(draft[r])]
    /\ sinceSuccess' = Older(sinceSuccess) /\ sinceAcquire' = Older(sinceAcquire)
    /\ UNCHANGED <<data, inserted, pc, caller, alerts, day, seen, mine, crashes>>

-----------------------------------------------------------------------------
Next ==
    \/ \E r \in Runs :
        \/ \E k \in Days, who \in {"job", "api"}, withAlerts \in BOOLEAN :
                AcquireRead(r, k, who, withAlerts)
        \/ AcquireWrite(r) \/ CommitIntents(r) \/ Succeed(r) \/ Fail(r)
        \/ EndWithoutRow(r) \/ Crash(r)
    \/ \E k \in Days : Purge(k)
    \/ Tick

Spec == Init /\ [][Next]_vars

-----------------------------------------------------------------------------
(* The watchdog: get_latest_pipeline_execution orders by target date.       *)

Latest == {k \in Days : Exists(k) /\ \A m \in Days : Exists(m) => m <= k}

\* Mutant of Healthy: a run that hangs is not noticed.
HealthyWhileRunning ==
    \E k \in Latest :
        \/ row[k].status = "RUNNING"
        \/ row[k].status = "SUCCEEDED" /\ row[k].finished # Never /\ row[k].finished <= DelayedAfter

Healthy ==
    \E k \in Latest :
        \/ row[k].status = "RUNNING" /\ row[k].started <= StuckAfter
        \/ row[k].status = "SUCCEEDED" /\ row[k].finished # Never /\ row[k].finished <= DelayedAfter

-----------------------------------------------------------------------------
(* Properties.                                                              *)

\* r works in the first attempt of a row that exists or that it is inserting.
First(r) ==
    /\ Working(r) /\ seen[r] = NoRow
    /\ draft[r] # NoRow \/ Live(day[r], mine[r])

\* The unique constraint on plant and date: of two runs that both found no row
\* only one ever works on a row of its own, however long the winner's transaction
\* stays invisible (ADR-022).
FirstAttemptExclusive ==
    \A r, o \in Runs :
        r # o /\ First(r) /\ First(o) => day[r] # day[o]

\* SUCCEEDED is visible only with the whole analysis of the day, whatever other
\* runs of the same day committed, rolled back or left halfway.
SucceededMeansAnalysed ==
    \A k \in Days : Exists(k) /\ row[k].status = "SUCCEEDED" => data[k] = "full"

\* The watchdog is quiet only if some run succeeded within its 26 hours or was
\* started within its 30 minutes: overlapping writers, rollbacks and crashes
\* never leave a row that looks healthy by mixing two runs' columns.
QuietMeansAlive ==
    Healthy =>
        \/ sinceSuccess # Never /\ sinceSuccess <= DelayedAfter
        \/ sinceAcquire # Never /\ sinceAcquire <= StuckAfter

\* ADR-023: a RUNNING record may be taken over only past the timeout.
RunningExcludes ==
    [][\A r \in Runs : pc[r] = "reading" /\ pc'[r] = "working" /\ Exists(day[r])
            => row[day[r]].status # "RUNNING" \/ Stale(row[day[r]])]_vars

\* README: a run ends as SUCCEEDED or FAILED and can be looked up.
EndedRunIsOnRecord ==
    [][\A r \in Runs : Working(r) /\ pc'[r] = "idle" /\ crashes' = crashes
            => row'[day[r]] # NoRow /\ row'[day[r]].status \in {"SUCCEEDED", "FAILED"}]_vars

-----------------------------------------------------------------------------
(* Why they hold: the inductive invariant.                                  *)

\* A run that has a row open has written it alone; one that found no row still finds
\* none under its own; and no two runs inserted the same row.
RunsAgree ==
    /\ \A r \in Runs :
          /\ pc[r] = "working" <=> draft[r] # NoRow
          /\ mine[r] <= inserted
          /\ draft[r] # NoRow =>
                /\ draft[r].status = "RUNNING" /\ draft[r].id = mine[r]
                /\ seen[r] = NoRow => ~Exists(day[r])
    /\ \A r, o \in Runs : r # o =>
          /\ draft[r] # NoRow /\ draft[o] # NoRow => day[r] # day[o]
          /\ Working(r) /\ Working(o) /\ seen[r] = NoRow /\ seen[o] = NoRow => mine[r] # mine[o]

\* A row is not younger than the last run that was started; nor is a row that
\* succeeded younger than the last success.
AcquiredBefore(age) == sinceAcquire # Never /\ sinceAcquire <= age
SucceededBefore(age) == sinceSuccess # Never /\ age # Never /\ sinceSuccess <= age

RowsAgree ==
    /\ \A k \in Days : Exists(k) =>
          /\ row[k].id <= inserted /\ AcquiredBefore(row[k].started)
          /\ row[k].status = "SUCCEEDED" => data[k] = "full" /\ SucceededBefore(row[k].finished)
    /\ \A r \in Runs : draft[r] # NoRow => AcquiredBefore(draft[r].started)

PipelineInv == TypeOK /\ RunsAgree /\ RowsAgree
=============================================================================
