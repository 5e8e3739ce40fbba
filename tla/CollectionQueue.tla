--------------------------- MODULE CollectionQueue ---------------------------
(***************************************************************************)
(* The queue of deferred solar collections: the table collection_tasks, the *)
(* daily collection job that feeds it, the worker that drains it and the    *)
(* retention purge that forgets its old rows.                               *)
(*   collection/queue.py, collection/worker.py, collection/drain.py,        *)
(*   collection/job.py, services/collection.py (one transaction per day),   *)
(*   retention/service.py (the collection_tasks cut).                       *)
(*                                                                          *)
(* What a database transaction makes atomic is one action here; what the    *)
(* code spreads over two transactions is two actions.  Instants are kept as *)
(* ticks still to wait (available_at) or ticks elapsed (created_at), so the *)
(* clock itself has no bound.                                               *)
(***************************************************************************)
EXTENDS Naturals, FiniteSets

CONSTANTS
    Plants, Days,       \* a task is deduplicated by plant and target date
    Workers,            \* concurrent runs of drain_collection_queue
    Collectors,         \* concurrent runs of run_solar_collection
    NoTask,             \* no task held
    NoRow,              \* no row in the table
    MaxAttempts,        \* max_attempts
    BaseDelay,          \* 60 s
    MaxBackoff,         \* _MAX_BACKOFF_SECONDS
    SlowRetry,          \* SLOW_RETRY_SECONDS
    BatchLimit,         \* limit of due_ids
    Retention,          \* collection_tasks_days
    MaxCrashes,         \* bound: processes killed
    MaxRows             \* bound: rows ever inserted

Tasks == Plants \X Days
PlantOf(t) == t[1]

ASSUME ConstantsAssumption ==
    /\ MaxAttempts \in Nat \ {0}
    /\ {BaseDelay, MaxBackoff, SlowRetry, Retention} \subseteq Nat
    /\ BatchLimit \in Nat \ {0}
    /\ MaxCrashes \in Nat /\ MaxRows \in Nat
    /\ NoTask \notin Tasks
    /\ IsFiniteSet(Workers)
    \* arithmetic the provers do not know: the backoff is a number of ticks
    /\ \A n \in 1 .. MaxAttempts : BaseDelay * 2 ^ (n - 1) \in Nat

VARIABLES
    row,        \* collection_tasks, by deduplication key
    inserted,   \* number of rows ever inserted: the id of the last one
    stored,     \* days whose production is committed in daily_energy
    accounts,   \* some active provider account exists
    pc,         \* where each worker is
    batch,      \* ids the worker still has to visit
    current,    \* task it holds
    held,       \* id of that task's row
    slow,       \* the failure it saw asks for the long wait
    seen,       \* the row as _reschedule read it
    deferring,  \* job: failed collections whose enqueue is not committed yet
    failures,   \* history: failed attempts of the task's last row
    blocked,    \* history: ticks left of the wait its last block or refusal asks for
    deferred,   \* history: days whose enqueue was committed
    silent,     \* history: the last answer to the task's last row lacked the day
    crashes

dbVars == <<row, inserted, stored>>
workerVars == <<pc, batch, current, held, slow, seen>>
history == <<failures, blocked, deferred, silent>>
vars == <<dbVars, workerVars, accounts, deferring, history, crashes>>

Statuses == {"PENDING", "COMPLETED", "FAILED"}

(* PROCESSING and locked_at are only ever flushed: the worker commits the   *)
(* claim together with its outcome, so no other session reads them and the  *)
(* second arm of _claimable (a stale PROCESSING row) has nothing to match.  *)
Row == [status : Statuses, attempts : Nat, wait : Nat, age : Nat, id : Nat]

ASSUME NoRowAssumption == NoRow \notin Row

\* Ids are handed out in the order of created_at.
Ids == Tasks \X Nat

PCs == {"idle", "draining", "handling", "failed", "rescheduling"}

TypeOK ==
    /\ row \in [Tasks -> Row \cup {NoRow}]
    /\ inserted \in Nat
    /\ stored \in [Tasks -> BOOLEAN]
    /\ accounts \in BOOLEAN
    /\ pc \in [Workers -> PCs]
    /\ batch \in [Workers -> SUBSET Ids]
    /\ current \in [Workers -> Tasks \cup {NoTask}]
    /\ held \in [Workers -> Nat]
    /\ slow \in [Workers -> BOOLEAN]
    /\ seen \in [Workers -> Row \cup {NoRow}]
    /\ deferring \in [Collectors -> (Tasks \X BOOLEAN) \cup {NoTask}]
    /\ failures \in [Tasks -> Nat]
    /\ blocked \in [Tasks -> Nat]
    /\ deferred \in [Tasks -> BOOLEAN]
    /\ silent \in [Tasks -> BOOLEAN]
    /\ crashes \in Nat

Init ==
    /\ row = [t \in Tasks |-> NoRow]
    /\ inserted = 0
    /\ stored = [t \in Tasks |-> FALSE]
    /\ accounts = TRUE
    /\ pc = [w \in Workers |-> "idle"]
    /\ batch = [w \in Workers |-> {}]
    /\ current = [w \in Workers |-> NoTask]
    /\ held = [w \in Workers |-> 0]
    /\ slow = [w \in Workers |-> FALSE]
    /\ seen = [w \in Workers |-> NoRow]
    /\ deferring = [c \in Collectors |-> NoTask]
    /\ failures = [t \in Tasks |-> 0]
    /\ blocked = [t \in Tasks |-> 0]
    /\ deferred = [t \in Tasks |-> FALSE]
    /\ silent = [t \in Tasks |-> FALSE]
    /\ crashes = 0

-----------------------------------------------------------------------------
(* Helpers of the queue.                                                    *)

Smaller(a, b) == IF a <= b THEN a ELSE b
Larger(a, b) == IF a >= b THEN a ELSE b

\* Mutant of Delay: the long wait of a block or refused password is forgotten.
DelayIgnoringBlock(n, isSlow) == Smaller(MaxBackoff, BaseDelay * 2 ^ (n - 1))

\* The delay after the n-th failed attempt, n > 0, capped, and at least the
\* long wait when the manufacturer blocked the login or refused the password.
Delay(n, isSlow) ==
    Larger(IF isSlow THEN SlowRetry ELSE 0,
           Smaller(MaxBackoff, BaseDelay * 2 ^ (n - 1)))

Exists(t) == row[t] # NoRow
Terminal(t) == Exists(t) /\ row[t].status \in {"COMPLETED", "FAILED"}
Claimable(t) == Exists(t) /\ row[t].status = "PENDING" /\ row[t].wait = 0

\* The id names a row that is still in the table.
Live(t, id) == Exists(t) /\ row[t].id = id

\* Mutant of Locked: the claim reads the row without FOR UPDATE.
LockedByNobody(t) == FALSE

\* The row lock of FOR UPDATE, held until the handler's transaction ends.
Locked(t) == \E w \in Workers : pc[w] = "handling" /\ current[w] = t

-----------------------------------------------------------------------------
(* The daily job: one transaction that stores the day, or a failure that is *)
(* enqueued by a second transaction.                                        *)

\* The manufacturer answered with the day: devices and production are
\* committed.  An answer without it (no device, no value) commits nothing the
\* queue reads and defers nothing: the job then leaves everything as it is.
CollectStores(c, t) ==
    /\ deferring[c] = NoTask
    /\ stored' = [stored EXCEPT ![t] = TRUE]
    /\ UNCHANGED <<row, inserted, workerVars, accounts, deferring, history, crashes>>

\* A ProviderError (retried at once) or a block or refused password (retried
\* after the long wait): everything is rolled back and the enqueue is next.
CollectFails(c, t, isSlow) ==
    /\ deferring[c] = NoTask
    /\ deferring' = [deferring EXCEPT ![c] = <<t, isSlow>>]
    /\ UNCHANGED <<dbVars, workerVars, accounts, history, crashes>>

\* enqueue: INSERT ... ON CONFLICT DO NOTHING; a row in any status is left as
\* it is.
EnqueueRetry(c) ==
    /\ deferring[c] # NoTask
    /\ LET t == deferring[c][1]
           first == IF deferring[c][2] THEN SlowRetry ELSE 0
       IN  IF Exists(t)
           THEN UNCHANGED <<row, inserted, failures, blocked, silent>>
           ELSE /\ inserted < MaxRows
                /\ row' = [row EXCEPT ![t] =
                        [status |-> "PENDING", attempts |-> 0, wait |-> first,
                         age |-> 0, id |-> inserted + 1]]
                /\ inserted' = inserted + 1
                /\ failures' = [failures EXCEPT ![t] = 0]
                /\ blocked' = [blocked EXCEPT ![t] = 0]
                /\ silent' = [silent EXCEPT ![t] = FALSE]
    /\ deferred' = [deferred EXCEPT ![deferring[c][1]] = TRUE]
    /\ deferring' = [deferring EXCEPT ![c] = NoTask]
    /\ UNCHANGED <<stored, workerVars, accounts, crashes>>

-----------------------------------------------------------------------------
(* The worker.                                                              *)

\* Mutant of Due: a task that failed once is not listed again.
DueUntried == {<<t, row[t].id>> : t \in {u \in Tasks : Claimable(u) /\ row[u].attempts = 0}}

Due == {<<t, row[t].id>> : t \in {u \in Tasks : Claimable(u)}}

\* ORDER BY created_at LIMIT BatchLimit.
Oldest(ids) == {e \in ids : Cardinality({f \in ids : f[2] < e[2]}) < BatchLimit}

\* The worker visits its batch in the order it read it.
IsNext(w, e) == e \in batch[w] /\ \A f \in batch[w] : e[2] <= f[2]

Release(w) ==
    /\ current' = [current EXCEPT ![w] = NoTask]
    /\ held' = [held EXCEPT ![w] = 0]
    /\ slow' = [slow EXCEPT ![w] = FALSE]
    /\ seen' = [seen EXCEPT ![w] = NoRow]

\* drain_collection_queue: nothing without an active account; otherwise the
\* oldest due ids are read in a transaction of their own.
StartDrain(w) ==
    /\ pc[w] = "idle"
    /\ accounts
    /\ Due # {}
    /\ batch' = [batch EXCEPT ![w] = Oldest(Due)]
    /\ pc' = [pc EXCEPT ![w] = "draining"]
    /\ UNCHANGED <<dbVars, current, held, slow, seen, accounts, deferring, history, crashes>>

FinishDrain(w) ==
    /\ pc[w] = "draining" /\ batch[w] = {}
    /\ pc' = [pc EXCEPT ![w] = "idle"]
    /\ UNCHANGED <<dbVars, batch, current, held, slow, seen, accounts, deferring, history, crashes>>

\* claim: the row is read again under FOR UPDATE SKIP LOCKED.
Claim(w) ==
    /\ pc[w] = "draining"
    /\ \E e \in batch[w] :
        /\ IsNext(w, e)
        /\ Live(e[1], e[2]) /\ Claimable(e[1]) /\ ~Locked(e[1])
        /\ current' = [current EXCEPT ![w] = e[1]]
        /\ held' = [held EXCEPT ![w] = e[2]]
        /\ batch' = [batch EXCEPT ![w] = @ \ {e}]
    /\ pc' = [pc EXCEPT ![w] = "handling"]
    /\ UNCHANGED <<dbVars, slow, seen, accounts, deferring, history, crashes>>

\* Claimed by another worker, no longer due, or purged since due_ids.
Skip(w) ==
    /\ pc[w] = "draining"
    /\ \E e \in batch[w] :
        /\ IsNext(w, e)
        /\ ~(Live(e[1], e[2]) /\ Claimable(e[1]) /\ ~Locked(e[1]))
        /\ batch' = [batch EXCEPT ![w] = @ \ {e}]
    /\ UNCHANGED <<dbVars, pc, current, held, slow, seen, accounts, deferring, history, crashes>>

\* Mutant of Complete: the task is committed, its production rolled back.
CompleteWithoutProduction(w) ==
    /\ pc[w] = "handling"
    /\ row' = [row EXCEPT ![current[w]].status = "COMPLETED"]
    /\ \E answered \in BOOLEAN : silent' = [silent EXCEPT ![current[w]] = ~answered]
    /\ pc' = [pc EXCEPT ![w] = "draining"]
    /\ Release(w)
    /\ UNCHANGED <<inserted, stored, batch, accounts, deferring, failures, blocked, deferred,
                   crashes>>

\* The handler's production and mark_completed, in one commit.  The handler also
\* returns normally when the manufacturer lists no device, or covers the day
\* with no value: the task is completed although no production is upserted.
Complete(w) ==
    /\ pc[w] = "handling"
    /\ row' = [row EXCEPT ![current[w]].status = "COMPLETED"]
    /\ \E answered \in BOOLEAN :
        /\ stored' = [stored EXCEPT ![current[w]] = @ \/ answered]
        /\ silent' = [silent EXCEPT ![current[w]] = ~answered]
    /\ pc' = [pc EXCEPT ![w] = "draining"]
    /\ Release(w)
    /\ UNCHANGED <<inserted, batch, accounts, deferring, failures, blocked, deferred, crashes>>

\* The handler raised: rollback, which also gives the row lock back.
Fail(w, isSlow) ==
    /\ pc[w] = "handling"
    /\ pc' = [pc EXCEPT ![w] = "failed"]
    /\ slow' = [slow EXCEPT ![w] = isSlow]
    /\ failures' = [failures EXCEPT ![current[w]] = @ + 1]
    /\ blocked' = [blocked EXCEPT ![current[w]] = IF isSlow THEN SlowRetry ELSE @]
    /\ UNCHANGED <<dbVars, batch, current, held, seen, accounts, deferring, deferred, silent,
                   crashes>>

\* An exception out of _reschedule is not isolated: it ends the whole drain.
AbortDrain(w) ==
    /\ pc' = [pc EXCEPT ![w] = "idle"]
    /\ batch' = [batch EXCEPT ![w] = {}]
    /\ Release(w)

\* _required_record: session.get in the new session, without a lock.
RescheduleRead(w) ==
    /\ pc[w] = "failed"
    /\ IF Live(current[w], held[w])
       THEN /\ seen' = [seen EXCEPT ![w] = row[current[w]]]
            /\ pc' = [pc EXCEPT ![w] = "rescheduling"]
            /\ UNCHANGED <<batch, current, held, slow>>
       ELSE AbortDrain(w)
    /\ UNCHANGED <<dbVars, accounts, deferring, history, crashes>>

\* Mutants of Rescheduled: the row left as claimed; given up one attempt early;
\* given up one attempt late.
RescheduledAsProcessing(now, old, isSlow) ==
    [now EXCEPT !.attempts = old.attempts + 1, !.status = "PROCESSING"]

RescheduledGivingUp(now, old, isSlow, limit, n) ==
    [now EXCEPT !.attempts = n,
                !.status = IF n >= limit THEN "FAILED" ELSE "PENDING",
                !.wait = IF n >= limit THEN @ ELSE Delay(n, isSlow)]

RescheduledTooEarly(now, old, isSlow) ==
    RescheduledGivingUp(now, old, isSlow, MaxAttempts - 1, old.attempts + 1)

RescheduledTooLate(now, old, isSlow) ==
    RescheduledGivingUp(now, old, isSlow, MaxAttempts + 1, old.attempts + 1)

\* The columns the flush writes: those that differ from what was read.
Rescheduled(now, old, isSlow) ==
    LET n == old.attempts + 1
        status == IF n >= MaxAttempts THEN "FAILED" ELSE "PENDING"
    IN  [now EXCEPT !.attempts = n,
                    !.status = IF status # old.status THEN status ELSE @,
                    !.wait = IF status = "PENDING" THEN Delay(n, isSlow) ELSE @]

\* The UPDATE waits for the row lock; with the row gone it matches nothing
\* and the flush raises.
RescheduleWrite(w) ==
    /\ pc[w] = "rescheduling"
    /\ ~Locked(current[w])
    /\ IF Live(current[w], held[w])
       THEN /\ row' = [row EXCEPT ![current[w]] = Rescheduled(@, seen[w], slow[w])]
            /\ pc' = [pc EXCEPT ![w] = "draining"]
            /\ Release(w)
            /\ UNCHANGED batch
       ELSE AbortDrain(w) /\ UNCHANGED row
    /\ UNCHANGED <<inserted, stored, accounts, deferring, history, crashes>>

-----------------------------------------------------------------------------
(* The environment.                                                         *)

\* The process is killed: its transaction is rolled back by the server, and
\* with it dies the knowledge of a refusal it had not written yet.
CrashWorker(w) ==
    /\ pc[w] # "idle" /\ crashes < MaxCrashes
    /\ crashes' = crashes + 1
    /\ blocked' = IF slow[w] THEN [blocked EXCEPT ![current[w]] = 0] ELSE blocked
    /\ AbortDrain(w)
    /\ UNCHANGED <<dbVars, accounts, deferring, failures, deferred, silent>>

\* Killed between the rolled-back collection and the enqueue.
CrashCollector(c) ==
    /\ deferring[c] # NoTask /\ crashes < MaxCrashes
    /\ crashes' = crashes + 1
    /\ deferring' = [deferring EXCEPT ![c] = NoTask]
    /\ UNCHANGED <<dbVars, workerVars, accounts, history>>

\* RetentionService.purge: terminal rows, by the age of created_at.
Purge(t) ==
    /\ Terminal(t) /\ row[t].age >= Retention
    /\ row' = [row EXCEPT ![t] = NoRow]
    /\ UNCHANGED <<inserted, stored, workerVars, accounts, deferring, history, crashes>>

\* The last active connection is closed, or a first one is opened.
ChangeAccounts ==
    /\ accounts' = ~accounts
    /\ UNCHANGED <<dbVars, workerVars, deferring, history, crashes>>

Minus1(n) == IF n = 0 THEN 0 ELSE n - 1

Tick ==
    /\ row' = [t \in Tasks |->
            IF Exists(t)
            THEN [row[t] EXCEPT !.wait = Minus1(@), !.age = Smaller(Retention, @ + 1)]
            ELSE NoRow]
    /\ blocked' = [t \in Tasks |-> Minus1(blocked[t])]
    /\ UNCHANGED <<inserted, stored, workerVars, accounts, deferring, failures, deferred, silent,
                   crashes>>

-----------------------------------------------------------------------------
WorkerStep(w) ==
    \/ StartDrain(w)
    \/ FinishDrain(w)
    \/ Claim(w)
    \/ Skip(w)
    \/ Complete(w)
    \/ \E isSlow \in BOOLEAN : Fail(w, isSlow)
    \/ RescheduleRead(w)
    \/ RescheduleWrite(w)

CollectorStep(c) ==
    \/ \E t \in Tasks : CollectStores(c, t)
    \/ \E t \in Tasks, isSlow \in BOOLEAN : CollectFails(c, t, isSlow)
    \/ EnqueueRetry(c)

Next ==
    \/ \E w \in Workers : WorkerStep(w) \/ CrashWorker(w)
    \/ \E c \in Collectors : CollectorStep(c) \/ CrashCollector(c)
    \/ \E t \in Tasks : Purge(t)
    \/ ChangeAccounts
    \/ Tick

Spec == Init /\ [][Next]_vars

(* The drain is started by a schedule and runs until its batch is empty;    *)
(* time passes.  No fairness on the job, the crashes, the accounts, the     *)
(* purge, or on which way a handler ends.                                   *)
Fairness ==
    /\ \A w \in Workers : WF_vars(WorkerStep(w))
    /\ WF_vars(Tick)

FairSpec == Spec /\ Fairness

-----------------------------------------------------------------------------
(* Properties.                                                              *)

Refusing(w) == pc[w] \in {"failed", "rescheduling"}

\* A worker's transaction owns the row it handles: nobody else handles it, and
\* while the handler runs no commit, not even the late reschedule of another
\* worker, moves the row out of the state in which it was claimed.
HandlerOwnsDueTask ==
    \A w \in Workers : pc[w] = "handling" =>
        /\ Live(current[w], held[w])
        /\ row[current[w]].status = "PENDING" /\ row[current[w]].wait = 0
        /\ \A v \in Workers \ {w} : pc[v] = "handling" => current[v] # current[w]

\* No attempt is counted twice: a task is given up as FAILED only after its
\* present row really failed MaxAttempts times, whatever the workers that
\* reschedule it concurrently read.
GivenUpOnlyAfterMaxAttempts ==
    \A t \in Tasks : Terminal(t) /\ row[t].status = "FAILED" => failures[t] >= MaxAttempts

\* A day whose deferral was committed is never simply forgotten: it is in
\* daily_energy, or still has a task to retry, or the manufacturer's last answer
\* lacked it, or its task was given up after MaxAttempts real failures.  This
\* holds across rollbacks, crashes, late reschedules, purges and enqueues that
\* find a row there already: a deferral swallowed by a FAILED row is accepted only
\* for a day that had all its attempts, and a COMPLETED row means the day is stored
\* or the manufacturer had nothing for it.
DeferredDaysAccountedFor ==
    \A t \in Tasks : deferred[t] =>
        \/ stored[t]
        \/ silent[t]
        \/ Exists(t) /\ row[t].status = "PENDING"
        \/ (Exists(t) => row[t].status = "FAILED") /\ failures[t] >= MaxAttempts

\* The wait after a block or a refused password holds for the task even though
\* the claim's rollback restored the row as due: with a single worker nobody
\* claims it before SlowRetry has passed, except after a crash that hit the
\* worker before it wrote the refusal down.
RefusedTaskWaits ==
    [][\A w \in Workers : pc[w] = "draining" /\ pc'[w] = "handling"
            => blocked[current'[w]] = 0]_vars

\* Every pending task is eventually completed or given up (or purged after
\* that), unless the last account is closed: no backoff, oldest-first batch or
\* crashed drain leaves it behind.
PendingTasksSettle ==
    \A t \in Tasks :
        (Exists(t) /\ row[t].status = "PENDING") ~> (~Exists(t) \/ Terminal(t) \/ ~accounts)
=============================================================================
