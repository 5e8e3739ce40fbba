------------------------ MODULE CollectionQueueProofs ------------------------
(***************************************************************************)
(* Proofs about CollectionQueue for any sets of plants, days, workers and   *)
(* collectors and any limits, and that one worker at a time implements      *)
(* TaskLifecycle.                                                           *)
(***************************************************************************)
EXTENDS MCCollectionQueue, FiniteSetTheorems, TLAPS

\* The delay of a rescheduled task is a number of ticks.
LEMMA DelayType ==
    ASSUME NEW n \in 1 .. MaxAttempts, NEW isSlow \in BOOLEAN
    PROVE  Delay(n, isSlow) \in Nat
  <1>1. BaseDelay * 2 ^ (n - 1) \in Nat
    BY ConstantsAssumption DEF ConstantsAssumption
  <1>2. MaxBackoff \in Nat /\ SlowRetry \in Nat
    BY ConstantsAssumption DEF ConstantsAssumption
  <1>3. Smaller(MaxBackoff, BaseDelay * 2 ^ (n - 1)) \in Nat
    BY <1>1, <1>2 DEF Smaller
  <1> QED  BY <1>2, <1>3 DEF Delay, Larger

\* The UPDATE of reschedule turns a row into a row.
LEMMA RescheduledType ==
    ASSUME NEW now \in Row, NEW old \in Row, NEW isSlow \in BOOLEAN
    PROVE  Rescheduled(now, old, isSlow) \in Row
  <1> DEFINE n == old.attempts + 1
  <1>1. n \in Nat \ {0}  BY DEF Row
  <1>2. MaxAttempts \in Nat  BY ConstantsAssumption DEF ConstantsAssumption
  <1>3. CASE n >= MaxAttempts
    BY <1>1, <1>3 DEF Rescheduled, Row, Statuses
  <1>4. CASE ~(n >= MaxAttempts)
    <2>1. n \in 1 .. MaxAttempts  BY <1>1, <1>2, <1>4
    <2>2. Delay(n, isSlow) \in Nat  BY <2>1, DelayType
    <2> HIDE DEF n
    <2> QED  BY <1>1, <1>4, <2>2 DEF Rescheduled, Row, Statuses, n
  <1> QED  BY <1>3, <1>4

-----------------------------------------------------------------------------
(* Type correctness.                                                        *)

\* An empty table and idle workers have their types.
LEMMA InitType == Init => TypeOK
  <1> SUFFICES ASSUME Init PROVE TypeOK  OBVIOUS
  <1> QED
    BY ConstantsAssumption DEF Init, TypeOK, ConstantsAssumption, PCs, Ids

\* The daily job (collect, fail, enqueue, be killed) keeps the types.
LEMMA CollectorType ==
    ASSUME TypeOK, NEW c \in Collectors, CollectorStep(c) \/ CrashCollector(c)
    PROVE  TypeOK'
  <1> USE ConstantsAssumption DEF ConstantsAssumption
  <1>1. CASE \E t \in Tasks : CollectStores(c, t)
    BY <1>1 DEF TypeOK, CollectStores, workerVars, history
  <1>2. CASE \E t \in Tasks, isSlow \in BOOLEAN : CollectFails(c, t, isSlow)
    BY <1>2 DEF TypeOK, CollectFails, dbVars, workerVars, history
  <1>3. CASE EnqueueRetry(c)
    <2> DEFINE t == deferring[c][1]
               first == IF deferring[c][2] THEN SlowRetry ELSE 0
               new == [status |-> "PENDING", attempts |-> 0, wait |-> first,
                       age |-> 0, id |-> inserted + 1]
    <2>1. t \in Tasks /\ first \in Nat  BY <1>3 DEF EnqueueRetry, TypeOK
    <2>2. new \in Row  BY <2>1 DEF TypeOK, Row, Statuses
    <2>3. row' \in [Tasks -> Row \cup {NoRow}]
      <3>1. row' = row \/ row' = [row EXCEPT ![t] = new]
        BY <1>3 DEF EnqueueRetry
      <3> QED  BY <2>1, <2>2, <3>1 DEF TypeOK
    <2>4. inserted' \in Nat  BY <1>3 DEF EnqueueRetry, TypeOK
    <2>5. /\ failures' \in [Tasks -> Nat] /\ blocked' \in [Tasks -> Nat]
          /\ silent' \in [Tasks -> BOOLEAN] /\ deferred' \in [Tasks -> BOOLEAN]
      <3>1. deferred' = [deferred EXCEPT ![t] = TRUE]  BY <1>3 DEF EnqueueRetry
      <3>2. CASE Exists(t)  BY <1>3, <3>1, <3>2 DEF EnqueueRetry, TypeOK
      <3>3. CASE ~Exists(t)
        <4>1. /\ failures' = [failures EXCEPT ![t] = 0]
              /\ blocked' = [blocked EXCEPT ![t] = 0]
              /\ silent' = [silent EXCEPT ![t] = FALSE]
          BY <1>3, <3>3 DEF EnqueueRetry
        <4> QED  BY <3>1, <4>1 DEF TypeOK
      <3> QED  BY <3>2, <3>3
    <2>6. deferring' \in [Collectors -> (Tasks \X BOOLEAN) \cup {NoTask}]
      BY <1>3 DEF EnqueueRetry, TypeOK
    <2> QED
      BY <1>3, <2>3, <2>4, <2>5, <2>6 DEF EnqueueRetry, TypeOK, workerVars
  <1>4. CASE CrashCollector(c)
    BY <1>4 DEF TypeOK, CrashCollector, dbVars, workerVars, history
  <1> QED  BY <1>1, <1>2, <1>3, <1>4 DEF CollectorStep

\* What Release leaves in the worker's variables.
LEMMA ReleaseType ==
    ASSUME TypeOK, NEW w \in Workers, Release(w)
    PROVE  /\ current' \in [Workers -> Tasks \cup {NoTask}]
           /\ held' \in [Workers -> Nat]
           /\ slow' \in [Workers -> BOOLEAN]
           /\ seen' \in [Workers -> Row \cup {NoRow}]
  BY DEF TypeOK, Release

\* What an aborted or killed drain leaves in the worker's variables.
LEMMA AbortType ==
    ASSUME TypeOK, NEW w \in Workers, AbortDrain(w)
    PROVE  /\ pc' \in [Workers -> PCs]
           /\ batch' \in [Workers -> SUBSET Ids]
           /\ current' \in [Workers -> Tasks \cup {NoTask}]
           /\ held' \in [Workers -> Nat]
           /\ slow' \in [Workers -> BOOLEAN]
           /\ seen' \in [Workers -> Row \cup {NoRow}]
  BY ReleaseType DEF TypeOK, AbortDrain, PCs

\* Every step of a drain keeps the types: in particular the UPDATE of a row that
\* is still in the table writes a row.
LEMMA WorkerType ==
    ASSUME TypeOK, NEW w \in Workers, HandlerOwnsDueTask,
           pc[w] = "rescheduling" => seen[w] \in Row /\ current[w] \in Tasks,
           pc[w] \in {"handling", "failed"} => current[w] \in Tasks,
           WorkerStep(w) \/ CrashWorker(w)
    PROVE  TypeOK'
  <1> USE ConstantsAssumption, NoRowAssumption DEF ConstantsAssumption, NoRowAssumption
  <1>1. CASE StartDrain(w)
    <2>1. Due \subseteq Ids
      BY DEF Due, Ids, Claimable, Exists, TypeOK, Row
    <2>2. Oldest(Due) \subseteq Ids  BY <2>1 DEF Oldest
    <2>3. batch' \in [Workers -> SUBSET Ids]  BY <1>1, <2>2 DEF StartDrain, TypeOK
    <2>4. pc' \in [Workers -> PCs]  BY <1>1 DEF StartDrain, TypeOK, PCs
    <2> QED  BY <1>1, <2>3, <2>4 DEF StartDrain, TypeOK, dbVars, history
  <1>2. CASE FinishDrain(w)
    BY <1>2 DEF FinishDrain, TypeOK, PCs, dbVars, history
  <1>3. CASE Claim(w)
    <2>1. PICK e \in batch[w] :
             /\ current' = [current EXCEPT ![w] = e[1]]
             /\ held' = [held EXCEPT ![w] = e[2]]
             /\ batch' = [batch EXCEPT ![w] = @ \ {e}]
      BY <1>3 DEF Claim
    <2>2. e[1] \in Tasks /\ e[2] \in Nat  BY DEF TypeOK, Ids
    <2>3. pc' \in [Workers -> PCs]  BY <1>3 DEF Claim, TypeOK, PCs
    <2>4. batch' \in [Workers -> SUBSET Ids]  BY <2>1 DEF TypeOK
    <2>5. /\ current' \in [Workers -> Tasks \cup {NoTask}]
          /\ held' \in [Workers -> Nat]
      BY <2>1, <2>2 DEF TypeOK
    <2> QED  BY <1>3, <2>3, <2>4, <2>5 DEF Claim, TypeOK, dbVars, history
  <1>4. CASE Skip(w)
    <2>1. batch' \in [Workers -> SUBSET Ids]  BY <1>4 DEF Skip, TypeOK
    <2> QED  BY <1>4, <2>1 DEF Skip, TypeOK, dbVars, history
  <1>5. CASE Complete(w)
    <2>1. current[w] \in Tasks /\ row[current[w]] \in Row
      BY <1>5 DEF Complete, HandlerOwnsDueTask, Live, Exists, TypeOK
    <2>2. [row[current[w]] EXCEPT !.status = "COMPLETED"] \in Row
      BY <2>1 DEF Row, Statuses
    <2>3. row' \in [Tasks -> Row \cup {NoRow}]
      BY <1>5, <2>1, <2>2 DEF Complete, TypeOK
    <2>4. /\ pc' \in [Workers -> PCs]
          /\ stored' \in [Tasks -> BOOLEAN] /\ silent' \in [Tasks -> BOOLEAN]
      BY <1>5, <2>1 DEF Complete, TypeOK, PCs
    <2>5. Release(w)  BY <1>5 DEF Complete
    <2> QED  BY <1>5, <2>3, <2>4, <2>5, ReleaseType DEF Complete, TypeOK
  <1>6. CASE \E isSlow \in BOOLEAN : Fail(w, isSlow)
    <2>1. PICK isSlow \in BOOLEAN : Fail(w, isSlow)  BY <1>6
    <2>2. current[w] \in Tasks  BY <2>1 DEF Fail
    <2>3. pc' \in [Workers -> PCs] /\ slow' \in [Workers -> BOOLEAN]
      BY <2>1 DEF Fail, TypeOK, PCs
    <2>4. failures' \in [Tasks -> Nat] /\ blocked' \in [Tasks -> Nat]
      BY <2>1, <2>2 DEF Fail, TypeOK
    <2> QED  BY <2>1, <2>3, <2>4 DEF Fail, TypeOK, dbVars
  <1>7. CASE RescheduleRead(w)
    <2>1. CASE Live(current[w], held[w])
      <3>1. current[w] \in Tasks  BY <1>7 DEF RescheduleRead
      <3>2. row[current[w]] \in Row  BY <2>1, <3>1 DEF Live, Exists, TypeOK
      <3>3. seen' \in [Workers -> Row \cup {NoRow}] /\ pc' \in [Workers -> PCs]
        BY <1>7, <2>1, <3>2 DEF RescheduleRead, TypeOK, PCs
      <3> QED  BY <1>7, <2>1, <3>3 DEF RescheduleRead, TypeOK, dbVars, history
    <2>2. CASE ~Live(current[w], held[w])
      <3>1. AbortDrain(w)  BY <1>7, <2>2 DEF RescheduleRead
      <3> QED  BY <1>7, <3>1, AbortType DEF RescheduleRead, TypeOK, dbVars, history
    <2> QED  BY <2>1, <2>2
  <1>8. CASE RescheduleWrite(w)
    <2>1. CASE Live(current[w], held[w])
      <3>1. current[w] \in Tasks /\ seen[w] \in Row  BY <1>8 DEF RescheduleWrite
      <3>2. row[current[w]] \in Row  BY <2>1, <3>1 DEF Live, Exists, TypeOK
      <3>3. slow[w] \in BOOLEAN  BY DEF TypeOK
      <3>4. Rescheduled(row[current[w]], seen[w], slow[w]) \in Row
        BY <3>1, <3>2, <3>3, RescheduledType
      <3>5. row' \in [Tasks -> Row \cup {NoRow}]
        BY <1>8, <2>1, <3>1, <3>4 DEF RescheduleWrite, TypeOK
      <3>6. pc' \in [Workers -> PCs] /\ Release(w) /\ batch' = batch
        BY <1>8, <2>1 DEF RescheduleWrite, TypeOK, PCs
      <3> QED
        BY <1>8, <3>5, <3>6, ReleaseType DEF RescheduleWrite, TypeOK, history
    <2>2. CASE ~Live(current[w], held[w])
      <3>1. AbortDrain(w) /\ row' = row  BY <1>8, <2>2 DEF RescheduleWrite
      <3> QED  BY <1>8, <3>1, AbortType DEF RescheduleWrite, TypeOK, history
    <2> QED  BY <2>1, <2>2
  <1>9. CASE CrashWorker(w)
    <2>1. AbortDrain(w)  BY <1>9 DEF CrashWorker
    <2>2. blocked' \in [Tasks -> Nat]
      <3>1. blocked \in [Tasks -> Nat]  BY DEF TypeOK
      <3> QED  BY <1>9, <3>1 DEF CrashWorker
    <2>3. crashes' \in Nat  BY <1>9 DEF CrashWorker, TypeOK
    <2> QED  BY <1>9, <2>1, <2>2, <2>3, AbortType DEF CrashWorker, TypeOK, dbVars
  <1> QED
    BY <1>1, <1>2, <1>3, <1>4, <1>5, <1>6, <1>7, <1>8, <1>9 DEF WorkerStep

\* The purge, a change of accounts and the passage of time keep the types.
LEMMA EnvironmentType ==
    ASSUME TypeOK, (\E t \in Tasks : Purge(t)) \/ ChangeAccounts \/ Tick
    PROVE  TypeOK'
  <1> USE ConstantsAssumption DEF ConstantsAssumption
  <1>1. CASE \E t \in Tasks : Purge(t)
    BY <1>1 DEF TypeOK, Purge, workerVars, history
  <1>2. CASE ChangeAccounts
    BY <1>2 DEF TypeOK, ChangeAccounts, dbVars, workerVars, history
  <1>3. CASE Tick
    <2>1. ASSUME NEW t \in Tasks, Exists(t)
          PROVE  [row[t] EXCEPT !.wait = Minus1(@), !.age = Smaller(Retention, @ + 1)] \in Row
      <3>1. row[t] \in Row  BY <2>1 DEF TypeOK, Exists
      <3>2. Minus1(row[t].wait) \in Nat  BY <3>1 DEF Row, Minus1
      <3>3. Smaller(Retention, row[t].age + 1) \in Nat  BY <3>1 DEF Row, Smaller
      <3> QED  BY <3>1, <3>2, <3>3 DEF Row
    <2>2. row' \in [Tasks -> Row \cup {NoRow}]  BY <1>3, <2>1 DEF Tick, TypeOK
    <2>3. blocked' \in [Tasks -> Nat]
      <3>1. \A n \in Nat : Minus1(n) \in Nat  BY DEF Minus1
      <3>2. blocked' = [t \in Tasks |-> Minus1(blocked[t])]  BY <1>3 DEF Tick
      <3>3. blocked \in [Tasks -> Nat]  BY DEF TypeOK
      <3> QED  BY <3>1, <3>2, <3>3
    <2> QED  BY <1>3, <2>2, <2>3 DEF Tick, TypeOK, workerVars
  <1> QED  BY <1>1, <1>2, <1>3
-----------------------------------------------------------------------------
(* The inductive invariant.                                                 *)

Holding(w) == pc[w] \in {"handling", "failed", "rescheduling"}

\* A worker that holds a task holds the id of a row that was inserted, so a
\* row inserted later is never taken for it.
HoldsKnownRow ==
    /\ \A t \in Tasks : Exists(t) => row[t].id <= inserted
    /\ \A w \in Workers :
        /\ held[w] <= inserted
        /\ Holding(w) => current[w] \in Tasks
        /\ pc[w] = "rescheduling" => seen[w] \in Row

\* The workers whose failed attempt on t's present row is not written yet.
Pending(t) ==
    {w \in Workers : Refusing(w) /\ current[w] = t /\ Live(t, held[w])}

\* Attempts written plus attempts still to be written never exceed the
\* failures, also from the row as a concurrent reschedule read it.
CountedAt(t) ==
    LET due == Cardinality(Pending(t))
    IN  /\ row[t].attempts + due <= failures[t]
        /\ \A w \in Pending(t) :
            pc[w] = "rescheduling" => seen[w].attempts + due <= failures[t]
        /\ row[t].status = "FAILED" => MaxAttempts <= failures[t]

Counted == \A t \in Tasks : Exists(t) => CountedAt(t)

IInv == TypeOK /\ HoldsKnownRow /\ HandlerOwnsDueTask /\ Counted

\* The workers with an attempt to write are finitely many, hence countable.
LEMMA PendingFinite ==
    ASSUME NEW t
    PROVE  IsFiniteSet(Pending(t)) /\ Cardinality(Pending(t)) \in Nat
  <1>1. Pending(t) \subseteq Workers  BY DEF Pending
  <1>2. IsFiniteSet(Workers)  BY ConstantsAssumption DEF ConstantsAssumption
  <1>3. IsFiniteSet(Pending(t))  BY <1>1, <1>2, FS_Subset
  <1> QED  BY <1>3, FS_CardinalityType

\* The empty table satisfies the inductive invariant.
LEMMA InitIInv == Init => IInv
  <1> SUFFICES ASSUME Init PROVE IInv  OBVIOUS
  <1>1. TypeOK  BY InitType
  <1>2. HoldsKnownRow /\ HandlerOwnsDueTask /\ Counted
    BY DEF Init, HoldsKnownRow, Holding, HandlerOwnsDueTask, Counted, Exists
  <1> QED  BY <1>1, <1>2 DEF IInv

\* Every step keeps the types.
LEMMA NextType == IInv /\ [Next]_vars => TypeOK'
  <1> SUFFICES ASSUME IInv, [Next]_vars PROVE TypeOK'  OBVIOUS
  <1>1. ASSUME NEW w \in Workers, WorkerStep(w) \/ CrashWorker(w)  PROVE TypeOK'
    BY <1>1, WorkerType DEF IInv, HoldsKnownRow, Holding
  <1>2. CASE UNCHANGED vars
    BY <1>2 DEF IInv, TypeOK, vars, dbVars, workerVars, history
  <1> QED
    BY <1>1, <1>2, CollectorType, EnvironmentType DEF IInv, Next
-----------------------------------------------------------------------------
(* Each action preserves the parts of the invariant.                        *)

\* A drain takes only rows already inserted, and forgets the id it held.
LEMMA WorkerHoldsKnownRow ==
    ASSUME IInv, NEW w \in Workers, WorkerStep(w) \/ CrashWorker(w)
    PROVE  HoldsKnownRow'
  <1> USE NoRowAssumption DEF NoRowAssumption
  <1> USE DEF IInv, TypeOK, HoldsKnownRow, Holding
  <1>1. ASSUME AbortDrain(w), row' = row, inserted' = inserted
        PROVE  HoldsKnownRow'
    BY <1>1 DEF AbortDrain, Release, Exists
  <1>2. CASE StartDrain(w)
    BY <1>2 DEF StartDrain, dbVars, Exists
  <1>3. CASE FinishDrain(w)
    BY <1>3 DEF FinishDrain, dbVars, Exists
  <1>4. CASE Claim(w)
    <2>1. PICK e \in batch[w] :
             /\ Live(e[1], e[2])
             /\ current' = [current EXCEPT ![w] = e[1]]
             /\ held' = [held EXCEPT ![w] = e[2]]
      BY <1>4 DEF Claim
    <2>2. e[1] \in Tasks /\ e[2] \in Nat  BY DEF Ids
    <2>3. e[2] <= inserted  BY <2>1, <2>2 DEF Live
    <2> QED  BY <1>4, <2>1, <2>2, <2>3 DEF Claim, dbVars, Exists
  <1>5. CASE Skip(w)
    BY <1>5 DEF Skip, dbVars, Exists
  <1>6. CASE Complete(w)
    <2>1. current[w] \in Tasks /\ row[current[w]] \in Row
      BY <1>6 DEF Complete, HandlerOwnsDueTask, Live, Exists
    <2>2. \A t \in Tasks : Exists(t)' => Exists(t) /\ row'[t].id = row[t].id
      BY <1>6, <2>1 DEF Complete, Exists, Row
    <2> QED  BY <1>6, <2>2 DEF Complete, Release
  <1>7. CASE \E isSlow \in BOOLEAN : Fail(w, isSlow)
    BY <1>7 DEF Fail, dbVars, Exists
  <1>8. CASE RescheduleRead(w)
    <2>1. CASE Live(current[w], held[w])
      BY <1>8, <2>1 DEF RescheduleRead, dbVars, Live, Exists
    <2>2. CASE ~Live(current[w], held[w])
      BY <1>8, <2>2, <1>1 DEF RescheduleRead, dbVars
    <2> QED  BY <2>1, <2>2
  <1>9. CASE RescheduleWrite(w)
    <2>1. CASE Live(current[w], held[w])
      <3>1. current[w] \in Tasks /\ row[current[w]] \in Row
        BY <1>9, <2>1 DEF RescheduleWrite, Live, Exists
      <3>2. Rescheduled(row[current[w]], seen[w], slow[w]).id = row[current[w]].id
        BY <3>1 DEF Rescheduled, Row
      <3>3. \A t \in Tasks : Exists(t)' => Exists(t) /\ row'[t].id = row[t].id
        BY <1>9, <2>1, <3>1, <3>2 DEF RescheduleWrite, Live, Exists
      <3> QED  BY <1>9, <2>1, <3>3 DEF RescheduleWrite, Release
    <2>2. CASE ~Live(current[w], held[w])
      BY <1>9, <2>2, <1>1 DEF RescheduleWrite
    <2> QED  BY <2>1, <2>2
  <1>10. CASE CrashWorker(w)
    BY <1>10, <1>1 DEF CrashWorker, dbVars
  <1> QED
    BY <1>2, <1>3, <1>4, <1>5, <1>6, <1>7, <1>8, <1>9, <1>10 DEF WorkerStep

\* The job inserts rows under new ids only; it, the purge and the clock leave the
\* workers alone.
LEMMA OtherHoldsKnownRow ==
    ASSUME IInv, [Next]_vars, ~\E w \in Workers : WorkerStep(w) \/ CrashWorker(w)
    PROVE  HoldsKnownRow' /\ UNCHANGED workerVars
  <1> USE NoRowAssumption DEF NoRowAssumption
  <1> USE DEF IInv, TypeOK, HoldsKnownRow, Holding
  <1>1. ASSUME NEW c \in Collectors, NEW t \in Tasks, CollectStores(c, t)
        PROVE  HoldsKnownRow' /\ UNCHANGED workerVars
    BY <1>1 DEF CollectStores, workerVars, Exists
  <1>2. ASSUME NEW c \in Collectors, NEW t \in Tasks, NEW isSlow \in BOOLEAN,
               CollectFails(c, t, isSlow)
        PROVE  HoldsKnownRow' /\ UNCHANGED workerVars
    BY <1>2 DEF CollectFails, dbVars, workerVars, Exists
  <1>3. ASSUME NEW c \in Collectors, EnqueueRetry(c)
        PROVE  HoldsKnownRow' /\ UNCHANGED workerVars
    <2>1. \A t \in Tasks : Exists(t)' =>
              (Exists(t) /\ row'[t].id = row[t].id) \/ row'[t].id = inserted'
      BY <1>3 DEF EnqueueRetry, Exists
    <2>2. inserted <= inserted' /\ inserted' \in Nat  BY <1>3 DEF EnqueueRetry
    <2>3. UNCHANGED workerVars  BY <1>3 DEF EnqueueRetry
    <2>4. \A t \in Tasks : Exists(t) => row[t].id \in Nat  BY DEF Exists, Row
    <2> QED  BY <2>1, <2>2, <2>3, <2>4 DEF workerVars
  <1>4. ASSUME NEW c \in Collectors, CrashCollector(c)
        PROVE  HoldsKnownRow' /\ UNCHANGED workerVars
    BY <1>4 DEF CrashCollector, dbVars, workerVars, Exists
  <1>5. ASSUME NEW t \in Tasks, Purge(t)
        PROVE  HoldsKnownRow' /\ UNCHANGED workerVars
    BY <1>5 DEF Purge, workerVars, Exists
  <1>6. CASE ChangeAccounts
    BY <1>6 DEF ChangeAccounts, dbVars, workerVars, Exists
  <1>7. CASE Tick
    <2>1. \A t \in Tasks : Exists(t)' => Exists(t) /\ row'[t].id = row[t].id
      <3> SUFFICES ASSUME NEW t \in Tasks, Exists(t)'
                   PROVE  Exists(t) /\ row'[t].id = row[t].id
        OBVIOUS
      <3>1. Exists(t)  BY <1>7 DEF Tick, Exists
      <3>2. row'[t] = [row[t] EXCEPT !.wait = Minus1(@), !.age = Smaller(Retention, @ + 1)]
        BY <1>7, <3>1 DEF Tick
      <3>3. row[t] \in Row  BY <3>1 DEF Exists
      <3> QED  BY <3>1, <3>2, <3>3 DEF Row
    <2> QED  BY <1>7, <2>1 DEF Tick, workerVars
  <1>8. CASE UNCHANGED vars
    BY <1>8 DEF vars, dbVars, workerVars, Exists
  <1> QED
    BY <1>1, <1>2, <1>3, <1>4, <1>5, <1>6, <1>7, <1>8 DEF Next, CollectorStep
\* What a step does to a row that another worker's handler owns: nothing.
LEMMA HandledRowKept ==
    ASSUME IInv, [Next]_vars, NEW v \in Workers, pc[v] = "handling",
           ~(WorkerStep(v) \/ CrashWorker(v))
    PROVE  /\ Live(current[v], held[v])'
           /\ row'[current[v]].status = "PENDING" /\ row'[current[v]].wait = 0
           /\ current'[v] = current[v] /\ held'[v] = held[v] /\ pc'[v] = pc[v]
  <1> USE NoRowAssumption DEF NoRowAssumption
  <1> USE DEF IInv, TypeOK
  <1> DEFINE t == current[v]
  <1>1. /\ t \in Tasks /\ Live(t, held[v]) /\ row[t] \in Row
        /\ row[t].status = "PENDING" /\ row[t].wait = 0
    BY DEF HandlerOwnsDueTask, HoldsKnownRow, Holding, Live, Exists
  <1> DEFINE Kept == /\ current'[v] = current[v] /\ held'[v] = held[v] /\ pc'[v] = pc[v]
  <1>2. CASE row'[t] = row[t] /\ Kept
    BY <1>1, <1>2 DEF Live, Exists
  <1>3. ASSUME NEW w \in Workers, w # v, WorkerStep(w) \/ CrashWorker(w)
        PROVE  row'[t] = row[t] /\ Kept
    <2>1. current[w] # t \/ pc[w] # "handling"
      BY <1>3 DEF HandlerOwnsDueTask
    <2>2. ASSUME AbortDrain(w) PROVE Kept
      BY <1>3, <2>2 DEF AbortDrain, Release
    <2>3. CASE StartDrain(w)  BY <1>3, <2>3 DEF StartDrain, dbVars
    <2>4. CASE FinishDrain(w)  BY <1>3, <2>4 DEF FinishDrain, dbVars
    <2>5. CASE Claim(w)  BY <1>3, <2>5 DEF Claim, dbVars
    <2>6. CASE Skip(w)  BY <1>3, <2>6 DEF Skip, dbVars
    <2>7. CASE Complete(w)
      BY <1>3, <2>1, <2>7 DEF Complete, Release
    <2>8. CASE \E isSlow \in BOOLEAN : Fail(w, isSlow)
      BY <1>3, <2>8 DEF Fail, dbVars
    <2>9. CASE RescheduleRead(w)
      BY <1>3, <2>2, <2>9 DEF RescheduleRead, dbVars
    <2>10. CASE RescheduleWrite(w)
      <3>1. current[w] # t  BY <2>10 DEF RescheduleWrite, Locked
      <3>2. CASE Live(current[w], held[w])
        <4>1. row'[t] = row[t]
          <5>1. row' = [row EXCEPT ![current[w]] =
                            Rescheduled(row[current[w]], seen[w], slow[w])]
            BY <2>10, <3>2 DEF RescheduleWrite
          <5> QED  BY <1>1, <3>1, <5>1
        <4>2. Kept  BY <1>3, <2>10, <3>2 DEF RescheduleWrite, Release
        <4> QED  BY <4>1, <4>2
      <3>3. CASE ~Live(current[w], held[w])
        BY <2>2, <2>10, <3>3 DEF RescheduleWrite
      <3> QED  BY <3>2, <3>3
    <2>11. CASE CrashWorker(w)
      BY <1>3, <2>2, <2>11 DEF CrashWorker, dbVars
    <2> QED
      BY <1>3, <2>3, <2>4, <2>5, <2>6, <2>7, <2>8, <2>9, <2>10, <2>11 DEF WorkerStep
  <1>4. CASE \E w \in Workers : WorkerStep(w) \/ CrashWorker(w)
    BY <1>2, <1>3, <1>4
  <1>5. CASE ~\E w \in Workers : WorkerStep(w) \/ CrashWorker(w)
    <2>1. Kept  BY <1>5, OtherHoldsKnownRow DEF workerVars
    <2>2. ASSUME NEW c \in Collectors, NEW u \in Tasks, CollectStores(c, u)
          PROVE  row' = row
      BY <2>2 DEF CollectStores
    <2>3. ASSUME NEW c \in Collectors, NEW u \in Tasks, NEW isSlow \in BOOLEAN,
                 CollectFails(c, u, isSlow)
          PROVE  row' = row
      BY <2>3 DEF CollectFails, dbVars
    <2>4. ASSUME NEW c \in Collectors, EnqueueRetry(c)  PROVE row'[t] = row[t]
      BY <1>1, <2>4 DEF EnqueueRetry, Live
    <2>5. ASSUME NEW c \in Collectors, CrashCollector(c)  PROVE row' = row
      BY <2>5 DEF CrashCollector, dbVars
    <2>6. ASSUME NEW u \in Tasks, Purge(u)  PROVE row'[t] = row[t]
      BY <1>1, <2>6 DEF Purge, Terminal
    <2>7. CASE ChangeAccounts \/ UNCHANGED vars
      <3>1. row' = row  BY <2>7 DEF ChangeAccounts, vars, dbVars
      <3> QED  BY <1>2, <2>1, <3>1
    <2>8. CASE Tick
      <3>1. row'[t] = [row[t] EXCEPT !.wait = Minus1(@), !.age = Smaller(Retention, @ + 1)]
        BY <1>1, <2>8 DEF Tick, Live
      <3>2. /\ row'[t].id = row[t].id /\ row'[t].status = "PENDING"
            /\ row'[t].wait = 0 /\ row'[t] \in Row \cup {NoRow}
        <4>1. row'[t].wait = Minus1(row[t].wait)  BY <1>1, <3>1 DEF Row
        <4>2. TypeOK'  BY NextType
        <4> QED  BY <1>1, <3>1, <4>1, <4>2 DEF Row, Minus1
      <3>3. row'[t] # NoRow
        <4>1. [row[t] EXCEPT !.wait = Minus1(@), !.age = Smaller(Retention, @ + 1)] \in Row
          <5>1. Minus1(row[t].wait) \in Nat  BY <1>1 DEF Row, Minus1
          <5>2. Smaller(Retention, row[t].age + 1) \in Nat
            BY <1>1, ConstantsAssumption DEF Row, Smaller, ConstantsAssumption
          <5> QED  BY <1>1, <5>1, <5>2 DEF Row
        <4> QED  BY <3>1, <4>1
      <3> QED  BY <1>1, <2>1, <3>2, <3>3 DEF Live, Exists
    <2> QED
      BY <1>2, <1>5, <2>1, <2>2, <2>3, <2>4, <2>5, <2>6, <2>7, <2>8
         DEF Next, CollectorStep
  <1> QED  BY <1>4, <1>5
\* No step takes the row from under a running handler: the row lock keeps the
\* other claims and reschedules out, the purge and the job leave PENDING rows alone.
LEMMA NextHandlerOwns == IInv /\ [Next]_vars => HandlerOwnsDueTask'
  <1> SUFFICES ASSUME IInv, [Next]_vars PROVE HandlerOwnsDueTask'  OBVIOUS
  <1> USE NoRowAssumption DEF NoRowAssumption
  <1> DEFINE Owns(v) == /\ Live(current[v], held[v])
                        /\ row[current[v]].status = "PENDING"
                        /\ row[current[v]].wait = 0
  \* A worker is in a handler because it was, or because it has just claimed.
  <1>1. ASSUME NEW v \in Workers, pc'[v] = "handling", WorkerStep(v) \/ CrashWorker(v)
        PROVE  Claim(v)
    BY <1>1 DEF WorkerStep, StartDrain, FinishDrain, Skip, Complete, Fail, RescheduleRead,
                RescheduleWrite, CrashWorker, AbortDrain, IInv, TypeOK, PCs
  <1>2. ASSUME NEW v \in Workers, pc'[v] = "handling", ~(WorkerStep(v) \/ CrashWorker(v))
        PROVE  pc[v] = "handling"
    <2>1. ASSUME NEW w \in Workers, w # v, WorkerStep(w) \/ CrashWorker(w)
          PROVE  pc'[v] = pc[v]
      BY <2>1 DEF WorkerStep, StartDrain, FinishDrain, Claim, Skip, Complete, Fail,
                  RescheduleRead, RescheduleWrite, CrashWorker, AbortDrain, IInv, TypeOK
    <2>2. CASE ~\E w \in Workers : WorkerStep(w) \/ CrashWorker(w)
      BY <1>2, <2>2, OtherHoldsKnownRow DEF workerVars
    <2> QED  BY <1>2, <2>1, <2>2
  \* A claim finds its row due and unlocked.
  <1>3. ASSUME NEW v \in Workers, Claim(v)
        PROVE  /\ Owns(v)'
               /\ \A u \in Workers \ {v} :
                    /\ pc'[u] = pc[u] /\ current'[u] = current[u]
                    /\ pc[u] = "handling" => current[u] # current'[v]
    <2>1. PICK e \in batch[v] :
             /\ Live(e[1], e[2]) /\ Claimable(e[1]) /\ ~Locked(e[1])
             /\ current' = [current EXCEPT ![v] = e[1]]
             /\ held' = [held EXCEPT ![v] = e[2]]
      BY <1>3 DEF Claim
    <2>2. current'[v] = e[1] /\ held'[v] = e[2] /\ row' = row
      BY <1>3, <2>1 DEF Claim, dbVars, IInv, TypeOK
    <2>3. Owns(v)'  BY <2>1, <2>2 DEF Live, Exists, Claimable
    <2>4. ASSUME NEW u \in Workers \ {v}
          PROVE  /\ pc'[u] = pc[u] /\ current'[u] = current[u]
                 /\ pc[u] = "handling" => current[u] # current'[v]
      BY <1>3, <2>1, <2>2 DEF Claim, Locked, IInv, TypeOK
    <2> QED  BY <2>3, <2>4
  <1>4. ASSUME NEW v \in Workers, pc'[v] = "handling"  PROVE Owns(v)'
    <2>1. CASE WorkerStep(v) \/ CrashWorker(v)  BY <1>1, <1>3, <1>4, <2>1
    <2>2. CASE ~(WorkerStep(v) \/ CrashWorker(v))
      <3>1. pc[v] = "handling"  BY <1>2, <1>4, <2>2
      <3> QED  BY <2>2, <3>1, HandledRowKept
    <2> QED  BY <2>1, <2>2
  <1>5. ASSUME NEW v \in Workers, NEW u \in Workers \ {v},
               pc'[v] = "handling", pc'[u] = "handling"
        PROVE  current'[u] # current'[v]
    <2>1. CASE Claim(v)  BY <1>3, <1>5, <2>1
    <2>2. CASE Claim(u)  BY <1>3, <1>5, <2>2
    <2>3. CASE ~Claim(v) /\ ~Claim(u)
      <3>1. ~(WorkerStep(v) \/ CrashWorker(v)) /\ ~(WorkerStep(u) \/ CrashWorker(u))
        BY <1>1, <1>5, <2>3
      <3>2. pc[v] = "handling" /\ pc[u] = "handling"  BY <1>2, <1>5, <3>1
      <3>3. current'[v] = current[v] /\ current'[u] = current[u]
        BY <3>1, <3>2, HandledRowKept
      <3> QED  BY <3>2, <3>3 DEF IInv, HandlerOwnsDueTask
    <2> QED  BY <2>1, <2>2, <2>3
  <1> QED  BY <1>4, <1>5 DEF HandlerOwnsDueTask
-----------------------------------------------------------------------------
(* The attempts stay counted.                                               *)

\* A step that adds no pending attempt to t and leaves what was counted alone.
LEMMA CountedFrame ==
    ASSUME IInv, TypeOK', NEW t \in Tasks, Exists(t), Exists(t)',
           Pending(t)' \subseteq Pending(t),
           row'[t].attempts = row[t].attempts, row'[t].status = row[t].status,
           failures'[t] = failures[t],
           \A w \in Pending(t)' : pc'[w] = "rescheduling" =>
                \/ pc[w] = "rescheduling" /\ seen'[w] = seen[w]
                \/ seen'[w].attempts = row[t].attempts
    PROVE  CountedAt(t)'
  <1> DEFINE due == Cardinality(Pending(t))
             duePrime == Cardinality(Pending(t)')
  <1>1. due \in Nat /\ duePrime \in Nat /\ duePrime <= due
    <2>1. IsFiniteSet(Pending(t)) /\ due \in Nat  BY PendingFinite
    <2> QED  BY <2>1, FS_Subset, FS_CardinalityType
  <1>2. CountedAt(t)  BY DEF IInv, Counted
  <1>3. row[t] \in Row /\ failures[t] \in Nat  BY DEF IInv, TypeOK, Exists
  <1>4. row[t].attempts + duePrime <= failures[t]
    BY <1>1, <1>2, <1>3 DEF CountedAt, Row
  <1>5. ASSUME NEW w \in Pending(t)', pc'[w] = "rescheduling"
        PROVE  seen'[w].attempts + duePrime <= failures[t]
    <2>1. CASE seen'[w].attempts = row[t].attempts
      BY <1>4, <2>1
    <2>2. CASE pc[w] = "rescheduling" /\ seen'[w] = seen[w]
      <3>1. w \in Pending(t) /\ seen[w] \in Row
        BY <2>2 DEF IInv, HoldsKnownRow, Pending
      <3>2. seen[w].attempts + due <= failures[t]
        BY <1>2, <2>2, <3>1 DEF CountedAt
      <3> QED  BY <1>1, <1>3, <2>2, <3>1, <3>2 DEF Row
    <2> QED  BY <1>5, <2>1, <2>2
  <1> QED  BY <1>2, <1>4, <1>5 DEF CountedAt

\* A failing handler is one more pending attempt and one more failure.
LEMMA FailCounted ==
    ASSUME IInv, TypeOK', NEW w \in Workers, NEW isSlow \in BOOLEAN, Fail(w, isSlow)
    PROVE  Counted'
  <1> USE DEF IInv, TypeOK
  <1>1. SUFFICES ASSUME NEW t \in Tasks, Exists(t)'  PROVE CountedAt(t)'
    BY DEF Counted
  <1>2. row' = row /\ Exists(t) /\ seen' = seen /\ current' = current /\ held' = held
    BY <1>1 DEF Fail, dbVars, Exists
  <1>3. CASE current[w] # t
    <2>1. Pending(t)' = Pending(t)
      BY <1>2, <1>3 DEF Fail, Pending, Refusing, Live, Exists
    <2>2. failures'[t] = failures[t]  BY <1>3 DEF Fail
    <2>3. \A v \in Pending(t)' : pc'[v] = "rescheduling" => pc[v] = "rescheduling"
      BY DEF Fail, Pending
    <2> QED  BY <1>1, <1>2, <2>1, <2>2, <2>3, CountedFrame
  <1>4. CASE current[w] = t
    <2>1. Live(t, held[w])  BY <1>4 DEF Fail, HandlerOwnsDueTask
    <2>2. w \notin Pending(t)  BY DEF Fail, Pending, Refusing
    <2>3. Pending(t)' = Pending(t) \cup {w}
      BY <1>2, <1>4, <2>1 DEF Fail, Pending, Refusing, Live, Exists
    <2>4. /\ Cardinality(Pending(t)) \in Nat
          /\ Cardinality(Pending(t)') = Cardinality(Pending(t)) + 1
      <3>1. IsFiniteSet(Pending(t)) /\ Cardinality(Pending(t)) \in Nat
        BY PendingFinite
      <3>2. Cardinality(Pending(t) \cup {w}) = Cardinality(Pending(t)) + 1
        BY <2>2, <3>1, FS_AddElement
      <3> QED  BY <2>3, <3>1, <3>2
    <2>5. failures'[t] = failures[t] + 1 /\ failures[t] \in Nat
      BY <1>4 DEF Fail
    <2>6. CountedAt(t) /\ row[t] \in Row  BY <1>2 DEF Counted, Exists
    <2>7. ASSUME NEW v \in Pending(t)', pc'[v] = "rescheduling"
          PROVE  seen[v].attempts + Cardinality(Pending(t)') <= failures'[t]
      <3>1. v # w /\ v \in Pending(t) /\ pc[v] = "rescheduling"
        BY <2>3, <2>7 DEF Fail, Pending
      <3>2. seen[v] \in Row  BY <3>1 DEF HoldsKnownRow, Pending
      <3>3. seen[v].attempts + Cardinality(Pending(t)) <= failures[t]
        BY <2>6, <3>1 DEF CountedAt
      <3> QED  BY <2>4, <2>5, <3>2, <3>3 DEF Row
    <2>8. row[t].attempts + Cardinality(Pending(t)') <= failures'[t]
      BY <2>4, <2>5, <2>6 DEF CountedAt, Row
    <2>9. row[t].status = "FAILED" => MaxAttempts <= failures'[t]
      BY <2>5, <2>6, ConstantsAssumption DEF CountedAt, ConstantsAssumption
    <2> QED  BY <1>2, <2>7, <2>8, <2>9 DEF CountedAt
  <1> QED  BY <1>3, <1>4

\* A reschedule turns a pending attempt into a written one.
LEMMA WriteCounted ==
    ASSUME IInv, TypeOK', NEW w \in Workers, RescheduleWrite(w), Live(current[w], held[w])
    PROVE  Counted'
  <1> USE DEF IInv, TypeOK
  <1>1. SUFFICES ASSUME NEW t \in Tasks, Exists(t)'  PROVE CountedAt(t)'
    BY DEF Counted
  <1>2. /\ row' = [row EXCEPT ![current[w]] = Rescheduled(@, seen[w], slow[w])]
        /\ pc' = [pc EXCEPT ![w] = "draining"] /\ Release(w) /\ failures' = failures
    BY DEF RescheduleWrite, history
  <1>3. /\ pc[w] = "rescheduling" /\ current[w] \in Tasks /\ seen[w] \in Row
        /\ row[current[w]] \in Row
    BY DEF RescheduleWrite, HoldsKnownRow, Holding, Live, Exists
  <1>4. \A u \in Tasks : Exists(u)' => Exists(u) /\ row'[u].id = row[u].id
    <2>1. Rescheduled(row[current[w]], seen[w], slow[w]).id = row[current[w]].id
      BY <1>3 DEF Rescheduled, Row
    <2> QED  BY <1>2, <1>3, <2>1 DEF Live, Exists
  <1>5. Pending(t)' = Pending(t) \ {w}
    <2>1. ASSUME NEW v \in Workers, v # w
          PROVE  /\ pc'[v] = pc[v] /\ current'[v] = current[v]
                 /\ held'[v] = held[v] /\ seen'[v] = seen[v]
      BY <1>2, <2>1 DEF Release
    <2>2. ~Refusing(w)'  BY <1>2 DEF Refusing
    <2> QED  BY <1>1, <1>4, <2>1, <2>2 DEF Pending, Refusing, Live, Exists
  <1>6. \A v \in Pending(t)' : v # w /\ pc'[v] = pc[v] /\ seen'[v] = seen[v]
    BY <1>2, <1>5 DEF Pending, Release
  <1>7. CASE current[w] # t
    <2>1. row'[t] = row[t]  BY <1>2, <1>7
    <2> QED  BY <1>1, <1>2, <1>4, <1>5, <1>6, <2>1, CountedFrame
  <1>8. CASE current[w] = t
    <2> DEFINE due == Cardinality(Pending(t))
               duePrime == Cardinality(Pending(t)')
               n == seen[w].attempts + 1
    <2>1. w \in Pending(t)  BY <1>3, <1>8 DEF Pending, Refusing
    <2>2. due \in Nat /\ duePrime \in Nat /\ duePrime + 1 = due
      <3>1. IsFiniteSet(Pending(t)) /\ due \in Nat  BY PendingFinite
      <3>2. IsFiniteSet(Pending(t) \ {w}) /\ Cardinality(Pending(t) \ {w}) = due - 1
        BY <2>1, <3>1, FS_RemoveElement
      <3>3. duePrime \in Nat  BY <1>5, <3>2, FS_CardinalityType
      <3> QED  BY <1>5, <3>1, <3>2, <3>3
    <2>3. CountedAt(t)  BY <1>1, <1>4 DEF Counted
    <2>4. n + duePrime <= failures[t] /\ n \in Nat /\ failures[t] \in Nat
      <3>1. seen[w].attempts + due <= failures[t]
        BY <1>3, <2>1, <2>3 DEF CountedAt
      <3> QED  BY <1>3, <2>2, <3>1 DEF Row
    <2>5. row'[t].attempts = n
      BY <1>2, <1>3, <1>8 DEF Rescheduled, Row
    <2>6. ASSUME NEW v \in Pending(t)', pc'[v] = "rescheduling"
          PROVE  seen'[v].attempts + duePrime <= failures[t]
      <3>1. v \in Pending(t) /\ pc[v] = "rescheduling" /\ seen'[v] = seen[v]
        BY <1>5, <1>6, <2>6
      <3>2. seen[v].attempts + due <= failures[t] /\ seen[v] \in Row
        BY <2>3, <3>1 DEF CountedAt, HoldsKnownRow, Pending
      <3> QED  BY <2>2, <2>4, <3>1, <3>2 DEF Row
    <2>7. row'[t].status = "FAILED" => MaxAttempts <= failures[t]
      <3>1. CASE row[t].status = "FAILED"
        BY <2>3, <3>1 DEF CountedAt
      <3>2. CASE row[t].status # "FAILED" /\ row'[t].status = "FAILED"
        <4>1. n >= MaxAttempts
          BY <1>2, <1>3, <1>8, <3>2 DEF Rescheduled, Row
        <4> QED
          BY <2>2, <2>4, <4>1, ConstantsAssumption DEF ConstantsAssumption
      <3> QED  BY <3>1, <3>2
    <2> QED  BY <1>2, <2>4, <2>5, <2>6, <2>7 DEF CountedAt
  <1> QED  BY <1>7, <1>8
\* A step that keeps the rows' counts, the failures and every worker's task,
\* and adds no refusing worker.
LEMMA QuietCounted ==
    ASSUME IInv, TypeOK',
           \A t \in Tasks : Exists(t)' =>
                /\ Exists(t) /\ failures'[t] = failures[t]
                /\ row'[t].id = row[t].id /\ row'[t].attempts = row[t].attempts
                /\ row'[t].status = row[t].status \/ row'[t].status = "COMPLETED",
           \A w \in Workers : Refusing(w)' =>
                /\ Refusing(w) /\ current'[w] = current[w] /\ held'[w] = held[w]
                /\ pc'[w] = pc[w] /\ seen'[w] = seen[w]
    PROVE  Counted'
  <1>1. SUFFICES ASSUME NEW t \in Tasks, Exists(t)'  PROVE CountedAt(t)'
    BY DEF Counted
  <1>2. Exists(t) /\ CountedAt(t)  BY <1>1 DEF IInv, Counted
  <1>3. Pending(t)' \subseteq Pending(t)
    BY <1>1, <1>2 DEF Pending, Live, Exists
  <1>4. \A w \in Pending(t)' : pc'[w] = "rescheduling" =>
            pc[w] = "rescheduling" /\ seen'[w] = seen[w]
    BY DEF Pending
  <1>5. CASE row'[t].status = row[t].status
    BY <1>1, <1>2, <1>3, <1>4, <1>5, CountedFrame
  <1>6. CASE row'[t].status = "COMPLETED"
    <2>1. IsFiniteSet(Pending(t)) /\ Cardinality(Pending(t)) \in Nat  BY PendingFinite
    <2>2. /\ Cardinality(Pending(t)') \in Nat
          /\ Cardinality(Pending(t)') <= Cardinality(Pending(t))
      BY <1>3, <2>1, FS_Subset, FS_CardinalityType
    <2>3. row[t] \in Row /\ failures[t] \in Nat  BY <1>2 DEF IInv, TypeOK, Exists
    <2>0. failures'[t] = failures[t] /\ row'[t].attempts = row[t].attempts
      BY <1>1
    <2>4. row'[t].attempts + Cardinality(Pending(t)') <= failures'[t]
      <3>1. row[t].attempts + Cardinality(Pending(t)) <= failures[t]
        BY <1>2 DEF CountedAt
      <3> QED  BY <2>0, <2>1, <2>2, <2>3, <3>1 DEF Row
    <2>5. ASSUME NEW w \in Pending(t)', pc'[w] = "rescheduling"
          PROVE  seen'[w].attempts + Cardinality(Pending(t)') <= failures'[t]
      <3>1. w \in Pending(t) /\ pc[w] = "rescheduling" /\ seen'[w] = seen[w]
        BY <1>3, <1>4, <2>5
      <3>2. seen[w] \in Row  BY <3>1 DEF IInv, HoldsKnownRow, Pending
      <3>3. seen[w].attempts + Cardinality(Pending(t)) <= failures[t]
        BY <1>2, <3>1 DEF CountedAt
      <3> QED  BY <2>0, <2>1, <2>2, <2>3, <3>1, <3>2, <3>3 DEF Row
    <2> QED  BY <1>6, <2>4, <2>5 DEF CountedAt
  <1> QED  BY <1>1, <1>5, <1>6

\* Every step of a drain keeps the count: a failure is counted when it happens and
\* written at most once.
LEMMA WorkerCounted ==
    ASSUME IInv, TypeOK', NEW w \in Workers, WorkerStep(w) \/ CrashWorker(w)
    PROVE  Counted'
  <1> USE DEF IInv, TypeOK
  <1> DEFINE SameRows == row' = row /\ failures' = failures
             NoNewPending ==
                \A v \in Workers : Refusing(v)' =>
                    /\ Refusing(v) /\ current'[v] = current[v] /\ held'[v] = held[v]
                    /\ pc'[v] = pc[v] /\ seen'[v] = seen[v]
  <1>1. ASSUME SameRows, NoNewPending  PROVE Counted'
    <2>1. \A t \in Tasks : Exists(t)' =>
                /\ Exists(t) /\ failures'[t] = failures[t]
                /\ row'[t].id = row[t].id /\ row'[t].attempts = row[t].attempts
                /\ row'[t].status = row[t].status
      BY <1>1 DEF Exists
    <2> QED  BY <1>1, <2>1, QuietCounted
  <1>2. ASSUME AbortDrain(w)  PROVE NoNewPending
    BY <1>2 DEF AbortDrain, Release, Refusing
  <1>3. CASE StartDrain(w)
    BY <1>1, <1>3 DEF StartDrain, dbVars, history, Refusing
  <1>4. CASE FinishDrain(w)
    BY <1>1, <1>4 DEF FinishDrain, dbVars, history, Refusing
  <1>5. CASE Claim(w)
    <2>1. PICK e \in batch[w] : /\ current' = [current EXCEPT ![w] = e[1]]
                                /\ held' = [held EXCEPT ![w] = e[2]]
      BY <1>5 DEF Claim
    <2> QED  BY <1>1, <1>5, <2>1 DEF Claim, dbVars, history, Refusing
  <1>6. CASE Skip(w)
    BY <1>1, <1>6 DEF Skip, dbVars, history, Refusing
  <1>7. CASE Complete(w)
    <2>1. current[w] \in Tasks /\ row[current[w]] \in Row
      BY <1>7 DEF Complete, HandlerOwnsDueTask, Live, Exists
    <2>2. \A t \in Tasks : Exists(t)' =>
                /\ Exists(t) /\ failures'[t] = failures[t]
                /\ row'[t].id = row[t].id /\ row'[t].attempts = row[t].attempts
                /\ row'[t].status = row[t].status \/ row'[t].status = "COMPLETED"
      <3> SUFFICES ASSUME NEW t \in Tasks, Exists(t)'
                   PROVE  /\ Exists(t) /\ failures'[t] = failures[t]
                          /\ row'[t].id = row[t].id /\ row'[t].attempts = row[t].attempts
                          /\ row'[t].status = row[t].status \/ row'[t].status = "COMPLETED"
        OBVIOUS
      <3>1. failures' = failures  BY <1>7 DEF Complete
      <3>2. row' = [row EXCEPT ![current[w]] = [row[current[w]] EXCEPT !.status = "COMPLETED"]]
        BY <1>7 DEF Complete
      <3>3. CASE t = current[w]
        BY <1>7, <2>1, <3>1, <3>2, <3>3 DEF Row, Complete, HandlerOwnsDueTask, Live
      <3>4. CASE t # current[w]
        BY <3>1, <3>2, <3>4 DEF Exists
      <3> QED  BY <3>3, <3>4
    <2>3. NoNewPending  BY <1>7 DEF Complete, Release, Refusing
    <2> QED  BY <2>2, <2>3, QuietCounted
  <1>8. CASE \E isSlow \in BOOLEAN : Fail(w, isSlow)
    BY <1>8, FailCounted
  <1>9. CASE RescheduleRead(w)
    <2>1. CASE Live(current[w], held[w])
      <3>1. SUFFICES ASSUME NEW t \in Tasks, Exists(t)'  PROVE CountedAt(t)'
        BY DEF Counted
      <3>2. /\ pc[w] = "failed" /\ pc' = [pc EXCEPT ![w] = "rescheduling"]
            /\ seen' = [seen EXCEPT ![w] = row[current[w]]]
            /\ row' = row /\ failures' = failures /\ current' = current /\ held' = held
        BY <1>9, <2>1 DEF RescheduleRead, dbVars, history
      <3>3. Pending(t)' = Pending(t)
        BY <3>2 DEF Pending, Refusing, Live, Exists
      <3>4. \A v \in Pending(t)' : pc'[v] = "rescheduling" =>
                \/ pc[v] = "rescheduling" /\ seen'[v] = seen[v]
                \/ seen'[v].attempts = row[t].attempts
        BY <3>2, <3>3 DEF Pending
      <3>5. Exists(t)  BY <3>1, <3>2 DEF Exists
      <3> QED  BY <3>1, <3>2, <3>3, <3>4, <3>5, CountedFrame
    <2>2. CASE ~Live(current[w], held[w])
      BY <1>1, <1>2, <1>9, <2>2 DEF RescheduleRead, dbVars, history
    <2> QED  BY <2>1, <2>2
  <1>10. CASE RescheduleWrite(w)
    <2>1. CASE Live(current[w], held[w])
      BY <1>10, <2>1, WriteCounted
    <2>2. CASE ~Live(current[w], held[w])
      BY <1>1, <1>2, <1>10, <2>2 DEF RescheduleWrite, history
    <2> QED  BY <2>1, <2>2
  <1>11. CASE CrashWorker(w)
    BY <1>1, <1>2, <1>11 DEF CrashWorker, dbVars, history
  <1> QED
    BY <1>3, <1>4, <1>5, <1>6, <1>7, <1>8, <1>9, <1>10, <1>11 DEF WorkerStep
\* A new row starts the count again; the other steps leave it alone.
LEMMA OtherCounted ==
    ASSUME IInv, TypeOK', [Next]_vars, ~\E w \in Workers : WorkerStep(w) \/ CrashWorker(w)
    PROVE  Counted'
  <1> USE DEF IInv, TypeOK
  <1>1. UNCHANGED workerVars  BY OtherHoldsKnownRow
  <1>2. \A v \in Workers : Refusing(v)' =>
            /\ Refusing(v) /\ current'[v] = current[v] /\ held'[v] = held[v]
            /\ pc'[v] = pc[v] /\ seen'[v] = seen[v]
    BY <1>1 DEF workerVars, Refusing
  <1>3. ASSUME row' = row, failures' = failures  PROVE Counted'
    <2>1. \A t \in Tasks : Exists(t)' =>
                /\ Exists(t) /\ failures'[t] = failures[t]
                /\ row'[t].id = row[t].id /\ row'[t].attempts = row[t].attempts
                /\ row'[t].status = row[t].status
      BY <1>3 DEF Exists
    <2> QED  BY <1>2, <2>1, QuietCounted
  <1>4. ASSUME NEW c \in Collectors, NEW t \in Tasks, CollectStores(c, t)  PROVE Counted'
    BY <1>3, <1>4 DEF CollectStores, history
  <1>5. ASSUME NEW c \in Collectors, NEW t \in Tasks, NEW isSlow \in BOOLEAN,
               CollectFails(c, t, isSlow)
        PROVE  Counted'
    BY <1>3, <1>5 DEF CollectFails, dbVars, history
  <1>6. ASSUME NEW c \in Collectors, EnqueueRetry(c)  PROVE Counted'
    <2> DEFINE u == deferring[c][1]
    <2>1. u \in Tasks  BY <1>6 DEF EnqueueRetry
    <2>2. CASE Exists(u)
      BY <1>3, <1>6, <2>2 DEF EnqueueRetry
    <2>3. CASE ~Exists(u)
      <3>1. SUFFICES ASSUME NEW t \in Tasks, Exists(t)'  PROVE CountedAt(t)'
        BY DEF Counted
      <3>2. CASE t = u
        <4>1. /\ row'[t].attempts = 0 /\ row'[t].status = "PENDING"
              /\ row'[t].id = inserted + 1 /\ failures'[t] = 0
          BY <1>6, <2>1, <2>3, <3>2 DEF EnqueueRetry
        <4>2. Pending(t)' = {}
          BY <1>1, <4>1 DEF Pending, Live, HoldsKnownRow, workerVars
        <4>3. Cardinality(Pending(t)') = 0  BY <4>2, FS_EmptySet
        <4> QED  BY <4>1, <4>2, <4>3 DEF CountedAt
      <3>3. CASE t # u
        <4>1. row'[t] = row[t] /\ failures'[t] = failures[t]
          BY <1>6, <2>1, <2>3, <3>3 DEF EnqueueRetry
        <4>2. Exists(t)  BY <3>1, <4>1 DEF Exists
        <4>3. Pending(t)' \subseteq Pending(t)
          BY <1>1, <4>1 DEF Pending, Refusing, Live, Exists, workerVars
        <4>4. \A w \in Pending(t)' : pc'[w] = "rescheduling" =>
                  pc[w] = "rescheduling" /\ seen'[w] = seen[w]
          BY <1>1 DEF workerVars
        <4> QED  BY <3>1, <4>1, <4>2, <4>3, <4>4, CountedFrame
      <3> QED  BY <3>2, <3>3
    <2> QED  BY <2>2, <2>3
  <1>7. ASSUME NEW c \in Collectors, CrashCollector(c)  PROVE Counted'
    BY <1>3, <1>7 DEF CrashCollector, dbVars, history
  <1>8. ASSUME NEW u \in Tasks, Purge(u)  PROVE Counted'
    <2>1. \A t \in Tasks : Exists(t)' =>
                /\ Exists(t) /\ failures'[t] = failures[t]
                /\ row'[t].id = row[t].id /\ row'[t].attempts = row[t].attempts
                /\ row'[t].status = row[t].status
      BY <1>8 DEF Purge, Exists, history
    <2> QED  BY <1>2, <2>1, QuietCounted
  <1>9. CASE ChangeAccounts \/ UNCHANGED vars
    BY <1>3, <1>9 DEF ChangeAccounts, vars, dbVars, history
  <1>10. CASE Tick
    <2>1. \A t \in Tasks : Exists(t)' =>
                /\ Exists(t) /\ failures'[t] = failures[t]
                /\ row'[t].id = row[t].id /\ row'[t].attempts = row[t].attempts
                /\ row'[t].status = row[t].status
      <3> SUFFICES ASSUME NEW t \in Tasks, Exists(t)'
                   PROVE  /\ Exists(t) /\ failures'[t] = failures[t]
                          /\ row'[t].id = row[t].id /\ row'[t].attempts = row[t].attempts
                          /\ row'[t].status = row[t].status
        OBVIOUS
      <3>1. Exists(t) /\ failures'[t] = failures[t]  BY <1>10 DEF Tick, Exists
      <3>2. row'[t] = [row[t] EXCEPT !.wait = Minus1(@), !.age = Smaller(Retention, @ + 1)]
        BY <1>10, <3>1 DEF Tick
      <3>3. row[t] \in Row  BY <3>1 DEF Exists
      <3> QED  BY <3>1, <3>2, <3>3 DEF Row
    <2> QED  BY <1>2, <2>1, QuietCounted
  <1> QED
    BY <1>4, <1>5, <1>6, <1>7, <1>8, <1>9, <1>10 DEF Next, CollectorStep

-----------------------------------------------------------------------------
(* The theorems.                                                            *)

\* IInv is inductive: every action keeps types, known rows, row ownership and
\* the attempt count, each of which the others' proofs need.
THEOREM Invariance == Spec => []IInv
  <1>1. IInv /\ [Next]_vars => IInv'
    <2> SUFFICES ASSUME IInv, [Next]_vars  PROVE IInv'  OBVIOUS
    <2>1. TypeOK'  BY NextType
    <2>2. HandlerOwnsDueTask'  BY NextHandlerOwns
    <2>3. CASE \E w \in Workers : WorkerStep(w) \/ CrashWorker(w)
      BY <2>1, <2>2, <2>3, WorkerHoldsKnownRow, WorkerCounted DEF IInv
    <2>4. CASE ~\E w \in Workers : WorkerStep(w) \/ CrashWorker(w)
      BY <2>1, <2>2, <2>4, OtherHoldsKnownRow, OtherCounted DEF IInv
    <2> QED  BY <2>3, <2>4
  <1> QED  BY <1>1, InitIInv, PTL DEF Spec

\* The variables of the queue, the worker and the job keep their types.
THEOREM TypeCorrect == Spec => []TypeOK
  <1>1. IInv => TypeOK  BY DEF IInv
  <1> QED  BY <1>1, Invariance, PTL

\* However many drains run at once, a handler owns a due row alone until its
\* transaction ends (claim's FOR UPDATE SKIP LOCKED in queue.py).
THEOREM HandlerOwnership == Spec => []HandlerOwnsDueTask
  <1>1. IInv => HandlerOwnsDueTask  BY DEF IInv
  <1> QED  BY <1>1, Invariance, PTL

\* However many drains reschedule the same row from stale reads, it is FAILED
\* only after MaxAttempts real failures (reschedule in queue.py).
THEOREM GivenUpLate == Spec => []GivenUpOnlyAfterMaxAttempts
  <1>1. IInv => GivenUpOnlyAfterMaxAttempts
    <2> SUFFICES ASSUME IInv, NEW t \in Tasks, Terminal(t), row[t].status = "FAILED"
                 PROVE  failures[t] >= MaxAttempts
      BY DEF GivenUpOnlyAfterMaxAttempts
    <2>1. MaxAttempts <= failures[t]
      BY DEF IInv, Counted, CountedAt, Terminal
    <2>2. failures[t] \in Nat  BY DEF IInv, TypeOK
    <2> QED  BY <2>1, <2>2, ConstantsAssumption DEF ConstantsAssumption
  <1> QED  BY <1>1, Invariance, PTL

\* What became of a deferred day, task by task; and a row is there only because a
\* day was deferred, so an enqueue that finds one adds no unaccounted day.
AccountedAt(t) ==
    /\ Exists(t) => deferred[t]
    /\ deferred[t] =>
        \/ stored[t]
        \/ silent[t]
        \/ Exists(t) /\ row[t].status = "PENDING"
        \/ (Exists(t) => row[t].status = "FAILED") /\ failures[t] >= MaxAttempts

Accounted == \A t \in Tasks : AccountedAt(t)

\* A row that is FAILED has had its attempts.
LEMMA FailedCounted ==
    ASSUME IInv, NEW t \in Tasks, Exists(t), row[t].status = "FAILED"
    PROVE  failures[t] >= MaxAttempts
  <1>1. MaxAttempts <= failures[t]  BY DEF IInv, Counted, CountedAt
  <1>2. failures[t] \in Nat  BY DEF IInv, TypeOK
  <1> QED  BY <1>1, <1>2, ConstantsAssumption DEF ConstantsAssumption

\* A task stays accounted for when a step defers no new day, takes nothing that
\* was stored or answered back, and leaves its row's status, reopens it or gives
\* it up, or forgets a row that had settled.
LEMMA AccountedFrame ==
    ASSUME IInv, IInv', NEW t \in Tasks, AccountedAt(t),
           deferred'[t] = deferred[t], stored[t] => stored'[t], silent[t] => silent'[t],
           failures[t] <= failures'[t],
           \/ /\ Exists(t)' /\ Exists(t)
              /\ row'[t].status \in {row[t].status, "PENDING", "FAILED"}
           \/ ~Exists(t)' /\ (Exists(t) => Terminal(t))
    PROVE  AccountedAt(t)'
  <1>1. failures[t] \in Nat /\ failures'[t] \in Nat  BY DEF IInv, TypeOK
  <1>2. failures[t] >= MaxAttempts => failures'[t] >= MaxAttempts
    BY <1>1, ConstantsAssumption DEF ConstantsAssumption
  <1>3. CASE stored[t] \/ silent[t]  BY <1>3 DEF AccountedAt
  <1>4. CASE ~(stored[t] \/ silent[t])
    <2>1. ASSUME Exists(t)', row'[t].status = "FAILED"  PROVE failures'[t] >= MaxAttempts
      BY <2>1, FailedCounted, IInv' DEF IInv, Counted, CountedAt, TypeOK
    <2> QED  BY <1>2, <1>4, <2>1, FailedCounted DEF AccountedAt, Terminal
  <1> QED  BY <1>3, <1>4

\* Every step leaves every deferred day accounted for.
LEMMA NextAccounted ==
    ASSUME IInv, IInv', Accounted, [Next]_vars
    PROVE  Accounted'
  <1> USE DEF IInv, TypeOK
  <1>1. SUFFICES ASSUME NEW t \in Tasks  PROVE AccountedAt(t)'
    BY DEF Accounted
  <1>2. AccountedAt(t)  BY DEF Accounted
  <1>3. ASSUME row' = row, stored' = stored, silent' = silent, deferred' = deferred,
               failures'[t] >= failures[t]
        PROVE  AccountedAt(t)'
    BY <1>2, <1>3, AccountedFrame DEF Exists
  <1>4. ASSUME NEW w \in Workers, WorkerStep(w) \/ CrashWorker(w)
        PROVE  AccountedAt(t)'
    <2>1. CASE StartDrain(w) \/ FinishDrain(w) \/ Claim(w) \/ Skip(w)
                \/ RescheduleRead(w) \/ CrashWorker(w)
      <3>1. /\ row' = row /\ stored' = stored /\ silent' = silent /\ deferred' = deferred
            /\ failures' = failures
        BY <2>1 DEF StartDrain, FinishDrain, Claim, Skip, RescheduleRead, CrashWorker, dbVars,
                    history
      <3> QED  BY <1>3, <3>1
    <2>2. CASE \E isSlow \in BOOLEAN : Fail(w, isSlow)
      <3>1. /\ row' = row /\ stored' = stored /\ silent' = silent /\ deferred' = deferred
            /\ failures' = [failures EXCEPT ![current[w]] = @ + 1]
        BY <2>2 DEF Fail, dbVars
      <3>2. failures'[t] >= failures[t]  BY <3>1
      <3> QED  BY <1>3, <3>1, <3>2
    <2>3. CASE Complete(w)
      <3>1. /\ deferred' = deferred /\ failures' = failures
            /\ row' = [row EXCEPT ![current[w]].status = "COMPLETED"]
        BY <2>3 DEF Complete
      <3>2. PICK answered \in BOOLEAN :
                /\ stored' = [stored EXCEPT ![current[w]] = @ \/ answered]
                /\ silent' = [silent EXCEPT ![current[w]] = ~answered]
        BY <2>3 DEF Complete
      <3>3. CASE t = current[w]
        <4>1. Exists(t)  BY <2>3, <3>3 DEF Complete, HandlerOwnsDueTask, Live
        <4>2. stored'[t] \/ silent'[t]  BY <3>2, <3>3
        <4> QED  BY <1>2, <3>1, <4>1, <4>2 DEF AccountedAt
      <3>4. CASE t # current[w]
        <4>1. row'[t] = row[t] /\ stored'[t] = stored[t] /\ silent'[t] = silent[t]
          BY <3>1, <3>2, <3>4
        <4> QED  BY <1>2, <3>1, <4>1 DEF AccountedAt, Exists
      <3> QED  BY <3>3, <3>4
    <2>4. CASE RescheduleWrite(w)
      <3>1. stored' = stored /\ silent' = silent /\ deferred' = deferred /\ failures' = failures
        BY <2>4 DEF RescheduleWrite, history
      <3>2. CASE Live(current[w], held[w])
        <4> DEFINE u == current[w]
        <4>1. u \in Tasks /\ seen[w] \in Row /\ row[u] \in Row /\ Exists(u)
          BY <2>4, <3>2 DEF RescheduleWrite, HoldsKnownRow, Holding, Live, Exists
        <4>2. row' = [row EXCEPT ![u] = Rescheduled(row[u], seen[w], slow[w])]
          BY <2>4, <3>2 DEF RescheduleWrite
        <4>3. CASE t = u
          <5>1. row'[t].status \in {row[t].status, "PENDING", "FAILED"}
            BY <4>1, <4>2, <4>3 DEF Rescheduled, Row
          <5>2. Exists(t)'
            <6>1. slow[w] \in BOOLEAN  OBVIOUS
            <6>2. row'[t] \in Row  BY <4>1, <4>2, <4>3, <6>1, RescheduledType
            <6> QED  BY <6>2, NoRowAssumption DEF NoRowAssumption, Exists
          <5> QED  BY <1>2, <3>1, <4>1, <4>3, <5>1, <5>2, AccountedFrame
        <4>4. CASE t # u
          <5>1. row'[t] = row[t]  BY <4>2, <4>4
          <5> QED  BY <1>2, <3>1, <5>1 DEF AccountedAt, Exists
        <4> QED  BY <4>3, <4>4
      <3>3. CASE ~Live(current[w], held[w])
        BY <1>3, <2>4, <3>1, <3>3 DEF RescheduleWrite
      <3> QED  BY <3>2, <3>3
    <2> QED  BY <1>4, <2>1, <2>2, <2>3, <2>4 DEF WorkerStep
  <1>5. ASSUME NEW c \in Collectors, NEW u \in Tasks, CollectStores(c, u)
        PROVE  AccountedAt(t)'
    <2>1. row' = row /\ silent' = silent /\ deferred' = deferred /\ failures' = failures
      BY <1>5 DEF CollectStores, history
    <2>2. stored[t] => stored'[t]  BY <1>5 DEF CollectStores
    <2> QED  BY <1>2, <2>1, <2>2 DEF AccountedAt, Exists
  <1>6. ASSUME NEW c \in Collectors, EnqueueRetry(c)  PROVE AccountedAt(t)'
    <2> DEFINE u == deferring[c][1]
    <2>1. u \in Tasks  BY <1>6 DEF EnqueueRetry
    <2>2. deferred' = [deferred EXCEPT ![u] = TRUE] /\ stored' = stored
      BY <1>6 DEF EnqueueRetry
    <2>3. CASE Exists(u)
      <3>1. row' = row /\ silent' = silent /\ failures' = failures
        BY <1>6, <2>3 DEF EnqueueRetry
      <3>2. deferred' = deferred
        <4>1. AccountedAt(u)  BY <2>1 DEF Accounted
        <4>2. deferred[u] = TRUE  BY <2>1, <2>3, <4>1 DEF AccountedAt
        <4> QED  BY <2>1, <2>2, <4>2
      <3> QED  BY <1>2, <2>2, <3>1, <3>2 DEF AccountedAt, Exists
    <2>4. CASE ~Exists(u) /\ t = u
      <3>1. row'[t].status = "PENDING" /\ Exists(t)'
        <4>1. PICK first \in Nat :
                  row' = [row EXCEPT ![u] = [status |-> "PENDING", attempts |-> 0,
                                             wait |-> first, age |-> 0, id |-> inserted + 1]]
          BY <1>6, <2>4, ConstantsAssumption DEF EnqueueRetry, ConstantsAssumption
        <4>2. row'[t] = [status |-> "PENDING", attempts |-> 0, wait |-> first, age |-> 0,
                         id |-> inserted + 1]
          BY <2>1, <2>4, <4>1
        <4>3. row'[t] \in Row  BY <4>2 DEF Row, Statuses
        <4> QED  BY <4>2, <4>3, NoRowAssumption DEF NoRowAssumption, Exists
      <3> QED  BY <2>1, <2>2, <2>4, <3>1 DEF AccountedAt
    <2>5. CASE ~Exists(u) /\ t # u
      <3>1. /\ row'[t] = row[t] /\ failures'[t] = failures[t] /\ silent'[t] = silent[t]
            /\ deferred'[t] = deferred[t]
        BY <1>6, <2>1, <2>2, <2>5 DEF EnqueueRetry
      <3> QED  BY <1>2, <2>2, <3>1 DEF AccountedAt, Exists
    <2> QED  BY <2>3, <2>4, <2>5
  <1>7. ASSUME NEW c \in Collectors,
               \/ \E u \in Tasks, isSlow \in BOOLEAN : CollectFails(c, u, isSlow)
               \/ CrashCollector(c)
        PROVE  AccountedAt(t)'
    BY <1>3, <1>7 DEF CollectFails, CrashCollector, dbVars, history
  <1>8. ASSUME NEW u \in Tasks, Purge(u)  PROVE AccountedAt(t)'
    <2>1. stored' = stored /\ silent' = silent /\ deferred' = deferred /\ failures' = failures
      BY <1>8 DEF Purge, history
    <2>2. CASE t = u
      <3>1. Terminal(t) /\ ~Exists(t)'  BY <1>8, <2>2 DEF Purge, Exists
      <3> QED  BY <1>2, <2>1, <3>1, AccountedFrame
    <2>3. CASE t # u
      <3>1. row'[t] = row[t]  BY <1>8, <2>3 DEF Purge
      <3> QED  BY <1>2, <2>1, <3>1 DEF AccountedAt, Exists
    <2> QED  BY <2>2, <2>3
  <1>9. CASE ChangeAccounts \/ UNCHANGED vars
    BY <1>3, <1>9 DEF ChangeAccounts, vars, dbVars, history
  <1>10. CASE Tick
    <2>1. stored' = stored /\ silent' = silent /\ deferred' = deferred /\ failures' = failures
      BY <1>10 DEF Tick
    <2>2. CASE Exists(t)
      <3>1. row'[t] = [row[t] EXCEPT !.wait = Minus1(@), !.age = Smaller(Retention, @ + 1)]
        BY <1>10, <2>2 DEF Tick
      <3>2. row[t] \in Row /\ Minus1(row[t].wait) \in Nat
            /\ Smaller(Retention, row[t].age + 1) \in Nat
        BY <2>2, ConstantsAssumption DEF Exists, Row, Minus1, Smaller, ConstantsAssumption
      <3>3. row'[t] \in Row /\ row'[t].status = row[t].status  BY <3>1, <3>2 DEF Row
      <3>4. Exists(t)'  BY <3>3, NoRowAssumption DEF NoRowAssumption, Exists
      <3> QED  BY <1>2, <2>1, <2>2, <3>3, <3>4 DEF AccountedAt
    <2>3. CASE ~Exists(t)
      <3>1. ~Exists(t)'  BY <1>10, <2>3 DEF Tick, Exists
      <3> QED  BY <1>2, <2>1, <2>3, <3>1 DEF AccountedAt
    <2> QED  BY <2>2, <2>3
  <1> QED
    BY <1>4, <1>5, <1>6, <1>7, <1>8, <1>9, <1>10 DEF Next, CollectorStep

\* However deferrals, answers without the day, failures, late reschedules, crashes
\* and purges follow one another, a deferred day is stored, still queued, answered
\* without data, or was given up after MaxAttempts failures of its own (job.py,
\* queue.py, worker.py, retention/service.py).
THEOREM DeferralsAccounted == Spec => []DeferredDaysAccountedFor
  <1>1. Init => Accounted
    BY DEF Init, Accounted, AccountedAt, Exists
  <1>2. IInv /\ IInv' /\ Accounted /\ [Next]_vars => Accounted'
    BY NextAccounted
  <1>3. Accounted => DeferredDaysAccountedFor
    BY DEF Accounted, AccountedAt, DeferredDaysAccountedFor
  <1> QED  BY <1>1, <1>2, <1>3, Invariance, PTL DEF Spec
-----------------------------------------------------------------------------
(* One worker: what a single drain at a time adds, as the schedule of the    *)
(* job has it.                                                               *)

OneWorker == \A v, w \in Workers : v = w

\* The row a worker has claimed stays as it was claimed until it writes it, and
\* what it read of it is what is there; a pending task has attempts left.
Sole ==
    /\ \A w \in Workers : Holding(w) =>
        /\ Live(current[w], held[w])
        /\ row[current[w]].status = "PENDING" /\ row[current[w]].wait = 0
    /\ \A w \in Workers : pc[w] = "rescheduling" =>
        seen[w].status = "PENDING" /\ seen[w].attempts = row[current[w]].attempts
    /\ \A t \in Tasks :
        Exists(t) /\ row[t].status = "PENDING" => row[t].attempts < MaxAttempts

\* A pending task waits as long as its last refusal asks, or the worker that was
\* refused has still to write it down.
Owed(t) == \E w \in Workers : Refusing(w) /\ slow[w] /\ current[w] = t
Waits ==
    \A t \in Tasks :
        /\ blocked[t] <= SlowRetry
        /\ Exists(t) /\ row[t].status = "PENDING" => blocked[t] <= row[t].wait \/ Owed(t)

SoleInv == IInv /\ Sole /\ Waits

\* A task whose status and attempts a step leaves alone is the same task.
Alike(t) ==
    /\ Exists(t)' <=> Exists(t)
    /\ Exists(t) => row'[t].status = row[t].status /\ row'[t].attempts = row[t].attempts

LEMMA AlikeStutters ==
    ASSUME NEW t \in Tasks, Alike(t)
    PROVE  Phase'[t] = Phase[t] /\ Tries'[t] = Tries[t]
  <1>1. Phase[t] = PhaseOf(t) /\ Tries[t] = TriesOf(t)  BY DEF Phase, Tries
  <1>2. Phase'[t] = PhaseOf(t)' /\ Tries'[t] = TriesOf(t)'  BY DEF Phase, Tries
  <1>3. PhaseOf(t)' = PhaseOf(t) /\ TriesOf(t)' = TriesOf(t)
    BY DEF Alike, PhaseOf, TriesOf
  <1> QED  BY <1>1, <1>2, <1>3

\* Functions on the tasks that agree on each task are equal.
LEMMA PhaseByTask ==
    ASSUME \A t \in Tasks : Phase'[t] = Phase[t] /\ Tries'[t] = Tries[t]
    PROVE  Phase' = Phase /\ Tries' = Tries
  BY DEF Phase, Tries

LEMMA PhaseExcept ==
    ASSUME NEW u \in Tasks, NEW p, NEW n,
           \A t \in Tasks \ {u} : Phase'[t] = Phase[t] /\ Tries'[t] = Tries[t],
           Phase'[u] = p, Tries'[u] = n
    PROVE  Phase' = [Phase EXCEPT ![u] = p] /\ Tries' = [Tries EXCEPT ![u] = n]
  <1>1. Phase' = [t \in Tasks |-> Phase'[t]] /\ Tries' = [t \in Tasks |-> Tries'[t]]
    BY DEF Phase, Tries
  <1>2. Phase = [t \in Tasks |-> Phase[t]] /\ Tries = [t \in Tasks |-> Tries[t]]
    BY DEF Phase, Tries
  <1>3. \A t \in Tasks : Phase'[t] = [Phase EXCEPT ![u] = p][t]
    BY <1>2
  <1>4. \A t \in Tasks : Tries'[t] = [Tries EXCEPT ![u] = n][t]
    BY <1>2
  <1> QED  BY <1>1, <1>2, <1>3, <1>4

\* A step that leaves every task alike but for one.
LEMMA OneMoves ==
    ASSUME NEW u \in Tasks, \A t \in Tasks \ {u} : Alike(t)
    PROVE  /\ Phase' = [Phase EXCEPT ![u] = Phase'[u]]
           /\ Tries' = [Tries EXCEPT ![u] = Tries'[u]]
  BY AlikeStutters, PhaseExcept

\* What a mapping step of each kind asks of the rows.
LEMMA PhaseValues ==
    ASSUME NEW t \in Tasks
    PROVE  /\ Phase[t] = PhaseOf(t) /\ Tries[t] = TriesOf(t)
           /\ Phase'[t] = PhaseOf(t)' /\ Tries'[t] = TriesOf(t)'
  BY DEF Phase, Tries

LEMMA TriesKept ==
    ASSUME NEW u \in Tasks, Tries' = [Tries EXCEPT ![u] = Tries'[u]],
           Tries'[u] = Tries[u]
    PROVE  Tries' = Tries
  BY DEF Tries

LEMMA PhaseKept ==
    ASSUME NEW u \in Tasks, Phase' = [Phase EXCEPT ![u] = Phase'[u]],
           Phase'[u] = Phase[u]
    PROVE  Phase' = Phase
  BY DEF Phase

\* The step is one of the lifecycle, or none.
Mapped == Lifecycle!Next \/ UNCHANGED Lifecycle!vars

LEMMA QuietMapped ==
    ASSUME \A t \in Tasks : Alike(t), stored' = stored
    PROVE  Mapped
  <1>1. Phase' = Phase /\ Tries' = Tries  BY AlikeStutters, PhaseByTask
  <1> QED  BY <1>1 DEF Mapped, Lifecycle!vars

LEMMA RowsUnchanged ==
    ASSUME row' = row
    PROVE  \A t \in Tasks : Alike(t)
  BY DEF Alike, Exists

\* No row changes but for its ages, and no worker takes up a task.
LEMMA SoleFrame ==
    ASSUME SoleInv, \A t \in Tasks : Alike(t),
           \A t \in Tasks : Exists(t) =>
                row'[t].id = row[t].id /\ (row[t].wait = 0 => row'[t].wait = 0),
           \A w \in Workers : Holding(w)' =>
                /\ pc'[w] = pc[w] /\ current'[w] = current[w]
                /\ held'[w] = held[w] /\ seen'[w] = seen[w]
    PROVE  Sole'
  <1> USE DEF SoleInv, IInv, Sole, Holding, HoldsKnownRow, Alike
  <1>1. ASSUME NEW w \in Workers, Holding(w)'
        PROVE  /\ Live(current[w], held[w])'
               /\ row'[current'[w]].status = "PENDING" /\ row'[current'[w]].wait = 0
    BY <1>1 DEF Live
  <1>2. ASSUME NEW w \in Workers, pc'[w] = "rescheduling"
        PROVE  seen'[w].status = "PENDING" /\ seen'[w].attempts = row'[current'[w]].attempts
    BY <1>2 DEF Live
  <1>3. ASSUME NEW t \in Tasks, Exists(t)', row'[t].status = "PENDING"
        PROVE  row'[t].attempts < MaxAttempts
    BY <1>3
  <1> QED  BY <1>1, <1>2, <1>3

\* The waits stay, and nobody writes down a refusal.
LEMMA WaitsFrame ==
    ASSUME Waits, blocked' = blocked, row' = row,
           \A t \in Tasks : Owed(t) => Owed(t)'
    PROVE  Waits'
  BY DEF Waits, Exists

LEMMA OwedFrame ==
    ASSUME \A w \in Workers : Refusing(w) =>
                Refusing(w)' /\ current'[w] = current[w] /\ slow'[w] = slow[w]
    PROVE  \A t \in Tasks : Owed(t) => Owed(t)'
  BY DEF Owed

\* Steps that touch neither the table nor what a worker holds.
LEMMA QuietStep ==
    ASSUME SoleInv, row' = row, stored' = stored, blocked' = blocked,
           \A w \in Workers :
              /\ Holding(w)' <=> Holding(w)
              /\ Holding(w) =>
                    /\ pc'[w] = pc[w] /\ current'[w] = current[w] /\ held'[w] = held[w]
                    /\ seen'[w] = seen[w] /\ slow'[w] = slow[w]
    PROVE  Mapped /\ Sole' /\ Waits'
  <1>1. Mapped  BY RowsUnchanged, QuietMapped
  <1>2. Sole'  BY RowsUnchanged, SoleFrame
  <1>3. \A t \in Tasks : Owed(t) => Owed(t)'
    BY OwedFrame DEF Refusing, Holding
  <1>4. Waits'  BY <1>3, WaitsFrame DEF SoleInv
  <1> QED  BY <1>1, <1>2, <1>4

\* StartDrain, FinishDrain and Skip move a worker that holds nothing.
LEMMA DrainMaps ==
    ASSUME SoleInv, NEW w \in Workers, StartDrain(w) \/ FinishDrain(w) \/ Skip(w)
    PROVE  Mapped /\ Sole' /\ Waits'
  <1>1. row' = row /\ stored' = stored /\ blocked' = blocked
    BY DEF StartDrain, FinishDrain, Skip, dbVars, history
  <1>2. current' = current /\ held' = held /\ seen' = seen /\ slow' = slow
    BY DEF StartDrain, FinishDrain, Skip
  <1>3. \A v \in Workers :
            (Holding(v)' <=> Holding(v)) /\ (Holding(v) => pc'[v] = pc[v])
    BY DEF StartDrain, FinishDrain, Skip, Holding, SoleInv, IInv, TypeOK
  <1> QED  BY <1>1, <1>2, <1>3, QuietStep

\* Claim: the row is due, and pending.
LEMMA ClaimMaps ==
    ASSUME SoleInv, OneWorker, NEW w \in Workers, Claim(w)
    PROVE  Mapped /\ Sole' /\ Waits'
  <1> USE DEF SoleInv, IInv, TypeOK
  <1>1. row' = row /\ stored' = stored /\ blocked' = blocked /\ slow' = slow
    BY DEF Claim, dbVars, history
  <1>2. Mapped  BY <1>1, RowsUnchanged, QuietMapped
  <1>3. PICK e \in batch[w] :
            /\ Live(e[1], e[2]) /\ Claimable(e[1])
            /\ current' = [current EXCEPT ![w] = e[1]]
            /\ held' = [held EXCEPT ![w] = e[2]]
    BY DEF Claim
  <1>4. pc' = [pc EXCEPT ![w] = "handling"] /\ pc[w] = "draining"  BY DEF Claim
  <1>5. Sole'
    <2>1. ASSUME NEW v \in Workers, Holding(v)'
          PROVE  /\ Live(current[v], held[v])' /\ pc'[v] = "handling"
                 /\ row'[current'[v]].status = "PENDING" /\ row'[current'[v]].wait = 0
      <3>1. v = w  BY DEF OneWorker
      <3>2. current'[v] = e[1] /\ held'[v] = e[2] /\ pc'[v] = "handling"
        BY <1>3, <1>4, <3>1
      <3> QED  BY <1>1, <1>3, <3>2 DEF Live, Exists, Claimable
    <2>2. \A t \in Tasks : Exists(t)' <=> Exists(t)  BY <1>1 DEF Exists
    <2>3. \A v \in Workers : pc'[v] # "rescheduling"  BY <1>4 DEF OneWorker
    <2> QED  BY <1>1, <2>1, <2>2, <2>3 DEF Sole
  <1>6. \A t \in Tasks : ~Owed(t)  BY <1>4 DEF Owed, Refusing, OneWorker
  <1>7. Waits'  BY <1>1, <1>6, WaitsFrame
  <1> QED  BY <1>2, <1>5, <1>7

\* Complete: the production of the day and mark_completed in one commit.
LEMMA CompleteMaps ==
    ASSUME SoleInv, OneWorker, NEW w \in Workers, Complete(w)
    PROVE  Mapped /\ Sole' /\ Waits'
  <1> USE DEF SoleInv, IInv, TypeOK
  <1>0. PICK u \in Tasks : u = current[w]
    BY DEF Complete, HoldsKnownRow, Holding
  <1>1. /\ u \in Tasks /\ Exists(u) /\ row[u] \in Row /\ row[u].status = "PENDING"
    BY <1>0 DEF Complete, Sole, Holding, Live, Exists
  <1>2. row' = [row EXCEPT ![u] = [row[u] EXCEPT !.status = "COMPLETED"]]
    BY <1>0 DEF Complete
  <1>3. /\ row'[u].status = "COMPLETED" /\ row'[u].attempts = row[u].attempts
        /\ row'[u] \in Row
    BY <1>1, <1>2 DEF Row, Statuses
  <1>4. Exists(u)'  BY <1>3, NoRowAssumption DEF Exists, NoRowAssumption
  <1>5. \A t \in Tasks \ {u} : row'[t] = row[t]  BY <1>2
  <1>6. \A t \in Tasks \ {u} : Alike(t)  BY <1>5 DEF Alike, Exists
  <1>7. /\ Phase[u] = "pending" /\ Phase'[u] = "done" /\ Tries'[u] = Tries[u]
    BY <1>1, <1>3, <1>4, PhaseValues DEF PhaseOf, TriesOf, Named
  <1>8. Lifecycle!Succeed(u)
    <2>1. Phase' = [Phase EXCEPT ![u] = "done"] /\ Tries' = Tries
      BY <1>1, <1>6, <1>7, OneMoves, TriesKept
    <2>2. \E answered \in BOOLEAN : stored' = [stored EXCEPT ![u] = @ \/ answered]
      BY <1>0 DEF Complete
    <2> QED  BY <1>7, <2>1, <2>2 DEF Lifecycle!Succeed
  <1>9. Mapped  BY <1>1, <1>8 DEF Mapped, Lifecycle!Next
  <1>10. pc[w] = "handling" /\ pc'[w] = "draining" /\ blocked' = blocked
    BY DEF Complete
  <1>11. \A v \in Workers : ~Holding(v)' /\ ~Refusing(v)
    BY <1>10 DEF OneWorker, Holding, Refusing
  <1>12. Sole'
    <2>1. \A t \in Tasks : Exists(t)' /\ row'[t].status = "PENDING" =>
                Exists(t) /\ row'[t] = row[t]
      BY <1>3, <1>5 DEF Exists
    <2>2. \A v \in Workers : pc'[v] # "rescheduling"  BY <1>11 DEF Holding
    <2> QED  BY <1>11, <2>1, <2>2 DEF Sole
  <1>13. Waits'
    <2>1. \A t \in Tasks : ~Owed(t)  BY <1>11 DEF Owed
    <2>2. \A t \in Tasks : Exists(t)' /\ row'[t].status = "PENDING" =>
                Exists(t) /\ row'[t] = row[t]
      BY <1>3, <1>5 DEF Exists
    <2> QED  BY <1>10, <2>1, <2>2 DEF Waits
  <1> QED  BY <1>9, <1>12, <1>13

\* Fail: the attempt is rolled back; a refusal is owed to the table.
LEMMA FailMaps ==
    ASSUME SoleInv, OneWorker, NEW w \in Workers, NEW isSlow \in BOOLEAN, Fail(w, isSlow)
    PROVE  Mapped /\ Sole' /\ Waits'
  <1> USE DEF SoleInv, IInv, TypeOK
  <1>0. PICK u \in Tasks : u = current[w]
    BY DEF Fail, HoldsKnownRow, Holding
  <1>1. row' = row /\ stored' = stored /\ current' = current /\ held' = held /\ seen' = seen
    BY DEF Fail, dbVars
  <1>2. Mapped  BY <1>1, RowsUnchanged, QuietMapped
  <1>3. pc[w] = "handling" /\ pc'[w] = "failed" /\ slow'[w] = isSlow
    BY DEF Fail
  <1>4. Sole'
    <2>1. \A v \in Workers : v = w /\ Holding(v) /\ pc'[v] = "failed"
      BY <1>3 DEF OneWorker, Holding
    <2> QED  BY <1>1, <2>1 DEF Sole, Live, Exists
  <1>5. Waits'
    <2>1. \A t \in Tasks : ~Owed(t)  BY <1>3 DEF Owed, Refusing, OneWorker
    <2>2. SUFFICES ASSUME NEW t \in Tasks
                   PROVE  /\ blocked'[t] <= SlowRetry
                          /\ Exists(t)' /\ row'[t].status = "PENDING" =>
                                blocked'[t] <= row'[t].wait \/ Owed(t)'
      BY DEF Waits
    <2>3. CASE isSlow /\ t = u
      <3>1. blocked'[t] = SlowRetry  BY <1>0, <1>3, <2>3 DEF Fail
      <3>2. Owed(t)'  BY <1>0, <1>1, <1>3, <2>3 DEF Owed, Refusing
      <3>3. SlowRetry \in Nat  BY ConstantsAssumption DEF ConstantsAssumption
      <3> QED  BY <3>1, <3>2, <3>3
    <2>4. CASE ~(isSlow /\ t = u)
      <3>1. blocked'[t] = blocked[t]  BY <1>0, <1>3, <2>4 DEF Fail
      <3> QED  BY <1>1, <2>1, <3>1 DEF Waits, Exists
    <2> QED  BY <2>3, <2>4
  <1> QED  BY <1>2, <1>4, <1>5

\* _required_record: with one worker the row is there.
LEMMA ReadMaps ==
    ASSUME SoleInv, OneWorker, NEW w \in Workers, RescheduleRead(w)
    PROVE  Mapped /\ Sole' /\ Waits'
  <1> USE DEF SoleInv, IInv, TypeOK
  <1>1. Live(current[w], held[w])  BY DEF RescheduleRead, Sole, Holding
  <1>2. /\ pc[w] = "failed" /\ pc'[w] = "rescheduling" /\ seen'[w] = row[current[w]]
        /\ current' = current /\ held' = held /\ slow' = slow
        /\ row' = row /\ stored' = stored /\ blocked' = blocked
    BY <1>1 DEF RescheduleRead, dbVars, history
  <1>3. Mapped  BY <1>2, RowsUnchanged, QuietMapped
  <1>4. Sole'
    <2>1. \A v \in Workers : v = w /\ Holding(v)  BY <1>2 DEF OneWorker, Holding
    <2> QED  BY <1>2, <2>1 DEF Sole, Live, Exists
  <1>5. Waits'
    <2>1. \A t \in Tasks : Owed(t) => Owed(t)'
      BY <1>2, OwedFrame DEF Refusing, OneWorker
    <2> QED  BY <1>2, <2>1, WaitsFrame
  <1> QED  BY <1>3, <1>4, <1>5

\* The long wait is at least as long as the refusal asks.
LEMMA LongWait ==
    ASSUME NEW n \in 1 .. MaxAttempts
    PROVE  SlowRetry <= Delay(n, TRUE)
  <1>1. BaseDelay * 2 ^ (n - 1) \in Nat /\ MaxBackoff \in Nat /\ SlowRetry \in Nat
    BY ConstantsAssumption DEF ConstantsAssumption
  <1>2. Smaller(MaxBackoff, BaseDelay * 2 ^ (n - 1)) \in Nat  BY <1>1 DEF Smaller
  <1> QED  BY <1>1, <1>2 DEF Delay, Larger

\* Retry or GiveUp: the UPDATE of reschedule writes one more attempt.
LEMMA WriteMaps ==
    ASSUME SoleInv, OneWorker, NEW w \in Workers, RescheduleWrite(w)
    PROVE  Mapped /\ Sole' /\ Waits'
  <1> USE DEF SoleInv, IInv, TypeOK
  <1>0. PICK u \in Tasks : u = current[w]
    BY DEF RescheduleWrite, HoldsKnownRow, Holding
  <1>1. /\ pc[w] = "rescheduling" /\ u \in Tasks /\ Exists(u) /\ row[u] \in Row
        /\ Live(u, held[w]) /\ row[u].status = "PENDING" /\ row[u].wait = 0
        /\ seen[w] \in Row /\ seen[w].status = "PENDING" /\ seen[w].attempts = row[u].attempts
        /\ row[u].attempts < MaxAttempts
    BY <1>0 DEF RescheduleWrite, Sole, HoldsKnownRow, Holding, Live, Exists
  <1>2. /\ row' = [row EXCEPT ![u] = Rescheduled(row[u], seen[w], slow[w])]
        /\ pc'[w] = "draining" /\ stored' = stored /\ blocked' = blocked
    BY <1>0, <1>1 DEF RescheduleWrite, history
  <1>3. MaxAttempts \in Nat  BY ConstantsAssumption DEF ConstantsAssumption
  <1>17. PICK n \in 1 .. MaxAttempts : n = row[u].attempts + 1
    BY <1>1, <1>3 DEF Row
  <1>4. slow[w] \in BOOLEAN /\ Delay(n, slow[w]) \in Nat  BY <1>17, DelayType
  <1> DEFINE after == Rescheduled(row[u], seen[w], slow[w])
  <1>5. /\ after \in Row /\ after.attempts = n
        /\ n = MaxAttempts => after.status = "FAILED"
        /\ n < MaxAttempts => after.status = "PENDING" /\ after.wait = Delay(n, slow[w])
    <2>1. after \in Row  BY <1>1, <1>4, RescheduledType
    <2>2. after.attempts = n  BY <1>1, <1>17 DEF Rescheduled, Row
    <2>3. n = MaxAttempts => after.status = "FAILED"
      BY <1>1, <1>3, <1>17 DEF Rescheduled, Row
    <2>4. n < MaxAttempts => after.status = "PENDING"
      BY <1>1, <1>3, <1>17 DEF Rescheduled, Row
    <2>5. n < MaxAttempts => after.wait = Delay(n, slow[w])
      BY <1>1, <1>3, <1>17 DEF Rescheduled, Row
    <2> QED  BY <2>1, <2>2, <2>3, <2>4, <2>5
  <1> HIDE DEF after
  <1>6. row' = [row EXCEPT ![u] = after]  BY <1>2 DEF after
  <1>7. row'[u] = after /\ Exists(u)'
    BY <1>1, <1>5, <1>6, NoRowAssumption DEF Exists, NoRowAssumption
  <1>8. \A t \in Tasks \ {u} : row'[t] = row[t]  BY <1>6
  <1>9. \A t \in Tasks \ {u} : Alike(t)  BY <1>8 DEF Alike, Exists
  <1>10. Phase[u] = "pending" /\ Tries[u] + 1 = n /\ Tries'[u] = Tries[u] + 1
    BY <1>1, <1>5, <1>17, <1>7, PhaseValues DEF PhaseOf, TriesOf, Named
  <1>11. /\ n < MaxAttempts => Phase'[u] = "pending"
         /\ n = MaxAttempts => Phase'[u] = "failed"
    BY <1>1, <1>5, <1>7, PhaseValues DEF PhaseOf, Named
  <1>12. /\ Phase' = [Phase EXCEPT ![u] = Phase'[u]]
         /\ Tries' = [Tries EXCEPT ![u] = Tries[u] + 1]
    BY <1>1, <1>9, <1>10, OneMoves
  <1>13. Mapped
    <2>1. CASE n < MaxAttempts
      <3>1. Phase' = Phase  BY <1>1, <1>10, <1>11, <1>12, <2>1, PhaseKept
      <3>2. Lifecycle!Retry(u)  BY <1>2, <1>10, <1>12, <2>1, <3>1 DEF Lifecycle!Retry
      <3> QED  BY <1>1, <3>2 DEF Mapped, Lifecycle!Next
    <2>2. CASE n = MaxAttempts
      <3>1. Lifecycle!GiveUp(u)
        BY <1>2, <1>10, <1>11, <1>12, <2>2 DEF Lifecycle!GiveUp
      <3> QED  BY <1>1, <3>1 DEF Mapped, Lifecycle!Next
    <2> QED  BY <1>3, <1>17, <2>1, <2>2
  <1>14. \A v \in Workers : v = w /\ ~Holding(v)' /\ pc'[v] # "rescheduling"
    BY <1>2 DEF OneWorker, Holding
  <1>18. Sole /\ Waits /\ blocked \in [Tasks -> Nat] /\ SlowRetry \in Nat
    BY ConstantsAssumption DEF ConstantsAssumption
  <1> HIDE DEF SoleInv, IInv, TypeOK
  <1>15. Sole'
    <2>1. ASSUME NEW t \in Tasks, Exists(t)', row'[t].status = "PENDING"
          PROVE  row'[t].attempts < MaxAttempts
      <3>1. CASE t = u  BY <1>3, <1>5, <1>7, <1>17, <2>1, <3>1
      <3>2. CASE t # u  BY <1>8, <1>18, <2>1, <3>2 DEF Sole, Exists
      <3> QED  BY <3>1, <3>2
    <2> QED  BY <1>14, <2>1 DEF Sole
  <1>16. Waits'
    <2> SUFFICES ASSUME NEW t \in Tasks
                 PROVE  /\ blocked'[t] <= SlowRetry
                        /\ Exists(t)' /\ row'[t].status = "PENDING" =>
                              blocked'[t] <= row'[t].wait \/ Owed(t)'
      BY DEF Waits
    <2>1. blocked'[t] = blocked[t] /\ blocked[t] \in Nat /\ blocked[t] <= SlowRetry
      BY <1>2, <1>18 DEF Waits
    <2>2. CASE t # u
      <3>1. ~Owed(t)  BY <1>0, <1>14, <2>2 DEF Owed
      <3> QED  BY <1>8, <1>18, <2>1, <2>2, <3>1 DEF Waits, Exists
    <2>3. CASE t = u /\ ~slow[w]
      <3>1. ~Owed(t)  BY <1>14, <2>3 DEF Owed
      <3>2. blocked[t] <= 0  BY <1>1, <1>18, <2>3, <3>1 DEF Waits
      <3>3. row'[t].wait \in Nat  BY <1>5, <1>7, <2>3 DEF Row
      <3> QED  BY <2>1, <3>2, <3>3
    <2>4. CASE t = u /\ slow[w]
      <3>1. CASE n < MaxAttempts
        <4>1. row'[t].wait = Delay(n, TRUE)  BY <1>4, <1>5, <1>7, <2>4, <3>1
        <4>2. SlowRetry <= Delay(n, TRUE) /\ Delay(n, TRUE) \in Nat /\ SlowRetry \in Nat
          BY <1>17, LongWait, DelayType, ConstantsAssumption DEF ConstantsAssumption
        <4>3. PICK long \in Nat : long = Delay(n, TRUE)  BY <4>2
        <4>4. PICK b \in Nat : b = blocked[t]  BY <2>1
        <4>5. PICK slowest \in Nat : slowest = SlowRetry  BY <1>18
        <4>6. b <= slowest /\ slowest <= long  BY <2>1, <4>2, <4>3, <4>4, <4>5
        <4>7. b <= long  BY <4>6
        <4> QED  BY <2>1, <4>1, <4>3, <4>4, <4>7
      <3>2. CASE n = MaxAttempts  BY <1>5, <1>7, <2>1, <2>4, <3>2
      <3> QED  BY <1>3, <1>17, <3>1, <3>2
    <2> QED  BY <2>2, <2>3, <2>4
  <1> QED  BY <1>13, <1>15, <1>16

\* A killed worker's refusal dies with it, and its task is free again.
LEMMA CrashMaps ==
    ASSUME SoleInv, OneWorker, NEW w \in Workers, CrashWorker(w)
    PROVE  Mapped /\ Sole' /\ Waits'
  <1> USE DEF SoleInv, IInv, TypeOK
  <1>1. row' = row /\ stored' = stored /\ pc'[w] = "idle"
    BY DEF CrashWorker, AbortDrain, dbVars
  <1>2. Mapped  BY <1>1, RowsUnchanged, QuietMapped
  <1>3. \A v \in Workers : v = w /\ ~Holding(v)'
    BY <1>1 DEF OneWorker, Holding
  <1>4. Sole'
    BY <1>1, <1>3, RowsUnchanged, SoleFrame
  <1>5. Waits'
    <2>1. SUFFICES ASSUME NEW t \in Tasks
                   PROVE  /\ blocked'[t] <= SlowRetry
                          /\ Exists(t)' /\ row'[t].status = "PENDING" =>
                                blocked'[t] <= row'[t].wait
      BY DEF Waits
    <2>2. Exists(t)' => Exists(t) /\ row[t] \in Row  BY <1>1 DEF Exists
    <2>3. CASE slow[w] /\ t = current[w]
      <3>1. blocked'[t] = 0  BY <2>3 DEF CrashWorker
      <3>2. SlowRetry \in Nat  BY ConstantsAssumption DEF ConstantsAssumption
      <3> QED  BY <1>1, <2>2, <3>1, <3>2 DEF Row
    <2>4. CASE ~(slow[w] /\ t = current[w])
      <3>1. blocked'[t] = blocked[t]  BY <2>4 DEF CrashWorker
      <3>2. ~Owed(t)  BY <1>3, <2>4 DEF Owed
      <3> QED  BY <1>1, <2>2, <3>1, <3>2 DEF Waits
    <2> QED  BY <2>3, <2>4
  <1> QED  BY <1>2, <1>4, <1>5

\* Submit: a failed collection enqueues its task, if there is none.
LEMMA EnqueueMaps ==
    ASSUME SoleInv, NEW c \in Collectors, EnqueueRetry(c)
    PROVE  Mapped /\ Sole' /\ Waits'
  <1> USE DEF SoleInv, IInv, TypeOK
  <1>0. PICK u \in Tasks : u = deferring[c][1]  BY DEF EnqueueRetry
  <1>1. /\ stored' = stored
        /\ pc' = pc /\ current' = current /\ held' = held /\ seen' = seen /\ slow' = slow
    BY DEF EnqueueRetry, workerVars
  <1>2. CASE Exists(u)
    <2>1. row' = row /\ blocked' = blocked  BY <1>0, <1>2 DEF EnqueueRetry
    <2> QED  BY <1>1, <2>1, QuietStep DEF Holding
  <1>3. CASE ~Exists(u)
    <2>1. PICK first \in Nat :
              row' = [row EXCEPT ![u] = [status |-> "PENDING", attempts |-> 0,
                                         wait |-> first, age |-> 0, id |-> inserted + 1]]
      BY <1>0, <1>3, ConstantsAssumption DEF EnqueueRetry, ConstantsAssumption
    <2>2. blocked' = [blocked EXCEPT ![u] = 0]  BY <1>0, <1>3 DEF EnqueueRetry
    <2>3. /\ row'[u].status = "PENDING" /\ row'[u].attempts = 0 /\ row'[u].wait = first
          /\ row'[u] \in Row
      BY <2>1 DEF Row, Statuses
    <2>4. row'[u] # NoRow  BY <2>3, NoRowAssumption DEF NoRowAssumption
    <2>5. \A t \in Tasks \ {u} : row'[t] = row[t] /\ blocked'[t] = blocked[t]
      BY <2>1, <2>2
    <2>6. \A t \in Tasks \ {u} : Alike(t)  BY <2>5 DEF Alike, Exists
    <2>7. /\ Phase[u] = "absent" /\ Phase'[u] = "pending"
          /\ Tries[u] = 0 /\ Tries'[u] = 0
      BY <1>3, <2>3, <2>4, PhaseValues DEF PhaseOf, TriesOf, Named, Exists
    <2>8. Lifecycle!Submit(u)
      BY <1>1, <2>6, <2>7, OneMoves, TriesKept DEF Lifecycle!Submit
    <2>9. Mapped  BY <2>8 DEF Mapped, Lifecycle!Next
    <2>10. Sole'
      <3>1. ASSUME NEW w \in Workers, Holding(w)'
            PROVE  /\ Live(current[w], held[w])' /\ Holding(w) /\ current[w] \in Tasks \ {u}
                   /\ row'[current'[w]].status = "PENDING" /\ row'[current'[w]].wait = 0
                   /\ row'[current[w]] = row[current[w]]
        BY <1>1, <1>3, <2>5, <3>1 DEF Sole, HoldsKnownRow, Holding, Live, Exists
      <3>2. ASSUME NEW w \in Workers, pc'[w] = "rescheduling"
            PROVE  seen'[w].status = "PENDING" /\ seen'[w].attempts = row'[current'[w]].attempts
        BY <1>1, <3>1, <3>2 DEF Sole, Holding
      <3>3. ASSUME NEW t \in Tasks, Exists(t)', row'[t].status = "PENDING"
            PROVE  row'[t].attempts < MaxAttempts
        <4>1. CASE t = u
          BY <2>3, <4>1, ConstantsAssumption DEF ConstantsAssumption
        <4>2. CASE t # u  BY <2>5, <3>3, <4>2 DEF Sole, Exists
        <4> QED  BY <4>1, <4>2
      <3> QED  BY <3>1, <3>2, <3>3 DEF Sole
    <2>11. Waits'
      <3>1. SUFFICES ASSUME NEW t \in Tasks
                     PROVE  /\ blocked'[t] <= SlowRetry
                            /\ Exists(t)' /\ row'[t].status = "PENDING" =>
                                  blocked'[t] <= row'[t].wait \/ Owed(t)'
        BY DEF Waits
      <3>2. CASE t = u
        <4>1. blocked'[t] = 0 /\ SlowRetry \in Nat
          BY <2>2, <3>2, ConstantsAssumption DEF ConstantsAssumption
        <4> QED  BY <2>3, <3>2, <4>1
      <3>3. CASE t # u
        <4>1. Owed(t) => Owed(t)'  BY <1>1 DEF Owed, Refusing
        <4> QED  BY <2>5, <3>3, <4>1 DEF Waits, Exists
      <3> QED  BY <3>2, <3>3
    <2> QED  BY <2>9, <2>10, <2>11
  <1> QED  BY <1>2, <1>3

\* Store, or nothing: the daily job otherwise leaves the table alone.
LEMMA CollectorMaps ==
    ASSUME SoleInv, NEW c \in Collectors, CollectorStep(c) \/ CrashCollector(c)
    PROVE  Mapped /\ Sole' /\ Waits'
  <1>1. ASSUME NEW t \in Tasks, CollectStores(c, t)  PROVE Mapped /\ Sole' /\ Waits'
    <2>1. /\ row' = row /\ blocked' = blocked /\ pc' = pc /\ current' = current
          /\ held' = held /\ seen' = seen /\ slow' = slow
      BY <1>1 DEF CollectStores, workerVars, history
    <2>2. Phase' = Phase /\ Tries' = Tries
      BY <2>1, RowsUnchanged, AlikeStutters, PhaseByTask
    <2>3. Lifecycle!Store(t)  BY <1>1, <2>2 DEF CollectStores, Lifecycle!Store
    <2>4. Mapped  BY <2>3 DEF Mapped, Lifecycle!Next
    <2>5. Sole'  BY <2>1, RowsUnchanged, SoleFrame DEF Holding
    <2>6. Waits'
      BY <2>1, OwedFrame, WaitsFrame DEF SoleInv, Refusing
    <2> QED  BY <2>4, <2>5, <2>6
  <1>2. ASSUME CrashCollector(c) \/
               (\E t \in Tasks, isSlow \in BOOLEAN : CollectFails(c, t, isSlow))
        PROVE  Mapped /\ Sole' /\ Waits'
    BY <1>2, QuietStep DEF CrashCollector, CollectFails, dbVars, workerVars, history, Holding
  <1> QED  BY <1>1, <1>2, EnqueueMaps DEF CollectorStep

\* Forget: only a settled task is purged, and no worker holds one.
LEMMA PurgeMaps ==
    ASSUME SoleInv, NEW u \in Tasks, Purge(u)
    PROVE  Mapped /\ Sole' /\ Waits'
  <1> USE DEF SoleInv, IInv, TypeOK
  <1>1. /\ stored' = stored /\ blocked' = blocked
        /\ pc' = pc /\ current' = current /\ held' = held /\ seen' = seen /\ slow' = slow
    BY DEF Purge, workerVars, history
  <1>2. Exists(u) /\ row[u] \in Row /\ row[u].status \in {"COMPLETED", "FAILED"}
    BY DEF Purge, Terminal, Exists
  <1>3. row'[u] = NoRow /\ \A t \in Tasks \ {u} : row'[t] = row[t]
    BY DEF Purge
  <1>4. \A t \in Tasks \ {u} : Alike(t)  BY <1>3 DEF Alike, Exists
  <1>5. /\ Phase[u] \in {"done", "failed"} /\ Phase'[u] = "absent" /\ Tries'[u] = 0
    BY <1>2, <1>3, PhaseValues DEF PhaseOf, TriesOf, Named, Exists
  <1>6. Lifecycle!Forget(u)
    BY <1>1, <1>4, <1>5, OneMoves DEF Lifecycle!Forget
  <1>7. Mapped  BY <1>6 DEF Mapped, Lifecycle!Next
  <1>8. Sole'
    <2>1. ASSUME NEW w \in Workers, Holding(w)'
          PROVE  /\ Live(current[w], held[w])' /\ Holding(w) /\ current[w] \in Tasks \ {u}
                 /\ row'[current'[w]].status = "PENDING" /\ row'[current'[w]].wait = 0
                 /\ row'[current[w]] = row[current[w]]
      BY <1>1, <1>2, <1>3, <2>1 DEF Sole, HoldsKnownRow, Holding, Live, Exists
    <2>2. ASSUME NEW w \in Workers, pc'[w] = "rescheduling"
          PROVE  seen'[w].status = "PENDING" /\ seen'[w].attempts = row'[current'[w]].attempts
      BY <1>1, <2>1, <2>2 DEF Sole, Holding
    <2>3. ASSUME NEW t \in Tasks, Exists(t)', row'[t].status = "PENDING"
          PROVE  row'[t].attempts < MaxAttempts
      BY <1>3, <2>3 DEF Sole, Exists
    <2> QED  BY <2>1, <2>2, <2>3 DEF Sole
  <1>9. Waits'
    <2>1. \A t \in Tasks : Owed(t) => Owed(t)'  BY <1>1 DEF Owed, Refusing
    <2> QED  BY <1>1, <1>3, <2>1 DEF Waits, Exists
  <1> QED  BY <1>7, <1>8, <1>9

\* Time passes: what is left to wait, and what was asked for, shrink together.
LEMMA TickMaps ==
    ASSUME SoleInv, Tick
    PROVE  Mapped /\ Sole' /\ Waits'
  <1> USE DEF SoleInv, IInv, TypeOK
  <1>1. /\ stored' = stored
        /\ pc' = pc /\ current' = current /\ held' = held /\ seen' = seen /\ slow' = slow
    BY DEF Tick, workerVars
  <1>2. ASSUME NEW t \in Tasks, Exists(t)
        PROVE  /\ row'[t].status = row[t].status /\ row'[t].attempts = row[t].attempts
               /\ row'[t].id = row[t].id /\ row'[t].wait = Minus1(row[t].wait)
               /\ row[t].wait \in Nat /\ row'[t] \in Row
    <2>1. row'[t] = [row[t] EXCEPT !.wait = Minus1(@), !.age = Smaller(Retention, @ + 1)]
      BY <1>2 DEF Tick
    <2>2. row[t] \in Row  BY <1>2 DEF Exists
    <2>3. Minus1(row[t].wait) \in Nat  BY <2>2 DEF Minus1, Row
    <2>4. Smaller(Retention, row[t].age + 1) \in Nat
      BY <2>2, ConstantsAssumption DEF ConstantsAssumption, Smaller, Row
    <2> QED  BY <2>1, <2>2, <2>3, <2>4 DEF Row
  <1>3. \A t \in Tasks : Exists(t)' <=> Exists(t)
    <2>1. \A t \in Tasks : Exists(t) => row'[t] # NoRow
      BY <1>2, NoRowAssumption DEF NoRowAssumption
    <2> QED  BY <2>1 DEF Tick, Exists
  <1>4. \A t \in Tasks : Alike(t)  BY <1>2, <1>3 DEF Alike
  <1>5. Mapped  BY <1>1, <1>4, QuietMapped
  <1>6. \A t \in Tasks : Exists(t) =>
            row'[t].id = row[t].id /\ (row[t].wait = 0 => row'[t].wait = 0)
    BY <1>2 DEF Minus1
  <1>7. Sole'  BY <1>1, <1>4, <1>6, SoleFrame DEF Holding
  <1>8. Waits'
    <2> SUFFICES ASSUME NEW t \in Tasks
                 PROVE  /\ blocked'[t] <= SlowRetry
                        /\ Exists(t)' /\ row'[t].status = "PENDING" =>
                              blocked'[t] <= row'[t].wait \/ Owed(t)'
      BY DEF Waits
    <2>1. PICK b \in Nat : b = blocked[t]  OBVIOUS
    <2>2. PICK slowest \in Nat : slowest = SlowRetry
      BY ConstantsAssumption DEF ConstantsAssumption
    <2>3. blocked'[t] = Minus1(b)  BY <2>1 DEF Tick
    <2>4. b <= slowest  BY <2>1, <2>2 DEF Waits
    <2>5. Minus1(b) <= slowest  BY <2>4 DEF Minus1
    <2>6. ASSUME Exists(t)', row'[t].status = "PENDING", ~Owed(t)
          PROVE  blocked'[t] <= row'[t].wait
      <3>1. Exists(t) /\ row[t].status = "PENDING"  BY <1>2, <1>3, <2>6
      <3>2. PICK n \in Nat : n = row[t].wait  BY <1>2, <3>1
      <3>3. b <= n  BY <2>1, <2>6, <3>1, <3>2 DEF Waits
      <3>4. Minus1(b) <= Minus1(n)  BY <3>3 DEF Minus1
      <3> QED  BY <1>2, <2>3, <3>1, <3>2, <3>4
    <2>7. Owed(t) => Owed(t)'  BY <1>1 DEF Owed, Refusing
    <2> QED  BY <2>2, <2>3, <2>5, <2>6, <2>7
  <1> QED  BY <1>5, <1>7, <1>8

\* With one worker at a time every step keeps the invariant and maps to a step of the
\* lifecycle, or to none.
LEMMA SoleNext ==
    ASSUME OneWorker, SoleInv, IInv', [Next]_vars
    PROVE  SoleInv' /\ [Lifecycle!Next]_Lifecycle!vars
  <1>1. ASSUME NEW w \in Workers, WorkerStep(w) \/ CrashWorker(w)
        PROVE  Mapped /\ Sole' /\ Waits'
    BY <1>1, DrainMaps, ClaimMaps, CompleteMaps, FailMaps, ReadMaps, WriteMaps, CrashMaps
       DEF WorkerStep
  <1>2. ASSUME ChangeAccounts \/ UNCHANGED vars  PROVE Mapped /\ Sole' /\ Waits'
    <2>1. /\ row' = row /\ stored' = stored /\ blocked' = blocked
          /\ pc' = pc /\ current' = current /\ held' = held /\ seen' = seen /\ slow' = slow
      BY <1>2 DEF ChangeAccounts, vars, dbVars, workerVars, history
    <2> QED  BY <2>1, QuietStep DEF Holding
  <1>3. ASSUME NEW c \in Collectors, CollectorStep(c) \/ CrashCollector(c)
        PROVE  Mapped /\ Sole' /\ Waits'
    BY <1>3, CollectorMaps
  <1>4. ASSUME NEW t \in Tasks, Purge(t)  PROVE Mapped /\ Sole' /\ Waits'
    BY <1>4, PurgeMaps
  <1>5. Tick => Mapped /\ Sole' /\ Waits'  BY TickMaps
  <1>6. Mapped /\ Sole' /\ Waits'
    BY <1>1, <1>2, <1>3, <1>4, <1>5 DEF Next
  <1> QED  BY <1>6 DEF SoleInv, Mapped

\* An empty table is an empty lifecycle.
LEMMA SoleInit ==
    ASSUME Init PROVE SoleInv /\ Lifecycle!Init
  <1>1. IInv  BY InitIInv
  <1>2. \A t \in Tasks : ~Exists(t)  BY DEF Init, Exists
  <1>3. Sole /\ Waits
    BY <1>2, ConstantsAssumption DEF Init, Sole, Waits, Holding, ConstantsAssumption
  <1>4. \A t \in Tasks : PhaseOf(t) = "absent" /\ TriesOf(t) = 0
    BY <1>2 DEF PhaseOf, TriesOf
  <1>5. Lifecycle!Init  BY <1>4 DEF Init, Lifecycle!Init, Phase, Tries
  <1> QED  BY <1>1, <1>3, <1>5 DEF SoleInv

\* The queue drained by one worker at a time implements the lifecycle of a task: a done
\* task never reopens, an attempt is counted once and the last one gives the task up,
\* whatever is collected, killed, purged or waited for in between (queue.py, worker.py).
THEOREM LifecycleImplemented ==
    ASSUME OneWorker
    PROVE  Spec => ImplementsLifecycle
  <1>1. Init => SoleInv /\ Lifecycle!Init  BY SoleInit
  <1>2. SoleInv /\ IInv' /\ [Next]_vars => SoleInv' /\ [Lifecycle!Next]_Lifecycle!vars
    BY SoleNext
  <1> QED
    BY <1>1, <1>2, Invariance, PTL DEF Spec, ImplementsLifecycle, Lifecycle!Spec

\* Drained by one worker at a time, a task the manufacturer refused is not tried again
\* before the long wait is over, although its claim was rolled back as due, unless the
\* worker was killed before it wrote the refusal down (queue.py, reschedule).
THEOREM RefusalsWait ==
    ASSUME OneWorker
    PROVE  Spec => RefusedTaskWaits
  <1>1. Init => SoleInv  BY SoleInit
  <1>2. SoleInv /\ IInv' /\ [Next]_vars => SoleInv'  BY SoleNext
  <1>3. SoleInv /\ [Next]_vars =>
            \A w \in Workers : pc[w] = "draining" /\ pc'[w] = "handling"
                => blocked[current'[w]] = 0
    <2> SUFFICES ASSUME SoleInv, [Next]_vars, NEW w \in Workers,
                        pc[w] = "draining", pc'[w] = "handling"
                 PROVE  blocked[current'[w]] = 0
      OBVIOUS
    <2> USE DEF SoleInv, IInv, TypeOK
    <2>1. Claim(w)
      <3>1. WorkerStep(w) \/ CrashWorker(w)
        BY DEF OneWorker, Next, vars, workerVars, CollectorStep, CollectStores, CollectFails,
               EnqueueRetry, CrashCollector, Purge, ChangeAccounts, Tick
      <3> QED
        BY <3>1 DEF WorkerStep, StartDrain, FinishDrain, Skip, Complete, Fail, RescheduleRead,
                    RescheduleWrite, CrashWorker, AbortDrain
    <2>2. PICK t \in Tasks : current'[w] = t /\ Exists(t) /\ row[t].status = "PENDING"
                               /\ row[t].wait = 0
      BY <2>1 DEF Claim, Claimable, Ids
    <2>3. ~Owed(t)  BY DEF Owed, Refusing, OneWorker
    <2>4. blocked[t] \in Nat /\ blocked[t] <= 0  BY <2>2, <2>3 DEF Waits
    <2> QED  BY <2>2, <2>4
  <1> QED
    BY <1>1, <1>2, <1>3, Invariance, PTL DEF Spec, RefusedTaskWaits
=============================================================================
