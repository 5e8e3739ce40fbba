-------------------------- MODULE ReportExportProofs --------------------------
(***************************************************************************)
(* Proofs about ReportExport for any set of drains, any number of tasks and *)
(* any batch size.                                                          *)
(***************************************************************************)
EXTENDS ReportExport, FiniteSetTheorems, WellFoundedInduction, TLAPS

-----------------------------------------------------------------------------
(* The order of created_at.                                                 *)

\* A set of tasks has an oldest one.
LEMMA OldestExists ==
    ASSUME NEW ts \in SUBSET Nat, ts # {}
    PROVE  \E m \in ts : \A n \in ts : m <= n
  <1> DEFINE R == {ss \in Nat \X Nat : ss[1] < ss[2]}
  <1>1. IsWellFoundedOn(R, Nat)  BY NatLessThanWellFounded DEF OpToRel
  <1> HIDE DEF R
  <1>2. PICK m \in ts : \A n \in ts : <<n, m>> \notin R  BY <1>1, WFMin
  <1>3. ASSUME NEW n \in ts PROVE m <= n
    <2>1. m \in Nat /\ n \in Nat  BY <1>3
    <2>2. ~(n < m)  BY <1>2, <1>3, <2>1 DEF R
    <2> QED  BY <2>1, <2>2
  <1> QED  BY <1>2, <1>3

\* First names the oldest task of a list.
LEMMA FirstIsOldest ==
    ASSUME NEW ts \in SUBSET Tasks, ts # {}
    PROVE  First(ts) \in ts /\ \A u \in ts : First(ts) <= u
  <1>1. ts \in SUBSET Nat  BY DEF Tasks
  <1>2. \E t \in ts : \A u \in ts : t <= u  BY <1>1, OldestExists
  <1> QED  BY <1>2 DEF First

\* A batch is not empty when a task is pending: the batch size is positive.
LEMMA OldestNotEmpty ==
    ASSUME NEW ts \in SUBSET Tasks, ts # {}
    PROVE  Oldest(ts) # {} /\ Oldest(ts) \subseteq ts
  <1> DEFINE t == First(ts)
  <1>1. t \in ts /\ \A u \in ts : t <= u  BY FirstIsOldest
  <1> HIDE DEF t
  <1>2. \A u \in ts : ~(u < t)  BY <1>1 DEF Tasks
  <1>3. Cardinality({u \in ts : u < t}) = 0  BY <1>2, FS_EmptySet
  <1>4. 0 < BatchSize  BY ConstantsAssumption DEF ConstantsAssumption
  <1>5. t \in Oldest(ts)  BY <1>1, <1>3, <1>4 DEF Oldest
  <1> QED  BY <1>5 DEF Oldest

-----------------------------------------------------------------------------
(* The inductive invariant.                                                 *)

Working == PCs \ {"idle"}
Busy == {"building", "completing", "failing", "recording"}

\* A drain that is not idle has a task left to visit.
BatchNotEmpty == \A d \in Drains : pc[d] \in Working => todo[d] # {}

\* claimed_at is set exactly when the task leaves pending.
ClaimedUnlessPending ==
    \A t \in Tasks : Exists(t) => (row[t].claimed <=> row[t].status # "pending")

\* An open claim transaction holds pending rows that no other one holds.
LocksPending ==
    /\ \A d \in Drains : \A t \in locked[d] : Exists(t) /\ row[t].status = "pending"
    /\ \A d, e \in Drains : d # e => locked[d] \cap locked[e] = {}

\* A drain past its look at a task works on one that was claimed, by itself or
\* by another drain.
BusyOnClaimed ==
    \A d \in Drains : pc[d] \in Busy => Exists(Task(d)) /\ row[Task(d)].claimed

IInv ==
    /\ TypeOK
    /\ BatchNotEmpty
    /\ ClaimedUnlessPending
    /\ LocksPending
    /\ BusyOnClaimed
    /\ ResultNeedsClaim
    /\ ResultMatchesStatus

\* The task a drain works on is one of its batch.
LEMMA TaskInBatch ==
    ASSUME TypeOK, BatchNotEmpty, NEW d \in Drains, pc[d] \in Working
    PROVE  Task(d) \in todo[d] /\ Task(d) \in Tasks
  BY FirstIsOldest DEF TypeOK, BatchNotEmpty, Task

\* A late mark turns a row into a row: it keeps the status it found or stores a
\* settled one.
LEMMA MarkedType ==
    ASSUME NEW r \in Row, NEW read
    PROVE  /\ Completed(r, read) \in Row
           /\ Failed(r, read) \in Row
           /\ Completed(r, read).status \in {r.status, "completed"}
           /\ Failed(r, read).status \in {r.status, "failed"}
  BY DEF Row, Statuses, Completed, Failed, StatusWritten

-----------------------------------------------------------------------------
(* The initial state.                                                       *)

\* The empty table and the idle drains satisfy the invariant.
LEMMA InitInv == Init => IInv
  <1> SUFFICES ASSUME Init PROVE IInv  OBVIOUS
  <1>1. TypeOK  BY DEF Init, TypeOK, PCs
  <1>2. BatchNotEmpty /\ BusyOnClaimed
    BY DEF Init, BatchNotEmpty, BusyOnClaimed, Working, Busy
  <1>3. ClaimedUnlessPending /\ ResultNeedsClaim /\ ResultMatchesStatus
    BY DEF Init, ClaimedUnlessPending, ResultNeedsClaim, ResultMatchesStatus,
           Exists, Status
  <1>4. LocksPending  BY DEF Init, LocksPending
  <1> QED  BY <1>1, <1>2, <1>3, <1>4 DEF IInv

-----------------------------------------------------------------------------
(* Steps that leave the table alone.                                        *)

\* The row invariants speak of the table only.
RowsSound ==
    ClaimedUnlessPending /\ ResultNeedsClaim /\ ResultMatchesStatus

LEMMA RowsFrame ==
    ASSUME RowsSound, UNCHANGED row
    PROVE  RowsSound'
  BY DEF RowsSound, ClaimedUnlessPending, ResultNeedsClaim, ResultMatchesStatus,
         Exists, Status

\* Leave: the drain goes idle with its last task, else its batch shrinks by one.
LEMMA LeaveKeeps ==
    ASSUME TypeOK, BatchNotEmpty, NEW d \in Drains, pc[d] \in Working, Leave(d)
    PROVE  /\ todo' \in [Drains -> SUBSET Tasks]
           /\ pc' \in [Drains -> PCs]
           /\ seen' \in [Drains -> Statuses \cup {"none"}]
           /\ BatchNotEmpty'
           /\ \A e \in Drains : pc'[e] \in Busy =>
                  pc[e] \in Busy /\ todo'[e] = todo[e]
  <1> DEFINE t == Task(d)
  <1>1. t \in todo[d] /\ t \in Tasks  BY TaskInBatch
  <1> HIDE DEF t
  <1>2. /\ todo' = [todo EXCEPT ![d] = @ \ {t}]
        /\ pc' = [pc EXCEPT ![d] = IF todo[d] = {t} THEN "idle" ELSE "visiting"]
        /\ seen' = [seen EXCEPT ![d] = "none"]
    BY DEF Leave, t
  <1>3. /\ todo' \in [Drains -> SUBSET Tasks]
        /\ pc' \in [Drains -> PCs]
        /\ seen' \in [Drains -> Statuses \cup {"none"}]
    BY <1>2 DEF TypeOK, PCs
  <1>4. ASSUME NEW e \in Drains, pc'[e] \in Working PROVE todo'[e] # {}
    <2>1. CASE e = d
      <3>1. todo[d] # {t}  BY <1>2, <1>4, <2>1 DEF TypeOK, Working
      <3> QED  BY <1>1, <1>2, <2>1, <3>1 DEF TypeOK
    <2>2. CASE e # d
      BY <1>2, <1>4, <2>2 DEF TypeOK, BatchNotEmpty
    <2> QED  BY <2>1, <2>2
  <1>5. ASSUME NEW e \in Drains, pc'[e] \in Busy
        PROVE  pc[e] \in Busy /\ todo'[e] = todo[e]
    <2>1. e # d  BY <1>2, <1>5 DEF TypeOK, Busy
    <2> QED  BY <1>2, <1>5, <2>1 DEF TypeOK
  <1> QED  BY <1>3, <1>4, <1>5 DEF BatchNotEmpty

\* A drain that stays busy with the same batch works on the same task.
LEMMA BusyFrame ==
    ASSUME BusyOnClaimed, UNCHANGED row,
           \A e \in Drains : pc'[e] \in Busy => pc[e] \in Busy /\ todo'[e] = todo[e]
    PROVE  BusyOnClaimed'
  BY DEF BusyOnClaimed, Task, First, Exists

\* The claim transaction before its commit: listing and locking.
LEMMA ClaimingInv ==
    ASSUME IInv, NEW d \in Drains, ListPending(d) \/ Claim(d)
    PROVE  IInv'
  <1> USE DEF IInv
  <1>1. UNCHANGED row  BY DEF ListPending, Claim
  <1>2. RowsSound'  BY <1>1, RowsFrame DEF RowsSound
  <1>3. CASE ListPending(d)
    <2>1. Pending \in SUBSET Tasks /\ Pending # {}
      BY <1>3 DEF ListPending, Pending
    <2>2. Oldest(Pending) # {} /\ Oldest(Pending) \in SUBSET Tasks
      BY <2>1, OldestNotEmpty
    <2>3. TypeOK'  BY <1>3, <2>2 DEF ListPending, TypeOK, PCs
    <2>4. BatchNotEmpty'
      BY <1>3, <2>2 DEF ListPending, TypeOK, BatchNotEmpty
    <2>5. LocksPending'
      BY <1>3 DEF ListPending, LocksPending, Exists
    <2>6. BusyOnClaimed'
      BY <1>1, <1>3, BusyFrame DEF ListPending, TypeOK, Busy
    <2> QED  BY <1>2, <2>3, <2>4, <2>5, <2>6 DEF RowsSound
  <1>4. CASE Claim(d)
    <2> DEFINE t == First(unclaimed[d])
    <2>1. t \in Tasks  BY <1>4, FirstIsOldest DEF Claim, TypeOK
    <2> HIDE DEF t
    <2>2. /\ unclaimed' = [unclaimed EXCEPT ![d] = @ \ {t}]
          /\ locked' = [locked EXCEPT ![d] =
                 IF t \in Pending /\ ~Locked(t) THEN @ \cup {t} ELSE @]
      BY <1>4 DEF Claim, t
    <2>3. TypeOK'  BY <1>4, <2>1, <2>2 DEF Claim, TypeOK
    <2>4. BatchNotEmpty'  BY <1>4 DEF Claim, BatchNotEmpty
    <2>5. LocksPending'
      <3>1. CASE t \in Pending /\ ~Locked(t)
        <4>1. locked' = [locked EXCEPT ![d] = @ \cup {t}]  BY <2>2, <3>1
        <4>2. Exists(t) /\ row[t].status = "pending"
          BY <3>1 DEF Pending, Status, Exists
        <4>3. \A e \in Drains : t \notin locked[e]  BY <3>1 DEF Locked
        <4> QED
          BY <1>1, <4>1, <4>2, <4>3 DEF TypeOK, LocksPending, Exists
      <3>2. CASE ~(t \in Pending /\ ~Locked(t))
        <4>1. locked' = locked  BY <2>2, <3>2 DEF TypeOK
        <4> QED  BY <1>1, <4>1 DEF LocksPending, Exists
      <3> QED  BY <3>1, <3>2
    <2>6. BusyOnClaimed'  BY <1>1, <1>4, BusyFrame DEF Claim
    <2> QED  BY <1>2, <2>3, <2>4, <2>5, <2>6 DEF RowsSound
  <1> QED  BY <1>3, <1>4

\* Looking at a task, reading its row, a failed build, a failed commit and a
\* failure that is swallowed write nothing.
LEMMA LookingInv ==
    ASSUME IInv, NEW d \in Drains,
           \/ Visit(d) \/ ReadToComplete(d) \/ ReadToFail(d)
           \/ BuildFails(d) \/ CompletionLost(d) \/ FailureLost(d)
    PROVE  IInv'
  <1> USE DEF IInv
  <1>1. UNCHANGED <<row, unclaimed, locked, crashes>>
    BY DEF Visit, ReadToComplete, ReadToFail, BuildFails, CompletionLost, FailureLost
  <1>2. RowsSound'  BY <1>1, RowsFrame DEF RowsSound
  <1>3. LocksPending'  BY <1>1 DEF LocksPending, Exists
  <1>4. pc[d] \in Working
    BY DEF Visit, ReadToComplete, ReadToFail, BuildFails, CompletionLost,
           FailureLost, Working, PCs
  <1>5. Task(d) \in Tasks  BY <1>4, TaskInBatch
  <1>6. CASE Leave(d)
    <2>1. TypeOK' /\ BatchNotEmpty'
      BY <1>1, <1>4, <1>6, LeaveKeeps DEF TypeOK
    <2>2. BusyOnClaimed'  BY <1>1, <1>4, <1>6, LeaveKeeps, BusyFrame
    <2> QED  BY <1>2, <1>3, <2>1, <2>2 DEF RowsSound
  <1>7. CASE Visit(d) /\ Visitable(Task(d))
    <2>1. pc' = [pc EXCEPT ![d] = "building"] /\ UNCHANGED <<todo, seen>>
      BY <1>7 DEF Visit
    <2>2. TypeOK' /\ BatchNotEmpty'
      BY <1>1, <1>4, <2>1 DEF TypeOK, PCs, BatchNotEmpty
    <2>3. Exists(Task(d)) /\ row[Task(d)].claimed
      BY <1>5, <1>7 DEF Visitable, Status, ClaimedUnlessPending
    <2>4. BusyOnClaimed'
      BY <1>1, <2>1, <2>3 DEF TypeOK, BusyOnClaimed, Task, Exists, Busy
    <2> QED  BY <1>2, <1>3, <2>2, <2>4 DEF RowsSound
  <1>8. CASE \/ ReadToComplete(d) \/ ReadToFail(d)
             \/ BuildFails(d) \/ CompletionLost(d)
    <2>1. pc[d] \in Busy
      BY <1>8 DEF ReadToComplete, ReadToFail, BuildFails, CompletionLost, Busy
    <2>2. row[Task(d)] \in Row  BY <1>5, <2>1 DEF TypeOK, BusyOnClaimed, Exists
    <2>3. row[Task(d)].status \in Statuses  BY <2>2 DEF Row
    <2>4. seen' \in [Drains -> Statuses \cup {"none"}]
      BY <1>8, <2>3
      DEF ReadToComplete, ReadToFail, BuildFails, CompletionLost, TypeOK
    <2>5. todo' = todo /\ \E at \in Busy : pc' = [pc EXCEPT ![d] = at]
      BY <1>8 DEF ReadToComplete, ReadToFail, BuildFails, CompletionLost, Busy
    <2>6. TypeOK' /\ BatchNotEmpty'
      BY <1>1, <1>4, <2>4, <2>5 DEF TypeOK, PCs, Busy, BatchNotEmpty
    <2>7. BusyOnClaimed'
      BY <1>1, <2>1, <2>5, BusyFrame DEF TypeOK
    <2> QED  BY <1>2, <1>3, <2>6, <2>7 DEF RowsSound
  <1> QED
    BY <1>6, <1>7, <1>8 DEF Visit, FailureLost

-----------------------------------------------------------------------------
(* Steps that write the table.                                              *)

\* A row that was claimed stays, and a drain works on the same task, so a busy
\* drain stays on a claimed task when only rows change.
LEMMA BusyKept ==
    ASSUME TypeOK, BatchNotEmpty, BusyOnClaimed,
           \A t \in Tasks : Exists(t) /\ row[t].claimed =>
               Exists(t)' /\ row'[t].claimed,
           \A e \in Drains : pc'[e] \in Busy => pc[e] \in Busy /\ todo'[e] = todo[e]
    PROVE  BusyOnClaimed'
  <1> SUFFICES ASSUME NEW e \in Drains, pc'[e] \in Busy
               PROVE  (Exists(Task(e)) /\ row[Task(e)].claimed)'
    BY DEF BusyOnClaimed
  <1>1. pc[e] \in Busy /\ todo'[e] = todo[e]  OBVIOUS
  <1>2. Task(e)' = Task(e)  BY <1>1 DEF Task, First
  <1>3. Task(e) \in Tasks  BY <1>1, TaskInBatch DEF Busy, Working, PCs
  <1>4. Exists(Task(e)) /\ row[Task(e)].claimed  BY <1>1 DEF BusyOnClaimed
  <1>5. row'[Task(e)] # NoRow /\ row'[Task(e)].claimed
    BY <1>3, <1>4 DEF Exists
  <1> QED  BY <1>2, <1>5 DEF Exists

\* The endpoint adds a pending row, which no drain has locked or claimed.
LEMMA EnqueueInv ==
    ASSUME IInv, NEW t \in Tasks, Enqueue(t)
    PROVE  IInv'
  <1> USE DEF IInv
  <1> DEFINE new == [status |-> "pending", claimed |-> FALSE,
                     artifact |-> FALSE, error |-> FALSE]
  <1>1. /\ ~Exists(t)
        /\ row' = [row EXCEPT ![t] = new]
        /\ UNCHANGED <<pc, unclaimed, locked, todo, seen, crashes>>
    BY DEF Enqueue, drainVars
  <1>2. new \in Row /\ new # NoRow
    <2>1. new \in Row  BY DEF Row, Statuses
    <2> QED  BY <2>1, NoRowAssumption DEF NoRowAssumption
  <1>3. new.status = "pending" /\ ~new.claimed /\ ~new.artifact /\ ~new.error  OBVIOUS
  <1> HIDE DEF new
  <1>4. TypeOK'  BY <1>1, <1>2 DEF TypeOK
  <1>5. BatchNotEmpty'  BY <1>1 DEF BatchNotEmpty
  <1>6. ClaimedUnlessPending' /\ ResultNeedsClaim' /\ ResultMatchesStatus'
    BY <1>1, <1>3
    DEF TypeOK, ClaimedUnlessPending, ResultNeedsClaim, ResultMatchesStatus,
        Exists, Status
  <1>7. LocksPending'  BY <1>1, <1>2, <1>3 DEF TypeOK, LocksPending, Exists
  <1>8. BusyOnClaimed'
    <2>1. \A u \in Tasks : Exists(u) /\ row[u].claimed =>
              Exists(u)' /\ row'[u].claimed
      BY <1>1 DEF TypeOK, Exists
    <2> QED  BY <1>1, <2>1, BusyKept
  <1> QED  BY <1>4, <1>5, <1>6, <1>7, <1>8

\* The commit of the claims: every locked row is pending and only d's.
LEMMA CommitInv ==
    ASSUME IInv, NEW d \in Drains, CommitClaims(d)
    PROVE  IInv' /\ \A t \in Tasks : Status(t) \in Settled => Status(t)' \in Settled
  <1> USE DEF IInv
  <1> DEFINE claim(t) == [row[t] EXCEPT !.status = "processing", !.claimed = TRUE]
  <1>1. /\ row' = [t \in Tasks |-> IF t \in locked[d] THEN claim(t) ELSE row[t]]
        /\ locked' = [locked EXCEPT ![d] = {}]
        /\ pc[d] = "claiming"
        /\ pc' = [pc EXCEPT ![d] = "visiting"]
        /\ UNCHANGED <<unclaimed, todo, seen, crashes>>
    BY DEF CommitClaims
  <1>2. ASSUME NEW t \in Tasks, t \in locked[d]
        PROVE  /\ row[t] \in Row /\ row[t].status = "pending"
               /\ claim(t) \in Row /\ claim(t) # NoRow
               /\ claim(t).status = "processing" /\ claim(t).claimed
    <2>1. row[t] \in Row /\ row[t].status = "pending"
      BY <1>2 DEF TypeOK, LocksPending, Exists
    <2>2. claim(t) \in Row /\ claim(t).status = "processing" /\ claim(t).claimed
      BY <2>1 DEF Row, Statuses
    <2> QED  BY <2>1, <2>2, NoRowAssumption DEF NoRowAssumption
  <1> HIDE DEF claim
  <1>3. TypeOK'
    <2>1. row' \in [Tasks -> Row \cup {NoRow}]  BY <1>1, <1>2 DEF TypeOK
    <2> QED  BY <1>1, <2>1 DEF TypeOK, PCs
  <1>4. BatchNotEmpty'  BY <1>1 DEF TypeOK, BatchNotEmpty, Working, PCs
  <1>5. RowsSound'
    <2>1. ASSUME NEW t \in Tasks
          PROVE  /\ Exists(t)' => (row'[t].claimed <=> row'[t].status # "pending")
                 /\ Exists(t)' /\ (row'[t].artifact \/ row'[t].error)
                        => row'[t].claimed
                 /\ Status(t)' = "completed" => row'[t].artifact
                 /\ Status(t)' = "failed" => row'[t].error
      <3>1. CASE t \in locked[d]
        <4>1. row'[t] = claim(t)  BY <1>1, <3>1
        <4> QED  BY <1>2, <3>1, <4>1 DEF Exists, Status
      <3>2. CASE t \notin locked[d]
        <4>1. row'[t] = row[t]  BY <1>1, <3>2
        <4> QED
          BY <4>1 DEF ClaimedUnlessPending, ResultNeedsClaim, ResultMatchesStatus,
                      Exists, Status
      <3> QED  BY <3>1, <3>2
    <2> QED
      BY <2>1 DEF RowsSound, ClaimedUnlessPending, ResultNeedsClaim,
                  ResultMatchesStatus
  <1>6. LocksPending'
    <2>1. ASSUME NEW e \in Drains, NEW t \in locked'[e]
          PROVE  row'[t] # NoRow /\ row'[t].status = "pending"
      <3>1. e # d /\ t \in locked[e] /\ t \notin locked[d] /\ t \in Tasks
        BY <1>1, <2>1 DEF TypeOK, LocksPending
      <3>2. row'[t] = row[t]  BY <1>1, <3>1
      <3> QED  BY <3>1, <3>2 DEF LocksPending, Exists
    <2>2. \A e, f \in Drains : e # f => locked'[e] \cap locked'[f] = {}
      BY <1>1 DEF TypeOK, LocksPending
    <2> QED  BY <2>1, <2>2 DEF LocksPending, Exists
  <1>7. BusyOnClaimed'
    <2>1. \A t \in Tasks : Exists(t) /\ row[t].claimed =>
              Exists(t)' /\ row'[t].claimed
      BY <1>1, <1>2 DEF Exists
    <2>2. \A e \in Drains : pc'[e] \in Busy => pc[e] \in Busy /\ todo'[e] = todo[e]
      BY <1>1 DEF TypeOK, Busy
    <2> QED  BY <2>1, <2>2, BusyKept
  <1>8. ASSUME NEW t \in Tasks, Status(t) \in Settled PROVE Status(t)' \in Settled
    <2>1. t \notin locked[d]  BY <1>2, <1>8 DEF Status, Settled
    <2>2. row'[t] = row[t]  BY <1>1, <2>1
    <2> QED  BY <1>8, <2>2 DEF Status, Exists
  <1> QED  BY <1>3, <1>4, <1>5, <1>6, <1>7, <1>8 DEF RowsSound

\* A late mark: the task was claimed, so it is neither pending nor locked, and
\* the status written is the settled one or the one another drain stored.
LEMMA MarkInv ==
    ASSUME IInv, NEW d \in Drains, MarkCompleted(d) \/ MarkFailed(d)
    PROVE  IInv' /\ \A t \in Tasks : Status(t) \in Settled => Status(t)' \in Settled
  <1> USE DEF IInv
  <1> DEFINE k == Task(d)
             done == Completed(row[k], seen[d])
             failed == Failed(row[k], seen[d])
  <1>1. pc[d] \in Busy /\ pc[d] \in Working
    BY DEF MarkCompleted, MarkFailed, Busy, Working, PCs
  <1>2. k \in Tasks  BY <1>1, TaskInBatch
  <1>3. row[k] \in Row /\ row[k].claimed  BY <1>1, <1>2 DEF TypeOK, BusyOnClaimed, Exists
  <1>4. row[k].status # "pending"
    BY <1>1, <1>2 DEF BusyOnClaimed, ClaimedUnlessPending
  <1>5. PICK new \in {done, failed} : row' = [row EXCEPT ![k] = new]
    BY DEF MarkCompleted, MarkFailed
  <1>6. Leave(d) /\ UNCHANGED <<unclaimed, locked, crashes>>
    BY DEF MarkCompleted, MarkFailed
  <1>7. /\ new \in Row /\ new # NoRow
        /\ new.claimed
        /\ new.status \in {row[k].status} \cup Settled
        /\ new.status = "completed" => new.artifact
        /\ new.status = "failed" => new.error
    <2>1. /\ row[k].status = "completed" => row[k].artifact
          /\ row[k].status = "failed" => row[k].error
      BY <1>1, <1>2 DEF BusyOnClaimed, ResultMatchesStatus, Status
    <2>2. CASE new = done
      <3>1. done \in Row /\ done.claimed /\ done.artifact /\ done.error = row[k].error
        BY <1>3, MarkedType DEF Completed, Row
      <3> QED
        BY <1>3, <2>1, <2>2, <3>1, MarkedType, NoRowAssumption
        DEF NoRowAssumption, Settled
    <2>3. CASE new = failed
      <3>1. /\ failed \in Row /\ failed.claimed /\ failed.error
            /\ failed.artifact = row[k].artifact
        BY <1>3, MarkedType DEF Failed, Row
      <3> QED
        BY <1>3, <2>1, <2>3, <3>1, MarkedType, NoRowAssumption
        DEF NoRowAssumption, Settled
    <2> QED  BY <2>2, <2>3
  <1> HIDE DEF k, done, failed
  <1>8. new.status # "pending"  BY <1>4, <1>7 DEF Settled
  <1>9. row'[k] = new /\ \A t \in Tasks : t # k => row'[t] = row[t]
    BY <1>2, <1>5 DEF TypeOK
  <1>10. TypeOK' /\ BatchNotEmpty'
    <2>1. row' \in [Tasks -> Row \cup {NoRow}]  BY <1>2, <1>5, <1>7 DEF TypeOK
    <2> QED  BY <1>1, <1>6, <2>1, LeaveKeeps DEF TypeOK
  <1>11. RowsSound'
    <2>1. ASSUME NEW t \in Tasks
          PROVE  /\ Exists(t)' => (row'[t].claimed <=> row'[t].status # "pending")
                 /\ Exists(t)' /\ (row'[t].artifact \/ row'[t].error)
                        => row'[t].claimed
                 /\ Status(t)' = "completed" => row'[t].artifact
                 /\ Status(t)' = "failed" => row'[t].error
      <3>1. CASE t = k
        BY <1>7, <1>8, <1>9, <3>1 DEF Exists, Status
      <3>2. CASE t # k
        BY <1>9, <3>2
        DEF ClaimedUnlessPending, ResultNeedsClaim, ResultMatchesStatus, Exists, Status
      <3> QED  BY <3>1, <3>2
    <2> QED
      BY <2>1 DEF RowsSound, ClaimedUnlessPending, ResultNeedsClaim,
                  ResultMatchesStatus
  <1>12. LocksPending'
    <2>1. ASSUME NEW e \in Drains, NEW t \in locked[e]
          PROVE  row'[t] # NoRow /\ row'[t].status = "pending"
      <3>1. t \in Tasks /\ Exists(t) /\ row[t].status = "pending"
        BY <2>1 DEF TypeOK, LocksPending
      <3>2. t # k  BY <1>4, <3>1
      <3> QED  BY <1>9, <3>1, <3>2 DEF Exists
    <2> QED  BY <1>6, <2>1 DEF LocksPending, Exists
  <1>13. BusyOnClaimed'
    <2>1. \A t \in Tasks : Exists(t) /\ row[t].claimed =>
              Exists(t)' /\ row'[t].claimed
      BY <1>7, <1>9 DEF Exists
    <2>2. \A e \in Drains : pc'[e] \in Busy => pc[e] \in Busy /\ todo'[e] = todo[e]
      BY <1>1, <1>6, LeaveKeeps
    <2> QED  BY <2>1, <2>2, BusyKept
  <1>14. ASSUME NEW t \in Tasks, Status(t) \in Settled PROVE Status(t)' \in Settled
    <2>1. CASE t = k
      BY <1>7, <1>9, <1>14, <2>1 DEF Status, Exists, Settled
    <2>2. CASE t # k
      BY <1>9, <1>14, <2>2 DEF Status, Exists
    <2> QED  BY <2>1, <2>2
  <1> QED  BY <1>10, <1>11, <1>12, <1>13, <1>14 DEF RowsSound

\* A killed drain drops its locks and its batch; its rows stay as they are.
LEMMA CrashInv ==
    ASSUME IInv, NEW d \in Drains, Crash(d)
    PROVE  IInv'
  <1> USE DEF IInv
  <1>1. RowsSound'  BY RowsFrame DEF Crash, RowsSound
  <1>2. TypeOK'  BY DEF Crash, TypeOK, PCs
  <1>3. BatchNotEmpty'  BY DEF Crash, TypeOK, BatchNotEmpty, Working
  <1>4. LocksPending'  BY DEF Crash, TypeOK, LocksPending, Exists
  <1>5. BusyOnClaimed'  BY BusyFrame DEF Crash, TypeOK, Busy
  <1> QED  BY <1>1, <1>2, <1>3, <1>4, <1>5 DEF RowsSound

-----------------------------------------------------------------------------
(* The theorems.                                                            *)

\* Every step keeps the invariant and never reopens a settled task.
LEMMA NextInv ==
    ASSUME IInv, [Next]_vars
    PROVE  IInv' /\ \A t \in Tasks : Status(t) \in Settled => Status(t)' \in Settled
  <1> DEFINE Kept == \A t \in Tasks : Status(t) \in Settled => Status(t)' \in Settled
  <1>1. ASSUME UNCHANGED row PROVE Kept  BY <1>1 DEF Status, Exists
  <1>2. CASE \E t \in Tasks : Enqueue(t)
    <2>1. PICK t \in Tasks : Enqueue(t)  BY <1>2
    <2>2. Kept  BY <2>1 DEF Enqueue, IInv, TypeOK, Status, Exists, Settled
    <2> QED  BY <2>1, <2>2, EnqueueInv
  <1>3. ASSUME NEW d \in Drains, Step(d) \/ Fault(d) PROVE IInv' /\ Kept
    <2>1. CASE ListPending(d) \/ Claim(d)
      BY <1>1, <2>1, ClaimingInv DEF ListPending, Claim
    <2>2. CASE CommitClaims(d)  BY <2>2, CommitInv
    <2>3. CASE \/ Visit(d) \/ ReadToComplete(d) \/ ReadToFail(d)
               \/ BuildFails(d) \/ CompletionLost(d) \/ FailureLost(d)
      BY <1>1, <2>3, LookingInv
      DEF Visit, ReadToComplete, ReadToFail, BuildFails, CompletionLost, FailureLost
    <2>4. CASE MarkCompleted(d) \/ MarkFailed(d)  BY <2>4, MarkInv
    <2>5. CASE Crash(d)  BY <1>1, <2>5, CrashInv DEF Crash
    <2> QED  BY <1>3, <2>1, <2>2, <2>3, <2>4, <2>5 DEF Step, Fault
  <1>4. CASE UNCHANGED vars
    <2>1. Kept  BY <1>1, <1>4 DEF vars
    <2>2. IInv'
      BY <1>4
      DEF IInv, vars, drainVars, TypeOK, BatchNotEmpty, ClaimedUnlessPending,
          LocksPending, BusyOnClaimed, ResultNeedsClaim, ResultMatchesStatus,
          Task, First, Exists, Status
    <2> QED  BY <2>1, <2>2
  <1> QED  BY <1>2, <1>3, <1>4 DEF Next

\* The invariant holds in every reachable state.
LEMMA Invariant == Spec => []IInv
  <1>1. IInv /\ [Next]_vars => IInv'  BY NextInv
  <1> QED  BY InitInv, <1>1, PTL DEF Spec

\* Every reachable state has its types: in particular every late mark of
\* mark_completed and mark_failed finds the row of its task.
THEOREM TypeCorrect == Spec => []TypeOK
  <1>1. IInv => TypeOK  BY DEF IInv
  <1> QED  BY Invariant, <1>1, PTL

\* A task no committed claim took has neither an artifact nor an error, although
\* drains visit the tasks of each other's claims (_claim_batch, _process_task).
THEOREM ResultAfterClaim == Spec => []ResultNeedsClaim
  <1>1. IInv => ResultNeedsClaim  BY DEF IInv
  <1> QED  BY Invariant, <1>1, PTL

\* A completed task has its artifact and a failed one its error, whatever two
\* drains that process the same task read before they wrote (mark_completed,
\* mark_failed).
THEOREM ResultFollowsStatus == Spec => []ResultMatchesStatus
  <1>1. IInv => ResultMatchesStatus  BY DEF IInv
  <1> QED  BY Invariant, <1>1, PTL

\* No claim and no late mark takes a settled task back to pending or processing.
THEOREM SettledStays == Spec => SettledNeverReopens
  <1>1. IInv /\ [Next]_vars =>
            [\A t \in Tasks : Status(t) \in Settled => Status(t)' \in Settled]_vars
    BY NextInv
  <1> QED  BY Invariant, <1>1, PTL DEF Spec, SettledNeverReopens
=============================================================================
