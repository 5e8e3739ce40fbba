--------------------------- MODULE BillReportsProofs ---------------------------
(***************************************************************************)
(* Proofs about BillReports for any number of bills, any set of concurrent  *)
(* requests and any history of earlier releases.                            *)
(***************************************************************************)
EXTENDS BillReports, SequenceTheorems, WellFoundedInduction, TLAPS

-----------------------------------------------------------------------------
(* What is computed.                                                        *)

\* build_monthly_report_for_bill returns a report, whose savings are empty or
\* given: only an earlier release leaves them out.
LEMMA BuiltType ==
    ASSUME TypeOK, NEW b \in Bills
    PROVE  /\ Built(b) \in Report
           /\ Built(b).money \in {"empty", "given"}
  <1>1. production[b] \in Productions  BY DEF TypeOK
  <1> QED  BY <1>1 DEF Built, Report

\* The causes of _gap_for, and what each says of the revision it was found on.
LEMMA CauseType ==
    ASSUME NEW b \in Bills
    PROVE  /\ Cause(b) \in Causes
           /\ Cause(b) = "missing" <=> Revision(b) = 0
           /\ Cause(b) = "predates" => Current(b).money = "absent"
           /\ Cause(b) = "unavailable" => Current(b).money = "empty"
           /\ Cause(b) = "partial" => Current(b).basis = "floor" /\ ~Current(b).noted
  <1>1. CASE Revision(b) = 0  BY <1>1 DEF Cause, Causes
  <1>2. CASE Revision(b) # 0
    <2> DEFINE x == Current(b)
    <2>1. Cause(b) = CASE x.money = "absent" -> "predates"
           [] x.money = "empty" -> "unavailable"
           [] x.money = "given" /\ Outdated(b) -> "outdated"
           [] x.money = "given" /\ ~Outdated(b) /\ x.basis = "floor" /\ ~x.noted -> "partial"
           [] OTHER -> "none"
      BY <1>2 DEF Cause
    <2> HIDE DEF x
    <2>2. /\ Cause(b) \in {"predates", "unavailable", "outdated", "partial", "none"}
          /\ Cause(b) = "predates" => x.money = "absent"
          /\ Cause(b) = "unavailable" => x.money = "empty"
          /\ Cause(b) = "partial" => x.basis = "floor" /\ ~x.noted
      BY <2>1
    <2> QED  BY <1>2, <2>2 DEF Causes, x
  <1> QED  BY <1>1, <1>2

\* The number of revisions is a natural number.
LEMMA RevisionType ==
    ASSUME TypeOK, NEW b \in Bills
    PROVE  Revision(b) \in Nat
  BY LenProperties DEF TypeOK, Revision

\* A bill has a last cycle among any that are not empty.
LEMMA LatestExists ==
    ASSUME NEW bs \in SUBSET Bills, bs # {}
    PROVE  \E m \in bs : \A b \in bs : b <= m
  <1> DEFINE R == {ss \in Nat \X Nat : ss[1] < ss[2]}
             left == {LastBill - b : b \in bs}
  <1>1. IsWellFoundedOn(R, Nat)  BY NatLessThanWellFounded DEF OpToRel
  <1>2. \A b \in bs : b \in Nat /\ b <= LastBill  BY DEF Bills
  <1>3. LastBill \in Nat  BY ConstantsAssumption DEF ConstantsAssumption
  <1>4. left \subseteq Nat /\ left # {}  BY <1>2, <1>3
  <1> HIDE DEF R
  <1>5. PICK k \in left : \A n \in left : <<n, k>> \notin R
    BY <1>1, <1>4, WFMin
  <1>6. PICK m \in bs : k = LastBill - m  OBVIOUS
  <1>7. ASSUME NEW b \in bs PROVE b <= m
    <2>1. LastBill - b \in left /\ LastBill - b \in Nat  BY <1>4
    <2>2. k \in Nat  BY <1>4
    <2>3. ~(LastBill - b < k)  BY <1>5, <2>1, <2>2 DEF R
    <2> QED  BY <1>2, <1>3, <1>6, <2>3
  <1> QED  BY <1>7

-----------------------------------------------------------------------------
(* The inductive invariant.                                                 *)

Reviewed(b) == status[b] \in {"CONFIRMED", "REJECTED"}

\* A confirmed bill has its report, and only reviewed bills have any.
BillsHaveReports ==
    \A b \in Bills :
        /\ status[b] = "CONFIRMED" /\ b \notin Legacy => Revision(b) > 0
        /\ Revision(b) > 0 => Reviewed(b)

\* Whoever is about to insert has a report of a reviewed bill, or of the one it
\* confirms in the same transaction.
Prepared(r) ==
    /\ pc[r] = "reprocessing" => job[r] = "reprocess"
    /\ pc[r] = "inserting" =>
           /\ want[r] \in Report /\ rev[r] > 0
           /\ Reviewed(bill[r]) \/ job[r] = "confirm"
    /\ pc[r] = "committing" /\ job[r] = "confirm" =>
           Revision(bill[r]) > 0 \/ draft[r][bill[r]] # NoReport
    /\ \A b \in Bills : draft[r][b] # NoReport =>
           Reviewed(b) \/ (pc[r] = "committing" /\ job[r] = "confirm" /\ bill[r] = b)

\* What a request has inserted is older than what it inserts now, and that is
\* older than the gaps it has not visited.
OldestFirst(r) ==
    /\ pc[r] \in {"idle", "reviewing"} =>
           \A b \in Bills : draft[r][b] = NoReport /\ causes[r][b] = "none"
    /\ pc[r] = "inserting" =>
           /\ \A b \in Bills : draft[r][b] # NoReport => b < bill[r]
           /\ \A c \in Bills : causes[r][c] # "none" => bill[r] < c
    /\ pc[r] \in {"reprocessing", "inserting"} =>
           \A b, c \in Bills : draft[r][b] # NoReport /\ causes[r][c] # "none" => b < c

\* What FreshRevisionImproves promises of a report that follows the current one.
Improves(x, b) == x # Current(b) /\ (Current(b).money = "given" => x.money = "given")

\* The revision a gap was found on is still the current one.
StillCurrent(r, b) == Revision(b) > 0 /\ base[r][b] = Revision(b)

\* A listed cause is true of the revision it was found on, and a report computed
\* for it improves that revision, before and after it is inserted.
FreshGaps(r) ==
    /\ pc[r] \in {"idle", "reviewing"} => \A b \in Bills : base[r][b] = 0
    /\ \A b \in Bills : base[r][b] <= Revision(b)
    /\ \A b \in Bills : causes[r][b] # "none" /\ StillCurrent(r, b) =>
           /\ causes[r][b] # "missing"
           /\ causes[r][b] = "predates" => Current(b).money = "absent"
           /\ causes[r][b] = "unavailable" => Current(b).money = "empty"
           /\ causes[r][b] = "partial" => Current(b).basis = "floor"
    /\ pc[r] = "inserting" /\ StillCurrent(r, bill[r]) => Improves(want[r], bill[r])
    /\ \A b \in Bills :
           draft[r][b] # NoReport /\ StillCurrent(r, b) => Improves(draft[r][b], b)

RequestInv(r) == Prepared(r) /\ OldestFirst(r) /\ FreshGaps(r)

IInv == TypeOK /\ BillsHaveReports /\ \A r \in Requests : RequestInv(r)

\* The initial state satisfies the invariant, whatever earlier releases left.
LEMMA InitInv == Init => IInv
  <1> SUFFICES ASSUME Init PROVE IInv  OBVIOUS
  <1>1. ASSUME NEW b \in Bills
        PROVE  /\ reports[b] \in Seq(Report)
               /\ b \notin Legacy => reports[b] = <<>>
    <2>1. reports[b] \in IF b \in Legacy THEN LegacyHistory(b, fields) ELSE {<<>>}
      BY DEF Init
    <2>2. <<>> \in Seq(Report)  OBVIOUS
    <2>3. \A x \in Report : <<x>> \in Seq(Report)  OBVIOUS
    <2> QED  BY <2>1, <2>2, <2>3 DEF LegacyHistory
  <1>2. reports \in [Bills -> Seq(Report)]  BY <1>1 DEF Init
  <1>3. \A b \in Bills : b \notin Legacy => Revision(b) = 0
    BY <1>1 DEF Revision
  <1>4. 1 \in Bills  BY ConstantsAssumption DEF ConstantsAssumption, Bills
  <1>5. TypeOK
    BY <1>2, <1>4
    DEF Init, TypeOK, Statuses, Productions, PCs, Jobs, Causes, Blank
  <1>6. BillsHaveReports  BY <1>3 DEF Init, BillsHaveReports, Reviewed
  <1>7. ASSUME NEW r \in Requests PROVE RequestInv(r)
    <2>1. Prepared(r)  BY DEF Init, Prepared, Blank
    <2>2. OldestFirst(r)  BY DEF Init, OldestFirst, Blank
    <2>3. FreshGaps(r)
      BY <1>5, RevisionType DEF Init, FreshGaps, StillCurrent, Blank
    <2> QED  BY <2>1, <2>2, <2>3 DEF RequestInv
  <1> QED  BY <1>5, <1>6, <1>7 DEF IInv

-----------------------------------------------------------------------------
(* What a step leaves alone.                                                *)

\* Reports are only appended and a reviewed bill stays reviewed.
Grows ==
    /\ \A b \in Bills : reports'[b] = reports[b] \/ Revision(b) < Revision(b)'
    /\ \A b \in Bills : Reviewed(b) => Reviewed(b)'

\* The request does nothing in this step.
Rests(r) ==
    /\ pc'[r] = pc[r] /\ job'[r] = job[r] /\ bill'[r] = bill[r]
    /\ causes'[r] = causes[r] /\ base'[r] = base[r]
    /\ want'[r] = want[r] /\ rev'[r] = rev[r] /\ draft'[r] = draft[r]

\* A resting request keeps its invariant while others write: what it knows of a
\* current revision is true of that revision or concerns one that is no longer
\* current.
LEMMA RestingKeeps ==
    ASSUME TypeOK, TypeOK', Grows, NEW r \in Requests, Rests(r), RequestInv(r)
    PROVE  RequestInv(r)'
  <1>1. \A b \in Bills : Revision(b) \in Nat /\ Revision(b)' \in Nat
    BY RevisionType, LenProperties DEF TypeOK, Revision
  <1>2. bill[r] \in Bills /\ \A b \in Bills : base[r][b] \in Nat  BY DEF TypeOK
  <1>3. \A b \in Bills : Revision(b) <= Revision(b)'
    BY <1>1 DEF Grows, Revision
  <1>4. \A b \in Bills : base[r][b] <= Revision(b)
    BY DEF RequestInv, FreshGaps
  <1>5. ASSUME NEW b \in Bills, StillCurrent(r, b)'
        PROVE  /\ StillCurrent(r, b) /\ Current(b)' = Current(b)
               /\ \A x : Improves(x, b) => Improves(x, b)'
    <2>1. base[r][b] = Revision(b)'  BY <1>5 DEF StillCurrent, Rests
    <2>2. Revision(b)' <= Revision(b)  BY <1>1, <1>2, <1>4, <2>1
    <2>3. reports'[b] = reports[b]  BY <1>1, <2>2 DEF Grows
    <2> QED
      BY <1>5, <2>1, <2>3 DEF StillCurrent, Rests, Revision, Current, Improves
  <1>6. Prepared(r)'
    <2>1. Prepared(r)  BY DEF RequestInv
    <2>2. \A b \in Bills : Revision(b) > 0 => Revision(b)' > 0  BY <1>1, <1>3
    <2> QED  BY <1>2, <2>1, <2>2 DEF Prepared, Rests, Grows
  <1>7. OldestFirst(r)'  BY DEF RequestInv, OldestFirst, Rests
  <1>8. FreshGaps(r)'
    <2>1. FreshGaps(r)  BY DEF RequestInv
    <2>2. /\ pc'[r] \in {"idle", "reviewing"} => \A b \in Bills : base'[r][b] = 0
          /\ \A b \in Bills : base'[r][b] <= Revision(b)'
      BY <1>1, <1>2, <1>3, <2>1 DEF FreshGaps, Rests
    <2>3. ASSUME NEW b \in Bills, causes'[r][b] # "none", StillCurrent(r, b)'
          PROVE  /\ causes'[r][b] # "missing"
                 /\ causes'[r][b] = "predates" => Current(b)'.money = "absent"
                 /\ causes'[r][b] = "unavailable" => Current(b)'.money = "empty"
                 /\ causes'[r][b] = "partial" => Current(b)'.basis = "floor"
      BY <1>5, <2>1, <2>3 DEF FreshGaps, Rests
    <2>4. pc'[r] = "inserting" /\ StillCurrent(r, bill[r])' => Improves(want[r], bill[r])'
      BY <1>2, <1>5, <2>1 DEF FreshGaps, Rests
    <2>5. ASSUME NEW b \in Bills, draft'[r][b] # NoReport, StillCurrent(r, b)'
          PROVE  Improves(draft[r][b], b)'
      BY <1>5, <2>1, <2>5 DEF FreshGaps, Rests
    <2>6. bill'[r] = bill[r] /\ want'[r] = want[r] /\ draft'[r] = draft[r]  BY DEF Rests
    <2> QED  BY <2>2, <2>3, <2>4, <2>5, <2>6 DEF FreshGaps, StillCurrent, Improves, Current, Revision
  <1> QED  BY <1>6, <1>7, <1>8 DEF RequestInv

\* A step that leaves the bills and the reports alone.
LEMMA BillsFrame ==
    ASSUME BillsHaveReports, UNCHANGED <<status, reports>>
    PROVE  BillsHaveReports' /\ Grows
  BY DEF BillsHaveReports, Grows, Reviewed, Revision

\* The end of a request leaves nothing to keep.
LEMMA LeaveKeeps ==
    ASSUME TypeOK, NEW r \in Requests, Leave(r), reports' \in [Bills -> Seq(Report)]
    PROVE  /\ RequestInv(r)'
           /\ \A o \in Requests : o # r => Rests(o)
           /\ pc' \in [Requests -> PCs] /\ job' \in [Requests -> Jobs]
           /\ bill' \in [Requests -> Bills]
           /\ causes' \in [Requests -> [Bills -> Causes]]
           /\ base' \in [Requests -> [Bills -> Nat]]
           /\ want' \in [Requests -> Report \cup {NoReport}] /\ rev' \in [Requests -> Nat]
           /\ draft' \in [Requests -> [Bills -> Report \cup {NoReport}]]
  <1>1. /\ pc'[r] = "idle" /\ want'[r] = NoReport
        /\ \A b \in Bills : /\ causes'[r][b] = "none" /\ base'[r][b] = 0
                            /\ draft'[r][b] = NoReport
    BY DEF Leave, TypeOK, Blank
  <1>2. \A b \in Bills : Revision(b)' \in Nat  BY LenProperties DEF Revision
  <1>3. Prepared(r)' /\ OldestFirst(r)' /\ FreshGaps(r)'
    BY <1>1, <1>2 DEF Prepared, OldestFirst, FreshGaps, StillCurrent
  <1>4. \A o \in Requests : o # r => Rests(o)  BY DEF Leave, TypeOK, Rests
  <1>5. 1 \in Bills  BY ConstantsAssumption DEF ConstantsAssumption, Bills
  <1>6. /\ Blank("none") \in [Bills -> Causes] /\ Blank(0) \in [Bills -> Nat]
        /\ Blank(NoReport) \in [Bills -> Report \cup {NoReport}]
    BY DEF Blank, Causes
  <1>7. /\ pc' \in [Requests -> PCs] /\ job' \in [Requests -> Jobs]
        /\ bill' \in [Requests -> Bills]
    BY <1>5 DEF Leave, TypeOK, PCs, Jobs
  <1>8. /\ causes' \in [Requests -> [Bills -> Causes]]
        /\ base' \in [Requests -> [Bills -> Nat]]
        /\ want' \in [Requests -> Report \cup {NoReport}] /\ rev' \in [Requests -> Nat]
        /\ draft' \in [Requests -> [Bills -> Report \cup {NoReport}]]
    BY <1>6 DEF Leave, TypeOK
  <1> QED  BY <1>3, <1>4, <1>7, <1>8 DEF RequestInv

\* The report about to be inserted: it is one, of the bill it is prepared for.
LEMMA PrepareKeeps ==
    ASSUME TypeOK, NEW r \in Requests, NEW b \in Bills, PrepareInsert(r, b)
    PROVE  /\ bill' \in [Requests -> Bills] /\ pc' \in [Requests -> PCs]
           /\ want' \in [Requests -> Report \cup {NoReport}] /\ rev' \in [Requests -> Nat]
           /\ bill'[r] = b /\ pc'[r] = "inserting" /\ want'[r] = Built(b) /\ rev'[r] > 0
           /\ \A o \in Requests : o # r =>
                  /\ bill'[o] = bill[o] /\ pc'[o] = pc[o]
                  /\ want'[o] = want[o] /\ rev'[o] = rev[o]
  <1>1. Built(b) \in Report  BY BuiltType
  <1>2. Revision(b) + 1 \in Nat /\ Revision(b) + 1 > 0  BY RevisionType
  <1> DEFINE x == Built(b)
             n == Revision(b) + 1
  <1>3. /\ bill' = [bill EXCEPT ![r] = b] /\ pc' = [pc EXCEPT ![r] = "inserting"]
        /\ want' = [want EXCEPT ![r] = x] /\ rev' = [rev EXCEPT ![r] = n]
    BY DEF PrepareInsert
  <1>4. x \in Report /\ n \in Nat /\ n > 0  BY <1>1, <1>2
  <1> HIDE DEF x, n
  <1>5. /\ bill' \in [Requests -> Bills] /\ pc' \in [Requests -> PCs]
        /\ want' \in [Requests -> Report \cup {NoReport}] /\ rev' \in [Requests -> Nat]
    BY <1>3, <1>4 DEF TypeOK, PCs
  <1>6. bill'[r] = b /\ pc'[r] = "inserting" /\ want'[r] = x /\ rev'[r] > 0
    BY <1>3, <1>4 DEF TypeOK
  <1>7. \A o \in Requests : o # r =>
            /\ bill'[o] = bill[o] /\ pc'[o] = pc[o]
            /\ want'[o] = want[o] /\ rev'[o] = rev[o]
    BY <1>3 DEF TypeOK
  <1> QED  BY <1>5, <1>6, <1>7 DEF x

\* The invariant of the step's own request and of the bills, and the resting
\* ones, make the invariant.
LEMMA StepKeeps ==
    ASSUME IInv, TypeOK', BillsHaveReports', Grows, NEW r \in Requests,
           RequestInv(r)', \A o \in Requests : o # r => Rests(o)
    PROVE  IInv'
  BY RestingKeeps DEF IInv

-----------------------------------------------------------------------------
(* Bills and the world: no request moves.                                   *)

\* Uploading makes a bill that has no reports yet: nobody reviewed it.
\* Completing and the changes of telemetry and tariffs write nothing a report or
\* a listed gap is judged by afterwards.
LEMMA OutsideInv ==
    ASSUME IInv,
           \/ \E b \in Bills : Upload(b) \/ Complete(b) \/ ChangeProduction(b)
           \/ RegisterTariffs
    PROVE  IInv'
  <1>1. UNCHANGED reports /\ UNCHANGED requestVars
    BY DEF Upload, Complete, ChangeProduction, RegisterTariffs
  <1>2. \A r \in Requests : Rests(r)  BY <1>1 DEF requestVars, Rests
  <1>3. \A b \in Bills : Reviewed(b) => Reviewed(b)'
    BY DEF IInv, TypeOK, Upload, Complete, ChangeProduction, RegisterTariffs, billVars,
           Reviewed
  <1>4. Grows  BY <1>1, <1>3 DEF Grows
  <1>5. BillsHaveReports'
    <2>1. \A b \in Bills : status'[b] = "CONFIRMED" => status[b] = "CONFIRMED"
      BY DEF IInv, TypeOK, Upload, Complete, ChangeProduction, RegisterTariffs, billVars
    <2> QED  BY <1>1, <1>3, <2>1 DEF IInv, BillsHaveReports, Revision
  <1>6. TypeOK'
    <2>1. UNCHANGED <<reports, pc, job, bill, causes, base, want, rev, draft>>
      BY <1>1 DEF requestVars
    <2>2. CASE \E b \in Bills : Upload(b)
      <3>1. PICK b \in Bills : Upload(b)  BY <2>2
      <3>2. status' \in [Bills -> Statuses \cup {"absent"}]
        BY <3>1 DEF IInv, TypeOK, Statuses, Upload
      <3>3. PICK f \in {"bare", "classed"} : fields' = [fields EXCEPT ![b] = f]
        BY <3>1 DEF Upload
      <3>4. fields' \in [Bills -> {"bare", "priced", "classed"}]
        BY <3>3 DEF IInv, TypeOK
      <3>5. UNCHANGED <<production, tariffs, changes>> /\ quiet' \in [Requests -> BOOLEAN]
        BY <3>1 DEF Upload, world
      <3> QED  BY <2>1, <3>2, <3>4, <3>5 DEF IInv, TypeOK
    <2>3. CASE \E b \in Bills : Complete(b)
      <3>1. PICK b \in Bills : Complete(b)  BY <2>3
      <3>2. fields' \in [Bills -> {"bare", "priced", "classed"}]
        BY <3>1 DEF IInv, TypeOK, Complete
      <3>3. UNCHANGED <<status, production, tariffs, changes>> /\ quiet' \in [Requests -> BOOLEAN]
        BY <3>1 DEF Complete, world
      <3> QED  BY <2>1, <3>2, <3>3 DEF IInv, TypeOK
    <2>4. CASE \E b \in Bills : ChangeProduction(b)
      <3>1. PICK b \in Bills : ChangeProduction(b)  BY <2>4
      <3>2. PICK x \in Productions : production' = [production EXCEPT ![b] = x]
        BY <3>1 DEF ChangeProduction
      <3>3. production' \in [Bills -> Productions]  BY <3>2 DEF IInv, TypeOK
      <3>4. /\ UNCHANGED <<status, fields, tariffs>>
            /\ quiet' \in [Requests -> BOOLEAN] /\ changes' = changes + 1
        BY <3>1 DEF ChangeProduction, billVars
      <3> QED  BY <2>1, <3>3, <3>4 DEF IInv, TypeOK
    <2>5. CASE RegisterTariffs
      <3>1. /\ UNCHANGED <<status, fields, production>>
            /\ tariffs' = TRUE /\ changes' = changes + 1
            /\ quiet' \in [Requests -> BOOLEAN]
        BY <2>5 DEF RegisterTariffs, billVars
      <3> QED  BY <2>1, <3>1 DEF IInv, TypeOK
    <2> QED  BY <2>2, <2>3, <2>4, <2>5
  <1> QED  BY <1>2, <1>4, <1>5, <1>6, RestingKeeps DEF IInv

-----------------------------------------------------------------------------
(* The steps of a request that start or end it.                             *)

\* A request that starts looks at the status and keeps nothing else.
LEMMA ReviewInv ==
    ASSUME IInv, NEW r \in Requests, NEW b \in Bills,
           NEW verdict \in {"confirm", "reject"}, Review(r, b, verdict)
    PROVE  IInv'
  <1>1. /\ pc[r] = "idle"
        /\ pc' = [pc EXCEPT ![r] = "reviewing"] /\ job' = [job EXCEPT ![r] = verdict]
        /\ bill' = [bill EXCEPT ![r] = b]
        /\ UNCHANGED <<status, fields, reports, production, tariffs, causes, base, want,
                       rev, draft, quiet, changes>>
    BY DEF Review, billVars, world
  <1>2. TypeOK'  BY <1>1 DEF IInv, TypeOK, PCs, Jobs
  <1>3. \A o \in Requests : o # r => Rests(o)  BY <1>1 DEF IInv, TypeOK, Rests
  <1>4. RequestInv(r)
    BY DEF IInv
  <1>5. pc'[r] = "reviewing" /\ draft'[r] = draft[r] /\ causes'[r] = causes[r] /\ base'[r] = base[r]
    BY <1>1 DEF IInv, TypeOK
  <1>6. Prepared(r)' /\ OldestFirst(r)'
    BY <1>1, <1>4, <1>5 DEF RequestInv, Prepared, OldestFirst
  <1>7. FreshGaps(r)'
    BY <1>1, <1>4, <1>5 DEF RequestInv, FreshGaps, OldestFirst, StillCurrent, Revision
  <1> QED
    BY <1>1, <1>2, <1>3, <1>6, <1>7, BillsFrame, StepKeeps DEF IInv, RequestInv

\* A rejection overwrites whatever status the bill has by now: it stays reviewed.
LEMMA RejectInv ==
    ASSUME IInv, NEW r \in Requests, Reject(r)
    PROVE  IInv'
  <1> DEFINE b == bill[r]
  <1>1. b \in Bills  BY DEF IInv, TypeOK
  <1>2. /\ status' = [status EXCEPT ![b] = "REJECTED"]
        /\ quiet' = [o \in Requests |-> FALSE]
        /\ UNCHANGED <<fields, reports, production, tariffs, changes>> /\ Leave(r)
    BY DEF Reject, world
  <1> HIDE DEF b
  <1>3. TypeOK'  BY <1>1, <1>2, LeaveKeeps DEF IInv, TypeOK, Statuses
  <1>4. BillsHaveReports' /\ Grows
    BY <1>1, <1>2 DEF IInv, TypeOK, BillsHaveReports, Grows, Reviewed, Revision
  <1>5. RequestInv(r)' /\ \A o \in Requests : o # r => Rests(o)
    BY <1>2, LeaveKeeps DEF IInv, TypeOK
  <1> QED  BY <1>3, <1>4, <1>5, StepKeeps

\* A request that fails leaves the bills and the reports as they were.
LEMMA AbortInv ==
    ASSUME IInv, NEW r \in Requests, Abort(r)
    PROVE  IInv'
  <1>1. /\ UNCHANGED <<status, fields, reports, production, tariffs, changes>> /\ Leave(r)
        /\ quiet' = [quiet EXCEPT ![r] = FALSE]
    BY DEF Abort, billVars, world
  <1>2. TypeOK'  BY <1>1, LeaveKeeps DEF IInv, TypeOK
  <1>3. RequestInv(r)' /\ \A o \in Requests : o # r => Rests(o)
    BY <1>1, LeaveKeeps DEF IInv, TypeOK
  <1> QED  BY <1>1, <1>2, <1>3, BillsFrame, StepKeeps DEF IInv

\* A confirmation has the report the bill already has, or prepares one.
LEMMA ConfirmInv ==
    ASSUME IInv, NEW r \in Requests, Confirm(r)
    PROVE  IInv'
  <1> DEFINE b == bill[r]
  <1>1. b \in Bills  BY DEF IInv, TypeOK
  <1>2. /\ pc[r] = "reviewing" /\ job[r] = "confirm"
        /\ UNCHANGED <<status, fields, reports, production, tariffs, job, causes, base,
                       draft, quiet, changes>>
    BY DEF Confirm, billVars, world
  <1>3. /\ \A c \in Bills : draft[r][c] = NoReport /\ causes[r][c] = "none"
        /\ \A c \in Bills : base[r][c] = 0
    BY <1>2 DEF IInv, RequestInv, OldestFirst, FreshGaps
  <1>4. \A c \in Bills : Revision(c) \in Nat /\ Revision(c)' = Revision(c)
    BY <1>2, RevisionType DEF IInv, Revision
  <1>5. FreshGaps(r)'
    BY <1>1, <1>2, <1>3, <1>4 DEF FreshGaps, StillCurrent, Confirm, PrepareInsert,
       IInv, TypeOK
  <1>6. CASE Revision(b) > 0
    <2>1. pc' = [pc EXCEPT ![r] = "committing"] /\ UNCHANGED <<bill, want, rev>>
      BY <1>6 DEF Confirm
    <2>2. TypeOK'  BY <1>2, <2>1 DEF IInv, TypeOK, PCs
    <2>3. \A o \in Requests : o # r => Rests(o)
      BY <1>2, <2>1 DEF IInv, TypeOK, Rests
    <2>4. Prepared(r)' /\ OldestFirst(r)'
      BY <1>2, <1>3, <1>4, <1>6, <2>1
      DEF IInv, TypeOK, Prepared, OldestFirst
    <2> QED
      BY <1>2, <1>5, <2>2, <2>3, <2>4, BillsFrame, StepKeeps DEF IInv, RequestInv
  <1>7. CASE ~(Revision(b) > 0)
    <2>1. PrepareInsert(r, b)  BY <1>7 DEF Confirm
    <2> HIDE DEF b
    <2>2. TypeOK'  BY <1>1, <1>2, <2>1, PrepareKeeps DEF IInv, TypeOK
    <2>3. \A o \in Requests : o # r => Rests(o)
      BY <1>1, <1>2, <2>1, PrepareKeeps DEF IInv, TypeOK, Rests
    <2>4. pc'[r] = "inserting" /\ want'[r] = Built(b) /\ Built(b) \in Report /\ rev'[r] > 0
      BY <1>1, <2>1, PrepareKeeps, BuiltType DEF IInv
    <2>5. Prepared(r)' /\ OldestFirst(r)'
      BY <1>2, <1>3, <2>4 DEF Prepared, OldestFirst
    <2> QED
      BY <1>2, <1>5, <2>2, <2>3, <2>5, BillsFrame, StepKeeps DEF IInv, RequestInv
  <1> QED  BY <1>6, <1>7

\* A viewer prepares the report of a confirmed bill.
LEMMA ViewInv ==
    ASSUME IInv, NEW r \in Requests, View(r)
    PROVE  IInv'
  <1>1. /\ pc[r] = "idle" /\ job' = [job EXCEPT ![r] = "view"]
        /\ UNCHANGED <<status, fields, reports, production, tariffs, causes, base,
                       draft, quiet, changes>>
    BY DEF View, billVars, world
  <1>2. PICK b \in Confirmed : Revision(b) = 0 /\ PrepareInsert(r, b)  BY DEF View
  <1>3. b \in Bills /\ Reviewed(b)  BY DEF Confirmed, Reviewed
  <1>4. /\ \A c \in Bills : draft[r][c] = NoReport /\ causes[r][c] = "none"
        /\ \A c \in Bills : base[r][c] = 0
    BY <1>1 DEF IInv, RequestInv, OldestFirst, FreshGaps
  <1>5. \A c \in Bills : Revision(c) \in Nat /\ Revision(c)' = Revision(c)
    BY <1>1, RevisionType DEF IInv, Revision
  <1>6. TypeOK'  BY <1>1, <1>2, <1>3, PrepareKeeps DEF IInv, TypeOK, Jobs
  <1>7. \A o \in Requests : o # r => Rests(o)
    BY <1>1, <1>2, <1>3, PrepareKeeps DEF IInv, TypeOK, Rests
  <1>8. /\ pc'[r] = "inserting" /\ want'[r] = Built(b) /\ Built(b) \in Report
        /\ rev'[r] > 0 /\ bill'[r] = b
    BY <1>2, <1>3, PrepareKeeps, BuiltType DEF IInv
  <1>9. Reviewed(b)'  BY <1>1, <1>3 DEF Reviewed
  <1>10. Prepared(r)' /\ OldestFirst(r)'
    BY <1>1, <1>4, <1>8, <1>9 DEF Prepared, OldestFirst
  <1>11. FreshGaps(r)'
    BY <1>1, <1>3, <1>4, <1>5, <1>8 DEF FreshGaps, StillCurrent
  <1> QED
    BY <1>1, <1>6, <1>7, <1>10, <1>11, BillsFrame, StepKeeps DEF IInv, RequestInv

-----------------------------------------------------------------------------
(* Reprocessing and the writes.                                             *)

\* The gaps are listed with the revision each was found on.
LEMMA ListGapsInv ==
    ASSUME IInv, NEW r \in Requests, ListGaps(r)
    PROVE  IInv'
  <1> DEFINE found == [b \in Bills |-> IF b \in Confirmed THEN Cause(b) ELSE "none"]
             on == [b \in Bills |-> IF found[b] # "none" THEN Revision(b) ELSE 0]
  <1>1. /\ pc[r] = "idle"
        /\ causes' = [causes EXCEPT ![r] = found]
        /\ pc' = [pc EXCEPT ![r] = "reprocessing"]
        /\ job' = [job EXCEPT ![r] = "reprocess"]
        /\ quiet' = [quiet EXCEPT ![r] = TRUE]
        /\ UNCHANGED <<status, fields, reports, production, tariffs, bill, want, rev,
                       draft, changes>>
    BY DEF ListGaps, billVars, world
  <1>2. found \in [Bills -> Causes]  BY CauseType DEF Causes
  <1>3. causes'[r] = found  BY <1>1 DEF IInv, TypeOK
  <1>4. base' = [base EXCEPT ![r] = on]  BY <1>3 DEF ListGaps
  <1>5. \A b \in Bills : Revision(b) \in Nat /\ Revision(b)' = Revision(b)
    BY <1>1, RevisionType DEF IInv, Revision
  <1>6. on \in [Bills -> Nat] /\ \A b \in Bills : on[b] <= Revision(b)
    BY <1>5
  <1>7. \A b \in Bills : found[b] = "none" \/ found[b] = Cause(b)  OBVIOUS
  <1> HIDE DEF found, on
  <1>8. TypeOK'  BY <1>1, <1>2, <1>4, <1>6 DEF IInv, TypeOK, PCs, Jobs
  <1>9. \A o \in Requests : o # r => Rests(o)
    BY <1>1, <1>4 DEF IInv, TypeOK, Rests
  <1>10. /\ pc'[r] = "reprocessing" /\ job'[r] = "reprocess" /\ base'[r] = on
         /\ \A b \in Bills : draft'[r][b] = NoReport
    BY <1>1, <1>4 DEF IInv, TypeOK, RequestInv, OldestFirst
  <1>11. Prepared(r)' /\ OldestFirst(r)'
    BY <1>10 DEF Prepared, OldestFirst
  <1>12. FreshGaps(r)'
    <2>1. ASSUME NEW b \in Bills, found[b] # "none", Revision(b) > 0
          PROVE  /\ found[b] # "missing"
                 /\ found[b] = "predates" => Current(b).money = "absent"
                 /\ found[b] = "unavailable" => Current(b).money = "empty"
                 /\ found[b] = "partial" => Current(b).basis = "floor"
      <3>1. found[b] = Cause(b)  BY <1>7, <2>1
      <3> QED  BY <1>5, <2>1, <3>1, CauseType
    <2>2. \A b \in Bills : Current(b)' = Current(b)
      BY <1>1 DEF Current, Revision
    <2> QED
      BY <1>3, <1>5, <1>6, <1>10, <2>1, <2>2 DEF FreshGaps, StillCurrent
  <1> QED
    BY <1>1, <1>8, <1>9, <1>11, <1>12, BillsFrame, StepKeeps DEF IInv, RequestInv

\* A report that Adds to the very revision its cause was found on improves it.
LEMMA AddedImproves ==
    ASSUME NEW cause \in Causes \ {"none", "missing"}, NEW b \in Bills, NEW new,
           new.money \in {"empty", "given"},
           Adds(cause, Current(b), new),
           cause = "predates" => Current(b).money = "absent",
           cause = "unavailable" => Current(b).money = "empty",
           cause = "partial" => Current(b).basis = "floor"
    PROVE  Improves(new, b)
  <1> DEFINE x == Current(b)
  <1> HIDE DEF x
  <1>1. /\ cause = "unavailable" => new.money = "given"
        /\ cause = "partial" => new.money = "given" /\ new.basis = "full"
        /\ cause = "outdated" => new.money = "given" /\ SavingsOf(new) # SavingsOf(x)
        /\ cause = "predates" => x.money = "absent"
        /\ cause = "unavailable" => x.money = "empty"
        /\ cause = "partial" => x.basis = "floor"
    BY DEF Adds, x
  <1>2. cause \in {"predates", "unavailable", "outdated", "partial"}  BY DEF Causes
  <1>3. new # x  BY <1>1, <1>2
  <1>4. x.money = "given" => new.money = "given"  BY <1>1, <1>2
  <1> QED  BY <1>3, <1>4 DEF Improves, x

\* The oldest gap is visited: what was inserted is of older bills, and what is
\* prepared improves the revision, if that is the one the gap was found on.
LEMMA VisitGapInv ==
    ASSUME IInv, NEW r \in Requests, NEW b \in Bills, VisitGap(r, b)
    PROVE  IInv'
  <1>1. /\ pc[r] = "reprocessing" /\ causes[r][b] # "none"
        /\ \A c \in Bills : causes[r][c] # "none" => b <= c
        /\ status[b] = "CONFIRMED"
        /\ causes' = [causes EXCEPT ![r][b] = "none"]
        /\ UNCHANGED <<status, fields, reports, production, tariffs, job, base, draft,
                       quiet, changes>>
    BY DEF VisitGap, IsNextGap, billVars, world
  <1>2. /\ causes' \in [Requests -> [Bills -> Causes]]
        /\ causes'[r][b] = "none"
        /\ \A c \in Bills : c # b => causes'[r][c] = causes[r][c]
        /\ \A o \in Requests : o # r => causes'[o] = causes[o]
    BY <1>1 DEF IInv, TypeOK, Causes
  <1>3. RequestInv(r)  BY DEF IInv
  <1>4. \A c \in Bills : draft[r][c] # NoReport => c < b
    BY <1>1, <1>3 DEF RequestInv, OldestFirst
  <1>5. \A c \in Bills : causes'[r][c] # "none" => b < c
    BY <1>1, <1>2 DEF Bills
  <1>6. \A c \in Bills : /\ Revision(c) \in Nat /\ Revision(c)' = Revision(c)
                         /\ Current(c)' = Current(c)
    BY <1>1, RevisionType DEF IInv, Revision, Current
  <1>7. \A c \in Bills : Reviewed(c)' = Reviewed(c)  BY <1>1 DEF Reviewed
  <1>8. CASE UNCHANGED <<pc, bill, want, rev>>
    <2>1. TypeOK'  BY <1>1, <1>2, <1>8 DEF IInv, TypeOK
    <2>2. \A o \in Requests : o # r => Rests(o)  BY <1>1, <1>2, <1>8 DEF Rests
    <2>3. Prepared(r)'  BY <1>1, <1>3, <1>7, <1>8 DEF RequestInv, Prepared
    <2>4. OldestFirst(r)'
      BY <1>1, <1>2, <1>3, <1>8 DEF RequestInv, OldestFirst
    <2>5. FreshGaps(r)'
      BY <1>1, <1>2, <1>3, <1>6, <1>8
      DEF RequestInv, FreshGaps, StillCurrent, Improves
    <2> QED
      BY <1>1, <2>1, <2>2, <2>3, <2>4, <2>5, BillsFrame, StepKeeps DEF IInv, RequestInv
  <1>9. CASE /\ Revision(b) = 0 \/ Adds(causes[r][b], Current(b), Built(b))
             /\ PrepareInsert(r, b)
    <2>1. TypeOK'  BY <1>1, <1>2, <1>9, PrepareKeeps DEF IInv, TypeOK
    <2>2. \A o \in Requests : o # r => Rests(o)
      BY <1>1, <1>2, <1>9, PrepareKeeps DEF IInv, Rests
    <2>3. /\ pc'[r] = "inserting" /\ want'[r] = Built(b) /\ rev'[r] > 0 /\ bill'[r] = b
          /\ Built(b) \in Report /\ Built(b).money \in {"empty", "given"}
      BY <1>9, PrepareKeeps, BuiltType DEF IInv
    <2>4. Prepared(r)'
      <3>1. \A c \in Bills : draft[r][c] # NoReport => Reviewed(c)
        BY <1>1, <1>3 DEF RequestInv, Prepared
      <3>2. Reviewed(b)  BY <1>1 DEF Reviewed
      <3> QED  BY <1>1, <1>7, <2>3, <3>1, <3>2 DEF Prepared
    <2>5. OldestFirst(r)'
      BY <1>1, <1>2, <1>3, <1>4, <1>5, <2>3 DEF RequestInv, OldestFirst
    <2>6. ASSUME StillCurrent(r, b) PROVE Improves(Built(b), b)
      <3>1. Revision(b) # 0  BY <1>6, <2>6 DEF StillCurrent
      <3>2. Adds(causes[r][b], Current(b), Built(b))  BY <1>9, <3>1
      <3>3. /\ causes[r][b] # "missing"
            /\ causes[r][b] = "predates" => Current(b).money = "absent"
            /\ causes[r][b] = "unavailable" => Current(b).money = "empty"
            /\ causes[r][b] = "partial" => Current(b).basis = "floor"
        BY <1>1, <1>3, <2>6 DEF RequestInv, FreshGaps
      <3>4. causes[r][b] \in Causes  BY DEF IInv, TypeOK
      <3> QED  BY <1>1, <2>3, <3>2, <3>3, <3>4, AddedImproves
    <2>7. FreshGaps(r)'
      BY <1>1, <1>2, <1>3, <1>6, <2>3, <2>6
      DEF RequestInv, FreshGaps, StillCurrent, Improves
    <2> QED
      BY <1>1, <2>1, <2>2, <2>4, <2>5, <2>7, BillsFrame, StepKeeps DEF IInv, RequestInv
  <1> QED  BY <1>8, <1>9 DEF VisitGap

\* The prepared report is inserted, or another one has its key: then the bill
\* has a report.
LEMMA InsertInv ==
    ASSUME IInv, NEW r \in Requests, Insert(r)
    PROVE  IInv'
  <1> DEFINE b == bill[r]
             next == IF job[r] = "reprocess" THEN "reprocessing" ELSE "committing"
  <1>1. b \in Bills /\ rev[r] \in Nat  BY DEF IInv, TypeOK
  <1>2. /\ pc[r] = "inserting"
        /\ pc' = [pc EXCEPT ![r] = next]
        /\ draft' = IF KeyTaken(r) THEN draft ELSE [draft EXCEPT ![r][b] = want[r]]
        /\ want' = [want EXCEPT ![r] = NoReport] /\ rev' = [rev EXCEPT ![r] = 0]
        /\ UNCHANGED <<status, fields, reports, production, tariffs, job, bill, causes,
                       base, quiet, changes>>
    BY DEF Insert, billVars, world
  <1>3. next \in PCs /\ next \in {"reprocessing", "committing"}
        /\ (next = "reprocessing" <=> job[r] = "reprocess")
    BY DEF PCs
  <1>4. KeyTaken(r) <=> rev[r] <= Revision(b)  BY DEF KeyTaken
  <1> HIDE DEF b, next
  <1>5. RequestInv(r)  BY DEF IInv
  <1>6. /\ want[r] \in Report /\ rev[r] > 0
        /\ Reviewed(b) \/ job[r] = "confirm"
        /\ \A c \in Bills : draft[r][c] # NoReport => c < b /\ Reviewed(c)
        /\ \A c \in Bills : causes[r][c] # "none" => b < c
    BY <1>2, <1>5 DEF RequestInv, Prepared, OldestFirst, b
  <1>7. want[r] # NoReport  BY <1>6, NoReportAssumption DEF NoReportAssumption
  <1>8. \A c \in Bills : /\ Revision(c) \in Nat /\ Revision(c)' = Revision(c)
                         /\ Current(c)' = Current(c) /\ Reviewed(c)' = Reviewed(c)
    BY <1>2, RevisionType DEF IInv, Revision, Current, Reviewed
  <1>9. /\ draft' \in [Requests -> [Bills -> Report \cup {NoReport}]]
        /\ \A o \in Requests : o # r => draft'[o] = draft[o]
        /\ \A c \in Bills : c # b => draft'[r][c] = draft[r][c]
        /\ draft'[r][b] = IF KeyTaken(r) THEN draft[r][b] ELSE want[r]
    <2>1. CASE KeyTaken(r)  BY <1>2, <2>1 DEF IInv, TypeOK
    <2>2. CASE ~KeyTaken(r)
      <3>1. draft' = [draft EXCEPT ![r][b] = want[r]]  BY <1>2, <2>2
      <3> QED  BY <1>1, <1>6, <2>2, <3>1 DEF IInv, TypeOK
    <2> QED  BY <2>1, <2>2
  <1>10. pc'[r] = next /\ bill'[r] = b  BY <1>2 DEF IInv, TypeOK, b
  <1>11. TypeOK'  BY <1>2, <1>3, <1>9 DEF IInv, TypeOK
  <1>12. \A o \in Requests : o # r => Rests(o)  BY <1>2, <1>9 DEF IInv, TypeOK, Rests
  <1>13. Prepared(r)'
    <2>1. next = "committing" /\ job[r] = "confirm" =>
              Revision(b) > 0 \/ draft'[r][b] # NoReport
      BY <1>1, <1>4, <1>6, <1>7, <1>8, <1>9
    <2>2. ASSUME NEW c \in Bills, draft'[r][c] # NoReport
          PROVE  Reviewed(c) \/ (next = "committing" /\ job[r] = "confirm" /\ c = b)
      BY <1>3, <1>6, <1>9, <2>2
    <2> QED  BY <1>1, <1>2, <1>3, <1>8, <1>10, <2>1, <2>2 DEF Prepared
  <1>14. OldestFirst(r)'
    <2>1. \A c, e \in Bills : draft'[r][c] # NoReport /\ causes[r][e] # "none" => c < e
      BY <1>2, <1>5, <1>6, <1>9 DEF RequestInv, OldestFirst
    <2> QED  BY <1>2, <1>3, <1>10, <2>1 DEF OldestFirst
  <1>15. FreshGaps(r)'
    <2>1. \A c \in Bills : draft'[r][c] # NoReport /\ StillCurrent(r, c) =>
              Improves(draft'[r][c], c)
      BY <1>2, <1>5, <1>9 DEF RequestInv, FreshGaps, b
    <2>2. \A c \in Bills : /\ StillCurrent(r, c)' = StillCurrent(r, c)
                           /\ \A x : Improves(x, c) <=> Improves(x, c)'
      BY <1>2, <1>8 DEF StillCurrent, Improves
    <2>3. \A c \in Bills : base[r][c] <= Revision(c)
      BY <1>5 DEF RequestInv, FreshGaps
    <2>4. \A c \in Bills : draft'[r][c] # NoReport /\ StillCurrent(r, c)' =>
              Improves(draft[r][c], c)'
      BY <2>1, <2>2 DEF Improves
    <2>5. /\ pc'[r] \notin {"idle", "reviewing", "inserting"}
          /\ \A c \in Bills : base'[r][c] <= Revision(c)'
      BY <1>2, <1>3, <1>8, <1>10, <2>3
    <2>6. \A c \in Bills : causes'[r][c] # "none" /\ StillCurrent(r, c)' =>
           /\ causes'[r][c] # "missing"
           /\ causes'[r][c] = "predates" => Current(c)'.money = "absent"
           /\ causes'[r][c] = "unavailable" => Current(c)'.money = "empty"
           /\ causes'[r][c] = "partial" => Current(c)'.basis = "floor"
      BY <1>2, <1>5, <1>8, <2>2 DEF RequestInv, FreshGaps
    <2> QED  BY <2>4, <2>5, <2>6 DEF FreshGaps
  <1> QED
    BY <1>2, <1>11, <1>12, <1>13, <1>14, <1>15, BillsFrame, StepKeeps
    DEF IInv, RequestInv

\* The commit appends what was inserted, and confirms in the same transaction.
LEMMA CommitInv ==
    ASSUME IInv, NEW r \in Requests, Commit(r)
    PROVE  IInv'
  <1>1. /\ pc[r] \in {"committing", "reprocessing"}
        /\ reports' = [b \in Bills |-> IF draft[r][b] # NoReport
                                       THEN Append(reports[b], draft[r][b]) ELSE reports[b]]
        /\ status' = IF job[r] = "confirm" THEN [status EXCEPT ![bill[r]] = "CONFIRMED"]
                     ELSE status
        /\ Leave(r)
        /\ UNCHANGED <<fields, production, tariffs, changes>>
    BY DEF Commit, world
  <1>2. quiet' \in [Requests -> BOOLEAN]
    BY DEF Commit, IInv, TypeOK
  <1>3. ASSUME NEW b \in Bills
        PROVE  /\ reports'[b] \in Seq(Report)
               /\ draft[r][b] # NoReport => Len(reports'[b]) = Len(reports[b]) + 1
               /\ draft[r][b] = NoReport => reports'[b] = reports[b]
    <2>1. reports[b] \in Seq(Report) /\ draft[r][b] \in Report \cup {NoReport}
      BY DEF IInv, TypeOK
    <2> QED  BY <1>1, <2>1, AppendProperties
  <1>4. reports' \in [Bills -> Seq(Report)]  BY <1>1, <1>3
  <1>5. \A b \in Bills :
            /\ Revision(b) \in Nat /\ Revision(b)' \in Nat
            /\ draft[r][b] # NoReport => Revision(b)' = Revision(b) + 1
            /\ draft[r][b] = NoReport => Revision(b)' = Revision(b)
    <2>1. ASSUME NEW b \in Bills
          PROVE  /\ Revision(b) \in Nat
                 /\ draft[r][b] # NoReport => Revision(b)' = Revision(b) + 1
                 /\ draft[r][b] = NoReport => Revision(b)' = Revision(b)
      <3>1. Revision(b) \in Nat  BY RevisionType DEF IInv
      <3>2. CASE draft[r][b] # NoReport
        <4>1. Len(reports'[b]) = Len(reports[b]) + 1  BY <1>3, <3>2
        <4> QED  BY <3>1, <3>2, <4>1 DEF Revision
      <3>3. CASE draft[r][b] = NoReport
        <4>1. reports'[b] = reports[b]  BY <1>3, <3>3
        <4> QED  BY <3>1, <3>3, <4>1 DEF Revision
      <3> QED  BY <3>2, <3>3
    <2> QED  BY <2>1
  <1>6. TypeOK'
    <2>1. status' \in [Bills -> Statuses \cup {"absent"}]
      BY <1>1 DEF IInv, TypeOK, Statuses
    <2> QED  BY <1>1, <1>2, <1>4, <2>1, LeaveKeeps DEF IInv, TypeOK
  <1>7. RequestInv(r)' /\ \A o \in Requests : o # r => Rests(o)
    BY <1>1, <1>4, LeaveKeeps DEF IInv
  <1>8. ASSUME NEW b \in Bills
        PROVE  /\ Reviewed(b) => Reviewed(b)'
               /\ status'[b] = "CONFIRMED" /\ status[b] # "CONFIRMED" =>
                      job[r] = "confirm" /\ b = bill[r]
               /\ job[r] = "confirm" /\ b = bill[r] => Reviewed(b)'
    BY <1>1 DEF IInv, TypeOK, Reviewed
  <1>9. Prepared(r)  BY DEF IInv, RequestInv
  <1>10. BillsHaveReports'
    <2>1. ASSUME NEW b \in Bills, status'[b] = "CONFIRMED", b \notin Legacy
          PROVE  Revision(b)' > 0
      <3>1. CASE status[b] = "CONFIRMED"
        BY <1>5, <2>1, <3>1 DEF IInv, BillsHaveReports
      <3>2. CASE status[b] # "CONFIRMED"
        <4>1. job[r] = "confirm" /\ b = bill[r]  BY <1>8, <2>1, <3>2
        <4>2. pc[r] = "committing"  BY <1>1, <1>9, <4>1 DEF Prepared
        <4>3. Revision(b) > 0 \/ draft[r][b] # NoReport
          BY <1>9, <4>1, <4>2 DEF Prepared
        <4> QED  BY <1>5, <4>3
      <3> QED  BY <3>1, <3>2
    <2>2. ASSUME NEW b \in Bills, Revision(b)' > 0 PROVE Reviewed(b)'
      <3>1. CASE draft[r][b] # NoReport  BY <1>8, <1>9, <3>1 DEF Prepared
      <3>2. CASE draft[r][b] = NoReport
        BY <1>5, <1>8, <2>2, <3>2 DEF IInv, BillsHaveReports
      <3> QED  BY <3>1, <3>2
    <2> QED  BY <2>1, <2>2 DEF BillsHaveReports
  <1>11. Grows  BY <1>3, <1>5, <1>8 DEF Grows
  <1> QED  BY <1>6, <1>7, <1>10, <1>11, StepKeeps

-----------------------------------------------------------------------------
(* The theorems.                                                            *)

\* Every step keeps the invariant.
LEMMA NextInv == IInv /\ [Next]_vars => IInv'
  <1> SUFFICES ASSUME IInv, [Next]_vars PROVE IInv'  OBVIOUS
  <1>1. CASE \E b \in Bills : Upload(b) \/ Complete(b) \/ ChangeProduction(b)
    BY <1>1, OutsideInv
  <1>2. CASE RegisterTariffs  BY <1>2, OutsideInv
  <1>3. ASSUME NEW r \in Requests, RequestStep(r) PROVE IInv'
    <2>1. CASE \E b \in Bills, verdict \in {"confirm", "reject"} : Review(r, b, verdict)
      BY <2>1, ReviewInv
    <2>2. CASE Reject(r) \/ Confirm(r) \/ View(r) \/ ListGaps(r)
      BY <2>2, RejectInv, ConfirmInv, ViewInv, ListGapsInv
    <2>3. CASE \E b \in Bills : VisitGap(r, b)  BY <2>3, VisitGapInv
    <2>4. CASE Insert(r) \/ Commit(r) \/ Abort(r)
      BY <2>4, InsertInv, CommitInv, AbortInv
    <2> QED  BY <1>3, <2>1, <2>2, <2>3, <2>4 DEF RequestStep
  <1>4. CASE UNCHANGED vars
    <2>1. /\ UNCHANGED <<status, fields, reports, production, tariffs, quiet, changes>>
          /\ UNCHANGED <<pc, job, bill, causes, base, want, rev, draft>>
      BY <1>4 DEF vars, billVars, world, requestVars
    <2>2. TypeOK'  BY <2>1 DEF IInv, TypeOK
    <2>3. BillsHaveReports' /\ Grows  BY <2>1, BillsFrame DEF IInv
    <2>4. \A r \in Requests : Rests(r)  BY <2>1 DEF Rests
    <2> QED  BY <2>2, <2>3, <2>4, RestingKeeps DEF IInv
  <1> QED  BY <1>1, <1>2, <1>3, <1>4 DEF Next

\* The invariant holds in every reachable state.
LEMMA Invariant == Spec => []IInv
  BY InitInv, NextInv, PTL DEF Spec

\* In every reachable state each request, bill and report has its type: in
\* particular every revision is a report that build_monthly_report_for_bill made.
THEOREM TypeCorrect == Spec => []TypeOK
  <1>1. IInv => TypeOK  BY DEF IInv
  <1> QED  BY Invariant, <1>1, PTL

\* However confirmations, rejections, viewers and reprocessings interleave, a
\* bill confirmed by a request has its report and a bill nobody reviewed has none
\* (billing/router.py, reports/snapshot.py).
THEOREM ReportWithConfirmation == Spec => []ReviewedHasReport
  <1>1. IInv => ReviewedHasReport
    <2> SUFFICES ASSUME IInv PROVE ReviewedHasReport  OBVIOUS
    <2>1. \A b \in Bills : Reviewed(b) => status[b] # "PENDING_REVIEW"  BY DEF Reviewed
    <2> QED  BY <2>1 DEF IInv, BillsHaveReports, ReviewedHasReport
  <1> QED  BY Invariant, <1>1, PTL

\* A revision inserted for a gap that was found on the revision it follows
\* changes the report and keeps given savings (reprocess_savings_gaps).
THEOREM FreshRevision == Spec => []FreshRevisionImproves
  <1>1. IInv => FreshRevisionImproves
    BY DEF IInv, RequestInv, FreshGaps, StillCurrent, Improves, FreshRevisionImproves
  <1> QED  BY Invariant, <1>1, PTL

\* A set of requests that all insert: the one with the latest bill waits for none
\* of them, because what they hold is older than what they insert.
LEMMA LatestInserterGoes ==
    ASSUME IInv, NEW rs \in SUBSET Requests, rs # {}, \A r \in rs : pc[r] = "inserting"
    PROVE  \E r \in rs : \A o \in rs : ~KeyLockedBy(r, o)
  <1> DEFINE bs == {bill[r] : r \in rs}
  <1>1. bs \in SUBSET Bills /\ bs # {}  BY DEF IInv, TypeOK
  <1>2. PICK m \in bs : \A b \in bs : b <= m  BY <1>1, LatestExists
  <1>3. PICK r \in rs : bill[r] = m  OBVIOUS
  <1>4. ASSUME NEW o \in rs PROVE ~KeyLockedBy(r, o)
    <2>1. bill[r] \in Bills /\ bill[o] \in Bills  BY DEF IInv, TypeOK
    <2>2. bill[o] <= bill[r]  BY <1>2, <1>3
    <2>3. ~(bill[r] < bill[o])  BY <2>1, <2>2 DEF Bills
    <2>4. draft[o][bill[r]] = NoReport
      BY <2>1, <2>3 DEF IInv, RequestInv, OldestFirst
    <2> QED  BY <2>4 DEF KeyLockedBy
  <1> QED  BY <1>4

\* Requests that lock a bill's row and the keys of several reports in one
\* transaction never wait for each other in a circle: keys are taken in the order
\* of the cycles (list_savings_gaps) and no row is waited for with a key held.
THEOREM NoDeadlock == Spec => []NoMutualWait
  <1>1. IInv => NoMutualWait
    <2> SUFFICES ASSUME IInv, NEW rs \in (SUBSET Requests) \ {{}}
                 PROVE  \E r \in rs : \A o \in rs : ~Waits(r, o)
      BY DEF NoMutualWait
    <2> DEFINE inserters == {r \in rs : pc[r] = "inserting"}
    <2>1. CASE \E r \in rs : pc[r] \notin {"inserting", "reviewing"}
      BY <2>1 DEF Waits
    <2>2. CASE \A r \in rs : pc[r] = "reviewing"
      <3>1. \A r, o \in rs : ~Waits(r, o)  BY <2>2 DEF Waits
      <3>2. PICK r \in rs : TRUE  OBVIOUS
      <3> QED  BY <3>1, <3>2
    <2>3. CASE /\ inserters # {}
               /\ \A r \in rs : pc[r] \in {"inserting", "reviewing"}
      <3>1. PICK r \in inserters : \A o \in inserters : ~KeyLockedBy(r, o)
        BY <2>3, LatestInserterGoes
      <3>2. ASSUME NEW o \in rs, pc[o] = "reviewing" PROVE ~KeyLockedBy(r, o)
        BY <3>2 DEF IInv, TypeOK, RequestInv, OldestFirst, KeyLockedBy
      <3>3. \A o \in rs : ~KeyLockedBy(r, o)  BY <2>3, <3>1, <3>2
      <3> QED  BY <3>3 DEF Waits
    <2> QED  BY <2>1, <2>2, <2>3
  <1> QED  BY Invariant, <1>1, PTL

-----------------------------------------------------------------------------
(* An undisturbed reprocessing.                                             *)

\* What a reprocessing knows of a bill while nothing else has changed: a listed cause
\* is the bill's, what it builds is what would be built now, and a bill it is done
\* with has a report that cannot be improved.
Known(r, b) ==
    /\ causes[r][b] # "none" => causes[r][b] = Cause(b)
    /\ draft[r][b] # NoReport => draft[r][b] = Built(b)
    /\ pc[r] = "inserting" /\ bill[r] = b =>
           want[r] = Built(b) /\ rev[r] = Revision(b) + 1
    /\ b \in Confirmed =>
           \/ causes[r][b] # "none" \/ draft[r][b] # NoReport
           \/ pc[r] = "inserting" /\ bill[r] = b
           \/ SettledGap(b)

Reprocesses(r) == job[r] = "reprocess" => pc[r] \in {"reprocessing", "inserting"}

Undisturbed(r) ==
    /\ Reprocesses(r)
    /\ job[r] = "reprocess" /\ quiet[r] => \A b \in Bills : Known(r, b)

QuietInv == \A r \in Requests : Undisturbed(r)

\* What is computed of a bill depends on the bills, the reports and the world only.
Still == UNCHANGED <<status, fields, reports, production, tariffs>>

\* Nothing computed of a bill changes while those do not.
LEMMA StillComputes ==
    ASSUME Still, NEW b \in Bills
    PROVE  /\ Built(b)' = Built(b) /\ Cause(b)' = Cause(b) /\ Current(b)' = Current(b)
           /\ Revision(b)' = Revision(b) /\ (b \in Confirmed)' = (b \in Confirmed)
           /\ SettledGap(b)' = SettledGap(b)
  <1> USE DEF Still
  <1>1. Built(b)' = Built(b)  BY DEF Built
  <1>2. Revision(b)' = Revision(b) /\ Current(b)' = Current(b)  BY DEF Revision, Current
  <1>3. Outdated(b)' = Outdated(b)  BY DEF Outdated, Current, Revision
  <1>4. Cause(b)' = Cause(b)  BY DEF Cause, Outdated, Current, Revision
  <1>5. (b \in Confirmed)' = (b \in Confirmed)  BY DEF Confirmed
  <1>6. Adds(Cause(b), Current(b), Built(b))' = Adds(Cause(b), Current(b), Built(b))
    BY <1>1, <1>2, <1>4 DEF Adds, SavingsOf
  <1> QED  BY <1>1, <1>2, <1>4, <1>5, <1>6 DEF SettledGap

\* A request that rests knows what it knew.
LEMMA StillKnown ==
    ASSUME Still, NEW r \in Requests, Rests(r), NEW b \in Bills, Known(r, b)
    PROVE  Known(r, b)'
  BY StillComputes DEF Known, Rests

\* The requests that rest keep what they know, or are disturbed.
LEMMA RestingUndisturbed ==
    ASSUME NEW r \in Requests, Rests(r), Undisturbed(r),
           quiet'[r] => quiet[r] /\ Still
    PROVE  Undisturbed(r)'
  BY StillKnown DEF Undisturbed, Reprocesses, Rests

\* A request that is over, or is something else, knows nothing.
LEMMA OtherUndisturbed ==
    ASSUME NEW r \in Requests, job'[r] # "reprocess"
    PROVE  Undisturbed(r)'
  BY DEF Undisturbed, Reprocesses

\* The end of a request leaves no job and moves nobody else.
LEMMA LeavesJob ==
    ASSUME IInv, NEW r \in Requests, Leave(r)
    PROVE  /\ job'[r] = "none"
           /\ \A o \in Requests : o # r => Rests(o)
  BY DEF IInv, TypeOK, Leave, Rests

\* A listed cause is the bill's, and a confirmed bill without a cause is settled.
LEMMA NoCauseIsSettled ==
    ASSUME IInv, NEW b \in Bills, Cause(b) = "none"
    PROVE  SettledGap(b)
  <1>1. Revision(b) # 0  BY CauseType
  <1>2. Revision(b) \in Nat  BY RevisionType DEF IInv
  <1> QED  BY <1>1, <1>2 DEF SettledGap

\* A revision built of what is there now cannot be improved.
LEMMA BuiltIsSettled ==
    TypeOK => \A b \in Bills : Revision(b) > 0 /\ Current(b) = Built(b) => SettledGap(b)
  <1> SUFFICES ASSUME TypeOK, NEW b \in Bills, Revision(b) > 0, Current(b) = Built(b),
                      Cause(b) # "none"
               PROVE  ~Adds(Cause(b), Current(b), Built(b))
    BY DEF SettledGap
  <1>1. Built(b).noted /\ Built(b).money \in {"empty", "given"}
    BY BuiltType DEF Built
  <1>2. Revision(b) \in Nat  BY RevisionType
  <1>3. /\ Cause(b) \in {"unavailable", "outdated"}
        /\ Cause(b) = "unavailable" => Built(b).money = "empty"
    BY <1>1, <1>2, CauseType DEF Causes
  <1>4. CASE Cause(b) = "unavailable"  BY <1>3, <1>4 DEF Adds
  <1>5. CASE Cause(b) = "outdated"
    <2>1. SavingsOf(Built(b)) = SavingsOf(Current(b))  BY DEF SavingsOf
    <2> QED  BY <1>5, <2>1 DEF Adds
  <1> QED  BY <1>3, <1>4, <1>5

\* The same in the next state.
LEMMA BuiltWillBeSettled ==
    (TypeOK => \A b \in Bills : Revision(b) > 0 /\ Current(b) = Built(b) => SettledGap(b))'
  BY BuiltIsSettled, PTL

\* What a commit of this request leaves of a bill it knows.
LEMMA CommitSettles ==
    ASSUME IInv, IInv', QuietInv, NEW r \in Requests, job[r] = "reprocess", quiet[r], Commit(r),
           NEW b \in Bills
    PROVE  SettledGap(b)'
  <1>1. /\ pc[r] = "reprocessing" /\ causes[r] = Blank("none")
        /\ UNCHANGED <<status, fields, production, tariffs>>
        /\ reports'[b] = IF draft[r][b] # NoReport
                         THEN Append(reports[b], draft[r][b]) ELSE reports[b]
    BY DEF Commit, QuietInv, Undisturbed, Reprocesses, world
  <1>2. Known(r, b) /\ causes[r][b] = "none"
    BY <1>1 DEF QuietInv, Undisturbed, Blank
  <1>3. Built(b)' = Built(b) /\ (b \in Confirmed)' = (b \in Confirmed)
    BY <1>1 DEF Built, Confirmed
  <1>4. CASE draft[r][b] # NoReport
    <2>1. draft[r][b] = Built(b) /\ Built(b) \in Report
      BY <1>2, <1>4, BuiltType DEF Known, IInv
    <2>2. reports[b] \in Seq(Report)  BY DEF IInv, TypeOK
    <2>3. reports'[b] = Append(reports[b], Built(b))  BY <1>1, <1>4, <2>1
    <2>4. /\ Len(reports'[b]) = Len(reports[b]) + 1 /\ Len(reports[b]) \in Nat
          /\ reports'[b][Len(reports'[b])] = Built(b)
      BY <2>1, <2>2, <2>3, AppendProperties, LenProperties
    <2>5. Revision(b)' > 0 /\ Current(b)' = Built(b)'
      BY <1>3, <2>4 DEF Revision, Current
    <2> QED  BY <2>5, BuiltWillBeSettled DEF IInv
  <1>5. CASE draft[r][b] = NoReport
    <2>1. reports'[b] = reports[b]  BY <1>1, <1>5
    <2>2. Revision(b)' = Revision(b) /\ Current(b)' = Current(b)
      BY <2>1 DEF Revision, Current
    <2>3. Outdated(b)' = Outdated(b)  BY <1>1, <2>2 DEF Outdated
    <2>4. Cause(b)' = Cause(b)  BY <2>2, <2>3 DEF Cause
    <2>5. Adds(Cause(b), Current(b), Built(b))' = Adds(Cause(b), Current(b), Built(b))
      BY <1>3, <2>2, <2>4 DEF Adds, SavingsOf
    <2>6. b \in Confirmed => SettledGap(b)  BY <1>1, <1>2, <1>5 DEF Known
    <2> QED  BY <1>3, <2>2, <2>4, <2>5, <2>6 DEF SettledGap
  <1> QED  BY <1>4, <1>5

\* The step of one request: the others rest, and what they know stays true or they
\* are disturbed.
LEMMA StepUndisturbed ==
    ASSUME QuietInv, NEW r \in Requests, Undisturbed(r)',
           \A o \in Requests : o # r => Rests(o) /\ (quiet'[o] => quiet[o] /\ Still)
    PROVE  QuietInv'
  BY RestingUndisturbed DEF QuietInv

\* Bills and the world disturb everybody.
LEMMA OutsideQuiet ==
    ASSUME IInv, QuietInv,
           \/ \E b \in Bills : Upload(b) \/ Complete(b) \/ ChangeProduction(b)
           \/ RegisterTariffs
    PROVE  QuietInv'
  <1>1. \A r \in Requests : ~quiet'[r] /\ Rests(r)
    BY DEF Upload, Complete, ChangeProduction, RegisterTariffs, requestVars, Rests
  <1> QED  BY <1>1, RestingUndisturbed DEF QuietInv

\* Reviews, their verdicts and views are no reprocessings.
LEMMA ReviewQuiet ==
    ASSUME IInv, QuietInv, NEW r \in Requests,
           \/ \E b \in Bills, verdict \in {"confirm", "reject"} : Review(r, b, verdict)
           \/ Reject(r) \/ Confirm(r) \/ View(r)
    PROVE  QuietInv'
  <1>1. CASE \E b \in Bills, verdict \in {"confirm", "reject"} : Review(r, b, verdict)
    <2>1. /\ job'[r] # "reprocess" /\ Still /\ quiet' = quiet
          /\ \A o \in Requests : o # r => Rests(o)
      BY <1>1 DEF Review, IInv, TypeOK, billVars, world, Still, Rests
    <2> QED  BY <2>1, OtherUndisturbed, StepUndisturbed
  <1>2. CASE Reject(r)
    <2>1. /\ job'[r] # "reprocess" /\ \A o \in Requests : ~quiet'[o]
          /\ \A o \in Requests : o # r => Rests(o)
      BY <1>2, LeavesJob DEF Reject
    <2> QED  BY <2>1, OtherUndisturbed, StepUndisturbed
  <1>3. CASE Confirm(r) \/ View(r)
    <2>1. /\ Still /\ quiet' = quiet /\ UNCHANGED <<causes, base, draft>>
          /\ job'[r] # "reprocess" /\ \A o \in Requests : o # r => job'[o] = job[o]
      BY <1>3 DEF Confirm, View, IInv, TypeOK, billVars, world, Still
    <2>2. \A o \in Requests : o # r =>
              pc'[o] = pc[o] /\ bill'[o] = bill[o] /\ want'[o] = want[o] /\ rev'[o] = rev[o]
      <3>1. CASE /\ pc' = [pc EXCEPT ![r] = "committing"]
                 /\ UNCHANGED <<bill, want, rev>>
        BY <3>1 DEF IInv, TypeOK
      <3>2. ASSUME NEW b \in Bills, PrepareInsert(r, b)
            PROVE  \A o \in Requests : o # r => /\ pc'[o] = pc[o] /\ bill'[o] = bill[o]
                                                /\ want'[o] = want[o] /\ rev'[o] = rev[o]
        BY <3>2, PrepareKeeps DEF IInv
      <3>3. bill[r] \in Bills  BY DEF IInv, TypeOK
      <3> QED  BY <1>3, <3>1, <3>2, <3>3 DEF Confirm, View, Confirmed
    <2>3. \A o \in Requests : o # r => Rests(o)  BY <2>1, <2>2 DEF Rests
    <2> QED  BY <2>1, <2>3, OtherUndisturbed, StepUndisturbed
  <1> QED  BY <1>1, <1>2, <1>3

\* A request that ends.
LEMMA LeaveQuiet ==
    ASSUME IInv, QuietInv, NEW r \in Requests, Commit(r) \/ Abort(r)
    PROVE  QuietInv'
  <1>1. Leave(r) /\ quiet \in [Requests -> BOOLEAN]  BY DEF Commit, Abort, IInv, TypeOK
  <1>2. job'[r] # "reprocess" /\ \A o \in Requests : o # r => Rests(o)
    BY <1>1, LeavesJob
  <1>3. \A o \in Requests : o # r => (quiet'[o] => quiet[o] /\ Still)
    BY <1>1 DEF Commit, Abort, Still, billVars, world
  <1> QED  BY <1>2, <1>3, OtherUndisturbed, StepUndisturbed

\* What is listed is the causes of the bills as they are.
LEMMA ListGapsQuiet ==
    ASSUME IInv, QuietInv, NEW r \in Requests, ListGaps(r)
    PROVE  QuietInv'
  <1> DEFINE listed == [b \in Bills |-> IF b \in Confirmed THEN Cause(b) ELSE "none"]
             found == [b \in Bills |-> IF causes'[r][b] # "none" THEN Revision(b) ELSE 0]
  <1>1. /\ pc[r] = "idle" /\ causes' = [causes EXCEPT ![r] = listed]
        /\ base' = [base EXCEPT ![r] = found]
        /\ pc' = [pc EXCEPT ![r] = "reprocessing"] /\ job' = [job EXCEPT ![r] = "reprocess"]
        /\ quiet' = [quiet EXCEPT ![r] = TRUE] /\ Still /\ UNCHANGED <<bill, want, rev, draft>>
    BY DEF ListGaps, billVars, world, Still
  <1>2. ASSUME NEW b \in Bills PROVE listed[b] = IF b \in Confirmed THEN Cause(b) ELSE "none"
    OBVIOUS
  <1> HIDE DEF listed, found
  <1>3. \A o \in Requests : o # r => Rests(o) /\ quiet'[o] = quiet[o]
    BY <1>1 DEF IInv, TypeOK, Rests
  <1>4. pc'[r] = "reprocessing" /\ causes'[r] = listed /\ draft'[r] = draft[r]
    BY <1>1 DEF IInv, TypeOK
  <1>5. ASSUME NEW b \in Bills PROVE Known(r, b)'
    <2>1. draft[r][b] = NoReport  BY <1>1 DEF IInv, RequestInv, OldestFirst
    <2>2. Cause(b)' = Cause(b) /\ (b \in Confirmed)' = (b \in Confirmed)
          /\ SettledGap(b)' = SettledGap(b)
      BY <1>1, StillComputes
    <2>3. b \in Confirmed /\ listed[b] = "none" => SettledGap(b)
      BY <1>2, NoCauseIsSettled
    <2>4. listed[b] # "none" => listed[b] = Cause(b)  BY <1>2
    <2> QED  BY <1>4, <2>1, <2>2, <2>3, <2>4 DEF Known
  <1>6. Undisturbed(r)'  BY <1>4, <1>5 DEF Undisturbed, Reprocesses
  <1> QED  BY <1>1, <1>3, <1>6, StepUndisturbed

\* A visited gap is prepared for, or cannot be improved.
LEMMA VisitGapQuiet ==
    ASSUME IInv, QuietInv, NEW r \in Requests, NEW b \in Bills, VisitGap(r, b)
    PROVE  QuietInv'
  <1>1. /\ pc[r] = "reprocessing" /\ causes[r][b] # "none"
        /\ causes' = [causes EXCEPT ![r][b] = "none"]
        /\ Still /\ UNCHANGED <<job, base, draft, quiet>>
    BY DEF VisitGap, IsNextGap, billVars, world, Still
  <1>2. /\ causes'[r][b] = "none" /\ draft'[r] = draft[r]
        /\ \A c \in Bills : c # b => causes'[r][c] = causes[r][c]
        /\ \A o \in Requests : o # r => causes'[o] = causes[o]
    BY <1>1 DEF IInv, TypeOK
  <1>3. job[r] = "reprocess"  BY <1>1 DEF IInv, RequestInv, Prepared
  <1>4. CASE /\ ~(Revision(b) = 0 \/ Adds(causes[r][b], Current(b), Built(b)))
             /\ UNCHANGED <<pc, bill, want, rev>>
    <2>1. \A o \in Requests : o # r => Rests(o)  BY <1>1, <1>2, <1>4 DEF Rests
    <2>2. ASSUME quiet[r], NEW c \in Bills PROVE Known(r, c)'
      <3>1. Known(r, c) /\ Known(r, b)  BY <1>3, <2>2 DEF QuietInv, Undisturbed
      <3>2. CASE c # b
        BY <1>1, <1>2, <1>4, <3>1, <3>2, StillComputes DEF Known
      <3>3. CASE c = b
        <4>1. Revision(b) \in Nat  BY RevisionType DEF IInv
        <4>2. SettledGap(b)  BY <1>1, <1>4, <3>1, <4>1 DEF Known, SettledGap
        <4> QED  BY <1>1, <1>2, <1>4, <3>1, <3>3, <4>2, StillComputes DEF Known
      <3> QED  BY <3>2, <3>3
    <2>3. Undisturbed(r)'  BY <1>1, <1>3, <1>4, <2>2 DEF Undisturbed, Reprocesses
    <2> QED  BY <1>1, <2>1, <2>3, StepUndisturbed
  <1>5. CASE PrepareInsert(r, b)
    <2>1. /\ pc'[r] = "inserting" /\ bill'[r] = b /\ want'[r] = Built(b)
          /\ \A o \in Requests : o # r => Rests(o)
      BY <1>1, <1>2, <1>5, PrepareKeeps DEF IInv, Rests
    <2>2. rev'[r] = Revision(b) + 1  BY <1>5 DEF PrepareInsert, IInv, TypeOK
    <2>3. ASSUME quiet[r], NEW c \in Bills PROVE Known(r, c)'
      <3>1. Known(r, c)  BY <1>3, <2>3 DEF QuietInv, Undisturbed
      <3>2. CASE c # b  BY <1>1, <1>2, <2>1, <3>1, <3>2, StillComputes DEF Known
      <3>3. CASE c = b
        BY <1>1, <1>2, <2>1, <2>2, <3>1, <3>3, StillComputes DEF Known
      <3> QED  BY <3>2, <3>3
    <2>4. Undisturbed(r)'  BY <1>1, <1>3, <2>1, <2>3 DEF Undisturbed, Reprocesses
    <2> QED  BY <1>1, <2>1, <2>4, StepUndisturbed
  <1> QED  BY <1>4, <1>5 DEF VisitGap

\* An undisturbed reprocessing has the key it inserts to itself.
LEMMA InsertQuiet ==
    ASSUME IInv, QuietInv, NEW r \in Requests, Insert(r)
    PROVE  QuietInv'
  <1>1. /\ pc[r] = "inserting"
        /\ draft' = IF KeyTaken(r) THEN draft ELSE [draft EXCEPT ![r][bill[r]] = want[r]]
        /\ pc' = [pc EXCEPT ![r] = IF job[r] = "reprocess" THEN "reprocessing" ELSE "committing"]
        /\ want' = [want EXCEPT ![r] = NoReport] /\ rev' = [rev EXCEPT ![r] = 0]
        /\ Still /\ UNCHANGED <<job, bill, causes, base, quiet>>
    BY DEF Insert, billVars, world, Still
  <1>2. PICK b \in Bills : b = bill[r]  BY DEF IInv, TypeOK
  <1>3. /\ \A o \in Requests : o # r => draft'[o] = draft[o]
        /\ \A c \in Bills : c # b => draft'[r][c] = draft[r][c]
        /\ ~KeyTaken(r) => draft'[r][b] = want[r]
    <2>1. CASE KeyTaken(r)  BY <1>1, <2>1
    <2>2. CASE ~KeyTaken(r)
      <3>1. draft' = [draft EXCEPT ![r][b] = want[r]]  BY <1>1, <1>2, <2>2
      <3> QED  BY <2>2, <3>1 DEF IInv, TypeOK
    <2> QED  BY <2>1, <2>2
  <1>4. \A o \in Requests : o # r => Rests(o)  BY <1>1, <1>3 DEF IInv, TypeOK, Rests
  <1>5. CASE job[r] = "reprocess"
    <2>1. pc'[r] = "reprocessing"  BY <1>1, <1>5 DEF IInv, TypeOK
    <2>2. ASSUME quiet[r], NEW c \in Bills PROVE Known(r, c)'
      <3>1. Known(r, c) /\ Known(r, b)  BY <1>5, <2>2 DEF QuietInv, Undisturbed
      <3>2. want[r] = Built(b) /\ rev[r] = Revision(b) + 1  BY <1>1, <1>2, <3>1 DEF Known
      <3>3. Revision(b) \in Nat  BY RevisionType DEF IInv
      <3>4. ~KeyTaken(r)  BY <1>2, <3>2, <3>3 DEF KeyTaken
      <3>5. draft'[r][b] = Built(b)  BY <1>3, <3>2, <3>4
      <3>6. Built(b) # NoReport  BY BuiltType, NoReportAssumption DEF IInv
      <3>7. CASE c # b
        BY <1>1, <1>2, <1>3, <2>1, <3>1, <3>7, StillComputes DEF Known
      <3>8. CASE c = b
        BY <1>1, <2>1, <3>1, <3>5, <3>6, <3>8, StillComputes DEF Known
      <3> QED  BY <3>7, <3>8
    <2>3. Undisturbed(r)'  BY <1>1, <2>1, <2>2 DEF Undisturbed, Reprocesses
    <2> QED  BY <1>1, <1>4, <2>3, StepUndisturbed
  <1>6. CASE job[r] # "reprocess"
    <2>1. Undisturbed(r)'  BY <1>1, <1>6, OtherUndisturbed
    <2> QED  BY <1>1, <1>4, <2>1, StepUndisturbed
  <1> QED  BY <1>5, <1>6

\* Every step keeps what undisturbed reprocessings know.
LEMMA NextQuiet == IInv /\ QuietInv /\ [Next]_vars => QuietInv'
  <1> SUFFICES ASSUME IInv, QuietInv, [Next]_vars PROVE QuietInv'  OBVIOUS
  <1>1. CASE \/ \E b \in Bills : Upload(b) \/ Complete(b) \/ ChangeProduction(b)
             \/ RegisterTariffs
    BY <1>1, OutsideQuiet
  <1>2. ASSUME NEW r \in Requests, RequestStep(r) PROVE QuietInv'
    <2>1. CASE \/ \E b \in Bills, verdict \in {"confirm", "reject"} : Review(r, b, verdict)
               \/ Reject(r) \/ Confirm(r) \/ View(r)
      BY <2>1, ReviewQuiet
    <2>2. CASE ListGaps(r)  BY <2>2, ListGapsQuiet
    <2>3. CASE \E b \in Bills : VisitGap(r, b)  BY <2>3, VisitGapQuiet
    <2>4. CASE Insert(r)  BY <2>4, InsertQuiet
    <2>5. CASE Commit(r) \/ Abort(r)  BY <2>5, LeaveQuiet
    <2> QED  BY <1>2, <2>1, <2>2, <2>3, <2>4, <2>5 DEF RequestStep
  <1>3. CASE UNCHANGED vars
    <2>1. /\ Still /\ UNCHANGED quiet
          /\ UNCHANGED <<pc, job, bill, causes, base, want, rev, draft>>
      BY <1>3 DEF vars, billVars, world, requestVars, Still
    <2>2. \A r \in Requests : Rests(r)  BY <2>1 DEF Rests
    <2> QED  BY <2>1, <2>2, RestingUndisturbed DEF QuietInv
  <1> QED  BY <1>1, <1>2, <1>3 DEF Next

\* Once a reprocessing that nothing disturbed commits, a second request stores
\* nothing: every confirmed bill has a report, and what is still a gap cannot be
\* improved from the same data (reprocess_savings_gaps).
THEOREM SecondRequestIdle == Spec => SecondRequestStoresNothing
  <1>1. Init => QuietInv
    BY DEF Init, QuietInv, Undisturbed, Reprocesses
  <1>2. ASSUME IInv, IInv', QuietInv, [Next]_vars
        PROVE  [\A r \in Requests :
                   job[r] = "reprocess" /\ quiet[r] /\ Commit(r)
                       => (\A b \in Bills : SettledGap(b))']_vars
    <2>1. ASSUME NEW r \in Requests, job[r] = "reprocess", quiet[r], Commit(r), NEW b \in Bills
          PROVE  SettledGap(b)'
      BY <1>2, <2>1, CommitSettles
    <2> QED  BY <2>1 DEF SettledGap
  <1> QED  BY Invariant, NextQuiet, <1>1, <1>2, PTL DEF Spec, SecondRequestStoresNothing
=============================================================================
