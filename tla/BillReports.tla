------------------------------ MODULE BillReports ------------------------------
(***************************************************************************)
(* Utility bills and the monthly reports made of them: review of a bill,    *)
(* completion of a confirmed one from its PDF, the report materialized with  *)
(* the confirmation or on first sight, and the reprocessing of months whose  *)
(* report has no savings or outdated ones, as new revisions.                *)
(*   billing/router.py, billing/repository.py, billing/completion.py,        *)
(*   reports/snapshot.py, reports/snapshot_revisions.py,                     *)
(*   reports/savings_gaps.py, reports/router.py                              *)
(*                                                                          *)
(* A request is one transaction under READ COMMITTED.  Its reads lock        *)
(* nothing; its writes wait for the row or the key another request wrote and *)
(* has not committed.  Bills are numbered by the end of their cycle, one     *)
(* bill a month.                                                            *)
(***************************************************************************)
EXTENDS Naturals, Sequences, FiniteSets

CONSTANTS
    LastBill,           \* bound: bills are 1 .. LastBill
    Legacy,             \* bills confirmed before reports or savings existed
    Requests,           \* concurrent requests
    NoReport,
    MaxRevisions,       \* bound: revisions of one bill
    MaxChanges          \* bound: changes of telemetry and tariffs

Bills == 1 .. LastBill

ASSUME ConstantsAssumption ==
    /\ LastBill \in Nat \ {0} /\ Legacy \subseteq Bills
    /\ MaxRevisions \in Nat /\ MaxChanges \in Nat

VARIABLES
    status,     \* utility_bills: absent, or the status of the row
    fields,     \* bare: no tariff was read; priced: a tariff and no class; classed
    reports,    \* monthly_report_snapshots as committed: a bill's revisions in order
    production, \* telemetry of the cycle: none, with gaps (floor), whole or estimated
    tariffs,    \* the distributor's full tariff is registered
    pc, job,    \* where each request is, and what it does
    bill,       \* the bill it is about to write or to insert a report of
    causes,     \* reprocess: gaps listed and not visited yet
    base,       \* reprocess: the revision each listed gap was found on
    want,       \* the report it is about to insert
    rev,        \* under this revision
    draft,      \* reports it inserted and has not committed, by bill
    quiet,      \* history: nothing else changed since the gaps were listed
    changes

billVars == <<status, fields>>
world == <<production, tariffs>>
requestVars == <<pc, job, bill, causes, base, want, rev, draft>>
vars == <<billVars, reports, world, requestVars, quiet, changes>>

Statuses == {"PENDING_REVIEW", "CONFIRMED", "REJECTED"}
Productions == {"none", "floor", "full"}

\* money: the savings metric is absent, empty or given; noted: the report counts
\* its estimated days (ADR-082); old: an older formula.
Report == [money : {"absent", "empty", "given"}, basis : Productions,
           source : {"none", "bill", "full"}, classed : BOOLEAN,
           old : BOOLEAN, noted : BOOLEAN]

ASSUME NoReportAssumption == NoReport \notin Report

Causes == {"none", "missing", "predates", "unavailable", "outdated", "partial"}
Jobs == {"none", "confirm", "reject", "view", "reprocess"}
PCs == {"idle", "reviewing", "reprocessing", "inserting", "committing"}

TypeOK ==
    /\ status \in [Bills -> Statuses \cup {"absent"}]
    /\ fields \in [Bills -> {"bare", "priced", "classed"}]
    /\ reports \in [Bills -> Seq(Report)]
    /\ production \in [Bills -> Productions] /\ tariffs \in BOOLEAN
    /\ pc \in [Requests -> PCs] /\ job \in [Requests -> Jobs]
    /\ bill \in [Requests -> Bills]
    /\ causes \in [Requests -> [Bills -> Causes]]
    /\ base \in [Requests -> [Bills -> Nat]]
    /\ want \in [Requests -> Report \cup {NoReport}] /\ rev \in [Requests -> Nat]
    /\ draft \in [Requests -> [Bills -> Report \cup {NoReport}]]
    /\ quiet \in [Requests -> BOOLEAN] /\ changes \in Nat

Blank(x) == [b \in Bills |-> x]

\* Reports written by earlier releases.
LegacyReport(x) ==
    \/ x = [money |-> "absent", basis |-> "full", source |-> "none",
            classed |-> FALSE, old |-> TRUE, noted |-> FALSE]
    \/ x = [money |-> "empty", basis |-> "none", source |-> "none",
            classed |-> FALSE, old |-> FALSE, noted |-> FALSE]
    \/ /\ x.money = "given" /\ x.basis # "none" /\ ~x.classed /\ ~x.noted
       /\ x.old <=> x.source = "none"

\* A given saving was computed from the tariff of its bill.
LegacyHistory(b, f) ==
    {<<>>} \cup {<<x>> : x \in {y \in Report : LegacyReport(y) /\ (y.money = "given" => f[b] # "bare")}}

Init ==
    /\ status = [b \in Bills |-> IF b \in Legacy THEN "CONFIRMED" ELSE "absent"]
    /\ fields \in {f \in [Bills -> {"bare", "priced"}] : \A b \in Bills \ Legacy : f[b] = "bare"}
    /\ reports \in {h \in [Bills -> UNION {LegacyHistory(b, fields) : b \in Bills}] :
                        \A b \in Bills : h[b] \in IF b \in Legacy THEN LegacyHistory(b, fields) ELSE {<<>>}}
    /\ production \in {p \in [Bills -> Productions] : \A b \in Bills \ Legacy : p[b] = "full"}
    /\ tariffs \in BOOLEAN
    /\ pc = [r \in Requests |-> "idle"] /\ job = [r \in Requests |-> "none"]
    /\ bill = [r \in Requests |-> 1]
    /\ causes = [r \in Requests |-> Blank("none")] /\ base = [r \in Requests |-> Blank(0)]
    /\ want = [r \in Requests |-> NoReport] /\ rev = [r \in Requests |-> 0]
    /\ draft = [r \in Requests |-> Blank(NoReport)]
    /\ quiet = [r \in Requests |-> FALSE] /\ changes = 0

-----------------------------------------------------------------------------
(* A report and its gap.                                                    *)

\* Mutant of Built: a cycle without telemetry gets savings of zero.
BuiltZero(b) ==
    [money |-> IF production[b] = "none" THEN "zero" ELSE "given", basis |-> production[b],
     source |-> "bill", classed |-> FALSE, old |-> FALSE, noted |-> TRUE]

\* build_monthly_report_for_bill, of the rows as committed now.
Built(b) ==
    [money |-> IF fields[b] # "bare" /\ production[b] # "none" THEN "given" ELSE "empty",
     basis |-> production[b],
     source |-> IF fields[b] = "bare" THEN "none" ELSE IF tariffs THEN "full" ELSE "bill",
     classed |-> fields[b] = "classed", old |-> FALSE, noted |-> TRUE]

Revision(b) == Len(reports[b])
Current(b) == reports[b][Revision(b)]

Outdated(b) ==
    LET x == Current(b) IN x.old \/ x.source = "bill" \/ (fields[b] = "classed" /\ ~x.classed)

\* _gap_for, of a confirmed bill.
Cause(b) ==
    IF Revision(b) = 0 THEN "missing"
    ELSE LET x == Current(b) IN
         CASE x.money = "absent" -> "predates"
           [] x.money = "empty" -> "unavailable"
           [] x.money = "given" /\ Outdated(b) -> "outdated"
           [] x.money = "given" /\ ~Outdated(b) /\ x.basis = "floor" /\ ~x.noted -> "partial"
           [] OTHER -> "none"

\* The savings and where their tariff came from: what they were computed from.
SavingsOf(x) == <<x.money, x.basis, x.source, x.classed, x.old>>

\* Mutant of Adds: an outdated month is stored whenever its savings changed.
AddsLosses(cause, old, new) ==
    /\ cause = "unavailable" => new.money = "given"
    /\ cause = "partial" => new.money = "given" /\ new.basis = "full"
    /\ cause = "outdated" => SavingsOf(new) # SavingsOf(old)

\* Mutant of Adds: an outdated month is stored whether or not anything changed.
AddsAlways(cause, old, new) ==
    /\ cause = "unavailable" => new.money = "given"
    /\ cause = "partial" => new.money = "given" /\ new.basis = "full"
    /\ cause = "outdated" => new.money = "given"

\* reprocess_savings_gaps: the recalculation is worth a revision.
Adds(cause, old, new) ==
    /\ cause = "unavailable" => new.money = "given"
    /\ cause = "partial" => new.money = "given" /\ new.basis = "full"
    /\ cause = "outdated" => new.money = "given" /\ SavingsOf(new) # SavingsOf(old)

-----------------------------------------------------------------------------
(* Transactions.                                                            *)

\* confirm flushes the bill and keeps its row locked until the commit.
RowLocked(b) == \E o \in Requests :
    job[o] = "confirm" /\ bill[o] = b /\ pc[o] \in {"inserting", "committing"}

KeyTaken(r) == rev[r] <= Revision(bill[r])
KeyLockedBy(r, o) == o # r /\ ~KeyTaken(r) /\ draft[o][bill[r]] # NoReport

\* The request is over: what it had not committed is rolled back.
Leave(r) ==
    /\ pc' = [pc EXCEPT ![r] = "idle"] /\ job' = [job EXCEPT ![r] = "none"]
    /\ bill' = [bill EXCEPT ![r] = 1]
    /\ causes' = [causes EXCEPT ![r] = Blank("none")] /\ base' = [base EXCEPT ![r] = Blank(0)]
    /\ want' = [want EXCEPT ![r] = NoReport] /\ rev' = [rev EXCEPT ![r] = 0]
    /\ draft' = [draft EXCEPT ![r] = Blank(NoReport)]

\* The report is computed; the INSERT of the next revision is next.
PrepareInsert(r, b) ==
    /\ Revision(b) < MaxRevisions
    /\ bill' = [bill EXCEPT ![r] = b]
    /\ want' = [want EXCEPT ![r] = Built(b)] /\ rev' = [rev EXCEPT ![r] = Revision(b) + 1]
    /\ pc' = [pc EXCEPT ![r] = "inserting"]

\* A refused key is an answer, not an error: the other request's report stands.
Insert(r) ==
    /\ pc[r] = "inserting" /\ \A o \in Requests : ~KeyLockedBy(r, o)
    /\ draft' = IF KeyTaken(r) THEN draft ELSE [draft EXCEPT ![r][bill[r]] = want[r]]
    /\ pc' = [pc EXCEPT ![r] = IF job[r] = "reprocess" THEN "reprocessing" ELSE "committing"]
    /\ want' = [want EXCEPT ![r] = NoReport] /\ rev' = [rev EXCEPT ![r] = 0]
    /\ UNCHANGED <<billVars, reports, world, job, bill, causes, base, quiet, changes>>

Commit(r) ==
    /\ pc[r] = "committing" \/ (pc[r] = "reprocessing" /\ causes[r] = Blank("none"))
    /\ reports' = [b \in Bills |->
            IF draft[r][b] # NoReport THEN Append(reports[b], draft[r][b]) ELSE reports[b]]
    /\ status' = IF job[r] = "confirm" THEN [status EXCEPT ![bill[r]] = "CONFIRMED"] ELSE status
    /\ Leave(r)
    /\ IF reports' # reports \/ status' # status
       THEN quiet' = [o \in Requests |-> FALSE] ELSE quiet' = [quiet EXCEPT ![r] = FALSE]
    /\ UNCHANGED <<fields, world, changes>>

\* An error, a lost connection, a process killed.
Abort(r) ==
    /\ pc[r] # "idle"
    /\ Leave(r) /\ quiet' = [quiet EXCEPT ![r] = FALSE]
    /\ UNCHANGED <<billVars, reports, world, changes>>

-----------------------------------------------------------------------------
(* Bills.                                                                   *)

\* create_pending; the constraints on cycle and text let one insert win.
Upload(b) ==
    /\ status[b] = "absent"
    /\ status' = [status EXCEPT ![b] = "PENDING_REVIEW"]
    /\ fields' \in {[fields EXCEPT ![b] = f] : f \in {"bare", "classed"}}
    /\ quiet' = [o \in Requests |-> FALSE]
    /\ UNCHANGED <<reports, world, requestVars, changes>>

\* complete_missing_fields: the same bill as PDF fills what was not read before.
Complete(b) ==
    /\ status[b] = "CONFIRMED" /\ fields[b] # "classed" /\ ~RowLocked(b)
    /\ fields' = [fields EXCEPT ![b] = "classed"]
    /\ quiet' = [o \in Requests |-> FALSE]
    /\ UNCHANGED <<status, reports, world, requestVars, changes>>

\* get_by_id and the check of the status, without a lock.
Review(r, b, verdict) ==
    /\ pc[r] = "idle" /\ status[b] = "PENDING_REVIEW"
    /\ pc' = [pc EXCEPT ![r] = "reviewing"] /\ job' = [job EXCEPT ![r] = verdict]
    /\ bill' = [bill EXCEPT ![r] = b]
    /\ UNCHANGED <<billVars, reports, world, causes, base, want, rev, draft, quiet, changes>>

\* The UPDATE by key, whatever the status is by now.
Reject(r) ==
    /\ pc[r] = "reviewing" /\ job[r] = "reject" /\ ~RowLocked(bill[r])
    /\ status' = [status EXCEPT ![bill[r]] = "REJECTED"]
    /\ Leave(r) /\ quiet' = [o \in Requests |-> FALSE]
    /\ UNCHANGED <<fields, reports, world, changes>>

\* Mutant of Confirm: the status is committed before the report is made.
ConfirmFirst(r) ==
    /\ pc[r] = "reviewing" /\ job[r] = "confirm" /\ ~RowLocked(bill[r])
    /\ status' = [status EXCEPT ![bill[r]] = "CONFIRMED"]
    /\ IF Revision(bill[r]) > 0
       THEN pc' = [pc EXCEPT ![r] = "committing"] /\ UNCHANGED <<bill, want, rev>>
       ELSE PrepareInsert(r, bill[r])
    /\ UNCHANGED <<fields, reports, world, job, causes, base, draft, quiet, changes>>

\* The UPDATE by key is flushed; in the same transaction the report is
\* materialized unless the bill has one.
Confirm(r) ==
    /\ pc[r] = "reviewing" /\ job[r] = "confirm" /\ ~RowLocked(bill[r])
    /\ IF Revision(bill[r]) > 0
       THEN pc' = [pc EXCEPT ![r] = "committing"] /\ UNCHANGED <<bill, want, rev>>
       ELSE PrepareInsert(r, bill[r])
    /\ UNCHANGED <<billVars, reports, world, job, causes, base, draft, quiet, changes>>

-----------------------------------------------------------------------------
(* Reports.                                                                 *)

Confirmed == {b \in Bills : status[b] = "CONFIRMED"}

\* get_or_materialize_latest: the report of the latest confirmed bill is made
\* when somebody asks for it.
View(r) ==
    /\ pc[r] = "idle"
    /\ \E b \in Confirmed :
        /\ \A c \in Confirmed : c <= b
        /\ Revision(b) = 0
        /\ PrepareInsert(r, b)
    /\ job' = [job EXCEPT ![r] = "view"]
    /\ UNCHANGED <<billVars, reports, world, causes, base, draft, quiet, changes>>

\* list_savings_gaps.
ListGaps(r) ==
    /\ pc[r] = "idle"
    /\ causes' = [causes EXCEPT ![r] = [b \in Bills |-> IF b \in Confirmed THEN Cause(b) ELSE "none"]]
    /\ causes'[r] # Blank("none")
    /\ base' = [base EXCEPT ![r] = [b \in Bills |-> IF causes'[r][b] # "none" THEN Revision(b) ELSE 0]]
    /\ pc' = [pc EXCEPT ![r] = "reprocessing"] /\ job' = [job EXCEPT ![r] = "reprocess"]
    /\ quiet' = [quiet EXCEPT ![r] = TRUE]
    /\ UNCHANGED <<billVars, reports, world, bill, want, rev, draft, changes>>

\* Mutant of IsNextGap: the gaps come in no particular order.
IsAnyGap(r, b) == causes[r][b] # "none"

\* Oldest cycle first.
IsNextGap(r, b) == causes[r][b] # "none" /\ \A c \in Bills : causes[r][c] # "none" => b <= c

\* The previous revision is read again, the report is computed and compared.
VisitGap(r, b) ==
    /\ pc[r] = "reprocessing" /\ IsNextGap(r, b) /\ status[b] = "CONFIRMED"
    /\ causes' = [causes EXCEPT ![r][b] = "none"]
    /\ IF Revision(b) = 0 \/ Adds(causes[r][b], Current(b), Built(b))
       THEN PrepareInsert(r, b)
       ELSE UNCHANGED <<pc, bill, want, rev>>
    /\ UNCHANGED <<billVars, reports, world, job, base, draft, quiet, changes>>

-----------------------------------------------------------------------------
(* The world a report is computed from.                                     *)

\* Readings arrive late, are estimated, or are removed by the retention.
ChangeProduction(b) ==
    /\ changes < MaxChanges
    /\ production' \in {[production EXCEPT ![b] = p] : p \in Productions \ {production[b]}}
    /\ changes' = changes + 1 /\ quiet' = [o \in Requests |-> FALSE]
    /\ UNCHANGED <<billVars, reports, tariffs, requestVars>>

RegisterTariffs ==
    /\ ~tariffs /\ changes < MaxChanges
    /\ tariffs' = TRUE
    /\ changes' = changes + 1 /\ quiet' = [o \in Requests |-> FALSE]
    /\ UNCHANGED <<billVars, reports, production, requestVars>>

-----------------------------------------------------------------------------
RequestStep(r) ==
    \/ \E b \in Bills, verdict \in {"confirm", "reject"} : Review(r, b, verdict)
    \/ Reject(r) \/ Confirm(r) \/ View(r) \/ ListGaps(r)
    \/ \E b \in Bills : VisitGap(r, b)
    \/ Insert(r) \/ Commit(r) \/ Abort(r)

Next ==
    \/ \E r \in Requests : RequestStep(r)
    \/ \E b \in Bills : Upload(b) \/ Complete(b) \/ ChangeProduction(b)
    \/ RegisterTariffs

Spec == Init /\ [][Next]_vars

-----------------------------------------------------------------------------
(* Properties.                                                              *)

\* ROI and the investor panel add up reports without asking for the bill: a
\* bill confirmed by a request has its report, and a bill nobody reviewed has
\* none, whatever viewers, retries and other reviewers do in between.
ReviewedHasReport ==
    \A b \in Bills :
        /\ status[b] = "CONFIRMED" /\ b \notin Legacy => Revision(b) > 0
        /\ Revision(b) > 0 => status[b] # "PENDING_REVIEW"

\* ADR-081 item 3, as far as it holds: a revision written for a gap that was
\* found on the very revision it follows changes the report and never replaces
\* given savings by none.
FreshRevisionImproves ==
    \A r \in Requests, b \in Bills :
        draft[r][b] # NoReport /\ Revision(b) > 0 /\ base[r][b] = Revision(b) =>
            /\ draft[r][b] # Current(b)
            /\ Current(b).money = "given" => draft[r][b].money = "given"

\* Once a reprocessing that nothing disturbed commits, asking again stores
\* nothing: what it left as a gap cannot be improved from the same data.
SettledGap(b) ==
    b \in Confirmed => Revision(b) > 0 /\ (Cause(b) # "none" => ~Adds(Cause(b), Current(b), Built(b)))

SecondRequestStoresNothing ==
    [][\A r \in Requests :
            job[r] = "reprocess" /\ quiet[r] /\ Commit(r)
                => (\A b \in Bills : SettledGap(b))']_vars

Waits(r, o) ==
    \/ pc[r] = "inserting" /\ KeyLockedBy(r, o)
    \/ /\ pc[r] = "reviewing" /\ o # r /\ job[o] = "confirm" /\ bill[o] = bill[r]
       /\ pc[o] \in {"inserting", "committing"}

\* Requests that lock bills and keys in one transaction never wait for each
\* other in a circle.
NoMutualWait ==
    \A rs \in (SUBSET Requests) \ {{}} : \E r \in rs : \A o \in rs : ~Waits(r, o)
=============================================================================
