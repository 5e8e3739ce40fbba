------------------------------- MODULE DailyCycle -------------------------------
(***************************************************************************)
(* The operational cycle: the jobs of a day as steps of one workflow.  Each  *)
(* runs although an earlier one failed, and any failure makes the cycle red;  *)
(* a green cycle is all the owner sees of it.  The analysis and the watchdog  *)
(* go from plant to plant, each in a session of its own.                     *)
(*   cloud_jobs.py, orchestration/status_service.py,                        *)
(*   .github/workflows/operational-jobs.yml                                 *)
(*                                                                          *)
(* Half a day is one tick: a cycle (30 minutes at most) and the watchdog's    *)
(* half hour lie within one, its 26 hours end after the second.  What one run *)
(* of the analysis does is in PipelineExecution, of the collection in         *)
(* SolarCollection: here it ends well or not.                               *)
(***************************************************************************)
EXTENDS Integers, FiniteSets

CONSTANTS
    Owners,         \* plants of the default organization, there from the beginning or not
    Clients,        \* plants of clients
    Named,          \* the plant MPLACAS_CLOUD_JOB_PLANT_NAME names
    Unset,          \* settings that may be missing: telegram, keys, expected
    NoRow,
    DelayedAfter,   \* the watchdog's 26 hours
    LedgerWindow,   \* pipeline_executions_days
    LastTick,       \* bound: the clock
    MaxCycles,      \* bound: how often the workflow runs
    MaxOthers       \* bound: what others do

ConstantsOK ==
    Named \in Owners /\ {DelayedAfter, LedgerWindow, LastTick, MaxCycles, MaxOthers} \subseteq Nat

VARIABLES
    clock,
    plants,     \* the plants there are
    linked,     \* plants of clients with an active connection
    barred,     \* plants of clients who were deactivated
    missing,    \* settings nobody gave
    ledger,     \* pipeline_executions, by plant and target date
    cycle,      \* the workflow: its step, the plants the step has to do, if it is red
    told,       \* history of the cycle, see Start
    used        \* cycles, and what others did, counted

vars == <<clock, plants, linked, barred, missing, ledger, cycle, told, used>>

Fleet == Owners \cup Clients
TargetOf(t) == t \div 2 + 1
Days == 1 .. TargetOf(LastTick)

\* at: when it was finished, or started if it is running.
Row == [status : {"RUNNING", "SUCCEEDED", "FAILED"}, at : Nat]

Steps == {"idle", "smoke", "operational", "collect", "drain", "pipeline", "dispatch", "digest",
          "exports", "retention", "watchdog", "over"}
Resting == [at |-> "idle", day |-> 1, listed |-> FALSE, todo |-> {}, alerting |-> FALSE,
            failed |-> FALSE, red |-> FALSE]
Untold == [through |-> {}, analysed |-> {}, sour |-> {}]

TypeOK ==
    /\ clock \in 0 .. LastTick
    /\ plants \subseteq Fleet /\ linked \subseteq Clients /\ barred \subseteq Clients
    /\ linked \subseteq plants /\ missing \subseteq Unset
    /\ ledger \in [Fleet -> [Days -> Row \cup {NoRow}]]
    /\ cycle \in [at : Steps, day : Days, listed : BOOLEAN, todo : SUBSET Fleet,
                  alerting : BOOLEAN, failed : BOOLEAN, red : BOOLEAN]
    /\ told \in [through : SUBSET Fleet, analysed : SUBSET Fleet, sour : SUBSET Fleet]
    /\ used \in [cycles : 0 .. MaxCycles, others : 0 .. MaxOthers]

Init ==
    /\ clock = 0 /\ plants \in {Owners \cup Clients, (Owners \ {Named}) \cup Clients}
    /\ linked \in SUBSET Clients /\ barred \in SUBSET linked
    /\ missing \in SUBSET Unset
    /\ ledger = [p \in Fleet |-> [d \in Days |-> NoRow]]
    /\ cycle = Resting /\ told = Untold /\ used = [cycles |-> 0, others |-> 0]

-----------------------------------------------------------------------------
(* The ledger and the plants a job finds.                                   *)

Written(p, d, row) == ledger' = [ledger EXCEPT ![p][d] = row]
Ended(status) == [status |-> status, at |-> clock]

\* get_latest_pipeline_execution: of the newest target date, not of the newest run.
Newest(executions) ==
    {executions[d] : d \in {x \in Days : executions[x] # NoRow /\ \A e \in Days : e > x => executions[e] = NoRow}}
HasHistory(p) == Newest(ledger[p]) # {}

\* Mutant of Unhealthy: whatever it says, a row that is young is healthy.
UnhealthyByAge(row) == clock - row.at > DelayedAfter

\* _check_plant_pipeline_health of a plant with history.
Unhealthy(row) ==
    \/ row.status = "FAILED"
    \/ row.status = "RUNNING" /\ clock > row.at
    \/ row.status = "SUCCEEDED" /\ clock - row.at > DelayedAfter

Sick(p) == \E row \in Newest(ledger[p]) : Unhealthy(row)

\* _list_organization_plants and _list_connected_client_plants.
OwnPlants == plants \cap Owners
ConnectedClients == (plants \cap linked) \ barred
PipelinePlants == OwnPlants \cup ConnectedClients

-----------------------------------------------------------------------------
(* Steps of the workflow.                                                   *)

After(step) ==
    CASE step = "smoke" -> "operational" [] step = "operational" -> "collect"
      [] step = "collect" -> "drain" [] step = "drain" -> "pipeline"
      [] step = "pipeline" -> "dispatch" [] step = "dispatch" -> "digest"
      [] step = "digest" -> "exports" [] step = "exports" -> "retention"
      [] step = "retention" -> "watchdog" [] step = "watchdog" -> "over"

\* The process of the step exits; a failure makes the cycle red, and the next runs.
Exits(ok) ==
    cycle' = [cycle EXCEPT !.at = After(cycle.at), !.red = @ \/ ~ok, !.listed = FALSE,
                           !.todo = {}, !.failed = FALSE]

Elsewhere == UNCHANGED <<clock, plants, linked, barred, missing, ledger, told, used>>

Fresh(p) ==
    \A row \in Newest(ledger[p]) :
        row \in [status : {"SUCCEEDED"}, at : clock - DelayedAfter .. clock]
            \cup [status : {"RUNNING"}, at : {clock}]

StillSour == {p \in told.sour : Newest(ledger'[p]) = Newest(ledger[p])}

\* The cycle of yesterday, or of a day given by hand.  History: plants there all
\* along from now on; and plants whose newest execution neither succeeded lately nor
\* has just begun, while that stays so.
Start(d) ==
    /\ cycle.at \in {"idle", "over"} /\ d <= TargetOf(clock)
    /\ used.cycles < MaxCycles /\ used' = [used EXCEPT !.cycles = @ + 1]
    /\ cycle' = [Resting EXCEPT !.at = "smoke", !.day = d]
    /\ told' = [through |-> PipelinePlants, analysed |-> {}, sour |-> {p \in plants : ~Fresh(p)}]
    /\ UNCHANGED <<clock, plants, linked, barred, missing, ledger>>

\* smoke: without the database nothing else runs.
Smoke(ok) ==
    /\ cycle.at = "smoke"
    /\ IF ok THEN Exits(TRUE) ELSE cycle' = [Resting EXCEPT !.at = "over", !.red = TRUE]
    /\ Elsewhere

\* smoke --operational: the steps that alert run only if every setting is there.
SmokeOperational ==
    /\ cycle.at = "operational"
    /\ cycle' = [cycle EXCEPT !.at = "collect", !.alerting = missing = {}, !.red = missing # {}]
    /\ Elsewhere

\* run_collection: no active connection is a failure, like a key nobody gave.
Collect(ok) ==
    /\ cycle.at = "collect" /\ (ok => linked # {} /\ "keys" \notin missing)
    /\ Exits(ok) /\ Elsewhere

\* run_collection_drain: tasks that fail are told to nobody.
DrainCollection(ok) ==
    /\ cycle.at = "drain" /\ (ok => linked = {} \/ "keys" \notin missing)
    /\ Exits(ok) /\ Elsewhere

\* run_outbox_dispatch and the digest run if alerts can be sent.
Skipped ==
    /\ cycle.at \in {"dispatch", "digest"} /\ ~cycle.alerting
    /\ cycle' = [cycle EXCEPT !.at = After(cycle.at)] /\ Elsewhere

\* run_outbox_dispatch: an event that failed fails the step.
DispatchOutbox(ok) ==
    /\ cycle.at = "dispatch" /\ cycle.alerting /\ Exits(ok) /\ Elsewhere

\* run_daily_digest of the plant of that name, which _resolve_plant_id creates.
DailyDigest(ok) ==
    /\ cycle.at = "digest" /\ cycle.alerting
    /\ plants' = plants \cup {Named} /\ Exits(ok)
    /\ UNCHANGED <<clock, linked, barred, missing, ledger, told, used>>

\* run_report_export_drain: a task that failed fails the step.
DrainExports(ok) == cycle.at = "exports" /\ Exits(ok) /\ Elsewhere

\* run_retention: executions that ended, by when they were started.
Retention ==
    /\ cycle.at = "retention" /\ Exits(TRUE)
    /\ ledger' = [p \in Fleet |-> [d \in Days |->
           LET row == ledger[p][d] IN
           IF row # NoRow /\ row.status # "RUNNING" /\ clock > row.at + LedgerWindow THEN NoRow ELSE row]]
    /\ told' = [told EXCEPT !.sour = StillSour]
    /\ UNCHANGED <<clock, plants, linked, barred, missing, used>>

\* The runner stops, or its 30 minutes are over: no further step runs.
Cancelled ==
    /\ cycle.at \notin {"idle", "over"}
    /\ cycle' = [Resting EXCEPT !.at = "over", !.red = TRUE] /\ Elsewhere

-----------------------------------------------------------------------------
(* run_daily_pipeline.                                                      *)

\* Alerts must be configured, and there must be a plant.
ListPlants ==
    /\ cycle.at = "pipeline" /\ ~cycle.listed
    /\ IF "telegram" \in missing \/ PipelinePlants = {}
       THEN Exits(FALSE)
       ELSE cycle' = [cycle EXCEPT !.listed = TRUE, !.todo = PipelinePlants]
    /\ Elsewhere

Analysing(p) == cycle.at = "pipeline" /\ cycle.listed /\ p \in cycle.todo

\* Mutant of PlantDone: the failure of a plant is logged only.
PlantDoneQuietly(p, ok) == cycle' = [cycle EXCEPT !.todo = @ \ {p}]

\* A plant that failed does not stop the others; it is remembered.
PlantDone(p, ok) == cycle' = [cycle EXCEPT !.todo = @ \ {p}, !.failed = @ \/ ~ok]

\* The run of a plant ends in its ledger, and a failure is committed too.
Analyse(p, ok) ==
    /\ Analysing(p) /\ PlantDone(p, ok)
    /\ Written(p, cycle.day, Ended(IF ok THEN "SUCCEEDED" ELSE "FAILED"))
    /\ told' = [told EXCEPT !.sour = StillSour, !.analysed = IF ok THEN @ \cup {p} ELSE @]
    /\ UNCHANGED <<clock, plants, linked, barred, missing, used>>

\* It fails before it has a row, or with it: another run has the day, no expectation
\* can be derived, or the database fails.
AnalyseRefused(p) == Analysing(p) /\ PlantDone(p, FALSE) /\ Elsewhere

\* The job ends in the middle of a plant of the owner, whose alerts are queued and
\* committed before the end of the run: its row stays RUNNING.
KilledRunning(p) ==
    /\ Analysing(p) /\ p \in Owners
    /\ cycle' = [Resting EXCEPT !.at = "over", !.red = TRUE]
    /\ Written(p, cycle.day, Ended("RUNNING"))
    /\ UNCHANGED <<clock, plants, linked, barred, missing, told, used>>

PipelineEnds ==
    /\ cycle.at = "pipeline" /\ cycle.listed /\ cycle.todo = {}
    /\ Exits(~cycle.failed) /\ Elsewhere

-----------------------------------------------------------------------------
(* run_operational_watchdog.                                                *)

WatchPlants ==
    /\ cycle.at = "watchdog" /\ ~cycle.listed
    /\ IF PipelinePlants = {} THEN Exits(FALSE)
       ELSE cycle' = [cycle EXCEPT !.listed = TRUE, !.todo = PipelinePlants]
    /\ Elsewhere

\* A client's plant without history waits for its first run; an owner's is a problem.
Excused(p) == ~HasHistory(p) /\ p \in Clients

Look(p) ==
    /\ cycle.at = "watchdog" /\ cycle.listed /\ p \in cycle.todo
    /\ PlantDone(p, Excused(p) \/ (HasHistory(p) /\ ~Sick(p))) /\ Elsewhere

WatchEnds ==
    /\ cycle.at = "watchdog" /\ cycle.listed /\ cycle.todo = {}
    /\ Exits(~cycle.failed) /\ Elsewhere

-----------------------------------------------------------------------------
(* The others.                                                              *)

\* POST /pipeline/run, of any day: a success and a failure are written.
RunByHand(p, d, ok) ==
    /\ used.others < MaxOthers /\ p \in plants /\ d <= TargetOf(clock) + 1
    /\ Written(p, d, Ended(IF ok THEN "SUCCEEDED" ELSE "FAILED"))
    /\ told' = [told EXCEPT !.sour = StillSour]
    /\ used' = [used EXCEPT !.others = @ + 1]
    /\ UNCHANGED <<clock, plants, linked, barred, missing, cycle>>

Moved(p) ==
    /\ used.others < MaxOthers /\ used' = [used EXCEPT !.others = @ + 1]
    /\ told' = [told EXCEPT !.through = @ \ {p}]
    /\ UNCHANGED <<clock, missing, ledger, cycle>>

\* Owners connect and disconnect a client's plant; the administrator deactivates and
\* reactivates the client; and adds a plant of the default organization.
Connect(p) == p \in plants \cap Clients /\ linked' = linked \cup {p} /\ Moved(p) /\ UNCHANGED <<plants, barred>>
Disconnect(p) == p \in linked /\ linked' = linked \ {p} /\ Moved(p) /\ UNCHANGED <<plants, barred>>
Deactivate(p) == p \in linked \ barred /\ barred' = barred \cup {p} /\ Moved(p) /\ UNCHANGED <<plants, linked>>
Reactivate(p) == p \in barred /\ barred' = barred \ {p} /\ Moved(p) /\ UNCHANGED <<plants, linked>>
AddPlant(p) == p \in Owners \ plants /\ plants' = plants \cup {p} /\ Moved(p) /\ UNCHANGED <<linked, barred>>

\* GitHub starts a cycle late, or not at all.
Tick ==
    /\ cycle.at \in {"idle", "over"} /\ clock < LastTick /\ clock' = clock + 1
    /\ cycle' = Resting /\ told' = Untold
    /\ UNCHANGED <<plants, linked, barred, missing, ledger, used>>

Next ==
    \/ \E d \in Days : Start(d)
    \/ SmokeOperational \/ Skipped \/ Retention \/ Cancelled
    \/ \E ok \in BOOLEAN :
          \/ Smoke(ok) \/ Collect(ok) \/ DrainCollection(ok) \/ DispatchOutbox(ok)
          \/ DailyDigest(ok) \/ DrainExports(ok)
    \/ \E p \in Fleet, ok \in BOOLEAN : Analyse(p, ok)
    \/ \E p \in Fleet :
          \/ AnalyseRefused(p) \/ KilledRunning(p) \/ Look(p)
          \/ Connect(p) \/ Disconnect(p) \/ Deactivate(p) \/ Reactivate(p) \/ AddPlant(p)
    \/ ListPlants \/ PipelineEnds \/ WatchPlants \/ WatchEnds
    \/ \E p \in Fleet, d \in Days, ok \in BOOLEAN : RunByHand(p, d, ok)
    \/ Tick

Spec == Init /\ [][Next]_vars

-----------------------------------------------------------------------------

\* A green cycle has analysed its day for every plant that was there all along, the
\* owner's and the connected clients', and found none whose newest execution was
\* failed, stuck or late before it and still is, although it analysed another day
\* (cloud_jobs.py, run_daily_pipeline: "exits non-zero at the end if any plant
\* failed"; run_operational_watchdog: "fails closed if any plant is unhealthy").
GreenIsHonest ==
    cycle.at = "over" /\ ~cycle.red =>
        told.through \subseteq told.analysed /\ told.through \cap told.sour = {}

-----------------------------------------------------------------------------
(* Why it holds: the inductive invariant.                                   *)

\* The plants there all along are among those a job lists.
ThroughListed == told.through \subseteq PipelinePlants

\* What is written was written before; and what was wrong with a plant at the start of
\* the cycle still is, unless the cycle ended on a run that was killed.
LedgerAgrees ==
    /\ \A p \in Fleet, d \in Days : ledger[p][d] # NoRow => ledger[p][d].at <= clock
    /\ (cycle.at = "over" /\ cycle.red) \/ \A p \in told.sour : ~Fresh(p)

\* How far the analysis and the watchdog got with the plants, if nothing failed.
StepsAgree ==
    /\ cycle.at = "pipeline" /\ cycle.listed /\ ~cycle.failed =>
          told.through \subseteq cycle.todo \cup told.analysed
    /\ cycle.at \in {"dispatch", "digest", "exports", "retention", "watchdog", "over"} /\ ~cycle.red =>
          told.through \subseteq told.analysed
    /\ cycle.at = "watchdog" /\ cycle.listed /\ ~cycle.failed =>
          told.through \cap told.sour \subseteq cycle.todo
    /\ cycle.at = "over" /\ ~cycle.red => told.through \cap told.sour = {}

CycleInv == TypeOK /\ ThroughListed /\ LedgerAgrees /\ StepsAgree
=============================================================================
