----------------------------- MODULE MCOperations -----------------------------
(***************************************************************************)
(* Finite instances of the components that collect, derive and keep what is  *)
(* known of the plants and tell their owners of it, two processes at a time. *)
(* None writes a table another one decides on, so each is explored by itself: *)
(* a behaviour is about one, chosen at the start.                            *)
(***************************************************************************)
EXTENDS Naturals, FiniteSets, TLC

CONSTANTS
    NoRow, MaxCrashes, MaxRows, StaleAfter,             \* AlertOutbox, PipelineExecution
    Alerts, Destinations, Dispatchers, Tampered, Invalid, NoEvent, NotSent, BaseDelay,
    MaxBackoff, BatchLimit, EventRetention, LedgerRetention, MaxSends, MaxMoves,
    MaxDeliveries,                                      \* AlertOutbox
    Runs, LastDay, Never, StuckAfter, DelayedAfter, RunRetention,
    MaxAcquisitions,                                    \* PipelineExecution
    Writers, EnergyDays, Kwh, Totals, NoDay, MaxRuns,   \* DailyEnergy
    Pipelines, SolarDays, Month, Sites, Readings, Irradiations, ReferenceDays,
    Pasts, MinReference, MinComparison, MaxChanges, MaxStarts,       \* PvAnalysis
    Requests, Bills, DayValues, Suns, Tariffs, Expectations, MaxEntries, MaxWrites,
    Window,                                             \* DashboardCache
    Senders, Inverters, LastAlertDay, Outputs, Skies, DailyExpectations, Lookback,
    MinSample, MaxStreak, MaxAlertRuns, MaxRevisions,   \* ProductionAlert, AnomalyAlerts
    Productions, Irradiance, Expected, Diagnoses, AnomalyDays,       \* AnomalyAlerts
    Files, Seed, Reference, Fewest, Since, Plausible, LastTariffDay,
    MaxImports,                                         \* Tariffs
    Workers, Indexes, LastMonth, Rates, PlausibleRates, Allowed, LastInterval,
    MaxRequests,                                        \* MarketIndex
    Owners, Clients, Named, Unset, LateAfter, LastTick, MaxCycles,
    MaxOthers,                                          \* DailyCycle
    Kinds, BillingMonths, MaxReissues, Cycles, MinHistory, Drop         \* UtilityCheck

VARIABLES
    part,       \* which component this behaviour is about
    s1, s2, s3, s4, s5, s6, s7, s8, s9, s10, s11, s12, s13, s14, s15     \* and its state

Outbox == INSTANCE AlertOutboxProofs WITH
    row <- s1, inserted <- s2, ledger <- s3, chat <- s4, pc <- s5, mode <- s6,
    batch <- s7, current <- s8, held <- s9, outcome <- s10, seen <- s11, sends <- s12,
    excuses <- s13, crashes <- s14, moves <- s15, MaxAttempts <- MaxDeliveries
Pipeline == INSTANCE PipelineExecution WITH
    row <- s1, data <- s2, pc <- s3, caller <- s4, alerts <- s5, day <- s6, seen <- s7,
    draft <- s8, mine <- s9, inserted <- s10, sinceSuccess <- s11, sinceAcquire <- s12,
    crashes <- s13, Retention <- RunRetention, MaxAttempts <- MaxAcquisitions
Daily == INSTANCE DailyEnergy WITH
    energy <- s1, versions <- s2, meter <- s3, night <- s4, job <- s5, runs <- s6,
    trail <- s7, crossed <- s8, Days <- EnergyDays
Pv == INSTANCE PvAnalysis WITH
    plant <- s1, energy <- s2, solar <- s3, perf <- s4, base <- s5, loss <- s6,
    run <- s7, torn <- s8, touched <- s9, changes <- s10, starts <- s11,
    Runs <- Pipelines, Days <- SolarDays, Plants <- Sites, None <- NoRow
Dash == INSTANCE DashboardCache WITH
    readings <- s1, sun <- s2, approved <- s3, confirmed <- s4, cache <- s5, req <- s6,
    writer <- s7, clock <- s8, late <- s9, Days <- EnergyDays, Absent <- NoRow
Alert == INSTANCE ProductionAlert WITH
    today <- s1, energy <- s2, climate <- s3, ledger <- s4, run <- s5, told <- s6,
    excused <- s7, starts <- s8, revision <- s9, Devices <- Inverters,
    LastDay <- LastAlertDay, Expectations <- DailyExpectations,
    MaxStarts <- MaxAlertRuns, Absent <- NoRow
Anomaly == INSTANCE AnomalyAlerts WITH
    today <- s1, energy <- s2, sun <- s3, run <- s4, queued <- s5, found <- s6,
    starts <- s7, revision <- s8, Runners <- Senders, LastDay <- LastAlertDay,
    Suns <- Irradiance, Lookback <- 1, MaxStarts <- MaxAlertRuns, Absent <- NoRow
Tariff == INSTANCE Tariffs WITH
    tariffs <- s1, report <- s2, imports <- s3, LastDay <- LastTariffDay,
    Absent <- NoRow
Market == INSTANCE MarketIndex WITH
    stored <- s1, closed <- s2, now <- s3, lastAttempt <- s4, request <- s5,
    answered <- s6, asked <- s7, Absent <- NoRow
Cycle == INSTANCE DailyCycle WITH
    clock <- s1, plants <- s2, linked <- s3, barred <- s4, missing <- s5, ledger <- s6,
    cycle <- s7, told <- s8, used <- s9, DelayedAfter <- LateAfter,
    LedgerWindow <- LateAfter
Utility == INSTANCE UtilityCheck WITH
    issued <- s1, reading <- s2, snapped <- s3, credited <- s4, Absent <- NoRow

ASSUME ConstantsOfParts ==
    /\ Outbox!ConstantsOK
    /\ Pipeline!ConstantsOK
    /\ Daily!ConstantsOK
    /\ Pv!ConstantsOK
    /\ Dash!ConstantsOK
    /\ Alert!ConstantsOK
    /\ Anomaly!ConstantsOK
    /\ Tariff!ConstantsOK
    /\ Market!ConstantsOK
    /\ Cycle!ConstantsOK
    /\ Utility!ConstantsOK

MCDays == 1 .. 2
MCBills ==
    <<[id |-> 1, start |-> 1, end |-> 1, imported |-> 1, injected |-> 1, compensated |-> 1,
       total |-> 1, lighting |-> 0, meter |-> NoRow, taxed |-> 1, untaxed |-> 1],
      [id |-> 2, start |-> 2, end |-> 2, imported |-> 2, injected |-> 1, compensated |-> 0,
       total |-> 1, lighting |-> 0, meter |-> 1, taxed |-> 2, untaxed |-> 1]>>
MCDayValues ==
    [kwh : {1, 2}, status : {"CONSOLIDATED"}] \cup [kwh : {1}, status : {"PROVISIONAL"}]
MCSkies ==
    [sun : {1}, clouds : {70}] \cup [sun : {4}, clouds : {0}]
        \cup [sun : {NoRow}, clouds : {NoRow}]
MCSolarDays == 1 .. 5
MCMonth == <<1, 1, 1, 1, 1>>
MCReadings == [kwh : {1, 3}, status : {"FINAL"}] \cup [kwh : {1}, status : {"INCOMPLETE"}]
\* Three days of a reference year, and one after it that yielded less: the three
\* alike; one too dark to count; one just bright enough; a poor one; the first
\* incomplete, or with its climate only; and nothing analysed yet.
Analysed(kwh, poa) == [reading |-> [kwh |-> kwh, status |-> "FINAL"], poa |-> poa]
MCPasts ==
    {<<Analysed(3, 4), Analysed(3, 4), Analysed(3, 4), Analysed(1, 4), Analysed(3, 0)>>,
     <<Analysed(3, 4), Analysed(3, 2), Analysed(1, 4), Analysed(1, 4), Analysed(1, 0)>>,
     <<Analysed(3, 3), Analysed(1, 3), Analysed(1, 2), Analysed(1, 3), Analysed(1, 0)>>,
     <<Analysed(3, 4), Analysed(3, 4), Analysed(1, 4), Analysed(1, 4), Analysed(1, 0)>>,
     <<[Analysed(1, 4) EXCEPT !.reading.status = "INCOMPLETE"], Analysed(3, 4), Analysed(3, 4),
       Analysed(1, 4), Analysed(1, 0)>>,
     <<[reading |-> NoRow, poa |-> 4], Analysed(3, 4), Analysed(3, 4), Analysed(1, 4),
       Analysed(1, 0)>>,
     <<Analysed(3, 0), Analysed(3, 0), Analysed(1, 0), [reading |-> NoRow, poa |-> 0],
       Analysed(1, 0)>>}
MCSites == [sited : {0}, kwp : {1}] \cup [sited : {2}, kwp : {1}] \cup [sited : {1}, kwp : {0}]
MCProductions ==
    [kwh : {1, 4}, complete : {TRUE}] \cup [kwh : {4}, complete : {FALSE}]
MCDiagnoses == {[bill |-> 1, status |-> "CRITICAL"]}
MCIndexes == <<"CDI">>

\* Bases of one distributor: a period or two of a class, and a price of three classes.
Line(group, from, to, detail, value) ==
    [distributor |-> "EQUATORIAL_GO", group |-> group, from |-> from, to |-> to,
     detail |-> detail, value |-> value]
FullLines ==
    {Line("B1", p[1], p[2], "full", v) :
     p \in {<<1, 1>>, <<1, 2>>, <<2, 2>>, <<2, 3>>}, v \in {1, 2}}
MCFiles ==
    {s \in SUBSET FullLines : Cardinality(s) <= 2}
        \cup {{l, Line("B1", 1, 1, "SCEE", 2)} : l \in FullLines}
        \cup {{Line("B3", 2, 3, "full", v)} : v \in {2, 3}}
\* Months that lose credits, let some expire, miscount, or lack days or readings.
Plain == [sent |-> 2, home |-> 0, imported |-> 1, lost |-> 0, given |-> 0, expiring |-> 0,
          over |-> 0, missed |-> 0, unread |-> FALSE, faulty |-> FALSE]
Deficit == [Plain EXCEPT !.sent = 1, !.imported = 2]
MCKinds ==
    {[Plain EXCEPT !.lost = 1, !.expiring = 2, !.faulty = TRUE],
     [Plain EXCEPT !.sent = 3, !.unread = TRUE], [Plain EXCEPT !.given = 1],
     [Deficit EXCEPT !.home = 1], [Deficit EXCEPT !.over = 1],
     [Deficit EXCEPT !.over = 1, !.missed = 1, !.home = 1],
     [Deficit EXCEPT !.sent = 0, !.over = 2]}
MCSeed ==
    {[distributor |-> "EQUATORIAL_GO", class |-> "B1_RESIDENCIAL", from |-> 1, to |-> 1,
      full |-> 1, scee |-> 1]}

\* Processes are only compared for equality; those of every part have one name.
Symmetry ==
    Permutations(Dispatchers) \cup Permutations(Runs) \cup Permutations(Writers)
        \cup Permutations(Requests) \cup Permutations(Senders)
        \cup Permutations(Inverters)

InOutbox == part = "outbox"
InPipeline == part = "pipeline"
InDaily == part = "energy"
InPv == part = "analysis"
InDash == part = "dashboard"
InAlert == part = "alert"
InAnomaly == part = "anomaly"
InTariff == part = "tariffs"
InMarket == part = "market"
InCycle == part = "cycle"
InUtility == part = "utility"

\* Each component uses the first variables; the last ones stay at 0.
MCInit ==
    \/ part = "outbox" /\ Outbox!Init
    \/ part = "pipeline" /\ Pipeline!Init
       /\ s14 = 0 /\ s15 = 0
    \/ part = "energy" /\ Daily!Init
       /\ s9 = 0 /\ s10 = 0 /\ s11 = 0 /\ s12 = 0 /\ s13 = 0 /\ s14 = 0 /\ s15 = 0
    \/ part = "analysis" /\ Pv!Init
       /\ s12 = 0 /\ s13 = 0 /\ s14 = 0 /\ s15 = 0
    \/ part = "dashboard" /\ Dash!Init
       /\ s10 = 0 /\ s11 = 0 /\ s12 = 0 /\ s13 = 0 /\ s14 = 0 /\ s15 = 0
    \/ part = "alert" /\ Alert!Init
       /\ s10 = 0 /\ s11 = 0 /\ s12 = 0 /\ s13 = 0 /\ s14 = 0 /\ s15 = 0
    \/ part = "anomaly" /\ Anomaly!Init
       /\ s9 = 0 /\ s10 = 0 /\ s11 = 0 /\ s12 = 0 /\ s13 = 0 /\ s14 = 0 /\ s15 = 0
    \/ part = "tariffs" /\ Tariff!Init
       /\ s4 = 0 /\ s5 = 0 /\ s6 = 0 /\ s7 = 0 /\ s8 = 0 /\ s9 = 0 /\ s10 = 0
       /\ s11 = 0 /\ s12 = 0 /\ s13 = 0 /\ s14 = 0 /\ s15 = 0
    \/ part = "market" /\ Market!Init
       /\ s8 = 0 /\ s9 = 0 /\ s10 = 0 /\ s11 = 0 /\ s12 = 0 /\ s13 = 0 /\ s14 = 0
       /\ s15 = 0
    \/ part = "cycle" /\ Cycle!Init
       /\ s10 = 0 /\ s11 = 0 /\ s12 = 0 /\ s13 = 0 /\ s14 = 0 /\ s15 = 0
    \/ part = "utility" /\ Utility!Init
       /\ s5 = 0 /\ s6 = 0 /\ s7 = 0 /\ s8 = 0 /\ s9 = 0 /\ s10 = 0 /\ s11 = 0
       /\ s12 = 0 /\ s13 = 0 /\ s14 = 0 /\ s15 = 0

RestOutbox == UNCHANGED <<part>>
RestPipeline == UNCHANGED <<part, s14, s15>>
RestDaily == UNCHANGED <<part, s9, s10, s11, s12, s13, s14, s15>>
RestPv == UNCHANGED <<part, s12, s13, s14, s15>>
RestDash == UNCHANGED <<part, s10, s11, s12, s13, s14, s15>>
RestAlert == UNCHANGED <<part, s10, s11, s12, s13, s14, s15>>
RestAnomaly == UNCHANGED <<part, s9, s10, s11, s12, s13, s14, s15>>
RestTariff == UNCHANGED <<part, s4, s5, s6, s7, s8, s9, s10, s11, s12, s13, s14, s15>>
RestMarket == UNCHANGED <<part, s8, s9, s10, s11, s12, s13, s14, s15>>
RestCycle == UNCHANGED <<part, s10, s11, s12, s13, s14, s15>>
RestUtility == UNCHANGED <<part, s5, s6, s7, s8, s9, s10, s11, s12, s13, s14, s15>>

MCNext ==
    \/ \E d \in Dispatchers, as \in (SUBSET Alerts) \ {{}} :
          InOutbox /\ Outbox!Enqueue(d, as) /\ RestOutbox
    \/ \E d \in Dispatchers :
          \/ InOutbox /\ Outbox!DispatchStep(d) /\ RestOutbox
          \/ InOutbox /\ Outbox!Crash(d) /\ RestOutbox
    \/ InOutbox /\ Outbox!Purge /\ RestOutbox
    \/ InOutbox /\ Outbox!Tick /\ RestOutbox
    \/ \E r \in Runs, k \in 1 .. LastDay, who \in {"job", "api"}, withAlerts \in BOOLEAN :
          InPipeline /\ Pipeline!AcquireRead(r, k, who, withAlerts) /\ RestPipeline
    \/ \E r \in Runs :
          \/ InPipeline /\ Pipeline!AcquireWrite(r) /\ RestPipeline
          \/ InPipeline /\ Pipeline!CommitIntents(r) /\ RestPipeline
          \/ InPipeline /\ Pipeline!Succeed(r) /\ RestPipeline
          \/ InPipeline /\ Pipeline!Fail(r) /\ RestPipeline
          \/ InPipeline /\ Pipeline!EndWithoutRow(r) /\ RestPipeline
          \/ InPipeline /\ Pipeline!Crash(r) /\ RestPipeline
    \/ \E k \in 1 .. LastDay : InPipeline /\ Pipeline!Purge(k) /\ RestPipeline
    \/ InPipeline /\ Pipeline!Tick /\ RestPipeline
    \/ \E w \in Writers, D \in (SUBSET EnergyDays) \ {{}} :
          \/ InDaily /\ Daily!Collect(w, D) /\ RestDaily
    \/ \E w \in Writers, t \in Totals : InDaily /\ Daily!CountNight(w, t) /\ RestDaily
    \/ \E w \in Writers, k \in Kwh :
          \/ InDaily /\ Daily!UpdateDay(w, k) /\ RestDaily
          \/ InDaily /\ Daily!MissDay(w, k) /\ RestDaily
    \/ \E w \in Writers :
          \/ InDaily /\ Daily!InsertDay(w) /\ RestDaily
          \/ InDaily /\ Daily!FlushNight(w) /\ RestDaily
          \/ InDaily /\ Daily!LookDay(w) /\ RestDaily
          \/ InDaily /\ Daily!UpsertDay(w) /\ RestDaily
          \/ InDaily /\ Daily!Commit(w) /\ RestDaily
          \/ InDaily /\ Daily!Fail(w) /\ RestDaily
    \/ InDaily /\ Daily!NextNight /\ RestDaily
    \/ \E d \in SolarDays, reading \in Readings : InPv /\ Pv!Collect(d, reading) /\ RestPv
    \/ \E p \in Sites : InPv /\ Pv!EditPlant(p) /\ RestPv
    \/ \E ds \in (SUBSET SolarDays) \ {{}}, ghi \in Irradiations :
          \/ InPv /\ Pv!FetchHistory(ds, ghi) /\ RestPv
    \/ \E e, c \in SolarDays : InPv /\ Pv!Purge(e, c) /\ RestPv
    \/ \E r \in Pipelines, d \in SolarDays : InPv /\ Pv!Start(r, d) /\ RestPv
    \/ \E r \in Pipelines, ghi \in Irradiations : InPv /\ Pv!Climate(r, ghi) /\ RestPv
    \/ \E r \in Pipelines :
          \/ InPv /\ Pv!Measure(r) /\ RestPv
          \/ InPv /\ Pv!Compare(r) /\ RestPv
          \/ InPv /\ Pv!Classify(r) /\ RestPv
          \/ InPv /\ Pv!Finish(r) /\ RestPv
          \/ InPv /\ Pv!FailJob(r) /\ RestPv
          \/ InPv /\ Pv!RollBack(r) /\ RestPv
    \/ \E v \in Writers :
          \/ InDash /\ Dash!Begin(v) /\ RestDash
          \/ InDash /\ Dash!Confirm(v) /\ RestDash
    \/ \E v \in Writers, d \in EnergyDays, value \in DayValues :
          \/ InDash /\ Dash!Write(v, d, value) /\ RestDash
    \/ \E v \in Writers, d \in EnergyDays, value \in Suns :
          \/ InDash /\ Dash!Observe(v, d, value) /\ RestDash
    \/ \E v \in Writers, b \in DOMAIN Bills, tariff \in Tariffs :
          \/ InDash /\ Dash!Approve(v, b, tariff) /\ RestDash
    \/ \E r \in Requests, expected \in Expectations : InDash /\ Dash!Find(r, expected) /\ RestDash
    \/ \E r \in Requests :
          \/ InDash /\ Dash!Hit(r) /\ RestDash
          \/ InDash /\ Dash!Miss(r) /\ RestDash
          \/ InDash /\ Dash!Build(r) /\ RestDash
          \/ InDash /\ Dash!Compare(r) /\ RestDash
          \/ InDash /\ Dash!Answer(r) /\ RestDash
          \/ InDash /\ Dash!Abandon(r) /\ RestDash
    \/ \E outputs \in [Inverters -> Outputs \cup {NoRow}], sky \in Skies :
          \/ InAlert /\ Alert!NewDay(outputs, sky) /\ RestAlert
    \/ \E d \in Alert!Days, i \in Inverters, kwh \in Outputs :
          \/ InAlert /\ Alert!Correct(d, i, kwh) /\ RestAlert
    \/ \E d \in Alert!Days, sky \in Skies : InAlert /\ Alert!Observe(d, sky) /\ RestAlert
    \/ \E r \in Senders, d \in Alert!Days, expected \in DailyExpectations :
          \/ InAlert /\ Alert!Assess(r, d, expected) /\ RestAlert
    \/ \E r \in Senders :
          \/ InAlert /\ Alert!Count(r) /\ RestAlert
          \/ InAlert /\ Alert!Check(r) /\ RestAlert
          \/ InAlert /\ Alert!Send(r) /\ RestAlert
          \/ InAlert /\ Alert!SendLost(r) /\ RestAlert
          \/ InAlert /\ Alert!Mark(r) /\ RestAlert
          \/ InAlert /\ Alert!Fail(r) /\ RestAlert
    \/ InAnomaly /\ Anomaly!NewDay /\ RestAnomaly
    \/ \E d \in Anomaly!Days, p \in Productions :
          \/ InAnomaly /\ Anomaly!StoreEnergy(d, p) /\ RestAnomaly
    \/ \E d \in Anomaly!Days, s \in Irradiance : InAnomaly /\ Anomaly!StoreSun(d, s) /\ RestAnomaly
    \/ \E r \in Senders :
          \/ InAnomaly /\ Anomaly!Analyze(r) /\ RestAnomaly
          \/ InAnomaly /\ Anomaly!Fail(r) /\ RestAnomaly
    \/ \E r \in Senders, diagnosed \in Anomaly!Diagnosed :
          \/ InAnomaly /\ Anomaly!Queue(r, diagnosed) /\ RestAnomaly
    \/ \E file \in Files, dryRun \in BOOLEAN :
          \/ InTariff /\ Tariff!Import(file, dryRun) /\ RestTariff
    \/ \E r \in Requests, w \in Workers : InMarket /\ Market!Begin(r, w) /\ RestMarket
    \/ \E r \in Requests :
          \/ InMarket /\ Market!Read(r) /\ RestMarket
          \/ InMarket /\ Market!FetchFails(r) /\ RestMarket
          \/ InMarket /\ Market!FetchAnswers(r) /\ RestMarket
          \/ InMarket /\ Market!Insert(r) /\ RestMarket
          \/ InMarket /\ Market!Commit(r) /\ RestMarket
          \/ InMarket /\ Market!Fail(r) /\ RestMarket
    \/ \E w \in Workers : InMarket /\ Market!Restart(w) /\ RestMarket
    \/ InMarket /\ Market!Tick /\ RestMarket
    \/ InMarket /\ Market!CloseMonth /\ RestMarket
    \/ \E d \in Cycle!Days : InCycle /\ Cycle!Start(d) /\ RestCycle
    \/ InCycle /\ Cycle!SmokeOperational /\ RestCycle
    \/ InCycle /\ Cycle!Skipped /\ RestCycle
    \/ InCycle /\ Cycle!Retention /\ RestCycle
    \/ InCycle /\ Cycle!Cancelled /\ RestCycle
    \/ \E ok \in BOOLEAN :
          \/ InCycle /\ Cycle!Smoke(ok) /\ RestCycle
          \/ InCycle /\ Cycle!Collect(ok) /\ RestCycle
          \/ InCycle /\ Cycle!DrainCollection(ok) /\ RestCycle
          \/ InCycle /\ Cycle!DispatchOutbox(ok) /\ RestCycle
          \/ InCycle /\ Cycle!DailyDigest(ok) /\ RestCycle
          \/ InCycle /\ Cycle!DrainExports(ok) /\ RestCycle
    \/ \E p \in Cycle!Fleet, ok \in BOOLEAN : InCycle /\ Cycle!Analyse(p, ok) /\ RestCycle
    \/ \E p \in Cycle!Fleet :
          \/ InCycle /\ Cycle!AnalyseRefused(p) /\ RestCycle
          \/ InCycle /\ Cycle!KilledRunning(p) /\ RestCycle
          \/ InCycle /\ Cycle!Look(p) /\ RestCycle
          \/ InCycle /\ Cycle!Connect(p) /\ RestCycle
          \/ InCycle /\ Cycle!Disconnect(p) /\ RestCycle
          \/ InCycle /\ Cycle!Deactivate(p) /\ RestCycle
          \/ InCycle /\ Cycle!Reactivate(p) /\ RestCycle
          \/ InCycle /\ Cycle!AddPlant(p) /\ RestCycle
    \/ InCycle /\ Cycle!ListPlants /\ RestCycle
    \/ InCycle /\ Cycle!PipelineEnds /\ RestCycle
    \/ InCycle /\ Cycle!WatchPlants /\ RestCycle
    \/ InCycle /\ Cycle!WatchEnds /\ RestCycle
    \/ \E p \in Cycle!Fleet, d \in Cycle!Days, ok \in BOOLEAN :
          \/ InCycle /\ Cycle!RunByHand(p, d, ok) /\ RestCycle
    \/ InCycle /\ Cycle!Tick /\ RestCycle
    \/ \E kind \in Kinds : InUtility /\ Utility!IssueBill(kind) /\ RestUtility
    \/ \E b \in 1 .. BillingMonths + MaxReissues :
          \/ InUtility /\ Utility!Reissue(b) /\ RestUtility
          \/ InUtility /\ Utility!Confirm(b) /\ RestUtility
          \/ InUtility /\ Utility!Complete(b) /\ RestUtility
          \/ InUtility /\ Utility!Snapshot(b) /\ RestUtility

vars == <<part, s1, s2, s3, s4, s5, s6, s7, s8, s9, s10, s11, s12, s13, s14, s15>>
MCSpec == MCInit /\ [][MCNext]_vars

-----------------------------------------------------------------------------

\* Every component keeps its state within its types, and with it what its types
\* say of its bookkeeping.
TypeOK ==
    /\ InOutbox => Outbox!TypeOK
    /\ InPipeline => Pipeline!TypeOK
    /\ InDaily => Daily!TypeOK
    /\ InPv => Pv!TypeOK
    /\ InDash => Dash!TypeOK
    /\ InAlert => Alert!TypeOK
    /\ InAnomaly => Anomaly!TypeOK
    /\ InTariff => Tariff!TypeOK
    /\ InMarket => Market!TypeOK
    /\ InCycle => Cycle!TypeOK
    /\ InUtility => Utility!TypeOK

\* ADR-040 items 5, 6 and 10: Telegram gets an alert's message twice only if an
\* answer was lost, a process died between acceptance and commit, a claim was
\* taken over from a process still at work, or the ledger entry expired.
DuplicateNeedsExcuse == InOutbox => Outbox!DuplicateNeedsExcuse

\* The ledger, and an event marked DELIVERED, speak only of alerts Telegram accepted
\* (sql_ledger.py: "records only confirmed deliveries"), whatever was retried, taken
\* over, marked late or purged before.
ConfirmedWasSent == InOutbox => Outbox!ConfirmedWasSent

\* Of two runs that both found no row only one ever works on a row of its own,
\* however long the winner's transaction stays invisible (ADR-022); SUCCEEDED is
\* visible only with the whole analysis of the day; and the watchdog is quiet only if
\* some run succeeded within its 26 hours or was started within its 30 minutes:
\* overlapping writers, rollbacks and crashes never leave a row that looks healthy by
\* mixing two runs' columns; and a green cycle of jobs has analysed its day for every
\* plant there all along and found none whose newest execution was failed, stuck or
\* late before it and still is (orchestration/runtime.py; cloud_jobs.py,
\* run_daily_pipeline, run_operational_watchdog).
OutcomeIsHonest ==
    /\ InPipeline =>
        /\ Pipeline!FirstAttemptExclusive
        /\ Pipeline!SucceededMeansAnalysed /\ Pipeline!QuietMeansAlive
    /\ InCycle => Cycle!GreenIsHonest

\* The versions of a day and its present value are all the values it ever had,
\* in order, however collections of the day interleave: only a night reading that
\* overlaps with another writer compares with a row it read too early
\* (db/repositories/daily_energy.py, upsert).
NoValueForgotten == InDaily => Daily!NoValueForgotten

\* A day closed by the totals is the difference between the two nights, and a total
\* that rose has closed its day, so that production is neither lost nor counted
\* twice; and a day closed by the manufacturer's history is not replaced by such a
\* difference, unless the night was read while the history was being written
\* (services/collection.py, record_meter_totals).
DaysClose ==
    /\ [](InDaily => Daily!TotalsClose)
    /\ [][InDaily => Daily!BrandStep]_vars

\* The losses of a day explain the performance and rest on the baseline the day
\* has now, also when the day was calculated again, or an earlier row stayed
\* because something was missing; unless its last run failed halfway and was
\* committed all the same (photovoltaic/loss_taxonomy_service.py;
\* cloud_jobs.py, run_daily_pipeline).
LossesExplainPerformance == InPv => Pv!LossesExplainPerformance

\* seasonal_baseline.py: "later degraded production can therefore never be
\* learned back into the reference": two baselines of one season on the same
\* reference year compare with the same level, whatever was produced between
\* them, unless the rows of that year changed after one was calculated; and who is
\* told that the reference year is not complete is told the truth: a calculation for
\* that day would be refused, although the reader only counts rows and the calculation
\* judges them (photovoltaic/read_service.py, _derive_baseline_unavailable_reason).
ReferenceIsHonest == InPv => Pv!NotLearnedBack /\ Pv!ReasonIsTrue

\* A dashboard served from the cache shows the readings of its cycle as they are,
\* whatever was written while it was built, evicted or built again by another
\* request, unless a transaction that began earlier was committed later; and never a
\* cycle before the one that was asked for (intelligence/dashboard_cache.py,
\* energy_fingerprint; dashboard_readmodel.py, get).
HitIsCurrent == [][InDash => Dash!HitStep]_vars

\* A day that missed its target is left without an alert only on evidence; it is
\* told of once, unless a delivery could not be confirmed, ran beside another, or
\* what is known of the days changed; and of two days in a row that were told of the
\* second is told of as such, although each run reads all of it anew; the analysis of
\* the recent days judges a day alike in every window, and queues an alert for every
\* turn it finds
\* (alerts/production_alert.py, assess_production_alert, _count_consecutive_alert_days;
\* production_alert_dispatch.py; intelligence/anomaly_service.py; alerts/candidates.py).
AlertsAddUp ==
    /\ InAlert =>
        /\ Alert!SilenceHasEvidence
        /\ Alert!OneMessageADay /\ Alert!SecondDayEscalates
    /\ InAnomaly => Anomaly!JudgedAlike /\ Anomaly!EveryTurnIsTold

\* Of the tariffs ANEEL published a class has one on a day, and what an import wrote
\* without a warning is what the base says, whatever bases came before; and a rate of
\* the central bank that an answer showed is the one stored, and the one in every other
\* answer, although workers fetch it at once, are told different rates and roll back
\* (tariffs/aneel_import.py, upsert_periods; market/service.py, monthly_rates); and
\* credits are said to be missing to the kWh the utility kept, and a larger plant is
\* advised only to a house that took more than it sent, whatever bills were issued again,
\* uploaded late or never (reports/utility_check.py; intelligence/expansion.py).
FiguresStand ==
    /\ InTariff => Tariff!OneTariffADay /\ Tariff!ToldOrTrue
    /\ InMarket => Market!AnswersAreStored
    /\ InUtility => Utility!MissingIsExact /\ Utility!AdviceIsSound

\* "sem nunca reescrever tarifa em silêncio": a billing cycle that has a full tariff
\* keeps it, whatever bases are imported later, so that the savings of a past cycle do
\* not change under the owner (tariffs/aneel_import.py, upsert_periods;
\* tariffs/service.py, full_tariff_without_taxes).
CyclesKeepTariff == [][InTariff => Tariff!CycleKeepsTariff]_vars
=============================================================================
