---------------------------- MODULE AnomalyAlerts ----------------------------
(***************************************************************************)
(* The analysis of a plant's recent days and the alerts made of it.  A window *)
(* of days is judged on what is stored of it and of the days before; the       *)
(* alert pipeline judges the last days, today included, adds the diagnosis of   *)
(* the latest bill, and queues what is severe enough.  Energy and irradiation   *)
(* are small integers, ratios hundredths.                                       *)
(***************************************************************************)
EXTENDS Integers, FiniteSetsExt

CONSTANTS
    Runners,        \* alert pipelines under way
    LastDay,
    Productions,    \* of a day: [kwh, complete], of all inverters together
    Suns,
    Expected,       \* expected_daily_production_kwh
    Diagnoses,      \* of the latest bill: [bill, status]
    Lookback,       \* RENDIMENTO_ and IRRADIATION_MEDIAN_LOOKBACK_DAYS
    MinSample,      \* MINIMUM_RENDIMENTO_ and IRRADIATION_SAMPLE_DAYS
    AnomalyDays,    \* days of the pipeline's window
    MaxStarts, MaxRevisions,    \* bounds
    Absent

VARIABLES today, energy, sun, run, queued, found, starts, revision

ConstantsOK ==
    /\ LastDay \in Nat /\ Lookback \in Nat /\ AnomalyDays \in Nat /\ Expected \in Nat
    /\ MaxStarts \in Nat /\ MaxRevisions \in Nat

vars == <<today, energy, sun, run, queued, found, starts, revision>>

Days == 1 .. LastDay
Resting == [at |-> "idle"]

Init ==
    /\ today = 0
    /\ energy = [d \in Days |-> Absent] /\ sun = [d \in Days |-> Absent]
    /\ run = [r \in Runners |-> Resting] /\ queued = {} /\ found = {}
    /\ starts = 0 /\ revision = 0

-----------------------------------------------------------------------------
(* assess_daily_performance.                                                 *)

Order(level) ==
    CASE level = "NORMAL" -> 0 [] level = "ATTENTION" -> 1
      [] level = "ANOMALY" -> 2 [] level = "CRITICAL" -> 3

Level(production) ==
    LET deviation == 100 * (production.kwh - Expected) IN
    IF ~production.complete THEN "ATTENTION"
    ELSE IF deviation >= -15 * Expected THEN "NORMAL"
    ELSE IF deviation > -30 * Expected THEN "ATTENTION"
    ELSE IF deviation > -50 * Expected THEN "ANOMALY" ELSE "CRITICAL"

\* statistics.median of a function.
Smallest(of, k) ==
    CHOOSE v \in {of[d] : d \in DOMAIN of} :
        /\ Cardinality({d \in DOMAIN of : of[d] < v}) < k
        /\ k <= Cardinality({d \in DOMAIN of : of[d] <= v})
Median(of) ==
    LET n == Cardinality(DOMAIN of) IN
    (Smallest(of, (n + 1) \div 2) + Smallest(of, n \div 2 + 1)) \div 2

\* Every day before it that was read, however many the window has.
LowSun(first, d, suns) ==
    LET before == {e \in Days : first - Lookback <= e /\ e < d /\ suns[e] # Absent}
        median == Median([e \in before |-> suns[e]])
    IN  /\ suns[d] # Absent /\ before # {} /\ Cardinality(before) >= MinSample
        /\ median > 0 /\ 100 * suns[d] < 75 * median

Cause(first, d, energies, suns) ==
    IF ~energies[d].complete THEN "INCOMPLETE_INPUT_DATA"
    ELSE IF Level(energies[d]) = "NORMAL" THEN "PERFORMANCE_WITHIN_EXPECTED_RANGE"
    ELSE IF LowSun(first, d, suns) THEN "LOW_PRODUCTION_WITH_LOW_IRRADIATION"
    ELSE IF suns[d] = Absent THEN "LOW_PRODUCTION_WITHOUT_CLIMATE_CONTEXT"
    ELSE "LOW_PRODUCTION_NOT_EXPLAINED_BY_LOW_IRRADIATION"

-----------------------------------------------------------------------------
(* analyze_recent_persisted_anomalies of the window first .. last.           *)

\* The days before the window are read too, for the medians.
HistoryStart(first) == first - Lookback

Produced(days, energies) == {d \in days \cap Days : energies[d] # Absent}
Lit(days, energies, suns) ==
    {d \in Produced(days, energies) : suns[d] # Absent /\ suns[d] > 0}
Yield(d, energies, suns) == (100 * energies[d].kwh) \div suns[d]

\* A day is compared with the median of the days strictly before it.
Deviation(first, last, d, energies, suns) ==
    LET known == Lit(HistoryStart(first) .. last, energies, suns)
        before == {e \in known : d - Lookback <= e /\ e < d}
        median == Median([e \in before |-> Yield(e, energies, suns)])
    IN  IF d \notin known \/ Cardinality(before) < MinSample THEN Absent
        ELSE IF median <= 0 THEN Absent
        ELSE (100 * (Yield(d, energies, suns) - median)) \div median

Low(d, energies) == Level(energies[d]) \in {"ANOMALY", "CRITICAL"}

\* Days without a row are passed over.
Streak(first, last, energies) ==
    LET days == Produced(first .. last, energies) IN
    Cardinality({d \in days : \A e \in days : d <= e => Low(e, energies)})

Worst(first, last, energies) ==
    LET days == Produced(first .. last, energies) IN
    CHOOSE level \in {Level(energies[d]) : d \in days} :
        \A d \in days : Order(Level(energies[d])) <= Order(level)

-----------------------------------------------------------------------------
(* The alerts: candidates.py and operations.py.                              *)

Severity(level) ==
    CASE level \in {"NORMAL", "HEALTHY"} -> "INFO"
      [] level \in {"ATTENTION", "ANOMALY"} -> "WARNING"
      [] OTHER -> "CRITICAL"

\* The message speaks of the first of the worst days, and of the streak.
AnomalyAlert(first, last, energies, suns) ==
    LET worst == Worst(first, last, energies)
        day == Min({d \in Produced(first .. last, energies) : Level(energies[d]) = worst})
    IN  [fingerprint |-> <<"anomaly", last, worst, Streak(first, last, energies)>>,
         severity |-> Severity(worst), cause |-> Cause(first, day, energies, suns)]

ExecutiveAlert(diagnosis) ==
    [fingerprint |-> <<"executive", diagnosis.bill, diagnosis.status, 0>>,
     severity |-> Severity(diagnosis.status), cause |-> "headline"]

\* Nothing of the plant's days: AnomalyDataNotFoundError.
DailyAlerts(first, last, energies, suns) ==
    IF Produced(first .. last, energies) = {} THEN {}
    ELSE {AnomalyAlert(first, last, energies, suns)}

-----------------------------------------------------------------------------
NewDay ==
    /\ today < LastDay
    /\ today' = today + 1
    /\ UNCHANGED <<energy, sun, run, queued, found, starts, revision>>

\* What a day has is stored, completed or corrected.
StoreEnergy(d, production) ==
    /\ d <= today /\ energy[d] # production
    /\ energy[d] = Absent \/ revision < MaxRevisions
    /\ energy' = [energy EXCEPT ![d] = production]
    /\ revision' = IF energy[d] = Absent THEN revision ELSE revision + 1
    /\ UNCHANGED <<today, sun, run, queued, found, starts>>

StoreSun(d, s) ==
    /\ d <= today /\ sun[d] = Absent
    /\ sun' = [sun EXCEPT ![d] = s]
    /\ UNCHANGED <<today, energy, run, queued, found, starts, revision>>

\* The production is read, then the climate; the alerts are queued once each.
Analyze(r) ==
    /\ run[r] = Resting /\ starts < MaxStarts /\ today > 0
    /\ starts' = starts + 1
    /\ run' = [run EXCEPT ![r] = [at |-> "climate", last |-> today, energies |-> energy]]
    /\ UNCHANGED <<today, energy, sun, queued, found, revision>>

Queue(r, diagnosed) ==
    /\ run[r].at = "climate"
    /\ LET last == run[r].last
           first == last - AnomalyDays + 1
           alerts == DailyAlerts(first, last, run[r].energies, sun)
                         \cup {ExecutiveAlert(d) : d \in diagnosed}
           severe == {a \in alerts : a.severity # "INFO"}
           known == {a.fingerprint : a \in queued}
       IN  /\ queued' = queued \cup {a \in severe : a.fingerprint \notin known}
           /\ found' = found \cup
                 IF Produced(first .. last, run[r].energies) = {} THEN {}
                 ELSE {[last |-> last, worst |-> Worst(first, last, run[r].energies),
                        streak |-> Streak(first, last, run[r].energies)]}
    /\ run' = [run EXCEPT ![r] = Resting]
    /\ UNCHANGED <<today, energy, sun, starts, revision>>

\* EnergyCycleNotFoundError, or one diagnosis of the latest bill.
Diagnosed == {{}} \cup {{d} : d \in Diagnoses}

\* Killed, or failed before the commit.
Fail(r) ==
    /\ run[r] # Resting
    /\ run' = [run EXCEPT ![r] = Resting]
    /\ UNCHANGED <<today, energy, sun, queued, found, starts, revision>>

Next ==
    \/ NewDay
    \/ \E d \in Days, p \in Productions : StoreEnergy(d, p)
    \/ \E d \in Days, s \in Suns : StoreSun(d, s)
    \/ \E r \in Runners :
          Analyze(r) \/ Fail(r)
    \/ \E r \in Runners, diagnosed \in Diagnosed : Queue(r, diagnosed)

Spec == Init /\ [][Next]_vars

-----------------------------------------------------------------------------
Windows == {<<first, last>> : first \in Days, last \in Days}

\* What is queued is severe enough, and every number is one of a day stored.
TypeOK ==
    /\ today \in 0 .. LastDay /\ starts \in 0 .. MaxStarts /\ revision \in 0 .. MaxRevisions
    /\ \A d \in Days : energy[d] \in Productions \cup {Absent} /\ sun[d] \in Suns \cup {Absent}
    /\ \A a \in queued : a.severity \in {"WARNING", "CRITICAL"}
    /\ \A f \in found : f.streak \in 0 .. AnomalyDays

\* "o dia nunca se autojulga, e não há vazamento de futuro": the deviation of a day is
\* the same in every window that shows it, whether it is the first day or the last, so
\* that the page of a week and the page of three months agree on it
\* (intelligence/anomaly_service.py, analyze_recent_persisted_anomalies).
JudgedAlike ==
    \A v, w \in Windows : \A d \in (v[1] .. v[2]) \cap (w[1] .. w[2]) :
        d \in Produced(Days, energy) =>
            Deviation(v[1], v[2], d, energy, sun) = Deviation(w[1], w[2], d, energy, sun)

\* The owner hears of every turn: whatever an analysis found that is worse than normal,
\* a day that turned worse or a streak that grew since an analysis of the same day
\* included, has an alert of its own (alerts/candidates.py, anomaly_alert_candidate).
EveryTurnIsTold ==
    \A f \in found : f.worst # "NORMAL" =>
        \E a \in queued : /\ a.severity = Severity(f.worst)
                          /\ a.fingerprint[2] = f.last /\ a.fingerprint[4] = f.streak

-----------------------------------------------------------------------------
(* Why they hold.                                                            *)

Levels == {"NORMAL", "ATTENTION", "ANOMALY", "CRITICAL"}

RunOK(x, day) ==
    x = Resting \/ x \in [at : {"climate"}, last : 1 .. day, energies : {x.energies}]

\* An alert of an analysis is as severe as its fingerprint says, and each turn found is told.
AnomalyInv ==
    /\ TypeOK
    /\ run = [r \in Runners |-> run[r]] /\ \A r \in Runners : RunOK(run[r], today)
    /\ energy = [d \in Days |-> energy[d]] /\ sun = [d \in Days |-> sun[d]]
    /\ \A a \in queued :
           a.fingerprint[1] = "anomaly" => a.severity = Severity(a.fingerprint[3])
    /\ EveryTurnIsTold
=============================================================================
