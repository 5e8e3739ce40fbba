------------------------------ MODULE EnergyCycle ------------------------------
(***************************************************************************)
(* What is concluded of the billing cycle of a plant: its production with the *)
(* days nobody read estimated, what the plant saved on the bill, the          *)
(* diagnostics with a score of health, and how it compares with the cycle     *)
(* before.  Energy, money and sun are small integers; a tariff is money for   *)
(* one unit of energy.                                                        *)
(***************************************************************************)
EXTENDS Integers, FiniteSets, SequencesExt

CONSTANTS
    Window,         \* _REFERENCE_WINDOW_DAYS, on each side of a cycle
    MinReference,   \* MINIMUM_REFERENCE_DAYS
    Absent         \* no reading, no observation, no field on the bill

Positive(n) == IF n > 0 THEN n ELSE 0
Energy(readings, days) == FoldSet(LAMBDA d, sum : readings[d].kwh + sum, 0, days)

-----------------------------------------------------------------------------
(* Production.  A day has one device here, and one status.                   *)

CycleOf(bill) == bill.start .. bill.end
Around(bill, readings) ==
    {d \in DOMAIN readings : bill.start - Window <= d /\ d <= bill.end + Window}
Having(readings, days, statuses) ==
    {d \in days : readings[d] # Absent /\ readings[d].status \in statuses}

\* _usable_energy_by_day, _consolidated_energy_by_day: their days.
Usable(readings, days) ==
    Having(readings, days, {"CONSOLIDATED", "PROVISIONAL", "INCOMPLETE"})
Consolidated(readings, days) == Having(readings, days, {"CONSOLIDATED"})

Sunny(sun, d) == sun[d] # Absent /\ sun[d] > 0

\* reference_yield: the median of the yields, in hundredths.
Middle(yield, ordered) ==
    LET middle == {ordered[(Len(ordered) + 1) \div 2], ordered[Len(ordered) \div 2 + 1]} IN
    FoldSet(LAMBDA d, sum : yield[d] + sum, 0, middle) \div Cardinality(middle)
Median(yield) ==
    Middle(yield, SetToSortSeq(DOMAIN yield,
        LAMBDA d, e : yield[d] < yield[e] \/ (yield[d] = yield[e] /\ d < e)))
Yields(readings, sun, days) ==
    [d \in {e \in days : readings[e].kwh > 0 /\ Sunny(sun, e)} |->
        (100 * readings[d].kwh) \div sun[d]]
Ratio(yield) == IF Cardinality(DOMAIN yield) < MinReference THEN Absent ELSE Median(yield)
ReferenceYield(bill, readings, sun) ==
    Ratio(Yields(readings, sun, Consolidated(readings, Around(bill, readings))))

\* estimate_cycle_production: the meter of the bill is a floor of a cycle that
\* was not read on every day.
Estimate(sun, days, ratio) ==
    [d \in {e \in days : ratio # Absent /\ Sunny(sun, e)} |-> (sun[d] * ratio) \div 100]
Produced(bill, readings, measured, estimate) ==
    LET known == Energy(readings, measured)
                     + FoldSet(LAMBDA d, sum : estimate[d] + sum, 0, DOMAIN estimate)
    IN  [kwh  |-> IF measured # CycleOf(bill) /\ bill.meter # Absent /\ known < bill.meter
                  THEN bill.meter ELSE known,
         days |-> Cardinality(measured \cup DOMAIN estimate)]
Completed(bill, readings, sun, measured) ==
    Produced(bill, readings, measured,
        IF measured = CycleOf(bill) THEN <<>>
        ELSE Estimate(sun, CycleOf(bill) \ measured, ReferenceYield(bill, readings, sun)))
Production(bill, readings, sun) ==
    Completed(bill, readings, sun, Usable(readings, CycleOf(bill)))

-----------------------------------------------------------------------------
(* Money.                                                                    *)

\* reconcile_bill: what went to the grid is what the meter says, if it does.
Injected(bill) == IF bill.meter # Absent THEN bill.meter ELSE bill.injected
SelfConsumed(bill, kwh) == Positive(kwh - Injected(bill))
Consumption(bill, kwh) == bill.imported + SelfConsumed(bill, kwh)

\* _savings_tariff: the approved tariff with the taxes of the bill, never below
\* what the bill itself charges.
SavingsTariff(bill, approved) ==
    IF bill.taxed = Absent \/ approved = Absent \/ bill.untaxed = Absent THEN bill.taxed
    ELSE IF (approved * bill.taxed) \div bill.untaxed > bill.taxed
         THEN (approved * bill.taxed) \div bill.untaxed ELSE bill.taxed

\* Without the plant all of the consumption would have been bought.
Savings(bill, production, approved) ==
    LET tariff     == SavingsTariff(bill, approved)
        avoided    == Consumption(bill, production.kwh) * tariff
        Unknown(why) == [unknown |-> why, brl |-> 0]
    IN  IF tariff = Absent THEN Unknown("no tariff")
        ELSE IF production.days = 0 THEN Unknown("no production")
        ELSE IF Consumption(bill, production.kwh) = 0 THEN Unknown("no consumption")
        ELSE [unknown |-> "", brl |-> avoided - Positive(bill.total - bill.lighting)]

-----------------------------------------------------------------------------
(* Diagnostics: what each costs of the score, and how severe it is.          *)

Cost(most, each, days) == IF each * days < most THEN each * days ELSE most

Diagnostics(bill, readings, kwh, expected) ==
    LET days   == CycleOf(bill)
        absent == Cardinality({d \in days : readings[d] = Absent})
                      + Cardinality(Having(readings, days, {"INCOMPLETE", "UNAVAILABLE"}))
        early  == Cardinality(Having(readings, days, {"PROVISIONAL"}))
        D(condition, code, severity, cost) ==
            IF condition THEN {[code |-> code, severity |-> severity, cost |-> cost]} ELSE {}
    IN  UNION {
          D(absent > 0, "MISSING_DAILY_DATA",
            IF absent >= 3 THEN "CRITICAL" ELSE "WARNING", Cost(40, 8, absent)),
          D(early > 0, "PROVISIONAL_DAILY_DATA", "WARNING", Cost(15, 3, early)),
          D(100 * kwh < 70 * expected, "PRODUCTION_WELL_BELOW_EXPECTED", "CRITICAL", 30),
          D(100 * kwh >= 70 * expected /\ 100 * kwh < 85 * expected,
            "PRODUCTION_BELOW_EXPECTED", "WARNING", 15),
          D(kwh = 0 /\ bill.imported > 0, "ZERO_PRODUCTION_WITH_GRID_IMPORT", "CRITICAL", 35),
          D(kwh > 0 /\ 100 * Injected(bill) > 85 * kwh, "LOW_SELF_CONSUMPTION", "INFO", 5),
          D(bill.imported > 0 /\ 100 * bill.compensated < 50 * bill.imported,
            "LOW_CREDIT_COVERAGE", "WARNING", 10)}

Score(diagnostics) == Positive(100 - FoldSet(LAMBDA d, sum : d.cost + sum, 0, diagnostics))

\* _status_for_cycle.
Status(diagnostics) ==
    LET severities == {d.severity : d \in diagnostics} IN
    IF "CRITICAL" \in severities \/ Score(diagnostics) < 60 THEN "CRITICAL"
    ELSE IF "WARNING" \in severities \/ Score(diagnostics) < 85 THEN "ATTENTION"
    ELSE "HEALTHY"

\* analyze_confirmed_cycle, of what is stored: w.
Conclusion(w, bill, production, diagnostics) ==
    [bill |-> bill.id, production |-> production.kwh,
     consumption |-> Consumption(bill, production.kwh), imported |-> bill.imported,
     selfConsumed |-> SelfConsumed(bill, production.kwh),
     savings |-> Savings(bill, production, w.approved[bill.id]),
     codes |-> {d.code : d \in diagnostics}, score |-> Score(diagnostics),
     status |-> Status(diagnostics)]
Concluded(w, bill, expected, production) ==
    Conclusion(w, bill, production, Diagnostics(bill, w.readings, production.kwh, expected))
Analysis(w, bill, expected) ==
    Concluded(w, bill, expected, Production(bill, w.readings, w.sun))

-----------------------------------------------------------------------------
(* compare_energy_cycles, with the diagnostics of history_service.           *)

\* _trend, with a tolerance of two percent.
Direction(now, before) ==
    IF before = 0 THEN (IF now = 0 THEN "STABLE" ELSE "UP")
    ELSE IF 100 * (now - before) > 2 * before THEN "UP"
    ELSE IF 100 * (before - now) > 2 * before THEN "DOWN" ELSE "STABLE"

Sufficiency(a) == IF a.consumption = 0 THEN 0 ELSE (100 * a.selfConsumed) \div a.consumption

Trend(now, before) ==
    UNION {IF Direction(now.production, before.production) = "STABLE" THEN {}
           ELSE {<<"PRODUCTION_TREND", Direction(now.production, before.production)>>},
           IF Direction(now.imported, before.imported) # "UP" THEN {}
           ELSE {<<"GRID_IMPORT_TREND", "UP">>},
           IF Sufficiency(now) - Sufficiency(before) > -5 THEN {}
           ELSE {<<"SELF_SUFFICIENCY", "DECLINED">>},
           IF now.score - before.score > -10 THEN {} ELSE {<<"HEALTH_SCORE", "DECLINED">>}}
=============================================================================
