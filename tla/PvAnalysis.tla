------------------------------ MODULE PvAnalysis ------------------------------
(***************************************************************************)
(* The photovoltaic analysis of one plant: climate becomes irradiation on    *)
(* the modules, with the energy of the day it becomes a performance ratio,   *)
(* the ratios become a seasonal baseline with a frozen reference year, and   *)
(* all of them the losses of the day.  The daily pipeline does the four in   *)
(* one transaction while the history of the climate is fetched, devices      *)
(* report and the owner edits the plant.                                     *)
(***************************************************************************)
EXTENDS Integers, FiniteSets, SequencesExt

CONSTANTS
    Runs,           \* pipelines that may be under way at once
    Days,           \* 1 .. n
    Plants,         \* what the owner may say of the plant: [sited, kwp], 0: nothing
    Month,          \* the calendar month of each day
    Readings,       \* what devices report: [kwh, status]
    Irradiations,   \* what the provider measured of a day; 0: nothing
    Pasts,          \* days already analysed: [reading, poa] of each day, poa 0: not yet
    ReferenceDays,  \* REFERENCE_WINDOW_DAYS, 366 in the code
    MinReference,   \* MINIMUM_BASELINE_SAMPLES
    MinComparison,  \* MINIMUM_COMPARISON_SAMPLES
    None,           \* no row
    MaxChanges,     \* bound: what happens outside the pipeline, and its failures
    MaxStarts       \* bound: how often the pipeline runs

VARIABLES
    plant,          \* its columns: where the modules look, and their capacity
    energy,         \* daily_energy of its device
    solar,          \* daily_solar_model_results: the irradiation on the modules
    perf,           \* daily_pv_performance
    base,           \* seasonal_pv_baselines
    loss,           \* daily_pv_loss_assessments
    run,            \* the pipelines under way
    torn,           \* days a failed run left half calculated
    touched,        \* days whose baseline rests on rows that changed since
    changes, starts

vars ==
    <<plant, energy, solar, perf, base, loss, run, torn, touched, changes, starts>>

\* A row of daily_pv_performance_results.
Performances == [ratio : Nat, status : STRING, kwp : Nat, poa : Nat, kwh : Nat]

ConstantsOK ==
    /\ IsFiniteSet(Days) /\ Days = 1 .. Cardinality(Days) /\ ReferenceDays \in Nat \ {0}
    /\ MinReference \in Nat \ {0} /\ MinComparison \in Nat \ {0}
    /\ 0 \in Irradiations /\ Irradiations \subseteq Nat
    /\ Plants \subseteq [sited : Nat, kwp : Nat]
    /\ Readings \subseteq [kwh : Nat, status : STRING]
    /\ Pasts \subseteq [Days -> [reading : Readings \cup {None}, poa : Nat]]
    /\ None \notin Nat /\ None \notin Performances
    /\ MaxChanges \in Nat /\ MaxStarts \in Nat

\* What a transaction has written of its day: nothing, or a row of a table.
Untouched == [solar |-> <<>>, perf |-> <<>>, base |-> <<>>, loss |-> <<>>]
Idle == [step |-> "idle", day |-> 0, plant |-> [sited |-> 0, kwp |-> 0], quiet |-> TRUE,
         mine |-> Untouched]

-----------------------------------------------------------------------------
(* The calculations.  A ratio of 100 is a plant that yields what its modules *)
(* could; irradiation and capacity are small numbers.                        *)

\* calculate_daily_solar_model: GHI is transposed to the plane of the modules.
Projected(ghi, sited) == ghi * sited

\* calculate_daily_performance, for the one device of the plant.
Performance(reading, kwp, poa) ==
    [ratio |-> (60 * reading.kwh) \div (kwp * poa), status |-> reading.status, kwp |-> kwp,
     poa |-> poa, kwh |-> reading.kwh]

\* _eligible, of a row of the join of performance and irradiation.
Eligible(row) == row.status = "FINAL" /\ row.poa > 0 /\ row.ratio > 0 /\ row.ratio <= 120

\* _quantile of a non-empty sequence, by linear interpolation: a tenth of a unit
\* is the smallest step of q, and of the result.
Quantile(values, q) ==
    LET ordered  == SortSeq(values, <)
        position == q * (Len(ordered) - 1)
        lower    == position \div 10
        upper    == IF lower + 1 < Len(ordered) THEN lower + 1 ELSE Len(ordered) - 1
    IN  10 * ordered[lower + 1]
            + (ordered[upper + 1] - ordered[lower + 1]) * (position - 10 * lower)

\* One value of a set of samples, of each sample.
Values(samples, field) ==
    LET days == SetToSortSeq({s.day : s \in samples}, <)
    IN  [i \in 1 .. Len(days) |-> (CHOOSE s \in samples : s.day = days[i])[field]]

Ratios(samples) == Values(samples, "ratio")
Median(samples) == Quantile(Ratios(samples), 5)
Distance(a, b) == IF a < b THEN b - a ELSE a - b

\* _mad_filter: three deviations of 1.4826 around the median, or the middle of
\* the samples when most of them are equal.
MadFilter(samples) ==
    IF samples = {} THEN {}
    ELSE LET centre == Median(samples)
             mad == Median({[s EXCEPT !.ratio = Distance(10 * @, centre)] : s \in samples})
         IN  IF mad = 0
             THEN {s \in samples : /\ Quantile(Ratios(samples), 1) <= 10 * s.ratio
                                   /\ 10 * s.ratio <= Quantile(Ratios(samples), 9)}
             ELSE {s \in samples : 100000 * Distance(10 * s.ratio, centre) <= 44478 * mad}

\* _clear_sky_eligible: between 0.65 and 1.25 times the envelope, the 90th
\* percentile of the season, which Quantile gives in tenths.
ClearSky(samples, envelope) ==
    {s \in samples : 1000 * s.poa >= 65 * envelope /\ 1000 * s.poa <= 125 * envelope}

\* _status of a degradation of num / den.
Status(num, den) ==
    IF 100 * num <= 95 * den THEN "DEGRADED"
    ELSE IF 100 * num <= 97 * den THEN "WATCH" ELSE "STABLE"

-----------------------------------------------------------------------------
(* calculate_seasonal_baseline.                                              *)

\* The rows of the join up to a day; v: what the transaction sees of them.
Samples(v, until) ==
    {[day |-> d, ratio |-> v.perf[d].ratio, status |-> v.perf[d].status, poa |-> v.solar[d]] :
        d \in {d \in Days : d <= until /\ v.perf[d] # None /\ v.solar[d] # None}}

EligibleUpTo(v, target) == {s \in Samples(v, target) : Eligible(s)}
FirstDay(samples) == CHOOSE d \in {s.day : s \in samples} : \A s \in samples : d <= s.day
ReferenceEnd(first) == first + ReferenceDays - 1

\* The frozen reference: the season of the target in the first year.
InReference(s, first, target) ==
    s.day <= ReferenceEnd(first) /\ Month[s.day] = Month[target]

\* Mutant of Envelope: the brightest days so far, those after the year too.
EnvelopeSoFar(rows, season) == Quantile(Values(rows, "poa"), 9)

\* The clear-sky envelope of the season: the 90th percentile of its irradiation in
\* the reference year.
Envelope(rows, season) == Quantile(Values(season, "poa"), 9)

Refused(why) == [refused |-> why]

Baseline(v, target) ==
    LET rows == EligibleUpTo(v, target) IN
    IF rows = {} THEN Refused("no history")
    ELSE LET first == FirstDay(rows) IN
    IF target <= ReferenceEnd(first) THEN Refused("year incomplete")
    ELSE LET season == {s \in rows : InReference(s, first, target)} IN
    IF Cardinality(season) < MinReference THEN Refused("few samples")
    ELSE LET envelope  == Envelope(rows, season)
             reference == MadFilter(ClearSky(season, envelope))
             later == MadFilter(ClearSky(
                 {s \in rows : s.day > ReferenceEnd(first) /\ Month[s.day] = Month[target]},
                 envelope))
         IN  IF \/ Cardinality(reference) < MinReference
                \/ Cardinality(later) < MinComparison
             THEN Refused("few samples")
             ELSE [refused |-> "no", first |-> first, envelope |-> envelope,
                   level |-> Median(reference),
                   status |-> Status(Median(later), Median(reference))]

\* The reference year of the baseline of a day does not end before this one.
ReferenceOf(b) == 1 .. ReferenceEnd(b.first)

-----------------------------------------------------------------------------
(* classify_daily_losses.                                                    *)

\* The shortfall of a ratio against the reference is at least so many percent.
Short(p, b, percent) == b # None /\ b.level > 0 /\ 1000 * p.ratio <= (100 - percent) * b.level

Communication(p) == IF p.status = "INCOMPLETE" THEN "likely" ELSE "not detected"

Unavailability(p, b) ==
    IF p.status # "FINAL" THEN "not detected"
    ELSE IF p.kwh = 0 /\ p.poa >= 3 THEN "likely"
    ELSE IF Short(p, b, 15) THEN "possible" ELSE "not detected"

Degradation(b) ==
    IF b = None THEN "not assessable"
    ELSE CASE b.status = "DEGRADED" -> "likely"
           [] b.status = "WATCH" -> "possible"
           [] OTHER -> "not detected"

Unexplained(p, b) ==
    IF b = None THEN "not assessable"
    ELSE IF Short(p, b, 5) /\ "likely" \notin {Communication(p), Unavailability(p, b), Degradation(b)}
         THEN "possible" ELSE "not detected"

\* Mutant of Losses: the classification keeps the first assessment of the day.
LossesOnce(p, b, old) ==
    IF old # None THEN old
    ELSE [ratio |-> p.ratio, level |-> IF b = None THEN None ELSE b.level,
          unexplained |-> Unexplained(p, b)]

\* The row of the day, of what it rests on.  Temperature, rain and inverter
\* limits are not among the data here, and then nothing of them is assessable.
Losses(p, b, old) ==
    [ratio |-> p.ratio, level |-> IF b = None THEN None ELSE b.level,
     unexplained |-> Unexplained(p, b)]

-----------------------------------------------------------------------------
(* The tables as the pipeline left them, one day of the past after the other. *)

Committed == [solar |-> solar, perf |-> perf]

Init ==
    /\ plant \in {p \in Plants : p.sited > 0 /\ p.kwp > 0}
    /\ \E past \in Pasts :
        /\ energy = [d \in Days |-> past[d].reading]
        /\ solar = [d \in Days |-> IF past[d].poa = 0 THEN None ELSE past[d].poa]
        /\ perf = [d \in Days |->
               IF past[d].poa = 0 \/ past[d].reading = None THEN None
               ELSE Performance(past[d].reading, plant.kwp, past[d].poa)]
    /\ base = [d \in Days |->
           LET b == Baseline(Committed, d)
           IN  IF solar[d] = None \/ b.refused # "no" THEN None ELSE b]
    /\ loss = [d \in Days |->
           IF perf[d] = None THEN None ELSE Losses(perf[d], base[d], None)]
    /\ run = [r \in Runs |-> Idle]
    /\ torn = {} /\ touched = {} /\ changes = 0 /\ starts = 0

-----------------------------------------------------------------------------
(* Outside the pipeline.                                                     *)

\* The days whose baseline rests on a day: those whose reference year had begun
\* or ended no earlier, for an earlier first day moves the year.
RestOn(d) == {e \in Days : base[e] # None /\ d <= ReferenceEnd(base[e].first)}

\* A baseline under way may have read what is changing.
Shaken(runs) ==
    [r \in Runs |-> IF runs[r] = Idle THEN Idle ELSE [runs[r] EXCEPT !.quiet = FALSE]]

Changed == changes < MaxChanges /\ changes' = changes + 1

\* DailyEnergyRepository.upsert, by whoever collects.
Collect(d, reading) ==
    /\ Changed /\ energy[d] # reading
    /\ energy' = [energy EXCEPT ![d] = reading]
    /\ UNCHANGED <<plant, solar, perf, base, loss, run, torn, touched, starts>>

\* The owner edits the plant: its capacity, or where the modules look.
EditPlant(p) ==
    /\ Changed /\ plant # p
    /\ plant' = p
    /\ UNCHANGED <<energy, solar, perf, base, loss, run, torn, touched, starts>>

\* run_climate_history: a chunk of days is fetched, projected and committed; a
\* day without irradiation keeps the projection it had.  It waits for the row of
\* a pipeline that projected one of the days and has not ended.
FetchHistory(ds, ghi) ==
    /\ Changed /\ plant.sited > 0 /\ ghi > 0
    /\ \A r \in Runs : run[r].day \in ds => run[r].mine.solar = <<>>
    /\ solar' = [d \in Days |-> IF d \in ds THEN Projected(ghi, plant.sited) ELSE solar[d]]
    /\ touched' = touched \cup UNION {RestOn(d) : d \in ds}
    /\ run' = Shaken(run)
    /\ UNCHANGED <<plant, energy, perf, base, loss, torn, starts>>

Kept(table, cutoff) == [d \in Days |-> IF d < cutoff THEN None ELSE table[d]]

\* TimeSeriesRetentionService.purge: the energy of the days before one cutoff, and what
\* rests on the climate of those before another.  It waits for the rows of a pipeline.
Purge(energyCutoff, climateCutoff) ==
    /\ Changed /\ (energyCutoff > 1 \/ climateCutoff > 1)
    /\ \A r \in Runs : run[r].day < climateCutoff => run[r].mine = Untouched
    /\ energy' = Kept(energy, energyCutoff)
    /\ solar' = Kept(solar, climateCutoff) /\ perf' = Kept(perf, climateCutoff)
    /\ base' = Kept(base, climateCutoff) /\ loss' = Kept(loss, climateCutoff)
    /\ touched' = touched \cup UNION {RestOn(d) : d \in {d \in Days : d < climateCutoff}}
    /\ run' = Shaken(run)
    /\ UNCHANGED <<plant, torn, starts>>

-----------------------------------------------------------------------------
(* run_daily_energy_pipeline: one transaction of a day, which alone sees its *)
(* rows until they are committed.  The ledger keeps two runs of one day apart.*)

Steps == {"idle", "climate", "performance", "baseline", "losses", "commit"}

\* The plant is loaded before the provider is asked, and kept.
Start(r, d) ==
    /\ starts < MaxStarts /\ starts' = starts + 1
    /\ run[r].step = "idle" /\ \A o \in Runs : run[o].day # d
    /\ run' = [run EXCEPT ![r] =
           [step |-> "climate", day |-> d, plant |-> plant, quiet |-> TRUE, mine |-> Untouched]]
    /\ UNCHANGED <<plant, energy, solar, perf, base, loss, torn, touched, changes>>

\* A table as the run sees it: what is committed, and its own row.
With(table, r, written) ==
    IF written = <<>> THEN table ELSE [table EXCEPT ![run[r].day] = written[1]]
Solar(r) == With(solar, r, run[r].mine.solar)
Perf(r) == With(perf, r, run[r].mine.perf)
Base(r) == With(base, r, run[r].mine.base)

\* The step from one calculation to the next writes one row, or none.
Calculated(r, from, to, mine) ==
    /\ run[r].step = from
    /\ run' = [run EXCEPT ![r].step = to, ![r].mine = mine,
                          ![r].quiet = @ \/ from = "baseline"]
    /\ UNCHANGED <<plant, energy, solar, perf, base, loss, torn, touched, changes, starts>>

\* project_daily_climate_observations; without coordinates the climate is refused.
Climate(r, ghi) ==
    /\ run[r].plant.sited > 0
    /\ Calculated(r, "climate", "performance",
           [run[r].mine EXCEPT !.solar =
               IF ghi = 0 THEN <<>> ELSE <<Projected(ghi, run[r].plant.sited)>>])

\* calculate_and_persist_daily_performance: whatever is missing skips it, and
\* the row of an earlier run stays.
Measure(r) ==
    LET d == run[r].day IN
    Calculated(r, "performance", "baseline",
        [run[r].mine EXCEPT !.perf =
            IF run[r].plant.kwp = 0 \/ Solar(r)[d] = None \/ energy[d] = None THEN <<>>
            ELSE <<Performance(energy[d], run[r].plant.kwp, Solar(r)[d])>>])

\* calculate_and_persist_seasonal_baseline.
Compare(r) ==
    LET b == Baseline([solar |-> Solar(r), perf |-> Perf(r)], run[r].day) IN
    Calculated(r, "baseline", "losses",
        [run[r].mine EXCEPT !.base = IF b.refused = "no" THEN <<b>> ELSE <<>>])

\* classify_and_persist_daily_losses.
Classify(r) ==
    LET d == run[r].day IN
    Calculated(r, "losses", "commit",
        [run[r].mine EXCEPT !.loss =
            IF Perf(r)[d] = None THEN <<>> ELSE <<Losses(Perf(r)[d], Base(r)[d], loss[d])>>])

\* The transaction becomes visible.
Commit(r) ==
    LET d    == run[r].day
        mine == run[r].mine
    IN  /\ solar' = Solar(r) /\ perf' = Perf(r) /\ base' = Base(r)
        /\ loss' = With(loss, r, mine.loss)
        /\ touched' =
               LET before == IF mine.base = <<>> THEN touched
                             ELSE IF run[r].quiet THEN touched \ {d} ELSE touched \cup {d}
               IN  IF mine.solar = <<>> /\ mine.perf = <<>> THEN before
                   ELSE before \cup (RestOn(d) \ {d})
        /\ torn' = IF run[r].step = "commit" THEN torn \ {d}
                   ELSE IF mine.perf # <<>> \/ mine.base # <<>> THEN torn \cup {d} ELSE torn
        /\ run' = Shaken([run EXCEPT ![r] = Idle])
        /\ UNCHANGED <<plant, energy, starts>>

Finish(r) == run[r].step = "commit" /\ Commit(r) /\ UNCHANGED changes

\* A step raises, and the daily job commits what was flushed before it.
FailJob(r) == run[r].step \notin {"idle", "climate", "commit"} /\ Commit(r) /\ Changed

\* A step raises in a request of the API, or the process dies.
RollBack(r) ==
    /\ Changed /\ run[r].step # "idle"
    /\ run' = [run EXCEPT ![r] = Idle]
    /\ UNCHANGED <<plant, energy, solar, perf, base, loss, torn, touched, starts>>

Next ==
    \/ \E d \in Days, reading \in Readings : Collect(d, reading)
    \/ \E p \in Plants : EditPlant(p)
    \/ \E ds \in (SUBSET Days) \ {{}}, ghi \in Irradiations : FetchHistory(ds, ghi)
    \/ \E e, c \in Days : Purge(e, c)
    \/ \E r \in Runs, d \in Days : Start(r, d)
    \/ \E r \in Runs, ghi \in Irradiations : Climate(r, ghi)
    \/ \E r \in Runs : Measure(r) \/ Compare(r) \/ Classify(r) \/ Finish(r) \/ FailJob(r) \/ RollBack(r)

Spec == Init /\ [][Next]_vars

-----------------------------------------------------------------------------
(* What is read of it.                                                       *)

\* The rows _derive_baseline_unavailable_reason counts: what SQL can say of
\* Eligible.
Counted == {d \in Days : perf[d] # None /\ perf[d].status = "FINAL"}

\* Mutant of ReaderSaysIncomplete: the year lasts a day longer.
ReaderSaysIncompleteLonger(today) ==
    Counted # {} /\ today <= ReferenceEnd(CHOOSE d \in Counted : \A e \in Counted : d <= e) + 1

\* get_latest_baseline: REFERENCE_YEAR_INCOMPLETE is the reason of a day.
ReaderSaysIncomplete(today) ==
    Counted # {} /\ today <= ReferenceEnd(CHOOSE d \in Counted : \A e \in Counted : d <= e)

-----------------------------------------------------------------------------

RunOK(x) ==
    /\ x \in [step : Steps, day : Days \cup {0}, plant : Plants \cup {Idle.plant},
              quiet : BOOLEAN, mine : {x.mine}]
    /\ LET m == x.mine IN
        /\ m \in [solar : {m.solar}, perf : {m.perf}, base : {m.base}, loss : {m.loss}]
        /\ m.solar # <<>> => m.solar[1] \in Nat \ {0}
        /\ m.perf # <<>> => m.perf[1] \in Performances

\* What a baseline or an assessment says is up to the calculations.
TypeOK ==
    /\ plant \in Plants /\ changes \in 0 .. MaxChanges /\ starts \in 0 .. MaxStarts
    /\ energy \in [Days -> Readings \cup {None}]
    /\ solar \in [Days -> (Nat \ {0}) \cup {None}]
    /\ perf \in [Days -> Performances \cup {None}]
    /\ DOMAIN base = Days /\ DOMAIN loss = Days
    /\ DOMAIN run = Runs /\ \A r \in Runs : RunOK(run[r])
    /\ torn \subseteq Days /\ touched \subseteq Days

\* The losses of a day explain the performance and rest on the baseline the day
\* has now, also when the day was calculated again, or an earlier row stayed
\* because something was missing; unless its last run failed halfway and was
\* committed all the same (photovoltaic/loss_taxonomy_service.py;
\* cloud_jobs.py, run_daily_pipeline).
LossesExplainPerformance ==
    \A d \in Days \ torn :
        loss[d] # None =>
            /\ loss[d].ratio = perf[d].ratio
            /\ loss[d].level = IF base[d] = None THEN None ELSE base[d].level

\* seasonal_baseline.py: "later degraded production can therefore never be
\* learned back into the reference".  Two baselines of one season on the same
\* reference year compare with the same level, whatever was produced between
\* them, unless the rows of that year changed after one was calculated.
NotLearnedBack ==
    \A d, e \in {d \in Days \ touched : base[d] # None} :
        Month[d] = Month[e] /\ base[d].first = base[e].first => base[d].level = base[e].level

\* Who is told that the reference year is not complete is told the truth: a
\* calculation for that day would be refused, although the reader only counts
\* rows and the calculation judges them (photovoltaic/read_service.py,
\* _derive_baseline_unavailable_reason).
ReasonIsTrue ==
    \A today \in Days :
        ReaderSaysIncomplete(today) =>
            Baseline([solar |-> solar, perf |-> perf], today).refused \in
                {"no history", "year incomplete"}

-----------------------------------------------------------------------------
(* Why they hold.                                                           *)

\* Runs are of different days, and only the last calculation assesses the losses.
RunsApart ==
    \A r \in Runs :
        /\ run[r].step = "idle" => run[r] = Idle
        /\ run[r].step # "idle" =>
               run[r].day \in Days /\ \A o \in Runs \ {r} : run[o].day # run[r].day
        /\ run[r].step # "commit" => run[r].mine.loss = <<>>

Explains(row, p, b) ==
    row.ratio = p.ratio /\ row.level = IF b = None THEN None ELSE b.level

Assessed(r) ==
    LET d == run[r].day
        m == run[r].mine
    IN  IF Perf(r)[d] = None THEN m.loss = <<>>
        ELSE m.loss # <<>> /\ Explains(m.loss[1], Perf(r)[d], Base(r)[d])

\* A day without performance has no losses, and a run that is about to commit has
\* assessed the losses of what it sees.
LossesAgree ==
    /\ \A d \in Days : perf[d] = None => loss[d] = None
    /\ \A d \in Days \ torn : loss[d] # None => Explains(loss[d], perf[d], base[d])
    /\ \A r \in Runs : run[r].step = "commit" => Assessed(r)

\* The samples of a season in the reference year, and the level they give.
SeasonOf(v, first, month) ==
    {s \in EligibleUpTo(v, ReferenceEnd(first)) : Month[s.day] = month}
LevelOf(season) ==
    Median(MadFilter(ClearSky(season, Envelope(season, season))))

\* The reference year of a baseline was over on its day, and its level is that of the
\* season of the day in the year as it is known now.
RestsOn(b, d, v) ==
    /\ b.first \in Days /\ ReferenceEnd(b.first) < d
    /\ b.level = LevelOf(SeasonOf(v, b.first, Month[d]))

LevelsAgree ==
    /\ \A d \in Days \ touched : base[d] # None => RestsOn(base[d], d, Committed)
    /\ \A r \in Runs :
           run[r].quiet /\ run[r].mine.base # <<>> =>
               RestsOn(run[r].mine.base[1], run[r].day, Committed)

PvInv == TypeOK /\ RunsApart /\ LossesAgree /\ LevelsAgree
=============================================================================
