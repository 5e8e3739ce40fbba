------------------------------ MODULE DailyEnergy ------------------------------
(***************************************************************************)
(* The production of a device, day by day: what the manufacturer's history   *)
(* says of a day, or, for accounts whose history is closed, the difference   *)
(* between the totals read on two nights.  A value that is replaced is kept  *)
(* as a version.                                                            *)
(*   services/collection.py, db/repositories/daily_energy.py,               *)
(*   collection/meter.py, collection/job.py, collection/drain.py,           *)
(*   import_production_history of providers/router.py, cloud_jobs.py        *)
(*                                                                          *)
(* A writer is one transaction: the rows it wrote or locked are its own      *)
(* until it commits, and what it wrote is seen then.  A row it had read      *)
(* before it locks it keeps the values it read (the ORM's identity map).     *)
(***************************************************************************)
EXTENDS Naturals, Sequences, FiniteSets, FiniteSetsExt

CONSTANTS
    Writers,    \* concurrent collections, imports and night readings
    Days,       \* the days observed: 1 .. n, and night 0 before them
    Kwh,        \* what the history may say of a day
    Totals,     \* what the plant's total may be
    NoDay,      \* no row
    MaxRuns     \* bound: writers ever started

ConstantsOK ==
    /\ IsFiniteSet(Days) /\ Days = 1 .. Cardinality(Days)
    /\ Kwh \subseteq Nat \ {0} /\ Totals \subseteq Nat /\ NoDay \notin Nat /\ MaxRuns \in Nat

VARIABLES
    energy,     \* daily_energy, as committed: kwh and source
    versions,   \* daily_energy_versions: the values replaced, by day
    meter,      \* meter_readings: the total of each night
    night,      \* covered_date: the day whose night it is
    job,        \* per writer: its step, days to do, value, rows read and rows to commit
    runs,
    trail,      \* history: every value a day had
    crossed     \* history: a night reading overlapped with another writer

vars == <<energy, versions, meter, night, job, runs, trail, crossed>>

Nights == {0} \cup Days
Sources == {"brand", "totals"}
Row == [kwh : Nat, source : Sources]
Missing == [kwh |-> 0, source |-> "brand"]
OfBrand(k) == [kwh |-> k, source |-> "brand"]
OfTotals(k) == [kwh |-> k, source |-> "totals"]

Steps == {"idle", "collecting", "inserting", "counting", "looking", "upserting", "done"}

NoJob == [step |-> "idle", todo |-> {}, value |-> Missing, read |-> Missing,
          had |-> NoDay, total |-> NoDay, raise |-> FALSE,
          put |-> [d \in Days |-> Missing], old |-> [d \in Days |-> 0], locked |-> {}]

Job == [step : Steps, todo : SUBSET Nights, value : Row, read : Row,
        had : Totals \cup {NoDay}, total : Totals \cup {NoDay}, raise : BOOLEAN,
        put : [Days -> Row], old : [Days -> Nat], locked : SUBSET Days]

TypeOK ==
    /\ energy \in [Days -> Row] /\ versions \in [Days -> Seq(Nat)]
    /\ meter \in [Nights -> Totals \cup {NoDay}] /\ night \in Nights
    /\ job \in [Writers -> Job]
    /\ runs \in 0 .. MaxRuns /\ trail \in [Days -> Seq(Nat)] /\ crossed \in BOOLEAN

Init ==
    /\ energy = [d \in Days |-> Missing] /\ versions = [d \in Days |-> <<>>]
    /\ meter = [n \in Nights |-> NoDay] /\ night = 0
    /\ job = [w \in Writers |-> NoJob] /\ runs = 0
    /\ trail = [d \in Days |-> <<>>] /\ crossed = FALSE

-----------------------------------------------------------------------------

Stored(d) == energy[d] # Missing
Counting(w) == job[w].total # NoDay
Busy(w) == {x \in Writers \ {w} : job[x].step # "idle"}
LockedByOther(w, d) == \E x \in Writers \ {w} : d \in job[x].locked
NightLocked(w) == \E x \in Writers \ {w} : job[x].raise

Begin(w, j) ==
    /\ job[w].step = "idle" /\ runs < MaxRuns /\ runs' = runs + 1
    /\ job' = [job EXCEPT ![w] = j]
    /\ crossed' = (crossed \/ (Busy(w) # {} /\ (j.step = "counting" \/ \E x \in Busy(w) : Counting(x))))

Quiet == UNCHANGED <<energy, versions, meter, night, runs, trail, crossed>>
Become(w, j) == job' = [job EXCEPT ![w] = j] /\ Quiet

\* The row the writer leaves and the version it adds, given the row it compares with.
Changed(j, d, seen, new) ==
    [j EXCEPT !.locked = @ \cup {d},
              !.put[d] = IF seen.kwh # new.kwh THEN new ELSE @,
              !.old[d] = IF seen.kwh # new.kwh THEN seen.kwh ELSE @]

-----------------------------------------------------------------------------
(* DailyEnergyRepository.upsert.                                            *)

Target(w) == Min(job[w].todo)
NextDay(j) == [j EXCEPT !.todo = @ \ {Min(@)},
                      !.step = IF Cardinality(j.todo) = 1 THEN "done" ELSE "collecting"]

\* SELECT ... FOR UPDATE of a day that has a row: compare, keep the old, replace.
UpdateDay(w, k) ==
    /\ job[w].step = "collecting" /\ Stored(Target(w)) /\ ~LockedByOther(w, Target(w))
    /\ Become(w, NextDay(Changed(job[w], Target(w), energy[Target(w)], OfBrand(k))))

\* ... of a day that has none: an INSERT follows.
MissDay(w, k) ==
    /\ job[w].step = "collecting" /\ ~Stored(Target(w))
    /\ Become(w, [job[w] EXCEPT !.step = "inserting", !.value = OfBrand(k)])

\* Mutant of Inserted: the value of a faster insert is replaced and forgotten.
InsertedOver(j, d) == [j EXCEPT !.locked = @ \cup {d}, !.put[d] = j.value]

\* The INSERT in a savepoint; a faster one makes it fail, and the row is then
\* read with a lock and updated.
Inserted(j, d) ==
    IF Stored(d) THEN Changed(j, d, energy[d], j.value)
    ELSE [j EXCEPT !.locked = @ \cup {d}, !.put[d] = j.value]

InsertDay(w) ==
    /\ job[w].step = "inserting" /\ ~LockedByOther(w, Target(w))
    /\ Become(w, NextDay(Inserted(job[w], Target(w))))

-----------------------------------------------------------------------------
(* The manufacturer's history: the daily collection and its retries one day,  *)
(* the import of a connection and the weekly backfill several.              *)

Collect(w, D) ==
    Begin(w, [NoJob EXCEPT !.step = "collecting", !.todo = D])
    /\ UNCHANGED <<energy, versions, meter, night, trail>>

-----------------------------------------------------------------------------
(* record_meter_totals.                                                     *)

\* The night's reading is looked up, with the total of plant/list in hand; what
\* is not higher is not written.
CountNight(w, t) ==
    /\ Begin(w, [NoJob EXCEPT !.step = "counting", !.todo = {night},
                              !.had = meter[night], !.total = t])
    /\ UNCHANGED <<energy, versions, meter, night, trail>>

Raises(j) == j.had = NoDay \/ j.total > j.had

\* Mutant of DayOf: a total that fell back closes the day like any other.
DayOfDown(t, d) ==
    IF d = 0 \/ meter[d - 1] = NoDay \/ t = meter[d - 1] THEN 0
    ELSE IF t > meter[d - 1] THEN t - meter[d - 1] ELSE t

\* The production between two nights, when the total rose (0: nothing to say).
DayOf(t, d) ==
    IF d = 0 \/ meter[d - 1] = NoDay \/ t <= meter[d - 1] THEN 0 ELSE t - meter[d - 1]

\* flush, and the reading of the night before.  An INSERT another reading was
\* faster with ends the run.
FlushNight(w) ==
    LET j == job[w]
        n == Min(j.todo)
        total == IF Raises(j) THEN j.total ELSE j.had
        kwh == DayOf(total, n)
    IN  /\ j.step = "counting"
        /\ Raises(j) => ~NightLocked(w) /\ (j.had = NoDay => meter[n] = NoDay)
        /\ Become(w, [j EXCEPT !.step = IF kwh = 0 THEN "done" ELSE "looking",
                               !.value = OfTotals(kwh), !.total = total, !.raise = Raises(j)])

\* Mutant of LookDay: the source of the day is not asked.
LookDayBlind(w) ==
    /\ job[w].step = "looking"
    /\ Become(w, [job[w] EXCEPT !.step = "upserting", !.read = energy[Target(w)]])

\* A day the history closed is left alone.
LookDay(w) ==
    /\ job[w].step = "looking"
    /\ Become(w, IF Stored(Target(w)) /\ energy[Target(w)].source = "brand"
                 THEN [job[w] EXCEPT !.step = "done"]
                 ELSE [job[w] EXCEPT !.step = "upserting", !.read = energy[Target(w)]])

\* The upsert of a day that was not there reads it; that of a day read before
\* locks the row and compares with what had been read.
UpsertDay(w) ==
    LET j == job[w]
        d == Target(w)
        seen == IF j.read = Missing THEN energy[d] ELSE j.read
    IN  /\ j.step = "upserting"
        /\ IF ~Stored(d) THEN Become(w, [j EXCEPT !.step = "inserting"])
           ELSE ~LockedByOther(w, d) /\ Become(w, NextDay(Changed(j, d, seen, j.value)))

-----------------------------------------------------------------------------

\* An UPDATE leaves the columns alone that are as they were read: the source of
\* a day read before it was locked.
Column(j, d) ==
    IF j.read # Missing /\ j.read.source = j.put[d].source /\ Stored(d)
    THEN [j.put[d] EXCEPT !.source = energy[d].source] ELSE j.put[d]

Written(w) == {d \in Days : job[w].put[d] # Missing}

Commit(w) ==
    LET j == job[w] IN
    /\ j.step = "done"
    /\ energy' = [d \in Days |-> IF d \in Written(w) THEN Column(j, d) ELSE energy[d]]
    /\ versions' = [d \in Days |-> IF j.old[d] # 0 THEN Append(versions[d], j.old[d]) ELSE versions[d]]
    /\ trail' = [d \in Days |-> IF d \in Written(w) THEN Append(trail[d], j.put[d].kwh) ELSE trail[d]]
    /\ meter' = IF j.raise THEN [meter EXCEPT ![night] = j.total] ELSE meter
    /\ job' = [job EXCEPT ![w] = NoJob] /\ UNCHANGED <<night, runs, crossed>>

\* The manufacturer, the database or the process fails: everything is undone.
Fail(w) == job[w].step # "idle" /\ Become(w, NoJob)

\* The next evening.  A reading does not last from one night to the next.
NextNight ==
    /\ night + 1 \in Days /\ night' = night + 1
    /\ \A w \in Writers : ~Counting(w)
    /\ UNCHANGED <<energy, versions, meter, job, runs, trail, crossed>>

Next ==
    \/ \E w \in Writers, D \in (SUBSET Days) \ {{}} : Collect(w, D)
    \/ \E w \in Writers, t \in Totals : CountNight(w, t)
    \/ \E w \in Writers, k \in Kwh : UpdateDay(w, k) \/ MissDay(w, k)
    \/ \E w \in Writers :
          \/ InsertDay(w) \/ FlushNight(w) \/ LookDay(w) \/ UpsertDay(w) \/ Commit(w) \/ Fail(w)
    \/ NextNight

Spec == Init /\ [][Next]_vars

-----------------------------------------------------------------------------

\* The versions of a day and its present value are all the values it ever had,
\* in order, however collections of the day interleave: only a night reading that
\* overlaps with another writer compares with a row it read too early
\* (db/repositories/daily_energy.py, upsert).
NoValueForgotten ==
    ~crossed => \A d \in Days :
        trail[d] = IF Stored(d) THEN Append(versions[d], energy[d].kwh) ELSE <<>>

\* A day closed by the manufacturer's history is not replaced by a difference of
\* totals, unless the night was read while the history was being written
\* (services/collection.py, record_meter_totals).
BrandStep ==
    \A d \in Days : Stored(d) /\ energy[d].source = "brand" =>
        crossed \/ energy'[d].source = "brand"
BrandDaysStay == [][BrandStep]_vars

\* A day closed by the totals is the difference between the two nights, and a
\* total that rose has closed its day; so what was produced is neither lost nor
\* counted twice, and a meter that starts anew closes no day
\* (services/collection.py, record_meter_totals).
TotalsClose ==
    ~crossed => \A d \in Days :
        /\ Stored(d) /\ energy[d].source = "totals" =>
              energy[d].kwh = meter[d] - meter[d - 1]
        /\ meter[d] # NoDay /\ meter[d - 1] # NoDay /\ meter[d] > meter[d - 1] => Stored(d)

-----------------------------------------------------------------------------
(* Why they hold: the inductive invariant.                                  *)

\* A writer with something to do has a day to do it for, and a reading is that of
\* the night.
JobAgrees(j) ==
    /\ j.step = "idle" => j = NoJob
    /\ j.step \in {"collecting", "inserting", "looking", "upserting"} =>
          j.todo # {} /\ j.todo \subseteq Days
    /\ j.step \in {"counting", "looking", "upserting"} => j.total # NoDay
    /\ j.step = "collecting" => j.total = NoDay
    /\ j.total # NoDay => j.step = "done" \/ j.todo = {night}

\* A day is locked by one writer at most, which has done with it and holds for it
\* the value it replaces as it still is; a collection only has the history's word.
Holds(w, j) ==
    /\ j.todo \cap j.locked = {}
    /\ \A x \in Writers \ {w} : j.locked \cap job[x].locked = {}
    /\ \A d \in Days :
          IF j.put[d] = Missing THEN j.old[d] = 0
          ELSE d \in j.locked /\ j.put[d].kwh # 0 /\ j.old[d] = energy[d].kwh
    /\ j.step \in {"inserting", "looking", "upserting"} => j.value.kwh # 0
    /\ j.total = NoDay =>
          /\ ~j.raise /\ j.value.source = "brand" /\ j.read = Missing
          /\ \A d \in Days : j.put[d].source = "brand"

\* The reading of the night by a writer that no other one overlaps with, by its step.
Closing(w, j) ==
    LET nothing == \A d \in Days : j.put[d] = Missing IN
    /\ \A x \in Writers \ {w} : job[x] = NoJob
    /\ j.had = meter[night]
    /\ \A d \in Days : d # night => j.put[d] = Missing
    /\ j.step \in {"counting", "looking", "upserting", "inserting"} => nothing
    /\ j.step # "counting" =>
          /\ j.raise = Raises(j) /\ (~j.raise => j.total = j.had)
          /\ j.value = OfTotals(DayOf(j.total, night))
    /\ j.step = "upserting" =>
          j.read = energy[night] /\ (Stored(night) => energy[night].source = "totals")
    /\ j.step = "inserting" => ~Stored(night) /\ j.read = Missing
    /\ j.step = "done" =>
          IF nothing
          THEN \/ j.value.kwh = 0
               \/ Stored(night) /\ (energy[night].source = "brand" \/ energy[night] = j.value)
          ELSE /\ j.put[night] = j.value
               /\ IF Stored(night) THEN energy[night].source = "totals" /\ j.read = energy[night]
                  ELSE j.read = Missing

\* What is committed of the days and the nights.
DaysAgree ==
    /\ \A d \in Days :
          /\ Stored(d) => energy[d].kwh # 0
          /\ ~Stored(d) => versions[d] = <<>>
          /\ energy[d].source = "totals" => meter[d] # NoDay /\ meter[d - 1] # NoDay
    /\ \A n \in Nights : n > night => meter[n] = NoDay

WritersAgree ==
    \A w \in Writers : Holds(w, job[w]) /\ (Counting(w) => Closing(w, job[w]))

DailyInv ==
    /\ TypeOK /\ \A w \in Writers : JobAgrees(job[w])
    /\ ~crossed => WritersAgree /\ DaysAgree /\ NoValueForgotten /\ TotalsClose
=============================================================================
