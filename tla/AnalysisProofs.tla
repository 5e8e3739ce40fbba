----------------------------- MODULE AnalysisProofs -----------------------------
(***************************************************************************)
(* Theorems about the composition, which has what is proved of a component:  *)
(* what is made of the days of a plant, its analysis, its dashboard and its  *)
(* alerts; for any finite instance and bounds.                              *)
(***************************************************************************)
EXTENDS MCOperations, Sequences, FiniteSetTheorems, SequenceTheorems,
        WellFoundedInduction, TLAPS

LEMMA PartKept == ASSUME [MCNext]_vars PROVE part' = part
  <1>1. CASE MCNext
    BY <1>1, ZenonT(60) DEF MCNext, RestOutbox, RestPipeline, RestDaily, RestPv,
        RestDash, RestAlert, RestAnomaly, RestTariff, RestMarket, RestCycle, RestUtility
  <1> QED BY <1>1 DEF vars

-----------------------------------------------------------------------------
(* The analysis of a plant: photovoltaic/.                                   *)

\* The state by its names.
plant == s1
produced == s2
solar == s3
perf == s4
base == s5
loss == s6
run == s7
torn == s8
touched == s9
changes == s10
starts == s11
USE DEF plant, produced, solar, perf, base, loss, run, torn, touched, changes, starts

\* A step of a behaviour about the analysis is one of the analysis.
LEMMA PvSteps == ASSUME InPv, MCNext PROVE Pv!Next
  <1>1. /\ ~InOutbox /\ ~InPipeline /\ ~InDaily /\ ~InDash /\ ~InAlert /\ ~InAnomaly
        /\ ~InTariff /\ ~InMarket /\ ~InCycle /\ ~InUtility
    BY DEF InOutbox, InPipeline, InDaily, InPv, InDash, InAlert, InAnomaly, InTariff,
           InMarket, InCycle, InUtility
  <1> QED BY <1>1, ZenonT(60) DEF MCNext, Pv!Next

\* What is assumed of the instance.
LEMMA PvConstants ==
    /\ SolarDays \subseteq Nat \ {0} /\ ReferenceDays \in Nat \ {0}
    /\ Irradiations \subseteq Nat /\ Sites \subseteq [sited : Nat, kwp : Nat]
    /\ Readings \subseteq [kwh : Nat, status : STRING]
    /\ Pasts \subseteq [SolarDays -> [reading : Readings \cup {NoRow}, poa : Nat]]
    /\ NoRow \notin Nat /\ NoRow \notin Pv!Performances
    /\ MaxChanges \in Nat /\ MaxStarts \in Nat
  <1>1. /\ IsFiniteSet(SolarDays) /\ SolarDays = 1 .. Cardinality(SolarDays)
        /\ ReferenceDays \in Nat \ {0}
        /\ Irradiations \subseteq Nat /\ Sites \subseteq [sited : Nat, kwp : Nat]
        /\ Readings \subseteq [kwh : Nat, status : STRING]
        /\ Pasts \subseteq [SolarDays -> [reading : Readings \cup {NoRow}, poa : Nat]]
        /\ NoRow \notin Nat /\ NoRow \notin Pv!Performances
        /\ MaxChanges \in Nat /\ MaxStarts \in Nat
    BY ConstantsOfParts DEF Pv!ConstantsOK, Pv!IsFiniteSet, IsFiniteSet,
                            Pv!Cardinality, Cardinality
  <1>2. PICK n \in Nat : SolarDays = 1 .. n
    BY <1>1, FS_CardinalityType
  <1>3. SolarDays \subseteq Nat \ {0}
    BY <1>2
  <1> QED BY <1>1, <1>3

\* Of some days one is the first.
LEMMA FirstOfDays ==
    ASSUME NEW ds \in SUBSET SolarDays, ds # {}
    PROVE  \E m \in ds : \A n \in ds : m <= n
  <1> DEFINE R == {ss \in Nat \X Nat : ss[1] < ss[2]}
  <1>1. IsWellFoundedOn(R, Nat)
    BY NatLessThanWellFounded DEF OpToRel
  <1>2. ds \subseteq Nat
    BY PvConstants
  <1> HIDE DEF R
  <1>3. PICK m \in ds : \A n \in ds : <<n, m>> \notin R
    BY <1>1, <1>2, WFMin
  <1>4. ASSUME NEW n \in ds PROVE m <= n
    <2>1. m \in Nat /\ n \in Nat /\ ~(n < m)
      BY <1>2, <1>3, <1>4 DEF R
    <2> QED BY <2>1
  <1> QED BY <1>3, <1>4

\* A reference year ends on a number, not before it began.
LEMMA YearEnds ==
    ASSUME NEW f \in SolarDays PROVE Pv!ReferenceEnd(f) \in Nat /\ f <= Pv!ReferenceEnd(f)
  BY PvConstants DEF Pv!ReferenceEnd

\* The samples up to a day rest on the rows up to that day.
LEMMA SamplesAgree ==
    ASSUME NEW v, NEW w, NEW until,
           \A d \in SolarDays : d <= until => v.perf[d] = w.perf[d] /\ v.solar[d] = w.solar[d]
    PROVE  Pv!Samples(v, until) = Pv!Samples(w, until)
  <1> DEFINE Of(u, d) == [day |-> d, ratio |-> u.perf[d].ratio, status |-> u.perf[d].status,
                          poa |-> u.solar[d]]
             Joined(u) == {d \in SolarDays : d <= until /\ u.perf[d] # NoRow /\ u.solar[d] # NoRow}
  <1>1. Joined(v) = Joined(w)
    OBVIOUS
  <1>2. \A d \in Joined(v) : Of(v, d) = Of(w, d)
    OBVIOUS
  <1>3. /\ Pv!Samples(v, until) = {Of(v, d) : d \in Joined(v)}
        /\ Pv!Samples(w, until) = {Of(w, d) : d \in Joined(w)}
    BY DEF Pv!Samples
  <1> HIDE DEF Of, Joined
  <1> QED BY <1>1, <1>2, <1>3

\* And so does the level of a baseline.
LEMMA LevelAgrees ==
    ASSUME NEW v, NEW w, NEW b, NEW d, Pv!RestsOn(b, d, v),
           \A e \in SolarDays : e <= Pv!ReferenceEnd(b.first) =>
               v.perf[e] = w.perf[e] /\ v.solar[e] = w.solar[e]
    PROVE  Pv!RestsOn(b, d, w)
  <1>1. Pv!Samples(v, Pv!ReferenceEnd(b.first)) = Pv!Samples(w, Pv!ReferenceEnd(b.first))
    BY SamplesAgree
  <1> QED BY <1>1 DEF Pv!RestsOn, Pv!SeasonOf, Pv!EligibleUpTo

\* The days of the eligible samples are days with a row of performance.
LEMMA SampleDays ==
    ASSUME NEW v, NEW until, NEW s \in Pv!EligibleUpTo(v, until)
    PROVE  /\ s.day \in SolarDays /\ s.day <= until /\ Pv!Eligible(s)
           /\ v.perf[s.day] # NoRow /\ s.status = v.perf[s.day].status
  BY DEF Pv!EligibleUpTo, Pv!Samples

\* The first day of the samples is the day of one of them.
LEMMA FirstIsSample ==
    ASSUME NEW v, NEW until, Pv!EligibleUpTo(v, until) # {}
    PROVE  \E s \in Pv!EligibleUpTo(v, until) : s.day = Pv!FirstDay(Pv!EligibleUpTo(v, until))
  <1> DEFINE rows == Pv!EligibleUpTo(v, until)
             ds == {s.day : s \in rows}
  <1>1. ds \in SUBSET SolarDays /\ ds # {}
    BY SampleDays
  <1>2. \E d \in ds : \A e \in ds : d <= e
    BY <1>1, FirstOfDays
  <1>3. \E d \in ds : \A s \in rows : d <= s.day
    BY <1>2
  <1>4. Pv!FirstDay(rows) \in ds
    BY <1>3 DEF Pv!FirstDay
  <1> QED BY <1>4

\* calculate_seasonal_baseline: a baseline rests on its reference year.
LEMMA BaselineRests ==
    ASSUME NEW v, NEW d \in SolarDays, Pv!Baseline(v, d).refused = "no"
    PROVE  Pv!RestsOn(Pv!Baseline(v, d), d, v)
  <1> DEFINE rows == Pv!EligibleUpTo(v, d)
             first == Pv!FirstDay(rows)
             season == {s \in rows : Pv!InReference(s, first, d)}
             envelope == Pv!Envelope(rows, season)
             reference == Pv!MadFilter(Pv!ClearSky(season, envelope))
             later == Pv!MadFilter(Pv!ClearSky(
                 {s \in rows : s.day > Pv!ReferenceEnd(first) /\ Month[s.day] = Month[d]}, envelope))
             given == [refused |-> "no", first |-> first, envelope |-> envelope,
                       level |-> Pv!Median(reference),
                       status |-> Pv!Status(Pv!Median(later), Pv!Median(reference))]
             few == \/ Pv!Cardinality(reference) < MinReference
                    \/ Pv!Cardinality(later) < MinComparison
             fewer == Pv!Cardinality(season) < MinReference
  <1>1. Pv!Baseline(v, d) =
            IF rows = {} THEN Pv!Refused("no history")
            ELSE IF d <= Pv!ReferenceEnd(first) THEN Pv!Refused("year incomplete")
            ELSE IF fewer THEN Pv!Refused("few samples")
            ELSE IF few THEN Pv!Refused("few samples") ELSE given
    BY DEF Pv!Baseline
  <1>2. \A why \in {"no history", "year incomplete", "few samples"} : Pv!Refused(why).refused # "no"
    BY DEF Pv!Refused
  <1> HIDE DEF few, fewer, given, first, rows
  <1>3. rows # {} /\ ~(d <= Pv!ReferenceEnd(first)) /\ Pv!Baseline(v, d) = given
    BY <1>1, <1>2
  <1>4. first \in SolarDays
    BY <1>3, FirstIsSample, SampleDays DEF first, rows
  <1>5. Pv!ReferenceEnd(first) \in Nat /\ d \in Nat /\ Pv!ReferenceEnd(first) < d
    BY <1>3, <1>4, YearEnds, PvConstants
  <1>6. season = Pv!SeasonOf(v, first, Month[d])
    <2>1. \A s \in Pv!Samples(v, d) : s.day \in SolarDays
      BY DEF Pv!Samples
    <2>2. \A s : s \in Pv!Samples(v, d) /\ s.day <= Pv!ReferenceEnd(first)
                     <=> s \in Pv!Samples(v, Pv!ReferenceEnd(first))
      <3>1. \A e \in SolarDays : e <= Pv!ReferenceEnd(first) => e <= d
        BY <1>5, PvConstants
      <3> QED BY <3>1 DEF Pv!Samples
    <2> QED BY <2>2 DEF Pv!SeasonOf, Pv!EligibleUpTo, Pv!InReference, rows
  <1>7. given.first = first /\ given.level = Pv!Median(reference)
    BY DEF given
  <1>8. envelope = Pv!Envelope(season, season)
    BY DEF Pv!Envelope
  <1> QED BY <1>3, <1>4, <1>5, <1>6, <1>7, <1>8 DEF Pv!RestsOn, Pv!LevelOf

-----------------------------------------------------------------------------
(* What a pipeline of the analysis sees.                                     *)

PvSeen(table, of, written, day) ==
    \A e \in SolarDays : of[e] = IF e = day /\ written # <<>> THEN written[1] ELSE table[e]

PvView(r) ==
    /\ PvSeen(solar, Pv!Solar(r), run[r].mine.solar, run[r].day)
    /\ PvSeen(perf, Pv!Perf(r), run[r].mine.perf, run[r].day)
    /\ PvSeen(base, Pv!Base(r), run[r].mine.base, run[r].day)

\* A table with a row of one's own.
LEMMA WithSees ==
    ASSUME NEW r, NEW table, NEW written, DOMAIN table = SolarDays
    PROVE  /\ DOMAIN Pv!With(table, r, written) = SolarDays
           /\ PvSeen(table, Pv!With(table, r, written), written, run[r].day)
  <1>1. CASE written = <<>>
    BY <1>1 DEF Pv!With, PvSeen
  <1>2. CASE written # <<>>
    <2>1. Pv!With(table, r, written) = [table EXCEPT ![run[r].day] = written[1]]
      BY <1>2 DEF Pv!With
    <2> QED BY <1>2, <2>1 DEF PvSeen
  <1> QED BY <1>1, <1>2

\* A run sees its own row of its day, and what is committed.
LEMMA PvViews == Pv!TypeOK => \A r \in Pipelines : PvView(r)
  <1> SUFFICES ASSUME Pv!TypeOK, NEW r \in Pipelines PROVE PvView(r)
    OBVIOUS
  <1>1. DOMAIN solar = SolarDays /\ DOMAIN perf = SolarDays /\ DOMAIN base = SolarDays
    BY DEF Pv!TypeOK
  <1> QED BY <1>1, WithSees DEF PvView, Pv!Solar, Pv!Perf, Pv!Base

\* The same in the next state.
LEMMA PvViewsNext == (Pv!TypeOK => \A r \in Pipelines : PvView(r))'
  BY PvViews, PTL

\* One run is where the other is, and has written the same.
PvSame(x, y) ==
    /\ Pv!RunOK(x) /\ x.step = y.step /\ x.day = y.day /\ x.mine = y.mine
    /\ y = Pv!Idle => x = Pv!Idle

\* A pipeline that is not under way.
LEMMA IdleOK == Pv!RunOK(Pv!Idle) /\ Pv!Idle.step = "idle" /\ Pv!Idle.day = 0
                /\ Pv!Idle.mine = Pv!Untouched /\ Pv!Idle.quiet
  <1> DEFINE m == Pv!Untouched
             p == [sited |-> 0, kwp |-> 0]
  <1>1. m.solar = <<>> /\ m.perf = <<>> /\ m.base = <<>> /\ m.loss = <<>>
        /\ m \in [solar : {m.solar}, perf : {m.perf}, base : {m.base}, loss : {m.loss}]
    BY DEF Pv!Untouched
  <1>2. Pv!Idle = [step |-> "idle", day |-> 0, plant |-> p, quiet |-> TRUE, mine |-> m]
    BY DEF Pv!Idle
  <1>3. "idle" \in Pv!Steps
    BY DEF Pv!Steps
  <1> HIDE DEF m, p
  <1>4. Pv!Idle.step = "idle" /\ Pv!Idle.day = 0 /\ Pv!Idle.mine = m /\ Pv!Idle.quiet
        /\ Pv!Idle.plant = p
    BY <1>2
  <1>5. Pv!Idle \in [step : Pv!Steps, day : SolarDays \cup {0}, plant : Sites \cup {p},
                     quiet : BOOLEAN, mine : {m}]
    BY <1>2, <1>3
  <1> QED BY <1>1, <1>4, <1>5 DEF Pv!RunOK, m

\* Whatever changes under a run makes its baseline doubtful and nothing else.
LEMMA ShakenRuns ==
    ASSUME NEW xs, \A o \in Pipelines : Pv!RunOK(xs[o])
    PROVE  /\ DOMAIN Pv!Shaken(xs) = Pipelines
           /\ \A o \in Pipelines :
                 /\ PvSame(Pv!Shaken(xs)[o], xs[o])
                 /\ Pv!Shaken(xs)[o].quiet => xs[o] = Pv!Idle
  <1>1. ASSUME NEW o \in Pipelines
        PROVE  /\ PvSame(Pv!Shaken(xs)[o], xs[o])
               /\ Pv!Shaken(xs)[o].quiet => xs[o] = Pv!Idle
    <2>1. CASE xs[o] = Pv!Idle
      <3>1. Pv!Shaken(xs)[o] = Pv!Idle
        BY <2>1 DEF Pv!Shaken
      <3> QED BY <2>1, <3>1, IdleOK DEF PvSame
    <2>2. CASE xs[o] # Pv!Idle
      <3> DEFINE x == xs[o]
                 y == [x EXCEPT !.quiet = FALSE]
      <3>1. Pv!Shaken(xs)[o] = y
        BY <2>2 DEF Pv!Shaken
      <3>2. /\ x \in [step : Pv!Steps, day : SolarDays \cup {0},
                      plant : Sites \cup {Pv!Idle.plant}, quiet : BOOLEAN, mine : {x.mine}]
            /\ Pv!RunOK(x)
        BY DEF Pv!RunOK
      <3> HIDE DEF x
      <3>3. /\ y.step = x.step /\ y.day = x.day /\ y.mine = x.mine /\ ~y.quiet
            /\ y \in [step : Pv!Steps, day : SolarDays \cup {0},
                      plant : Sites \cup {Pv!Idle.plant}, quiet : BOOLEAN, mine : {x.mine}]
        BY <3>2
      <3> HIDE DEF y
      <3>4. Pv!RunOK(y)
        BY <3>2, <3>3 DEF Pv!RunOK
      <3> QED BY <2>2, <3>1, <3>3, <3>4 DEF PvSame, x
    <2> QED BY <2>1, <2>2
  <1> QED BY <1>1 DEF Pv!Shaken

\* The step of a calculation writes its row and moves on.
LEMMA CalculatedRun ==
    ASSUME Pv!TypeOK, NEW r \in Pipelines, NEW from, NEW to \in Pv!Steps, NEW m,
           Pv!Calculated(r, from, to, m),
           m \in [solar : {m.solar}, perf : {m.perf}, base : {m.base}, loss : {m.loss}],
           m.solar # <<>> => m.solar[1] \in Nat \ {0},
           m.perf # <<>> => m.perf[1] \in Pv!Performances
    PROVE  /\ run[r].step = from /\ run'[r].step = to /\ run'[r].mine = m
           /\ run'[r].day = run[r].day /\ run'[r].plant = run[r].plant
           /\ run'[r].quiet => run[r].quiet \/ from = "baseline"
           /\ \A o \in Pipelines : o # r => run'[o] = run[o]
           /\ UNCHANGED <<produced, solar, perf, base, loss, torn, touched>>
           /\ Pv!TypeOK'
  <1> DEFINE x == run[r]
             q == x.quiet \/ from = "baseline"
             y == [step |-> to, day |-> x.day, plant |-> x.plant, quiet |-> q, mine |-> m]
  <1>1. /\ run[r].step = from
        /\ run' = [run EXCEPT ![r].step = to, ![r].mine = m,
                              ![r].quiet = @ \/ from = "baseline"]
        /\ UNCHANGED <<plant, produced, solar, perf, base, loss, torn, touched, changes, starts>>
    BY DEF Pv!Calculated
  <1>2. /\ x \in [step : Pv!Steps, day : SolarDays \cup {0},
                  plant : Sites \cup {Pv!Idle.plant}, quiet : BOOLEAN, mine : {x.mine}]
        /\ DOMAIN run = Pipelines
    BY DEF Pv!TypeOK, Pv!RunOK
  <1>3. q \in BOOLEAN
    OBVIOUS
  <1>4. /\ run'[r].step = to /\ run'[r].mine = m /\ run'[r].day = x.day /\ run'[r].plant = x.plant
        /\ run'[r].quiet => q
        /\ run'[r] \in [step : Pv!Steps, day : SolarDays \cup {0},
                        plant : Sites \cup {Pv!Idle.plant}, quiet : BOOLEAN, mine : {m}]
    BY <1>1, <1>2
  <1>5. DOMAIN run' = Pipelines /\ \A o \in Pipelines : o # r => run'[o] = run[o]
    BY <1>1, <1>2
  <1>6. Pv!RunOK(run'[r])
    BY <1>4 DEF Pv!RunOK
  <1>7. \A o \in Pipelines : Pv!RunOK(run[o])'
    BY <1>5, <1>6 DEF Pv!TypeOK, Pv!RunOK
  <1>8. Pv!TypeOK'
    BY <1>1, <1>5, <1>7 DEF Pv!TypeOK
  <1> QED BY <1>1, <1>4, <1>5, <1>8

-----------------------------------------------------------------------------
(* Why the analysis keeps its invariant.                                     *)

\* A step that leaves the calculated tables and the runs alone.
LEMMA PvFrame ==
    ASSUME Pv!PvInv, UNCHANGED <<solar, perf, base, loss, run, torn, touched>>
    PROVE  Pv!RunsApart' /\ Pv!LossesAgree' /\ Pv!LevelsAgree'
  <1>1. Pv!RunsApart'
    BY DEF Pv!PvInv, Pv!RunsApart
  <1>2. Pv!LossesAgree'
    BY DEF Pv!PvInv, Pv!LossesAgree, Pv!Assessed, Pv!Explains, Pv!Perf, Pv!Base, Pv!With
  <1>3. Pv!Committed' = Pv!Committed
    BY DEF Pv!Committed
  <1>4. Pv!LevelsAgree'
    BY <1>3 DEF Pv!PvInv, Pv!LevelsAgree
  <1> QED BY <1>1, <1>2, <1>4

\* Runs that stay where they are stay apart.
LEMMA ApartKept ==
    ASSUME Pv!RunsApart, \A o \in Pipelines : PvSame(run'[o], run[o])
    PROVE  Pv!RunsApart'
  BY DEF Pv!RunsApart, PvSame

\* What is assessed of a run's day stays so while the rows of that day do.
LEMMA AssessedKept ==
    ASSUME Pv!TypeOK, Pv!TypeOK', NEW r \in Pipelines, Pv!Assessed(r), run[r].day \in SolarDays,
           run'[r].day = run[r].day, run'[r].mine = run[r].mine,
           perf'[run[r].day] = perf[run[r].day], base'[run[r].day] = base[run[r].day]
    PROVE  Pv!Assessed(r)'
  <1>1. PvView(r) /\ PvView(r)'
    BY PvViews, PvViewsNext
  <1>2. /\ Pv!Perf(r)[run[r].day] = Pv!Perf(r)'[run'[r].day]
        /\ Pv!Base(r)[run[r].day] = Pv!Base(r)'[run'[r].day]
    BY <1>1 DEF PvView, PvSeen
  <1> QED BY <1>2 DEF Pv!Assessed, Pv!Explains

\* A baseline that a change does not reach keeps its level.
LEMMA LevelsKept ==
    ASSUME Pv!PvInv,
           \A d \in SolarDays \ touched' :
               base'[d] # NoRow =>
                   /\ d \notin touched /\ base'[d] = base[d]
                   /\ \A e \in SolarDays : e <= Pv!ReferenceEnd(base[d].first) =>
                          perf'[e] = perf[e] /\ solar'[e] = solar[e],
           \A r \in Pipelines : run'[r].quiet => run'[r].mine.base = <<>>
    PROVE  Pv!LevelsAgree'
  <1> DEFINE v == Pv!Committed
             w == [solar |-> solar', perf |-> perf']
  <1>1. Pv!Committed' = w /\ v.solar = solar /\ v.perf = perf /\ w.solar = solar' /\ w.perf = perf'
    BY DEF Pv!Committed
  <1> HIDE DEF v, w
  <1>2. ASSUME NEW d \in SolarDays \ touched', base'[d] # NoRow
        PROVE  Pv!RestsOn(base'[d], d, w)
    <2>1. Pv!RestsOn(base[d], d, v)
      BY <1>2 DEF Pv!PvInv, Pv!LevelsAgree, v
    <2>2. Pv!RestsOn(base[d], d, w)
      BY <1>1, <1>2, <2>1, LevelAgrees
    <2> QED BY <1>2, <2>2
  <1> QED BY <1>1, <1>2 DEF Pv!LevelsAgree

\* The rows below the reference year of a baseline that does not rest on a day.
LEMMA RestsElsewhere ==
    ASSUME NEW d \in SolarDays, base[d] # NoRow, NEW e \in SolarDays, d \notin Pv!RestOn(e)
    PROVE  ~(e <= Pv!ReferenceEnd(base[d].first))
  BY DEF Pv!RestOn

\* A calculation wrote its row: what remains to be shown of it.
LEMMA CalculatedKeeps ==
    ASSUME Pv!PvInv, Pv!TypeOK', NEW r \in Pipelines, run[r].step # "idle", run'[r].step # "idle",
           run'[r].day = run[r].day,
           \A o \in Pipelines : o # r => run'[o] = run[o],
           UNCHANGED <<solar, perf, base, loss, torn, touched>>,
           run'[r].step # "commit" => run'[r].mine.loss = <<>>,
           run'[r].step = "commit" => Pv!Assessed(r)',
           run'[r].quiet /\ run'[r].mine.base # <<>> =>
               Pv!RestsOn(run'[r].mine.base[1], run[r].day, Pv!Committed)
    PROVE  Pv!PvInv'
  <1>1. Pv!RunsApart'
    <2>1. Pv!RunsApart /\ run[r].day \in SolarDays
      BY DEF Pv!PvInv, Pv!RunsApart
    <2>2. \A o \in Pipelines : run'[o].day = run[o].day
      OBVIOUS
    <2> QED BY <2>1, <2>2 DEF Pv!RunsApart
  <1>2. Pv!LossesAgree'
    <2>1. ASSUME NEW o \in Pipelines, run'[o].step = "commit" PROVE Pv!Assessed(o)'
      <3>1. CASE o = r
        BY <2>1, <3>1
      <3>2. CASE o # r
        <4>1. Pv!Assessed(o)
          BY <2>1, <3>2 DEF Pv!PvInv, Pv!LossesAgree
        <4> QED BY <3>2, <4>1
              DEF Pv!Assessed, Pv!Explains, Pv!Perf, Pv!Base, Pv!With
      <3> QED BY <3>1, <3>2
    <2> QED BY <2>1 DEF Pv!PvInv, Pv!LossesAgree, Pv!Explains
  <1>3. Pv!LevelsAgree'
    <2>1. Pv!Committed' = Pv!Committed
      BY DEF Pv!Committed
    <2> QED BY <2>1 DEF Pv!PvInv, Pv!LevelsAgree
  <1> QED BY <1>1, <1>2, <1>3 DEF Pv!PvInv

\* Collections and edits of the plant reach no run and nothing calculated.
LEMMA CollectPv ==
    ASSUME Pv!PvInv,
           \/ \E d \in SolarDays, x \in Readings : Pv!Collect(d, x)
           \/ \E p \in Sites : Pv!EditPlant(p)
    PROVE  Pv!PvInv'
  <1>1. UNCHANGED <<solar, perf, base, loss, run, torn, touched, starts>>
    BY DEF Pv!Collect, Pv!EditPlant
  <1>2. Pv!TypeOK
    BY DEF Pv!PvInv
  <1>3. changes' \in 0 .. MaxChanges
    BY <1>2, PvConstants DEF Pv!Collect, Pv!EditPlant, Pv!Changed, Pv!TypeOK
  <1>4. plant' \in Sites /\ produced' \in [SolarDays -> Readings \cup {NoRow}]
    <2>1. CASE \E d \in SolarDays, x \in Readings : Pv!Collect(d, x)
      BY <1>2, <2>1 DEF Pv!Collect, Pv!TypeOK
    <2>2. CASE \E p \in Sites : Pv!EditPlant(p)
      BY <1>2, <2>2 DEF Pv!EditPlant, Pv!TypeOK
    <2> QED BY <2>1, <2>2
  <1>5. Pv!TypeOK'
    BY <1>1, <1>2, <1>3, <1>4 DEF Pv!TypeOK, Pv!RunOK
  <1> QED BY <1>1, <1>5, PvFrame DEF Pv!PvInv

\* A chunk of history shakes the baselines that rest on its days.
LEMMA FetchHistoryPv ==
    ASSUME Pv!PvInv, NEW ds \in (SUBSET SolarDays) \ {{}}, NEW ghi \in Irradiations,
           Pv!FetchHistory(ds, ghi)
    PROVE  Pv!PvInv'
  <1>0. Pv!TypeOK /\ Pv!RunsApart /\ Pv!LossesAgree /\ \A o \in Pipelines : Pv!RunOK(run[o])
    BY DEF Pv!PvInv, Pv!TypeOK
  <1>1. /\ changes < MaxChanges /\ changes' = changes + 1 /\ plant.sited > 0 /\ ghi > 0
        /\ solar' = [d \in SolarDays |-> IF d \in ds THEN Pv!Projected(ghi, plant.sited) ELSE solar[d]]
        /\ touched' = touched \cup UNION {Pv!RestOn(d) : d \in ds}
        /\ run' = Pv!Shaken(run)
        /\ UNCHANGED <<plant, produced, perf, base, loss, torn, starts>>
    BY DEF Pv!FetchHistory, Pv!Changed
  <1>2. Pv!Projected(ghi, plant.sited) \in Nat \ {0}
    <2>1. PICK s \in Nat \ {0} : s = plant.sited
      BY <1>0, <1>1, PvConstants DEF Pv!TypeOK
    <2>2. PICK g \in Nat \ {0} : g = ghi
      BY <1>1, PvConstants
    <2>3. g * s \in Nat \ {0}
      OBVIOUS
    <2> QED BY <2>1, <2>2, <2>3 DEF Pv!Projected
  <1>3. solar' \in [SolarDays -> (Nat \ {0}) \cup {NoRow}]
    BY <1>0, <1>1, <1>2 DEF Pv!TypeOK
  <1>4. touched' \subseteq SolarDays
    BY <1>0, <1>1 DEF Pv!TypeOK, Pv!RestOn
  <1>5. /\ DOMAIN run' = Pipelines
        /\ \A o \in Pipelines : PvSame(run'[o], run[o]) /\ (run'[o].quiet => run[o] = Pv!Idle)
    BY <1>0, <1>1, ShakenRuns
  <1>6. changes' \in 0 .. MaxChanges
    BY <1>0, <1>1, PvConstants DEF Pv!TypeOK
  <1>7. Pv!TypeOK'
    <2>1. \A o \in Pipelines : Pv!RunOK(run'[o])
      BY <1>5 DEF PvSame
    <2>2. \A o \in Pipelines : Pv!RunOK(run[o])'
      BY <2>1 DEF Pv!RunOK
    <2> QED BY <1>0, <1>1, <1>3, <1>4, <1>5, <1>6, <2>2 DEF Pv!TypeOK
  <1>8. Pv!RunsApart'
    BY <1>0, <1>5, ApartKept
  <1>9. Pv!LossesAgree'
    <2>1. ASSUME NEW o \in Pipelines, run'[o].step = "commit" PROVE Pv!Assessed(o)'
      <3>1. /\ run[o].step = "commit" /\ run'[o].day = run[o].day /\ run'[o].mine = run[o].mine
            /\ run[o].day \in SolarDays /\ Pv!Assessed(o)
        BY <1>0, <1>5, <2>1 DEF PvSame, Pv!RunsApart, Pv!LossesAgree
      <3> QED BY <1>0, <1>1, <1>7, <3>1, AssessedKept
    <2> QED BY <1>0, <1>1, <2>1 DEF Pv!LossesAgree, Pv!Explains
  <1>10. Pv!LevelsAgree'
    <2>1. ASSUME NEW d \in SolarDays \ touched', base'[d] # NoRow
          PROVE  /\ d \notin touched /\ base'[d] = base[d]
                 /\ \A e \in SolarDays : e <= Pv!ReferenceEnd(base[d].first) =>
                        perf'[e] = perf[e] /\ solar'[e] = solar[e]
      <3>1. d \notin touched /\ base'[d] = base[d] /\ \A e \in ds : d \notin Pv!RestOn(e)
        BY <1>1, <2>1
      <3>2. \A e \in SolarDays : e <= Pv!ReferenceEnd(base[d].first) => e \notin ds
        BY <2>1, <3>1, RestsElsewhere
      <3> QED BY <1>1, <3>1, <3>2
    <2>2. \A o \in Pipelines : run'[o].quiet => run'[o].mine.base = <<>>
      BY <1>5, IdleOK DEF PvSame, Pv!Untouched
    <2> QED BY <2>1, <2>2, LevelsKept
  <1> QED BY <1>7, <1>8, <1>9, <1>10 DEF Pv!PvInv

\* What the retention removes, it removes with what rests on it.
LEMMA PurgePv ==
    ASSUME Pv!PvInv, NEW f \in SolarDays, NEW c \in SolarDays, Pv!Purge(f, c)
    PROVE  Pv!PvInv'
  <1>0. Pv!TypeOK /\ Pv!RunsApart /\ Pv!LossesAgree /\ \A o \in Pipelines : Pv!RunOK(run[o])
    BY DEF Pv!PvInv, Pv!TypeOK
  <1>1. /\ changes < MaxChanges /\ changes' = changes + 1
        /\ \A o \in Pipelines : run[o].day < c => run[o].mine = Pv!Untouched
        /\ produced' = Pv!Kept(produced, f)
        /\ solar' = Pv!Kept(solar, c) /\ perf' = Pv!Kept(perf, c)
        /\ base' = Pv!Kept(base, c) /\ loss' = Pv!Kept(loss, c)
        /\ touched' = touched \cup UNION {Pv!RestOn(d) : d \in {d \in SolarDays : d < c}}
        /\ run' = Pv!Shaken(run)
        /\ UNCHANGED <<plant, torn, starts>>
    BY DEF Pv!Purge, Pv!Changed
  <1>2. ASSUME NEW table, NEW cutoff
        PROVE  /\ DOMAIN Pv!Kept(table, cutoff) = SolarDays
               /\ \A d \in SolarDays :
                     Pv!Kept(table, cutoff)[d] = IF d < cutoff THEN NoRow ELSE table[d]
    BY DEF Pv!Kept
  <1>3. /\ produced' \in [SolarDays -> Readings \cup {NoRow}]
        /\ solar' \in [SolarDays -> (Nat \ {0}) \cup {NoRow}]
        /\ perf' \in [SolarDays -> Pv!Performances \cup {NoRow}]
        /\ DOMAIN base' = SolarDays /\ DOMAIN loss' = SolarDays
    BY <1>0, <1>1, <1>2 DEF Pv!TypeOK, Pv!Kept
  <1>4. touched' \subseteq SolarDays
    BY <1>0, <1>1 DEF Pv!TypeOK, Pv!RestOn
  <1>5. /\ DOMAIN run' = Pipelines
        /\ \A o \in Pipelines : PvSame(run'[o], run[o]) /\ (run'[o].quiet => run[o] = Pv!Idle)
    BY <1>0, <1>1, ShakenRuns
  <1>6. changes' \in 0 .. MaxChanges
    BY <1>0, <1>1, PvConstants DEF Pv!TypeOK
  <1>7. Pv!TypeOK'
    <2>1. \A o \in Pipelines : Pv!RunOK(run'[o])
      BY <1>5 DEF PvSame
    <2>2. \A o \in Pipelines : Pv!RunOK(run[o])'
      BY <2>1 DEF Pv!RunOK
    <2> QED BY <1>0, <1>1, <1>3, <1>4, <1>5, <1>6, <2>2 DEF Pv!TypeOK
  <1>8. Pv!RunsApart'
    BY <1>0, <1>5, ApartKept
  <1>9. ASSUME NEW d \in SolarDays
        PROVE  /\ d < c => perf'[d] = NoRow /\ base'[d] = NoRow /\ loss'[d] = NoRow
               /\ ~(d < c) => perf'[d] = perf[d] /\ base'[d] = base[d] /\ loss'[d] = loss[d]
                              /\ solar'[d] = solar[d]
    BY <1>1, <1>2
  <1>10. Pv!LossesAgree'
    <2>1. ASSUME NEW o \in Pipelines, run'[o].step = "commit" PROVE Pv!Assessed(o)'
      <3>1. /\ run[o].step = "commit" /\ run'[o].day = run[o].day /\ run'[o].mine = run[o].mine
            /\ run[o].day \in SolarDays /\ Pv!Assessed(o)
        BY <1>0, <1>5, <2>1 DEF PvSame, Pv!RunsApart, Pv!LossesAgree
      <3>2. CASE ~(run[o].day < c)
        BY <1>0, <1>7, <1>9, <3>1, <3>2, AssessedKept
      <3>3. CASE run[o].day < c
        <4>1. run'[o].mine.perf = <<>> /\ run'[o].mine.loss = <<>>
          BY <1>1, <3>1, <3>3 DEF Pv!Untouched
        <4>2. Pv!Perf(o)'[run'[o].day] = NoRow
          BY <1>7, <1>9, <3>1, <3>3, <4>1, PvViewsNext DEF PvView, PvSeen
        <4> QED BY <4>1, <4>2 DEF Pv!Assessed
      <3> QED BY <3>2, <3>3
    <2>2. \A d \in SolarDays : perf'[d] = NoRow => loss'[d] = NoRow
      BY <1>0, <1>9 DEF Pv!LossesAgree
    <2>3. ASSUME NEW d \in SolarDays \ torn', loss'[d] # NoRow
          PROVE  Pv!Explains(loss'[d], perf'[d], base'[d])
      BY <1>0, <1>1, <1>9, <2>3 DEF Pv!LossesAgree
    <2> QED BY <2>1, <2>2, <2>3 DEF Pv!LossesAgree, Pv!Explains
  <1>11. Pv!LevelsAgree'
    <2>1. ASSUME NEW d \in SolarDays \ touched', base'[d] # NoRow
          PROVE  /\ d \notin touched /\ base'[d] = base[d]
                 /\ \A e \in SolarDays : e <= Pv!ReferenceEnd(base[d].first) =>
                        perf'[e] = perf[e] /\ solar'[e] = solar[e]
      <3>1. /\ d \notin touched /\ base'[d] = base[d]
            /\ \A e \in SolarDays : e < c => d \notin Pv!RestOn(e)
        BY <1>1, <1>9, <2>1
      <3>2. \A e \in SolarDays : e <= Pv!ReferenceEnd(base[d].first) => ~(e < c)
        BY <2>1, <3>1, RestsElsewhere
      <3> QED BY <1>9, <3>1, <3>2
    <2>2. \A o \in Pipelines : run'[o].quiet => run'[o].mine.base = <<>>
      BY <1>5, IdleOK DEF PvSame, Pv!Untouched
    <2> QED BY <2>1, <2>2, LevelsKept
  <1> QED BY <1>7, <1>8, <1>10, <1>11 DEF Pv!PvInv

\* A pipeline starts on a day no other one is at.
LEMMA StartPv ==
    ASSUME Pv!PvInv, NEW r \in Pipelines, NEW d \in SolarDays, Pv!Start(r, d)
    PROVE  Pv!PvInv'
  <1> DEFINE x == [step |-> "climate", day |-> d, plant |-> plant, quiet |-> TRUE,
                   mine |-> Pv!Untouched]
  <1>0. Pv!TypeOK /\ Pv!RunsApart /\ Pv!LossesAgree /\ Pv!LevelsAgree
    BY DEF Pv!PvInv
  <1>1. /\ starts < MaxStarts /\ starts' = starts + 1
        /\ run[r].step = "idle" /\ \A o \in Pipelines : run[o].day # d
        /\ run' = [run EXCEPT ![r] = x]
        /\ UNCHANGED <<plant, produced, solar, perf, base, loss, torn, touched, changes>>
    BY DEF Pv!Start
  <1>2. /\ x.step = "climate" /\ x.day = d /\ x.mine = Pv!Untouched
        /\ Pv!Untouched.loss = <<>> /\ Pv!Untouched.base = <<>>
    BY DEF Pv!Untouched
  <1>3. Pv!RunOK(x)
    <2>1. "climate" \in Pv!Steps /\ plant \in Sites
      BY <1>0 DEF Pv!Steps, Pv!TypeOK
    <2>2. x \in [step : Pv!Steps, day : SolarDays \cup {0}, plant : Sites \cup {Pv!Idle.plant},
                 quiet : BOOLEAN, mine : {Pv!Untouched}]
      BY <2>1
    <2> HIDE DEF x
    <2> QED BY <1>2, <2>2, IdleOK DEF Pv!RunOK
  <1> HIDE DEF x
  <1>4. /\ DOMAIN run' = Pipelines /\ run'[r] = x
        /\ \A o \in Pipelines : o # r => run'[o] = run[o]
    BY <1>0, <1>1 DEF Pv!TypeOK
  <1>5. Pv!TypeOK'
    <2>1. \A o \in Pipelines : Pv!RunOK(run'[o])
      BY <1>0, <1>3, <1>4 DEF Pv!TypeOK
    <2>2. \A o \in Pipelines : Pv!RunOK(run[o])'
      BY <2>1 DEF Pv!RunOK
    <2>3. starts' \in 0 .. MaxStarts
      BY <1>0, <1>1, PvConstants DEF Pv!TypeOK
    <2> QED BY <1>0, <1>1, <1>4, <2>2, <2>3 DEF Pv!TypeOK
  <1>6. Pv!RunsApart'
    BY <1>0, <1>1, <1>2, <1>4 DEF Pv!RunsApart
  <1>7. Pv!LossesAgree'
    <2>1. ASSUME NEW o \in Pipelines, run'[o].step = "commit" PROVE Pv!Assessed(o)'
      <3>1. o # r /\ run'[o] = run[o]
        BY <1>2, <1>4, <2>1
      <3>2. run[o].day \in SolarDays /\ Pv!Assessed(o)
        BY <1>0, <2>1, <3>1 DEF Pv!RunsApart, Pv!LossesAgree
      <3> QED BY <1>0, <1>1, <1>5, <3>1, <3>2, AssessedKept
    <2> QED BY <1>0, <1>1, <2>1 DEF Pv!LossesAgree, Pv!Explains
  <1>8. Pv!LevelsAgree'
    <2>1. Pv!Committed' = Pv!Committed
      BY <1>1 DEF Pv!Committed
    <2> QED BY <1>0, <1>1, <1>2, <1>4, <2>1 DEF Pv!LevelsAgree
  <1> QED BY <1>5, <1>6, <1>7, <1>8 DEF Pv!PvInv

\* What a run has written keeps its types when one row is added.
LEMMA WrittenRow ==
    ASSUME NEW m, m \in [solar : {m.solar}, perf : {m.perf}, base : {m.base}, loss : {m.loss}],
           NEW x
    PROVE  /\ [m EXCEPT !.solar = x] = [solar |-> x, perf |-> m.perf, base |-> m.base, loss |-> m.loss]
           /\ [m EXCEPT !.perf = x] = [solar |-> m.solar, perf |-> x, base |-> m.base, loss |-> m.loss]
           /\ [m EXCEPT !.base = x] = [solar |-> m.solar, perf |-> m.perf, base |-> x, loss |-> m.loss]
           /\ [m EXCEPT !.loss = x] = [solar |-> m.solar, perf |-> m.perf, base |-> m.base, loss |-> x]
  OBVIOUS

\* calculate_daily_performance gives a row of performance.
LEMMA PerformanceRow ==
    ASSUME NEW x \in Readings, NEW kwp \in Nat \ {0}, NEW poa \in Nat \ {0}
    PROVE  Pv!Performance(x, kwp, poa) \in Pv!Performances
  <1>1. PICK k \in Nat \ {0} : k = kwp * poa
    OBVIOUS
  <1>2. x.kwh \in Nat /\ x.status \in STRING
    BY PvConstants
  <1>3. PICK e \in Nat : e = 60 * x.kwh
    BY <1>2
  <1>4. e \div k \in Nat
    OBVIOUS
  <1> QED BY <1>1, <1>2, <1>3, <1>4 DEF Pv!Performance, Pv!Performances

\* The four calculations.
LEMMA CalculatePv ==
    ASSUME Pv!PvInv, NEW r \in Pipelines,
           \/ \E ghi \in Irradiations : Pv!Climate(r, ghi)
           \/ Pv!Measure(r) \/ Pv!Compare(r) \/ Pv!Classify(r)
    PROVE  Pv!PvInv'
  <1> DEFINE m == run[r].mine
             d == run[r].day
  <1>0. Pv!TypeOK /\ Pv!RunsApart /\ Pv!LossesAgree /\ Pv!LevelsAgree /\ Pv!RunOK(run[r])
        /\ PvView(r)
    BY PvViews DEF Pv!PvInv, Pv!TypeOK
  <1>1. /\ m \in [solar : {m.solar}, perf : {m.perf}, base : {m.base}, loss : {m.loss}]
        /\ m.solar # <<>> => m.solar[1] \in Nat \ {0}
        /\ m.perf # <<>> => m.perf[1] \in Pv!Performances
        /\ run[r].plant \in Sites \cup {Pv!Idle.plant}
    BY <1>0 DEF Pv!RunOK
  <1>2. run[r].step # "idle" => d \in SolarDays
    BY <1>0 DEF Pv!RunsApart
  <1>3. {"performance", "baseline", "losses", "commit"} \subseteq Pv!Steps
    BY DEF Pv!Steps
  <1>4. run[r].step # "commit" => m.loss = <<>>
    BY <1>0 DEF Pv!RunsApart
  <1>5. run[r].quiet /\ m.base # <<>> => Pv!RestsOn(m.base[1], d, Pv!Committed)
    BY <1>0 DEF Pv!LevelsAgree
  <1>6. /\ \A n \in Nat : <<n>> # <<>> /\ <<n>>[1] = n
        /\ \A row : <<row>> # <<>> /\ <<row>>[1] = row
    OBVIOUS
  <1>7. ASSUME NEW ghi \in Irradiations, Pv!Climate(r, ghi) PROVE Pv!PvInv'
    <2> DEFINE x == IF ghi = 0 THEN <<>> ELSE <<Pv!Projected(ghi, run[r].plant.sited)>>
               w == [m EXCEPT !.solar = x]
    <2>1. run[r].plant.sited > 0 /\ Pv!Calculated(r, "climate", "performance", w)
      BY <1>7 DEF Pv!Climate
    <2>2. x # <<>> => x[1] \in Nat \ {0}
      <3>1. CASE ghi = 0
        BY <3>1
      <3>2. CASE ghi # 0
        <4>1. PICK g \in Nat \ {0} : g = ghi
          BY <3>2, PvConstants
        <4>2. PICK s \in Nat \ {0} : s = run[r].plant.sited
          BY <1>1, <2>1, PvConstants DEF Pv!Idle
        <4>3. g * s \in Nat \ {0}
          OBVIOUS
        <4> QED BY <3>2, <4>1, <4>2, <4>3 DEF Pv!Projected
      <3> QED BY <3>1, <3>2
    <2> HIDE DEF m, x
    <2>3. w = [solar |-> x, perf |-> m.perf, base |-> m.base, loss |-> m.loss]
      BY <1>1, WrittenRow
    <2> HIDE DEF w
    <2>4. /\ w \in [solar : {w.solar}, perf : {w.perf}, base : {w.base}, loss : {w.loss}]
          /\ w.solar = x /\ w.perf = m.perf /\ w.base = m.base /\ w.loss = m.loss
      BY <2>3
    <2>5. /\ run[r].step = "climate" /\ run'[r].step = "performance" /\ run'[r].mine = w
          /\ run'[r].day = run[r].day
          /\ run'[r].quiet => run[r].quiet
          /\ \A o \in Pipelines : o # r => run'[o] = run[o]
          /\ UNCHANGED <<produced, solar, perf, base, loss, torn, touched>>
          /\ Pv!TypeOK'
      <3>1. w.solar # <<>> => w.solar[1] \in Nat \ {0}
        BY <2>2, <2>4
      <3>2. w.perf # <<>> => w.perf[1] \in Pv!Performances
        BY <1>1, <2>4
      <3>3. Pv!Calculated(r, "climate", "performance", w) /\ "performance" \in Pv!Steps
        BY <1>3, <2>1
      <3> QED BY <1>0, <2>4, <3>1, <3>2, <3>3, CalculatedRun
    <2> QED BY <1>4, <1>5, <2>4, <2>5, CalculatedKeeps
  <1>8. CASE Pv!Measure(r)
    <2> DEFINE x == IF run[r].plant.kwp = 0 \/ Pv!Solar(r)[d] = NoRow \/ produced[d] = NoRow
                    THEN <<>> ELSE <<Pv!Performance(produced[d], run[r].plant.kwp, Pv!Solar(r)[d])>>
               w == [m EXCEPT !.perf = x]
    <2>1. Pv!Calculated(r, "performance", "baseline", w)
      BY <1>8 DEF Pv!Measure
    <2>2. run[r].step = "performance" /\ d \in SolarDays
      BY <1>2, <2>1 DEF Pv!Calculated
    <2>3. x # <<>> => x[1] \in Pv!Performances
      <3>1. CASE run[r].plant.kwp = 0 \/ Pv!Solar(r)[d] = NoRow \/ produced[d] = NoRow
        BY <3>1
      <3>2. CASE ~(run[r].plant.kwp = 0 \/ Pv!Solar(r)[d] = NoRow \/ produced[d] = NoRow)
        <4>1. produced[d] \in Readings
          BY <1>0, <2>2, <3>2 DEF Pv!TypeOK
        <4>2. run[r].plant.kwp \in Nat \ {0}
          BY <1>1, <3>2, PvConstants DEF Pv!Idle
        <4>3. Pv!Solar(r)[d] \in Nat \ {0}
          BY <1>0, <1>1, <2>2, <3>2 DEF PvView, PvSeen, Pv!TypeOK
        <4> QED BY <1>6, <3>2, <4>1, <4>2, <4>3, PerformanceRow
      <3> QED BY <3>1, <3>2
    <2> HIDE DEF m, x
    <2>4. w = [solar |-> m.solar, perf |-> x, base |-> m.base, loss |-> m.loss]
      BY <1>1, WrittenRow
    <2> HIDE DEF w
    <2>5. /\ w \in [solar : {w.solar}, perf : {w.perf}, base : {w.base}, loss : {w.loss}]
          /\ w.solar = m.solar /\ w.perf = x /\ w.base = m.base /\ w.loss = m.loss
      BY <2>4
    <2>6. /\ run[r].step = "performance" /\ run'[r].step = "baseline" /\ run'[r].mine = w
          /\ run'[r].day = run[r].day
          /\ run'[r].quiet => run[r].quiet
          /\ \A o \in Pipelines : o # r => run'[o] = run[o]
          /\ UNCHANGED <<produced, solar, perf, base, loss, torn, touched>>
          /\ Pv!TypeOK'
      BY <1>0, <1>1, <1>3, <2>1, <2>3, <2>5, CalculatedRun
    <2> QED BY <1>4, <1>5, <2>5, <2>6, CalculatedKeeps
  <1>9. CASE Pv!Compare(r)
    <2> DEFINE v == [solar |-> Pv!Solar(r), perf |-> Pv!Perf(r)]
               b == Pv!Baseline(v, d)
               x == IF b.refused = "no" THEN <<b>> ELSE <<>>
               w == [m EXCEPT !.base = x]
    <2>1. Pv!Calculated(r, "baseline", "losses", w)
      BY <1>9 DEF Pv!Compare
    <2>2. run[r].step = "baseline" /\ d \in SolarDays
      BY <1>2, <2>1 DEF Pv!Calculated
    <2>3. v.solar = Pv!Solar(r) /\ v.perf = Pv!Perf(r)
      OBVIOUS
    <2> HIDE DEF v, b
    <2>4. x # <<>> => x[1] = b /\ b.refused = "no"
      OBVIOUS
    <2> HIDE DEF m, x
    <2>5. x # <<>> => Pv!RestsOn(x[1], d, Pv!Committed)
      <3> SUFFICES ASSUME x # <<>> PROVE Pv!RestsOn(b, d, Pv!Committed)
        BY <2>4
      <3>1. Pv!RestsOn(b, d, v)
        BY <2>2, <2>4, BaselineRests DEF b
      <3>2. b.first \in SolarDays /\ Pv!ReferenceEnd(b.first) < d
        BY <3>1 DEF Pv!RestsOn
      <3>3. \A e \in SolarDays : e <= Pv!ReferenceEnd(b.first) => e # d
        <4>1. Pv!ReferenceEnd(b.first) \in Nat
          BY <3>2, YearEnds
        <4>2. d \in Nat /\ SolarDays \subseteq Nat
          BY <2>2, PvConstants
        <4> QED BY <3>2, <4>1, <4>2
      <3>4. Pv!Committed.solar = solar /\ Pv!Committed.perf = perf
        BY DEF Pv!Committed
      <3>5. \A e \in SolarDays : e <= Pv!ReferenceEnd(b.first) =>
                v.perf[e] = Pv!Committed.perf[e] /\ v.solar[e] = Pv!Committed.solar[e]
        BY <1>0, <2>3, <3>3, <3>4 DEF PvView, PvSeen
      <3> QED BY <3>1, <3>5, LevelAgrees
    <2>6. w = [solar |-> m.solar, perf |-> m.perf, base |-> x, loss |-> m.loss]
      BY <1>1, WrittenRow
    <2> HIDE DEF w
    <2>7. /\ w \in [solar : {w.solar}, perf : {w.perf}, base : {w.base}, loss : {w.loss}]
          /\ w.solar = m.solar /\ w.perf = m.perf /\ w.base = x /\ w.loss = m.loss
      BY <2>6
    <2>8. /\ run[r].step = "baseline" /\ run'[r].step = "losses" /\ run'[r].mine = w
          /\ run'[r].day = run[r].day
          /\ \A o \in Pipelines : o # r => run'[o] = run[o]
          /\ UNCHANGED <<produced, solar, perf, base, loss, torn, touched>>
          /\ Pv!TypeOK'
      BY <1>0, <1>1, <1>3, <2>1, <2>7, CalculatedRun
    <2> QED BY <1>4, <2>5, <2>7, <2>8, CalculatedKeeps
  <1>10. CASE Pv!Classify(r)
    <2> DEFINE x == IF Pv!Perf(r)[d] = NoRow THEN <<>>
                    ELSE <<Pv!Losses(Pv!Perf(r)[d], Pv!Base(r)[d], loss[d])>>
               w == [m EXCEPT !.loss = x]
    <2>1. Pv!Calculated(r, "losses", "commit", w)
      BY <1>10 DEF Pv!Classify
    <2>2. run[r].step = "losses" /\ d \in SolarDays
      BY <1>2, <2>1 DEF Pv!Calculated
    <2>3. /\ Pv!Perf(r)[d] = NoRow => x = <<>>
          /\ Pv!Perf(r)[d] # NoRow =>
                x # <<>> /\ Pv!Explains(x[1], Pv!Perf(r)[d], Pv!Base(r)[d])
      BY DEF Pv!Losses, Pv!Explains
    <2> HIDE DEF m, x
    <2>4. w = [solar |-> m.solar, perf |-> m.perf, base |-> m.base, loss |-> x]
      BY <1>1, WrittenRow
    <2> HIDE DEF w
    <2>5. /\ w \in [solar : {w.solar}, perf : {w.perf}, base : {w.base}, loss : {w.loss}]
          /\ w.solar = m.solar /\ w.perf = m.perf /\ w.base = m.base /\ w.loss = x
      BY <2>4
    <2>6. /\ run[r].step = "losses" /\ run'[r].step = "commit" /\ run'[r].mine = w
          /\ run'[r].day = run[r].day
          /\ run'[r].quiet => run[r].quiet
          /\ \A o \in Pipelines : o # r => run'[o] = run[o]
          /\ UNCHANGED <<produced, solar, perf, base, loss, torn, touched>>
          /\ Pv!TypeOK'
      <3>1. w.solar # <<>> => w.solar[1] \in Nat \ {0}
        BY <1>1, <2>5
      <3>2. w.perf # <<>> => w.perf[1] \in Pv!Performances
        BY <1>1, <2>5
      <3>3. Pv!Calculated(r, "losses", "commit", w) /\ "commit" \in Pv!Steps
        BY <1>3, <2>1
      <3> QED BY <1>0, <2>5, <3>1, <3>2, <3>3, CalculatedRun
    <2>7. Pv!Perf(r)'[d] = Pv!Perf(r)[d] /\ Pv!Base(r)'[d] = Pv!Base(r)[d]
      BY <2>5, <2>6 DEF Pv!Perf, Pv!Base, Pv!With, m
    <2>8. Pv!Assessed(r)'
      BY <2>3, <2>5, <2>6, <2>7 DEF Pv!Assessed, Pv!Explains
    <2> QED BY <1>5, <2>5, <2>6, <2>8, CalculatedKeeps
  <1> QED BY <1>7, <1>8, <1>9, <1>10

\* A run that ends is idle again, and its day is nobody's.
LEMMA EndedRuns ==
    ASSUME Pv!TypeOK, NEW r \in Pipelines
    PROVE  /\ DOMAIN [run EXCEPT ![r] = Pv!Idle] = Pipelines
           /\ [run EXCEPT ![r] = Pv!Idle][r] = Pv!Idle
           /\ \A o \in Pipelines : Pv!RunOK([run EXCEPT ![r] = Pv!Idle][o])
           /\ \A o \in Pipelines : o # r => [run EXCEPT ![r] = Pv!Idle][o] = run[o]
  BY IdleOK DEF Pv!TypeOK

\* The others stay apart from a run that ends.
LEMMA EndedApart ==
    ASSUME Pv!RunsApart, NEW r \in Pipelines, PvSame(run'[r], Pv!Idle),
           \A o \in Pipelines : o # r => PvSame(run'[o], run[o])
    PROVE  Pv!RunsApart'
  <1>1. run'[r] = Pv!Idle /\ run'[r].day = 0
    BY IdleOK DEF PvSame
  <1>2. \A d \in SolarDays : d # 0
    BY PvConstants
  <1> QED BY <1>1, <1>2, IdleOK DEF Pv!RunsApart, PvSame, Pv!Untouched

\* What was not committed is gone.
LEMMA RollBackPv ==
    ASSUME Pv!PvInv, NEW r \in Pipelines, Pv!RollBack(r)
    PROVE  Pv!PvInv'
  <1>0. Pv!TypeOK /\ Pv!RunsApart /\ Pv!LossesAgree /\ Pv!LevelsAgree
    BY DEF Pv!PvInv
  <1>1. /\ changes < MaxChanges /\ changes' = changes + 1
        /\ run' = [run EXCEPT ![r] = Pv!Idle]
        /\ UNCHANGED <<plant, produced, solar, perf, base, loss, torn, touched, starts>>
    BY DEF Pv!RollBack, Pv!Changed
  <1>2. /\ DOMAIN run' = Pipelines /\ run'[r] = Pv!Idle
        /\ \A o \in Pipelines : Pv!RunOK(run'[o])
        /\ \A o \in Pipelines : o # r => run'[o] = run[o]
    BY <1>0, <1>1, EndedRuns
  <1>3. Pv!TypeOK'
    <2>1. \A o \in Pipelines : Pv!RunOK(run[o])'
      BY <1>2 DEF Pv!RunOK
    <2>2. changes' \in 0 .. MaxChanges
      BY <1>0, <1>1, PvConstants DEF Pv!TypeOK
    <2> QED BY <1>0, <1>1, <1>2, <2>1, <2>2 DEF Pv!TypeOK
  <1>4. Pv!RunsApart'
    BY <1>0, <1>2, EndedApart DEF PvSame
  <1>5. Pv!LossesAgree'
    <2>1. ASSUME NEW o \in Pipelines, run'[o].step = "commit" PROVE Pv!Assessed(o)'
      <3>1. o # r /\ run'[o] = run[o]
        BY <1>2, <2>1, IdleOK
      <3>2. run[o].day \in SolarDays /\ Pv!Assessed(o)
        BY <1>0, <2>1, <3>1 DEF Pv!RunsApart, Pv!LossesAgree
      <3> QED BY <1>0, <1>1, <1>3, <3>1, <3>2, AssessedKept
    <2> QED BY <1>0, <1>1, <2>1 DEF Pv!LossesAgree, Pv!Explains
  <1>6. Pv!LevelsAgree'
    <2>1. Pv!Committed' = Pv!Committed
      BY <1>1 DEF Pv!Committed
    <2> QED BY <1>0, <1>1, <1>2, <2>1, IdleOK DEF Pv!LevelsAgree, Pv!Untouched
  <1> QED BY <1>3, <1>4, <1>5, <1>6 DEF Pv!PvInv

\* A finished run, or the job of a failed one, makes its rows visible.
LEMMA CommitPv ==
    ASSUME Pv!PvInv, NEW r \in Pipelines, Pv!Finish(r) \/ Pv!FailJob(r)
    PROVE  Pv!PvInv'
  <1> DEFINE d == run[r].day
             m == run[r].mine
             ended == [run EXCEPT ![r] = Pv!Idle]
             before == IF m.base = <<>> THEN touched
                       ELSE IF run[r].quiet THEN touched \ {d} ELSE touched \cup {d}
  <1>0. /\ Pv!TypeOK /\ Pv!RunsApart /\ Pv!LossesAgree /\ Pv!LevelsAgree
        /\ PvView(r) /\ Pv!RunOK(run[r])
    BY PvViews DEF Pv!PvInv, Pv!TypeOK
  <1>1. /\ Pv!Commit(r) /\ run[r].step # "idle"
        /\ run[r].step # "commit" => m.loss = <<>>
    BY <1>0 DEF Pv!Finish, Pv!FailJob, Pv!RunsApart
  <1>2. changes' \in 0 .. MaxChanges
    BY <1>0, PvConstants DEF Pv!TypeOK, Pv!Finish, Pv!FailJob, Pv!Changed
  <1>3. /\ solar' = Pv!Solar(r) /\ perf' = Pv!Perf(r) /\ base' = Pv!Base(r)
        /\ loss' = Pv!With(loss, r, m.loss)
        /\ touched' = IF m.solar = <<>> /\ m.perf = <<>> THEN before
                      ELSE before \cup (Pv!RestOn(d) \ {d})
        /\ torn' = IF run[r].step = "commit" THEN torn \ {d}
                   ELSE IF m.perf # <<>> \/ m.base # <<>> THEN torn \cup {d} ELSE torn
        /\ run' = Pv!Shaken(ended)
        /\ UNCHANGED <<plant, produced, starts>>
    BY <1>1 DEF Pv!Commit
  <1>4. d \in SolarDays
    BY <1>0, <1>1 DEF Pv!RunsApart
  <1>5. /\ m.solar # <<>> => m.solar[1] \in Nat \ {0}
        /\ m.perf # <<>> => m.perf[1] \in Pv!Performances
    BY <1>0 DEF Pv!RunOK
  <1>6. /\ DOMAIN run' = Pipelines /\ PvSame(run'[r], Pv!Idle)
        /\ \A o \in Pipelines : o # r => PvSame(run'[o], run[o])
        /\ \A o \in Pipelines : run'[o].quiet => run'[o].mine.base = <<>>
    <2>1. /\ ended[r] = Pv!Idle /\ \A o \in Pipelines : Pv!RunOK(ended[o])
          /\ \A o \in Pipelines : o # r => ended[o] = run[o]
      BY <1>0, EndedRuns
    <2> HIDE DEF ended
    <2>2. /\ DOMAIN run' = Pipelines
          /\ \A o \in Pipelines : PvSame(run'[o], ended[o]) /\ (run'[o].quiet => ended[o] = Pv!Idle)
      BY <1>3, <2>1, ShakenRuns
    <2>3. \A o \in Pipelines : run'[o].quiet => run'[o].mine.base = <<>>
      BY <2>2, IdleOK DEF PvSame, Pv!Untouched
    <2> QED BY <2>1, <2>2, <2>3
  <1> HIDE DEF ended
  <1>7. /\ DOMAIN loss' = SolarDays /\ PvSeen(loss, loss', m.loss, d)
        /\ PvSeen(solar, solar', m.solar, d) /\ PvSeen(perf, perf', m.perf, d)
        /\ PvSeen(base, base', m.base, d) /\ DOMAIN base' = SolarDays
        /\ DOMAIN solar' = SolarDays /\ DOMAIN perf' = SolarDays
    BY <1>0, <1>3, WithSees DEF PvView, Pv!TypeOK, Pv!Base, Pv!Solar, Pv!Perf
  <1>8. /\ solar' \in [SolarDays -> (Nat \ {0}) \cup {NoRow}]
        /\ perf' \in [SolarDays -> Pv!Performances \cup {NoRow}]
    <2>1. solar' \in [SolarDays -> (Nat \ {0}) \cup {NoRow}]
      <3>1. solar' = IF m.solar = <<>> THEN solar ELSE [solar EXCEPT ![d] = m.solar[1]]
        BY <1>3 DEF Pv!Solar, Pv!With
      <3> QED BY <1>0, <1>5, <3>1 DEF Pv!TypeOK
    <2>2. perf' \in [SolarDays -> Pv!Performances \cup {NoRow}]
      <3>1. perf' = IF m.perf = <<>> THEN perf ELSE [perf EXCEPT ![d] = m.perf[1]]
        BY <1>3 DEF Pv!Perf, Pv!With
      <3> QED BY <1>0, <1>5, <3>1 DEF Pv!TypeOK
    <2> QED BY <2>1, <2>2
  <1>9. touched' \subseteq SolarDays /\ torn' \subseteq SolarDays
    BY <1>0, <1>3, <1>4 DEF Pv!TypeOK, Pv!RestOn
  <1>10. Pv!TypeOK'
    <2>1. \A o \in Pipelines : Pv!RunOK(run'[o])
      BY <1>6 DEF PvSame
    <2>2. \A o \in Pipelines : Pv!RunOK(run[o])'
      BY <2>1 DEF Pv!RunOK
    <2> QED BY <1>0, <1>2, <1>3, <1>6, <1>7, <1>8, <1>9, <2>2 DEF Pv!TypeOK
  <1>11. Pv!RunsApart'
    BY <1>0, <1>6, EndedApart
  <1>12. \A e \in SolarDays : e # d =>
             /\ solar'[e] = solar[e] /\ perf'[e] = perf[e] /\ base'[e] = base[e]
             /\ loss'[e] = loss[e]
    BY <1>7 DEF PvSeen
  <1>13. Pv!LossesAgree'
    <2>1. ASSUME NEW o \in Pipelines, run'[o].step = "commit" PROVE Pv!Assessed(o)'
      <3>1. /\ o # r /\ run[o].step = "commit" /\ run'[o].day = run[o].day
            /\ run'[o].mine = run[o].mine
        BY <1>6, <2>1, IdleOK DEF PvSame
      <3>2. /\ run[o].day \in SolarDays /\ run[o].day # d /\ Pv!Assessed(o)
        BY <1>0, <1>1, <3>1 DEF Pv!RunsApart, Pv!LossesAgree
      <3> QED BY <1>0, <1>10, <1>12, <3>1, <3>2, AssessedKept
    <2>2. /\ m.loss = <<>> => loss'[d] = loss[d]
          /\ m.loss # <<>> => loss'[d] = m.loss[1]
          /\ perf'[d] = IF m.perf # <<>> THEN m.perf[1] ELSE perf[d]
          /\ base'[d] = IF m.base # <<>> THEN m.base[1] ELSE base[d]
          /\ perf'[d] = Pv!Perf(r)[d] /\ base'[d] = Pv!Base(r)[d]
      BY <1>3, <1>4, <1>7 DEF PvSeen
    <2>3. m.perf # <<>> => m.perf[1] # NoRow
      BY <1>5, PvConstants
    <2>4. /\ perf[d] = NoRow => loss[d] = NoRow
          /\ d \notin torn /\ loss[d] # NoRow => Pv!Explains(loss[d], perf[d], base[d])
      BY <1>0, <1>4 DEF Pv!LossesAgree
    <2>5. /\ perf'[d] = NoRow => loss'[d] = NoRow
          /\ d \notin torn' /\ loss'[d] # NoRow => Pv!Explains(loss'[d], perf'[d], base'[d])
      <3>1. CASE run[r].step = "commit"
        <4>1. Pv!Assessed(r)
          BY <1>0, <3>1 DEF Pv!LossesAgree
        <4>2. CASE perf'[d] = NoRow
          <5>1. m.loss = <<>>
            BY <2>2, <4>1, <4>2 DEF Pv!Assessed
          <5> QED BY <2>2, <2>3, <2>4, <4>2, <5>1
        <4>3. CASE perf'[d] # NoRow
          <5>1. m.loss # <<>> /\ Pv!Explains(m.loss[1], Pv!Perf(r)[d], Pv!Base(r)[d])
            BY <2>2, <4>1, <4>3 DEF Pv!Assessed
          <5> QED BY <2>2, <4>3, <5>1
        <4> QED BY <4>2, <4>3
      <3>2. CASE run[r].step # "commit"
        <4>1. m.loss = <<>>
          BY <1>1, <3>2
        <4>2. CASE m.perf # <<>> \/ m.base # <<>>
          <5>1. d \in torn'
            BY <1>3, <3>2, <4>2
          <5> QED BY <2>2, <2>3, <2>4, <4>1, <5>1
        <4>3. CASE m.perf = <<>> /\ m.base = <<>>
          <5>1. torn' = torn
            BY <1>3, <3>2, <4>3
          <5> QED BY <2>2, <2>4, <4>1, <4>3, <5>1
        <4> QED BY <4>2, <4>3
      <3> QED BY <3>1, <3>2
    <2>6. ASSUME NEW e \in SolarDays, e # d
          PROVE  /\ perf'[e] = NoRow => loss'[e] = NoRow
                 /\ e \notin torn' /\ loss'[e] # NoRow => Pv!Explains(loss'[e], perf'[e], base'[e])
      <3>1. e \notin torn' => e \notin torn
        BY <1>3, <2>6
      <3> QED BY <1>0, <1>12, <2>6, <3>1 DEF Pv!LossesAgree
    <2> QED BY <2>1, <2>5, <2>6 DEF Pv!LossesAgree, Pv!Explains
  <1>14. Pv!LevelsAgree'
    <2> DEFINE v == [solar |-> solar, perf |-> perf]
               w == [solar |-> solar', perf |-> perf']
    <2>1. /\ Pv!Committed = v /\ Pv!Committed' = w
          /\ v.solar = solar /\ v.perf = perf /\ w.solar = solar' /\ w.perf = perf'
      BY DEF Pv!Committed
    <2> HIDE DEF v, w
    <2>2. ASSUME NEW b, Pv!RestsOn(b, d, v) PROVE Pv!RestsOn(b, d, w)
      <3>1. b.first \in SolarDays /\ Pv!ReferenceEnd(b.first) < d
        BY <2>2 DEF Pv!RestsOn
      <3>2. Pv!ReferenceEnd(b.first) \in Nat /\ d \in Nat /\ SolarDays \subseteq Nat
        BY <1>4, <3>1, YearEnds, PvConstants
      <3>3. \A e \in SolarDays : e <= Pv!ReferenceEnd(b.first) => e # d
        BY <3>1, <3>2
      <3> QED BY <1>12, <2>1, <2>2, <3>3, LevelAgrees
    <2>3. ASSUME d \notin touched', base'[d] # NoRow PROVE Pv!RestsOn(base'[d], d, w)
      <3>1. CASE m.base = <<>>
        <4>1. base'[d] = base[d] /\ d \notin touched
          BY <1>3, <1>4, <1>7, <2>3, <3>1 DEF PvSeen
        <4>2. Pv!RestsOn(base[d], d, v)
          BY <1>0, <1>4, <2>1, <2>3, <4>1 DEF Pv!LevelsAgree
        <4> QED BY <2>2, <4>1, <4>2
      <3>2. CASE m.base # <<>>
        <4>1. base'[d] = m.base[1] /\ run[r].quiet
          BY <1>3, <1>4, <1>7, <2>3, <3>2 DEF PvSeen
        <4>2. Pv!RestsOn(m.base[1], d, v)
          BY <1>0, <2>1, <3>2, <4>1 DEF Pv!LevelsAgree
        <4> QED BY <2>2, <4>1, <4>2
      <3> QED BY <3>1, <3>2
    <2>4. ASSUME NEW e \in SolarDays, e # d, e \notin touched', base'[e] # NoRow
          PROVE  Pv!RestsOn(base'[e], e, w)
      <3>1. base'[e] = base[e] /\ e \notin touched
        BY <1>3, <1>12, <2>4
      <3>2. Pv!RestsOn(base[e], e, v)
        BY <1>0, <2>1, <2>4, <3>1 DEF Pv!LevelsAgree
      <3>3. CASE m.solar = <<>> /\ m.perf = <<>>
        <4>1. \A f \in SolarDays : v.perf[f] = w.perf[f] /\ v.solar[f] = w.solar[f]
          BY <1>7, <2>1, <3>3 DEF PvSeen
        <4> QED BY <3>1, <3>2, <4>1, LevelAgrees
      <3>4. CASE ~(m.solar = <<>> /\ m.perf = <<>>)
        <4>1. e \notin Pv!RestOn(d)
          BY <1>3, <2>4, <3>4
        <4>2. ~(d <= Pv!ReferenceEnd(base[e].first))
          BY <1>4, <2>4, <3>1, <4>1, RestsElsewhere
        <4>3. \A f \in SolarDays : f <= Pv!ReferenceEnd(base[e].first) =>
                  v.perf[f] = w.perf[f] /\ v.solar[f] = w.solar[f]
          BY <1>12, <2>1, <4>2
        <4> QED BY <3>1, <3>2, <4>3, LevelAgrees
      <3> QED BY <3>3, <3>4
    <2>5. \A e \in SolarDays \ touched' : base'[e] # NoRow => Pv!RestsOn(base'[e], e, w)
      BY <2>3, <2>4
    <2> QED BY <1>6, <2>1, <2>5 DEF Pv!LevelsAgree
  <1> QED BY <1>10, <1>11, <1>13, <1>14 DEF Pv!PvInv

\* Every step keeps the invariant.
LEMMA PvStep == ASSUME Pv!PvInv, Pv!Next PROVE Pv!PvInv'
  <1>1. CASE \/ \E d \in SolarDays, x \in Readings : Pv!Collect(d, x)
             \/ \E p \in Sites : Pv!EditPlant(p)
    BY <1>1, CollectPv
  <1>2. CASE \E ds \in (SUBSET SolarDays) \ {{}}, ghi \in Irradiations : Pv!FetchHistory(ds, ghi)
    BY <1>2, FetchHistoryPv
  <1>3. CASE \E f, c \in SolarDays : Pv!Purge(f, c)
    BY <1>3, PurgePv
  <1>4. CASE \E r \in Pipelines, d \in SolarDays : Pv!Start(r, d)
    BY <1>4, StartPv
  <1>5. ASSUME NEW r \in Pipelines,
               \/ \E ghi \in Irradiations : Pv!Climate(r, ghi)
               \/ Pv!Measure(r) \/ Pv!Compare(r) \/ Pv!Classify(r)
        PROVE  Pv!PvInv'
    BY <1>5, CalculatePv
  <1>6. ASSUME NEW r \in Pipelines, Pv!Finish(r) \/ Pv!FailJob(r) \/ Pv!RollBack(r)
        PROVE  Pv!PvInv'
    BY <1>6, CommitPv, RollBackPv
  <1> QED BY <1>1, <1>2, <1>3, <1>4, <1>5, <1>6 DEF Pv!Next

\* The tables of a past rest on each other, and no pipeline is under way.
LEMMA PvStart == ASSUME Pv!Init PROVE Pv!PvInv
  <1>1. /\ plant \in Sites /\ plant.kwp > 0
        /\ run = [r \in Pipelines |-> Pv!Idle]
        /\ torn = {} /\ touched = {} /\ changes = 0 /\ starts = 0
    BY DEF Pv!Init
  <1>2. PICK past \in Pasts :
            /\ produced = [d \in SolarDays |-> past[d].reading]
            /\ solar = [d \in SolarDays |-> IF past[d].poa = 0 THEN NoRow ELSE past[d].poa]
            /\ perf = [d \in SolarDays |->
                   IF past[d].poa = 0 \/ past[d].reading = NoRow THEN NoRow
                   ELSE Pv!Performance(past[d].reading, plant.kwp, past[d].poa)]
    BY DEF Pv!Init
  <1>3. base = [d \in SolarDays |->
            IF solar[d] = NoRow \/ Pv!Baseline(Pv!Committed, d).refused # "no" THEN NoRow
            ELSE Pv!Baseline(Pv!Committed, d)]
    BY DEF Pv!Init
  <1>4. loss = [d \in SolarDays |->
            IF perf[d] = NoRow THEN NoRow ELSE Pv!Losses(perf[d], base[d], NoRow)]
    BY DEF Pv!Init
  <1>5. \A d \in SolarDays : past[d].reading \in Readings \cup {NoRow} /\ past[d].poa \in Nat
    BY PvConstants
  <1>6. /\ produced \in [SolarDays -> Readings \cup {NoRow}]
        /\ solar \in [SolarDays -> (Nat \ {0}) \cup {NoRow}]
    BY <1>2, <1>5
  <1>7. perf \in [SolarDays -> Pv!Performances \cup {NoRow}]
    <2>1. plant.kwp \in Nat \ {0}
      BY <1>1, PvConstants
    <2>2. ASSUME NEW d \in SolarDays, past[d].poa # 0, past[d].reading # NoRow
          PROVE  Pv!Performance(past[d].reading, plant.kwp, past[d].poa) \in Pv!Performances
      BY <1>5, <2>1, <2>2, PerformanceRow
    <2> QED BY <1>2, <2>2
  <1>8. \A r \in Pipelines : run[r] = Pv!Idle /\ Pv!RunOK(run[r])
    BY <1>1, IdleOK
  <1>9. Pv!TypeOK
    BY <1>1, <1>3, <1>4, <1>6, <1>7, <1>8, PvConstants DEF Pv!TypeOK
  <1>10. Pv!RunsApart
    BY <1>1, <1>8, IdleOK DEF Pv!RunsApart, Pv!Untouched
  <1>11. Pv!LossesAgree
    <2>1. \A d \in SolarDays : perf[d] = NoRow => loss[d] = NoRow
      BY <1>4
    <2>2. ASSUME NEW d \in SolarDays, loss[d] # NoRow
          PROVE  Pv!Explains(loss[d], perf[d], base[d])
      BY <1>4, <2>2 DEF Pv!Explains, Pv!Losses
    <2> QED BY <1>8, <2>1, <2>2, IdleOK DEF Pv!LossesAgree
  <1>12. Pv!LevelsAgree
    <2>1. ASSUME NEW d \in SolarDays, base[d] # NoRow
          PROVE  Pv!RestsOn(base[d], d, Pv!Committed)
      <3>1. base[d] = Pv!Baseline(Pv!Committed, d) /\ Pv!Baseline(Pv!Committed, d).refused = "no"
        BY <1>3, <2>1
      <3> QED BY <3>1, BaselineRests
    <2>2. \A r \in Pipelines : run[r].mine.base = <<>>
      BY <1>8, IdleOK DEF Pv!Idle, Pv!Untouched
    <2> QED BY <2>1, <2>2 DEF Pv!LevelsAgree
  <1> QED BY <1>9, <1>10, <1>11, <1>12 DEF Pv!PvInv

\* The invariant of the analysis, in every behaviour of the composition.
LEMMA PvInvHolds == MCSpec => [](InPv => Pv!PvInv)
  <1>1. MCInit => (InPv => Pv!PvInv)
    BY PvStart DEF MCInit, InPv
  <1>2. (InPv => Pv!PvInv) /\ [MCNext]_vars => (InPv => Pv!PvInv)'
    <2> SUFFICES ASSUME InPv => Pv!PvInv, [MCNext]_vars, InPv' PROVE Pv!PvInv'
      OBVIOUS
    <2>1. InPv /\ Pv!PvInv
      BY PartKept DEF InPv
    <2>2. CASE MCNext
      BY <2>1, <2>2, PvSteps, PvStep
    <2>3. CASE UNCHANGED vars
      <3>1. UNCHANGED <<plant, produced, solar, perf, base, loss, run, torn, touched, changes, starts>>
        BY <2>3 DEF vars
      <3>2. Pv!TypeOK'
        BY <2>1, <3>1 DEF Pv!PvInv, Pv!TypeOK, Pv!RunOK
      <3> QED BY <2>1, <3>1, <3>2, PvFrame DEF Pv!PvInv
    <2> QED BY <2>2, <2>3
  <1> QED BY <1>1, <1>2, PTL DEF MCSpec

\* The losses of a day explain the performance and rest on the baseline the day has
\* now, unless its last run failed halfway (photovoltaic/loss_taxonomy_service.py;
\* cloud_jobs.py, run_daily_pipeline).
THEOREM LossesAreExplained == MCSpec => []LossesExplainPerformance
  <1>1. (InPv => Pv!PvInv) => LossesExplainPerformance
    BY DEF Pv!PvInv, Pv!LossesAgree, Pv!Explains, LossesExplainPerformance,
           Pv!LossesExplainPerformance
  <1> QED BY <1>1, PvInvHolds, PTL

\* Two baselines of a season on one reference year have one level: both are the level
\* of the same samples.
LEMMA LevelsAreOne == ASSUME Pv!PvInv PROVE Pv!NotLearnedBack
  <1> SUFFICES ASSUME NEW d \in SolarDays \ touched, base[d] # NoRow,
                      NEW e \in SolarDays \ touched, base[e] # NoRow,
                      Month[d] = Month[e], base[d].first = base[e].first
               PROVE  base[d].level = base[e].level
    BY DEF Pv!NotLearnedBack
  <1>1. Pv!RestsOn(base[d], d, Pv!Committed) /\ Pv!RestsOn(base[e], e, Pv!Committed)
    BY DEF Pv!PvInv, Pv!LevelsAgree
  <1> QED BY <1>1 DEF Pv!RestsOn

\* The rows the reader counts begin no later than those the calculation judges.
LEMMA ReasonHolds == Pv!ReasonIsTrue
  <1> SUFFICES ASSUME NEW today \in SolarDays, Pv!ReaderSaysIncomplete(today)
               PROVE  Pv!Baseline([solar |-> solar, perf |-> perf], today).refused \in
                          {"no history", "year incomplete"}
    BY DEF Pv!ReasonIsTrue
  <1> DEFINE v == [solar |-> solar, perf |-> perf]
             rows == Pv!EligibleUpTo(v, today)
             first == Pv!FirstDay(rows)
             counted == CHOOSE d \in Pv!Counted : \A e \in Pv!Counted : d <= e
             given == Pv!Baseline(v, today)
  <1>1. v.solar = solar /\ v.perf = perf
    OBVIOUS
  <1>2. /\ rows = {} => given = Pv!Refused("no history")
        /\ rows # {} /\ today <= Pv!ReferenceEnd(first) => given = Pv!Refused("year incomplete")
    BY DEF Pv!Baseline
  <1> HIDE DEF v, rows, given
  <1>3. \A why : Pv!Refused(why).refused = why
    BY DEF Pv!Refused
  <1>4. CASE rows = {}
    BY <1>2, <1>3, <1>4 DEF given, v
  <1>5. CASE rows # {}
    <2>1. PICK s \in rows : s.day = first
      BY <1>5, FirstIsSample DEF rows
    <2>2. first \in Pv!Counted
      <3>1. s.day \in SolarDays /\ Pv!Eligible(s) /\ v.perf[s.day] # NoRow
            /\ s.status = v.perf[s.day].status
        BY SampleDays DEF rows
      <3> QED BY <1>1, <2>1, <3>1 DEF Pv!Counted, Pv!Eligible
    <2>3. Pv!Counted \in SUBSET SolarDays /\ today <= Pv!ReferenceEnd(counted)
      BY DEF Pv!Counted, Pv!ReaderSaysIncomplete
    <2>4. counted \in Pv!Counted /\ counted <= first
      <3>1. \E d \in Pv!Counted : \A e \in Pv!Counted : d <= e
        BY <2>2, <2>3, FirstOfDays
      <3> QED BY <2>2, <3>1
    <2>5. today <= Pv!ReferenceEnd(first)
      <3>1. counted \in Nat /\ first \in Nat /\ today \in Nat /\ ReferenceDays \in Nat
        BY <2>2, <2>3, <2>4, PvConstants
      <3> HIDE DEF counted, first
      <3> QED BY <2>3, <2>4, <3>1 DEF Pv!ReferenceEnd
    <2> QED BY <1>2, <1>3, <1>5, <2>5 DEF given, v
  <1> QED BY <1>4, <1>5

\* Degraded production is never learned back into the reference, and who is told that
\* the reference year is not complete is told the truth (photovoltaic/seasonal_baseline.py;
\* photovoltaic/read_service.py, _derive_baseline_unavailable_reason).
THEOREM ReferenceStaysHonest == MCSpec => []ReferenceIsHonest
  <1>1. (InPv => Pv!PvInv) => ReferenceIsHonest
    BY LevelsAreOne, ReasonHolds DEF ReferenceIsHonest
  <1> QED BY <1>1, PvInvHolds, PTL

-----------------------------------------------------------------------------
(* The alert of a day's production: alerts/production_alert.py.              *)

\* The state by its names.
today == s1
energy == s2
climate == s3
ledger == s4
sender == s5
told == s6
excused == s7
begun == s8
revision == s9
USE DEF today, energy, climate, ledger, sender, told, excused, begun, revision

\* A step of a behaviour about these alerts is one of the alerts.
LEMMA AlertSteps == ASSUME InAlert, MCNext PROVE Alert!Next
  <1>1. /\ ~InOutbox /\ ~InPipeline /\ ~InDaily /\ ~InPv /\ ~InDash /\ ~InAnomaly
        /\ ~InTariff /\ ~InMarket /\ ~InCycle /\ ~InUtility
    BY DEF InOutbox, InPipeline, InDaily, InPv, InDash, InAlert, InAnomaly, InTariff,
           InMarket, InCycle, InUtility
  <1> QED BY <1>1, ZenonT(60) DEF MCNext, Alert!Next

\* What is assumed of the instance.
LEMMA AlertConstants ==
    /\ LastAlertDay \in Nat /\ Lookback \in Nat /\ MinSample \in Nat \ {0}
    /\ MaxStreak \in Nat /\ MaxStreak >= 2
    /\ MaxAlertRuns \in Nat /\ MaxRevisions \in Nat
  BY ConstantsOfParts DEF Alert!ConstantsOK

\* What is said of a day rests on the rows up to that day.
LEMMA AsOfThatDay ==
    ASSUME NEW d \in Int,
           \A e \in Alert!Days : e <= d => energy'[e] = energy[e] /\ climate'[e] = climate[e]
    PROVE  \A e \in Alert!Days : \A x :
               e <= d => /\ Alert!Alerting(e, x)' = Alert!Alerting(e, x)
                         /\ Alert!Reason(e, x)' = Alert!Reason(e, x)
                         /\ Alert!Streak(e, x)' = Alert!Streak(e, x)
  <1> DEFINE Before == {e \in Alert!Days : e <= d}
  <1>0. Before \subseteq Int /\ Before \subseteq Alert!Days
    BY DEF Alert!Days
  <1>1. \A e \in Before : /\ Alert!Sun(e)' = Alert!Sun(e)
                          /\ Alert!Sunny(e)' = Alert!Sunny(e)
                          /\ Alert!Reporting(e)' = Alert!Reporting(e)
                          /\ Alert!Output(e)' = Alert!Output(e)
                          /\ energy'[e] = energy[e] /\ climate'[e] = climate[e]
    BY DEF Alert!Sun, Alert!Sunny, Alert!Reporting, Alert!Output
  <1>2. \A e \in Before : \A kwh : Alert!Yield(kwh, e)' = Alert!Yield(kwh, e)
    BY <1>1 DEF Alert!Yield
  <1>3. \A e \in Before : Alert!History(e) \subseteq Before
    BY AlertConstants DEF Alert!History, Alert!Days
  <1>4. \A e \in Before : /\ Alert!PlantDays(e)' = Alert!PlantDays(e)
                          /\ Alert!PlantDays(e) \subseteq Before
    BY <1>1, <1>3 DEF Alert!PlantDays
  <1>5. \A e \in Before : \A i : /\ Alert!DeviceDays(i, e)' = Alert!DeviceDays(i, e)
                                 /\ Alert!DeviceDays(i, e) \subseteq Before
    BY <1>1, <1>3 DEF Alert!DeviceDays
  <1>6. \A e \in Before : /\ Alert!SunDays(e)' = Alert!SunDays(e)
                          /\ Alert!SunDays(e) \subseteq Before
    BY <1>1, <1>3 DEF Alert!SunDays
  <1> HIDE DEF Before
  <1>7. \A e \in Before : Alert!PlantMedian(e)' = Alert!PlantMedian(e)
    <2> TAKE e \in Before
    <2>1. \A f \in Alert!PlantDays(e) :
              Alert!Yield(Alert!Output(f), f)' = Alert!Yield(Alert!Output(f), f)
      BY <1>1, <1>4 DEF Alert!Yield
    <2>2. [f \in Alert!PlantDays(e) |-> Alert!Yield(Alert!Output(f), f)]' =
              [f \in Alert!PlantDays(e) |-> Alert!Yield(Alert!Output(f), f)]
      BY <1>4, <2>1
    <2> QED BY <2>2 DEF Alert!PlantMedian
  <1>8. \A e \in Before : \A i : Alert!DeviceMedian(i, e)' = Alert!DeviceMedian(i, e)
    <2> TAKE e \in Before
    <2> TAKE i
    <2>1. \A f \in Alert!DeviceDays(i, e) :
              Alert!Yield(energy[f][i], f)' = Alert!Yield(energy[f][i], f)
      BY <1>1, <1>5 DEF Alert!Yield
    <2>2. [f \in Alert!DeviceDays(i, e) |-> Alert!Yield(energy[f][i], f)]' =
              [f \in Alert!DeviceDays(i, e) |-> Alert!Yield(energy[f][i], f)]
      BY <1>5, <2>1
    <2> QED BY <2>2 DEF Alert!DeviceMedian
  <1>9. \A e \in Before : Alert!SunMedian(e)' = Alert!SunMedian(e)
    <2> TAKE e \in Before
    <2>1. \A f \in Alert!SunDays(e) : Alert!Sun(f)' = Alert!Sun(f)
      BY <1>1, <1>6
    <2>2. [f \in Alert!SunDays(e) |-> Alert!Sun(f)]' = [f \in Alert!SunDays(e) |-> Alert!Sun(f)]
      BY <1>6, <2>1
    <2> QED BY <2>2 DEF Alert!SunMedian
  <1>10. \A e \in Before : Alert!PlantStands(e)' = Alert!PlantStands(e)
    BY <1>1, <1>2, <1>4, <1>7 DEF Alert!PlantStands, Alert!Standing, Alert!Yield
  <1>11. \A e \in Before : \A i : Alert!DeviceStands(i, e)' = Alert!DeviceStands(i, e)
    BY <1>1, <1>2, <1>5, <1>8 DEF Alert!DeviceStands, Alert!Standing, Alert!Yield
  <1>12. \A e \in Before : /\ Alert!Dropped(e)' = Alert!Dropped(e)
                           /\ Alert!NothingKnown(e)' = Alert!NothingKnown(e)
    BY <1>10, <1>11 DEF Alert!Dropped, Alert!NothingKnown
  <1>13. \A e \in Before : Alert!LowSun(e)' = Alert!LowSun(e)
    BY <1>1, <1>6, <1>9 DEF Alert!LowSun
  <1>14. \A e \in Before : \A x : Alert!BelowExpected(e, x)' = Alert!BelowExpected(e, x)
    BY <1>1 DEF Alert!BelowExpected
  <1>15. \A e \in Before : \A x : Alert!Reason(e, x)' = Alert!Reason(e, x)
    BY <1>10, <1>12, <1>13, <1>14 DEF Alert!Reason, Alert!DeviceDropReason
  <1>16. \A e \in Before : \A x : Alert!Alerting(e, x)' = Alert!Alerting(e, x)
    BY <1>1, <1>15 DEF Alert!Alerting
  <1>17. \A e \in Before : \A x : Alert!Streak(e, x)' = Alert!Streak(e, x)
    <2> TAKE e \in Before
    <2> TAKE x
    <2> DEFINE After(f) == \A g \in f .. e : Alert!Alerting(g, x)
               Told == {f \in Alert!Days : f <= e /\ e - f < MaxStreak /\ After(f)}
    <2>1. \A f \in Alert!Days : \A g \in f .. e : g \in Before
      BY <1>0, AlertConstants DEF Before, Alert!Days
    <2>2. \A f \in Alert!Days : After(f)' = After(f)
      BY <1>16, <2>1
    <2>3. Told' = Told
      BY <2>2
    <2> QED BY <2>3 DEF Alert!Streak
  <1> QED BY <1>15, <1>16, <1>17 DEF Before


\* Days pass at the end: what is known of the days before stays.
LEMMA PassingDay ==
    ASSUME Alert!AlertInv,
           NEW outputs \in [Inverters -> Outputs \cup {NoRow}], NEW sky \in Skies,
           Alert!NewDay(outputs, sky)
    PROVE  \A e \in Alert!Days : \A x :
               e <= today => /\ Alert!Alerting(e, x)' = Alert!Alerting(e, x)
                             /\ Alert!Reason(e, x)' = Alert!Reason(e, x)
                             /\ Alert!Streak(e, x)' = Alert!Streak(e, x)
  <1>1. today \in Nat
    BY AlertConstants DEF Alert!AlertInv, Alert!TypeOK
  <1>2. \A e \in Alert!Days : e <= today => energy'[e] = energy[e] /\ climate'[e] = climate[e]
    BY <1>1 DEF Alert!AlertInv, Alert!Shapes, Alert!NewDay, Alert!Days
  <1> QED BY <1>1, <1>2, AsOfThatDay

\* A run is what it was made of.
LEMMA RunFields ==
    ASSUME NEW r \in Senders, Alert!AlertInv
    PROVE  /\ Alert!RunOK(sender[r]) /\ sender = [o \in Senders |-> sender[o]]
           /\ \A o : sender[o].at # "idle" => sender[o] # Alert!Resting
  BY DEF Alert!AlertInv, Alert!Shapes, Alert!Resting

\* The days of a streak are days, the day itself among them if it is one that is told.
LEMMA StreakCounts ==
    ASSUME NEW d \in Alert!Days, NEW x
    PROVE  /\ Alert!Streak(d, x) \in 0 .. MaxStreak
           /\ Alert!Alerting(d, x) => Alert!Streak(d, x) >= 1
           /\ d - 1 \in Alert!Days /\ Alert!Alerting(d, x) /\ Alert!Alerting(d - 1, x)
                  => Alert!Streak(d, x) >= 2
  <1> DEFINE Told == {e \in Alert!Days : /\ e <= d /\ d - e < MaxStreak
                                         /\ \A f \in e .. d : Alert!Alerting(f, x)}
             Near == (d - MaxStreak + 1) .. d
  <1>1. d \in Int /\ MaxStreak \in Nat /\ MaxStreak >= 2 /\ LastAlertDay \in Nat
    BY AlertConstants DEF Alert!Days
  <1>2. Told \subseteq Near
    BY <1>1 DEF Alert!Days
  <1>3. IsFiniteSet(Near) /\ Cardinality(Near) = MaxStreak
    BY <1>1, FS_Interval
  <1>4. IsFiniteSet(Told) /\ Cardinality(Told) \in Nat /\ Cardinality(Told) <= MaxStreak
    BY <1>2, <1>3, FS_Subset, FS_CardinalityType
  <1>5. Alert!Streak(d, x) = Cardinality(Told)
    BY DEF Alert!Streak, Alert!Cardinality, Cardinality
  <1>6. ASSUME Alert!Alerting(d, x) PROVE Cardinality(Told) >= 1
    <2>1. d \in Told
      BY <1>1, <1>6
    <2>2. Cardinality(Told) # 0
      BY <1>4, <2>1, FS_EmptySet
    <2> QED BY <1>4, <2>2
  <1>7. ASSUME d - 1 \in Alert!Days, Alert!Alerting(d, x), Alert!Alerting(d - 1, x)
        PROVE  Cardinality(Told) >= 2
    <2>1. \A f \in (d - 1) .. d : f = d \/ f = d - 1
      BY <1>1
    <2>2. {d - 1, d} \subseteq Told
      BY <1>1, <1>7, <2>1
    <2>3. Cardinality({d - 1, d}) = 2
      <3>1. d \notin {d - 1} /\ {d - 1} \cup {d} = {d - 1, d}
        BY <1>1
      <3>2. IsFiniteSet({d - 1}) /\ Cardinality({d - 1}) = 1
        BY FS_Singleton
      <3>3. Cardinality({d - 1} \cup {d}) = 1 + 1
        BY <3>1, <3>2, FS_AddElement
      <3> QED BY <3>1, <3>3
    <2> QED BY <1>4, <2>2, <2>3, FS_Subset
  <1> QED BY <1>1, <1>4, <1>5, <1>6, <1>7


\* A list is one of its elements.
LEMMA OfItsElements ==
    ASSUME NEW S, NEW q \in Seq(S) PROVE q \in Seq({q[i] : i \in DOMAIN q})
  <1> DEFINE T == {q[i] : i \in DOMAIN q}
  <1>1. Len(q) \in Nat /\ DOMAIN q = 1 .. Len(q) /\ q = [i \in 1 .. Len(q) |-> q[i]]
    OBVIOUS
  <1>2. \A i \in 1 .. Len(q) : q[i] \in T
    BY <1>1
  <1>3. [i \in 1 .. Len(q) |-> q[i]] \in [1 .. Len(q) -> T]
    BY <1>2
  <1> HIDE DEF T
  <1>4. q \in [1 .. Len(q) -> T]
    BY <1>1, <1>3
  <1>5. q \in Seq(T)
    BY <1>1, <1>4
  <1> QED BY <1>5 DEF T

\* Of what was accepted nothing is forgotten.
LEMMA ToldGrows ==
    ASSUME Alert!AlertInv, NEW m, told' = Append(told, m)
    PROVE  /\ DOMAIN told' = DOMAIN told \cup {Len(told) + 1}
           /\ Len(told) \in Nat /\ DOMAIN told = 1 .. Len(told)
           /\ \A i \in DOMAIN told : told'[i] = told[i]
           /\ told'[Len(told) + 1] = m
           /\ told' \in Seq({told'[i] : i \in DOMAIN told'})
  <1> DEFINE S == {told[i] : i \in DOMAIN told}
             T == {told'[i] : i \in DOMAIN told'}
  <1>1. told \in Seq(S)
    BY DEF Alert!AlertInv, Alert!Shapes
  <1>2. told \in Seq(S \cup {m})
    BY <1>1
  <1> HIDE DEF S
  <1>3. /\ Len(told) \in Nat /\ DOMAIN told = 1 .. Len(told)
        /\ told' \in Seq(S \cup {m}) /\ Len(told') = Len(told) + 1
        /\ DOMAIN told' = 1 .. Len(told')
        /\ \A i \in 1 .. Len(told) : told'[i] = told[i]
        /\ told'[Len(told) + 1] = m
    BY <1>2
  <1>4. DOMAIN told' = DOMAIN told \cup {Len(told) + 1}
    BY <1>3
  <1>5. told' \in Seq(T)
    BY <1>3, OfItsElements
  <1> QED BY <1>3, <1>4, <1>5

\* One step of a run leaves the others alone.
LEMMA OneMoves ==
    ASSUME Alert!AlertInv, NEW r \in Senders, NEW x, sender' = [sender EXCEPT ![r] = x]
    PROVE  /\ sender'[r] = x /\ \A o \in Senders \ {r} : sender'[o] = sender[o]
           /\ Alert!RunOK(x) => /\ sender' = [o \in Senders |-> sender'[o]]
                                /\ \A o \in Senders : Alert!RunOK(sender'[o])
  <1>1. sender = [o \in Senders |-> sender[o]] /\ \A o \in Senders : Alert!RunOK(sender[o])
    BY RunFields DEF Alert!AlertInv, Alert!Shapes
  <1>2. sender'[r] = x /\ \A o \in Senders \ {r} : sender'[o] = sender[o]
    BY <1>1
  <1>3. sender' = [o \in Senders |-> sender'[o]]
    BY <1>1
  <1>4. Alert!RunOK(x) => \A o \in Senders : Alert!RunOK(sender'[o])
    BY <1>1, <1>2
  <1> QED BY <1>2, <1>3, <1>4

\* The step of a run by its stages.
LEMMA NextStage ==
    ASSUME Alert!AlertInv, NEW r \in Senders, NEW stage \in {"sending", "marking"},
           sender[r].at \in {"checking", "sending", "marking"},
           sender' = [sender EXCEPT ![r].at = stage]
    PROVE  /\ sender' = [sender EXCEPT ![r] = sender'[r]]
           /\ Alert!RunOK(sender'[r]) /\ sender'[r].at = stage
           /\ Alert!Said(sender'[r]) = Alert!Said(sender[r])
           /\ Alert!Fingerprint(sender'[r]) = Alert!Fingerprint(sender[r])
  <1> DEFINE x == sender[r]
  <1>1. x \in [at : {"checking", "sending", "marking"}, day : {x.day}, expected : {x.expected},
               reason : {x.reason}, says : {x.says}, days : {x.days}, stage : {x.stage},
               revision : {x.revision}, steady : {x.steady}]
    BY RunFields DEF Alert!RunOK, Alert!Resting
  <1>2. sender'[r] = [x EXCEPT !.at = stage] /\ sender' = [sender EXCEPT ![r] = sender'[r]]
    BY RunFields
  <1> DEFINE y == sender'[r]
  <1>3. y = [x EXCEPT !.at = stage]
    BY <1>2
  <1> HIDE DEF x, y
  <1>4. /\ y.at = stage /\ y.day = x.day /\ y.expected = x.expected /\ y.reason = x.reason
        /\ y.says = x.says /\ y.days = x.days /\ y.stage = x.stage
        /\ y.revision = x.revision /\ y.steady = x.steady
    BY <1>1, <1>3
  <1>5. Alert!RunOK(y)
    <2>1. y \in [at : {"checking", "sending", "marking"}, day : {y.day}, expected : {y.expected},
               reason : {y.reason}, says : {y.says}, days : {y.days}, stage : {y.stage},
               revision : {y.revision}, steady : {y.steady}]
      BY <1>1, <1>3, <1>4
    <2> QED BY <2>1 DEF Alert!RunOK
  <1>6. Alert!Said(y) = Alert!Said(x)
    <2>1. \A f \in {"day", "expected", "reason", "says", "days", "stage", "revision", "steady"} :
              y[f] = x[f]
      BY <1>4
    <2> QED BY <2>1 DEF Alert!Said
  <1>7. Alert!Fingerprint(y) = Alert!Fingerprint(x)
    BY <1>4 DEF Alert!Fingerprint
  <1> QED BY <1>2, <1>4, <1>5, <1>6, <1>7 DEF x, y

\* What is said of a run that was counted is what it knows.
LEMMA SaidFields ==
    ASSUME NEW m
    PROVE  /\ Alert!Said(m).day = m.day /\ Alert!Said(m).expected = m.expected
           /\ Alert!Said(m).reason = m.reason /\ Alert!Said(m).days = m.days
           /\ Alert!Said(m).stage = m.stage /\ Alert!Said(m).revision = m.revision
           /\ Alert!Said(m).steady = m.steady
           /\ Alert!Fingerprint(Alert!Said(m)) = Alert!Fingerprint(m)
  <1>1. /\ Alert!Said(m).day = m.day /\ Alert!Said(m).expected = m.expected
        /\ Alert!Said(m).reason = m.reason /\ Alert!Said(m).days = m.days
        /\ Alert!Said(m).stage = m.stage /\ Alert!Said(m).revision = m.revision
        /\ Alert!Said(m).steady = m.steady
    BY DEF Alert!Said
  <1> QED BY <1>1 DEF Alert!Fingerprint


\* The rows of the days: as they are, corrected, or of a day more.
RowsStep ==
    /\ today' \in Nat /\ today <= today' /\ revision' \in {revision, revision + 1}
    /\ revision' = revision =>
           \A e \in Alert!Days : e <= today => energy'[e] = energy[e] /\ climate'[e] = climate[e]
\* What is said of the days holds.
Messages ==
    /\ \A m \in Alert!Spoken : Alert!Grounded(m)
    /\ \A m, n \in Alert!Spoken : Alert!Agree(m, n)
    /\ \A r \in Senders : Alert!Assessed(r)

LEMMA Numbers ==
    ASSUME Alert!AlertInv
    PROVE  /\ today \in Nat /\ today <= LastAlertDay /\ revision \in Nat /\ begun \in Nat
           /\ 1 .. today \subseteq Alert!Days
  BY AlertConstants DEF Alert!AlertInv, Alert!TypeOK, Alert!Days

LEMMA StaysGrounded ==
    ASSUME Alert!AlertInv, RowsStep, NEW m, Alert!Grounded(m)
    PROVE  Alert!Grounded(m)'
  <1>1. today \in Nat /\ 1 .. today \subseteq Alert!Days /\ revision \in Nat
    BY Numbers
  <1>2. m.day \in 1 .. today' /\ m.revision \in 0 .. revision'
    BY <1>1 DEF RowsStep, Alert!Grounded
  <1>3. CASE revision' = revision
    <2>1. \A e \in Alert!Days : \A x :
              e <= today => /\ Alert!Alerting(e, x)' = Alert!Alerting(e, x)
                            /\ Alert!Reason(e, x)' = Alert!Reason(e, x)
                            /\ Alert!Streak(e, x)' = Alert!Streak(e, x)
      BY <1>1, <1>3, AsOfThatDay DEF RowsStep
    <2>2. m.day \in Alert!Days /\ m.day <= today
      BY <1>1 DEF Alert!Grounded
    <2> QED BY <1>2, <1>3, <2>1, <2>2 DEF Alert!Grounded
  <1>4. CASE revision' = revision + 1
    <2>1. m.revision # revision'
      BY <1>1, <1>4 DEF Alert!Grounded
    <2> QED BY <1>2, <2>1 DEF Alert!Grounded
  <1> QED BY <1>3, <1>4 DEF RowsStep

LEMMA StaysAssessed ==
    ASSUME Alert!AlertInv, RowsStep, NEW r \in Senders, sender'[r] = sender[r]
    PROVE  Alert!Assessed(r)'
  <1>0. Alert!Assessed(r)
    BY DEF Alert!AlertInv
  <1> SUFFICES ASSUME sender[r].at = "counting" PROVE Alert!Assessed(r)'
    BY DEF Alert!Assessed
  <1> DEFINE m == sender[r]
  <1>1. today \in Nat /\ 1 .. today \subseteq Alert!Days /\ revision \in Nat
    BY Numbers
  <1>2. /\ m.day \in 1 .. today /\ m.revision \in 0 .. revision
        /\ m.revision = revision => /\ Alert!Alerting(m.day, m.expected)
                                    /\ m.reason = Alert!Reason(m.day, m.expected)
    BY <1>0 DEF Alert!Assessed
  <1>3. m' = m
    OBVIOUS
  <1> HIDE DEF m
  <1>4. m.day \in 1 .. today' /\ m.revision \in 0 .. revision'
    BY <1>1, <1>2 DEF RowsStep
  <1>5. m.revision = revision' => /\ Alert!Alerting(m.day, m.expected)'
                                  /\ m.reason = Alert!Reason(m.day, m.expected)'
    <2>1. CASE revision' = revision
      <3>1. \A e \in Alert!Days : \A x :
                e <= today => /\ Alert!Alerting(e, x)' = Alert!Alerting(e, x)
                              /\ Alert!Reason(e, x)' = Alert!Reason(e, x)
        BY <1>1, <2>1, AsOfThatDay DEF RowsStep
      <3>2. m.day \in Alert!Days /\ m.day <= today
        BY <1>1, <1>2
      <3> DEFINE d == m.day
                 x == m.expected
      <3>3. d' = d /\ x' = x
        BY <1>3
      <3>4. /\ Alert!Alerting(m.day, m.expected)' = Alert!Alerting(m.day, m.expected)
            /\ Alert!Reason(m.day, m.expected)' = Alert!Reason(m.day, m.expected)
        BY <1>3, <3>1, <3>2
      <3> QED BY <1>2, <2>1, <3>4
    <2>2. CASE revision' = revision + 1
      <3>1. m.revision # revision'
        BY <1>1, <1>2, <2>2
      <3> QED BY <3>1
    <2> QED BY <2>1, <2>2 DEF RowsStep
  <1> QED BY <1>3, <1>4, <1>5 DEF Alert!Assessed, m

\* Two messages that hold of the rows as they are agree.
LEMMA Agreement ==
    ASSUME Alert!AlertInv, NEW m, NEW n, Alert!Grounded(m), Alert!Grounded(n),
           m.revision = revision
    PROVE  Alert!Agree(m, n) /\ Alert!Agree(n, m)
  <1>1. 1 .. today \subseteq Alert!Days /\ today \in Nat
    BY Numbers
  <1>2. ASSUME NEW a, NEW b, Alert!Grounded(a), Alert!Grounded(b), a.revision = revision
        PROVE  Alert!Agree(a, b)
    <2> SUFFICES ASSUME a.steady, b.steady, b.revision = revision, a.expected = b.expected
                 PROVE  /\ a.day = b.day => a.reason = b.reason /\ a.days = b.days
                        /\ b.day = a.day + 1 => b.days >= 2
      BY <1>2 DEF Alert!Agree
    <2>1. /\ a.reason = Alert!Reason(a.day, a.expected) /\ a.days = Alert!Streak(a.day, a.expected)
          /\ b.reason = Alert!Reason(b.day, a.expected) /\ b.days = Alert!Streak(b.day, a.expected)
          /\ Alert!Alerting(a.day, a.expected) /\ Alert!Alerting(b.day, a.expected)
          /\ a.day \in 1 .. today /\ b.day \in 1 .. today
      BY <1>2 DEF Alert!Grounded
    <2>2. ASSUME b.day = a.day + 1 PROVE b.days >= 2
      <3>1. b.day - 1 = a.day /\ a.day \in Alert!Days /\ b.day \in Alert!Days
        BY <1>1, <2>1, <2>2
      <3> QED BY <2>1, <3>1, StreakCounts
    <2> QED BY <2>1, <2>2
  <1> QED BY <1>2, <1>2 DEF Alert!Agree

\* Only the rows move.
LEMMA RowsMove ==
    ASSUME Alert!AlertInv, RowsStep, UNCHANGED <<sender, told>>
    PROVE  Messages'
  <1>1. Alert!Spoken' = Alert!Spoken
    BY DEF Alert!Spoken
  <1>2. \A m \in Alert!Spoken : Alert!Grounded(m)'
    BY StaysGrounded DEF Alert!AlertInv
  <1>3. \A m, n \in Alert!Spoken : Alert!Agree(m, n)'
    BY DEF Alert!AlertInv, Alert!Agree
  <1>4. \A r \in Senders : Alert!Assessed(r)'
    BY StaysAssessed
  <1> QED BY <1>1, <1>2, <1>3, <1>4 DEF Messages

\* A run moves, and says nothing new.
LEMMA RunMoves ==
    ASSUME Alert!AlertInv, UNCHANGED <<today, energy, climate, revision>>,
           NEW r \in Senders, NEW x, sender' = [sender EXCEPT ![r] = x],
           Alert!Spoken' \in SUBSET Alert!Spoken, Alert!Assessed(r)'
    PROVE  Messages'
  <1>1. RowsStep
    BY Numbers DEF RowsStep
  <1>2. \A m \in Alert!Spoken' : Alert!Grounded(m)'
    BY <1>1, StaysGrounded DEF Alert!AlertInv
  <1>3. \A m, n \in Alert!Spoken' : Alert!Agree(m, n)'
    BY DEF Alert!AlertInv, Alert!Agree
  <1>4. \A o \in Senders : Alert!Assessed(o)'
    BY <1>1, StaysAssessed, OneMoves
  <1> QED BY <1>2, <1>3, <1>4 DEF Messages


\* A run moves, and what it says is new: the streak is counted.
LEMMA RunSpeaks ==
    ASSUME Alert!AlertInv, UNCHANGED <<today, energy, climate, revision>>,
           NEW r \in Senders, NEW x, sender' = [sender EXCEPT ![r] = x],
           NEW m, Alert!Grounded(m), m.steady => m.revision = revision,
           Alert!Spoken' \in SUBSET (Alert!Spoken \cup {m}), Alert!Assessed(r)'
    PROVE  Messages'
  <1>1. RowsStep
    BY Numbers DEF RowsStep
  <1>2. \A n \in Alert!Spoken' : Alert!Grounded(n)'
    BY <1>1, StaysGrounded DEF Alert!AlertInv
  <1>3. \A n \in Alert!Spoken \cup {m} : Alert!Agree(m, n) /\ Alert!Agree(n, m)
    <2>1. CASE m.steady
      BY <2>1, Agreement DEF Alert!AlertInv
    <2>2. CASE ~m.steady
      BY <2>2 DEF Alert!Agree
    <2> QED BY <2>1, <2>2
  <1>4. \A n, o \in Alert!Spoken' : Alert!Agree(n, o)'
    BY <1>3 DEF Alert!AlertInv, Alert!Agree
  <1>5. \A o \in Senders : Alert!Assessed(o)'
    BY <1>1, StaysAssessed, OneMoves
  <1> QED BY <1>2, <1>4, <1>5 DEF Messages

\* What is spoken after a run has moved.
LEMMA SpokenThen ==
    ASSUME Alert!AlertInv, NEW r \in Senders, NEW x, sender' = [sender EXCEPT ![r] = x],
           NEW m \in Alert!Spoken,
           told' = told \/ told' = Append(told, m)
    PROVE  /\ x.at \in {"checking", "sending", "marking"} =>
                  Alert!Spoken' \in SUBSET (Alert!Spoken \cup {Alert!Said(x)})
           /\ x.at \notin {"checking", "sending", "marking"} =>
                  Alert!Spoken' \in SUBSET Alert!Spoken
  <1> DEFINE Stages == {"checking", "sending", "marking"}
  <1>1. {told'[i] : i \in DOMAIN told'} \subseteq Alert!Spoken
    <2>1. CASE told' = told
      BY <2>1 DEF Alert!Spoken
    <2>2. CASE told' = Append(told, m)
      <3>1. /\ DOMAIN told' = DOMAIN told \cup {Len(told) + 1}
            /\ \A i \in DOMAIN told : told'[i] = told[i]
            /\ told'[Len(told) + 1] = m
        BY <2>2, ToldGrows
      <3>2. \A i \in DOMAIN told : told[i] \in Alert!Spoken
        BY DEF Alert!Spoken
      <3> QED BY <3>1, <3>2
    <2> QED BY <2>1, <2>2
  <1>2. sender'[r] = x /\ \A o \in Senders \ {r} : sender'[o] = sender[o]
    BY OneMoves
  <1>3. \A o \in Senders \ {r} : sender[o].at \in Stages => Alert!Said(sender[o]) \in Alert!Spoken
    BY DEF Alert!Spoken
  <1>4. \A o \in Senders \ {r} : sender'[o].at \in Stages => Alert!Said(sender'[o]) \in Alert!Spoken
    BY <1>2, <1>3
  <1>5. Alert!Spoken' = {told'[i] : i \in DOMAIN told'}
            \cup {Alert!Said(sender'[o]) : o \in {o \in Senders : sender'[o].at \in Stages}}
    BY DEF Alert!Spoken
  <1> HIDE DEF Stages
  <1>6. ASSUME NEW n \in Alert!Spoken'
        PROVE  n \in Alert!Spoken \/ (x.at \in Stages /\ n = Alert!Said(x))
    <2>1. CASE n \in {told'[i] : i \in DOMAIN told'}
      BY <1>1, <2>1
    <2>2. CASE n \in {Alert!Said(sender'[o]) : o \in {o \in Senders : sender'[o].at \in Stages}}
      <3>1. PICK o \in Senders : sender'[o].at \in Stages /\ n = Alert!Said(sender'[o])
        BY <2>2
      <3>2. CASE o = r
        BY <1>2, <3>1, <3>2
      <3>3. CASE o # r
        BY <1>4, <3>1, <3>3
      <3> QED BY <3>2, <3>3
    <2> QED BY <1>5, <1>6, <2>1, <2>2
  <1> QED BY <1>6 DEF Stages

\* What is left to show where only a run moves.
LEMMA Assembles ==
    ASSUME Alert!AlertInv, UNCHANGED <<today, energy, climate, revision>>,
           begun' \in 0 .. MaxAlertRuns, Messages', Alert!DeliveriesKnown',
           sender' = [o \in Senders |-> sender'[o]], \A o \in Senders : Alert!RunOK(sender'[o]),
           told' \in Seq({told'[i] : i \in DOMAIN told'}),
           \A f \in ledger' : \E i \in DOMAIN told' : Alert!Fingerprint(told'[i]) = f
    PROVE  Alert!AlertInv'
  <1>1. \A i \in DOMAIN told' : Alert!Grounded(told[i])'
    <2>1. \A i \in DOMAIN told' : told'[i] \in Alert!Spoken'
      BY DEF Alert!Spoken
    <2>2. \A m \in Alert!Spoken' : Alert!Grounded(m)'
      BY DEF Messages
    <2> QED BY <2>1, <2>2 DEF Alert!Grounded
  <1>2. \A i \in DOMAIN told' : told'[i].day \in 1 .. today' /\ told'[i].days \in 1 .. MaxStreak
    BY <1>1 DEF Alert!Grounded
  <1>3. \A i \in DOMAIN told' : told'[i].day <= today'
    BY <1>2, Numbers
  <1>4. Alert!TypeOK'
    <2>1. ledger' \subseteq {Alert!Fingerprint(told'[i]) : i \in DOMAIN told'}
      OBVIOUS
    <2>2. /\ today' \in 0 .. LastAlertDay /\ revision' \in 0 .. MaxRevisions
          /\ \A d \in Alert!Days : energy'[d] \in [Inverters -> Outputs \cup {NoRow}]
      BY DEF Alert!AlertInv, Alert!TypeOK
    <2> QED BY <1>2, <1>3, <2>1, <2>2 DEF Alert!TypeOK
  <1>5. Alert!Shapes'
    BY DEF Alert!AlertInv, Alert!Shapes
  <1> QED BY <1>4, <1>5 DEF Alert!AlertInv, Messages


\* send_production_alert begins, or a run ends.
LEMMA AssessKeeps ==
    ASSUME Alert!AlertInv, NEW r \in Senders, NEW d \in Alert!Days, NEW x \in DailyExpectations,
           Alert!Assess(r, d, x)
    PROVE  Alert!AlertInv'
  <1> DEFINE m == [at |-> "counting", day |-> d, expected |-> x, reason |-> Alert!Reason(d, x),
                   says |-> Alert!Message(d, Alert!Reason(d, x)), revision |-> revision]
  <1>1. /\ sender' = [sender EXCEPT ![r] = m] /\ sender[r] = Alert!Resting
        /\ begun' = begun + 1 /\ begun < MaxAlertRuns /\ d <= today /\ Alert!Alerting(d, x)
        /\ UNCHANGED <<today, energy, climate, ledger, told, excused, revision>>
    BY DEF Alert!Assess
  <1>2. /\ m.at = "counting" /\ m.day = d /\ m.expected = x /\ m.revision = revision
        /\ m.reason = Alert!Reason(d, x) /\ Alert!RunOK(m)
    BY DEF Alert!RunOK
  <1> HIDE DEF m
  <1>3. /\ sender'[r] = m /\ sender' = [o \in Senders |-> sender'[o]]
        /\ \A o \in Senders : Alert!RunOK(sender'[o])
        /\ \A o \in Senders \ {r} : sender'[o] = sender[o]
    BY <1>1, <1>2, OneMoves
  <1>4. Alert!Spoken' \in SUBSET Alert!Spoken
    <2>1. \A o \in Senders : sender'[o].at \in {"checking", "sending", "marking"} =>
              sender'[o] = sender[o]
      BY <1>2, <1>3
    <2> QED BY <1>1, <2>1 DEF Alert!Spoken
  <1>5. Alert!Assessed(r)'
    <2>1. today \in Nat /\ revision \in Nat /\ d \in 1 .. today
      BY <1>1, Numbers DEF Alert!Days
    <2>2. RowsStep
      BY <1>1, Numbers DEF RowsStep
    <2>3. Alert!Alerting(d, x)' /\ Alert!Reason(d, x)' = Alert!Reason(d, x)
      BY <1>1, <2>1, <2>2, AsOfThatDay DEF RowsStep
    <2> QED BY <1>1, <1>2, <1>3, <2>1, <2>3 DEF Alert!Assessed
  <1>6. Messages'
    BY <1>1, <1>4, <1>5, RunMoves
  <1>7. Alert!DeliveriesKnown'
    <2>1. \A o \in Senders : sender'[o].at \in {"sending", "marking"} <=>
              sender[o].at \in {"sending", "marking"}
      BY <1>1, <1>2, <1>3 DEF Alert!Resting
    <2>2. \A o \in Senders : sender[o].at \in {"sending", "marking"} => sender'[o] = sender[o]
      BY <1>2, <1>3, <2>1
    <2> QED BY <1>1, <2>1, <2>2
            DEF Alert!AlertInv, Alert!DeliveriesKnown, Alert!InDispatch, Alert!Fingerprint
  <1>8. begun' \in 0 .. MaxAlertRuns
    BY <1>1, Numbers, AlertConstants
  <1>9. /\ told' \in Seq({told'[i] : i \in DOMAIN told'})
        /\ \A f \in ledger' : \E i \in DOMAIN told' : Alert!Fingerprint(told'[i]) = f
    BY <1>1 DEF Alert!AlertInv, Alert!Shapes, Alert!TypeOK
  <1> QED BY <1>1, <1>3, <1>6, <1>7, <1>8, <1>9, Assembles


LEMMA CountKeeps ==
    ASSUME Alert!AlertInv, NEW r \in Senders, Alert!Count(r)
    PROVE  Alert!AlertInv'
  <1> DEFINE m == sender[r]
             n == Alert!Streak(m.day, m.expected)
             x == [at |-> "checking", day |-> m.day, expected |-> m.expected,
                   reason |-> m.reason, says |-> m.says, days |-> n, stage |-> Alert!Stage(n),
                   revision |-> m.revision, steady |-> m.revision = revision]
             y == IF n = 0 THEN Alert!Resting ELSE x
  <1>1. /\ m.at = "counting" /\ sender' = [sender EXCEPT ![r] = y]
        /\ UNCHANGED <<today, energy, climate, ledger, told, excused, begun, revision>>
    BY DEF Alert!Count
  <1>2. /\ x.at = "checking" /\ x.day = m.day /\ x.expected = m.expected
        /\ x.reason = m.reason /\ x.days = n /\ x.stage = Alert!Stage(n)
        /\ x.revision = m.revision /\ x.steady = (m.revision = revision) /\ Alert!RunOK(x)
    BY DEF Alert!RunOK
  <1>3. Alert!Resting.at = "idle" /\ Alert!RunOK(Alert!Resting)
    BY DEF Alert!Resting, Alert!RunOK
  <1>4. /\ m.day \in 1 .. today /\ m.revision \in 0 .. revision
        /\ m.revision = revision => /\ Alert!Alerting(m.day, m.expected)
                                    /\ m.reason = Alert!Reason(m.day, m.expected)
    BY <1>1 DEF Alert!AlertInv, Alert!Assessed
  <1>5. n \in 0 .. MaxStreak
    <2>1. m.day \in Alert!Days
      BY <1>4, Numbers
    <2> QED BY <2>1, StreakCounts
  <1>6. n # 0 => Alert!Grounded(x)
    <2>1. n # 0 => n \in 1 .. MaxStreak
      BY <1>5, AlertConstants
    <2> HIDE DEF m, n, x
    <2> QED BY <1>2, <1>4, <2>1 DEF Alert!Grounded, n
  <1> HIDE DEF x, n, m
  <1>7. /\ y.at \in {"idle", "checking"} /\ Alert!RunOK(y)
        /\ y.at = "checking" => y = x /\ Alert!Grounded(x)
    BY <1>2, <1>3, <1>6
  <1> HIDE DEF y
  <1>8. /\ sender'[r] = y /\ sender' = [o \in Senders |-> sender'[o]]
        /\ \A o \in Senders : Alert!RunOK(sender'[o])
        /\ \A o \in Senders \ {r} : sender'[o] = sender[o]
    BY <1>1, <1>7, OneMoves
  <1>9. Alert!Assessed(r)'
    BY <1>7, <1>8 DEF Alert!Assessed
  <1>10. \A o \in Senders : sender'[o].at \in {"checking", "sending", "marking"} =>
             sender'[o] = sender[o] \/ (o = r /\ y.at = "checking")
    BY <1>7, <1>8
  <1>11. \A z \in Alert!Spoken' :
             z \in Alert!Spoken \/ (y.at = "checking" /\ z = Alert!Said(x))
    <2> TAKE z \in Alert!Spoken'
    <2>1. CASE z \in {told'[i] : i \in DOMAIN told'}
      BY <1>1, <2>1 DEF Alert!Spoken
    <2>2. ASSUME NEW o \in Senders, sender'[o].at \in {"checking", "sending", "marking"},
                 z = Alert!Said(sender'[o])
          PROVE  z \in Alert!Spoken \/ (y.at = "checking" /\ z = Alert!Said(x))
      BY <1>7, <1>8, <1>10, <2>2 DEF Alert!Spoken
    <2> QED BY <2>1, <2>2 DEF Alert!Spoken
  <1>12. Messages'
    <2>1. CASE y.at = "checking"
      <3>1. Alert!Grounded(Alert!Said(x))
        BY <1>7, <2>1, SaidFields DEF Alert!Grounded
      <3>2. Alert!Said(x).steady => Alert!Said(x).revision = revision
        BY <1>2, SaidFields
      <3>3. Alert!Spoken' \in SUBSET (Alert!Spoken \cup {Alert!Said(x)})
        BY <1>11
      <3> QED BY <1>1, <1>9, <3>1, <3>2, <3>3, RunSpeaks
    <2>2. CASE y.at # "checking"
      <3>1. Alert!Spoken' \in SUBSET Alert!Spoken
        BY <1>11, <2>2
      <3> QED BY <1>1, <1>9, <3>1, RunMoves
    <2> QED BY <2>1, <2>2
  <1>13. Alert!DeliveriesKnown'
    <2>1. \A o \in Senders : sender'[o].at \in {"sending", "marking"} <=>
              sender[o].at \in {"sending", "marking"}
      BY <1>1, <1>7, <1>8 DEF m
    <2>2. \A o \in Senders : sender[o].at \in {"sending", "marking"} => sender'[o] = sender[o]
      BY <1>1, <1>8 DEF m
    <2> QED BY <1>1, <2>1, <2>2
            DEF Alert!AlertInv, Alert!DeliveriesKnown, Alert!InDispatch, Alert!Fingerprint
  <1>14. begun' \in 0 .. MaxAlertRuns
    BY <1>1 DEF Alert!AlertInv, Alert!TypeOK
  <1>15. /\ told' \in Seq({told'[i] : i \in DOMAIN told'})
         /\ \A f \in ledger' : \E i \in DOMAIN told' : Alert!Fingerprint(told'[i]) = f
    BY <1>1 DEF Alert!AlertInv, Alert!Shapes, Alert!TypeOK
  <1> QED BY <1>1, <1>8, <1>12, <1>13, <1>14, <1>15, Assembles

\* A run is done with, whatever became of it.
LEMMA EndKeeps ==
    ASSUME Alert!AlertInv, NEW r \in Senders, sender' = [sender EXCEPT ![r] = Alert!Resting],
           UNCHANGED <<today, energy, climate, begun, revision>>,
           \/ told' = told
           \/ sender[r].at = "sending" /\ told' = Append(told, Alert!Said(sender[r]))
    PROVE  /\ Messages' /\ begun' \in 0 .. MaxAlertRuns
           /\ sender' = [o \in Senders |-> sender'[o]] /\ \A o \in Senders : Alert!RunOK(sender'[o])
           /\ told' \in Seq({told'[i] : i \in DOMAIN told'})
           /\ sender'[r].at = "idle" /\ \A o \in Senders \ {r} : sender'[o] = sender[o]
  <1>1. Alert!Resting.at = "idle" /\ Alert!RunOK(Alert!Resting)
    BY DEF Alert!Resting, Alert!RunOK
  <1>2. /\ sender'[r] = Alert!Resting /\ sender' = [o \in Senders |-> sender'[o]]
        /\ \A o \in Senders : Alert!RunOK(sender'[o])
        /\ \A o \in Senders \ {r} : sender'[o] = sender[o]
    BY <1>1, OneMoves
  <1>3. Alert!Spoken' \in SUBSET Alert!Spoken /\ told' \in Seq({told'[i] : i \in DOMAIN told'})
    <2>1. CASE told' = told
      <3>1. \A o \in Senders : sender'[o].at \in {"checking", "sending", "marking"} =>
                sender'[o] = sender[o]
        BY <1>1, <1>2
      <3>2. Alert!Spoken' \in SUBSET Alert!Spoken
        BY <2>1, <3>1 DEF Alert!Spoken
      <3> QED BY <2>1, <3>2 DEF Alert!AlertInv, Alert!Shapes
    <2>2. CASE sender[r].at = "sending" /\ told' = Append(told, Alert!Said(sender[r]))
      <3>1. Alert!Said(sender[r]) \in Alert!Spoken
        BY <2>2 DEF Alert!Spoken
      <3>2. Alert!Spoken' \in SUBSET Alert!Spoken
        BY <1>1, <2>2, <3>1, SpokenThen
      <3> QED BY <2>2, <3>2, ToldGrows
    <2> QED BY <2>1, <2>2
  <1>4. Alert!Assessed(r)'
    BY <1>1, <1>2 DEF Alert!Assessed
  <1>5. Messages'
    BY <1>3, <1>4, RunMoves
  <1>6. begun' \in 0 .. MaxAlertRuns
    BY DEF Alert!AlertInv, Alert!TypeOK
  <1> QED BY <1>1, <1>2, <1>3, <1>5, <1>6


\* dispatch_production_alert: the ledger is asked, the message sent, the ledger marked.
LEMMA CheckKeeps ==
    ASSUME Alert!AlertInv, NEW r \in Senders, Alert!Check(r)
    PROVE  Alert!AlertInv'
  <1> DEFINE f == Alert!Fingerprint(sender[r])
  <1>1. /\ sender[r].at = "checking"
        /\ UNCHANGED <<today, energy, climate, ledger, told, begun, revision>>
        /\ told' = told
    BY DEF Alert!Check
  <1>2. CASE f \in ledger
    <2>1. sender' = [sender EXCEPT ![r] = Alert!Resting] /\ excused' = excused
      BY <1>2 DEF Alert!Check
    <2>2. /\ Messages' /\ begun' \in 0 .. MaxAlertRuns
          /\ sender' = [o \in Senders |-> sender'[o]]
          /\ \A o \in Senders : Alert!RunOK(sender'[o])
          /\ told' \in Seq({told'[i] : i \in DOMAIN told'})
          /\ sender'[r].at = "idle" /\ \A o \in Senders \ {r} : sender'[o] = sender[o]
      BY <1>1, <2>1, EndKeeps
    <2>3. \A o \in Senders : sender'[o].at \in {"sending", "marking"} <=>
              sender[o].at \in {"sending", "marking"}
      BY <1>1, <2>2
    <2>4. \A o \in Senders : sender[o].at \in {"sending", "marking"} => sender'[o] = sender[o]
      BY <1>1, <2>2
    <2>5. Alert!DeliveriesKnown'
      BY <1>1, <2>1, <2>3, <2>4
         DEF Alert!AlertInv, Alert!DeliveriesKnown, Alert!InDispatch, Alert!Fingerprint
    <2>6. \A g \in ledger' : \E i \in DOMAIN told' : Alert!Fingerprint(told'[i]) = g
      BY <1>1 DEF Alert!AlertInv, Alert!TypeOK
    <2> QED BY <1>1, <2>2, <2>5, <2>6, Assembles
  <1>3. CASE f \notin ledger
    <2>1. /\ sender' = [sender EXCEPT ![r].at = "sending"]
          /\ excused' = IF \E o \in Senders : Alert!InDispatch(o)
                                              /\ Alert!Fingerprint(sender[o]) = f
                        THEN excused \cup {f} ELSE excused
      BY <1>3 DEF Alert!Check
    <2> DEFINE x == sender'[r]
    <2>2. /\ sender' = [sender EXCEPT ![r] = x]
          /\ Alert!RunOK(x) /\ x.at = "sending"
          /\ Alert!Said(x) = Alert!Said(sender[r]) /\ Alert!Fingerprint(x) = f
      BY <1>1, <2>1, NextStage
    <2> HIDE DEF x, f
    <2>3. /\ x = sender'[r] /\ sender' = [o \in Senders |-> sender'[o]]
          /\ \A o \in Senders : Alert!RunOK(sender'[o])
          /\ \A o \in Senders \ {r} : sender'[o] = sender[o]
      BY <2>2, OneMoves
    <2>4. Alert!Said(sender[r]) \in Alert!Spoken
      BY <1>1 DEF Alert!Spoken
    <2>5. Alert!Spoken' \in SUBSET Alert!Spoken
      BY <1>1, <2>2, <2>4, SpokenThen
    <2>6. Alert!Assessed(r)'
      BY <2>2, <2>3 DEF Alert!Assessed
    <2>7. Messages'
      BY <1>1, <2>2, <2>5, <2>6, RunMoves
    <2>8. Alert!DeliveriesKnown'
      <3>1. excused \subseteq excused'
            /\ \A o \in Senders : Alert!InDispatch(o) /\ Alert!Fingerprint(sender[o]) = f
                   => f \in excused'
        BY <2>1
      <3>2. \A o \in Senders \ {r} :
                /\ Alert!InDispatch(o)' = Alert!InDispatch(o)
                /\ Alert!Fingerprint(sender'[o]) = Alert!Fingerprint(sender[o])
        BY <2>3 DEF Alert!InDispatch
      <3>3. \A o \in Senders : sender'[o].at = "marking" <=> sender[o].at = "marking"
        BY <1>1, <2>2, <2>3
      <3>4. ASSUME NEW p \in Senders, NEW o \in Senders, Alert!InDispatch(p)',
                   Alert!InDispatch(o)', p # o,
                   Alert!Fingerprint(sender'[p]) = Alert!Fingerprint(sender'[o])
            PROVE  Alert!Fingerprint(sender'[p]) \in excused'
        BY <2>2, <2>3, <3>1, <3>2, <3>4 DEF Alert!AlertInv, Alert!DeliveriesKnown
      <3>5. ASSUME NEW p \in Senders, Alert!InDispatch(p)',
                   Alert!Fingerprint(sender'[p]) \in ledger'
            PROVE  Alert!Fingerprint(sender'[p]) \in excused'
        BY <1>1, <1>3, <2>2, <2>3, <3>1, <3>2, <3>5 DEF Alert!AlertInv, Alert!DeliveriesKnown
      <3>6. ASSUME NEW i \in DOMAIN told'
            PROVE  \/ Alert!Fingerprint(told'[i]) \in ledger' \cup excused'
                   \/ \E o \in Senders : /\ sender'[o].at = "marking"
                                         /\ Alert!Fingerprint(sender'[o]) =
                                                Alert!Fingerprint(told'[i])
        <4>1. \/ Alert!Fingerprint(told[i]) \in ledger \cup excused
              \/ \E o \in Senders : /\ sender[o].at = "marking"
                                    /\ Alert!Fingerprint(sender[o]) = Alert!Fingerprint(told[i])
          BY <1>1 DEF Alert!AlertInv, Alert!DeliveriesKnown
        <4>2. \A o \in Senders : sender[o].at = "marking" => o # r
          BY <1>1
        <4> QED BY <1>1, <2>3, <3>1, <3>3, <4>1, <4>2
      <3>7. \A i, j \in DOMAIN told' :
                i < j /\ Alert!Fingerprint(told'[i]) = Alert!Fingerprint(told'[j])
                    => Alert!Fingerprint(told'[i]) \in excused'
        BY <1>1, <3>1 DEF Alert!AlertInv, Alert!DeliveriesKnown
      <3>8. \A o \in Senders : sender'[o].at = "marking" =>
                \E i \in DOMAIN told' : Alert!Fingerprint(told'[i]) = Alert!Fingerprint(sender'[o])
        <4> TAKE o \in Senders
        <4> HAVE sender'[o].at = "marking"
        <4>1. o # r /\ sender[o].at = "marking" /\ sender'[o] = sender[o]
          BY <1>1, <2>3, <3>3
        <4> QED BY <1>1, <4>1 DEF Alert!AlertInv, Alert!DeliveriesKnown
      <3> QED BY <3>4, <3>5, <3>6, <3>7, <3>8 DEF Alert!DeliveriesKnown, Alert!Fingerprint
    <2>9. begun' \in 0 .. MaxAlertRuns /\ told' \in Seq({told'[i] : i \in DOMAIN told'})
      BY <1>1 DEF Alert!AlertInv, Alert!TypeOK, Alert!Shapes
    <2>10. \A g \in ledger' : \E i \in DOMAIN told' : Alert!Fingerprint(told'[i]) = g
      BY <1>1 DEF Alert!AlertInv, Alert!TypeOK
    <2> QED BY <1>1, <2>3, <2>7, <2>8, <2>9, <2>10, Assembles
  <1> QED BY <1>2, <1>3

LEMMA SendKeeps ==
    ASSUME Alert!AlertInv, NEW r \in Senders, Alert!Send(r)
    PROVE  Alert!AlertInv'
  <1> DEFINE f == Alert!Fingerprint(sender[r])
             m == Alert!Said(sender[r])
             x == sender'[r]
             n == Len(told) + 1
  <1>1. /\ sender[r].at = "sending" /\ told' = Append(told, m)
        /\ sender' = [sender EXCEPT ![r].at = "marking"]
        /\ UNCHANGED <<today, energy, climate, ledger, excused, begun, revision>>
    BY DEF Alert!Send, Alert!Accepted
  <1>2. /\ sender' = [sender EXCEPT ![r] = x]
        /\ Alert!RunOK(x) /\ x.at = "marking"
        /\ Alert!Said(x) = m /\ Alert!Fingerprint(x) = f
    BY <1>1, NextStage
  <1>3. Alert!Fingerprint(m) = f
    BY SaidFields
  <1>4. m \in Alert!Spoken
    BY <1>1 DEF Alert!Spoken
  <1> HIDE DEF x, f, m
  <1>5. /\ x = sender'[r] /\ sender' = [o \in Senders |-> sender'[o]]
        /\ \A o \in Senders : Alert!RunOK(sender'[o])
        /\ \A o \in Senders \ {r} : sender'[o] = sender[o]
    BY <1>2, OneMoves
  <1>6. /\ DOMAIN told' = DOMAIN told \cup {n} /\ told'[n] = m
        /\ Len(told) \in Nat /\ DOMAIN told = 1 .. Len(told)
        /\ \A i \in DOMAIN told : told'[i] = told[i]
        /\ told' \in Seq({told'[i] : i \in DOMAIN told'})
    BY <1>1, ToldGrows
  <1>7. Alert!Spoken' \in SUBSET Alert!Spoken
    BY <1>1, <1>2, <1>4, SpokenThen
  <1>8. Alert!Assessed(r)'
    BY <1>2, <1>5 DEF Alert!Assessed
  <1>9. Messages'
    BY <1>1, <1>2, <1>7, <1>8, RunMoves
  <1>10. f \in excused \/ \A i \in DOMAIN told : Alert!Fingerprint(told[i]) # f
    <2> SUFFICES ASSUME NEW i \in DOMAIN told, Alert!Fingerprint(told[i]) = f
                 PROVE  f \in excused
      OBVIOUS
    <2>1. Alert!InDispatch(r) /\ f = Alert!Fingerprint(sender[r])
      BY <1>1 DEF Alert!InDispatch, f
    <2>2. CASE f \in ledger
      BY <2>1, <2>2 DEF Alert!AlertInv, Alert!DeliveriesKnown
    <2>3. ASSUME NEW o \in Senders, sender[o].at = "marking", Alert!Fingerprint(sender[o]) = f
          PROVE  f \in excused
      <3>1. o # r /\ Alert!InDispatch(o)
        BY <1>1, <2>3 DEF Alert!InDispatch
      <3> QED BY <2>1, <2>3, <3>1 DEF Alert!AlertInv, Alert!DeliveriesKnown
    <2> QED BY <2>2, <2>3 DEF Alert!AlertInv, Alert!DeliveriesKnown
  <1>11. Alert!DeliveriesKnown'
    <2>1. \A o \in Senders : /\ Alert!InDispatch(o)' = Alert!InDispatch(o)
                             /\ Alert!Fingerprint(sender'[o]) = Alert!Fingerprint(sender[o])
      BY <1>1, <1>2, <1>5 DEF Alert!InDispatch, f
    <2>2. \A p, o \in Senders :
              Alert!InDispatch(p)' /\ Alert!InDispatch(o)' /\ p # o
              /\ Alert!Fingerprint(sender'[p]) = Alert!Fingerprint(sender'[o])
                  => Alert!Fingerprint(sender'[p]) \in excused'
      BY <1>1, <2>1 DEF Alert!AlertInv, Alert!DeliveriesKnown
    <2>3. \A o \in Senders : Alert!InDispatch(o)' /\ Alert!Fingerprint(sender'[o]) \in ledger'
              => Alert!Fingerprint(sender'[o]) \in excused'
      BY <1>1, <2>1 DEF Alert!AlertInv, Alert!DeliveriesKnown
    <2>4. ASSUME NEW i \in DOMAIN told'
          PROVE  \/ Alert!Fingerprint(told'[i]) \in ledger' \cup excused'
                 \/ \E o \in Senders : /\ sender'[o].at = "marking"
                                       /\ Alert!Fingerprint(sender'[o]) =
                                              Alert!Fingerprint(told'[i])
      <3>1. CASE i = n
        BY <1>2, <1>3, <1>5, <1>6, <3>1
      <3>2. CASE i \in DOMAIN told
        <4>1. \/ Alert!Fingerprint(told[i]) \in ledger \cup excused
              \/ \E o \in Senders : /\ sender[o].at = "marking"
                                    /\ Alert!Fingerprint(sender[o]) = Alert!Fingerprint(told[i])
          BY <3>2 DEF Alert!AlertInv, Alert!DeliveriesKnown
        <4>2. \A o \in Senders : sender[o].at = "marking" => sender'[o].at = "marking"
          BY <1>2, <1>5
        <4> QED BY <1>1, <1>6, <2>1, <3>2, <4>1, <4>2
      <3> QED BY <1>6, <3>1, <3>2
    <2>5. ASSUME NEW i \in DOMAIN told', NEW j \in DOMAIN told', i < j,
                 Alert!Fingerprint(told'[i]) = Alert!Fingerprint(told'[j])
          PROVE  Alert!Fingerprint(told'[i]) \in excused'
      <3>1. i \in DOMAIN told
        BY <1>6, <2>5
      <3>2. CASE j = n
        BY <1>1, <1>3, <1>6, <1>10, <2>5, <3>1, <3>2
      <3>3. CASE j \in DOMAIN told
        BY <1>1, <1>6, <2>5, <3>1, <3>3 DEF Alert!AlertInv, Alert!DeliveriesKnown
      <3> QED BY <1>6, <3>2, <3>3
    <2>6. \A o \in Senders : sender'[o].at = "marking" =>
              \E i \in DOMAIN told' : Alert!Fingerprint(told'[i]) = Alert!Fingerprint(sender'[o])
      <3> TAKE o \in Senders
      <3> HAVE sender'[o].at = "marking"
      <3>1. CASE o = r
        BY <1>2, <1>3, <1>5, <1>6, <3>1
      <3>2. CASE o # r
        <4>1. sender[o].at = "marking" /\ sender'[o] = sender[o]
          BY <1>5, <3>2
        <4>2. PICK i \in DOMAIN told :
                  Alert!Fingerprint(told[i]) = Alert!Fingerprint(sender[o])
          BY <4>1 DEF Alert!AlertInv, Alert!DeliveriesKnown
        <4> QED BY <1>6, <4>1, <4>2
      <3> QED BY <3>1, <3>2
    <2> QED BY <2>2, <2>3, <2>4, <2>5, <2>6 DEF Alert!DeliveriesKnown, Alert!Fingerprint
  <1>12. \A g \in ledger' : \E i \in DOMAIN told' : Alert!Fingerprint(told'[i]) = g
    BY <1>1, <1>6 DEF Alert!AlertInv, Alert!TypeOK
  <1>13. begun' \in 0 .. MaxAlertRuns
    BY <1>1 DEF Alert!AlertInv, Alert!TypeOK
  <1> QED BY <1>1, <1>5, <1>6, <1>9, <1>11, <1>12, <1>13, Assembles


\* How a run ends: with its mark, or its message excused, or before it sent anything.
LEMMA EndIsKnown ==
    ASSUME Alert!AlertInv, NEW r \in Senders, NEW f, f = Alert!Fingerprint(sender[r]),
           sender' = [sender EXCEPT ![r] = Alert!Resting],
           UNCHANGED <<today, energy, climate, begun, revision>>,
           \/ told' = told
           \/ /\ sender[r].at = "sending" /\ told' = Append(told, Alert!Said(sender[r]))
              /\ f \in excused',
           excused \subseteq excused',
           ledger' = ledger \/ (sender[r].at = "marking" /\ ledger' = ledger \cup {f}),
           sender[r].at = "marking" => f \in ledger' \cup excused'
    PROVE  Alert!AlertInv'
  <1>1. /\ Messages' /\ begun' \in 0 .. MaxAlertRuns
        /\ sender' = [o \in Senders |-> sender'[o]] /\ \A o \in Senders : Alert!RunOK(sender'[o])
        /\ told' \in Seq({told'[i] : i \in DOMAIN told'})
        /\ sender'[r].at = "idle" /\ \A o \in Senders \ {r} : sender'[o] = sender[o]
    BY EndKeeps
  <1>2. /\ DOMAIN told \subseteq DOMAIN told'
        /\ \A i \in DOMAIN told : told'[i] = told[i]
        /\ \A i \in DOMAIN told' \ DOMAIN told :
               Alert!Fingerprint(told'[i]) = f /\ f \in excused'
        /\ \A i \in DOMAIN told', j \in DOMAIN told' :
               i < j /\ j \in DOMAIN told => i \in DOMAIN told
    <2>1. CASE told' = told
      BY <2>1
    <2>2. CASE told' = Append(told, Alert!Said(sender[r])) /\ f \in excused'
      <3>1. /\ DOMAIN told' = DOMAIN told \cup {Len(told) + 1} /\ Len(told) \in Nat
            /\ DOMAIN told = 1 .. Len(told)
            /\ \A i \in DOMAIN told : told'[i] = told[i]
            /\ told'[Len(told) + 1] = Alert!Said(sender[r])
        BY <2>2, ToldGrows
      <3>2. Alert!Fingerprint(Alert!Said(sender[r])) = f
        BY SaidFields
      <3>3. \A i \in DOMAIN told' \ DOMAIN told : i = Len(told) + 1
        BY <3>1
      <3>4. \A i \in DOMAIN told' \ DOMAIN told :
                Alert!Fingerprint(told'[i]) = f /\ f \in excused'
        BY <2>2, <3>1, <3>2, <3>3
      <3>5. \A i \in DOMAIN told', j \in DOMAIN told' :
                i < j /\ j \in DOMAIN told => i \in DOMAIN told
        BY <3>1
      <3> QED BY <3>1, <3>4, <3>5
    <2> QED BY <2>1, <2>2
  <1>3. \A o \in Senders : Alert!InDispatch(o)' => /\ o # r /\ Alert!InDispatch(o)
                                                   /\ sender'[o] = sender[o]
    BY <1>1 DEF Alert!InDispatch
  <1>4. Alert!InDispatch(r) \/ sender[r].at # "marking"
    BY DEF Alert!InDispatch
  <1>5. Alert!DeliveriesKnown'
    <2>1. ASSUME NEW p \in Senders, NEW o \in Senders, Alert!InDispatch(p)',
                 Alert!InDispatch(o)', p # o,
                 Alert!Fingerprint(sender'[p]) = Alert!Fingerprint(sender'[o])
          PROVE  Alert!Fingerprint(sender'[p]) \in excused'
      BY <1>3, <2>1 DEF Alert!AlertInv, Alert!DeliveriesKnown
    <2>2. ASSUME NEW o \in Senders, Alert!InDispatch(o)',
                 Alert!Fingerprint(sender'[o]) \in ledger'
          PROVE  Alert!Fingerprint(sender'[o]) \in excused'
      <3>1. o # r /\ Alert!InDispatch(o) /\ sender'[o] = sender[o]
        BY <1>3, <2>2
      <3>2. CASE Alert!Fingerprint(sender[o]) \in ledger
        BY <3>1, <3>2 DEF Alert!AlertInv, Alert!DeliveriesKnown
      <3>3. CASE sender[r].at = "marking" /\ Alert!Fingerprint(sender[o]) = f
        BY <1>4, <3>1, <3>3 DEF Alert!AlertInv, Alert!DeliveriesKnown
      <3> QED BY <2>2, <3>1, <3>2, <3>3
    <2>3. ASSUME NEW i \in DOMAIN told'
          PROVE  \/ Alert!Fingerprint(told'[i]) \in ledger' \cup excused'
                 \/ \E o \in Senders : /\ sender'[o].at = "marking"
                                       /\ Alert!Fingerprint(sender'[o]) =
                                              Alert!Fingerprint(told'[i])
      <3>1. CASE i \in DOMAIN told
        <4>1. \/ Alert!Fingerprint(told[i]) \in ledger \cup excused
              \/ \E o \in Senders : /\ sender[o].at = "marking"
                                    /\ Alert!Fingerprint(sender[o]) = Alert!Fingerprint(told[i])
          BY <3>1 DEF Alert!AlertInv, Alert!DeliveriesKnown
        <4>2. ASSUME NEW o \in Senders, sender[o].at = "marking",
                     Alert!Fingerprint(sender[o]) = Alert!Fingerprint(told[i])
              PROVE  \/ Alert!Fingerprint(told[i]) \in ledger' \cup excused'
                     \/ sender'[o].at = "marking" /\ sender'[o] = sender[o]
          BY <1>1, <4>2
        <4> QED BY <1>2, <3>1, <4>1, <4>2
      <3>2. CASE i \notin DOMAIN told
        BY <1>2, <3>2
      <3> QED BY <3>1, <3>2
    <2>4. ASSUME NEW i \in DOMAIN told', NEW j \in DOMAIN told', i < j,
                 Alert!Fingerprint(told'[i]) = Alert!Fingerprint(told'[j])
          PROVE  Alert!Fingerprint(told'[i]) \in excused'
      <3>1. CASE j \in DOMAIN told
        BY <1>2, <2>4, <3>1 DEF Alert!AlertInv, Alert!DeliveriesKnown
      <3>2. CASE j \notin DOMAIN told
        BY <1>2, <2>4, <3>2
      <3> QED BY <3>1, <3>2
    <2>5. \A o \in Senders : sender'[o].at = "marking" =>
              \E i \in DOMAIN told' : Alert!Fingerprint(told'[i]) = Alert!Fingerprint(sender'[o])
      <3> TAKE o \in Senders
      <3> HAVE sender'[o].at = "marking"
      <3>1. sender[o].at = "marking" /\ sender'[o] = sender[o]
        BY <1>1
      <3>2. PICK i \in DOMAIN told :
                Alert!Fingerprint(told[i]) = Alert!Fingerprint(sender[o])
        BY <3>1 DEF Alert!AlertInv, Alert!DeliveriesKnown
      <3> QED BY <1>2, <3>1, <3>2
    <2> QED BY <2>1, <2>2, <2>3, <2>4, <2>5 DEF Alert!DeliveriesKnown, Alert!Fingerprint
  <1>6. \A g \in ledger' : \E i \in DOMAIN told' : Alert!Fingerprint(told'[i]) = g
    <2>1. \A g \in ledger : \E i \in DOMAIN told : Alert!Fingerprint(told[i]) = g
      BY DEF Alert!AlertInv, Alert!TypeOK
    <2>2. sender[r].at = "marking" => \E i \in DOMAIN told : Alert!Fingerprint(told[i]) = f
      BY DEF Alert!AlertInv, Alert!DeliveriesKnown
    <2>3. \A g \in ledger' : \E i \in DOMAIN told : Alert!Fingerprint(told[i]) = g
      BY <2>1, <2>2
    <2> QED BY <1>2, <2>3
  <1> QED BY <1>1, <1>5, <1>6, Assembles

LEMMA EndsKeep ==
    ASSUME Alert!AlertInv, NEW r \in Senders,
           Alert!SendLost(r) \/ Alert!Mark(r) \/ Alert!Fail(r)
    PROVE  Alert!AlertInv'
  <1>1. CASE Alert!SendLost(r)
    <2>1. /\ sender[r].at = "sending" /\ told' = Append(told, Alert!Said(sender[r]))
          /\ excused' = excused \cup {Alert!Fingerprint(sender[r])}
          /\ sender' = [sender EXCEPT ![r] = Alert!Resting]
          /\ ledger' = ledger /\ UNCHANGED <<today, energy, climate, begun, revision>>
      BY <1>1 DEF Alert!SendLost, Alert!Accepted
    <2> QED BY <2>1, EndIsKnown
  <1>2. CASE Alert!Mark(r)
    <2>1. /\ sender[r].at = "marking" /\ told' = told /\ excused' = excused
          /\ sender' = [sender EXCEPT ![r] = Alert!Resting]
          /\ ledger' = ledger \cup {Alert!Fingerprint(sender[r])}
          /\ UNCHANGED <<today, energy, climate, begun, revision>>
      BY <1>2 DEF Alert!Mark
    <2> QED BY <2>1, EndIsKnown
  <1>3. CASE Alert!Fail(r)
    <2>1. /\ told' = told
          /\ excused' = IF sender[r].at = "marking"
                        THEN excused \cup {Alert!Fingerprint(sender[r])} ELSE excused
          /\ sender' = [sender EXCEPT ![r] = Alert!Resting]
          /\ ledger' = ledger /\ UNCHANGED <<today, energy, climate, begun, revision>>
      BY <1>3 DEF Alert!Fail
    <2>2. /\ excused \subseteq excused'
          /\ sender[r].at = "marking" => Alert!Fingerprint(sender[r]) \in ledger' \cup excused'
      BY <2>1
    <2> QED BY <2>1, <2>2, EndIsKnown
  <1> QED BY <1>1, <1>2, <1>3

\* A day passes, or what is stored of one is corrected.
LEMMA DaysKeep ==
    ASSUME Alert!AlertInv, RowsStep, today' \in 0 .. LastAlertDay, revision' \in 0 .. MaxRevisions,
           energy' = [d \in Alert!Days |-> energy'[d]], climate' = [d \in Alert!Days |-> climate'[d]],
           \A d \in Alert!Days : energy'[d] \in [Inverters -> Outputs \cup {NoRow}],
           UNCHANGED <<ledger, sender, told, excused, begun>>
    PROVE  Alert!AlertInv'
  <1>1. Messages'
    BY RowsMove
  <1>2. Alert!DeliveriesKnown'
    BY DEF Alert!AlertInv, Alert!DeliveriesKnown, Alert!InDispatch, Alert!Fingerprint
  <1>3. Alert!Shapes'
    BY DEF Alert!AlertInv, Alert!Shapes, Alert!RunOK
  <1>4. \A i \in DOMAIN told' : told'[i].day <= today' /\ told'[i].days \in 1 .. MaxStreak
    <2>1. \A i \in DOMAIN told' : told'[i] \in Alert!Spoken'
      BY DEF Alert!Spoken
    <2>2. \A m \in Alert!Spoken' : m.day \in 1 .. today' /\ m.days \in 1 .. MaxStreak
      BY <1>1 DEF Messages, Alert!Grounded
    <2> QED BY <2>1, <2>2, AlertConstants
  <1>5. Alert!TypeOK'
    <2>1. ledger' \subseteq {Alert!Fingerprint(told'[i]) : i \in DOMAIN told'}
          /\ begun' \in 0 .. MaxAlertRuns
      BY DEF Alert!AlertInv, Alert!TypeOK
    <2> QED BY <1>4, <2>1 DEF Alert!TypeOK, Alert!Fingerprint
  <1> QED BY <1>1, <1>2, <1>3, <1>5 DEF Alert!AlertInv, Messages


LEMMA NewDayKeeps ==
    ASSUME Alert!AlertInv, NEW outputs \in [Inverters -> Outputs \cup {NoRow}], NEW sky \in Skies,
           Alert!NewDay(outputs, sky)
    PROVE  Alert!AlertInv'
  <1>1. /\ today < LastAlertDay /\ today' = today + 1
        /\ energy' = [energy EXCEPT ![today + 1] = outputs]
        /\ climate' = [climate EXCEPT ![today + 1] = sky]
        /\ UNCHANGED <<ledger, sender, told, excused, begun, revision>>
    BY DEF Alert!NewDay
  <1>2. /\ today \in Nat /\ LastAlertDay \in Nat /\ revision \in 0 .. MaxRevisions
        /\ \A d \in Alert!Days : energy[d] \in [Inverters -> Outputs \cup {NoRow}]
        /\ energy = [d \in Alert!Days |-> energy[d]]
        /\ climate = [d \in Alert!Days |-> climate[d]]
    BY Numbers, AlertConstants DEF Alert!AlertInv, Alert!TypeOK, Alert!Shapes
  <1>3. \A d \in Alert!Days : d <= today => energy'[d] = energy[d] /\ climate'[d] = climate[d]
    BY <1>1, <1>2 DEF Alert!Days
  <1>4. RowsStep
    BY <1>1, <1>2, <1>3 DEF RowsStep
  <1>5. /\ energy' = [d \in Alert!Days |-> energy'[d]]
        /\ climate' = [d \in Alert!Days |-> climate'[d]]
        /\ \A d \in Alert!Days : energy'[d] \in [Inverters -> Outputs \cup {NoRow}]
    BY <1>1, <1>2
  <1>6. today' \in 0 .. LastAlertDay /\ revision' \in 0 .. MaxRevisions
    BY <1>1, <1>2
  <1> QED BY <1>1, <1>4, <1>5, <1>6, DaysKeep

LEMMA CorrectKeeps ==
    ASSUME Alert!AlertInv, NEW d \in Alert!Days, NEW i \in Inverters, NEW kwh \in Outputs,
           Alert!Correct(d, i, kwh)
    PROVE  Alert!AlertInv'
  <1>1. /\ revision < MaxRevisions /\ revision' = revision + 1
        /\ energy' = [energy EXCEPT ![d][i] = kwh]
        /\ UNCHANGED <<today, climate, ledger, sender, told, excused, begun>>
    BY DEF Alert!Correct
  <1>2. /\ today \in 0 .. LastAlertDay /\ today \in Nat /\ revision \in Nat /\ MaxRevisions \in Nat
        /\ \A e \in Alert!Days : energy[e] \in [Inverters -> Outputs \cup {NoRow}]
        /\ energy = [e \in Alert!Days |-> energy[e]]
        /\ climate = [e \in Alert!Days |-> climate[e]]
    BY Numbers, AlertConstants DEF Alert!AlertInv, Alert!TypeOK, Alert!Shapes
  <1>3. RowsStep
    BY <1>1, <1>2 DEF RowsStep
  <1>4. /\ energy' = [e \in Alert!Days |-> energy'[e]]
        /\ climate' = [e \in Alert!Days |-> climate'[e]]
        /\ \A e \in Alert!Days : energy'[e] \in [Inverters -> Outputs \cup {NoRow}]
    BY <1>1, <1>2
  <1>5. today' \in 0 .. LastAlertDay /\ revision' \in 0 .. MaxRevisions
    BY <1>1, <1>2
  <1> QED BY <1>1, <1>3, <1>4, <1>5, DaysKeep

LEMMA ObserveKeeps ==
    ASSUME Alert!AlertInv, NEW d \in Alert!Days, NEW sky \in Skies, Alert!Observe(d, sky)
    PROVE  Alert!AlertInv'
  <1>1. /\ revision < MaxRevisions /\ revision' = revision + 1
        /\ climate' = [climate EXCEPT ![d] = sky]
        /\ UNCHANGED <<today, energy, ledger, sender, told, excused, begun>>
    BY DEF Alert!Observe
  <1>2. /\ today \in 0 .. LastAlertDay /\ today \in Nat /\ revision \in Nat /\ MaxRevisions \in Nat
        /\ \A e \in Alert!Days : energy[e] \in [Inverters -> Outputs \cup {NoRow}]
        /\ energy = [e \in Alert!Days |-> energy[e]]
        /\ climate = [e \in Alert!Days |-> climate[e]]
    BY Numbers, AlertConstants DEF Alert!AlertInv, Alert!TypeOK, Alert!Shapes
  <1>3. RowsStep
    BY <1>1, <1>2 DEF RowsStep
  <1>4. /\ energy' = [e \in Alert!Days |-> energy'[e]]
        /\ climate' = [e \in Alert!Days |-> climate'[e]]
        /\ \A e \in Alert!Days : energy'[e] \in [Inverters -> Outputs \cup {NoRow}]
    BY <1>1, <1>2
  <1>5. today' \in 0 .. LastAlertDay /\ revision' \in 0 .. MaxRevisions
    BY <1>1, <1>2
  <1> QED BY <1>1, <1>3, <1>4, <1>5, DaysKeep

LEMMA AlertStart == Alert!Init => Alert!AlertInv
  <1> SUFFICES ASSUME Alert!Init PROVE Alert!AlertInv
    OBVIOUS
  <1>1. Alert!Spoken = {}
    BY DEF Alert!Init, Alert!Spoken, Alert!Resting
  <1>2. Alert!TypeOK
    BY AlertConstants DEF Alert!Init, Alert!TypeOK, Alert!Unread
  <1>3. Alert!Shapes
    <2>1. told = <<>>
      BY DEF Alert!Init
    <2>2. told \in Seq({told[i] : i \in DOMAIN told})
      BY <2>1
    <2> QED BY <2>2 DEF Alert!Init, Alert!Shapes, Alert!RunOK
  <1>4. Alert!DeliveriesKnown /\ \A r \in Senders : Alert!Assessed(r)
    BY DEF Alert!Init, Alert!DeliveriesKnown, Alert!InDispatch, Alert!Assessed, Alert!Resting
  <1> QED BY <1>1, <1>2, <1>3, <1>4 DEF Alert!AlertInv

LEMMA AlertStep == ASSUME Alert!AlertInv, Alert!Next PROVE Alert!AlertInv'
  BY NewDayKeeps, CorrectKeeps, ObserveKeeps, AssessKeeps, CountKeeps, CheckKeeps, SendKeeps,
     EndsKeep, Zenon DEF Alert!Next

LEMMA AlertStays == ASSUME Alert!AlertInv, UNCHANGED vars PROVE Alert!AlertInv'
  <1>1. RowsStep /\ UNCHANGED <<sender, told, ledger, excused, begun>>
    BY Numbers DEF RowsStep, vars
  <1>2. /\ today' \in 0 .. LastAlertDay /\ revision' \in 0 .. MaxRevisions
        /\ energy' = [d \in Alert!Days |-> energy'[d]]
        /\ climate' = [d \in Alert!Days |-> climate'[d]]
        /\ \A d \in Alert!Days : energy'[d] \in [Inverters -> Outputs \cup {NoRow}]
    BY DEF vars, Alert!AlertInv, Alert!TypeOK, Alert!Shapes
  <1> QED BY <1>1, <1>2, DaysKeep

LEMMA AlertInvHolds == MCSpec => [](InAlert => Alert!AlertInv)
  <1>1. MCInit => (InAlert => Alert!AlertInv)
    BY AlertStart DEF MCInit, InAlert
  <1>2. (InAlert => Alert!AlertInv) /\ [MCNext]_vars => (InAlert => Alert!AlertInv)'
    <2> SUFFICES ASSUME InAlert => Alert!AlertInv, [MCNext]_vars, InAlert'
                 PROVE  Alert!AlertInv'
      OBVIOUS
    <2>1. InAlert
      BY PartKept DEF InAlert
    <2>2. CASE MCNext
      BY <2>1, <2>2, AlertSteps, AlertStep
    <2>3. CASE UNCHANGED vars
      BY <2>1, <2>3, AlertStays
    <2> QED BY <2>2, <2>3
  <1> QED BY <1>1, <1>2, PTL DEF MCSpec


\* Yields that are known of an inverter are known of the plant, so that a plant nobody
\* can judge has no inverter that is judged.
LEMMA PlantKnowsMore ==
    ASSUME NEW d \in Alert!Days, NEW i \in Inverters, Alert!DeviceStands(i, d) # "unknown"
    PROVE  Alert!Sunny(d) /\ Alert!Enough(Alert!PlantDays(d))
  <1>1. Alert!Sunny(d) /\ Alert!Enough(Alert!DeviceDays(i, d))
    BY DEF Alert!DeviceStands
  <1>2. Alert!DeviceDays(i, d) \subseteq Alert!PlantDays(d)
    BY DEF Alert!DeviceDays, Alert!PlantDays, Alert!Reporting
  <1>3. IsFiniteSet(Alert!PlantDays(d))
    <2>1. Alert!PlantDays(d) \subseteq 1 .. LastAlertDay
      BY DEF Alert!PlantDays, Alert!History, Alert!Days
    <2>2. IsFiniteSet(1 .. LastAlertDay)
      BY AlertConstants, FS_Interval
    <2> QED BY <2>1, <2>2, FS_Subset
  <1>4. /\ Cardinality(Alert!DeviceDays(i, d)) \in Nat
        /\ Cardinality(Alert!PlantDays(d)) \in Nat
        /\ Cardinality(Alert!DeviceDays(i, d)) <= Cardinality(Alert!PlantDays(d))
    BY <1>2, <1>3, FS_Subset, FS_CardinalityType
  <1>5. Cardinality(Alert!PlantDays(d)) >= MinSample
    BY <1>1, <1>4, AlertConstants DEF Alert!Enough, Alert!Cardinality, Cardinality
  <1> QED BY <1>1, <1>5 DEF Alert!Enough, Alert!Cardinality, Cardinality

\* Silence about a day that missed its target rests on evidence.
LEMMA SilenceIsEvident ==
    ASSUME Alert!AlertInv
    PROVE  Alert!SilenceHasEvidence
  <1> SUFFICES ASSUME NEW d \in 1 .. today, NEW x \in DailyExpectations,
                      Alert!Reporting(d) # {}, Alert!BelowExpected(d, x), ~Alert!Alerting(d, x)
               PROVE  /\ \/ Alert!PlantStands(d) = "normal"
                         \/ Alert!Enough(Alert!PlantDays(d)) /\ Alert!PlantMedian(d) = 0
                      /\ Alert!Dropped(d) = {}
    BY DEF Alert!SilenceHasEvidence
  <1>1. d \in Alert!Days
    BY Numbers
  <1>2. Alert!Reason(d, x) = "NONE"
    BY <1>1 DEF Alert!Alerting
  <1>3. Alert!Dropped(d) = {}
    BY <1>2 DEF Alert!Reason, Alert!DeviceDropReason
  <1>4. \/ Alert!PlantStands(d) = "normal"
        \/ Alert!PlantStands(d) # "dropped" /\ ~Alert!NothingKnown(d)
    BY <1>2, <1>3 DEF Alert!Reason, Alert!DeviceDropReason
  <1>5. Alert!PlantStands(d) \in {"unknown", "dropped", "normal"}
    BY DEF Alert!PlantStands, Alert!Standing
  <1>6. CASE Alert!PlantStands(d) = "unknown" /\ ~Alert!NothingKnown(d)
    <2>1. PICK i \in Inverters : Alert!DeviceStands(i, d) # "unknown"
      BY <1>6 DEF Alert!NothingKnown
    <2>2. Alert!Sunny(d) /\ Alert!Enough(Alert!PlantDays(d))
      BY <1>1, <2>1, PlantKnowsMore
    <2> QED BY <1>3, <1>6, <2>2 DEF Alert!PlantStands, Alert!Standing
  <1> QED BY <1>3, <1>4, <1>5, <1>6

\* One message a day, and the second of two days in a row says so.
LEMMA MessagesAgree ==
    ASSUME Alert!AlertInv
    PROVE  Alert!OneMessageADay /\ Alert!SecondDayEscalates
  <1>1. \A i \in DOMAIN told : told[i] \in Alert!Spoken
    BY DEF Alert!Spoken
  <1>2. \A i, j \in DOMAIN told : Alert!Agree(told[i], told[j])
    BY <1>1 DEF Alert!AlertInv
  <1>3. \A i \in DOMAIN told : Alert!Grounded(told[i])
    BY <1>1 DEF Alert!AlertInv
  <1>4. ASSUME NEW i \in DOMAIN told, NEW j \in DOMAIN told, i < j, told[i].day = told[j].day
        PROVE  \/ /\ Alert!Fingerprint(told[i]) = Alert!Fingerprint(told[j])
                  /\ Alert!Fingerprint(told[i]) \in excused
               \/ /\ Alert!Fingerprint(told[i]) # Alert!Fingerprint(told[j])
                  /\ \/ told[i].expected # told[j].expected
                     \/ ~told[i].steady \/ ~told[j].steady
                     \/ told[i].revision # told[j].revision
    <2>1. CASE Alert!Fingerprint(told[i]) = Alert!Fingerprint(told[j])
      BY <1>4, <2>1 DEF Alert!AlertInv, Alert!DeliveriesKnown
    <2>2. CASE Alert!Fingerprint(told[i]) # Alert!Fingerprint(told[j])
      <3> SUFFICES ASSUME told[i].expected = told[j].expected, told[i].steady, told[j].steady,
                          told[i].revision = told[j].revision
                   PROVE  FALSE
        BY <2>2
      <3>1. told[i].reason = told[j].reason /\ told[i].days = told[j].days
        BY <1>2, <1>4 DEF Alert!Agree
      <3>2. told[i].stage = told[j].stage
        BY <1>3, <3>1 DEF Alert!Grounded
      <3> QED BY <1>4, <2>2, <3>1, <3>2 DEF Alert!Fingerprint
    <2> QED BY <2>1, <2>2
  <1>5. ASSUME NEW i \in DOMAIN told, NEW j \in DOMAIN told, told[j].day = told[i].day + 1,
               told[i].expected = told[j].expected, told[i].steady, told[j].steady,
               told[i].revision = told[j].revision
        PROVE  told[j].stage = "escalated"
    <2>1. told[j].days >= 2
      BY <1>2, <1>5 DEF Alert!Agree
    <2> QED BY <1>3, <2>1 DEF Alert!Grounded, Alert!Stage
  <1> QED BY <1>4, <1>5 DEF Alert!OneMessageADay, Alert!SecondDayEscalates


-----------------------------------------------------------------------------
(* The analysis of the recent days: intelligence/anomaly_service.py and      *)
(* alerts/candidates.py.                                                     *)

\* The state by its names; the days and what they produced are s1 and s2 here too.
sun == s3
runner == s4
queued == s5
found == s6
USE DEF sun, runner, queued, found

\* A step of a behaviour about this analysis is one of the analysis.
LEMMA AnomalySteps == ASSUME InAnomaly, MCNext PROVE Anomaly!Next
  <1>1. /\ ~InOutbox /\ ~InPipeline /\ ~InDaily /\ ~InPv /\ ~InDash /\ ~InAlert
        /\ ~InTariff /\ ~InMarket /\ ~InCycle /\ ~InUtility
    BY DEF InOutbox, InPipeline, InDaily, InPv, InDash, InAlert, InAnomaly, InTariff,
           InMarket, InCycle, InUtility
  <1> QED BY <1>1, ZenonT(60) DEF MCNext, Anomaly!Next

LEMMA AnomalyConstants ==
    /\ LastAlertDay \in Nat /\ AnomalyDays \in Nat /\ Expected \in Nat
    /\ MaxAlertRuns \in Nat /\ MaxRevisions \in Nat
  BY ConstantsOfParts DEF Anomaly!ConstantsOK

\* The days a day is compared with are the same in every window that shows it.
LEMMA WindowsAgree == Anomaly!JudgedAlike
  <1> SUFFICES ASSUME NEW v \in Anomaly!Windows, NEW w \in Anomaly!Windows,
                      NEW d \in (v[1] .. v[2]) \cap (w[1] .. w[2])
               PROVE  Anomaly!Deviation(v[1], v[2], d, energy, sun) =
                          Anomaly!Deviation(w[1], w[2], d, energy, sun)
    BY DEF Anomaly!JudgedAlike
  <1> DEFINE K(u) == Anomaly!Lit(Anomaly!HistoryStart(u[1]) .. u[2], energy, sun)
             B(u) == {e \in K(u) : d - 1 <= e /\ e < d}
             M(u) == Anomaly!Median([e \in B(u) |-> Anomaly!Yield(e, energy, sun)])
  <1>1. /\ v[1] \in Nat /\ v[2] \in Nat /\ w[1] \in Nat /\ w[2] \in Nat /\ d \in Int
        /\ v[1] <= d /\ d <= v[2] /\ w[1] <= d /\ d <= w[2] /\ Anomaly!Days \subseteq Int
    BY AnomalyConstants DEF Anomaly!Windows, Anomaly!Days
  <1>2. \A e \in Anomaly!Days : d - 1 <= e /\ e <= d =>
            /\ e \in (v[1] - 1) .. v[2] /\ e \in (w[1] - 1) .. w[2]
    BY <1>1
  <1>3. \A e : d - 1 <= e /\ e <= d => (e \in K(v) <=> e \in K(w))
    BY <1>2 DEF Anomaly!Lit, Anomaly!Produced, Anomaly!HistoryStart
  <1>4. d \in K(v) <=> d \in K(w)
    BY <1>1, <1>3
  <1>5. B(v) = B(w)
    <2>1. \A e : e \in K(v) \/ e \in K(w) => e \in Int
      BY <1>1 DEF Anomaly!Lit, Anomaly!Produced
    <2>2. \A e \in Int : e < d => e <= d
      BY <1>1
    <2> HIDE DEF K
    <2> QED BY <1>3, <2>1, <2>2
  <1>6. \A u \in {v, w} :
            Anomaly!Deviation(u[1], u[2], d, energy, sun) =
                IF d \notin K(u) \/ Anomaly!Cardinality(B(u)) < MinSample THEN NoRow
                ELSE IF M(u) <= 0 THEN NoRow
                ELSE (100 * (Anomaly!Yield(d, energy, sun) - M(u))) \div M(u)
    BY DEF Anomaly!Deviation
  <1>7. M(v) = M(w)
    BY <1>5
  <1> HIDE DEF K, B, M
  <1> QED BY <1>4, <1>5, <1>6, <1>7

\* Of some levels one is the worst.
LEMMA WorstLevel ==
    ASSUME NEW S \in SUBSET Anomaly!Levels, S # {}
    PROVE  \E x \in S : \A y \in S : Anomaly!Order(y) <= Anomaly!Order(x)
  <1>1. /\ Anomaly!Order("NORMAL") = 0 /\ Anomaly!Order("ATTENTION") = 1
        /\ Anomaly!Order("ANOMALY") = 2 /\ Anomaly!Order("CRITICAL") = 3
    BY DEF Anomaly!Order
  <1>2. \A y \in S : y = "NORMAL" \/ y = "ATTENTION" \/ y = "ANOMALY" \/ y = "CRITICAL"
    BY DEF Anomaly!Levels
  <1>3. CASE "CRITICAL" \in S
    BY <1>1, <1>2, <1>3
  <1>4. CASE "CRITICAL" \notin S /\ "ANOMALY" \in S
    BY <1>1, <1>2, <1>4
  <1>5. CASE "CRITICAL" \notin S /\ "ANOMALY" \notin S /\ "ATTENTION" \in S
    BY <1>1, <1>2, <1>5
  <1>6. CASE "CRITICAL" \notin S /\ "ANOMALY" \notin S /\ "ATTENTION" \notin S
    BY <1>1, <1>2, <1>6
  <1> QED BY <1>3, <1>4, <1>5, <1>6

LEMMA WorstIsLevel ==
    ASSUME NEW first, NEW last, NEW energies, Anomaly!Produced(first .. last, energies) # {}
    PROVE  Anomaly!Worst(first, last, energies) \in Anomaly!Levels
  <1> DEFINE days == Anomaly!Produced(first .. last, energies)
             S == {Anomaly!Level(energies[d]) : d \in days}
  <1>1. \A p : Anomaly!Level(p) \in Anomaly!Levels
    BY DEF Anomaly!Level, Anomaly!Levels
  <1>2. S \in SUBSET Anomaly!Levels /\ S # {}
    BY <1>1
  <1>3. PICK x \in S : \A y \in S : Anomaly!Order(y) <= Anomaly!Order(x)
    BY <1>2, WorstLevel
  <1>4. \A d \in days : Anomaly!Order(Anomaly!Level(energies[d])) <= Anomaly!Order(x)
    BY <1>3
  <1>5. Anomaly!Worst(first, last, energies) \in S
    BY <1>4 DEF Anomaly!Worst
  <1> QED BY <1>2, <1>5

\* The streak of a window has at most its days.
LEMMA StreakFits ==
    ASSUME NEW last \in Nat, NEW energies
    PROVE  Anomaly!Streak(last - AnomalyDays + 1, last, energies) \in 0 .. AnomalyDays
  <1> DEFINE first == last - AnomalyDays + 1
             days == Anomaly!Produced(first .. last, energies)
             bad == {d \in days : \A e \in days : d <= e => Anomaly!Low(e, energies)}
  <1>1. bad \subseteq first .. last
    BY DEF Anomaly!Produced
  <1>2. IsFiniteSet(first .. last) /\ Cardinality(first .. last) = AnomalyDays
    BY AnomalyConstants, FS_Interval
  <1>3. Cardinality(bad) \in Nat /\ Cardinality(bad) <= AnomalyDays
    BY <1>1, <1>2, FS_Subset, FS_CardinalityType
  <1>4. Anomaly!Streak(first, last, energies) = Cardinality(bad)
    BY DEF Anomaly!Streak, Anomaly!Cardinality, Cardinality
  <1> QED BY <1>3, <1>4, AnomalyConstants

LEMMA Severities ==
    /\ \A x : Anomaly!Severity(x) \in {"INFO", "WARNING", "CRITICAL"}
    /\ \A x \in Anomaly!Levels : x # "NORMAL" => Anomaly!Severity(x) # "INFO"
  BY DEF Anomaly!Severity, Anomaly!Levels


\* A runner leaves the others alone.
LEMMA RunnerMoves ==
    ASSUME Anomaly!AnomalyInv, NEW r \in Senders, NEW x, runner' = [runner EXCEPT ![r] = x],
           Anomaly!RunOK(x, today), UNCHANGED today
    PROVE  runner' = [o \in Senders |-> runner'[o]] /\ \A o \in Senders : Anomaly!RunOK(runner'[o], today')
  <1>1. runner = [o \in Senders |-> runner[o]] /\ \A o \in Senders : Anomaly!RunOK(runner[o], today)
    BY DEF Anomaly!AnomalyInv
  <1>2. runner' = [o \in Senders |-> runner'[o]]
    BY <1>1
  <1>3. \A o \in Senders : runner'[o] = IF o = r THEN x ELSE runner[o]
    BY <1>1
  <1>4. \A o \in Senders : Anomaly!RunOK(runner'[o], today')
    BY <1>1, <1>3
  <1> QED BY <1>2, <1>4 DEF Anomaly!RunOK

LEMMA QueueKeeps ==
    ASSUME Anomaly!AnomalyInv, NEW r \in Senders, NEW diagnosed, Anomaly!Queue(r, diagnosed)
    PROVE  Anomaly!AnomalyInv'
  <1> DEFINE last == runner[r].last
             energies == runner[r].energies
             first == last - AnomalyDays + 1
             days == Anomaly!Produced(first .. last, energies)
             worst == Anomaly!Worst(first, last, energies)
             streak == Anomaly!Streak(first, last, energies)
             alert == Anomaly!AnomalyAlert(first, last, energies, sun)
             daily == Anomaly!DailyAlerts(first, last, energies, sun)
             bills == {Anomaly!ExecutiveAlert(d) : d \in diagnosed}
             severe == {a \in daily \cup bills : a.severity # "INFO"}
             known == {a.fingerprint : a \in queued}
             turn == [last |-> last, worst |-> worst, streak |-> streak]
  <1>1. /\ runner[r].at = "climate"
        /\ queued' = queued \cup {a \in severe : a.fingerprint \notin known}
        /\ found' = found \cup (IF days = {} THEN {} ELSE {turn})
        /\ runner' = [runner EXCEPT ![r] = Anomaly!Resting]
        /\ UNCHANGED <<today, energy, sun, s7, s8>>
    BY DEF Anomaly!Queue
  <1>2. last \in 1 .. today /\ last \in Nat
    <2>1. Anomaly!RunOK(runner[r], today)
      BY DEF Anomaly!AnomalyInv
    <2>2. today \in Nat
      BY AnomalyConstants DEF Anomaly!AnomalyInv, Anomaly!TypeOK
    <2> QED BY <1>1, <2>1, <2>2 DEF Anomaly!RunOK, Anomaly!Resting
  <1>3. days # {} => worst \in Anomaly!Levels
    BY WorstIsLevel
  <1>4. streak \in 0 .. AnomalyDays
    BY <1>2, StreakFits
  <1>5. /\ alert.fingerprint = <<"anomaly", last, worst, streak>>
        /\ alert.severity = Anomaly!Severity(worst)
    BY DEF Anomaly!AnomalyAlert
  <1>6. daily = IF days = {} THEN {} ELSE {alert}
    BY DEF Anomaly!DailyAlerts
  <1>7. \A a \in bills : a.fingerprint[1] = "executive"
                         /\ \E s : a.severity = Anomaly!Severity(s)
    BY DEF Anomaly!ExecutiveAlert
  <1> HIDE DEF last, energies, first, days, worst, streak, alert, daily, bills
  <1>8. \A a \in daily : a = alert
    BY <1>6
  <1>9. \A a \in severe : /\ a.severity \in {"WARNING", "CRITICAL"}
                          /\ a.fingerprint[1] = "anomaly" =>
                                 a.severity = Anomaly!Severity(a.fingerprint[3])
    <2> TAKE a \in severe
    <2>1. CASE a \in daily
      BY <1>5, <1>8, <2>1, Severities
    <2>2. CASE a \in bills
      BY <1>7, <2>2, Severities
    <2> QED BY <2>1, <2>2
  <1> HIDE DEF severe
  <1>10. \A a \in queued' : /\ a.severity \in {"WARNING", "CRITICAL"}
                            /\ a.fingerprint[1] = "anomaly" =>
                                   a.severity = Anomaly!Severity(a.fingerprint[3])
    BY <1>1, <1>9 DEF Anomaly!AnomalyInv, Anomaly!TypeOK
  <1>11. ASSUME days # {}, worst # "NORMAL"
         PROVE  \E a \in queued' : /\ a.severity = Anomaly!Severity(worst)
                                   /\ a.fingerprint[2] = last /\ a.fingerprint[4] = streak
    <2>1. alert \in severe
      <3>1. Anomaly!Severity(worst) # "INFO"
        BY <1>3, <1>11, Severities
      <3> QED BY <1>5, <1>6, <1>11, <3>1 DEF severe
    <2>2. CASE alert.fingerprint \notin known
      BY <1>1, <1>5, <2>1, <2>2
    <2>3. CASE alert.fingerprint \in known
      <3>1. PICK a \in queued : a.fingerprint = <<"anomaly", last, worst, streak>>
        BY <1>5, <2>3
      <3>2. a.severity = Anomaly!Severity(worst) /\ a \in queued'
        BY <1>1, <3>1 DEF Anomaly!AnomalyInv
      <3> QED BY <3>1, <3>2
    <2> QED BY <2>2, <2>3
  <1>12. Anomaly!EveryTurnIsTold'
    <2> SUFFICES ASSUME NEW f \in found', f.worst # "NORMAL"
                 PROVE  \E a \in queued' : /\ a.severity = Anomaly!Severity(f.worst)
                                           /\ a.fingerprint[2] = f.last
                                           /\ a.fingerprint[4] = f.streak
      BY DEF Anomaly!EveryTurnIsTold
    <2>1. CASE f \in found
      BY <1>1, <2>1 DEF Anomaly!AnomalyInv, Anomaly!EveryTurnIsTold
    <2>2. CASE f \notin found
      <3>1. days # {} /\ f = turn
        BY <1>1, <2>2
      <3>2. f.worst = worst /\ f.last = last /\ f.streak = streak
        BY <3>1
      <3> QED BY <1>11, <3>1, <3>2
    <2> QED BY <2>1, <2>2
  <1>13. \A f \in found' : f.streak \in 0 .. AnomalyDays
    BY <1>1, <1>4 DEF Anomaly!AnomalyInv, Anomaly!TypeOK
  <1>14. Anomaly!TypeOK'
    <2>1. /\ today' \in 0 .. LastAlertDay /\ s7' \in 0 .. MaxAlertRuns /\ s8' \in 0 .. MaxRevisions
          /\ \A d \in Anomaly!Days : energy'[d] \in Productions \cup {NoRow}
                                     /\ sun'[d] \in Irradiance \cup {NoRow}
      BY <1>1 DEF Anomaly!AnomalyInv, Anomaly!TypeOK
    <2> QED BY <1>10, <1>13, <2>1 DEF Anomaly!TypeOK
  <1>15. /\ runner' = [o \in Senders |-> runner'[o]]
         /\ \A o \in Senders : Anomaly!RunOK(runner'[o], today')
    <2>1. Anomaly!RunOK(Anomaly!Resting, today)
      BY DEF Anomaly!RunOK
    <2> QED BY <1>1, <2>1, RunnerMoves
  <1>16. /\ energy' = [d \in Anomaly!Days |-> energy'[d]]
         /\ sun' = [d \in Anomaly!Days |-> sun'[d]]
    BY <1>1 DEF Anomaly!AnomalyInv
  <1> QED BY <1>10, <1>12, <1>14, <1>15, <1>16 DEF Anomaly!AnomalyInv

\* The other steps queue and find nothing.
LEMMA NothingFound ==
    ASSUME Anomaly!AnomalyInv, UNCHANGED <<queued, found>>,
           today' \in 0 .. LastAlertDay, s7' \in 0 .. MaxAlertRuns, s8' \in 0 .. MaxRevisions,
           \A d \in Anomaly!Days : energy'[d] \in Productions \cup {NoRow}
                                   /\ sun'[d] \in Irradiance \cup {NoRow},
           energy' = [d \in Anomaly!Days |-> energy'[d]], sun' = [d \in Anomaly!Days |-> sun'[d]],
           runner' = [o \in Senders |-> runner'[o]],
           \A o \in Senders : Anomaly!RunOK(runner'[o], today')
    PROVE  Anomaly!AnomalyInv'
  <1>1. Anomaly!EveryTurnIsTold'
    BY DEF Anomaly!AnomalyInv, Anomaly!EveryTurnIsTold
  <1>2. Anomaly!TypeOK'
    BY DEF Anomaly!AnomalyInv, Anomaly!TypeOK
  <1> QED BY <1>1, <1>2 DEF Anomaly!AnomalyInv

LEMMA AnomalyStep ==
    ASSUME Anomaly!AnomalyInv, Anomaly!Next \/ UNCHANGED vars
    PROVE  Anomaly!AnomalyInv'
  <1>0. /\ today \in 0 .. LastAlertDay /\ s7 \in 0 .. MaxAlertRuns /\ s8 \in 0 .. MaxRevisions
        /\ \A d \in Anomaly!Days : energy[d] \in Productions \cup {NoRow}
                                   /\ sun[d] \in Irradiance \cup {NoRow}
        /\ energy = [d \in Anomaly!Days |-> energy[d]] /\ sun = [d \in Anomaly!Days |-> sun[d]]
        /\ runner = [o \in Senders |-> runner[o]] /\ \A o \in Senders : Anomaly!RunOK(runner[o], today)
    BY DEF Anomaly!AnomalyInv, Anomaly!TypeOK
  <1>1. CASE Anomaly!NewDay
    <2>1. /\ today < LastAlertDay /\ today' = today + 1
          /\ UNCHANGED <<energy, sun, runner, queued, found, s7, s8>>
      BY <1>1 DEF Anomaly!NewDay
    <2>2. today' \in 0 .. LastAlertDay /\ 1 .. today \subseteq 1 .. today'
      BY <1>0, <2>1, AnomalyConstants
    <2>3. \A o \in Senders : Anomaly!RunOK(runner'[o], today')
      BY <1>0, <2>1, <2>2 DEF Anomaly!RunOK, Anomaly!Resting
    <2> QED BY <1>0, <2>1, <2>2, <2>3, NothingFound
  <1>2. ASSUME NEW d \in Anomaly!Days, NEW p \in Productions, Anomaly!StoreEnergy(d, p)
        PROVE  Anomaly!AnomalyInv'
    <2>1. /\ energy' = [energy EXCEPT ![d] = p]
          /\ energy[d] = NoRow \/ s8 < MaxRevisions
          /\ s8' = IF energy[d] = NoRow THEN s8 ELSE s8 + 1
          /\ UNCHANGED <<today, sun, runner, queued, found, s7>>
      BY <1>2 DEF Anomaly!StoreEnergy
    <2>2. s8' \in 0 .. MaxRevisions
      BY <1>0, <2>1, AnomalyConstants
    <2>3. \A o \in Senders : Anomaly!RunOK(runner'[o], today')
      BY <1>0, <2>1 DEF Anomaly!RunOK
    <2>4. /\ energy' = [e \in Anomaly!Days |-> energy'[e]]
          /\ \A e \in Anomaly!Days : energy'[e] \in Productions \cup {NoRow}
      BY <1>0, <2>1
    <2> QED BY <1>0, <2>1, <2>2, <2>3, <2>4, NothingFound
  <1>3. ASSUME NEW d \in Anomaly!Days, NEW s \in Irradiance, Anomaly!StoreSun(d, s)
        PROVE  Anomaly!AnomalyInv'
    <2>1. /\ sun' = [sun EXCEPT ![d] = s]
          /\ UNCHANGED <<today, energy, runner, queued, found, s7, s8>>
      BY <1>3 DEF Anomaly!StoreSun
    <2>2. \A o \in Senders : Anomaly!RunOK(runner'[o], today')
      BY <1>0, <2>1 DEF Anomaly!RunOK
    <2>3. /\ sun' = [e \in Anomaly!Days |-> sun'[e]]
          /\ \A e \in Anomaly!Days : sun'[e] \in Irradiance \cup {NoRow}
      BY <1>0, <2>1
    <2> QED BY <1>0, <2>1, <2>2, <2>3, NothingFound
  <1>4. ASSUME NEW r \in Senders, Anomaly!Analyze(r) PROVE Anomaly!AnomalyInv'
    <2> DEFINE x == [at |-> "climate", last |-> today, energies |-> energy]
    <2>1. /\ s7 < MaxAlertRuns /\ today > 0 /\ s7' = s7 + 1
          /\ runner' = [runner EXCEPT ![r] = x]
          /\ UNCHANGED <<today, energy, sun, queued, found, s8>>
      BY <1>4 DEF Anomaly!Analyze
    <2>2. s7' \in 0 .. MaxAlertRuns /\ today \in 1 .. today
      BY <1>0, <2>1, AnomalyConstants
    <2>3. Anomaly!RunOK(x, today)
      BY <2>2 DEF Anomaly!RunOK
    <2> HIDE DEF x
    <2>4. /\ runner' = [o \in Senders |-> runner'[o]]
          /\ \A o \in Senders : Anomaly!RunOK(runner'[o], today')
      BY <2>1, <2>3, RunnerMoves
    <2> QED BY <1>0, <2>1, <2>2, <2>4, NothingFound
  <1>5. ASSUME NEW r \in Senders, Anomaly!Fail(r) PROVE Anomaly!AnomalyInv'
    <2>1. /\ runner' = [runner EXCEPT ![r] = Anomaly!Resting]
          /\ UNCHANGED <<today, energy, sun, queued, found, s7, s8>>
      BY <1>5 DEF Anomaly!Fail
    <2>2. Anomaly!RunOK(Anomaly!Resting, today)
      BY DEF Anomaly!RunOK
    <2>3. /\ runner' = [o \in Senders |-> runner'[o]]
          /\ \A o \in Senders : Anomaly!RunOK(runner'[o], today')
      BY <2>1, <2>2, RunnerMoves
    <2> QED BY <1>0, <2>1, <2>3, NothingFound
  <1>6. CASE UNCHANGED vars
    <2>1. UNCHANGED <<today, energy, sun, runner, queued, found, s7, s8>>
      BY <1>6 DEF vars
    <2>2. \A o \in Senders : Anomaly!RunOK(runner'[o], today')
      BY <1>0, <2>1 DEF Anomaly!RunOK
    <2> QED BY <1>0, <2>1, <2>2, NothingFound
  <1> QED BY <1>1, <1>2, <1>3, <1>4, <1>5, <1>6, QueueKeeps, Zenon DEF Anomaly!Next

LEMMA AnomalyInvHolds == MCSpec => [](InAnomaly => Anomaly!AnomalyInv)
  <1>1. MCInit => (InAnomaly => Anomaly!AnomalyInv)
    BY AnomalyConstants
       DEF MCInit, InAnomaly, Anomaly!Init, Anomaly!AnomalyInv, Anomaly!TypeOK, Anomaly!RunOK,
           Anomaly!EveryTurnIsTold
  <1>2. (InAnomaly => Anomaly!AnomalyInv) /\ [MCNext]_vars => (InAnomaly => Anomaly!AnomalyInv)'
    <2> SUFFICES ASSUME InAnomaly => Anomaly!AnomalyInv, [MCNext]_vars, InAnomaly'
                 PROVE  Anomaly!AnomalyInv'
      OBVIOUS
    <2>1. InAnomaly
      BY PartKept DEF InAnomaly
    <2> QED BY <2>1, AnomalySteps, AnomalyStep
  <1> QED BY <1>1, <1>2, PTL DEF MCSpec

\* A day that missed its target is left without an alert only on evidence and told of
\* once, the second of two days in a row as such, and every turn an analysis finds is
\* queued, while runs overlap, fail and lose answers and the days are corrected
\* (alerts/production_alert.py, send_production_alert; production_alert_dispatch.py;
\* intelligence/anomaly_service.py; alerts/candidates.py).
THEOREM AlertsHold == MCSpec => []AlertsAddUp
  <1>1. (InAlert => Alert!AlertInv) /\ (InAnomaly => Anomaly!AnomalyInv) => AlertsAddUp
    BY SilenceIsEvident, MessagesAgree, WindowsAgree DEF AlertsAddUp, Anomaly!AnomalyInv
  <1> QED BY <1>1, AlertInvHolds, AnomalyInvHolds, PTL

-----------------------------------------------------------------------------
(* The cached dashboard: intelligence/dashboard_cache.py.                    *)

\* The state by its names.
readings == s1
approved == s3
confirmed == s4
cache == s5
req == s6
writer == s7
clock == s8
late == s9
USE DEF readings, approved, confirmed, cache, req, writer, clock, late

LEMMA DashSteps == ASSUME InDash, MCNext PROVE Dash!Next
  <1>1. /\ ~InOutbox /\ ~InPipeline /\ ~InDaily /\ ~InPv /\ ~InAlert /\ ~InAnomaly
        /\ ~InTariff /\ ~InMarket /\ ~InCycle /\ ~InUtility
    BY DEF InOutbox, InPipeline, InDaily, InPv, InDash, InAlert, InAnomaly, InTariff,
           InMarket, InCycle, InUtility
  <1> QED BY <1>1, ZenonT(60) DEF MCNext, Dash!Next

\* What is assumed of the instance.
LEMMA DashConstants ==
    /\ MaxEntries \in Nat /\ MaxWrites \in Nat
    /\ Len(Bills) \in Nat /\ DOMAIN Bills = 1 .. Len(Bills)
    /\ \A b \in DOMAIN Bills : Bills[b].id = b /\ Dash!CycleOf(Bills[b]) \subseteq EnergyDays
    /\ NoRow \notin [kwh : {v.kwh : v \in DayValues}, status : {v.status : v \in DayValues},
                     stamp : Nat]
  BY ConstantsOfParts DEF Dash!ConstantsOK

\* Of some numbers with a bound one is the largest.
LEMMA Largest ==
    ASSUME NEW n \in Nat, NEW T \in SUBSET (0 .. n), T # {}
    PROVE  \E m \in T : \A k \in T : k <= m
  <1> DEFINE R == {ss \in Nat \X Nat : ss[1] < ss[2]}
             Below == {n - k : k \in T}
  <1>1. IsWellFoundedOn(R, Nat)
    BY NatLessThanWellFounded DEF OpToRel
  <1>2. Below \in SUBSET Nat /\ Below # {}
    <2>1. \A k \in T : n - k \in Nat
      OBVIOUS
    <2> QED BY <2>1
  <1> HIDE DEF R
  <1>3. PICK b \in Below : \A c \in Below : <<c, b>> \notin R
    BY <1>1, <1>2, WFMin
  <1>4. PICK m \in T : b = n - m
    BY <1>3
  <1>5. ASSUME NEW k \in T PROVE k <= m
    <2>1. n - k \in Below /\ <<n - k, b>> \notin R
      BY <1>3
    <2>2. n - k \in Nat /\ b \in Nat /\ ~(n - k < b)
      BY <1>2, <2>1 DEF R
    <2>3. m \in 0 .. n /\ k \in 0 .. n
      OBVIOUS
    <2> QED BY <1>4, <2>2, <2>3
  <1> QED BY <1>5

\* An entry is taken out of a sequence.
LEMMA Removed ==
    ASSUME NEW E, NEW s \in Seq(E), NEW i \in 1 .. Len(s)
    PROVE  /\ Dash!RemoveAt(s, i) \in Seq(E) /\ Len(Dash!RemoveAt(s, i)) = Len(s) - 1
           /\ \A j \in 1 .. Len(s) - 1 :
                  Dash!RemoveAt(s, i)[j] = IF j < i THEN s[j] ELSE s[j + 1]
  <1> DEFINE p == SubSeq(s, 1, i - 1)
             q == SubSeq(s, i + 1, Len(s))
  <1>0. /\ Len(s) \in Nat /\ i \in Int /\ 1 <= i /\ i <= Len(s)
        /\ \A j \in 1 .. Len(s) : s[j] \in E
    BY LenProperties, ElementOfSeq
  <1>1. p \in Seq(E) /\ Len(p) = i - 1 /\ \A j \in 1 .. i - 1 : p[j] = s[j]
    <2>1. \A j \in 1 .. i - 1 : s[j] \in E
      BY <1>0
    <2>2. /\ p \in Seq(E)
          /\ Len(p) = IF 1 <= i - 1 THEN (i - 1) - 1 + 1 ELSE 0
          /\ \A j \in 1 .. (i - 1) - 1 + 1 : p[j] = s[1 + j - 1]
      BY <1>0, <2>1, SubSeqProperties
    <2> HIDE DEF p
    <2> QED BY <1>0, <2>2
  <1>2. q \in Seq(E) /\ Len(q) = Len(s) - i /\ \A j \in 1 .. Len(s) - i : q[j] = s[i + j]
    <2>1. \A j \in i + 1 .. Len(s) : s[j] \in E
      BY <1>0
    <2>2. /\ q \in Seq(E)
          /\ Len(q) = IF i + 1 <= Len(s) THEN Len(s) - (i + 1) + 1 ELSE 0
          /\ \A j \in 1 .. Len(s) - (i + 1) + 1 : q[j] = s[(i + 1) + j - 1]
      BY <1>0, <2>1, SubSeqProperties
    <2> HIDE DEF q
    <2> QED BY <1>0, <2>2
  <1>3. Dash!RemoveAt(s, i) = p \o q
    BY DEF Dash!RemoveAt
  <1> HIDE DEF p, q
  <1>4. /\ p \o q \in Seq(E) /\ Len(p \o q) = Len(p) + Len(q)
        /\ \A j \in 1 .. Len(p) + Len(q) :
               (p \o q)[j] = IF j <= Len(p) THEN p[j] ELSE q[j - Len(p)]
    BY <1>1, <1>2, ConcatProperties
  <1> DEFINE t == p \o q
  <1> HIDE DEF t
  <1>5. /\ t \in Seq(E) /\ Len(t) = Len(s) - 1
        /\ \A j \in 1 .. Len(s) - 1 : t[j] = IF j <= i - 1 THEN p[j] ELSE q[j - (i - 1)]
    BY <1>0, <1>1, <1>2, <1>4 DEF t
  <1>6. ASSUME NEW j \in 1 .. Len(s) - 1 PROVE t[j] = IF j < i THEN s[j] ELSE s[j + 1]
    <2>1. CASE j < i
      <3>1. j \in 1 .. i - 1 /\ j <= i - 1
        BY <1>0, <2>1
      <3> QED BY <1>1, <1>5, <2>1, <3>1
    <2>2. CASE ~(j < i)
      <3>1. /\ j - (i - 1) \in 1 .. Len(s) - i /\ ~(j <= i - 1)
            /\ i + (j - (i - 1)) = j + 1
        BY <1>0, <2>2
      <3>2. q[j - (i - 1)] = s[j + 1]
        BY <1>2, <3>1
      <3> QED BY <1>5, <2>2, <3>1, <3>2
    <2> QED BY <2>1, <2>2
  <1> QED BY <1>3, <1>5, <1>6 DEF t

\* A sequence is one of the elements it has.
LEMMA OfItsOwn ==
    ASSUME NEW E, NEW s \in Seq(E)
    PROVE  /\ s \in Seq({s[i] : i \in DOMAIN s})
           /\ {s[i] : i \in DOMAIN s} \subseteq E
           /\ Len(s) \in Nat /\ DOMAIN s = 1 .. Len(s)
  <1> DEFINE Own == {s[i] : i \in DOMAIN s}
  <1>1. Len(s) \in Nat /\ DOMAIN s = 1 .. Len(s) /\ \A i \in 1 .. Len(s) : s[i] \in E
    BY LenProperties, ElementOfSeq
  <1>2. \A i \in 1 .. Len(s) : s[i] \in Own
    BY <1>1
  <1>3. Own \subseteq E
    BY <1>1
  <1> HIDE DEF Own
  <1>4. s \in Seq(Own)
    BY <1>1, <1>2
  <1> QED BY <1>1, <1>3, <1>4 DEF Own

\* What is newest of some days is newest of them.
LEMMA NewestOf ==
    ASSUME NEW f, NEW days, NEW n \in Nat, \A d \in days : f[d].stamp \in 1 .. n, NEW s,
           s = CHOOSE t \in {0} \cup {f[d].stamp : d \in days} : \A d \in days : f[d].stamp <= t
    PROVE  /\ s \in {0} \cup {f[d].stamp : d \in days} /\ s \in 0 .. n
           /\ \A d \in days : f[d].stamp <= s
  <1> DEFINE stamps == {0} \cup {f[d].stamp : d \in days}
  <1>1. stamps \in SUBSET (0 .. n) /\ stamps # {}
    <2>1. \A d \in days : f[d].stamp \in 0 .. n
      OBVIOUS
    <2>2. 0 \in 0 .. n
      OBVIOUS
    <2> QED BY <2>1, <2>2
  <1>2. \A d \in days : f[d].stamp \in stamps
    OBVIOUS
  <1>3. s = CHOOSE t \in stamps : \A d \in days : f[d].stamp <= t
    OBVIOUS
  <1> HIDE DEF stamps
  <1>4. \E m \in stamps : \A k \in stamps : k <= m
    BY <1>1, Largest
  <1>5. \E m \in stamps : \A d \in days : f[d].stamp <= m
    BY <1>2, <1>4
  <1>6. s \in stamps /\ \A d \in days : f[d].stamp <= s
    BY <1>3, <1>5
  <1>7. s \in 0 .. n
    BY <1>1, <1>6
  <1> QED BY <1>6, <1>7 DEF stamps

\* The stamps of a cycle.
LEMMA CycleStamps ==
    ASSUME Dash!DashInv, NEW b \in DOMAIN Bills
    PROVE  LET days == Dash!Read(Bills[b]) IN
           /\ days \subseteq EnergyDays /\ \A d \in days : readings[d].stamp \in 1 .. clock
           /\ Dash!Newest(days) \in {0} \cup {readings[d].stamp : d \in days}
           /\ Dash!Newest(days) \in Nat /\ \A d \in days : readings[d].stamp <= Dash!Newest(days)
  <1> DEFINE days == Dash!Read(Bills[b])
             newest == Dash!Newest(days)
  <1>1. clock \in Nat
    BY DashConstants DEF Dash!DashInv, Dash!TypeOK
  <1>2. days \subseteq EnergyDays /\ \A d \in days : readings[d] # NoRow
    BY DashConstants DEF Dash!Read
  <1> HIDE DEF days
  <1>3. \A d \in days : readings[d].stamp \in 1 .. clock
    BY <1>2 DEF Dash!DashInv, Dash!TypeOK
  <1>4. newest = CHOOSE s \in {0} \cup {readings[d].stamp : d \in days} :
                     \A d \in days : readings[d].stamp <= s
    BY DEF Dash!Newest
  <1> HIDE DEF newest
  <1>5. /\ newest \in {0} \cup {readings[d].stamp : d \in days} /\ newest \in 0 .. clock
        /\ \A d \in days : readings[d].stamp <= newest
    BY <1>1, <1>3, <1>4, NewestOf
  <1> QED BY <1>2, <1>3, <1>5 DEF days, newest

\* A step by which a fingerprint is left behind for good or stands for what it stood for.
Moved(b) ==
    Dash!Orderly(b)' =>
        /\ Dash!Orderly(b) /\ Dash!Newest(Dash!Read(Bills[b]))' \in Nat
        /\ \/ Dash!Newest(Dash!Read(Bills[b]))' > Dash!Newest(Dash!Read(Bills[b]))
           \/ /\ Dash!Newest(Dash!Read(Bills[b]))' = Dash!Newest(Dash!Read(Bills[b]))
              /\ Dash!Of(Bills[b])' = Dash!Of(Bills[b])

LEMMA KeysMove ==
    ASSUME Dash!DashInv, \A b \in DOMAIN Bills : Moved(b),
           confirmed' \in Nat, confirmed <= confirmed'
    PROVE  /\ \A x : Dash!RequestOK(x) => Dash!RequestOK(x)'
           /\ \A e : Dash!EntryOK(e) => Dash!EntryOK(e)'
  <1> DEFINE N(b) == Dash!Newest(Dash!Read(Bills[b]))
             Of(b) == Dash!Of(Bills[b])
             Orderly(b) == Dash!Orderly(b)
  <1>1. \A b \in DOMAIN Bills : N(b) \in Nat
    BY CycleStamps
  <1>2. \A b \in DOMAIN Bills : Orderly(b)' =>
            Orderly(b) /\ N(b)' \in Nat /\ (N(b)' > N(b) \/ (N(b)' = N(b) /\ Of(b)' = Of(b)))
    BY DEF Moved
  <1>3. \A k : Dash!KeyOK(k) <=>
            k.bill \in DOMAIN Bills /\ k.fingerprint[3] \in Nat
                /\ (Orderly(k.bill) => k.fingerprint[3] <= N(k.bill))
    BY DEF Dash!KeyOK
  <1>4. \A k : Dash!KeyOK(k)' <=>
            k.bill \in DOMAIN Bills /\ k.fingerprint[3] \in Nat
                /\ (Orderly(k.bill)' => k.fingerprint[3] <= N(k.bill)')
    BY DEF Dash!KeyOK
  <1>5. \A k, now, of : Dash!BuiltOK(k, now, of) <=>
            now.bill \in Nat /\ now.bill >= k.bill
                /\ (now.bill = k.bill /\ Orderly(k.bill) /\ k.fingerprint[3] = N(k.bill)
                        => of = Of(k.bill))
    BY DEF Dash!BuiltOK
  <1>6. \A k, now, of : Dash!BuiltOK(k, now, of)' <=>
            now.bill \in Nat /\ now.bill >= k.bill
                /\ (now.bill = k.bill /\ Orderly(k.bill)' /\ k.fingerprint[3] = N(k.bill)'
                        => of = Of(k.bill)')
    BY DEF Dash!BuiltOK
  <1> HIDE DEF N, Of, Orderly
  <1>7. ASSUME NEW k, Dash!KeyOK(k) PROVE Dash!KeyOK(k)'
    <2> DEFINE n == k.fingerprint[3]
               b == k.bill
    <2>1. b \in DOMAIN Bills /\ n \in Nat /\ (Orderly(b) => n <= N(b))
      BY <1>3, <1>7
    <2> HIDE DEF n, b
    <2>2. Orderly(b)' => n <= N(b)'
      BY <1>1, <1>2, <2>1
    <2> QED BY <1>4, <2>1, <2>2 DEF n, b
  <1>8. ASSUME NEW k, NEW now, NEW of, Dash!KeyOK(k), Dash!BuiltOK(k, now, of)
        PROVE  Dash!BuiltOK(k, now, of)'
    <2> DEFINE n == k.fingerprint[3]
               b == k.bill
               a == now.bill
    <2>1. b \in DOMAIN Bills /\ n \in Nat /\ (Orderly(b) => n <= N(b))
      BY <1>3, <1>8
    <2>2. a \in Nat /\ a >= b /\ (a = b /\ Orderly(b) /\ n = N(b) => of = Of(b))
      BY <1>5, <1>8
    <2> HIDE DEF n, b, a
    <2>3. ASSUME a = b, Orderly(b)', n = N(b)' PROVE of = Of(b)'
      <3>1. /\ Orderly(b) /\ N(b)' \in Nat
            /\ N(b)' > N(b) \/ (N(b)' = N(b) /\ Of(b)' = Of(b))
        BY <1>2, <2>1, <2>3
      <3>2. ~(N(b)' > N(b))
        BY <1>1, <2>1, <2>3, <3>1
      <3> QED BY <2>2, <2>3, <3>1, <3>2
    <2> QED BY <1>6, <2>2, <2>3 DEF n, b, a
  <1>9. ASSUME NEW x, Dash!RequestOK(x) PROVE Dash!RequestOK(x)'
    <2>1. /\ x.step \in {"idle", "look", "build", "compare", "hit"}
          /\ x.step = "look" => x.bill \in 1 .. confirmed
          /\ x.step = "build" => Dash!KeyOK(x.key) /\ x.key.bill <= confirmed
          /\ x.step = "compare" => Dash!KeyOK(x.key) /\ Dash!BuiltOK(x.key, x.now, x.of)
      BY <1>9 DEF Dash!RequestOK
    <2>2. confirmed \in Nat
      BY DashConstants DEF Dash!DashInv, Dash!TypeOK
    <2>3. x.step = "look" => x.bill \in 1 .. confirmed'
      BY <2>1, <2>2
    <2>4. x.step = "build" => Dash!KeyOK(x.key)'
      BY <1>7, <2>1
    <2>5. x.step = "build" => x.key.bill <= confirmed'
      <3>1. x.step = "build" => x.key.bill \in DOMAIN Bills /\ x.key.bill <= confirmed
        BY <1>3, <2>1
      <3>2. \A b \in DOMAIN Bills : b \in Nat
        BY DashConstants
      <3> QED BY <2>2, <3>1, <3>2
    <2>6. x.step = "compare" => Dash!KeyOK(x.key)' /\ Dash!BuiltOK(x.key, x.now, x.of)'
      BY <1>7, <1>8, <2>1
    <2> QED BY <2>1, <2>3, <2>4, <2>5, <2>6 DEF Dash!RequestOK
  <1>10. ASSUME NEW e, Dash!EntryOK(e) PROVE Dash!EntryOK(e)'
    <2>1. Dash!KeyOK(e.key) /\ Dash!BuiltOK(e.key, e.dash.now, e.dash.of)
      BY <1>10 DEF Dash!EntryOK
    <2>2. Dash!KeyOK(e.key)' /\ Dash!BuiltOK(e.key, e.dash.now, e.dash.of)'
      BY <1>7, <1>8, <2>1
    <2> QED BY <2>2 DEF Dash!EntryOK
  <1> QED BY <1>9, <1>10

\* Without a write no fingerprint moves.
LEMMA NothingMoves ==
    ASSUME Dash!DashInv, UNCHANGED <<readings, late>>
    PROVE  \A b \in DOMAIN Bills : Moved(b)
  <1> TAKE b \in DOMAIN Bills
  <1>1. Dash!Newest(Dash!Read(Bills[b])) \in Nat
    BY CycleStamps
  <1>2. Dash!Read(Bills[b])' = Dash!Read(Bills[b])
    BY DEF Dash!Read
  <1>3. Dash!Newest(Dash!Read(Bills[b]))' = Dash!Newest(Dash!Read(Bills[b]))
    BY <1>2 DEF Dash!Newest
  <1>4. Dash!Of(Bills[b])' = Dash!Of(Bills[b]) /\ Dash!Orderly(b)' = Dash!Orderly(b)
    BY DEF Dash!Of, Dash!Orderly
  <1> QED BY <1>1, <1>3, <1>4 DEF Moved

-----------------------------------------------------------------------------
(* The entries of the cache.                                                 *)

\* A key has one entry.
OneEach(s) == \A i, j \in 1 .. Len(s) : s[i].key = s[j].key => i = j

LEMMA Taken ==
    ASSUME NEW E, NEW s \in Seq(E), OneEach(s), NEW i \in 1 .. Len(s)
    PROVE  LET t == Dash!RemoveAt(s, i) IN
           /\ t \in Seq(E) /\ Len(t) = Len(s) - 1 /\ OneEach(t)
           /\ \A j \in 1 .. Len(t) : t[j].key # s[i].key
  <1> DEFINE t == Dash!RemoveAt(s, i)
             At(j) == IF j < i THEN j ELSE j + 1
  <1>0. Len(s) \in Nat
    BY LenProperties
  <1>1. /\ t \in Seq(E) /\ Len(t) = Len(s) - 1
        /\ \A j \in 1 .. Len(s) - 1 : t[j] = IF j < i THEN s[j] ELSE s[j + 1]
    BY Removed
  <1> HIDE DEF t
  <1>2. \A j \in 1 .. Len(t) : t[j] = s[At(j)] /\ At(j) \in 1 .. Len(s) /\ At(j) # i
    BY <1>0, <1>1
  <1>3. \A j, k \in 1 .. Len(t) : At(j) = At(k) => j = k
    BY <1>0, <1>1
  <1> HIDE DEF At
  <1>4. OneEach(t)
    BY <1>2, <1>3 DEF OneEach
  <1>5. \A j \in 1 .. Len(t) : t[j].key # s[i].key
    BY <1>2 DEF OneEach
  <1> QED BY <1>1, <1>4, <1>5 DEF t

LEMMA Appended ==
    ASSUME NEW E, NEW s \in Seq(E), OneEach(s), NEW e \in E,
           \A j \in 1 .. Len(s) : s[j].key # e.key
    PROVE  /\ Append(s, e) \in Seq(E) /\ Len(Append(s, e)) = Len(s) + 1
           /\ OneEach(Append(s, e))
  <1> DEFINE t == Append(s, e)
  <1>0. Len(s) \in Nat
    BY LenProperties
  <1>1. /\ t \in Seq(E) /\ Len(t) = Len(s) + 1
        /\ \A i \in 1 .. Len(s) : t[i] = s[i]
        /\ t[Len(s) + 1] = e
    BY AppendProperties
  <1> HIDE DEF t
  <1>2. ASSUME NEW i \in 1 .. Len(t), NEW j \in 1 .. Len(t), t[i].key = t[j].key
        PROVE  i = j
    <2>1. CASE i \in 1 .. Len(s) /\ j \in 1 .. Len(s)
      BY <1>1, <1>2, <2>1 DEF OneEach
    <2>2. CASE i = Len(s) + 1 /\ j \in 1 .. Len(s)
      BY <1>1, <1>2, <2>2
    <2>3. CASE i \in 1 .. Len(s) /\ j = Len(s) + 1
      BY <1>1, <1>2, <2>3
    <2>4. (i \in 1 .. Len(s) \/ i = Len(s) + 1) /\ (j \in 1 .. Len(s) \/ j = Len(s) + 1)
      BY <1>0, <1>1
    <2> QED BY <2>1, <2>2, <2>3, <2>4
  <1> QED BY <1>1, <1>2 DEF OneEach, t

LEMMA Dropped ==
    ASSUME NEW E, NEW s \in Seq(E), OneEach(s), s # << >>
    PROVE  Tail(s) \in Seq(E) /\ Len(Tail(s)) = Len(s) - 1 /\ OneEach(Tail(s))
  <1> DEFINE t == Tail(s)
  <1>0. Len(s) \in Nat
    BY LenProperties
  <1>1. t \in Seq(E) /\ Len(t) = Len(s) - 1 /\ \A i \in 1 .. Len(t) : t[i] = s[i + 1]
    BY HeadTailProperties
  <1> HIDE DEF t
  <1>2. \A i \in 1 .. Len(t) : i + 1 \in 1 .. Len(s)
    BY <1>0, <1>1
  <1>3. ASSUME NEW i \in 1 .. Len(t), NEW j \in 1 .. Len(t), t[i].key = t[j].key
        PROVE  i = j
    <2>1. s[i + 1].key = s[j + 1].key
      BY <1>1, <1>3
    <2>2. i + 1 = j + 1
      BY <1>2, <2>1 DEF OneEach
    <2> QED BY <2>2
  <1> QED BY <1>1, <1>3 DEF OneEach, t

\* What is known of the entries.
LEMMA EntriesAre ==
    ASSUME Dash!DashInv
    PROVE  /\ cache \in Seq(Dash!Entries) /\ OneEach(cache) /\ DOMAIN cache = 1 .. Len(cache)
           /\ Len(cache) \in Nat /\ Len(cache) <= MaxEntries
           /\ \A e \in Dash!Entries : Dash!EntryOK(e)
  <1>1. cache \in Seq(Dash!Entries) /\ \A e \in Dash!Entries : Dash!EntryOK(e)
    BY DEF Dash!DashInv
  <1>2. DOMAIN cache = 1 .. Len(cache) /\ Len(cache) \in Nat
    BY <1>1, OfItsOwn
  <1>3. /\ Len(cache) <= MaxEntries
        /\ \A i, j \in DOMAIN cache : cache[i].key = cache[j].key => i = j
    BY DEF Dash!DashInv, Dash!TypeOK
  <1> QED BY <1>1, <1>2, <1>3 DEF OneEach

\* The requests after a step of one of them.
LEMMA Requested ==
    ASSUME Dash!DashInv, NEW r \in Requests, NEW x, req' = [req EXCEPT ![r] = x]
    PROVE  /\ req' = [o \in Requests |-> req'[o]]
           /\ \A y \in Dash!Asked' : y = x \/ y \in Dash!Asked
  <1>1. req = [o \in Requests |-> req[o]]
    BY DEF Dash!DashInv
  <1>2. \A o \in Requests : req'[o] = IF o = r THEN x ELSE req[o]
    BY <1>1
  <1> QED BY <1>1, <1>2 DEF Dash!Asked

\* A step of a request that leaves the cache with entries that are as they should be.
LEMMA CacheMoves ==
    ASSUME Dash!DashInv, NEW r \in Requests, NEW x, Dash!RequestOK(x),
           req' = [req EXCEPT ![r] = x],
           NEW E, cache' \in Seq(E), \A e \in E : Dash!EntryOK(e), OneEach(cache'),
           Len(cache') <= MaxEntries,
           UNCHANGED <<readings, s2, approved, confirmed, writer, clock, late>>
    PROVE  Dash!DashInv'
  <1>1. /\ \A y : Dash!RequestOK(y) => Dash!RequestOK(y)'
        /\ \A e : Dash!EntryOK(e) => Dash!EntryOK(e)'
    <2>1. confirmed' \in Nat /\ confirmed <= confirmed'
      BY DashConstants DEF Dash!DashInv, Dash!TypeOK
    <2> QED BY <2>1, NothingMoves, KeysMove
  <1>2. /\ req' = [o \in Requests |-> req'[o]]
        /\ \A y \in Dash!Asked' : y = x \/ y \in Dash!Asked
    BY Requested
  <1>3. \A y \in Dash!Asked' : Dash!RequestOK(y)'
    BY <1>1, <1>2 DEF Dash!DashInv
  <1>4. /\ cache' \in Seq(Dash!Entries') /\ Dash!Entries' \subseteq E
        /\ DOMAIN cache' = 1 .. Len(cache')
    BY OfItsOwn DEF Dash!Entries
  <1>5. \A e \in Dash!Entries' : Dash!EntryOK(e)'
    BY <1>1, <1>4
  <1>6. Dash!TypeOK'
    <2>1. \A i, j \in DOMAIN cache' : cache'[i].key = cache'[j].key => i = j
      BY <1>4 DEF OneEach
    <2> QED BY <2>1 DEF Dash!DashInv, Dash!TypeOK
  <1>7. Dash!StampsAreOnes'
    BY DEF Dash!DashInv, Dash!StampsAreOnes
  <1>8. /\ readings' = [d \in EnergyDays |-> readings'[d]]
        /\ writer' = [v \in Writers |-> writer'[v]]
    BY DEF Dash!DashInv
  <1> QED BY <1>2, <1>3, <1>4, <1>5, <1>6, <1>7, <1>8 DEF Dash!DashInv

LEMMA RequestMoves ==
    ASSUME Dash!DashInv, NEW r \in Requests, NEW x, Dash!RequestOK(x),
           req' = [req EXCEPT ![r] = x],
           UNCHANGED <<readings, s2, approved, confirmed, cache, writer, clock, late>>
    PROVE  Dash!DashInv'
  <1>1. cache' = cache
    OBVIOUS
  <1>2. /\ cache' \in Seq(Dash!Entries) /\ OneEach(cache') /\ Len(cache') <= MaxEntries
        /\ \A e \in Dash!Entries : Dash!EntryOK(e)
    BY <1>1, EntriesAre
  <1> QED BY <1>2, CacheMoves

-----------------------------------------------------------------------------
(* Its steps.                                                                *)

\* A transaction begins, or ends without a reading.
LEMMA WriterMoves ==
    ASSUME Dash!DashInv, NEW v \in Writers, NEW n, writer' = [writer EXCEPT ![v] = n],
           \/ n = 0 /\ clock' = clock
           \/ n = clock + 1 /\ clock' = clock + 1 /\ clock < MaxWrites,
           confirmed' \in confirmed .. Len(Bills),
           UNCHANGED <<readings, cache, req, late>>
    PROVE  Dash!DashInv'
  <1>0. /\ clock \in 0 .. MaxWrites /\ clock \in Nat /\ MaxWrites \in Nat
        /\ confirmed \in Nat /\ Len(Bills) \in Nat
    BY DashConstants DEF Dash!DashInv, Dash!TypeOK
  <1>1. confirmed' \in Nat /\ confirmed <= confirmed' /\ confirmed' \in 0 .. Len(Bills)
    BY <1>0
  <1>2. clock' \in 0 .. MaxWrites /\ clock <= clock' /\ clock' \in Nat /\ n \in 0 .. clock'
    BY <1>0
  <1>3. /\ \A y : Dash!RequestOK(y) => Dash!RequestOK(y)'
        /\ \A e : Dash!EntryOK(e) => Dash!EntryOK(e)'
    BY <1>1, NothingMoves, KeysMove
  <1>4. writer' = [u \in Writers |-> writer'[u]]
        /\ \A u \in Writers : writer'[u] = IF u = v THEN n ELSE writer[u]
    BY DEF Dash!DashInv
  <1>5. Dash!StampsAreOnes'
    <2>1. /\ \A u \in Writers : writer[u] \in 0 .. clock
          /\ \A u, w \in Writers : u # w /\ writer[u] > 0 => writer[u] # writer[w]
          /\ \A d \in EnergyDays, u \in Writers :
                 readings[d] # NoRow => readings[d].stamp # writer[u]
          /\ \A d \in EnergyDays : readings[d] # NoRow => readings[d].stamp \in 1 .. clock
      BY DEF Dash!DashInv, Dash!StampsAreOnes, Dash!TypeOK
    <2>2. \A u \in Writers : writer'[u] \in 0 .. clock'
      BY <1>0, <1>2, <1>4, <2>1
    <2>3. ASSUME NEW u \in Writers, NEW w \in Writers, u # w, writer'[u] > 0
          PROVE  writer'[u] # writer'[w]
      BY <1>0, <1>4, <2>1, <2>3
    <2>4. ASSUME NEW d \in EnergyDays, NEW u \in Writers, readings[d] # NoRow
          PROVE  readings[d].stamp # writer'[u]
      BY <1>0, <1>4, <2>1, <2>4
    <2> QED BY <2>2, <2>3, <2>4 DEF Dash!StampsAreOnes
  <1>6. Dash!TypeOK'
    <2>1. \A d \in EnergyDays : readings[d] # NoRow => readings[d].stamp \in 1 .. clock'
      BY <1>0, <1>2 DEF Dash!DashInv, Dash!TypeOK
    <2> QED BY <1>1, <1>2, <2>1 DEF Dash!DashInv, Dash!TypeOK
  <1>7. /\ readings' = [d \in EnergyDays |-> readings'[d]]
        /\ req' = [r \in Requests |-> req'[r]]
        /\ cache' \in Seq(Dash!Entries') /\ Dash!Entries' = Dash!Entries
        /\ Dash!Asked' = Dash!Asked
    BY DEF Dash!DashInv, Dash!Entries, Dash!Asked
  <1>8. /\ \A e \in Dash!Entries' : Dash!EntryOK(e)'
        /\ \A x \in Dash!Asked' : Dash!RequestOK(x)'
    BY <1>3, <1>7 DEF Dash!DashInv
  <1> QED BY <1>4, <1>5, <1>6, <1>7, <1>8 DEF Dash!DashInv

\* A reading in its turn is newer than all there are.
LEMMA WriteMoves ==
    ASSUME Dash!DashInv, NEW v \in Writers, NEW d \in EnergyDays, NEW value \in DayValues,
           Dash!Write(v, d, value)
    PROVE  \A b \in DOMAIN Bills : Moved(b)
  <1> DEFINE stamp == writer[v]
             row == [kwh |-> value.kwh, status |-> value.status, stamp |-> stamp]
  <1>1. /\ readings' = [readings EXCEPT ![d] = row] /\ stamp > 0
        /\ late' = IF \E e \in EnergyDays : readings[e] # NoRow /\ readings[e].stamp > stamp
                   THEN late \cup {d} ELSE late
        /\ clock' = clock
    BY DEF Dash!Write
  <1>2. stamp \in 1 .. clock /\ clock \in Nat
    BY <1>1, DashConstants DEF Dash!DashInv, Dash!TypeOK, Dash!StampsAreOnes
  <1>3. row # NoRow /\ row.stamp = stamp
    BY <1>2, DashConstants
  <1>4. \A e \in EnergyDays : readings[e] # NoRow => readings[e].stamp # stamp
                                                     /\ readings[e].stamp \in 1 .. clock
    BY DEF Dash!DashInv, Dash!StampsAreOnes, Dash!TypeOK
  <1> HIDE DEF row, stamp
  <1>5. /\ \A e \in EnergyDays : readings'[e] = IF e = d THEN row ELSE readings[e]
        /\ readings' = [e \in EnergyDays |-> readings'[e]]
    BY <1>1 DEF Dash!DashInv
  <1> SUFFICES ASSUME NEW b \in DOMAIN Bills, Dash!Orderly(b)' PROVE
        /\ Dash!Orderly(b) /\ Dash!Newest(Dash!Read(Bills[b]))' \in Nat
        /\ \/ Dash!Newest(Dash!Read(Bills[b]))' > Dash!Newest(Dash!Read(Bills[b]))
           \/ /\ Dash!Newest(Dash!Read(Bills[b]))' = Dash!Newest(Dash!Read(Bills[b]))
              /\ Dash!Of(Bills[b])' = Dash!Of(Bills[b])
    BY DEF Moved
  <1> DEFINE cycle == Dash!CycleOf(Bills[b])
             days == Dash!Read(Bills[b])
             newest == Dash!Newest(days)
  <1>6. cycle \subseteq EnergyDays /\ cycle \cap late' = {}
    BY DashConstants DEF Dash!Orderly
  <1>7. late \subseteq late' /\ Dash!Orderly(b)
    BY <1>1, <1>6 DEF Dash!Orderly
  <1>8. /\ newest \in Nat /\ newest \in {0} \cup {readings[e].stamp : e \in days}
        /\ days = {e \in cycle : readings[e] # NoRow}
        /\ days' = {e \in cycle : readings'[e] # NoRow}
    <2>1. newest \in Nat /\ newest \in {0} \cup {readings[e].stamp : e \in days}
      BY CycleStamps
    <2> QED BY <2>1 DEF Dash!Read
  <1>9. CASE d \notin cycle
    <2>1. days' = days
      BY <1>5, <1>6, <1>8, <1>9
    <2>2. \A e \in days : readings'[e] = readings[e]
      BY <1>5, <1>6, <1>8, <1>9
    <2>3. newest' = newest
      <3> HIDE DEF days
      <3>1. {readings'[e].stamp : e \in days} = {readings[e].stamp : e \in days}
        BY <2>2
      <3>2. newest' = CHOOSE s \in {0} \cup {readings'[e].stamp : e \in days} :
                          \A e \in days : readings'[e].stamp <= s
        BY <2>1 DEF Dash!Newest
      <3>3. newest = CHOOSE s \in {0} \cup {readings[e].stamp : e \in days} :
                          \A e \in days : readings[e].stamp <= s
        BY DEF Dash!Newest
      <3>4. \A s : (\A e \in days : readings'[e].stamp <= s)
                       <=> (\A e \in days : readings[e].stamp <= s)
        BY <2>2
      <3> HIDE DEF newest
      <3> QED BY <3>1, <3>2, <3>3, <3>4
    <2>4. Dash!Of(Bills[b])' = Dash!Of(Bills[b])
      <3>1. \A e \in cycle : readings'[e] = readings[e]
        BY <1>5, <1>6, <1>9
      <3> QED BY <3>1 DEF Dash!Of
    <2> QED BY <1>7, <1>8, <2>3, <2>4
  <1>10. CASE d \in cycle
    <2>1. \A e \in EnergyDays : readings[e] # NoRow => ~(readings[e].stamp > stamp)
      BY <1>1, <1>6, <1>10
    <2>2. \A e \in days : readings[e].stamp < stamp
      BY <1>2, <1>4, <1>6, <1>8, <2>1
    <2>3. newest < stamp
      <3> HIDE DEF days, newest
      <3> QED BY <1>2, <1>8, <2>2
    <2>4. d \in days' /\ readings'[d].stamp = stamp
      BY <1>3, <1>5, <1>8, <1>10
    <2>5. \A e \in days' : readings'[e].stamp \in 1 .. clock
      BY <1>2, <1>3, <1>4, <1>5, <1>6, <1>8
    <2>6. newest' = CHOOSE s \in {0} \cup {readings'[e].stamp : e \in days'} :
                        \A e \in days' : readings'[e].stamp <= s
      BY DEF Dash!Newest
    <2>7. newest' \in 0 .. clock /\ \A e \in days' : readings'[e].stamp <= newest'
      <3> DEFINE f == readings'
                 ds == days'
                 s == newest'
      <3>1. s = CHOOSE t \in {0} \cup {f[e].stamp : e \in ds} : \A e \in ds : f[e].stamp <= t
        BY <2>6
      <3>2. \A e \in ds : f[e].stamp \in 1 .. clock
        BY <2>5
      <3> HIDE DEF f, ds, s
      <3>3. s \in 0 .. clock /\ \A e \in ds : f[e].stamp <= s
        BY <1>2, <3>1, <3>2, NewestOf
      <3> QED BY <3>3 DEF f, ds, s
    <2> HIDE DEF newest, days
    <2>8. newest' \in Nat /\ newest' > newest
      BY <1>2, <1>8, <2>3, <2>4, <2>7
    <2> QED BY <1>7, <2>8 DEF newest, days
  <1> QED BY <1>9, <1>10

LEMMA WriteKeeps ==
    ASSUME Dash!DashInv, NEW v \in Writers, NEW d \in EnergyDays, NEW value \in DayValues,
           Dash!Write(v, d, value)
    PROVE  Dash!DashInv'
  <1> DEFINE stamp == writer[v]
             row == [kwh |-> value.kwh, status |-> value.status, stamp |-> stamp]
  <1>1. /\ readings' = [readings EXCEPT ![d] = row] /\ stamp > 0
        /\ late' \subseteq late \cup {d} /\ writer' = [writer EXCEPT ![v] = 0]
        /\ UNCHANGED <<s2, approved, confirmed, cache, req, clock>>
    BY DEF Dash!Write
  <1>2. /\ clock \in Nat /\ stamp \in 1 .. clock
        /\ \A u \in Writers : writer[u] \in 0 .. clock
        /\ \A u, w \in Writers : u # w /\ writer[u] > 0 => writer[u] # writer[w]
        /\ \A e \in EnergyDays, u \in Writers :
               readings[e] # NoRow => readings[e].stamp # writer[u]
        /\ \A e \in EnergyDays : readings[e] # NoRow => readings[e].stamp \in 1 .. clock
    BY <1>1, DashConstants DEF Dash!DashInv, Dash!StampsAreOnes, Dash!TypeOK
  <1>3. row.stamp = stamp
    OBVIOUS
  <1> HIDE DEF row
  <1>4. /\ \A e \in EnergyDays : readings'[e] = IF e = d THEN row ELSE readings[e]
        /\ readings' = [e \in EnergyDays |-> readings'[e]]
        /\ \A u \in Writers : writer'[u] = IF u = v THEN 0 ELSE writer[u]
        /\ writer' = [u \in Writers |-> writer'[u]]
    BY <1>1 DEF Dash!DashInv
  <1>5. /\ \A y : Dash!RequestOK(y) => Dash!RequestOK(y)'
        /\ \A e : Dash!EntryOK(e) => Dash!EntryOK(e)'
    <2>1. confirmed' \in Nat /\ confirmed <= confirmed'
      BY <1>1, DashConstants DEF Dash!DashInv, Dash!TypeOK
    <2> QED BY <2>1, WriteMoves, KeysMove
  <1>6. Dash!StampsAreOnes'
    <2>1. \A u \in Writers : writer'[u] \in 0 .. clock'
      BY <1>1, <1>2, <1>4
    <2>2. \A u, w \in Writers : u # w /\ writer'[u] > 0 => writer'[u] # writer'[w]
      BY <1>2, <1>4
    <2>3. ASSUME NEW e \in EnergyDays, NEW u \in Writers, readings'[e] # NoRow
          PROVE  readings'[e].stamp # writer'[u]
      <3>1. CASE e = d
        BY <1>2, <1>3, <1>4, <3>1
      <3>2. CASE e # d
        BY <1>2, <1>4, <2>3, <3>2
      <3> QED BY <3>1, <3>2
    <2> QED BY <2>1, <2>2, <2>3 DEF Dash!StampsAreOnes
  <1>7. Dash!TypeOK'
    <2>1. \A e \in EnergyDays : readings'[e] # NoRow => readings'[e].stamp \in 1 .. clock'
      BY <1>1, <1>2, <1>3, <1>4
    <2> QED BY <1>1, <2>1 DEF Dash!DashInv, Dash!TypeOK
  <1>8. /\ req' = [r \in Requests |-> req'[r]]
        /\ cache' \in Seq(Dash!Entries') /\ Dash!Entries' = Dash!Entries
        /\ Dash!Asked' = Dash!Asked
    BY <1>1 DEF Dash!DashInv, Dash!Entries, Dash!Asked
  <1>9. /\ \A e \in Dash!Entries' : Dash!EntryOK(e)'
        /\ \A x \in Dash!Asked' : Dash!RequestOK(x)'
    BY <1>5, <1>8 DEF Dash!DashInv
  <1> QED BY <1>4, <1>6, <1>7, <1>8, <1>9 DEF Dash!DashInv

\* A fingerprint just taken is not behind.
LEMMA KeyIsOK ==
    ASSUME Dash!DashInv, NEW b \in 1 .. confirmed, NEW expected
    PROVE  LET key == Dash!Key(b, expected) IN Dash!KeyOK(key) /\ key.bill = b
  <1> DEFINE key == Dash!Key(b, expected)
  <1>1. b \in DOMAIN Bills
    BY DashConstants DEF Dash!DashInv, Dash!TypeOK
  <1>2. key.bill = b /\ key.fingerprint[3] = Dash!Newest(Dash!Read(Bills[b]))
    BY DEF Dash!Key, Dash!Fingerprint
  <1>3. Dash!Newest(Dash!Read(Bills[b])) \in Nat
    BY <1>1, CycleStamps
  <1> HIDE DEF key
  <1>4. Dash!KeyOK(key)
    BY <1>1, <1>2, <1>3 DEF Dash!KeyOK
  <1> QED BY <1>2, <1>4 DEF key

\* An analysis is of its bill.
LEMMA AnalysisOf ==
    ASSUME NEW w, NEW b \in DOMAIN Bills, NEW expected
    PROVE  Dash!Analysis(w, Bills[b], expected).bill = b
  BY DashConstants DEF Dash!Analysis, Dash!Concluded, Dash!Conclusion

\* The entries a dashboard is stored beside.
LEMMA WithoutKey ==
    ASSUME Dash!DashInv, NEW key
    PROVE  LET rest == Dash!Without(key) IN
           /\ rest \in Seq(Dash!Entries) /\ OneEach(rest) /\ Len(rest) <= MaxEntries
           /\ \A j \in 1 .. Len(rest) : rest[j].key # key
  <1>0. /\ cache \in Seq(Dash!Entries) /\ OneEach(cache) /\ DOMAIN cache = 1 .. Len(cache)
        /\ Len(cache) \in Nat /\ Len(cache) <= MaxEntries
    BY EntriesAre
  <1>1. CASE Dash!Cached(key) = {}
    <2>1. Dash!Without(key) = cache
      BY <1>1 DEF Dash!Without
    <2>2. \A j \in 1 .. Len(cache) : cache[j].key # key
      BY <1>0, <1>1 DEF Dash!Cached
    <2> QED BY <1>0, <2>1, <2>2
  <1>2. CASE Dash!Cached(key) # {}
    <2>1. PICK i \in Dash!Cached(key) : Dash!Without(key) = Dash!RemoveAt(cache, i)
      BY <1>2 DEF Dash!Without
    <2>2. i \in 1 .. Len(cache) /\ cache[i].key = key
      BY <1>0, <2>1 DEF Dash!Cached
    <2> DEFINE t == Dash!RemoveAt(cache, i)
    <2>3. /\ t \in Seq(Dash!Entries) /\ Len(t) = Len(cache) - 1 /\ OneEach(t)
          /\ \A j \in 1 .. Len(t) : t[j].key # cache[i].key
      BY <1>0, <2>2, Taken
    <2>4. MaxEntries \in Nat
      BY DashConstants
    <2> HIDE DEF t
    <2>5. Len(t) <= MaxEntries
      BY <1>0, <2>3, <2>4
    <2>6. Dash!Without(key) = t
      BY <2>1 DEF t
    <2> QED BY <2>2, <2>3, <2>5, <2>6
  <1> QED BY <1>1, <1>2

LEMMA HitKeeps ==
    ASSUME Dash!DashInv, NEW r \in Requests, Dash!Hit(r)
    PROVE  /\ Dash!DashInv'
           /\ \E e \in Dash!Entries :
                  /\ e.key = Dash!Key(req[r].bill, req[r].expected)
                  /\ req'[r].dash = e.dash
           /\ \A o \in Requests \ {r} : req'[o] = req[o]
  <1>1. PICK i \in Dash!Cached(Dash!Key(req[r].bill, req[r].expected)) :
            /\ cache' = Append(Dash!RemoveAt(cache, i), cache[i])
            /\ req' = [req EXCEPT ![r] =
                   [step |-> "hit", bill |-> req[r].bill, expected |-> req[r].expected,
                    dash |-> cache[i].dash]]
    BY DEF Dash!Hit, Dash!DashInv
  <1>2. UNCHANGED <<readings, s2, approved, confirmed, writer, clock, late>>
    BY DEF Dash!Hit
  <1> DEFINE x == [step |-> "hit", bill |-> req[r].bill, expected |-> req[r].expected,
                   dash |-> cache[i].dash]
  <1>3. /\ cache \in Seq(Dash!Entries) /\ OneEach(cache) /\ DOMAIN cache = 1 .. Len(cache)
        /\ Len(cache) \in Nat /\ Len(cache) <= MaxEntries
        /\ \A e \in Dash!Entries : Dash!EntryOK(e)
    BY EntriesAre
  <1>4. /\ i \in 1 .. Len(cache) /\ cache[i] \in Dash!Entries
        /\ cache[i].key = Dash!Key(req[r].bill, req[r].expected)
    BY <1>3 DEF Dash!Cached, Dash!Entries
  <1>5. Dash!RequestOK(x) /\ x.dash = cache[i].dash
    BY DEF Dash!RequestOK
  <1> DEFINE t == Dash!RemoveAt(cache, i)
  <1>6. /\ t \in Seq(Dash!Entries) /\ Len(t) = Len(cache) - 1 /\ OneEach(t)
        /\ \A j \in 1 .. Len(t) : t[j].key # cache[i].key
    BY <1>3, <1>4, Taken
  <1>7. req' = [req EXCEPT ![r] = x] /\ cache' = Append(t, cache[i])
    BY <1>1
  <1> HIDE DEF x, t
  <1>8. cache' \in Seq(Dash!Entries) /\ Len(cache') = Len(t) + 1 /\ OneEach(cache')
    BY <1>4, <1>6, <1>7, Appended
  <1>9. Len(cache') <= MaxEntries
    BY <1>3, <1>6, <1>8
  <1>10. Dash!DashInv'
    BY <1>2, <1>3, <1>5, <1>7, <1>8, <1>9, CacheMoves
  <1>11. req'[r] = x /\ \A o \in Requests \ {r} : req'[o] = req[o]
    BY <1>7 DEF Dash!DashInv
  <1> QED BY <1>4, <1>5, <1>10, <1>11

LEMMA CompareKeeps ==
    ASSUME Dash!DashInv, NEW r \in Requests, Dash!Compare(r)
    PROVE  Dash!DashInv' /\ req' = [req EXCEPT ![r] = Dash!NoRequest]
  <1> DEFINE key == req[r].key
             entry == [key |-> key,
                       dash |-> [now |-> req[r].now, of |-> req[r].of, trend |-> Dash!TrendNow]]
             rest == Dash!Without(key)
             all == Append(rest, entry)
  <1>1. /\ req[r].step = "compare" /\ cache' = Dash!Evicted(Append(Dash!Without(entry.key), entry))
        /\ req' = [req EXCEPT ![r] = Dash!NoRequest]
        /\ UNCHANGED <<readings, s2, approved, confirmed, writer, clock, late>>
    BY DEF Dash!Compare, Dash!KeyToStore
  <1>2. entry.key = key /\ entry.dash.now = req[r].now /\ entry.dash.of = req[r].of
    OBVIOUS
  <1>3. Dash!EntryOK(entry)
    <2>1. Dash!RequestOK(req[r])
      BY DEF Dash!DashInv, Dash!Asked
    <2>2. Dash!KeyOK(key) /\ Dash!BuiltOK(key, req[r].now, req[r].of)
      BY <1>1, <2>1 DEF Dash!RequestOK
    <2> HIDE DEF entry
    <2> QED BY <1>2, <2>2 DEF Dash!EntryOK
  <1> HIDE DEF entry
  <1>4. /\ rest \in Seq(Dash!Entries) /\ OneEach(rest) /\ Len(rest) <= MaxEntries
        /\ \A j \in 1 .. Len(rest) : rest[j].key # key
    BY WithoutKey
  <1>5. \A e \in Dash!Entries : Dash!EntryOK(e)
    BY EntriesAre
  <1> DEFINE E == Dash!Entries \cup {entry}
  <1>6. cache' = Dash!Evicted(all)
    BY <1>1, <1>2
  <1> HIDE DEF key, rest
  <1>7. rest \in Seq(E) /\ entry \in E /\ \A e \in E : Dash!EntryOK(e)
    <2>1. /\ Len(rest) \in Nat /\ DOMAIN rest = 1 .. Len(rest)
          /\ \A j \in 1 .. Len(rest) : rest[j] \in Dash!Entries
      BY <1>4, LenProperties, ElementOfSeq
    <2>2. rest \in Seq(E)
      BY <1>4, <2>1
    <2> QED BY <1>3, <1>5, <2>2
  <1> HIDE DEF E
  <1>8. all \in Seq(E) /\ Len(all) = Len(rest) + 1 /\ OneEach(all)
    BY <1>2, <1>4, <1>7, Appended
  <1>9. Len(rest) \in Nat /\ MaxEntries \in Nat
    BY <1>7, LenProperties, DashConstants
  <1> HIDE DEF all
  <1>10. cache' \in Seq(E) /\ OneEach(cache') /\ Len(cache') <= MaxEntries
    <2>1. CASE Len(all) > MaxEntries
      <3>1. cache' = Tail(all)
        BY <1>6, <2>1 DEF Dash!Evicted
      <3>2. all # << >>
        BY <1>8, <1>9
      <3>3. Tail(all) \in Seq(E) /\ Len(Tail(all)) = Len(all) - 1 /\ OneEach(Tail(all))
        BY <1>8, <3>2, Dropped
      <3>4. Len(all) - 1 <= MaxEntries
        BY <1>4, <1>8, <1>9
      <3> QED BY <3>1, <3>3, <3>4
    <2>2. CASE ~(Len(all) > MaxEntries)
      <3>1. cache' = all
        BY <1>6, <2>2 DEF Dash!Evicted
      <3> QED BY <1>8, <1>9, <2>2, <3>1
    <2> QED BY <2>1, <2>2
  <1>11. Dash!RequestOK(Dash!NoRequest)
    BY DEF Dash!RequestOK, Dash!NoRequest
  <1>12. Dash!DashInv'
    BY <1>1, <1>7, <1>10, <1>11, CacheMoves
  <1> QED BY <1>1, <1>12

\* The steps of a request that leave the cache alone.
LEMMA AskingKeeps ==
    ASSUME Dash!DashInv, NEW r \in Requests,
           \/ \E expected \in Expectations : Dash!Find(r, expected)
           \/ Dash!Miss(r) \/ Dash!Build(r) \/ Dash!Answer(r) \/ Dash!Abandon(r)
    PROVE  /\ Dash!DashInv'
           /\ \E x : req' = [req EXCEPT ![r] = x] /\ (req[r].step = "look" => x.step # "hit")
  <1>0. Dash!RequestOK(req[r]) /\ Dash!RequestOK(Dash!NoRequest)
    BY DEF Dash!DashInv, Dash!Asked, Dash!RequestOK, Dash!NoRequest
  <1>00. confirmed \in 0 .. Len(Bills) /\ DOMAIN Bills = 1 .. Len(Bills) /\ Len(Bills) \in Nat
    BY DashConstants DEF Dash!DashInv, Dash!TypeOK
  <1>1. ASSUME NEW expected \in Expectations, Dash!Find(r, expected)
        PROVE  /\ Dash!DashInv'
               /\ \E x : req' = [req EXCEPT ![r] = x] /\ (req[r].step = "look" => x.step # "hit")
    <2> DEFINE x == [step |-> "look", bill |-> confirmed, expected |-> expected]
    <2>1. /\ confirmed > 0 /\ req' = [req EXCEPT ![r] = x]
          /\ UNCHANGED <<readings, s2, approved, confirmed, cache, writer, clock, late>>
      BY <1>1 DEF Dash!Find
    <2>2. x.step = "look" /\ Dash!RequestOK(x)
      BY <1>00, <2>1 DEF Dash!RequestOK
    <2> HIDE DEF x
    <2> QED BY <2>1, <2>2, RequestMoves
  <1>2. CASE Dash!Miss(r)
    <2> DEFINE key == Dash!Key(req[r].bill, req[r].expected)
               x == [step |-> "build", key |-> key]
    <2>1. /\ req[r].step = "look" /\ req' = [req EXCEPT ![r] = x]
          /\ UNCHANGED <<readings, s2, approved, confirmed, cache, writer, clock, late>>
      BY <1>2 DEF Dash!Miss
    <2>2. req[r].bill \in 1 .. confirmed
      BY <1>0, <2>1 DEF Dash!RequestOK
    <2>3. Dash!KeyOK(key) /\ key.bill = req[r].bill
      BY <2>2, KeyIsOK
    <2> HIDE DEF key
    <2>4. x.step = "build" /\ x.key = key
      OBVIOUS
    <2> HIDE DEF x
    <2>5. Dash!RequestOK(x)
      BY <1>00, <2>2, <2>3, <2>4 DEF Dash!RequestOK
    <2> QED BY <2>1, <2>4, <2>5, RequestMoves
  <1>3. CASE Dash!Build(r)
    <2> DEFINE key == req[r].key
               now == Dash!Analysis(Dash!Stored, Bills[confirmed], key.expected)
               of == Dash!Of(Bills[confirmed])
               x == [step |-> "compare", key |-> key, now |-> now, of |-> of]
    <2>1. /\ req[r].step = "build" /\ req' = [req EXCEPT ![r] = x]
          /\ UNCHANGED <<readings, s2, approved, confirmed, cache, writer, clock, late>>
      BY <1>3 DEF Dash!Build, Dash!DashInv
    <2>2. Dash!KeyOK(key) /\ key.bill <= confirmed /\ key.bill \in DOMAIN Bills
      BY <1>0, <2>1 DEF Dash!RequestOK, Dash!KeyOK
    <2>3. confirmed \in DOMAIN Bills
      BY <1>00, <2>2
    <2>4. now.bill = confirmed
      BY <2>3, AnalysisOf
    <2>5. now.bill \in Nat /\ now.bill >= key.bill
      <3> HIDE DEF now, key
      <3> QED BY <1>00, <2>2, <2>4
    <2> HIDE DEF key, now
    <2>6. Dash!BuiltOK(key, now, of)
      BY <2>4, <2>5 DEF Dash!BuiltOK
    <2> HIDE DEF of
    <2>7. x.step = "compare" /\ x.key = key /\ x.now = now /\ x.of = of
      OBVIOUS
    <2> HIDE DEF x
    <2>8. Dash!RequestOK(x)
      BY <2>2, <2>6, <2>7 DEF Dash!RequestOK
    <2> QED BY <2>1, <2>7, <2>8, RequestMoves
  <1>4. CASE Dash!Answer(r) \/ Dash!Abandon(r)
    <2>1. /\ req' = [req EXCEPT ![r] = Dash!NoRequest]
          /\ UNCHANGED <<readings, s2, approved, confirmed, cache, writer, clock, late>>
      BY <1>4 DEF Dash!Answer, Dash!Abandon
    <2>2. Dash!NoRequest.step # "hit"
      BY DEF Dash!NoRequest
    <2> QED BY <1>0, <2>1, <2>2, RequestMoves
  <1> QED BY <1>1, <1>2, <1>3, <1>4

\* A request whose step is none of a lookup that finds an entry.
LEMMA NoHit ==
    ASSUME Dash!DashInv, NEW r \in Requests,
           \E x : req' = [req EXCEPT ![r] = x] /\ (req[r].step = "look" => x.step # "hit")
    PROVE  Dash!HitStep
  <1>1. PICK x : req' = [req EXCEPT ![r] = x] /\ (req[r].step = "look" => x.step # "hit")
    OBVIOUS
  <1>2. \A o \in Requests : req'[o] = IF o = r THEN x ELSE req[o]
    BY <1>1 DEF Dash!DashInv
  <1>3. \A o \in Requests : ~Dash!HitNow(o)
    BY <1>1, <1>2 DEF Dash!HitNow
  <1> QED BY <1>3 DEF Dash!HitStep

LEMMA DashStep ==
    ASSUME Dash!DashInv, Dash!Next \/ UNCHANGED vars
    PROVE  Dash!DashInv' /\ Dash!HitStep
  <1>0. /\ clock \in 0 .. MaxWrites /\ confirmed \in 0 .. Len(Bills)
        /\ MaxWrites \in Nat /\ Len(Bills) \in Nat
    BY DashConstants DEF Dash!DashInv, Dash!TypeOK
  <1>1. ASSUME req' = req PROVE Dash!HitStep
    BY <1>1 DEF Dash!HitStep, Dash!HitNow
  <1>2. ASSUME NEW v \in Writers, Dash!Begin(v) PROVE Dash!DashInv' /\ Dash!HitStep
    <2>1. /\ clock < MaxWrites /\ clock' = clock + 1
          /\ writer' = [writer EXCEPT ![v] = clock + 1]
          /\ UNCHANGED <<readings, s2, approved, confirmed, cache, req, late>>
      BY <1>2 DEF Dash!Begin
    <2>2. confirmed' \in confirmed .. Len(Bills)
      BY <1>0, <2>1
    <2> QED BY <1>1, <2>1, <2>2, WriterMoves
  <1>3. ASSUME NEW v \in Writers,
               \/ \E d \in EnergyDays, value \in Suns : Dash!Observe(v, d, value)
               \/ \E b \in DOMAIN Bills, tariff \in Tariffs : Dash!Approve(v, b, tariff)
               \/ Dash!Confirm(v)
        PROVE  Dash!DashInv' /\ Dash!HitStep
    <2>1. /\ writer' = [writer EXCEPT ![v] = 0]
          /\ UNCHANGED <<readings, cache, req, clock, late>>
          /\ confirmed' = confirmed \/ (confirmed < Len(Bills) /\ confirmed' = confirmed + 1)
      BY <1>3 DEF Dash!Observe, Dash!Approve, Dash!Confirm
    <2>2. confirmed' \in confirmed .. Len(Bills)
      BY <1>0, <2>1
    <2> QED BY <1>1, <2>1, <2>2, WriterMoves
  <1>4. ASSUME NEW v \in Writers, NEW d \in EnergyDays, NEW value \in DayValues,
               Dash!Write(v, d, value)
        PROVE  Dash!DashInv' /\ Dash!HitStep
    <2>1. req' = req
      BY <1>4 DEF Dash!Write
    <2> QED BY <1>1, <1>4, <2>1, WriteKeeps
  <1>5. ASSUME NEW r \in Requests, Dash!Hit(r) PROVE Dash!DashInv' /\ Dash!HitStep
    <2>1. PICK e \in Dash!Entries :
              e.key = Dash!Key(req[r].bill, req[r].expected) /\ req'[r].dash = e.dash
      BY <1>5, HitKeeps
    <2>2. \A o \in Requests \ {r} : ~Dash!HitNow(o)
      <3>1. \A o \in Requests \ {r} : req'[o] = req[o]
        BY <1>5, HitKeeps
      <3> QED BY <3>1 DEF Dash!HitNow
    <2>3. req[r].step = "look" /\ readings' = readings /\ late' = late
      BY <1>5 DEF Dash!Hit
    <2> DEFINE b == req[r].bill
    <2>4. b \in 1 .. confirmed
      BY <2>3 DEF Dash!DashInv, Dash!Asked, Dash!RequestOK
    <2>5. e.key.bill = b /\ e.key.fingerprint[3] = Dash!Newest(Dash!Read(Bills[b]))
      BY <2>1 DEF Dash!Key, Dash!Fingerprint
    <2>6. Dash!BuiltOK(e.key, e.dash.now, e.dash.of)
      BY EntriesAre DEF Dash!EntryOK
    <2>7. /\ e.dash.now.bill >= b
          /\ e.dash.now.bill = b =>
                 e.dash.of = Dash!Of(Bills[b]) \/ Dash!CycleOf(Bills[b]) \cap late # {}
      BY <2>5, <2>6 DEF Dash!BuiltOK, Dash!Orderly
    <2>8. Dash!HitStep
      BY <2>1, <2>2, <2>7 DEF Dash!HitStep
    <2> QED BY <1>5, <2>8, HitKeeps
  <1>6. ASSUME NEW r \in Requests, Dash!Compare(r) PROVE Dash!DashInv' /\ Dash!HitStep
    <2>1. Dash!DashInv' /\ req' = [req EXCEPT ![r] = Dash!NoRequest]
      BY <1>6, CompareKeeps
    <2>2. Dash!NoRequest.step # "hit"
      BY DEF Dash!NoRequest
    <2> QED BY <2>1, <2>2, NoHit
  <1>7. ASSUME NEW r \in Requests,
               \/ \E expected \in Expectations : Dash!Find(r, expected)
               \/ Dash!Miss(r) \/ Dash!Build(r) \/ Dash!Answer(r) \/ Dash!Abandon(r)
        PROVE  Dash!DashInv' /\ Dash!HitStep
    BY <1>7, AskingKeeps, NoHit
  <1>8. CASE UNCHANGED vars
    <2>1. UNCHANGED <<readings, s2, approved, confirmed, cache, req, writer, clock, late>>
      BY <1>8 DEF vars
    <2>2. Dash!DashInv'
      <3>1. confirmed' \in Nat /\ confirmed <= confirmed'
        BY <1>0, <2>1
      <3>2. /\ \A y : Dash!RequestOK(y) => Dash!RequestOK(y)'
            /\ \A e : Dash!EntryOK(e) => Dash!EntryOK(e)'
        BY <2>1, <3>1, NothingMoves, KeysMove
      <3>3. Dash!Entries' = Dash!Entries /\ Dash!Asked' = Dash!Asked
        BY <2>1 DEF Dash!Entries, Dash!Asked
      <3>4. Dash!TypeOK' /\ Dash!StampsAreOnes'
        BY <2>1 DEF Dash!DashInv, Dash!TypeOK, Dash!StampsAreOnes
      <3> QED BY <2>1, <3>2, <3>3, <3>4 DEF Dash!DashInv
    <2> QED BY <1>1, <2>1, <2>2
  <1> QED BY <1>2, <1>3, <1>4, <1>5, <1>6, <1>7, <1>8, Zenon DEF Dash!Next

LEMMA DashInvHolds == MCSpec => [](InDash => Dash!DashInv)
  <1>1. MCInit => (InDash => Dash!DashInv)
    <2> SUFFICES ASSUME MCInit, InDash PROVE Dash!DashInv
      OBVIOUS
    <2>1. Dash!Init
      BY DEF MCInit, InDash
    <2>2. /\ readings = [d \in EnergyDays |-> NoRow] /\ confirmed = 0 /\ cache = << >>
          /\ req = [r \in Requests |-> Dash!NoRequest] /\ writer = [v \in Writers |-> 0]
          /\ clock = 0 /\ late = {}
      BY <2>1 DEF Dash!Init
    <2>3. Dash!TypeOK
      BY <2>2, DashConstants DEF Dash!TypeOK
    <2>4. Dash!StampsAreOnes
      BY <2>2 DEF Dash!StampsAreOnes
    <2>5. \A x \in Dash!Asked : Dash!RequestOK(x)
      BY <2>2 DEF Dash!Asked, Dash!RequestOK, Dash!NoRequest
    <2>6. cache \in Seq(Dash!Entries) /\ Dash!Entries = {}
      BY <2>2 DEF Dash!Entries
    <2> QED BY <2>2, <2>3, <2>4, <2>5, <2>6 DEF Dash!DashInv
  <1>2. (InDash => Dash!DashInv) /\ [MCNext]_vars => (InDash => Dash!DashInv)'
    <2> SUFFICES ASSUME InDash => Dash!DashInv, [MCNext]_vars, InDash'
                 PROVE  Dash!DashInv'
      OBVIOUS
    <2>1. InDash
      BY PartKept DEF InDash
    <2> QED BY <2>1, DashSteps, DashStep
  <1> QED BY <1>1, <1>2, PTL DEF MCSpec

\* A dashboard served from the cache is of the readings of its cycle as they are,
\* whatever was written while it was built, evicted or built again, unless a transaction
\* that began earlier was committed later; and never of a cycle before the one that was
\* asked for (intelligence/dashboard_cache.py, energy_fingerprint; dashboard_readmodel.py).
THEOREM HitsAreCurrent == MCSpec => HitIsCurrent
  <1>1. (InDash => Dash!DashInv) /\ [MCNext]_vars => [InDash => Dash!HitStep]_vars
    BY DashSteps, DashStep
  <1> QED BY <1>1, DashInvHolds, PTL DEF MCSpec, HitIsCurrent

=============================================================================
