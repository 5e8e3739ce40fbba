---------------------------- MODULE OperationsProofs ----------------------------
(***************************************************************************)
(* Theorems about the composition, continued: the messages, the days, the    *)
(* ledger of the analysis and the cycle of jobs; and the types of all parts, *)
(* for any finite instance and bounds.                                      *)
(***************************************************************************)
EXTENDS FiguresProofs

-----------------------------------------------------------------------------
(* The outbox of alerts.                                                    *)

LEMMA OutboxSteps ==
    ASSUME InOutbox, MCNext
    PROVE  /\ RestOutbox
           /\ \/ \E d \in Dispatchers, as \in (SUBSET Alerts) \ {{}} : Outbox!Enqueue(d, as)
              \/ \E d \in Dispatchers : Outbox!DispatchStep(d) \/ Outbox!Crash(d)
              \/ Outbox!Purge \/ Outbox!Tick
  <1>1. /\ ~InPipeline /\ ~InDaily /\ ~InPv /\ ~InDash /\ ~InAlert /\ ~InAnomaly
        /\ ~InTariff /\ ~InMarket /\ ~InCycle /\ ~InUtility
    BY DEF InOutbox, InPipeline, InDaily, InPv, InDash, InAlert, InAnomaly, InTariff,
           InMarket, InCycle, InUtility
  <1> QED BY <1>1, Zenon DEF MCNext

\* A behaviour about the outbox is a behaviour of the outbox.
LEMMA OutboxBehaves == MCSpec => (InOutbox => Outbox!Spec)
  <1>1. MCInit /\ InOutbox => Outbox!Init
    BY DEF MCInit, InOutbox
  <1>2. InOutbox /\ [MCNext]_vars => [Outbox!Next]_Outbox!vars /\ InOutbox'
    <2>1. InOutbox /\ MCNext => Outbox!Next /\ InOutbox'
      BY OutboxSteps DEF RestOutbox, InOutbox, Outbox!Next
    <2>2. UNCHANGED vars => UNCHANGED Outbox!vars /\ InOutbox' = InOutbox
      BY DEF vars, InOutbox, Outbox!vars, Outbox!dbVars, Outbox!dispatcherVars,
             Outbox!history
    <2> QED BY <2>1, <2>2
  <1> QED BY <1>1, <1>2, PTL DEF MCSpec, Outbox!Spec

LEMMA PartStays == ASSUME [MCNext]_vars, ~InOutbox PROVE ~InOutbox'
  BY PartKept DEF InOutbox

\* Telegram gets an alert's message twice only for one of the reasons that delivery
\* at least once admits (ADR-040 items 5, 6 and 10; events/outbox.py, _claimable;
\* alerts/outbox.py, _dispatch_event).
THEOREM MessagesNeedExcuse == MCSpec => []DuplicateNeedsExcuse
  <1>1. Outbox!Spec => []Outbox!DuplicateNeedsExcuse
    BY Outbox!NeverRepeatedForNothing, ConstantsOfParts DEF Outbox!ConstantsOK
  <1>2. MCSpec /\ ~InOutbox => []~InOutbox
    BY PartStays, PTL DEF MCSpec
  <1> QED BY <1>1, <1>2, OutboxBehaves, PTL DEF DuplicateNeedsExcuse

\* The ledger and the events marked DELIVERED speak only of messages that Telegram
\* accepted (alerts/sql_ledger.py; alerts/outbox.py, _dispatch_event).
THEOREM MarksAreOfSent == MCSpec => []ConfirmedWasSent
  <1>1. Outbox!Spec => []Outbox!ConfirmedWasSent
    BY Outbox!OnlyConfirmedIsRecorded, ConstantsOfParts DEF Outbox!ConstantsOK
  <1>2. MCSpec /\ ~InOutbox => []~InOutbox
    BY PartStays, PTL DEF MCSpec
  <1> QED BY <1>1, <1>2, OutboxBehaves, PTL DEF ConfirmedWasSent
-----------------------------------------------------------------------------
(* The production of a day: services/collection.py and                       *)
(* db/repositories/daily_energy.py.                                          *)

\* The state by its names.
dailyEnergy == s1
versions == s2
meter == s3
night == s4
job == s5
runs == s6
trail == s7
crossed == s8
USE DEF dailyEnergy, versions, meter, night, job, runs, trail, crossed

LEMMA DailySteps ==
    ASSUME InDaily, MCNext
    PROVE  \/ \E w \in Writers, D \in (SUBSET EnergyDays) \ {{}} : Daily!Collect(w, D)
           \/ \E w \in Writers, t \in Totals : Daily!CountNight(w, t)
           \/ \E w \in Writers, k \in Kwh : Daily!UpdateDay(w, k) \/ Daily!MissDay(w, k)
           \/ \E w \in Writers :
                 \/ Daily!InsertDay(w) \/ Daily!FlushNight(w) \/ Daily!LookDay(w)
                 \/ Daily!UpsertDay(w) \/ Daily!Commit(w) \/ Daily!Fail(w)
           \/ Daily!NextNight
  <1>1. /\ ~InOutbox /\ ~InPipeline /\ ~InPv /\ ~InDash /\ ~InAlert /\ ~InAnomaly
        /\ ~InTariff /\ ~InMarket /\ ~InCycle /\ ~InUtility
    BY DEF InOutbox, InPipeline, InDaily, InPv, InDash, InAlert, InAnomaly, InTariff,
           InMarket, InCycle, InUtility
  <1> QED BY <1>1, ZenonT(60) DEF MCNext

LEMMA DailyConstants ==
    /\ \E n \in Nat : EnergyDays = 1 .. n
    /\ Kwh \subseteq Nat \ {0} /\ Totals \subseteq Nat /\ NoDay \notin Nat
  <1>1. /\ IsFiniteSet(EnergyDays) /\ EnergyDays = 1 .. Cardinality(EnergyDays)
        /\ Kwh \subseteq Nat \ {0} /\ Totals \subseteq Nat /\ NoDay \notin Nat
    BY ConstantsOfParts DEF Daily!ConstantsOK, Daily!IsFiniteSet, IsFiniteSet,
                            Daily!Cardinality, Cardinality
  <1> QED BY <1>1, FS_CardinalityType

\* Before every day there is a night.
LEMMA NightsOfDays ==
    /\ Daily!Nights \subseteq Nat /\ 0 \in Daily!Nights /\ EnergyDays \subseteq Daily!Nights
    /\ \A n \in Daily!Nights : n \in EnergyDays <=> n # 0
    /\ \A d \in EnergyDays : d - 1 \in Daily!Nights /\ d - 1 < d
  BY DailyConstants DEF Daily!Nights

\* The next day is one of those to do.
LEMMA NextIsToDo ==
    ASSUME NEW S \in SUBSET Nat, S # {}
    PROVE  Daily!Min(S) \in S
  <1> DEFINE R == {ss \in Nat \X Nat : ss[1] < ss[2]}
  <1>1. IsWellFoundedOn(R, Nat)
    BY NatLessThanWellFounded DEF OpToRel
  <1> HIDE DEF R
  <1>2. PICK m \in S : \A n \in S : <<n, m>> \notin R
    BY <1>1, WFMin
  <1>3. ASSUME NEW n \in S PROVE m <= n
    <2>1. m \in Nat /\ n \in Nat /\ ~(n < m)
      BY <1>2, <1>3 DEF R
    <2> QED BY <2>1
  <1> QED BY <1>2, <1>3 DEF Daily!Min

LEMMA MissingIsRow ==
    /\ Daily!Missing \in Daily!Row
    /\ \A k \in Nat : Daily!OfBrand(k) \in Daily!Row /\ Daily!OfTotals(k) \in Daily!Row
  BY DEF Daily!Missing, Daily!Row, Daily!Sources, Daily!OfBrand, Daily!OfTotals

LEMMA NoJobIsJob ==
    /\ Daily!NoJob \in Daily!Job /\ Daily!NoJob.step = "idle" /\ Daily!NoJob.todo = {}
    /\ Daily!NoJob.total = NoDay /\ Daily!NoJob.locked = {} /\ ~Daily!NoJob.raise
    /\ Daily!NoJob.value = Daily!Missing /\ Daily!NoJob.read = Daily!Missing
    /\ \A d \in EnergyDays : Daily!NoJob.put[d] = Daily!Missing /\ Daily!NoJob.old[d] = 0
  BY MissingIsRow DEF Daily!NoJob, Daily!Job, Daily!Steps

\* What is left of a day that a writer has locked: nothing, if the value is as it was.
LeavesDay(c, j, d, was, new) ==
    /\ c \in Daily!Job
    /\ c.step = j.step /\ c.todo = j.todo /\ c.value = j.value /\ c.read = j.read
    /\ c.had = j.had /\ c.total = j.total /\ c.raise = j.raise
    /\ c.locked = j.locked \cup {d}
    /\ \A e \in EnergyDays \ {d} : c.put[e] = j.put[e] /\ c.old[e] = j.old[e]
    /\ IF was.kwh # new.kwh THEN c.put[d] = new /\ c.old[d] = was.kwh
       ELSE c.put[d] = j.put[d] /\ c.old[d] = j.old[d]

LEMMA ChangedDay ==
    ASSUME NEW j \in Daily!Job, NEW d \in EnergyDays,
           NEW was \in Daily!Row, NEW new \in Daily!Row
    PROVE  LeavesDay(Daily!Changed(j, d, was, new), j, d, was, new)
  <1>1. /\ was.kwh \in Nat /\ j.put \in [EnergyDays -> Daily!Row]
        /\ j.old \in [EnergyDays -> Nat] /\ j.locked \subseteq EnergyDays
    BY DEF Daily!Row, Daily!Job
  <1> QED BY <1>1 DEF LeavesDay, Daily!Changed, Daily!Job

LEMMA InsertedDay ==
    ASSUME NEW j \in Daily!Job, NEW d \in EnergyDays, ~Daily!Stored(d)
    PROVE  LET c == Daily!Inserted(j, d) IN
           /\ c \in Daily!Job
           /\ c.step = j.step /\ c.todo = j.todo /\ c.value = j.value /\ c.read = j.read
           /\ c.had = j.had /\ c.total = j.total /\ c.raise = j.raise
           /\ c.locked = j.locked \cup {d}
           /\ \A e \in EnergyDays : c.old[e] = j.old[e] /\ (e # d => c.put[e] = j.put[e])
           /\ c.put[d] = j.value
  <1>1. /\ j.value \in Daily!Row /\ j.put \in [EnergyDays -> Daily!Row]
        /\ j.old \in [EnergyDays -> Nat] /\ j.locked \subseteq EnergyDays
    BY DEF Daily!Job
  <1> QED BY <1>1 DEF Daily!Inserted, Daily!Job

\* The day that is done is done with; the last one ends the work.
LEMMA DayIsDone ==
    ASSUME NEW j \in Daily!Job, j.todo # {}, j.todo \subseteq EnergyDays
    PROVE  LET n == Daily!NextDay(j)
               d == Daily!Min(j.todo) IN
           /\ n \in Daily!Job /\ d \in j.todo /\ d \in EnergyDays
           /\ n.step = "done" \/ (n.step = "collecting" /\ n.todo # {})
           /\ j.todo = {d} => n.step = "done"
           /\ n.todo = j.todo \ {d} /\ n.value = j.value /\ n.read = j.read
           /\ n.had = j.had /\ n.total = j.total /\ n.raise = j.raise
           /\ n.locked = j.locked /\ n.put = j.put /\ n.old = j.old
  <1> DEFINE d == Daily!Min(j.todo)
  <1>1. d \in j.todo /\ d \in EnergyDays
    BY NextIsToDo, NightsOfDays
  <1>2. Daily!Cardinality(j.todo) = Cardinality(j.todo)
    BY DEF Daily!Cardinality, Cardinality
  <1>3. (Cardinality(j.todo) = 1) <=> (j.todo = {d})
    <2>1. IsFiniteSet(EnergyDays)
      BY DailyConstants, FS_Interval
    <2>2. IsFiniteSet(j.todo)
      BY <2>1, FS_Subset
    <2>3. Cardinality({d}) = 1
      BY FS_Singleton
    <2>4. Cardinality(j.todo) = 1 => j.todo = {d}
      BY <1>1, <2>2, FS_Singleton
    <2> QED BY <2>3, <2>4
  <1> HIDE DEF d
  <1>4. /\ Daily!NextDay(j) =
             [j EXCEPT !.todo = j.todo \ {d}, !.step = IF j.todo = {d} THEN "done" ELSE "collecting"]
    BY <1>2, <1>3 DEF Daily!NextDay, d
  <1>5. /\ j.todo \subseteq Daily!Nights /\ {"done", "collecting"} \subseteq Daily!Steps
    BY DEF Daily!Job, Daily!Steps
  <1>6. Daily!NextDay(j) \in Daily!Job
    BY <1>4, <1>5 DEF Daily!Job
  <1>7. j.todo # {d} => j.todo \ {d} # {}
    BY <1>1
  <1> QED BY <1>1, <1>4, <1>6, <1>7 DEF Daily!Job, d

\* A step that alters nothing but a writer's own record keeps what is agreed, if what
\* the writer holds then does and no one else reads the night.
LEMMA MoveKeeps ==
    ASSUME Daily!DailyInv, NEW w \in Writers, NEW j \in Daily!Job,
           job' = [job EXCEPT ![w] = j], runs' \in 0 .. MaxRuns, crossed' \in BOOLEAN,
           UNCHANGED <<dailyEnergy, versions, meter, night, trail>>, Daily!JobAgrees(j),
           \/ crossed'
           \/ /\ ~crossed /\ Daily!Holds(w, j)
              /\ j.total # NoDay => Daily!Closing(w, j)
              /\ \A x \in Writers \ {w} : ~Daily!Counting(x)
    PROVE  Daily!DailyInv'
  <1>1. /\ job \in [Writers -> Daily!Job] /\ dailyEnergy' = dailyEnergy /\ versions' = versions
        /\ meter' = meter /\ night' = night /\ trail' = trail
    BY DEF Daily!DailyInv, Daily!TypeOK
  <1>2. job'[w] = j /\ \A x \in Writers \ {w} : job'[x] = job[x]
    BY <1>1
  <1>3. Daily!TypeOK'
    BY <1>1 DEF Daily!DailyInv, Daily!TypeOK
  <1>4. \A x \in Writers : Daily!JobAgrees(job[x])'
    BY <1>1, <1>2 DEF Daily!DailyInv, Daily!JobAgrees
  <1>0. ASSUME ~crossed'
        PROVE  /\ ~crossed /\ Daily!Holds(w, j) /\ (j.total # NoDay => Daily!Closing(w, j))
               /\ \A x \in Writers \ {w} : ~Daily!Counting(x)
    BY <1>0, Zenon
  <1>5. ASSUME ~crossed' PROVE Daily!DaysAgree' /\ Daily!NoValueForgotten' /\ Daily!TotalsClose'
    BY <1>1, <1>0, <1>5 DEF Daily!DailyInv, Daily!DaysAgree, Daily!NoValueForgotten,
                      Daily!TotalsClose, Daily!Stored
  <1>6. ASSUME ~crossed' PROVE Daily!WritersAgree'
    <2>1. /\ ~crossed /\ Daily!WritersAgree /\ Daily!Holds(w, j)
          /\ j.total # NoDay => Daily!Closing(w, j)
          /\ \A x \in Writers \ {w} : ~Daily!Counting(x)
      BY <1>0, <1>6 DEF Daily!DailyInv
    <2>2. ASSUME NEW x \in Writers PROVE Daily!Holds(x, job[x])'
      <3>1. CASE x = w
        <4>1. \A y \in Writers \ {w} : j.locked \cap job'[y].locked = {}
          BY <1>2, <2>1 DEF Daily!Holds
        <4> QED BY <1>1, <1>2, <2>1, <3>1, <4>1 DEF Daily!Holds
      <3>2. CASE x # w
        <4>1. Daily!Holds(x, job[x])
          BY <2>1 DEF Daily!WritersAgree
        <4>2. \A y \in Writers \ {x} : job[x].locked \cap job'[y].locked = {}
          BY <1>2, <2>1, <3>2, <4>1 DEF Daily!Holds
        <4> QED BY <1>1, <1>2, <3>2, <4>1, <4>2 DEF Daily!Holds
      <3> QED BY <3>1, <3>2
    <2>3. ASSUME NEW x \in Writers, Daily!Counting(x)' PROVE Daily!Closing(x, job[x])'
      <3>1. x = w
        BY <1>2, <2>1, <2>3 DEF Daily!Counting
      <3>2. Daily!Closing(w, j)
        BY <1>2, <2>1, <2>3, <3>1 DEF Daily!Counting
      <3> QED BY <1>1, <1>2, <3>1, <3>2
            DEF Daily!Closing, Daily!Raises, Daily!DayOf, Daily!Stored
    <2> QED BY <2>2, <2>3 DEF Daily!WritersAgree
  <1> QED BY <1>3, <1>4, <1>5, <1>6 DEF Daily!DailyInv

\* A writer at work is the one that reads the night, if any does unobserved.
LEMMA BecomeKeeps ==
    ASSUME Daily!DailyInv, NEW w \in Writers, NEW j \in Daily!Job,
           job[w].step # "idle", Daily!Become(w, j), Daily!JobAgrees(j),
           crossed \/ (Daily!Holds(w, j) /\ (j.total # NoDay => Daily!Closing(w, j)))
    PROVE  Daily!DailyInv'
  <1>1. ASSUME ~crossed, NEW x \in Writers \ {w} PROVE ~Daily!Counting(x)
    BY <1>1, NoJobIsJob DEF Daily!DailyInv, Daily!WritersAgree, Daily!Closing
  <1> QED BY <1>1, MoveKeeps DEF Daily!Become, Daily!Quiet, Daily!DailyInv, Daily!TypeOK

\* What a writer that is at work may rely on.
LEMMA AtWork ==
    ASSUME Daily!DailyInv, NEW w \in Writers
    PROVE  /\ job[w] \in Daily!Job /\ Daily!JobAgrees(job[w])
           /\ ~crossed => Daily!Holds(w, job[w])
           /\ ~crossed /\ job[w].total # NoDay => Daily!Closing(w, job[w])
  BY DEF Daily!DailyInv, Daily!TypeOK, Daily!WritersAgree, Daily!Counting

LEMMA UpdateKeeps ==
    ASSUME Daily!DailyInv, NEW w \in Writers, NEW k \in Kwh, Daily!UpdateDay(w, k)
    PROVE  Daily!DailyInv'
  <1> DEFINE j == job[w]
             d == Daily!Min(j.todo)
             new == Daily!OfBrand(k)
             c == Daily!Changed(j, d, dailyEnergy[d], new)
             n == Daily!NextDay(c)
  <1>1. /\ j.step = "collecting" /\ Daily!Stored(d) /\ ~Daily!LockedByOther(w, d)
        /\ Daily!Become(w, n)
    BY DEF Daily!UpdateDay, Daily!Target
  <1>2. /\ j \in Daily!Job /\ Daily!JobAgrees(j) /\ k \in Nat \ {0}
        /\ new \in Daily!Row /\ new.kwh = k /\ new.source = "brand"
        /\ dailyEnergy \in [EnergyDays -> Daily!Row]
    BY AtWork, DailyConstants, MissingIsRow
       DEF Daily!DailyInv, Daily!TypeOK, Daily!OfBrand
  <1>3. j.todo # {} /\ j.todo \subseteq EnergyDays /\ j.total = NoDay
    BY <1>1, <1>2 DEF Daily!JobAgrees
  <1>4. d \in j.todo /\ d \in EnergyDays
    BY <1>3, NextIsToDo, NightsOfDays
  <1>5. LeavesDay(c, j, d, dailyEnergy[d], new)
    <2>1. dailyEnergy[d] \in Daily!Row
      BY <1>2, <1>4
    <2> HIDE DEF d, new, j
    <2> QED BY <1>2, <1>4, <2>1, ChangedDay
  <1> HIDE DEF c
  <1>6. /\ n \in Daily!Job
        /\ n.step = "done" \/ (n.step = "collecting" /\ n.todo # {})
        /\ n.todo = j.todo \ {d} /\ n.value = j.value /\ n.read = j.read
        /\ n.had = j.had /\ n.total = j.total /\ n.raise = j.raise
        /\ n.locked = c.locked /\ n.put = c.put /\ n.old = c.old
    BY <1>3, <1>5, DayIsDone DEF LeavesDay
  <1> HIDE DEF n
  <1>7. Daily!JobAgrees(n)
    BY <1>2, <1>3, <1>6 DEF Daily!JobAgrees
  <1>8. ASSUME ~crossed PROVE Daily!Holds(w, n)
    <2>1. Daily!Holds(w, j)
      BY <1>8, AtWork
    <2>2. d \notin j.locked /\ j.put[d] = Daily!Missing /\ j.old[d] = 0
      BY <1>4, <2>1 DEF Daily!Holds
    <2>3. \A x \in Writers \ {w} : d \notin job[x].locked
      BY <1>1 DEF Daily!LockedByOther
    <2>4. n.todo \cap n.locked = {} /\ \A x \in Writers \ {w} : n.locked \cap job[x].locked = {}
      BY <1>5, <1>6, <2>1, <2>3 DEF Daily!Holds, LeavesDay
    <2>5. new # Daily!Missing
      BY <1>2 DEF Daily!Missing
    <2> HIDE DEF new, d, j
    <2>6. ASSUME NEW e \in EnergyDays
          PROVE  /\ IF n.put[e] = Daily!Missing THEN n.old[e] = 0
                    ELSE e \in n.locked /\ n.put[e].kwh # 0 /\ n.old[e] = dailyEnergy[e].kwh
                 /\ n.put[e].source = "brand"
      <3>1. CASE e = d
        BY <1>2, <1>5, <1>6, <2>2, <2>5, <3>1 DEF Daily!Missing, LeavesDay
      <3>2. CASE e # d
        BY <1>3, <1>5, <1>6, <2>1, <3>2 DEF Daily!Holds, LeavesDay
      <3> QED BY <3>1, <3>2
    <2> QED BY <1>3, <1>6, <2>1, <2>4, <2>6 DEF Daily!Holds
  <1> QED BY <1>1, <1>3, <1>6, <1>7, <1>8, BecomeKeeps

LEMMA MissKeeps ==
    ASSUME Daily!DailyInv, NEW w \in Writers, NEW k \in Kwh, Daily!MissDay(w, k)
    PROVE  Daily!DailyInv'
  <1> DEFINE j == job[w]
             n == [j EXCEPT !.step = "inserting", !.value = Daily!OfBrand(k)]
  <1>1. j.step = "collecting" /\ Daily!Become(w, n)
    BY DEF Daily!MissDay
  <1>2. /\ j \in Daily!Job /\ Daily!JobAgrees(j) /\ k \in Nat \ {0}
        /\ Daily!OfBrand(k) \in Daily!Row
    BY AtWork, DailyConstants, MissingIsRow
  <1>3. /\ n \in Daily!Job /\ n.step = "inserting" /\ n.value = Daily!OfBrand(k)
        /\ n.todo = j.todo /\ n.read = j.read /\ n.had = j.had /\ n.total = j.total
        /\ n.raise = j.raise /\ n.locked = j.locked /\ n.put = j.put /\ n.old = j.old
    BY <1>2 DEF Daily!Job, Daily!Steps
  <1> HIDE DEF n
  <1>4. Daily!JobAgrees(n) /\ n.total = NoDay
    BY <1>1, <1>2, <1>3 DEF Daily!JobAgrees
  <1>5. ASSUME ~crossed PROVE Daily!Holds(w, n)
    <2>1. Daily!Holds(w, j)
      BY <1>5, AtWork
    <2>2. n.value.kwh # 0 /\ n.value.source = "brand"
      BY <1>2, <1>3 DEF Daily!OfBrand
    <2> QED BY <1>3, <2>1, <2>2 DEF Daily!Holds
  <1> QED BY <1>1, <1>3, <1>4, <1>5, BecomeKeeps

LEMMA InsertKeeps ==
    ASSUME Daily!DailyInv, NEW w \in Writers, Daily!InsertDay(w)
    PROVE  Daily!DailyInv'
  <1> DEFINE j == job[w]
             d == Daily!Min(j.todo)
             c == Daily!Inserted(j, d)
             n == Daily!NextDay(c)
  <1>1. j.step = "inserting" /\ ~Daily!LockedByOther(w, d) /\ Daily!Become(w, n)
    BY DEF Daily!InsertDay, Daily!Target
  <1>2. /\ j \in Daily!Job /\ Daily!JobAgrees(j) /\ j.value \in Daily!Row
        /\ dailyEnergy \in [EnergyDays -> Daily!Row]
    BY AtWork DEF Daily!DailyInv, Daily!TypeOK, Daily!Job
  <1>3. j.todo # {} /\ j.todo \subseteq EnergyDays
    BY <1>1, <1>2 DEF Daily!JobAgrees
  <1>4. d \in j.todo /\ d \in EnergyDays
    BY <1>3, NextIsToDo, NightsOfDays
  <1> HIDE DEF d, j
  <1>5. /\ c \in Daily!Job
        /\ c.step = j.step /\ c.todo = j.todo /\ c.value = j.value /\ c.read = j.read
        /\ c.had = j.had /\ c.total = j.total /\ c.raise = j.raise
        /\ c.locked = j.locked \cup {d}
        /\ \A e \in EnergyDays \ {d} : c.put[e] = j.put[e] /\ c.old[e] = j.old[e]
        /\ IF Daily!Stored(d) /\ dailyEnergy[d].kwh = j.value.kwh
           THEN c.put[d] = j.put[d] /\ c.old[d] = j.old[d]
           ELSE /\ c.put[d] = j.value
                /\ c.old[d] = IF Daily!Stored(d) THEN dailyEnergy[d].kwh ELSE j.old[d]
    <2>1. CASE Daily!Stored(d)
      <3>1. dailyEnergy[d] \in Daily!Row
        BY <1>2, <1>4
      <3>2. LeavesDay(c, j, d, dailyEnergy[d], j.value)
        BY <1>2, <1>4, <2>1, <3>1, ChangedDay DEF Daily!Inserted
      <3> HIDE DEF c
      <3> QED BY <2>1, <3>2 DEF LeavesDay
    <2>2. CASE ~Daily!Stored(d)
      <3> HIDE DEF c
      <3> QED BY <1>2, <1>4, <2>2, InsertedDay DEF c
    <2> QED BY <2>1, <2>2
  <1> HIDE DEF c
  <1>6. /\ n \in Daily!Job
        /\ n.step = "done" \/ (n.step = "collecting" /\ n.todo # {})
        /\ j.todo = {d} => n.step = "done"
        /\ n.todo = j.todo \ {d} /\ n.value = j.value /\ n.read = j.read
        /\ n.had = j.had /\ n.total = j.total /\ n.raise = j.raise
        /\ n.locked = c.locked /\ n.put = c.put /\ n.old = c.old
    BY <1>3, <1>5, DayIsDone DEF d
  <1> HIDE DEF n
  <1>7. j.total # NoDay => j.todo = {night} /\ d = night /\ n.step = "done"
    BY <1>1, <1>2, <1>4, <1>6 DEF Daily!JobAgrees
  <1>8. Daily!JobAgrees(n)
    BY <1>2, <1>3, <1>6, <1>7 DEF Daily!JobAgrees
  <1>9. ASSUME ~crossed PROVE Daily!Holds(w, n) /\ (n.total # NoDay => Daily!Closing(w, n))
    <2>1. Daily!Holds(w, j) /\ (j.total # NoDay => Daily!Closing(w, j))
      BY <1>9, AtWork DEF j
    <2>2. d \notin j.locked /\ j.put[d] = Daily!Missing /\ j.old[d] = 0 /\ j.value.kwh # 0
      BY <1>1, <1>4, <2>1 DEF Daily!Holds
    <2>3. \A x \in Writers \ {w} : d \notin job[x].locked
      BY <1>1 DEF Daily!LockedByOther
    <2>4. n.todo \cap n.locked = {} /\ \A x \in Writers \ {w} : n.locked \cap job[x].locked = {}
      BY <1>5, <1>6, <2>1, <2>3 DEF Daily!Holds
    <2>5. j.value # Daily!Missing /\ (~Daily!Stored(d) => dailyEnergy[d].kwh = 0)
      BY <2>2 DEF Daily!Missing, Daily!Stored
    <2>6. ASSUME NEW e \in EnergyDays
          PROVE  /\ IF n.put[e] = Daily!Missing THEN n.old[e] = 0
                    ELSE e \in n.locked /\ n.put[e].kwh # 0 /\ n.old[e] = dailyEnergy[e].kwh
                 /\ n.total = NoDay => n.put[e].source = "brand"
      <3>1. CASE e = d
        BY <1>5, <1>6, <2>1, <2>2, <2>5, <3>1 DEF Daily!Holds
      <3>2. CASE e # d
        BY <1>5, <1>6, <2>1, <3>2 DEF Daily!Holds
      <3> QED BY <3>1, <3>2
    <2>7. Daily!Holds(w, n)
      BY <1>6, <2>1, <2>4, <2>6 DEF Daily!Holds
    <2>8. ASSUME n.total # NoDay PROVE Daily!Closing(w, n)
      <3>1. Daily!Closing(w, j) /\ d = night /\ n.step = "done" /\ d \in EnergyDays
        BY <1>4, <1>6, <1>7, <2>1, <2>8
      <3>2. ~Daily!Stored(night) /\ j.read = Daily!Missing
        BY <1>1, <3>1 DEF Daily!Closing
      <3>3. n.put[night] = j.value /\ n.put[night] # Daily!Missing
        BY <1>5, <1>6, <2>5, <3>1, <3>2
      <3>4. \A e \in EnergyDays : e # night => n.put[e] = Daily!Missing
        BY <1>5, <1>6, <3>1 DEF Daily!Closing
      <3>5. Daily!Raises(n) = Daily!Raises(j)
        BY <1>6 DEF Daily!Raises
      <3> QED BY <1>1, <1>6, <3>1, <3>2, <3>3, <3>4, <3>5 DEF Daily!Closing
    <2> QED BY <2>7, <2>8
  <1> QED BY <1>1, <1>6, <1>8, <1>9, BecomeKeeps DEF j

\* The production of a day is what its totals differ by, and a day's.
LEMMA DayOfType ==
    ASSUME Daily!TypeOK, NEW t \in Totals, NEW n \in Daily!Nights
    PROVE  /\ Daily!DayOf(t, n) \in Nat
           /\ Daily!DayOf(t, n) # 0 <=>
                 n \in EnergyDays /\ meter[n - 1] # NoDay /\ t > meter[n - 1]
           /\ Daily!DayOf(t, n) # 0 => Daily!DayOf(t, n) = t - meter[n - 1]
  <1>1. /\ Totals \subseteq Nat /\ NoDay \notin Nat
        /\ n # 0 => n - 1 \in Daily!Nights /\ meter[n - 1] \in Totals \cup {NoDay}
        /\ n \in EnergyDays <=> n # 0
        /\ n \in Nat /\ t \in Nat
    BY DailyConstants, NightsOfDays DEF Daily!TypeOK
  <1>2. CASE n = 0 \/ meter[n - 1] = NoDay
    BY <1>1, <1>2 DEF Daily!DayOf
  <1>3. CASE n # 0 /\ meter[n - 1] # NoDay
    <2>1. PICK m \in Nat : m = meter[n - 1]
      BY <1>1, <1>3
    <2> QED BY <1>1, <1>3, <2>1 DEF Daily!DayOf
  <1> QED BY <1>2, <1>3

LEMMA FlushKeeps ==
    ASSUME Daily!DailyInv, NEW w \in Writers, Daily!FlushNight(w)
    PROVE  Daily!DailyInv'
  <1> DEFINE j == job[w]
             t == IF Daily!Raises(j) THEN j.total ELSE j.had
             kwh == Daily!DayOf(t, night)
             n == [j EXCEPT !.step = IF kwh = 0 THEN "done" ELSE "looking",
                            !.value = Daily!OfTotals(kwh), !.total = t,
                            !.raise = Daily!Raises(j)]
  <1>1. /\ j \in Daily!Job /\ Daily!JobAgrees(j) /\ Daily!TypeOK /\ j.step = "counting"
        /\ night \in Daily!Nights /\ j.total \in Totals \cup {NoDay}
        /\ j.had \in Totals \cup {NoDay} /\ Totals \subseteq Nat /\ NoDay \notin Nat
    BY AtWork, DailyConstants
       DEF Daily!FlushNight, Daily!DailyInv, Daily!TypeOK, Daily!Job
  <1>2. j.todo = {night} /\ j.total \in Totals
    BY <1>1 DEF Daily!JobAgrees
  <1>3. Daily!Min(j.todo) = night
    BY <1>1, <1>2, NextIsToDo, NightsOfDays
  <1>4. Daily!Become(w, n)
    BY <1>3 DEF Daily!FlushNight
  <1>5. t \in Totals /\ Daily!Raises(j) \in BOOLEAN
    BY <1>1, <1>2 DEF Daily!Raises
  <1>6. kwh \in Nat /\ (kwh # 0 => night \in EnergyDays)
    BY <1>1, <1>5, DayOfType
  <1> HIDE DEF kwh, t, j
  <1>7. /\ n \in Daily!Job /\ n.step = (IF kwh = 0 THEN "done" ELSE "looking")
        /\ n.value = Daily!OfTotals(kwh) /\ n.total = t /\ n.raise = Daily!Raises(j)
        /\ n.todo = j.todo /\ n.read = j.read /\ n.had = j.had
        /\ n.locked = j.locked /\ n.put = j.put /\ n.old = j.old
    <2>1. Daily!OfTotals(kwh) \in Daily!Row
      BY <1>6, MissingIsRow
    <2> QED BY <1>1, <1>5, <2>1 DEF Daily!Job, Daily!Steps
  <1> HIDE DEF n
  <1>8. Daily!JobAgrees(n) /\ n.total # NoDay
    BY <1>1, <1>2, <1>5, <1>6, <1>7 DEF Daily!JobAgrees
  <1>9. ASSUME ~crossed PROVE Daily!Holds(w, n) /\ Daily!Closing(w, n)
    <2>1. Daily!Holds(w, j) /\ Daily!Closing(w, j)
      BY <1>1, <1>2, <1>9, AtWork DEF j
    <2>2. n.value.kwh = kwh /\ kwh = Daily!DayOf(n.total, night)
      BY <1>7 DEF Daily!OfTotals, kwh
    <2>3. Daily!Holds(w, n)
      BY <1>7, <1>8, <2>1, <2>2 DEF Daily!Holds
    <2>4. Daily!Raises(n) = Daily!Raises(j) /\ (~n.raise => n.total = n.had)
      <3>1. CASE Daily!Raises(j)
        <4>1. n.total = j.total /\ n.had = j.had /\ n.raise = TRUE
          BY <1>7, <3>1 DEF t
        <4> QED BY <3>1, <4>1 DEF Daily!Raises
      <3>2. CASE ~Daily!Raises(j)
        <4>1. n.total = j.had /\ n.had = j.had /\ n.had # NoDay /\ n.had \in Nat
          BY <1>1, <1>7, <3>2 DEF t, Daily!Raises
        <4>2. ~Daily!Raises(n)
          BY <4>1 DEF Daily!Raises
        <4> QED BY <3>2, <4>1, <4>2 DEF Daily!Raises
      <3> QED BY <3>1, <3>2
    <2>5. \A d \in EnergyDays : n.put[d] = Daily!Missing
      BY <1>1, <1>7, <2>1 DEF Daily!Closing
    <2> QED BY <1>7, <2>1, <2>2, <2>3, <2>4, <2>5 DEF Daily!Closing
  <1> QED BY <1>1, <1>4, <1>7, <1>8, <1>9, BecomeKeeps DEF j

LEMMA LookKeeps ==
    ASSUME Daily!DailyInv, NEW w \in Writers, Daily!LookDay(w)
    PROVE  Daily!DailyInv'
  <1> DEFINE j == job[w]
             byBrand == Daily!Stored(night) /\ dailyEnergy[night].source = "brand"
             n == IF byBrand THEN [j EXCEPT !.step = "done"]
                  ELSE [j EXCEPT !.step = "upserting", !.read = dailyEnergy[night]]
  <1>1. /\ j \in Daily!Job /\ Daily!JobAgrees(j) /\ j.step = "looking"
        /\ dailyEnergy \in [EnergyDays -> Daily!Row]
    BY AtWork DEF Daily!LookDay, Daily!DailyInv, Daily!TypeOK
  <1>2. j.todo = {night} /\ night \in EnergyDays /\ j.total # NoDay
    BY <1>1 DEF Daily!JobAgrees
  <1>3. Daily!Target(w) = night
    BY <1>2, NextIsToDo, NightsOfDays DEF Daily!Target
  <1>4. Daily!Become(w, n)
    BY <1>3 DEF Daily!LookDay
  <1> HIDE DEF j
  <1>5. /\ n \in Daily!Job /\ n.step = (IF byBrand THEN "done" ELSE "upserting")
        /\ n.read = (IF byBrand THEN j.read ELSE dailyEnergy[night])
        /\ n.value = j.value /\ n.total = j.total /\ n.raise = j.raise
        /\ n.todo = j.todo /\ n.had = j.had
        /\ n.locked = j.locked /\ n.put = j.put /\ n.old = j.old
    BY <1>1, <1>2 DEF Daily!Job, Daily!Steps
  <1> HIDE DEF n
  <1>6. Daily!JobAgrees(n)
    BY <1>1, <1>2, <1>5 DEF Daily!JobAgrees
  <1>7. ASSUME ~crossed PROVE Daily!Holds(w, n) /\ Daily!Closing(w, n)
    <2>1. Daily!Holds(w, j) /\ Daily!Closing(w, j)
      BY <1>2, <1>7, AtWork DEF j
    <2>2. Daily!Holds(w, n)
      BY <1>1, <1>2, <1>5, <2>1 DEF Daily!Holds
    <2>3. Daily!Raises(n) = Daily!Raises(j)
      BY <1>5 DEF Daily!Raises
    <2>4. \A d \in EnergyDays : n.put[d] = Daily!Missing
      BY <1>1, <1>5, <2>1 DEF Daily!Closing
    <2>5. ~byBrand /\ Daily!Stored(night) => dailyEnergy[night].source = "totals"
      BY <1>1, <1>2 DEF Daily!Row, Daily!Sources
    <2> QED BY <1>1, <1>5, <2>1, <2>2, <2>3, <2>4, <2>5 DEF Daily!Closing
  <1> QED BY <1>1, <1>4, <1>5, <1>6, <1>7, BecomeKeeps DEF j

LEMMA UpsertKeeps ==
    ASSUME Daily!DailyInv, NEW w \in Writers, Daily!UpsertDay(w)
    PROVE  Daily!DailyInv'
  <1> DEFINE j == job[w]
             was == IF j.read = Daily!Missing THEN dailyEnergy[night] ELSE j.read
             c == Daily!Changed(j, night, was, j.value)
  <1>1. /\ j \in Daily!Job /\ Daily!JobAgrees(j) /\ j.step = "upserting"
        /\ dailyEnergy \in [EnergyDays -> Daily!Row]
    BY AtWork DEF Daily!UpsertDay, Daily!DailyInv, Daily!TypeOK
  <1>2. j.todo = {night} /\ night \in EnergyDays /\ j.total # NoDay
    BY <1>1 DEF Daily!JobAgrees
  <1>3. Daily!Target(w) = night /\ Daily!Min(j.todo) = night
    BY <1>2, NextIsToDo, NightsOfDays DEF Daily!Target
  <1>4. ~crossed => Daily!Holds(w, j) /\ Daily!Closing(w, j)
    BY <1>2, AtWork
  <1>5. CASE ~Daily!Stored(night)
    <2> DEFINE n == [j EXCEPT !.step = "inserting"]
    <2>1. Daily!Become(w, n)
      BY <1>3, <1>5 DEF Daily!UpsertDay
    <2> HIDE DEF j
    <2>2. /\ n \in Daily!Job /\ n.step = "inserting"
          /\ n.value = j.value /\ n.total = j.total /\ n.raise = j.raise
          /\ n.todo = j.todo /\ n.had = j.had /\ n.read = j.read
          /\ n.locked = j.locked /\ n.put = j.put /\ n.old = j.old
      BY <1>1 DEF Daily!Job, Daily!Steps
    <2> HIDE DEF n
    <2>3. Daily!JobAgrees(n)
      BY <1>1, <1>2, <2>2 DEF Daily!JobAgrees
    <2>4. ASSUME ~crossed PROVE Daily!Holds(w, n) /\ Daily!Closing(w, n)
      <3>1. Daily!Holds(w, n)
        BY <1>1, <1>2, <1>4, <2>2, <2>4 DEF Daily!Holds
      <3>2. Daily!Raises(n) = Daily!Raises(j)
        BY <2>2 DEF Daily!Raises
      <3>3. n.read = Daily!Missing
        BY <1>1, <1>4, <1>5, <2>2, <2>4 DEF Daily!Closing, Daily!Stored
      <3> QED BY <1>1, <1>4, <1>5, <2>2, <2>4, <3>1, <3>2, <3>3 DEF Daily!Closing
    <2> QED BY <1>1, <2>1, <2>2, <2>3, <2>4, BecomeKeeps DEF j
  <1>6. CASE Daily!Stored(night)
    <2> DEFINE n == Daily!NextDay(c)
    <2>1. Daily!Become(w, n) /\ ~Daily!LockedByOther(w, night)
      BY <1>3, <1>6 DEF Daily!UpsertDay
    <2>2. was \in Daily!Row /\ j.value \in Daily!Row
      BY <1>1, <1>2 DEF Daily!Job
    <2>3. LeavesDay(c, j, night, was, j.value)
      BY <1>1, <1>2, <2>2, ChangedDay
    <2> HIDE DEF j, was, c
    <2>4. /\ n \in Daily!Job /\ n.step = "done"
          /\ n.todo = j.todo \ {night} /\ n.value = j.value /\ n.read = j.read
          /\ n.had = j.had /\ n.total = j.total /\ n.raise = j.raise
          /\ n.locked = c.locked /\ n.put = c.put /\ n.old = c.old
      BY <1>2, <1>3, <2>3, DayIsDone DEF LeavesDay
    <2> HIDE DEF n
    <2>5. Daily!JobAgrees(n)
      BY <1>2, <2>4 DEF Daily!JobAgrees
    <2>6. ASSUME ~crossed PROVE Daily!Holds(w, n) /\ Daily!Closing(w, n)
      <3>1. Daily!Holds(w, j) /\ Daily!Closing(w, j)
        BY <1>4, <2>6
      <3>2. /\ night \notin j.locked /\ j.put[night] = Daily!Missing /\ j.old[night] = 0
            /\ j.value.kwh # 0
        BY <1>1, <1>2, <3>1 DEF Daily!Holds
      <3>3. /\ j.read = dailyEnergy[night] /\ was = dailyEnergy[night]
            /\ dailyEnergy[night].source = "totals"
        BY <1>1, <1>6, <3>1 DEF Daily!Closing, was
      <3>4. \A x \in Writers \ {w} : night \notin job[x].locked
        BY <2>1 DEF Daily!LockedByOther
      <3>5. n.todo \cap n.locked = {} /\ \A x \in Writers \ {w} : n.locked \cap job[x].locked = {}
        BY <1>2, <2>3, <2>4, <3>1, <3>4 DEF LeavesDay, Daily!Holds
      <3>6. j.value # Daily!Missing
        BY <3>2 DEF Daily!Missing
      <3>7. ASSUME NEW e \in EnergyDays
            PROVE  IF n.put[e] = Daily!Missing THEN n.old[e] = 0
                   ELSE e \in n.locked /\ n.put[e].kwh # 0 /\ n.old[e] = dailyEnergy[e].kwh
        <4>1. CASE e = night
          BY <2>3, <2>4, <3>2, <3>3, <3>6, <4>1 DEF LeavesDay
        <4>2. CASE e # night
          BY <2>3, <2>4, <3>1, <4>2 DEF LeavesDay, Daily!Holds
        <4> QED BY <4>1, <4>2
      <3>8. Daily!Holds(w, n)
        BY <1>2, <2>4, <3>5, <3>7 DEF Daily!Holds
      <3>9. Daily!Raises(n) = Daily!Raises(j)
        BY <2>4 DEF Daily!Raises
      <3>10. \A e \in EnergyDays : e # night => n.put[e] = Daily!Missing
        BY <2>3, <2>4, <3>1 DEF LeavesDay, Daily!Closing
      <3>11. CASE was.kwh # j.value.kwh
        <4>1. n.put[night] = j.value /\ n.put[night] # Daily!Missing
          BY <2>3, <2>4, <3>6, <3>11 DEF LeavesDay
        <4> QED BY <1>1, <1>2, <1>6, <2>4, <3>1, <3>3, <3>8, <3>9, <3>10, <4>1 DEF Daily!Closing
      <3>12. CASE was.kwh = j.value.kwh
        <4>1. \A e \in EnergyDays : n.put[e] = Daily!Missing
          BY <2>3, <2>4, <3>2, <3>10, <3>12 DEF LeavesDay
        <4>2. dailyEnergy[night] = j.value
          <5>1. j.value = Daily!OfTotals(Daily!DayOf(j.total, night))
            BY <1>1, <3>1 DEF Daily!Closing
          <5>2. dailyEnergy[night] \in Daily!Row
            BY <1>1, <1>2
          <5> QED BY <3>3, <3>12, <5>1, <5>2 DEF Daily!OfTotals, Daily!Row
        <4> QED BY <1>1, <1>6, <2>4, <3>1, <3>8, <3>9, <4>1, <4>2 DEF Daily!Closing
      <3> QED BY <3>11, <3>12
    <2> QED BY <1>1, <2>1, <2>4, <2>5, <2>6, BecomeKeeps DEF j
  <1> QED BY <1>5, <1>6

LEMMA FailKeeps ==
    ASSUME Daily!DailyInv, NEW w \in Writers, Daily!Fail(w)
    PROVE  Daily!DailyInv'
  <1>1. Daily!JobAgrees(Daily!NoJob)
    BY NoJobIsJob DEF Daily!JobAgrees
  <1>2. Daily!Holds(w, Daily!NoJob)
    BY NoJobIsJob DEF Daily!Holds, Daily!Missing
  <1> QED BY <1>1, <1>2, NoJobIsJob, BecomeKeeps DEF Daily!Fail

LEMMA CollectKeeps ==
    ASSUME Daily!DailyInv, NEW w \in Writers, NEW D \in (SUBSET EnergyDays) \ {{}},
           Daily!Collect(w, D)
    PROVE  Daily!DailyInv'
  <1> DEFINE j == [Daily!NoJob EXCEPT !.step = "collecting", !.todo = D]
  <1>1. Daily!Begin(w, j) /\ UNCHANGED <<dailyEnergy, versions, meter, night, trail>>
    BY DEF Daily!Collect
  <1>2. /\ j \in Daily!Job /\ j.step = "collecting" /\ j.todo = D
        /\ j.total = NoDay /\ j.locked = {} /\ ~j.raise
        /\ j.value = Daily!Missing /\ j.read = Daily!Missing
        /\ \A d \in EnergyDays : j.put[d] = Daily!Missing /\ j.old[d] = 0
    BY NoJobIsJob, NightsOfDays DEF Daily!Job, Daily!Steps
  <1> HIDE DEF j
  <1>3. Daily!JobAgrees(j) /\ Daily!Holds(w, j)
    BY <1>2 DEF Daily!JobAgrees, Daily!Holds, Daily!Missing
  <1>4. /\ job' = [job EXCEPT ![w] = j] /\ runs' \in 0 .. MaxRuns
        /\ crossed' = (crossed \/ \E x \in Daily!Busy(w) : Daily!Counting(x))
    BY <1>1, <1>2, ConstantsOfParts
       DEF Daily!Begin, Daily!DailyInv, Daily!TypeOK, Daily!ConstantsOK
  <1>5. ASSUME ~crossed', NEW x \in Writers \ {w} PROVE ~Daily!Counting(x)
    BY <1>4, <1>5, NoJobIsJob DEF Daily!Busy, Daily!Counting, Daily!DailyInv, Daily!JobAgrees
  <1>6. crossed' \in BOOLEAN /\ (~crossed' => ~crossed)
    BY <1>4, Zenon
  <1> QED BY <1>1, <1>2, <1>3, <1>4, <1>5, <1>6, MoveKeeps

LEMMA SentCountKeeps ==
    ASSUME Daily!DailyInv, NEW w \in Writers, NEW t \in Totals, Daily!CountNight(w, t)
    PROVE  Daily!DailyInv'
  <1> DEFINE j == [Daily!NoJob EXCEPT !.step = "counting", !.todo = {night},
                                      !.had = meter[night], !.total = t]
  <1>1. Daily!Begin(w, j) /\ UNCHANGED <<dailyEnergy, versions, meter, night, trail>>
    BY DEF Daily!CountNight
  <1>2. /\ j \in Daily!Job /\ j.step = "counting" /\ j.todo = {night}
        /\ j.total = t /\ j.had = meter[night] /\ j.locked = {} /\ t # NoDay
        /\ \A d \in EnergyDays : j.put[d] = Daily!Missing /\ j.old[d] = 0
    BY NoJobIsJob, DailyConstants DEF Daily!Job, Daily!Steps, Daily!DailyInv, Daily!TypeOK
  <1> HIDE DEF j
  <1>3. Daily!JobAgrees(j) /\ Daily!Holds(w, j)
    BY <1>2 DEF Daily!JobAgrees, Daily!Holds
  <1>4. /\ job' = [job EXCEPT ![w] = j] /\ runs' \in 0 .. MaxRuns
        /\ crossed' = (crossed \/ Daily!Busy(w) # {})
    BY <1>1, <1>2, ConstantsOfParts
       DEF Daily!Begin, Daily!DailyInv, Daily!TypeOK, Daily!ConstantsOK
  <1>5. ASSUME ~crossed', NEW x \in Writers \ {w} PROVE job[x] = Daily!NoJob
    BY <1>4, <1>5 DEF Daily!Busy, Daily!DailyInv, Daily!JobAgrees
  <1>6. crossed' \in BOOLEAN /\ (~crossed' => ~crossed)
    BY <1>4, Zenon
  <1>7. ASSUME ~crossed' PROVE Daily!Closing(w, j)
    BY <1>2, <1>5, <1>7 DEF Daily!Closing
  <1> QED BY <1>1, <1>2, <1>3, <1>4, <1>5, <1>6, <1>7, NoJobIsJob, MoveKeeps DEF Daily!Counting

LEMMA NextNightKeeps ==
    ASSUME Daily!DailyInv, Daily!NextNight
    PROVE  Daily!DailyInv'
  <1>1. /\ night' = night + 1 /\ night \in Nat /\ night' \in Daily!Nights
        /\ \A w \in Writers : job[w].total = NoDay
        /\ dailyEnergy' = dailyEnergy /\ versions' = versions /\ meter' = meter /\ job' = job
        /\ runs' = runs /\ trail' = trail /\ crossed' = crossed
    BY NightsOfDays DEF Daily!NextNight, Daily!Counting, Daily!DailyInv, Daily!TypeOK
  <1>2. Daily!TypeOK'
    BY <1>1 DEF Daily!DailyInv, Daily!TypeOK
  <1>3. \A w \in Writers : Daily!JobAgrees(job[w])'
    BY <1>1 DEF Daily!DailyInv, Daily!JobAgrees
  <1>4. ASSUME ~crossed' PROVE Daily!WritersAgree'
    BY <1>1, <1>4 DEF Daily!DailyInv, Daily!WritersAgree, Daily!Holds, Daily!Counting
  <1>5. ASSUME ~crossed' PROVE Daily!DaysAgree'
    BY <1>1, <1>5, NightsOfDays DEF Daily!DailyInv, Daily!DaysAgree, Daily!Stored
  <1>6. ASSUME ~crossed' PROVE Daily!NoValueForgotten' /\ Daily!TotalsClose'
    BY <1>1, <1>6 DEF Daily!DailyInv, Daily!NoValueForgotten, Daily!TotalsClose, Daily!Stored
  <1> QED BY <1>2, <1>3, <1>4, <1>5, <1>6 DEF Daily!DailyInv

\* What a commit leaves of a day: what the writer put there, or what it was.
LEMMA CommitDays ==
    ASSUME Daily!TypeOK, NEW w \in Writers, Daily!Commit(w)
    PROVE  /\ job[w].step = "done" /\ job[w] \in Daily!Job
           /\ job' = [job EXCEPT ![w] = Daily!NoJob]
           /\ UNCHANGED <<night, runs, crossed>>
           /\ dailyEnergy \in [EnergyDays -> Daily!Row] /\ dailyEnergy' \in [EnergyDays -> Daily!Row]
           /\ \A d \in EnergyDays :
                 IF job[w].put[d] = Daily!Missing
                 THEN dailyEnergy'[d] = dailyEnergy[d] /\ trail'[d] = trail[d]
                 ELSE /\ dailyEnergy'[d] = Daily!Column(job[w], d)
                      /\ dailyEnergy'[d].kwh = job[w].put[d].kwh
                      /\ job[w].read = Daily!Missing => dailyEnergy'[d] = job[w].put[d]
                      /\ trail'[d] = Append(trail[d], job[w].put[d].kwh)
           /\ \A d \in EnergyDays :
                 versions'[d] = IF job[w].old[d] # 0 THEN Append(versions[d], job[w].old[d])
                                ELSE versions[d]
           /\ meter' = IF job[w].raise THEN [meter EXCEPT ![night] = job[w].total] ELSE meter
  <1> DEFINE j == job[w]
  <1>1. /\ j \in Daily!Job /\ dailyEnergy \in [EnergyDays -> Daily!Row]
        /\ j.read \in Daily!Row
    BY DEF Daily!TypeOK, Daily!Job
  <1> HIDE DEF j
  <1>2. ASSUME NEW d \in EnergyDays
        PROVE  /\ Daily!Column(j, d) \in Daily!Row
               /\ Daily!Column(j, d).kwh = j.put[d].kwh
               /\ j.read = Daily!Missing => Daily!Column(j, d) = j.put[d]
    <2>1. j.put[d] \in Daily!Row /\ dailyEnergy[d] \in Daily!Row
      BY <1>1 DEF Daily!Job
    <2>2. CASE j.read # Daily!Missing /\ j.read.source = j.put[d].source /\ Daily!Stored(d)
      <3>1. Daily!Column(j, d) = [j.put[d] EXCEPT !.source = dailyEnergy[d].source]
        BY <2>2 DEF Daily!Column
      <3> HIDE DEF Daily!Missing
      <3> QED BY <2>1, <2>2, <3>1 DEF Daily!Row
    <2>3. CASE ~(j.read # Daily!Missing /\ j.read.source = j.put[d].source /\ Daily!Stored(d))
      <3>1. Daily!Column(j, d) = j.put[d]
        BY <2>3 DEF Daily!Column
      <3> QED BY <2>1, <3>1
    <2> QED BY <2>2, <2>3
  <1>3. /\ dailyEnergy' = [d \in EnergyDays |-> IF j.put[d] # Daily!Missing THEN Daily!Column(j, d)
                                           ELSE dailyEnergy[d]]
        /\ trail' = [d \in EnergyDays |-> IF j.put[d] # Daily!Missing
                                          THEN Append(trail[d], j.put[d].kwh) ELSE trail[d]]
        /\ versions' = [d \in EnergyDays |-> IF j.old[d] # 0 THEN Append(versions[d], j.old[d])
                                             ELSE versions[d]]
    BY DEF Daily!Commit, Daily!Written, j
  <1>4. /\ j.step = "done" /\ job' = [job EXCEPT ![w] = Daily!NoJob]
        /\ UNCHANGED <<night, runs, crossed>>
        /\ meter' = IF j.raise THEN [meter EXCEPT ![night] = j.total] ELSE meter
    BY DEF Daily!Commit, j
  <1>5. dailyEnergy' \in [EnergyDays -> Daily!Row]
    BY <1>1, <1>2, <1>3
  <1> QED BY <1>1, <1>2, <1>3, <1>4, <1>5 DEF j

LEMMA CommitKeeps ==
    ASSUME Daily!DailyInv, NEW w \in Writers, Daily!Commit(w)
    PROVE  Daily!DailyInv'
  <1> DEFINE j == job[w]
  <1>1. /\ j.step = "done" /\ j \in Daily!Job
        /\ job' = [job EXCEPT ![w] = Daily!NoJob] /\ job \in [Writers -> Daily!Job]
        /\ night' = night /\ runs' = runs /\ crossed' = crossed
        /\ dailyEnergy \in [EnergyDays -> Daily!Row] /\ dailyEnergy' \in [EnergyDays -> Daily!Row]
        /\ meter' = IF j.raise THEN [meter EXCEPT ![night] = j.total] ELSE meter
        /\ meter \in [Daily!Nights -> Totals \cup {NoDay}] /\ night \in Daily!Nights
        /\ j.total \in Totals \cup {NoDay} /\ Daily!TypeOK
    BY CommitDays DEF Daily!DailyInv, Daily!TypeOK, Daily!Job
  <1>2. \A d \in EnergyDays :
           IF j.put[d] = Daily!Missing
           THEN dailyEnergy'[d] = dailyEnergy[d] /\ trail'[d] = trail[d]
           ELSE /\ dailyEnergy'[d] = Daily!Column(j, d) /\ dailyEnergy'[d].kwh = j.put[d].kwh
                /\ j.read = Daily!Missing => dailyEnergy'[d] = j.put[d]
                /\ trail'[d] = Append(trail[d], j.put[d].kwh)
    BY CommitDays DEF Daily!DailyInv
  <1>3. \A d \in EnergyDays :
           versions'[d] = IF j.old[d] # 0 THEN Append(versions[d], j.old[d]) ELSE versions[d]
    BY CommitDays DEF Daily!DailyInv
  <1>4. job'[w] = Daily!NoJob /\ \A x \in Writers \ {w} : job'[x] = job[x]
    BY <1>1
  <1> HIDE DEF j
  <1>5. Daily!TypeOK'
    <2>1. versions' \in [EnergyDays -> Seq(Nat)] /\ trail' \in [EnergyDays -> Seq(Nat)]
      <3>1. \A d \in EnergyDays : /\ versions[d] \in Seq(Nat) /\ trail[d] \in Seq(Nat)
                                  /\ j.old[d] \in Nat /\ j.put[d].kwh \in Nat
        BY <1>1 DEF Daily!TypeOK, Daily!Job, Daily!Row
      <3>2. /\ versions' = [d \in EnergyDays |-> versions'[d]]
            /\ trail' = [d \in EnergyDays |-> trail'[d]]
        BY DEF Daily!Commit
      <3>3. \A d \in EnergyDays : /\ Append(versions[d], j.old[d]) \in Seq(Nat)
                                  /\ Append(trail[d], j.put[d].kwh) \in Seq(Nat)
        BY <3>1
      <3>4. \A d \in EnergyDays : versions'[d] \in Seq(Nat)
        BY <1>3, <3>1, <3>3
      <3>5. \A d \in EnergyDays : trail'[d] \in Seq(Nat)
        BY <1>2, <3>1, <3>3
      <3> QED BY <3>2, <3>4, <3>5
    <2>2. meter' \in [Daily!Nights -> Totals \cup {NoDay}]
      BY <1>1
    <2> QED BY <1>1, <2>1, <2>2, NoJobIsJob DEF Daily!TypeOK
  <1>6. \A x \in Writers : Daily!JobAgrees(job[x])'
    BY <1>1, <1>4, NoJobIsJob DEF Daily!DailyInv, Daily!JobAgrees
  <1>7. ASSUME ~crossed'
        PROVE  /\ Daily!WritersAgree' /\ Daily!DaysAgree' /\ Daily!NoValueForgotten'
               /\ Daily!TotalsClose'
    <2>1. /\ ~crossed /\ Daily!WritersAgree /\ Daily!DaysAgree /\ Daily!NoValueForgotten
          /\ Daily!TotalsClose /\ Daily!Holds(w, j) /\ (j.total # NoDay => Daily!Closing(w, j))
      BY <1>1, <1>7 DEF Daily!DailyInv, Daily!WritersAgree, Daily!Counting, j
    <2>2. \A d \in EnergyDays :
             IF j.put[d] = Daily!Missing THEN j.old[d] = 0
             ELSE /\ d \in j.locked /\ j.put[d].kwh # 0 /\ j.old[d] = dailyEnergy[d].kwh
                  /\ dailyEnergy'[d] # Daily!Missing
      BY <1>2, <2>1 DEF Daily!Holds, Daily!Missing
    <2>3. Daily!WritersAgree'
      <3>1. ASSUME NEW x \in Writers PROVE Daily!Holds(x, job[x])'
        <4>1. CASE x = w
          BY <1>4, <4>1, NoJobIsJob DEF Daily!Holds, Daily!Missing
        <4>2. CASE x # w
          <5>1. Daily!Holds(x, job[x]) /\ job'[x] = job[x] /\ j.locked \cap job[x].locked = {}
            BY <1>4, <2>1, <4>2 DEF Daily!WritersAgree, Daily!Holds
          <5>2. \A d \in EnergyDays : d \in job[x].locked => dailyEnergy'[d] = dailyEnergy[d]
            BY <1>2, <2>2, <5>1
          <5>3. \A y \in Writers \ {x} : job[x].locked \cap job'[y].locked = {}
            BY <1>4, <5>1, NoJobIsJob DEF Daily!Holds
          <5> QED BY <5>1, <5>2, <5>3 DEF Daily!Holds
        <4> QED BY <4>1, <4>2
      <3>2. ASSUME NEW x \in Writers PROVE ~Daily!Counting(x)'
        <4>1. CASE x = w
          BY <1>4, <4>1, NoJobIsJob DEF Daily!Counting
        <4>2. CASE x # w
          <5>1. Daily!Counting(x) => j = Daily!NoJob
            BY <2>1, <4>2 DEF Daily!WritersAgree, Daily!Closing, j
          <5> QED BY <1>1, <1>4, <4>2, <5>1, NoJobIsJob DEF Daily!Counting
        <4> QED BY <4>1, <4>2
      <3> QED BY <3>1, <3>2 DEF Daily!WritersAgree
    <2>4. Daily!NoValueForgotten'
      <3>1. ASSUME NEW d \in EnergyDays
            PROVE  trail'[d] = IF dailyEnergy'[d] # Daily!Missing
                               THEN Append(versions'[d], dailyEnergy'[d].kwh) ELSE <<>>
        <4>1. trail[d] = IF dailyEnergy[d] # Daily!Missing
                         THEN Append(versions[d], dailyEnergy[d].kwh) ELSE <<>>
          BY <2>1 DEF Daily!NoValueForgotten, Daily!Stored
        <4>2. /\ dailyEnergy[d] # Daily!Missing => dailyEnergy[d].kwh # 0
              /\ dailyEnergy[d] = Daily!Missing => versions[d] = <<>> /\ dailyEnergy[d].kwh = 0
          BY <2>1 DEF Daily!DaysAgree, Daily!Stored, Daily!Missing
        <4>3. CASE j.put[d] = Daily!Missing
          BY <1>2, <1>3, <2>2, <4>1, <4>3
        <4>4. CASE j.put[d] # Daily!Missing
          <5>1. /\ dailyEnergy'[d].kwh = j.put[d].kwh /\ j.old[d] = dailyEnergy[d].kwh
                /\ trail'[d] = Append(trail[d], j.put[d].kwh) /\ dailyEnergy'[d] # Daily!Missing
            BY <1>2, <2>2, <4>4
          <5>2. trail[d] = versions'[d]
            BY <1>3, <4>1, <4>2, <5>1
          <5> QED BY <5>1, <5>2
        <4> QED BY <4>3, <4>4
      <3> QED BY <3>1 DEF Daily!NoValueForgotten, Daily!Stored
    <2>5. CASE j.total = NoDay
      <3>1. /\ meter' = meter /\ \A d \in EnergyDays : j.put[d].source = "brand"
            /\ j.read = Daily!Missing
        BY <1>1, <2>1, <2>5 DEF Daily!Holds
      <3>2. \A d \in EnergyDays :
               \/ dailyEnergy'[d] = dailyEnergy[d]
               \/ dailyEnergy'[d] # Daily!Missing /\ dailyEnergy'[d].kwh # 0 /\ dailyEnergy'[d].source = "brand"
        BY <1>2, <2>2, <3>1
      <3>3. \A d \in EnergyDays : dailyEnergy'[d] = Daily!Missing =>
               dailyEnergy[d] = Daily!Missing /\ versions'[d] = versions[d]
        BY <1>2, <1>3, <2>2
      <3>4. Daily!DaysAgree'
        BY <1>1, <2>1, <3>1, <3>2, <3>3 DEF Daily!DaysAgree, Daily!Stored
      <3>5. Daily!TotalsClose'
        BY <1>1, <1>7, <2>1, <3>1, <3>2, <3>3 DEF Daily!TotalsClose, Daily!Stored
      <3> QED BY <2>3, <2>4, <3>4, <3>5
    <2>6. CASE j.total # NoDay
      <3> DEFINE kwh == Daily!DayOf(j.total, night)
      <3>1. /\ j.total \in Totals /\ Totals \subseteq Nat /\ NoDay \notin Nat
            /\ kwh \in Nat /\ (kwh # 0 => night \in EnergyDays)
            /\ kwh # 0 <=> night \in EnergyDays /\ meter[night - 1] # NoDay
                              /\ j.total > meter[night - 1]
            /\ kwh # 0 => kwh = j.total - meter[night - 1]
        BY <1>1, <2>6, DailyConstants, DayOfType
      <3>2. /\ j.had = meter[night] /\ j.raise = Daily!Raises(j) /\ (~j.raise => j.total = j.had)
            /\ j.value.kwh = kwh /\ j.value.source = "totals" /\ j.value = Daily!OfTotals(kwh)
            /\ \A d \in EnergyDays : d # night => dailyEnergy'[d] = dailyEnergy[d] /\ versions'[d] = versions[d]
        BY <1>1, <1>2, <1>3, <2>1, <2>2, <2>6 DEF Daily!Closing, Daily!OfTotals
      <3>3. /\ meter'[night] = j.total
            /\ \A n \in Daily!Nights : n # night => meter'[n] = meter[n]
            /\ meter[night] # NoDay => j.total >= meter[night]
        <4>1. j.total \in Nat /\ (meter[night] = NoDay \/ meter[night] \in Nat)
          BY <1>1, <3>1
        <4>2. CASE j.raise
          <5>1. meter[night] = NoDay \/ j.total > meter[night]
            BY <3>2, <4>2 DEF Daily!Raises
          <5>2. meter[night] # NoDay => j.total >= meter[night]
            BY <4>1, <5>1
          <5>3. meter' = [meter EXCEPT ![night] = j.total]
            BY <1>1, <4>2
          <5> QED BY <1>1, <5>2, <5>3
        <4>3. CASE ~j.raise
          <5>1. meter' = meter /\ j.total = meter[night]
            BY <1>1, <3>2, <4>3
          <5> QED BY <4>1, <5>1
        <4> QED BY <4>2, <4>3
      <3>4. ASSUME night \in EnergyDays
            PROVE  IF kwh = 0 THEN dailyEnergy'[night] = dailyEnergy[night]
                   ELSE \/ dailyEnergy'[night] = dailyEnergy[night] /\ dailyEnergy[night].source = "brand"
                           /\ dailyEnergy[night] # Daily!Missing
                        \/ dailyEnergy'[night] = j.value
        <4>1. CASE \A d \in EnergyDays : j.put[d] = Daily!Missing
          BY <1>1, <1>2, <2>1, <2>6, <3>2, <3>4, <4>1 DEF Daily!Closing, Daily!Stored
        <4>2. CASE ~\A d \in EnergyDays : j.put[d] = Daily!Missing
          <5>1. j.put[night] = j.value /\ j.put[night] # Daily!Missing
            BY <1>1, <2>1, <2>6, <4>2 DEF Daily!Closing
          <5>2. kwh # 0
            BY <2>2, <3>2, <3>4, <5>1
          <5>3. CASE ~Daily!Stored(night)
            <6>1. j.read = Daily!Missing
              BY <1>1, <2>1, <2>6, <4>2, <5>3 DEF Daily!Closing
            <6> QED BY <1>2, <3>4, <5>1, <5>2, <6>1
          <5>4. CASE Daily!Stored(night)
            <6>1. dailyEnergy[night].source = "totals"
              BY <1>1, <2>1, <2>6, <4>2, <5>4 DEF Daily!Closing
            <6>2. Daily!Column(j, night) = j.value
              BY <3>2, <5>1, <6>1 DEF Daily!Column, Daily!OfTotals
            <6> QED BY <1>2, <3>4, <5>1, <5>2, <6>2
          <5> QED BY <5>3, <5>4
        <4> QED BY <4>1, <4>2
      <3>5. \A d \in EnergyDays : dailyEnergy'[d] = Daily!Missing =>
               dailyEnergy[d] = Daily!Missing /\ versions'[d] = versions[d]
        BY <1>2, <1>3, <2>2
      <3> HIDE DEF kwh
      <3>6. /\ \A n \in Daily!Nights : n > night => meter[n] = NoDay
            /\ \A d \in EnergyDays : dailyEnergy[d].source = "totals" =>
                  meter[d] # NoDay /\ meter[d - 1] # NoDay /\ d <= night
        BY <1>1, <2>1, NightsOfDays DEF Daily!DaysAgree
      <3>7. ASSUME NEW d \in EnergyDays
            PROVE  /\ dailyEnergy'[d] # Daily!Missing => dailyEnergy'[d].kwh # 0
                   /\ dailyEnergy'[d] = Daily!Missing => versions'[d] = <<>>
                   /\ dailyEnergy'[d].source = "totals" => meter'[d] # NoDay /\ meter'[d - 1] # NoDay
        <4>1. d \in Daily!Nights /\ d - 1 \in Daily!Nights
          BY NightsOfDays
        <4>2. \A n \in Daily!Nights : meter[n] # NoDay => meter'[n] # NoDay
          BY <3>1, <3>3
        <4>3. CASE dailyEnergy'[d] = dailyEnergy[d]
          <5>1. /\ dailyEnergy[d] # Daily!Missing => dailyEnergy[d].kwh # 0
                /\ dailyEnergy[d] = Daily!Missing => versions[d] = <<>>
                /\ dailyEnergy[d].source = "totals" => meter[d] # NoDay /\ meter[d - 1] # NoDay
            BY <2>1 DEF Daily!DaysAgree, Daily!Stored
          <5> QED BY <3>5, <4>1, <4>2, <4>3, <5>1
        <4>4. CASE d = night /\ kwh # 0 /\ dailyEnergy'[d] = j.value
          <5>1. dailyEnergy'[d].kwh # 0 /\ dailyEnergy'[d] # Daily!Missing
            BY <3>2, <4>4 DEF Daily!Missing
          <5>2. meter'[d] # NoDay
            BY <3>1, <3>3, <4>4
          <5>3. meter'[d - 1] # NoDay
            BY <3>1, <4>1, <4>2, <4>4
          <5> QED BY <5>1, <5>2, <5>3
        <4> QED BY <3>2, <3>4, <4>3, <4>4
      <3>8. Daily!DaysAgree'
        <4>1. \A n \in Daily!Nights : n > night' => meter'[n] = NoDay
          <5>1. night \in Nat /\ night' = night
            BY <1>1, NightsOfDays
          <5> QED BY <3>3, <3>6, <5>1, NightsOfDays
        <4> QED BY <3>7, <4>1 DEF Daily!DaysAgree, Daily!Stored
      <3>9. ASSUME NEW d \in EnergyDays
            PROVE  /\ dailyEnergy'[d] # Daily!Missing /\ dailyEnergy'[d].source = "totals" =>
                         dailyEnergy'[d].kwh = meter'[d] - meter'[d - 1]
                   /\ meter'[d] # NoDay /\ meter'[d - 1] # NoDay /\ meter'[d] > meter'[d - 1] =>
                         dailyEnergy'[d] # Daily!Missing
        <4>1. /\ d \in Daily!Nights /\ d - 1 \in Daily!Nights /\ d \in Nat /\ d - 1 # d
              /\ meter[d] \in Totals \cup {NoDay} /\ meter[d - 1] \in Totals \cup {NoDay}
              /\ dailyEnergy[d] \in Daily!Row /\ dailyEnergy[d].kwh \in Nat /\ night \in Nat
          BY <1>1, NightsOfDays DEF Daily!Row
        <4>2. /\ Daily!Stored(d) /\ dailyEnergy[d].source = "totals" =>
                    dailyEnergy[d].kwh = meter[d] - meter[d - 1] /\ dailyEnergy[d].kwh # 0
              /\ meter[d] # NoDay /\ meter[d - 1] # NoDay /\ meter[d] > meter[d - 1] =>
                    Daily!Stored(d)
          BY <2>1 DEF Daily!TotalsClose, Daily!DaysAgree
        <4>3. CASE d # night /\ d - 1 # night
          BY <3>2, <3>3, <4>1, <4>2, <4>3 DEF Daily!Stored
        <4>4. CASE d - 1 = night
          <5>1. /\ d > night /\ d # night /\ meter'[d] = NoDay /\ dailyEnergy'[d] = dailyEnergy[d]
                /\ dailyEnergy[d].source # "totals"
            BY <3>2, <3>3, <3>6, <4>1, <4>4
          <5> QED BY <5>1
        <4>5. CASE d = night /\ kwh # 0
          <5>1. meter'[d] - meter'[d - 1] = kwh
            BY <3>1, <3>3, <4>1, <4>5
          <5> QED BY <3>2, <3>4, <4>5, <5>1 DEF Daily!Missing
        <4>6. CASE d = night /\ kwh = 0
          <5>1. dailyEnergy'[d] = dailyEnergy[d] /\ meter'[d] = j.total /\ meter'[d - 1] = meter[d - 1]
            BY <3>3, <3>4, <4>1, <4>6
          <5>2. CASE meter[d - 1] = NoDay
            BY <3>6, <5>1, <5>2
          <5>3. CASE meter[d - 1] # NoDay
            <6>1. PICK a \in Nat : a = meter[d - 1]
              BY <3>1, <4>1, <5>3
            <6>2. PICK t \in Nat : t = j.total
              BY <3>1
            <6>3. ~(t > a)
              BY <3>1, <4>6, <6>1, <6>2
            <6>4. ~(dailyEnergy[d].source = "totals" /\ Daily!Stored(d))
              <7> SUFFICES ASSUME dailyEnergy[d].source = "totals", Daily!Stored(d) PROVE FALSE
                OBVIOUS
              <7>1. PICK m \in Nat : m = meter[d]
                BY <3>1, <3>6, <4>1
              <7>2. t >= m
                BY <3>3, <3>6, <4>6, <6>2, <7>1
              <7>3. dailyEnergy[d].kwh = m - a /\ dailyEnergy[d].kwh # 0 /\ dailyEnergy[d].kwh \in Nat
                BY <4>1, <4>2, <6>1, <7>1
              <7> QED BY <6>3, <7>2, <7>3
            <6> QED BY <5>1, <6>1, <6>2, <6>3, <6>4 DEF Daily!Stored
          <5> QED BY <5>2, <5>3
        <4> QED BY <4>3, <4>4, <4>5, <4>6
      <3>10. Daily!TotalsClose'
        BY <3>9 DEF Daily!TotalsClose, Daily!Stored
      <3> QED BY <2>3, <2>4, <3>8, <3>10
    <2> QED BY <2>5, <2>6
  <1> QED BY <1>5, <1>6, <1>7 DEF Daily!DailyInv

LEMMA StepDaily == ASSUME Daily!DailyInv, InDaily, MCNext PROVE Daily!DailyInv'
  <1>1. ASSUME NEW w \in Writers, Daily!InsertDay(w) \/ Daily!FlushNight(w) \/ Daily!LookDay(w)
                                  \/ Daily!UpsertDay(w) \/ Daily!Commit(w) \/ Daily!Fail(w)
        PROVE  Daily!DailyInv'
    BY <1>1, InsertKeeps, FlushKeeps, LookKeeps, UpsertKeeps, CommitKeeps, FailKeeps
  <1> QED BY <1>1, DailySteps, CollectKeeps, SentCountKeeps, UpdateKeeps, MissKeeps, NextNightKeeps

LEMMA StepBrand == ASSUME Daily!DailyInv, InDaily, MCNext PROVE Daily!BrandStep
  <1> SUFFICES ASSUME NEW d \in EnergyDays, Daily!Stored(d), dailyEnergy[d].source = "brand", ~crossed
               PROVE  dailyEnergy'[d].source = "brand"
    BY DEF Daily!BrandStep
  <1>1. ASSUME NEW w \in Writers, Daily!Commit(w) PROVE dailyEnergy'[d].source = "brand"
    <2> DEFINE j == job[w]
    <2>1. /\ Daily!Holds(w, j) /\ (j.total # NoDay => Daily!Closing(w, j))
          /\ Daily!Commit(w) /\ Daily!TypeOK
      BY <1>1, AtWork DEF Daily!DailyInv
    <2>2. /\ j.step = "done"
          /\ j.put[d] = Daily!Missing => dailyEnergy'[d] = dailyEnergy[d]
          /\ j.put[d] # Daily!Missing /\ j.read = Daily!Missing => dailyEnergy'[d] = j.put[d]
      BY <2>1, CommitDays
    <2> HIDE DEF j
    <2>3. CASE j.total = NoDay
      BY <2>1, <2>2, <2>3 DEF Daily!Holds
    <2>4. CASE j.total # NoDay
      <3>1. CASE d = night /\ j.put[d] # Daily!Missing
        BY <2>1, <2>2, <2>4, <3>1 DEF Daily!Closing
      <3>2. CASE d # night
        BY <2>1, <2>2, <2>4, <3>2 DEF Daily!Closing
      <3> QED BY <2>2, <3>1, <3>2
    <2> QED BY <2>3, <2>4
  <1>2. ASSUME ~\E w \in Writers : Daily!Commit(w) PROVE dailyEnergy' = dailyEnergy
    <2>1. ASSUME NEW w \in Writers, NEW k \in Kwh, Daily!UpdateDay(w, k) \/ Daily!MissDay(w, k)
          PROVE  dailyEnergy' = dailyEnergy
      BY <2>1 DEF Daily!UpdateDay, Daily!MissDay, Daily!Become, Daily!Quiet
    <2>2. ASSUME NEW w \in Writers, Daily!InsertDay(w) \/ Daily!LookDay(w) \/ Daily!Fail(w)
          PROVE  dailyEnergy' = dailyEnergy
      BY <2>2 DEF Daily!InsertDay, Daily!LookDay, Daily!Fail, Daily!Become, Daily!Quiet
    <2>3. ASSUME NEW w \in Writers, Daily!FlushNight(w) \/ Daily!UpsertDay(w)
          PROVE  dailyEnergy' = dailyEnergy
      BY <2>3 DEF Daily!FlushNight, Daily!UpsertDay, Daily!Become, Daily!Quiet
    <2>4. ASSUME NEW w \in Writers, NEW D, Daily!Collect(w, D) PROVE dailyEnergy' = dailyEnergy
      BY <2>4 DEF Daily!Collect
    <2>5. ASSUME NEW w \in Writers, NEW t, Daily!CountNight(w, t) PROVE dailyEnergy' = dailyEnergy
      BY <2>5 DEF Daily!CountNight
    <2>6. CASE Daily!NextNight
      BY <2>6 DEF Daily!NextNight
    <2> QED BY <1>2, <2>1, <2>2, <2>3, <2>4, <2>5, <2>6, DailySteps
  <1> QED BY <1>1, <1>2

LEMMA DailyInvHolds == MCSpec => [](InDaily => Daily!DailyInv)
  <1>1. MCInit /\ InDaily => Daily!DailyInv
    <2> SUFFICES ASSUME MCInit, InDaily PROVE Daily!DailyInv
      OBVIOUS
    <2>1. Daily!Init
      BY DEF MCInit, InDaily
    <2>2. /\ dailyEnergy = [d \in EnergyDays |-> Daily!Missing]
          /\ versions = [d \in EnergyDays |-> <<>>] /\ trail = [d \in EnergyDays |-> <<>>]
          /\ meter = [n \in Daily!Nights |-> NoDay] /\ night = 0
          /\ job = [w \in Writers |-> Daily!NoJob] /\ runs = 0 /\ crossed = FALSE
      BY <2>1 DEF Daily!Init
    <2>3. MaxRuns \in Nat
      BY ConstantsOfParts DEF Daily!ConstantsOK
    <2>4. Daily!TypeOK
      <3>1. <<>> \in Seq(Nat)
        OBVIOUS
      <3>2. versions \in [EnergyDays -> Seq(Nat)] /\ trail \in [EnergyDays -> Seq(Nat)]
        BY <2>2, <3>1
      <3>3. dailyEnergy \in [EnergyDays -> Daily!Row] /\ job \in [Writers -> Daily!Job]
        BY <2>2, MissingIsRow, NoJobIsJob
      <3>4. meter \in [Daily!Nights -> Totals \cup {NoDay}] /\ night \in Daily!Nights
        BY <2>2, NightsOfDays
      <3> QED BY <2>2, <2>3, <3>2, <3>3, <3>4 DEF Daily!TypeOK
    <2>5. \A w \in Writers : Daily!JobAgrees(job[w])
      BY <2>2, NoJobIsJob DEF Daily!JobAgrees
    <2>6. Daily!WritersAgree
      BY <2>2, NoJobIsJob DEF Daily!WritersAgree, Daily!Holds, Daily!Counting, Daily!Missing
    <2>7. \A d \in EnergyDays : ~Daily!Stored(d) /\ dailyEnergy[d].source = "brand"
      BY <2>2 DEF Daily!Stored, Daily!Missing
    <2>8. \A n \in Daily!Nights : meter[n] = NoDay
      BY <2>2
    <2>9. Daily!DaysAgree
      BY <2>2, <2>7, <2>8 DEF Daily!DaysAgree
    <2>10. Daily!NoValueForgotten
      BY <2>2, <2>7 DEF Daily!NoValueForgotten
    <2>11. Daily!TotalsClose
      BY <2>7, <2>8, NightsOfDays DEF Daily!TotalsClose
    <2> QED BY <2>4, <2>5, <2>6, <2>9, <2>10, <2>11 DEF Daily!DailyInv
  <1>2. (InDaily => Daily!DailyInv) /\ [MCNext]_vars => (InDaily => Daily!DailyInv)'
    <2>1. ASSUME InDaily => Daily!DailyInv, MCNext, InDaily' PROVE Daily!DailyInv'
      BY <2>1, PartKept, StepDaily DEF InDaily
    <2>2. ASSUME InDaily => Daily!DailyInv, UNCHANGED vars, InDaily' PROVE Daily!DailyInv'
      <3>1. Daily!DailyInv /\ UNCHANGED <<s1, s2, s3, s4, s5, s6, s7, s8>>
        BY <2>2 DEF vars, InDaily
      <3> QED BY <3>1 DEF Daily!DailyInv, Daily!TypeOK, Daily!JobAgrees, Daily!WritersAgree,
            Daily!Holds, Daily!Closing, Daily!DaysAgree, Daily!NoValueForgotten,
            Daily!TotalsClose, Daily!Stored, Daily!Counting, Daily!Raises, Daily!DayOf
    <2> QED BY <2>1, <2>2
  <1> QED BY <1>1, <1>2, PTL DEF MCSpec

\* The versions of a day and its value are all the values it ever had, in order,
\* however its writers interleave (db/repositories/daily_energy.py, upsert).
THEOREM NoVersionIsLost == MCSpec => []NoValueForgotten
  <1>1. (InDaily => Daily!DailyInv) => NoValueForgotten
    BY DEF Daily!DailyInv, NoValueForgotten, Daily!NoValueForgotten
  <1> QED BY <1>1, DailyInvHolds, PTL

\* A day closed by the totals is what the two nights differ by, a total that rose has
\* closed its day, and a day closed by the manufacturer's history stays so
\* (services/collection.py, record_meter_totals).
THEOREM DaysAreClosed == MCSpec => DaysClose
  <1>1. (InDaily => Daily!DailyInv) => (InDaily => Daily!TotalsClose)
    BY DEF Daily!DailyInv, Daily!TotalsClose
  <1>2. (InDaily => Daily!DailyInv) /\ [MCNext]_vars => [InDaily => Daily!BrandStep]_vars
    BY StepBrand
  <1> QED BY <1>1, <1>2, DailyInvHolds, PTL DEF MCSpec, DaysClose

-----------------------------------------------------------------------------
(* The ledger of the daily analysis: orchestration/execution_repository.py   *)
(* and orchestration/runtime.py.                                            *)

\* The state by its names.
row == s1
data == s2
pc == s3
caller == s4
alerts == s5
day == s6
seen == s7
draft == s8
mine == s9
inserted == s10
sinceSuccess == s11
sinceAcquire == s12
crashes == s13
USE DEF row, data, pc, caller, alerts, day, seen, draft, mine, inserted, sinceSuccess,
        sinceAcquire, crashes

LEMMA PipelineSteps ==
    ASSUME InPipeline, MCNext
    PROVE  \/ \E r \in Runs, k \in Pipeline!Days, who \in {"job", "api"}, b \in BOOLEAN :
                 Pipeline!AcquireRead(r, k, who, b)
           \/ \E r \in Runs :
                 \/ Pipeline!AcquireWrite(r) \/ Pipeline!CommitIntents(r) \/ Pipeline!Succeed(r)
                 \/ Pipeline!Fail(r) \/ Pipeline!EndWithoutRow(r) \/ Pipeline!Crash(r)
           \/ \E k \in Pipeline!Days : Pipeline!Purge(k)
           \/ Pipeline!Tick
  <1>1. /\ ~InOutbox /\ ~InDaily /\ ~InPv /\ ~InDash /\ ~InAlert /\ ~InAnomaly
        /\ ~InTariff /\ ~InMarket /\ ~InCycle /\ ~InUtility
    BY DEF InOutbox, InPipeline, InDaily, InPv, InDash, InAlert, InAnomaly, InTariff,
           InMarket, InCycle, InUtility
  <1> QED BY <1>1, ZenonT(60) DEF MCNext, Pipeline!Days

LEMMA PipelineConstants ==
    /\ LastDay \in Nat /\ 1 \in Pipeline!Days
    /\ Never \notin Nat /\ NoRow \notin Pipeline!Row
  BY ConstantsOfParts DEF Pipeline!ConstantsOK, Pipeline!Days

LEMMA NewRowIsRow ==
    ASSUME inserted \in Nat
    PROVE  /\ Pipeline!NewRow \in Pipeline!Row /\ Pipeline!NewRow.status = "RUNNING"
           /\ Pipeline!NewRow.id = inserted + 1 /\ Pipeline!NewRow.started = 0
  BY DEF Pipeline!NewRow, Pipeline!Row, Pipeline!Statuses

LEMMA ReacquiredIsRow ==
    ASSUME NEW fresh \in Pipeline!Row, NEW old \in Pipeline!Row
    PROVE  LET x == Pipeline!Reacquired(fresh, old) IN
           x \in Pipeline!Row /\ x.status = "RUNNING" /\ x.id = fresh.id /\ x.started = 0
  <1> DEFINE recovered == old.status = "RUNNING"
             n == old.attempts + 1
             finished == IF recovered \/ old.finished # Never THEN Never ELSE fresh.finished
             failed == IF recovered \/ old.failed THEN FALSE ELSE fresh.failed
  <1>1. Pipeline!Reacquired(fresh, old) =
            [fresh EXCEPT !.status = "RUNNING", !.attempts = n, !.started = 0,
                          !.finished = finished, !.failed = failed]
    BY DEF Pipeline!Reacquired
  <1>2. fresh.finished \in Nat \cup {Never} /\ fresh.failed \in BOOLEAN /\ n \in Nat
    BY DEF Pipeline!Row
  <1>3. finished \in Nat \cup {Never}
    BY <1>2
  <1>4. failed \in BOOLEAN
    <2>1. CASE recovered \/ old.failed
      BY <2>1
    <2>2. CASE ~(recovered \/ old.failed)
      BY <1>2, <2>2
    <2> QED BY <2>1, <2>2
  <1> HIDE DEF n, finished, failed
  <1>5. PICK m \in Nat, f \in Nat \cup {Never}, e \in BOOLEAN :
            m = n /\ f = finished /\ e = failed
    BY <1>2, <1>3, <1>4
  <1>6. Pipeline!Reacquired(fresh, old) =
            [fresh EXCEPT !.status = "RUNNING", !.attempts = m, !.started = 0,
                          !.finished = f, !.failed = e]
    BY <1>1, <1>5
  <1> DEFINE x == [fresh EXCEPT !.status = "RUNNING", !.attempts = m, !.started = 0,
                              !.finished = f, !.failed = e]
  <1>7. x \in Pipeline!Row /\ x.status = "RUNNING" /\ x.id = fresh.id /\ x.started = 0
    BY DEF Pipeline!Row, Pipeline!Statuses
  <1>8. Pipeline!Reacquired(fresh, old) = x
    BY <1>6
  <1> HIDE DEF x
  <1> QED BY <1>7, <1>8

LEMMA SeenIsRow ==
    ASSUME NEW x \in Pipeline!Row \cup {NoRow}
    PROVE  /\ Pipeline!Seen(x) \in Pipeline!Row \cup {NoRow}
           /\ Pipeline!Seen(x) = NoRow <=> x = NoRow
  <1>1. CASE x = NoRow
    BY <1>1 DEF Pipeline!Seen
  <1>2. CASE x # NoRow
    <2>1. Pipeline!Seen(x) \in Pipeline!Row
      BY <1>2 DEF Pipeline!Seen, Pipeline!Row
    <2> QED BY <1>2, <2>1, PipelineConstants
  <1> QED BY <1>1, <1>2

\* An age grows, and does not overtake an older one.
LEMMA AgesInStep ==
    ASSUME NEW m \in Nat, NEW n \in Nat
    PROVE  /\ Pipeline!Older(n) \in Nat /\ Pipeline!Older(Never) = Never
           /\ m <= n => Pipeline!Older(m) <= Pipeline!Older(n)
  <1>1. m # Never /\ n # Never
    BY PipelineConstants
  <1> HIDE DEF Pipeline!Horizon
  <1> QED BY <1>1 DEF Pipeline!Older

LEMMA AgedIsRow ==
    ASSUME NEW x \in Pipeline!Row \cup {NoRow}
    PROVE  /\ Pipeline!Aged(x) \in Pipeline!Row \cup {NoRow}
           /\ Pipeline!Aged(x) = NoRow <=> x = NoRow
           /\ x # NoRow => LET a == Pipeline!Aged(x) IN
                 /\ a.status = x.status /\ a.id = x.id
                 /\ a.started = Pipeline!Older(x.started)
                 /\ a.finished = Pipeline!Older(x.finished)
  <1>1. CASE x = NoRow
    BY <1>1 DEF Pipeline!Aged
  <1>2. CASE x # NoRow
    <2>1. /\ x \in Pipeline!Row /\ x.started \in Nat /\ x.finished \in Nat \cup {Never}
          /\ Pipeline!Older(x.started) \in Nat
          /\ Pipeline!Older(x.finished) \in Nat \cup {Never}
      BY <1>2, AgesInStep DEF Pipeline!Row
    <2>2. Pipeline!Aged(x) = [x EXCEPT !.started = Pipeline!Older(x.started),
                                       !.finished = Pipeline!Older(x.finished)]
      BY <1>2 DEF Pipeline!Aged
    <2>3. Pipeline!Aged(x) \in Pipeline!Row
      BY <2>1, <2>2 DEF Pipeline!Row
    <2> QED BY <1>2, <2>1, <2>2, <2>3, PipelineConstants DEF Pipeline!Row
  <1> QED BY <1>1, <1>2

\* A run that leaves holds nothing.
LEMMA LeftRuns ==
    ASSUME Pipeline!TypeOK, NEW r \in Runs, Pipeline!Leave(r)
    PROVE  /\ pc' \in [Runs -> Pipeline!PCs] /\ caller' \in [Runs -> {"job", "api"}]
           /\ alerts' \in [Runs -> BOOLEAN] /\ day' \in [Runs -> Pipeline!Days]
           /\ seen' \in [Runs -> Pipeline!Row \cup {NoRow}]
           /\ draft' \in [Runs -> Pipeline!Row \cup {NoRow}] /\ mine' \in [Runs -> Nat]
           /\ pc'[r] = "idle" /\ draft'[r] = NoRow /\ mine'[r] = 0
           /\ \A o \in Runs \ {r} :
                 /\ pc'[o] = pc[o] /\ seen'[o] = seen[o] /\ draft'[o] = draft[o]
                 /\ day'[o] = day[o] /\ mine'[o] = mine[o]
  BY PipelineConstants DEF Pipeline!TypeOK, Pipeline!Leave, Pipeline!PCs

LEMMA PipelineTyped ==
    ASSUME Pipeline!TypeOK, Pipeline!RunsAgree, InPipeline, MCNext
    PROVE  Pipeline!TypeOK'
  <1>0. /\ row \in [Pipeline!Days -> Pipeline!Row \cup {NoRow}]
        /\ data \in [Pipeline!Days -> {"none", "partial", "full"}]
        /\ day \in [Runs -> Pipeline!Days] /\ inserted \in Nat /\ crashes \in Nat
        /\ draft \in [Runs -> Pipeline!Row \cup {NoRow}]
        /\ seen \in [Runs -> Pipeline!Row \cup {NoRow}]
    BY DEF Pipeline!TypeOK
  <1>1. ASSUME NEW r \in Runs, NEW k \in Pipeline!Days, NEW who \in {"job", "api"},
               NEW b \in BOOLEAN, Pipeline!AcquireRead(r, k, who, b)
        PROVE  Pipeline!TypeOK'
    <2>1. Pipeline!Seen(row[k]) \in Pipeline!Row \cup {NoRow}
      BY <1>0, SeenIsRow
    <2> QED BY <1>1, <2>1 DEF Pipeline!TypeOK, Pipeline!AcquireRead, Pipeline!history, Pipeline!PCs
  <1>2. ASSUME NEW r \in Runs, Pipeline!AcquireWrite(r) PROVE Pipeline!TypeOK'
    <2> DEFINE k == day[r]
               inserts == seen[r] = NoRow /\ Pipeline!Insertable(r)
               updates == seen[r] # NoRow /\ Pipeline!Live(k, seen[r].id)
               new == IF inserts THEN Pipeline!NewRow ELSE Pipeline!Reacquired(row[k], seen[r])
    <2>1. /\ IF inserts \/ updates
             THEN /\ draft' = [draft EXCEPT ![r] = new]
                  /\ mine' = [mine EXCEPT ![r] = draft'[r].id]
                  /\ pc' = [pc EXCEPT ![r] = "working"]
                  /\ UNCHANGED <<caller, alerts, day, seen>>
             ELSE Pipeline!Leave(r)
          /\ inserted' \in Nat /\ sinceAcquire' \in {0, sinceAcquire}
          /\ row' = row /\ data' = data /\ sinceSuccess' = sinceSuccess /\ crashes' = crashes
      BY <1>0, <1>2 DEF Pipeline!AcquireWrite
    <2>2. inserts \/ updates => new \in Pipeline!Row
      BY <1>0, NewRowIsRow, ReacquiredIsRow DEF Pipeline!Live, Pipeline!Exists
    <2> HIDE DEF inserts, updates, new, k
    <2>3. CASE inserts \/ updates
      <3>1. draft'[r] = new /\ new.id \in Nat
        BY <1>0, <2>1, <2>2, <2>3 DEF Pipeline!Row
      <3> QED BY <2>1, <2>2, <2>3, <3>1 DEF Pipeline!TypeOK, Pipeline!PCs
    <2>4. CASE ~(inserts \/ updates)
      BY <2>1, <2>4, LeftRuns DEF Pipeline!TypeOK
    <2> QED BY <2>3, <2>4
  <1>3. ASSUME NEW r \in Runs, Pipeline!CommitIntents(r) PROVE Pipeline!TypeOK'
    BY <1>0, <1>3 DEF Pipeline!TypeOK, Pipeline!CommitIntents, Pipeline!history, Pipeline!PCs
  <1>4. ASSUME NEW r \in Runs, Pipeline!MayEnd(r)
        PROVE  /\ Pipeline!Current(r) \in Pipeline!Row
               /\ [Pipeline!Current(r) EXCEPT !.status = "SUCCEEDED", !.finished = 0] \in Pipeline!Row
               /\ [Pipeline!Current(r) EXCEPT !.status = "FAILED", !.finished = 0, !.failed = TRUE]
                     \in Pipeline!Row
    <2>1. Pipeline!Current(r) \in Pipeline!Row
      BY <1>0, <1>4 DEF Pipeline!MayEnd, Pipeline!Current
    <2> QED BY <2>1 DEF Pipeline!Row, Pipeline!Statuses
  <1>5. ASSUME NEW r \in Runs, Pipeline!Succeed(r) PROVE Pipeline!TypeOK'
    <2> DEFINE new == [Pipeline!Current(r) EXCEPT !.status = "SUCCEEDED", !.finished = 0]
    <2>1. /\ new \in Pipeline!Row /\ Pipeline!Leave(r) /\ row' = [row EXCEPT ![day[r]] = new]
          /\ data' = [data EXCEPT ![day[r]] = "full"] /\ sinceSuccess' = 0
          /\ UNCHANGED <<inserted, sinceAcquire, crashes>>
      BY <1>4, <1>5 DEF Pipeline!Succeed
    <2> HIDE DEF new
    <2> QED BY <1>0, <2>1, LeftRuns DEF Pipeline!TypeOK
  <1>6. ASSUME NEW r \in Runs, Pipeline!Fail(r) PROVE Pipeline!TypeOK'
    <2> DEFINE new == [Pipeline!Current(r) EXCEPT !.status = "FAILED", !.finished = 0,
                                                  !.failed = TRUE]
               half == [data EXCEPT ![day[r]] = IF @ = "full" THEN @ ELSE "partial"]
    <2>1. /\ new \in Pipeline!Row /\ Pipeline!Leave(r) /\ row' \in {row, [row EXCEPT ![day[r]] = new]}
          /\ data' \in {data, half}
          /\ UNCHANGED <<inserted, sinceSuccess, sinceAcquire, crashes>>
      BY <1>4, <1>6 DEF Pipeline!Fail, Pipeline!history
    <2>2. half \in [Pipeline!Days -> {"none", "partial", "full"}]
      BY <1>0
    <2> HIDE DEF new, half
    <2> QED BY <1>0, <2>1, <2>2, LeftRuns DEF Pipeline!TypeOK
  <1>7. ASSUME NEW r \in Runs, Pipeline!EndWithoutRow(r) \/ Pipeline!Crash(r)
        PROVE  Pipeline!TypeOK'
    BY <1>0, <1>7, LeftRuns
       DEF Pipeline!TypeOK, Pipeline!EndWithoutRow, Pipeline!Crash, Pipeline!history
  <1>8. ASSUME NEW k \in Pipeline!Days, Pipeline!Purge(k) PROVE Pipeline!TypeOK'
    BY <1>0, <1>8 DEF Pipeline!TypeOK, Pipeline!Purge, Pipeline!history, Pipeline!runVars
  <1>9. CASE Pipeline!Tick
    <2>1. /\ row' = [k \in Pipeline!Days |-> Pipeline!Aged(row[k])]
          /\ draft' = [r \in Runs |-> Pipeline!Aged(draft[r])]
          /\ sinceSuccess' = Pipeline!Older(sinceSuccess)
          /\ sinceAcquire' = Pipeline!Older(sinceAcquire)
          /\ UNCHANGED <<data, inserted, pc, caller, alerts, day, seen, mine, crashes>>
      BY <1>9 DEF Pipeline!Tick
    <2>2. /\ row' \in [Pipeline!Days -> Pipeline!Row \cup {NoRow}]
          /\ draft' \in [Runs -> Pipeline!Row \cup {NoRow}]
      BY <1>0, <2>1, AgedIsRow
    <2>3. {sinceSuccess', sinceAcquire'} \subseteq Nat \cup {Never}
      BY <2>1, AgesInStep DEF Pipeline!TypeOK
    <2> QED BY <2>1, <2>2, <2>3 DEF Pipeline!TypeOK
  <1> QED BY <1>1, <1>2, <1>3, <1>5, <1>6, <1>7, <1>8, <1>9, PipelineSteps

LEMMA PipelineAtWork ==
    ASSUME Pipeline!PipelineInv, NEW r \in Runs
    PROVE  /\ day[r] \in Pipeline!Days /\ inserted \in Nat /\ mine[r] \in Nat
           /\ row[day[r]] \in Pipeline!Row \cup {NoRow} /\ seen[r] \in Pipeline!Row \cup {NoRow}
           /\ draft[r] \in Pipeline!Row \cup {NoRow}
           /\ row \in [Pipeline!Days -> Pipeline!Row \cup {NoRow}]
           /\ data \in [Pipeline!Days -> {"none", "partial", "full"}]
           /\ pc[r] = "working" <=> draft[r] # NoRow
           /\ draft[r] # NoRow => draft[r].status = "RUNNING" /\ draft[r].id = mine[r]
                                  /\ Pipeline!AcquiredBefore(draft[r].started)
  BY DEF Pipeline!PipelineInv, Pipeline!TypeOK, Pipeline!RunsAgree, Pipeline!RowsAgree

\* A run that leaves, and writes no day that another has open, keeps what is agreed of
\* the runs.
LEMMA LeavingKeepsRuns ==
    ASSUME Pipeline!PipelineInv, NEW r \in Runs, Pipeline!Leave(r), inserted' = inserted,
           \A o \in Runs \ {r} : draft[o] # NoRow => row'[day[o]] = row[day[o]]
    PROVE  Pipeline!RunsAgree'
  <1>1. /\ pc'[r] = "idle" /\ draft'[r] = NoRow /\ mine'[r] = 0 /\ inserted \in Nat
        /\ \A o \in Runs \ {r} :
              /\ pc'[o] = pc[o] /\ seen'[o] = seen[o] /\ draft'[o] = draft[o]
              /\ day'[o] = day[o] /\ mine'[o] = mine[o]
    BY LeftRuns DEF Pipeline!PipelineInv, Pipeline!TypeOK
  <1>2. Pipeline!RunsAgree
    BY DEF Pipeline!PipelineInv
  <1>3. ASSUME NEW o \in Runs
        PROVE  /\ pc'[o] = "working" <=> draft'[o] # NoRow
               /\ mine'[o] <= inserted'
               /\ draft'[o] # NoRow =>
                     /\ draft'[o].status = "RUNNING" /\ draft'[o].id = mine'[o]
                     /\ seen'[o] = NoRow => row'[day'[o]] = NoRow
    BY <1>1, <1>2 DEF Pipeline!RunsAgree, Pipeline!Exists
  <1>4. ASSUME NEW o \in Runs, NEW x \in Runs, o # x
        PROVE  /\ draft'[o] # NoRow /\ draft'[x] # NoRow => day'[o] # day'[x]
               /\ Pipeline!Working(o)' /\ Pipeline!Working(x)' /\ seen'[o] = NoRow
                  /\ seen'[x] = NoRow => mine'[o] # mine'[x]
    BY <1>1, <1>2, <1>4 DEF Pipeline!RunsAgree, Pipeline!Working
  <1> QED BY <1>3, <1>4 DEF Pipeline!RunsAgree, Pipeline!Exists

LEMMA StepRuns == ASSUME Pipeline!PipelineInv, InPipeline, MCNext PROVE Pipeline!RunsAgree'
  <1>0. Pipeline!TypeOK /\ Pipeline!RunsAgree /\ Pipeline!RowsAgree
    BY DEF Pipeline!PipelineInv
  <1>1. ASSUME NEW r \in Runs, NEW k \in Pipeline!Days, NEW who \in {"job", "api"},
               NEW b \in BOOLEAN, Pipeline!AcquireRead(r, k, who, b)
        PROVE  Pipeline!RunsAgree'
    <2>1. /\ pc[r] = "idle" /\ pc' = [pc EXCEPT ![r] = "reading"] /\ row' = row
          /\ inserted' = inserted /\ draft' = draft /\ mine' = mine
          /\ day' = [day EXCEPT ![r] = k]
          /\ \A o \in Runs \ {r} : seen'[o] = seen[o]
      BY <1>0, <1>1 DEF Pipeline!AcquireRead, Pipeline!TypeOK
    <2>2. draft[r] = NoRow
      BY <1>0, <2>1 DEF Pipeline!RunsAgree
    <2> QED BY <1>0, <2>1, <2>2
          DEF Pipeline!TypeOK, Pipeline!RunsAgree, Pipeline!Exists, Pipeline!Working
  <1>2. ASSUME NEW r \in Runs, Pipeline!AcquireWrite(r) PROVE Pipeline!RunsAgree'
    <2> DEFINE k == day[r]
               inserts == seen[r] = NoRow /\ Pipeline!Insertable(r)
               updates == seen[r] # NoRow /\ Pipeline!Live(k, seen[r].id)
               new == IF inserts THEN Pipeline!NewRow ELSE Pipeline!Reacquired(row[k], seen[r])
    <2>1. /\ pc[r] = "reading" /\ ~Pipeline!LockedByOther(r) /\ row' = row
          /\ IF inserts \/ updates
             THEN /\ draft' = [draft EXCEPT ![r] = new]
                  /\ mine' = [mine EXCEPT ![r] = draft'[r].id]
                  /\ pc' = [pc EXCEPT ![r] = "working"]
                  /\ UNCHANGED <<caller, alerts, day, seen>>
             ELSE Pipeline!Leave(r)
          /\ inserted' = (IF inserts THEN inserted + 1 ELSE inserted)
      BY <1>2 DEF Pipeline!AcquireWrite
    <2>2. CASE inserts \/ updates
      <3>1. /\ new \in Pipeline!Row /\ new.status = "RUNNING" /\ new.id \in Nat
            /\ new.id <= inserted' /\ (seen[r] = NoRow => row[k] = NoRow)
            /\ inserts => new.id = inserted + 1
        <4>1. CASE inserts
          BY <2>1, <4>1, NewRowIsRow, PipelineAtWork DEF Pipeline!Insertable, Pipeline!Exists
        <4>2. CASE updates /\ ~inserts
          <5>1. /\ row[k] \in Pipeline!Row /\ row[k].id <= inserted /\ seen[r] \in Pipeline!Row
                /\ seen[r] # NoRow
            BY <1>0, <4>2, PipelineAtWork DEF Pipeline!RowsAgree, Pipeline!Live, Pipeline!Exists
          <5>2. /\ Pipeline!Reacquired(row[k], seen[r]) \in Pipeline!Row
                /\ Pipeline!Reacquired(row[k], seen[r]).status = "RUNNING"
                /\ Pipeline!Reacquired(row[k], seen[r]).id = row[k].id
            BY <5>1, ReacquiredIsRow
          <5> QED BY <2>1, <4>2, <5>1, <5>2 DEF Pipeline!Row
        <4> QED BY <2>2, <4>1, <4>2
      <3>2. /\ draft' = [draft EXCEPT ![r] = new] /\ pc' = [pc EXCEPT ![r] = "working"]
            /\ mine' = [mine EXCEPT ![r] = new.id] /\ day' = day /\ seen' = seen
            /\ inserted \in Nat /\ inserted <= inserted' /\ new # NoRow
            /\ seen[r] = NoRow => inserts
        BY <1>0, <2>1, <2>2, <3>1, PipelineConstants DEF Pipeline!TypeOK
      <3>3. \A o \in Runs \ {r} : draft[o] # NoRow => day[o] # day[r]
        BY <2>1 DEF Pipeline!LockedByOther
      <3> HIDE DEF new, inserts, updates, k
      <3>4. \A o \in Runs : mine[o] \in Nat /\ mine[o] <= inserted
        BY <1>0 DEF Pipeline!RunsAgree, Pipeline!TypeOK
      <3>5. ASSUME NEW o \in Runs
            PROVE  /\ pc'[o] = "working" <=> draft'[o] # NoRow
                   /\ mine'[o] <= inserted'
                   /\ draft'[o] # NoRow =>
                         /\ draft'[o].status = "RUNNING" /\ draft'[o].id = mine'[o]
                         /\ seen'[o] = NoRow => row'[day'[o]] = NoRow
        <4>1. CASE o = r
          BY <1>0, <2>1, <3>1, <3>2, <4>1 DEF Pipeline!TypeOK, k
        <4>2. CASE o # r
          <5>1. /\ draft'[o] = draft[o] /\ pc'[o] = pc[o] /\ mine'[o] = mine[o]
            BY <1>0, <3>2, <4>2 DEF Pipeline!TypeOK
          <5>2. inserted' \in Nat
            BY <1>0, <2>1 DEF Pipeline!TypeOK
          <5> QED BY <1>0, <2>1, <3>2, <3>4, <5>1, <5>2 DEF Pipeline!RunsAgree, Pipeline!Exists
        <4> QED BY <4>1, <4>2
      <3>6. ASSUME NEW o \in Runs \ {r}
            PROVE  /\ draft'[o] # NoRow => day'[o] # day'[r]
                   /\ seen'[r] = NoRow => mine'[o] # mine'[r]
        <4>1. draft'[o] = draft[o] /\ mine'[o] = mine[o] /\ mine'[r] = new.id
          BY <1>0, <3>2 DEF Pipeline!TypeOK
        <4> QED BY <3>1, <3>2, <3>3, <3>4, <4>1
      <3>7. ASSUME NEW o \in Runs \ {r}, NEW x \in Runs \ {r}, o # x
            PROVE  /\ draft'[o] # NoRow /\ draft'[x] # NoRow => day'[o] # day'[x]
                   /\ Pipeline!Working(o)' /\ Pipeline!Working(x)' /\ seen'[o] = NoRow
                      /\ seen'[x] = NoRow => mine'[o] # mine'[x]
        BY <1>0, <3>2, <3>7 DEF Pipeline!RunsAgree, Pipeline!TypeOK, Pipeline!Working
      <3> QED BY <3>5, <3>6, <3>7 DEF Pipeline!RunsAgree, Pipeline!Exists
    <2>3. CASE ~(inserts \/ updates)
      BY <2>1, <2>3, LeavingKeepsRuns
    <2> QED BY <2>2, <2>3
  <1>3. ASSUME NEW r \in Runs, Pipeline!CommitIntents(r) PROVE Pipeline!RunsAgree'
    <2>1. /\ pc[r] = "working" /\ row' = [row EXCEPT ![day[r]] = draft[r]]
          /\ draft' = [draft EXCEPT ![r] = NoRow] /\ pc' = [pc EXCEPT ![r] = "dispatching"]
          /\ inserted' = inserted /\ day' = day /\ seen' = seen /\ mine' = mine
      BY <1>3 DEF Pipeline!CommitIntents
    <2>2. draft[r] # NoRow /\ \A o \in Runs \ {r} : draft[o] # NoRow => row'[day[o]] = row[day[o]]
      BY <1>0, <2>1 DEF Pipeline!RunsAgree, Pipeline!TypeOK
    <2> QED BY <1>0, <2>1, <2>2
          DEF Pipeline!TypeOK, Pipeline!RunsAgree, Pipeline!Exists, Pipeline!Working
  <1>4. ASSUME NEW r \in Runs, NEW new, ~Pipeline!LockedByOther(r),
               row' \in {row, [row EXCEPT ![day[r]] = new]}
        PROVE  \A o \in Runs \ {r} : draft[o] # NoRow => row'[day[o]] = row[day[o]]
    BY <1>0, <1>4 DEF Pipeline!LockedByOther, Pipeline!TypeOK
  <1>5. ASSUME NEW r \in Runs, Pipeline!Succeed(r) PROVE Pipeline!RunsAgree'
    BY <1>4, <1>5, LeavingKeepsRuns DEF Pipeline!Succeed, Pipeline!MayEnd
  <1>6. ASSUME NEW r \in Runs, Pipeline!Fail(r) PROVE Pipeline!RunsAgree'
    BY <1>4, <1>6, LeavingKeepsRuns DEF Pipeline!Fail, Pipeline!MayEnd
  <1>7. ASSUME NEW r \in Runs, Pipeline!EndWithoutRow(r) \/ Pipeline!Crash(r)
        PROVE  Pipeline!RunsAgree'
    BY <1>7, LeavingKeepsRuns DEF Pipeline!EndWithoutRow, Pipeline!Crash
  <1>8. ASSUME NEW k \in Pipeline!Days, Pipeline!Purge(k) PROVE Pipeline!RunsAgree'
    <2>1. /\ row' = [row EXCEPT ![k] = NoRow] /\ inserted' = inserted
          /\ UNCHANGED <<pc, caller, alerts, day, seen, draft, mine>>
      BY <1>8 DEF Pipeline!Purge, Pipeline!runVars
    <2>2. \A r \in Runs : row[day[r]] = NoRow => row'[day[r]] = NoRow
      BY <1>0, <2>1 DEF Pipeline!TypeOK
    <2> QED BY <1>0, <2>1, <2>2 DEF Pipeline!RunsAgree, Pipeline!Exists, Pipeline!Working
  <1>9. CASE Pipeline!Tick
    <2>1. /\ row' = [k \in Pipeline!Days |-> Pipeline!Aged(row[k])]
          /\ draft' = [r \in Runs |-> Pipeline!Aged(draft[r])]
          /\ UNCHANGED <<inserted, pc, day, seen, mine>>
      BY <1>9 DEF Pipeline!Tick
    <2>2. \A r \in Runs :
             /\ row'[day[r]] = NoRow <=> row[day[r]] = NoRow
             /\ draft'[r] = NoRow <=> draft[r] = NoRow
             /\ draft[r] # NoRow => draft'[r].status = draft[r].status /\ draft'[r].id = draft[r].id
      BY <1>0, <2>1, AgedIsRow DEF Pipeline!TypeOK
    <2> QED BY <1>0, <2>1, <2>2 DEF Pipeline!RunsAgree, Pipeline!Exists, Pipeline!Working
  <1> QED BY <1>1, <1>2, <1>3, <1>5, <1>6, <1>7, <1>8, <1>9, PipelineSteps

\* Not younger than the last run that was started, or that succeeded, after the step.
AcquiredByNow(age) == sinceAcquire' # Never /\ sinceAcquire' <= age
SucceededByNow(age) == sinceSuccess' # Never /\ age # Never /\ sinceSuccess' <= age

\* A step that lets the rows and drafts be, or writes one day with a row as it should be
\* and drops drafts, keeps what is agreed of the rows.
LEMMA WritingKeepsRows ==
    ASSUME Pipeline!PipelineInv, NEW d \in Pipeline!Days,
           inserted' = inserted, sinceAcquire' = sinceAcquire,
           sinceSuccess' \in {0, sinceSuccess},
           \A k \in Pipeline!Days : row'[k] = row[k] \/ k = d,
           \A k \in Pipeline!Days : data'[k] = data[k] \/ data'[k] = "full" \/ data[k] # "full",
           row'[d] = row[d] \/
              /\ row'[d] \in Pipeline!Row /\ row'[d].id <= inserted
              /\ Pipeline!AcquiredBefore(row'[d].started)
              /\ row'[d].status = "SUCCEEDED" =>
                    data'[d] = "full" /\ row'[d].finished = 0 /\ sinceSuccess' = 0,
           \A r \in Runs : draft'[r] = draft[r] \/ draft'[r] = NoRow
    PROVE  Pipeline!RowsAgree'
  <1>0. Pipeline!TypeOK /\ Pipeline!RowsAgree
    BY DEF Pipeline!PipelineInv
  <1>1. \A r \in Runs : draft'[r] # NoRow => AcquiredByNow(draft'[r].started)
    BY <1>0 DEF Pipeline!RowsAgree, Pipeline!AcquiredBefore, AcquiredByNow
  <1>2. ASSUME NEW k \in Pipeline!Days, row'[k] = row[k], row[k] # NoRow
        PROVE  /\ row'[k].id <= inserted' /\ AcquiredByNow(row'[k].started)
               /\ row'[k].status = "SUCCEEDED" =>
                     data'[k] = "full" /\ SucceededByNow(row'[k].finished)
    <2>1. row[k] \in Pipeline!Row /\ row[k].id <= inserted
          /\ Pipeline!AcquiredBefore(row[k].started)
          /\ (row[k].status = "SUCCEEDED" =>
                 data[k] = "full" /\ Pipeline!SucceededBefore(row[k].finished))
      BY <1>0, <1>2 DEF Pipeline!TypeOK, Pipeline!RowsAgree, Pipeline!Exists
    <2>2. row[k].finished \in Nat \cup {Never}
      BY <2>1 DEF Pipeline!Row
    <2>3. ASSUME Pipeline!SucceededBefore(row[k].finished)
          PROVE  SucceededByNow(row[k].finished)
      BY <1>0, <1>2, <2>2, <2>3, PipelineConstants
         DEF Pipeline!SucceededBefore, SucceededByNow, Pipeline!TypeOK
    <2> QED BY <1>2, <2>1, <2>3 DEF Pipeline!AcquiredBefore, AcquiredByNow
  <1>3. ASSUME row'[d] # row[d]
        PROVE  /\ row'[d].id <= inserted' /\ AcquiredByNow(row'[d].started)
               /\ row'[d].status = "SUCCEEDED" =>
                     data'[d] = "full" /\ SucceededByNow(row'[d].finished)
    BY <1>3, PipelineConstants
       DEF Pipeline!AcquiredBefore, AcquiredByNow, Pipeline!SucceededBefore, SucceededByNow
  <1> QED BY <1>1, <1>2, <1>3
        DEF Pipeline!RowsAgree, Pipeline!Exists, Pipeline!AcquiredBefore, AcquiredByNow,
            Pipeline!SucceededBefore, SucceededByNow

\* What a run that may end starts its last write from.
LEMMA CurrentAgrees ==
    ASSUME Pipeline!PipelineInv, NEW r \in Runs, Pipeline!MayEnd(r)
    PROVE  /\ Pipeline!Current(r) \in Pipeline!Row /\ Pipeline!Current(r).id <= inserted
           /\ Pipeline!AcquiredBefore(Pipeline!Current(r).started)
  <1>1. CASE pc[r] = "working"
    BY <1>1, PipelineAtWork
       DEF Pipeline!MayEnd, Pipeline!Current, Pipeline!PipelineInv, Pipeline!RunsAgree
  <1>2. CASE pc[r] # "working"
    BY <1>2, PipelineAtWork
       DEF Pipeline!MayEnd, Pipeline!Current, Pipeline!PipelineInv, Pipeline!RowsAgree,
           Pipeline!Exists
  <1> QED BY <1>1, <1>2

LEMMA StepRows == ASSUME Pipeline!PipelineInv, InPipeline, MCNext PROVE Pipeline!RowsAgree'
  <1>0. Pipeline!TypeOK /\ Pipeline!RunsAgree /\ Pipeline!RowsAgree
    BY DEF Pipeline!PipelineInv
  <1>1. ASSUME NEW r \in Runs, NEW k \in Pipeline!Days, NEW who \in {"job", "api"},
               NEW b \in BOOLEAN, Pipeline!AcquireRead(r, k, who, b)
        PROVE  Pipeline!RowsAgree'
    BY <1>0, <1>1, WritingKeepsRows DEF Pipeline!AcquireRead, Pipeline!history
  <1>2. ASSUME NEW r \in Runs, Pipeline!AcquireWrite(r) PROVE Pipeline!RowsAgree'
    <2> DEFINE k == day[r]
               inserts == seen[r] = NoRow /\ Pipeline!Insertable(r)
               updates == seen[r] # NoRow /\ Pipeline!Live(k, seen[r].id)
               new == IF inserts THEN Pipeline!NewRow ELSE Pipeline!Reacquired(row[k], seen[r])
    <2>1. /\ row' = row /\ data' = data /\ sinceSuccess' = sinceSuccess
          /\ IF inserts \/ updates
             THEN draft' = [draft EXCEPT ![r] = new] /\ sinceAcquire' = 0
             ELSE Pipeline!Leave(r) /\ sinceAcquire' = sinceAcquire /\ inserted' = inserted
          /\ inserted' = (IF inserts THEN inserted + 1 ELSE inserted)
      BY <1>2 DEF Pipeline!AcquireWrite
    <2>2. CASE inserts \/ updates
      <3>1. new \in Pipeline!Row /\ new.started = 0
        <4>1. CASE inserts
          BY <4>1, NewRowIsRow, PipelineAtWork
        <4>2. CASE updates /\ ~inserts
          <5>1. row[k] \in Pipeline!Row /\ seen[r] \in Pipeline!Row
            BY <4>2, PipelineAtWork DEF Pipeline!Live, Pipeline!Exists
          <5>2. /\ Pipeline!Reacquired(row[k], seen[r]) \in Pipeline!Row
                /\ Pipeline!Reacquired(row[k], seen[r]).started = 0
            BY <5>1, ReacquiredIsRow
          <5> QED BY <4>2, <5>2
        <4> QED BY <2>2, <4>1, <4>2
      <3>2. /\ draft' = [draft EXCEPT ![r] = new] /\ sinceAcquire' = 0
            /\ inserted \in Nat /\ inserted' \in Nat /\ inserted <= inserted'
        BY <1>0, <2>1, <2>2 DEF Pipeline!TypeOK
      <3> HIDE DEF new, inserts, updates, k
      <3>3. ASSUME NEW o \in Runs, draft'[o] # NoRow
            PROVE  AcquiredByNow(draft'[o].started)
        <4>1. CASE o = r
          BY <1>0, <3>1, <3>2, <4>1, PipelineConstants
             DEF Pipeline!TypeOK, Pipeline!AcquiredBefore, AcquiredByNow
        <4>2. CASE o # r
          <5>1. draft'[o] = draft[o] /\ draft[o] \in Pipeline!Row
            BY <1>0, <3>2, <3>3, <4>2 DEF Pipeline!TypeOK
          <5>2. draft[o].started \in Nat
            BY <5>1 DEF Pipeline!Row
          <5> QED BY <1>0, <3>2, <3>3, <5>1, <5>2, PipelineConstants
                DEF Pipeline!RowsAgree, Pipeline!AcquiredBefore, AcquiredByNow
        <4> QED BY <4>1, <4>2
      <3>4. ASSUME NEW d \in Pipeline!Days, row[d] # NoRow
            PROVE  row[d].id <= inserted' /\ AcquiredByNow(row[d].started)
        <4>1. row[d] \in Pipeline!Row
          BY <1>0, <3>4 DEF Pipeline!TypeOK
        <4>2. row[d].started \in Nat /\ row[d].id \in Nat
          BY <4>1 DEF Pipeline!Row
        <4> QED BY <1>0, <3>2, <3>4, <4>2, PipelineConstants
              DEF Pipeline!RowsAgree, Pipeline!AcquiredBefore, AcquiredByNow, Pipeline!Exists
      <3> QED BY <1>0, <2>1, <3>3, <3>4
            DEF Pipeline!RowsAgree, Pipeline!Exists, Pipeline!AcquiredBefore, AcquiredByNow,
            Pipeline!SucceededBefore, SucceededByNow
    <2>3. CASE ~(inserts \/ updates)
      <3>1. \A o \in Runs : draft'[o] = draft[o] \/ draft'[o] = NoRow
        BY <1>0, <2>1, <2>3, LeftRuns
      <3> QED BY <2>1, <2>3, <3>1, PipelineAtWork, WritingKeepsRows
    <2> QED BY <2>2, <2>3
  <1>3. ASSUME NEW r \in Runs, Pipeline!CommitIntents(r) PROVE Pipeline!RowsAgree'
    <2>1. /\ pc[r] = "working" /\ row' = [row EXCEPT ![day[r]] = draft[r]]
          /\ data' = [data EXCEPT ![day[r]] = "full"]
          /\ draft' = [draft EXCEPT ![r] = NoRow] /\ inserted' = inserted
          /\ sinceAcquire' = sinceAcquire /\ sinceSuccess' = sinceSuccess
      BY <1>3 DEF Pipeline!CommitIntents, Pipeline!history
    <2>2. /\ draft[r] \in Pipeline!Row /\ draft[r].status = "RUNNING" /\ draft[r].id <= inserted
          /\ Pipeline!AcquiredBefore(draft[r].started)
      BY <1>0, <2>1, PipelineAtWork DEF Pipeline!RunsAgree
    <2>3. /\ day[r] \in Pipeline!Days /\ row'[day[r]] = draft[r]
          /\ \A k \in Pipeline!Days : row'[k] = row[k] \/ k = day[r]
          /\ \A k \in Pipeline!Days : data'[k] = data[k] \/ data'[k] = "full"
          /\ \A o \in Runs : draft'[o] = draft[o] \/ draft'[o] = NoRow
      BY <1>0, <2>1 DEF Pipeline!TypeOK
    <2> QED BY <2>1, <2>2, <2>3, WritingKeepsRows
  <1>4. ASSUME NEW r \in Runs, Pipeline!Leave(r)
        PROVE  \A o \in Runs : draft'[o] = draft[o] \/ draft'[o] = NoRow
    BY <1>0, <1>4, LeftRuns
  <1>5. ASSUME NEW r \in Runs, Pipeline!Succeed(r) PROVE Pipeline!RowsAgree'
    <2> DEFINE new == [Pipeline!Current(r) EXCEPT !.status = "SUCCEEDED", !.finished = 0]
    <2>1. /\ row' = [row EXCEPT ![day[r]] = new] /\ data' = [data EXCEPT ![day[r]] = "full"]
          /\ sinceSuccess' = 0 /\ inserted' = inserted /\ sinceAcquire' = sinceAcquire
          /\ Pipeline!Leave(r) /\ Pipeline!MayEnd(r)
      BY <1>5 DEF Pipeline!Succeed
    <2>2. /\ new \in Pipeline!Row /\ new.id <= inserted /\ new.finished = 0
          /\ Pipeline!AcquiredBefore(new.started)
      BY <2>1, CurrentAgrees DEF Pipeline!Row, Pipeline!Statuses
    <2> HIDE DEF new
    <2>3. /\ day[r] \in Pipeline!Days /\ row'[day[r]] = new /\ data'[day[r]] = "full"
          /\ \A k \in Pipeline!Days : row'[k] = row[k] \/ k = day[r]
          /\ \A k \in Pipeline!Days : data'[k] = data[k] \/ data'[k] = "full"
      BY <1>0, <2>1 DEF Pipeline!TypeOK
    <2> QED BY <1>4, <2>1, <2>2, <2>3, WritingKeepsRows
  <1>6. ASSUME NEW r \in Runs, Pipeline!Fail(r) PROVE Pipeline!RowsAgree'
    <2> DEFINE new == [Pipeline!Current(r) EXCEPT !.status = "FAILED", !.finished = 0,
                                                  !.failed = TRUE]
               half == [data EXCEPT ![day[r]] = IF @ = "full" THEN @ ELSE "partial"]
    <2>1. /\ row' \in {row, [row EXCEPT ![day[r]] = new]} /\ data' \in {data, half}
          /\ inserted' = inserted /\ sinceAcquire' = sinceAcquire /\ sinceSuccess' = sinceSuccess
          /\ Pipeline!Leave(r) /\ Pipeline!MayEnd(r)
      BY <1>6 DEF Pipeline!Fail, Pipeline!history
    <2>2. /\ new \in Pipeline!Row /\ new.id <= inserted /\ new.status = "FAILED"
          /\ Pipeline!AcquiredBefore(new.started)
      BY <2>1, CurrentAgrees DEF Pipeline!Row, Pipeline!Statuses
    <2> HIDE DEF new
    <2>3. /\ day[r] \in Pipeline!Days /\ row'[day[r]] \in {row[day[r]], new}
          /\ \A k \in Pipeline!Days : row'[k] = row[k] \/ k = day[r]
          /\ \A k \in Pipeline!Days : data'[k] = data[k] \/ data[k] # "full"
      BY <1>0, <2>1 DEF Pipeline!TypeOK
    <2> QED BY <1>4, <2>1, <2>2, <2>3, WritingKeepsRows
  <1>7. ASSUME NEW r \in Runs, Pipeline!EndWithoutRow(r) \/ Pipeline!Crash(r)
        PROVE  Pipeline!RowsAgree'
    <2>1. UNCHANGED <<row, data, inserted, sinceAcquire, sinceSuccess>> /\ Pipeline!Leave(r)
      BY <1>7 DEF Pipeline!EndWithoutRow, Pipeline!Crash, Pipeline!history
    <2> QED BY <1>4, <2>1, PipelineAtWork, WritingKeepsRows
  <1>8. ASSUME NEW k \in Pipeline!Days, Pipeline!Purge(k) PROVE Pipeline!RowsAgree'
    <2>1. /\ row' = [row EXCEPT ![k] = NoRow]
          /\ UNCHANGED <<data, inserted, draft, sinceAcquire, sinceSuccess>>
      BY <1>8 DEF Pipeline!Purge, Pipeline!runVars, Pipeline!history
    <2> QED BY <1>0, <2>1 DEF Pipeline!RowsAgree, Pipeline!TypeOK, Pipeline!Exists,
            Pipeline!AcquiredBefore, AcquiredByNow, Pipeline!SucceededBefore, SucceededByNow
  <1>9. CASE Pipeline!Tick
    <2>1. /\ row' = [k \in Pipeline!Days |-> Pipeline!Aged(row[k])]
          /\ draft' = [r \in Runs |-> Pipeline!Aged(draft[r])]
          /\ sinceSuccess' = Pipeline!Older(sinceSuccess)
          /\ sinceAcquire' = Pipeline!Older(sinceAcquire) /\ inserted' = inserted /\ data' = data
      BY <1>9 DEF Pipeline!Tick
    <2>2. ASSUME NEW x \in Pipeline!Row, Pipeline!AcquiredBefore(x.started)
          PROVE  Pipeline!Aged(x) # NoRow /\ AcquiredByNow(Pipeline!Aged(x).started)
      <3>1. /\ x # NoRow /\ x.started \in Nat /\ sinceAcquire \in Nat /\ sinceAcquire <= x.started
        BY <1>0, <2>2, PipelineConstants
           DEF Pipeline!Row, Pipeline!TypeOK, Pipeline!AcquiredBefore, AcquiredByNow
      <3>2. /\ Pipeline!Aged(x) # NoRow
            /\ Pipeline!Aged(x).started = Pipeline!Older(x.started)
        BY <3>1, AgedIsRow
      <3> QED BY <2>1, <3>1, <3>2, AgesInStep, PipelineConstants
         DEF Pipeline!AcquiredBefore, AcquiredByNow
    <2>3. ASSUME NEW k \in Pipeline!Days, row'[k] # NoRow
          PROVE  /\ row'[k].id <= inserted' /\ AcquiredByNow(row'[k].started)
                 /\ row'[k].status = "SUCCEEDED" =>
                       data'[k] = "full" /\ SucceededByNow(row'[k].finished)
      <3> DEFINE x == row[k]
      <3>1. /\ x \in Pipeline!Row /\ row'[k] = Pipeline!Aged(x)
            /\ row'[k].status = x.status /\ row'[k].id = x.id
            /\ row'[k].finished = Pipeline!Older(x.finished)
        BY <1>0, <2>1, <2>3, AgedIsRow DEF Pipeline!TypeOK
      <3>2. /\ x.id <= inserted /\ Pipeline!AcquiredBefore(x.started)
            /\ x.status = "SUCCEEDED" => data[k] = "full" /\ Pipeline!SucceededBefore(x.finished)
        BY <1>0, <3>1, PipelineConstants DEF Pipeline!RowsAgree, Pipeline!Exists
      <3>3. x.finished \in Nat \cup {Never}
        BY <3>1 DEF Pipeline!Row
      <3> HIDE DEF x
      <3>4. ASSUME Pipeline!SucceededBefore(x.finished)
            PROVE  SucceededByNow(Pipeline!Older(x.finished))
        <4>1. x.finished \in Nat /\ sinceSuccess \in Nat /\ sinceSuccess <= x.finished
          BY <1>0, <3>3, <3>4 DEF Pipeline!SucceededBefore, SucceededByNow, Pipeline!TypeOK
        <4> QED BY <2>1, <4>1, AgesInStep, PipelineConstants
           DEF Pipeline!SucceededBefore, SucceededByNow
      <3>5. AcquiredByNow(row'[k].started)
        BY <2>2, <3>1, <3>2
      <3> QED BY <2>1, <3>1, <3>2, <3>4, <3>5
    <2>4. ASSUME NEW r \in Runs, draft'[r] # NoRow
          PROVE  AcquiredByNow(draft'[r].started)
      <3>1. /\ draft[r] \in Pipeline!Row /\ draft'[r] = Pipeline!Aged(draft[r])
            /\ Pipeline!AcquiredBefore(draft[r].started)
        BY <1>0, <2>1, <2>4, AgedIsRow DEF Pipeline!TypeOK, Pipeline!RowsAgree
      <3> QED BY <2>2, <3>1
    <2> QED BY <2>3, <2>4
       DEF Pipeline!RowsAgree, Pipeline!Exists, Pipeline!AcquiredBefore, AcquiredByNow,
            Pipeline!SucceededBefore, SucceededByNow
  <1> QED BY <1>1, <1>2, <1>3, <1>5, <1>6, <1>7, <1>8, <1>9, PipelineSteps

LEMMA PipelineInvHolds == MCSpec => [](InPipeline => Pipeline!PipelineInv)
  <1>1. MCInit => (InPipeline => Pipeline!PipelineInv)
    <2> SUFFICES ASSUME MCInit, InPipeline PROVE Pipeline!PipelineInv
      OBVIOUS
    <2>1. Pipeline!Init
      BY DEF MCInit, InPipeline
    <2> QED BY <2>1, PipelineConstants DEF Pipeline!Init, Pipeline!PipelineInv, Pipeline!TypeOK,
            Pipeline!RunsAgree, Pipeline!RowsAgree, Pipeline!Exists, Pipeline!Working, Pipeline!PCs
  <1>2. (InPipeline => Pipeline!PipelineInv) /\ [MCNext]_vars => (InPipeline => Pipeline!PipelineInv)'
    <2> SUFFICES ASSUME InPipeline => Pipeline!PipelineInv, [MCNext]_vars, InPipeline'
                 PROVE  Pipeline!PipelineInv'
      OBVIOUS
    <2>1. InPipeline /\ Pipeline!PipelineInv
      BY PartKept DEF InPipeline
    <2>2. CASE MCNext
      BY <2>1, <2>2, PipelineTyped, StepRuns, StepRows DEF Pipeline!PipelineInv
    <2>3. CASE UNCHANGED vars
      BY <2>1, <2>3 DEF vars, Pipeline!PipelineInv, Pipeline!TypeOK, Pipeline!RunsAgree,
           Pipeline!RowsAgree, Pipeline!Exists, Pipeline!Working, Pipeline!AcquiredBefore,
           Pipeline!SucceededBefore
    <2> QED BY <2>2, <2>3
  <1> QED BY <1>1, <1>2, PTL DEF MCSpec

\* A day has one row, so two runs with drafts are on two days, a run that inserts has no
\* row beside it, and two that live on a day's row are one.
LEMMA OneFirstAttempt == ASSUME Pipeline!PipelineInv PROVE Pipeline!FirstAttemptExclusive
  <1> SUFFICES ASSUME NEW r \in Runs, NEW o \in Runs, r # o, Pipeline!First(r), Pipeline!First(o),
                      day[r] = day[o]
               PROVE  FALSE
    BY DEF Pipeline!FirstAttemptExclusive
  <1>1. mine[r] # mine[o]
    BY DEF Pipeline!First, Pipeline!PipelineInv, Pipeline!RunsAgree
  <1>2. \A x \in Runs : draft[x] # NoRow /\ seen[x] = NoRow => row[day[x]] = NoRow
    BY DEF Pipeline!PipelineInv, Pipeline!RunsAgree, Pipeline!Exists
  <1>3. draft[r] = NoRow \/ draft[o] = NoRow
    BY DEF Pipeline!PipelineInv, Pipeline!RunsAgree
  <1> QED BY <1>1, <1>2, <1>3 DEF Pipeline!First, Pipeline!Live, Pipeline!Exists

LEMMA QuietIsAlive == ASSUME Pipeline!PipelineInv PROVE Pipeline!QuietMeansAlive
  <1> SUFFICES ASSUME Pipeline!Healthy
               PROVE  \/ sinceSuccess # Never /\ sinceSuccess <= DelayedAfter
                      \/ sinceAcquire # Never /\ sinceAcquire <= StuckAfter
    BY DEF Pipeline!QuietMeansAlive
  <1>1. PICK k \in Pipeline!Latest :
           \/ row[k].status = "RUNNING" /\ row[k].started <= StuckAfter
           \/ row[k].status = "SUCCEEDED" /\ row[k].finished # Never /\ row[k].finished <= DelayedAfter
    BY DEF Pipeline!Healthy
  <1>2. /\ row[k] \in Pipeline!Row /\ Pipeline!AcquiredBefore(row[k].started)
        /\ row[k].status = "SUCCEEDED" => Pipeline!SucceededBefore(row[k].finished)
    BY
       DEF Pipeline!Latest, Pipeline!PipelineInv, Pipeline!TypeOK, Pipeline!RowsAgree, Pipeline!Exists
  <1>3. /\ row[k].started \in Nat /\ row[k].finished \in Nat \cup {Never}
        /\ sinceSuccess \in Nat \cup {Never} /\ sinceAcquire \in Nat \cup {Never}
        /\ DelayedAfter \in Nat /\ StuckAfter \in Nat
    BY <1>2, ConstantsOfParts
       DEF Pipeline!Row, Pipeline!PipelineInv, Pipeline!TypeOK, Pipeline!ConstantsOK
  <1>4. CASE row[k].status = "RUNNING" /\ row[k].started <= StuckAfter
    BY <1>2, <1>3, <1>4 DEF Pipeline!AcquiredBefore
  <1>5. CASE row[k].status = "SUCCEEDED" /\ row[k].finished # Never /\ row[k].finished <= DelayedAfter
    BY <1>2, <1>3, <1>5 DEF Pipeline!SucceededBefore
  <1> QED BY <1>1, <1>4, <1>5

LEMMA LedgerIsHonest ==
    ASSUME Pipeline!PipelineInv
    PROVE  /\ Pipeline!FirstAttemptExclusive
           /\ Pipeline!SucceededMeansAnalysed /\ Pipeline!QuietMeansAlive
  <1>1. Pipeline!SucceededMeansAnalysed
    BY DEF Pipeline!SucceededMeansAnalysed, Pipeline!PipelineInv, Pipeline!RowsAgree
  <1> QED BY <1>1, OneFirstAttempt, QuietIsAlive

-----------------------------------------------------------------------------
(* The cycle of a day's jobs: cloud_jobs.py, operational-jobs.yml.          *)

\* The state by its names.
cycleClock == s1
plants == s2
linked == s3
barred == s4
missing == s5
cycleLedger == s6
cycle == s7
cycleTold == s8
used == s9
USE DEF cycleClock, plants, linked, barred, missing, cycleLedger, cycle, cycleTold, used

CycleSet ==
    [at : Cycle!Steps, day : Cycle!Days, listed : BOOLEAN, todo : SUBSET Cycle!Fleet,
     alerting : BOOLEAN, failed : BOOLEAN, red : BOOLEAN]
ToldSet ==
    [through : SUBSET Cycle!Fleet, analysed : SUBSET Cycle!Fleet, sour : SUBSET Cycle!Fleet]
Ledgers == [Cycle!Fleet -> [Cycle!Days -> Cycle!Row \cup {NoRow}]]

LEMMA CycleSteps == ASSUME InCycle, MCNext PROVE Cycle!Next
  <1>1. /\ ~InOutbox /\ ~InPipeline /\ ~InDaily /\ ~InPv /\ ~InDash /\ ~InAlert
        /\ ~InAnomaly /\ ~InTariff /\ ~InMarket /\ ~InUtility
    BY DEF InOutbox, InPipeline, InDaily, InPv, InDash, InAlert, InAnomaly, InTariff,
           InMarket, InCycle, InUtility
  <1> QED BY <1>1, ZenonT(60) DEF MCNext, Cycle!Next

LEMMA CycleConstants ==
    /\ Named \in Owners /\ LateAfter \in Nat /\ LastTick \in Nat
    /\ 1 \in Cycle!Days
  <1>1. Named \in Owners /\ LateAfter \in Nat /\ LastTick \in Nat
    BY ConstantsOfParts DEF Cycle!ConstantsOK
  <1>2. LastTick \div 2 \in Nat
    BY <1>1
  <1> QED BY <1>1, <1>2 DEF Cycle!Days, Cycle!TargetOf

LEMMA CycleTypes ==
    ASSUME Cycle!TypeOK
    PROVE  /\ cycleClock \in Nat /\ cycle \in CycleSet /\ cycleTold \in ToldSet /\ cycleLedger \in Ledgers
           /\ plants \subseteq Cycle!Fleet /\ linked \subseteq Clients
  BY CycleConstants DEF Cycle!TypeOK, CycleSet, ToldSet, Ledgers

LEMMA Exited ==
    ASSUME cycle \in CycleSet, NEW ok \in BOOLEAN, Cycle!Exits(ok), cycle.at \notin {"idle", "over"}
    PROVE  /\ cycle' \in CycleSet /\ cycle'.at = Cycle!After(cycle.at)
           /\ ~cycle'.listed /\ ~cycle'.failed
           /\ ~cycle'.red <=> ~cycle.red /\ ok
  <1>1. Cycle!After(cycle.at) \in Cycle!Steps
    BY DEF Cycle!After, Cycle!Steps, CycleSet
  <1> DEFINE to == Cycle!After(cycle.at)
             red == cycle.red \/ ~ok
  <1>2. cycle' = [cycle EXCEPT !.at = to, !.red = red, !.listed = FALSE, !.todo = {},
                               !.failed = FALSE]
    BY DEF Cycle!Exits
  <1>3. to \in Cycle!Steps /\ red \in BOOLEAN
    BY <1>1
  <1>4. PICK s \in Cycle!Steps, b \in BOOLEAN : s = to /\ b = red
    BY <1>3
  <1> HIDE DEF to, red
  <1>5. cycle' = [cycle EXCEPT !.at = s, !.red = b, !.listed = FALSE, !.todo = {},
                               !.failed = FALSE]
    BY <1>2, <1>4
  <1>6. /\ cycle' \in CycleSet /\ cycle'.at = s /\ cycle'.red = b
        /\ cycle'.listed = FALSE /\ cycle'.failed = FALSE
    BY <1>5 DEF CycleSet
  <1> QED BY <1>4, <1>6 DEF to, red

LEMMA Done ==
    ASSUME cycle \in CycleSet, NEW p, NEW ok \in BOOLEAN, Cycle!PlantDone(p, ok)
    PROVE  /\ cycle' \in CycleSet /\ cycle'.at = cycle.at /\ cycle'.todo = cycle.todo \ {p}
           /\ (cycle'.listed <=> cycle.listed) /\ (cycle'.red <=> cycle.red)
           /\ ~cycle'.failed <=> ~cycle.failed /\ ok
  <1> DEFINE rest == cycle.todo \ {p}
             failed == cycle.failed \/ ~ok
  <1>1. cycle' = [cycle EXCEPT !.todo = rest, !.failed = failed]
    BY DEF Cycle!PlantDone
  <1>2. rest \in SUBSET Cycle!Fleet
    BY DEF CycleSet
  <1>3. PICK b \in BOOLEAN : b = failed
    OBVIOUS
  <1> HIDE DEF rest, failed
  <1>4. cycle' = [cycle EXCEPT !.todo = rest, !.failed = b]
    BY <1>1, <1>3
  <1>5. /\ cycle' \in CycleSet /\ cycle'.at = cycle.at /\ cycle'.todo = rest
        /\ cycle'.listed = cycle.listed /\ cycle'.red = cycle.red /\ cycle'.failed = b
    BY <1>2, <1>4 DEF CycleSet
  <1> QED BY <1>3, <1>5 DEF rest, failed

LEMMA OverIsCycle ==
    ASSUME NEW d \in Cycle!Days
    PROVE  [at |-> "over", day |-> d, listed |-> FALSE, todo |-> {}, alerting |-> FALSE,
            failed |-> FALSE, red |-> TRUE] \in CycleSet
  BY DEF CycleSet, Cycle!Steps

LEMMA Stopped ==
    ASSUME cycle' = [Cycle!Resting EXCEPT !.at = "over", !.red = TRUE]
    PROVE  cycle' \in CycleSet /\ cycle'.at = "over" /\ cycle'.red
  <1>1. cycle' = [at |-> "over", day |-> 1, listed |-> FALSE, todo |-> {}, alerting |-> FALSE,
                  failed |-> FALSE, red |-> TRUE]
    BY DEF Cycle!Resting
  <1> QED BY <1>1, OverIsCycle, CycleConstants

LEMMA Listed ==
    ASSUME cycle \in CycleSet, plants \subseteq Cycle!Fleet,
           cycle' = [cycle EXCEPT !.listed = TRUE, !.todo = Cycle!PipelinePlants]
    PROVE  /\ cycle' \in CycleSet /\ cycle'.at = cycle.at /\ cycle'.listed
           /\ cycle'.todo = Cycle!PipelinePlants /\ (cycle'.red <=> cycle.red)
  <1> DEFINE all == Cycle!PipelinePlants
  <1>1. all \in SUBSET Cycle!Fleet
    BY DEF Cycle!PipelinePlants, Cycle!OwnPlants, Cycle!ConnectedClients
  <1> HIDE DEF all
  <1>2. cycle' = [cycle EXCEPT !.listed = TRUE, !.todo = all]
    BY DEF all
  <1>3. /\ cycle' \in CycleSet /\ cycle'.at = cycle.at /\ cycle'.listed = TRUE
        /\ cycle'.todo = all /\ cycle'.red = cycle.red
    BY <1>1, <1>2 DEF CycleSet
  <1> QED BY <1>3 DEF all

LEMMA WrittenLedger ==
    ASSUME Cycle!TypeOK, Cycle!LedgerAgrees, NEW p \in Cycle!Fleet, NEW d \in Cycle!Days,
           NEW status \in {"RUNNING", "SUCCEEDED", "FAILED"},
           Cycle!Written(p, d, Cycle!Ended(status))
    PROVE  /\ cycleLedger' \in Ledgers
           /\ \A q \in Cycle!Fleet, e \in Cycle!Days :
                 cycleLedger'[q][e] # NoRow => cycleLedger'[q][e].at <= cycleClock
  <1> DEFINE x == Cycle!Ended(status)
  <1>1. x \in Cycle!Row /\ x.at = cycleClock /\ cycleClock \in Nat
    BY CycleTypes DEF Cycle!Ended, Cycle!Row
  <1> HIDE DEF x
  <1>2. cycleLedger' = [cycleLedger EXCEPT ![p][d] = x] /\ cycleLedger \in Ledgers
    BY CycleTypes DEF Cycle!Written, x
  <1>3. /\ cycleLedger' \in Ledgers
        /\ \A q \in Cycle!Fleet, e \in Cycle!Days : cycleLedger'[q][e] \in {cycleLedger[q][e], x}
    BY <1>1, <1>2 DEF Ledgers
  <1> QED BY <1>1, <1>3 DEF Cycle!LedgerAgrees

\* What was wrong with a plant is, as long as its newest execution is the same.
LEMMA SourStays ==
    ASSUME Cycle!LedgerAgrees, cycleClock' = cycleClock, ~(cycle.at = "over" /\ cycle.red),
           NEW p \in Cycle!StillSour
    PROVE  ~Cycle!Fresh(p)'
  <1>1. ~Cycle!Fresh(p) /\ Cycle!Newest(cycleLedger'[p]) = Cycle!Newest(cycleLedger[p])
    BY DEF Cycle!LedgerAgrees, Cycle!StillSour
  <1> QED BY <1>1 DEF Cycle!Fresh

\* The watchdog finds what was wrong when the cycle started.
LEMMA SourIsSick ==
    ASSUME Cycle!TypeOK, Cycle!LedgerAgrees, NEW p \in Cycle!Fleet, ~Cycle!Fresh(p)
    PROVE  Cycle!HasHistory(p) /\ Cycle!Sick(p)
  <1>1. PICK x \in Cycle!Newest(cycleLedger[p]) :
           /\ x \notin [status : {"SUCCEEDED"}, at : cycleClock - LateAfter .. cycleClock]
           /\ x \notin [status : {"RUNNING"}, at : {cycleClock}]
    BY DEF Cycle!Fresh
  <1>2. x \in Cycle!Row /\ x.at <= cycleClock
    BY CycleTypes DEF Cycle!Newest, Ledgers, Cycle!LedgerAgrees
  <1>3. x = [status |-> x.status, at |-> x.at] /\ x.at \in Nat /\ cycleClock \in Nat /\ LateAfter \in Nat
    BY <1>2, CycleTypes, CycleConstants DEF Cycle!Row
  <1>4. CASE x.status = "RUNNING"
    <2>1. x.at # cycleClock
      BY <1>1, <1>3, <1>4
    <2> QED BY <1>1, <1>2, <1>3, <1>4, <2>1 DEF Cycle!HasHistory, Cycle!Sick, Cycle!Unhealthy
  <1>5. CASE x.status = "SUCCEEDED"
    <2>1. x.at \notin cycleClock - LateAfter .. cycleClock
      BY <1>1, <1>3, <1>5
    <2>2. cycleClock - x.at > LateAfter
      BY <1>2, <1>3, <2>1
    <2> QED BY <1>1, <1>5, <2>2 DEF Cycle!HasHistory, Cycle!Sick, Cycle!Unhealthy
  <1>6. CASE x.status = "FAILED"
    BY <1>1, <1>6 DEF Cycle!HasHistory, Cycle!Sick, Cycle!Unhealthy
  <1> QED BY <1>2, <1>4, <1>5, <1>6 DEF Cycle!Row

\* Only the workflow moves on.
LEMMA ElsewhereKeeps ==
    ASSUME Cycle!CycleInv, Cycle!Elsewhere, cycle' \in CycleSet, cycle.at # "over"
    PROVE  Cycle!TypeOK' /\ Cycle!ThroughListed' /\ Cycle!LedgerAgrees'
  <1>1. Cycle!TypeOK'
    BY DEF Cycle!CycleInv, Cycle!TypeOK, Cycle!Elsewhere, CycleSet
  <1>2. Cycle!ThroughListed'
    BY DEF Cycle!CycleInv, Cycle!ThroughListed, Cycle!Elsewhere, Cycle!PipelinePlants,
           Cycle!OwnPlants, Cycle!ConnectedClients
  <1>3. Cycle!LedgerAgrees'
    BY DEF Cycle!CycleInv, Cycle!LedgerAgrees, Cycle!Elsewhere, Cycle!Fresh
  <1> QED BY <1>1, <1>2, <1>3

\* A step of the workflow ends; the analysis well only with every plant analysed, and the
\* watchdog only with none that was wrong.
LEMMA ExitKeeps ==
    ASSUME Cycle!CycleInv, NEW ok \in BOOLEAN, Cycle!Exits(ok), cycle.at \notin {"idle", "over"},
           cycleTold'.through = cycleTold.through, cycleTold'.analysed = cycleTold.analysed,
           cycleTold'.sour \subseteq cycleTold.sour,
           cycle.at = "pipeline" /\ ok => cycleTold.through \subseteq cycleTold.analysed,
           cycle.at = "watchdog" /\ ok => cycleTold.through \cap cycleTold.sour = {}
    PROVE  cycle' \in CycleSet /\ Cycle!StepsAgree'
  <1>1. /\ cycle' \in CycleSet /\ cycle'.at = Cycle!After(cycle.at) /\ ~cycle'.listed
        /\ ~cycle'.red <=> ~cycle.red /\ ok
    BY Exited, CycleTypes DEF Cycle!CycleInv
  <1>2. ASSUME ~cycle'.red,
               cycle'.at \in {"dispatch", "digest", "exports", "retention", "watchdog", "over"}
        PROVE  cycleTold'.through \subseteq cycleTold'.analysed
    <2>1. cycle.at \in {"pipeline", "dispatch", "digest", "exports", "retention", "watchdog"}
      BY <1>1, <1>2, CycleTypes DEF Cycle!After, Cycle!Steps, CycleSet, Cycle!CycleInv
    <2> QED BY <1>1, <1>2, <2>1 DEF Cycle!CycleInv, Cycle!StepsAgree
  <1>3. ASSUME ~cycle'.red, cycle'.at = "over" PROVE cycleTold'.through \cap cycleTold'.sour = {}
    <2>1. cycle.at = "watchdog"
      BY <1>1, <1>3, CycleTypes DEF Cycle!After, Cycle!Steps, CycleSet, Cycle!CycleInv
    <2> QED BY <1>1, <1>3, <2>1
  <1> QED BY <1>1, <1>2, <1>3 DEF Cycle!StepsAgree

\* A job of the workflow that neither analyses nor watches.
LEMMA JobKeeps ==
    ASSUME Cycle!CycleInv, NEW ok \in BOOLEAN, Cycle!Exits(ok), Cycle!Elsewhere,
           cycle.at \notin {"idle", "over"},
           cycle.at = "pipeline" /\ ok => cycleTold.through \subseteq cycleTold.analysed,
           cycle.at = "watchdog" /\ ok => cycleTold.through \cap cycleTold.sour = {}
    PROVE  Cycle!CycleInv'
  <1>1. cycle' \in CycleSet /\ Cycle!StepsAgree'
    BY ExitKeeps DEF Cycle!Elsewhere
  <1> QED BY <1>1, ElsewhereKeeps DEF Cycle!CycleInv

LEMMA StopKeeps ==
    ASSUME Cycle!CycleInv, cycle' = [Cycle!Resting EXCEPT !.at = "over", !.red = TRUE],
           cycle.at # "over", Cycle!Elsewhere
    PROVE  Cycle!CycleInv'
  BY Stopped, ElsewhereKeeps DEF Cycle!CycleInv, Cycle!StepsAgree

\* The plants change, and no plant there all along leaves the list.
LEMMA MovingKeeps ==
    ASSUME Cycle!CycleInv, NEW p \in Cycle!Fleet, Cycle!Moved(p),
           plants' \subseteq Cycle!Fleet, linked' \subseteq plants' \cap Clients,
           barred' \subseteq Clients,
           \A q \in Cycle!PipelinePlants \ {p} : q \in Cycle!PipelinePlants'
    PROVE  Cycle!CycleInv'
  <1>1. /\ cycleTold' = [cycleTold EXCEPT !.through = @ \ {p}] /\ used' = [used EXCEPT !.others = @ + 1]
        /\ used.others < MaxOthers /\ UNCHANGED <<cycleClock, missing, cycleLedger, cycle>>
    BY DEF Cycle!Moved
  <1>2. /\ cycleTold' \in ToldSet /\ cycleTold'.through = cycleTold.through \ {p}
        /\ cycleTold'.analysed = cycleTold.analysed /\ cycleTold'.sour = cycleTold.sour
    BY <1>1, CycleTypes DEF ToldSet, Cycle!CycleInv
  <1>3. used' \in [cycles : 0 .. MaxCycles, others : 0 .. MaxOthers]
    <2>1. MaxOthers \in Nat
      BY ConstantsOfParts DEF Cycle!ConstantsOK
    <2> QED BY <1>1, <2>1 DEF Cycle!CycleInv, Cycle!TypeOK
  <1>4. Cycle!TypeOK'
    BY <1>1, <1>2, <1>3 DEF Cycle!CycleInv, Cycle!TypeOK, ToldSet
  <1>5. Cycle!ThroughListed'
    BY <1>2 DEF Cycle!CycleInv, Cycle!ThroughListed
  <1>6. Cycle!LedgerAgrees'
    BY <1>1, <1>2 DEF Cycle!CycleInv, Cycle!LedgerAgrees, Cycle!Fresh
  <1>7. Cycle!StepsAgree'
    BY <1>1, <1>2 DEF Cycle!CycleInv, Cycle!StepsAgree
  <1> QED BY <1>4, <1>5, <1>6, <1>7 DEF Cycle!CycleInv

LEMMA StillSourIsSour == Cycle!StillSour \subseteq cycleTold.sour
  BY DEF Cycle!StillSour

\* Executions are written or purged, and what was wrong with a plant is told as long as
\* its newest is the same.
LEMMA WritingKeeps ==
    ASSUME Cycle!CycleInv, cycleLedger' \in Ledgers, cycle' \in CycleSet, cycleTold' \in ToldSet,
           \A q \in Cycle!Fleet, e \in Cycle!Days :
              cycleLedger'[q][e] # NoRow => cycleLedger'[q][e].at <= cycleClock,
           cycleTold'.through = cycleTold.through, cycleTold'.sour = Cycle!StillSour, Cycle!StepsAgree',
           cycle.at = "over" => cycle' = cycle,
           used' \in [cycles : 0 .. MaxCycles, others : 0 .. MaxOthers],
           UNCHANGED <<cycleClock, plants, linked, barred, missing>>
    PROVE  Cycle!CycleInv'
  <1>1. Cycle!TypeOK'
    BY DEF Cycle!CycleInv, Cycle!TypeOK, CycleSet, ToldSet, Ledgers
  <1>2. Cycle!ThroughListed'
    BY DEF Cycle!CycleInv, Cycle!ThroughListed, Cycle!PipelinePlants,
           Cycle!OwnPlants, Cycle!ConnectedClients
  <1>3. Cycle!LedgerAgrees'
    BY SourStays DEF Cycle!CycleInv, Cycle!LedgerAgrees
  <1> QED BY <1>1, <1>2, <1>3 DEF Cycle!CycleInv

LEMMA CycleStep == ASSUME Cycle!CycleInv, Cycle!Next PROVE Cycle!CycleInv'
  <1>0. /\ Cycle!TypeOK /\ Cycle!ThroughListed /\ Cycle!LedgerAgrees /\ Cycle!StepsAgree
        /\ cycleClock \in Nat /\ cycle \in CycleSet /\ cycleTold \in ToldSet /\ cycleLedger \in Ledgers
        /\ plants \subseteq Cycle!Fleet /\ linked \subseteq Clients
    BY CycleTypes DEF Cycle!CycleInv
  <1>1. ASSUME NEW d \in Cycle!Days, Cycle!Start(d) PROVE Cycle!CycleInv'
    <2> DEFINE sour == {p \in plants : ~Cycle!Fresh(p)}
    <2>1. /\ cycle' = [Cycle!Resting EXCEPT !.at = "smoke", !.day = d]
          /\ cycleTold' = [through |-> Cycle!PipelinePlants, analysed |-> {}, sour |-> sour]
          /\ used.cycles < MaxCycles /\ used' = [used EXCEPT !.cycles = @ + 1]
          /\ UNCHANGED <<cycleClock, plants, linked, barred, missing, cycleLedger>>
      BY <1>1 DEF Cycle!Start
    <2>2. cycle' = [at |-> "smoke", day |-> d, listed |-> FALSE, todo |-> {},
                    alerting |-> FALSE, failed |-> FALSE, red |-> FALSE]
      BY <2>1 DEF Cycle!Resting
    <2>3. cycle' \in CycleSet
      <3>1. "smoke" \in Cycle!Steps /\ {} \in SUBSET Cycle!Fleet
        BY DEF Cycle!Steps
      <3> QED BY <2>2, <3>1 DEF CycleSet
    <2>4. Cycle!PipelinePlants \in SUBSET Cycle!Fleet /\ sour \in SUBSET Cycle!Fleet
      BY <1>0 DEF Cycle!PipelinePlants, Cycle!OwnPlants, Cycle!ConnectedClients
    <2>5. cycleTold' \in ToldSet
      BY <2>1, <2>4 DEF ToldSet
    <2>6. used' \in [cycles : 0 .. MaxCycles, others : 0 .. MaxOthers]
      <3>1. MaxCycles \in Nat
        BY ConstantsOfParts DEF Cycle!ConstantsOK
      <3> QED BY <1>0, <2>1, <3>1 DEF Cycle!TypeOK
    <2>7. Cycle!TypeOK'
      BY <1>0, <2>1, <2>3, <2>5, <2>6 DEF Cycle!TypeOK, CycleSet, ToldSet
    <2>8. Cycle!ThroughListed'
      BY <2>1 DEF Cycle!ThroughListed, Cycle!PipelinePlants, Cycle!OwnPlants,
           Cycle!ConnectedClients
    <2>9. Cycle!LedgerAgrees'
      BY <1>0, <2>1 DEF Cycle!LedgerAgrees, Cycle!Fresh
    <2>10. Cycle!StepsAgree'
      BY <2>2 DEF Cycle!StepsAgree
    <2> QED BY <2>7, <2>8, <2>9, <2>10 DEF Cycle!CycleInv
  <1>2. CASE Cycle!SmokeOperational
    <2> DEFINE given == missing = {}
               lacking == missing # {}
    <2>1. /\ cycle.at = "operational" /\ Cycle!Elsewhere
          /\ cycle' = [cycle EXCEPT !.at = "collect", !.alerting = given, !.red = lacking]
      BY <1>2 DEF Cycle!SmokeOperational
    <2>2. PICK g \in BOOLEAN, l \in BOOLEAN : g = given /\ l = lacking
      OBVIOUS
    <2> HIDE DEF given, lacking
    <2>3. cycle' = [cycle EXCEPT !.at = "collect", !.alerting = g, !.red = l]
      BY <2>1, <2>2
    <2>4. cycle' \in CycleSet /\ cycle'.at = "collect"
      BY <1>0, <2>3 DEF CycleSet, Cycle!Steps
    <2> QED BY <2>1, <2>4, ElsewhereKeeps DEF Cycle!CycleInv, Cycle!StepsAgree
  <1>3. CASE Cycle!Skipped
    <2>1. /\ cycle.at \in {"dispatch", "digest"} /\ Cycle!Elsewhere
          /\ cycle' = [cycle EXCEPT !.at = Cycle!After(cycle.at)]
          /\ Cycle!After(cycle.at) \in {"digest", "exports"}
      BY <1>3 DEF Cycle!Skipped, Cycle!After
    <2>2. PICK s \in {"digest", "exports"} : s = Cycle!After(cycle.at)
      BY <2>1
    <2>3. cycle' \in CycleSet /\ cycle'.at = s /\ cycle'.red = cycle.red
      BY <1>0, <2>1, <2>2 DEF CycleSet, Cycle!Steps
    <2>4. Cycle!StepsAgree'
      BY <1>0, <2>1, <2>3 DEF Cycle!StepsAgree, Cycle!Elsewhere
    <2> QED BY <2>1, <2>3, <2>4, ElsewhereKeeps DEF Cycle!CycleInv
  <1>4. CASE Cycle!Retention
    <2> DEFINE Gone(x) == x # NoRow /\ x.status # "RUNNING" /\ cycleClock > x.at + LateAfter
    <2>1. /\ cycle.at = "retention" /\ Cycle!Exits(TRUE)
          /\ cycleTold' = [cycleTold EXCEPT !.sour = Cycle!StillSour]
          /\ cycleLedger' = [p \in Cycle!Fleet |-> [d \in Cycle!Days |->
                IF Gone(cycleLedger[p][d]) THEN NoRow ELSE cycleLedger[p][d]]]
          /\ UNCHANGED <<cycleClock, plants, linked, barred, missing, used>>
      BY <1>4 DEF Cycle!Retention
    <2> HIDE DEF Gone
    <2>2. /\ cycleLedger' \in Ledgers
          /\ \A p \in Cycle!Fleet, d \in Cycle!Days : cycleLedger'[p][d] \in {NoRow, cycleLedger[p][d]}
      BY <1>0, <2>1 DEF Ledgers
    <2>5. \A p \in Cycle!Fleet, d \in Cycle!Days :
             cycleLedger'[p][d] # NoRow => cycleLedger'[p][d].at <= cycleClock
      BY <1>0, <2>2 DEF Cycle!LedgerAgrees
    <2>3. /\ cycleTold' \in ToldSet /\ cycleTold'.through = cycleTold.through
          /\ cycleTold'.analysed = cycleTold.analysed /\ cycleTold'.sour = Cycle!StillSour
          /\ Cycle!StillSour \subseteq cycleTold.sour
      BY <1>0, <2>1, StillSourIsSour DEF ToldSet
    <2>4. cycle' \in CycleSet /\ Cycle!StepsAgree'
      BY <2>1, <2>3, ExitKeeps
    <2> QED BY <1>0, <2>1, <2>2, <2>3, <2>4, <2>5, WritingKeeps DEF Cycle!TypeOK
  <1>5. CASE Cycle!Cancelled
    BY <1>5, StopKeeps DEF Cycle!Cancelled
  <1>6. ASSUME NEW ok \in BOOLEAN, Cycle!Smoke(ok) PROVE Cycle!CycleInv'
    <2>1. CASE ok
      <3>1. Cycle!Exits(TRUE) /\ Cycle!Elsewhere /\ cycle.at = "smoke"
        BY <1>6, <2>1 DEF Cycle!Smoke
      <3> QED BY <3>1, JobKeeps
    <2>2. CASE ~ok
      BY <1>6, <2>2, StopKeeps DEF Cycle!Smoke
    <2> QED BY <2>1, <2>2
  <1>7. ASSUME NEW ok \in BOOLEAN,
               Cycle!Collect(ok) \/ Cycle!DrainCollection(ok) \/ Cycle!DispatchOutbox(ok)
                  \/ Cycle!DrainExports(ok)
        PROVE  Cycle!CycleInv'
    <2>1. /\ Cycle!Exits(ok) /\ Cycle!Elsewhere
          /\ cycle.at \in {"collect", "drain", "dispatch", "exports"}
      BY <1>7 DEF Cycle!Collect, Cycle!DrainCollection, Cycle!DispatchOutbox, Cycle!DrainExports
    <2> QED BY <2>1, JobKeeps
  <1>8. ASSUME NEW ok \in BOOLEAN, Cycle!DailyDigest(ok) PROVE Cycle!CycleInv'
    <2>1. /\ cycle.at = "digest" /\ Cycle!Exits(ok) /\ plants' = plants \cup {Named}
          /\ UNCHANGED <<cycleClock, linked, barred, missing, cycleLedger, cycleTold, used>>
      BY <1>8 DEF Cycle!DailyDigest
    <2>2. cycle' \in CycleSet /\ Cycle!StepsAgree'
      BY <2>1, ExitKeeps
    <2>3. Cycle!TypeOK'
      BY <1>0, <2>1, <2>2, CycleConstants DEF Cycle!TypeOK, CycleSet, Cycle!Fleet
    <2>4. Cycle!ThroughListed'
      BY <1>0, <2>1 DEF Cycle!ThroughListed, Cycle!PipelinePlants, Cycle!OwnPlants,
           Cycle!ConnectedClients
    <2>5. Cycle!LedgerAgrees'
      BY <1>0, <2>1 DEF Cycle!LedgerAgrees, Cycle!Fresh
    <2> QED BY <2>2, <2>3, <2>4, <2>5 DEF Cycle!CycleInv
  <1>9. ASSUME NEW p \in Cycle!Fleet, NEW ok \in BOOLEAN, Cycle!Analyse(p, ok)
        PROVE  Cycle!CycleInv'
    <2> DEFINE status == IF ok THEN "SUCCEEDED" ELSE "FAILED"
               analysed == IF ok THEN cycleTold.analysed \cup {p} ELSE cycleTold.analysed
    <2>1. /\ cycle.at = "pipeline" /\ cycle.listed /\ Cycle!PlantDone(p, ok)
          /\ Cycle!Written(p, cycle.day, Cycle!Ended(status))
          /\ cycleTold' = [cycleTold EXCEPT !.sour = Cycle!StillSour, !.analysed = analysed]
          /\ UNCHANGED <<cycleClock, plants, linked, barred, missing, used>>
      BY <1>9 DEF Cycle!Analyse, Cycle!Analysing
    <2>2. /\ cycle' \in CycleSet /\ cycle'.at = "pipeline" /\ cycle'.todo = cycle.todo \ {p}
          /\ ~cycle'.failed <=> ~cycle.failed /\ ok
      BY <1>0, <2>1, Done
    <2>3. /\ cycleLedger' \in Ledgers
          /\ \A q \in Cycle!Fleet, e \in Cycle!Days :
                cycleLedger'[q][e] # NoRow => cycleLedger'[q][e].at <= cycleClock
      <3>1. cycle.day \in Cycle!Days
        BY <1>0 DEF CycleSet
      <3>2. status \in {"RUNNING", "SUCCEEDED", "FAILED"}
        OBVIOUS
      <3> HIDE DEF status
      <3> QED BY <1>0, <2>1, <3>1, <3>2, WrittenLedger
    <2>4. analysed \in SUBSET Cycle!Fleet /\ cycleTold.analysed \subseteq analysed /\ (ok => p \in analysed)
      BY <1>0 DEF ToldSet
    <2> HIDE DEF analysed, status
    <2>5. /\ cycleTold' \in ToldSet /\ cycleTold'.through = cycleTold.through
          /\ cycleTold'.analysed = analysed /\ cycleTold'.sour = Cycle!StillSour
      BY <1>0, <2>1, <2>4, StillSourIsSour DEF ToldSet
    <2>6. Cycle!StepsAgree'
      BY <1>0, <2>1, <2>2, <2>4, <2>5 DEF Cycle!StepsAgree
    <2> QED BY <1>0, <2>1, <2>2, <2>3, <2>5, <2>6, WritingKeeps DEF Cycle!TypeOK
  <1>10. ASSUME NEW p \in Cycle!Fleet, Cycle!AnalyseRefused(p) PROVE Cycle!CycleInv'
    <2>1. /\ cycle.at = "pipeline" /\ Cycle!PlantDone(p, FALSE) /\ Cycle!Elsewhere
      BY <1>10 DEF Cycle!AnalyseRefused, Cycle!Analysing
    <2>2. cycle' \in CycleSet /\ cycle'.at = "pipeline" /\ cycle'.failed
      BY <1>0, <2>1, Done
    <2> QED BY <2>1, <2>2, ElsewhereKeeps DEF Cycle!CycleInv, Cycle!StepsAgree
  <1>11. ASSUME NEW p \in Cycle!Fleet, Cycle!KilledRunning(p) PROVE Cycle!CycleInv'
    <2>1. /\ cycle.at = "pipeline" /\ Cycle!Written(p, cycle.day, Cycle!Ended("RUNNING"))
          /\ cycle' = [Cycle!Resting EXCEPT !.at = "over", !.red = TRUE]
          /\ UNCHANGED <<cycleClock, plants, linked, barred, missing, cycleTold, used>>
      BY <1>11 DEF Cycle!KilledRunning, Cycle!Analysing
    <2>2. cycle' \in CycleSet /\ cycle'.at = "over" /\ cycle'.red
      BY <2>1, Stopped
    <2>3. /\ cycleLedger' \in Ledgers
          /\ \A q \in Cycle!Fleet, e \in Cycle!Days :
                cycleLedger'[q][e] # NoRow => cycleLedger'[q][e].at <= cycleClock
      <3>1. cycle.day \in Cycle!Days
        BY <1>0 DEF CycleSet
      <3> QED BY <1>0, <2>1, <3>1, WrittenLedger
    <2>4. Cycle!TypeOK'
      BY <1>0, <2>1, <2>2, <2>3 DEF Cycle!TypeOK, CycleSet, Ledgers
    <2>5. Cycle!ThroughListed'
      BY <1>0, <2>1 DEF Cycle!ThroughListed, Cycle!PipelinePlants, Cycle!OwnPlants,
           Cycle!ConnectedClients
    <2>6. Cycle!LedgerAgrees' /\ Cycle!StepsAgree'
      BY <2>1, <2>2, <2>3 DEF Cycle!LedgerAgrees, Cycle!StepsAgree
    <2> QED BY <2>4, <2>5, <2>6 DEF Cycle!CycleInv
  <1>12. ASSUME NEW p \in Cycle!Fleet, Cycle!Look(p) PROVE Cycle!CycleInv'
    <2> DEFINE well == Cycle!Excused(p) \/ (Cycle!HasHistory(p) /\ ~Cycle!Sick(p))
    <2>1. /\ cycle.at = "watchdog" /\ cycle.listed /\ Cycle!PlantDone(p, well) /\ Cycle!Elsewhere
          /\ well \in BOOLEAN
      BY <1>12 DEF Cycle!Look
    <2>2. well => Cycle!Fresh(p)
      BY <1>0, SourIsSick DEF Cycle!Excused
    <2> HIDE DEF well
    <2>3. /\ cycle' \in CycleSet /\ cycle'.at = "watchdog" /\ cycle'.todo = cycle.todo \ {p}
          /\ cycle'.red <=> cycle.red
          /\ ~cycle'.failed <=> ~cycle.failed /\ well
      BY <1>0, <2>1, Done
    <2>4. p \in cycleTold.sour => ~well
      BY <1>0, <2>1, <2>2 DEF Cycle!LedgerAgrees
    <2>5. Cycle!StepsAgree'
      <3>1. ASSUME ~cycle'.failed PROVE cycleTold.through \cap cycleTold.sour \subseteq cycle'.todo
        BY <1>0, <2>1, <2>3, <2>4, <3>1 DEF Cycle!StepsAgree
      <3>2. ASSUME ~cycle'.red PROVE cycleTold.through \subseteq cycleTold.analysed
        BY <1>0, <2>1, <2>3, <3>2 DEF Cycle!StepsAgree
      <3> QED BY <2>1, <2>3, <3>1, <3>2 DEF Cycle!StepsAgree, Cycle!Elsewhere
    <2> QED BY <2>1, <2>3, <2>5, ElsewhereKeeps DEF Cycle!CycleInv
  <1>13. ASSUME NEW p \in Cycle!Fleet,
                \/ Cycle!Connect(p) \/ Cycle!Disconnect(p) \/ Cycle!Deactivate(p)
                \/ Cycle!Reactivate(p) \/ Cycle!AddPlant(p)
         PROVE  Cycle!CycleInv'
    <2>1. Cycle!Moved(p) /\ plants' \subseteq Cycle!Fleet /\ linked' \subseteq plants' \cap Clients
          /\ barred' \subseteq Clients
      BY <1>0, <1>13
         DEF Cycle!Connect, Cycle!Disconnect, Cycle!Deactivate, Cycle!Reactivate, Cycle!AddPlant,
             Cycle!Fleet, Cycle!TypeOK
    <2>2. \A q \in Cycle!PipelinePlants \ {p} : q \in Cycle!PipelinePlants'
      BY <1>13
         DEF Cycle!Connect, Cycle!Disconnect, Cycle!Deactivate, Cycle!Reactivate, Cycle!AddPlant,
             Cycle!PipelinePlants, Cycle!OwnPlants, Cycle!ConnectedClients
    <2> QED BY <2>1, <2>2, MovingKeeps
  <1>14. CASE Cycle!ListPlants
    <2>1. CASE "telegram" \in missing \/ Cycle!PipelinePlants = {}
      <3>1. Cycle!Exits(FALSE) /\ Cycle!Elsewhere /\ cycle.at = "pipeline"
        BY <1>14, <2>1 DEF Cycle!ListPlants
      <3> QED BY <3>1, JobKeeps
    <2>2. CASE ~("telegram" \in missing \/ Cycle!PipelinePlants = {})
      <3>1. /\ cycle' = [cycle EXCEPT !.listed = TRUE, !.todo = Cycle!PipelinePlants]
            /\ Cycle!Elsewhere /\ cycle.at = "pipeline"
        BY <1>14, <2>2 DEF Cycle!ListPlants
      <3>2. /\ cycle' \in CycleSet /\ cycle'.at = "pipeline"
            /\ cycle'.todo = Cycle!PipelinePlants
        BY <1>0, <3>1, Listed
      <3>3. Cycle!StepsAgree'
        BY <1>0, <3>1, <3>2 DEF Cycle!StepsAgree, Cycle!Elsewhere, Cycle!ThroughListed
      <3> QED BY <3>1, <3>2, <3>3, ElsewhereKeeps DEF Cycle!CycleInv
    <2> QED BY <2>1, <2>2
  <1>15. CASE Cycle!PipelineEnds
    <2> DEFINE ok == ~cycle.failed
    <2>1. /\ cycle.at = "pipeline" /\ Cycle!Exits(ok) /\ Cycle!Elsewhere /\ ok \in BOOLEAN
          /\ ok => cycleTold.through \subseteq cycleTold.analysed
      BY <1>0, <1>15 DEF Cycle!PipelineEnds, Cycle!StepsAgree
    <2> HIDE DEF ok
    <2> QED BY <2>1, JobKeeps
  <1>16. CASE Cycle!WatchPlants
    <2>1. CASE Cycle!PipelinePlants = {}
      <3>1. Cycle!Exits(FALSE) /\ Cycle!Elsewhere /\ cycle.at = "watchdog"
        BY <1>16, <2>1 DEF Cycle!WatchPlants
      <3> QED BY <3>1, JobKeeps
    <2>2. CASE Cycle!PipelinePlants # {}
      <3>1. /\ cycle' = [cycle EXCEPT !.listed = TRUE, !.todo = Cycle!PipelinePlants]
            /\ Cycle!Elsewhere /\ cycle.at = "watchdog"
        BY <1>16, <2>2 DEF Cycle!WatchPlants
      <3>2. /\ cycle' \in CycleSet /\ cycle'.at = "watchdog" /\ (cycle'.red <=> cycle.red)
            /\ cycle'.todo = Cycle!PipelinePlants
        BY <1>0, <3>1, Listed
      <3>3. Cycle!StepsAgree'
        BY <1>0, <3>1, <3>2 DEF Cycle!StepsAgree, Cycle!Elsewhere, Cycle!ThroughListed
      <3> QED BY <3>1, <3>2, <3>3, ElsewhereKeeps DEF Cycle!CycleInv
    <2> QED BY <2>1, <2>2
  <1>17. CASE Cycle!WatchEnds
    <2> DEFINE ok == ~cycle.failed
    <2>1. /\ cycle.at = "watchdog" /\ Cycle!Exits(ok) /\ Cycle!Elsewhere /\ ok \in BOOLEAN
          /\ ok => cycleTold.through \cap cycleTold.sour = {}
      BY <1>0, <1>17 DEF Cycle!WatchEnds, Cycle!StepsAgree
    <2> HIDE DEF ok
    <2> QED BY <2>1, JobKeeps
  <1>18. ASSUME NEW p \in Cycle!Fleet, NEW d \in Cycle!Days, NEW ok \in BOOLEAN,
                Cycle!RunByHand(p, d, ok)
         PROVE  Cycle!CycleInv'
    <2> DEFINE status == IF ok THEN "SUCCEEDED" ELSE "FAILED"
    <2>1. /\ used.others < MaxOthers /\ used' = [used EXCEPT !.others = @ + 1]
          /\ Cycle!Written(p, d, Cycle!Ended(status))
          /\ cycleTold' = [cycleTold EXCEPT !.sour = Cycle!StillSour]
          /\ UNCHANGED <<cycleClock, plants, linked, barred, missing, cycle>>
      BY <1>18 DEF Cycle!RunByHand
    <2>2. /\ cycleLedger' \in Ledgers
          /\ \A q \in Cycle!Fleet, e \in Cycle!Days :
                cycleLedger'[q][e] # NoRow => cycleLedger'[q][e].at <= cycleClock
      <3>1. status \in {"RUNNING", "SUCCEEDED", "FAILED"}
        OBVIOUS
      <3> HIDE DEF status
      <3> QED BY <1>0, <2>1, <3>1, WrittenLedger
    <2>3. /\ cycleTold' \in ToldSet /\ cycleTold'.through = cycleTold.through
          /\ cycleTold'.analysed = cycleTold.analysed /\ cycleTold'.sour = Cycle!StillSour
          /\ Cycle!StillSour \subseteq cycleTold.sour
      BY <1>0, <2>1, StillSourIsSour DEF ToldSet
    <2>4. used' \in [cycles : 0 .. MaxCycles, others : 0 .. MaxOthers]
      <3>1. MaxOthers \in Nat
        BY ConstantsOfParts DEF Cycle!ConstantsOK
      <3> QED BY <1>0, <2>1, <3>1 DEF Cycle!TypeOK
    <2>5. Cycle!StepsAgree'
      BY <1>0, <2>1, <2>3 DEF Cycle!StepsAgree
    <2> QED BY <1>0, <2>1, <2>2, <2>3, <2>4, <2>5, WritingKeeps
  <1>19. CASE Cycle!Tick
    <2>1. /\ cycleClock < LastTick /\ cycleClock' = cycleClock + 1
          /\ cycle' = Cycle!Resting /\ cycleTold' = Cycle!Untold
          /\ UNCHANGED <<plants, linked, barred, missing, cycleLedger, used>>
      BY <1>19 DEF Cycle!Tick
    <2>2. cycle' \in CycleSet
      <3>1. PICK d \in Cycle!Days : d = 1
        BY CycleConstants
      <3>2. "idle" \in Cycle!Steps /\ {} \in SUBSET Cycle!Fleet
        BY DEF Cycle!Steps
      <3>3. cycle' = [at |-> "idle", day |-> d, listed |-> FALSE, todo |-> {},
                      alerting |-> FALSE, failed |-> FALSE, red |-> FALSE]
        BY <2>1, <3>1 DEF Cycle!Resting
      <3> QED BY <3>2, <3>3 DEF CycleSet
    <2>3. cycleTold' \in ToldSet /\ cycleTold'.through = {} /\ cycleTold'.sour = {} /\ cycle'.at = "idle"
      BY <2>1 DEF Cycle!Untold, ToldSet, Cycle!Resting
    <2>4. Cycle!TypeOK'
      BY <1>0, <2>1, <2>2, <2>3, CycleConstants DEF Cycle!TypeOK, CycleSet, ToldSet
    <2>5. \A q \in Cycle!Fleet, e \in Cycle!Days :
             cycleLedger'[q][e] # NoRow => cycleLedger'[q][e].at <= cycleClock'
      <3>1. ASSUME NEW q \in Cycle!Fleet, NEW e \in Cycle!Days, cycleLedger[q][e] # NoRow
            PROVE  cycleLedger[q][e].at \in Nat /\ cycleLedger[q][e].at <= cycleClock
        BY <1>0, <3>1 DEF Ledgers, Cycle!Row, Cycle!LedgerAgrees
      <3> QED BY <1>0, <2>1, <3>1
    <2> QED BY <2>3, <2>4, <2>5
          DEF Cycle!CycleInv, Cycle!ThroughListed, Cycle!LedgerAgrees, Cycle!StepsAgree
  <1> QED BY <1>1, <1>2, <1>3, <1>4, <1>5, <1>6, <1>7, <1>8, <1>9, <1>10, <1>11, <1>12,
             <1>13, <1>14, <1>15, <1>16, <1>17, <1>18, <1>19 DEF Cycle!Next

LEMMA CycleInvHolds == MCSpec => [](InCycle => Cycle!CycleInv)
  <1>1. MCInit => (InCycle => Cycle!CycleInv)
    <2> SUFFICES ASSUME MCInit, InCycle PROVE Cycle!CycleInv
      OBVIOUS
    <2>1. Cycle!Init
      BY DEF MCInit, InCycle
    <2>2. /\ cycle = Cycle!Resting /\ cycleTold = Cycle!Untold /\ cycleClock = 0
          /\ cycleLedger = [p \in Cycle!Fleet |-> [d \in Cycle!Days |-> NoRow]]
          /\ used = [cycles |-> 0, others |-> 0]
      BY <2>1 DEF Cycle!Init
    <2>3. cycle \in CycleSet
      <3>1. PICK d \in Cycle!Days : d = 1
        BY CycleConstants
      <3>2. "idle" \in Cycle!Steps /\ {} \in SUBSET Cycle!Fleet
        BY DEF Cycle!Steps
      <3>3. cycle = [at |-> "idle", day |-> d, listed |-> FALSE, todo |-> {},
                     alerting |-> FALSE, failed |-> FALSE, red |-> FALSE]
        BY <2>2, <3>1 DEF Cycle!Resting
      <3> QED BY <3>2, <3>3 DEF CycleSet
    <2>4. cycleTold \in ToldSet /\ cycleTold.through = {} /\ cycleTold.sour = {} /\ cycle.at = "idle"
      BY <2>2 DEF Cycle!Untold, ToldSet, Cycle!Resting
    <2>5. cycleLedger \in Ledgers
          /\ \A p \in Cycle!Fleet, d \in Cycle!Days : cycleLedger[p][d] = NoRow
      BY <2>2 DEF Ledgers
    <2>6. used \in [cycles : 0 .. MaxCycles, others : 0 .. MaxOthers]
      <3>1. MaxCycles \in Nat /\ MaxOthers \in Nat
        BY ConstantsOfParts DEF Cycle!ConstantsOK
      <3> QED BY <2>2, <3>1
    <2>7. /\ plants \subseteq Cycle!Fleet /\ linked \subseteq Clients /\ barred \subseteq Clients
          /\ linked \subseteq plants /\ missing \subseteq Unset
      BY <2>1 DEF Cycle!Init, Cycle!Fleet
    <2>8. Cycle!TypeOK
      BY <2>2, <2>3, <2>4, <2>5, <2>6, <2>7, CycleConstants
         DEF Cycle!TypeOK, CycleSet, ToldSet, Ledgers
    <2> QED BY <2>4, <2>5, <2>8
          DEF Cycle!CycleInv, Cycle!ThroughListed, Cycle!LedgerAgrees, Cycle!StepsAgree
  <1>2. (InCycle => Cycle!CycleInv) /\ [MCNext]_vars => (InCycle => Cycle!CycleInv)'
    <2> SUFFICES ASSUME InCycle => Cycle!CycleInv, [MCNext]_vars, InCycle'
                 PROVE  Cycle!CycleInv'
      OBVIOUS
    <2>1. InCycle /\ Cycle!CycleInv
      BY PartKept DEF InCycle
    <2>2. CASE MCNext
      BY <2>1, <2>2, CycleSteps, CycleStep
    <2>3. CASE UNCHANGED vars
      BY <2>1, <2>3 DEF vars, Cycle!CycleInv, Cycle!TypeOK, Cycle!ThroughListed,
           Cycle!LedgerAgrees, Cycle!StepsAgree, Cycle!PipelinePlants, Cycle!OwnPlants,
           Cycle!ConnectedClients, Cycle!Fresh
    <2> QED BY <2>2, <2>3
  <1> QED BY <1>1, <1>2, PTL DEF MCSpec

\* What the ledger of the analysis says of a run, of a day and of the plant's health is
\* true, and a green cycle analysed its day for every plant and found none that was failed,
\* stuck or late (orchestration/runtime.py; alerts/operations.py; cloud_jobs.py,
\* run_daily_pipeline, run_operational_watchdog).
THEOREM OutcomesAreHonest == MCSpec => []OutcomeIsHonest
  <1>1. Cycle!CycleInv => Cycle!GreenIsHonest
    BY DEF Cycle!CycleInv, Cycle!StepsAgree, Cycle!GreenIsHonest
  <1>2. /\ InPipeline => Pipeline!PipelineInv
        /\ InCycle => Cycle!CycleInv
        => OutcomeIsHonest
    BY <1>1, LedgerIsHonest DEF OutcomeIsHonest
  <1> QED BY <1>2, PipelineInvHolds, CycleInvHolds, PTL

-----------------------------------------------------------------------------
(* The types of every part.                                                 *)

\* Every component keeps its state within its types, whatever is done in which order
\* (the tables and the in-memory state of the parts that MCOperations composes).
THEOREM OperationsTyped == MCSpec => []TypeOK
  <1>1. Outbox!Spec => []Outbox!TypeOK
    BY Outbox!TypesKept, ConstantsOfParts DEF Outbox!ConstantsOK
  <1>2. MCSpec /\ ~InOutbox => []~InOutbox
    BY PartStays, PTL DEF MCSpec
  <1>3. MCSpec => [](InOutbox => Outbox!TypeOK)
    BY <1>1, <1>2, OutboxBehaves, PTL
  <1>4. /\ Pipeline!PipelineInv => Pipeline!TypeOK
        /\ Daily!DailyInv => Daily!TypeOK
        /\ Pv!PvInv => Pv!TypeOK
        /\ Dash!DashInv => Dash!TypeOK
    BY DEF Pipeline!PipelineInv, Daily!DailyInv, Pv!PvInv, Dash!DashInv
  <1>5. /\ Alert!AlertInv => Alert!TypeOK
        /\ Anomaly!AnomalyInv => Anomaly!TypeOK
        /\ Tariff!TariffInv => Tariff!TypeOK
        /\ Cycle!CycleInv => Cycle!TypeOK
    BY DEF Alert!AlertInv, Anomaly!AnomalyInv, Tariff!TariffInv, Cycle!CycleInv
  <1>6. (Market!MarketInv => Market!TypeOK) /\ (Utility!UtilityInv => Utility!TypeOK)
    BY MarketTyped, UtilityTyped
  <1> QED BY <1>3, <1>4, <1>5, <1>6, PipelineInvHolds, DailyInvHolds, PvInvHolds, DashInvHolds,
             AlertInvHolds, AnomalyInvHolds, TariffInvHolds, MarketInvHolds, CycleInvHolds,
             UtilityInvHolds, PTL DEF TypeOK

=============================================================================
