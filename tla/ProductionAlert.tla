--------------------------- MODULE ProductionAlert ---------------------------
(***************************************************************************)
(* Whether the owner of a plant is told of a day that produced less than was  *)
(* expected, what the message says, and how often it is delivered: every call *)
(* of send_production_alert is a run, and reads what is stored as it goes.    *)
(* Energy and irradiation are small integers, ratios hundredths.              *)
(***************************************************************************)
EXTENDS Integers, Sequences, FiniteSetsExt

CONSTANTS
    Senders,        \* runs under way at a time
    Devices,        \* inverters of the plant
    LastDay,
    Outputs,        \* what an inverter may have produced on a day
    Skies,          \* climate of a day: [sun, clouds]
    Expectations,   \* expected_daily_production_kwh of a run
    Lookback,       \* RENDIMENTO_LOOKBACK_DAYS
    MinSample,      \* MINIMUM_RENDIMENTO_SAMPLE_DAYS, and of irradiation
    MaxStreak,      \* MAX_STREAK_LOOKBACK_DAYS
    MaxStarts, MaxRevisions,    \* bounds
    Absent          \* no row, or nothing in the column

VARIABLES
    today,
    energy,         \* of each day and inverter
    climate,
    ledger,         \* alert_deliveries: fingerprints
    run,
    told,           \* messages Telegram accepted
    excused,        \* fingerprints that may be delivered twice
    starts, revision

ConstantsOK ==
    /\ LastDay \in Nat /\ Lookback \in Nat /\ MinSample \in Nat \ {0}
    /\ MaxStreak \in Nat /\ MaxStreak >= 2
    /\ MaxStarts \in Nat /\ MaxRevisions \in Nat

vars == <<today, energy, climate, ledger, run, told, excused, starts, revision>>

Days == 1 .. LastDay
Unread == [i \in Devices |-> Absent]
Overcast == [sun |-> Absent, clouds |-> Absent]
Resting == [at |-> "idle"]

Init ==
    /\ today = 0 /\ energy = [d \in Days |-> Unread] /\ climate = [d \in Days |-> Overcast]
    /\ ledger = {} /\ run = [r \in Senders |-> Resting] /\ told = <<>> /\ excused = {}
    /\ starts = 0 /\ revision = 0

-----------------------------------------------------------------------------
(* What the stored rows say of a day.                                        *)

Sun(d) == climate[d].sun
Sunny(d) == Sun(d) # Absent /\ Sun(d) > 0
History(d) == {e \in Days : d - Lookback <= e /\ e < d}

Reporting(d) == {i \in Devices : energy[d][i] # Absent}
Total(row) == FoldSet(LAMBDA i, sum : row[i] + sum, 0, {i \in Devices : row[i] # Absent})
Output(d) == Total(energy[d])
Yield(kwh, d) == (100 * kwh) \div Sun(d)

\* statistics.median of a function.
Smallest(of, k) ==
    CHOOSE v \in {of[d] : d \in DOMAIN of} :
        /\ Cardinality({d \in DOMAIN of : of[d] < v}) < k
        /\ k <= Cardinality({d \in DOMAIN of : of[d] <= v})
Median(of) ==
    LET n == Cardinality(DOMAIN of) IN
    (Smallest(of, (n + 1) \div 2) + Smallest(of, n \div 2 + 1)) \div 2

\* Of too few days a median is not taken.
Enough(days) == Cardinality(days) >= MinSample

\* The days whose yield is compared with: of the plant, and of an inverter.
PlantDays(d) == {e \in History(d) : Reporting(e) # {} /\ Sunny(e)}
DeviceDays(i, d) == {e \in History(d) : energy[e][i] # Absent /\ Sunny(e)}
SunDays(d) == {e \in History(d) : Sun(e) # Absent}

PlantMedian(d) == Median([e \in PlantDays(d) |-> Yield(Output(e), e)])
DeviceMedian(i, d) == Median([e \in DeviceDays(i, d) |-> Yield(energy[e][i], e)])
SunMedian(d) == Median([e \in SunDays(d) |-> Sun(e)])

Standing(kwh, median, d) ==
    IF median = 0 THEN "unknown"
    ELSE IF 100 * Yield(kwh, d) < 85 * median THEN "dropped" ELSE "normal"

PlantStands(d) ==
    IF ~Sunny(d) \/ ~Enough(PlantDays(d)) THEN "unknown"
    ELSE Standing(Output(d), PlantMedian(d), d)
DeviceStands(i, d) ==
    IF energy[d][i] = Absent \/ ~Sunny(d) \/ ~Enough(DeviceDays(i, d)) THEN "unknown"
    ELSE Standing(energy[d][i], DeviceMedian(i, d), d)
Dropped(d) == {i \in Devices : DeviceStands(i, d) = "dropped"}

\* is_low_irradiation.
LowSun(d) ==
    /\ Sun(d) # Absent /\ Enough(SunDays(d)) /\ SunMedian(d) > 0
    /\ 100 * Sun(d) < 75 * SunMedian(d)

-----------------------------------------------------------------------------
(* The decision.                                                             *)

BelowExpected(d, expected) == expected > 0 /\ 100 * Output(d) < 85 * expected

NothingKnown(d) ==
    PlantStands(d) = "unknown" /\ \A i \in Devices : DeviceStands(i, d) = "unknown"

DeviceDropReason(d) ==
    IF Dropped(d) # {} /\ Dropped(d) # Devices THEN "REAL_DROP_SINGLE" ELSE "REAL_DROP_SET"

\* assess_production_alert.
Reason(d, expected) ==
    IF ~BelowExpected(d, expected) THEN "NONE"
    ELSE IF Dropped(d) # {} THEN DeviceDropReason(d)
    ELSE IF LowSun(d)
         THEN IF PlantStands(d) = "normal" THEN "NONE" ELSE "LOW_SUN_AND_LOW_YIELD"
    ELSE IF PlantStands(d) = "dropped" THEN DeviceDropReason(d)
    ELSE IF NothingKnown(d) THEN "UNEXPLAINED_LOW_PRODUCTION" ELSE "NONE"

Alerting(d, expected) == d \in Days /\ Reporting(d) # {} /\ Reason(d, expected) # "NONE"

\* _count_consecutive_alert_days, the day itself included.
Streak(d, expected) ==
    Cardinality({e \in Days : /\ e <= d /\ d - e < MaxStreak
                              /\ \A f \in e .. d : Alerting(f, expected)})

-----------------------------------------------------------------------------
(* The message.                                                              *)

\* _climate_lines: clouds are told of only where the sun does not contradict them.
ClimateLine(d) ==
    LET clouds == climate[d].clouds IN
    IF Sun(d) = Absent THEN "none"
    ELSE IF LowSun(d) THEN "little sun"
    ELSE IF clouds = Absent THEN "normal sun"
    ELSE IF clouds > 60 THEN "normal sun, not the weather"
    ELSE IF clouds <= 20 THEN "clear" ELSE "partly cloudy"

PlantLine(d, reason) ==
    reason # "UNEXPLAINED_LOW_PRODUCTION" /\ PlantStands(d) = "dropped"

DeviceLine(i, d) ==
    IF energy[d][i] = Absent THEN "no data"
    ELSE IF DeviceStands(i, d) = "unknown" THEN "no history" ELSE DeviceStands(i, d)

\* The lines on the inverters close with what they mean taken together.
Verdict(d, reason) ==
    IF reason = "REAL_DROP_SINGLE" THEN "one dropped"
    ELSE IF Cardinality(Devices) = 1 THEN "the only one dropped" ELSE "all dropped"

Message(d, reason) ==
    LET drop == reason \in {"REAL_DROP_SET", "REAL_DROP_SINGLE"} IN
    [climate |-> ClimateLine(d),
     plant   |-> PlantLine(d, reason),
     devices |-> IF drop THEN {<<i, DeviceLine(i, d)>> : i \in Devices} ELSE {},
     verdict |-> IF drop THEN Verdict(d, reason) ELSE "none"]

\* Mutant of Stage: the day itself is not counted.
StageBefore(streak) == IF streak > 2 THEN "escalated" ELSE "first"

Stage(streak) == IF streak >= 2 THEN "escalated" ELSE "first"

Fingerprint(m) == <<m.day, m.reason, m.stage>>

-----------------------------------------------------------------------------
(* Days pass, and what is stored of them is completed or corrected.           *)

NewDay(outputs, sky) ==
    /\ today < LastDay
    /\ today' = today + 1
    /\ energy' = [energy EXCEPT ![today + 1] = outputs]
    /\ climate' = [climate EXCEPT ![today + 1] = sky]
    /\ UNCHANGED <<ledger, run, told, excused, starts, revision>>

Correct(d, i, kwh) ==
    /\ revision < MaxRevisions /\ d <= today /\ energy[d][i] # kwh
    /\ energy' = [energy EXCEPT ![d][i] = kwh]
    /\ revision' = revision + 1
    /\ UNCHANGED <<today, climate, ledger, run, told, excused, starts>>

Observe(d, sky) ==
    /\ revision < MaxRevisions /\ d <= today /\ climate[d] # sky
    /\ climate' = [climate EXCEPT ![d] = sky]
    /\ revision' = revision + 1
    /\ UNCHANGED <<today, energy, ledger, run, told, excused, starts>>

-----------------------------------------------------------------------------
(* send_production_alert.                                                    *)

\* Gathered and assessed: without data, or without a reason, nothing follows.
Assess(r, d, expected) ==
    /\ run[r] = Resting /\ starts < MaxStarts /\ d <= today /\ Alerting(d, expected)
    /\ starts' = starts + 1
    /\ run' = [run EXCEPT ![r] =
           [at |-> "counting", day |-> d, expected |-> expected, reason |-> Reason(d, expected),
            says |-> Message(d, Reason(d, expected)), revision |-> revision]]
    /\ UNCHANGED <<today, energy, climate, ledger, told, excused, revision>>

\* The streak is counted on what is stored by then; the message of a day that
\* is no longer one of it cannot be rendered, and the run fails.
Count(r) ==
    /\ run[r].at = "counting"
    /\ LET m == run[r]
           n == Streak(m.day, m.expected)
       IN  run' = [run EXCEPT ![r] =
               IF n = 0 THEN Resting
               ELSE [at |-> "checking", day |-> m.day, expected |-> m.expected,
                     reason |-> m.reason, says |-> m.says, days |-> n, stage |-> Stage(n),
                     revision |-> m.revision, steady |-> m.revision = revision]]
    /\ UNCHANGED <<today, energy, climate, ledger, told, excused, starts, revision>>

InDispatch(r) == run[r].at \in {"sending", "marking"}

\* dispatch_production_alert.
Check(r) ==
    /\ run[r].at = "checking"
    /\ LET f == Fingerprint(run[r]) IN
          IF f \in ledger
          THEN run' = [run EXCEPT ![r] = Resting] /\ UNCHANGED excused
          ELSE /\ run' = [run EXCEPT ![r].at = "sending"]
               /\ excused' = IF \E o \in Senders : InDispatch(o) /\ Fingerprint(run[o]) = f
                             THEN excused \cup {f} ELSE excused
    /\ UNCHANGED <<today, energy, climate, ledger, told, starts, revision>>

\* What of a run is known of its message.
Said(m) ==
    [x \in {"day", "expected", "reason", "says", "days", "stage", "revision", "steady"} |-> m[x]]
Accepted(r) == told' = Append(told, Said(run[r]))

Send(r) ==
    /\ run[r].at = "sending"
    /\ Accepted(r)
    /\ run' = [run EXCEPT ![r].at = "marking"]
    /\ UNCHANGED <<today, energy, climate, ledger, excused, starts, revision>>

\* The answer of Telegram is lost: the provider raises.
SendLost(r) ==
    /\ run[r].at = "sending"
    /\ Accepted(r)
    /\ excused' = excused \cup {Fingerprint(run[r])}
    /\ run' = [run EXCEPT ![r] = Resting]
    /\ UNCHANGED <<today, energy, climate, ledger, starts, revision>>

\* mark_sent: an insert that does not mind the row; the caller commits.
Mark(r) ==
    /\ run[r].at = "marking"
    /\ ledger' = ledger \cup {Fingerprint(run[r])}
    /\ run' = [run EXCEPT ![r] = Resting]
    /\ UNCHANGED <<today, energy, climate, told, excused, starts, revision>>

\* Refused by Telegram, killed, or failed at a query or the commit.
Fail(r) ==
    /\ run[r] # Resting
    /\ excused' = IF run[r].at = "marking" THEN excused \cup {Fingerprint(run[r])} ELSE excused
    /\ run' = [run EXCEPT ![r] = Resting]
    /\ UNCHANGED <<today, energy, climate, ledger, told, starts, revision>>

Next ==
    \/ \E outputs \in [Devices -> Outputs \cup {Absent}], sky \in Skies : NewDay(outputs, sky)
    \/ \E d \in Days, i \in Devices, kwh \in Outputs : Correct(d, i, kwh)
    \/ \E d \in Days, sky \in Skies : Observe(d, sky)
    \/ \E r \in Senders, d \in Days, expected \in Expectations : Assess(r, d, expected)
    \/ \E r \in Senders :
          Count(r) \/ Check(r) \/ Send(r) \/ SendLost(r) \/ Mark(r) \/ Fail(r)

Spec == Init /\ [][Next]_vars

-----------------------------------------------------------------------------

TypeOK ==
    /\ today \in 0 .. LastDay /\ starts \in 0 .. MaxStarts /\ revision \in 0 .. MaxRevisions
    /\ \A d \in Days : energy[d] \in [Devices -> Outputs \cup {Absent}]
    /\ \A i \in DOMAIN told : told[i].day <= today /\ told[i].days \in 1 .. MaxStreak
    /\ ledger \subseteq {Fingerprint(told[i]) : i \in DOMAIN told}

\* "silence is not evidence that the day was fine": a day that missed its target
\* is left without an alert only if the yield of the plant is known to be normal,
\* whatever is missing of the climate, the history or the inverters, unless the
\* plant stood still on most days before (production_alert.py,
\* assess_production_alert).
SilenceHasEvidence ==
    \A d \in 1 .. today, expected \in Expectations :
        /\ Reporting(d) # {} /\ BelowExpected(d, expected) /\ ~Alerting(d, expected)
        => /\ PlantStands(d) = "normal" \/ (Enough(PlantDays(d)) /\ PlantMedian(d) = 0)
           /\ Dropped(d) = {}

\* One day, one message: a second one is the same again, after a delivery nobody
\* could confirm or beside another run (production_alert_dispatch.py); or it is
\* another one, because what is stored of the days or expected of them changed.
OneMessageADay ==
    \A m, n \in DOMAIN told :
        m < n /\ told[m].day = told[n].day =>
            \/ Fingerprint(told[m]) = Fingerprint(told[n]) /\ Fingerprint(told[m]) \in excused
            \/ /\ Fingerprint(told[m]) # Fingerprint(told[n])
               /\ \/ told[m].expected # told[n].expected
                  \/ ~told[m].steady \/ ~told[n].steady \/ told[m].revision # told[n].revision

\* Severity escalates: of two days in a row that were both told of, the second is
\* not told of as a first day, unless what they rest on changed in between.
SecondDayEscalates ==
    \A m, n \in DOMAIN told :
        /\ told[n].day = told[m].day + 1 /\ told[m].expected = told[n].expected
        /\ told[m].steady /\ told[n].steady /\ told[m].revision = told[n].revision
        => told[n].stage = "escalated"

-----------------------------------------------------------------------------
(* Why they hold.                                                            *)

\* A run is at rest, or has what its step needs.
RunOK(x) ==
    \/ x = Resting
    \/ x \in [at : {"counting"}, day : {x.day}, expected : {x.expected}, reason : {x.reason},
              says : {x.says}, revision : {x.revision}]
    \/ x \in [at : {"checking", "sending", "marking"}, day : {x.day}, expected : {x.expected},
              reason : {x.reason}, says : {x.says}, days : {x.days}, stage : {x.stage},
              revision : {x.revision}, steady : {x.steady}]

Shapes ==
    /\ run = [r \in Senders |-> run[r]] /\ \A r \in Senders : RunOK(run[r])
    /\ energy = [d \in Days |-> energy[d]]
    /\ climate = [d \in Days |-> climate[d]]
    /\ told \in Seq({told[i] : i \in DOMAIN told})

\* The messages that were accepted or may still be.
Spoken ==
    {told[i] : i \in DOMAIN told}
        \cup {Said(run[r]) : r \in {r \in Senders : run[r].at \in {"checking", "sending", "marking"}}}

\* A message says of its day what is stored of it as long as that is not corrected.
Grounded(m) ==
    /\ m.day \in 1 .. today /\ m.revision \in 0 .. revision
    /\ m.days \in 1 .. MaxStreak /\ m.stage = Stage(m.days)
    /\ m.steady /\ m.revision = revision =>
           /\ Alerting(m.day, m.expected) /\ m.reason = Reason(m.day, m.expected)
           /\ m.days = Streak(m.day, m.expected)
Assessed(r) ==
    run[r].at = "counting" =>
        /\ run[r].day \in 1 .. today /\ run[r].revision \in 0 .. revision
        /\ run[r].revision = revision =>
               /\ Alerting(run[r].day, run[r].expected)
               /\ run[r].reason = Reason(run[r].day, run[r].expected)

\* Messages that rest on the same rows agree.
Agree(m, n) ==
    m.steady /\ n.steady /\ m.revision = n.revision /\ m.expected = n.expected =>
        /\ m.day = n.day => m.reason = n.reason /\ m.days = n.days
        /\ n.day = m.day + 1 => n.days >= 2

\* Whether a message was delivered is known, unless it is excused.
DeliveriesKnown ==
    /\ \A r, o \in Senders :
           InDispatch(r) /\ InDispatch(o) /\ r # o /\ Fingerprint(run[r]) = Fingerprint(run[o])
               => Fingerprint(run[r]) \in excused
    /\ \A r \in Senders :
           InDispatch(r) /\ Fingerprint(run[r]) \in ledger => Fingerprint(run[r]) \in excused
    /\ \A i \in DOMAIN told :
           \/ Fingerprint(told[i]) \in ledger \cup excused
           \/ \E r \in Senders : /\ run[r].at = "marking"
                                 /\ Fingerprint(run[r]) = Fingerprint(told[i])
    /\ \A i, j \in DOMAIN told :
           i < j /\ Fingerprint(told[i]) = Fingerprint(told[j]) => Fingerprint(told[i]) \in excused
    /\ \A r \in Senders : run[r].at = "marking" =>
           \E i \in DOMAIN told : Fingerprint(told[i]) = Fingerprint(run[r])

AlertInv ==
    /\ TypeOK /\ Shapes
    /\ \A m \in Spoken : Grounded(m)
    /\ \A m, n \in Spoken : Agree(m, n)
    /\ \A r \in Senders : Assessed(r)
    /\ DeliveriesKnown
=============================================================================
