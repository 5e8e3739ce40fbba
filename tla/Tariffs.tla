------------------------------- MODULE Tariffs -------------------------------
(***************************************************************************)
(* The tariffs of ANEEL's open base and the tariff of a billing cycle: a     *)
(* weekly job, one at a time, reads the whole base and adds what is new to    *)
(* distributor_tariffs.  A file holds the rows of the base the importer's     *)
(* filters keep; prices are small integers, dates are days.                   *)
(***************************************************************************)
EXTENDS Integers, FiniteSetsExt

CONSTANTS
    Files,          \* sets of [distributor, group, from, to, detail, value]
    Seed,           \* rows the migration leaves in the table
    Reference,      \* EQUATORIAL_GO
    Fewest,         \* distributors a whole base has: 20
    Since,          \* DEFAULT_SINCE
    Plausible,      \* _MIN_FULL .. _MAX_FULL
    LastDay,
    MaxImports,     \* bound
    Absent          \* no value

VARIABLES tariffs, report, imports

\* A row of the table, as its constraints have it: a period is not turned round.
IsRow(t) ==
    /\ t \in [distributor : {t.distributor}, class : {t.class}, from : Int, to : Int,
             full : Plausible, scee : {Absent} \cup 1 .. t.full]
    /\ t.from <= t.to

Key(p) == <<p.distributor, p.class>>
SameDays(p, q) == Key(p) = Key(q) /\ p.from <= q.to /\ q.from <= p.to

ConstantsOK ==
    /\ \A file \in Files :
           /\ IsFiniteSet(file)
           /\ \A r \in file : r.from \in Int /\ r.to \in Int /\ r.from <= r.to /\ r.value \in Int
    /\ \A t \in Seed : IsRow(t) /\ \A u \in Seed \ {t} : ~SameDays(t, u)
    /\ Plausible \subseteq Nat /\ MaxImports \in Nat /\ Absent \notin Int

vars == <<tariffs, report, imports>>

Nothing == [outcome |-> "none", periods |-> {}, told |-> {}]
Init == tariffs = Seed /\ report = Nothing /\ imports = 0

-----------------------------------------------------------------------------
(* parse_aneel.                                                              *)

\* _CLASS_MAP: one price of group B3 is that of three classes.
Classes(group) ==
    CASE group = "B1" -> {"B1_RESIDENCIAL"}
      [] group = "B2" -> {"B2_RURAL"}
      [] group = "B3" -> {"B3_COMERCIAL", "B3_INDUSTRIAL", "B3_PODER_PUBLICO"}
      [] OTHER -> {}

Entries(file) ==
    UNION {{[distributor |-> r.distributor, class |-> c, from |-> r.from, to |-> r.to,
             detail |-> r.detail, value |-> r.value] : c \in Classes(r.group)} :
           r \in {r \in file : r.to >= Since}}

Slot(p) == <<Key(p), p.from, p.to>>

Scee(entries, e) ==
    LET known == {s \in entries : Slot(s) = Slot(e) /\ s.detail = "SCEE"
                                  /\ 0 < s.value /\ s.value <= e.value}
    IN  IF known = {} THEN Absent ELSE (CHOOSE s \in known : TRUE).value

\* A period for each slot with a full tariff.
Periods(entries) ==
    {[distributor |-> e.distributor, class |-> e.class, from |-> e.from, to |-> e.to,
      full |-> e.value, scee |-> Scee(entries, e)] :
     e \in {e \in entries : e.detail = "full"}}

\* Keys the base contradicts itself on.
TwoValues(entries) ==
    {Key(e) : e \in {e \in entries : \E f \in entries :
        Slot(f) = Slot(e) /\ f.detail = e.detail /\ f.value # e.value}}
Overlapping(periods) ==
    {Key(p) : p \in {p \in periods : \E q \in periods \ {p} : SameDays(p, q)}}
Bad(entries) ==
    TwoValues(entries) \cup Overlapping(Periods(entries))
        \cup {Key(p) : p \in {p \in Periods(entries) : p.full \notin Plausible}}

\* _coalesce: periods that follow each other at the same prices are one.
Continues(p, q) ==
    /\ Key(q) = Key(p) /\ q.from = p.to + 1 /\ q.full = p.full /\ q.scee = p.scee
Coalesced(periods) ==
    LET Chain(p, q) ==
            /\ Key(q) = Key(p) /\ p.from <= q.from
            /\ \A r \in periods :
                Key(r) = Key(p) /\ p.from < r.from /\ r.from <= q.from
                    => \E before \in periods : Continues(before, r)
        First(p) == ~\E before \in periods : Continues(before, p)
        End(p) == Max({q.to : q \in {q \in periods : Chain(p, q)}})
    IN  {[p EXCEPT !.to = End(p)] : p \in {p \in periods : First(p)}}

Parse(file) ==
    LET entries == Entries(file) IN
    Coalesced({p \in Periods(entries) : Key(p) \notin Bad(entries)})

\* The base has lost its form: neither simulated nor written.
Incomplete(periods) ==
    LET distributors == {p.distributor : p \in periods} IN
    Reference \notin distributors \/ Cardinality(distributors) < Fewest

-----------------------------------------------------------------------------
(* upsert_periods.  The periods of a file share no day, so that what becomes  *)
(* of one does not depend on those before it.                                 *)

SameStart(p) == {t \in tariffs : Key(t) = Key(p) /\ t.from = p.from}

Diverges(p) ==
    \E t \in SameStart(p) :
        \/ t.full # p.full
        \/ t.scee # Absent /\ p.scee # Absent /\ t.scee # p.scee

\* Rows of other periods on the days the period would take.
Clash(p) ==
    IF SameStart(p) = {} THEN \E t \in tariffs : SameDays(t, p)
    ELSE \E t \in tariffs \ SameStart(p), old \in SameStart(p) :
            SameDays(t, [p EXCEPT !.from = old.to + 1])

Inserted(periods) == {p \in periods : SameStart(p) = {} /\ ~Clash(p)}
Extended(periods) ==
    {p \in periods : ~Clash(p) /\ \E t \in SameStart(p) : t.to < p.to}
Skipped(periods) ==
    {p \in periods : Clash(p) \/ \E t \in SameStart(p) : p.to < t.to}

\* Mutant of Lengthened: a shorter period of the base is taken over.
LengthenedToBase(t, periods) ==
    LET known == {p \in periods : t \in SameStart(p)} IN
    IF known = {} THEN t ELSE [t EXCEPT !.to = Max({p.to : p \in known})]

Lengthened(t, periods) ==
    LET longer == {p \in Extended(periods) : t \in SameStart(p)} IN
    IF longer = {} THEN t ELSE [t EXCEPT !.to = Max({p.to : p \in longer})]

Written(periods) == {Lengthened(t, periods) : t \in tariffs} \cup Inserted(periods)

\* _handle_import_tariffs: refused whole, compared, or written and committed.
Import(file, dryRun) ==
    LET periods == Parse(file)
        refused == Incomplete(periods) \/ \E p \in periods : Diverges(p)
    IN
    /\ imports < MaxImports
    /\ imports' = imports + 1
    /\ tariffs' = IF refused \/ dryRun THEN tariffs ELSE Written(periods)
    /\ report' = IF refused THEN [Nothing EXCEPT !.outcome = "refused"]
                 ELSE [outcome |-> IF dryRun THEN "compared" ELSE "written",
                       periods |-> periods, told |-> {Key(p) : p \in Skipped(periods)}]

Next ==
    \/ \E file \in Files, dryRun \in BOOLEAN : Import(file, dryRun)

Spec == Init /\ [][Next]_vars

-----------------------------------------------------------------------------
(* full_tariff_without_taxes, times the days of the cycle.                   *)

Covering(rows, key, d) == {t \in rows : Key(t) = key /\ t.from <= d /\ d <= t.to}

Total(price) == FoldSet(LAMBDA d, sum : price[d] + sum, 0, DOMAIN price)

CycleTariff(rows, key, start, end) ==
    LET days == (start + 1) .. (end + 1) IN
    IF \E d \in days : Cardinality(Covering(rows, key, d)) # 1 THEN Absent
    ELSE Total([d \in days |-> (CHOOSE t \in Covering(rows, key, d) : TRUE).full])

-----------------------------------------------------------------------------
Keys == {Key(t) : t \in tariffs}

\* Rows have the columns' types and a period is not turned round.
TypeOK ==
    /\ \A t \in tariffs : IsRow(t)
    /\ report.outcome \in {"none", "refused", "compared", "written"}
    /\ report.told \subseteq {Key(p) : p \in report.periods}
    /\ imports \in 0 .. MaxImports

\* ADR-088, "nunca dois valores no mesmo dia": whatever bases were imported one
\* after the other, a class has one tariff on a day (tariffs/aneel_import.py,
\* upsert_periods; the table's key only keeps two rows from starting on a day).
OneTariffADay == \A t, u \in tariffs : t # u => ~SameDays(t, u)

\* What an import wrote without a warning for the class is what the base says: each
\* day of its periods has the base's tariff (the job's report is read for its
\* warnings).
ToldOrTrue ==
    report.outcome = "written" =>
        \A p \in report.periods : Key(p) \in report.told \/
            \A d \in p.from .. p.to : {t.full : t \in Covering(tariffs, Key(p), d)} = {p.full}

\* The savings of a past cycle do not change under the owner: a cycle that has a
\* tariff keeps it, whatever ANEEL publishes later ("sem nunca reescrever tarifa em
\* silêncio").
CycleKeepsTariff ==
    \A key \in Keys, start \in 0 .. LastDay - 1 : \A end \in start .. LastDay - 1 :
        CycleTariff(tariffs, key, start, end) # Absent =>
            CycleTariff(tariffs', key, start, end) = CycleTariff(tariffs, key, start, end)
CyclesKeepTariff == [][CycleKeepsTariff]_vars

-----------------------------------------------------------------------------
(* Why they hold.                                                            *)

TariffInv == TypeOK /\ OneTariffADay /\ ToldOrTrue
=============================================================================
