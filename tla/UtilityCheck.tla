----------------------------- MODULE UtilityCheck -----------------------------
(***************************************************************************)
(* Is the utility keeping credits back, and is a larger plant worth while?    *)
(* Both are answered from what is stored: confirmed bills and the snapshots   *)
(* of their cycles.  Utility and house are the environment: a bill is issued  *)
(* for each month, sometimes again, and is uploaded late, out of order or     *)
(* never; of some the optional lines are only read later.  Energy is in kWh.  *)
(***************************************************************************)
EXTENDS Integers, TLC, SequencesExt

CONSTANTS
    Kinds,          \* what a month can be: sent, home, imported, lost, given, expiring,
                    \* over, missed, unread, faulty
    BillingMonths, MaxReissues, \* bounds
    Cycles,         \* WINDOW_CYCLES: 12
    MinHistory,     \* MIN_HISTORY_CYCLES: 3
    Drop,           \* EXPORT_SHARE_DROP_PP: 20
    Absent          \* no value

VARIABLES
    issued,         \* the utility's bills, and what really happened in their months
    reading,        \* of each bill: "none", "bare" without the optional lines, "full"
    snapped,        \* month -> its bills with a snapshot, oldest snapshot first
    credited        \* corrections of older bills the next month receives

vars == <<issued, reading, snapped, credited>>

Months == 1 .. BillingMonths
Init ==
    /\ issued = <<>> /\ reading = <<>>
    /\ snapped = [m \in Months |-> <<>>]
    /\ credited = 0

-----------------------------------------------------------------------------
(* Environment.                                                              *)

Latest(m) == Max({b \in DOMAIN issued : issued[b].month = m} \cup {0})
LastBilled == IF issued = <<>> THEN 0 ELSE Max({issued[b].month : b \in DOMAIN issued})

\* The credits about to expire that are not used, are lost first.
Expires(start, used) ==
    IF start = 0 THEN 0 ELSE Max({0, issued[start].expiring - used})

IssueBill(kind) ==
    LET start == Latest(LastBilled)
        gen == kind.sent + kind.over
        balance == IF start = 0 THEN 0 ELSE issued[start].balance
        used == Min({kind.imported, balance + gen})
        expired == Min({Expires(start, used), balance + gen - used})
        left == balance + gen - used - expired + credited
        given == Min({kind.given, left})
        lost == Min({kind.lost, left - given})
    IN
    /\ LastBilled < BillingMonths
    /\ issued' = Append(issued,
        [month |-> LastBilled + 1, gen |-> gen, used |-> used, imported |-> kind.imported,
         balance |-> left - given - lost,
         expiring |-> Min({kind.expiring, left - given - lost}),
         share |-> IF kind.given = 0 THEN 100 ELSE 50,
         production |-> kind.sent + kind.home - kind.missed,
         estimated |-> kind.missed > 0, unread |-> kind.unread, faulty |-> kind.faulty,
         from |-> start, sent |-> kind.sent, lost |-> lost, given |-> given,
         received |-> credited])
    /\ reading' = Append(reading, "none")
    /\ credited' = 0
    /\ UNCHANGED snapped

\* A month is billed again, with the credits it had lost.
Reissue(b) ==
    LET lost == issued[b].lost IN
    /\ b \in DOMAIN issued /\ lost > 0 /\ b = Latest(issued[b].month)
    /\ Len(issued) < LastBilled + MaxReissues
    /\ issued' = Append(issued, [issued[b] EXCEPT !.balance = @ + lost, !.lost = 0])
    /\ reading' = Append(reading, "none")
    /\ credited' = IF issued[b].month = LastBilled THEN credited ELSE credited + lost
    /\ UNCHANGED snapped

Confirm(b) ==
    /\ b \in DOMAIN issued /\ reading[b] = "none"
    /\ reading' = [reading EXCEPT ![b] = IF issued[b].unread THEN "bare" ELSE "full"]
    /\ UNCHANGED <<issued, snapped, credited>>

\* completion.py: a field the stored bill lacks is filled from its PDF.
Complete(b) ==
    /\ b \in DOMAIN issued /\ reading[b] = "bare"
    /\ reading' = [reading EXCEPT ![b] = "full"]
    /\ UNCHANGED <<issued, snapped, credited>>

Snapshot(b) ==
    LET m == issued[b].month IN
    /\ b \in DOMAIN issued /\ reading[b] # "none" /\ ~Contains(snapped[m], b)
    /\ snapped' = [snapped EXCEPT ![m] = Append(@, b)]
    /\ UNCHANGED <<issued, reading, credited>>

Next ==
    \/ \E kind \in Kinds : IssueBill(kind)
    \/ \E b \in 1 .. BillingMonths + MaxReissues :
          Reissue(b) \/ Confirm(b) \/ Complete(b) \/ Snapshot(b)

Spec == Init /\ [][Next]_vars

-----------------------------------------------------------------------------
(* load_monthly_production_history and check_cycle.                          *)

Confirmed(b) == b \in DOMAIN reading /\ reading[b] # "none"
Bill(b) ==
    IF reading[b] = "full" THEN issued[b]
    ELSE [issued[b] EXCEPT !.gen = Absent, !.share = Absent, !.expiring = 0]

\* Bills of the month before: where the credits of the bill start from.
Candidates(b) ==
    {p \in DOMAIN issued : Confirmed(p) /\ issued[p].month = issued[b].month - 1}
Starts(b) == {[balance |-> Bill(p).balance, expiring |-> Bill(p).expiring] :
              p \in Candidates(b)}
\* Mutant of Checkable: a bill of the month before is as good as another.
CheckableFromAny(b) == Bill(b).gen # Absent /\ Starts(b) # {}
Checkable(b) == Bill(b).gen # Absent /\ Cardinality(Starts(b)) = 1

Gap(b) ==
    LET start == CHOOSE s \in Starts(b) : TRUE IN
    Bill(b).gen + start.balance - Bill(b).used - Bill(b).balance
\* Announced to expire, and not used: an older credit is used first.
Allowance(b) ==
    LET start == CHOOSE s \in Starts(b) : TRUE IN Max({0, start.expiring - Bill(b).used})

Missing(b) ==
    IF ~Checkable(b) \/ Gap(b) < 0 THEN Absent ELSE Max({0, Gap(b) - Allowance(b)})

\* The inverter's total cannot testify if days of it are missing.
Impossible(b) ==
    LET bill == Bill(b) IN
    /\ ~bill.estimated /\ bill.gen # Absent
    /\ bill.production > 0 /\ bill.gen * 100 > bill.production * 105

ExportShare(b) ==
    LET bill == Bill(b) IN
    IF bill.estimated \/ bill.gen = Absent \/ bill.production <= 0 THEN Absent
    ELSE (bill.gen * 100) \div bill.production

\* The k-th of the numbers of f.
Ranked(f, k) ==
    CHOOSE n \in Range(f) : /\ Cardinality({x \in DOMAIN f : f[x] < n}) < k
                            /\ k <= Cardinality({x \in DOMAIN f : f[x] <= n})
Median(f) ==
    LET n == Cardinality(DOMAIN f) IN (Ranked(f, (n + 1) \div 2) + Ranked(f, n \div 2 + 1)) \div 2
Dropped(b, shares) ==
    /\ ExportShare(b) # Absent /\ Cardinality(DOMAIN shares) >= MinHistory
    /\ ExportShare(b) < Median(shares) - Drop

Verdict(b, shares) ==
    IF Missing(b) # Absent /\ Missing(b) > 0 THEN "LOSS"
    ELSE IF Impossible(b) THEN "IMPOSSIBLE"
    ELSE IF Dropped(b, shares) THEN "SUSPECT"
    ELSE IF Missing(b) = 0 THEN "OK"
    ELSE "UNVERIFIABLE"

\* The cycles on the screen: the bills with a snapshot, each compared with those before.
Listed == UNION {Range(snapped[m]) : m \in Months}
Before(b) ==
    LET m == issued[b].month IN
    {c \in Listed : \/ issued[c].month < m
                    \/ \E k \in DOMAIN snapped[m], j \in DOMAIN snapped[m] :
                          j < k /\ snapped[m][j] = c /\ snapped[m][k] = b}
Shares(b) == [c \in {c \in Before(b) : ExportShare(c) # Absent} |-> ExportShare(c)]
History ==
    [b \in Listed |->
        LET verdict == Verdict(b, Shares(b)) IN
        [verdict |-> verdict, missing |-> Missing(b),
         lossConfirmed |-> verdict = "LOSS" /\ Bill(b).share = 100]]

-----------------------------------------------------------------------------
(* get_expansion_assessment and assess_expansion: of a month the newest       *)
(* snapshot counts, and of the months the last Cycles.                        *)

Newest(m) == Last(snapped[m])
Considered ==
    LET billed == {m \in Months : snapped[m] # <<>>} IN
    {m \in billed : Cardinality({n \in billed : n >= m}) <= Cycles}

\* Of the months that f is about, added up.
Sum(f) ==
    LET upto[m \in 0 .. BillingMonths] ==
            IF m = 0 THEN 0 ELSE upto[m - 1] + (IF m \in DOMAIN f THEN f[m] ELSE 0)
    IN  upto[BillingMonths]

\* Mutant of Total: the credits used stand for the energy sent.
TotalUsed(window, field) ==
    Sum([m \in window |-> Bill(Newest(m))[IF field = "gen" THEN "used" ELSE field]])
Total(window, field) == Sum([m \in window |-> Bill(Newest(m))[field]])

Assessment(window) ==
    LET bills == {Bill(Newest(m)) : m \in window}
        deficit == Total(window, "imported") - Total(window, "gen")
        tolerance == Total(window, "imported") \div 20
    IN
    IF \/ Cardinality(window) < Cycles
       \/ Max(window) - Min(window) # Cycles - 1
       \/ \E b \in bills : b.gen = Absent \/ b.share \notin {100, Absent}
       \/ Bill(Newest(Max(window))).share # 100
    THEN "INDISPONIVEL"
    ELSE IF \/ \E m \in window : History[Newest(m)].verdict \in {"LOSS", "IMPOSSIBLE"}
            \/ \E m \in window : m > Max(window) - 3 /\ Bill(Newest(m)).faulty
    THEN "CORRIGIR_ANTES"
    ELSE IF deficit < -tolerance THEN "NAO_VALE"
    ELSE IF deficit > tolerance THEN "AMPLIAR"
    ELSE "EQUILIBRADO"

-----------------------------------------------------------------------------
\* The bills, their readings and their snapshots belong together.
TypeOK ==
    /\ Len(reading) = Len(issued)
    /\ \A b \in DOMAIN issued : issued[b].balance >= 0 /\ reading[b] \in {"none", "bare", "full"}
    /\ \A m \in Months : /\ IsInjective(snapped[m])
                         /\ \A b \in Range(snapped[m]) : issued[b].month = m /\ Confirmed(b)
    /\ credited \in Nat

\* ADR-084: what the check says is missing is what the utility kept, to the kWh, with
\* the credits that went to other houses and less those it gave back; never a credit
\* that was used or expired as announced; "nunca sem prejuízo por omissão": where
\* this cannot be told it is not OK.  Only if the bill the month really started from
\* was never confirmed, or not read to the end, may the difference be another
\* (reports/utility_check.py, check_cycle; reports/history_service.py).
MissingIsExact ==
    \A b \in Listed :
        LET bill == issued[b]
            check == History[b]
        IN
        /\ check.missing = Absent => check.verdict \notin {"OK", "LOSS"}
        /\ check.missing # Absent /\ Confirmed(bill.from) /\ Bill(bill.from) = issued[bill.from] =>
            /\ check.missing = Max({0, bill.lost + bill.given - bill.received})
            /\ check.lossConfirmed => bill.lost > 0
        /\ check.verdict = "IMPOSSIBLE" => bill.gen > bill.sent

\* A larger plant is advised only if the house really took more from the grid than it
\* sent over the months of the window, without a gap; and is advised against only if it
\* did not, unless the meter counted too much in a month the inverter cannot testify
\* for: days of it are missing, it saw nothing produced, or it is within its tolerance
\* (intelligence/expansion.py, assess_expansion).
AdviceIsSound ==
    LET window == Considered
        advice == Assessment(window)
        sent == Sum([m \in window |-> issued[Newest(m)].sent])
        deficit == Total(window, "imported") - sent
        tolerance == Total(window, "imported") \div 20
    IN
    /\ advice = "AMPLIAR" =>
        /\ deficit > tolerance
        /\ window = Min(window) .. Min(window) + Cycles - 1
    /\ advice \in {"NAO_VALE", "EQUILIBRADO"} =>
        \/ deficit <= tolerance
        \/ \E m \in window :
              LET b == issued[Newest(m)] IN
              /\ b.gen > b.sent
              /\ b.estimated \/ b.production <= 0 \/ b.gen * 100 <= b.production * 105

-----------------------------------------------------------------------------
(* Why the check is right: the credits of a bill add up to the kWh.           *)

ConstantsOK ==
    /\ \A kind \in Kinds :
        /\ \A field \in {"sent", "home", "imported", "lost", "given", "expiring", "over", "missed"} :
            kind[field] \in Nat
        /\ kind.unread \in BOOLEAN /\ kind.faulty \in BOOLEAN
    /\ BillingMonths \in Nat /\ Cycles \in Nat \ {0} /\ Absent \notin Int

Issuable ==
    [month : Months, gen : Nat, used : Nat, imported : Nat, balance : Nat, expiring : Nat,
     share : {50, 100}, production : Int, estimated : BOOLEAN, unread : BOOLEAN,
     faulty : BOOLEAN, from : Nat, sent : Nat, lost : Nat, given : Nat, received : Nat]

\* What a bill has too little is what expired unused, was lost or went to another house.
AddsUp(b) ==
    /\ b.sent <= b.gen /\ b.expiring <= b.balance
    /\ b.share = 100 => b.given = 0
    /\ ~b.estimated => b.sent <= b.production
    /\ b.from <= Len(issued)
    /\ b.from # 0 =>
        /\ issued[b.from].month = b.month - 1
        /\ issued[b.from].balance + b.gen - b.used - b.balance
                = Max({0, issued[b.from].expiring - b.used}) + b.lost + b.given - b.received

UtilityInv ==
    /\ issued \in Seq(Issuable) /\ \A b \in Range(issued) : AddsUp(b)
    /\ reading \in Seq({"none", "bare", "full"}) /\ Len(reading) = Len(issued)
    /\ snapped \in [Months -> Seq(Nat)] /\ credited \in Nat
    /\ \A m \in Months : \A b \in Range(snapped[m]) : issued[b].month = m /\ Confirmed(b)
    /\ \A m \in Months : IsInjective(snapped[m])

=============================================================================
