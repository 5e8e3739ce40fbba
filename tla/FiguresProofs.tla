------------------------------ MODULE FiguresProofs ------------------------------
(***************************************************************************)
(* Theorems about the composition, continued: the figures that are computed  *)
(* for the owner, of tariffs, of market indexes and of the utility's bills;  *)
(* for any finite instance and bounds.                                      *)
(***************************************************************************)
EXTENDS AnalysisProofs

-----------------------------------------------------------------------------
(* The tariffs of ANEEL's base: tariffs/aneel_import.py.                      *)

LEMMA TariffSteps == ASSUME InTariff, MCNext PROVE Tariff!Next
  <1>1. /\ ~InOutbox /\ ~InPipeline /\ ~InDaily /\ ~InPv /\ ~InDash /\ ~InAlert /\ ~InAnomaly
        /\ ~InMarket /\ ~InCycle /\ ~InUtility
    BY DEF InOutbox, InPipeline, InDaily, InPv, InDash, InAlert, InAnomaly, InTariff,
           InMarket, InCycle, InUtility
  <1> QED BY <1>1, ZenonT(60) DEF MCNext, Tariff!Next

\* What is assumed of the instance.
LEMMA TariffConstants ==
    /\ \A file \in Files :
           /\ IsFiniteSet(file)
           /\ \A r \in file : r.from \in Int /\ r.to \in Int /\ r.from <= r.to /\ r.value \in Int
    /\ \A t \in Seed : Tariff!IsRow(t) /\ \A u \in Seed \ {t} : ~Tariff!SameDays(t, u)
    /\ Plausible \subseteq Nat /\ MaxImports \in Nat /\ NoRow \notin Int
  BY ConstantsOfParts DEF Tariff!ConstantsOK, Tariff!IsFiniteSet, IsFiniteSet

\* Of a finite set of things with a number one has the largest.
LEMMA LatestIn ==
    ASSUME NEW S, IsFiniteSet(S), NEW f, \A x \in S : f[x] \in Int, NEW T \in SUBSET S, T # {}
    PROVE  \E m \in T : \A k \in T : f[k] <= f[m]
  <1> DEFINE Best(U) == \E m \in U : \A k \in U : f[k] <= f[m]
             Sizes == {n \in Nat : \E U \in SUBSET S : U # {} /\ Cardinality(U) = n /\ ~Best(U)}
             R == {ss \in Nat \X Nat : ss[1] < ss[2]}
  <1>1. IsWellFoundedOn(R, Nat)
    BY NatLessThanWellFounded DEF OpToRel
  <1> SUFFICES ASSUME ~Best(T) PROVE FALSE
    OBVIOUS
  <1>2. Sizes \subseteq Nat /\ Cardinality(T) \in Sizes
    <2>1. IsFiniteSet(T)
      BY FS_Subset
    <2>2. Cardinality(T) \in Nat
      BY <2>1, FS_CardinalityType
    <2> QED BY <2>2
  <1> HIDE DEF R
  <1>3. PICK n \in Sizes : \A k \in Sizes : <<k, n>> \notin R
    BY <1>1, <1>2, WFMin
  <1>4. PICK U \in SUBSET S : U # {} /\ Cardinality(U) = n /\ ~Best(U)
    BY <1>3
  <1>5. PICK x \in U : TRUE
    BY <1>4
  <1> DEFINE V == U \ {x}
  <1>6. n \in Nat /\ Cardinality(V) \in Nat /\ Cardinality(V) < n
    <2>1. IsFiniteSet(U)
      BY FS_Subset
    <2>2. IsFiniteSet(V) /\ Cardinality(V) = Cardinality(U) - 1
      BY <1>5, <2>1, FS_RemoveElement
    <2>3. Cardinality(V) \in Nat
      BY <2>2, FS_CardinalityType
    <2> HIDE DEF V
    <2> QED BY <1>2, <1>4, <2>2, <2>3
  <1>7. CASE V = {}
    <2>1. \A k \in U : f[k] <= f[x]
      <3>1. \A k \in U : k = x
        BY <1>7
      <3>2. f[x] \in Int
        BY <1>5
      <3> QED BY <3>1, <3>2
    <2> QED BY <1>4, <1>5, <2>1
  <1>8. CASE V # {}
    <2>1. Cardinality(V) \notin Sizes
      <3> HIDE DEF V, Sizes
      <3>1. <<Cardinality(V), n>> \in R
        BY <1>6 DEF R
      <3> QED BY <1>3, <3>1
    <2>2. V \in SUBSET S
      OBVIOUS
    <2>3. Best(V)
      <3> HIDE DEF V, Best
      <3> QED BY <1>6, <1>8, <2>1, <2>2
    <2>4. PICK m \in V : \A k \in V : f[k] <= f[m]
      BY <2>3
    <2>5. f[m] \in Int /\ f[x] \in Int /\ \A k \in U : k = x \/ k \in V
      BY <1>5, <2>4
    <2>6. CASE f[x] <= f[m]
      <3>1. \A k \in U : f[k] <= f[m]
        BY <2>4, <2>5, <2>6
      <3> QED BY <1>4, <2>4, <3>1
    <2>7. CASE f[m] <= f[x]
      <3>1. \A k \in U : f[k] <= f[x]
        <4> TAKE k \in U
        <4>1. CASE k = x
          BY <2>5, <4>1
        <4>2. CASE k \in V
          <5>1. f[k] \in Int /\ f[k] <= f[m]
            BY <2>4, <4>2
          <5> QED BY <2>5, <2>7, <5>1
        <4> QED BY <2>5, <4>1, <4>2
      <3> QED BY <1>4, <1>5, <3>1
    <2> QED BY <2>5, <2>6, <2>7
  <1> QED BY <1>7, <1>8

\* Of some ends in a base one is the last.
LEMMA LastEnd ==
    ASSUME NEW file \in Files, NEW T \in SUBSET {r.to : r \in file}, T # {}
    PROVE  /\ Tariff!Max(T) \in T /\ Tariff!Max(T) \in Int
           /\ \A k \in T : k \in Int /\ k <= Tariff!Max(T)
  <1> DEFINE f == [r \in file |-> r.to]
             U == {r \in file : r.to \in T}
  <1>1. IsFiniteSet(file) /\ \A r \in file : r.to \in Int
    BY TariffConstants
  <1>2. /\ U \in SUBSET file /\ U # {} /\ \A r \in file : f[r] = r.to /\ f[r] \in Int
        /\ \A k \in T : \E r \in U : k = f[r]
        /\ \A r \in U : f[r] \in T
    BY <1>1
  <1> HIDE DEF f, U
  <1>3. PICK m \in U : \A k \in U : f[k] <= f[m]
    BY <1>1, <1>2, LatestIn
  <1>4. f[m] \in T /\ \A k \in T : k \in Int /\ k <= f[m]
    BY <1>2, <1>3
  <1>5. \E x \in T : \A y \in T : x >= y
    BY <1>4
  <1>6. Tariff!Max(T) \in T /\ \A y \in T : Tariff!Max(T) >= y
    BY <1>5 DEF Tariff!Max
  <1> QED BY <1>4, <1>6

\* What is kept of a base.
Kept(file) ==
    {p \in Tariff!Periods(Tariff!Entries(file)) :
        Tariff!Key(p) \notin Tariff!Bad(Tariff!Entries(file))}

LEMMA KeptPeriods ==
    ASSUME NEW file \in Files
    PROVE  /\ \A p \in Kept(file) : Tariff!IsRow(p) /\ p.to \in {r.to : r \in file}
           /\ \A p, q \in Kept(file) : p # q => ~Tariff!SameDays(p, q)
  <1> DEFINE entries == Tariff!Entries(file)
             periods == Tariff!Periods(entries)
  <1>1. \A e \in entries : /\ e.from \in Int /\ e.to \in Int /\ e.from <= e.to /\ e.value \in Int
                           /\ e.to \in {r.to : r \in file}
    <2> TAKE e \in entries
    <2>1. PICK r \in file : \E c \in Tariff!Classes(r.group) :
              e = [distributor |-> r.distributor, class |-> c, from |-> r.from, to |-> r.to,
                   detail |-> r.detail, value |-> r.value]
      BY DEF Tariff!Entries
    <2>2. e.from = r.from /\ e.to = r.to /\ e.value = r.value
      BY <2>1
    <2> QED BY <2>2, TariffConstants
  <1>2. ASSUME NEW p \in Kept(file) PROVE Tariff!IsRow(p) /\ p.to \in {r.to : r \in file}
    <2>1. p \in periods /\ Tariff!Key(p) \notin Tariff!Bad(entries)
      BY DEF Kept
    <2>2. p.full \in Plausible
      BY <2>1 DEF Tariff!Bad
    <2>3. PICK e \in entries :
              p = [distributor |-> e.distributor, class |-> e.class, from |-> e.from, to |-> e.to,
                   full |-> e.value, scee |-> Tariff!Scee(entries, e)]
      BY <2>1 DEF Tariff!Periods
    <2> HIDE DEF entries
    <2> DEFINE s == Tariff!Scee(entries, e)
    <2>4. s = NoRow \/ s \in 1 .. e.value
      <3> DEFINE known == {x \in entries : Tariff!Slot(x) = Tariff!Slot(e) /\ x.detail = "SCEE"
                                           /\ 0 < x.value /\ x.value <= e.value}
      <3>1. s = IF known = {} THEN NoRow ELSE (CHOOSE x \in known : TRUE).value
        BY DEF Tariff!Scee
      <3>2. ASSUME known # {} PROVE s \in 1 .. e.value
        <4>1. PICK x \in known : s = x.value
          BY <3>1, <3>2
        <4>2. x.value \in Int /\ e.value \in Int /\ 0 < x.value /\ x.value <= e.value
          BY <1>1, <4>1
        <4> HIDE DEF s
        <4> QED BY <4>1, <4>2
      <3> QED BY <3>1, <3>2
    <2> HIDE DEF s
    <2>5. /\ p = [distributor |-> e.distributor, class |-> e.class, from |-> e.from, to |-> e.to,
                  full |-> e.value, scee |-> s]
          /\ e.from \in Int /\ e.to \in Int /\ e.from <= e.to /\ e.to \in {r.to : r \in file}
      BY <1>1, <2>3 DEF s
    <2>6. p.full = e.value /\ p.from = e.from /\ p.to = e.to
      BY <2>5
    <2>7. p \in [distributor : {p.distributor}, class : {p.class}, from : Int, to : Int,
                 full : Plausible, scee : {NoRow} \cup 1 .. p.full]
      BY <2>2, <2>4, <2>5, <2>6
    <2> QED BY <2>5, <2>6, <2>7 DEF Tariff!IsRow
  <1>3. ASSUME NEW p \in Kept(file), NEW q \in Kept(file), p # q PROVE ~Tariff!SameDays(p, q)
    <2>1. p \in periods /\ q \in periods \ {p} /\ Tariff!Key(p) \notin Tariff!Overlapping(periods)
      BY <1>3 DEF Kept, Tariff!Bad
    <2> QED BY <2>1 DEF Tariff!Overlapping
  <1> QED BY <1>2, <1>3

\* A row with another end.
LEMMA Stretched ==
    ASSUME NEW t, Tariff!IsRow(t), NEW end \in Int, t.to <= end
    PROVE  LET u == [t EXCEPT !.to = end] IN
           /\ Tariff!IsRow(u) /\ u.distributor = t.distributor /\ u.class = t.class
           /\ Tariff!Key(u) = Tariff!Key(t) /\ u.from = t.from /\ u.to = end
           /\ u.full = t.full /\ u.scee = t.scee
  <1> DEFINE u == [t EXCEPT !.to = end]
  <1>1. t \in [distributor : {t.distributor}, class : {t.class}, from : Int, to : Int,
               full : Plausible, scee : {NoRow} \cup 1 .. t.full] /\ t.from <= t.to
    BY DEF Tariff!IsRow
  <1>2. /\ u.distributor = t.distributor /\ u.class = t.class /\ u.from = t.from /\ u.to = end
        /\ u.full = t.full /\ u.scee = t.scee
        /\ u \in [distributor : {t.distributor}, class : {t.class}, from : Int, to : Int,
                  full : Plausible, scee : {NoRow} \cup 1 .. t.full]
    BY <1>1
  <1>3. t.from \in Int /\ t.to \in Int
    BY <1>1
  <1> HIDE DEF u
  <1>4. Tariff!IsRow(u)
    BY <1>1, <1>2, <1>3 DEF Tariff!IsRow
  <1> QED BY <1>2, <1>4 DEF u, Tariff!Key

\* Periods that follow each other are made one, which shares no day with another.
LEMMA Merged ==
    ASSUME NEW file \in Files
    PROVE  /\ \A c \in Tariff!Parse(file) : Tariff!IsRow(c)
           /\ \A c, e \in Tariff!Parse(file) : c # e => ~Tariff!SameDays(c, e)
  <1> DEFINE P == Kept(file)
             Follows(r) == \E before \in P : Tariff!Continues(before, r)
             Chain(p, q) ==
                 /\ Tariff!Key(q) = Tariff!Key(p) /\ p.from <= q.from
                 /\ \A r \in P : Tariff!Key(r) = Tariff!Key(p) /\ p.from < r.from /\ r.from <= q.from
                                     => Follows(r)
             Ends(p) == {q.to : q \in {q \in P : Chain(p, q)}}
             End(p) == Tariff!Max(Ends(p))
             First(p) == ~Follows(p)
  <1>1. Tariff!Parse(file) = {[p EXCEPT !.to = End(p)] : p \in {p \in P : First(p)}}
    BY DEF Tariff!Parse, Tariff!Coalesced, Kept
  <1>2. /\ \A p \in P : Tariff!IsRow(p) /\ p.to \in {r.to : r \in file}
        /\ \A p, q \in P : p # q => ~Tariff!SameDays(p, q)
    BY KeptPeriods
  <1>3. \A p \in P : p.from \in Int /\ p.to \in Int /\ p.from <= p.to
    BY <1>2 DEF Tariff!IsRow
  <1> HIDE DEF P, Follows
  <1>4. ASSUME NEW p \in P
        PROVE  /\ End(p) \in Int /\ p.to <= End(p)
               /\ \E q \in P : Chain(p, q) /\ End(p) = q.to
    <2>1. Chain(p, p)
      BY <1>3
    <2>2. p.to \in Ends(p)
      BY <2>1
    <2>3. Ends(p) \in SUBSET {r.to : r \in file}
      BY <1>2
    <2>4. End(p) \in Ends(p) /\ End(p) \in Int /\ p.to <= End(p)
      <3> HIDE DEF Ends
      <3> QED BY <2>2, <2>3, LastEnd
    <2> HIDE DEF Chain
    <2>5. \E q \in P : Chain(p, q) /\ End(p) = q.to
      BY <2>4
    <2> QED BY <2>4, <2>5
  <1>5. ASSUME NEW p \in P
        PROVE  LET u == [p EXCEPT !.to = End(p)] IN
               Tariff!IsRow(u) /\ Tariff!Key(u) = Tariff!Key(p) /\ u.from = p.from /\ u.to = End(p)
    <2>1. Tariff!IsRow(p) /\ End(p) \in Int /\ p.to <= End(p)
      BY <1>2, <1>4
    <2> HIDE DEF End
    <2> QED BY <2>1, Stretched
  \* What begins a chain later begins after the end of an earlier one.
  <1>6. ASSUME NEW p \in P, NEW q \in P, First(q), Tariff!Key(p) = Tariff!Key(q), p.from < q.from
        PROVE  End(p) < q.from
    <2>1. PICK l \in P : Chain(p, l) /\ End(p) = l.to
      BY <1>4
    <2>2. l.from < q.from
      <3>1. ~(q.from <= l.from)
        BY <1>6, <2>1
      <3> QED BY <1>3, <3>1
    <2>3. Tariff!Key(l) = Tariff!Key(q) /\ l # q
      BY <1>3, <1>6, <2>1, <2>2
    <2>4. ~Tariff!SameDays(l, q)
      BY <1>2, <2>3
    <2> HIDE DEF End
    <2>5. ~(l.from <= q.to /\ q.from <= l.to)
      BY <2>3, <2>4 DEF Tariff!SameDays
    <2> QED BY <1>3, <2>1, <2>2, <2>5
  <1>7. ASSUME NEW p \in P, NEW q \in P, First(p), First(q), p # q,
               Tariff!Key(p) = Tariff!Key(q)
        PROVE  ~(p.from <= End(q) /\ q.from <= End(p))
    <2>1. p.from # q.from
      <3>1. ~(p.from <= q.to /\ q.from <= p.to)
        BY <1>2, <1>7 DEF Tariff!SameDays
      <3> QED BY <1>3, <3>1
    <2>2. End(p) \in Int /\ End(q) \in Int
      BY <1>4
    <2> HIDE DEF First, End
    <2>3. CASE p.from < q.from
      <3>1. End(p) < q.from
        BY <1>6, <1>7, <2>3
      <3> QED BY <1>3, <2>2, <3>1
    <2>4. CASE q.from < p.from
      <3>1. End(q) < p.from
        BY <1>6, <1>7, <2>4
      <3> QED BY <1>3, <2>2, <3>1
    <2> QED BY <1>3, <2>1, <2>3, <2>4
  <1> HIDE DEF End, First
  <1>8. \A c \in Tariff!Parse(file) : \E p \in P : First(p) /\ c = [p EXCEPT !.to = End(p)]
    BY <1>1
  <1>9. ASSUME NEW c \in Tariff!Parse(file), NEW e \in Tariff!Parse(file), c # e
        PROVE  ~Tariff!SameDays(c, e)
    <2>1. PICK p \in P : First(p) /\ c = [p EXCEPT !.to = End(p)]
      BY <1>8
    <2>2. PICK q \in P : First(q) /\ e = [q EXCEPT !.to = End(q)]
      BY <1>8
    <2>3. /\ Tariff!Key(c) = Tariff!Key(p) /\ c.from = p.from /\ c.to = End(p)
          /\ Tariff!Key(e) = Tariff!Key(q) /\ e.from = q.from /\ e.to = End(q)
      BY <1>5, <2>1, <2>2
    <2>4. p # q
      BY <1>9, <2>1, <2>2
    <2>5. CASE Tariff!Key(p) = Tariff!Key(q)
      <3>1. ~(p.from <= End(q) /\ q.from <= End(p))
        BY <1>7, <2>1, <2>2, <2>4, <2>5
      <3> QED BY <2>3, <3>1 DEF Tariff!SameDays
    <2>6. CASE Tariff!Key(p) # Tariff!Key(q)
      BY <2>3, <2>6 DEF Tariff!SameDays
    <2> QED BY <2>5, <2>6
  <1> QED BY <1>5, <1>8, <1>9

-----------------------------------------------------------------------------
(* upsert_periods.                                                           *)

tariffs == s1
report == s2
imports == s3
USE DEF tariffs, report, imports

\* Rows that share no day and begin on the same one are the same.
LEMMA StartsOnce ==
    ASSUME NEW rows, \A t \in rows : Tariff!IsRow(t),
           \A t, u \in rows : t # u => ~Tariff!SameDays(t, u),
           NEW t \in rows, NEW u \in rows, Tariff!Key(t) = Tariff!Key(u), t.from = u.from
    PROVE  t = u
  <1>1. t.from \in Int /\ t.to \in Int /\ t.from <= t.to /\ u.to \in Int /\ u.from <= u.to
    BY DEF Tariff!IsRow
  <1>2. Tariff!SameDays(t, u)
    BY <1>1 DEF Tariff!SameDays
  <1> QED BY <1>2

\* What becomes of a row: it stays, or takes the end of the one period that extends it,
\* and reaches no other row.
LEMMA RowAfter ==
    ASSUME Tariff!TariffInv, NEW file \in Files, NEW t \in tariffs
    PROVE  LET periods == Tariff!Parse(file)
               u == Tariff!Lengthened(t, periods)
           IN  /\ Tariff!IsRow(u) /\ Tariff!Key(u) = Tariff!Key(t) /\ u.from = t.from
               /\ u.full = t.full /\ t.to <= u.to
               /\ u = t \/ \E p \in Tariff!Extended(periods) :
                               t \in Tariff!SameStart(p) /\ u.to = p.to /\ t.to < p.to
               /\ \A p \in Tariff!Extended(periods) : t \in Tariff!SameStart(p) => u.to = p.to
  <1> DEFINE periods == Tariff!Parse(file)
             u == Tariff!Lengthened(t, periods)
             longer == {p \in Tariff!Extended(periods) : t \in Tariff!SameStart(p)}
  <1>1. /\ \A p \in periods : Tariff!IsRow(p)
        /\ \A p, q \in periods : p # q => ~Tariff!SameDays(p, q)
    BY Merged
  <1>2. /\ \A x \in tariffs : Tariff!IsRow(x)
        /\ \A x, y \in tariffs : x # y => ~Tariff!SameDays(x, y)
    BY DEF Tariff!TariffInv, Tariff!TypeOK, Tariff!OneTariffADay
  <1>3. t.from \in Int /\ t.to \in Int /\ t.from <= t.to
    BY <1>2 DEF Tariff!IsRow
  <1> HIDE DEF periods
  <1>4. u = IF longer = {} THEN t ELSE [t EXCEPT !.to = Tariff!Max({p.to : p \in longer})]
    BY DEF Tariff!Lengthened
  <1>5. CASE longer = {}
    <2>1. u = t
      BY <1>4, <1>5
    <2>2. \A p \in Tariff!Extended(periods) : t \notin Tariff!SameStart(p)
      BY <1>5
    <2>3. Tariff!IsRow(t) /\ t.to <= t.to
      BY <1>2, <1>3
    <2> HIDE DEF u
    <2> QED BY <2>1, <2>2, <2>3 DEF u, periods
  <1>6. CASE longer # {}
    <2>1. PICK p \in longer : TRUE
      BY <1>6
    <2>2. /\ p \in periods /\ p \in Tariff!Extended(periods)
          /\ Tariff!Key(t) = Tariff!Key(p) /\ t.from = p.from
          /\ t \in Tariff!SameStart(p) /\ \E x \in Tariff!SameStart(p) : x.to < p.to
      BY <2>1 DEF Tariff!Extended, Tariff!SameStart
    <2>3. PICK x \in Tariff!SameStart(p) : x.to < p.to
      BY <2>2
    <2>4. x \in tariffs /\ Tariff!Key(x) = Tariff!Key(t) /\ x.from = t.from
      BY <2>2, <2>3 DEF Tariff!SameStart
    <2>5. x = t
      BY <1>2, <2>4, StartsOnce
    <2>6. \A q \in longer : q = p
      <3> TAKE q \in longer
      <3>1. q \in periods /\ Tariff!Key(q) = Tariff!Key(p) /\ q.from = p.from
        BY <2>2 DEF Tariff!Extended, Tariff!SameStart
      <3> QED BY <1>1, <2>2, <3>1, StartsOnce
    <2>7. {q.to : q \in longer} = {p.to}
      BY <2>1, <2>6
    <2>8. p.to \in Int
      BY <1>1, <2>2 DEF Tariff!IsRow
    <2> HIDE DEF longer
    <2>9. Tariff!Max({p.to}) = p.to
      <3>1. \E m \in {p.to} : \A k \in {p.to} : m >= k
        BY <2>8
      <3> QED BY <3>1 DEF Tariff!Max
    <2>10. u = [t EXCEPT !.to = p.to]
      BY <1>4, <1>6, <2>7, <2>9
    <2>11. t.to < p.to /\ t.to <= p.to
      BY <1>3, <2>3, <2>5, <2>8
    <2>12. /\ Tariff!IsRow(u) /\ Tariff!Key(u) = Tariff!Key(t) /\ u.from = t.from /\ u.to = p.to
           /\ u.full = t.full
      <3>1. Tariff!IsRow(t)
        BY <1>2
      <3> HIDE DEF u
      <3> QED BY <2>8, <2>10, <2>11, <3>1, Stretched
    <2>13. \A q \in Tariff!Extended(periods) : t \in Tariff!SameStart(q) => q = p
      BY <2>6 DEF longer
    <2> HIDE DEF u
    <2> QED BY <2>2, <2>11, <2>12, <2>13 DEF u, periods
  <1> QED BY <1>5, <1>6

\* No day gets a second tariff.
LEMMA WrittenRows ==
    ASSUME Tariff!TariffInv, NEW file \in Files
    PROVE  LET rows == Tariff!Written(Tariff!Parse(file)) IN
           /\ \A t \in rows : Tariff!IsRow(t)
           /\ \A t, u \in rows : t # u => ~Tariff!SameDays(t, u)
  <1> DEFINE periods == Tariff!Parse(file)
             L(t) == Tariff!Lengthened(t, periods)
             new == Tariff!Inserted(periods)
             Apart(t, u) == ~Tariff!SameDays(t, u)
  <1>1. /\ \A p \in periods : Tariff!IsRow(p)
        /\ \A p, q \in periods : p # q => ~Tariff!SameDays(p, q)
    BY Merged
  <1>2. /\ \A x \in tariffs : Tariff!IsRow(x)
        /\ \A x, y \in tariffs : x # y => ~Tariff!SameDays(x, y)
    BY DEF Tariff!TariffInv, Tariff!TypeOK, Tariff!OneTariffADay
  <1>3. \A t \in tariffs : /\ Tariff!IsRow(L(t)) /\ Tariff!Key(L(t)) = Tariff!Key(t)
                           /\ L(t).from = t.from /\ t.to <= L(t).to
                           /\ L(t) = t \/ \E p \in Tariff!Extended(periods) :
                                  t \in Tariff!SameStart(p) /\ L(t).to = p.to /\ t.to < p.to
    BY RowAfter
  <1>4. Tariff!Written(periods) = {L(t) : t \in tariffs} \cup new
    BY DEF Tariff!Written
  <1>5. \A p \in new : p \in periods /\ Tariff!SameStart(p) = {}
                       /\ \A t \in tariffs : ~Tariff!SameDays(t, p)
    BY DEF Tariff!Inserted, Tariff!Clash
  <1>6. \A t : Tariff!IsRow(t) => t.from \in Int /\ t.to \in Int /\ t.from <= t.to
    BY DEF Tariff!IsRow
  <1> HIDE DEF periods, L, new
  \* A row that is extended stops before the next one.
  <1>7. ASSUME NEW t \in tariffs, NEW u \in tariffs, Tariff!Key(t) = Tariff!Key(u),
               t.from < u.from
        PROVE  L(t).to < u.from
    <2>1. t # u /\ ~Tariff!SameDays(t, u)
      BY <1>2, <1>6, <1>7
    <2>2. /\ t.from \in Int /\ t.to \in Int /\ u.from \in Int /\ u.to \in Int
          /\ t.from <= t.to /\ u.from <= u.to
      BY <1>2, <1>6
    <2>3. t.to < u.from
      BY <1>7, <2>1, <2>2 DEF Tariff!SameDays
    <2>4. CASE L(t) = t
      BY <2>3, <2>4
    <2>5. ASSUME NEW p \in Tariff!Extended(periods), t \in Tariff!SameStart(p), L(t).to = p.to,
                 t.to < p.to
          PROVE  L(t).to < u.from
      <3>1. p \in periods /\ ~Tariff!Clash(p) /\ Tariff!Key(t) = Tariff!Key(p) /\ t.from = p.from
        BY <2>5 DEF Tariff!Extended, Tariff!SameStart
      <3>2. u \notin Tariff!SameStart(p)
        BY <1>7, <2>2, <3>1 DEF Tariff!SameStart
      <3>3. Tariff!IsRow(p) /\ p.to \in Int
        BY <1>1, <1>6, <3>1
      <3> DEFINE rest == [p EXCEPT !.from = t.to + 1]
      <3>4. rest.distributor = p.distributor /\ rest.class = p.class
            /\ rest.from = t.to + 1 /\ rest.to = p.to
        BY <3>3 DEF Tariff!IsRow
      <3>5. ~Tariff!SameDays(u, rest)
        BY <2>5, <3>1, <3>2 DEF Tariff!Clash
      <3> HIDE DEF rest
      <3>6. Tariff!Key(u) = Tariff!Key(rest)
        BY <1>7, <3>1, <3>4 DEF Tariff!Key
      <3>7. ~(u.from <= p.to /\ t.to + 1 <= u.to)
        BY <3>4, <3>5, <3>6 DEF Tariff!SameDays
      <3> QED BY <2>2, <2>3, <2>5, <3>3, <3>7
    <2> QED BY <1>3, <2>4, <2>5
  <1>8. ASSUME NEW t \in tariffs, NEW u \in tariffs, t # u PROVE Apart(L(t), L(u))
    <2>1. /\ t.from \in Int /\ t.to \in Int /\ u.from \in Int /\ u.to \in Int
          /\ t.from <= t.to /\ u.from <= u.to /\ ~Tariff!SameDays(t, u)
      BY <1>2, <1>6, <1>8
    <2>2. /\ Tariff!Key(L(t)) = Tariff!Key(t) /\ L(t).from = t.from /\ L(t).to \in Int
          /\ Tariff!Key(L(u)) = Tariff!Key(u) /\ L(u).from = u.from /\ L(u).to \in Int
      BY <1>3, <1>6
    <2>3. CASE Tariff!Key(t) # Tariff!Key(u)
      BY <2>2, <2>3 DEF Tariff!SameDays
    <2>4. CASE Tariff!Key(t) = Tariff!Key(u)
      <3>1. t.from < u.from \/ u.from < t.from
        BY <2>1, <2>4 DEF Tariff!SameDays
      <3>2. CASE t.from < u.from
        <4>1. L(t).to < u.from
          BY <1>7, <2>4, <3>2
        <4> QED BY <2>1, <2>2, <4>1 DEF Tariff!SameDays
      <3>3. CASE u.from < t.from
        <4>1. L(u).to < t.from
          BY <1>7, <2>4, <3>3
        <4> QED BY <2>1, <2>2, <4>1 DEF Tariff!SameDays
      <3> QED BY <3>1, <3>2, <3>3
    <2> QED BY <2>3, <2>4
  <1>9. ASSUME NEW t \in tariffs, NEW p \in new PROVE Apart(L(t), p) /\ Apart(p, L(t))
    <2>1. p \in periods /\ Tariff!SameStart(p) = {} /\ ~Tariff!SameDays(t, p)
      BY <1>5
    <2>2. /\ t.from \in Int /\ t.to \in Int /\ t.from <= t.to
          /\ p.from \in Int /\ p.to \in Int /\ p.from <= p.to
      BY <1>1, <1>2, <1>6, <2>1
    <2>3. Tariff!Key(L(t)) = Tariff!Key(t) /\ L(t).from = t.from /\ L(t).to \in Int
      BY <1>3, <1>6
    <2>4. CASE L(t) = t
      BY <2>1, <2>2, <2>4 DEF Tariff!SameDays
    <2>5. ASSUME NEW q \in Tariff!Extended(periods), t \in Tariff!SameStart(q), L(t).to = q.to
          PROVE  Apart(L(t), p) /\ Apart(p, L(t))
      <3>1. q \in periods /\ Tariff!Key(q) = Tariff!Key(t) /\ q.from = t.from
        BY <2>5 DEF Tariff!Extended, Tariff!SameStart
      <3>2. q # p
        BY <2>1, <2>5
      <3>3. ~Tariff!SameDays(q, p)
        BY <1>1, <2>1, <3>1, <3>2
      <3>4. q.from \in Int /\ q.to \in Int
        BY <1>1, <1>6, <3>1
      <3> QED BY <2>2, <2>3, <2>5, <3>1, <3>3, <3>4 DEF Tariff!SameDays
    <2> QED BY <1>3, <2>4, <2>5
  <1>10. \A p, q \in new : p # q => Apart(p, q)
    BY <1>1, <1>5
  <1>11. ASSUME NEW x \in Tariff!Written(periods), NEW y \in Tariff!Written(periods), x # y
         PROVE  Apart(x, y)
    <2> HIDE DEF Apart
    <2>1. CASE x \in new /\ y \in new
      BY <1>10, <1>11, <2>1
    <2>2. ASSUME NEW t \in tariffs, x = L(t), y \in new PROVE Apart(x, y)
      BY <1>9, <2>2
    <2>3. ASSUME NEW t \in tariffs, y = L(t), x \in new PROVE Apart(x, y)
      BY <1>9, <2>3
    <2>4. ASSUME NEW t \in tariffs, NEW u \in tariffs, x = L(t), y = L(u) PROVE Apart(x, y)
      BY <1>8, <1>11, <2>4
    <2> QED BY <1>4, <2>1, <2>2, <2>3, <2>4
  <1>12. \A x \in Tariff!Written(periods) : Tariff!IsRow(x)
    BY <1>1, <1>3, <1>4, <1>5
  <1> QED BY <1>11, <1>12 DEF periods

\* What an import takes over without a word has the base's tariff on its days.
LEMMA WrittenPeriod ==
    ASSUME Tariff!TariffInv, NEW file \in Files, NEW p \in Tariff!Parse(file),
           ~Tariff!Diverges(p), p \notin Tariff!Skipped(Tariff!Parse(file))
    PROVE  \E u \in Tariff!Written(Tariff!Parse(file)) :
               Tariff!Key(u) = Tariff!Key(p) /\ u.from = p.from /\ u.to = p.to /\ u.full = p.full
  <1> DEFINE periods == Tariff!Parse(file)
  <1>1. ~Tariff!Clash(p) /\ \A t \in Tariff!SameStart(p) : ~(p.to < t.to)
    BY DEF Tariff!Skipped
  <1>2. CASE Tariff!SameStart(p) = {}
    <2>1. p \in Tariff!Inserted(periods)
      BY <1>1, <1>2 DEF Tariff!Inserted
    <2>2. p \in Tariff!Written(periods)
      BY <2>1 DEF Tariff!Written
    <2> QED BY <2>2
  <1>3. CASE Tariff!SameStart(p) # {}
    <2>1. PICK t \in Tariff!SameStart(p) : TRUE
      BY <1>3
    <2>2. t \in tariffs /\ Tariff!Key(t) = Tariff!Key(p) /\ t.from = p.from /\ t.full = p.full
      BY <2>1 DEF Tariff!SameStart, Tariff!Diverges
    <2> DEFINE u == Tariff!Lengthened(t, periods)
    <2>3. /\ Tariff!Key(u) = Tariff!Key(t) /\ u.from = t.from /\ u.full = t.full
          /\ u = t \/ \E q \in Tariff!Extended(periods) :
                          t \in Tariff!SameStart(q) /\ u.to = q.to /\ t.to < q.to
          /\ \A q \in Tariff!Extended(periods) : t \in Tariff!SameStart(q) => u.to = q.to
      BY <2>2, RowAfter
    <2>4. u \in Tariff!Written(periods)
      BY <2>2 DEF Tariff!Written
    <2>5. Tariff!IsRow(t) /\ Tariff!IsRow(p)
      BY <2>2, Merged DEF Tariff!TariffInv, Tariff!TypeOK
    <2>6. t.to \in Int /\ p.to \in Int
      BY <2>5 DEF Tariff!IsRow
    <2> HIDE DEF u, periods
    <2>7. u.to = p.to
      <3>1. CASE p \in Tariff!Extended(periods)
        BY <2>1, <2>3, <3>1
      <3>2. CASE p \notin Tariff!Extended(periods)
        <4>1. ~(t.to < p.to)
          BY <1>1, <2>1, <3>2 DEF Tariff!Extended, periods
        <4>2. t.to = p.to
          BY <1>1, <2>1, <2>6, <4>1
        <4>3. ASSUME NEW q \in Tariff!Extended(periods), t \in Tariff!SameStart(q)
              PROVE  FALSE
          <5>1. q \in Tariff!Parse(file) /\ Tariff!Key(q) = Tariff!Key(p) /\ q.from = p.from
            BY <2>2, <4>3 DEF Tariff!Extended, Tariff!SameStart, periods
          <5>2. q = p
            BY <5>1, Merged, StartsOnce
          <5> QED BY <3>2, <4>3, <5>2
        <4> QED BY <2>3, <4>2, <4>3
      <3> QED BY <3>1, <3>2
    <2> QED BY <2>2, <2>3, <2>4, <2>7 DEF periods
  <1> QED BY <1>2, <1>3

\* Of rows that share no day at most one covers a day.
LEMMA OneCovers ==
    ASSUME NEW rows, \A t \in rows : Tariff!IsRow(t),
           \A t, u \in rows : t # u => ~Tariff!SameDays(t, u),
           NEW key, NEW d \in Int,
           NEW t \in Tariff!Covering(rows, key, d)
    PROVE  Tariff!Covering(rows, key, d) = {t}
  <1>1. ASSUME NEW u \in Tariff!Covering(rows, key, d) PROVE u = t
    <2>1. /\ t \in rows /\ Tariff!Key(t) = key /\ t.from <= d /\ d <= t.to
          /\ u \in rows /\ Tariff!Key(u) = key /\ u.from <= d /\ d <= u.to
      BY DEF Tariff!Covering
    <2>2. t.from \in Int /\ t.to \in Int /\ u.from \in Int /\ u.to \in Int
      BY <2>1 DEF Tariff!IsRow
    <2>3. Tariff!SameDays(t, u)
      BY <2>1, <2>2 DEF Tariff!SameDays
    <2> QED BY <2>1, <2>3
  <1> QED BY <1>1

\* If every row stays where it began, at its price and no shorter, a cycle with a
\* tariff keeps it.
LEMMA CycleKept ==
    ASSUME NEW old, \A t \in old : Tariff!IsRow(t),
           \A t, u \in old : t # u => ~Tariff!SameDays(t, u),
           NEW new, \A t \in new : Tariff!IsRow(t),
           \A t, u \in new : t # u => ~Tariff!SameDays(t, u),
           \A t \in old : \E u \in new : Tariff!Key(u) = Tariff!Key(t) /\ u.from = t.from
                                             /\ u.full = t.full /\ t.to <= u.to,
           NEW key, NEW start \in Int, NEW end \in Int,
           Tariff!CycleTariff(old, key, start, end) # NoRow
    PROVE  Tariff!CycleTariff(new, key, start, end) = Tariff!CycleTariff(old, key, start, end)
  <1> DEFINE days == (start + 1) .. (end + 1)
             Cover(rows, d) == Tariff!Covering(rows, key, d)
             Price(rows) == [d \in days |-> (CHOOSE t \in Cover(rows, d) : TRUE).full]
  <1>1. \A rows : Tariff!CycleTariff(rows, key, start, end) =
            IF \E d \in days : Tariff!Cardinality(Cover(rows, d)) # 1 THEN NoRow
            ELSE Tariff!Total(Price(rows))
    BY DEF Tariff!CycleTariff
  <1>2. \A d \in days : Tariff!Cardinality(Cover(old, d)) = 1
    BY <1>1
  <1>3. ASSUME NEW d \in days
        PROVE  /\ Tariff!Cardinality(Cover(new, d)) = 1
               /\ (CHOOSE t \in Cover(new, d) : TRUE).full = (CHOOSE t \in Cover(old, d) : TRUE).full
    <2>0. d \in Int
      OBVIOUS
    <2>1. Cover(old, d) # {}
      <3>1. Cardinality({}) = 0
        BY FS_EmptySet
      <3>2. Tariff!Cardinality({}) = 0
        BY <3>1 DEF Tariff!Cardinality, Cardinality
      <3> HIDE DEF Cover
      <3> QED BY <1>2, <3>2
    <2>2. PICK t \in Cover(old, d) : TRUE
      BY <2>1
    <2>3. Cover(old, d) = {t}
      BY <2>0, <2>2, OneCovers
    <2>4. t \in old /\ Tariff!Key(t) = key /\ t.from <= d /\ d <= t.to
      BY <2>2 DEF Tariff!Covering
    <2>5. PICK u \in new : Tariff!Key(u) = Tariff!Key(t) /\ u.from = t.from
                           /\ u.full = t.full /\ t.to <= u.to
      BY <2>4
    <2>6. t.to \in Int /\ u.to \in Int
      BY <2>4, <2>5 DEF Tariff!IsRow
    <2>7. u \in Cover(new, d)
      BY <2>0, <2>4, <2>5, <2>6 DEF Tariff!Covering
    <2>8. Cover(new, d) = {u}
      BY <2>0, <2>7, OneCovers
    <2>9. Tariff!Cardinality({u}) = 1
      <3>1. Cardinality({u}) = 1
        BY FS_Singleton
      <3> QED BY <3>1 DEF Tariff!Cardinality, Cardinality
    <2> HIDE DEF Cover
    <2> QED BY <2>3, <2>5, <2>8, <2>9
  <1>4. Price(new) = Price(old)
    <2> HIDE DEF Cover, days
    <2> QED BY <1>3
  <1> HIDE DEF Price, Cover, days
  <1> QED BY <1>1, <1>2, <1>3, <1>4

LEMMA TariffStep ==
    ASSUME Tariff!TariffInv, Tariff!Next \/ UNCHANGED vars
    PROVE  Tariff!TariffInv' /\ Tariff!CycleKeepsTariff
  <1>1. ASSUME NEW file \in Files, NEW dryRun \in BOOLEAN, Tariff!Import(file, dryRun)
        PROVE  Tariff!TariffInv' /\ Tariff!CycleKeepsTariff
    <2> DEFINE periods == Tariff!Parse(file)
               refused == Tariff!Incomplete(periods) \/ \E p \in periods : Tariff!Diverges(p)
               named == {Tariff!Key(p) : p \in Tariff!Skipped(periods)}
               outcome == IF dryRun THEN "compared" ELSE "written"
    <2>1. /\ imports < MaxImports /\ imports' = imports + 1
          /\ tariffs' = IF refused \/ dryRun THEN tariffs ELSE Tariff!Written(periods)
          /\ report' = IF refused THEN [Tariff!Nothing EXCEPT !.outcome = "refused"]
                       ELSE [outcome |-> outcome, periods |-> periods, told |-> named]
      BY <1>1 DEF Tariff!Import
    <2>2. /\ refused => report'.outcome = "refused" /\ report'.told = {}
          /\ ~refused => report'.outcome = outcome /\ report'.periods = periods
                         /\ report'.told = named
      BY <2>1 DEF Tariff!Nothing
    <2>3. named \subseteq {Tariff!Key(p) : p \in periods}
      BY DEF Tariff!Skipped
    <2>4. /\ \A t \in tariffs : Tariff!IsRow(t)
          /\ \A t, u \in tariffs : t # u => ~Tariff!SameDays(t, u)
      BY DEF Tariff!TariffInv, Tariff!TypeOK, Tariff!OneTariffADay
    <2> DEFINE W == Tariff!Written(periods)
    <2>5. /\ \A t \in W : Tariff!IsRow(t)
          /\ \A t, u \in W : t # u => ~Tariff!SameDays(t, u)
      BY WrittenRows
    <2>6. \A t \in tariffs : \E u \in W : Tariff!Key(u) = Tariff!Key(t) /\ u.from = t.from
                                             /\ u.full = t.full /\ t.to <= u.to
      BY RowAfter DEF Tariff!Written
    <2>7. ASSUME ~refused, NEW p \in periods, Tariff!Key(p) \notin named
          PROVE  \E u \in W : Tariff!Key(u) = Tariff!Key(p) /\ u.from = p.from /\ u.to = p.to
                              /\ u.full = p.full
      BY <2>7, WrittenPeriod
    <2>8. tariffs' = tariffs \/ tariffs' = W
      BY <2>1
    <2>9. /\ \A t \in tariffs' : Tariff!IsRow(t)
          /\ \A t, u \in tariffs' : t # u => ~Tariff!SameDays(t, u)
      <3> HIDE DEF W
      <3> QED BY <2>4, <2>5, <2>8
    <2>10. \A t \in tariffs : \E u \in tariffs' : Tariff!Key(u) = Tariff!Key(t) /\ u.from = t.from
                                             /\ u.full = t.full /\ t.to <= u.to
      <3>1. \A t \in tariffs : t.to <= t.to
        BY <2>4 DEF Tariff!IsRow
      <3> HIDE DEF W
      <3> QED BY <2>6, <2>8, <3>1
    <2> HIDE DEF periods, refused, named, W
    <2>11. Tariff!TypeOK'
      <3>1. imports' \in 0 .. MaxImports
        BY <2>1, TariffConstants DEF Tariff!TariffInv, Tariff!TypeOK
      <3>2. /\ report'.outcome \in {"none", "refused", "compared", "written"}
            /\ report'.told \subseteq {Tariff!Key(p) : p \in report'.periods}
        BY <2>2, <2>3
      <3> QED BY <2>9, <3>1, <3>2 DEF Tariff!TypeOK
    <2>12. Tariff!ToldOrTrue'
      <3> SUFFICES ASSUME report'.outcome = "written", NEW p \in report'.periods,
                          Tariff!Key(p) \notin report'.told, NEW d \in p.from .. p.to
                   PROVE  {t.full : t \in Tariff!Covering(tariffs', Tariff!Key(p), d)} = {p.full}
        BY DEF Tariff!ToldOrTrue
      <3>1. ~refused /\ ~dryRun
        BY <2>2
      <3>2. tariffs' = W /\ p \in periods /\ Tariff!Key(p) \notin named
        BY <2>1, <2>2, <3>1 DEF W
      <3>3. PICK u \in W : Tariff!Key(u) = Tariff!Key(p) /\ u.from = p.from /\ u.to = p.to
                           /\ u.full = p.full
        BY <2>7, <3>1, <3>2
      <3>4. u \in Tariff!Covering(W, Tariff!Key(p), d) /\ d \in Int
        <4>1. u.from \in Int /\ u.to \in Int
          BY <2>5, <3>3 DEF Tariff!IsRow
        <4> QED BY <3>3, <4>1 DEF Tariff!Covering
      <3>5. Tariff!Covering(W, Tariff!Key(p), d) = {u}
        BY <2>5, <3>4, OneCovers
      <3> QED BY <3>2, <3>3, <3>5
    <2>13. Tariff!OneTariffADay'
      BY <2>9 DEF Tariff!OneTariffADay
    <2>14. Tariff!CycleKeepsTariff
      <3> SUFFICES ASSUME NEW key \in Tariff!Keys, NEW start \in 0 .. LastTariffDay - 1,
                          NEW end \in start .. LastTariffDay - 1,
                          Tariff!CycleTariff(tariffs, key, start, end) # NoRow
                   PROVE  Tariff!CycleTariff(tariffs', key, start, end)
                              = Tariff!CycleTariff(tariffs, key, start, end)
        BY DEF Tariff!CycleKeepsTariff
      <3>1. start \in Int /\ end \in Int
        OBVIOUS
      <3> QED BY <2>4, <2>9, <2>10, <3>1, CycleKept
    <2> QED BY <2>11, <2>12, <2>13, <2>14 DEF Tariff!TariffInv
  <1>2. CASE UNCHANGED vars
    <2>1. UNCHANGED <<tariffs, report, imports>>
      BY <1>2 DEF vars
    <2> QED BY <2>1 DEF Tariff!TariffInv, Tariff!TypeOK, Tariff!OneTariffADay, Tariff!ToldOrTrue,
                        Tariff!CycleKeepsTariff
  <1> QED BY <1>1, <1>2 DEF Tariff!Next

LEMMA TariffInvHolds == MCSpec => [](InTariff => Tariff!TariffInv)
  <1>1. MCInit => (InTariff => Tariff!TariffInv)
    <2> SUFFICES ASSUME MCInit, InTariff PROVE Tariff!TariffInv
      OBVIOUS
    <2>1. tariffs = Seed /\ report = Tariff!Nothing /\ imports = 0
      BY DEF MCInit, InTariff, Tariff!Init
    <2> QED BY <2>1, TariffConstants DEF Tariff!TariffInv, Tariff!TypeOK, Tariff!OneTariffADay,
                                         Tariff!ToldOrTrue, Tariff!Nothing
  <1>2. (InTariff => Tariff!TariffInv) /\ [MCNext]_vars => (InTariff => Tariff!TariffInv)'
    <2> SUFFICES ASSUME InTariff => Tariff!TariffInv, [MCNext]_vars, InTariff'
                 PROVE  Tariff!TariffInv'
      OBVIOUS
    <2>1. InTariff
      BY PartKept DEF InTariff
    <2> QED BY <2>1, TariffSteps, TariffStep
  <1> QED BY <1>1, <1>2, PTL DEF MCSpec

\* A billing cycle that has a full tariff keeps it, whatever bases are imported later
\* (tariffs/aneel_import.py, upsert_periods; tariffs/service.py,
\* full_tariff_without_taxes).
THEOREM CyclesKeepTheirTariff == MCSpec => CyclesKeepTariff
  <1>1. (InTariff => Tariff!TariffInv) /\ [MCNext]_vars => [InTariff => Tariff!CycleKeepsTariff]_vars
    BY TariffSteps, TariffStep
  <1> QED BY <1>1, TariffInvHolds, PTL DEF MCSpec, CyclesKeepTariff

-----------------------------------------------------------------------------
(* The rates of the central bank: market/service.py.                         *)

\* The state by its names.
stored == s1
closed == s2
now == s3
lastAttempt == s4
request == s5
answered == s6
asked == s7
USE DEF stored, closed, now, lastAttempt, request, answered, asked

LEMMA MarketSteps == ASSUME InMarket, MCNext PROVE Market!Next
  <1>1. /\ ~InOutbox /\ ~InPipeline /\ ~InDaily /\ ~InPv /\ ~InDash /\ ~InAlert /\ ~InAnomaly
        /\ ~InTariff /\ ~InCycle /\ ~InUtility
    BY DEF InOutbox, InPipeline, InDaily, InPv, InDash, InAlert, InAnomaly, InTariff,
           InMarket, InCycle, InUtility
  <1> QED BY <1>1, ZenonT(60) DEF MCNext, Market!Next

\* What is assumed of the instance.
LEMMA MarketConstants ==
    /\ Indexes \in Seq(Market!Series) /\ Len(Indexes) \in Nat \ {0}
    /\ DOMAIN Indexes = 1 .. Len(Indexes)
    /\ \A k \in 1 .. Len(Indexes) : Indexes[k] \in Market!Series
    /\ \A j, k \in 1 .. Len(Indexes) : Indexes[j] = Indexes[k] => j = k
    /\ LastMonth \in Nat \ {0} /\ LastInterval \in Nat \ {0} /\ MaxRequests \in Nat
  <1>1. /\ Indexes \in Seq(Market!Series) /\ Indexes # <<>> /\ Market!IsInjective(Indexes)
        /\ LastMonth \in Nat \ {0} /\ LastInterval \in Nat \ {0} /\ MaxRequests \in Nat
    BY ConstantsOfParts DEF Market!ConstantsOK
  <1>2. Len(Indexes) \in Nat \ {0} /\ DOMAIN Indexes = 1 .. Len(Indexes)
    BY <1>1, EmptySeq, LenProperties
  <1>3. \A k \in 1 .. Len(Indexes) : Indexes[k] \in Market!Series
    BY <1>1, <1>2, ElementOfSeq
  <1>4. \A j, k \in 1 .. Len(Indexes) : Indexes[j] = Indexes[k] => j = k
    BY <1>1, <1>2 DEF Market!IsInjective
  <1> QED BY <1>1, <1>2, <1>3, <1>4

\* A request field by field.
RequestWith(at, q, step, known, own, fetched) ==
    [at |-> at, worker |-> q.worker, step |-> step, upto |-> q.upto, found |-> known,
     own |-> own, fetched |-> fetched]

LEMMA FieldsOf ==
    ASSUME NEW at, NEW q, NEW step, NEW known, NEW own, NEW fetched
    PROVE  LET n == RequestWith(at, q, step, known, own, fetched) IN
           /\ n.at = at /\ n.worker = q.worker /\ n.step = step /\ n.upto = q.upto
           /\ n.found = known /\ n.own = own /\ n.fetched = fetched
           /\ n = [at |-> n.at, worker |-> n.worker, step |-> n.step, upto |-> n.upto,
                   found |-> n.found, own |-> n.own, fetched |-> n.fetched]
  BY DEF RequestWith

\* The next series, or the end.
LEMMA HavingIs ==
    ASSUME NEW q, Market!Asking(q), NEW rates
    PROVE  Market!Having(q, rates) =
               RequestWith(IF q.step = Len(Indexes) THEN "commit" ELSE "read", q, q.step + 1,
                           [q.found EXCEPT ![Market!Index(q)] = rates], q.own, q.fetched)
  <1>1. PICK at, w, step, upto, known, own, fetched :
            q = [at |-> at, worker |-> w, step |-> step, upto |-> upto, found |-> known,
                 own |-> own, fetched |-> fetched]
    BY DEF Market!Asking
  <1>2. q.step = step /\ q.found = known /\ q.own = own /\ q.fetched = fetched
        /\ q.worker = w /\ q.upto = upto
    BY <1>1
  <1> DEFINE i == Market!Index(q)
  <1> HIDE DEF i
  <1>3. [q EXCEPT !.found[i] = rates, !.step = q.step + 1,
                  !.at = IF q.step = Len(Indexes) THEN "commit" ELSE "read"]
        = [at |-> IF q.step = Len(Indexes) THEN "commit" ELSE "read", worker |-> w,
           step |-> step + 1, upto |-> upto, found |-> [known EXCEPT ![i] = rates], own |-> own,
           fetched |-> fetched]
    <2> DEFINE h == IF q.step = Len(Indexes) THEN "commit" ELSE "read"
    <2>1. q \in [at : {at}, worker : {w}, step : {step}, upto : {upto}, found : {known},
                 own : {own}, fetched : {fetched}]
      BY <1>1
    <2> HIDE DEF h
    <2>2. [q EXCEPT !.found[i] = rates]
          = [at |-> at, worker |-> w, step |-> step, upto |-> upto,
             found |-> [known EXCEPT ![i] = rates], own |-> own, fetched |-> fetched]
      BY <2>1, <1>1
    <2> DEFINE F == [known EXCEPT ![i] = rates]
               b == [q EXCEPT !.found[i] = rates]
    <2> HIDE DEF F
    <2>3. b \in [at : {at}, worker : {w}, step : {step}, upto : {upto}, found : {F},
                 own : {own}, fetched : {fetched}]
      BY <2>2 DEF F
    <2> HIDE DEF b
    <2>4. [b EXCEPT !.step = q.step + 1]
          = [at |-> at, worker |-> w, step |-> q.step + 1, upto |-> upto, found |-> F,
             own |-> own, fetched |-> fetched]
      BY <2>3
    <2> DEFINE c == [b EXCEPT !.step = q.step + 1]
               n == q.step + 1
    <2>5. c \in [at : {at}, worker : {w}, step : {n}, upto : {upto}, found : {F},
                 own : {own}, fetched : {fetched}]
      <3> HIDE DEF n
      <3> QED BY <2>4 DEF n
    <2> HIDE DEF c
    <2>6. [c EXCEPT !.at = h]
          = [at |-> h, worker |-> w, step |-> n, upto |-> upto, found |-> F,
             own |-> own, fetched |-> fetched]
      <3> HIDE DEF n
      <3> QED BY <2>5
    <2> QED BY <1>2, <2>6 DEF b, c, h, n, F
  <1> QED BY <1>2, <1>3 DEF i, Market!Having, RequestWith

\* What is stored only grows: what a request has seen and inserted stays right.
LEMMA AskingKept ==
    ASSUME closed \in Nat, closed' \in Nat, closed <= closed', NEW q, Market!Asking(q),
           \A i \in Market!Series :
               /\ DOMAIN stored[i] \subseteq DOMAIN stored'[i]
               /\ \A m \in DOMAIN stored[i] : stored'[i][m] = stored[i][m]
               /\ DOMAIN q.own[i] \cap DOMAIN stored'[i] = {}
    PROVE  Market!Asking(q)'
  <1>1. 1 .. closed \subseteq 1 .. closed' /\ q.upto \in 1 .. closed'
    BY DEF Market!Asking
  <1>2. \A f : Market!Quoted(f) => Market!Quoted(f)'
    BY <1>1 DEF Market!Quoted
  <1>3. ASSUME NEW i \in Market!Series
        PROVE  /\ Market!Quoted(q.own[i])'
               /\ \A m \in DOMAIN q.found[i] :
                      m \in DOMAIN Market!Visible(q, i)' /\ q.found[i][m] = Market!Visible(q, i)'[m]
    <2>1. Market!Quoted(q.own[i])
      BY DEF Market!Asking
    <2>2. ASSUME NEW m \in DOMAIN q.found[i]
          PROVE  m \in DOMAIN Market!Visible(q, i)' /\ q.found[i][m] = Market!Visible(q, i)'[m]
      <3>1. m \in DOMAIN Market!Visible(q, i) /\ q.found[i][m] = Market!Visible(q, i)[m]
        BY DEF Market!Asking
      <3>2. CASE m \in DOMAIN stored[i]
        <4>1. q.found[i][m] = stored[i][m] /\ m \in DOMAIN stored'[i] /\ stored'[i][m] = stored[i][m]
          BY <3>1, <3>2 DEF Market!Visible, Market!With
        <4> QED BY <4>1 DEF Market!Visible, Market!With
      <3>3. CASE m \notin DOMAIN stored[i]
        <4>1. m \in DOMAIN q.own[i] /\ q.found[i][m] = q.own[i][m] /\ m \notin DOMAIN stored'[i]
          BY <3>1, <3>3 DEF Market!Visible, Market!With
        <4> QED BY <4>1 DEF Market!Visible, Market!With
      <3> QED BY <3>2, <3>3
    <2> QED BY <1>2, <2>1, <2>2
  <1>4. q.at = "insert" => Market!Quoted(q.fetched)'
    BY <1>2 DEF Market!Asking
  <1> QED BY <1>1, <1>3, <1>4 DEF Market!Asking

\* The months a request has inserted of a series.
Inserted(q, i) == IF q.at = "idle" THEN {} ELSE DOMAIN q.own[i]

\* One request goes on, and nothing else but the bookkeeping.
LEMMA AnswerMoves ==
    ASSUME Market!MarketInv, NEW r \in Requests, NEW n, request' = [request EXCEPT ![r] = n],
           n = Market!Resting \/ Market!Asking(n),
           \A s \in Requests \ {r} : \A i \in Market!Series :
               Inserted(n, i) \cap Market!Writing(s, i) = {},
           asked' \in 0 .. MaxRequests,
           DOMAIN lastAttempt' = Workers,
           \A w \in Workers : DOMAIN lastAttempt'[w] = Market!Series,
           \A w \in Workers, i \in Market!Series : lastAttempt'[w][i] \in 0 .. now,
           UNCHANGED <<stored, closed, now, answered>>
    PROVE  Market!MarketInv'
  <1>1. DOMAIN request' = Requests
        /\ \A s \in Requests : request'[s] = IF s = r THEN n ELSE request[s]
    BY DEF Market!MarketInv
  <1>2. closed \in Nat
    BY MarketConstants DEF Market!MarketInv, Market!Months
  <1>3. \A q : Market!Asking(q) => Market!Asking(q)'
    <2>1. ASSUME NEW q, Market!Asking(q) PROVE Market!Asking(q)'
      <3>1. \A i \in Market!Series : DOMAIN q.own[i] \cap DOMAIN stored'[i] = {}
        BY <2>1 DEF Market!Asking
      <3> QED BY <1>2, <2>1, <3>1, AskingKept
    <2> QED BY <2>1
  <1>4. ASSUME NEW q \in {request'[s] : s \in Requests}
        PROVE  q = Market!Resting \/ Market!Asking(q)'
    <2>1. q = n \/ q \in {request[s] : s \in Requests}
      BY <1>1
    <2> QED BY <1>3, <2>1 DEF Market!MarketInv
  <1>5. ASSUME NEW s \in Requests, NEW u \in Requests \ {s}, NEW i \in Market!Series
        PROVE  Market!Writing(s, i)' \cap Market!Writing(u, i)' = {}
    <2>1. /\ s # r => Market!Writing(s, i)' = Market!Writing(s, i)
          /\ u # r => Market!Writing(u, i)' = Market!Writing(u, i)
          /\ Market!Writing(r, i)' = Inserted(n, i)
      BY <1>1 DEF Market!Writing, Inserted
    <2>2. Market!Writing(s, i) \cap Market!Writing(u, i) = {}
      BY DEF Market!MarketInv
    <2> QED BY <2>1, <2>2
  <1>6. /\ \A i \in Market!Series : Market!Quoted(stored[i])'
        /\ Market!AnswersAreStored'
    BY DEF Market!MarketInv, Market!Quoted, Market!AnswersAreStored
  <1> QED BY <1>1, <1>4, <1>5, <1>6 DEF Market!MarketInv

\* A request on its way asks for a series.
LEMMA SeriesAsked ==
    ASSUME NEW q, Market!Asking(q), q.at # "commit"
    PROVE  /\ q.step \in 1 .. Len(Indexes) /\ Market!Index(q) = Indexes[q.step]
           /\ Market!Index(q) \in Market!Series /\ DOMAIN q.own[Market!Index(q)] = {}
  <1>1. q.step \in 1 .. Len(Indexes)
    BY MarketConstants DEF Market!Asking
  <1>2. q.step \in q.step .. Len(Indexes)
    BY <1>1, MarketConstants
  <1>3. DOMAIN q.own[Indexes[q.step]] = {}
    BY <1>2 DEF Market!Asking
  <1> QED BY <1>1, <1>3, MarketConstants DEF Market!Index

LEMMA FoundIsRight ==
    ASSUME NEW q, Market!Asking(q), q.at # "commit", NEW rates,
           \A m \in DOMAIN rates : /\ m \in DOMAIN Market!Visible(q, Market!Index(q))
                                   /\ rates[m] = Market!Visible(q, Market!Index(q))[m]
    PROVE  /\ Market!Asking(Market!Having(q, rates))
           /\ Market!Having(q, rates).own = q.own /\ Market!Having(q, rates).at # "idle"
  <1> DEFINE i == Market!Index(q)
             n == Market!Having(q, rates)
             F == [q.found EXCEPT ![i] = rates]
  <1>1. /\ q.step \in 1 .. Len(Indexes) /\ i \in Market!Series /\ Len(Indexes) \in Nat
    BY SeriesAsked, MarketConstants
  <1>2. n = RequestWith(IF q.step = Len(Indexes) THEN "commit" ELSE "read", q, q.step + 1, F,
                        q.own, q.fetched)
    BY HavingIs
  <1> HIDE DEF i, n, F
  <1>3. /\ n.at = (IF q.step = Len(Indexes) THEN "commit" ELSE "read") /\ n.worker = q.worker
        /\ n.step = q.step + 1 /\ n.upto = q.upto /\ n.found = F /\ n.own = q.own
        /\ n.fetched = q.fetched
        /\ n = [at |-> n.at, worker |-> n.worker, step |-> n.step, upto |-> n.upto,
                found |-> n.found, own |-> n.own, fetched |-> n.fetched]
    BY <1>2, FieldsOf
  <1>4. DOMAIN F = Market!Series /\ F[i] = rates
        /\ \A j \in Market!Series \ {i} : F[j] = q.found[j]
    BY <1>1 DEF F, Market!Asking
  <1>5. \A j \in Market!Series : Market!Visible(n, j) = Market!Visible(q, j)
    BY <1>3 DEF Market!Visible
  <1>6. ASSUME NEW j \in Market!Series, NEW m \in DOMAIN F[j]
        PROVE  m \in DOMAIN Market!Visible(n, j) /\ F[j][m] = Market!Visible(n, j)[m]
    <2>1. CASE j = i
      BY <1>4, <1>5, <2>1 DEF i
    <2>2. CASE j # i
      <3>1. F[j] = q.found[j]
        BY <1>4, <2>2
      <3> QED BY <1>5, <3>1 DEF Market!Asking
    <2> QED BY <2>1, <2>2
  <1>7. \A k \in n.step .. Len(Indexes) : DOMAIN n.own[Indexes[k]] = {}
    <2>1. ASSUME NEW k \in n.step .. Len(Indexes) PROVE k \in q.step .. Len(Indexes)
      BY <1>1, <1>3
    <2> QED BY <1>3, <2>1 DEF Market!Asking
  <1>8. /\ n.step \in 1 .. Len(Indexes) + 1 /\ n.at \in {"read", "fetch", "insert", "commit"}
        /\ n.at # "commit" => n.step <= Len(Indexes)
        /\ n.at # "insert" /\ n.at # "idle"
    BY <1>1, <1>3
  <1>9. /\ q.worker \in Workers /\ q.upto \in 1 .. closed /\ DOMAIN q.own = Market!Series
        /\ \A j \in Market!Series :
               Market!Quoted(q.own[j]) /\ DOMAIN q.own[j] \cap DOMAIN stored[j] = {}
    BY DEF Market!Asking
  <1>10. Market!Asking(n)
    BY <1>3, <1>4, <1>6, <1>7, <1>8, <1>9 DEF Market!Asking
  <1> QED BY <1>3, <1>8, <1>10 DEF n

\* What a request is now, of those at work.
LEMMA AtStep ==
    ASSUME Market!MarketInv, NEW r \in Requests, request[r].at # "idle"
    PROVE  Market!Asking(request[r])
  BY DEF Market!MarketInv, Market!Resting

\* A request that inserted nothing new is as much apart from the others as before.
LEMMA StillApart ==
    ASSUME Market!MarketInv, NEW r \in Requests, NEW n,
           n.at = "idle" \/ (request[r].at # "idle" /\ n.own = request[r].own)
    PROVE  \A s \in Requests \ {r} : \A i \in Market!Series :
               Inserted(n, i) \cap Market!Writing(s, i) = {}
  <1>1. \A i \in Market!Series : Inserted(n, i) = {} \/ Inserted(n, i) = Market!Writing(r, i)
    BY DEF Inserted, Market!Writing
  <1>2. \A s \in Requests \ {r} : \A i \in Market!Series :
            Market!Writing(r, i) \cap Market!Writing(s, i) = {}
    BY DEF Market!MarketInv
  <1> QED BY <1>1, <1>2

\* Nothing but requests is touched.
LEMMA OneGoesOn ==
    ASSUME Market!MarketInv, NEW r \in Requests, NEW n, request' = [request EXCEPT ![r] = n],
           n = Market!Resting \/ Market!Asking(n),
           \A s \in Requests \ {r} : \A i \in Market!Series :
               Inserted(n, i) \cap Market!Writing(s, i) = {},
           UNCHANGED <<stored, closed, now, lastAttempt, answered, asked>>
    PROVE  Market!MarketInv'
  <1>1. /\ asked' \in 0 .. MaxRequests /\ DOMAIN lastAttempt' = Workers
        /\ \A w \in Workers : DOMAIN lastAttempt'[w] = Market!Series
        /\ \A w \in Workers, i \in Market!Series : lastAttempt'[w][i] \in 0 .. now
    BY DEF Market!MarketInv
  <1> QED BY <1>1, AnswerMoves

LEMMA BeginKeeps ==
    ASSUME Market!MarketInv, NEW r \in Requests, NEW w \in Workers, Market!Begin(r, w)
    PROVE  Market!MarketInv'
  <1> DEFINE none == [m \in {} |-> NoRow]
             n == [at |-> "read", worker |-> w, step |-> 1, upto |-> closed,
                   found |-> Market!NoRates, own |-> Market!NoRates, fetched |-> none]
  <1>1. /\ request' = [request EXCEPT ![r] = n] /\ asked < MaxRequests /\ asked' = asked + 1
        /\ UNCHANGED <<stored, closed, now, lastAttempt, answered>>
    BY DEF Market!Begin
  <1>2. DOMAIN none = {}
    OBVIOUS
  <1>3. DOMAIN Market!NoRates = Market!Series
        /\ \A i \in Market!Series : DOMAIN Market!NoRates[i] = {}
    BY DEF Market!NoRates
  <1> HIDE DEF none
  <1>4. closed \in 1 .. closed /\ asked' \in 0 .. MaxRequests
    BY <1>1, MarketConstants DEF Market!MarketInv, Market!Months
  <1>5. /\ n.at = "read" /\ n.worker = w /\ n.step = 1 /\ n.upto = closed
        /\ n.found = Market!NoRates /\ n.own = Market!NoRates /\ n.fetched = none
        /\ n = [at |-> n.at, worker |-> n.worker, step |-> n.step, upto |-> n.upto,
                found |-> n.found, own |-> n.own, fetched |-> n.fetched]
    OBVIOUS
  <1> HIDE DEF n
  <1>6. \A k \in n.step .. Len(Indexes) : DOMAIN n.own[Indexes[k]] = {}
    BY <1>3, <1>5, MarketConstants
  <1>7. n.step \in 1 .. Len(Indexes) + 1 /\ n.step <= Len(Indexes)
    BY <1>5, MarketConstants
  <1>8. \A i \in Market!Series : /\ Market!Quoted(n.own[i]) /\ DOMAIN n.own[i] = {}
                                 /\ DOMAIN n.found[i] = {}
    BY <1>3, <1>5 DEF Market!Quoted
  <1>9. Market!Asking(n)
    BY <1>3, <1>4, <1>5, <1>6, <1>7, <1>8 DEF Market!Asking
  <1>10. \A i \in Market!Series : Inserted(n, i) = {}
    BY <1>8 DEF Inserted
  <1>11. /\ DOMAIN lastAttempt' = Workers
         /\ \A v \in Workers : DOMAIN lastAttempt'[v] = Market!Series
         /\ \A v \in Workers, i \in Market!Series : lastAttempt'[v][i] \in 0 .. now
    BY <1>1 DEF Market!MarketInv
  <1> QED BY <1>1, <1>4, <1>9, <1>10, <1>11, AnswerMoves

LEMMA FailKeepsRates ==
    ASSUME Market!MarketInv, NEW r \in Requests, Market!Fail(r)
    PROVE  Market!MarketInv'
  <1>1. /\ request' = [request EXCEPT ![r] = Market!Resting]
        /\ UNCHANGED <<stored, closed, now, lastAttempt, answered, asked>>
    BY DEF Market!Fail
  <1>2. Market!Resting.at = "idle"
    BY DEF Market!Resting
  <1> DEFINE n == Market!Resting
  <1> HIDE DEF n
  <1>3. \A s \in Requests \ {r} : \A i \in Market!Series :
            Inserted(n, i) \cap Market!Writing(s, i) = {}
    BY <1>2, StillApart DEF n
  <1> QED BY <1>1, <1>3, OneGoesOn DEF n

LEMMA FetchFailsKeeps ==
    ASSUME Market!MarketInv, NEW r \in Requests, Market!FetchFails(r)
    PROVE  Market!MarketInv'
  <1> DEFINE n == Market!Having(request[r], request[r].found[Market!Index(request[r])])
  <1>1. /\ request[r].at = "fetch" /\ request' = [request EXCEPT ![r] = n]
        /\ UNCHANGED <<stored, closed, now, lastAttempt, answered, asked>>
    BY DEF Market!FetchFails
  <1>2. PICK q : q = request[r]
    OBVIOUS
  <1>3. Market!Asking(q) /\ q.at # "commit"
    BY <1>1, <1>2, AtStep
  <1>4. Market!Asking(n) /\ n.own = q.own
    <2>1. Market!Index(q) \in Market!Series
      BY <1>3, SeriesAsked
    <2> DEFINE rates == q.found[Market!Index(q)]
    <2>2. \A m \in DOMAIN rates : /\ m \in DOMAIN Market!Visible(q, Market!Index(q))
                                  /\ rates[m] = Market!Visible(q, Market!Index(q))[m]
      BY <1>3, <2>1 DEF Market!Asking
    <2> HIDE DEF rates
    <2>3. Market!Asking(Market!Having(q, rates)) /\ Market!Having(q, rates).own = q.own
      BY <1>3, <2>2, FoundIsRight
    <2> QED BY <1>2, <2>3 DEF rates
  <1> HIDE DEF n
  <1>5. n.own = request[r].own /\ request[r].at # "idle"
    BY <1>1, <1>2, <1>4
  <1> QED BY <1>1, <1>4, <1>5, StillApart, OneGoesOn

\* A request in whose record a series, or what was fetched, and its progress are changed.
LEMMA Turned ==
    ASSUME NEW q, Market!Asking(q), NEW at, NEW F
    PROVE  [q EXCEPT !.found[Market!Index(q)] = F, !.at = at]
               = RequestWith(at, q, q.step, [q.found EXCEPT ![Market!Index(q)] = F], q.own,
                             q.fetched)
  <1>1. PICK x, w, step, upto, known, own, old :
            q = [at |-> x, worker |-> w, step |-> step, upto |-> upto, found |-> known,
                 own |-> own, fetched |-> old]
    BY DEF Market!Asking
  <1>2. q.step = step /\ q.found = known /\ q.own = own /\ q.fetched = old
        /\ q.worker = w /\ q.upto = upto
    BY <1>1
  <1>3. q \in [at : {x}, worker : {w}, step : {step}, upto : {upto}, found : {known},
               own : {own}, fetched : {old}]
    BY <1>1
  <1> DEFINE i == Market!Index(q)
             G == [known EXCEPT ![i] = F]
             b == [q EXCEPT !.found[i] = F]
  <1> HIDE DEF i, G
  <1>4. b = [at |-> x, worker |-> w, step |-> step, upto |-> upto, found |-> G,
             own |-> own, fetched |-> old]
    BY <1>1, <1>3 DEF G
  <1>5. b \in [at : {x}, worker : {w}, step : {step}, upto : {upto}, found : {G},
               own : {own}, fetched : {old}]
    BY <1>4
  <1> HIDE DEF b
  <1>6. [b EXCEPT !.at = at]
        = [at |-> at, worker |-> w, step |-> step, upto |-> upto, found |-> G,
           own |-> own, fetched |-> old]
    BY <1>5
  <1> QED BY <1>2, <1>6 DEF b, i, G, RequestWith

LEMMA Answered ==
    ASSUME NEW q, Market!Asking(q), NEW at, NEW fetched
    PROVE  [q EXCEPT !.at = at, !.fetched = fetched]
               = RequestWith(at, q, q.step, q.found, q.own, fetched)
  <1>1. PICK x, w, step, upto, known, own, old :
            q = [at |-> x, worker |-> w, step |-> step, upto |-> upto, found |-> known,
                 own |-> own, fetched |-> old]
    BY DEF Market!Asking
  <1>2. q.step = step /\ q.found = known /\ q.own = own /\ q.worker = w /\ q.upto = upto
    BY <1>1
  <1>3. q \in [at : {x}, worker : {w}, step : {step}, upto : {upto}, found : {known},
               own : {own}, fetched : {old}]
    BY <1>1
  <1> DEFINE a == [q EXCEPT !.at = at]
  <1>4. a = [at |-> at, worker |-> w, step |-> step, upto |-> upto, found |-> known,
             own |-> own, fetched |-> old]
    BY <1>1, <1>3
  <1>5. a \in [at : {at}, worker : {w}, step : {step}, upto : {upto}, found : {known},
               own : {own}, fetched : {old}]
    BY <1>4
  <1> HIDE DEF a
  <1>6. [a EXCEPT !.fetched = fetched]
        = [at |-> at, worker |-> w, step |-> step, upto |-> upto, found |-> known,
           own |-> own, fetched |-> fetched]
    BY <1>5
  <1> QED BY <1>2, <1>6 DEF a, RequestWith

LEMMA ReadKeeps ==
    ASSUME Market!MarketInv, NEW r \in Requests, Market!Read(r)
    PROVE  Market!MarketInv'
  <1>1. PICK q : q = request[r]
    OBVIOUS
  <1> DEFINE i == Market!Index(q)
             V == Market!Visible(q, i)
             known == Market!Restrict(V, Market!Wanted(q) \cap DOMAIN V)
             fetch == Allowed /\ Market!Wanted(q) \ DOMAIN known # {}
                      /\ lastAttempt[q.worker][i] < now
             n == IF fetch THEN [q EXCEPT !.found[i] = known, !.at = "fetch"]
                  ELSE Market!Having(q, known)
  <1>2. /\ q.at = "read" /\ request' = [request EXCEPT ![r] = n]
        /\ lastAttempt' = IF fetch THEN [lastAttempt EXCEPT ![q.worker][i] = now]
                          ELSE lastAttempt
        /\ UNCHANGED <<stored, closed, now, answered, asked>>
    BY <1>1 DEF Market!Read
  <1>3. Market!Asking(q) /\ q.at # "commit" /\ q.at # "idle" /\ q.worker \in Workers
    BY <1>1, <1>2, AtStep DEF Market!Asking
  <1>4. \A m \in DOMAIN known : m \in DOMAIN V /\ known[m] = V[m]
    BY DEF Market!Restrict
  <1> HIDE DEF V, known, fetch
  <1>5. Market!Asking(n) /\ n.own = q.own
    <2>1. CASE fetch
      <3> DEFINE F == [q.found EXCEPT ![i] = known]
                 e == RequestWith("fetch", q, q.step, F, q.own, q.fetched)
      <3>1. n = e
        BY <1>3, <2>1, Turned
      <3>2. i \in Market!Series /\ q.step <= Len(Indexes)
        BY <1>3, SeriesAsked, MarketConstants
      <3>3. /\ e.at = "fetch" /\ e.worker = q.worker /\ e.step = q.step /\ e.upto = q.upto
            /\ e.found = F /\ e.own = q.own /\ e.fetched = q.fetched
            /\ e = [at |-> e.at, worker |-> e.worker, step |-> e.step, upto |-> e.upto,
                    found |-> e.found, own |-> e.own, fetched |-> e.fetched]
        BY FieldsOf
      <3>4. DOMAIN F = Market!Series /\ F[i] = known
            /\ \A j \in Market!Series \ {i} : F[j] = q.found[j]
        BY <1>3, <3>2 DEF Market!Asking
      <3> HIDE DEF F, e, i
      <3>5. \A j \in Market!Series : Market!Visible(e, j) = Market!Visible(q, j)
        BY <3>3 DEF Market!Visible
      <3>6. ASSUME NEW j \in Market!Series, NEW m \in DOMAIN F[j]
            PROVE  m \in DOMAIN Market!Visible(e, j) /\ F[j][m] = Market!Visible(e, j)[m]
        <4>1. CASE j = i
          BY <1>4, <3>4, <3>5, <4>1 DEF V
        <4>2. CASE j # i
          <5>1. F[j] = q.found[j]
            BY <3>4, <4>2
          <5> QED BY <1>3, <3>5, <5>1 DEF Market!Asking
        <4> QED BY <4>1, <4>2
      <3>7. \A k \in e.step .. Len(Indexes) : DOMAIN e.own[Indexes[k]] = {}
        BY <1>3, <3>3 DEF Market!Asking
      <3>8. /\ q.worker \in Workers /\ q.upto \in 1 .. closed /\ DOMAIN q.own = Market!Series
            /\ q.step \in 1 .. Len(Indexes) + 1
            /\ \A j \in Market!Series :
                   Market!Quoted(q.own[j]) /\ DOMAIN q.own[j] \cap DOMAIN stored[j] = {}
        BY <1>3 DEF Market!Asking
      <3>9. Market!Asking(e)
        BY <3>2, <3>3, <3>4, <3>6, <3>7, <3>8 DEF Market!Asking
      <3> QED BY <3>1, <3>3, <3>9
    <2>2. CASE ~fetch
      BY <1>3, <1>4, <2>2, FoundIsRight DEF V
    <2> QED BY <2>1, <2>2
  <1> HIDE DEF n
  <1>6. \A s \in Requests \ {r} : \A j \in Market!Series :
            Inserted(n, j) \cap Market!Writing(s, j) = {}
    BY <1>1, <1>3, <1>5, StillApart
  <1>7. /\ asked' \in 0 .. MaxRequests /\ DOMAIN lastAttempt' = Workers
        /\ \A w \in Workers : DOMAIN lastAttempt'[w] = Market!Series
        /\ \A w \in Workers, j \in Market!Series : lastAttempt'[w][j] \in 0 .. now
    <2>1. /\ asked \in 0 .. MaxRequests /\ DOMAIN lastAttempt = Workers
          /\ \A w \in Workers : DOMAIN lastAttempt[w] = Market!Series
          /\ \A w \in Workers, j \in Market!Series : lastAttempt[w][j] \in 0 .. now
          /\ now \in 0 .. now
      BY MarketConstants DEF Market!MarketInv
    <2> QED BY <1>2, <1>3, <2>1
  <1> QED BY <1>2, <1>5, <1>6, <1>7, AnswerMoves

LEMMA FetchAnswersKeeps ==
    ASSUME Market!MarketInv, NEW r \in Requests, Market!FetchAnswers(r)
    PROVE  Market!MarketInv'
  <1>1. PICK q : q = request[r]
    OBVIOUS
  <1>2. PICK payload :
            /\ q.at = "fetch" /\ DOMAIN payload \subseteq Market!Months
            /\ Market!Range(payload) \subseteq PlausibleRates
            /\ request' = [request EXCEPT ![r] =
                  IF DOMAIN Market!Fetched(q, payload) = {}
                  THEN Market!Having(q, q.found[Market!Index(q)])
                  ELSE [q EXCEPT !.at = "insert", !.fetched = Market!Fetched(q, payload)]]
            /\ UNCHANGED <<stored, closed, now, lastAttempt, answered, asked>>
    BY <1>1 DEF Market!FetchAnswers
  <1> DEFINE i == Market!Index(q)
             got == Market!Fetched(q, payload)
             rates == q.found[i]
  <1>3. Market!Asking(q) /\ q.at # "commit" /\ q.at # "idle"
    BY <1>1, <1>2, AtStep
  <1>4. i \in Market!Series
    BY <1>3, SeriesAsked
  <1>5. Market!Quoted(got)
    <2>1. DOMAIN got \subseteq Market!Wanted(q) /\ \A m \in DOMAIN got : got[m] \in Market!Range(payload)
      BY DEF Market!Fetched, Market!Restrict, Market!Missing, Market!Range
    <2>2. q.upto \in 1 .. closed /\ closed \in Nat
      BY <1>3, MarketConstants DEF Market!Asking, Market!MarketInv, Market!Months
    <2>3. Market!Wanted(q) \subseteq 1 .. closed
      BY <2>2 DEF Market!Wanted
    <2> QED BY <1>2, <2>1, <2>3 DEF Market!Quoted
  <1> HIDE DEF got
  <1>6. CASE DOMAIN got = {}
    <2> DEFINE n == Market!Having(q, rates)
    <2>1. \A m \in DOMAIN rates : m \in DOMAIN Market!Visible(q, i) /\ rates[m] = Market!Visible(q, i)[m]
      BY <1>3, <1>4 DEF Market!Asking
    <2> HIDE DEF rates
    <2>2. Market!Asking(n) /\ n.own = q.own
      BY <1>3, <2>1, FoundIsRight
    <2> HIDE DEF n
    <2>3. request' = [request EXCEPT ![r] = n]
      BY <1>2, <1>6 DEF n, got, rates
    <2>4. n.own = request[r].own /\ request[r].at # "idle"
      BY <1>1, <1>3, <2>2
    <2> QED BY <1>2, <2>2, <2>3, <2>4, StillApart, OneGoesOn
  <1>7. CASE DOMAIN got # {}
    <2> DEFINE n == RequestWith("insert", q, q.step, q.found, q.own, got)
    <2>0. [q EXCEPT !.at = "insert", !.fetched = got] = n
      <3> HIDE DEF i, rates
      <3>1. [q EXCEPT !.at = "insert", !.fetched = got]
            = RequestWith("insert", q, q.step, q.found, q.own, got)
        BY <1>3, Answered
      <3> QED BY <3>1
    <2>1. request' = [request EXCEPT ![r] = n]
      <3> HIDE DEF n
      <3> QED BY <1>2, <1>7, <2>0 DEF got
    <2>2. /\ n.at = "insert" /\ n.worker = q.worker /\ n.step = q.step /\ n.upto = q.upto
          /\ n.found = q.found /\ n.own = q.own /\ n.fetched = got
          /\ n = [at |-> n.at, worker |-> n.worker, step |-> n.step, upto |-> n.upto,
                  found |-> n.found, own |-> n.own, fetched |-> n.fetched]
      BY FieldsOf
    <2> HIDE DEF n
    <2>3. \A j \in Market!Series : Market!Visible(n, j) = Market!Visible(q, j)
      BY <2>2 DEF Market!Visible
    <2>4. Market!Asking(n)
      <3>1. /\ q.worker \in Workers /\ q.upto \in 1 .. closed
            /\ q.step \in 1 .. Len(Indexes) + 1 /\ q.step <= Len(Indexes)
            /\ DOMAIN q.found = Market!Series /\ DOMAIN q.own = Market!Series
            /\ \A j \in Market!Series :
                   Market!Quoted(q.own[j]) /\ DOMAIN q.own[j] \cap DOMAIN stored[j] = {}
            /\ \A k \in q.step .. Len(Indexes) : DOMAIN q.own[Indexes[k]] = {}
        BY <1>3 DEF Market!Asking
      <3>2. \A j \in Market!Series : \A m \in DOMAIN q.found[j] :
                m \in DOMAIN Market!Visible(q, j) /\ q.found[j][m] = Market!Visible(q, j)[m]
        BY <1>3 DEF Market!Asking
      <3> QED BY <1>5, <2>2, <2>3, <3>1, <3>2 DEF Market!Asking
    <2>5. n.own = request[r].own /\ request[r].at # "idle"
      BY <1>1, <1>3, <2>2
    <2>6. \A s \in Requests \ {r} : \A j \in Market!Series :
              Inserted(n, j) \cap Market!Writing(s, j) = {}
      BY <2>5, StillApart
    <2> QED BY <1>2, <2>1, <2>4, <2>6, OneGoesOn
  <1> QED BY <1>6, <1>7

\* A month is inserted by nobody else, or read from what was committed.
LEMMA InsertKeepsRates ==
    ASSUME Market!MarketInv, NEW r \in Requests, Market!Insert(r)
    PROVE  Market!MarketInv'
  <1>1. PICK q : q = request[r]
    OBVIOUS
  <1> DEFINE i == Market!Index(q)
             new == DOMAIN q.fetched
             again == Market!Restrict(stored[i], Market!Wanted(q) \cap DOMAIN stored[i])
             more == Market!With(q.found[i], q.fetched)
  <1>2. /\ q.at = "insert" /\ \A s \in Requests \ {r} : Market!Writing(s, i) \cap new = {}
        /\ request' = [request EXCEPT ![r] =
              IF new \cap DOMAIN stored[i] # {} THEN Market!Having(q, again)
              ELSE [Market!Having(q, more) EXCEPT !.own[i] = q.fetched]]
        /\ UNCHANGED <<stored, closed, now, lastAttempt, answered, asked>>
    BY <1>1 DEF Market!Insert
  <1>3. Market!Asking(q) /\ q.at # "commit" /\ q.at # "idle"
    BY <1>1, <1>2, AtStep
  <1>4. i \in Market!Series /\ DOMAIN q.own[i] = {}
    BY <1>3, SeriesAsked
  <1>5. CASE new \cap DOMAIN stored[i] # {}
    <2> DEFINE n == Market!Having(q, again)
    <2>1. \A m \in DOMAIN again : m \in DOMAIN Market!Visible(q, i) /\ again[m] = Market!Visible(q, i)[m]
      BY DEF Market!Restrict, Market!Visible, Market!With
    <2> HIDE DEF again
    <2>2. Market!Asking(n) /\ n.own = q.own
      BY <1>3, <2>1, FoundIsRight
    <2> HIDE DEF n
    <2>3. request' = [request EXCEPT ![r] = n]
      BY <1>2, <1>5 DEF n, again
    <2>4. n.own = request[r].own /\ request[r].at # "idle"
      BY <1>1, <1>3, <2>2
    <2> QED BY <1>2, <2>2, <2>3, <2>4, StillApart, OneGoesOn
  <1>6. CASE new \cap DOMAIN stored[i] = {}
    <2> DEFINE F == [q.found EXCEPT ![i] = more]
               O == [q.own EXCEPT ![i] = q.fetched]
               at == IF q.step = Len(Indexes) THEN "commit" ELSE "read"
               n == RequestWith(at, q, q.step + 1, F, O, q.fetched)
    <2>1. [Market!Having(q, more) EXCEPT !.own[i] = q.fetched] = n
      <3> HIDE DEF more, i, at, F
      <3>1. Market!Having(q, more) = RequestWith(at, q, q.step + 1, F, q.own, q.fetched)
        BY <1>3, HavingIs DEF at, F, i
      <3> DEFINE k == q.step + 1
                 h == [at |-> at, worker |-> q.worker, step |-> k, upto |-> q.upto,
                       found |-> F, own |-> q.own, fetched |-> q.fetched]
      <3>2. Market!Having(q, more) = h
        BY <3>1 DEF RequestWith
      <3> HIDE DEF k
      <3>3. h \in [at : {at}, worker : {q.worker}, step : {k}, upto : {q.upto}, found : {F},
                   own : {q.own}, fetched : {q.fetched}] /\ h.own = q.own
        OBVIOUS
      <3>4. [h EXCEPT !.own[i] = q.fetched]
            = [at |-> at, worker |-> q.worker, step |-> k, upto |-> q.upto, found |-> F,
               own |-> [q.own EXCEPT ![i] = q.fetched], fetched |-> q.fetched]
        BY <3>3
      <3> QED BY <3>2, <3>4 DEF k, RequestWith
    <2>2. /\ n.at = at /\ n.worker = q.worker /\ n.step = q.step + 1 /\ n.upto = q.upto
          /\ n.found = F /\ n.own = O /\ n.fetched = q.fetched
          /\ n = [at |-> n.at, worker |-> n.worker, step |-> n.step, upto |-> n.upto,
                  found |-> n.found, own |-> n.own, fetched |-> n.fetched]
      BY FieldsOf
    <2>3. /\ DOMAIN F = Market!Series /\ F[i] = more
          /\ \A j \in Market!Series \ {i} : F[j] = q.found[j]
          /\ DOMAIN O = Market!Series /\ O[i] = q.fetched
          /\ \A j \in Market!Series \ {i} : O[j] = q.own[j]
      BY <1>3, <1>4 DEF Market!Asking
    <2>4. /\ q.worker \in Workers /\ q.upto \in 1 .. closed /\ Market!Quoted(q.fetched)
          /\ \A j \in Market!Series :
                 Market!Quoted(q.own[j]) /\ DOMAIN q.own[j] \cap DOMAIN stored[j] = {}
          /\ \A k \in q.step .. Len(Indexes) : DOMAIN q.own[Indexes[k]] = {}
          /\ \A j \in Market!Series : \A m \in DOMAIN q.found[j] :
                 m \in DOMAIN Market!Visible(q, j) /\ q.found[j][m] = Market!Visible(q, j)[m]
      BY <1>2, <1>3 DEF Market!Asking
    <2>5. request' = [request EXCEPT ![r] = n]
      BY <1>2, <1>6, <2>1
    <2>6. q.step \in 1 .. Len(Indexes) /\ i = Indexes[q.step] /\ Len(Indexes) \in Nat
      BY <1>3, SeriesAsked, MarketConstants
    <2> DEFINE sought == Market!Series
    <2>7. \A m \in DOMAIN more :
              m \in DOMAIN Market!With(stored[i], q.fetched)
              /\ more[m] = Market!With(stored[i], q.fetched)[m]
      <3>1. \A m \in DOMAIN q.found[i] : m \in DOMAIN stored[i] /\ q.found[i][m] = stored[i][m]
        BY <1>4, <2>4 DEF Market!Visible, Market!With
      <3> QED BY <1>6, <3>1 DEF Market!With
    <2> HIDE DEF n, F, O, at, more, new, i
    <2>8. ASSUME NEW j \in Market!Series, NEW m \in DOMAIN F[j]
          PROVE  m \in DOMAIN Market!Visible(n, j) /\ F[j][m] = Market!Visible(n, j)[m]
      <3>1. CASE j = i
        <4>1. Market!Visible(n, i) = Market!With(stored[i], q.fetched)
          BY <2>2, <2>3 DEF Market!Visible
        <4> QED BY <2>3, <2>7, <3>1, <4>1
      <3>2. CASE j # i
        <4>1. F[j] = q.found[j] /\ Market!Visible(n, j) = Market!Visible(q, j)
          BY <2>2, <2>3, <3>2 DEF Market!Visible
        <4> QED BY <2>4, <4>1
      <3> QED BY <3>1, <3>2
    <2>9. \A k \in n.step .. Len(Indexes) : DOMAIN n.own[Indexes[k]] = {}
      <3>1. ASSUME NEW k \in n.step .. Len(Indexes)
            PROVE  k \in q.step .. Len(Indexes) /\ k # q.step /\ k \in 1 .. Len(Indexes)
        BY <2>2, <2>6
      <3>2. \A k \in n.step .. Len(Indexes) : Indexes[k] # i /\ Indexes[k] \in Market!Series
        BY <2>6, <3>1, MarketConstants
      <3> QED BY <2>2, <2>3, <2>4, <3>1, <3>2
    <2>10. /\ n.step \in 1 .. Len(Indexes) + 1 /\ n.at \in {"read", "fetch", "insert", "commit"}
           /\ n.at # "commit" => n.step <= Len(Indexes)
           /\ n.at # "insert" /\ n.at # "idle"
      BY <2>2, <2>6 DEF at
    <2>11. \A j \in Market!Series :
               Market!Quoted(n.own[j]) /\ DOMAIN n.own[j] \cap DOMAIN stored[j] = {}
      BY <1>6, <2>2, <2>3, <2>4 DEF new
    <2>12. Market!Asking(n)
      BY <2>2, <2>3, <2>4, <2>8, <2>9, <2>10, <2>11 DEF Market!Asking
    <2>13. ASSUME NEW s \in Requests \ {r}, NEW j \in Market!Series
           PROVE  Inserted(n, j) \cap Market!Writing(s, j) = {}
      <3>1. Market!Writing(r, j) \cap Market!Writing(s, j) = {}
        BY DEF Market!MarketInv
      <3>2. Market!Writing(r, j) = DOMAIN q.own[j]
        BY <1>1, <1>3 DEF Market!Writing
      <3>3. j = i => Inserted(n, j) = new
        BY <2>2, <2>3, <2>10 DEF Inserted, new
      <3>4. j # i => Inserted(n, j) = DOMAIN q.own[j]
        BY <2>2, <2>3, <2>10 DEF Inserted
      <3> QED BY <1>2, <3>1, <3>2, <3>3, <3>4
    <2> QED BY <1>2, <2>5, <2>12, <2>13, OneGoesOn
  <1> QED BY <1>5, <1>6

\* What a request inserted becomes what everybody reads; nobody else has these months.
LEMMA CommitKeepsRates ==
    ASSUME Market!MarketInv, NEW r \in Requests, Market!Commit(r)
    PROVE  Market!MarketInv'
  <1>1. PICK q : q = request[r]
    OBVIOUS
  <1>2. /\ q.at = "commit"
        /\ stored' = [i \in Market!Series |-> Market!With(stored[i], q.own[i])]
        /\ answered' = answered \cup Market!Answer(q)
        /\ request' = [request EXCEPT ![r] = Market!Resting]
        /\ UNCHANGED <<closed, now, lastAttempt, asked>>
    BY <1>1 DEF Market!Commit
  <1>3. Market!Asking(q) /\ q.at # "idle"
    BY <1>1, <1>2, AtStep
  <1>4. DOMAIN stored' = Market!Series
        /\ \A i \in Market!Series : stored'[i] = Market!With(stored[i], q.own[i])
    BY <1>2
  <1>5. \A i \in Market!Series :
            /\ DOMAIN stored'[i] = DOMAIN stored[i] \cup DOMAIN q.own[i]
            /\ \A m \in DOMAIN stored[i] : stored'[i][m] = stored[i][m]
            /\ \A m \in DOMAIN q.own[i] : stored'[i][m] = q.own[i][m]
    <2>1. \A i \in Market!Series : DOMAIN q.own[i] \cap DOMAIN stored[i] = {}
      BY <1>3 DEF Market!Asking
    <2>2. \A f, g : DOMAIN g \cap DOMAIN f = {} =>
              /\ DOMAIN Market!With(f, g) = DOMAIN f \cup DOMAIN g
              /\ \A m \in DOMAIN f : Market!With(f, g)[m] = f[m]
              /\ \A m \in DOMAIN g : Market!With(f, g)[m] = g[m]
      BY DEF Market!With
    <2>3. ASSUME NEW i \in Market!Series
          PROVE  /\ DOMAIN stored'[i] = DOMAIN stored[i] \cup DOMAIN q.own[i]
                 /\ \A m \in DOMAIN stored[i] : stored'[i][m] = stored[i][m]
                 /\ \A m \in DOMAIN q.own[i] : stored'[i][m] = q.own[i][m]
      <3> DEFINE f == stored[i]
                 g == q.own[i]
      <3>1. DOMAIN g \cap DOMAIN f = {} /\ stored'[i] = Market!With(f, g)
        BY <1>4, <2>1
      <3> HIDE DEF f, g
      <3>2. /\ DOMAIN stored'[i] = DOMAIN f \cup DOMAIN g
            /\ \A m \in DOMAIN f : stored'[i][m] = f[m]
            /\ \A m \in DOMAIN g : stored'[i][m] = g[m]
        BY <3>1 DEF Market!With
      <3> QED BY <3>2 DEF f, g
    <2> QED BY <2>3
  <1>6. DOMAIN request' = Requests /\ request'[r] = Market!Resting
        /\ \A s \in Requests \ {r} : request'[s] = request[s]
    BY <1>2 DEF Market!MarketInv
  <1>7. closed \in Nat
    BY MarketConstants DEF Market!MarketInv, Market!Months
  <1>8. ASSUME NEW x \in {request'[s] : s \in Requests}
        PROVE  x = Market!Resting \/ Market!Asking(x)'
    <2>1. CASE x = Market!Resting
      BY <2>1
    <2>2. CASE x # Market!Resting
      <3>1. PICK s \in Requests \ {r} : x = request[s]
        BY <1>6, <2>2
      <3>2. Market!Asking(x)
        BY <2>2, <3>1 DEF Market!MarketInv
      <3>3. \A i \in Market!Series : DOMAIN x.own[i] \cap DOMAIN q.own[i] = {}
        <4>1. /\ \A i \in Market!Series : Market!Writing(s, i) \cap Market!Writing(r, i) = {}
              /\ x.at # "idle"
          BY <3>2 DEF Market!MarketInv, Market!Asking
        <4> QED BY <1>1, <1>3, <3>1, <4>1 DEF Market!Writing
      <3>4. \A i \in Market!Series : DOMAIN x.own[i] \cap DOMAIN stored'[i] = {}
        BY <1>5, <3>2, <3>3 DEF Market!Asking
      <3>5. Market!Asking(x)'
        <4>1. \A i \in Market!Series : /\ DOMAIN stored[i] \subseteq DOMAIN stored'[i]
                                       /\ \A m \in DOMAIN stored[i] : stored'[i][m] = stored[i][m]
                                       /\ DOMAIN x.own[i] \cap DOMAIN stored'[i] = {}
          BY <1>5, <3>4
        <4>2. closed' \in Nat /\ closed <= closed'
          BY <1>2, <1>7
        <4> QED BY <1>7, <3>2, <4>1, <4>2, AskingKept
      <3> QED BY <3>5
    <2> QED BY <2>1, <2>2
  <1>9. ASSUME NEW i \in Market!Series
        PROVE  Market!Quoted(stored[i])'
    <2>1. Market!Quoted(stored[i]) /\ Market!Quoted(q.own[i])
      BY <1>3 DEF Market!MarketInv, Market!Asking
    <2> QED BY <1>2, <1>5, <2>1 DEF Market!Quoted
  <1>10. ASSUME NEW s \in Requests, NEW u \in Requests \ {s}, NEW i \in Market!Series
         PROVE  Market!Writing(s, i)' \cap Market!Writing(u, i)' = {}
    <2>1. \A v \in Requests : Market!Writing(v, i)' \subseteq Market!Writing(v, i)
      BY <1>6 DEF Market!Writing, Market!Resting
    <2>2. Market!Writing(s, i) \cap Market!Writing(u, i) = {}
      BY DEF Market!MarketInv
    <2> QED BY <2>1, <2>2
  <1>11. ASSUME NEW a \in answered'
         PROVE  /\ a.index \in Market!Series /\ a.month \in DOMAIN stored'[a.index]
                /\ stored'[a.index][a.month] = a.rate
    <2>1. CASE a \in answered
      <3>1. /\ a.index \in Market!Series /\ a.month \in DOMAIN stored[a.index]
            /\ stored[a.index][a.month] = a.rate
        BY <2>1 DEF Market!MarketInv, Market!AnswersAreStored
      <3> QED BY <1>5, <3>1
    <2>2. CASE a \in Market!Answer(q)
      <3>0. PICK i \in Market!Series :
                \E m \in DOMAIN q.found[i] : a = [index |-> i, month |-> m, rate |-> q.found[i][m]]
        BY <2>2 DEF Market!Answer
      <3>1. PICK m \in DOMAIN q.found[i] : a = [index |-> i, month |-> m, rate |-> q.found[i][m]]
        BY <3>0
      <3>2. m \in DOMAIN Market!Visible(q, i) /\ q.found[i][m] = Market!Visible(q, i)[m]
        BY <1>3 DEF Market!Asking
      <3>3. m \in DOMAIN stored'[i] /\ stored'[i][m] = q.found[i][m]
        BY <1>4, <3>2 DEF Market!Visible
      <3>4. a.index = i /\ a.month = m /\ a.rate = q.found[i][m]
        BY <3>1
      <3> QED BY <3>3, <3>4
    <2> QED BY <1>2, <2>1, <2>2
  <1>12. Market!AnswersAreStored'
    BY <1>11 DEF Market!AnswersAreStored
  <1> QED BY <1>2, <1>4, <1>6, <1>8, <1>9, <1>10, <1>11, <1>12 DEF Market!MarketInv

LEMMA RestartKeepsRates ==
    ASSUME Market!MarketInv, NEW w \in Workers, Market!Restart(w)
    PROVE  Market!MarketInv'
  <1>1. /\ DOMAIN lastAttempt' = Workers /\ DOMAIN request' = Requests
        /\ \A v \in Workers : DOMAIN lastAttempt'[v] = Market!Series
        /\ \A v \in Workers, i \in Market!Series : lastAttempt'[v][i] \in 0 .. now
        /\ \A r \in Requests : request'[r] = request[r] \/ request'[r] = Market!Resting
        /\ UNCHANGED <<stored, closed, now, answered, asked>>
    <2>1. \A v \in Workers : lastAttempt'[v] = [i \in Market!Series |-> 0]
                             \/ lastAttempt'[v] = lastAttempt[v]
      BY DEF Market!MarketInv, Market!Restart
    <2>2. 0 \in 0 .. now
      BY MarketConstants DEF Market!MarketInv
    <2>3. /\ DOMAIN lastAttempt' = Workers
          /\ \A v \in Workers : DOMAIN lastAttempt'[v] = Market!Series
          /\ \A v \in Workers, i \in Market!Series : lastAttempt'[v][i] \in 0 .. now
      BY <2>1, <2>2 DEF Market!MarketInv, Market!Restart
    <2> QED BY <2>3 DEF Market!Restart
  <1>2. closed \in Nat
    BY MarketConstants DEF Market!MarketInv, Market!Months
  <1>3. ASSUME NEW x \in {request'[s] : s \in Requests}
        PROVE  x = Market!Resting \/ Market!Asking(x)'
    <2>1. x = Market!Resting \/ Market!Asking(x)
      BY <1>1 DEF Market!MarketInv
    <2>2. ASSUME Market!Asking(x) PROVE Market!Asking(x)'
      <3>1. \A i \in Market!Series : DOMAIN x.own[i] \cap DOMAIN stored'[i] = {}
        BY <1>1, <2>2 DEF Market!Asking
      <3> QED BY <1>1, <1>2, <2>2, <3>1, AskingKept
    <2> QED BY <2>1, <2>2
  <1>4. ASSUME NEW s \in Requests, NEW u \in Requests \ {s}, NEW i \in Market!Series
        PROVE  Market!Writing(s, i)' \cap Market!Writing(u, i)' = {}
    <2>1. \A v \in Requests : Market!Writing(v, i)' \subseteq Market!Writing(v, i)
      BY <1>1 DEF Market!Writing, Market!Resting
    <2>2. Market!Writing(s, i) \cap Market!Writing(u, i) = {}
      BY DEF Market!MarketInv
    <2> QED BY <2>1, <2>2
  <1>5. \A i \in Market!Series : Market!Quoted(stored[i])'
    BY <1>1 DEF Market!MarketInv, Market!Quoted
  <1>6. Market!AnswersAreStored'
    BY <1>1 DEF Market!MarketInv, Market!AnswersAreStored
  <1> QED BY <1>1, <1>3, <1>4, <1>5, <1>6 DEF Market!MarketInv

\* Time passes, or a month ends.
LEMMA TimeKeepsRates ==
    ASSUME Market!MarketInv, Market!Tick \/ Market!CloseMonth
    PROVE  Market!MarketInv'
  <1>1. /\ closed \in Nat /\ closed' \in Nat /\ closed <= closed' /\ closed' \in Market!Months
        /\ now \in Nat /\ now' \in Nat /\ now <= now' /\ now' \in 1 .. LastInterval
        /\ UNCHANGED <<stored, lastAttempt, request, answered, asked>>
    BY MarketConstants DEF Market!MarketInv, Market!Months, Market!Tick, Market!CloseMonth
  <1>2. ASSUME NEW x, Market!Asking(x) PROVE Market!Asking(x)'
    <2>1. \A i \in Market!Series : DOMAIN x.own[i] \cap DOMAIN stored'[i] = {}
      BY <1>1, <1>2 DEF Market!Asking
    <2> QED BY <1>1, <1>2, <2>1, AskingKept
  <1>3. \A x \in {request'[s] : s \in Requests} : x = Market!Resting \/ Market!Asking(x)'
    BY <1>1, <1>2 DEF Market!MarketInv
  <1>4. \A i \in Market!Series : Market!Quoted(stored[i])'
    <2>1. 1 .. closed \subseteq 1 .. closed'
      BY <1>1
    <2> QED BY <1>1, <2>1 DEF Market!MarketInv, Market!Quoted
  <1>5. \A w \in Workers, i \in Market!Series : lastAttempt'[w][i] \in 0 .. now'
    <2>1. 0 .. now \subseteq 0 .. now'
      BY <1>1
    <2> QED BY <1>1, <2>1 DEF Market!MarketInv
  <1>6. Market!AnswersAreStored'
        /\ \A r \in Requests, i \in Market!Series : Market!Writing(r, i)' = Market!Writing(r, i)
    BY <1>1 DEF Market!MarketInv, Market!AnswersAreStored, Market!Writing
  <1> QED BY <1>1, <1>3, <1>4, <1>5, <1>6 DEF Market!MarketInv

LEMMA MarketStep == ASSUME Market!MarketInv, Market!Next PROVE Market!MarketInv'
  <1>1. ASSUME NEW r \in Requests, NEW w \in Workers, Market!Begin(r, w)
        PROVE  Market!MarketInv'
    BY <1>1, BeginKeeps
  <1>2. ASSUME NEW r \in Requests,
               Market!Read(r) \/ Market!FetchFails(r) \/ Market!FetchAnswers(r)
               \/ Market!Insert(r) \/ Market!Commit(r) \/ Market!Fail(r)
        PROVE  Market!MarketInv'
    BY <1>2, ReadKeeps, FetchFailsKeeps, FetchAnswersKeeps, InsertKeepsRates,
       CommitKeepsRates, FailKeepsRates
  <1>3. ASSUME NEW w \in Workers, Market!Restart(w) PROVE Market!MarketInv'
    BY <1>3, RestartKeepsRates
  <1>4. Market!Tick \/ Market!CloseMonth => Market!MarketInv'
    BY TimeKeepsRates
  <1> QED BY <1>1, <1>2, <1>3, <1>4 DEF Market!Next

LEMMA MarketInvHolds == MCSpec => [](InMarket => Market!MarketInv)
  <1>1. MCInit => (InMarket => Market!MarketInv)
    <2> SUFFICES ASSUME MCInit, InMarket PROVE Market!MarketInv
      OBVIOUS
    <2>1. Market!Init
      BY DEF MCInit, InMarket
    <2>2. /\ DOMAIN stored = Market!Series /\ \A i \in Market!Series : DOMAIN stored[i] = {}
          /\ closed = 1 /\ now = 1 /\ asked = 0 /\ answered = {}
          /\ DOMAIN request = Requests /\ \A r \in Requests : request[r] = Market!Resting
          /\ DOMAIN lastAttempt = Workers
          /\ \A w \in Workers : DOMAIN lastAttempt[w] = Market!Series
          /\ \A w \in Workers, i \in Market!Series : lastAttempt[w][i] = 0
      BY <2>1 DEF Market!Init, Market!NoRates
    <2>3. \A i \in Market!Series : Market!Quoted(stored[i])
      BY <2>2 DEF Market!Quoted
    <2>4. \A r \in Requests, i \in Market!Series : Market!Writing(r, i) = {}
      BY <2>2 DEF Market!Writing, Market!Resting
    <2>5. closed \in Market!Months /\ now \in 1 .. LastInterval /\ asked \in 0 .. MaxRequests
          /\ 0 \in 0 .. now
      BY <2>2, MarketConstants DEF Market!Months
    <2>6. Market!AnswersAreStored
      BY <2>2 DEF Market!AnswersAreStored
    <2> QED BY <2>2, <2>3, <2>4, <2>5, <2>6 DEF Market!MarketInv
  <1>2. (InMarket => Market!MarketInv) /\ [MCNext]_vars => (InMarket => Market!MarketInv)'
    <2> SUFFICES ASSUME InMarket => Market!MarketInv, [MCNext]_vars, InMarket'
                 PROVE  Market!MarketInv'
      OBVIOUS
    <2>1. InMarket /\ Market!MarketInv
      BY PartKept DEF InMarket
    <2>2. CASE MCNext
      BY <2>1, <2>2, MarketSteps, MarketStep
    <2>3. CASE vars' = vars
      <3>1. UNCHANGED <<stored, closed, now, lastAttempt, request, answered, asked>>
        BY <2>3 DEF vars
      <3>2. ASSUME NEW x, Market!Asking(x) PROVE Market!Asking(x)'
        <4>1. closed \in Nat
          BY <2>1, MarketConstants DEF Market!MarketInv, Market!Months
        <4>2. \A i \in Market!Series : DOMAIN x.own[i] \cap DOMAIN stored'[i] = {}
          BY <3>1, <3>2 DEF Market!Asking
        <4> QED BY <3>1, <3>2, <4>1, <4>2, AskingKept
      <3>3. \A x \in {request'[s] : s \in Requests} : x = Market!Resting \/ Market!Asking(x)'
        BY <2>1, <3>1, <3>2 DEF Market!MarketInv
      <3>4. /\ \A i \in Market!Series : Market!Quoted(stored[i])'
            /\ Market!AnswersAreStored'
            /\ \A r \in Requests, i \in Market!Series :
                   Market!Writing(r, i)' = Market!Writing(r, i)
        BY <2>1, <3>1 DEF Market!MarketInv, Market!Quoted, Market!AnswersAreStored, Market!Writing
      <3> QED BY <2>1, <3>1, <3>3, <3>4 DEF Market!MarketInv
    <2> QED BY <2>2, <2>3
  <1> QED BY <1>1, <1>2, PTL DEF MCSpec

-----------------------------------------------------------------------------
(* What the utility kept back: reports/utility_check.py.                      *)

\* The state by its names.
issued == s1
reading == s2
snapped == s3
credited == s4
USE DEF issued, reading, snapped, credited

LEMMA UtilitySteps == ASSUME InUtility, MCNext PROVE Utility!Next
  <1>1. /\ ~InOutbox /\ ~InPipeline /\ ~InDaily /\ ~InPv /\ ~InDash /\ ~InAlert /\ ~InAnomaly
        /\ ~InTariff /\ ~InMarket /\ ~InCycle
    BY DEF InOutbox, InPipeline, InDaily, InPv, InDash, InAlert, InAnomaly, InTariff,
           InMarket, InCycle, InUtility
  <1> QED BY <1>1, ZenonT(60) DEF MCNext, Utility!Next

\* What is assumed of the instance.
LEMMA UtilityConstants ==
    /\ \A kind \in Kinds :
           /\ kind.sent \in Nat /\ kind.home \in Nat /\ kind.imported \in Nat /\ kind.lost \in Nat
           /\ kind.given \in Nat /\ kind.expiring \in Nat /\ kind.over \in Nat
           /\ kind.missed \in Nat /\ kind.unread \in BOOLEAN /\ kind.faulty \in BOOLEAN
    /\ BillingMonths \in Nat /\ Cycles \in Nat \ {0} /\ NoRow \notin Int
  BY ConstantsOfParts DEF Utility!ConstantsOK

\* The largest and the smallest of a finite set of integers.
LEMMA MaxIsIn ==
    ASSUME NEW S, IsFiniteSet(S), S # {}, S \subseteq Int
    PROVE  Utility!Max(S) \in S /\ Utility!Max(S) \in Int /\ \A k \in S : k <= Utility!Max(S)
  <1> DEFINE f == [x \in S |-> x]
  <1>1. \A x \in S : f[x] = x /\ f[x] \in Int
    OBVIOUS
  <1> HIDE DEF f
  <1>2. PICK m \in S : \A k \in S : f[k] <= f[m]
    BY <1>1, LatestIn
  <1>3. \A k \in S : m >= k
    BY <1>1, <1>2
  <1>4. Utility!Max(S) \in S /\ \A k \in S : Utility!Max(S) >= k
    BY <1>3 DEF Utility!Max
  <1> QED BY <1>4

LEMMA MinIsIn ==
    ASSUME NEW S, IsFiniteSet(S), S # {}, S \subseteq Int
    PROVE  Utility!Min(S) \in S /\ Utility!Min(S) \in Int /\ \A k \in S : Utility!Min(S) <= k
  <1> DEFINE f == [x \in S |-> -x]
  <1>1. \A x \in S : f[x] = -x /\ f[x] \in Int
    OBVIOUS
  <1> HIDE DEF f
  <1>2. PICK m \in S : \A k \in S : f[k] <= f[m]
    BY <1>1, LatestIn
  <1>3. \A k \in S : m =< k
    BY <1>1, <1>2
  <1>4. Utility!Min(S) \in S /\ \A k \in S : Utility!Min(S) =< k
    BY <1>3 DEF Utility!Min
  <1> QED BY <1>4

LEMMA MaxOfTwo ==
    ASSUME NEW x \in Int
    PROVE  Utility!Max({0, x}) = IF x > 0 THEN x ELSE 0
  <1>1. \E y \in {0, x} : \A k \in {0, x} : y >= k
    <2>1. CASE x > 0
      BY <2>1
    <2>2. CASE ~(x > 0)
      BY <2>2
    <2> QED BY <2>1, <2>2
  <1>2. Utility!Max({0, x}) \in {0, x} /\ \A k \in {0, x} : Utility!Max({0, x}) >= k
    BY <1>1 DEF Utility!Max
  <1> QED BY <1>2

LEMMA MinOfTwo ==
    ASSUME NEW x \in Int, NEW y \in Int
    PROVE  Utility!Min({x, y}) = IF x <= y THEN x ELSE y
  <1>1. \E z \in {x, y} : \A k \in {x, y} : z =< k
    <2>1. CASE x <= y
      BY <2>1
    <2>2. CASE ~(x <= y)
      BY <2>2
    <2> QED BY <2>1, <2>2
  <1>2. Utility!Min({x, y}) \in {x, y} /\ \A k \in {x, y} : Utility!Min({x, y}) =< k
    BY <1>1 DEF Utility!Min
  <1> QED BY <1>2

\* The newest bill of a month, if there is one.
LEMMA LatestIs ==
    ASSUME issued \in Seq(Utility!Issuable), NEW m
    PROVE  /\ Utility!Latest(m) \in 0 .. Len(issued)
           /\ Utility!Latest(m) # 0 => issued[Utility!Latest(m)].month = m
  <1> DEFINE S == {b \in DOMAIN issued : issued[b].month = m} \cup {0}
  <1>1. DOMAIN issued = 1 .. Len(issued) /\ Len(issued) \in Nat
    BY LenProperties
  <1>2. S \subseteq 0 .. Len(issued) /\ S # {} /\ S \subseteq Int
    BY <1>1
  <1>3. IsFiniteSet(S)
    <2> HIDE DEF S
    <2>1. IsFiniteSet(0 .. Len(issued))
      BY <1>1, FS_Interval
    <2> QED BY <1>2, <2>1, FS_Subset
  <1>4. Utility!Latest(m) = Utility!Max(S)
    BY DEF Utility!Latest
  <1> HIDE DEF S
  <1>5. Utility!Latest(m) \in S
    BY <1>2, <1>3, <1>4, MaxIsIn
  <1> QED BY <1>2, <1>5 DEF S

LEMMA LastBilledIs ==
    ASSUME issued \in Seq(Utility!Issuable)
    PROVE  Utility!LastBilled \in Nat
  <1>1. CASE issued = <<>>
    BY <1>1 DEF Utility!LastBilled
  <1>2. CASE issued # <<>>
    <2> DEFINE S == {issued[b].month : b \in DOMAIN issued}
    <2>1. DOMAIN issued = 1 .. Len(issued) /\ Len(issued) \in Nat /\ Len(issued) > 0
      BY <1>2, LenProperties, EmptySeq
    <2>2. \A b \in DOMAIN issued : issued[b].month \in 1 .. BillingMonths
      <3>1. \A b \in DOMAIN issued : issued[b] \in Utility!Issuable
        BY <2>1, ElementOfSeq
      <3> QED BY <3>1 DEF Utility!Issuable, Utility!Months
    <2>3. S # {} /\ S \subseteq 1 .. BillingMonths /\ S \subseteq Int /\ S \subseteq Nat
      BY <2>1, <2>2, UtilityConstants
    <2>4. IsFiniteSet(S)
      <3> HIDE DEF S
      <3>1. IsFiniteSet(1 .. BillingMonths)
        BY FS_Interval, UtilityConstants
      <3> QED BY <2>3, <3>1, FS_Subset
    <2>5. Utility!LastBilled = Utility!Max(S)
      BY <1>2 DEF Utility!LastBilled
    <2> HIDE DEF S
    <2> QED BY <2>3, <2>4, <2>5, MaxIsIn
  <1> QED BY <1>1, <1>2

\* What the invariant says of the sequences.
LEMMA LedgerIs ==
    ASSUME Utility!UtilityInv
    PROVE  /\ Len(issued) \in Nat /\ DOMAIN issued = 1 .. Len(issued)
           /\ DOMAIN reading = 1 .. Len(issued)
           /\ \A b \in 1 .. Len(issued) :
                  /\ issued[b] \in Utility!Issuable /\ Utility!AddsUp(issued[b])
                  /\ reading[b] \in {"none", "bare", "full"}
  <1>1. issued \in Seq(Utility!Issuable) /\ reading \in Seq({"none", "bare", "full"})
        /\ Len(reading) = Len(issued)
    BY DEF Utility!UtilityInv
  <1>2. /\ Len(issued) \in Nat /\ DOMAIN issued = 1 .. Len(issued)
        /\ DOMAIN reading = 1 .. Len(issued)
    BY <1>1, LenProperties
  <1>3. \A b \in 1 .. Len(issued) : issued[b] \in Utility!Issuable
                                   /\ reading[b] \in {"none", "bare", "full"}
    BY <1>1, ElementOfSeq
  <1>4. \A b \in 1 .. Len(issued) : Utility!AddsUp(issued[b])
    BY <1>2 DEF Utility!UtilityInv, Utility!Range
  <1> QED BY <1>2, <1>3, <1>4

\* The numbers of a bill.
LEMMA BillNumbers ==
    ASSUME NEW b \in Utility!Issuable
    PROVE  /\ b.month \in Int /\ b.gen \in Nat /\ b.used \in Nat /\ b.imported \in Nat
           /\ b.balance \in Nat /\ b.expiring \in Nat /\ b.production \in Int /\ b.from \in Nat
           /\ b.sent \in Nat /\ b.lost \in Nat /\ b.given \in Nat /\ b.received \in Nat
           /\ b.month \in Utility!Months /\ b.share \in {50, 100} /\ b.estimated \in BOOLEAN
  BY DEF Utility!Issuable, Utility!Months

\* Nothing of a bill changes when another is issued.
LEMMA StillAddsUp ==
    ASSUME issued \in Seq(Utility!Issuable), NEW n \in Utility!Issuable,
           issued' = Append(issued, n), NEW c \in Utility!Issuable, Utility!AddsUp(c)
    PROVE  Utility!AddsUp(c)'
  <1>1. /\ Len(issued) \in Nat /\ Len(issued') = Len(issued) + 1
        /\ \A k \in 1 .. Len(issued) : issued'[k] = issued[k]
    BY LenProperties, AppendProperties
  <1>2. c.from \in Nat /\ c.from <= Len(issued)
    BY BillNumbers DEF Utility!AddsUp
  <1>3. c.from <= Len(issued') /\ (c.from # 0 => issued'[c.from] = issued[c.from])
    BY <1>1, <1>2
  <1> QED BY <1>3 DEF Utility!AddsUp

LEMMA LedgerGrows ==
    ASSUME Utility!UtilityInv, NEW n \in Utility!Issuable, Utility!AddsUp(n),
           issued' = Append(issued, n), reading' = Append(reading, "none"),
           credited' \in Nat, UNCHANGED snapped
    PROVE  Utility!UtilityInv'
  <1>1. issued \in Seq(Utility!Issuable) /\ reading \in Seq({"none", "bare", "full"})
        /\ Len(reading) = Len(issued)
    BY DEF Utility!UtilityInv
  <1>2. /\ issued' \in Seq(Utility!Issuable) /\ Len(issued') = Len(issued) + 1
        /\ \A k \in 1 .. Len(issued) : issued'[k] = issued[k]
        /\ issued'[Len(issued) + 1] = n
    BY <1>1, AppendProperties
  <1>3. /\ reading' \in Seq({"none", "bare", "full"}) /\ Len(reading') = Len(reading) + 1
        /\ \A k \in 1 .. Len(reading) : reading'[k] = reading[k]
    BY <1>1, AppendProperties
  <1>4. /\ Len(issued) \in Nat /\ DOMAIN issued = 1 .. Len(issued)
        /\ DOMAIN reading = 1 .. Len(issued)
        /\ \A k \in 1 .. Len(issued) : issued[k] \in Utility!Issuable /\ Utility!AddsUp(issued[k])
    BY LedgerIs
  <1>5. DOMAIN issued' = 1 .. Len(issued) + 1 /\ DOMAIN reading' = 1 .. Len(issued) + 1
    BY <1>1, <1>2, <1>3, LenProperties
  <1>6. \A b \in Utility!Range(issued)' : Utility!AddsUp(b)'
    <2> SUFFICES ASSUME NEW b \in Utility!Range(issued)' PROVE Utility!AddsUp(b)'
      OBVIOUS
    <2>1. PICK k \in DOMAIN issued' : b = issued'[k]
      BY DEF Utility!Range
    <2>2. b \in Utility!Issuable /\ Utility!AddsUp(b)
      <3>1. CASE k = Len(issued) + 1
        BY <1>2, <2>1, <3>1
      <3>2. CASE k # Len(issued) + 1
        <4>1. k \in 1 .. Len(issued)
          BY <1>4, <1>5, <3>2
        <4> QED BY <1>2, <1>4, <2>1, <4>1
      <3> QED BY <3>1, <3>2
    <2> QED BY <1>1, <2>2, StillAddsUp
  <1>7. ASSUME NEW m \in Utility!Months, NEW b \in Utility!Range(snapped[m])
        PROVE  issued'[b].month = m /\ Utility!Confirmed(b)'
    <2>1. issued[b].month = m /\ Utility!Confirmed(b)
      BY DEF Utility!UtilityInv
    <2>2. b \in 1 .. Len(issued) /\ reading[b] # "none"
      BY <1>4, <2>1 DEF Utility!Confirmed
    <2>3. b \in DOMAIN reading' /\ reading'[b] = reading[b] /\ issued'[b] = issued[b]
      BY <1>1, <1>2, <1>3, <1>4, <1>5, <2>2
    <2> QED BY <2>1, <2>2, <2>3 DEF Utility!Confirmed
  <1>8. \A m \in Utility!Months : /\ Utility!Range(snapped[m])' = Utility!Range(snapped[m])
                                  /\ Utility!IsInjective(snapped[m])'
    BY DEF Utility!UtilityInv, Utility!Range, Utility!IsInjective
  <1>9. snapped' \in [Utility!Months -> Seq(Nat)]
    BY DEF Utility!UtilityInv
  <1> QED BY <1>1, <1>2, <1>3, <1>6, <1>7, <1>8, <1>9 DEF Utility!UtilityInv

\* A bill adds up as the utility reckons it.
LEMMA IssueKeeps ==
    ASSUME Utility!UtilityInv, NEW kind \in Kinds, Utility!IssueBill(kind)
    PROVE  Utility!UtilityInv'
  <1> DEFINE start == Utility!Latest(Utility!LastBilled)
             gen == kind.sent + kind.over
             balance == IF start = 0 THEN 0 ELSE issued[start].balance
             expiring == IF start = 0 THEN 0 ELSE issued[start].expiring
             spent == Utility!Min({kind.imported, balance + gen})
             expired == Utility!Min({Utility!Expires(start, spent), balance + gen - spent})
             left == balance + gen - spent - expired + credited
             given == Utility!Min({kind.given, left})
             lost == Utility!Min({kind.lost, left - given})
             month == Utility!LastBilled + 1
             rest == left - given - lost
             soon == Utility!Min({kind.expiring, rest})
             share == IF kind.given = 0 THEN 100 ELSE 50
             made == kind.sent + kind.home - kind.missed
             n == [month |-> month, gen |-> gen, used |-> spent, imported |-> kind.imported,
                   balance |-> rest, expiring |-> soon, share |-> share, production |-> made,
                   estimated |-> kind.missed > 0, unread |-> kind.unread,
                   faulty |-> kind.faulty, from |-> start, sent |-> kind.sent, lost |-> lost,
                   given |-> given, received |-> credited]
  <1>1. /\ Utility!LastBilled < BillingMonths
        /\ issued' = Append(issued, n) /\ reading' = Append(reading, "none") /\ credited' = 0
        /\ UNCHANGED snapped
    BY DEF Utility!IssueBill
  <1>2. /\ issued \in Seq(Utility!Issuable) /\ credited \in Nat
        /\ Len(issued) \in Nat
        /\ \A b \in 1 .. Len(issued) : issued[b] \in Utility!Issuable /\ Utility!AddsUp(issued[b])
    BY LedgerIs DEF Utility!UtilityInv
  <1>3. /\ start \in 0 .. Len(issued) /\ start \in Nat
        /\ start # 0 => start \in 1 .. Len(issued) /\ issued[start].month = Utility!LastBilled
    BY <1>2, LatestIs
  <1>4. Utility!LastBilled \in Nat /\ month \in Utility!Months /\ month \in Int
    BY <1>1, <1>2, LastBilledIs, UtilityConstants DEF Utility!Months
  <1>5. balance \in Nat /\ expiring \in Nat /\ expiring <= balance
    <2>1. CASE start = 0
      BY <2>1
    <2>2. CASE start # 0
      <3>1. issued[start] \in Utility!Issuable /\ Utility!AddsUp(issued[start])
        BY <1>2, <1>3, <2>2
      <3>2. issued[start].balance \in Nat /\ issued[start].expiring \in Nat
        BY <3>1, BillNumbers
      <3>3. issued[start].expiring <= issued[start].balance
        BY <3>1 DEF Utility!AddsUp
      <3> HIDE DEF start
      <3> QED BY <2>2, <3>2, <3>3
    <2> QED BY <2>1, <2>2
  <1>6. Utility!Expires(start, spent) = IF start = 0 THEN 0 ELSE Utility!Max({0, expiring - spent})
    BY DEF Utility!Expires
  <1>7. /\ kind.sent \in Nat /\ kind.home \in Nat /\ kind.imported \in Nat /\ kind.lost \in Nat
        /\ kind.given \in Nat /\ kind.expiring \in Nat /\ kind.over \in Nat
        /\ kind.missed \in Nat /\ kind.unread \in BOOLEAN /\ kind.faulty \in BOOLEAN
    BY UtilityConstants
  <1> HIDE DEF start, month
  <1>8. gen \in Nat /\ kind.sent <= gen
    BY <1>7
  <1> HIDE DEF gen, balance
  <1>9. /\ spent = IF kind.imported <= balance + gen THEN kind.imported ELSE balance + gen
        /\ spent \in Nat /\ spent <= balance + gen
    <2>1. balance + gen \in Int
      BY <1>5, <1>8
    <2>2. spent = IF kind.imported <= balance + gen THEN kind.imported ELSE balance + gen
      BY <1>7, <2>1, MinOfTwo
    <2> HIDE DEF spent
    <2> QED BY <1>5, <1>7, <1>8, <2>2
  <1> HIDE DEF spent, expiring
  <1>10. /\ expired = Utility!Expires(start, spent) /\ expired \in Nat
         /\ expired <= balance + gen - spent
    <2> DEFINE e == Utility!Expires(start, spent)
    <2>1. e \in Nat /\ e <= balance + gen - spent /\ balance + gen - spent \in Int
      <3>1. expiring - spent \in Int
        BY <1>5, <1>9
      <3>2. Utility!Max({0, expiring - spent})
            = IF expiring - spent > 0 THEN expiring - spent ELSE 0
        BY <3>1, MaxOfTwo
      <3> QED BY <1>5, <1>6, <1>8, <1>9, <3>2
    <2> HIDE DEF e
    <2>2. expired = IF e <= balance + gen - spent THEN e ELSE balance + gen - spent
      BY <2>1, MinOfTwo DEF e
    <2> HIDE DEF expired
    <2> QED BY <2>1, <2>2 DEF e
  <1> HIDE DEF expired
  <1>11. left \in Nat /\ left = balance + gen - spent - expired + credited
    <2>1. credited \in Nat
      BY <1>2
    <2>2. balance \in Nat /\ gen \in Nat /\ spent \in Nat /\ expired \in Nat
          /\ expired <= balance + gen - spent
      BY <1>5, <1>8, <1>9, <1>10
    <2> QED BY <2>1, <2>2
  <1>12. given \in Nat /\ given <= left /\ (kind.given = 0 => given = 0)
    <2>1. given = IF kind.given <= left THEN kind.given ELSE left
      <3> HIDE DEF left
      <3> QED BY <1>7, <1>11, MinOfTwo
    <2> HIDE DEF given, left
    <2> QED BY <1>7, <1>11, <2>1
  <1> HIDE DEF given
  <1>13. lost \in Nat /\ lost <= left - given /\ left - given \in Nat
    <2>1. left - given \in Nat
      <3> HIDE DEF left
      <3> QED BY <1>11, <1>12
    <2>2. lost = IF kind.lost <= left - given THEN kind.lost ELSE left - given
      <3> HIDE DEF left
      <3> QED BY <1>7, <2>1, MinOfTwo
    <2> HIDE DEF lost, left
    <2> QED BY <1>7, <2>1, <2>2
  <1> HIDE DEF lost
  <1>14. rest \in Nat
    <2> HIDE DEF left
    <2> QED BY <1>11, <1>12, <1>13
  <1>15. soon \in Nat /\ soon <= rest
    <2> HIDE DEF rest
    <2>1. soon = IF kind.expiring <= rest THEN kind.expiring ELSE rest
      BY <1>7, <1>14, MinOfTwo
    <2> HIDE DEF soon
    <2> QED BY <1>7, <1>14, <2>1
  <1>16. rest = balance + gen - spent - expired + credited - given - lost
    <2>1. rest = left - given - lost
      OBVIOUS
    <2>2. /\ balance \in Nat /\ gen \in Nat /\ spent \in Nat /\ expired \in Nat
          /\ given \in Nat /\ lost \in Nat /\ left \in Nat
      BY <1>5, <1>8, <1>9, <1>10, <1>11, <1>12, <1>13
    <2>3. credited \in Nat
      BY <1>2
    <2>4. left = balance + gen - spent - expired + credited
      BY <1>11
    <2> HIDE DEF left, rest
    <2> QED BY <2>1, <2>2, <2>3, <2>4
  <1>17. made \in Int /\ (~(kind.missed > 0) => kind.sent <= made)
    BY <1>7
  <1> HIDE DEF left, rest, soon, made
  <1>18. n \in Utility!Issuable
    <2>1. share \in {50, 100} /\ (kind.missed > 0) \in BOOLEAN
      OBVIOUS
    <2> HIDE DEF share
    <2> QED BY <1>2, <1>3, <1>4, <1>7, <1>8, <1>9, <1>12, <1>13, <1>14, <1>15, <1>17, <2>1
         DEF Utility!Issuable
  <1>19. Utility!AddsUp(n)
    <2>1. /\ n.sent = kind.sent /\ n.gen = gen /\ n.expiring = soon /\ n.balance = rest
          /\ n.share = share /\ n.given = given /\ n.estimated = (kind.missed > 0)
          /\ n.production = made /\ n.from = start /\ n.month = month /\ n.used = spent
          /\ n.lost = lost /\ n.received = credited
      OBVIOUS
    <2>2. n.share = 100 => n.given = 0
      BY <1>12, <2>1
    <2>3. n.from # 0 => issued[n.from].month = n.month - 1
      BY <1>3, <1>4, <2>1 DEF month
    <2>4. ASSUME n.from # 0
          PROVE  issued[n.from].balance + n.gen - n.used - n.balance
                     = Utility!Max({0, issued[n.from].expiring - n.used}) + n.lost + n.given
                       - n.received
      <3> HIDE DEF n
      <3>1. balance = issued[start].balance /\ expiring = issued[start].expiring
        BY <2>1, <2>4 DEF balance, expiring
      <3>2. expired = Utility!Max({0, expiring - spent})
        BY <1>6, <1>10, <2>1, <2>4
      <3>3. balance + gen - spent - rest = expired + lost + given - credited
        <4>1. credited \in Nat
          BY <1>2
        <4>2. balance \in Nat /\ gen \in Nat /\ spent \in Nat /\ expired \in Nat
              /\ given \in Nat /\ lost \in Nat
          BY <1>5, <1>8, <1>9, <1>10, <1>12, <1>13
        <4> QED BY <1>16, <4>1, <4>2
      <3> QED BY <2>1, <3>1, <3>2, <3>3
    <2>5. n.from <= Len(issued)
      BY <1>2, <1>3, <2>1
    <2> HIDE DEF n
    <2> QED BY <1>8, <1>15, <1>17, <2>1, <2>2, <2>3, <2>4, <2>5 DEF Utility!AddsUp
  <1> HIDE DEF n
  <1>20. credited' \in Nat
    BY <1>1
  <1> QED BY <1>1, <1>18, <1>19, <1>20, LedgerGrows

LEMMA ReissueKeeps ==
    ASSUME Utility!UtilityInv, NEW b, Utility!Reissue(b)
    PROVE  Utility!UtilityInv'
  <1>1. /\ b \in DOMAIN issued
        /\ issued' = Append(issued, [issued[b] EXCEPT !.balance = @ + issued[b].lost, !.lost = 0])
        /\ reading' = Append(reading, "none")
        /\ credited' = IF issued[b].month = Utility!LastBilled THEN credited
                       ELSE credited + issued[b].lost
        /\ UNCHANGED snapped
    BY DEF Utility!Reissue
  <1>2. b \in 1 .. Len(issued) /\ issued[b] \in Utility!Issuable /\ Utility!AddsUp(issued[b])
    BY <1>1, LedgerIs
  <1>3. PICK old \in Utility!Issuable : old = issued[b]
    BY <1>2
  <1>4. Utility!AddsUp(old)
    BY <1>2, <1>3
  <1>5. /\ old.balance \in Nat /\ old.lost \in Nat /\ old.expiring \in Nat
        /\ old.gen \in Nat /\ old.used \in Nat /\ old.given \in Nat /\ old.received \in Nat
        /\ old.from \in Nat
    BY BillNumbers
  <1> DEFINE n == [old EXCEPT !.balance = @ + old.lost, !.lost = 0]
  <1>6. old.balance + old.lost \in Nat /\ 0 \in Nat
    BY <1>5
  <1>7. n \in Utility!Issuable
    BY <1>6 DEF Utility!Issuable
  <1>8. /\ n.balance = old.balance + old.lost /\ n.lost = 0
        /\ n.sent = old.sent /\ n.gen = old.gen /\ n.expiring = old.expiring
        /\ n.share = old.share /\ n.given = old.given /\ n.estimated = old.estimated
        /\ n.production = old.production /\ n.from = old.from /\ n.month = old.month
        /\ n.used = old.used /\ n.received = old.received
    BY DEF Utility!Issuable
  <1> HIDE DEF n
  <1>9. Utility!AddsUp(n)
    <2>1. /\ old.sent <= old.gen /\ old.expiring <= old.balance
          /\ old.share = 100 => old.given = 0
          /\ ~old.estimated => old.sent <= old.production
          /\ old.from <= Len(issued)
      BY <1>4 DEF Utility!AddsUp
    <2>2. n.expiring <= n.balance
      BY <1>5, <1>8, <2>1
    <2>3. ASSUME n.from # 0
          PROVE  /\ issued[n.from].month = n.month - 1
                 /\ issued[n.from].balance + n.gen - n.used - n.balance
                      = Utility!Max({0, issued[n.from].expiring - n.used}) + n.lost + n.given
                        - n.received
      <3>1. PICK from \in Utility!Issuable : from = issued[old.from]
        BY <1>5, <1>8, <2>1, <2>3, LedgerIs
      <3>2. from.balance \in Nat /\ from.expiring \in Nat
        BY BillNumbers
      <3>3. PICK x \in Int : x = Utility!Max({0, from.expiring - old.used})
        <4>1. from.expiring - old.used \in Int
          BY <1>5, <3>2
        <4> QED BY <4>1, MaxOfTwo
      <3>4. /\ from.month = old.month - 1
            /\ from.balance + old.gen - old.used - old.balance
                 = x + old.lost + old.given - old.received
        BY <1>4, <1>8, <2>3, <3>1, <3>3 DEF Utility!AddsUp
      <3>5. from.balance + old.gen - old.used - (old.balance + old.lost)
              = x + 0 + old.given - old.received
        <4>1. x \in Int
          BY <3>3
        <4>2. from.balance + old.gen - old.used - old.balance
                = x + old.lost + old.given - old.received
          BY <3>4
        <4> QED BY <1>5, <3>2, <4>1, <4>2
      <3> QED BY <1>8, <3>1, <3>3, <3>4, <3>5
    <2> QED BY <1>8, <2>1, <2>2, <2>3 DEF Utility!AddsUp
  <1>10. credited' \in Nat
    <2>1. credited \in Nat
      BY DEF Utility!UtilityInv
    <2>2. credited' = credited \/ credited' = credited + old.lost
      BY <1>1, <1>3
    <2> QED BY <1>5, <2>1, <2>2
  <1>11. issued' = Append(issued, n)
    BY <1>1, <1>3 DEF n
  <1> QED BY <1>1, <1>7, <1>9, <1>10, <1>11, LedgerGrows

\* A bill that was confirmed stays so.
LEMMA ReadingKeeps ==
    ASSUME Utility!UtilityInv, NEW b \in DOMAIN issued, NEW level \in {"bare", "full"},
           reading' = [reading EXCEPT ![b] = level], UNCHANGED <<issued, snapped, credited>>
    PROVE  Utility!UtilityInv'
  <1>1. /\ reading \in Seq({"none", "bare", "full"}) /\ Len(reading) = Len(issued)
        /\ Len(issued) \in Nat /\ b \in 1 .. Len(reading) /\ DOMAIN reading = 1 .. Len(issued)
    BY LedgerIs DEF Utility!UtilityInv
  <1>2. reading' \in Seq({"none", "bare", "full"}) /\ Len(reading') = Len(reading)
    BY <1>1, ExceptSeq
  <1>3. DOMAIN reading' = 1 .. Len(issued) /\ reading'[b] = level
        /\ \A c \in DOMAIN reading : c # b => reading'[c] = reading[c]
    BY <1>1, <1>2, LenProperties
  <1>4. ASSUME NEW c, Utility!Confirmed(c) PROVE Utility!Confirmed(c)'
    BY <1>1, <1>3, <1>4 DEF Utility!Confirmed
  <1>5. /\ issued' \in Seq(Utility!Issuable) /\ Len(reading') = Len(issued')
        /\ snapped' \in [Utility!Months -> Seq(Nat)] /\ credited' \in Nat
    BY <1>1, <1>2 DEF Utility!UtilityInv
  <1>6. \A c \in Utility!Range(issued)' : Utility!AddsUp(c)'
    BY DEF Utility!UtilityInv, Utility!Range, Utility!AddsUp
  <1>7. \A m \in Utility!Months : /\ Utility!Range(snapped[m])' = Utility!Range(snapped[m])
                                  /\ Utility!IsInjective(snapped[m])'
    BY DEF Utility!UtilityInv, Utility!Range, Utility!IsInjective
  <1>8. \A m \in Utility!Months : \A c \in Utility!Range(snapped[m]) :
           issued'[c].month = m /\ Utility!Confirmed(c)'
    BY <1>4 DEF Utility!UtilityInv
  <1> QED BY <1>2, <1>5, <1>6, <1>7, <1>8 DEF Utility!UtilityInv

LEMMA SnapshotKeeps ==
    ASSUME Utility!UtilityInv, NEW b, Utility!Snapshot(b)
    PROVE  Utility!UtilityInv'
  <1> DEFINE m == issued[b].month
  <1>1. /\ b \in DOMAIN issued /\ reading[b] # "none" /\ ~Utility!Contains(snapped[m], b)
        /\ snapped' = [snapped EXCEPT ![m] = Append(snapped[m], b)]
        /\ UNCHANGED <<issued, reading, credited>>
    BY DEF Utility!Snapshot
  <1>2. b \in 1 .. Len(issued) /\ b \in DOMAIN reading /\ b \in Nat /\ m \in Utility!Months
    <2>1. b \in 1 .. Len(issued) /\ DOMAIN reading = 1 .. Len(issued) /\ Len(issued) \in Nat
          /\ issued[b] \in Utility!Issuable
      BY <1>1, LedgerIs
    <2> QED BY <2>1, BillNumbers
  <1>3. PICK q \in Utility!Months : q = issued[b].month
    BY <1>2
  <1>4. snapped \in [Utility!Months -> Seq(Nat)] /\ Utility!IsInjective(snapped[q])
    BY DEF Utility!UtilityInv
  <1>5. PICK old \in Seq(Nat) : old = snapped[q]
    BY <1>4
  <1>6. /\ Append(old, b) \in Seq(Nat) /\ Len(Append(old, b)) = Len(old) + 1
        /\ \A k \in 1 .. Len(old) : Append(old, b)[k] = old[k]
        /\ Append(old, b)[Len(old) + 1] = b
        /\ Len(old) \in Nat /\ DOMAIN old = 1 .. Len(old)
        /\ DOMAIN Append(old, b) = 1 .. Len(old) + 1
    BY <1>2, AppendProperties, LenProperties
  <1>7. snapped' \in [Utility!Months -> Seq(Nat)] /\ snapped'[q] = Append(old, b)
        /\ \A r \in Utility!Months : r # q => snapped'[r] = snapped[r]
    BY <1>1, <1>3, <1>4, <1>5, <1>6
  <1>8. \A k \in DOMAIN old : old[k] # b
    BY <1>1, <1>3, <1>5 DEF Utility!Contains
  <1>9. ASSUME NEW r \in Utility!Months PROVE Utility!IsInjective(snapped'[r])
    <2>1. CASE r # q
      BY <1>7, <2>1 DEF Utility!UtilityInv
    <2>2. CASE r = q
      <3> DEFINE new == Append(old, b)
      <3>1. \A i, j \in DOMAIN old : old[i] = old[j] => i = j
        BY <1>4, <1>5 DEF Utility!IsInjective
      <3>2. DOMAIN new = 1 .. Len(old) + 1 /\ new[Len(old) + 1] = b
            /\ \A k \in 1 .. Len(old) : new[k] = old[k]
        BY <1>6
      <3> HIDE DEF new
      <3>3. ASSUME NEW i \in DOMAIN new, NEW j \in DOMAIN new, new[i] = new[j] PROVE i = j
        <4>1. (i \in 1 .. Len(old) \/ i = Len(old) + 1) /\ (j \in 1 .. Len(old) \/ j = Len(old) + 1)
          BY <1>6, <3>2
        <4> QED BY <1>6, <1>8, <3>1, <3>2, <3>3, <4>1
      <3>4. Utility!IsInjective(new)
        BY <3>3 DEF Utility!IsInjective
      <3> QED BY <1>7, <2>2, <3>4 DEF new
    <2> QED BY <2>1, <2>2
  <1>10. ASSUME NEW r \in Utility!Months, NEW c \in Utility!Range(snapped'[r])
         PROVE  issued[c].month = r /\ Utility!Confirmed(c)
    <2>1. PICK k \in DOMAIN snapped'[r] : c = snapped'[r][k]
      BY <1>10 DEF Utility!Range
    <2>2. CASE c = b /\ r = q
      BY <1>1, <1>2, <1>3, <2>2 DEF Utility!Confirmed
    <2>3. CASE ~(c = b /\ r = q)
      <3>1. c \in Utility!Range(snapped[r])
        <4>1. CASE r # q
          BY <1>7, <1>10, <4>1
        <4>2. CASE r = q
          <5>1. k \in 1 .. Len(old)
            BY <1>6, <1>7, <2>1, <2>3, <4>2
          <5> QED BY <1>5, <1>6, <1>7, <2>1, <4>2, <5>1 DEF Utility!Range
        <4> QED BY <4>1, <4>2
      <3> QED BY <3>1 DEF Utility!UtilityInv
    <2> QED BY <2>2, <2>3
  <1>11. \A c \in Utility!Range(issued)' : Utility!AddsUp(c)'
    BY <1>1 DEF Utility!UtilityInv, Utility!Range, Utility!AddsUp
  <1>12. \A r \in Utility!Months : \A c \in Utility!Range(snapped'[r]) :
            issued'[c].month = r /\ Utility!Confirmed(c)'
    BY <1>1, <1>10 DEF Utility!Confirmed
  <1>13. \A r \in Utility!Months : Utility!IsInjective(snapped'[r])
    BY <1>9
  <1>14. /\ issued' \in Seq(Utility!Issuable) /\ credited' \in Nat
         /\ reading' \in Seq({"none", "bare", "full"}) /\ Len(reading') = Len(issued')
    BY <1>1 DEF Utility!UtilityInv
  <1>15. Utility!Months' = Utility!Months
    BY DEF Utility!Months
  <1> QED BY <1>7, <1>11, <1>12, <1>13, <1>14, <1>15 DEF Utility!UtilityInv, Utility!Range, Utility!IsInjective

LEMMA UtilityStep == ASSUME Utility!UtilityInv, Utility!Next PROVE Utility!UtilityInv'
  <1>1. CASE \E kind \in Kinds : Utility!IssueBill(kind)
    BY <1>1, IssueKeeps
  <1>2. ASSUME NEW b, Utility!Reissue(b) PROVE Utility!UtilityInv'
    BY <1>2, ReissueKeeps
  <1>3. ASSUME NEW b, Utility!Confirm(b) PROVE Utility!UtilityInv'
    <2>1. \E level \in {"bare", "full"} : reading' = [reading EXCEPT ![b] = level]
      BY <1>3 DEF Utility!Confirm
    <2>2. b \in DOMAIN issued /\ UNCHANGED <<issued, snapped, credited>>
      BY <1>3 DEF Utility!Confirm
    <2> QED BY <2>1, <2>2, ReadingKeeps
  <1>4. ASSUME NEW b, Utility!Complete(b) PROVE Utility!UtilityInv'
    <2>1. reading' = [reading EXCEPT ![b] = "full"]
          /\ b \in DOMAIN issued /\ UNCHANGED <<issued, snapped, credited>>
      BY <1>4 DEF Utility!Complete
    <2> QED BY <2>1, ReadingKeeps
  <1>5. ASSUME NEW b, Utility!Snapshot(b) PROVE Utility!UtilityInv'
    BY <1>5, SnapshotKeeps
  <1> QED BY <1>1, <1>2, <1>3, <1>4, <1>5 DEF Utility!Next

LEMMA UtilityStarts == ASSUME Utility!Init PROVE Utility!UtilityInv
  <1>1. issued = <<>> /\ reading = <<>> /\ credited = 0
        /\ snapped = [m \in Utility!Months |-> <<>>]
    BY DEF Utility!Init
  <1>2. <<>> \in Seq(Utility!Issuable) /\ <<>> \in Seq({"none", "bare", "full"})
        /\ <<>> \in Seq(Nat) /\ DOMAIN <<>> = {} /\ Len(<<>>) = 0
    OBVIOUS
  <1>3. \A b \in Utility!Range(issued) : Utility!AddsUp(b)
    BY <1>1, <1>2 DEF Utility!Range
  <1>4. \A m \in Utility!Months : snapped[m] = <<>>
    BY <1>1
  <1>5. \A m \in Utility!Months : Utility!Range(snapped[m]) = {} /\ Utility!IsInjective(snapped[m])
    BY <1>2, <1>4 DEF Utility!Range, Utility!IsInjective
  <1>6. snapped \in [Utility!Months -> Seq(Nat)]
    BY <1>1, <1>2
  <1> QED BY <1>1, <1>2, <1>3, <1>5, <1>6 DEF Utility!UtilityInv

LEMMA UtilityInvHolds == MCSpec => [](InUtility => Utility!UtilityInv)
  <1>1. MCInit => (InUtility => Utility!UtilityInv)
    <2>1. MCInit /\ InUtility => Utility!Init
      BY DEF MCInit, InUtility
    <2> QED BY <2>1, UtilityStarts
  <1>2. (InUtility => Utility!UtilityInv) /\ [MCNext]_vars => (InUtility => Utility!UtilityInv)'
    <2> SUFFICES ASSUME InUtility => Utility!UtilityInv, [MCNext]_vars, InUtility'
                 PROVE  Utility!UtilityInv'
      OBVIOUS
    <2>1. InUtility /\ Utility!UtilityInv
      BY PartKept DEF InUtility
    <2>2. CASE MCNext
      BY <2>1, <2>2, UtilitySteps, UtilityStep
    <2>3. CASE vars' = vars
      <3>1. UNCHANGED <<issued, reading, snapped, credited>>
        BY <2>3 DEF vars
      <3>2. \A b \in Utility!Range(issued)' : Utility!AddsUp(b)'
        <4>1. \A b \in Utility!Range(issued) : Utility!AddsUp(b)
          BY <2>1 DEF Utility!UtilityInv
        <4>2. \A b : Utility!AddsUp(b) => Utility!AddsUp(b)'
          BY <3>1 DEF Utility!AddsUp
        <4>3. Utility!Range(issued)' = Utility!Range(issued)
          BY <3>1 DEF Utility!Range
        <4> QED BY <4>1, <4>2, <4>3
      <3>3. \A m \in Utility!Months : /\ Utility!Range(snapped[m])' = Utility!Range(snapped[m])
                                      /\ Utility!IsInjective(snapped[m])'
        BY <2>1, <3>1 DEF Utility!UtilityInv, Utility!Range, Utility!IsInjective
      <3>4. \A b : Utility!Confirmed(b) => Utility!Confirmed(b)'
        BY <3>1 DEF Utility!Confirmed
      <3> QED BY <2>1, <3>1, <3>2, <3>3, <3>4 DEF Utility!UtilityInv
    <2> QED BY <2>2, <2>3
  <1> QED BY <1>1, <1>2, PTL DEF MCSpec

\* A bill that was read to the end is what the utility issued; of another the check
\* knows no kWh.
LEMMA ReadIs ==
    ASSUME Utility!UtilityInv, NEW b \in 1 .. Len(issued)
    PROVE  /\ Utility!Bill(b).gen # NoRow => reading[b] = "full" /\ Utility!Bill(b) = issued[b]
           /\ Utility!Bill(b).used = issued[b].used /\ Utility!Bill(b).imported = issued[b].imported
           /\ Utility!Bill(b).balance = issued[b].balance
           /\ Utility!Bill(b).estimated = issued[b].estimated
           /\ Utility!Bill(b).production = issued[b].production
           /\ Utility!Bill(b).balance \in Nat /\ Utility!Bill(b).expiring \in Nat
           /\ Utility!Bill(b).gen \in Nat \cup {NoRow}
           /\ Utility!Bill(b).share \in {50, 100, NoRow}
  <1>1. PICK n \in Utility!Issuable : n = issued[b]
    BY LedgerIs
  <1>2. n.gen \in Nat /\ n.gen # NoRow /\ n.balance \in Nat /\ n.expiring \in Nat
        /\ n.share \in {50, 100}
    BY BillNumbers, UtilityConstants
  <1>3. CASE reading[b] = "full"
    BY <1>1, <1>2, <1>3 DEF Utility!Bill
  <1>4. CASE reading[b] # "full"
    <2> DEFINE t == [n EXCEPT !.gen = NoRow, !.share = NoRow, !.expiring = 0]
    <2>1. /\ t.gen = NoRow /\ t.share = NoRow /\ t.expiring = 0 /\ t.used = n.used
          /\ t.imported = n.imported /\ t.balance = n.balance /\ t.estimated = n.estimated
          /\ t.production = n.production
      BY DEF Utility!Issuable
    <2>2. Utility!Bill(b) = t
      BY <1>1, <1>4 DEF Utility!Bill
    <2> HIDE DEF t
    <2> QED BY <1>1, <1>2, <2>1, <2>2
  <1> QED BY <1>3, <1>4

\* Where the credits of a checkable bill start from is one record, of a confirmed bill
\* of the month before.
LEMMA OneStart ==
    ASSUME Utility!UtilityInv, NEW b, Utility!Checkable(b)
    PROVE  \E s : Utility!Starts(b) = {s}
  <1> DEFINE C == Utility!Candidates(b)
             S == Utility!Starts(b)
             f == [p \in C |-> [balance |-> Utility!Bill(p).balance,
                                expiring |-> Utility!Bill(p).expiring]]
  <1>1. S = {f[p] : p \in C}
    BY DEF Utility!Starts
  <1>2. C \subseteq 1 .. Len(issued) /\ Len(issued) \in Nat
    BY LedgerIs DEF Utility!Candidates
  <1>3. DOMAIN f = C /\ f \in [C -> S]
    BY <1>1
  <1> HIDE DEF C, S, f
  <1>4. IsFiniteSet(C)
    <2>1. IsFiniteSet(1 .. Len(issued))
      BY <1>2, FS_Interval
    <2> QED BY <1>2, <2>1, FS_Subset
  <1>5. f \in Surjection(C, S)
    BY <1>1, <1>3 DEF Surjection
  <1>6. IsFiniteSet(S)
    BY <1>4, <1>5, FS_Surjection
  <1>7. Cardinality(S) = 1
    BY DEF S, Utility!Checkable, Utility!Cardinality, Cardinality
  <1> QED BY <1>6, <1>7, FS_Singleton DEF S

\* A gap is what was lost and given away, less what was given back.
LEMMA GapIs ==
    ASSUME Utility!UtilityInv, NEW b \in 1 .. Len(issued), Utility!Missing(b) # NoRow,
           Utility!Confirmed(issued[b].from),
           Utility!Bill(issued[b].from) = issued[issued[b].from]
    PROVE  Utility!Missing(b)
               = Utility!Max({0, issued[b].lost + issued[b].given - issued[b].received})
  <1>1. PICK n \in Utility!Issuable : n = issued[b] /\ Utility!AddsUp(n)
    BY LedgerIs
  <1>2. Utility!Checkable(b)
        /\ Utility!Missing(b) = Utility!Max({0, Utility!Gap(b) - Utility!Allowance(b)})
    BY DEF Utility!Missing
  <1>3. n.from \in 1 .. Len(issued) /\ n.from # 0
    BY <1>1, LedgerIs DEF Utility!Confirmed
  <1>4. PICK f \in Utility!Issuable : f = issued[n.from]
    BY <1>3, LedgerIs
  <1>5. f.month = n.month - 1
        /\ f.balance + n.gen - n.used - n.balance
             = Utility!Max({0, f.expiring - n.used}) + n.lost + n.given - n.received
    BY <1>1, <1>3, <1>4 DEF Utility!AddsUp
  <1>6. Utility!Bill(b).gen # NoRow /\ Utility!Bill(b) = n
    <2>1. Utility!Bill(b).gen # NoRow
      BY <1>2 DEF Utility!Checkable
    <2> QED BY <1>1, <2>1, ReadIs
  <1> DEFINE s == [balance |-> f.balance, expiring |-> f.expiring]
  <1>7. s \in Utility!Starts(b)
    <2>1. n.from \in Utility!Candidates(b)
      BY <1>1, <1>3, <1>4, <1>5, LedgerIs DEF Utility!Candidates
    <2>2. Utility!Bill(n.from) = f
      BY <1>1, <1>4
    <2> QED BY <2>1, <2>2 DEF Utility!Starts
  <1>8. (CHOOSE t \in Utility!Starts(b) : TRUE) = s
    <2>1. PICK t : Utility!Starts(b) = {t}
      BY <1>2, OneStart
    <2> QED BY <1>7, <2>1
  <1>9. s.balance = f.balance /\ s.expiring = f.expiring
    OBVIOUS
  <1> HIDE DEF s
  <1>10. Utility!Gap(b) = n.gen + f.balance - n.used - n.balance
    BY <1>6, <1>8, <1>9 DEF Utility!Gap
  <1>11. Utility!Allowance(b) = Utility!Max({0, f.expiring - n.used})
    BY <1>6, <1>8, <1>9 DEF Utility!Allowance
  <1>12. n.gen \in Nat /\ n.used \in Nat /\ n.balance \in Nat /\ n.lost \in Nat
         /\ n.given \in Nat /\ n.received \in Nat /\ f.balance \in Nat /\ f.expiring \in Nat
    BY BillNumbers
  <1>13. PICK x \in Int : x = Utility!Max({0, f.expiring - n.used})
    <2>1. f.expiring - n.used \in Int
      BY <1>12
    <2> QED BY <2>1, MaxOfTwo
  <1> DEFINE g == n.gen
             u == n.used
             e == n.balance
             l == n.lost
             v == n.given
             r == n.received
             h == f.balance
  <1>14. h + g - u - e = x + l + v - r
    BY <1>5, <1>13
  <1>15. /\ g \in Int /\ u \in Int /\ e \in Int /\ l \in Int /\ v \in Int /\ r \in Int
         /\ h \in Int /\ x \in Int
    BY <1>12, <1>13
  <1>16. Utility!Gap(b) = g + h - u - e /\ Utility!Allowance(b) = x
    BY <1>10, <1>11, <1>13
  <1>17. Utility!Missing(b) = Utility!Max({0, l + v - r})
    <2> HIDE DEF g, u, e, l, v, r, h
    <2>1. Utility!Gap(b) - Utility!Allowance(b) = l + v - r
      BY <1>14, <1>15, <1>16
    <2> QED BY <1>2, <2>1
  <1> QED BY <1>1, <1>17

LEMMA MissingIsNat ==
    ASSUME Utility!UtilityInv, NEW b \in 1 .. Len(issued),
           Utility!Missing(b) # NoRow
    PROVE  Utility!Missing(b) \in Nat
  <1>1. Utility!Checkable(b)
        /\ Utility!Missing(b) = Utility!Max({0, Utility!Gap(b) - Utility!Allowance(b)})
    BY DEF Utility!Missing
  <1>2. PICK s : Utility!Starts(b) = {s}
    BY <1>1, OneStart
  <1>3. PICK p \in Utility!Candidates(b) :
            s = [balance |-> Utility!Bill(p).balance, expiring |-> Utility!Bill(p).expiring]
    BY <1>2 DEF Utility!Starts
  <1>4. p \in 1 .. Len(issued)
    BY <1>3, LedgerIs DEF Utility!Candidates
  <1>5. s.balance \in Nat /\ s.expiring \in Nat
    BY <1>3, <1>4, ReadIs
  <1>6. PICK n \in Utility!Issuable : n = issued[b] /\ Utility!Bill(b) = n
    <2>1. Utility!Bill(b).gen # NoRow
      BY <1>1 DEF Utility!Checkable
    <2> QED BY <2>1, ReadIs, LedgerIs
  <1>7. n.gen \in Nat /\ n.used \in Nat /\ n.balance \in Nat
    BY BillNumbers
  <1>8. (CHOOSE t \in Utility!Starts(b) : TRUE) = s
    BY <1>2
  <1>9. Utility!Gap(b) \in Int
    <2>1. Utility!Gap(b) = n.gen + s.balance - n.used - n.balance
      BY <1>6, <1>8 DEF Utility!Gap
    <2> QED BY <1>5, <1>7, <2>1
  <1>10. Utility!Allowance(b) \in Int
    <2>1. Utility!Allowance(b) = Utility!Max({0, s.expiring - n.used})
      BY <1>6, <1>8 DEF Utility!Allowance
    <2>2. s.expiring - n.used \in Int
      BY <1>5, <1>7
    <2> QED BY <2>1, <2>2, MaxOfTwo
  <1>11. Utility!Gap(b) - Utility!Allowance(b) \in Int
    BY <1>9, <1>10
  <1> QED BY <1>1, <1>11, MaxOfTwo

\* What the meter counted and was not sent can only be a fault of the meter.
LEMMA ImpossibleIs ==
    ASSUME Utility!UtilityInv, NEW b \in 1 .. Len(issued), Utility!Impossible(b)
    PROVE  issued[b].gen > issued[b].sent
  <1>1. PICK n \in Utility!Issuable : n = issued[b] /\ Utility!AddsUp(n)
    BY LedgerIs
  <1>2. Utility!Bill(b) = n
    BY <1>1, ReadIs DEF Utility!Impossible
  <1>3. ~n.estimated /\ n.gen * 100 > n.production * 105
    BY <1>2 DEF Utility!Impossible
  <1>4. n.sent <= n.production /\ n.sent <= n.gen
    BY <1>1, <1>3 DEF Utility!AddsUp
  <1>5. n.sent \in Nat /\ n.production \in Int /\ n.gen \in Nat
    BY BillNumbers
  <1>6. n.gen > n.sent
    BY <1>3, <1>4, <1>5
  <1> QED BY <1>1, <1>6

LEMMA ListedAre ==
    ASSUME Utility!UtilityInv, NEW m \in Utility!Months, NEW b \in Utility!Range(snapped[m])
    PROVE  b \in 1 .. Len(issued) /\ issued[b].month = m
  BY LedgerIs DEF Utility!UtilityInv, Utility!Confirmed

LEMMA MissingExact ==
    ASSUME Utility!UtilityInv
    PROVE  Utility!MissingIsExact
  <1> SUFFICES ASSUME NEW b \in Utility!Listed
               PROVE  LET bill == issued[b]
                          check == Utility!History[b]
                      IN  /\ check.missing = NoRow => check.verdict \notin {"OK", "LOSS"}
                          /\ check.missing # NoRow /\ Utility!Confirmed(bill.from)
                             /\ Utility!Bill(bill.from) = issued[bill.from] =>
                              /\ check.missing = Utility!Max({0, bill.lost + bill.given - bill.received})
                              /\ check.lossConfirmed => bill.lost > 0
                          /\ check.verdict = "IMPOSSIBLE" => bill.gen > bill.sent
    BY DEF Utility!MissingIsExact
  <1>1. b \in 1 .. Len(issued)
    BY ListedAre DEF Utility!Listed
  <1>2. PICK n \in Utility!Issuable : n = issued[b] /\ Utility!AddsUp(n)
    BY <1>1, LedgerIs
  <1>3. PICK check : check = Utility!History[b]
    OBVIOUS
  <1> DEFINE verdict == Utility!Verdict(b, Utility!Shares(b))
  <1>4. /\ check.verdict = verdict /\ check.missing = Utility!Missing(b)
        /\ check.lossConfirmed = (verdict = "LOSS" /\ Utility!Bill(b).share = 100)
    BY <1>3 DEF Utility!History
  <1>5. verdict = "LOSS" => Utility!Missing(b) # NoRow /\ Utility!Missing(b) > 0
    BY DEF Utility!Verdict
  <1>6. verdict = "OK" => Utility!Missing(b) = 0
    BY DEF Utility!Verdict
  <1>7. verdict = "IMPOSSIBLE" => Utility!Impossible(b)
    BY DEF Utility!Verdict
  <1> HIDE DEF verdict
  <1>8. check.missing = NoRow => check.verdict \notin {"OK", "LOSS"}
    BY <1>4, <1>5, <1>6, UtilityConstants
  <1>9. check.verdict = "IMPOSSIBLE" => n.gen > n.sent
    BY <1>1, <1>2, <1>4, <1>7, ImpossibleIs
  <1>10. ASSUME check.missing # NoRow, Utility!Confirmed(n.from),
                Utility!Bill(n.from) = issued[n.from]
         PROVE  /\ check.missing = Utility!Max({0, n.lost + n.given - n.received})
                /\ check.lossConfirmed => n.lost > 0
    <2>1. check.missing = Utility!Max({0, n.lost + n.given - n.received})
      BY <1>1, <1>2, <1>4, <1>10, GapIs
    <2>2. ASSUME check.lossConfirmed PROVE n.lost > 0
      <3>1. verdict = "LOSS" /\ Utility!Bill(b).share = 100 /\ check.missing > 0
        BY <1>4, <1>5, <2>2
      <3>2. n.share = 100
        <4>1. Utility!Checkable(b)
          BY <1>4, <1>10 DEF Utility!Missing
        <4>2. Utility!Bill(b) = n
          BY <1>1, <1>2, <4>1, ReadIs DEF Utility!Checkable
        <4> QED BY <3>1, <4>2
      <3>3. n.given = 0
        BY <1>2, <3>2 DEF Utility!AddsUp
      <3>4. n.lost \in Nat /\ n.received \in Nat /\ n.given \in Nat
        BY BillNumbers
      <3>5. n.lost + n.given - n.received \in Int
        BY <3>4
      <3>6. check.missing = IF n.lost + n.given - n.received > 0
                            THEN n.lost + n.given - n.received ELSE 0
        BY <2>1, <3>5, MaxOfTwo
      <3> QED BY <3>1, <3>3, <3>4, <3>6
    <2> QED BY <2>1, <2>2
  <1> QED BY <1>2, <1>3, <1>8, <1>9, <1>10

\* What is added up month by month is defined for every month.
LEMMA SumDefined ==
    ASSUME NEW f
    PROVE  \E g : g = [m \in 0 .. BillingMonths |->
                          IF m = 0 THEN 0
                          ELSE g[m - 1] + (IF m \in DOMAIN f THEN f[m] ELSE 0)]
  <1> DEFINE Value(m) == IF m \in DOMAIN f THEN f[m] ELSE 0
             Adds(g, n) == g = [m \in 0 .. n |-> IF m = 0 THEN 0 ELSE g[m - 1] + Value(m)]
             Open == {n \in Nat : ~(\E g : Adds(g, n))}
             R == {ss \in Nat \X Nat : ss[1] < ss[2]}
  <1>1. IsWellFoundedOn(R, Nat)
    BY NatLessThanWellFounded DEF OpToRel
  <1> SUFFICES ASSUME BillingMonths \in Open PROVE FALSE
    BY UtilityConstants
  <1>2. Open \subseteq Nat
    OBVIOUS
  <1>3. \A k \in Nat, n \in Nat : k < n => <<k, n>> \in R
    OBVIOUS
  <1> HIDE DEF R
  <1>4. PICK n \in Open : \A k \in Open : <<k, n>> \notin R
    BY <1>1, <1>2, WFMin
  <1> HIDE DEF Value
  <1>5. CASE n = 0
    <2> DEFINE g == [m \in 0 .. 0 |-> 0]
    <2>1. Adds(g, 0)
      OBVIOUS
    <2> QED BY <1>4, <1>5, <2>1
  <1>6. CASE n # 0
    <2>1. n \in Nat /\ n - 1 \in Nat /\ n - 1 < n
      BY <1>4, <1>6
    <2>2. PICK g : Adds(g, n - 1)
      BY <1>3, <1>4, <2>1
    <2>3. \A m \in 0 .. n - 1 : g[m] = IF m = 0 THEN 0 ELSE g[m - 1] + Value(m)
      BY <2>2
    <2> DEFINE h == [m \in 0 .. n |-> IF m = n THEN g[n - 1] + Value(n) ELSE g[m]]
    <2>4. \A m \in 0 .. n : h[m] = IF m = n THEN g[n - 1] + Value(n) ELSE g[m]
      OBVIOUS
    <2>5. DOMAIN h = 0 .. n /\ h = [m \in 0 .. n |-> h[m]]
      OBVIOUS
    <2> HIDE DEF h
    <2>6. \A m \in 0 .. n : h[m] = IF m = 0 THEN 0 ELSE h[m - 1] + Value(m)
      <3> SUFFICES ASSUME NEW m \in 0 .. n
                   PROVE  h[m] = IF m = 0 THEN 0 ELSE h[m - 1] + Value(m)
        OBVIOUS
      <3>1. CASE m = 0
        <4>1. m \in 0 .. n - 1 /\ m # n
          BY <1>6, <2>1, <3>1
        <4> QED BY <2>3, <2>4, <3>1, <4>1
      <3>2. CASE m # 0
        <4>1. m - 1 \in 0 .. n /\ m - 1 # n
          BY <2>1, <3>2
        <4>2. h[m - 1] = g[m - 1]
          BY <2>4, <4>1
        <4>3. CASE m = n
          BY <2>4, <3>2, <4>2, <4>3
        <4>4. CASE m # n
          <5>1. m \in 0 .. n - 1
            BY <2>1, <4>4
          <5> QED BY <2>3, <2>4, <3>2, <4>2, <4>4, <5>1
        <4> QED BY <4>3, <4>4
      <3> QED BY <3>1, <3>2
    <2>7. Adds(h, n)
      BY <2>5, <2>6
    <2> QED BY <1>4, <2>7
  <1> QED BY <1>5, <1>6

LEMMA SumIs ==
    ASSUME NEW f
    PROVE  \E g : /\ Utility!Sum(f) = g[BillingMonths]
                  /\ \A m \in 0 .. BillingMonths :
                        g[m] = IF m = 0 THEN 0
                               ELSE g[m - 1] + (IF m \in DOMAIN f THEN f[m] ELSE 0)
  <1> DEFINE G == CHOOSE g : g = [m \in 0 .. BillingMonths |->
                          IF m = 0 THEN 0
                          ELSE g[m - 1] + (IF m \in DOMAIN f THEN f[m] ELSE 0)]
  <1>1. Utility!Sum(f) = G[BillingMonths]
    BY Zenon DEF Utility!Sum
  <1>2. G = [m \in 0 .. BillingMonths |->
                IF m = 0 THEN 0 ELSE G[m - 1] + (IF m \in DOMAIN f THEN f[m] ELSE 0)]
    BY SumDefined, Zenon
  <1> HIDE DEF G
  <1>3. \A m \in 0 .. BillingMonths :
            G[m] = IF m = 0 THEN 0 ELSE G[m - 1] + (IF m \in DOMAIN f THEN f[m] ELSE 0)
    BY <1>2
  <1> QED BY <1>1, <1>3

\* More in every month is more altogether.
LEMMA SumMonotone ==
    ASSUME NEW f, NEW h, DOMAIN f = DOMAIN h,
           \A m \in DOMAIN f : f[m] \in Int /\ h[m] \in Int /\ f[m] <= h[m]
    PROVE  Utility!Sum(f) \in Int /\ Utility!Sum(h) \in Int /\ Utility!Sum(f) <= Utility!Sum(h)
  <1>1. PICK a : /\ Utility!Sum(f) = a[BillingMonths]
                 /\ \A m \in 0 .. BillingMonths :
                       a[m] = IF m = 0 THEN 0
                              ELSE a[m - 1] + (IF m \in DOMAIN f THEN f[m] ELSE 0)
    BY SumIs
  <1>2. PICK b : /\ Utility!Sum(h) = b[BillingMonths]
                 /\ \A m \in 0 .. BillingMonths :
                       b[m] = IF m = 0 THEN 0
                              ELSE b[m - 1] + (IF m \in DOMAIN h THEN h[m] ELSE 0)
    BY SumIs
  <1> DEFINE Fine(m) == a[m] \in Int /\ b[m] \in Int /\ a[m] <= b[m]
             Bad == {m \in 0 .. BillingMonths : ~Fine(m)}
             R == {ss \in Nat \X Nat : ss[1] < ss[2]}
  <1>3. IsWellFoundedOn(R, Nat)
    BY NatLessThanWellFounded DEF OpToRel
  <1>4. BillingMonths \in Nat
    BY UtilityConstants
  <1>5. Fine(BillingMonths)
    <2> SUFFICES ASSUME ~Fine(BillingMonths) PROVE FALSE
      OBVIOUS
    <2>1. BillingMonths \in Bad /\ Bad \subseteq Nat
      BY <1>4
    <2>2. \A k \in Nat, n \in Nat : k < n => <<k, n>> \in R
      OBVIOUS
    <2> HIDE DEF R
    <2>3. PICK n \in Bad : \A k \in Bad : <<k, n>> \notin R
      BY <1>3, <2>1, WFMin
    <2>4. n \in 0 .. BillingMonths /\ ~Fine(n)
      OBVIOUS
    <2>5. CASE n = 0
      <3>1. a[n] = 0 /\ b[n] = 0
        BY <1>1, <1>2, <2>4, <2>5
      <3> QED BY <2>4, <3>1
    <2>6. CASE n # 0
      <3>1. n - 1 \in 0 .. BillingMonths /\ n - 1 < n /\ n \in Nat /\ n - 1 \in Nat
        BY <1>4, <2>4, <2>6
      <3>2. Fine(n - 1)
        BY <2>2, <2>3, <3>1
      <3>3. a[n] = a[n - 1] + (IF n \in DOMAIN f THEN f[n] ELSE 0)
        BY <1>1, <2>4, <2>6
      <3>4. b[n] = b[n - 1] + (IF n \in DOMAIN h THEN h[n] ELSE 0)
        BY <1>2, <2>4, <2>6
      <3>5. CASE n \in DOMAIN f
        BY <2>4, <3>2, <3>3, <3>4, <3>5
      <3>6. CASE n \notin DOMAIN f
        BY <2>4, <3>2, <3>3, <3>4, <3>6
      <3> QED BY <3>5, <3>6
    <2> QED BY <2>5, <2>6
  <1> QED BY <1>1, <1>2, <1>5

\* The newest bill of a month of the window.
LEMMA WindowIs ==
    ASSUME Utility!UtilityInv, NEW m \in Utility!Considered
    PROVE  /\ m \in Utility!Months
           /\ Utility!Newest(m) \in 1 .. Len(issued) /\ Utility!Newest(m) \in Utility!Listed
  <1>1. m \in Utility!Months /\ snapped[m] # <<>>
    BY DEF Utility!Considered
  <1>2. snapped[m] \in Seq(Nat)
    BY <1>1 DEF Utility!UtilityInv
  <1>3. Len(snapped[m]) \in DOMAIN snapped[m]
    BY <1>1, <1>2, LenProperties, EmptySeq
  <1>4. Utility!Newest(m) \in Utility!Range(snapped[m])
    BY <1>3 DEF Utility!Newest, Utility!Last, Utility!Range
  <1>5. Utility!Newest(m) \in Utility!Listed
    BY <1>1, <1>4 DEF Utility!Listed
  <1> QED BY <1>1, <1>4, <1>5, ListedAre

\* As many months as the window is wide, between ends that far apart, are all of them.
LEMMA WindowHasNoGap ==
    ASSUME NEW S \in SUBSET Utility!Months, ~(Utility!Cardinality(S) < Cycles),
           Utility!Max(S) - Utility!Min(S) = Cycles - 1
    PROVE  S = Utility!Min(S) .. Utility!Min(S) + Cycles - 1
  <1>1. IsFiniteSet(S) /\ S \subseteq Int /\ Cycles \in Nat \ {0}
    <2>1. IsFiniteSet(1 .. BillingMonths)
      BY UtilityConstants, FS_Interval
    <2>2. S \in SUBSET (1 .. BillingMonths)
      BY DEF Utility!Months
    <2>3. IsFiniteSet(S)
      BY <2>1, <2>2, FS_Subset
    <2> QED BY <2>2, <2>3, UtilityConstants
  <1>2. Utility!Cardinality(S) = Cardinality(S)
    BY DEF Utility!Cardinality, Cardinality
  <1>3. Cardinality(S) \in Nat /\ Cardinality(S) >= Cycles
    <2>1. Cardinality(S) \in Nat
      BY <1>1, FS_CardinalityType
    <2> QED BY <1>1, <1>2, <2>1
  <1>4. S # {}
    BY <1>1, <1>3, FS_EmptySet
  <1>5. PICK lo \in Int : lo = Utility!Min(S) /\ \A k \in S : lo <= k
    BY <1>1, <1>4, MinIsIn
  <1>6. PICK hi \in Int : hi = Utility!Max(S) /\ \A k \in S : k <= hi
    BY <1>1, <1>4, MaxIsIn
  <1>7. hi = lo + Cycles - 1
    <2>1. hi - lo = Cycles - 1
      BY <1>5, <1>6
    <2>2. lo \in Int /\ hi \in Int
      OBVIOUS
    <2> QED BY <1>1, <2>1, <2>2
  <1> DEFINE whole == lo .. lo + Cycles - 1
  <1>8. S \subseteq whole
    <2>1. \A k \in S : k \in Int /\ lo <= k /\ k <= hi
      BY <1>1, <1>5, <1>6
    <2> QED BY <1>1, <1>7, <2>1
  <1>9. IsFiniteSet(whole) /\ Cardinality(whole) = Cycles
    <2>1. PICK top \in Int : top = lo + Cycles - 1
      BY <1>1
    <2>2. lo \in Int /\ Cycles \in Nat \ {0} /\ whole = lo .. top
      BY <1>1, <2>1
    <2> HIDE DEF whole
    <2>3. IsFiniteSet(lo .. top) /\ Cardinality(lo .. top) = IF lo > top THEN 0 ELSE top - lo + 1
      BY <2>2, FS_Interval
    <2>4. ~(lo > top) /\ top - lo + 1 = Cycles
      BY <2>1, <2>2
    <2> QED BY <2>2, <2>3, <2>4
  <1>10. S = whole
    <2> HIDE DEF whole
    <2>1. Cardinality(S) <= Cardinality(whole) /\ (Cardinality(whole) = Cardinality(S) => whole = S)
      BY <1>8, <1>9, FS_Subset
    <2>2. Cardinality(S) = Cardinality(whole)
      BY <1>1, <1>3, <1>9, <2>1
    <2> QED BY <2>1, <2>2
  <1> QED BY <1>5, <1>10

\* Nothing, month by month, is nothing altogether.
LEMMA NothingAddsUp ==
    ASSUME NEW W PROVE 0 <= Utility!Sum([m \in W |-> 0])
  <1> DEFINE f == [m \in W |-> 0]
             Value(m) == IF m \in DOMAIN f THEN f[m] ELSE 0
  <1>1. \A m : Value(m) = 0
    OBVIOUS
  <1> HIDE DEF f
  <1>2. PICK g : /\ Utility!Sum(f) = g[BillingMonths]
                 /\ \A m \in 0 .. BillingMonths : g[m] = IF m = 0 THEN 0 ELSE g[m - 1] + Value(m)
    BY SumIs
  <1> HIDE DEF Value
  <1> DEFINE Bad == {m \in 0 .. BillingMonths : g[m] # 0}
             R == {ss \in Nat \X Nat : ss[1] < ss[2]}
  <1>3. IsWellFoundedOn(R, Nat) /\ BillingMonths \in Nat
    BY NatLessThanWellFounded, UtilityConstants DEF OpToRel
  <1>4. g[BillingMonths] = 0
    <2> SUFFICES ASSUME g[BillingMonths] # 0 PROVE FALSE
      OBVIOUS
    <2>1. BillingMonths \in Bad /\ Bad \subseteq Nat
      BY <1>3
    <2>2. \A k \in Nat, n \in Nat : k < n => <<k, n>> \in R
      OBVIOUS
    <2> HIDE DEF R
    <2>3. PICK n \in Bad : \A k \in Bad : <<k, n>> \notin R
      BY <1>3, <2>1, WFMin
    <2>4. n # 0
      BY <1>2
    <2>5. n \in Nat /\ n - 1 \in 0 .. BillingMonths /\ n - 1 \in Nat /\ n - 1 < n
      BY <1>3, <2>4
    <2>6. g[n - 1] = 0
      BY <2>2, <2>3, <2>5
    <2>7. g[n] = g[n - 1] + 0
      BY <1>1, <1>2, <2>4
    <2> QED BY <2>6, <2>7
  <1> QED BY <1>2, <1>4 DEF f

\* A cycle on the screen that is neither a loss nor impossible is possible.
LEMMA NoVerdictHides ==
    ASSUME NEW b \in Utility!Listed, Utility!History[b].verdict \notin {"LOSS", "IMPOSSIBLE"}
    PROVE  ~Utility!Impossible(b)
  <1>1. Utility!History[b].verdict = Utility!Verdict(b, Utility!Shares(b))
    BY DEF Utility!History
  <1> QED BY <1>1 DEF Utility!Verdict

\* What is advised is founded on the bills as the utility issued them.
LEMMA AdviceSound ==
    ASSUME Utility!UtilityInv
    PROVE  Utility!AdviceIsSound
  <1> DEFINE window == Utility!Considered
             advice == Utility!Assessment(window)
             took == [m \in window |-> Utility!Bill(Utility!Newest(m)).imported]
             read == [m \in window |-> Utility!Bill(Utility!Newest(m)).gen]
             gave == [m \in window |-> issued[Utility!Newest(m)].sent]
             imported == Utility!Total(window, "imported")
             counted == Utility!Total(window, "gen")
             sent == Utility!Sum(gave)
             tolerance == imported \div 20
             Excused(m) ==
                /\ issued[Utility!Newest(m)].gen > issued[Utility!Newest(m)].sent
                /\ \/ issued[Utility!Newest(m)].estimated
                   \/ issued[Utility!Newest(m)].production <= 0
                   \/ issued[Utility!Newest(m)].gen * 100
                        <= issued[Utility!Newest(m)].production * 105
  <1>1. imported = Utility!Sum(took) /\ counted = Utility!Sum(read)
    BY DEF Utility!Total
  <1>2. \A m \in window : /\ m \in Utility!Months
                          /\ Utility!Newest(m) \in 1 .. Len(issued)
                          /\ Utility!Newest(m) \in Utility!Listed
    BY WindowIs
  <1>3. advice \in {"AMPLIAR", "NAO_VALE", "EQUILIBRADO"} =>
            /\ ~(Utility!Cardinality(window) < Cycles)
            /\ Utility!Max(window) - Utility!Min(window) = Cycles - 1
            /\ \A m \in window : Utility!Bill(Utility!Newest(m)).gen # NoRow
            /\ \A m \in window : Utility!History[Utility!Newest(m)].verdict
                                    \notin {"LOSS", "IMPOSSIBLE"}
    BY DEF Utility!Assessment
  <1>4. /\ advice = "AMPLIAR" => imported - counted > tolerance
        /\ advice = "NAO_VALE" => imported - counted < -tolerance
        /\ advice = "EQUILIBRADO" => ~(imported - counted > tolerance)
    BY DEF Utility!Assessment
  <1> SUFFICES ASSUME advice \in {"AMPLIAR", "NAO_VALE", "EQUILIBRADO"}
               PROVE  /\ advice = "AMPLIAR" =>
                          /\ imported - sent > tolerance
                          /\ window = Utility!Min(window) .. Utility!Min(window) + Cycles - 1
                      /\ advice \in {"NAO_VALE", "EQUILIBRADO"} =>
                          \/ imported - sent <= tolerance
                          \/ \E m \in window : Excused(m)
    BY DEF Utility!AdviceIsSound
  <1> HIDE DEF window, advice, imported, counted, sent, tolerance
  <1>5. ASSUME NEW m \in window
        PROVE  \E n \in Utility!Issuable :
                  /\ n = issued[Utility!Newest(m)] /\ n = Utility!Bill(Utility!Newest(m))
                  /\ Utility!AddsUp(n)
    <2>1. Utility!Newest(m) \in 1 .. Len(issued) /\ Utility!Bill(Utility!Newest(m)).gen # NoRow
      BY <1>2, <1>3
    <2>2. Utility!Bill(Utility!Newest(m)) = issued[Utility!Newest(m)]
      BY <2>1, ReadIs
    <2> QED BY <2>1, <2>2, LedgerIs
  <1>6. ASSUME NEW m \in window
        PROVE  took[m] \in Nat /\ read[m] \in Nat /\ gave[m] \in Nat /\ gave[m] <= read[m]
    <2>1. PICK n \in Utility!Issuable :
             /\ n = issued[Utility!Newest(m)] /\ n = Utility!Bill(Utility!Newest(m))
             /\ Utility!AddsUp(n)
      BY <1>5
    <2>2. took[m] = n.imported /\ read[m] = n.gen /\ gave[m] = n.sent
      BY <2>1
    <2>3. n.imported \in Nat /\ n.gen \in Nat /\ n.sent \in Nat
      BY BillNumbers
    <2>4. n.sent <= n.gen
      BY <2>1 DEF Utility!AddsUp
    <2> QED BY <2>2, <2>3, <2>4
  <1>7. DOMAIN took = window /\ DOMAIN read = window /\ DOMAIN gave = window
    OBVIOUS
  <1> HIDE DEF took, read, gave
  <1>8. imported \in Int /\ counted \in Int /\ sent \in Int /\ sent <= counted
    <2>1. Utility!Sum(took) \in Int
      <3>1. \A m \in window : took[m] \in Int /\ took[m] <= took[m]
        BY <1>6
      <3> QED BY <1>7, <3>1, SumMonotone
    <2>2. Utility!Sum(gave) \in Int /\ Utility!Sum(read) \in Int
          /\ Utility!Sum(gave) <= Utility!Sum(read)
      <3>1. \A m \in window : gave[m] \in Int /\ read[m] \in Int /\ gave[m] <= read[m]
        BY <1>6
      <3> QED BY <1>7, <3>1, SumMonotone
    <2> QED BY <1>1, <2>1, <2>2 DEF sent
  <1>9. 0 <= imported /\ tolerance \in Int /\ 0 <= tolerance
    <2> DEFINE none == [m \in window |-> 0]
    <2>1. Utility!Sum(none) <= Utility!Sum(took)
      <3>1. DOMAIN none = window /\ \A m \in window : none[m] = 0
        OBVIOUS
      <3> HIDE DEF none
      <3>2. \A m \in window : none[m] \in Int /\ took[m] \in Int /\ none[m] <= took[m]
        BY <1>6, <3>1
      <3> QED BY <1>7, <3>1, <3>2, SumMonotone
    <2>2. 0 <= Utility!Sum(none)
      BY NothingAddsUp
    <2> HIDE DEF none
    <2>3. Utility!Sum(none) \in Int /\ Utility!Sum(took) \in Int
      <3>1. DOMAIN none = window /\ \A m \in window : none[m] = 0
        BY DEF none
      <3>2. \A m \in window : none[m] \in Int /\ took[m] \in Int /\ none[m] <= took[m]
        BY <1>6, <3>1
      <3> QED BY <1>7, <3>1, <3>2, SumMonotone
    <2>4. imported = Utility!Sum(took)
      BY <1>1
    <2> QED BY <2>1, <2>2, <2>3, <2>4 DEF tolerance
  <1>10. ASSUME advice = "AMPLIAR"
         PROVE  /\ imported - sent > tolerance
                /\ window = Utility!Min(window) .. Utility!Min(window) + Cycles - 1
    <2>1. imported - sent > tolerance
      BY <1>4, <1>8, <1>9, <1>10
    <2>2. window \in SUBSET Utility!Months
      BY <1>2
    <2> QED BY <1>3, <1>10, <2>1, <2>2, WindowHasNoGap
  <1>11. ASSUME advice \in {"NAO_VALE", "EQUILIBRADO"}, \A m \in window : ~Excused(m)
         PROVE  imported - sent <= tolerance
    <2>1. ASSUME NEW m \in window PROVE read[m] <= gave[m]
      <3>1. PICK n \in Utility!Issuable :
               /\ n = issued[Utility!Newest(m)] /\ n = Utility!Bill(Utility!Newest(m))
               /\ Utility!AddsUp(n)
        BY <1>5
      <3>2. n.gen \in Nat /\ n.sent \in Nat /\ n.production \in Int /\ n.estimated \in BOOLEAN
            /\ n.gen # NoRow
        BY BillNumbers, UtilityConstants
      <3>3. ~Utility!Impossible(Utility!Newest(m))
        BY <1>2, <1>3, NoVerdictHides
      <3>4. ~(~n.estimated /\ n.production > 0 /\ n.gen * 100 > n.production * 105)
        BY <3>1, <3>2, <3>3 DEF Utility!Impossible
      <3>5. ~(n.gen > n.sent /\ (\/ n.estimated \/ n.production <= 0
                                 \/ n.gen * 100 <= n.production * 105))
        BY <1>11, <3>1
      <3>6. n.gen <= n.sent
        BY <3>2, <3>4, <3>5
      <3> QED BY <3>1, <3>6 DEF read, gave
    <2>2. counted <= sent
      <3>1. \A m \in window : read[m] \in Int /\ gave[m] \in Int /\ read[m] <= gave[m]
        BY <1>6, <2>1
      <3>2. Utility!Sum(read) <= Utility!Sum(gave)
        BY <1>7, <3>1, SumMonotone
      <3> QED BY <1>1, <3>2 DEF sent
    <2>3. imported - counted <= tolerance
      BY <1>4, <1>8, <1>9, <1>11
    <2> QED BY <1>8, <1>9, <2>2, <2>3
  <1> QED BY <1>10, <1>11

\* For every month of the central bank and every tariff there is one answer; credits are
\* said to be missing to the kWh the utility kept, and a plant is enlarged only where
\* more was taken than sent (tariffs/aneel_import.py; market/service.py;
\* reports/utility_check.py; intelligence/expansion.py).
THEOREM FiguresHold == MCSpec => []FiguresStand
  <1>1. (InTariff => Tariff!TariffInv) => (InTariff => Tariff!OneTariffADay /\ Tariff!ToldOrTrue)
    BY DEF Tariff!TariffInv
  <1>2. (InMarket => Market!MarketInv) => (InMarket => Market!AnswersAreStored)
    BY DEF Market!MarketInv
  <1>3. (InUtility => Utility!UtilityInv) =>
            (InUtility => Utility!MissingIsExact /\ Utility!AdviceIsSound)
    BY MissingExact, AdviceSound
  <1> QED BY <1>1, <1>2, <1>3, TariffInvHolds, MarketInvHolds, UtilityInvHolds, PTL
       DEF FiguresStand

-----------------------------------------------------------------------------
(* Their types.                                                             *)

LEMMA UtilityTyped == ASSUME Utility!UtilityInv PROVE Utility!TypeOK
  <1>1. /\ Len(reading) = Len(issued) /\ credited \in Nat
        /\ \A m \in Utility!Months :
              /\ Utility!IsInjective(snapped[m])
              /\ \A b \in Utility!Range(snapped[m]) : issued[b].month = m /\ Utility!Confirmed(b)
    BY DEF Utility!UtilityInv
  <1>2. ASSUME NEW b \in DOMAIN issued
        PROVE  issued[b].balance >= 0 /\ reading[b] \in {"none", "bare", "full"}
    <2>1. PICK n \in Utility!Issuable : n = issued[b] /\ reading[b] \in {"none", "bare", "full"}
      BY LedgerIs
    <2>2. n.balance \in Nat
      BY BillNumbers
    <2> QED BY <2>1, <2>2
  <1> QED BY <1>1, <1>2 DEF Utility!TypeOK

LEMMA MarketTyped == ASSUME Market!MarketInv PROVE Market!TypeOK
  <1>1. ASSUME NEW i \in Market!Series
        PROVE  /\ DOMAIN stored[i] \subseteq 1 .. closed
               /\ Market!Range(stored[i]) \subseteq PlausibleRates
    BY DEF Market!MarketInv, Market!Quoted, Market!Range
  <1>2. ASSUME NEW r \in Requests
        PROVE  request[r].at \in {"idle", "read", "fetch", "insert", "commit"}
    <2>1. request[r] = Market!Resting \/ Market!Asking(request[r])
      BY DEF Market!MarketInv
    <2> QED BY <2>1 DEF Market!Resting, Market!Asking
  <1> QED BY <1>1, <1>2 DEF Market!MarketInv, Market!TypeOK

=============================================================================
