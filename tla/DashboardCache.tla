---------------------------- MODULE DashboardCache ----------------------------
(***************************************************************************)
(* The executive dashboard of a plant, which a process keeps by a fingerprint *)
(* of the readings of the latest cycle (ExecutiveDashboardReadModel), while   *)
(* readings, climate, tariffs and bills are written by others.  Every query   *)
(* sees what is committed when it runs.                                       *)
(***************************************************************************)
EXTENDS EnergyCycle

CONSTANTS
    Requests, Writers,
    Days,           \* 1 .. n
    Bills,          \* in the order of their cycles
    DayValues,         \* what a writer may know of a day: [kwh, status]
    Suns, Tariffs,  \* what may become known of a day, and of the tariff of a bill
    Expectations,   \* expected_production_kwh of a request; 0: none
    MaxEntries,     \* of the cache
    MaxWrites       \* bound: transactions of writers

VARIABLES
    readings,       \* daily_energy: [kwh, status, stamp], stamp for updated_at
    sun,            \* daily_climate_observations
    approved,       \* full tariff of the cycle of each bill, if its class is known
    confirmed,      \* how many of the bills are
    cache,          \* _entries, the least recently used first
    req,            \* the requests under way
    writer,         \* the transactions of writers: when they began
    clock,
    late            \* days written by a transaction that began before another
                    \* one that was already visible

\* Cycles are of days that can be read; no reading is taken for its absence.
ConstantsOK ==
    /\ MaxEntries \in Nat /\ MaxWrites \in Nat
    /\ Bills \in Seq({Bills[b] : b \in DOMAIN Bills})
    /\ \A b \in DOMAIN Bills : Bills[b].id = b /\ CycleOf(Bills[b]) \subseteq Days
    /\ Absent \notin [kwh : {v.kwh : v \in DayValues}, status : {v.status : v \in DayValues},
                     stamp : Nat]

vars == <<readings, sun, approved, confirmed, cache, req, writer, clock, late>>

NoRequest == [step |-> "idle"]

Init ==
    /\ readings = [d \in Days |-> Absent] /\ sun = [d \in Days |-> Absent]
    /\ approved = [b \in DOMAIN Bills |-> Absent] /\ confirmed = 0 /\ cache = <<>>
    /\ req = [r \in Requests |-> NoRequest] /\ writer = [v \in Writers |-> 0]
    /\ clock = 0 /\ late = {}

Stored == [readings |-> readings, sun |-> sun, approved |-> approved]

-----------------------------------------------------------------------------
(* Writers.  now() is the time a transaction began; a row belongs to one      *)
(* writer from its update to the commit, so an update counts when committed.  *)

Begin(v) ==
    /\ writer[v] = 0 /\ clock < MaxWrites
    /\ clock' = clock + 1
    /\ writer' = [writer EXCEPT ![v] = clock + 1]
    /\ UNCHANGED <<readings, sun, approved, confirmed, cache, req, late>>

\* DailyEnergyRepository.upsert: what does not change is not written.
Write(v, d, value) ==
    /\ writer[v] > 0
    /\ readings[d] # Absent =>
           [kwh |-> readings[d].kwh, status |-> readings[d].status] # value
    /\ readings' = [readings EXCEPT ![d] =
           [kwh |-> value.kwh, status |-> value.status, stamp |-> writer[v]]]
    /\ late' = IF \E e \in Days : readings[e] # Absent /\ readings[e].stamp > writer[v]
               THEN late \cup {d} ELSE late
    /\ writer' = [writer EXCEPT ![v] = 0]
    /\ UNCHANGED <<sun, approved, confirmed, cache, req, clock>>

\* The climate of a day is stored.
Observe(v, d, value) ==
    /\ writer[v] > 0 /\ sun[d] # value
    /\ sun' = [sun EXCEPT ![d] = value]
    /\ writer' = [writer EXCEPT ![v] = 0]
    /\ UNCHANGED <<readings, approved, confirmed, cache, req, clock, late>>

\* A tariff of the cycle is registered, or the class of the bill completed.
Approve(v, b, tariff) ==
    /\ writer[v] > 0 /\ approved[b] # tariff
    /\ approved' = [approved EXCEPT ![b] = tariff]
    /\ writer' = [writer EXCEPT ![v] = 0]
    /\ UNCHANGED <<readings, sun, confirmed, cache, req, clock, late>>

Confirm(v) ==
    /\ writer[v] > 0 /\ confirmed < Len(Bills)
    /\ confirmed' = confirmed + 1
    /\ writer' = [writer EXCEPT ![v] = 0]
    /\ UNCHANGED <<readings, sun, approved, cache, req, clock, late>>

-----------------------------------------------------------------------------
(* The dashboard.                                                            *)

\* When a day of these was updated last.
Newest(days) ==
    CHOOSE s \in {0} \cup {readings[d].stamp : d \in days} : \A d \in days : readings[d].stamp <= s

\* energy_fingerprint: count, sum and latest update of the cycle.
Read(bill) == {d \in CycleOf(bill) : readings[d] # Absent}
Fingerprint(bill) ==
    <<Cardinality(Read(bill)), Energy(readings, Read(bill)), Newest(Read(bill))>>

Key(b, expected) ==
    [bill |-> b, expected |-> expected, fingerprint |-> Fingerprint(Bills[b])]

\* compare_latest_confirmed_cycles, and assemble_executive_dashboard.
TrendNow ==
    IF confirmed < 2 THEN {<<"no cycle before", "">>}
    ELSE Trend(Analysis(Stored, Bills[confirmed], 0), Analysis(Stored, Bills[confirmed - 1], 0))

Of(bill) == [d \in CycleOf(bill) |-> readings[d]]

\* get: the latest bill; without one the answer is 404 and nothing happens.
Find(r, expected) ==
    /\ req[r] = NoRequest /\ confirmed > 0
    /\ req' = [req EXCEPT ![r] = [step |-> "look", bill |-> confirmed, expected |-> expected]]
    /\ UNCHANGED <<readings, sun, approved, confirmed, cache, writer, clock, late>>

Cached(key) == {i \in DOMAIN cache : cache[i].key = key}

\* The fingerprint is a query, and the lookup follows it at once.
Hit(r) ==
    /\ req[r].step = "look"
    /\ \E i \in Cached(Key(req[r].bill, req[r].expected)) :
          /\ cache' = Append(RemoveAt(cache, i), cache[i])
          /\ req' = [req EXCEPT ![r] =
                 [step |-> "hit", bill |-> @.bill, expected |-> @.expected,
                  dash |-> cache[i].dash]]
    /\ UNCHANGED <<readings, sun, approved, confirmed, writer, clock, late>>

Miss(r) ==
    /\ req[r].step = "look"
    /\ LET key == Key(req[r].bill, req[r].expected) IN
          /\ Cached(key) = {}
          /\ req' = [req EXCEPT ![r] = [step |-> "build", key |-> key]]
    /\ UNCHANGED <<readings, sun, approved, confirmed, cache, writer, clock, late>>

\* build_executive_dashboard looks for the latest bill again, and analyses it.
Build(r) ==
    /\ req[r].step = "build"
    /\ req' = [req EXCEPT ![r] =
           [step |-> "compare", key |-> @.key,
            now |-> Analysis(Stored, Bills[confirmed], @.key.expected),
            of |-> Of(Bills[confirmed])]]
    /\ UNCHANGED <<readings, sun, approved, confirmed, cache, writer, clock, late>>

\* Mutant of KeyToStore: the fingerprint is taken when the dashboard is stored.
KeyLate(r) == Key(req[r].key.bill, req[r].key.expected)

KeyToStore(r) == req[r].key

\* Mutant of Evicted: one entry too many is kept.
EvictedLate(entries) == IF Len(entries) > MaxEntries + 1 THEN Tail(entries) ELSE entries

Evicted(entries) == IF Len(entries) > MaxEntries THEN Tail(entries) ELSE entries

\* A key has one entry.
Without(key) ==
    IF Cached(key) = {} THEN cache ELSE RemoveAt(cache, CHOOSE i \in Cached(key) : TRUE)

\* The trend reads both cycles anew; _store drops the least recently used.
Compare(r) ==
    /\ req[r].step = "compare"
    /\ LET entry == [key |-> KeyToStore(r),
                     dash |-> [now |-> req[r].now, of |-> req[r].of, trend |-> TrendNow]]
       IN  cache' = Evicted(Append(Without(entry.key), entry))
    /\ req' = [req EXCEPT ![r] = NoRequest]
    /\ UNCHANGED <<readings, sun, approved, confirmed, writer, clock, late>>

Answer(r) ==
    /\ req[r].step = "hit"
    /\ req' = [req EXCEPT ![r] = NoRequest]
    /\ UNCHANGED <<readings, sun, approved, confirmed, cache, writer, clock, late>>

\* The client gives up, or a query fails.
Abandon(r) ==
    /\ req[r].step \in {"look", "build", "compare"}
    /\ req' = [req EXCEPT ![r] = NoRequest]
    /\ UNCHANGED <<readings, sun, approved, confirmed, cache, writer, clock, late>>

Next ==
    \/ \E v \in Writers : Begin(v) \/ Confirm(v)
    \/ \E v \in Writers, d \in Days, value \in DayValues : Write(v, d, value)
    \/ \E v \in Writers, d \in Days, value \in Suns : Observe(v, d, value)
    \/ \E v \in Writers, b \in DOMAIN Bills, tariff \in Tariffs : Approve(v, b, tariff)
    \/ \E r \in Requests, expected \in Expectations : Find(r, expected)
    \/ \E r \in Requests :
          Hit(r) \/ Miss(r) \/ Build(r) \/ Compare(r) \/ Answer(r) \/ Abandon(r)

Spec == Init /\ [][Next]_vars

-----------------------------------------------------------------------------

TypeOK ==
    /\ \A d \in Days : readings[d] # Absent => readings[d].stamp \in 1 .. clock
    /\ confirmed \in 0 .. Len(Bills) /\ clock \in 0 .. MaxWrites /\ late \subseteq Days
    /\ Len(cache) <= MaxEntries
    /\ \A i, j \in DOMAIN cache : cache[i].key = cache[j].key => i = j

HitNow(r) == req[r].step = "look" /\ req'[r].step = "hit"

\* A hit shows the readings of its cycle as they are, whatever was written while
\* the dashboard was built, evicted or built again by another request, unless a
\* transaction that began earlier was committed later; and never a cycle before
\* the one that was asked for (intelligence/dashboard_cache.py,
\* energy_fingerprint; dashboard_readmodel.py, get).
HitStep ==
    \A r \in Requests :
        HitNow(r) =>
            LET bill == req[r].bill
                dash == req'[r].dash
            IN  /\ dash.now.bill >= bill
                /\ dash.now.bill = bill =>
                       \/ dash.of = Of(Bills[bill])
                       \/ CycleOf(Bills[bill]) \cap late # {}

HitIsCurrent == [][HitStep]_vars

\* dashboard_readmodel.py, of the class: "um acerto de cache só ocorre quando o
\* dashboard seria idêntico" to the one that would be built now, even if only
\* hits are asked for that no bill was confirmed under.  A dashboard depends on
\* more than the readings of the cycle.
NeverStale ==
    [][\A r \in Requests :
           HitNow(r) /\ req[r].bill = confirmed /\ req'[r].dash.now.bill = confirmed =>
               /\ req'[r].dash.now = Analysis(Stored, Bills[confirmed], req[r].expected)
               /\ req'[r].dash.trend = TrendNow]_vars

-----------------------------------------------------------------------------
(* Why a hit is current.                                                     *)

\* A stamp is of one transaction, which writes once.
StampsAreOnes ==
    /\ \A v \in Writers : writer[v] \in 0 .. clock
    /\ \A v, w \in Writers : v # w /\ writer[v] > 0 => writer[v] # writer[w]
    /\ \A d \in Days, v \in Writers : readings[d] # Absent => readings[d].stamp # writer[v]

\* What is newest of a cycle only becomes newer, so that a fingerprint once gone
\* does not come back.
Orderly(b) == CycleOf(Bills[b]) \cap late = {}
KeyOK(key) ==
    /\ key.bill \in DOMAIN Bills /\ key.fingerprint[3] \in Nat
    /\ Orderly(key.bill) => key.fingerprint[3] <= Newest(Read(Bills[key.bill]))

\* Built under a key, a dashboard is of what it stands for while that is the newest.
BuiltOK(key, now, of) ==
    /\ now.bill \in Nat /\ now.bill >= key.bill
    /\ now.bill = key.bill /\ Orderly(key.bill)
           /\ key.fingerprint[3] = Newest(Read(Bills[key.bill])) => of = Of(Bills[key.bill])

RequestOK(x) ==
    /\ x.step \in {"idle", "look", "build", "compare", "hit"}
    /\ x.step = "look" => x.bill \in 1 .. confirmed
    /\ x.step = "build" => KeyOK(x.key) /\ x.key.bill <= confirmed
    /\ x.step = "compare" => KeyOK(x.key) /\ BuiltOK(x.key, x.now, x.of)

Asked == {req[r] : r \in Requests}

EntryOK(e) == KeyOK(e.key) /\ BuiltOK(e.key, e.dash.now, e.dash.of)
Entries == {cache[i] : i \in DOMAIN cache}

DashInv ==
    /\ TypeOK /\ StampsAreOnes
    /\ readings = [d \in Days |-> readings[d]] /\ writer = [v \in Writers |-> writer[v]]
    /\ req = [r \in Requests |-> req[r]] /\ \A x \in Asked : RequestOK(x)
    /\ cache \in Seq(Entries) /\ \A e \in Entries : EntryOK(e)
=============================================================================
