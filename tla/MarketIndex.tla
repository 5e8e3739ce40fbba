----------------------------- MODULE MarketIndex -----------------------------
(***************************************************************************)
(* Monthly CDI and IPCA, stored as they are asked for: a request reads what   *)
(* is stored, fetches the closed months that are missing, at most once in a   *)
(* while per worker, inserts them in a savepoint and commits at its end.      *)
(* Months are numbers; one step of now is the retry interval.                 *)
(***************************************************************************)
EXTENDS Integers, Sequences, FiniteSets, Functions

CONSTANTS
    Requests, Workers,
    Indexes,        \* the series in the order a request asks for them
    LastMonth,
    Rates,          \* what a payload may say of a month
    PlausibleRates,
    Allowed,        \* bcb_host_allowed
    LastInterval, MaxRequests,      \* bounds
    Absent

VARIABLES
    stored,         \* market_index_monthly, committed
    closed,         \* last_closed_month
    now, lastAttempt,
    request,
    answered,       \* [index, month, rate] of the answers sent
    asked

vars == <<stored, closed, now, lastAttempt, request, answered, asked>>

Series == Range(Indexes)
Months == 1 .. LastMonth
NoRates == [i \in Series |-> [m \in {} |-> Absent]]
Resting == [at |-> "idle"]

Init ==
    /\ stored = NoRates /\ closed = 1 /\ now = 1
    /\ lastAttempt = [w \in Workers |-> [i \in Series |-> 0]]
    /\ request = [r \in Requests |-> Resting] /\ answered = {} /\ asked = 0

-----------------------------------------------------------------------------
Index(q) == Indexes[q.step]
\* f with what g says of further months.
With(f, g) == [m \in DOMAIN f \cup DOMAIN g |-> IF m \in DOMAIN f THEN f[m] ELSE g[m]]

\* The transaction sees its own rows and those committed.
Visible(q, i) == With(stored[i], q.own[i])
Wanted(q) == 1 .. q.upto
Missing(q) == Wanted(q) \ DOMAIN q.found[Index(q)]

Begin(r, w) ==
    /\ request[r].at = "idle" /\ asked < MaxRequests
    /\ request' = [request EXCEPT ![r] =
                    [at |-> "read", worker |-> w, step |-> 1, upto |-> closed,
                     found |-> NoRates, own |-> NoRates, fetched |-> [m \in {} |-> Absent]]]
    /\ asked' = asked + 1
    /\ UNCHANGED <<stored, closed, now, lastAttempt, answered>>

\* The request with the rates of its series, on to the next series or to its end.
Having(q, rates) ==
    [q EXCEPT !.found[Index(q)] = rates, !.step = q.step + 1,
              !.at = IF q.step = Len(Indexes) THEN "commit" ELSE "read"]

Read(r) ==
    LET q == request[r]
        known == Restrict(Visible(q, Index(q)), Wanted(q) \cap DOMAIN Visible(q, Index(q)))
        fetch == Allowed /\ Wanted(q) \ DOMAIN known # {} /\ lastAttempt[q.worker][Index(q)] < now
    IN
    /\ q.at = "read"
    /\ request' = [request EXCEPT ![r] =
                    IF fetch THEN [q EXCEPT !.found[Index(q)] = known, !.at = "fetch"]
                    ELSE Having(q, known)]
    /\ lastAttempt' = IF fetch THEN [lastAttempt EXCEPT ![q.worker][Index(q)] = now]
                      ELSE lastAttempt
    /\ UNCHANGED <<stored, closed, now, answered, asked>>

\* client.monthly_rates: nothing of a payload with an implausible rate is kept.
FetchFails(r) ==
    LET q == request[r] IN
    /\ q.at = "fetch"
    /\ request' = [request EXCEPT ![r] = Having(q, q.found[Index(q)])]
    /\ UNCHANGED <<stored, closed, now, lastAttempt, answered, asked>>

Fetched(q, payload) == Restrict(payload, DOMAIN payload \cap Missing(q))

FetchAnswers(r) ==
    LET q == request[r] IN
    /\ q.at = "fetch"
    /\ \E months \in SUBSET Months : \E payload \in [months -> Rates] :
        /\ Range(payload) \subseteq PlausibleRates
        /\ request' = [request EXCEPT ![r] =
                        IF DOMAIN Fetched(q, payload) = {} THEN Having(q, q.found[Index(q)])
                        ELSE [q EXCEPT !.at = "insert", !.fetched = Fetched(q, payload)]]
    /\ UNCHANGED <<stored, closed, now, lastAttempt, answered, asked>>

Writing(r, i) == IF request[r].at = "idle" THEN {} ELSE DOMAIN request[r].own[i]

\* Mutant of Insert: after a conflict the answer keeps the rates the request fetched.
InsertKeepsFetched(r) ==
    LET q == request[r]
        i == Index(q)
        new == DOMAIN q.fetched
        clash == new \cap DOMAIN stored[i] # {}
    IN
    /\ q.at = "insert"
    /\ \A s \in Requests \ {r} : Writing(s, i) \cap new = {}
    /\ request' = [request EXCEPT ![r] =
                    [Having(q, With(q.found[i], q.fetched)) EXCEPT
                        !.own[i] = IF clash THEN [m \in {} |-> Absent] ELSE q.fetched]]
    /\ UNCHANGED <<stored, closed, now, lastAttempt, answered, asked>>

\* Waits for transactions that inserted one of the months; what they committed undoes
\* the savepoint, and the rates are read again.
Insert(r) ==
    LET q == request[r]
        i == Index(q)
        new == DOMAIN q.fetched
        again == Restrict(stored[i], Wanted(q) \cap DOMAIN stored[i])
    IN
    /\ q.at = "insert"
    /\ \A s \in Requests \ {r} : Writing(s, i) \cap new = {}
    /\ request' = [request EXCEPT ![r] =
                    IF new \cap DOMAIN stored[i] # {} THEN Having(q, again)
                    ELSE [Having(q, With(q.found[i], q.fetched)) EXCEPT !.own[i] = q.fetched]]
    /\ UNCHANGED <<stored, closed, now, lastAttempt, answered, asked>>

Answer(q) ==
    UNION {{[index |-> i, month |-> m, rate |-> q.found[i][m]] : m \in DOMAIN q.found[i]} :
           i \in Series}

Commit(r) ==
    LET q == request[r] IN
    /\ q.at = "commit"
    /\ stored' = [i \in Series |-> With(stored[i], q.own[i])]
    /\ answered' = answered \cup Answer(q)
    /\ request' = [request EXCEPT ![r] = Resting]
    /\ UNCHANGED <<closed, now, lastAttempt, asked>>

\* An error of the request, or its client gone: everything it inserted is rolled
\* back, and the attempt is spent all the same.
Fail(r) ==
    /\ request[r].at # "idle"
    /\ request' = [request EXCEPT ![r] = Resting]
    /\ UNCHANGED <<stored, closed, now, lastAttempt, answered, asked>>

Restart(w) ==
    /\ lastAttempt' = [lastAttempt EXCEPT ![w] = [i \in Series |-> 0]]
    /\ request' = [r \in Requests |->
                    IF request[r].at # "idle" /\ request[r].worker = w THEN Resting
                    ELSE request[r]]
    /\ UNCHANGED <<stored, closed, now, answered, asked>>

Tick == now < LastInterval /\ now' = now + 1
        /\ UNCHANGED <<stored, closed, lastAttempt, request, answered, asked>>

CloseMonth == closed < LastMonth /\ closed' = closed + 1
              /\ UNCHANGED <<stored, now, lastAttempt, request, answered, asked>>

Next ==
    \/ \E r \in Requests, w \in Workers : Begin(r, w)
    \/ \E r \in Requests :
        Read(r) \/ FetchFails(r) \/ FetchAnswers(r) \/ Insert(r) \/ Commit(r) \/ Fail(r)
    \/ \E w \in Workers : Restart(w)
    \/ Tick
    \/ CloseMonth

Spec == Init /\ [][Next]_vars

-----------------------------------------------------------------------------
\* Only closed months and plausible rates are stored.
TypeOK ==
    /\ \A i \in Series : DOMAIN stored[i] \subseteq 1 .. closed
                         /\ Range(stored[i]) \subseteq PlausibleRates
    /\ closed \in Months /\ now \in 1 .. LastInterval /\ asked \in 0 .. MaxRequests
    /\ \A w \in Workers, i \in Series : lastAttempt[w][i] \in 0 .. now
    /\ \A r \in Requests : request[r].at \in {"idle", "read", "fetch", "insert", "commit"}

\* Every client is shown the rates of the table, the same whenever it asks: what an
\* answer said of a month is stored, and is what every other answer said of it,
\* although workers fetch the month at the same time, read different payloads and
\* roll back (market/service.py: "o que já está no banco não é sobrescrito").
AnswersAreStored ==
    \A a \in answered : a.month \in DOMAIN stored[a.index] /\ stored[a.index][a.month] = a.rate

-----------------------------------------------------------------------------
(* Why what was answered stays true: a month is stored once, by one of the    *)
(* transactions that have it for themselves, and then never changes.          *)

ConstantsOK ==
    /\ Indexes \in Seq(Series) /\ Indexes # <<>> /\ IsInjective(Indexes)
    /\ LastMonth \in Nat \ {0} /\ LastInterval \in Nat \ {0} /\ MaxRequests \in Nat

Quoted(f) == DOMAIN f \subseteq 1 .. closed /\ \A m \in DOMAIN f : f[m] \in PlausibleRates

\* A request at work shows what is stored or what it inserted itself, which nobody
\* else stored; of the series still to come it inserted nothing.
Asking(q) ==
    /\ q = [at |-> q.at, worker |-> q.worker, step |-> q.step, upto |-> q.upto,
            found |-> q.found, own |-> q.own, fetched |-> q.fetched]
    /\ q.at \in {"read", "fetch", "insert", "commit"} /\ q.worker \in Workers
    /\ q.upto \in 1 .. closed /\ q.step \in 1 .. Len(Indexes) + 1
    /\ q.at # "commit" => q.step <= Len(Indexes)
    /\ DOMAIN q.found = Series /\ DOMAIN q.own = Series
    /\ \A i \in Series :
        /\ Quoted(q.own[i]) /\ DOMAIN q.own[i] \cap DOMAIN stored[i] = {}
        /\ \A m \in DOMAIN q.found[i] :
            m \in DOMAIN Visible(q, i) /\ q.found[i][m] = Visible(q, i)[m]
    /\ \A k \in q.step .. Len(Indexes) : DOMAIN q.own[Indexes[k]] = {}
    /\ q.at = "insert" => Quoted(q.fetched)

MarketInv ==
    /\ DOMAIN stored = Series /\ \A i \in Series : Quoted(stored[i])
    /\ closed \in Months /\ now \in 1 .. LastInterval /\ asked \in 0 .. MaxRequests
    /\ DOMAIN lastAttempt = Workers /\ DOMAIN request = Requests
    /\ \A w \in Workers : DOMAIN lastAttempt[w] = Series
    /\ \A w \in Workers, i \in Series : lastAttempt[w][i] \in 0 .. now
    /\ \A q \in {request[r] : r \in Requests} : q = Resting \/ Asking(q)
    /\ \A r \in Requests : \A s \in Requests \ {r}, i \in Series :
        Writing(r, i) \cap Writing(s, i) = {}
    /\ \A a \in answered : a.index \in Series
    /\ AnswersAreStored

=============================================================================
