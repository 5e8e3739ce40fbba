---------------------------- MODULE SolarCollection ----------------------------
(***************************************************************************)
(* The daily collection: for every connected plant, the manufacturer is      *)
(* signed in to, asked for the devices and then for the day, with retries;   *)
(* what cannot be had is queued, or closed by the total of the night; and    *)
(* how it went is written on the connection.                                *)
(*   cloud_jobs.py (run_collection), collection/job.py,                     *)
(*   providers/resilient.py, providers/factory.py,                          *)
(*   providers/nepviewer/client.py, providers/growatt/client.py and         *)
(*   openapi.py, providers/accounts.py, collection/queue.py (enqueue)        *)
(*                                                                          *)
(* The manufacturer answers anything at any time.  Owners connect and        *)
(* disconnect plants while the job runs.                                    *)
(***************************************************************************)
EXTENDS Naturals, FiniteSets

CONSTANTS
    Plants,
    MaxAttempts,        \* RetryPolicy.max_attempts
    MaxConnections,     \* bound: connections ever made to a plant
    MaxAgain            \* bound: sessions the manufacturer refuses in one run

ConstantsOK ==
    MaxAttempts \in Nat \ {0} /\ MaxConnections \in Nat /\ MaxAgain \in Nat

VARIABLES
    account,    \* provider_accounts: number of the connection, its brand, if it is active
    outcome,    \* connections whose success and whose failure its row tells of (0: none);
                \* and history: the failure was written after the connection changed
    queue,      \* the task of the day in collection_tasks: none, or when it is due
    stored,     \* the day has its production
    run,        \* the job: step, plants to do with their brand, the call under way
    told        \* history of the run, by plant: what the manufacturer told

vars == <<account, outcome, queue, stored, run, told>>

Brands == {"nep", "growatt", "token"}
None == [n |-> 0, brand |-> "nep", active |-> FALSE]
AccountRow == [n : 0 .. MaxConnections, brand : Brands, active : BOOLEAN]
Outcomes == [ok : 0 .. MaxConnections, failed : 0 .. MaxConnections, late : BOOLEAN]
Errors == {"none", "auth", "blocked", "limited", "down", "odd", "other"}

Rest == [at |-> "idle", todo |-> {}, brand |-> [p \in Plants |-> "nep"], plant |-> {},
         conn |-> None, signed |-> FALSE, listed |-> FALSE, op |-> "list", tries |-> 0,
         again |-> 0, error |-> "none", problems |-> {}]
Steps == {"idle", "next", "calling", "storing", "raised", "fallback", "outcome", "finished"}

\* What a plant's manufacturer said in this run: nothing of the day; that the
\* account is refused or limited; and what the plant had before, or since.
Silent == [nothing |-> FALSE, refused |-> FALSE, queued |-> FALSE, swapped |-> FALSE, taken |-> FALSE]

TypeOK ==
    /\ account \in [Plants -> AccountRow] /\ outcome \in [Plants -> Outcomes]
    /\ queue \in [Plants -> {"none", "soon", "slow"}] /\ stored \in [Plants -> BOOLEAN]
    /\ run \in [at : Steps, todo : SUBSET Plants, brand : [Plants -> Brands],
                plant : SUBSET Plants, conn : AccountRow, signed : BOOLEAN, listed : BOOLEAN,
                op : {"list", "energy"}, tries : 0 .. MaxAttempts, again : 0 .. MaxAgain,
                error : Errors, problems : SUBSET Plants]
    /\ Cardinality(run.plant) <= 1
    /\ told \in [Plants -> [nothing : BOOLEAN, refused : BOOLEAN, queued : BOOLEAN,
                            swapped : BOOLEAN, taken : BOOLEAN]]

Init ==
    /\ account = [p \in Plants |-> None]
    /\ outcome = [p \in Plants |-> [ok |-> 0, failed |-> 0, late |-> FALSE]]
    /\ queue = [p \in Plants |-> "none"] /\ stored = [p \in Plants |-> FALSE]
    /\ run = Rest /\ told = [p \in Plants |-> Silent]

Only(p) == run.plant = {p}
Says(p, field) == told' = [told EXCEPT ![p][field] = TRUE]

-----------------------------------------------------------------------------
(* The owners.                                                              *)

\* Mutant of Connected: the last failure stays on the connection.
ConnectedKeeping(p) == UNCHANGED outcome

\* save clears the last failure.
Connected(p) == outcome' = [outcome EXCEPT ![p].failed = 0, ![p].late = FALSE]

\* ProviderAccountService.save: the plant has one row, which every connection reuses.
Connect(p, b) ==
    /\ account[p].n < MaxConnections
    /\ account' = [account EXCEPT ![p] = [n |-> @.n + 1, brand |-> b, active |-> TRUE]]
    /\ Connected(p) /\ Says(p, "swapped") /\ UNCHANGED <<queue, stored, run>>

\* ProviderAccountService.deactivate.
Disconnect(p) ==
    /\ account[p].active /\ account' = [account EXCEPT ![p].active = FALSE] /\ Says(p, "swapped")
    /\ UNCHANGED <<outcome, queue, stored, run>>

-----------------------------------------------------------------------------
(* run_collection.                                                          *)

\* The connections are listed, with their brands.
StartRun ==
    /\ run.at \in {"idle", "finished"} /\ \E p \in Plants : account[p].active
    /\ run' = [Rest EXCEPT !.at = "next", !.todo = {p \in Plants : account[p].active},
                           !.brand = [p \in Plants |-> account[p].brand]]
    /\ told' = [p \in Plants |-> [Silent EXCEPT !.queued = queue[p] # "none"]]
    /\ UNCHANGED <<account, outcome, queue, stored>>

\* A plant that was disconnected meanwhile is skipped; that of another connection
\* is not told from the one that was listed.
SkipPlant(p) ==
    /\ run.at = "next" /\ p \in run.todo /\ ~account[p].active
    /\ run' = [run EXCEPT !.todo = @ \ {p}]
    /\ UNCHANGED <<account, outcome, queue, stored, told>>

\* The credentials are opened and the client is built, of the brand listed.
TakePlant(p) ==
    /\ run.at = "next" /\ p \in run.todo /\ account[p].active
    /\ run' = [Rest EXCEPT !.at = "calling", !.todo = run.todo \ {p}, !.brand = run.brand,
                           !.plant = {p}, !.conn = account[p], !.tries = 1,
                           !.problems = run.problems]
    /\ told' = [told EXCEPT ![p].taken = TRUE, ![p].swapped = FALSE]
    /\ UNCHANGED <<account, outcome, queue, stored>>

Brand == run.brand[CHOOSE p \in Plants : run.plant = {p}]

-----------------------------------------------------------------------------
(* The manufacturer's clients.                                              *)

Stay == UNCHANGED <<account, outcome, queue, stored>>

\* Mutant of Transient: a refused login is tried again like a timeout.
TransientAll == {"down", "auth"}

\* ResilientSolarProvider: the errors worth another attempt.
Transient == {"down"}

Answered(p, e) ==
    /\ run' = IF e \in Transient /\ run.tries < MaxAttempts
              THEN [run EXCEPT !.tries = @ + 1]
              ELSE [run EXCEPT !.at = "raised", !.error = e]
    /\ told' = IF e \in {"auth", "blocked", "limited"} THEN [told EXCEPT ![p].refused = TRUE] ELSE told

NeedsSignIn == Brand # "token" /\ ~run.signed

\* NepViewerClient._authenticate, GrowattClient._login.
SignIn(p) ==
    /\ Only(p) /\ run.at = "calling" /\ NeedsSignIn
    /\ run' = [run EXCEPT !.signed = TRUE] /\ Stay /\ UNCHANGED told

SignInErrors == {"auth", "down", "odd"} \cup IF Brand = "growatt" THEN {"blocked", "limited"} ELSE {}

SignInFails(p, e) ==
    /\ Only(p) /\ run.at = "calling" /\ NeedsSignIn /\ e \in SignInErrors
    /\ Answered(p, e) /\ Stay

\* list_devices: the OpenAPI client remembers its plants.
Listed(p) ==
    /\ Only(p) /\ run.at = "calling" /\ ~NeedsSignIn /\ run.op = "list"
    /\ run' = [run EXCEPT !.op = "energy", !.tries = 1, !.listed = TRUE] /\ Stay /\ UNCHANGED told

\* get_daily_energy, with or without the day.
GotDay(p, some) ==
    /\ Only(p) /\ run.at = "calling" /\ ~NeedsSignIn /\ run.op = "energy"
    /\ run' = [run EXCEPT !.at = "storing"]
    /\ IF some THEN UNCHANGED told ELSE Says(p, "nothing")
    /\ Stay

\* NEPViewer's session is refused: sign in and ask once more, as often as it takes.
SessionRefused(p) ==
    /\ Only(p) /\ run.at = "calling" /\ ~NeedsSignIn /\ Brand = "nep" /\ run.again < MaxAgain
    /\ run' = [run EXCEPT !.signed = FALSE, !.again = @ + 1] /\ Stay /\ UNCHANGED told

\* A redirect of Growatt's is an expired session, which its client does not renew.
CallErrors == {"down", "odd"} \cup IF Brand = "nep" THEN {} ELSE {"auth", "limited"}

CallFails(p, e) ==
    /\ Only(p) /\ run.at = "calling" /\ ~NeedsSignIn /\ e \in CallErrors
    /\ Answered(p, e) /\ Stay

-----------------------------------------------------------------------------
(* run_solar_collection.                                                    *)

Ends(p, failed) ==
    run' = [run EXCEPT !.at = "outcome", !.problems = IF failed THEN @ \cup {p} ELSE @]

StoreDay(p) ==
    /\ Only(p) /\ run.at = "storing"
    /\ stored' = [stored EXCEPT ![p] = @ \/ ~told[p].nothing]
    /\ Ends(p, FALSE) /\ UNCHANGED <<account, outcome, queue, told>>

\* The device is of another plant, or the database fails.
StoreFails(p) ==
    /\ Only(p) /\ run.at = "storing"
    /\ run' = [run EXCEPT !.at = "raised", !.error = "other"] /\ Stay /\ UNCHANGED told

\* Mutant of Enqueue: only accounts that were refused are queued.
EnqueueRefused(p, due) == queue' = IF due = "slow" THEN [queue EXCEPT ![p] = due] ELSE queue

\* enqueue: a task of the day that is waiting already is left as it is.
Enqueue(p, due) == queue' = IF queue[p] = "none" THEN [queue EXCEPT ![p] = due] ELSE queue

ClosedHistory == run.error = "auth" /\ Brand = "token" /\ run.listed

\* Mutant of Due: a day is queued without a time.
DueTomorrow(e) == "tomorrow"

\* Mutant of Due: every failure comes back soon.
DueSoon(e) == "soon"

\* A refused or limited account waits long, other errors of the manufacturer a little.
Due(e) == IF e \in {"auth", "blocked", "limited"} THEN "slow" ELSE "soon"

Queued == {"auth", "blocked", "limited", "down", "odd"}

\* The day is queued; a refused account also counts as a problem of the job.
Defer(p) ==
    /\ Only(p) /\ run.at = "raised" /\ run.error \in Queued /\ ~ClosedHistory
    /\ Enqueue(p, Due(run.error)) /\ Ends(p, Due(run.error) = "slow")
    /\ UNCHANGED <<account, outcome, stored, told>>

\* What is no error of the manufacturer's, or the queue cannot be written.
GiveUp(p) ==
    /\ Only(p) /\ run.at = "raised"
    /\ Ends(p, run.error \in Queued \cup {"other"}) /\ Stay /\ UNCHANGED told

\* _meter_fallback: by day there is nothing to do ...
Daylight(p) ==
    /\ Only(p) /\ run.at = "raised" /\ ClosedHistory
    /\ Ends(p, FALSE) /\ Says(p, "nothing") /\ Stay

\* ... in the dark the total in the list remembered is recorded, which closes the
\* day or not (DailyEnergy), or fails.
MeterRead(p, closes) ==
    /\ Only(p) /\ run.at = "raised" /\ ClosedHistory
    /\ stored' = [stored EXCEPT ![p] = @ \/ closes]
    /\ IF closes THEN UNCHANGED told ELSE Says(p, "nothing")
    /\ Ends(p, FALSE) /\ UNCHANGED <<account, outcome, queue>>

MeterFails(p) ==
    /\ Only(p) /\ run.at = "raised" /\ ClosedHistory
    /\ Ends(p, TRUE) /\ Stay /\ UNCHANGED told

-----------------------------------------------------------------------------

Continue == run' = [run EXCEPT !.at = "next", !.plant = {}]

\* _write_provider_outcome: on the connection the plant has now, if it has one.
RecordOutcome(p) ==
    /\ Only(p) /\ run.at = "outcome"
    /\ outcome' =
          IF ~account[p].active THEN outcome
          ELSE IF p \in run.problems \/ run.error \in {"down", "odd"}
          THEN [outcome EXCEPT ![p].failed = run.conn.n, ![p].late = told[p].swapped]
          ELSE [outcome EXCEPT ![p] = [ok |-> run.conn.n, failed |-> 0, late |-> FALSE]]
    /\ Continue /\ UNCHANGED <<account, queue, stored, told>>

\* An outcome that cannot be written is only logged.
OutcomeLost(p) ==
    /\ Only(p) /\ run.at = "outcome" /\ Continue /\ Stay /\ UNCHANGED told

FinishRun ==
    /\ run.at = "next" /\ run.todo = {}
    /\ run' = [Rest EXCEPT !.at = "finished", !.problems = run.problems] /\ Stay /\ UNCHANGED told

\* The job is killed.
Killed == run.at \notin {"idle", "finished"} /\ run' = Rest /\ Stay /\ UNCHANGED told

Next ==
    \/ \E p \in Plants, b \in Brands : Connect(p, b)
    \/ \E p \in Plants :
          \/ Disconnect(p) \/ SkipPlant(p) \/ TakePlant(p) \/ SignIn(p) \/ Listed(p)
          \/ SessionRefused(p) \/ StoreDay(p) \/ StoreFails(p) \/ Defer(p) \/ GiveUp(p)
          \/ Daylight(p) \/ MeterFails(p)
          \/ RecordOutcome(p) \/ OutcomeLost(p)
    \/ \E p \in Plants, e \in Errors : SignInFails(p, e) \/ CallFails(p, e)
    \/ \E p \in Plants, b \in BOOLEAN : GotDay(p, b) \/ MeterRead(p, b)
    \/ StartRun \/ FinishRun \/ Killed

Spec == Init /\ [][Next]_vars

-----------------------------------------------------------------------------

\* Once a run is through, a plant it collected has its day, or a task for it, or
\* is among the problems that fail the job; unless the manufacturer had nothing
\* to tell of the day (cloud_jobs.py, run_collection; collection/job.py).
NoDayDropped ==
    run.at = "finished" => \A p \in Plants :
        told[p].taken => stored[p] \/ queue[p] # "none" \/ p \in run.problems \/ told[p].nothing

\* An account that was refused or limited waits long, unless its day waited in
\* the queue already, which is left as it was (collection/job.py, _enqueue_retry;
\* collection/queue.py, enqueue).
RefusedWaitsLong ==
    \A p \in Plants : told[p].refused /\ queue[p] = "soon" => told[p].queued

\* An account that was refused or limited is not called again in the run: neither
\* by another attempt nor by the fallback, which uses the list it has
\* (providers/resilient.py, growatt/openapi.py, meter_totals).
RefusedStep ==
    \A p \in Plants :
        Only(p) /\ told[p].refused /\ run.at \in {"calling", "raised"}
            => run'.at \in {"raised", "outcome", "idle"} \/ run' = run
RefusedIsLeftAlone == [][RefusedStep]_vars

\* A failure written on a connection is its own, unless the plant was connected
\* anew while the run that failed was under way (providers/accounts.py, save;
\* cloud_jobs.py, _write_provider_outcome).
FailureIsOwn ==
    \A p \in Plants :
        outcome[p].failed # 0 /\ ~outcome[p].late => outcome[p].failed = account[p].n

-----------------------------------------------------------------------------
(* Why they hold.                                                           *)

\* The plant's call is under way, and nothing is settled of its day.
Open(p) == Only(p) /\ run.at \in {"calling", "storing", "raised"}

\* What was taken in this run is settled, but for the plant whose call is under way.
DaysFollowed ==
    /\ run.at \in {"idle", "next", "finished"} => run.plant = {}
    /\ run.at = "raised" => run.error # "none"
    /\ run.at # "idle" => \A p \in Plants :
          told[p].taken => Open(p) \/ stored[p] \/ queue[p] # "none"
                           \/ p \in run.problems \/ told[p].nothing

\* A plant is taken once.  Until its day is settled, only another run can have queued
\* it; and an account that was refused has raised the error, which says so.
RefusalsKnown ==
    \A p \in Plants :
        /\ p \in run.todo => ~told[p].refused /\ ~Only(p)
        /\ p \in run.todo \/ Open(p) => (queue[p] # "none" => told[p].queued)
        /\ Open(p) /\ told[p].refused =>
              run.at = "raised" /\ run.error \in {"auth", "blocked", "limited"}

\* The connection a run works with is the plant's, unless that changed since.
SwapsKnown == \A p \in Plants : Only(p) /\ ~told[p].swapped => run.conn = account[p]
=============================================================================
