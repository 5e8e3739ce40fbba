---------------------------- MODULE LoginRateLimit ----------------------------
(***************************************************************************)
(* The limit on failed logins from one place under one name: a row that     *)
(* counts failures within a window and locks for a while.  The row is read  *)
(* when an attempt begins, the password is checked (slow on purpose), and    *)
(* what was read is counted up and written back.                            *)
(*   auth/session_service.py (LoginRateLimitService), auth/router.py         *)
(*                                                                          *)
(* The ORM keeps the row it read for the whole attempt, and writes only the  *)
(* columns that end up different from it.                                   *)
(***************************************************************************)
EXTENDS Naturals

CONSTANTS
    Attempts,       \* concurrent requests
    MaxAttempts,    \* auth_login_max_attempts
    Window,         \* auth_login_window_seconds
    Lockout,        \* auth_login_lockout_seconds
    LimitRetention, \* retention_login_rate_limits_days
    NoRow,
    MaxTime         \* bound: the clock

Row == [count : Nat, first : Nat, until : Nat]

ConstantsOK ==
    /\ MaxAttempts \in Nat \ {0} /\ Window \in Nat \ {0} /\ Lockout \in Nat \ {0}
    /\ LimitRetention \in Nat /\ MaxTime \in Nat
    /\ NoRow \notin Row

VARIABLES
    row,        \* login_rate_limits: count, first attempt, locked until (0: never)
    step,       \* where each attempt is
    view,       \* the row as it read it
    clock,
    failures,   \* history: failures since the row was created or its window began anew
    alone,      \* history: no attempt since then overlapped with another one
    began,      \* when each attempt began
    met         \* history: attempts under way that overlapped with another one

vars == <<row, step, view, clock, failures, alone, began, met>>

TypeOK ==
    /\ row \in Row \cup {NoRow} /\ view \in [Attempts -> Row \cup {NoRow}]
    /\ step \in [Attempts -> {"idle", "expired", "checking", "counting"}]
    /\ clock \in Nat /\ failures \in Nat /\ alone \in BOOLEAN /\ met \subseteq Attempts
    /\ began \in [Attempts -> Nat]

Init ==
    /\ row = NoRow /\ step = [a \in Attempts |-> "idle"]
    /\ view = [a \in Attempts |-> NoRow]
    /\ clock = 0 /\ failures = 0 /\ alone = TRUE /\ met = {}
    /\ began = [a \in Attempts |-> 0]

Locked(x) == x # NoRow /\ x.until > clock
Expired(x) == x # NoRow /\ x.until # 0 /\ x.until <= clock

Others(a) == {b \in Attempts \ {a} : step[b] # "idle"}

End(a) ==
    /\ step' = [step EXCEPT ![a] = "idle"] /\ view' = [view EXCEPT ![a] = NoRow]
    /\ began' = [began EXCEPT ![a] = 0] /\ met' = met \ {a}

-----------------------------------------------------------------------------

\* is_locked: a locked name is refused and changes nothing; an expired lock is
\* to be cleared.
Begin(a) ==
    /\ step[a] = "idle" /\ ~(Locked(row) /\ ~Expired(row))
    /\ step' = [step EXCEPT ![a] = IF Expired(row) THEN "expired" ELSE "checking"]
    /\ view' = [view EXCEPT ![a] = row] /\ began' = [began EXCEPT ![a] = clock]
    /\ met' = IF Others(a) = {} THEN met ELSE met \cup Others(a) \cup {a}
    /\ alone' = (alone /\ Others(a) = {})
    /\ UNCHANGED <<row, clock, failures>>

\* clear of an expired lock, by key.  The transaction ends with the attempt: the
\* others see either the old row or what this attempt writes in its place.
ClearExpired(a) ==
    /\ step[a] = "expired"
    /\ row' = NoRow /\ failures' = 0 /\ alone' = (a \notin met)
    /\ step' = [step EXCEPT ![a] = "checking"] /\ view' = [view EXCEPT ![a] = NoRow]
    /\ UNCHANGED <<clock, began, met>>

\* A wrong password: what was not found is looked up again.
Fail(a) ==
    /\ step[a] = "checking"
    /\ step' = [step EXCEPT ![a] = "counting"]
    /\ view' = [view EXCEPT ![a] = IF @ = NoRow THEN row ELSE @]
    /\ UNCHANGED <<row, clock, failures, alone, began, met>>

\* Mutant of Counted: a window that ended goes on counting.
CountedForever(x) ==
    LET count == IF x = NoRow THEN 1 ELSE x.count + 1
    IN  [count |-> count, first |-> IF x = NoRow THEN clock ELSE x.first,
         until |-> IF count >= MaxAttempts THEN clock + Lockout ELSE 0]

\* record_failure on the row as it was read.
Counted(x) ==
    LET anew == x = NoRow \/ x.first + Window <= clock
        count == IF anew THEN 1 ELSE x.count + 1
    IN  [count |-> count, first |-> IF anew THEN clock ELSE x.first,
         until |-> IF count >= MaxAttempts THEN clock + Lockout ELSE IF anew THEN 0 ELSE x.until]

\* Only what differs from the row read is written.
Column(read, new, stored) == IF new = read THEN stored ELSE new

\* Mutant of Written: the whole row is written back.
WrittenWhole(x, new) == new

Written(x, new) ==
    [count |-> Column(x.count, new.count, row.count),
     first |-> Column(x.first, new.first, row.first),
     until |-> Column(x.until, new.until, row.until)]

\* The failure is written: an INSERT that another attempt was faster with, and
\* an UPDATE of a row that is gone, fail and leave no trace.
Count(a) ==
    /\ step[a] = "counting"
    /\ LET x == view[a] IN
       LET new == Counted(x) IN
       IF (x = NoRow) # (row = NoRow)
       THEN UNCHANGED <<row, failures, alone>>
       ELSE /\ row' = IF x = NoRow THEN new ELSE Written(x, new)
            /\ IF x = NoRow \/ x.first + Window <= clock
               THEN failures' = 1 /\ alone' = (a \notin met)
               ELSE failures' = failures + 1 /\ UNCHANGED alone
    /\ End(a) /\ UNCHANGED clock

\* The right password: clear, and the session is created.
Succeed(a) ==
    /\ step[a] = "checking"
    /\ row' = NoRow /\ failures' = 0 /\ alone' = (a \notin met)
    /\ End(a) /\ UNCHANGED clock

\* Mutant of Purgeable: a lock in force is old enough as well.
PurgeableLocked == row.first + LimitRetention < clock

\* Its window began long ago, and no lock is in force.
Purgeable == row.first + LimitRetention < clock /\ (row.until = 0 \/ row.until < clock)

\* RetentionService.purge deletes the row; attempts that have read it keep it.
Purge ==
    /\ row # NoRow /\ Purgeable
    /\ row' = NoRow /\ failures' = 0 /\ alone' = (\A a \in Attempts : step[a] = "idle")
    /\ UNCHANGED <<step, view, clock, began, met>>

\* An attempt takes less than a window: the password is checked in a second.
Tick ==
    /\ clock < MaxTime /\ \A a \in Attempts : step[a] # "idle" => clock + 1 < began[a] + Window
    /\ clock' = clock + 1
    /\ UNCHANGED <<row, step, view, failures, alone, began, met>>

Next ==
    \/ \E a \in Attempts : Begin(a) \/ ClearExpired(a) \/ Fail(a) \/ Count(a) \/ Succeed(a)
    \/ Purge \/ Tick

Spec == Init /\ [][Next]_vars

-----------------------------------------------------------------------------

\* A lock in force is lifted only by an attempt that was admitted before it: one
\* that succeeds, or one that found an expired lock; never by a failure that
\* read the row before it was locked (auth/session_service.py, record_failure), nor by
\* the retention (retention/service.py, purge).
LockStep ==
    Locked(row) /\ row' # row =>
        IF row' = NoRow THEN step' # step ELSE row'.until >= row.until
LockIsKept == [][LockStep]_vars

\* Failures of attempts that follow one another count each: until two attempts
\* overlap, the counter is the number of failures since the window began, and
\* the name is locked exactly when they reached the limit
\* (auth/session_service.py, LoginRateLimitService).
CountIsHonest ==
    alone /\ row # NoRow => /\ row.count = failures
                            /\ (row.until # 0 <=> failures >= MaxAttempts)

-----------------------------------------------------------------------------
(* Why they hold.                                                           *)

Under(a) == step[a] # "idle"
Admitted(a) == step[a] \in {"checking", "counting"}

\* A row an attempt did not find began after it: what it says of a lock is new.
LocksAreRead ==
    /\ \A a \in Attempts : Under(a) => began[a] <= clock /\ clock < began[a] + Window
    /\ row # NoRow => row.until <= clock + Lockout
    /\ \A a \in Attempts : Admitted(a) =>
        /\ view[a] = NoRow /\ row # NoRow => row.first >= began[a]
        /\ view[a] # NoRow => view[a].until = 0 \/ view[a].first >= began[a]

\* An attempt that met no other knows the row there is, or it was purged.
LonersKnow ==
    /\ met \subseteq {a \in Attempts : Under(a)}
    /\ \A a, b \in Attempts : Under(a) /\ Under(b) /\ a # b => a \in met
    /\ alone => met = {}
    /\ \A a \in Attempts \ met :
        /\ Admitted(a) /\ view[a] # NoRow => row \in {view[a], NoRow}
        /\ step[a] = "counting" /\ view[a] = NoRow => row = NoRow
    /\ CountIsHonest
=============================================================================
