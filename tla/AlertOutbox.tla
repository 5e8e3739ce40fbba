----------------------------- MODULE AlertOutbox -----------------------------
(***************************************************************************)
(* The transactional outbox of Telegram alerts: the table outbox_events, the *)
(* ledger alert_delivery_records, the daily pipeline that enqueues alerts    *)
(* and dispatches its own batch, the dispatch-outbox job that recovers what  *)
(* is due, and the retention purge of both tables.                           *)
(*   events/outbox.py, alerts/outbox.py, alerts/operations.py,               *)
(*   alerts/sql_ledger.py, cloud_jobs.py, retention/service.py               *)
(*                                                                          *)
(* An action is what one transaction commits, or one exchange with Telegram. *)
(* A mark (delivered, rescheduled, failed) reads the row without a lock and  *)
(* later updates the columns that differ from what it read: two actions.     *)
(* Instants are ticks still to wait or elapsed.                              *)
(***************************************************************************)
EXTENDS Naturals, FiniteSets

CONSTANTS
    Alerts,             \* fingerprints
    Destinations,       \* references of Telegram chats
    Dispatchers,        \* processes: pipelines and dispatch-outbox jobs
    Tampered,           \* alerts whose stored payload may lose its checksum
    Invalid,            \* alerts whose payload does not deserialize
    NoEvent, NoRow, NotSent,
    MaxAttempts, BaseDelay, MaxBackoff,
    StaleAfter,         \* outbox_stale_lock_timeout_minutes
    BatchLimit,         \* outbox_dispatch_batch_size
    EventRetention,     \* outbox_events_days
    LedgerRetention,    \* alert_delivery_records_days
    MaxCrashes, MaxRows, MaxSends, MaxMoves     \* bounds

Events == Alerts \X Destinations
AlertOf(e) == e[1]
DestinationOf(e) == e[2]

VARIABLES
    row,        \* outbox_events, by deduplication key
    inserted,   \* transactions that inserted rows: created_at of the last one
    ledger,     \* alert_delivery_records: age of the entry of each alert
    chat,       \* destination the settings name now
    pc,         \* where each dispatcher is
    mode,       \* what it runs: daily-pipeline or dispatch-outbox
    batch,      \* events it still has to visit
    current,    \* event it claimed
    held,       \* id of that event's row
    outcome,    \* how its handling ended
    seen,       \* the row as the mark read it
    sends,      \* history: messages Telegram accepted, by event
    excuses,    \* history: what may repeat a message, by event
    crashes, moves

dbVars == <<row, inserted, ledger>>
dispatcherVars == <<pc, mode, batch, current, held, outcome, seen>>
history == <<sends, excuses>>
vars == <<dbVars, dispatcherVars, history, chat, crashes, moves>>

Statuses == {"PENDING", "PROCESSING", "DELIVERED", "FAILED"}

\* locked: locked_at is set, and lease ticks are left until it is stale.
Row == [status : Statuses, attempts : Nat, wait : Nat, locked : BOOLEAN,
        lease : Nat, age : Nat, id : Nat]

\* The windows RetentionWindows defaults to: an event is forgotten long before
\* the ledger forgets its delivery.
ConstantsOK ==
    /\ {MaxAttempts, BatchLimit} \subseteq Nat \ {0}
    /\ {BaseDelay, MaxBackoff, StaleAfter, EventRetention, LedgerRetention} \subseteq Nat
    /\ EventRetention <= LedgerRetention
    /\ {MaxCrashes, MaxRows, MaxSends, MaxMoves} \subseteq Nat
    /\ Tampered \subseteq Alerts /\ Invalid \subseteq Alerts
    /\ IsFiniteSet(Dispatchers)
    /\ NoEvent \notin Events /\ NotSent \notin Nat /\ NoRow \notin Row
    /\ \A n \in 1 .. MaxAttempts : BaseDelay * 2 ^ (n - 1) \in Nat

ASSUME ConstantsAssumption == ConstantsOK

PCs == {"idle", "dispatching", "claimed", "sending", "marking", "writing"}
Outcomes == {"none", "sent", "known", "refused", "invalid"}

TypeOK ==
    /\ row \in [Events -> Row \cup {NoRow}]
    /\ inserted \in Nat
    /\ ledger \in [Alerts -> Nat \cup {NotSent}]
    /\ chat \in Destinations
    /\ pc \in [Dispatchers -> PCs]
    /\ mode \in [Dispatchers -> {"pipeline", "worker"}]
    /\ batch \in [Dispatchers -> SUBSET (Events \X Nat)]
    /\ current \in [Dispatchers -> Events \cup {NoEvent}]
    /\ held \in [Dispatchers -> Nat]
    /\ outcome \in [Dispatchers -> Outcomes]
    /\ seen \in [Dispatchers -> Row \cup {NoRow}]
    /\ sends \in [Events -> Nat] /\ excuses \in [Events -> Nat]
    /\ crashes \in Nat /\ moves \in Nat

Init ==
    /\ row = [e \in Events |-> NoRow]
    /\ inserted = 0
    /\ ledger = [a \in Alerts |-> NotSent]
    /\ chat \in Destinations
    /\ pc = [d \in Dispatchers |-> "idle"]
    /\ mode = [d \in Dispatchers |-> "worker"]
    /\ batch = [d \in Dispatchers |-> {}]
    /\ current = [d \in Dispatchers |-> NoEvent]
    /\ held = [d \in Dispatchers |-> 0]
    /\ outcome = [d \in Dispatchers |-> "none"]
    /\ seen = [d \in Dispatchers |-> NoRow]
    /\ sends = [e \in Events |-> 0]
    /\ excuses = [e \in Events |-> 0]
    /\ crashes = 0 /\ moves = 0

-----------------------------------------------------------------------------
(* Helpers of the outbox.                                                   *)

Smaller(a, b) == IF a <= b THEN a ELSE b
Minus1(n) == IF n = 0 THEN 0 ELSE n - 1

Delay(n) == Smaller(MaxBackoff, BaseDelay * 2 ^ (n - 1))

Exists(e) == row[e] # NoRow
Terminal(e) == Exists(e) /\ row[e].status \in {"DELIVERED", "FAILED"}
Live(e, id) == Exists(e) /\ row[e].id = id
WasSent(a) == ledger[a] # NotSent

\* Mutant of Claimable: an abandoned claim is never taken over.
ClaimablePending(e) == Exists(e) /\ row[e].status = "PENDING" /\ row[e].wait = 0

\* Pending and available, or claimed by a process that left it for too long.
Claimable(e) ==
    /\ Exists(e)
    /\ \/ row[e].status = "PENDING" /\ row[e].wait = 0
       \/ row[e].status = "PROCESSING" /\ row[e].locked /\ row[e].lease = 0

\* d claimed e and has not committed how that ended.
Holds(d, e) == pc[d] \in {"claimed", "sending", "marking", "writing"} /\ current[d] = e
HeldByOther(d, e) == \E o \in Dispatchers \ {d} : Holds(o, e)

\* Telegram accepted the message and the commit that records it is still to come.
Unrecorded(d) == pc[d] \in {"marking", "writing"} /\ outcome[d] = "sent"

\* Another dispatcher may still send e's message, or has sent and not recorded it.
Overtakes(d, e) == \E o \in Dispatchers \ {d} :
    current[o] = e /\ (pc[o] \in {"claimed", "sending"} \/ Unrecorded(o))

-----------------------------------------------------------------------------
(* Enqueueing and starting a dispatch.                                      *)

\* enqueue_alert_candidates: the pipeline's alerts for the present chat, in one
\* transaction with the climate data.  An alert that is already delivered or
\* given up is answered at once; the others are the pipeline's own batch.  (An
\* existing event that fails its checksum raises, and nothing is committed.)
Enqueue(d, as) ==
    LET asked == {<<a, chat>> : a \in as}
        new == {e \in asked : ~Exists(e)}
        fresh == [status |-> "PENDING", attempts |-> 0, wait |-> 0, locked |-> FALSE,
                  lease |-> 0, age |-> 0, id |-> inserted + 1]
    IN  /\ pc[d] = "idle"
        /\ new # {} => inserted < MaxRows
        /\ row' = [e \in Events |-> IF e \in new THEN fresh ELSE row[e]]
        /\ inserted' = IF new = {} THEN inserted ELSE inserted + 1
        /\ batch' = [batch EXCEPT ![d] =
                {<<e, row'[e].id>> : e \in {f \in asked : ~Terminal(f)}}]
        /\ mode' = [mode EXCEPT ![d] = "pipeline"]
        /\ pc' = [pc EXCEPT ![d] = "dispatching"]
        /\ UNCHANGED <<ledger, current, held, outcome, seen, history, chat, crashes, moves>>

Due == {<<e, row[e].id>> : e \in {f \in Events : Claimable(f) /\ DestinationOf(f) = chat}}

\* due_ids: ORDER BY created_at LIMIT BatchLimit.
IsBatch(ids) ==
    /\ ids \subseteq Due
    /\ Cardinality(ids) = Smaller(BatchLimit, Cardinality(Due))
    /\ \A x \in ids, y \in Due \ ids : x[2] <= y[2]

StartDispatch(d) ==
    /\ pc[d] = "idle" /\ Due # {}
    /\ \E ids \in SUBSET Due : IsBatch(ids) /\ batch' = [batch EXCEPT ![d] = ids]
    /\ mode' = [mode EXCEPT ![d] = "worker"]
    /\ pc' = [pc EXCEPT ![d] = "dispatching"]
    /\ UNCHANGED <<dbVars, current, held, outcome, seen, history, chat, crashes, moves>>

FinishDispatch(d) ==
    /\ pc[d] = "dispatching" /\ batch[d] = {}
    /\ pc' = [pc EXCEPT ![d] = "idle"]
    /\ mode' = [mode EXCEPT ![d] = "worker"]
    /\ UNCHANGED <<dbVars, batch, current, held, outcome, seen, history, chat, crashes, moves>>

-----------------------------------------------------------------------------
(* _dispatch_event.                                                         *)

Visit(d, x) == pc[d] = "dispatching" /\ x \in batch[d]

\* The claim is committed before the payload is used.
Claim(d) == \E x \in batch[d] :
    LET e == x[1] IN
    /\ Visit(d, x)
    /\ Live(e, x[2]) /\ Claimable(e)
    /\ row' = [row EXCEPT ![e].status = "PROCESSING", ![e].locked = TRUE,
                          ![e].lease = StaleAfter]
    /\ excuses' = [excuses EXCEPT ![e] = IF Overtakes(d, e) THEN @ + 1 ELSE @]
    /\ batch' = [batch EXCEPT ![d] = @ \ {x}]
    /\ current' = [current EXCEPT ![d] = e]
    /\ held' = [held EXCEPT ![d] = x[2]]
    /\ pc' = [pc EXCEPT ![d] = "claimed"]
    /\ UNCHANGED <<inserted, ledger, mode, outcome, seen, sends, chat, crashes, moves>>

\* The checksum fails inside the claim: the same transaction gives the event up.
ClaimTampered(d) == \E x \in batch[d] :
    LET e == x[1] IN
    /\ Visit(d, x)
    /\ Live(e, x[2]) /\ Claimable(e) /\ AlertOf(e) \in Tampered
    /\ row' = [row EXCEPT ![e].status = "FAILED", ![e].locked = FALSE, ![e].lease = 0]
    /\ batch' = [batch EXCEPT ![d] = @ \ {x}]
    /\ UNCHANGED <<inserted, ledger, pc, mode, current, held, outcome, seen, history,
                   chat, crashes, moves>>

\* Not due, settled, purged, or its row is locked for an instant by a dispatcher
\* that handles it: a result is reported and nothing changes.
Skip(d) == \E x \in batch[d] :
    LET e == x[1] IN
    /\ Visit(d, x)
    /\ ~Live(e, x[2]) \/ ~Claimable(e) \/ HeldByOther(d, e)
    /\ batch' = [batch EXCEPT ![d] = @ \ {x}]
    /\ UNCHANGED <<dbVars, pc, mode, current, held, outcome, seen, history, chat, crashes, moves>>

EndWith(d, result) ==
    /\ outcome' = [outcome EXCEPT ![d] = result]
    /\ pc' = [pc EXCEPT ![d] = "marking"]

\* An invalid payload is given up; an alert the ledger knows is only marked.
CheckLedger(d) ==
    /\ pc[d] = "claimed"
    /\ LET a == AlertOf(current[d]) IN
        \/ a \in Invalid /\ EndWith(d, "invalid")
        \/ a \notin Invalid /\ WasSent(a) /\ EndWith(d, "known")
        \/ a \notin Invalid /\ ~WasSent(a)
           /\ pc' = [pc EXCEPT ![d] = "sending"] /\ UNCHANGED outcome
    /\ UNCHANGED <<dbVars, mode, batch, current, held, seen, history, chat, crashes, moves>>

\* Telegram accepted and the answer said so.
SendAccepted(d) ==
    /\ pc[d] = "sending" /\ sends[current[d]] < MaxSends
    /\ sends' = [sends EXCEPT ![current[d]] = @ + 1]
    /\ EndWith(d, "sent")
    /\ UNCHANGED <<dbVars, mode, batch, current, held, seen, excuses, chat, crashes, moves>>

\* Telegram accepted, but the answer was lost, late or not "ok".
SendLost(d) ==
    /\ pc[d] = "sending" /\ sends[current[d]] < MaxSends
    /\ sends' = [sends EXCEPT ![current[d]] = @ + 1]
    /\ excuses' = [excuses EXCEPT ![current[d]] = @ + 1]
    /\ EndWith(d, "refused")
    /\ UNCHANGED <<dbVars, mode, batch, current, held, seen, chat, crashes, moves>>

\* Mutant of SendRefused: a body without "ok" is taken for a delivery.
SendRefusedAsSent(d) ==
    /\ pc[d] = "sending"
    /\ EndWith(d, "sent")
    /\ UNCHANGED <<dbVars, mode, batch, current, held, seen, history, chat, crashes, moves>>

\* Telegram did not get the message.
SendRefused(d) ==
    /\ pc[d] = "sending"
    /\ EndWith(d, "refused")
    /\ UNCHANGED <<dbVars, mode, batch, current, held, seen, history, chat, crashes, moves>>

-----------------------------------------------------------------------------
(* mark_delivered, reschedule and mark_failed.                              *)

Release(d) ==
    /\ current' = [current EXCEPT ![d] = NoEvent]
    /\ held' = [held EXCEPT ![d] = 0]
    /\ outcome' = [outcome EXCEPT ![d] = "none"]
    /\ seen' = [seen EXCEPT ![d] = NoRow]

\* The process ends: everything it had not committed is lost.
Stop(d) ==
    /\ pc' = [pc EXCEPT ![d] = "idle"]
    /\ mode' = [mode EXCEPT ![d] = "worker"]
    /\ batch' = [batch EXCEPT ![d] = {}]
    /\ Release(d)

ForgetSend(d) ==
    excuses' = [excuses EXCEPT ![current[d]] = @ + 1]

Remember(a) == ledger' = [ledger EXCEPT ![a] = IF @ = NotSent THEN 0 ELSE @]

\* The row is gone: LookupError or a stale UPDATE.  The pipeline's caller still
\* commits what its session holds, the worker's session is rolled back.
Abort(d) ==
    /\ Stop(d)
    /\ IF ~Unrecorded(d) THEN UNCHANGED <<ledger, excuses>>
       ELSE IF mode[d] = "pipeline" THEN Remember(AlertOf(current[d])) /\ UNCHANGED excuses
       ELSE ForgetSend(d) /\ UNCHANGED ledger

\* _required_record: session.get, without a lock.
MarkRead(d) ==
    /\ pc[d] = "marking"
    /\ IF Live(current[d], held[d])
       THEN /\ seen' = [seen EXCEPT ![d] = row[current[d]]]
            /\ pc' = [pc EXCEPT ![d] = "writing"]
            /\ UNCHANGED <<ledger, excuses, mode, batch, current, held, outcome>>
       ELSE Abort(d)
    /\ UNCHANGED <<row, inserted, sends, chat, crashes, moves>>

GivesUp(old, result) == result = "invalid" \/ (result = "refused" /\ old.attempts + 1 >= MaxAttempts)

\* Mutant of Marked: an alert status stored as an event status.
MarkedAsSent(now, old, result) ==
    [now EXCEPT !.status = IF result = "sent" THEN "SENT" ELSE "FAILED"]

\* Only the columns that differ from what was read are written.
Marked(now, old, result) ==
    LET status == CASE result \in {"sent", "known"} -> "DELIVERED"
                    [] GivesUp(old, result) -> "FAILED"
                    [] OTHER -> "PENDING"
        n == old.attempts + 1
    IN  [now EXCEPT !.status = IF status # old.status THEN status ELSE @,
                    !.locked = IF old.locked THEN FALSE ELSE @,
                    !.lease = IF old.locked THEN 0 ELSE @,
                    !.attempts = IF result = "refused" THEN n ELSE @,
                    !.wait = IF status = "PENDING" THEN Delay(n) ELSE @]

\* Mutant of MarkWrite: the event is committed without its ledger entry.
MarkWithoutLedger(d) ==
    /\ pc[d] = "writing" /\ Live(current[d], held[d])
    /\ row' = [row EXCEPT ![current[d]] = Marked(@, seen[d], outcome[d])]
    /\ pc' = [pc EXCEPT ![d] = "dispatching"]
    /\ Release(d)
    /\ UNCHANGED <<mode, batch, excuses, inserted, ledger, sends, chat, crashes, moves>>

\* A delivery is committed together with its ledger entry.
MarkWrite(d) ==
    /\ pc[d] = "writing"
    /\ IF Live(current[d], held[d])
       THEN /\ row' = [row EXCEPT ![current[d]] = Marked(@, seen[d], outcome[d])]
            /\ IF outcome[d] = "sent" THEN Remember(AlertOf(current[d])) ELSE UNCHANGED ledger
            /\ pc' = [pc EXCEPT ![d] = "dispatching"]
            /\ Release(d)
            /\ UNCHANGED <<mode, batch, excuses>>
       ELSE Abort(d) /\ UNCHANGED row
    /\ UNCHANGED <<inserted, sends, chat, crashes, moves>>

-----------------------------------------------------------------------------
(* The environment.                                                         *)

Crash(d) ==
    /\ pc[d] # "idle" /\ crashes < MaxCrashes
    /\ crashes' = crashes + 1
    /\ Stop(d)
    /\ IF Unrecorded(d) THEN ForgetSend(d) ELSE UNCHANGED excuses
    /\ UNCHANGED <<dbVars, sends, chat, moves>>

\* RetentionService.purge: terminal events by created_at, ledger by sent_at.
Purge ==
    LET expired(a) == ledger[a] # NotSent /\ ledger[a] >= LedgerRetention
    IN  /\ row' = [e \in Events |->
                IF Terminal(e) /\ row[e].age >= EventRetention THEN NoRow ELSE row[e]]
        /\ ledger' = [a \in Alerts |-> IF expired(a) THEN NotSent ELSE ledger[a]]
        /\ excuses' = [e \in Events |->
                IF expired(AlertOf(e)) THEN excuses[e] + 1 ELSE excuses[e]]
        /\ row' # row \/ ledger' # ledger
        /\ UNCHANGED <<inserted, dispatcherVars, sends, chat, crashes, moves>>

\* The operator points the alerts to another chat.
MoveChat ==
    /\ moves < MaxMoves
    /\ moves' = moves + 1
    /\ chat' \in Destinations \ {chat}
    /\ UNCHANGED <<dbVars, dispatcherVars, history, crashes>>

Tick ==
    /\ row' = [e \in Events |->
            IF Exists(e)
            THEN [row[e] EXCEPT !.wait = Minus1(@), !.lease = Minus1(@),
                                !.age = Smaller(EventRetention, @ + 1)]
            ELSE NoRow]
    /\ ledger' = [a \in Alerts |->
            IF WasSent(a) THEN Smaller(LedgerRetention, ledger[a] + 1) ELSE NotSent]
    /\ UNCHANGED <<inserted, dispatcherVars, history, chat, crashes, moves>>

-----------------------------------------------------------------------------
DispatchStep(d) ==
    \/ StartDispatch(d) \/ FinishDispatch(d)
    \/ Claim(d) \/ ClaimTampered(d) \/ Skip(d)
    \/ CheckLedger(d)
    \/ SendAccepted(d) \/ SendLost(d) \/ SendRefused(d)
    \/ MarkRead(d) \/ MarkWrite(d)

Next ==
    \/ \E d \in Dispatchers :
        \/ \E as \in (SUBSET Alerts) \ {{}} : Enqueue(d, as)
        \/ DispatchStep(d)
        \/ Crash(d)
    \/ Purge \/ MoveChat \/ Tick

Spec == Init /\ [][Next]_vars

(* A run ends; the daily cycle starts dispatch-outbox after every pipeline,  *)
(* so pipelines cannot keep it from running; time passes.  Nothing is        *)
(* assumed of pipelines, crashes, the purge or Telegram.                     *)
Fairness ==
    /\ \A d \in Dispatchers : WF_vars(DispatchStep(d)) /\ SF_vars(StartDispatch(d))
    /\ WF_vars(Tick)

FairSpec == Spec /\ Fairness

-----------------------------------------------------------------------------
(* Properties.                                                              *)

\* ADR-040 items 5, 6 and 10: Telegram gets an alert's message twice only if an
\* answer was lost, a process died between acceptance and commit, a claim was
\* taken over from a process still at work, or the ledger entry expired.
DuplicateNeedsExcuse == \A e \in Events : sends[e] <= 1 + excuses[e]

\* ADR-040 items 1 and 5: a claimed event carries the stamp that makes it eligible
\* again when it is abandoned.  Two overlapping processes keep it so; with three the
\* late mark of one that read the row DELIVERED clears the stamp of the claim another
\* made since, and leaves the status, which it found as it wanted it.
ClaimHasLease == \A e \in Events :
    Exists(e) /\ row[e].status = "PROCESSING" => row[e].locked

\* The ledger, and an event marked DELIVERED, speak only of alerts Telegram
\* accepted (sql_ledger.py: "records only confirmed deliveries"), whatever was
\* retried, taken over, re-enqueued or purged before.
ConfirmedWasSent == \A a \in Alerts :
    WasSent(a) \/ (\E e \in Events : AlertOf(e) = a /\ Exists(e) /\ row[e].status = "DELIVERED")
        => \E c \in Destinations : sends[<<a, c>>] > 0

\* ADR-040's "never silent loss": an event for the present chat is delivered or
\* visibly given up, through crashes, lost answers and abandoned claims.
QueuedAlertsSettle ==
    \A e \in Events :
        (Exists(e) /\ ~Terminal(e)) ~> (~Exists(e) \/ Terminal(e) \/ DestinationOf(e) # chat)

-----------------------------------------------------------------------------
(* What the outbox implements.                                              *)

PhaseOf(r) ==
    IF r = NoRow THEN "absent"
    ELSE CASE r.status \in {"PENDING", "PROCESSING"} -> "queued"
           [] r.status = "DELIVERED" -> "delivered"
           [] r.status = "FAILED" -> "failed"

Delivery == INSTANCE AlertDelivery WITH
    phase <- [e \in Events |-> PhaseOf(row[e])],
    reached <- [a \in Alerts |-> \E c \in Destinations : sends[<<a, c>>] > 0],
    onRecord <- [a \in Alerts |-> WasSent(a)]

\* With one dispatcher at a time the outbox delivers at least once: nothing is
\* sent once a delivery is on record, through crashes, lost answers, stale
\* claims, purges and a change of chat, and a settled event never reopens.
ImplementsDelivery == Delivery!Spec
=============================================================================
