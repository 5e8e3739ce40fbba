--------------------------- MODULE AlertOutboxProofs ---------------------------
(***************************************************************************)
(* Theorems about the outbox of alerts: that its state keeps its types, that *)
(* a message is repeated only for a reason that was counted, and that what   *)
(* is recorded as delivered was sent; for any number of alerts, chats and    *)
(* dispatchers and any of the timeouts and bounds.                           *)
(***************************************************************************)
EXTENDS AlertOutbox, FiniteSetTheorems, TLAPS

-----------------------------------------------------------------------------
(* Types.                                                                   *)

Engaged == {"claimed", "sending", "marking", "writing"}

\* What a dispatcher carries while it handles an event.
Carries(d) ==
    /\ pc[d] \in Engaged => current[d] \in Events
    /\ pc[d] \in {"marking", "writing"} => outcome[d] # "none"
    /\ pc[d] = "writing" => seen[d] \in Row

Typed == TypeOK /\ \A d \in Dispatchers : Carries(d)

\* Backing off never leaves the natural numbers while attempts are left
\* (events/outbox.py, backoff_for_attempt).
LEMMA DelayType ==
    ASSUME NEW n \in 1 .. MaxAttempts
    PROVE  Delay(n) \in Nat
  <1>1. MaxBackoff \in Nat /\ BaseDelay * 2 ^ (n - 1) \in Nat
    BY ConstantsAssumption DEF ConstantsOK
  <1> QED BY <1>1 DEF Delay, Smaller

\* A mark of a row as it was read leaves a row (events/outbox.py, mark_delivered,
\* reschedule, mark_failed).
LEMMA MarkedType ==
    ASSUME NEW now \in Row, NEW old \in Row,
           NEW result \in {"sent", "known", "refused", "invalid"}
    PROVE  Marked(now, old, result) \in Row
  <1>1. /\ now.status \in Statuses /\ now.attempts \in Nat /\ now.wait \in Nat
        /\ now.locked \in BOOLEAN /\ now.lease \in Nat /\ now.age \in Nat /\ now.id \in Nat
        /\ old.attempts \in Nat
    BY DEF Row
  <1> DEFINE status == CASE result \in {"sent", "known"} -> "DELIVERED"
                         [] GivesUp(old, result) -> "FAILED"
                         [] OTHER -> "PENDING"
             n == old.attempts + 1
             m == Marked(now, old, result)
  <1>2. status \in Statuses
    BY DEF Statuses
  <1>3. status = "PENDING" => Delay(n) \in Nat
    <2> SUFFICES ASSUME status = "PENDING" PROVE Delay(n) \in Nat
      OBVIOUS
    <2>1. ~GivesUp(old, result) /\ result = "refused"
      BY DEF GivesUp
    <2>2. MaxAttempts \in Nat
      BY ConstantsAssumption DEF ConstantsOK
    <2>3. n \in 1 .. MaxAttempts
      BY <1>1, <2>1, <2>2 DEF GivesUp
    <2> QED BY <2>3, DelayType
  <1> DEFINE status2 == IF status # old.status THEN status ELSE now.status
             locked2 == IF old.locked THEN FALSE ELSE now.locked
             lease2 == IF old.locked THEN 0 ELSE now.lease
             attempts2 == IF result = "refused" THEN n ELSE now.attempts
             wait2 == IF status = "PENDING" THEN Delay(n) ELSE now.wait
  <1>4. m = [now EXCEPT !.status = status2, !.locked = locked2, !.lease = lease2,
                        !.attempts = attempts2, !.wait = wait2]
    BY DEF Marked, Row
  <1>5. status2 \in Statuses /\ locked2 \in BOOLEAN /\ lease2 \in Nat
        /\ attempts2 \in Nat /\ wait2 \in Nat
    <2> n \in Nat
      BY <1>1
    <2> HIDE DEF status, n
    <2> QED BY <1>1, <1>2, <1>3
  <1> HIDE DEF status2, locked2, lease2, attempts2, wait2
  <1> QED BY <1>4, <1>5 DEF Row

LEMMA InitTyped == Init => Typed
  BY DEF Init, Typed, TypeOK, Carries, PCs, Engaged, Outcomes

\* The process ends: whatever it held is dropped.
LEMMA StopTyped ==
    ASSUME Typed, NEW d \in Dispatchers, Stop(d),
           row' \in [Events -> Row \cup {NoRow}], inserted' \in Nat,
           ledger' \in [Alerts -> Nat \cup {NotSent}], chat' \in Destinations,
           sends' \in [Events -> Nat], excuses' \in [Events -> Nat],
           crashes' \in Nat, moves' \in Nat
    PROVE  Typed'
  BY DEF Typed, TypeOK, Carries, Stop, Release, PCs, Outcomes, Engaged

\* A row gone: the ledger or the count of excuses may still change.
LEMMA AbortTyped ==
    ASSUME Typed, NEW d \in Dispatchers, pc[d] \in Engaged, Abort(d)
    PROVE  /\ ledger' \in [Alerts -> Nat \cup {NotSent}]
           /\ excuses' \in [Events -> Nat]
  <1>1. current[d] \in Events /\ AlertOf(current[d]) \in Alerts
    BY DEF Typed, Carries, Events, AlertOf
  <1>2. CASE ~Unrecorded(d)
    BY <1>2 DEF Abort, Typed, TypeOK
  <1>3. CASE Unrecorded(d) /\ mode[d] = "pipeline"
    BY <1>1, <1>3 DEF Abort, Remember, Typed, TypeOK
  <1>4. CASE Unrecorded(d) /\ mode[d] # "pipeline"
    BY <1>1, <1>4 DEF Abort, ForgetSend, Typed, TypeOK
  <1> QED BY <1>2, <1>3, <1>4

LEMMA EnqueueTyped ==
    ASSUME Typed, NEW d \in Dispatchers, NEW as \in SUBSET Alerts, Enqueue(d, as)
    PROVE  Typed'
  <1> DEFINE asked == {<<a, chat>> : a \in as}
             new == {e \in asked : ~Exists(e)}
             fresh == [status |-> "PENDING", attempts |-> 0, wait |-> 0, locked |-> FALSE,
                       lease |-> 0, age |-> 0, id |-> inserted + 1]
             mine == {<<e, row'[e].id>> : e \in {f \in asked : ~Terminal(f)}}
  <1>1. asked \subseteq Events /\ fresh \in Row
    <2>0. chat \in Destinations
      BY DEF Typed, TypeOK
    <2>1. \A a \in as : <<a, chat>> \in Events
      BY <2>0 DEF Events
    <2>2. asked \subseteq Events
      <3> HIDE DEF new, fresh, mine, Events
      <3> QED BY <2>1
    <2>3. inserted + 1 \in Nat
      BY DEF Typed, TypeOK
    <2>4. fresh \in Row
      <3> HIDE DEF asked, new, mine
      <3> QED BY <2>3 DEF Row, Statuses
    <2> QED BY <2>2, <2>4
  <1>2. /\ row' = [e \in Events |-> IF e \in new THEN fresh ELSE row[e]]
        /\ inserted' = IF new = {} THEN inserted ELSE inserted + 1
        /\ batch' = [batch EXCEPT ![d] = mine]
        /\ mode' = [mode EXCEPT ![d] = "pipeline"]
        /\ pc' = [pc EXCEPT ![d] = "dispatching"]
        /\ UNCHANGED <<ledger, current, held, outcome, seen, sends, excuses, chat, crashes, moves>>
    BY DEF Enqueue, history
  <1>3. row' \in [Events -> Row \cup {NoRow}] /\ inserted' \in Nat
    <2> HIDE DEF fresh, asked
    <2> QED BY <1>1, <1>2 DEF Typed, TypeOK
  <1>4. \A e \in {f \in asked : ~Terminal(f)} : row'[e].id \in Nat
    <2> SUFFICES ASSUME NEW e \in asked PROVE row'[e].id \in Nat
      OBVIOUS
    <2>1. e \in new => row'[e] = fresh
      BY <1>1, <1>2
    <2>2. e \notin new => row'[e] = row[e] /\ row[e] \in Row
      BY <1>1, <1>2 DEF Typed, TypeOK, Exists
    <2>3. row'[e] \in Row
      BY <1>1, <2>1, <2>2
    <2> QED BY <2>3 DEF Row
  <1>5. batch' \in [Dispatchers -> SUBSET (Events \X Nat)]
    <2>1. mine \in SUBSET (Events \X Nat)
      <3> HIDE DEF asked
      <3> QED BY <1>1, <1>4
    <2> HIDE DEF mine
    <2> QED BY <1>2, <2>1 DEF Typed, TypeOK
  <1> HIDE DEF fresh, new, asked, mine
  <1> QED BY <1>2, <1>3, <1>5 DEF Typed, TypeOK, Carries, PCs, Engaged

LEMMA StartTyped ==
    ASSUME Typed, NEW d \in Dispatchers, StartDispatch(d)
    PROVE  Typed'
  <1>1. Due \subseteq Events \X Nat
    BY DEF Due, Claimable, Exists, Typed, TypeOK, Row
  <1>2. batch' \in [Dispatchers -> SUBSET (Events \X Nat)]
    BY <1>1 DEF StartDispatch, Typed, TypeOK
  <1> QED BY <1>2 DEF StartDispatch, dbVars, history, Typed, TypeOK, Carries, PCs, Engaged

LEMMA FinishTyped ==
    ASSUME Typed, NEW d \in Dispatchers, FinishDispatch(d)
    PROVE  Typed'
  BY DEF FinishDispatch, dbVars, history, Typed, TypeOK, Carries, PCs, Engaged

LEMMA ClaimTyped ==
    ASSUME Typed, NEW d \in Dispatchers, Claim(d)
    PROVE  Typed'
  <1>1. PICK x \in batch[d] :
        /\ pc[d] = "dispatching" /\ Live(x[1], x[2])
        /\ row' = [row EXCEPT ![x[1]].status = "PROCESSING", ![x[1]].locked = TRUE,
                              ![x[1]].lease = StaleAfter]
        /\ excuses' = [excuses EXCEPT ![x[1]] = IF Overtakes(d, x[1]) THEN @ + 1 ELSE @]
        /\ batch' = [batch EXCEPT ![d] = @ \ {x}]
        /\ current' = [current EXCEPT ![d] = x[1]]
        /\ held' = [held EXCEPT ![d] = x[2]]
        /\ pc' = [pc EXCEPT ![d] = "claimed"]
        /\ UNCHANGED <<inserted, ledger, mode, outcome, seen, sends, chat, crashes, moves>>
    BY DEF Claim, Visit
  <1>2. x[1] \in Events /\ x[2] \in Nat /\ row[x[1]] \in Row
    BY <1>1 DEF Typed, TypeOK, Live, Exists
  <1>3. StaleAfter \in Nat
    BY ConstantsAssumption DEF ConstantsOK
  <1>4. row' \in [Events -> Row \cup {NoRow}]
    BY <1>1, <1>2, <1>3 DEF Typed, TypeOK, Row, Statuses
  <1> QED BY <1>1, <1>2, <1>4 DEF Typed, TypeOK, Carries, PCs, Engaged

LEMMA ClaimTamperedTyped ==
    ASSUME Typed, NEW d \in Dispatchers, ClaimTampered(d)
    PROVE  Typed'
  <1>1. PICK x \in batch[d] :
        /\ Live(x[1], x[2])
        /\ row' = [row EXCEPT ![x[1]].status = "FAILED", ![x[1]].locked = FALSE,
                              ![x[1]].lease = 0]
        /\ batch' = [batch EXCEPT ![d] = @ \ {x}]
        /\ UNCHANGED <<inserted, ledger, pc, mode, current, held, outcome, seen, sends,
                       excuses, chat, crashes, moves>>
    BY DEF ClaimTampered, history
  <1>2. x[1] \in Events /\ row[x[1]] \in Row
    BY <1>1 DEF Typed, TypeOK, Live, Exists
  <1>3. row' \in [Events -> Row \cup {NoRow}]
    BY <1>1, <1>2 DEF Typed, TypeOK, Row, Statuses
  <1> QED BY <1>1, <1>3 DEF Typed, TypeOK, Carries, Engaged

LEMMA SkipTyped ==
    ASSUME Typed, NEW d \in Dispatchers, Skip(d)
    PROVE  Typed'
  BY DEF Skip, dbVars, history, Typed, TypeOK, Carries, Engaged

LEMMA CheckLedgerTyped ==
    ASSUME Typed, NEW d \in Dispatchers, CheckLedger(d)
    PROVE  Typed'
  BY DEF CheckLedger, EndWith, dbVars, history, Typed, TypeOK, Carries, PCs, Engaged, Outcomes

LEMMA SendTyped ==
    ASSUME Typed, NEW d \in Dispatchers, SendAccepted(d) \/ SendLost(d) \/ SendRefused(d)
    PROVE  Typed'
  <1> USE DEF EndWith, dbVars, history, Typed, TypeOK, Carries, PCs, Engaged, Outcomes
  <1>1. CASE SendAccepted(d)
    BY <1>1 DEF SendAccepted
  <1>2. CASE SendLost(d)
    BY <1>2 DEF SendLost
  <1>3. CASE SendRefused(d)
    BY <1>3 DEF SendRefused
  <1> QED BY <1>1, <1>2, <1>3

LEMMA MarkReadTyped ==
    ASSUME Typed, NEW d \in Dispatchers, MarkRead(d)
    PROVE  Typed'
  <1>1. CASE Live(current[d], held[d])
    BY <1>1 DEF MarkRead, Live, Exists, Typed, TypeOK, Carries, PCs, Engaged
  <1>2. CASE ~Live(current[d], held[d])
    <2>1. Abort(d) /\ pc[d] \in Engaged
      BY <1>2 DEF MarkRead, Engaged
    <2> QED BY <2>1, AbortTyped, StopTyped DEF MarkRead, Abort, Typed, TypeOK
  <1> QED BY <1>1, <1>2

LEMMA MarkWriteTyped ==
    ASSUME Typed, NEW d \in Dispatchers, MarkWrite(d)
    PROVE  Typed'
  <1>1. CASE Live(current[d], held[d])
    <2> DEFINE e == current[d]
    <2>1. /\ e \in Events /\ AlertOf(e) \in Alerts /\ row[e] \in Row /\ seen[d] \in Row
          /\ outcome[d] \in {"sent", "known", "refused", "invalid"}
      BY <1>1 DEF MarkWrite, Live, Exists, Typed, TypeOK, Carries, Engaged, Outcomes,
                  Events, AlertOf
    <2>2. Marked(row[e], seen[d], outcome[d]) \in Row
      BY <2>1, MarkedType
    <2>3. row' = [row EXCEPT ![e] = Marked(row[e], seen[d], outcome[d])]
      BY <1>1 DEF MarkWrite
    <2>4. row' \in [Events -> Row \cup {NoRow}]
      BY <2>1, <2>2, <2>3 DEF Typed, TypeOK
    <2>5. ledger' \in [Alerts -> Nat \cup {NotSent}]
      BY <1>1, <2>1 DEF MarkWrite, Remember, Typed, TypeOK
    <2> QED BY <1>1, <2>4, <2>5 DEF MarkWrite, Release, Typed, TypeOK, Carries, PCs,
                                    Engaged, Outcomes
  <1>2. CASE ~Live(current[d], held[d])
    <2>1. Abort(d) /\ pc[d] \in Engaged
      BY <1>2 DEF MarkWrite, Engaged
    <2> QED BY <1>2, <2>1, AbortTyped, StopTyped DEF MarkWrite, Abort, Typed, TypeOK
  <1> QED BY <1>1, <1>2

LEMMA CrashTyped ==
    ASSUME Typed, NEW d \in Dispatchers, Crash(d)
    PROVE  Typed'
  <1>1. excuses' \in [Events -> Nat]
    BY DEF Crash, ForgetSend, Unrecorded, Typed, TypeOK, Carries, Engaged
  <1> QED BY <1>1, StopTyped DEF Crash, dbVars, Typed, TypeOK

LEMMA PurgeTyped ==
    ASSUME Typed, Purge
    PROVE  Typed'
  <1>1. row' \in [Events -> Row \cup {NoRow}]
    BY DEF Purge, Typed, TypeOK
  <1>2. ledger' \in [Alerts -> Nat \cup {NotSent}]
    BY DEF Purge, Typed, TypeOK
  <1>3. excuses' \in [Events -> Nat]
    BY DEF Purge, Typed, TypeOK
  <1> QED BY <1>1, <1>2, <1>3 DEF Purge, dispatcherVars, Typed, TypeOK, Carries

LEMMA TickTyped ==
    ASSUME Typed, Tick
    PROVE  Typed'
  <1>1. \A n \in Nat : Minus1(n) \in Nat
    BY DEF Minus1
  <1>2. \A n \in Nat : Smaller(EventRetention, n + 1) \in Nat
                      /\ Smaller(LedgerRetention, n + 1) \in Nat
    BY ConstantsAssumption DEF ConstantsOK, Smaller
  <1>3. row' \in [Events -> Row \cup {NoRow}]
    <2> SUFFICES ASSUME NEW e \in Events, row[e] \in Row
                 PROVE  [row[e] EXCEPT !.wait = Minus1(@), !.lease = Minus1(@),
                                       !.age = Smaller(EventRetention, @ + 1)] \in Row
      BY DEF Tick, Exists, Typed, TypeOK
    <2> QED BY <1>1, <1>2 DEF Row
  <1>4. ledger' \in [Alerts -> Nat \cup {NotSent}]
    BY <1>2 DEF Tick, WasSent, Typed, TypeOK
  <1> QED BY <1>3, <1>4 DEF Tick, dispatcherVars, history, Typed, TypeOK, Carries

\* One name for what a step of the specification is.
LEMMA Steps ==
    ASSUME [Next]_vars
    PROVE  \/ \E d \in Dispatchers, as \in SUBSET Alerts : Enqueue(d, as)
           \/ \E d \in Dispatchers :
                \/ StartDispatch(d) \/ FinishDispatch(d) \/ Claim(d) \/ ClaimTampered(d)
                \/ Skip(d) \/ CheckLedger(d)
                \/ (SendAccepted(d) \/ SendLost(d) \/ SendRefused(d))
                \/ MarkRead(d) \/ MarkWrite(d) \/ Crash(d)
           \/ Purge \/ MoveChat \/ Tick \/ UNCHANGED vars
  BY DEF Next, DispatchStep

LEMMA StepTyped ==
    ASSUME Typed, [Next]_vars
    PROVE  Typed'
  <1>1. CASE MoveChat
    BY <1>1 DEF MoveChat, dbVars, dispatcherVars, history, Typed, TypeOK, Carries
  <1>2. CASE UNCHANGED vars
    BY <1>2 DEF vars, dbVars, dispatcherVars, history, Typed, TypeOK, Carries
  <1> QED BY <1>1, <1>2, Steps, EnqueueTyped, StartTyped, FinishTyped, ClaimTyped,
             ClaimTamperedTyped, SkipTyped, CheckLedgerTyped, SendTyped, MarkReadTyped,
             MarkWriteTyped, CrashTyped, PurgeTyped, TickTyped

\* The tables and what the dispatchers carry keep their types
\* (events/outbox.py; alerts/operations.py).
THEOREM TypesKept == Spec => []TypeOK
  <1>1. Spec => []Typed
    BY InitTyped, StepTyped, PTL DEF Spec
  <1>2. Typed => TypeOK
    BY DEF Typed
  <1> QED BY <1>1, <1>2, PTL

-----------------------------------------------------------------------------
(* A message is repeated only for a counted reason.                         *)

MaySend(d, e) == current[d] = e /\ pc[d] \in {"claimed", "sending"}
Asks(d, e) == current[d] = e /\ pc[d] = "sending"
Records(d, e) == current[d] = e /\ Unrecorded(d)

SendersOf(e) == {d \in Dispatchers : MaySend(d, e)}
Asking(e) == {d \in Dispatchers : Asks(d, e)}
Busy(e) == \E d \in Dispatchers : MaySend(d, e) \/ Records(d, e)

\* Every message to come is paid for: while the ledger does not know the alert all
\* claims of the event but the first have an excuse, and once it does only those that
\* asked Telegram before may still send.
Balanced(e) ==
    IF WasSent(AlertOf(e))
    THEN /\ sends[e] + Cardinality(Asking(e)) <= excuses[e] + 1
         /\ Busy(e) => sends[e] + Cardinality(SendersOf(e)) <= excuses[e] + 2
    ELSE /\ ~Busy(e) => sends[e] <= excuses[e]
         /\ Busy(e) => sends[e] + Cardinality(SendersOf(e)) <= excuses[e] + 1

IInv == Typed /\ \A e \in Events : Balanced(e)

One(b) == IF b THEN 1 ELSE 0

\* Taking one dispatcher out of a set of them.
LEMMA CountWithout ==
    ASSUME NEW S \in SUBSET Dispatchers, NEW d \in Dispatchers
    PROVE  /\ Cardinality(S) \in Nat /\ Cardinality(S \ {d}) \in Nat
           /\ Cardinality(S) = Cardinality(S \ {d}) + One(d \in S)
  <1>1. IsFiniteSet(S) /\ IsFiniteSet(S \ {d})
    BY FS_Subset, ConstantsAssumption DEF ConstantsOK
  <1>2. Cardinality(S) \in Nat /\ Cardinality(S \ {d}) \in Nat
    BY <1>1, FS_CardinalityType
  <1>3. CASE d \in S
    BY <1>1, <1>2, <1>3, FS_RemoveElement DEF One
  <1>4. CASE d \notin S
    <2>1. S \ {d} = S
      BY <1>4
    <2>2. One(d \in S) = 0
      BY <1>4 DEF One
    <2>3. \A n \in Nat : n = n + 0
      OBVIOUS
    <2> QED BY <1>2, <2>1, <2>2, <2>3
  <1> QED BY <1>2, <1>3, <1>4

LEMMA CountSubset ==
    ASSUME NEW S \in SUBSET Dispatchers, NEW T \in SUBSET S
    PROVE  Cardinality(T) <= Cardinality(S)
  <1>1. IsFiniteSet(S)
    BY FS_Subset, ConstantsAssumption DEF ConstantsOK
  <1> QED BY <1>1, FS_Subset

\* Of the dispatchers other than d r may still send the event's message and g asked
\* Telegram, before and after a step of d.
Splits(d, e, r, g) ==
    /\ g <= r /\ (~Overtakes(d, e) => r = 0)
    /\ Cardinality(SendersOf(e)) = r + One(MaySend(d, e))
    /\ Cardinality(SendersOf(e)') = r + One(MaySend(d, e)')
    /\ Cardinality(Asking(e)) = g + One(Asks(d, e))
    /\ Cardinality(Asking(e)') = g + One(Asks(d, e)')
    /\ Busy(e) <=> Overtakes(d, e) \/ MaySend(d, e) \/ Records(d, e)
    /\ Busy(e)' <=> Overtakes(d, e) \/ MaySend(d, e)' \/ Records(d, e)'

LEMMA OneMoves ==
    ASSUME NEW d \in Dispatchers, NEW e,
           \A o \in Dispatchers \ {d} :
                pc'[o] = pc[o] /\ current'[o] = current[o] /\ outcome'[o] = outcome[o]
    PROVE  \E r, g \in Nat : Splits(d, e, r, g)
  <1> DEFINE S == SendersOf(e) \ {d}
             A == Asking(e) \ {d}
             r == Cardinality(S)
             g == Cardinality(A)
  <1>1. /\ SendersOf(e)' \ {d} = S /\ Asking(e)' \ {d} = A /\ A \subseteq S
        /\ S \in SUBSET Dispatchers /\ A \in SUBSET S
    BY DEF SendersOf, Asking, MaySend, Asks
  <1>2. /\ SendersOf(e) \in SUBSET Dispatchers /\ SendersOf(e)' \in SUBSET Dispatchers
        /\ Asking(e) \in SUBSET Dispatchers /\ Asking(e)' \in SUBSET Dispatchers
        /\ d \in SendersOf(e) <=> MaySend(d, e)
        /\ d \in SendersOf(e)' <=> MaySend(d, e)'
        /\ d \in Asking(e) <=> Asks(d, e)
        /\ d \in Asking(e)' <=> Asks(d, e)'
    BY DEF SendersOf, Asking
  <1>3. r \in Nat /\ g \in Nat
    BY <1>2, CountWithout
  <1>4. g <= r
    BY <1>1, CountSubset
  <1>5. ~Overtakes(d, e) => r = 0
    <2>1. ~Overtakes(d, e) => S = {}
      BY DEF Overtakes, SendersOf, MaySend
    <2> QED BY <2>1, FS_EmptySet
  <1>6. /\ Cardinality(SendersOf(e)) = r + One(MaySend(d, e))
        /\ Cardinality(Asking(e)) = g + One(Asks(d, e))
    BY <1>2, CountWithout DEF One
  <1>7. /\ Cardinality(SendersOf(e)') = r + One(MaySend(d, e)')
        /\ Cardinality(Asking(e)') = g + One(Asks(d, e)')
    <2> HIDE DEF S, A
    <2>1. /\ Cardinality(SendersOf(e)') = Cardinality(SendersOf(e)' \ {d}) + One(d \in SendersOf(e)')
          /\ Cardinality(Asking(e)') = Cardinality(Asking(e)' \ {d}) + One(d \in Asking(e)')
      BY <1>2, CountWithout
    <2> QED BY <1>1, <1>2, <2>1 DEF One
  <1>8. /\ Busy(e) <=> Overtakes(d, e) \/ MaySend(d, e) \/ Records(d, e)
        /\ Busy(e)' <=> Overtakes(d, e) \/ MaySend(d, e)' \/ Records(d, e)'
    BY DEF Busy, Overtakes, MaySend, Records, Unrecorded
  <1> HIDE DEF S, A, r, g
  <1> QED BY <1>3, <1>4, <1>5, <1>6, <1>7, <1>8 DEF Splits

\* A step that no one's part in the event changes.
LEMMA QuietBalance ==
    ASSUME NEW e, Balanced(e), sends'[e] = sends[e], excuses'[e] = excuses[e],
           WasSent(AlertOf(e))' <=> WasSent(AlertOf(e)),
           \A o \in Dispatchers :
                /\ MaySend(o, e)' <=> MaySend(o, e)
                /\ Asks(o, e)' <=> Asks(o, e)
                /\ Records(o, e)' <=> Records(o, e)
    PROVE  Balanced(e)'
  <1>1. SendersOf(e)' = SendersOf(e) /\ Asking(e)' = Asking(e) /\ (Busy(e)' <=> Busy(e))
    BY DEF SendersOf, Asking, Busy
  <1> QED BY <1>1 DEF Balanced

\* Of the steps of a dispatcher: none but d's part changes.
Apart(d) == \A o \in Dispatchers \ {d} :
    pc'[o] = pc[o] /\ current'[o] = current[o] /\ outcome'[o] = outcome[o]

LEMMA DispatcherApart ==
    ASSUME Typed, NEW d \in Dispatchers,
           \/ Claim(d) \/ CheckLedger(d) \/ SendAccepted(d) \/ SendLost(d) \/ SendRefused(d)
           \/ MarkRead(d) \/ MarkWrite(d) \/ Crash(d)
    PROVE  Apart(d)
  <1> USE DEF Apart, Typed, TypeOK
  <1>1. CASE Claim(d)
    BY <1>1 DEF Claim
  <1>2. CASE CheckLedger(d)
    BY <1>2 DEF CheckLedger, EndWith
  <1>3. CASE SendAccepted(d)
    BY <1>3 DEF SendAccepted, EndWith
  <1>4. CASE SendLost(d)
    BY <1>4 DEF SendLost, EndWith
  <1>5. CASE SendRefused(d)
    BY <1>5 DEF SendRefused, EndWith
  <1>6. CASE MarkRead(d)
    BY <1>6 DEF MarkRead, Abort, Stop, Release
  <1>7. CASE MarkWrite(d)
    BY <1>7 DEF MarkWrite, Abort, Stop, Release
  <1>8. CASE Crash(d)
    BY <1>8 DEF Crash, Stop, Release
  <1> QED BY <1>1, <1>2, <1>3, <1>4, <1>5, <1>6, <1>7, <1>8

\* The claim: a second one of the event is paid for.
LEMMA ClaimBalance ==
    ASSUME Typed, NEW d \in Dispatchers, NEW e \in Events, Balanced(e), Claim(d)
    PROVE  Balanced(e)'
  <1>1. PICK x \in batch[d] :
        /\ pc[d] = "dispatching"
        /\ excuses' = [excuses EXCEPT ![x[1]] = IF Overtakes(d, x[1]) THEN @ + 1 ELSE @]
        /\ current' = [current EXCEPT ![d] = x[1]]
        /\ pc' = [pc EXCEPT ![d] = "claimed"]
        /\ UNCHANGED <<ledger, sends>>
    BY DEF Claim, Visit
  <1>2. PICK r \in Nat, g \in Nat : Splits(d, e, r, g)
    BY DispatcherApart, OneMoves DEF Apart
  <1>3. ~MaySend(d, e) /\ ~Asks(d, e) /\ ~Records(d, e)
    BY <1>1 DEF MaySend, Asks, Records, Unrecorded
  <1>4. ~Asks(d, e)' /\ ~Records(d, e)' /\ (MaySend(d, e)' <=> e = x[1])
    BY <1>1 DEF MaySend, Asks, Records, Unrecorded, Typed, TypeOK
  <1>5. /\ sends'[e] = sends[e] /\ sends[e] \in Nat /\ excuses[e] \in Nat
        /\ excuses'[e] = IF e = x[1] /\ Overtakes(d, e) THEN excuses[e] + 1 ELSE excuses[e]
        /\ WasSent(AlertOf(e))' <=> WasSent(AlertOf(e))
    BY <1>1 DEF Typed, TypeOK, WasSent
  <1> QED BY <1>2, <1>3, <1>4, <1>5 DEF Splits, Balanced, One

\* Only what the ledger does not know is sent.
LEMMA CheckLedgerBalance ==
    ASSUME Typed, NEW d \in Dispatchers, NEW e \in Events, Balanced(e), CheckLedger(d)
    PROVE  Balanced(e)'
  <1>1. PICK r \in Nat, g \in Nat : Splits(d, e, r, g)
    BY DispatcherApart, OneMoves DEF Apart
  <1>2. ~Asks(d, e) /\ ~Records(d, e) /\ (MaySend(d, e) <=> e = current[d])
    BY DEF CheckLedger, MaySend, Asks, Records, Unrecorded
  <1>3. /\ ~Records(d, e)' /\ (MaySend(d, e)' => e = current[d])
        /\ Asks(d, e)' => ~WasSent(AlertOf(e))
    BY DEF CheckLedger, EndWith, MaySend, Asks, Records, Unrecorded, Typed, TypeOK
  <1>4. /\ sends'[e] = sends[e] /\ sends[e] \in Nat
        /\ excuses'[e] = excuses[e] /\ excuses[e] \in Nat
        /\ WasSent(AlertOf(e))' <=> WasSent(AlertOf(e))
    BY DEF CheckLedger, dbVars, history, Typed, TypeOK, WasSent
  <1> QED BY <1>1, <1>2, <1>3, <1>4 DEF Splits, Balanced, One

\* What Telegram accepted is recorded, or a lost answer is an excuse.
LEMMA SendBalance ==
    ASSUME Typed, NEW d \in Dispatchers, NEW e \in Events, Balanced(e),
           SendAccepted(d) \/ SendLost(d) \/ SendRefused(d)
    PROVE  Balanced(e)'
  <1>1. PICK r \in Nat, g \in Nat : Splits(d, e, r, g)
    BY DispatcherApart, OneMoves DEF Apart
  <1> DEFINE mine == e = current[d]
  <1>2. ~Records(d, e) /\ (MaySend(d, e) <=> mine) /\ (Asks(d, e) <=> mine)
    BY DEF SendAccepted, SendLost, SendRefused, MaySend, Asks, Records, Unrecorded
  <1>3. ~MaySend(d, e)' /\ ~Asks(d, e)' /\ (WasSent(AlertOf(e))' <=> WasSent(AlertOf(e)))
    BY DEF SendAccepted, SendLost, SendRefused, EndWith, MaySend, Asks, Typed, TypeOK,
           dbVars, WasSent
  <1>4. sends[e] \in Nat /\ excuses[e] \in Nat
    BY DEF Typed, TypeOK
  <1>5. CASE SendAccepted(d)
    <2>1. /\ Records(d, e)' <=> mine
          /\ sends'[e] = IF mine THEN sends[e] + 1 ELSE sends[e]
          /\ excuses'[e] = excuses[e]
      BY <1>5 DEF SendAccepted, EndWith, Records, Unrecorded, Typed, TypeOK
    <2> QED BY <1>1, <1>2, <1>3, <1>4, <2>1 DEF Splits, Balanced, One
  <1>6. CASE SendLost(d)
    <2>1. /\ ~Records(d, e)'
          /\ sends'[e] = IF mine THEN sends[e] + 1 ELSE sends[e]
          /\ excuses'[e] = IF mine THEN excuses[e] + 1 ELSE excuses[e]
      BY <1>6 DEF SendLost, EndWith, Records, Unrecorded, Typed, TypeOK
    <2> QED BY <1>1, <1>2, <1>3, <1>4, <2>1 DEF Splits, Balanced, One
  <1>7. CASE SendRefused(d)
    <2>1. ~Records(d, e)' /\ sends'[e] = sends[e] /\ excuses'[e] = excuses[e]
      BY <1>7 DEF SendRefused, EndWith, Records, Unrecorded, history, Typed, TypeOK
    <2> QED BY <1>1, <1>2, <1>3, <1>4, <2>1 DEF Splits, Balanced, One
  <1> QED BY <1>5, <1>6, <1>7

\* A process that ends, or whose row is gone, keeps its claims paid for: the delivery
\* it had not recorded is recorded now or an excuse.
LEMMA EndBalance ==
    ASSUME Typed, NEW d \in Dispatchers, NEW e \in Events, Balanced(e), Apart(d), Stop(d),
           sends' = sends,
           \/ ~Unrecorded(d) /\ UNCHANGED <<ledger, excuses>>
           \/ Unrecorded(d) /\ Remember(AlertOf(current[d])) /\ UNCHANGED excuses
           \/ Unrecorded(d) /\ ForgetSend(d) /\ UNCHANGED ledger
    PROVE  Balanced(e)'
  <1>1. PICK r \in Nat, g \in Nat : Splits(d, e, r, g)
    BY OneMoves DEF Apart
  <1>2. ~MaySend(d, e)' /\ ~Asks(d, e)' /\ ~Records(d, e)'
    BY DEF Stop, MaySend, Asks, Records, Unrecorded, Typed, TypeOK
  <1>3. sends[e] \in Nat /\ excuses[e] \in Nat /\ AlertOf(e) \in Alerts
    BY DEF Typed, TypeOK, Events, AlertOf
  <1>4. Asks(d, e) => MaySend(d, e)
    BY DEF Asks, MaySend
  <1>5. CASE ~Unrecorded(d) /\ UNCHANGED <<ledger, excuses>>
    BY <1>1, <1>2, <1>3, <1>4, <1>5 DEF Splits, Balanced, One, WasSent, Records
  <1>6. Unrecorded(d) => ~MaySend(d, e) /\ ~Asks(d, e) /\ (Records(d, e) <=> e = current[d])
    BY DEF Unrecorded, MaySend, Asks, Records
  <1>7. CASE Unrecorded(d) /\ Remember(AlertOf(current[d])) /\ UNCHANGED excuses
    <2>1. WasSent(AlertOf(e))' <=> WasSent(AlertOf(e)) \/ AlertOf(e) = AlertOf(current[d])
      BY <1>3, <1>7, ConstantsAssumption DEF Remember, WasSent, Typed, TypeOK, ConstantsOK
    <2>2. e = current[d] => AlertOf(e) = AlertOf(current[d])
      OBVIOUS
    <2> QED BY <1>1, <1>2, <1>3, <1>6, <1>7, <2>1, <2>2 DEF Splits, Balanced, One
  <1>8. CASE Unrecorded(d) /\ ForgetSend(d) /\ UNCHANGED ledger
    <2>1. /\ WasSent(AlertOf(e))' <=> WasSent(AlertOf(e))
          /\ excuses'[e] = IF e = current[d] THEN excuses[e] + 1 ELSE excuses[e]
      BY <1>8 DEF ForgetSend, WasSent, Typed, TypeOK
    <2> QED BY <1>1, <1>2, <1>3, <1>6, <1>8, <2>1 DEF Splits, Balanced, One
  <1> QED BY <1>5, <1>7, <1>8

LEMMA MarkReadBalance ==
    ASSUME Typed, NEW d \in Dispatchers, NEW e \in Events, Balanced(e), MarkRead(d)
    PROVE  Balanced(e)'
  <1>1. CASE Live(current[d], held[d])
    <2>1. \A o \in Dispatchers :
             /\ MaySend(o, e)' <=> MaySend(o, e)
             /\ Asks(o, e)' <=> Asks(o, e)
             /\ Records(o, e)' <=> Records(o, e)
      BY <1>1 DEF MarkRead, MaySend, Asks, Records, Unrecorded, Typed, TypeOK
    <2>2. /\ sends'[e] = sends[e] /\ excuses'[e] = excuses[e]
          /\ WasSent(AlertOf(e))' <=> WasSent(AlertOf(e))
      BY <1>1 DEF MarkRead, WasSent
    <2> QED BY <2>1, <2>2, QuietBalance
  <1>2. CASE ~Live(current[d], held[d])
    <2>1. Abort(d) /\ sends' = sends
      BY <1>2 DEF MarkRead
    <2> QED BY <2>1, DispatcherApart, EndBalance DEF Abort
  <1> QED BY <1>1, <1>2

\* A delivery and its ledger entry are one commit.
LEMMA MarkWriteBalance ==
    ASSUME Typed, NEW d \in Dispatchers, NEW e \in Events, Balanced(e), MarkWrite(d)
    PROVE  Balanced(e)'
  <1>1. CASE Live(current[d], held[d])
    <2>1. PICK r \in Nat, g \in Nat : Splits(d, e, r, g)
      BY DispatcherApart, OneMoves DEF Apart
    <2>2. ~MaySend(d, e)' /\ ~Asks(d, e)' /\ ~Records(d, e)'
      BY <1>1 DEF MarkWrite, MaySend, Asks, Records, Unrecorded, Typed, TypeOK
    <2>3. /\ ~MaySend(d, e) /\ ~Asks(d, e)
          /\ Records(d, e) <=> e = current[d] /\ outcome[d] = "sent"
      BY DEF MarkWrite, MaySend, Asks, Records, Unrecorded
    <2>4. /\ sends'[e] = sends[e] /\ sends[e] \in Nat
          /\ excuses'[e] = excuses[e] /\ excuses[e] \in Nat /\ AlertOf(e) \in Alerts
      BY <1>1 DEF MarkWrite, Typed, TypeOK, Events, AlertOf
    <2>5. WasSent(AlertOf(e))' <=>
            WasSent(AlertOf(e)) \/ (outcome[d] = "sent" /\ AlertOf(e) = AlertOf(current[d]))
      BY <1>1, <2>4, ConstantsAssumption
         DEF MarkWrite, Remember, WasSent, Typed, TypeOK, ConstantsOK
    <2>6. e = current[d] => AlertOf(e) = AlertOf(current[d])
      OBVIOUS
    <2> QED BY <2>1, <2>2, <2>3, <2>4, <2>5, <2>6 DEF Splits, Balanced, One
  <1>2. CASE ~Live(current[d], held[d])
    <2>1. Abort(d) /\ sends' = sends
      BY <1>2 DEF MarkWrite
    <2> QED BY <2>1, DispatcherApart, EndBalance DEF Abort
  <1> QED BY <1>1, <1>2

LEMMA CrashBalance ==
    ASSUME Typed, NEW d \in Dispatchers, NEW e \in Events, Balanced(e), Crash(d)
    PROVE  Balanced(e)'
  <1>1. Stop(d) /\ sends' = sends /\ UNCHANGED ledger
        /\ IF Unrecorded(d) THEN ForgetSend(d) ELSE UNCHANGED excuses
    BY DEF Crash, dbVars
  <1> QED BY <1>1, DispatcherApart, EndBalance

\* Enqueueing, choosing a batch and skipping are no one's part in an event.
LEMMA BetweenBalance ==
    ASSUME Typed, NEW d \in Dispatchers, NEW e \in Events, Balanced(e),
           \/ \E as \in SUBSET Alerts : Enqueue(d, as)
           \/ StartDispatch(d) \/ FinishDispatch(d) \/ ClaimTampered(d) \/ Skip(d)
    PROVE  Balanced(e)'
  <1>1. /\ UNCHANGED <<ledger, sends, excuses, current, outcome>>
        /\ \/ pc' = pc
           \/ /\ pc[d] \in {"idle", "dispatching"}
              /\ \E p \in {"idle", "dispatching"} : pc' = [pc EXCEPT ![d] = p]
    BY DEF Enqueue, StartDispatch, FinishDispatch, ClaimTampered, Skip, dbVars, history
  <1>2. \A o \in Dispatchers :
            /\ MaySend(o, e)' <=> MaySend(o, e)
            /\ Asks(o, e)' <=> Asks(o, e)
            /\ Records(o, e)' <=> Records(o, e)
    BY <1>1 DEF MaySend, Asks, Records, Unrecorded, Typed, TypeOK
  <1> QED BY <1>1, <1>2, QuietBalance DEF WasSent

\* An entry of the ledger that expires is an excuse for every event of its alert.
LEMMA PurgeBalance ==
    ASSUME Typed, NEW e \in Events, Balanced(e), Purge
    PROVE  Balanced(e)'
  <1>1. /\ SendersOf(e)' = SendersOf(e) /\ Asking(e)' = Asking(e) /\ (Busy(e)' <=> Busy(e))
        /\ sends' = sends
    BY DEF Purge, dispatcherVars, SendersOf, Asking, Busy, MaySend, Asks, Records, Unrecorded
  <1>2. AlertOf(e) \in Alerts /\ sends[e] \in Nat /\ excuses[e] \in Nat
    BY DEF Events, AlertOf, Typed, TypeOK
  <1>3. \/ (WasSent(AlertOf(e))' <=> WasSent(AlertOf(e))) /\ excuses'[e] = excuses[e]
        \/ WasSent(AlertOf(e)) /\ ~WasSent(AlertOf(e))' /\ excuses'[e] = excuses[e] + 1
    BY <1>2 DEF Purge, WasSent, Typed, TypeOK
  <1>4. /\ Cardinality(SendersOf(e)) \in Nat /\ Cardinality(Asking(e)) \in Nat
        /\ ~Busy(e) => Cardinality(Asking(e)) = 0
    <2>1. SendersOf(e) \in SUBSET Dispatchers /\ Asking(e) \in SUBSET Dispatchers
      BY DEF SendersOf, Asking
    <2>2. ~Busy(e) => Asking(e) = {}
      BY DEF Busy, Asking, Asks, MaySend
    <2>3. IsFiniteSet(SendersOf(e)) /\ IsFiniteSet(Asking(e))
      BY <2>1, FS_Subset, ConstantsAssumption DEF ConstantsOK
    <2> QED BY <2>2, <2>3, FS_CardinalityType, FS_EmptySet
  <1> QED BY <1>1, <1>2, <1>3, <1>4 DEF Balanced

LEMMA TimeBalance ==
    ASSUME Typed, NEW e \in Events, Balanced(e), MoveChat \/ Tick \/ UNCHANGED vars
    PROVE  Balanced(e)'
  <1>1. UNCHANGED <<pc, current, outcome, sends, excuses>>
    BY DEF MoveChat, Tick, vars, dispatcherVars, history
  <1>2. WasSent(AlertOf(e))' <=> WasSent(AlertOf(e))
    <2>1. AlertOf(e) \in Alerts
      BY DEF Events, AlertOf
    <2>2. CASE Tick
      <3>1. \A n \in Nat : Smaller(LedgerRetention, n + 1) \in Nat
        BY ConstantsAssumption DEF ConstantsOK, Smaller
      <3>2. NotSent \notin Nat
        BY ConstantsAssumption DEF ConstantsOK
      <3> DEFINE a == AlertOf(e)
      <3>3. ledger'[a] = IF ledger[a] # NotSent THEN Smaller(LedgerRetention, ledger[a] + 1)
                         ELSE NotSent
        BY <2>1, <2>2 DEF Tick, WasSent
      <3>4. ledger[a] # NotSent => ledger[a] \in Nat
        BY <2>1 DEF Typed, TypeOK
      <3> HIDE DEF a
      <3> QED BY <3>1, <3>2, <3>3, <3>4 DEF WasSent, a
    <2>3. CASE ~Tick
      BY <2>3 DEF MoveChat, vars, dbVars, WasSent
    <2> QED BY <2>2, <2>3
  <1>3. \A o \in Dispatchers :
            /\ MaySend(o, e)' <=> MaySend(o, e)
            /\ Asks(o, e)' <=> Asks(o, e)
            /\ Records(o, e)' <=> Records(o, e)
    BY <1>1 DEF MaySend, Asks, Records, Unrecorded
  <1> QED BY <1>1, <1>2, <1>3, QuietBalance

LEMMA InitBalance == Init => \A e \in Events : Balanced(e)
  <1> SUFFICES ASSUME Init, NEW e \in Events PROVE Balanced(e)
    OBVIOUS
  <1>1. ~Busy(e) /\ sends[e] = 0 /\ excuses[e] = 0
    BY DEF Init, Busy, MaySend, Records, Unrecorded
  <1>2. ~WasSent(AlertOf(e))
    BY DEF Init, WasSent, Events, AlertOf
  <1> QED BY <1>1, <1>2 DEF Balanced

LEMMA StepBalance ==
    ASSUME IInv, [Next]_vars
    PROVE  IInv'
  <1>1. Typed /\ \A e \in Events : Balanced(e)
    BY DEF IInv
  <1>2. Typed'
    BY <1>1, StepTyped
  <1>3. \A e \in Events : Balanced(e)'
    BY <1>1, Steps, BetweenBalance, ClaimBalance, CheckLedgerBalance, SendBalance,
       MarkReadBalance, MarkWriteBalance, CrashBalance, PurgeBalance, TimeBalance
  <1> QED BY <1>2, <1>3 DEF IInv

\* Balanced events have been sent once, and once more for each excuse.
LEMMA BalanceBounds ==
    ASSUME IInv
    PROVE  DuplicateNeedsExcuse
  <1> SUFFICES ASSUME NEW e \in Events PROVE sends[e] <= 1 + excuses[e]
    BY DEF DuplicateNeedsExcuse
  <1>1. Balanced(e) /\ sends[e] \in Nat /\ excuses[e] \in Nat
    BY DEF IInv, Typed, TypeOK
  <1>2. Cardinality(SendersOf(e)) \in Nat /\ Cardinality(Asking(e)) \in Nat
    <2>1. SendersOf(e) \in SUBSET Dispatchers /\ Asking(e) \in SUBSET Dispatchers
      BY DEF SendersOf, Asking
    <2>2. IsFiniteSet(SendersOf(e)) /\ IsFiniteSet(Asking(e))
      BY <2>1, FS_Subset, ConstantsAssumption DEF ConstantsOK
    <2> QED BY <2>2, FS_CardinalityType
  <1> QED BY <1>1, <1>2 DEF Balanced

\* However many dispatchers claim, overtake, crash and retry, and whatever is purged,
\* Telegram gets an event's message once, and once more at most for every counted
\* reason (ADR-040 items 5, 6 and 10; events/outbox.py; alerts/operations.py).
THEOREM NeverRepeatedForNothing == Spec => []DuplicateNeedsExcuse
  <1>1. Init => IInv
    BY InitTyped, InitBalance DEF IInv
  <1> QED BY <1>1, StepBalance, BalanceBounds, PTL DEF Spec

-----------------------------------------------------------------------------
(* What is recorded as delivered was sent.                                  *)

Sent(a) == \E c \in Destinations : sends[<<a, c>>] > 0
Delivered(e) == Exists(e) /\ row[e].status = "DELIVERED"
Knows(d) == pc[d] \in {"marking", "writing"} /\ outcome[d] = "known"

\* Whoever is about to record a delivery knows of one.
Witnessed ==
    /\ ConfirmedWasSent
    /\ \A d \in Dispatchers :
        /\ Unrecorded(d) => Sent(AlertOf(current[d]))
        /\ Knows(d) => Sent(AlertOf(current[d]))

\* What Telegram accepted is never taken back.
LEMMA SentKept ==
    ASSUME Typed, [Next]_vars, NEW a \in Alerts, Sent(a)
    PROVE  Sent(a)'
  <1>1. PICK c \in Destinations : sends[<<a, c>>] > 0
    BY DEF Sent
  <1>2. <<a, c>> \in Events /\ sends[<<a, c>>] \in Nat
    BY DEF Events, Typed, TypeOK
  <1>3. \/ sends' = sends
        \/ \E d \in Dispatchers : sends' = [sends EXCEPT ![current[d]] = @ + 1]
    BY Steps DEF Enqueue, StartDispatch, FinishDispatch, Claim, ClaimTampered, Skip,
       CheckLedger, SendAccepted, SendLost, SendRefused, MarkRead, MarkWrite, Crash, Purge,
       MoveChat, Tick, vars, dbVars, history
  <1>4. sends'[<<a, c>>] > 0
    BY <1>1, <1>2, <1>3 DEF Typed, TypeOK
  <1> QED BY <1>4 DEF Sent

\* Telegram accepted a message of the event: its alert was sent.
LEMMA EventSent ==
    ASSUME NEW e \in Events, sends[e] > 0
    PROVE  AlertOf(e) \in Alerts /\ Sent(AlertOf(e))
  <1>1. PICK a \in Alerts, c \in Destinations : e = <<a, c>>
    BY DEF Events
  <1> QED BY <1>1 DEF AlertOf, Sent

\* Only a dispatcher that had a delivery to record makes an entry in the ledger.
LEMMA LedgerEntries ==
    ASSUME Typed, [Next]_vars, NEW a \in Alerts, WasSent(a)', ~WasSent(a)
    PROVE  \E d \in Dispatchers : Unrecorded(d) /\ AlertOf(current[d]) = a
  <1>1. ledger[a] = NotSent /\ ledger'[a] # NotSent
    BY DEF WasSent
  <1>2. ASSUME NEW d \in Dispatchers, Unrecorded(d), Remember(AlertOf(current[d]))
        PROVE  AlertOf(current[d]) = a
    BY <1>1, <1>2 DEF Remember, Typed, TypeOK
  <1>3. CASE \E d \in Dispatchers : MarkRead(d)
    BY <1>1, <1>2, <1>3 DEF MarkRead, Abort
  <1>4. CASE \E d \in Dispatchers : MarkWrite(d)
    <2>1. PICK d \in Dispatchers : MarkWrite(d)
      BY <1>4
    <2>2. CASE Live(current[d], held[d])
      BY <1>1, <1>2, <2>1, <2>2 DEF MarkWrite, Unrecorded
    <2>3. CASE ~Live(current[d], held[d])
      BY <1>1, <1>2, <2>1, <2>3 DEF MarkWrite, Abort
    <2> QED BY <2>2, <2>3
  <1>5. CASE Purge
    BY <1>1, <1>5 DEF Purge
  <1>6. CASE Tick
    BY <1>1, <1>6 DEF Tick, WasSent
  <1>7. CASE UNCHANGED ledger
    BY <1>1, <1>7
  <1> QED BY <1>3, <1>4, <1>5, <1>6, <1>7, Steps
          DEF Enqueue, StartDispatch, FinishDispatch, Claim, ClaimTampered, Skip,
              CheckLedger, SendAccepted, SendLost, SendRefused, Crash, MoveChat, vars, dbVars

\* A mark makes a row DELIVERED only for a delivery.
LEMMA MarkedDelivered ==
    ASSUME NEW now \in Row, NEW old \in Row, NEW result \in Outcomes,
           Marked(now, old, result).status = "DELIVERED", now.status # "DELIVERED"
    PROVE  result \in {"sent", "known"}
  <1> DEFINE status == CASE result \in {"sent", "known"} -> "DELIVERED"
                         [] GivesUp(old, result) -> "FAILED"
                         [] OTHER -> "PENDING"
  <1>1. Marked(now, old, result).status = IF status # old.status THEN status ELSE now.status
    BY DEF Marked, Row
  <1>2. status = "DELIVERED"
    <2> HIDE DEF status
    <2> QED BY <1>1
  <1> QED BY <1>2

\* Only a dispatcher that knows of a delivery marks an event DELIVERED.
LEMMA DeliveredEvents ==
    ASSUME Typed, [Next]_vars, NEW e \in Events, Delivered(e)', ~Delivered(e)
    PROVE  \E d \in Dispatchers : (Unrecorded(d) \/ Knows(d)) /\ current[d] = e
  <1>1. row'[e] # NoRow /\ row'[e].status = "DELIVERED"
        /\ (row[e] = NoRow \/ row[e].status # "DELIVERED")
    BY DEF Delivered, Exists
  <1>2. CASE \E d \in Dispatchers : MarkWrite(d)
    <2>1. PICK d \in Dispatchers : MarkWrite(d)
      BY <1>2
    <2>2. Live(current[d], held[d])
      BY <1>1, <2>1 DEF MarkWrite
    <2>3. /\ current[d] \in Events /\ row[current[d]] \in Row /\ seen[d] \in Row
          /\ outcome[d] \in Outcomes /\ pc[d] = "writing"
      BY <2>1, <2>2 DEF MarkWrite, Live, Exists, Typed, TypeOK, Carries, Engaged
    <2>4. row' = [row EXCEPT ![current[d]] = Marked(row[current[d]], seen[d], outcome[d])]
      BY <2>1, <2>2 DEF MarkWrite
    <2>5. current[d] = e
      BY <1>1, <2>3, <2>4 DEF Typed, TypeOK
    <2>6. row'[e] = Marked(row[e], seen[d], outcome[d]) /\ row[e].status # "DELIVERED"
      <3>1. row[e] # NoRow
        BY <2>3, <2>5, ConstantsAssumption DEF ConstantsOK
      <3>2. row'[e] = Marked(row[e], seen[d], outcome[d])
        BY <2>4, <2>5 DEF Typed, TypeOK
      <3> QED BY <1>1, <3>1, <3>2
    <2>7. outcome[d] \in {"sent", "known"}
      BY <1>1, <2>3, <2>5, <2>6, MarkedDelivered
    <2> QED BY <2>3, <2>5, <2>7 DEF Unrecorded, Knows
  <1>3. CASE \E d \in Dispatchers, as \in SUBSET Alerts : Enqueue(d, as)
    <2>1. PICK d \in Dispatchers, as \in SUBSET Alerts : Enqueue(d, as)
      BY <1>3
    <2> DEFINE asked == {<<a, chat>> : a \in as}
               new == {f \in asked : ~Exists(f)}
               fresh == [status |-> "PENDING", attempts |-> 0, wait |-> 0, locked |-> FALSE,
                         lease |-> 0, age |-> 0, id |-> inserted + 1]
    <2>2. row' = [f \in Events |-> IF f \in new THEN fresh ELSE row[f]]
      BY <2>1 DEF Enqueue
    <2>3. fresh.status = "PENDING"
      OBVIOUS
    <2> HIDE DEF asked, new, fresh
    <2> QED BY <1>1, <2>2, <2>3
  <1>4. CASE \E d \in Dispatchers : Claim(d)
    <2>1. row'[e] # row[e] => row'[e].status = "PROCESSING"
      BY <1>4 DEF Claim, Live, Exists, Typed, TypeOK, Row
    <2> QED BY <1>1, <2>1
  <1>5. CASE \E d \in Dispatchers : ClaimTampered(d)
    <2>1. row'[e] # row[e] => row'[e].status = "FAILED"
      BY <1>5 DEF ClaimTampered, Live, Exists, Typed, TypeOK, Row
    <2> QED BY <1>1, <2>1
  <1>6. CASE Purge
    BY <1>1, <1>6 DEF Purge
  <1>7. CASE Tick
    <2>1. row[e] # NoRow => row'[e].status = row[e].status
      BY <1>7 DEF Tick, Exists, Typed, TypeOK, Row
    <2>2. row[e] = NoRow => row'[e] = NoRow
      BY <1>7 DEF Tick, Exists
    <2> QED BY <1>1, <2>1, <2>2
  <1>8. CASE UNCHANGED row
    BY <1>1, <1>8
  <1> QED BY <1>2, <1>3, <1>4, <1>5, <1>6, <1>7, <1>8, Steps
          DEF StartDispatch, FinishDispatch, Skip, CheckLedger, SendAccepted, SendLost,
              SendRefused, MarkRead, Crash, MoveChat, vars, dbVars

\* A delivery to record comes from Telegram's answer, or from the ledger.
LEMMA Witnesses ==
    ASSUME Typed, Witnessed, [Next]_vars, NEW d \in Dispatchers, (Unrecorded(d) \/ Knows(d))'
    PROVE  Sent(AlertOf(current[d]))' /\ current'[d] = current[d]
  <1> DEFINE a == AlertOf(current[d])
             Marks == pc[d] \in {"marking", "writing"} /\ outcome[d] \in {"sent", "known"}
  <1>1. CASE Marks /\ outcome'[d] = outcome[d] /\ current'[d] = current[d]
    <2>1. Sent(a) /\ current[d] \in Events
      BY <1>1 DEF Witnessed, Unrecorded, Knows, Typed, Carries, Engaged
    <2>2. a \in Alerts
      BY <2>1 DEF Events, AlertOf
    <2> QED BY <1>1, <2>1, <2>2, SentKept
  <1>2. ASSUME SendAccepted(d)
        PROVE  Sent(a)' /\ current'[d] = current[d]
    <2>1. current[d] \in Events /\ sends'[current[d]] > 0 /\ current' = current
      BY <1>2 DEF SendAccepted, Typed, TypeOK, Carries, Engaged
    <2>2. PICK b \in Alerts, c \in Destinations : current[d] = <<b, c>>
      BY <2>1 DEF Events
    <2> QED BY <2>1, <2>2 DEF Sent, AlertOf
  <1>3. ASSUME CheckLedger(d), Knows(d)'
        PROVE  Sent(a)' /\ current'[d] = current[d]
    <2>1. current[d] \in Events /\ WasSent(a) /\ current' = current /\ pc[d] = "claimed"
      BY <1>3 DEF CheckLedger, EndWith, Knows, Typed, TypeOK, Carries, Engaged
    <2>2. a \in Alerts
      BY <2>1 DEF Events, AlertOf
    <2>3. Sent(a)
      BY <2>1, <2>2 DEF Witnessed, ConfirmedWasSent, Sent
    <2> QED BY <2>1, <2>2, <2>3, SentKept
  <1>4. \A o \in Dispatchers : Apart(o) /\ o # d =>
            Marks /\ outcome'[d] = outcome[d] /\ current'[d] = current[d]
    BY DEF Apart, Unrecorded, Knows
  <1>5. CASE \E o \in Dispatchers : \/ Claim(o) \/ SendLost(o) \/ SendRefused(o) \/ MarkRead(o)
                                     \/ MarkWrite(o) \/ Crash(o) \/ CheckLedger(o)
                                     \/ SendAccepted(o)
    <2>1. PICK o \in Dispatchers : \/ Claim(o) \/ SendLost(o) \/ SendRefused(o) \/ MarkRead(o)
                                   \/ MarkWrite(o) \/ Crash(o) \/ CheckLedger(o)
                                   \/ SendAccepted(o)
      BY <1>5
    <2>2. CASE o # d
      BY <1>1, <1>4, <2>1, <2>2, DispatcherApart
    <2>3. CASE o = d
      <3>1. CASE SendAccepted(d)
        BY <1>2, <3>1
      <3>2. CASE CheckLedger(d)
        <4>1. ~Unrecorded(d)'
          BY <3>2 DEF CheckLedger, EndWith, Unrecorded, Typed, TypeOK
        <4> QED BY <1>3, <3>2, <4>1
      <3>3. CASE MarkRead(d) /\ Live(current[d], held[d])
        BY <1>1, <3>3 DEF MarkRead, Unrecorded, Knows, Typed, TypeOK
      <3>4. CASE \/ Claim(d) \/ SendLost(d) \/ SendRefused(d) \/ MarkWrite(d) \/ Crash(d)
                 \/ MarkRead(d) /\ ~Live(current[d], held[d])
        BY <3>4 DEF Claim, SendLost, SendRefused, MarkRead, MarkWrite, Crash, EndWith, Abort,
                    Stop, Release, Unrecorded, Knows, Typed, TypeOK
      <3> QED BY <2>1, <2>3, <3>1, <3>2, <3>3, <3>4
    <2> QED BY <2>2, <2>3
  <1>6. CASE UNCHANGED <<current, outcome>>
             /\ \/ pc' = pc
                \/ \E o \in Dispatchers, p \in {"idle", "dispatching"} :
                        pc' = [pc EXCEPT ![o] = p]
    <2>1. Marks
      BY <1>6 DEF Unrecorded, Knows, Typed, TypeOK
    <2> QED BY <1>1, <1>6, <2>1
  <1> QED BY <1>5, <1>6, Steps
          DEF Enqueue, StartDispatch, FinishDispatch, ClaimTampered, Skip, Purge, MoveChat,
              Tick, vars, dispatcherVars, dbVars, history

LEMMA StepWitnessed ==
    ASSUME Typed, Witnessed, [Next]_vars
    PROVE  Witnessed'
  <1>1. ASSUME NEW a \in Alerts, WasSent(a)' \/ \E e \in Events : AlertOf(e) = a /\ Delivered(e)'
        PROVE  Sent(a)'
    <2>1. CASE WasSent(a) \/ \E e \in Events : AlertOf(e) = a /\ Delivered(e)
      <3>1. Sent(a)
        BY <2>1 DEF Witnessed, ConfirmedWasSent, Sent, Delivered
      <3> QED BY <3>1, SentKept
    <2>2. CASE \E d \in Dispatchers : (Unrecorded(d) \/ Knows(d)) /\ AlertOf(current[d]) = a
      <3>1. Sent(a)
        BY <2>2 DEF Witnessed
      <3> QED BY <3>1, SentKept
    <2> QED BY <1>1, <2>1, <2>2, LedgerEntries, DeliveredEvents
  <1>2. ConfirmedWasSent'
    BY <1>1 DEF ConfirmedWasSent, Sent, Delivered
  <1>3. \A d \in Dispatchers : (Unrecorded(d) \/ Knows(d))' => Sent(AlertOf(current[d]))'
    BY Witnesses DEF AlertOf
  <1> QED BY <1>2, <1>3 DEF Witnessed

\* The ledger, and an event marked DELIVERED, speak only of alerts Telegram accepted,
\* however late the marks of overtaken dispatchers come (alerts/sql_ledger.py, record;
\* events/outbox.py, mark_delivered).
THEOREM OnlyConfirmedIsRecorded == Spec => []ConfirmedWasSent
  <1>1. Init => Witnessed
    BY DEF Init, Witnessed, ConfirmedWasSent, Unrecorded, Knows, WasSent, Exists
  <1>2. Spec => [](Typed /\ Witnessed)
    BY <1>1, InitTyped, StepTyped, StepWitnessed, PTL DEF Spec
  <1>3. Witnessed => ConfirmedWasSent
    BY DEF Witnessed
  <1> QED BY <1>2, <1>3, PTL

-----------------------------------------------------------------------------
(* One dispatcher at a time implements at-least-once delivery: every step of *)
(* the outbox is a step of AlertDelivery, or none of its business; for any   *)
(* alerts, chats, timeouts and numbers of attempts.                          *)

\* What the only dispatcher holds nobody else touches: the row is the one it claimed,
\* as it left it, and what it knew of the ledger is still so.
Undisturbed(d) ==
    pc[d] \in Engaged =>
        /\ Live(current[d], held[d]) /\ row[current[d]].status = "PROCESSING"
        /\ pc[d] = "sending" => ~WasSent(AlertOf(current[d]))
        /\ pc[d] = "writing" => seen[d].status = "PROCESSING"

LEMMA UndisturbedStep ==
    ASSUME NEW d, Dispatchers = {d}, Typed, Undisturbed(d), [Next]_vars
    PROVE  Undisturbed(d)'
  <1> USE DEF Undisturbed, Engaged
  <1>0. d \in Dispatchers
    OBVIOUS
  <1>1. CASE \E as \in SUBSET Alerts : Enqueue(d, as)
    <2>1. pc'[d] = "dispatching"
      BY <1>0, <1>1 DEF Enqueue, Typed, TypeOK
    <2> QED BY <2>1
  <1>2. CASE StartDispatch(d) \/ FinishDispatch(d) \/ ClaimTampered(d) \/ Skip(d)
    <2>1. pc'[d] \in {"idle", "dispatching"}
      BY <1>0, <1>2 DEF StartDispatch, FinishDispatch, ClaimTampered, Skip, Visit, Typed, TypeOK
    <2> QED BY <2>1
  <1>3. CASE Claim(d)
    <2>1. PICK x \in batch[d] :
            /\ Live(x[1], x[2])
            /\ row' = [row EXCEPT ![x[1]].status = "PROCESSING", ![x[1]].locked = TRUE,
                                  ![x[1]].lease = StaleAfter]
            /\ current' = [current EXCEPT ![d] = x[1]]
            /\ held' = [held EXCEPT ![d] = x[2]]
            /\ pc' = [pc EXCEPT ![d] = "claimed"]
      BY <1>3 DEF Claim
    <2>2. x[1] \in Events /\ row[x[1]] \in Row /\ row[x[1]].id = x[2]
      BY <2>1 DEF Typed, TypeOK, Live, Exists
    <2>3. /\ row'[x[1]].status = "PROCESSING" /\ row'[x[1]].id = x[2]
          /\ row'[x[1]] \in Row
      <3>1. StaleAfter \in Nat
        BY ConstantsAssumption DEF ConstantsOK
      <3> QED BY <2>1, <2>2, <3>1 DEF Typed, TypeOK, Row, Statuses
    <2>4. row'[x[1]] # NoRow
      BY <2>3, ConstantsAssumption DEF ConstantsOK
    <2> QED BY <1>0, <2>1, <2>3, <2>4 DEF Typed, TypeOK, Live, Exists
  <1>4. CASE CheckLedger(d)
    BY <1>0, <1>4 DEF CheckLedger, EndWith, dbVars, Live, Exists, WasSent, Typed, TypeOK
  <1>5. CASE SendAccepted(d) \/ SendLost(d) \/ SendRefused(d)
    BY <1>0, <1>5 DEF SendAccepted, SendLost, SendRefused, EndWith, dbVars, Live, Exists, WasSent,
                      Typed, TypeOK
  <1>6. CASE MarkRead(d)
    BY <1>0, <1>6 DEF MarkRead, Live, Exists, Typed, TypeOK
  <1>7. CASE MarkWrite(d)
    BY <1>0, <1>7 DEF MarkWrite, Typed, TypeOK
  <1>8. CASE Crash(d)
    BY <1>0, <1>8 DEF Crash, Stop, Typed, TypeOK
  <1>9. CASE Purge
    <2> SUFFICES ASSUME pc[d] \in Engaged PROVE Undisturbed(d)'
      BY <1>9 DEF Purge, dispatcherVars
    <2>1. current[d] \in Events /\ AlertOf(current[d]) \in Alerts
      BY <1>0 DEF Typed, Carries, Events, AlertOf
    <2>2. row'[current[d]] = row[current[d]]
      BY <1>9, <2>1 DEF Purge, Terminal
    <2>3. ~WasSent(AlertOf(current[d])) => ~WasSent(AlertOf(current[d]))'
      BY <1>9, <2>1 DEF Purge, dispatcherVars, WasSent
    <2> QED BY <1>9, <2>2, <2>3 DEF Purge, dispatcherVars, Live, Exists
  <1>10. CASE Tick
    <2> SUFFICES ASSUME pc[d] \in Engaged PROVE Undisturbed(d)'
      BY <1>10 DEF Tick, dispatcherVars
    <2>1. current[d] \in Events /\ AlertOf(current[d]) \in Alerts
      BY <1>0 DEF Typed, Carries, Events, AlertOf
    <2>2. row[current[d]] \in Row /\ row[current[d]] # NoRow
      BY <2>1 DEF Live, Exists, Typed, TypeOK
    <2>3. /\ row'[current[d]].status = row[current[d]].status
          /\ row'[current[d]].id = row[current[d]].id
      BY <1>10, <2>1, <2>2 DEF Tick, Exists, Row
    <2>4. row'[current[d]] # NoRow
      <3>1. row'[current[d]] \in Row
        <4>1. /\ \A n \in Nat : Minus1(n) \in Nat
              /\ \A n \in Nat : Smaller(EventRetention, n + 1) \in Nat
          BY ConstantsAssumption DEF ConstantsOK, Minus1, Smaller
        <4> QED BY <1>10, <2>1, <2>2, <4>1 DEF Tick, Exists, Row
      <3> QED BY <3>1, ConstantsAssumption DEF ConstantsOK
    <2>5. ~WasSent(AlertOf(current[d])) => ~WasSent(AlertOf(current[d]))'
      BY <1>10, <2>1 DEF Tick, dispatcherVars, WasSent
    <2> QED BY <1>10, <2>2, <2>3, <2>4, <2>5 DEF Tick, dispatcherVars, Live, Exists
  <1>11. CASE MoveChat \/ UNCHANGED vars
    BY <1>11 DEF MoveChat, vars, dbVars, dispatcherVars, Live, Exists, WasSent
  <1> QED BY <1>1, <1>2, <1>3, <1>4, <1>5, <1>6, <1>7, <1>8, <1>9, <1>10, <1>11, Steps

-----------------------------------------------------------------------------
(* The mapping.                                                             *)

phaseOf == [e \in Events |-> PhaseOf(row[e])]
reachedOf == [a \in Alerts |-> \E c \in Destinations : sends[<<a, c>>] > 0]
recordOf == [a \in Alerts |-> WasSent(a)]

Maps == [Delivery!Next]_Delivery!vars

LEMMA MapsStutter ==
    ASSUME phaseOf' = phaseOf, reachedOf' = reachedOf, recordOf' = recordOf
    PROVE  Maps
  BY DEF Maps, Delivery!vars, phaseOf, reachedOf, recordOf

LEMMA MapsRequest ==
    ASSUME NEW es \in SUBSET Events, \A e \in es : phaseOf[e] = "absent",
           phaseOf' = [e \in Events |-> IF e \in es THEN "queued" ELSE phaseOf[e]],
           reachedOf' = reachedOf, recordOf' = recordOf
    PROVE  Maps
  <1>1. Delivery!Request(es)
    BY DEF Delivery!Request, Delivery!Events, Events, phaseOf, reachedOf, recordOf
  <1> QED BY <1>1 DEF Maps, Delivery!Next, Delivery!Events, Events

LEMMA MapsSend ==
    ASSUME NEW e \in Events, phaseOf[e] = "queued", ~recordOf[e[1]],
           reachedOf' = [reachedOf EXCEPT ![e[1]] = TRUE],
           phaseOf' = phaseOf, recordOf' = recordOf
    PROVE  Maps
  <1>1. Delivery!Send(e)
    BY DEF Delivery!Send, phaseOf, reachedOf, recordOf
  <1> QED BY <1>1 DEF Maps, Delivery!Next, Delivery!Events, Events

LEMMA MapsDeliver ==
    ASSUME NEW e \in Events, phaseOf[e] = "queued", reachedOf[e[1]],
           phaseOf' = [phaseOf EXCEPT ![e] = "delivered"],
           recordOf' \in {recordOf, [recordOf EXCEPT ![e[1]] = TRUE]},
           reachedOf' = reachedOf
    PROVE  Maps
  <1>1. Delivery!Deliver(e)
    BY DEF Delivery!Deliver, phaseOf, reachedOf, recordOf
  <1> QED BY <1>1 DEF Maps, Delivery!Next, Delivery!Events, Events

LEMMA MapsGiveUp ==
    ASSUME NEW e \in Events, phaseOf[e] = "queued",
           phaseOf' = [phaseOf EXCEPT ![e] = "failed"],
           reachedOf' = reachedOf, recordOf' = recordOf
    PROVE  Maps
  <1>1. Delivery!GiveUp(e)
    BY DEF Delivery!GiveUp, phaseOf, reachedOf, recordOf
  <1> QED BY <1>1 DEF Maps, Delivery!Next, Delivery!Events, Events

LEMMA MapsForget ==
    ASSUME NEW es \in SUBSET Events, NEW as \in SUBSET Alerts,
           \A e \in es : phaseOf[e] \in {"delivered", "failed"},
           phaseOf' = [e \in Events |-> IF e \in es THEN "absent" ELSE phaseOf[e]],
           recordOf' = [a \in Alerts |-> recordOf[a] /\ a \notin as],
           reachedOf' = reachedOf
    PROVE  Maps
  <1>1. Delivery!Forget(es, as)
    BY DEF Delivery!Forget, Delivery!Events, Events, phaseOf, reachedOf, recordOf
  <1> QED BY <1>1 DEF Maps, Delivery!Next, Delivery!Events, Events

\* A step that replaces one row moves one event of AlertDelivery.
LEMMA RowMoves ==
    ASSUME Typed, NEW e \in Events, NEW r \in Row, row' = [row EXCEPT ![e] = r]
    PROVE  phaseOf' = [phaseOf EXCEPT ![e] = PhaseOf(r)]
  <1>1. \A f \in Events : row'[f] = IF f = e THEN r ELSE row[f]
    BY DEF Typed, TypeOK
  <1>2. \A f \in Events : PhaseOf(row'[f]) = IF f = e THEN PhaseOf(r) ELSE PhaseOf(row[f])
    BY <1>1
  <1> QED BY <1>2 DEF phaseOf

\* A message Telegram accepted reached a chat of its alert, and of no other.
LEMMA SendReaches ==
    ASSUME Typed, NEW e \in Events, sends' = [sends EXCEPT ![e] = @ + 1]
    PROVE  reachedOf' = [reachedOf EXCEPT ![e[1]] = TRUE]
  <1>1. \A f \in Events : /\ sends[f] \in Nat
                          /\ sends'[f] = IF f = e THEN sends[f] + 1 ELSE sends[f]
    BY DEF Typed, TypeOK
  <1>2. e[1] \in Alerts /\ e[2] \in Destinations /\ e = <<e[1], e[2]>>
    BY DEF Events
  <1>3. \A a \in Alerts, c \in Destinations : <<a, c>> \in Events
    BY DEF Events
  <1>4. reachedOf'[e[1]] = TRUE
    <2>1. sends'[<<e[1], e[2]>>] > 0
      BY <1>1, <1>2
    <2> QED BY <1>2, <2>1 DEF reachedOf
  <1>5. \A a \in Alerts \ {e[1]} : reachedOf'[a] = reachedOf[a]
    <2> SUFFICES ASSUME NEW a \in Alerts \ {e[1]} PROVE reachedOf'[a] = reachedOf[a]
      OBVIOUS
    <2>1. \A c \in Destinations : <<a, c>> # e
      BY <1>2
    <2>2. \A c \in Destinations : sends'[<<a, c>>] = sends[<<a, c>>]
      BY <1>1, <1>3, <2>1
    <2> QED BY <2>2 DEF reachedOf
  <1> QED BY <1>2, <1>4, <1>5 DEF reachedOf

LEMMA EnqueueMaps ==
    ASSUME Typed, NEW d \in Dispatchers, NEW as \in SUBSET Alerts, Enqueue(d, as)
    PROVE  Maps
  <1> DEFINE new == {e \in {<<a, chat>> : a \in as} : ~Exists(e)}
             fresh == [status |-> "PENDING", attempts |-> 0, wait |-> 0, locked |-> FALSE,
                       lease |-> 0, age |-> 0, id |-> inserted + 1]
  <1>1. new \in SUBSET Events
    <2>1. chat \in Destinations
      BY DEF Typed, TypeOK
    <2>2. \A a \in as : <<a, chat>> \in Events
      BY <2>1 DEF Events
    <2> QED BY <2>2
  <1>2. fresh \in Row /\ fresh # NoRow
    <2>1. inserted + 1 \in Nat
      BY DEF Typed, TypeOK
    <2>2. fresh \in Row
      BY <2>1 DEF Row, Statuses
    <2> QED BY <2>2, ConstantsAssumption DEF ConstantsOK
  <1>3. row' = [e \in Events |-> IF e \in new THEN fresh ELSE row[e]]
    BY DEF Enqueue
  <1>4. fresh.status = "PENDING"
    OBVIOUS
  <1>5. UNCHANGED <<sends, ledger>>
    BY DEF Enqueue, history
  <1>6. \A e \in new : phaseOf[e] = "absent"
    BY <1>1 DEF phaseOf, PhaseOf, Exists
  <1> HIDE DEF new, fresh
  <1>7. phaseOf' = [e \in Events |-> IF e \in new THEN "queued" ELSE phaseOf[e]]
    <2>1. PhaseOf(fresh) = "queued"
      BY <1>2, <1>4 DEF PhaseOf
    <2>2. \A e \in Events : PhaseOf(row'[e]) = IF e \in new THEN "queued" ELSE PhaseOf(row[e])
      BY <1>3, <2>1
    <2> QED BY <2>2 DEF phaseOf
  <1> QED BY <1>1, <1>5, <1>6, <1>7, MapsRequest DEF reachedOf, recordOf, WasSent

\* Claiming an event leaves it queued.
LEMMA ClaimMaps ==
    ASSUME Typed, NEW d \in Dispatchers, Claim(d)
    PROVE  Maps
  <1>1. PICK x \in batch[d] :
          /\ Live(x[1], x[2]) /\ Claimable(x[1])
          /\ row' = [row EXCEPT ![x[1]].status = "PROCESSING", ![x[1]].locked = TRUE,
                                ![x[1]].lease = StaleAfter]
    BY DEF Claim
  <1>2. UNCHANGED <<sends, ledger>>
    BY DEF Claim
  <1>3. x[1] \in Events /\ row[x[1]] \in Row
    BY <1>1 DEF Typed, TypeOK, Live, Exists
  <1> DEFINE r == [row[x[1]] EXCEPT !.status = "PROCESSING", !.locked = TRUE,
                                    !.lease = StaleAfter]
  <1>4. r \in Row /\ r.status = "PROCESSING"
    <2>1. StaleAfter \in Nat
      BY ConstantsAssumption DEF ConstantsOK
    <2> QED BY <1>3, <2>1 DEF Row, Statuses
  <1>5. row' = [row EXCEPT ![x[1]] = r]
    BY <1>1, <1>3 DEF Typed, TypeOK
  <1>6. phaseOf[x[1]] = "queued"
    BY <1>1, <1>3 DEF phaseOf, PhaseOf, Claimable, Exists
  <1> HIDE DEF r
  <1>7. phaseOf' = [phaseOf EXCEPT ![x[1]] = "queued"]
    <2>1. PhaseOf(r) = "queued"
      BY <1>4, ConstantsAssumption DEF ConstantsOK, PhaseOf
    <2> QED BY <1>3, <1>4, <1>5, <2>1, RowMoves
  <1>8. phaseOf' = phaseOf
    BY <1>3, <1>6, <1>7 DEF phaseOf
  <1> QED BY <1>2, <1>8, MapsStutter DEF reachedOf, recordOf, WasSent

\* An event whose payload was altered is given up where it is claimed.
LEMMA ClaimTamperedMaps ==
    ASSUME Typed, NEW d \in Dispatchers, ClaimTampered(d)
    PROVE  Maps
  <1>1. PICK x \in batch[d] :
          /\ Live(x[1], x[2]) /\ Claimable(x[1])
          /\ row' = [row EXCEPT ![x[1]].status = "FAILED", ![x[1]].locked = FALSE,
                                ![x[1]].lease = 0]
    BY DEF ClaimTampered
  <1>2. UNCHANGED <<sends, ledger>>
    BY DEF ClaimTampered, history
  <1>3. x[1] \in Events /\ row[x[1]] \in Row
    BY <1>1 DEF Typed, TypeOK, Live, Exists
  <1> DEFINE r == [row[x[1]] EXCEPT !.status = "FAILED", !.locked = FALSE, !.lease = 0]
  <1>4. r \in Row /\ r.status = "FAILED"
    BY <1>3 DEF Row, Statuses
  <1>5. row' = [row EXCEPT ![x[1]] = r]
    BY <1>1, <1>3 DEF Typed, TypeOK
  <1>6. phaseOf[x[1]] = "queued"
    BY <1>1, <1>3 DEF phaseOf, PhaseOf, Claimable, Exists
  <1> HIDE DEF r
  <1>7. phaseOf' = [phaseOf EXCEPT ![x[1]] = "failed"]
    <2>1. PhaseOf(r) = "failed"
      BY <1>4, ConstantsAssumption DEF ConstantsOK, PhaseOf
    <2> QED BY <1>3, <1>4, <1>5, <2>1, RowMoves
  <1> QED BY <1>2, <1>3, <1>6, <1>7, MapsGiveUp DEF reachedOf, recordOf, WasSent

\* Telegram accepted: the row is still the claimed one, and no delivery is on record.
LEMMA SendMaps ==
    ASSUME Typed, NEW d \in Dispatchers, Undisturbed(d), SendAccepted(d) \/ SendLost(d)
    PROVE  Maps
  <1>1. /\ pc[d] = "sending" /\ sends' = [sends EXCEPT ![current[d]] = @ + 1]
        /\ UNCHANGED <<row, ledger>>
    BY DEF SendAccepted, SendLost, dbVars
  <1>2. /\ current[d] \in Events /\ Exists(current[d])
        /\ row[current[d]].status = "PROCESSING" /\ ~WasSent(AlertOf(current[d]))
    BY <1>1 DEF Undisturbed, Engaged, Live, Typed, Carries
  <1>3. phaseOf[current[d]] = "queued"
    BY <1>2 DEF phaseOf, PhaseOf, Exists
  <1>4. current[d][1] \in Alerts /\ ~recordOf[current[d][1]]
    BY <1>2 DEF Events, recordOf, AlertOf
  <1>5. reachedOf' = [reachedOf EXCEPT ![current[d][1]] = TRUE]
    BY <1>1, <1>2, SendReaches
  <1>6. phaseOf' = phaseOf /\ recordOf' = recordOf
    BY <1>1 DEF phaseOf, recordOf, Exists, WasSent
  <1> QED BY <1>2, <1>3, <1>4, <1>5, <1>6, MapsSend

\* A mark settles or queues the event: delivered only once its alert was sent.
LEMMA MarkWriteMaps ==
    ASSUME Typed, Witnessed, NEW d \in Dispatchers, Undisturbed(d), MarkWrite(d)
    PROVE  Maps
  <1> DEFINE e == current[d]
             r == Marked(row[e], seen[d], outcome[d])
  <1>1. /\ pc[d] = "writing" /\ e \in Events /\ Live(e, held[d])
        /\ row[e].status = "PROCESSING" /\ seen[d].status = "PROCESSING"
        /\ seen[d] \in Row
        /\ outcome[d] \in {"sent", "known", "refused", "invalid"}
    BY DEF MarkWrite, Undisturbed, Engaged, Typed, TypeOK, Carries, Outcomes
  <1>2. row[e] \in Row /\ Exists(e) /\ phaseOf[e] = "queued"
    BY <1>1 DEF Live, Exists, Typed, TypeOK, phaseOf, PhaseOf
  <1>3. /\ row' = [row EXCEPT ![e] = r] /\ sends' = sends
        /\ outcome[d] = "sent" => Remember(AlertOf(e))
        /\ outcome[d] # "sent" => ledger' = ledger
    BY <1>1, <1>2 DEF MarkWrite, Typed, TypeOK
  <1>4. r \in Row
    BY <1>1, <1>2, MarkedType
  <1>5. r.status = CASE outcome[d] \in {"sent", "known"} -> "DELIVERED"
                     [] GivesUp(seen[d], outcome[d]) -> "FAILED"
                     [] OTHER -> "PENDING"
    BY <1>1, <1>2 DEF Marked, Row
  <1>6. phaseOf' = [phaseOf EXCEPT ![e] = PhaseOf(r)]
    <2> HIDE DEF r
    <2> QED BY <1>1, <1>3, <1>4, RowMoves
  <1>12. r # NoRow
    BY <1>4, ConstantsAssumption DEF ConstantsOK
  <1>7. reachedOf' = reachedOf
    BY <1>3 DEF reachedOf
  <1>8. e[1] \in Alerts /\ AlertOf(e) = e[1]
    BY <1>1 DEF Events, AlertOf
  <1>9. ledger \in [Alerts -> Nat \cup {NotSent}]
    BY DEF Typed, TypeOK
  <1> HIDE DEF e, r
  <1>13. outcome[d] \in {"sent", "known"} => r.status = "DELIVERED"
    BY <1>5 DEF GivesUp
  <1>10. CASE outcome[d] \in {"sent", "known"}
    <2>1. PhaseOf(r) = "delivered"
      BY <1>10, <1>12, <1>13 DEF PhaseOf
    <2>2. reachedOf[e[1]]
      <3>1. Unrecorded(d) \/ Knows(d)
        BY <1>1, <1>10 DEF Unrecorded, Knows
      <3> QED BY <3>1, <1>8 DEF Witnessed, Sent, reachedOf, e
    <2>3. recordOf' \in {recordOf, [recordOf EXCEPT ![e[1]] = TRUE]}
      <3>1. CASE outcome[d] = "sent"
        <4>1. ledger' = [ledger EXCEPT ![e[1]] = IF @ = NotSent THEN 0 ELSE @]
          BY <1>3, <1>8, <3>1 DEF Remember
        <4>2. 0 # NotSent
          BY ConstantsAssumption DEF ConstantsOK
        <4>3. \A a \in Alerts : recordOf'[a] = IF a = e[1] THEN TRUE ELSE recordOf[a]
          BY <1>8, <1>9, <4>1, <4>2 DEF recordOf, WasSent
        <4>4. recordOf' = [recordOf EXCEPT ![e[1]] = TRUE]
          BY <1>8, <4>3 DEF recordOf
        <4> QED BY <4>4
      <3>2. CASE outcome[d] # "sent"
        BY <1>3, <3>2 DEF recordOf, WasSent
      <3> QED BY <3>1, <3>2
    <2>4. e \in Events
      BY <1>1 DEF e
    <2> QED BY <1>2, <1>6, <1>7, <2>1, <2>2, <2>3, <2>4, MapsDeliver
  <1>11. CASE outcome[d] \in {"refused", "invalid"}
    <2>1. recordOf' = recordOf
      BY <1>3, <1>11 DEF recordOf, WasSent
    <2>2. e \in Events
      BY <1>1 DEF e
    <2>3. CASE GivesUp(seen[d], outcome[d])
      <3>1. PhaseOf(r) = "failed"
        BY <1>5, <1>11, <1>12, <2>3 DEF PhaseOf
      <3> QED BY <1>2, <1>6, <1>7, <2>1, <2>2, <3>1, MapsGiveUp
    <2>4. CASE ~GivesUp(seen[d], outcome[d])
      <3>1. PhaseOf(r) = "queued"
        BY <1>5, <1>11, <1>12, <2>4 DEF PhaseOf
      <3>2. phaseOf' = phaseOf
        BY <1>2, <1>6, <2>2, <3>1 DEF phaseOf
      <3> QED BY <1>7, <2>1, <3>2, MapsStutter
    <2> QED BY <2>3, <2>4
  <1> QED BY <1>1, <1>10, <1>11

\* The purge takes settled events and old deliveries only.
LEMMA PurgeMaps ==
    ASSUME Typed, Purge
    PROVE  Maps
  <1> DEFINE es == {e \in Events : Terminal(e) /\ row[e].age >= EventRetention}
             as == {a \in Alerts : ledger[a] # NotSent /\ ledger[a] >= LedgerRetention}
  <1>1. /\ row' = [e \in Events |-> IF e \in es THEN NoRow ELSE row[e]]
        /\ ledger' = [a \in Alerts |-> IF a \in as THEN NotSent ELSE ledger[a]]
        /\ sends' = sends
    BY DEF Purge
  <1>2. \A e \in es : phaseOf[e] \in {"delivered", "failed"}
    BY DEF phaseOf, PhaseOf, Terminal, Exists
  <1>3. es \in SUBSET Events /\ as \in SUBSET Alerts
    OBVIOUS
  <1> HIDE DEF es, as
  <1>4. phaseOf' = [e \in Events |-> IF e \in es THEN "absent" ELSE phaseOf[e]]
    <2>1. PhaseOf(NoRow) = "absent"
      BY DEF PhaseOf
    <2>2. \A e \in Events : PhaseOf(row'[e]) = IF e \in es THEN "absent" ELSE PhaseOf(row[e])
      BY <1>1, <2>1
    <2> QED BY <2>2 DEF phaseOf
  <1>5. recordOf' = [a \in Alerts |-> recordOf[a] /\ a \notin as]
    BY <1>1 DEF recordOf, WasSent
  <1>6. reachedOf' = reachedOf
    BY <1>1 DEF reachedOf
  <1> QED BY <1>2, <1>3, <1>4, <1>5, <1>6, MapsForget

LEMMA TickMaps ==
    ASSUME Typed, Tick
    PROVE  Maps
  <1>1. \A e \in Events : Exists(e) => /\ row'[e].status = row[e].status
                                       /\ row'[e] # NoRow
    <2> SUFFICES ASSUME NEW e \in Events, Exists(e)
                 PROVE  row'[e].status = row[e].status /\ row'[e] # NoRow
      OBVIOUS
    <2>1. row[e] \in Row
      BY DEF Exists, Typed, TypeOK
    <2>2. /\ row[e].wait \in Nat /\ row[e].lease \in Nat /\ row[e].age \in Nat
      BY <2>1 DEF Row
    <2> DEFINE w == Minus1(row[e].wait)
               l == Minus1(row[e].lease)
               g == Smaller(EventRetention, row[e].age + 1)
    <2>3. w \in Nat /\ l \in Nat /\ g \in Nat
      BY <2>2, ConstantsAssumption DEF ConstantsOK, Minus1, Smaller
    <2>4. row'[e] = [row[e] EXCEPT !.wait = w, !.lease = l, !.age = g]
      BY <2>1 DEF Tick, Row
    <2> HIDE DEF w, l, g
    <2>5. row'[e] \in Row /\ row'[e].status = row[e].status
      BY <2>1, <2>3, <2>4 DEF Row
    <2> QED BY <2>5, ConstantsAssumption DEF ConstantsOK
  <1>2. \A e \in Events : ~Exists(e) => row'[e] = NoRow
    BY DEF Tick
  <1>3. phaseOf' = phaseOf
    <2>1. \A e \in Events : PhaseOf(row'[e]) = PhaseOf(row[e])
      <3> SUFFICES ASSUME NEW e \in Events PROVE PhaseOf(row'[e]) = PhaseOf(row[e])
        OBVIOUS
      <3>1. CASE ~Exists(e)
        BY <1>2, <3>1 DEF Exists
      <3>2. CASE Exists(e)
        <4>1. row[e].status \in Statuses
          BY <3>2 DEF Exists, Typed, TypeOK, Row
        <4> QED BY <1>1, <3>2, <4>1 DEF PhaseOf, Exists, Statuses
      <3> QED BY <3>1, <3>2
    <2> QED BY <2>1 DEF phaseOf
  <1>4. \A a \in Alerts : ledger'[a] # NotSent <=> ledger[a] # NotSent
    <2> SUFFICES ASSUME NEW a \in Alerts PROVE ledger'[a] # NotSent <=> ledger[a] # NotSent
      OBVIOUS
    <2>1. CASE WasSent(a)
      <3>1. ledger[a] \in Nat
        BY <2>1 DEF WasSent, Typed, TypeOK
      <3>2. Smaller(LedgerRetention, ledger[a] + 1) \in Nat
        BY <3>1, ConstantsAssumption DEF ConstantsOK, Smaller
      <3> QED BY <2>1, <3>2, ConstantsAssumption DEF ConstantsOK, Tick, WasSent
    <2>2. CASE ~WasSent(a)
      BY <2>2 DEF Tick, WasSent
    <2> QED BY <2>1, <2>2
  <1>5. recordOf' = recordOf /\ reachedOf' = reachedOf
    BY <1>4 DEF recordOf, reachedOf, WasSent, Tick, history
  <1> QED BY <1>3, <1>5, MapsStutter

LEMMA StepMaps ==
    ASSUME NEW d, Dispatchers = {d}, Typed, Witnessed, Undisturbed(d), [Next]_vars
    PROVE  Maps
  <1>0. d \in Dispatchers
    OBVIOUS
  <1>1. CASE \E as \in SUBSET Alerts : Enqueue(d, as)
    BY <1>0, <1>1, EnqueueMaps
  <1>2. CASE Claim(d)
    BY <1>0, <1>2, ClaimMaps
  <1>3. CASE ClaimTampered(d)
    BY <1>0, <1>3, ClaimTamperedMaps
  <1>4. CASE SendAccepted(d) \/ SendLost(d)
    BY <1>0, <1>4, SendMaps
  <1>5. CASE MarkWrite(d)
    BY <1>0, <1>5, MarkWriteMaps
  <1>6. CASE Purge
    BY <1>6, PurgeMaps
  <1>7. CASE Tick
    BY <1>7, TickMaps
  <1>8. CASE UNCHANGED <<row, ledger, sends>>
    BY <1>8, MapsStutter DEF phaseOf, reachedOf, recordOf, WasSent
  <1>9. CASE StartDispatch(d) \/ FinishDispatch(d) \/ Skip(d) \/ CheckLedger(d)
    BY <1>8, <1>9 DEF StartDispatch, FinishDispatch, Skip, CheckLedger, dbVars, history
  <1>10. CASE SendRefused(d) \/ Crash(d) \/ MoveChat \/ UNCHANGED vars
    BY <1>8, <1>10 DEF SendRefused, Crash, MoveChat, dbVars, history, vars
  <1>11. CASE MarkRead(d)
    <2>1. Live(current[d], held[d])
      BY <1>11 DEF MarkRead, Undisturbed, Engaged
    <2> QED BY <1>8, <1>11, <2>1 DEF MarkRead
  <1> QED BY <1>1, <1>2, <1>3, <1>4, <1>5, <1>6, <1>7, <1>9, <1>10, <1>11, Steps

\* Proved of one dispatcher at a time (cloud_jobs.py runs the jobs of a cycle one after
\* the other): whatever the alerts, chats, delays, crashes and purges, what the outbox
\* does is what at-least-once delivery allows, and nothing is sent once a delivery is on
\* record.
THEOREM DeliversAtLeastOnce ==
    ASSUME NEW d, Dispatchers = {d}
    PROVE  Spec => ImplementsDelivery
  <1> DEFINE SInv == Typed /\ Witnessed /\ Undisturbed(d)
  <1>1. Init => SInv
    <2>1. ASSUME Init PROVE Undisturbed(d)
      BY <2>1 DEF Init, Undisturbed, Engaged
    <2>2. ASSUME Init PROVE Witnessed
      BY <2>2 DEF Init, Witnessed, ConfirmedWasSent, Unrecorded, Knows, WasSent, Exists
    <2> QED BY <2>1, <2>2, InitTyped
  <1>2. SInv /\ [Next]_vars => SInv'
    BY StepTyped, StepWitnessed, UndisturbedStep
  <1>3. SInv /\ [Next]_vars => Maps
    BY StepMaps
  <1>4. Init => Delivery!Init
    <2> SUFFICES ASSUME Init PROVE Delivery!Init
      OBVIOUS
    <2>1. \A e \in Events : PhaseOf(row[e]) = "absent"
      BY DEF Init, PhaseOf
    <2>2. \A a \in Alerts, c \in Destinations : sends[<<a, c>>] = 0
      BY DEF Init, Events
    <2>3. \A a \in Alerts : ~ \E c \in Destinations : sends[<<a, c>>] > 0
      <3> SUFFICES ASSUME NEW a \in Alerts, NEW c \in Destinations
                   PROVE  ~(sends[<<a, c>>] > 0)
        OBVIOUS
      <3>1. sends[<<a, c>>] = 0
        BY <2>2
      <3> QED BY <3>1
    <2>4. \A a \in Alerts : (ledger[a] # NotSent) = FALSE
      BY DEF Init
    <2>5. phaseOf = [e \in Events |-> "absent"]
      BY <2>1 DEF phaseOf
    <2>6. reachedOf = [a \in Alerts |-> FALSE]
      BY <2>3 DEF reachedOf
    <2>7. recordOf = [a \in Alerts |-> FALSE]
      BY <2>4 DEF recordOf, WasSent
    <2> QED BY <2>5, <2>6, <2>7 DEF Delivery!Init, Delivery!Events, Events, phaseOf,
                                    reachedOf, recordOf
  <1> HIDE DEF SInv
  <1> QED BY <1>1, <1>2, <1>3, <1>4, PTL
        DEF Spec, ImplementsDelivery, Delivery!Spec, Maps
=============================================================================
