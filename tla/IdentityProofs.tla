----------------------------- MODULE IdentityProofs -----------------------------
(***************************************************************************)
(* Theorems about the components that decide who may do what with which      *)
(* plant, of every behaviour of their composition: for any finite instance   *)
(* and any bounds.                                                          *)
(***************************************************************************)
EXTENDS MCIdentity, Sequences, FiniteSetTheorems, TLAPS

LEMMA PartKept == ASSUME [MCNext]_vars PROVE part' = part
  <1>1. CASE MCNext
    BY <1>1, Zenon DEF MCNext, RestSessions, RestLimiter, RestProvider, RestSolar,
                       RestSettings, RestScopes
  <1> QED BY <1>1 DEF vars

-----------------------------------------------------------------------------
(* Failed logins: auth/session_service.py, LoginRateLimitService.           *)

\* The state by its names.
row == s1
step == s2
view == s3
clock == s4
failures == s5
alone == s6
began == s7
met == s8
USE DEF row, step, view, clock, failures, alone, began, met

LEMMA LimiterSteps ==
    ASSUME InLimiter, MCNext
    PROVE  \/ \E a \in Attempts :
                 \/ Limiter!Begin(a) \/ Limiter!ClearExpired(a) \/ Limiter!Fail(a)
                 \/ Limiter!Count(a) \/ Limiter!Succeed(a)
           \/ Limiter!Purge \/ Limiter!Tick
  <1>1. ~InSessions /\ ~InProvider /\ ~InSolar /\ ~InSettings /\ ~InScopes
    BY DEF InLimiter, InSessions, InProvider, InSolar, InSettings, InScopes
  <1> QED BY <1>1, Zenon DEF MCNext

LimiterInv == Limiter!TypeOK /\ Limiter!LocksAreRead /\ Limiter!LonersKnow

LEMMA LimiterConstants == Limiter!ConstantsOK
  BY ConstantsOfParts

LEMMA CountedType ==
    ASSUME NEW x \in Limiter!Row \cup {NoRow}, clock \in Nat
    PROVE  Limiter!Counted(x) \in Limiter!Row
  BY LimiterConstants DEF Limiter!Counted, Limiter!Row, Limiter!ConstantsOK

LEMMA WrittenType ==
    ASSUME NEW x \in Limiter!Row, NEW new \in Limiter!Row, row \in Limiter!Row
    PROVE  Limiter!Written(x, new) \in Limiter!Row
  BY DEF Limiter!Written, Limiter!Row, Limiter!Column

LEMMA LimiterTyped ==
    ASSUME Limiter!TypeOK, InLimiter, MCNext
    PROVE  Limiter!TypeOK'
  <1> USE DEF Limiter!TypeOK, Limiter!End
  <1>1. ASSUME NEW a \in Attempts, Limiter!Begin(a) PROVE Limiter!TypeOK'
    BY <1>1 DEF Limiter!Begin, Limiter!Others
  <1>2. ASSUME NEW a \in Attempts, Limiter!ClearExpired(a) PROVE Limiter!TypeOK'
    BY <1>2 DEF Limiter!ClearExpired
  <1>3. ASSUME NEW a \in Attempts, Limiter!Fail(a) PROVE Limiter!TypeOK'
    BY <1>3 DEF Limiter!Fail
  <1>4. ASSUME NEW a \in Attempts, Limiter!Count(a) PROVE Limiter!TypeOK'
    <2>1. row' \in Limiter!Row \cup {NoRow}
      BY <1>4, CountedType, WrittenType DEF Limiter!Count
    <2>2. failures' \in Nat /\ alone' \in BOOLEAN
      <3>1. CASE (view[a] = NoRow) # (row = NoRow)
        BY <1>4, <3>1 DEF Limiter!Count
      <3>2. CASE ~((view[a] = NoRow) # (row = NoRow))
        <4>1. CASE view[a] = NoRow \/ view[a].first + Window <= clock
          <5>1. failures' = 1 /\ alone' = (a \notin met)
            BY <1>4, <3>2, <4>1, Zenon DEF Limiter!Count
          <5>2. (a \notin met) \in BOOLEAN
            BY Zenon
          <5> QED BY <5>1, <5>2
        <4>2. CASE ~(view[a] = NoRow \/ view[a].first + Window <= clock)
          BY <1>4, <3>2, <4>2 DEF Limiter!Count
        <4> QED BY <4>1, <4>2
      <3> QED BY <3>1, <3>2
    <2>3. Limiter!End(a) /\ clock' = clock
      BY <1>4 DEF Limiter!Count
    <2> QED BY <2>1, <2>2, <2>3
  <1>5. ASSUME NEW a \in Attempts, Limiter!Succeed(a) PROVE Limiter!TypeOK'
    BY <1>5 DEF Limiter!Succeed
  <1>6. CASE Limiter!Purge
    BY <1>6 DEF Limiter!Purge
  <1>7. CASE Limiter!Tick
    BY <1>7 DEF Limiter!Tick
  <1> QED BY <1>1, <1>2, <1>3, <1>4, <1>5, <1>6, <1>7, LimiterSteps

\* A row that is written keeps the older of its instants, or takes the present one.
LEMMA WrittenFirst ==
    ASSUME Limiter!TypeOK, row \in Limiter!Row, NEW x \in Limiter!Row
    PROVE  LET w == Limiter!Written(x, Limiter!Counted(x)) IN
           /\ w.first \in {row.first, clock}
           /\ w.until \in {row.until, clock + Lockout, 0}
           /\ w.until = 0 => row.until = 0 \/ (x.first + Window <= clock /\ x.until # 0)
  <1>1. /\ x.count \in Nat /\ x.first \in Nat /\ x.until \in Nat /\ clock \in Nat
        /\ row.count \in Nat /\ row.first \in Nat /\ row.until \in Nat
        /\ Lockout \in Nat \ {0} /\ x # NoRow
    BY LimiterConstants DEF Limiter!TypeOK, Limiter!Row, Limiter!ConstantsOK
  <1> QED BY <1>1 DEF Limiter!Written, Limiter!Counted, Limiter!Column

LEMMA InitLocksAreRead == Limiter!Init => Limiter!TypeOK /\ Limiter!LocksAreRead
  BY DEF Limiter!Init, Limiter!TypeOK, Limiter!LocksAreRead, Limiter!Under, Limiter!Admitted

LEMMA StepLocksAreRead ==
    ASSUME Limiter!TypeOK, Limiter!LocksAreRead, InLimiter, MCNext
    PROVE  Limiter!LocksAreRead'
  <1> USE DEF Limiter!LocksAreRead, Limiter!Under, Limiter!Admitted
  <1>0. /\ Window \in Nat \ {0} /\ Lockout \in Nat \ {0} /\ clock \in Nat
        /\ NoRow \notin Limiter!Row
    BY LimiterConstants DEF Limiter!ConstantsOK, Limiter!TypeOK
  <1>1. ASSUME NEW a \in Attempts, Limiter!Begin(a) PROVE Limiter!LocksAreRead'
    <2>1. row # NoRow => row.until \in Nat /\ row.first \in Nat
      BY DEF Limiter!TypeOK, Limiter!Row
    <2>2. step'[a] = "checking" => row = NoRow \/ row.until = 0
      BY <1>0, <1>1, <2>1 DEF Limiter!Begin, Limiter!Locked, Limiter!Expired, Limiter!TypeOK
    <2> QED BY <1>0, <1>1, <2>1, <2>2 DEF Limiter!Begin, Limiter!TypeOK
  <1>2. ASSUME NEW a \in Attempts, Limiter!ClearExpired(a) PROVE Limiter!LocksAreRead'
    BY <1>0, <1>2 DEF Limiter!ClearExpired, Limiter!TypeOK
  <1>3. ASSUME NEW a \in Attempts, Limiter!Fail(a) PROVE Limiter!LocksAreRead'
    BY <1>0, <1>3 DEF Limiter!Fail, Limiter!TypeOK
  <1>4. ASSUME NEW a \in Attempts, Limiter!Count(a) PROVE Limiter!LocksAreRead'
    <2> DEFINE x == view[a]
               new == Limiter!Counted(x)
    <2>1. /\ step' = [step EXCEPT ![a] = "idle"] /\ view' = [view EXCEPT ![a] = NoRow]
          /\ began' = [began EXCEPT ![a] = 0] /\ clock' = clock
      BY <1>4 DEF Limiter!Count, Limiter!End
    <2>2. row' # NoRow => row'.until <= clock + Lockout
      <3>1. CASE row' = row
        BY <3>1
      <3>2. CASE x = NoRow /\ row' = new
        BY <1>0, <3>2 DEF Limiter!Counted
      <3>3. CASE x # NoRow /\ row # NoRow /\ row' = Limiter!Written(x, new)
        BY <1>0, <3>3, WrittenFirst DEF Limiter!TypeOK, Limiter!Row
      <3> QED BY <1>4, <3>1, <3>2, <3>3 DEF Limiter!Count
    <2>3. ASSUME NEW b \in Attempts, Limiter!Under(b), row' # NoRow, row # NoRow \/ row' # row
          PROVE  row'.first >= began[b] \/ (row # NoRow /\ row'.first = row.first)
      <3>1. CASE row' = row
        BY <2>3, <3>1
      <3>2. CASE x = NoRow /\ row' = new
        BY <1>0, <2>3, <3>2 DEF Limiter!Counted, Limiter!TypeOK
      <3>3. CASE x # NoRow /\ row # NoRow /\ row' = Limiter!Written(x, new)
        BY <1>0, <2>3, <3>3, WrittenFirst DEF Limiter!TypeOK
      <3> QED BY <1>4, <3>1, <3>2, <3>3 DEF Limiter!Count
    <2>4. ASSUME NEW b \in Attempts, Limiter!Admitted(b), view[b] = NoRow, row' # NoRow
          PROVE  row'.first >= began[b]
      BY <2>3, <2>4
    <2> HIDE DEF x, new
    <2> QED BY <1>0, <2>1, <2>2, <2>4 DEF Limiter!TypeOK
  <1>5. ASSUME NEW a \in Attempts, Limiter!Succeed(a) PROVE Limiter!LocksAreRead'
    BY <1>0, <1>5 DEF Limiter!Succeed, Limiter!End, Limiter!TypeOK
  <1>6. CASE Limiter!Purge
    BY <1>6 DEF Limiter!Purge
  <1>7. CASE Limiter!Tick
    BY <1>0, <1>7 DEF Limiter!Tick, Limiter!TypeOK, Limiter!Row
  <1> QED BY <1>1, <1>2, <1>3, <1>4, <1>5, <1>6, <1>7, LimiterSteps

LEMMA LockIsKept ==
    ASSUME Limiter!TypeOK, Limiter!LocksAreRead, InLimiter, MCNext
    PROVE  Limiter!LockStep
  <1> SUFFICES ASSUME Limiter!Locked(row), row' # row
               PROVE  IF row' = NoRow THEN step' # step ELSE row'.until >= row.until
    BY DEF Limiter!LockStep
  <1>0. /\ Window \in Nat \ {0} /\ Lockout \in Nat \ {0} /\ clock \in Nat
        /\ row \in Limiter!Row /\ row.until \in Nat /\ row.until > clock
        /\ row.until <= clock + Lockout
    BY LimiterConstants DEF Limiter!ConstantsOK, Limiter!TypeOK, Limiter!Locked, Limiter!Row,
                            Limiter!LocksAreRead
  <1>1. ASSUME NEW a \in Attempts, Limiter!Begin(a) \/ Limiter!Fail(a) PROVE FALSE
    BY <1>1 DEF Limiter!Begin, Limiter!Fail
  <1>2. ASSUME NEW a \in Attempts, Limiter!ClearExpired(a) \/ Limiter!Succeed(a)
        PROVE  row' = NoRow /\ step' # step
    BY <1>2 DEF Limiter!ClearExpired, Limiter!Succeed, Limiter!End, Limiter!TypeOK
  <1>3. ASSUME NEW a \in Attempts, Limiter!Count(a)
        PROVE  row' # NoRow /\ row'.until >= row.until
    <2>1. /\ view[a] \in Limiter!Row /\ step[a] = "counting"
          /\ row' = Limiter!Written(view[a], Limiter!Counted(view[a]))
      BY <1>0, <1>3, LimiterConstants DEF Limiter!Count, Limiter!ConstantsOK, Limiter!TypeOK
    <2>2. view[a].until = 0 \/ ~(view[a].first + Window <= clock)
      <3>1. /\ clock < began[a] + Window /\ began[a] \in Nat
            /\ view[a].first \in Nat /\ view[a] # NoRow
        BY <2>1, LimiterConstants DEF Limiter!LocksAreRead, Limiter!Under, Limiter!TypeOK,
                                      Limiter!Row, Limiter!ConstantsOK
      <3>2. view[a].until = 0 \/ view[a].first >= began[a]
        BY <2>1, <3>1 DEF Limiter!LocksAreRead, Limiter!Admitted
      <3> QED BY <1>0, <3>1, <3>2
    <2>3. row' \in Limiter!Row
      BY <1>0, <2>1, CountedType, WrittenType
    <2>4. row'.until \in {row.until, clock + Lockout}
      BY <1>0, <2>1, <2>2, WrittenFirst
    <2> QED BY <1>0, <2>3, <2>4, LimiterConstants DEF Limiter!ConstantsOK
  <1>4. CASE Limiter!Purge
    BY <1>0, <1>4 DEF Limiter!Purge, Limiter!Purgeable
  <1>5. CASE Limiter!Tick
    BY <1>5 DEF Limiter!Tick
  <1> QED BY <1>1, <1>2, <1>3, <1>4, <1>5, LimiterSteps

LEMMA InitLonersKnow == Limiter!Init => Limiter!LonersKnow
  BY DEF Limiter!Init, Limiter!LonersKnow, Limiter!Under, Limiter!Admitted, Limiter!CountIsHonest

\* The first failure of a row, or of a window that began anew, counts one.
LEMMA CountedAnew ==
    ASSUME NEW x, clock \in Nat, x = NoRow \/ x.first + Window <= clock
    PROVE  LET new == Limiter!Counted(x) IN
           new.count = 1 /\ (new.until # 0 <=> 1 >= MaxAttempts)
  BY LimiterConstants DEF Limiter!ConstantsOK, Limiter!Counted

\* A failure on the row as it is counts one more.
LEMMA CountedOn ==
    ASSUME NEW x \in Limiter!Row, clock \in Nat, x = row,
           NEW n \in Nat, x.count = n, x.until # 0 <=> n >= MaxAttempts,
           ~(x.first + Window <= clock)
    PROVE  LET w == Limiter!Written(x, Limiter!Counted(x)) IN
           w.count = n + 1 /\ (w.until # 0 <=> n + 1 >= MaxAttempts)
  <1>1. x \in Limiter!Row /\ x # NoRow /\ x.until \in Nat /\ x.first \in Nat
    BY LimiterConstants DEF Limiter!ConstantsOK, Limiter!Row
  <1> QED BY <1>1, LimiterConstants
        DEF Limiter!ConstantsOK, Limiter!Counted, Limiter!Written, Limiter!Column

LEMMA StepLonersKnow ==
    ASSUME Limiter!TypeOK, Limiter!LonersKnow, InLimiter, MCNext
    PROVE  Limiter!LonersKnow'
  <1> USE DEF Limiter!LonersKnow, Limiter!Under, Limiter!Admitted
  <1>0. /\ Window \in Nat \ {0} /\ clock \in Nat /\ NoRow \notin Limiter!Row
        /\ failures \in Nat
    BY LimiterConstants DEF Limiter!ConstantsOK, Limiter!TypeOK
  <1>1. ASSUME NEW a \in Attempts, Limiter!Begin(a) PROVE Limiter!LonersKnow'
    <2>1. /\ step[a] = "idle" /\ row' = row /\ failures' = failures
          /\ step' = [step EXCEPT ![a] = IF Limiter!Expired(row) THEN "expired" ELSE "checking"]
          /\ view' = [view EXCEPT ![a] = row]
          /\ alone' => alone /\ Limiter!Others(a) = {}
      BY <1>1 DEF Limiter!Begin
    <2>2. Limiter!Others(a) = {b \in Attempts \ {a} : step[b] # "idle"}
      BY DEF Limiter!Others
    <2>3. met' = IF Limiter!Others(a) = {} THEN met ELSE met \cup Limiter!Others(a) \cup {a}
      BY <1>1 DEF Limiter!Begin
    <2>4. met' \subseteq {b \in Attempts : step'[b] # "idle"}
      BY <2>1, <2>2, <2>3 DEF Limiter!TypeOK
    <2>5. \A b, c \in Attempts : step'[b] # "idle" /\ step'[c] # "idle" /\ b # c => b \in met'
      BY <2>1, <2>2, <2>3 DEF Limiter!TypeOK
    <2>6. \A b \in Attempts \ met' :
            /\ Limiter!Admitted(b)' /\ view'[b] # NoRow => row' \in {view'[b], NoRow}
            /\ step'[b] = "counting" /\ view'[b] = NoRow => row' = NoRow
      <3>1. \A b \in Attempts \ met' : b = a \/ b \in Attempts \ met
        BY <2>3
      <3> QED BY <2>1, <3>1 DEF Limiter!TypeOK
    <2>7. Limiter!CountIsHonest'
      BY <2>1 DEF Limiter!CountIsHonest
    <2> QED BY <2>1, <2>3, <2>4, <2>5, <2>6, <2>7
  <1>2. ASSUME NEW a \in Attempts, NEW b \in Attempts \ {a}, a \notin met, step[a] # "idle"
        PROVE  step[b] = "idle"
    BY <1>2
  <1>3. ASSUME NEW a \in Attempts, Limiter!ClearExpired(a) PROVE Limiter!LonersKnow'
    <2>1. /\ step[a] = "expired" /\ row' = NoRow /\ met' = met
          /\ step' = [step EXCEPT ![a] = "checking"] /\ view' = [view EXCEPT ![a] = NoRow]
      BY <1>3 DEF Limiter!ClearExpired
    <2>2. alone' => a \notin met
      BY <1>3 DEF Limiter!ClearExpired
    <2>3. alone' => met' = {}
      BY <1>2, <2>1, <2>2
    <2> QED BY <2>1, <2>3 DEF Limiter!TypeOK, Limiter!CountIsHonest
  <1>4. ASSUME NEW a \in Attempts, Limiter!Fail(a) PROVE Limiter!LonersKnow'
    BY <1>4 DEF Limiter!Fail, Limiter!TypeOK, Limiter!CountIsHonest
  <1>5. ASSUME NEW a \in Attempts, Limiter!Count(a) PROVE Limiter!LonersKnow'
    <2> DEFINE x == view[a]
               new == Limiter!Counted(x)
    <2>1. /\ step[a] = "counting" /\ step' = [step EXCEPT ![a] = "idle"]
          /\ view' = [view EXCEPT ![a] = NoRow] /\ met' = met \ {a} /\ clock' = clock
      BY <1>5 DEF Limiter!Count, Limiter!End
    <2>2. alone' => alone \/ a \notin met
      BY <1>5 DEF Limiter!Count
    <2>3. alone' => met' = {}
      BY <1>2, <2>1, <2>2
    <2>4. \A b \in Attempts \ met' : step'[b] # "idle" => a \in met /\ row' = row
      <3> SUFFICES ASSUME NEW b \in Attempts \ met', step'[b] # "idle"
                   PROVE  FALSE
        OBVIOUS
      <3> QED BY <2>1 DEF Limiter!TypeOK
    <2>5. Limiter!CountIsHonest'
      <3> SUFFICES ASSUME alone', row' # NoRow
                   PROVE  /\ row'.count = failures'
                          /\ row'.until # 0 <=> failures' >= MaxAttempts
        BY DEF Limiter!CountIsHonest
      <3>1. a \notin met
        BY <2>2
      <3>2. x # NoRow => x \in Limiter!Row /\ row \in {x, NoRow}
        BY <2>1, <3>1 DEF Limiter!TypeOK
      <3>3. x = NoRow => row = NoRow
        BY <2>1, <3>1
      <3>4. CASE (x = NoRow) # (row = NoRow)
        BY <1>5, <3>2, <3>3, <3>4 DEF Limiter!Count
      <3>5. CASE x = NoRow /\ row = NoRow
        <4>1. row' = new /\ failures' = 1
          BY <1>5, <3>5 DEF Limiter!Count
        <4> QED BY <1>0, <3>5, <4>1, CountedAnew
      <3>6. CASE x # NoRow /\ row = x
        <4>1. row' = Limiter!Written(x, new)
          BY <1>5, <3>6 DEF Limiter!Count
        <4>2. CASE x.first + Window <= clock
          <5>1. failures' = 1
            BY <1>5, <3>6, <4>2 DEF Limiter!Count
          <5>2. new.count = 1 /\ (new.until # 0 <=> 1 >= MaxAttempts)
            BY <1>0, <4>2, CountedAnew
          <5>3. row'.count = new.count /\ row'.until = new.until
            <6> HIDE DEF new
            <6> QED BY <3>6, <4>1 DEF Limiter!Written, Limiter!Column
          <5> QED BY <5>1, <5>2, <5>3
        <4>3. CASE ~(x.first + Window <= clock)
          <5>1. failures' = failures + 1 /\ alone' = alone
            BY <1>5, <3>6, <4>3 DEF Limiter!Count
          <5>2. x.count = failures /\ (x.until # 0 <=> failures >= MaxAttempts)
            BY <3>6, <5>1 DEF Limiter!CountIsHonest
          <5> QED BY <1>0, <3>2, <3>6, <4>1, <4>3, <5>1, <5>2, CountedOn
        <4> QED BY <4>2, <4>3
      <3> QED BY <3>2, <3>3, <3>4, <3>5, <3>6
    <2> HIDE DEF x, new
    <2> QED BY <2>1, <2>3, <2>4, <2>5 DEF Limiter!TypeOK
  <1>6. ASSUME NEW a \in Attempts, Limiter!Succeed(a) PROVE Limiter!LonersKnow'
    <2>1. /\ step[a] = "checking" /\ step' = [step EXCEPT ![a] = "idle"] /\ row' = NoRow
          /\ view' = [view EXCEPT ![a] = NoRow] /\ met' = met \ {a}
      BY <1>6 DEF Limiter!Succeed, Limiter!End
    <2>2. alone' => a \notin met
      BY <1>6 DEF Limiter!Succeed
    <2>3. alone' => met' = {}
      BY <1>2, <2>1, <2>2
    <2> QED BY <2>1, <2>3 DEF Limiter!TypeOK, Limiter!CountIsHonest
  <1>7. CASE Limiter!Purge
    <2>1. alone' => \A a \in Attempts : step[a] = "idle"
      BY <1>7 DEF Limiter!Purge
    <2> QED BY <1>7, <2>1 DEF Limiter!Purge, Limiter!CountIsHonest
  <1>8. CASE Limiter!Tick
    BY <1>8 DEF Limiter!Tick, Limiter!CountIsHonest
  <1> QED BY <1>1, <1>3, <1>4, <1>5, <1>6, <1>7, <1>8, LimiterSteps

\* What every behaviour keeps of the limiter.
LEMMA LimiterInvHolds == MCSpec => [](InLimiter => LimiterInv)
  <1> DEFINE Inv == InLimiter => LimiterInv
  <1>1. MCInit => Inv
    BY InitLocksAreRead, InitLonersKnow DEF MCInit, InLimiter, LimiterInv
  <1>2. Inv /\ [MCNext]_vars => Inv'
    <2> SUFFICES ASSUME Inv, [MCNext]_vars, InLimiter' PROVE Inv'
      OBVIOUS
    <2>1. InLimiter
      BY PartKept DEF InLimiter
    <2>2. CASE MCNext
      BY <2>1, <2>2, LimiterTyped, StepLocksAreRead, StepLonersKnow DEF LimiterInv
    <2>3. CASE UNCHANGED vars
      BY <2>1, <2>3 DEF vars, LimiterInv, Limiter!TypeOK, Limiter!LocksAreRead, Limiter!LonersKnow,
             Limiter!Under, Limiter!Admitted, Limiter!CountIsHonest
    <2> QED BY <2>2, <2>3
  <1> HIDE DEF Inv
  <1>3. MCSpec => []Inv
    BY <1>1, <1>2, PTL DEF MCSpec
  <1> QED BY <1>3 DEF Inv

\* Failures of attempts that follow one another count each, and a lock in force is
\* lifted only by an attempt admitted before it: one that succeeds, or one that found
\* an expired lock; for any limits and any number of attempts at once
\* (auth/session_service.py, LoginRateLimitService).
THEOREM LoginsAreBounded == MCSpec => LoginBounded
  <1> DEFINE Inv == InLimiter => LimiterInv
  <1>1. Inv => (InLimiter => Limiter!CountIsHonest)
    BY DEF LimiterInv, Limiter!LonersKnow
  <1>2. Inv /\ [MCNext]_vars => [InLimiter => Limiter!LockStep]_vars
    BY LockIsKept DEF LimiterInv
  <1>3. MCSpec => []Inv
    BY LimiterInvHolds
  <1> HIDE DEF Inv
  <1> QED BY <1>1, <1>2, <1>3, PTL DEF MCSpec, LoginBounded

-----------------------------------------------------------------------------
(* What is known of a plant and who said it: plants/service.py, autofill.py. *)

val == s1
origin == s2
created == s3
edit == s4
lost == s5
USE DEF val, origin, created, edit, lost

SettingsInv == Settings!TypeOK /\ Settings!EditsAgree

LEMMA SettingsSteps ==
    ASSUME InSettings, MCNext
    PROVE  \/ \E p \in Settings!Profiles : Settings!CreatePlant(p)
           \/ \E p \in Settings!Profiles, given, emptied \in SUBSET Settings!Marked :
                 Settings!ConfirmPlant(p, given, emptied \ given)
           \/ \E e \in Editors, given, emptied \in SUBSET Settings!Technical :
                 Settings!OwnerEdits(e, given, emptied \ given)
           \/ \E e \in Editors : Settings!OwnerLocates(e)
           \/ \E e \in Editors, q \in {"none"} \cup Settings!Quotes, day \in Days :
                 Settings!OwnerQuotes(e, q, day)
           \/ \E e \in Editors, p \in Settings!Profiles : Settings!ProfileFills(e, p)
           \/ \E e \in Editors : Settings!CommitEdit(e) \/ Settings!AbandonEdit(e)
  <1>1. ~InSessions /\ ~InProvider /\ ~InSolar /\ ~InLimiter /\ ~InScopes
    BY DEF InLimiter, InSessions, InProvider, InSolar, InSettings, InScopes
  <1> QED BY <1>1, Zenon DEF MCNext

LEMMA SettingsConstants ==
    /\ Estimated \cap {"capacity", "location", "amount", "recorded"} = {}
    /\ "none" \notin Days
  BY ConstantsOfParts DEF Settings!ConstantsOK

\* What a request of one kind may leave of the row it loaded: a row whose marks agree
\* with its values where they did, that has a whole proposal if there was one, and keeps
\* what is the owner's unless the owner gives another value or empties the field.
Sound(k, old, new) ==
    /\ old \in Settings!Rows /\ new \in Settings!Rows
    /\ \A f \in Settings!Marked : Settings!Agrees(old, f) => Settings!Agrees(new, f)
    /\ Settings!Whole(old) => Settings!Whole(new)
    /\ \A f \in Settings!Marked :
          /\ k \in {"fill", "quote"} /\ old.val[f] \in Settings!Owned => new.val[f] = old.val[f]
          /\ k = "owner" /\ new.val[f] # old.val[f] => new.val[f] \in Settings!Owned \cup {"none"}

LEMMA Fields ==
    /\ Settings!Marked \subseteq Settings!Columns /\ Settings!Proposal \subseteq Settings!Columns
    /\ Settings!Marked \cap Settings!Proposal = {}
    /\ Settings!Proposal = {"amount", "recorded"}
    /\ "capacity" \in Settings!Marked /\ "location" \in Settings!Marked
    /\ Estimated \subseteq Settings!Marked
  BY SettingsConstants DEF Settings!Marked, Settings!Columns, Settings!Proposal, Settings!Technical

LEMMA BlankRow ==
    /\ Settings!Blank \in Settings!Rows /\ Settings!Whole(Settings!Blank)
    /\ \A f \in Settings!Marked : Settings!Agrees(Settings!Blank, f)
    /\ Settings!Idle \in Settings!Edits /\ Settings!Idle.kind = "none"
  BY DEF Settings!Blank, Settings!Rows, Settings!Values, Settings!Columns, Settings!Proposal,
         Settings!Agrees, Settings!Whole, Settings!Idle, Settings!Edits

LEMMA FillKeeps ==
    ASSUME NEW r \in Settings!Rows, NEW p \in Settings!Profiles
    PROVE  Sound("fill", r, Settings!FillRow(r, p))
  <1> DEFINE w == Settings!Filled(r.val, p)
  <1>1. r.val \in [Settings!Columns -> Settings!Values]
    BY DEF Settings!Rows
  <1>2. /\ w \in [Settings!Columns -> Settings!Values]
        /\ \A c \in Settings!Columns :
              w[c] # r.val[c] => r.val[c] = "none" /\ w[c] \in {"brand", "estimate"}
    BY <1>1 DEF Settings!Filled, Settings!Profiles, Settings!Values
  <1>3. w["amount"] = r.val["amount"] /\ w["recorded"] = r.val["recorded"]
    BY <1>1, Fields, SettingsConstants DEF Settings!Filled
  <1>4. Settings!FillRow(r, p) =
            [val |-> w, origin |-> [f \in Settings!Marked |->
                                      IF w[f] # r.val[f] THEN w[f] ELSE r.origin[f]]]
    BY DEF Settings!FillRow
  <1> HIDE DEF w
  <1>5. Settings!FillRow(r, p) \in Settings!Rows
    BY <1>2, <1>4, Fields DEF Settings!Rows
  <1>6. Settings!Whole(r) => Settings!Whole(Settings!FillRow(r, p))
    BY <1>3, <1>4 DEF Settings!Whole
  <1>7. ASSUME NEW f \in Settings!Marked
        PROVE  /\ Settings!Agrees(r, f) => Settings!Agrees(Settings!FillRow(r, p), f)
               /\ r.val[f] \in Settings!Owned => Settings!FillRow(r, p).val[f] = r.val[f]
    BY <1>2, <1>4, Fields DEF Settings!Rows, Settings!Agrees, Settings!Owned
  <1> QED BY <1>5, <1>6, <1>7 DEF Sound

LEMMA OwnerKeeps ==
    ASSUME NEW r \in Settings!Rows, NEW given, NEW emptied,
           given \subseteq Settings!Marked, emptied \subseteq Settings!Marked
    PROVE  Sound("owner", r, Settings!OwnerRow(r, given, emptied))
  <1> DEFINE new == Settings!OwnerRow(r, given, emptied)
  <1>1. new \in Settings!Rows
    BY DEF Settings!Rows, Settings!OwnerRow, Settings!Forget, Settings!Values, Settings!Owned
  <1>2. Settings!Whole(r) => Settings!Whole(new)
    BY Fields DEF Settings!Rows, Settings!OwnerRow, Settings!Whole
  <1>3. ASSUME NEW f \in Settings!Marked
        PROVE  /\ Settings!Agrees(r, f) => Settings!Agrees(new, f)
               /\ new.val[f] # r.val[f] => new.val[f] \in Settings!Owned \cup {"none"}
    BY Fields DEF Settings!Rows, Settings!OwnerRow, Settings!Forget, Settings!Agrees, Settings!Owned
  <1> QED BY <1>1, <1>2, <1>3 DEF Sound

LEMMA QuoteKeeps ==
    ASSUME NEW r \in Settings!Rows, NEW q \in {"none"} \cup Settings!Quotes, NEW day \in Days
    PROVE  Sound("quote", r, Settings!QuoteRow(r, q, day))
  <1> DEFINE new == Settings!QuoteRow(r, q, day)
             w == [c \in Settings!Columns |->
                     IF c = "amount" THEN q
                     ELSE IF c = "recorded" THEN IF q = "none" THEN "none" ELSE day
                     ELSE r.val[c]]
  <1>1. new = [val |-> w, origin |-> r.origin]
    BY DEF Settings!Rows, Settings!QuoteRow
  <1>2. w \in [Settings!Columns -> Settings!Values]
    BY DEF Settings!Rows, Settings!Values
  <1>3. new \in Settings!Rows
    BY <1>1, <1>2 DEF Settings!Rows
  <1>4. Settings!Whole(new)
    BY <1>1, Fields, SettingsConstants DEF Settings!Whole, Settings!Quotes
  <1>5. \A f \in Settings!Marked : w[f] = r.val[f]
    BY Fields
  <1> HIDE DEF w
  <1> QED BY <1>1, <1>3, <1>4, <1>5 DEF Sound, Settings!Agrees

\* A request that begins knows the row as it is.
LEMMA BeginKeeps ==
    ASSUME Settings!TypeOK, Settings!EditsAgree,
           NEW e \in Editors, NEW k \in {"owner", "fill", "quote"}, NEW r,
           Settings!Begin(e, k, r), Sound(k, Settings!Now, r)
    PROVE  Settings!TypeOK' /\ Settings!EditsAgree' /\ Settings!OwnerStep
  <1> DEFINE new == [kind |-> k, old |-> Settings!Now, new |-> r, overtaken |-> 0]
  <1>1. /\ created /\ edit[e].kind = "none"
        /\ edit' = [edit EXCEPT ![e] = new]
        /\ UNCHANGED <<val, origin, created, lost>>
    BY DEF Settings!Begin
  <1>2. Settings!Now \in Settings!Rows /\ r \in Settings!Rows
    BY DEF Sound
  <1>3. new \in Settings!Edits
    BY <1>2 DEF Settings!Edits
  <1>4. Settings!TypeOK'
    BY <1>1, <1>3 DEF Settings!TypeOK
  <1>5. \A o \in Editors : edit'[o] = IF o = e THEN new ELSE edit[o]
    BY <1>1 DEF Settings!TypeOK
  <1>6. Settings!Now' = Settings!Now
    BY <1>1 DEF Settings!Now
  <1>7. ASSUME NEW o \in Editors PROVE Settings!Respects(o)'
    BY <1>5 DEF Settings!EditsAgree, Settings!Respects, Sound
  <1>8. ASSUME NEW f \in Settings!Marked \ lost
        PROVE  /\ Settings!Agrees(Settings!Now', f)
               /\ \A o \in Editors : edit'[o].kind # "none" =>
                     Settings!Agrees(edit'[o].old, f) /\ Settings!Agrees(edit'[o].new, f)
    <2>1. Settings!Agrees(Settings!Now, f) /\ Settings!Agrees(r, f)
      BY DEF Settings!EditsAgree, Sound
    <2> QED BY <1>5, <1>6, <2>1 DEF Settings!EditsAgree
  <1>9. ASSUME Settings!Proposal \cap lost = {}
        PROVE  /\ Settings!Whole(Settings!Now')
               /\ \A o \in Editors : edit'[o].kind # "none" =>
                     Settings!Whole(edit'[o].old) /\ Settings!Whole(edit'[o].new)
    <2>1. Settings!Whole(Settings!Now) /\ Settings!Whole(r)
      BY <1>9 DEF Settings!EditsAgree, Sound
    <2> QED BY <1>5, <1>6, <1>9, <2>1 DEF Settings!EditsAgree
  <1>10. Settings!EditsAgree'
    BY <1>1, <1>7, <1>8, <1>9 DEF Settings!EditsAgree, Settings!Agrees, Settings!Whole
  <1> QED BY <1>1, <1>4, <1>10 DEF Settings!OwnerStep

\* What an UPDATE leaves of a field nobody writes over unseen: where the request
\* changes the value it found, the value is still the one it loaded, and so is the mark
\* where it writes the marks; agreement does the rest.
LEMMA FieldCommitted ==
    ASSUME NEW now, NEW old, NEW new, NEW f,
           Settings!Agrees(now, f), Settings!Agrees(old, f), Settings!Agrees(new, f),
           now.val[f] = old.val[f] \/ new.val[f] = old.val[f],
           now.origin[f] = old.origin[f] \/ new.origin = old.origin
    PROVE  LET v == IF new.val[f] # old.val[f] THEN new.val[f] ELSE now.val[f]
               o == IF new.origin # old.origin THEN new.origin ELSE now.origin
           IN  o[f] = IF v \in {"brand", "estimate"} THEN v ELSE "none"
  <1>1. CASE new.origin # old.origin
    BY <1>1 DEF Settings!Agrees
  <1>2. CASE new.origin = old.origin
    BY <1>2 DEF Settings!Agrees
  <1> QED BY <1>1, <1>2

\* The UPDATE writes what the request changed over the row as it is now.
LEMMA CommitKeeps ==
    ASSUME Settings!TypeOK, Settings!EditsAgree, NEW e \in Editors, Settings!CommitEdit(e)
    PROVE  /\ Settings!TypeOK' /\ Settings!EditsAgree' /\ Settings!OwnerStep
  <1> DEFINE old == edit[e].old
             new == edit[e].new
  <1>1. /\ old \in Settings!Rows /\ new \in Settings!Rows /\ edit[e].kind # "none"
        /\ created /\ created' = created
        /\ val' = [c \in Settings!Columns |-> IF new.val[c] # old.val[c] THEN new.val[c] ELSE val[c]]
        /\ origin' = IF new.origin # old.origin THEN new.origin ELSE origin
        /\ edit' = Settings!Others(e)
        /\ lost' = lost \cup Settings!WrittenOver(e)
    BY BlankRow DEF Settings!CommitEdit, Settings!TypeOK, Settings!Edits, Settings!EditsAgree
  <1>2. /\ edit' \in [Editors -> Settings!Edits]
        /\ \A o \in Editors :
              /\ o = e => edit'[o] = Settings!Idle
              /\ o # e => /\ edit'[o].kind = edit[o].kind
                          /\ edit'[o].old = edit[o].old /\ edit'[o].new = edit[o].new
    BY <1>1, BlankRow DEF Settings!Others, Settings!TypeOK, Settings!Edits
  <1>3. Settings!TypeOK'
    <2>1. val' \in [Settings!Columns -> Settings!Values]
          /\ origin' \in [Settings!Marked -> {"none", "brand", "estimate"}]
      BY <1>1 DEF Settings!TypeOK, Settings!Rows
    <2>2. lost' \subseteq Settings!Columns
      BY <1>1 DEF Settings!TypeOK, Settings!WrittenOver
    <2> QED BY <1>1, <1>2, <2>1, <2>2 DEF Settings!TypeOK
  <1>4. ASSUME NEW o \in Editors PROVE Settings!Respects(o)'
    BY <1>2, BlankRow DEF Settings!EditsAgree, Settings!Respects
  <1>5. ASSUME NEW f \in Settings!Columns, f \notin lost'
        PROVE  /\ f \notin lost
               /\ val[f] = old.val[f] \/ new.val[f] = old.val[f]
               /\ f \in Settings!Marked => origin[f] = old.origin[f] \/ new.origin = old.origin
    BY <1>1, <1>5 DEF Settings!WrittenOver
  <1>6. ASSUME NEW f \in Settings!Marked, f \notin lost'
        PROVE  Settings!Agrees(Settings!Now', f)
    <2>1. Settings!Agrees(Settings!Now, f) /\ Settings!Agrees(old, f) /\ Settings!Agrees(new, f)
      BY <1>1, <1>5, <1>6, Fields DEF Settings!EditsAgree
    <2>2. /\ Settings!Now.val[f] = old.val[f] \/ new.val[f] = old.val[f]
          /\ Settings!Now.origin[f] = old.origin[f] \/ new.origin = old.origin
      BY <1>5, <1>6, Fields DEF Settings!Now
    <2>3. val'[f] = IF new.val[f] # old.val[f] THEN new.val[f] ELSE Settings!Now.val[f]
      BY <1>1, Fields DEF Settings!Now
    <2>4. origin' = IF new.origin # old.origin THEN new.origin ELSE Settings!Now.origin
      BY <1>1 DEF Settings!Now
    <2> HIDE DEF old, new
    <2>5. origin'[f] = IF val'[f] \in {"brand", "estimate"} THEN val'[f] ELSE "none"
      BY <2>1, <2>2, <2>3, <2>4, FieldCommitted
    <2> QED BY <2>5 DEF Settings!Agrees, Settings!Now
  <1>7. ASSUME Settings!Proposal \cap lost' = {}
        PROVE  Settings!Whole(Settings!Now')
    <2>1. Settings!Proposal \cap lost = {}
      BY <1>1, <1>7
    <2>2. Settings!Whole(Settings!Now) /\ Settings!Whole(old) /\ Settings!Whole(new)
      BY <1>1, <2>1 DEF Settings!EditsAgree
    <2>3. \A c \in {"amount", "recorded"} :
            /\ val[c] = old.val[c] \/ new.val[c] = old.val[c]
            /\ val'[c] = IF new.val[c] # old.val[c] THEN new.val[c] ELSE val[c]
      BY <1>1, <1>5, <1>7, Fields
    <2> QED BY <2>2, <2>3 DEF Settings!Whole, Settings!Now
  <1>8. Settings!EditsAgree'
    <2>1. ASSUME NEW f \in Settings!Marked \ lost', NEW o \in Editors, edit'[o].kind # "none"
          PROVE  Settings!Agrees(edit'[o].old, f) /\ Settings!Agrees(edit'[o].new, f)
      BY <1>1, <1>2, <2>1, BlankRow DEF Settings!EditsAgree
    <2>2. ASSUME Settings!Proposal \cap lost' = {}, NEW o \in Editors, edit'[o].kind # "none"
          PROVE  Settings!Whole(edit'[o].old) /\ Settings!Whole(edit'[o].new)
      <3>1. Settings!Proposal \cap lost = {}
        BY <1>1, <2>2
      <3> QED BY <1>2, <2>2, <3>1, BlankRow DEF Settings!EditsAgree
    <2> QED BY <1>1, <1>4, <1>6, <1>7, <2>1, <2>2
            DEF Settings!EditsAgree, Settings!Agrees, Settings!Whole
  <1>9. ASSUME NEW f \in Settings!Marked, val[f] \in Settings!Owned, val'[f] \notin Settings!Owned,
               f \notin lost'
        PROVE  /\ edit[e].kind = "owner" /\ edit'[e].kind = "none"
               /\ edit[e].new.val[f] = "none"
    <2>1. new.val[f] # old.val[f] /\ val'[f] = new.val[f]
      BY <1>1, <1>9, Fields
    <2>2. val[f] = old.val[f]
      BY <1>5, <1>9, <2>1, Fields
    <2>3. edit[e].kind \in {"owner", "fill", "quote"}
      BY <1>1 DEF Settings!TypeOK, Settings!Edits
    <2> QED BY <1>2, <1>9, <2>1, <2>2, <2>3, BlankRow DEF Settings!EditsAgree, Settings!Respects
  <1> QED BY <1>3, <1>8, <1>9 DEF Settings!OwnerStep

\* A plant is created from a row whose marks agree, when nobody edits it yet.
LEMMA CreationKeeps ==
    ASSUME Settings!TypeOK, Settings!EditsAgree, NEW r \in Settings!Rows, Settings!Whole(r),
           \A f \in Settings!Marked : Settings!Agrees(r, f),
           ~created, created' = TRUE, val' = r.val, origin' = r.origin,
           UNCHANGED <<edit, lost>>
    PROVE  Settings!TypeOK' /\ Settings!EditsAgree' /\ Settings!OwnerStep
  <1>1. Settings!TypeOK'
    BY DEF Settings!TypeOK, Settings!Rows
  <1>2. /\ Settings!Whole(Settings!Now')
        /\ \A f \in Settings!Marked : Settings!Agrees(Settings!Now', f)
    BY DEF Settings!Agrees, Settings!Whole, Settings!Now
  <1>3. \A e \in Editors : edit[e].kind = "none"
    BY BlankRow DEF Settings!EditsAgree
  <1>4. \A f \in Settings!Marked : val[f] \notin Settings!Owned
    BY Fields DEF Settings!EditsAgree, Settings!Now, Settings!Blank, Settings!Owned
  <1>5. Settings!EditsAgree'
    BY <1>2, <1>3 DEF Settings!EditsAgree, Settings!Respects, Settings!Agrees, Settings!Whole
  <1> QED BY <1>1, <1>4, <1>5 DEF Settings!OwnerStep

LEMMA SettingsStep ==
    ASSUME Settings!TypeOK, Settings!EditsAgree, InSettings, MCNext
    PROVE  Settings!TypeOK' /\ Settings!EditsAgree' /\ Settings!OwnerStep
  <1>0. Settings!Now \in Settings!Rows
    BY DEF Settings!Now, Settings!Rows, Settings!TypeOK
  <1>1. ASSUME NEW p \in Settings!Profiles, Settings!CreatePlant(p)
        PROVE  Settings!TypeOK' /\ Settings!EditsAgree' /\ Settings!OwnerStep
    <2> DEFINE r == Settings!FillRow(Settings!Blank, p)
    <2>1. /\ r \in Settings!Rows /\ Settings!Whole(r)
          /\ \A f \in Settings!Marked : Settings!Agrees(r, f)
      BY FillKeeps, BlankRow DEF Sound
    <2>2. /\ ~created /\ created' = TRUE /\ val' = r.val /\ origin' = r.origin
          /\ UNCHANGED <<edit, lost>>
      BY <1>1 DEF Settings!CreatePlant
    <2> HIDE DEF r
    <2> QED BY <2>1, <2>2, CreationKeeps
  <1>2. ASSUME NEW p \in Settings!Profiles, NEW given \in SUBSET Settings!Marked,
               NEW emptied \in SUBSET Settings!Marked, Settings!ConfirmPlant(p, given, emptied)
        PROVE  Settings!TypeOK' /\ Settings!EditsAgree' /\ Settings!OwnerStep
    <2> DEFINE d == Settings!FillRow(Settings!Blank, p)
               r == Settings!OwnerRow(d, given, emptied)
    <2>1. /\ d \in Settings!Rows /\ Settings!Whole(d)
          /\ \A f \in Settings!Marked : Settings!Agrees(d, f)
      BY FillKeeps, BlankRow DEF Sound
    <2>2. /\ ~created /\ created' = TRUE /\ val' = r.val /\ origin' = r.origin
          /\ UNCHANGED <<edit, lost>>
      BY <1>2 DEF Settings!ConfirmPlant
    <2> HIDE DEF d
    <2>3. /\ r \in Settings!Rows /\ Settings!Whole(r)
          /\ \A f \in Settings!Marked : Settings!Agrees(r, f)
      BY <2>1, OwnerKeeps DEF Sound
    <2> HIDE DEF r
    <2> QED BY <2>2, <2>3, CreationKeeps
  <1>3. ASSUME NEW e \in Editors, NEW given \in SUBSET Settings!Marked,
               NEW emptied \in SUBSET Settings!Marked,
               Settings!Begin(e, "owner", Settings!OwnerRow(Settings!Now, given, emptied))
        PROVE  Settings!TypeOK' /\ Settings!EditsAgree' /\ Settings!OwnerStep
    <2>1. Sound("owner", Settings!Now, Settings!OwnerRow(Settings!Now, given, emptied))
      BY <1>0, OwnerKeeps
    <2> QED BY <1>3, <2>1, BeginKeeps
  <1>4. ASSUME NEW e \in Editors, NEW q \in {"none"} \cup Settings!Quotes, NEW day \in Days,
               Settings!OwnerQuotes(e, q, day)
        PROVE  Settings!TypeOK' /\ Settings!EditsAgree' /\ Settings!OwnerStep
    <2>1. Sound("quote", Settings!Now, Settings!QuoteRow(Settings!Now, q, day))
      BY <1>0, QuoteKeeps
    <2>2. Settings!Begin(e, "quote", Settings!QuoteRow(Settings!Now, q, day))
      BY <1>4 DEF Settings!OwnerQuotes
    <2> QED BY <2>1, <2>2, BeginKeeps
  <1>5. ASSUME NEW e \in Editors, NEW p \in Settings!Profiles, Settings!ProfileFills(e, p)
        PROVE  Settings!TypeOK' /\ Settings!EditsAgree' /\ Settings!OwnerStep
    <2>1. Sound("fill", Settings!Now, Settings!FillRow(Settings!Now, p))
      BY <1>0, FillKeeps
    <2>2. Settings!Begin(e, "fill", Settings!FillRow(Settings!Now, p))
      BY <1>5 DEF Settings!ProfileFills
    <2> QED BY <2>1, <2>2, BeginKeeps
  <1>6. ASSUME NEW e \in Editors, Settings!AbandonEdit(e)
        PROVE  Settings!TypeOK' /\ Settings!EditsAgree' /\ Settings!OwnerStep
    <2>1. \A o \in Editors : edit'[o] = IF o = e THEN Settings!Idle ELSE edit[o]
      BY <1>6 DEF Settings!TypeOK, Settings!AbandonEdit
    <2>2. UNCHANGED <<val, origin, created, lost>>
      BY <1>6 DEF Settings!AbandonEdit
    <2>3. Settings!TypeOK'
      BY <1>6, <2>2, BlankRow DEF Settings!TypeOK, Settings!AbandonEdit
    <2>4. Settings!Now' = Settings!Now
      BY <2>2 DEF Settings!Now
    <2>5. ASSUME NEW o \in Editors PROVE Settings!Respects(o)'
      BY <2>1, BlankRow DEF Settings!EditsAgree, Settings!Respects
    <2>6. Settings!EditsAgree'
      BY <2>1, <2>2, <2>4, <2>5, BlankRow DEF Settings!EditsAgree, Settings!Agrees, Settings!Whole
    <2> QED BY <2>2, <2>3, <2>6 DEF Settings!OwnerStep
  <1>7. ASSUME NEW e \in Editors,
               \/ \E given, emptied \in SUBSET Settings!Technical :
                    Settings!OwnerEdits(e, given, emptied \ given)
               \/ Settings!OwnerLocates(e)
        PROVE  Settings!TypeOK' /\ Settings!EditsAgree' /\ Settings!OwnerStep
    <2>1. Settings!Technical \subseteq Settings!Marked /\ "location" \in Settings!Marked
      BY Fields DEF Settings!Marked
    <2>2. CASE Settings!OwnerLocates(e)
      <3>1. {"location"} \in SUBSET Settings!Marked /\ {} \in SUBSET Settings!Marked
        BY <2>1
      <3> QED BY <1>3, <2>2, <3>1 DEF Settings!OwnerLocates
    <2>3. ASSUME NEW given \in SUBSET Settings!Technical, NEW emptied \in SUBSET Settings!Technical,
                 Settings!OwnerEdits(e, given, emptied \ given)
          PROVE  Settings!TypeOK' /\ Settings!EditsAgree' /\ Settings!OwnerStep
      <3>1. given \in SUBSET Settings!Marked /\ emptied \ given \in SUBSET Settings!Marked
        BY <2>1
      <3>2. Settings!Begin(e, "owner", Settings!OwnerRow(Settings!Now, given, emptied \ given))
        BY <2>3 DEF Settings!OwnerEdits
      <3> QED BY <1>3, <3>1, <3>2
    <2> QED BY <1>7, <2>2, <2>3
  <1> QED BY <1>1, <1>2, <1>4, <1>5, <1>6, <1>7, CommitKeeps, SettingsSteps

\* What every step keeps of a plant's settings, and that it is one the owner may see.
LEMMA SettingsInvHolds ==
    /\ MCInit => (InSettings => SettingsInv)
    /\ (InSettings => SettingsInv) /\ [MCNext]_vars
          => (InSettings => SettingsInv)' /\ (InSettings => Settings!OwnerStep)
  <1> DEFINE Inv == InSettings => SettingsInv
  <1>1. MCInit => Inv
    <2> SUFFICES ASSUME MCInit, InSettings PROVE Settings!TypeOK /\ Settings!EditsAgree
      BY DEF SettingsInv
    <2>1. Settings!Init
      BY DEF MCInit, InSettings
    <2>2. Settings!Now = Settings!Blank
      BY <2>1 DEF Settings!Init, Settings!Now, Settings!Blank
    <2>3. Settings!TypeOK
      BY <2>1, BlankRow DEF Settings!Init, Settings!TypeOK, Settings!Rows
    <2> QED BY <2>1, <2>2, <2>3, BlankRow DEF Settings!Init, Settings!EditsAgree, Settings!Respects
  <1>2. Inv /\ [MCNext]_vars => Inv' /\ (InSettings => Settings!OwnerStep)
    <2> SUFFICES ASSUME Inv, [MCNext]_vars
                 PROVE  /\ InSettings' => (Settings!TypeOK /\ Settings!EditsAgree)'
                        /\ InSettings => Settings!OwnerStep
      BY DEF SettingsInv
    <2>1. InSettings' <=> InSettings
      BY PartKept DEF InSettings
    <2>2. CASE MCNext
      BY <2>1, <2>2, SettingsStep DEF SettingsInv
    <2>3. CASE UNCHANGED vars
      BY <2>1, <2>3 DEF vars, SettingsInv, Settings!TypeOK, Settings!EditsAgree, Settings!Now,
             Settings!Agrees, Settings!Whole, Settings!Respects, Settings!OwnerStep
    <2> QED BY <2>2, <2>3
  <1> QED BY <1>1, <1>2

\* However many requests about a plant overlap, marks and values agree, what the owner
\* gave goes only when the owner empties it, and a proposal is whole; unless the very
\* column, or its mark, was written over by a request that had loaded the plant before
\* it changed (plants/autofill.py; plants/service.py).
THEOREM OwnersAreKept == MCSpec => OwnersPrevail
  <1> DEFINE Inv == InSettings => SettingsInv
  <1>1. MCInit => Inv
    BY SettingsInvHolds
  <1>2. Inv /\ [MCNext]_vars => Inv'
    BY SettingsInvHolds
  <1>3. Inv /\ [MCNext]_vars => [InSettings => Settings!OwnerStep]_vars
    BY SettingsInvHolds
  <1>4. Inv => (InSettings => Settings!MarksAreTrue /\ Settings!ProposalIsWhole)
    BY Fields DEF SettingsInv, Settings!EditsAgree, Settings!Agrees, Settings!Whole, Settings!Now,
       Settings!MarksAreTrue, Settings!ProposalIsWhole
  <1> HIDE DEF Inv
  <1> QED BY <1>1, <1>2, <1>3, <1>4, PTL DEF MCSpec, OwnersPrevail

-----------------------------------------------------------------------------
(* Whose plants a caller reaches: core/tenancy.py, credentials/service.py.  *)

orgOf == s1
active == s2
default == s3
cred == s4
req == s5
message == s6
billed == s7
moved == s8
USE DEF orgOf, active, default, cred, req, message, billed, moved

ScopesInv ==
    Scopes!TypeOK /\ Scopes!ScopesHold /\ Scopes!ServedWithinTenant /\ Scopes!FanoutMissesNone

\* The component counts as this module does.
LEMMA SameCount ==
    ASSUME NEW S
    PROVE  (Scopes!IsFiniteSet(S) <=> IsFiniteSet(S)) /\ Scopes!Cardinality(S) = Cardinality(S)
  BY DEF Scopes!IsFiniteSet, IsFiniteSet, Scopes!Cardinality, Cardinality

LEMMA ScopesConstants == Nobody \notin Orgs /\ NoPlant \notin Plants /\ IsFiniteSet(Plants)
  BY ConstantsOfParts, SameCount DEF Scopes!ConstantsOK

LEMMA ScopesSteps ==
    ASSUME InScopes, MCNext
    PROVE  \/ \E p \in Plants, o \in Orgs, d \in BOOLEAN : Scopes!AddPlant(p, o, d)
           \/ \E o \in Orgs, p \in Plants \cup {NoPlant} : Scopes!SetDefault(o, p)
           \/ \E o \in Orgs :
                 Scopes!DeactivateOrg(o) \/ Scopes!MessageSent(o) \/ Scopes!ChatMoves(o)
           \/ \E c \in Credentials, o \in Orgs, admin \in BOOLEAN, S \in SUBSET Plants :
                 Scopes!CreateCredential(c, o, admin, S)
           \/ \E c \in Credentials : Scopes!EndCredential(c)
           \/ \E r \in Calls :
                 \/ Scopes!ByStaticKey(r) \/ Scopes!ServeInferred(r)
                 \/ Scopes!ServeFanout(r) \/ Scopes!Finish(r)
           \/ \E r \in Calls, o \in Orgs, admin \in BOOLEAN : Scopes!ByBearer(r, o, admin)
           \/ \E r \in Calls, c \in Credentials : Scopes!ByCredential(r, c)
           \/ \E r \in Calls, p \in Plants : Scopes!ServeNamed(r, p)
           \/ Scopes!MessageRead \/ Scopes!BillRegistered \/ Scopes!MessageFailed
  <1>1. ~InSessions /\ ~InProvider /\ ~InSolar /\ ~InLimiter /\ ~InSettings
    BY DEF InLimiter, InSessions, InProvider, InSolar, InSettings, InScopes
  <1> QED BY <1>1, ZenonT(60) DEF MCNext

\* At most one plant is inferred for an organization, and it is one of its plants.
LEMMA InferredIsOne ==
    ASSUME NEW o \in Orgs, NEW S \in SUBSET Scopes!Inferred(o)
    PROVE  Cardinality(S) <= 1
  <1> DEFINE all == Scopes!PlantsOf(o)
  <1>0. all \subseteq Plants
    BY DEF Scopes!PlantsOf
  <1>1. IsFiniteSet(all)
    BY <1>0, ScopesConstants, FS_Subset
  <1>2. o # Nobody
    BY ScopesConstants
  <1>3. CASE default[o] \in all
    <2>1. Scopes!Inferred(o) = {default[o]}
      BY <1>2, <1>3 DEF Scopes!Inferred
    <2>2. S = {} \/ S = {default[o]}
      BY <2>1
    <2>3. Cardinality({}) = 0 /\ Cardinality({default[o]}) = 1
      BY FS_EmptySet, FS_Singleton, Zenon
    <2> QED BY <2>2, <2>3
  <1>4. CASE default[o] \notin all /\ Cardinality(all) = 1
    <2>1. S \subseteq all
      BY <1>2, <1>4, SameCount DEF Scopes!Inferred
    <2> QED BY <1>1, <1>4, <2>1, FS_Subset, FS_CardinalityType
  <1>5. CASE default[o] \notin all /\ Cardinality(all) # 1
    <2>1. S = {}
      BY <1>2, <1>5, SameCount DEF Scopes!Inferred
    <2> QED BY <2>1, FS_EmptySet
  <1> QED BY <1>3, <1>4, <1>5

LEMMA InferredExists ==
    ASSUME NEW o \in Orgs PROVE Scopes!Inferred(o) \subseteq Scopes!PlantsOf(o)
  BY ScopesConstants DEF Scopes!Inferred

\* Plants are created and never change their organization.
LEMMA PlantsGrow ==
    ASSUME ScopesInv, NEW o \in Orgs,
           \/ orgOf' = orgOf
           \/ \E p \in Plants, q \in Orgs : orgOf[p] = Nobody /\ orgOf' = [orgOf EXCEPT ![p] = q]
    PROVE  Scopes!PlantsOf(o) \subseteq Scopes!PlantsOf(o)'
  BY ScopesConstants DEF ScopesInv, Scopes!TypeOK, Scopes!PlantsOf

\* A step that changes neither requests nor credentials, but may create a plant, keeps
\* what scopes promise.
LEMMA TablesKeepScopes ==
    ASSUME ScopesInv, UNCHANGED <<cred, req>>,
           \/ orgOf' = orgOf
           \/ \E p \in Plants, q \in Orgs : orgOf[p] = Nobody /\ orgOf' = [orgOf EXCEPT ![p] = q]
    PROVE  /\ \A c \in Credentials : Scopes!Issued(c)'
           /\ \A r \in Calls : Scopes!Scoped(r)'
           /\ Scopes!ServedWithinTenant' /\ Scopes!FanoutMissesNone'
  <1>1. \A o \in Orgs : Scopes!PlantsOf(o) \subseteq Scopes!PlantsOf(o)'
    BY PlantsGrow
  <1>2. /\ \A c \in Credentials : cred[c].org \in Orgs \cup {Nobody}
        /\ \A r \in Calls : req[r].who.org \in Orgs \cup {Nobody}
    BY DEF ScopesInv, Scopes!TypeOK, Scopes!Principals, Scopes!Callers
  <1>3. ASSUME NEW c \in Credentials PROVE Scopes!Issued(c)'
    BY <1>1, <1>2 DEF ScopesInv, Scopes!ScopesHold, Scopes!Issued
  <1>4. ASSUME NEW r \in Calls PROVE Scopes!Scoped(r)'
    BY <1>1, <1>2 DEF ScopesInv, Scopes!ScopesHold, Scopes!Scoped
  <1>5. Scopes!ServedWithinTenant'
    BY <1>1, <1>2 DEF ScopesInv, Scopes!ServedWithinTenant
  <1>6. Scopes!FanoutMissesNone'
    BY DEF ScopesInv, Scopes!FanoutMissesNone
  <1> QED BY <1>3, <1>4, <1>5, <1>6

\* A step that only changes one request, in a way that keeps its promises.
LEMMA RequestKeepsScopes ==
    ASSUME ScopesInv, UNCHANGED <<orgOf, active, default, cred, message, billed, moved>>,
           NEW r \in Calls, \A o \in Calls : o # r => req'[o] = req[o],
           Scopes!Scoped(r)',
           req'[r].who.org # Nobody => req'[r].served \subseteq Scopes!PlantsOf(req'[r].who.org),
           req'[r].by # Nobody /\ cred[req'[r].by].listed
              => req'[r].served \subseteq cred[req'[r].by].plants,
           req'[r].at = "fanout" => req'[r].who.plants \subseteq req'[r].served
    PROVE  Scopes!ScopesHold' /\ Scopes!ServedWithinTenant' /\ Scopes!FanoutMissesNone'
  <1>1. \A c \in Credentials : Scopes!Issued(c)'
    BY DEF ScopesInv, Scopes!ScopesHold, Scopes!Issued, Scopes!PlantsOf
  <1>2. ASSUME NEW o \in Calls PROVE Scopes!Scoped(o)'
    <2>1. CASE o = r
      BY <2>1
    <2>2. CASE o # r
      BY <2>2 DEF ScopesInv, Scopes!ScopesHold, Scopes!Scoped, Scopes!PlantsOf
    <2> QED BY <2>1, <2>2
  <1>3. Scopes!BilledWhereInferred'
    BY DEF ScopesInv, Scopes!ScopesHold, Scopes!BilledWhereInferred, Scopes!Inferred,
           Scopes!PlantsOf, Scopes!Existing, Scopes!Under
  <1>4. Scopes!ServedWithinTenant'
    BY DEF ScopesInv, Scopes!ServedWithinTenant, Scopes!PlantsOf
  <1>5. Scopes!FanoutMissesNone'
    BY DEF ScopesInv, Scopes!FanoutMissesNone
  <1> QED BY <1>1, <1>2, <1>3, <1>4, <1>5 DEF Scopes!ScopesHold

LEMMA ScopesTyped == ASSUME ScopesInv, InScopes, MCNext PROVE Scopes!TypeOK'
  <1> USE DEF Scopes!TypeOK, ScopesInv
  <1>1. ASSUME NEW r \in Calls, NEW who \in Scopes!Principals, NEW c \in Credentials \cup {Nobody},
               Scopes!Known(r, who, c)
        PROVE  Scopes!TypeOK'
    BY <1>1 DEF Scopes!Known, Scopes!tables
  <1>2. ASSUME NEW r \in Calls, NEW how \in {"one", "fanout"}, NEW S \in SUBSET Plants,
               Scopes!Serve(r, how, S)
        PROVE  Scopes!TypeOK'
    <2>1. /\ req' = [req EXCEPT ![r].at = how, ![r].served = S]
          /\ UNCHANGED <<orgOf, active, default, cred, message, billed, moved>>
      BY <1>2 DEF Scopes!Serve, Scopes!tables
    <2>2. req[r] \in [at : {"idle", "known", "one", "fanout"}, who : Scopes!Principals,
                      by : Credentials \cup {Nobody}, served : SUBSET Plants]
      OBVIOUS
    <2>3. [req[r] EXCEPT !.at = how, !.served = S]
             \in [at : {"idle", "known", "one", "fanout"}, who : Scopes!Principals,
                  by : Credentials \cup {Nobody}, served : SUBSET Plants]
      BY <2>2
    <2>4. req' = [req EXCEPT ![r] = [req[r] EXCEPT !.at = how, !.served = S]]
      BY <2>1
    <2> QED BY <2>1, <2>3, <2>4
  <1>3. \A o \in Scopes!Callers : Scopes!PlantsOf(o) \subseteq Plants /\ Scopes!Inferred(o) \subseteq Plants
    <2>1. \A o : Scopes!PlantsOf(o) \subseteq Plants /\ Scopes!Existing \subseteq Plants
      BY DEF Scopes!PlantsOf, Scopes!Existing
    <2> QED BY <2>1 DEF Scopes!Inferred
  <1>4. ASSUME NEW p \in Plants, NEW o \in Orgs, NEW d \in BOOLEAN, Scopes!AddPlant(p, o, d)
        PROVE  Scopes!TypeOK'
    <2>1. moved' \in BOOLEAN
      BY <1>4 DEF Scopes!AddPlant, Scopes!Under
    <2> QED BY <1>4, <2>1 DEF Scopes!AddPlant, Scopes!Callers
  <1>5. ASSUME NEW p \in Plants \cup {NoPlant}, NEW o \in Orgs, Scopes!SetDefault(o, p)
        PROVE  Scopes!TypeOK'
    <2>1. moved' \in BOOLEAN
      BY <1>5 DEF Scopes!SetDefault, Scopes!Under
    <2> QED BY <1>5, <2>1 DEF Scopes!SetDefault
  <1>6. ASSUME NEW o \in Orgs,
               Scopes!DeactivateOrg(o) \/ Scopes!MessageSent(o) \/ Scopes!ChatMoves(o)
        PROVE  Scopes!TypeOK'
    <2>1. CASE Scopes!DeactivateOrg(o)
      BY <2>1 DEF Scopes!DeactivateOrg
    <2>2. CASE Scopes!MessageSent(o) \/ Scopes!ChatMoves(o)
      <3>1. /\ message' \in [at : {"none", "sent", "read", "registered"},
                             org : Scopes!Callers, chat : Scopes!Callers]
            /\ moved' \in BOOLEAN
        <4>1. CASE Scopes!MessageSent(o)
          BY <4>1 DEF Scopes!MessageSent, Scopes!Callers
        <4>2. CASE Scopes!ChatMoves(o)
          BY <4>2 DEF Scopes!ChatMoves, Scopes!Callers
        <4> QED BY <2>2, <4>1, <4>2
      <3> QED BY <2>2, <3>1 DEF Scopes!MessageSent, Scopes!ChatMoves, Scopes!tables
    <2> QED BY <1>6, <2>1, <2>2
  <1>7. ASSUME NEW c \in Credentials, NEW o \in Orgs, NEW admin \in BOOLEAN, NEW S \in SUBSET Plants,
               Scopes!CreateCredential(c, o, admin, S)
        PROVE  Scopes!TypeOK'
    <2>1. (S # {}) \in BOOLEAN
      OBVIOUS
    <2> QED BY <1>7, <2>1 DEF Scopes!CreateCredential, Scopes!Callers
  <1>8. ASSUME NEW c \in Credentials, Scopes!EndCredential(c) PROVE Scopes!TypeOK'
    <2> DEFINE Creds == [org : Scopes!Callers, admin : BOOLEAN, listed : BOOLEAN,
                         plants : SUBSET Plants, usable : BOOLEAN]
    <2>1. cred \in [Credentials -> Creds]
      OBVIOUS
    <2>2. [cred[c] EXCEPT !.usable = FALSE] \in Creds
      BY <2>1
    <2>3. /\ cred' = [cred EXCEPT ![c] = [cred[c] EXCEPT !.usable = FALSE]]
          /\ UNCHANGED <<orgOf, active, default, req, message, billed, moved>>
      BY <1>8, <2>1 DEF Scopes!EndCredential
    <2>4. cred' \in [Credentials -> Creds]
      <3> HIDE DEF Creds, Scopes!TypeOK
      <3> QED BY <2>1, <2>2, <2>3
    <2> QED BY <2>3, <2>4
  <1>9. ASSUME NEW r \in Calls,
               \/ Scopes!ByStaticKey(r) \/ Scopes!ServeInferred(r)
               \/ Scopes!ServeFanout(r) \/ Scopes!Finish(r)
        PROVE  Scopes!TypeOK'
    <2>1. CASE Scopes!ByStaticKey(r)
      BY <2>1, <1>1 DEF Scopes!ByStaticKey, Scopes!Principals, Scopes!Callers
    <2>2. CASE Scopes!ServeInferred(r)
      <3>1. PICK p \in Scopes!Inferred(req[r].who.org) : Scopes!Serve(r, "one", {p})
        BY <2>2 DEF Scopes!ServeInferred
      <3>2. p \in Plants
        BY <1>3, <3>1 DEF Scopes!Principals
      <3> QED BY <1>2, <3>1, <3>2
    <2>3. CASE Scopes!ServeFanout(r)
      <3>1. PICK T \in Scopes!FanoutOf(req[r].who) : Scopes!Serve(r, "fanout", T)
        BY <2>3 DEF Scopes!ServeFanout
      <3>2. T \in SUBSET Plants
        BY <3>1 DEF Scopes!FanoutOf, Scopes!PlantsOf
      <3> QED BY <1>2, <3>1, <3>2
    <2>4. CASE Scopes!Finish(r)
      BY <2>4 DEF Scopes!Finish, Scopes!Idle, Scopes!NoPrincipal, Scopes!Principals,
                  Scopes!Callers, Scopes!tables
    <2> QED BY <1>9, <2>1, <2>2, <2>3, <2>4
  <1>10. ASSUME NEW r \in Calls, NEW o \in Orgs, NEW admin \in BOOLEAN,
                Scopes!ByBearer(r, o, admin)
         PROVE  Scopes!TypeOK'
    <2>1. [org |-> o, admin |-> admin, all |-> FALSE, plants |-> Scopes!PlantsOf(o)]
             \in Scopes!Principals
      BY <1>3 DEF Scopes!Principals, Scopes!Callers
    <2> QED BY <1>1, <1>10, <2>1 DEF Scopes!ByBearer
  <1>11. ASSUME NEW r \in Calls, NEW c \in Credentials, Scopes!ByCredential(r, c)
         PROVE  Scopes!TypeOK'
    <2> DEFINE who == [org |-> cred[c].org, admin |-> cred[c].admin, all |-> FALSE,
                       plants |-> IF cred[c].listed THEN cred[c].plants
                                  ELSE Scopes!PlantsOf(cred[c].org)]
    <2>1. who \in Scopes!Principals
      BY <1>3 DEF Scopes!Principals
    <2>2. Scopes!Known(r, who, c)
      BY <1>11 DEF Scopes!ByCredential
    <2> HIDE DEF who
    <2> QED BY <1>1, <2>1, <2>2
  <1>12. ASSUME NEW r \in Calls, NEW p \in Plants, Scopes!ServeNamed(r, p)
         PROVE  Scopes!TypeOK'
    BY <1>2, <1>12 DEF Scopes!ServeNamed
  <1>13. ASSUME Scopes!MessageRead \/ Scopes!BillRegistered \/ Scopes!MessageFailed
         PROVE  Scopes!TypeOK'
    BY <1>3, <1>13 DEF Scopes!MessageRead, Scopes!BillRegistered, Scopes!MessageFailed,
                       Scopes!tables, Scopes!Callers
  <1> HIDE DEF Scopes!TypeOK, ScopesInv
  <1> QED BY <1>4, <1>5, <1>6, <1>7, <1>8, <1>9, <1>10, <1>11, <1>12, <1>13, ScopesSteps

\* What the message's bill is registered in stays where it is inferred.
LEMMA TablesKeepBills ==
    ASSUME ScopesInv, NEW o \in Orgs, NEW p \in Plants \cup {NoPlant}, NEW d \in BOOLEAN,
           Scopes!AddPlant(p, o, d) \/ Scopes!SetDefault(o, p)
    PROVE  Scopes!BilledWhereInferred'
  <1>1. message' = message /\ billed' = billed /\ moved' = Scopes!Under
    BY DEF Scopes!AddPlant, Scopes!SetDefault
  <1>2. Scopes!Under' = Scopes!Under
    BY <1>1 DEF Scopes!Under
  <1>3. CASE Scopes!Under
    <2>1. message.chat \in Orgs
      BY <1>3 DEF ScopesInv, Scopes!ScopesHold, Scopes!BilledWhereInferred
    <2> QED BY <1>1, <1>2, <1>3, <2>1 DEF Scopes!BilledWhereInferred
  <1>4. CASE ~Scopes!Under
    <2>1. billed = {} /\ message.at = "none"
      BY <1>4 DEF ScopesInv, Scopes!ScopesHold, Scopes!BilledWhereInferred, Scopes!Under
    <2> QED BY <1>1, <1>2, <1>4, <2>1 DEF Scopes!BilledWhereInferred
  <1> QED BY <1>3, <1>4

\* A step that leaves the tables alone, and the requests.
LEMMA MessageKeepsBills ==
    ASSUME ScopesInv,
           \/ \E o \in Orgs : Scopes!MessageSent(o) \/ Scopes!ChatMoves(o)
           \/ Scopes!MessageRead \/ Scopes!BillRegistered \/ Scopes!MessageFailed
    PROVE  Scopes!BilledWhereInferred' /\ UNCHANGED <<cred, req, orgOf>>
  <1>1. UNCHANGED <<orgOf, active, default, cred, req>>
    BY DEF Scopes!MessageSent, Scopes!ChatMoves, Scopes!MessageRead, Scopes!BillRegistered,
           Scopes!MessageFailed, Scopes!tables
  <1>2. \A o : Scopes!Inferred(o)' = Scopes!Inferred(o)
    BY <1>1 DEF Scopes!Inferred, Scopes!PlantsOf, Scopes!Existing
  <1>3. /\ message \in [at : {"none", "sent", "read", "registered"}, org : Scopes!Callers,
                        chat : Scopes!Callers]
        /\ Scopes!BilledWhereInferred
    BY DEF ScopesInv, Scopes!TypeOK, Scopes!ScopesHold
  <1> USE DEF Scopes!BilledWhereInferred, Scopes!Under
  <1>4. ASSUME NEW o \in Orgs, Scopes!MessageSent(o) PROVE Scopes!BilledWhereInferred'
    BY <1>3, <1>4 DEF Scopes!MessageSent
  <1>5. ASSUME NEW o \in Orgs, Scopes!ChatMoves(o) PROVE Scopes!BilledWhereInferred'
    BY <1>3, <1>5 DEF Scopes!ChatMoves
  <1>6. CASE Scopes!MessageRead \/ Scopes!MessageFailed
    <2>1. message'.chat = message.chat /\ message'.at # "none" /\ message.at # "none"
      BY <1>3, <1>6 DEF Scopes!MessageRead, Scopes!MessageFailed
    <2>2. message'.at \in {"read", "registered"} => message'.org = message.chat
      BY <1>3, <1>6 DEF Scopes!MessageRead, Scopes!MessageFailed
    <2>3. billed' = billed /\ moved' = moved
      BY <1>6 DEF Scopes!MessageRead, Scopes!MessageFailed
    <2>4. Scopes!Inferred(message.chat)' = Scopes!Inferred(message'.chat)
      BY <1>2, <2>1 DEF Scopes!Inferred, Scopes!PlantsOf, Scopes!Existing
    <2> QED BY <1>1, <1>2, <1>3, <2>1, <2>2, <2>3, <2>4
  <1>7. CASE Scopes!BillRegistered
    <2>1. PICK p \in Scopes!Inferred(message.org) : billed' = billed \cup {p}
      BY <1>7 DEF Scopes!BillRegistered
    <2>2. /\ message.at = "read" /\ message'.at = "registered" /\ moved' = moved
          /\ message'.chat = message.chat /\ message'.org = message.org
      BY <1>3, <1>7 DEF Scopes!BillRegistered
    <2>3. Scopes!Inferred(message.chat)' = Scopes!Inferred(message'.chat)
      BY <1>2, <2>2 DEF Scopes!Inferred, Scopes!PlantsOf, Scopes!Existing
    <2> QED BY <1>1, <1>2, <1>3, <2>1, <2>2, <2>3
  <1> QED BY <1>1, <1>4, <1>5, <1>6, <1>7

LEMMA KnownKeepsScopes ==
    ASSUME ScopesInv, NEW r \in Calls, NEW who \in Scopes!Principals,
           NEW c \in Credentials \cup {Nobody}, Scopes!Known(r, who, c),
           who.org # Nobody => ~who.all /\ who.plants \subseteq Scopes!PlantsOf(who.org),
           c # Nobody => /\ cred[c].org # Nobody /\ ~who.all
                         /\ cred[c].listed => who.plants \subseteq cred[c].plants
    PROVE  Scopes!ScopesHold' /\ Scopes!ServedWithinTenant' /\ Scopes!FanoutMissesNone'
  <1>1. /\ UNCHANGED <<orgOf, active, default, cred, message, billed, moved>>
        /\ req' = [req EXCEPT ![r] = [at |-> "known", who |-> who, by |-> c, served |-> {}]]
    BY DEF Scopes!Known, Scopes!tables
  <1>2. /\ req'[r] = [at |-> "known", who |-> who, by |-> c, served |-> {}]
        /\ \A o \in Calls : o # r => req'[o] = req[o]
    BY <1>1 DEF ScopesInv, Scopes!TypeOK
  <1>3. Scopes!Scoped(r)'
    BY <1>1, <1>2 DEF Scopes!Scoped, Scopes!PlantsOf
  <1> QED BY <1>1, <1>2, <1>3, RequestKeepsScopes

LEMMA ServeKeepsScopes ==
    ASSUME ScopesInv, NEW r \in Calls, NEW how \in {"one", "fanout"}, NEW S \in SUBSET Plants,
           Scopes!Serve(r, how, S),
           req[r].who.org # Nobody => S \subseteq Scopes!PlantsOf(req[r].who.org),
           ~req[r].who.all => S \subseteq req[r].who.plants,
           how = "fanout" => req[r].who.plants \subseteq S
    PROVE  Scopes!ScopesHold' /\ Scopes!ServedWithinTenant' /\ Scopes!FanoutMissesNone'
  <1>1. /\ UNCHANGED <<orgOf, active, default, cred, message, billed, moved>>
        /\ req' = [req EXCEPT ![r].at = how, ![r].served = S]
    BY DEF Scopes!Serve, Scopes!tables
  <1>2. /\ req'[r].who = req[r].who /\ req'[r].by = req[r].by
        /\ req'[r].served = S /\ req'[r].at = how
        /\ \A o \in Calls : o # r => req'[o] = req[o]
    BY <1>1 DEF ScopesInv, Scopes!TypeOK
  <1>3. Scopes!Scoped(r)
    BY DEF ScopesInv, Scopes!ScopesHold
  <1>4. Scopes!Scoped(r)'
    BY <1>1, <1>2, <1>3 DEF Scopes!Scoped, Scopes!PlantsOf
  <1>5. req[r].by # Nobody /\ cred[req[r].by].listed => S \subseteq cred[req[r].by].plants
    BY <1>3 DEF Scopes!Scoped
  <1> QED BY <1>1, <1>2, <1>4, <1>5, RequestKeepsScopes

LEMMA StepScopes ==
    ASSUME ScopesInv, InScopes, MCNext
    PROVE  Scopes!ScopesHold' /\ Scopes!ServedWithinTenant' /\ Scopes!FanoutMissesNone'
  <1> DEFINE Goal == Scopes!ScopesHold' /\ Scopes!ServedWithinTenant' /\ Scopes!FanoutMissesNone'
  <1>0. /\ \A c \in Credentials : Scopes!Issued(c)
        /\ \A r \in Calls : Scopes!Scoped(r) /\ req[r].who \in Scopes!Principals
        /\ Scopes!BilledWhereInferred
    BY DEF ScopesInv, Scopes!ScopesHold, Scopes!TypeOK
  <1>1. ASSUME NEW p \in Plants, NEW o \in Orgs, NEW d \in BOOLEAN, Scopes!AddPlant(p, o, d)
        PROVE  Goal
    <2>1. /\ UNCHANGED <<cred, req>>
          /\ orgOf[p] = Nobody /\ orgOf' = [orgOf EXCEPT ![p] = o]
      BY <1>1 DEF Scopes!AddPlant
    <2> QED BY <1>1, <2>1, TablesKeepScopes, TablesKeepBills DEF Scopes!ScopesHold
  <1>2. ASSUME NEW p \in Plants \cup {NoPlant}, NEW o \in Orgs, Scopes!SetDefault(o, p)
        PROVE  Goal
    <2>1. UNCHANGED <<cred, req, orgOf>>
      BY <1>2 DEF Scopes!SetDefault
    <2> QED BY <1>2, <2>1, TablesKeepScopes, TablesKeepBills DEF Scopes!ScopesHold
  <1>3. ASSUME NEW o \in Orgs, Scopes!DeactivateOrg(o)
        PROVE  Goal
    <2>1. UNCHANGED <<cred, req, orgOf, default, message, billed, moved>>
      BY <1>3 DEF Scopes!DeactivateOrg
    <2>2. Scopes!BilledWhereInferred'
      BY <1>0, <2>1 DEF Scopes!BilledWhereInferred, Scopes!Inferred, Scopes!PlantsOf,
                        Scopes!Existing, Scopes!Under
    <2> QED BY <2>1, <2>2, TablesKeepScopes DEF Scopes!ScopesHold
  <1>4. ASSUME \/ \E o \in Orgs : Scopes!MessageSent(o) \/ Scopes!ChatMoves(o)
               \/ Scopes!MessageRead \/ Scopes!BillRegistered \/ Scopes!MessageFailed
        PROVE  Goal
    BY <1>4, MessageKeepsBills, TablesKeepScopes DEF Scopes!ScopesHold
  <1>5. ASSUME NEW c \in Credentials, NEW o \in Orgs, NEW admin \in BOOLEAN,
               NEW S \in SUBSET Plants, Scopes!CreateCredential(c, o, admin, S)
        PROVE  Goal
    <2>1. /\ cred[c].org = Nobody /\ S \subseteq Scopes!PlantsOf(o)
          /\ cred' = [cred EXCEPT ![c] = [org |-> o, admin |-> admin, listed |-> S # {},
                                          plants |-> S, usable |-> TRUE]]
          /\ UNCHANGED <<orgOf, active, default, req, message, billed, moved>>
      BY <1>5 DEF Scopes!CreateCredential, Scopes!ScopeIsValid
    <2>2. /\ \A e \in Credentials : e # c => cred'[e] = cred[e]
          /\ cred'[c].org = o /\ cred'[c].plants = S
      BY <2>1 DEF ScopesInv, Scopes!TypeOK
    <2>3. ASSUME NEW e \in Credentials PROVE Scopes!Issued(e)'
      BY <1>0, <2>1, <2>2, ScopesConstants DEF Scopes!Issued, Scopes!PlantsOf
    <2>4. \A r \in Calls : req[r].by # Nobody => req[r].by \in Credentials /\ req[r].by # c
      BY <1>0, <2>1 DEF ScopesInv, Scopes!TypeOK, Scopes!Scoped
    <2>5. ASSUME NEW r \in Calls PROVE Scopes!Scoped(r)'
      BY <1>0, <2>1, <2>2, <2>4 DEF Scopes!Scoped, Scopes!PlantsOf
    <2>6. Scopes!ServedWithinTenant' /\ Scopes!FanoutMissesNone'
      BY <2>1, <2>2, <2>4 DEF ScopesInv, Scopes!ServedWithinTenant, Scopes!FanoutMissesNone,
                              Scopes!PlantsOf
    <2>7. Scopes!BilledWhereInferred'
      BY <1>0, <2>1 DEF Scopes!BilledWhereInferred, Scopes!Inferred, Scopes!PlantsOf,
                        Scopes!Existing, Scopes!Under
    <2> QED BY <2>3, <2>5, <2>6, <2>7 DEF Scopes!ScopesHold
  <1>6. ASSUME NEW c \in Credentials, Scopes!EndCredential(c)
        PROVE  Goal
    <2>1. /\ cred[c].usable /\ cred' = [cred EXCEPT ![c].usable = FALSE]
          /\ UNCHANGED <<orgOf, active, default, req, message, billed, moved>>
      BY <1>6 DEF Scopes!EndCredential
    <2>2. \A e \in Credentials :
             /\ cred'[e].org = cred[e].org /\ cred'[e].plants = cred[e].plants
             /\ cred'[e].listed = cred[e].listed /\ (cred'[e].usable => cred[e].usable)
      BY <2>1 DEF ScopesInv, Scopes!TypeOK
    <2>3. ASSUME NEW e \in Credentials PROVE Scopes!Issued(e)'
      BY <1>0, <2>1, <2>2 DEF Scopes!Issued, Scopes!PlantsOf
    <2>4. \A r \in Calls : req[r].by # Nobody => req[r].by \in Credentials
      BY DEF ScopesInv, Scopes!TypeOK
    <2>5. ASSUME NEW r \in Calls PROVE Scopes!Scoped(r)'
      BY <1>0, <2>1, <2>2, <2>4 DEF Scopes!Scoped, Scopes!PlantsOf
    <2>6. Scopes!ServedWithinTenant' /\ Scopes!FanoutMissesNone'
      BY <2>1, <2>2, <2>4 DEF ScopesInv, Scopes!ServedWithinTenant, Scopes!FanoutMissesNone,
                              Scopes!PlantsOf
    <2>7. Scopes!BilledWhereInferred'
      BY <1>0, <2>1 DEF Scopes!BilledWhereInferred, Scopes!Inferred, Scopes!PlantsOf,
                        Scopes!Existing, Scopes!Under
    <2> QED BY <2>3, <2>5, <2>6, <2>7 DEF Scopes!ScopesHold
  <1>7. ASSUME NEW r \in Calls, Scopes!ByStaticKey(r)
        PROVE  Goal
    <2> DEFINE who == [org |-> Nobody, admin |-> TRUE, all |-> TRUE, plants |-> {}]
    <2>1. Scopes!Known(r, who, Nobody) /\ who \in Scopes!Principals /\ who.org = Nobody
      BY <1>7 DEF Scopes!ByStaticKey, Scopes!Principals, Scopes!Callers
    <2> HIDE DEF who
    <2> QED BY <2>1, KnownKeepsScopes
  <1>8. ASSUME NEW r \in Calls, NEW o \in Orgs, NEW admin \in BOOLEAN,
               Scopes!ByBearer(r, o, admin)
        PROVE  Goal
    <2> DEFINE who == [org |-> o, admin |-> admin, all |-> FALSE, plants |-> Scopes!PlantsOf(o)]
    <2>1. /\ Scopes!Known(r, who, Nobody) /\ who \in Scopes!Principals
          /\ ~who.all /\ who.plants = Scopes!PlantsOf(who.org)
      BY <1>8 DEF Scopes!ByBearer, Scopes!Principals, Scopes!Callers, Scopes!PlantsOf
    <2> HIDE DEF who
    <2> QED BY <2>1, KnownKeepsScopes
  <1>9. ASSUME NEW r \in Calls, NEW c \in Credentials, Scopes!ByCredential(r, c)
        PROVE  Goal
    <2> DEFINE who == [org |-> cred[c].org, admin |-> cred[c].admin, all |-> FALSE,
                       plants |-> IF cred[c].listed THEN cred[c].plants
                                  ELSE Scopes!PlantsOf(cred[c].org)]
    <2>1. cred[c].usable /\ Scopes!Known(r, who, c)
      BY <1>9 DEF Scopes!ByCredential
    <2>2. cred[c].org # Nobody /\ cred[c].plants \subseteq Scopes!PlantsOf(cred[c].org)
      BY <1>0, <2>1 DEF Scopes!Issued
    <2>3. who \in Scopes!Principals
      BY DEF ScopesInv, Scopes!TypeOK, Scopes!Principals, Scopes!PlantsOf
    <2>4. /\ ~who.all /\ who.plants \subseteq Scopes!PlantsOf(who.org)
          /\ cred[c].listed => who.plants \subseteq cred[c].plants
      BY <2>2
    <2> HIDE DEF who
    <2> QED BY <2>1, <2>2, <2>3, <2>4, KnownKeepsScopes
  <1>10. ASSUME NEW r \in Calls, NEW p \in Plants, Scopes!ServeNamed(r, p)
         PROVE  Goal
    <2>1. Scopes!Allows(req[r].who, p) /\ Scopes!Serve(r, "one", {p})
      BY <1>10 DEF Scopes!ServeNamed
    <2>2. Scopes!Scoped(r)
      BY <1>0
    <2>3. /\ req[r].who.org # Nobody => {p} \subseteq Scopes!PlantsOf(req[r].who.org)
          /\ ~req[r].who.all => {p} \subseteq req[r].who.plants
      BY <2>1, <2>2 DEF Scopes!Allows, Scopes!Scoped
    <2> QED BY <2>1, <2>3, ServeKeepsScopes
  <1>11. ASSUME NEW r \in Calls, Scopes!ServeInferred(r)
         PROVE  Goal
    <2>1. PICK p \in Scopes!Inferred(req[r].who.org) :
             Scopes!Allows(req[r].who, p) /\ Scopes!Serve(r, "one", {p})
      BY <1>11 DEF Scopes!ServeInferred
    <2>2. p \in Plants
      BY <2>1 DEF Scopes!Inferred, Scopes!PlantsOf, Scopes!Existing
    <2>3. Scopes!Scoped(r)
      BY <1>0
    <2>4. /\ req[r].who.org # Nobody => {p} \subseteq Scopes!PlantsOf(req[r].who.org)
          /\ ~req[r].who.all => {p} \subseteq req[r].who.plants
      BY <2>1, <2>3 DEF Scopes!Allows, Scopes!Scoped
    <2> QED BY <2>1, <2>2, <2>4, ServeKeepsScopes
  <1>12. ASSUME NEW r \in Calls, Scopes!ServeFanout(r)
         PROVE  Goal
    <2> DEFINE T == {p \in Scopes!PlantsOf(req[r].who.org) : Scopes!Allows(req[r].who, p)}
    <2>1. req[r].who.org # Nobody /\ Scopes!Serve(r, "fanout", T)
      BY <1>12 DEF Scopes!ServeFanout, Scopes!FanoutOf
    <2>2. Scopes!Scoped(r)
      BY <1>0
    <2>3. /\ T \subseteq Scopes!PlantsOf(req[r].who.org) /\ T \subseteq Plants
          /\ T \subseteq req[r].who.plants /\ req[r].who.plants \subseteq T
      BY <2>1, <2>2 DEF Scopes!Allows, Scopes!Scoped, Scopes!PlantsOf
    <2> HIDE DEF T
    <2> QED BY <2>1, <2>3, ServeKeepsScopes
  <1>13. ASSUME NEW r \in Calls, Scopes!Finish(r)
         PROVE  Goal
    <2>1. /\ req' = [req EXCEPT ![r] = Scopes!Idle]
          /\ UNCHANGED <<orgOf, active, default, cred, message, billed, moved>>
      BY <1>13 DEF Scopes!Finish, Scopes!tables
    <2>2. /\ req'[r].at = "idle" /\ req'[r].by = Nobody /\ req'[r].who.org = Nobody
          /\ \A o \in Calls : o # r => req'[o] = req[o]
      BY <2>1 DEF ScopesInv, Scopes!TypeOK, Scopes!Idle, Scopes!NoPrincipal
    <2>3. Scopes!Scoped(r)'
      BY <2>2 DEF Scopes!Scoped
    <2> QED BY <2>1, <2>2, <2>3, RequestKeepsScopes
  <1> HIDE DEF Goal
  <1> QED BY <1>1, <1>2, <1>3, <1>4, <1>5, <1>6, <1>7, <1>8, <1>9, <1>10, <1>11, <1>12, <1>13,
             ScopesSteps DEF Goal

\* What every behaviour keeps of the tenants.
LEMMA ScopesInvHolds == MCSpec => [](InScopes => ScopesInv)
  <1> DEFINE Inv == InScopes => ScopesInv
  <1>1. MCInit => Inv
    <2> SUFFICES ASSUME MCInit, InScopes PROVE ScopesInv
      OBVIOUS
    <2>1. Scopes!Init
      BY DEF MCInit, InScopes
    <2>2. Scopes!TypeOK
      BY <2>1 DEF Scopes!Init, Scopes!TypeOK, Scopes!Idle, Scopes!NoPrincipal,
                  Scopes!Principals, Scopes!Callers
    <2>3. Scopes!ScopesHold
      BY <2>1 DEF Scopes!Init, Scopes!ScopesHold, Scopes!Issued, Scopes!Scoped,
                  Scopes!BilledWhereInferred, Scopes!Under, Scopes!Idle, Scopes!NoPrincipal
    <2>4. Scopes!ServedWithinTenant /\ Scopes!FanoutMissesNone
      BY <2>1 DEF Scopes!Init, Scopes!ServedWithinTenant, Scopes!FanoutMissesNone,
                  Scopes!Idle, Scopes!NoPrincipal
    <2> QED BY <2>2, <2>3, <2>4 DEF ScopesInv
  <1>2. Inv /\ [MCNext]_vars => Inv'
    <2> SUFFICES ASSUME Inv, [MCNext]_vars, InScopes' PROVE ScopesInv'
      OBVIOUS
    <2>1. InScopes
      BY PartKept DEF InScopes
    <2>2. CASE MCNext
      BY <2>1, <2>2, ScopesTyped, StepScopes DEF ScopesInv
    <2>3. CASE UNCHANGED vars
      <3>1. UNCHANGED <<s1, s2, s3, s4, s5, s6, s7, s8>> /\ ScopesInv
        BY <2>1, <2>3 DEF vars
      <3>2. Scopes!TypeOK' /\ Scopes!ServedWithinTenant' /\ Scopes!FanoutMissesNone'
        BY <3>1 DEF ScopesInv, Scopes!TypeOK, Scopes!ServedWithinTenant,
                    Scopes!FanoutMissesNone, Scopes!PlantsOf
      <3>3. Scopes!BilledWhereInferred'
        BY <3>1 DEF ScopesInv, Scopes!ScopesHold, Scopes!BilledWhereInferred,
                    Scopes!PlantsOf, Scopes!Existing, Scopes!Inferred, Scopes!Under
      <3> QED BY <3>1, <3>2, <3>3, TablesKeepScopes DEF ScopesInv, Scopes!ScopesHold
    <2> QED BY <2>2, <2>3
  <1> HIDE DEF Inv
  <1>3. MCSpec => []Inv
    BY <1>1, <1>2, PTL DEF MCSpec
  <1> QED BY <1>3 DEF Inv

\* Whatever is created, made the default or listed while a request is on its way, it is
\* served plants of its own organization, no more than its credential lists and none
\* too few; and a message's bill ends in one plant unless something moved; for any
\* organizations, plants, credentials and requests (core/tenancy.py;
\* credentials/service.py; telegram/bot_service.py).
THEOREM ScopesAreExact == MCSpec => []ScopeIsExact
  <1> DEFINE Inv == InScopes => ScopesInv
  <1>1. Inv => ScopeIsExact
    <2> SUFFICES ASSUME ScopesInv PROVE Scopes!BillInOnePlant
      BY DEF ScopeIsExact, ScopesInv
    <2>1. CASE ~moved /\ Scopes!Under
      <3>1. message.chat \in Orgs /\ billed \in SUBSET Scopes!Inferred(message.chat)
        BY <2>1 DEF ScopesInv, Scopes!ScopesHold, Scopes!BilledWhereInferred
      <3> QED BY <3>1, InferredIsOne, SameCount DEF Scopes!BillInOnePlant
    <2>2. CASE ~Scopes!Under
      <3>1. billed = {}
        BY <2>2 DEF ScopesInv, Scopes!ScopesHold, Scopes!BilledWhereInferred
      <3> QED BY <3>1, SameCount, FS_EmptySet DEF Scopes!BillInOnePlant
    <2> QED BY <2>1, <2>2 DEF Scopes!BillInOnePlant
  <1>2. MCSpec => []Inv
    BY ScopesInvHolds
  <1> HIDE DEF Inv
  <1> QED BY <1>1, <1>2, PTL

-----------------------------------------------------------------------------
(* The account a plant is read through: providers/accounts.py, router.py.   *)

plants == s1
account == s2
sealed == s3
keys == s4
live == s5
at == s6
plant == s7
login == s8
ring == s9
owner == s10
mixed == s11
overlap == s12
entry == s13
USE DEF plants, account, sealed, keys, live, at, plant, login, ring, owner, mixed, overlap, entry

ProviderInv ==
    Provider!TypeOK /\ Provider!FirstPlants /\ Provider!RingsAgree /\ Provider!ReadingsKnown

LEMMA ProviderConstants == NoAccount \notin Accounts /\ MaxPlants \in Nat
  BY ConstantsOfParts DEF Provider!ConstantsOK

\* The component counts as this module does.
LEMMA SameCountOfPlants == ASSUME NEW S PROVE Provider!Cardinality(S) = Cardinality(S)
  BY DEF Provider!Cardinality, Cardinality

LEMMA ProviderSteps ==
    ASSUME InProvider, MCNext
    PROVE  \/ \E r \in Requests, p \in Provider!PlantIds, a \in Accounts : Provider!PutStart(r, p, a)
           \/ \E r \in Requests, p \in Provider!PlantIds :
                 Provider!DeleteStart(r, p) \/ Provider!NowStart(r, p)
           \/ \E r \in Requests, o \in Orgs, a \in Accounts :
                 Provider!ConnectStart(r, o, a) \/ Provider!ConfirmStart(r, o, a)
           \/ \E r \in Requests :
                 \/ Provider!PutLookup(r) \/ Provider!PutRefused(r) \/ Provider!PutCommit(r)
                 \/ Provider!PutConflict(r) \/ Provider!DeleteCommit(r)
                 \/ Provider!DeleteRefused(r) \/ Provider!Create(r)
                 \/ Provider!CreateRefused(r) \/ Provider!CreateCommit(r)
                 \/ Provider!CreateConflict(r) \/ Provider!NowStore(r) \/ Provider!NowFailed(r)
                 \/ Provider!NowUnavailable(r)
           \/ Provider!AddKey \/ Provider!RotateAll
           \/ \E p \in Provider!PlantIds : Provider!LiveForgotten(p)
  <1>1. ~InSessions /\ ~InScopes /\ ~InSolar /\ ~InLimiter /\ ~InSettings
    BY DEF InLimiter, InSessions, InProvider, InSolar, InSettings, InScopes
  <1> QED BY <1>1, ZenonT(60) DEF MCNext

\* A request that begins, goes on or ends changes its own part of the state alone.
Stays(q) ==
    /\ at'[q] = at[q] /\ plant'[q] = plant[q] /\ login'[q] = login[q]
    /\ ring'[q] = ring[q] /\ owner'[q] = owner[q] /\ entry'[q] = entry[q]

LEMMA Entered ==
    ASSUME Provider!TypeOK, NEW r \in Requests, NEW label \in Provider!States,
           NEW p \in 0 .. MaxPlants, NEW a \in Accounts \cup {NoAccount},
           NEW o \in Orgs \cup {NoAccount}, Provider!Enter(r, label, p, a, o),
           label = "asking" => p \in Provider!PlantIds
    PROVE  /\ at'[r] = label /\ plant'[r] = p /\ login'[r] = a /\ owner'[r] = o /\ ring'[r] = keys
           /\ label = "asking" => entry'[r] = live[p]
           /\ \A q \in Requests \ {r} : Stays(q)
           /\ at' \in [Requests -> Provider!States] /\ plant' \in [Requests -> 0 .. MaxPlants]
           /\ login' \in [Requests -> Accounts \cup {NoAccount}] /\ ring' \in [Requests -> 0 .. 2]
           /\ owner' \in [Requests -> Orgs \cup {NoAccount}]
           /\ entry' \in [Requests -> Accounts \cup {NoAccount}]
  BY DEF Provider!TypeOK, Provider!Enter, Stays

LEMMA Went ==
    ASSUME Provider!TypeOK, NEW r \in Requests, NEW label \in Provider!States,
           Provider!Goto(r, label)
    PROVE  /\ at'[r] = label /\ plant'[r] = plant[r] /\ login'[r] = login[r]
           /\ owner'[r] = owner[r] /\ ring'[r] = ring[r] /\ entry'[r] = entry[r]
           /\ \A q \in Requests \ {r} : Stays(q)
           /\ at' \in [Requests -> Provider!States] /\ plant' \in [Requests -> 0 .. MaxPlants]
           /\ login' \in [Requests -> Accounts \cup {NoAccount}] /\ ring' \in [Requests -> 0 .. 2]
           /\ owner' \in [Requests -> Orgs \cup {NoAccount}]
           /\ entry' \in [Requests -> Accounts \cup {NoAccount}]
  BY DEF Provider!TypeOK, Provider!Goto, Stays

LEMMA Left ==
    ASSUME Provider!TypeOK, NEW r \in Requests, Provider!Leave(r)
    PROVE  /\ at'[r] = "idle" /\ plant'[r] = 0
           /\ \A q \in Requests \ {r} : Stays(q)
           /\ at' \in [Requests -> Provider!States] /\ plant' \in [Requests -> 0 .. MaxPlants]
           /\ login' \in [Requests -> Accounts \cup {NoAccount}] /\ ring' \in [Requests -> 0 .. 2]
           /\ owner' \in [Requests -> Orgs \cup {NoAccount}]
           /\ entry' \in [Requests -> Accounts \cup {NoAccount}]
  <1>1. "idle" \in Provider!States /\ 0 \in 0 .. MaxPlants /\ 0 \in 0 .. 2
    BY ProviderConstants DEF Provider!States
  <1> QED BY <1>1 DEF Provider!TypeOK, Provider!Leave, Stays

LEMMA ProviderTyped == ASSUME ProviderInv, InProvider, MCNext PROVE Provider!TypeOK'
  <1> DEFINE Db == UNCHANGED <<plants, account, sealed>>
             RequestsTyped ==
                /\ at' \in [Requests -> Provider!States] /\ plant' \in [Requests -> 0 .. MaxPlants]
                /\ login' \in [Requests -> Accounts \cup {NoAccount}] /\ ring' \in [Requests -> 0 .. 2]
                /\ owner' \in [Requests -> Orgs \cup {NoAccount}]
                /\ entry' \in [Requests -> Accounts \cup {NoAccount}]
  <1>0. /\ Provider!TypeOK /\ Provider!PlantIds = 1 .. MaxPlants /\ MaxPlants \in Nat
        /\ \A r \in Requests : at[r] \in Provider!Saving => ring[r] \in 1 .. 2
        /\ \A r \in Requests : at[r] \in {"verifying", "saving", "removing", "asking"}
              => plant[r] \in Provider!PlantIds
    BY ProviderConstants DEF ProviderInv, Provider!TypeOK, Provider!RingsAgree, Provider!PlantIds,
           Provider!ReadingsKnown, Provider!Existing
  <1>1. \A p : (Provider!Asking(p) \/ Provider!Reconnecting(p)) \in BOOLEAN
    OBVIOUS
  <1>2. ASSUME NEW r \in Requests, NEW p \in Provider!PlantIds, NEW a \in Accounts,
               Provider!PutStart(r, p, a)
        PROVE  Provider!TypeOK'
    <2>1. RequestsTyped
      BY <1>0, <1>2, Entered DEF Provider!PutStart, Provider!States
    <2>2. overlap' \in [Provider!PlantIds -> BOOLEAN] /\ live' \in [Provider!PlantIds -> Accounts \cup {NoAccount}]
      BY <1>0, <1>2 DEF Provider!PutStart, Provider!TypeOK, Provider!ForgetLive, Provider!Asking
    <2> QED BY <1>0, <1>2, <2>1, <2>2 DEF Provider!PutStart, Provider!TypeOK, Provider!db
  <1>3. ASSUME NEW r \in Requests, NEW p \in Provider!PlantIds,
               Provider!DeleteStart(r, p) \/ Provider!NowStart(r, p)
        PROVE  Provider!TypeOK'
    <2>1. RequestsTyped
      <3>1. p \in 0 .. MaxPlants /\ account[p] \in Accounts \cup {NoAccount}
        BY <1>0 DEF Provider!TypeOK
      <3>2. CASE Provider!DeleteStart(r, p)
        BY <1>0, <3>1, <3>2, Entered DEF Provider!DeleteStart, Provider!States
      <3>3. CASE Provider!NowStart(r, p)
        BY <1>0, <3>1, <3>3, Entered DEF Provider!NowStart, Provider!States
      <3> QED BY <1>3, <3>2, <3>3
    <2>2. overlap' \in [Provider!PlantIds -> BOOLEAN] /\ live' \in [Provider!PlantIds -> Accounts \cup {NoAccount}]
      BY <1>0, <1>3 DEF Provider!DeleteStart, Provider!NowStart, Provider!TypeOK,
            Provider!ForgetLive, Provider!Reconnecting
    <2> QED BY <1>0, <1>3, <2>1, <2>2 DEF Provider!DeleteStart, Provider!NowStart,
                  Provider!TypeOK, Provider!db
  <1>4. ASSUME NEW r \in Requests, NEW o \in Orgs, NEW a \in Accounts,
               Provider!ConnectStart(r, o, a) \/ Provider!ConfirmStart(r, o, a)
        PROVE  Provider!TypeOK'
    <2>1. RequestsTyped
      BY <1>0, <1>4, Entered DEF Provider!ConnectStart, Provider!ConfirmStart, Provider!States
    <2> QED BY <1>0, <1>4, <2>1 DEF Provider!ConnectStart, Provider!ConfirmStart,
                  Provider!TypeOK, Provider!db
  <1>5. ASSUME NEW r \in Requests, Provider!PutLookup(r) \/ Provider!Create(r)
        PROVE  Provider!TypeOK'
    <2>1. RequestsTyped
      BY <1>0, <1>5, Went DEF Provider!PutLookup, Provider!Create, Provider!States
    <2> QED BY <1>0, <1>5, <2>1 DEF Provider!PutLookup, Provider!Create, Provider!TypeOK, Provider!db
  <1>6. ASSUME NEW r \in Requests, Provider!Refuse(r)
        PROVE  Provider!TypeOK'
    <2>1. RequestsTyped
      BY <1>0, <1>6, Left DEF Provider!Refuse
    <2> QED BY <1>0, <1>6, <2>1 DEF Provider!Refuse, Provider!TypeOK, Provider!db
  <1>7. ASSUME NEW r \in Requests, Provider!PutCommit(r) \/ Provider!CreateCommit(r)
        PROVE  Provider!TypeOK'
    <2>1. RequestsTyped
      BY <1>0, <1>7, Left DEF Provider!PutCommit, Provider!CreateCommit
    <2>2. mixed' \in BOOLEAN
      BY <1>0, <1>7 DEF Provider!PutCommit, Provider!CreateCommit, Provider!OtherRing, Provider!TypeOK
    <2>3. /\ account' \in [Provider!PlantIds -> Accounts \cup {NoAccount}]
          /\ sealed' \in [Provider!PlantIds -> 0 .. 2]
      <3>1. login[r] \in Accounts \cup {NoAccount} /\ ring[r] \in 0 .. 2
        BY <1>0 DEF Provider!TypeOK
      <3>2. \E p : /\ account' = [account EXCEPT ![p] = login[r]]
                  /\ sealed' = [sealed EXCEPT ![p] = ring[r]]
        BY <1>7 DEF Provider!PutCommit, Provider!CreateCommit
      <3> QED BY <1>0, <3>1, <3>2 DEF Provider!TypeOK
    <2>4. plants' \in Seq(Orgs) /\ Len(plants') <= MaxPlants
      <3>1. CASE Provider!PutCommit(r)
        BY <1>0, <3>1 DEF Provider!PutCommit, Provider!TypeOK
      <3>2. CASE Provider!CreateCommit(r)
        <4>1. owner[r] \in Orgs
          BY <3>2 DEF Provider!CreateCommit, ProviderInv, Provider!FirstPlants
        <4> QED BY <1>0, <3>2, <4>1 DEF Provider!CreateCommit, Provider!TypeOK
      <3> QED BY <1>7, <3>1, <3>2
    <2> QED BY <1>0, <1>7, <2>1, <2>2, <2>3, <2>4 DEF Provider!PutCommit, Provider!CreateCommit, Provider!TypeOK
  <1>8. ASSUME NEW r \in Requests, Provider!DeleteCommit(r)
        PROVE  Provider!TypeOK'
    <2>1. RequestsTyped
      BY <1>0, <1>8, Left DEF Provider!DeleteCommit
    <2> QED BY <1>0, <1>8, <2>1 DEF Provider!DeleteCommit, Provider!TypeOK
  <1>9. ASSUME NEW r \in Requests, Provider!NowStore(r) \/ Provider!NowFailed(r)
        PROVE  Provider!TypeOK'
    <2>1. RequestsTyped
      BY <1>0, <1>9, Left DEF Provider!NowStore, Provider!NowFailed
    <2>2. live' \in [Provider!PlantIds -> Accounts \cup {NoAccount}]
      BY <1>0, <1>9 DEF Provider!NowStore, Provider!NowFailed, Provider!TypeOK
    <2> QED BY <1>0, <1>9, <2>1, <2>2 DEF Provider!NowStore, Provider!NowFailed, Provider!TypeOK,
                                         Provider!db
  <1>10. CASE Provider!AddKey
    BY <1>0, <1>10 DEF Provider!AddKey, Provider!TypeOK, Provider!db, Provider!request
  <1>11. CASE Provider!RotateAll
    <2>1. mixed' \in BOOLEAN
      BY <1>0, <1>11 DEF Provider!RotateAll, Provider!TypeOK
    <2> QED BY <1>0, <1>11, <2>1 DEF Provider!RotateAll, Provider!TypeOK, Provider!request
  <1>12. ASSUME NEW p \in Provider!PlantIds, Provider!LiveForgotten(p)
         PROVE  Provider!TypeOK'
    BY <1>0, <1>12 DEF Provider!LiveForgotten, Provider!ForgetLive, Provider!TypeOK, Provider!db,
                       Provider!request
  <1>13. ASSUME NEW r \in Requests,
                \/ Provider!PutRefused(r) \/ Provider!PutConflict(r) \/ Provider!DeleteRefused(r)
                \/ Provider!CreateRefused(r) \/ Provider!CreateConflict(r) \/ Provider!NowUnavailable(r)
         PROVE  Provider!TypeOK'
    BY <1>6, <1>13 DEF Provider!PutRefused, Provider!PutConflict, Provider!DeleteRefused,
                       Provider!CreateRefused, Provider!CreateConflict, Provider!NowUnavailable
  <1> QED BY <1>2, <1>3, <1>4, <1>5, <1>7, <1>8, <1>9, <1>10, <1>11, <1>12, <1>13, ProviderSteps

-----------------------------------------------------------------------------

\* A request that is not about a first plant, now or after the step, and a table of
\* plants that stays.
LEMMA OthersKeepFirstPlants ==
    ASSUME ProviderInv, UNCHANGED plants, NEW r \in Requests,
           \A q \in Requests \ {r} : Stays(q),
           at'[r] \in {"connecting", "confirming"} => owner'[r] \in Orgs /\ plant'[r] = 0,
           at'[r] # "creating"
    PROVE  Provider!FirstPlants'
  BY DEF ProviderInv, Provider!FirstPlants, Provider!Existing, Provider!PlantsOf, Stays

LEMMA StepFirstPlants == ASSUME ProviderInv, InProvider, MCNext PROVE Provider!FirstPlants'
  <1>0. Provider!TypeOK /\ Provider!FirstPlants /\ Provider!PlantIds = 1 .. MaxPlants /\ MaxPlants \in Nat
    BY ProviderConstants DEF ProviderInv, Provider!PlantIds
  <1>1. ASSUME NEW r \in Requests, NEW label \in Provider!States, NEW p \in 0 .. MaxPlants,
               NEW a \in Accounts \cup {NoAccount}, NEW o \in Orgs \cup {NoAccount},
               Provider!Enter(r, label, p, a, o), label # "creating", UNCHANGED plants,
               label = "asking" => p \in Provider!PlantIds,
               label \in {"connecting", "confirming"} => o \in Orgs /\ p = 0
        PROVE  Provider!FirstPlants'
    BY <1>0, <1>1, Entered, OthersKeepFirstPlants
  <1>2. ASSUME NEW r \in Requests, Provider!Leave(r), UNCHANGED plants
        PROVE  Provider!FirstPlants'
    BY <1>0, <1>2, Left, OthersKeepFirstPlants
  <1>3. ASSUME NEW r \in Requests, NEW p \in Provider!PlantIds, NEW a \in Accounts,
               Provider!PutStart(r, p, a)
        PROVE  Provider!FirstPlants'
    BY <1>0, <1>1, <1>3 DEF Provider!PutStart, Provider!db, Provider!States
  <1>4. ASSUME NEW r \in Requests, NEW p \in Provider!PlantIds,
               Provider!DeleteStart(r, p) \/ Provider!NowStart(r, p)
        PROVE  Provider!FirstPlants'
    <2>1. p \in 0 .. MaxPlants /\ account[p] \in Accounts \cup {NoAccount}
      BY <1>0 DEF Provider!TypeOK
    <2>2. CASE Provider!DeleteStart(r, p)
      BY <1>1, <2>1, <2>2 DEF Provider!DeleteStart, Provider!db, Provider!States
    <2>3. CASE Provider!NowStart(r, p)
      BY <1>1, <2>1, <2>3 DEF Provider!NowStart, Provider!db, Provider!States
    <2> QED BY <1>4, <2>2, <2>3
  <1>5. ASSUME NEW r \in Requests, NEW o \in Orgs, NEW a \in Accounts,
               Provider!ConnectStart(r, o, a) \/ Provider!ConfirmStart(r, o, a)
        PROVE  Provider!FirstPlants'
    BY <1>0, <1>1, <1>5 DEF Provider!ConnectStart, Provider!ConfirmStart, Provider!db, Provider!States
  <1>6. ASSUME NEW r \in Requests, Provider!PutLookup(r)
        PROVE  Provider!FirstPlants'
    BY <1>0, <1>6, Went, OthersKeepFirstPlants DEF Provider!PutLookup, Provider!db, Provider!States
  <1>7. ASSUME NEW r \in Requests, Provider!Create(r)
        PROVE  Provider!FirstPlants'
    <2>1. /\ at[r] \in {"connecting", "confirming"} /\ Provider!PlantsOf(owner[r]) = {}
          /\ \A q \in Requests : at[q] = "creating" => owner[q] # owner[r]
          /\ Provider!Goto(r, "creating") /\ UNCHANGED plants
      BY <1>7 DEF Provider!Create, Provider!OrgLocked, Provider!db
    <2>2. /\ at'[r] = "creating" /\ owner'[r] = owner[r] /\ plant'[r] = plant[r]
          /\ \A q \in Requests \ {r} : Stays(q)
      BY <1>0, <2>1, Went DEF Provider!States
    <2> QED BY <1>0, <2>1, <2>2 DEF Provider!FirstPlants, Provider!Existing, Provider!PlantsOf, Stays
  <1>8. ASSUME NEW r \in Requests, Provider!CreateCommit(r)
        PROVE  Provider!FirstPlants'
    <2>1. /\ at[r] = "creating" /\ plants' = Append(plants, owner[r]) /\ Provider!Leave(r)
      BY <1>8 DEF Provider!CreateCommit
    <2>2. /\ owner[r] \in Orgs /\ Provider!PlantsOf(owner[r]) = {}
          /\ \A q \in Requests \ {r} : at[q] = "creating" => owner[q] # owner[r]
      BY <1>0, <2>1 DEF Provider!FirstPlants
    <2>3. /\ plants \in Seq(Orgs) /\ Len(plants') = Len(plants) + 1 /\ Len(plants) \in Nat
          /\ plants'[Len(plants) + 1] = owner[r]
          /\ \A p \in 1 .. Len(plants) : plants'[p] = plants[p]
      BY <1>0, <2>1, <2>2 DEF Provider!TypeOK
    <2>4. \A p \in 1 .. Len(plants) : plants[p] # owner[r]
      BY <2>2 DEF Provider!PlantsOf, Provider!Existing
    <2>5. \A p, q \in 1 .. Len(plants') : plants'[p] = plants'[q] => p = q
      BY <1>0, <2>3, <2>4 DEF Provider!FirstPlants, Provider!Existing
    <2>6. at'[r] = "idle" /\ \A q \in Requests \ {r} : Stays(q)
      BY <1>0, <2>1, Left
    <2>7. ASSUME NEW q \in Requests, at'[q] = "creating"
          PROVE  Provider!PlantsOf(owner[q])' = {}
      <3>1. q # r /\ at[q] = "creating" /\ owner'[q] = owner[q]
        BY <2>6, <2>7 DEF Stays
      <3>2. owner[q] # owner[r] /\ Provider!PlantsOf(owner[q]) = {}
        BY <1>0, <2>2, <3>1 DEF Provider!FirstPlants
      <3>3. {p \in 1 .. Len(plants') : plants'[p] = owner[q]} = {}
        BY <2>3, <3>2 DEF Provider!PlantsOf, Provider!Existing
      <3> QED BY <3>1, <3>3 DEF Provider!PlantsOf, Provider!Existing
    <2>8. \A q \in Requests :
             at'[q] \in {"connecting", "confirming", "creating"} =>
                /\ at[q] = at'[q] /\ q # r
                /\ owner'[q] = owner[q] /\ plant'[q] = plant[q]
      BY <2>6 DEF Stays
    <2>9. \A q \in Requests :
             at'[q] \in {"connecting", "confirming", "creating"} =>
                owner'[q] \in Orgs /\ plant'[q] = 0
      BY <1>0, <2>8 DEF Provider!FirstPlants
    <2>10. \A p, q \in Requests :
             p # q /\ at'[p] = "creating" /\ at'[q] = "creating" => owner'[p] # owner'[q]
      <3>1. \A p, q \in Requests :
               p # q /\ at[p] = "creating" /\ at[q] = "creating" => owner[p] # owner[q]
        BY <1>0 DEF Provider!FirstPlants
      <3> QED BY <2>8, <3>1
    <2> QED BY <2>5, <2>7, <2>9, <2>10 DEF Provider!FirstPlants, Provider!Existing
  <1>9. ASSUME NEW r \in Requests,
               \/ Provider!PutRefused(r) \/ Provider!PutConflict(r) \/ Provider!DeleteRefused(r)
               \/ Provider!CreateRefused(r) \/ Provider!CreateConflict(r) \/ Provider!NowFailed(r)
               \/ Provider!PutCommit(r) \/ Provider!DeleteCommit(r) \/ Provider!NowStore(r)
               \/ Provider!NowUnavailable(r)
        PROVE  Provider!FirstPlants'
    BY <1>2, <1>9 DEF Provider!PutRefused, Provider!PutConflict, Provider!DeleteRefused,
                      Provider!CreateRefused, Provider!CreateConflict, Provider!NowFailed,
                      Provider!Refuse, Provider!PutCommit, Provider!DeleteCommit,
                      Provider!NowStore, Provider!NowUnavailable, Provider!db
  <1>10. ASSUME \/ Provider!AddKey \/ Provider!RotateAll
                \/ \E p \in Provider!PlantIds : Provider!LiveForgotten(p)
         PROVE  Provider!FirstPlants'
    <2>1. UNCHANGED <<plants, at, plant, owner>>
      BY <1>10 DEF Provider!AddKey, Provider!RotateAll, Provider!LiveForgotten, Provider!db,
                   Provider!request
    <2> QED BY <1>0, <2>1 DEF Provider!FirstPlants, Provider!Existing, Provider!PlantsOf
  <1> QED BY <1>3, <1>4, <1>5, <1>6, <1>7, <1>8, <1>9, <1>10, ProviderSteps

-----------------------------------------------------------------------------

\* The tables and the keys stay, and a request is about to save only if it was looked
\* up that no other plant has its account.
LEMMA RequestKeepsRings ==
    ASSUME ProviderInv, UNCHANGED <<account, sealed, keys, mixed>>, NEW r \in Requests,
           \A q \in Requests \ {r} : Stays(q),
           at'[r] \in Provider!Saving =>
              /\ login'[r] \in Accounts
              /\ ring'[r] = keys \/ (at[r] \in Provider!Saving /\ ring'[r] = ring[r]),
           at'[r] \in {"saving", "creating"} =>
              /\ \A q \in Provider!PlantIds : q # plant'[r] /\ account[q] = login'[r]
                    => sealed[q] > ring'[r]
              /\ at[r] \in Provider!Saving /\ ring'[r] = ring[r]
    PROVE  Provider!RingsAgree'
  <1>0. /\ keys \in 1 .. 2 /\ NoAccount \notin Accounts
        /\ \A q \in Provider!PlantIds : sealed[q] \in 0 .. 2
        /\ \A p \in Provider!PlantIds : account[p] # NoAccount => sealed[p] \in 1 .. keys
        /\ \A q \in Requests :
              at[q] \in Provider!Saving => ring[q] \in 1 .. keys /\ login[q] \in Accounts
    BY ProviderConstants DEF ProviderInv, Provider!TypeOK, Provider!RingsAgree
  <1>1. ASSUME NEW q \in Requests, at'[q] \in Provider!Saving
        PROVE  ring'[q] \in 1 .. keys /\ login'[q] \in Accounts
    <2>1. CASE q = r
      BY <1>0, <1>1, <2>1
    <2>2. CASE q # r
      BY <1>0, <1>1, <2>2 DEF Stays
    <2> QED BY <2>1, <2>2
  <1>2. ASSUME ~mixed, NEW q \in Requests, NEW p \in Provider!PlantIds,
               at'[q] \in Provider!Saving, account[p] # NoAccount
        PROVE  sealed[p] <= ring'[q]
    <2>1. at[q] \in Provider!Saving => sealed[p] <= ring[q]
      BY <1>2 DEF ProviderInv, Provider!RingsAgree
    <2>2. CASE q = r
      BY <1>0, <1>2, <2>1, <2>2
    <2>3. CASE q # r
      BY <1>2, <2>1, <2>3 DEF Stays
    <2> QED BY <2>2, <2>3
  <1>3. ASSUME ~mixed, NEW q \in Requests, NEW p \in Provider!PlantIds,
               at'[q] \in {"saving", "creating"}, p # plant'[q], account[p] = login'[q]
        PROVE  sealed[p] = ring'[q]
    <2>1. CASE q = r
      <3>1. sealed[p] > ring'[q] /\ at'[q] \in Provider!Saving /\ account[p] # NoAccount
        BY <1>0, <1>1, <1>3, <2>1 DEF Provider!Saving
      <3>2. sealed[p] <= ring'[q] /\ sealed[p] \in 0 .. 2 /\ ring'[q] \in 1 .. keys
        BY <1>0, <1>1, <1>2, <1>3, <3>1
      <3> QED BY <1>0, <3>1, <3>2
    <2>2. CASE q # r
      BY <1>3, <2>2 DEF Stays, ProviderInv, Provider!RingsAgree
    <2> QED BY <2>1, <2>2
  <1>4. /\ \A p \in Provider!PlantIds : account'[p] # NoAccount => sealed'[p] \in 1 .. keys'
        /\ ~mixed' => \A p, q \in Provider!PlantIds :
              account'[p] = account'[q] /\ account'[p] # NoAccount => p = q
    BY DEF ProviderInv, Provider!RingsAgree
  <1> QED BY <1>1, <1>2, <1>3, <1>4 DEF Provider!RingsAgree

\* What nobody in the ring of candidates has, others have under a newer key.
LEMMA NotOwned ==
    ASSUME ProviderInv, NEW a \in Accounts, NEW k \in 1 .. 2, NEW p,
           ~Provider!OwnedElsewhere(a, k, p)
    PROVE  \A q \in Provider!PlantIds : q # p /\ account[q] = a => sealed[q] > k
  <1> SUFFICES ASSUME NEW q \in Provider!PlantIds, q # p, account[q] = a
               PROVE  sealed[q] > k
    OBVIOUS
  <1>1. account[q] # NoAccount
    BY ProviderConstants
  <1>2. sealed[q] \in 1 .. keys /\ keys \in 1 .. 2
    BY <1>1 DEF ProviderInv, Provider!RingsAgree, Provider!TypeOK
  <1>3. <<sealed[q], account[q]>> \notin {<<v, a>> : v \in 1 .. k}
    BY <1>1 DEF Provider!OwnedElsewhere, Provider!Fingerprint, Provider!Candidates
  <1>4. sealed[q] \notin 1 .. k
    BY <1>3
  <1> QED BY <1>2, <1>4

\* A request commits a connection under its ring, which the unique key let through.
LEMMA SaveKeepsRings ==
    ASSUME ProviderInv, NEW r \in Requests, at[r] \in {"saving", "creating"},
           NEW p \in Provider!PlantIds, at[r] = "saving" => p = plant[r],
           at[r] = "creating" => plant[r] = 0,
           ~Provider!Taken(login[r], ring[r], plant[r]),
           account' = [account EXCEPT ![p] = login[r]],
           sealed' = [sealed EXCEPT ![p] = ring[r]],
           mixed' = (mixed \/ Provider!OtherRing(r)), keys' = keys, at'[r] = "idle",
           \A q \in Requests \ {r} : Stays(q)
    PROVE  Provider!RingsAgree'
  <1>0. /\ keys \in 1 .. 2 /\ NoAccount \notin Accounts /\ at[r] \in Provider!Saving
        /\ ring[r] \in 1 .. keys /\ login[r] \in Accounts /\ login[r] # NoAccount
        /\ \A q \in Provider!PlantIds : account[q] # NoAccount => sealed[q] \in 1 .. keys
    BY ProviderConstants DEF ProviderInv, Provider!TypeOK, Provider!RingsAgree, Provider!Saving
  <1>1. \A q \in Provider!PlantIds :
           /\ account'[q] = IF q = p THEN login[r] ELSE account[q]
           /\ sealed'[q] = IF q = p THEN ring[r] ELSE sealed[q]
    BY DEF ProviderInv, Provider!TypeOK
  <1>2. \A q \in Provider!PlantIds : account'[q] # NoAccount => sealed'[q] \in 1 .. keys'
    BY <1>0, <1>1
  <1>3. \A q \in Requests :
           /\ at'[q] \in Provider!Saving => q # r
           /\ at'[q] \in Provider!Saving =>
                 /\ at[q] = at'[q] /\ ring'[q] = ring[q] /\ login'[q] = login[q] /\ plant'[q] = plant[q]
                 /\ ring[q] \in 1 .. keys /\ login[q] \in Accounts
    BY DEF Stays, Provider!Saving, ProviderInv, Provider!RingsAgree
  <1>4. ASSUME ~mixed' PROVE /\ ~mixed
                             /\ \A q \in Requests : at'[q] \in Provider!Saving => ring[q] = ring[r]
    BY <1>3, <1>4 DEF Provider!OtherRing
  <1>5. \A q \in Provider!PlantIds : q # plant[r] /\ account[q] = login[r] => sealed[q] # ring[r]
    BY <1>0 DEF Provider!Taken, Provider!Fingerprint
  <1>6. ASSUME ~mixed', NEW q \in Provider!PlantIds, q # p PROVE account[q] # login[r]
    <2>1. CASE q # plant[r]
      <3>1. account[q] = login[r] => sealed[q] = ring[r]
        BY <1>4, <1>6, <2>1 DEF ProviderInv, Provider!RingsAgree
      <3> QED BY <1>5, <2>1, <3>1
    <2>2. CASE q = plant[r]
      BY <1>6, <2>2, ProviderConstants DEF Provider!PlantIds
    <2> QED BY <2>1, <2>2
  <1>7. ASSUME ~mixed'
        PROVE  /\ \A q, o \in Provider!PlantIds :
                     account'[q] = account'[o] /\ account'[q] # NoAccount => q = o
               /\ \A s \in Requests, q \in Provider!PlantIds :
                     at'[s] \in Provider!Saving /\ account'[q] # NoAccount => sealed'[q] <= ring'[s]
               /\ \A s \in Requests, q \in Provider!PlantIds :
                     at'[s] \in {"saving", "creating"} /\ q # plant'[s] /\ account'[q] = login'[s]
                       => sealed'[q] = ring'[s]
    <2>1. /\ \A q, o \in Provider!PlantIds :
                account[q] = account[o] /\ account[q] # NoAccount => q = o
          /\ \A s \in Requests, q \in Provider!PlantIds :
                at[s] \in Provider!Saving /\ account[q] # NoAccount => sealed[q] <= ring[s]
          /\ \A s \in Requests, q \in Provider!PlantIds :
                at[s] \in {"saving", "creating"} /\ q # plant[s] /\ account[q] = login[s]
                  => sealed[q] = ring[s]
      BY <1>4, <1>7 DEF ProviderInv, Provider!RingsAgree
    <2>2. \A q, o \in Provider!PlantIds :
             account'[q] = account'[o] /\ account'[q] # NoAccount => q = o
      BY <1>1, <1>6, <1>7, <2>1
    <2>3. ASSUME NEW s \in Requests, NEW q \in Provider!PlantIds,
                 at'[s] \in Provider!Saving, account'[q] # NoAccount
          PROVE  sealed'[q] <= ring'[s]
      <3>1. at[s] \in Provider!Saving /\ ring'[s] = ring[s] /\ ring[s] = ring[r] /\ ring[s] \in 1 .. keys
        BY <1>3, <1>4, <1>7, <2>3
      <3> QED BY <1>0, <1>1, <2>1, <2>3, <3>1
    <2>4. ASSUME NEW s \in Requests, NEW q \in Provider!PlantIds,
                 at'[s] \in {"saving", "creating"}, q # plant'[s], account'[q] = login'[s]
          PROVE  sealed'[q] = ring'[s]
      <3>0. at'[s] \in Provider!Saving
        BY <2>4 DEF Provider!Saving
      <3>1. /\ at[s] = at'[s] /\ ring'[s] = ring[s] /\ ring[s] = ring[r]
            /\ login'[s] = login[s] /\ plant'[s] = plant[s]
        BY <1>3, <1>4, <1>7, <3>0
      <3> QED BY <1>1, <2>1, <2>4, <3>1
    <2> QED BY <2>2, <2>3, <2>4
  <1> QED BY <1>2, <1>3, <1>7 DEF Provider!RingsAgree

LEMMA StepRingsAgree == ASSUME ProviderInv, InProvider, MCNext PROVE Provider!RingsAgree'
  <1>0. /\ Provider!TypeOK /\ Provider!PlantIds = 1 .. MaxPlants /\ MaxPlants \in Nat
        /\ keys \in 1 .. 2 /\ NoAccount \notin Accounts
    BY ProviderConstants DEF ProviderInv, Provider!PlantIds, Provider!TypeOK
  <1>1. ASSUME NEW r \in Requests, NEW label \in Provider!States, NEW p \in 0 .. MaxPlants,
               NEW a \in Accounts \cup {NoAccount}, NEW o \in Orgs \cup {NoAccount},
               Provider!Enter(r, label, p, a, o), label \notin {"saving", "creating"},
               UNCHANGED <<account, sealed, keys, mixed>>,
               label = "asking" => p \in Provider!PlantIds,
               label \in Provider!Saving => a \in Accounts
        PROVE  Provider!RingsAgree'
    BY <1>0, <1>1, Entered, RequestKeepsRings
  <1>2. ASSUME NEW r \in Requests, Provider!Leave(r), UNCHANGED <<account, sealed, keys, mixed>>
        PROVE  Provider!RingsAgree'
    <2>1. at'[r] = "idle" /\ \A q \in Requests \ {r} : Stays(q)
      BY <1>0, <1>2, Left
    <2> QED BY <1>2, <2>1, RequestKeepsRings DEF Provider!Saving
  <1>3. ASSUME NEW r \in Requests, NEW p \in Provider!PlantIds, NEW a \in Accounts,
               Provider!PutStart(r, p, a)
        PROVE  Provider!RingsAgree'
    BY <1>0, <1>1, <1>3 DEF Provider!PutStart, Provider!db, Provider!States
  <1>4. ASSUME NEW r \in Requests, NEW p \in Provider!PlantIds,
               Provider!DeleteStart(r, p) \/ Provider!NowStart(r, p)
        PROVE  Provider!RingsAgree'
    <2>1. p \in 0 .. MaxPlants /\ account[p] \in Accounts \cup {NoAccount}
      BY <1>0 DEF Provider!TypeOK
    <2>2. CASE Provider!DeleteStart(r, p)
      BY <1>1, <2>1, <2>2 DEF Provider!DeleteStart, Provider!db, Provider!States, Provider!Saving
    <2>3. CASE Provider!NowStart(r, p)
      BY <1>1, <2>1, <2>3 DEF Provider!NowStart, Provider!db, Provider!States, Provider!Saving
    <2> QED BY <1>4, <2>2, <2>3
  <1>5. ASSUME NEW r \in Requests, NEW o \in Orgs, NEW a \in Accounts,
               Provider!ConnectStart(r, o, a) \/ Provider!ConfirmStart(r, o, a)
        PROVE  Provider!RingsAgree'
    BY <1>0, <1>1, <1>5 DEF Provider!ConnectStart, Provider!ConfirmStart, Provider!db, Provider!States
  <1>6. ASSUME NEW r \in Requests, Provider!PutLookup(r) \/ Provider!Create(r)
        PROVE  Provider!RingsAgree'
    <2>1. /\ at[r] \in Provider!Saving /\ UNCHANGED <<account, sealed, keys, mixed>>
          /\ ~Provider!OwnedElsewhere(login[r], ring[r], plant[r])
          /\ \E label \in {"saving", "creating"} : Provider!Goto(r, label)
      <3>1. CASE Provider!PutLookup(r)
        BY <3>1 DEF Provider!PutLookup, Provider!db, Provider!Saving
      <3>2. CASE Provider!Create(r)
        BY <3>2 DEF Provider!Create, Provider!db, Provider!Saving, ProviderInv, Provider!FirstPlants
      <3> QED BY <1>6, <3>1, <3>2
    <2>2. ring[r] \in 1 .. 2 /\ login[r] \in Accounts
      BY <1>0, <2>1 DEF ProviderInv, Provider!RingsAgree
    <2>3. /\ at'[r] \in {"saving", "creating"} /\ ring'[r] = ring[r] /\ login'[r] = login[r]
          /\ plant'[r] = plant[r] /\ \A q \in Requests \ {r} : Stays(q)
      BY <1>0, <2>1, Went DEF Provider!States
    <2>4. \A q \in Provider!PlantIds : q # plant'[r] /\ account[q] = login'[r] => sealed[q] > ring'[r]
      BY <2>1, <2>2, <2>3, NotOwned
    <2> QED BY <2>1, <2>2, <2>3, <2>4, RequestKeepsRings
  <1>7. ASSUME NEW r \in Requests, Provider!PutCommit(r) PROVE Provider!RingsAgree'
    <2>1. at'[r] = "idle" /\ \A q \in Requests \ {r} : Stays(q)
      BY <1>0, <1>7, Left DEF Provider!PutCommit
    <2>2. plant[r] \in Provider!PlantIds
      BY <1>0, <1>7 DEF Provider!PutCommit, ProviderInv, Provider!ReadingsKnown, Provider!Existing,
                        Provider!TypeOK
    <2> QED BY <1>7, <2>1, <2>2, SaveKeepsRings DEF Provider!PutCommit
  <1>8. ASSUME NEW r \in Requests, Provider!CreateCommit(r) PROVE Provider!RingsAgree'
    <2>1. at'[r] = "idle" /\ \A q \in Requests \ {r} : Stays(q)
      BY <1>0, <1>8, Left DEF Provider!CreateCommit
    <2>2. at[r] = "creating" /\ plant[r] = 0 /\ Len(plants) + 1 \in Provider!PlantIds
      BY <1>0, <1>8 DEF Provider!CreateCommit, ProviderInv, Provider!FirstPlants, Provider!TypeOK
    <2> QED BY <1>8, <2>1, <2>2, SaveKeepsRings DEF Provider!CreateCommit
  <1>9. ASSUME NEW r \in Requests, Provider!DeleteCommit(r) PROVE Provider!RingsAgree'
    <2>1. at'[r] = "idle" /\ \A q \in Requests \ {r} : Stays(q)
      BY <1>0, <1>9, Left DEF Provider!DeleteCommit
    <2>2. \A q \in Provider!PlantIds :
             \/ account'[q] = NoAccount
             \/ account'[q] = account[q] /\ sealed'[q] = sealed[q]
      BY <1>0, <1>9 DEF Provider!DeleteCommit, Provider!TypeOK
    <2>3. keys' = keys /\ mixed' = mixed
      BY <1>9 DEF Provider!DeleteCommit
    <2>4. \A q \in Requests : at'[q] \in Provider!Saving =>
             /\ at[q] = at'[q] /\ ring'[q] = ring[q] /\ login'[q] = login[q] /\ plant'[q] = plant[q]
      BY <2>1 DEF Stays, Provider!Saving
    <2>5. \A q \in Requests : at'[q] \in Provider!Saving => login[q] # NoAccount
      BY <1>0, <2>4 DEF ProviderInv, Provider!RingsAgree
    <2>6. {"saving", "creating"} \subseteq Provider!Saving
      BY DEF Provider!Saving
    <2> QED BY <1>0, <2>2, <2>3, <2>4, <2>5, <2>6 DEF ProviderInv, Provider!RingsAgree
  <1>10. CASE Provider!AddKey
    <2>1. keys = 1 /\ keys' = 2 /\ UNCHANGED <<account, sealed, at, plant, login, ring, mixed>>
      BY <1>10 DEF Provider!AddKey, Provider!db, Provider!request
    <2> QED BY <2>1 DEF ProviderInv, Provider!RingsAgree
  <1>11. CASE Provider!RotateAll
    <2>1. /\ keys = 2 /\ keys' = keys /\ UNCHANGED <<account, at, plant, login, ring>>
          /\ \A p, q \in Provider!PlantIds : account[p] = account[q] /\ account[p] # NoAccount => p = q
          /\ \A p \in Provider!PlantIds : account[p] # NoAccount => sealed'[p] = keys
          /\ mixed' = (mixed \/ \E q \in Requests : at[q] \in Provider!Saving /\ ring[q] # keys)
      BY <1>11 DEF Provider!RotateAll, Provider!request
    <2>2. ~mixed' => \A q \in Requests : at[q] \in Provider!Saving => ring[q] = keys
      BY <2>1
    <2>3. \A q \in Requests : at[q] \in Provider!Saving => ring[q] \in 1 .. keys /\ login[q] \in Accounts
      BY DEF ProviderInv, Provider!RingsAgree
    <2>4. \A s \in Requests, q \in Provider!PlantIds :
             at[s] \in {"saving", "creating"} /\ account[q] = login[s]
               => at[s] \in Provider!Saving /\ account[q] # NoAccount
      BY <1>0, <2>3 DEF Provider!Saving
    <2> QED BY <1>0, <2>1, <2>2, <2>3, <2>4 DEF Provider!RingsAgree
  <1>12. ASSUME NEW p \in Provider!PlantIds, Provider!LiveForgotten(p)
         PROVE  Provider!RingsAgree'
    <2>1. UNCHANGED <<account, sealed, keys, at, plant, login, ring, mixed>>
      BY <1>12 DEF Provider!LiveForgotten, Provider!db, Provider!request
    <2> QED BY <2>1 DEF ProviderInv, Provider!RingsAgree
  <1>13. ASSUME NEW r \in Requests,
                \/ Provider!PutRefused(r) \/ Provider!PutConflict(r) \/ Provider!DeleteRefused(r)
                \/ Provider!CreateRefused(r) \/ Provider!CreateConflict(r) \/ Provider!NowFailed(r)
                \/ Provider!NowStore(r) \/ Provider!NowUnavailable(r)
         PROVE  Provider!RingsAgree'
    BY <1>2, <1>13 DEF Provider!PutRefused, Provider!PutConflict, Provider!DeleteRefused,
                       Provider!CreateRefused, Provider!CreateConflict, Provider!NowFailed,
                       Provider!Refuse, Provider!NowStore, Provider!NowUnavailable, Provider!db
  <1> QED BY <1>3, <1>4, <1>5, <1>6, <1>7, <1>8, <1>9, <1>10, <1>11, <1>12, <1>13, ProviderSteps

-----------------------------------------------------------------------------

Reconnects(q) == at[q] \in {"verifying", "saving"}

\* Nobody begins to read or to reconnect, and readings and connections only go away.
LEMMA CalmKeepsReadings ==
    ASSUME ProviderInv, UNCHANGED <<plants, overlap>>,
           \A p \in Provider!PlantIds :
              /\ live'[p] \in {live[p], NoAccount} /\ account'[p] \in {account[p], NoAccount},
           \A q \in Requests :
              /\ at'[q] = "asking" =>
                    at[q] = "asking" /\ plant'[q] = plant[q] /\ login'[q] = login[q] /\ entry'[q] = entry[q]
              /\ Reconnects(q)' => Reconnects(q) /\ plant'[q] = plant[q]
              /\ at'[q] = "removing" => plant'[q] \in Provider!Existing
    PROVE  Provider!ReadingsKnown'
  <1>0. Provider!ReadingsKnown /\ \A p \in Provider!Existing : p \in Provider!PlantIds
    BY ProviderConstants DEF ProviderInv, Provider!PlantIds, Provider!TypeOK, Provider!Existing
  <1>1. Provider!Existing' = Provider!Existing
    BY DEF Provider!Existing
  <1>2. ASSUME NEW q \in Requests, at'[q] \in {"verifying", "saving", "removing", "asking"}
        PROVE  plant'[q] \in Provider!Existing
    BY <1>0, <1>2 DEF Provider!ReadingsKnown, Reconnects
  <1>3. \A p \in Provider!PlantIds \ Provider!Existing : live'[p] = NoAccount
    BY <1>0 DEF Provider!ReadingsKnown
  <1>4. ASSUME NEW q \in Requests, at'[q] = "asking", Provider!Foreign(q)'
        PROVE  overlap'[plant'[q]]
    <2>1. at[q] = "asking" /\ plant'[q] = plant[q] /\ login'[q] = login[q] /\ entry'[q] = entry[q]
      BY <1>4
    <2>2. plant[q] \in Provider!PlantIds
      BY <1>0, <2>1 DEF Provider!ReadingsKnown
    <2>3. Provider!Foreign(q)
      BY <1>4, <2>1, <2>2 DEF Provider!Foreign
    <2> QED BY <1>0, <2>1, <2>3 DEF Provider!ReadingsKnown
  <1>5. ASSUME NEW p \in Provider!PlantIds, Provider!Reconnecting(p)',
               Provider!Asking(p)' \/ live'[p] # NoAccount
        PROVE  overlap'[p]
    <2>1. Provider!Reconnecting(p)
      BY <1>5 DEF Provider!Reconnecting, Reconnects
    <2>2. Provider!Asking(p) \/ live[p] # NoAccount
      BY <1>5 DEF Provider!Asking
    <2> QED BY <1>0, <2>1, <2>2 DEF Provider!ReadingsKnown
  <1>6. Provider!ReadingIsOfAccount'
    BY <1>0 DEF Provider!ReadingsKnown, Provider!ReadingIsOfAccount
  <1> QED BY <1>1, <1>2, <1>3, <1>4, <1>5, <1>6 DEF Provider!ReadingsKnown

LEMMA StepReadings == ASSUME ProviderInv, InProvider, MCNext PROVE Provider!ReadingsKnown'
  <1>0. /\ Provider!TypeOK /\ Provider!PlantIds = 1 .. MaxPlants /\ MaxPlants \in Nat
        /\ NoAccount \notin Accounts /\ Provider!ReadingsKnown
        /\ \A p \in Provider!Existing : p \in Provider!PlantIds
    BY ProviderConstants DEF ProviderInv, Provider!PlantIds, Provider!TypeOK, Provider!Existing
  <1>1. ASSUME NEW r \in Requests, Provider!Leave(r), UNCHANGED <<plants, overlap, live>>,
               \A p \in Provider!PlantIds : account'[p] \in {account[p], NoAccount}
        PROVE  Provider!ReadingsKnown'
    <2>1. at'[r] = "idle" /\ \A q \in Requests \ {r} : Stays(q)
      BY <1>0, <1>1, Left
    <2>2. \A q \in Requests : at[q] = "removing" => plant[q] \in Provider!Existing
      BY <1>0 DEF Provider!ReadingsKnown
    <2> QED BY <1>1, <2>1, <2>2, CalmKeepsReadings DEF Stays, Reconnects
  <1>2. ASSUME NEW r \in Requests, NEW p \in Provider!PlantIds, NEW a \in Accounts,
               Provider!PutStart(r, p, a)
        PROVE  Provider!ReadingsKnown'
    <2>1. /\ at[r] = "idle" /\ p \in Provider!Existing /\ UNCHANGED <<plants, account>>
          /\ live'[p] = NoAccount /\ overlap'[p] = Provider!Asking(p)
          /\ \A x \in Provider!PlantIds \ {p} : live'[x] = live[x] /\ overlap'[x] = overlap[x]
      BY <1>0, <1>2 DEF Provider!PutStart, Provider!ForgetLive, Provider!db, Provider!TypeOK
    <2>2. at'[r] = "verifying" /\ plant'[r] = p /\ \A q \in Requests \ {r} : Stays(q)
      BY <1>0, <1>2, Entered DEF Provider!PutStart, Provider!States
    <2>3. \A x : Provider!Asking(x)' = Provider!Asking(x)
      BY <2>1, <2>2 DEF Provider!Asking, Stays
    <2>4. \A x : x # p => Provider!Reconnecting(x)' = Provider!Reconnecting(x)
      BY <2>1, <2>2 DEF Provider!Reconnecting, Stays
    <2>5. ASSUME NEW q \in Requests, at'[q] = "asking", Provider!Foreign(q)'
          PROVE  overlap'[plant'[q]]
      <3>1. q # r /\ at[q] = "asking" /\ plant'[q] = plant[q] /\ login'[q] = login[q] /\ entry'[q] = entry[q]
        BY <2>2, <2>5 DEF Stays
      <3>2. plant[q] \in Provider!PlantIds /\ overlap[plant[q]]
        BY <1>0, <2>1, <2>5, <3>1 DEF Provider!ReadingsKnown, Provider!Foreign
      <3>3. plant[q] = p => Provider!Asking(p)
        BY <3>1 DEF Provider!Asking
      <3> QED BY <2>1, <3>1, <3>2, <3>3
    <2>6. ASSUME NEW x \in Provider!PlantIds, Provider!Reconnecting(x)',
                 Provider!Asking(x)' \/ live'[x] # NoAccount
          PROVE  overlap'[x]
      <3>1. CASE x = p
        BY <2>1, <2>3, <2>6, <3>1
      <3>2. CASE x # p
        BY <1>0, <2>1, <2>3, <2>4, <2>6, <3>2 DEF Provider!ReadingsKnown
      <3> QED BY <3>1, <3>2
    <2>7. Provider!ReadingIsOfAccount'
      BY <1>0, <2>1 DEF Provider!ReadingsKnown, Provider!ReadingIsOfAccount
    <2>8. /\ Provider!Existing' = Provider!Existing
          /\ \A q \in Requests : at'[q] \in {"verifying", "saving", "removing", "asking"}
                => plant'[q] \in Provider!Existing
          /\ \A x \in Provider!PlantIds \ Provider!Existing : live'[x] = NoAccount
      BY <1>0, <2>1, <2>2 DEF Provider!ReadingsKnown, Provider!Existing, Stays
    <2> QED BY <2>5, <2>6, <2>7, <2>8 DEF Provider!ReadingsKnown
  <1>3. ASSUME NEW r \in Requests, NEW p \in Provider!PlantIds, Provider!DeleteStart(r, p)
        PROVE  Provider!ReadingsKnown'
    <2>1. /\ at'[r] = "removing" /\ plant'[r] = p /\ \A q \in Requests \ {r} : Stays(q)
      BY <1>0, <1>3, Entered DEF Provider!DeleteStart, Provider!States
    <2>2. /\ UNCHANGED <<plants, account, overlap>> /\ p \in Provider!Existing
          /\ \A x \in Provider!PlantIds : live'[x] \in {live[x], NoAccount}
      BY <1>0, <1>3 DEF Provider!DeleteStart, Provider!ForgetLive, Provider!db, Provider!TypeOK
    <2>3. \A q \in Requests : at[q] = "removing" => plant[q] \in Provider!Existing
      BY <1>0 DEF Provider!ReadingsKnown
    <2> QED BY <2>1, <2>2, <2>3, CalmKeepsReadings DEF Stays, Reconnects
  <1>4. ASSUME NEW r \in Requests, NEW p \in Provider!PlantIds, Provider!NowStart(r, p)
        PROVE  Provider!ReadingsKnown'
    <2>0. p \in 0 .. MaxPlants /\ account[p] \in Accounts \cup {NoAccount}
      BY <1>0 DEF Provider!TypeOK
    <2>1. /\ at[r] = "idle" /\ p \in Provider!Existing /\ UNCHANGED <<plants, account, live>>
          /\ overlap'[p] = (overlap[p] \/ Provider!Reconnecting(p))
          /\ \A x \in Provider!PlantIds \ {p} : overlap'[x] = overlap[x]
      BY <1>0, <1>4 DEF Provider!NowStart, Provider!db, Provider!TypeOK
    <2>2. /\ at'[r] = "asking" /\ plant'[r] = p /\ login'[r] = account[p] /\ entry'[r] = live[p]
          /\ \A q \in Requests \ {r} : Stays(q)
      BY <1>0, <1>4, <2>0, Entered DEF Provider!NowStart, Provider!States
    <2>3. \A x : x # p => Provider!Asking(x)' = Provider!Asking(x)
      BY <2>1, <2>2 DEF Provider!Asking, Stays
    <2>4. \A x : Provider!Reconnecting(x)' = Provider!Reconnecting(x)
      BY <2>1, <2>2 DEF Provider!Reconnecting, Stays
    <2>5. ASSUME NEW q \in Requests, at'[q] = "asking", Provider!Foreign(q)'
          PROVE  overlap'[plant'[q]]
      <3>1. CASE q = r
        <4>1. account[p] # NoAccount /\ live[p] \notin {NoAccount, account[p]}
          BY <2>1, <2>2, <2>5, <3>1 DEF Provider!Foreign
        <4> QED BY <1>0, <2>1, <2>2, <3>1, <4>1 DEF Provider!ReadingsKnown, Provider!ReadingIsOfAccount
      <3>2. CASE q # r
        <4>1. /\ at[q] = "asking" /\ plant'[q] = plant[q] /\ login'[q] = login[q]
              /\ entry'[q] = entry[q]
          BY <2>2, <2>5, <3>2 DEF Stays
        <4>2. plant[q] \in Provider!PlantIds /\ overlap[plant[q]]
          BY <1>0, <2>1, <2>5, <4>1 DEF Provider!ReadingsKnown, Provider!Foreign
        <4> QED BY <2>1, <4>1, <4>2
      <3> QED BY <3>1, <3>2
    <2>6. ASSUME NEW x \in Provider!PlantIds, Provider!Reconnecting(x)',
                 Provider!Asking(x)' \/ live'[x] # NoAccount
          PROVE  overlap'[x]
      <3>1. CASE x = p
        BY <2>1, <2>4, <2>6, <3>1
      <3>2. CASE x # p
        BY <1>0, <2>1, <2>3, <2>4, <2>6, <3>2 DEF Provider!ReadingsKnown
      <3> QED BY <3>1, <3>2
    <2>7. Provider!ReadingIsOfAccount'
      BY <1>0, <2>1 DEF Provider!ReadingsKnown, Provider!ReadingIsOfAccount
    <2>8. /\ Provider!Existing' = Provider!Existing
          /\ \A q \in Requests : at'[q] \in {"verifying", "saving", "removing", "asking"}
                => plant'[q] \in Provider!Existing
          /\ \A x \in Provider!PlantIds \ Provider!Existing : live'[x] = NoAccount
      BY <1>0, <2>1, <2>2 DEF Provider!ReadingsKnown, Provider!Existing, Stays
    <2> QED BY <2>5, <2>6, <2>7, <2>8 DEF Provider!ReadingsKnown
  <1>5. ASSUME NEW r \in Requests, NEW o \in Orgs, NEW a \in Accounts,
               Provider!ConnectStart(r, o, a) \/ Provider!ConfirmStart(r, o, a)
        PROVE  Provider!ReadingsKnown'
    <2>1. at'[r] \in {"connecting", "confirming"} /\ \A q \in Requests \ {r} : Stays(q)
      BY <1>0, <1>5, Entered DEF Provider!ConnectStart, Provider!ConfirmStart, Provider!States
    <2>2. UNCHANGED <<plants, account, live, overlap>>
      BY <1>5 DEF Provider!ConnectStart, Provider!ConfirmStart, Provider!db
    <2>3. \A q \in Requests : at[q] = "removing" => plant[q] \in Provider!Existing
      BY <1>0 DEF Provider!ReadingsKnown
    <2> QED BY <2>1, <2>2, <2>3, CalmKeepsReadings DEF Stays, Reconnects
  <1>6. ASSUME NEW r \in Requests, Provider!PutLookup(r) \/ Provider!Create(r)
        PROVE  Provider!ReadingsKnown'
    <2>1. /\ \/ at[r] = "verifying" /\ at'[r] = "saving" /\ plant'[r] = plant[r]
             \/ at'[r] = "creating"
          /\ \A q \in Requests \ {r} : Stays(q)
      BY <1>0, <1>6, Went DEF Provider!PutLookup, Provider!Create, Provider!States
    <2>2. UNCHANGED <<plants, account, live, overlap>>
      BY <1>6 DEF Provider!PutLookup, Provider!Create, Provider!db
    <2>3. \A q \in Requests : at[q] = "removing" => plant[q] \in Provider!Existing
      BY <1>0 DEF Provider!ReadingsKnown
    <2> QED BY <2>1, <2>2, <2>3, CalmKeepsReadings DEF Stays, Reconnects
  <1>7. ASSUME NEW r \in Requests, Provider!PutCommit(r) PROVE Provider!ReadingsKnown'
    <2> DEFINE p == plant[r]
    <2>1. /\ at[r] = "saving" /\ p \in Provider!Existing /\ p \in Provider!PlantIds
          /\ UNCHANGED <<plants, live, overlap>>
          /\ \A x \in Provider!PlantIds \ {p} : account'[x] = account[x]
      BY <1>0, <1>7 DEF Provider!PutCommit, Provider!TypeOK, Provider!ReadingsKnown
    <2>2. at'[r] = "idle" /\ \A q \in Requests \ {r} : Stays(q)
      BY <1>0, <1>7, Left DEF Provider!PutCommit
    <2>3. Provider!Reconnecting(p)
      BY <2>1 DEF Provider!Reconnecting
    <2>4. \A x : Provider!Asking(x)' => Provider!Asking(x)
      BY <2>2 DEF Provider!Asking, Stays
    <2>5. \A x : Provider!Reconnecting(x)' => Provider!Reconnecting(x)
      BY <2>2 DEF Provider!Reconnecting, Stays
    <2>6. Provider!Asking(p) \/ live[p] # NoAccount => overlap[p]
      BY <1>0, <2>1, <2>3 DEF Provider!ReadingsKnown
    <2>7. ASSUME NEW q \in Requests, at'[q] = "asking", Provider!Foreign(q)'
          PROVE  overlap'[plant'[q]]
      <3>1. q # r /\ at[q] = "asking" /\ plant'[q] = plant[q] /\ login'[q] = login[q] /\ entry'[q] = entry[q]
        BY <2>2, <2>7 DEF Stays
      <3>2. plant[q] \in Provider!PlantIds
        BY <1>0, <3>1 DEF Provider!ReadingsKnown
      <3>3. CASE plant[q] = p
        BY <2>1, <2>6, <3>1, <3>3 DEF Provider!Asking
      <3>4. CASE plant[q] # p
        BY <1>0, <2>1, <2>7, <3>1, <3>2, <3>4 DEF Provider!ReadingsKnown, Provider!Foreign
      <3> QED BY <3>3, <3>4
    <2>8. \A x \in Provider!PlantIds :
             Provider!Reconnecting(x)' /\ (Provider!Asking(x)' \/ live'[x] # NoAccount) => overlap'[x]
      BY <1>0, <2>1, <2>4, <2>5 DEF Provider!ReadingsKnown
    <2>9. Provider!ReadingIsOfAccount'
      BY <1>0, <2>1, <2>6 DEF Provider!ReadingsKnown, Provider!ReadingIsOfAccount
    <2>10. /\ Provider!Existing' = Provider!Existing
           /\ \A q \in Requests : at'[q] \in {"verifying", "saving", "removing", "asking"}
                 => plant'[q] \in Provider!Existing
           /\ \A x \in Provider!PlantIds \ Provider!Existing : live'[x] = NoAccount
      BY <1>0, <2>1, <2>2 DEF Provider!ReadingsKnown, Provider!Existing, Stays
    <2> QED BY <2>7, <2>8, <2>9, <2>10 DEF Provider!ReadingsKnown
  <1>8. ASSUME NEW r \in Requests, Provider!CreateCommit(r) PROVE Provider!ReadingsKnown'
    <2> DEFINE p == Len(plants) + 1
    <2>1. /\ p \in Provider!PlantIds /\ p \notin Provider!Existing
          /\ UNCHANGED <<live, overlap>>
          /\ \A x \in Provider!PlantIds \ {p} : account'[x] = account[x]
          /\ \A x \in Provider!Existing : x \in Provider!Existing'
      BY <1>0, <1>8 DEF Provider!CreateCommit, Provider!TypeOK, Provider!Existing, ProviderInv,
                        Provider!FirstPlants
    <2>2. at'[r] = "idle" /\ \A q \in Requests \ {r} : Stays(q)
      BY <1>0, <1>8, Left DEF Provider!CreateCommit
    <2>3. live[p] = NoAccount
      BY <1>0, <2>1 DEF Provider!ReadingsKnown
    <2> HIDE DEF p
    <2>4. \A x : Provider!Asking(x)' => Provider!Asking(x)
      BY <2>2 DEF Provider!Asking, Stays
    <2>5. \A x : Provider!Reconnecting(x)' => Provider!Reconnecting(x)
      BY <2>2 DEF Provider!Reconnecting, Stays
    <2>6. ASSUME NEW q \in Requests, at'[q] = "asking", Provider!Foreign(q)'
          PROVE  overlap'[plant'[q]]
      <3>1. q # r /\ at[q] = "asking" /\ plant'[q] = plant[q] /\ login'[q] = login[q] /\ entry'[q] = entry[q]
        BY <2>2, <2>6 DEF Stays
      <3>2. plant[q] \in Provider!PlantIds /\ plant[q] # p
        BY <1>0, <2>1, <3>1 DEF Provider!ReadingsKnown
      <3> QED BY <1>0, <2>1, <2>6, <3>1, <3>2 DEF Provider!ReadingsKnown, Provider!Foreign
    <2>7. \A x \in Provider!PlantIds :
             Provider!Reconnecting(x)' /\ (Provider!Asking(x)' \/ live'[x] # NoAccount) => overlap'[x]
      BY <1>0, <2>1, <2>4, <2>5 DEF Provider!ReadingsKnown
    <2>8. Provider!ReadingIsOfAccount'
      BY <1>0, <2>1, <2>3 DEF Provider!ReadingsKnown, Provider!ReadingIsOfAccount
    <2>9. /\ \A q \in Requests : at'[q] \in {"verifying", "saving", "removing", "asking"}
                => plant'[q] \in Provider!Existing'
          /\ \A x \in Provider!PlantIds \ Provider!Existing' : live'[x] = NoAccount
      BY <1>0, <2>1, <2>2 DEF Provider!ReadingsKnown, Stays
    <2>10. Provider!PlantIds' = Provider!PlantIds
      BY DEF Provider!PlantIds
    <2> QED BY <2>6, <2>7, <2>8, <2>9, <2>10 DEF Provider!ReadingsKnown
  <1>9. ASSUME NEW r \in Requests, Provider!DeleteCommit(r) PROVE Provider!ReadingsKnown'
    <2>1. \A x \in Provider!PlantIds : account'[x] \in {account[x], NoAccount}
      BY <1>0, <1>9 DEF Provider!DeleteCommit, Provider!TypeOK
    <2> QED BY <1>1, <1>9, <2>1 DEF Provider!DeleteCommit
  <1>10. ASSUME NEW r \in Requests, Provider!NowStore(r) \/ Provider!NowFailed(r)
         PROVE  Provider!ReadingsKnown'
    <2> DEFINE p == plant[r]
    <2>1. /\ at[r] = "asking" /\ p \in Provider!Existing /\ p \in Provider!PlantIds
          /\ UNCHANGED <<plants, account, overlap>> /\ live'[p] \in {login[r], entry[r]}
          /\ \A x \in Provider!PlantIds \ {p} : live'[x] = live[x]
      BY <1>0, <1>10 DEF Provider!NowStore, Provider!NowFailed, Provider!TypeOK, Provider!ReadingsKnown, Provider!db
    <2>2. at'[r] = "idle" /\ \A q \in Requests \ {r} : Stays(q)
      BY <1>0, <1>10, Left DEF Provider!NowStore, Provider!NowFailed
    <2>3. Provider!Asking(p)
      BY <2>1 DEF Provider!Asking
    <2>4. \A x : Provider!Asking(x)' => Provider!Asking(x)
      BY <2>2 DEF Provider!Asking, Stays
    <2>5. \A x : Provider!Reconnecting(x)' => Provider!Reconnecting(x)
      BY <2>2 DEF Provider!Reconnecting, Stays
    <2>6. account[p] # NoAccount /\ live'[p] \notin {NoAccount, account[p]} => overlap[p]
      BY <1>0, <2>1 DEF Provider!ReadingsKnown, Provider!Foreign
    <2> HIDE DEF p
    <2>7. \A q \in Requests :
             at'[q] = "asking" /\ Provider!Foreign(q)' => overlap'[plant'[q]]
      BY <1>0, <2>1, <2>2 DEF Provider!ReadingsKnown, Provider!Foreign, Stays
    <2>8. \A x \in Provider!PlantIds :
             Provider!Reconnecting(x)' /\ (Provider!Asking(x)' \/ live'[x] # NoAccount) => overlap'[x]
      BY <1>0, <2>1, <2>3, <2>4, <2>5 DEF Provider!ReadingsKnown
    <2>9. Provider!ReadingIsOfAccount'
      BY <1>0, <2>1, <2>6 DEF Provider!ReadingsKnown, Provider!ReadingIsOfAccount
    <2>10. /\ Provider!Existing' = Provider!Existing
           /\ \A q \in Requests : at'[q] \in {"verifying", "saving", "removing", "asking"}
                 => plant'[q] \in Provider!Existing
           /\ \A x \in Provider!PlantIds \ Provider!Existing : live'[x] = NoAccount
      BY <1>0, <2>1, <2>2 DEF Provider!ReadingsKnown, Provider!Existing, Stays
    <2> QED BY <2>7, <2>8, <2>9, <2>10 DEF Provider!ReadingsKnown
  <1>11. ASSUME \/ Provider!AddKey \/ Provider!RotateAll
                \/ \E p \in Provider!PlantIds : Provider!LiveForgotten(p)
         PROVE  Provider!ReadingsKnown'
    <2>1. /\ UNCHANGED <<plants, account, overlap, at, plant, login, entry>>
          /\ \A x \in Provider!PlantIds : live'[x] \in {live[x], NoAccount}
      BY <1>0, <1>11 DEF Provider!AddKey, Provider!RotateAll, Provider!LiveForgotten,
                         Provider!ForgetLive, Provider!TypeOK, Provider!db, Provider!request
    <2>2. \A q \in Requests : at[q] = "removing" => plant[q] \in Provider!Existing
      BY <1>0 DEF Provider!ReadingsKnown
    <2> QED BY <2>1, <2>2, CalmKeepsReadings DEF Reconnects
  <1>12. ASSUME NEW r \in Requests,
                \/ Provider!PutRefused(r) \/ Provider!PutConflict(r) \/ Provider!DeleteRefused(r)
                \/ Provider!CreateRefused(r) \/ Provider!CreateConflict(r) \/ Provider!NowUnavailable(r)
         PROVE  Provider!ReadingsKnown'
    BY <1>1, <1>12 DEF Provider!PutRefused, Provider!PutConflict, Provider!DeleteRefused,
                       Provider!CreateRefused, Provider!CreateConflict, Provider!NowUnavailable,
                       Provider!Refuse, Provider!db
  <1> QED BY <1>2, <1>3, <1>4, <1>5, <1>6, <1>7, <1>8, <1>9, <1>10, <1>11, <1>12, ProviderSteps

\* What every behaviour keeps of the accounts.
LEMMA ProviderInvHolds == MCSpec => [](InProvider => ProviderInv)
  <1> DEFINE Inv == InProvider => ProviderInv
  <1>1. MCInit => Inv
    <2> SUFFICES ASSUME MCInit, InProvider PROVE ProviderInv
      OBVIOUS
    <2>1. Provider!Init
      BY DEF MCInit, InProvider
    <2>2. Provider!TypeOK
      <3>1. plants \in Seq(Orgs) /\ Len(plants) <= MaxPlants
        BY <2>1, ProviderConstants DEF Provider!Init
      <3>2. /\ account \in [Provider!PlantIds -> Accounts \cup {NoAccount}]
            /\ sealed \in [Provider!PlantIds -> 0 .. 2] /\ keys \in 1 .. 2
            /\ live \in [Provider!PlantIds -> Accounts \cup {NoAccount}]
            /\ mixed \in BOOLEAN /\ overlap \in [Provider!PlantIds -> BOOLEAN]
        <4>1. sealed \in [Provider!PlantIds -> 0 .. 2] /\ keys \in 1 .. 2
          BY <2>1, SMT DEF Provider!Init
        <4>2. /\ account \in [Provider!PlantIds -> Accounts \cup {NoAccount}]
              /\ live \in [Provider!PlantIds -> Accounts \cup {NoAccount}]
          BY <2>1, SMT DEF Provider!Init
        <4>3. mixed = FALSE /\ overlap = [p \in Provider!PlantIds |-> FALSE]
          BY <2>1 DEF Provider!Init
        <4> QED BY <4>1, <4>2, <4>3
      <3>3. /\ at \in [Requests -> Provider!States] /\ plant \in [Requests -> 0 .. MaxPlants]
            /\ login \in [Requests -> Accounts \cup {NoAccount}] /\ ring \in [Requests -> 0 .. 2]
            /\ owner \in [Requests -> Orgs \cup {NoAccount}]
            /\ entry \in [Requests -> Accounts \cup {NoAccount}]
        BY <2>1, ProviderConstants DEF Provider!Init, Provider!States
      <3> QED BY <3>1, <3>2, <3>3 DEF Provider!TypeOK
    <2>3. Provider!FirstPlants
      BY <2>1 DEF Provider!Init, Provider!FirstPlants, Provider!Existing
    <2>4. Provider!RingsAgree
      BY <2>1 DEF Provider!Init, Provider!RingsAgree, Provider!Saving
    <2>5. Provider!ReadingsKnown
      BY <2>1 DEF Provider!Init, Provider!ReadingsKnown, Provider!Reconnecting,
                  Provider!ReadingIsOfAccount
    <2> QED BY <2>2, <2>3, <2>4, <2>5 DEF ProviderInv
  <1>2. Inv /\ [MCNext]_vars => Inv'
    <2> SUFFICES ASSUME Inv, [MCNext]_vars, InProvider' PROVE ProviderInv'
      OBVIOUS
    <2>1. InProvider /\ ProviderInv
      BY PartKept DEF InProvider
    <2>2. CASE MCNext
      BY <2>1, <2>2, ProviderTyped, StepFirstPlants, StepRingsAgree, StepReadings DEF ProviderInv
    <2>3. CASE UNCHANGED vars
      <3>1. UNCHANGED <<s1, s2, s3, s4, s5, s6, s7, s8, s9, s10, s11, s12, s13>>
        BY <2>3 DEF vars
      <3>2. Provider!TypeOK'
        BY <2>1, <3>1 DEF ProviderInv, Provider!TypeOK
      <3>3. Provider!FirstPlants'
        BY <2>1, <3>1 DEF ProviderInv, Provider!FirstPlants, Provider!Existing, Provider!PlantsOf
      <3>4. Provider!RingsAgree'
        BY <2>1, <3>1 DEF ProviderInv, Provider!RingsAgree
      <3>5. Provider!ReadingsKnown'
        BY <2>1, <3>1 DEF ProviderInv, Provider!ReadingsKnown, Provider!Existing,
               Provider!Reconnecting, Provider!Asking, Provider!ReadingIsOfAccount, Provider!Foreign
      <3> QED BY <3>2, <3>3, <3>4, <3>5 DEF ProviderInv
    <2> QED BY <2>2, <2>3
  <1> HIDE DEF Inv
  <1>3. MCSpec => []Inv
    BY <1>1, <1>2, PTL DEF MCSpec
  <1> QED BY <1>3 DEF Inv

\* An account feeds one plant, whatever key its connection was fingerprinted with, an
\* organization gets one first plant, and a reading kept is of the plant's account,
\* unless keyrings mixed or reading and reconnecting overlapped; for any accounts,
\* organizations, requests and number of plants (providers/accounts.py, save, rotate_all;
\* providers/router.py, connect_first_plant, confirm_first_plant, plant_now).
THEOREM AccountsStaySingle == MCSpec => []AccountsAreSingle
  <1> DEFINE Inv == InProvider => ProviderInv
  <1>1. Inv => AccountsAreSingle
    <2> SUFFICES ASSUME ProviderInv PROVE Provider!OneFirstPlant
      BY DEF AccountsAreSingle, ProviderInv, Provider!RingsAgree, Provider!OneAccountOnePlant,
             Provider!ReadingsKnown
    <2> SUFFICES ASSUME NEW o \in Orgs PROVE Cardinality(Provider!PlantsOf(o)) <= 1
      BY SameCountOfPlants DEF Provider!OneFirstPlant
    <2> DEFINE S == Provider!PlantsOf(o)
    <2>1. \A p, q \in S : p = q
      BY DEF ProviderInv, Provider!FirstPlants, Provider!PlantsOf
    <2>2. S = {} \/ \E p : S = {p}
      BY <2>1
    <2> HIDE DEF S
    <2>3. CASE S = {}
      BY <2>3, FS_EmptySet DEF S
    <2>4. CASE \E p : S = {p}
      BY <2>4, FS_Singleton DEF S
    <2> QED BY <2>2, <2>3, <2>4
  <1>2. MCSpec => []Inv
    BY ProviderInvHolds
  <1> HIDE DEF Inv
  <1> QED BY <1>1, <1>2, PTL

-----------------------------------------------------------------------------
(* The daily collection: cloud_jobs.py, collection/job.py, providers/.        *)

accounts == s1
outcome == s2
queue == s3
stored == s4
run == s5
told == s6
USE DEF accounts, outcome, queue, stored, run, told

SolarInv ==
    /\ Solar!TypeOK /\ Solar!DaysFollowed /\ Solar!RefusalsKnown /\ Solar!SwapsKnown
    /\ Solar!FailureIsOwn /\ Solar!RefusedWaitsLong

LEMMA SolarConstants == MaxTries \in Nat \ {0} /\ MaxConnections \in Nat /\ MaxAgain \in Nat
  BY ConstantsOfParts DEF Solar!ConstantsOK

LEMMA OnePlantAtMost ==
    ASSUME NEW S
    PROVE  (S = {} \/ \E p : S = {p}) => Solar!Cardinality(S) <= 1
  <1>1. Solar!Cardinality(S) = Cardinality(S)
    BY DEF Solar!Cardinality, Cardinality
  <1>2. CASE S = {}
    BY <1>1, <1>2, FS_EmptySet
  <1>3. CASE \E p : S = {p}
    BY <1>1, <1>3, FS_Singleton
  <1> QED BY <1>2, <1>3

LEMMA SolarSteps ==
    ASSUME InSolar, MCNext
    PROVE  \/ \E p \in Sites, b \in Solar!Brands : Solar!Connect(p, b)
           \/ \E p \in Sites :
                 \/ Solar!Disconnect(p) \/ Solar!SkipPlant(p) \/ Solar!TakePlant(p)
                 \/ Solar!SignIn(p) \/ Solar!Listed(p) \/ Solar!SessionRefused(p)
                 \/ Solar!StoreDay(p) \/ Solar!StoreFails(p) \/ Solar!Defer(p)
                 \/ Solar!GiveUp(p) \/ Solar!Daylight(p) \/ Solar!MeterFails(p)
                 \/ Solar!RecordOutcome(p) \/ Solar!OutcomeLost(p)
           \/ \E p \in Sites, e \in Solar!Errors : Solar!SignInFails(p, e) \/ Solar!CallFails(p, e)
           \/ \E p \in Sites, b \in BOOLEAN : Solar!GotDay(p, b) \/ Solar!MeterRead(p, b)
           \/ Solar!StartRun \/ Solar!FinishRun \/ Solar!Killed
  <1>1. ~InSessions /\ ~InScopes /\ ~InProvider /\ ~InLimiter /\ ~InSettings
    BY DEF InLimiter, InSessions, InProvider, InSolar, InSettings, InScopes
  <1> QED BY <1>1, ZenonT(60) DEF MCNext

\* The record of the job, and what is told of a plant.
RunRecord ==
    [at : Solar!Steps, todo : SUBSET Sites, brand : [Sites -> Solar!Brands],
     plant : SUBSET Sites, conn : Solar!AccountRow, signed : BOOLEAN, listed : BOOLEAN,
     op : {"list", "energy"}, tries : 0 .. MaxTries, again : 0 .. MaxAgain,
     error : Solar!Errors, problems : SUBSET Sites]
Telling == [nothing : BOOLEAN, refused : BOOLEAN, queued : BOOLEAN, swapped : BOOLEAN, taken : BOOLEAN]

LEMMA RestIsRun == Solar!Rest \in RunRecord /\ Solar!None \in Solar!AccountRow
  <1>1. Solar!None \in Solar!AccountRow
    BY SolarConstants DEF Solar!None, Solar!AccountRow, Solar!Brands
  <1>2. "idle" \in Solar!Steps /\ "none" \in Solar!Errors /\ "nep" \in Solar!Brands
    BY DEF Solar!Steps, Solar!Errors, Solar!Brands
  <1>3. [p \in Sites |-> "nep"] \in [Sites -> Solar!Brands]
    BY <1>2
  <1>4. 0 \in 0 .. MaxTries /\ 0 \in 0 .. MaxAgain
    BY SolarConstants
  <1> QED BY <1>1, <1>2, <1>3, <1>4 DEF Solar!Rest, RunRecord

LEMMA SilentIsTelling == Solar!Silent \in Telling
  BY DEF Solar!Silent, Telling

\* What is said of a plant is said of no other.
LEMMA TellingKept ==
    ASSUME told \in [Sites -> Telling], NEW p \in Sites, NEW t \in Telling,
           told' = [told EXCEPT ![p] = t]
    PROVE  told' \in [Sites -> Telling] /\ told'[p] = t /\ \A q \in Sites \ {p} : told'[q] = told[q]
  OBVIOUS

LEMMA SaysNothing ==
    ASSUME told \in [Sites -> Telling], NEW p \in Sites, Solar!Says(p, "nothing")
    PROVE  /\ told' \in [Sites -> Telling] /\ told'[p] = [told[p] EXCEPT !.nothing = TRUE]
           /\ \A q \in Sites \ {p} : told'[q] = told[q]
  <1>1. [told[p] EXCEPT !["nothing"] = TRUE] \in Telling
    BY DEF Telling
  <1>2. told' = [told EXCEPT ![p] = [told[p] EXCEPT !["nothing"] = TRUE]]
    BY DEF Solar!Says
  <1> QED BY <1>1, <1>2, TellingKept

LEMMA SaysSwapped ==
    ASSUME told \in [Sites -> Telling], NEW p \in Sites, Solar!Says(p, "swapped")
    PROVE  /\ told' \in [Sites -> Telling] /\ told'[p] = [told[p] EXCEPT !.swapped = TRUE]
           /\ \A q \in Sites \ {p} : told'[q] = told[q]
  <1>1. [told[p] EXCEPT !["swapped"] = TRUE] \in Telling
    BY DEF Telling
  <1>2. told' = [told EXCEPT ![p] = [told[p] EXCEPT !["swapped"] = TRUE]]
    BY DEF Solar!Says
  <1> QED BY <1>1, <1>2, TellingKept

LEMMA SaysRefused ==
    ASSUME told \in [Sites -> Telling], NEW p \in Sites, told' = [told EXCEPT ![p].refused = TRUE]
    PROVE  /\ told' \in [Sites -> Telling] /\ told'[p] = [told[p] EXCEPT !.refused = TRUE]
           /\ \A q \in Sites \ {p} : told'[q] = told[q]
  <1>1. [told[p] EXCEPT !.refused = TRUE] \in Telling
    BY DEF Telling
  <1>2. told' = [told EXCEPT ![p] = [told[p] EXCEPT !.refused = TRUE]]
    OBVIOUS
  <1> QED BY <1>1, <1>2, TellingKept

LEMMA SaysTaken ==
    ASSUME told \in [Sites -> Telling], NEW p \in Sites,
           told' = [told EXCEPT ![p].taken = TRUE, ![p].swapped = FALSE]
    PROVE  /\ told' \in [Sites -> Telling]
           /\ told'[p] = [told[p] EXCEPT !.taken = TRUE, !.swapped = FALSE]
           /\ \A q \in Sites \ {p} : told'[q] = told[q]
  <1>1. [told[p] EXCEPT !.taken = TRUE, !.swapped = FALSE] \in Telling
    BY DEF Telling
  <1>2. told' = [told EXCEPT ![p] = [told[p] EXCEPT !.taken = TRUE, !.swapped = FALSE]]
    BY DEF Telling
  <1> QED BY <1>1, <1>2, TellingKept

\* The outcome of a plant is written on its row alone.
LEMMA OutcomeWritten ==
    ASSUME outcome \in [Sites -> Solar!Outcomes], NEW p \in Sites,
           NEW n \in 0 .. MaxConnections, NEW b \in BOOLEAN,
           outcome' = [outcome EXCEPT ![p].failed = n, ![p].late = b]
    PROVE  /\ outcome' \in [Sites -> Solar!Outcomes]
           /\ outcome'[p] = [outcome[p] EXCEPT !.failed = n, !.late = b]
           /\ \A q \in Sites \ {p} : outcome'[q] = outcome[q]
  <1>1. [outcome[p] EXCEPT !.failed = n, !.late = b] \in Solar!Outcomes
    BY DEF Solar!Outcomes
  <1>2. outcome' = [outcome EXCEPT ![p] = [outcome[p] EXCEPT !.failed = n, !.late = b]]
    BY DEF Solar!Outcomes
  <1> QED BY <1>1, <1>2

LEMMA SolarTyped == ASSUME SolarInv, InSolar, MCNext PROVE Solar!TypeOK'
  <1> DEFINE Owned == accounts' \in [Sites -> Solar!AccountRow] /\ outcome' \in [Sites -> Solar!Outcomes]
             Queued == queue' \in [Sites -> {"none", "soon", "slow"}] /\ stored' \in [Sites -> BOOLEAN]
             Single == run'.plant = run.plant \/ run'.plant = {} \/ \E p : run'.plant = {p}
             Job == run' \in RunRecord /\ Single
             Tale == told' \in [Sites -> Telling]
             Typed == Owned /\ Queued /\ Job /\ Tale
  <1>0. /\ accounts \in [Sites -> Solar!AccountRow] /\ outcome \in [Sites -> Solar!Outcomes]
        /\ queue \in [Sites -> {"none", "soon", "slow"}] /\ stored \in [Sites -> BOOLEAN]
        /\ run \in RunRecord /\ told \in [Sites -> Telling] /\ Solar!Cardinality(run.plant) <= 1
    BY DEF SolarInv, Solar!TypeOK, RunRecord, Telling
  <1>1. Typed => Solar!TypeOK'
    <2>1. Job => Solar!Cardinality(run'.plant) <= 1
      BY <1>0, OnePlantAtMost
    <2> QED BY <2>1 DEF Solar!TypeOK, RunRecord, Telling
  <1>2. ASSUME NEW p \in Sites, NEW b \in Solar!Brands, Solar!Connect(p, b)
        PROVE  Typed
    <2>1. accounts' \in [Sites -> Solar!AccountRow]
      <3>1. [n |-> accounts[p].n + 1, brand |-> b, active |-> TRUE] \in Solar!AccountRow
        BY <1>0, <1>2, SolarConstants DEF Solar!Connect, Solar!AccountRow
      <3>2. accounts' = [accounts EXCEPT ![p] = [n |-> accounts[p].n + 1, brand |-> b, active |-> TRUE]]
        BY <1>2 DEF Solar!Connect
      <3> QED BY <1>0, <3>1, <3>2
    <2>2. outcome' \in [Sites -> Solar!Outcomes]
      <3>1. 0 \in 0 .. MaxConnections /\ FALSE \in BOOLEAN
        BY SolarConstants
      <3>2. outcome' = [outcome EXCEPT ![p].failed = 0, ![p].late = FALSE]
        BY <1>2 DEF Solar!Connect, Solar!Connected
      <3> QED BY <1>0, <3>1, <3>2, OutcomeWritten
    <2> QED BY <1>0, <1>2, <2>1, <2>2, SaysSwapped DEF Solar!Connect
  <1>3. ASSUME NEW p \in Sites, Solar!Disconnect(p) PROVE Typed
    <2>1. accounts' \in [Sites -> Solar!AccountRow]
      <3>1. [accounts[p] EXCEPT !.active = FALSE] \in Solar!AccountRow
        BY <1>0 DEF Solar!AccountRow
      <3>2. accounts' = [accounts EXCEPT ![p] = [accounts[p] EXCEPT !.active = FALSE]]
        BY <1>3 DEF Solar!Disconnect
      <3> QED BY <1>0, <3>1, <3>2
    <2> QED BY <1>0, <1>3, <2>1, SaysSwapped DEF Solar!Disconnect
  <1>4. ASSUME NEW p \in Sites, Solar!SkipPlant(p) PROVE Typed
    <2>1. run' = [run EXCEPT !.todo = run.todo \ {p}]
      BY <1>4 DEF Solar!SkipPlant
    <2>2. Job
      BY <1>0, <2>1 DEF RunRecord
    <2> QED BY <1>0, <1>4, <2>2 DEF Solar!SkipPlant
  <1>5. ASSUME NEW p \in Sites, Solar!TakePlant(p) PROVE Typed
    <2>1. Job
      <3>1. run' = [Solar!Rest EXCEPT !.at = "calling", !.todo = run.todo \ {p}, !.brand = run.brand,
                           !.plant = {p}, !.conn = accounts[p], !.tries = 1,
                           !.problems = run.problems]
        BY <1>5 DEF Solar!TakePlant
      <3>2. /\ run.todo \ {p} \in SUBSET Sites /\ run.brand \in [Sites -> Solar!Brands]
            /\ {p} \in SUBSET Sites /\ accounts[p] \in Solar!AccountRow /\ 1 \in 0 .. MaxTries
            /\ run.problems \in SUBSET Sites /\ "calling" \in Solar!Steps
        BY <1>0, SolarConstants DEF RunRecord, Solar!Steps
      <3> QED BY <3>1, <3>2, RestIsRun DEF RunRecord
    <2> QED BY <1>0, <1>5, <2>1, SaysTaken DEF Solar!TakePlant
  <1>6. ASSUME NEW p \in Sites, Solar!SignIn(p) \/ Solar!Listed(p) \/ Solar!SessionRefused(p)
        PROVE  Typed
    <2>1. \/ run' = [run EXCEPT !.signed = TRUE]
          \/ run' = [run EXCEPT !.op = "energy", !.tries = 1, !.listed = TRUE]
          \/ run.again < MaxAgain /\ run' = [run EXCEPT !.signed = FALSE, !.again = run.again + 1]
      BY <1>6 DEF Solar!SignIn, Solar!Listed, Solar!SessionRefused
    <2>2. run.again \in Nat /\ 1 \in 0 .. MaxTries /\ (run.again < MaxAgain => run.again + 1 \in 0 .. MaxAgain)
      BY <1>0, SolarConstants DEF RunRecord
    <2>3. Job
      <3>1. CASE run' = [run EXCEPT !.signed = TRUE]
        BY <1>0, <3>1 DEF RunRecord
      <3>2. CASE run' = [run EXCEPT !.op = "energy", !.tries = 1, !.listed = TRUE]
        BY <1>0, <2>2, <3>2 DEF RunRecord
      <3>3. CASE run.again < MaxAgain /\ run' = [run EXCEPT !.signed = FALSE, !.again = run.again + 1]
        <4>1. run.again + 1 \in 0 .. MaxAgain
          BY <2>2, <3>3
        <4> QED BY <1>0, <3>3, <4>1 DEF RunRecord
      <3> QED BY <2>1, <3>1, <3>2, <3>3
    <2> QED BY <1>0, <1>6, <2>3 DEF Solar!SignIn, Solar!Listed, Solar!SessionRefused, Solar!Stay
  <1>7. ASSUME NEW p \in Sites, NEW e \in Solar!Errors, Solar!Answered(p, e), Solar!Stay
        PROVE  Typed
    <2>1. \/ run.tries < MaxTries /\ run' = [run EXCEPT !.tries = run.tries + 1]
          \/ run' = [run EXCEPT !.at = "raised", !.error = e]
      BY <1>7 DEF Solar!Answered
    <2>2. Job
      <3>1. run.tries < MaxTries => run.tries + 1 \in 0 .. MaxTries
        BY <1>0, SolarConstants DEF RunRecord
      <3>2. "raised" \in Solar!Steps
        BY DEF Solar!Steps
      <3>3. CASE run.tries < MaxTries /\ run' = [run EXCEPT !.tries = run.tries + 1]
        <4>1. run.tries + 1 \in 0 .. MaxTries
          BY <3>1, <3>3
        <4> QED BY <1>0, <3>3, <4>1 DEF RunRecord
      <3>4. CASE run' = [run EXCEPT !.at = "raised", !.error = e]
        BY <1>0, <3>2, <3>4 DEF RunRecord
      <3> QED BY <2>1, <3>3, <3>4
    <2>3. Tale
      BY <1>0, <1>7, SaysRefused DEF Solar!Answered
    <2> QED BY <1>0, <1>7, <2>2, <2>3 DEF Solar!Stay
  <1>8. ASSUME NEW p \in Sites, NEW e \in Solar!Errors, Solar!SignInFails(p, e) \/ Solar!CallFails(p, e)
        PROVE  Typed
    BY <1>7, <1>8 DEF Solar!SignInFails, Solar!CallFails
  <1>9. ASSUME NEW p \in Sites, NEW b \in BOOLEAN, Solar!GotDay(p, b) PROVE Typed
    <2>1. run' = [run EXCEPT !.at = "storing"]
      BY <1>9 DEF Solar!GotDay
    <2>2. Job
      BY <1>0, <2>1 DEF RunRecord, Solar!Steps
    <2>3. Tale
      BY <1>0, <1>9, SaysNothing DEF Solar!GotDay
    <2> QED BY <1>0, <1>9, <2>2, <2>3 DEF Solar!GotDay, Solar!Stay
  <1>10. ASSUME NEW p \in Sites, NEW b \in BOOLEAN, Solar!Ends(p, b) PROVE Job
    <2>1. run' = [run EXCEPT !.at = "outcome",
                            !.problems = IF b THEN run.problems \cup {p} ELSE run.problems]
      BY <1>10 DEF Solar!Ends
    <2> QED BY <1>0, <2>1 DEF RunRecord, Solar!Steps
  <1>11. ASSUME NEW p \in Sites, NEW b \in BOOLEAN,
                stored' = [stored EXCEPT ![p] = stored[p] \/ b]
         PROVE  stored' \in [Sites -> BOOLEAN]
    BY <1>0, <1>11
  <1>12. ASSUME NEW p \in Sites, Solar!StoreDay(p) PROVE Typed
    <2>1. (~told[p].nothing) \in BOOLEAN /\ stored' = [stored EXCEPT ![p] = stored[p] \/ ~told[p].nothing]
      BY <1>12 DEF Solar!StoreDay
    <2>2. Job
      BY <1>10, <1>12 DEF Solar!StoreDay
    <2>3. stored' \in [Sites -> BOOLEAN]
      BY <1>11, <2>1
    <2> QED BY <1>0, <1>12, <2>2, <2>3 DEF Solar!StoreDay
  <1>13. ASSUME NEW p \in Sites, Solar!StoreFails(p) PROVE Typed
    <2>1. run' = [run EXCEPT !.at = "raised", !.error = "other"]
      BY <1>13 DEF Solar!StoreFails
    <2>2. Job
      BY <1>0, <2>1 DEF RunRecord, Solar!Steps, Solar!Errors
    <2> QED BY <1>0, <1>13, <2>2 DEF Solar!StoreFails, Solar!Stay
  <1>14. ASSUME NEW p \in Sites, Solar!Defer(p) PROVE Typed
    <2>1. Job
      BY <1>10, <1>14 DEF Solar!Defer
    <2>2. queue' \in [Sites -> {"none", "soon", "slow"}]
      BY <1>0, <1>14 DEF Solar!Defer, Solar!Enqueue, Solar!Due
    <2> QED BY <1>0, <1>14, <2>1, <2>2 DEF Solar!Defer
  <1>15. ASSUME NEW p \in Sites, Solar!GiveUp(p) \/ Solar!MeterFails(p) PROVE Typed
    <2>1. Job
      <3>1. (run.error \in Solar!Queued \cup {"other"}) \in BOOLEAN /\ TRUE \in BOOLEAN
        OBVIOUS
      <3> QED BY <1>10, <1>15, <3>1 DEF Solar!GiveUp, Solar!MeterFails
    <2> QED BY <1>0, <1>15, <2>1 DEF Solar!GiveUp, Solar!MeterFails, Solar!Stay
  <1>16. ASSUME NEW p \in Sites, Solar!Daylight(p) PROVE Typed
    <2>1. Job
      BY <1>10, <1>16 DEF Solar!Daylight
    <2> QED BY <1>0, <1>16, <2>1, SaysNothing DEF Solar!Daylight, Solar!Stay
  <1>17. ASSUME NEW p \in Sites, NEW b \in BOOLEAN, Solar!MeterRead(p, b) PROVE Typed
    <2>1. Job
      BY <1>10, <1>17 DEF Solar!MeterRead
    <2>2. stored' \in [Sites -> BOOLEAN]
      BY <1>11, <1>17 DEF Solar!MeterRead
    <2>3. Tale
      BY <1>0, <1>17, SaysNothing DEF Solar!MeterRead
    <2> QED BY <1>0, <1>17, <2>1, <2>2, <2>3 DEF Solar!MeterRead
  <1>18. Solar!Continue => Job
    <2>1. Solar!Continue => run' = [run EXCEPT !.at = "next", !.plant = {}]
      BY DEF Solar!Continue
    <2> QED BY <1>0, <2>1 DEF RunRecord, Solar!Steps
  <1>19. ASSUME NEW p \in Sites, Solar!RecordOutcome(p) \/ Solar!OutcomeLost(p) PROVE Typed
    <2>1. outcome' \in [Sites -> Solar!Outcomes]
      <3>1. /\ run.conn.n \in 0 .. MaxConnections /\ told[p].swapped \in BOOLEAN
            /\ 0 \in 0 .. MaxConnections
        BY <1>0, SolarConstants DEF RunRecord, Solar!AccountRow, Telling
      <3>2. CASE outcome' = [outcome EXCEPT ![p].failed = run.conn.n, ![p].late = told[p].swapped]
        BY <1>0, <3>1, <3>2, OutcomeWritten
      <3>3. CASE outcome' = [outcome EXCEPT ![p] = [ok |-> run.conn.n, failed |-> 0, late |-> FALSE]]
        <4>1. [ok |-> run.conn.n, failed |-> 0, late |-> FALSE] \in Solar!Outcomes
          BY <3>1 DEF Solar!Outcomes
        <4> QED BY <1>0, <3>3, <4>1
      <3> QED BY <1>0, <1>19, <3>2, <3>3 DEF Solar!RecordOutcome, Solar!OutcomeLost, Solar!Stay
    <2> QED BY <1>0, <1>18, <1>19, <2>1 DEF Solar!RecordOutcome, Solar!OutcomeLost, Solar!Stay
  <1>20. CASE Solar!StartRun
    <2>1. Job
      <3>1. run' = [Solar!Rest EXCEPT !.at = "next", !.todo = {p \in Sites : accounts[p].active},
                                      !.brand = [p \in Sites |-> accounts[p].brand]]
        BY <1>20 DEF Solar!StartRun
      <3>2. /\ {p \in Sites : accounts[p].active} \in SUBSET Sites /\ "next" \in Solar!Steps
            /\ [p \in Sites |-> accounts[p].brand] \in [Sites -> Solar!Brands]
        BY <1>0 DEF Solar!AccountRow, Solar!Steps
      <3>3. Solar!Rest.plant = {}
        BY DEF Solar!Rest
      <3> QED BY <3>1, <3>2, <3>3, RestIsRun DEF RunRecord
    <2>2. Tale
      <3>1. \A p \in Sites : [Solar!Silent EXCEPT !.queued = queue[p] # "none"] \in Telling
        BY DEF Solar!Silent, Telling
      <3> QED BY <1>20, <3>1 DEF Solar!StartRun
    <2>3. UNCHANGED <<accounts, outcome, queue, stored>>
      BY <1>20 DEF Solar!StartRun
    <2> HIDE DEF Job, Tale
    <2> QED BY <1>0, <1>1, <2>1, <2>2, <2>3
  <1>21. CASE Solar!FinishRun
    <2>1. run' = [Solar!Rest EXCEPT !.at = "finished", !.problems = run.problems] /\ Solar!Rest.plant = {}
      BY <1>21 DEF Solar!FinishRun, Solar!Rest
    <2>2. Job
      BY <1>0, <2>1, RestIsRun DEF RunRecord, Solar!Steps
    <2>3. UNCHANGED <<accounts, outcome, queue, stored, told>>
      BY <1>21 DEF Solar!FinishRun, Solar!Stay
    <2> HIDE DEF Job
    <2> QED BY <1>0, <1>1, <2>2, <2>3
  <1>22. CASE Solar!Killed
    <2>1. run' = Solar!Rest /\ Solar!Rest.plant = {}
      BY <1>22 DEF Solar!Killed, Solar!Rest
    <2>2. UNCHANGED <<accounts, outcome, queue, stored, told>>
      BY <1>22 DEF Solar!Killed, Solar!Stay
    <2>3. Job
      BY <2>1, RestIsRun
    <2> HIDE DEF Job
    <2> QED BY <1>0, <1>1, <2>2, <2>3
  <1> HIDE DEF Typed
  <1> QED BY <1>1, <1>2, <1>3, <1>4, <1>5, <1>6, <1>8, <1>9, <1>12, <1>13, <1>14, <1>15, <1>16,
             <1>17, <1>19, <1>20, <1>21, <1>22, SolarSteps

-----------------------------------------------------------------------------
(* What a step does, as far as the invariants tell steps apart.              *)

Moves(at1, todo1, plant1, error1, conn1) ==
    /\ run'.at = at1 /\ run'.todo = todo1 /\ run'.plant = plant1
    /\ run'.error = error1 /\ run'.conn = conn1
Others(p) == \A q \in Sites \ {p} : told'[q] = told[q]

\* The same is told of the plant, or more of it: that there was nothing.
TellsOn(p) ==
    /\ told'[p].refused = told[p].refused /\ told'[p].queued = told[p].queued
    /\ told'[p].swapped = told[p].swapped /\ told'[p].taken = told[p].taken
    /\ told[p].nothing => told'[p].nothing

OwnerActs(p) ==
    /\ UNCHANGED <<run, queue, stored>> /\ Others(p)
    /\ told'[p] = [told[p] EXCEPT !.swapped = TRUE]
    /\ \A q \in Sites \ {p} : accounts'[q] = accounts[q] /\ outcome'[q] = outcome[q]
    /\ \/ outcome'[p].failed = 0
       \/ accounts'[p].n = accounts[p].n /\ outcome'[p] = outcome[p]
Skips(p) ==
    /\ run.at = "next" /\ run'.problems = run.problems
    /\ Moves("next", run.todo \ {p}, run.plant, run.error, run.conn)
    /\ UNCHANGED <<accounts, outcome, queue, stored, told>>
Takes(p) ==
    /\ run.at = "next" /\ p \in run.todo /\ run'.problems = run.problems
    /\ Moves("calling", run.todo \ {p}, {p}, "none", accounts[p])
    /\ told'[p] = [told[p] EXCEPT !.taken = TRUE, !.swapped = FALSE] /\ Others(p)
    /\ UNCHANGED <<accounts, outcome, queue, stored>>
Works(p) ==
    /\ Solar!Only(p) /\ run.at = "calling" /\ run'.problems = run.problems
    /\ Moves("calling", run.todo, run.plant, run.error, run.conn)
    /\ UNCHANGED <<accounts, outcome, queue, stored, told>>
Raises(p, e) ==
    /\ Solar!Only(p) /\ run.at \in {"calling", "storing"} /\ e # "none"
    /\ run'.problems = run.problems /\ Moves("raised", run.todo, run.plant, e, run.conn)
    /\ \/ told'[p] = [told[p] EXCEPT !.refused = TRUE] /\ e \in {"auth", "blocked", "limited"}
       \/ told'[p] = told[p]
    /\ Others(p) /\ UNCHANGED <<accounts, outcome, queue, stored>>
Gets(p) ==
    /\ Solar!Only(p) /\ run.at = "calling" /\ run'.problems = run.problems
    /\ Moves("storing", run.todo, run.plant, run.error, run.conn)
    /\ TellsOn(p) /\ Others(p) /\ UNCHANGED <<accounts, outcome, queue, stored>>
Settles(p) ==
    /\ Solar!Only(p) /\ run.at \in {"storing", "raised"} /\ run.problems \subseteq run'.problems
    /\ Moves("outcome", run.todo, run.plant, run.error, run.conn)
    /\ TellsOn(p) /\ Others(p) /\ UNCHANGED <<accounts, outcome>>
    /\ \A q \in Sites : stored[q] => stored'[q]
    /\ \A q \in Sites \ {p} : queue'[q] = queue[q]
    /\ \/ queue'[p] = queue[p]
       \/ queue[p] = "none" /\ run.at = "raised" /\ queue'[p] = Solar!Due(run.error)
    /\ stored'[p] \/ queue'[p] # "none" \/ p \in run'.problems \/ told'[p].nothing
Continues(p) ==
    /\ Solar!Only(p) /\ run.at = "outcome" /\ run'.problems = run.problems
    /\ Moves("next", run.todo, {}, run.error, run.conn)
    /\ \A q \in Sites \ {p} : outcome'[q] = outcome[q]
    /\ \/ outcome'[p] = outcome[p] \/ outcome'[p].failed = 0
       \/ outcome'[p].failed = run.conn.n /\ outcome'[p].late = told[p].swapped
    /\ UNCHANGED <<accounts, queue, stored, told>>
Starts ==
    /\ run.at \in {"idle", "finished"} /\ run'.at = "next" /\ run'.plant = {}
    /\ \A q \in Sites : told'[q] = [Solar!Silent EXCEPT !.queued = queue[q] # "none"]
    /\ UNCHANGED <<accounts, outcome, queue, stored>>
Stops ==
    /\ \/ run'.at = "idle"
       \/ run.at = "next" /\ run'.at = "finished" /\ run'.problems = run.problems
    /\ run'.todo = {} /\ run'.plant = {}
    /\ UNCHANGED <<accounts, outcome, queue, stored, told>>

\* Of a plant's day there is nothing: no more is said.
LEMMA NothingMore ==
    ASSUME NEW t \in Telling, NEW u, u = [t EXCEPT !.nothing = TRUE]
    PROVE  /\ u.refused = t.refused /\ u.queued = t.queued /\ u.swapped = t.swapped
           /\ u.taken = t.taken /\ u.nothing
  BY DEF Telling

LEMMA Effects ==
    ASSUME SolarInv, InSolar, MCNext
    PROVE  \/ \E p \in Sites :
                 \/ OwnerActs(p) \/ Skips(p) \/ Takes(p) \/ Works(p) \/ Gets(p) \/ Settles(p)
                 \/ Continues(p) \/ \E e \in Solar!Errors : Raises(p, e)
           \/ Starts \/ Stops
  <1> DEFINE Goal == \/ \E p \in Sites :
                           \/ OwnerActs(p) \/ Skips(p) \/ Takes(p) \/ Works(p) \/ Gets(p) \/ Settles(p)
                           \/ Continues(p) \/ \E e \in Solar!Errors : Raises(p, e)
                     \/ Starts \/ Stops
  <1>0. /\ accounts \in [Sites -> Solar!AccountRow] /\ outcome \in [Sites -> Solar!Outcomes]
        /\ queue \in [Sites -> {"none", "soon", "slow"}] /\ stored \in [Sites -> BOOLEAN]
        /\ run \in RunRecord /\ told \in [Sites -> Telling]
        /\ run.at = "raised" => run.error # "none"
    BY DEF SolarInv, Solar!TypeOK, RunRecord, Telling, Solar!DaysFollowed
  <1>1. Solar!Rest.plant = {} /\ Solar!Rest.todo = {} /\ Solar!Rest.error = "none" /\ Solar!Rest.at = "idle"
    BY DEF Solar!Rest
  <1>2. ASSUME NEW p \in Sites, NEW b \in Solar!Brands, Solar!Connect(p, b)
        PROVE  OwnerActs(p)
    <2>1. outcome'[p].failed = 0 /\ \A q \in Sites \ {p} : outcome'[q] = outcome[q]
      <3>1. 0 \in 0 .. MaxConnections /\ FALSE \in BOOLEAN
        BY SolarConstants
      <3>2. outcome' = [outcome EXCEPT ![p].failed = 0, ![p].late = FALSE]
        BY <1>2 DEF Solar!Connect, Solar!Connected
      <3>3. outcome'[p] = [outcome[p] EXCEPT !.failed = 0, !.late = FALSE]
            /\ \A q \in Sites \ {p} : outcome'[q] = outcome[q]
        BY <1>0, <3>1, <3>2, OutcomeWritten
      <3> QED BY <1>0, <3>3 DEF Solar!Outcomes
    <2>2. \A q \in Sites \ {p} : accounts'[q] = accounts[q]
      BY <1>0, <1>2 DEF Solar!Connect
    <2> QED BY <1>0, <1>2, <2>1, <2>2, SaysSwapped DEF Solar!Connect, OwnerActs, Others
  <1>3. ASSUME NEW p \in Sites, Solar!Disconnect(p) PROVE OwnerActs(p)
    <2>1. accounts' = [accounts EXCEPT ![p] = [accounts[p] EXCEPT !.active = FALSE]]
      BY <1>3 DEF Solar!Disconnect
    <2>2. accounts'[p].n = accounts[p].n /\ \A q \in Sites \ {p} : accounts'[q] = accounts[q]
      BY <1>0, <2>1 DEF Solar!AccountRow
    <2> QED BY <1>0, <1>3, <2>2, SaysSwapped DEF Solar!Disconnect, OwnerActs, Others
  <1>4. ASSUME NEW p \in Sites, Solar!SkipPlant(p) PROVE Skips(p)
    BY <1>0, <1>4 DEF Solar!SkipPlant, Skips, Moves, RunRecord
  <1>5. ASSUME NEW p \in Sites, Solar!TakePlant(p) PROVE Takes(p)
    <2>1. /\ run' = [Solar!Rest EXCEPT !.at = "calling", !.todo = run.todo \ {p}, !.brand = run.brand,
                           !.plant = {p}, !.conn = accounts[p], !.tries = 1,
                           !.problems = run.problems]
          /\ run.at = "next" /\ p \in run.todo /\ UNCHANGED <<accounts, outcome, queue, stored>>
      BY <1>5 DEF Solar!TakePlant
    <2>2. run'.problems = run.problems /\ Moves("calling", run.todo \ {p}, {p}, "none", accounts[p])
      BY <1>1, <2>1, RestIsRun DEF Moves, RunRecord
    <2> QED BY <1>0, <1>5, <2>1, <2>2, SaysTaken DEF Solar!TakePlant, Takes, Others
  <1>6. ASSUME NEW p \in Sites, Solar!SignIn(p) \/ Solar!Listed(p) \/ Solar!SessionRefused(p)
        PROVE  Works(p)
    <2>1. \/ run' = [run EXCEPT !.signed = TRUE]
          \/ run' = [run EXCEPT !.op = "energy", !.tries = 1, !.listed = TRUE]
          \/ run' = [run EXCEPT !.signed = FALSE, !.again = run.again + 1]
      BY <1>6 DEF Solar!SignIn, Solar!Listed, Solar!SessionRefused
    <2>2. run.at = "calling" => run'.problems = run.problems /\ Moves("calling", run.todo, run.plant, run.error, run.conn)
      BY <1>0, <2>1 DEF Moves, RunRecord
    <2> QED BY <1>6, <2>2 DEF Solar!SignIn, Solar!Listed, Solar!SessionRefused, Solar!Stay, Works
  <1>7. ASSUME NEW p \in Sites, NEW e \in Solar!Errors, e # "none", Solar!Answered(p, e), Solar!Stay,
               Solar!Only(p), run.at = "calling"
        PROVE  Works(p) \/ Raises(p, e)
    <2>1. CASE e \in Solar!Transient /\ run.tries < MaxTries
      <3>1. run' = [run EXCEPT !.tries = run.tries + 1] /\ told' = told
        BY <1>7, <2>1 DEF Solar!Answered, Solar!Transient
      <3>2. run'.problems = run.problems /\ Moves("calling", run.todo, run.plant, run.error, run.conn)
        BY <1>0, <1>7, <3>1 DEF Moves, RunRecord
      <3> QED BY <1>7, <3>1, <3>2 DEF Works, Solar!Stay
    <2>2. CASE ~(e \in Solar!Transient /\ run.tries < MaxTries)
      <3>1. run' = [run EXCEPT !.at = "raised", !.error = e]
        BY <1>7, <2>2 DEF Solar!Answered
      <3>2. run'.problems = run.problems /\ Moves("raised", run.todo, run.plant, e, run.conn)
        BY <1>0, <3>1 DEF Moves, RunRecord
      <3>3. /\ Others(p)
            /\ \/ told'[p] = [told[p] EXCEPT !.refused = TRUE] /\ e \in {"auth", "blocked", "limited"}
               \/ told'[p] = told[p]
        BY <1>0, <1>7, SaysRefused DEF Solar!Answered, Others
      <3> QED BY <1>7, <3>2, <3>3 DEF Raises, Solar!Stay
    <2> QED BY <2>1, <2>2
  <1>8. ASSUME NEW p \in Sites, NEW e \in Solar!Errors, Solar!SignInFails(p, e) \/ Solar!CallFails(p, e)
        PROVE  Works(p) \/ Raises(p, e)
    <2>1. e # "none"
      BY <1>8 DEF Solar!SignInFails, Solar!CallFails, Solar!SignInErrors, Solar!CallErrors
    <2> QED BY <1>7, <1>8, <2>1 DEF Solar!SignInFails, Solar!CallFails
  <1>11. ASSUME NEW p \in Sites, told' = told PROVE TellsOn(p) /\ Others(p)
    BY <1>11 DEF TellsOn, Others
  <1>12. ASSUME NEW p \in Sites, Solar!Says(p, "nothing")
         PROVE  TellsOn(p) /\ Others(p) /\ told'[p].nothing
    <2>1. told[p] \in Telling /\ told'[p] = [told[p] EXCEPT !.nothing = TRUE]
      BY <1>0, <1>12, SaysNothing
    <2>2. TellsOn(p) /\ told'[p].nothing
      BY <2>1, NothingMore DEF TellsOn
    <2>3. Others(p)
      BY <1>0, <1>12, SaysNothing DEF Others
    <2> QED BY <2>2, <2>3
  <1>9. ASSUME NEW p \in Sites, NEW b \in BOOLEAN, Solar!GotDay(p, b) PROVE Gets(p)
    <2>1. run' = [run EXCEPT !.at = "storing"]
      BY <1>9 DEF Solar!GotDay
    <2>2. run'.problems = run.problems /\ Moves("storing", run.todo, run.plant, run.error, run.conn)
      BY <1>0, <2>1 DEF Moves, RunRecord
    <2>3. TellsOn(p) /\ Others(p)
      BY <1>11, <1>12, <1>9 DEF Solar!GotDay
    <2> QED BY <1>9, <2>2, <2>3 DEF Solar!GotDay, Solar!Stay, Gets
  <1>10. ASSUME NEW S, run.problems \subseteq S,
                run' = [run EXCEPT !.at = "outcome", !.problems = S]
         PROVE  run'.problems = S /\ Moves("outcome", run.todo, run.plant, run.error, run.conn)
    BY <1>0, <1>10 DEF Moves, RunRecord
  <1>13. ASSUME NEW p \in Sites, Solar!StoreDay(p) PROVE Settles(p)
    <2>1. Solar!Only(p) /\ run.at = "storing" /\ run' = [run EXCEPT !.at = "outcome", !.problems = run.problems]
          /\ UNCHANGED <<accounts, outcome, queue, told>>
      BY <1>13 DEF Solar!StoreDay, Solar!Ends
    <2>2. stored'[p] = (stored[p] \/ ~told[p].nothing) /\ \A q \in Sites \ {p} : stored'[q] = stored[q]
      BY <1>0, <1>13 DEF Solar!StoreDay
    <2>3. run.problems \subseteq run'.problems /\ Moves("outcome", run.todo, run.plant, run.error, run.conn)
      BY <1>10, <2>1
    <2> QED BY <1>11, <2>1, <2>2, <2>3 DEF Settles
  <1>14. ASSUME NEW p \in Sites, Solar!StoreFails(p) PROVE \E e \in Solar!Errors : Raises(p, e)
    <2>1. run' = [run EXCEPT !.at = "raised", !.error = "other"]
      BY <1>14 DEF Solar!StoreFails
    <2>2. run'.problems = run.problems /\ Moves("raised", run.todo, run.plant, "other", run.conn)
      BY <1>0, <2>1 DEF Moves, RunRecord
    <2>3. Raises(p, "other")
      BY <1>14, <2>2 DEF Solar!StoreFails, Solar!Stay, Raises, Others
    <2> QED BY <2>3 DEF Solar!Errors
  <1>15. ASSUME NEW p \in Sites, Solar!Defer(p) PROVE Settles(p)
    <2>1. Solar!Only(p) /\ run.at = "raised"
          /\ UNCHANGED <<accounts, outcome, stored, told>> /\ Solar!Enqueue(p, Solar!Due(run.error))
      BY <1>15 DEF Solar!Defer
    <2>2. run.problems \subseteq run'.problems /\ Moves("outcome", run.todo, run.plant, run.error, run.conn)
      <3>1. \/ run' = [run EXCEPT !.at = "outcome", !.problems = run.problems \cup {p}]
            \/ run' = [run EXCEPT !.at = "outcome", !.problems = run.problems]
        BY <1>15 DEF Solar!Defer, Solar!Ends
      <3> QED BY <1>10, <3>1
    <2>3. /\ queue'[p] # "none" /\ \A q \in Sites \ {p} : queue'[q] = queue[q]
          /\ \/ queue'[p] = queue[p]
             \/ queue[p] = "none" /\ queue'[p] = Solar!Due(run.error)
      <3>1. Solar!Due(run.error) # "none"
        BY DEF Solar!Due
      <3> QED BY <1>0, <2>1, <3>1 DEF Solar!Enqueue
    <2> QED BY <1>11, <2>1, <2>2, <2>3 DEF Settles
  <1>16. ASSUME NEW p \in Sites, Solar!GiveUp(p) \/ Solar!MeterFails(p) PROVE Settles(p)
    <2>1. run.error \in Solar!Queued \cup {"other"} \/ run.at # "raised"
      BY <1>0 DEF RunRecord, Solar!Errors, Solar!Queued
    <2>2. Solar!Only(p) /\ run.at = "raised" /\ run' = [run EXCEPT !.at = "outcome", !.problems = run.problems \cup {p}]
          /\ UNCHANGED <<accounts, outcome, queue, stored, told>>
      BY <1>16, <2>1 DEF Solar!GiveUp, Solar!MeterFails, Solar!Stay, Solar!Ends
    <2>3. /\ run.problems \subseteq run'.problems /\ p \in run'.problems
          /\ Moves("outcome", run.todo, run.plant, run.error, run.conn)
      <3>1. run.problems \subseteq run.problems \cup {p}
        OBVIOUS
      <3>2. /\ run'.problems = run.problems \cup {p}
            /\ Moves("outcome", run.todo, run.plant, run.error, run.conn)
        BY <1>10, <2>2, <3>1
      <3> QED BY <3>1, <3>2
    <2> QED BY <1>11, <2>2, <2>3 DEF Settles
  <1>17. ASSUME NEW p \in Sites, Solar!Daylight(p) PROVE Settles(p)
    <2>1. Solar!Only(p) /\ run.at = "raised" /\ run' = [run EXCEPT !.at = "outcome", !.problems = run.problems] /\ Solar!Says(p, "nothing")
          /\ UNCHANGED <<accounts, outcome, queue, stored>>
      BY <1>17 DEF Solar!Daylight, Solar!Stay, Solar!Ends
    <2>2. run.problems \subseteq run'.problems /\ Moves("outcome", run.todo, run.plant, run.error, run.conn)
      BY <1>10, <2>1
    <2> QED BY <1>12, <2>1, <2>2 DEF Settles
  <1>18. ASSUME NEW p \in Sites, NEW b \in BOOLEAN, Solar!MeterRead(p, b) PROVE Settles(p)
    <2>1. Solar!Only(p) /\ run.at = "raised" /\ run' = [run EXCEPT !.at = "outcome", !.problems = run.problems] /\ UNCHANGED <<accounts, outcome, queue>>
      BY <1>18 DEF Solar!MeterRead, Solar!Ends
    <2>2. run.problems \subseteq run'.problems /\ Moves("outcome", run.todo, run.plant, run.error, run.conn)
      BY <1>10, <2>1
    <2>3. stored'[p] = (stored[p] \/ b) /\ \A q \in Sites \ {p} : stored'[q] = stored[q]
      BY <1>0, <1>18 DEF Solar!MeterRead
    <2>4. TellsOn(p) /\ Others(p) /\ (b \/ told'[p].nothing)
      BY <1>11, <1>12, <1>18 DEF Solar!MeterRead
    <2> QED BY <2>1, <2>2, <2>3, <2>4 DEF Settles
  <1>19. ASSUME NEW p \in Sites, Solar!RecordOutcome(p) \/ Solar!OutcomeLost(p) PROVE Continues(p)
    <2>1. run' = [run EXCEPT !.at = "next", !.plant = {}]
      BY <1>19 DEF Solar!RecordOutcome, Solar!OutcomeLost, Solar!Continue
    <2>2. run'.problems = run.problems /\ Moves("next", run.todo, {}, run.error, run.conn)
      BY <1>0, <2>1 DEF Moves, RunRecord
    <2>3. /\ \A q \in Sites \ {p} : outcome'[q] = outcome[q]
          /\ \/ outcome'[p] = outcome[p] \/ outcome'[p].failed = 0
             \/ outcome'[p].failed = run.conn.n /\ outcome'[p].late = told[p].swapped
      <3>1. run.conn.n \in 0 .. MaxConnections /\ told[p].swapped \in BOOLEAN
        BY <1>0 DEF RunRecord, Solar!AccountRow, Telling
      <3>2. CASE outcome' = [outcome EXCEPT ![p].failed = run.conn.n, ![p].late = told[p].swapped]
        <4>1. outcome'[p] = [outcome[p] EXCEPT !.failed = run.conn.n, !.late = told[p].swapped]
              /\ \A q \in Sites \ {p} : outcome'[q] = outcome[q]
          BY <1>0, <3>1, <3>2, OutcomeWritten
        <4> QED BY <1>0, <4>1 DEF Solar!Outcomes
      <3>3. CASE outcome' = [outcome EXCEPT ![p] = [ok |-> run.conn.n, failed |-> 0, late |-> FALSE]]
        BY <1>0, <3>3
      <3>4. CASE outcome' = outcome
        BY <3>4
      <3> QED BY <1>19, <3>2, <3>3, <3>4 DEF Solar!RecordOutcome, Solar!OutcomeLost, Solar!Stay
    <2> QED BY <1>19, <2>2, <2>3 DEF Solar!RecordOutcome, Solar!OutcomeLost, Solar!Stay, Continues
  <1>20. ASSUME Solar!StartRun PROVE Starts
    <2>1. run' = [Solar!Rest EXCEPT !.at = "next", !.todo = {p \in Sites : accounts[p].active},
                                      !.brand = [p \in Sites |-> accounts[p].brand]]
      BY <1>20 DEF Solar!StartRun
    <2>2. run'.at = "next" /\ run'.plant = {}
      BY <1>1, <2>1, RestIsRun DEF RunRecord
    <2> QED BY <1>20, <2>2 DEF Solar!StartRun, Starts
  <1>21. ASSUME Solar!FinishRun \/ Solar!Killed PROVE Stops
    <2>1. CASE Solar!FinishRun
      <3>1. run' = [Solar!Rest EXCEPT !.at = "finished", !.problems = run.problems] /\ run.at = "next"
        BY <2>1 DEF Solar!FinishRun
      <3>2. run'.at = "finished" /\ run'.problems = run.problems /\ run'.todo = {} /\ run'.plant = {}
        BY <1>1, <3>1, RestIsRun DEF RunRecord
      <3> QED BY <2>1, <3>1, <3>2 DEF Solar!FinishRun, Solar!Stay, Stops
    <2>2. CASE Solar!Killed
      <3>1. run' = Solar!Rest /\ UNCHANGED <<accounts, outcome, queue, stored, told>>
        BY <2>2 DEF Solar!Killed, Solar!Stay
      <3> QED BY <1>1, <3>1 DEF Stops
    <2> QED BY <1>21, <2>1, <2>2
  <1> HIDE DEF Goal
  <1>22. Goal
    BY <1>2, <1>3, <1>4, <1>5, <1>6, <1>8, <1>9, <1>13, <1>14, <1>15, <1>16, <1>17, <1>18,
       <1>19, <1>20, <1>21, SolarSteps DEF Goal
  <1> QED BY <1>22 DEF Goal

-----------------------------------------------------------------------------

\* What is settled of a plant's day stays so through a step that forgets nothing.
LEMMA StepDays == ASSUME SolarInv, InSolar, MCNext PROVE Solar!DaysFollowed'
  <1>0. Solar!DaysFollowed /\ told' \in [Sites -> Telling] /\ told \in [Sites -> Telling]
    BY SolarTyped DEF SolarInv, Solar!TypeOK, Telling
  <1>1. ASSUME NEW p \in Sites, OwnerActs(p) PROVE Solar!DaysFollowed'
    <2>1. \A q \in Sites : told'[q].taken = told[q].taken /\ told'[q].nothing = told[q].nothing
      BY <1>0, <1>1 DEF OwnerActs, Others, Telling
    <2> QED BY <1>0, <1>1, <2>1 DEF OwnerActs, Solar!DaysFollowed, Solar!Open, Solar!Only
  <1>2. ASSUME NEW p \in Sites, Skips(p) \/ Works(p) PROVE Solar!DaysFollowed'
    BY <1>0, <1>2 DEF Skips, Works, Moves, Solar!DaysFollowed, Solar!Open, Solar!Only
  <1>3. ASSUME NEW p \in Sites, Takes(p) PROVE Solar!DaysFollowed'
    <2>1. \A q \in Sites \ {p} : told'[q] = told[q]
      BY <1>3 DEF Takes, Others
    <2> QED BY <1>0, <1>3, <2>1 DEF Takes, Moves, Solar!DaysFollowed, Solar!Open, Solar!Only
  <1>4. ASSUME NEW p \in Sites, NEW e \in Solar!Errors, Raises(p, e) PROVE Solar!DaysFollowed'
    <2>1. \A q \in Sites : told'[q].taken = told[q].taken /\ told'[q].nothing = told[q].nothing
      BY <1>0, <1>4 DEF Raises, Others, Telling
    <2> QED BY <1>0, <1>4, <2>1 DEF Raises, Moves, Solar!DaysFollowed, Solar!Open, Solar!Only
  <1>5. ASSUME NEW p \in Sites, Gets(p) PROVE Solar!DaysFollowed'
    <2>1. \A q \in Sites : told'[q].taken = told[q].taken /\ (told[q].nothing => told'[q].nothing)
      BY <1>5 DEF Gets, Others, TellsOn
    <2> QED BY <1>0, <1>5, <2>1 DEF Gets, Moves, Solar!DaysFollowed, Solar!Open, Solar!Only
  <1>6. ASSUME NEW p \in Sites, Settles(p) PROVE Solar!DaysFollowed'
    <2>1. \A q \in Sites : told'[q].taken = told[q].taken /\ (told[q].nothing => told'[q].nothing)
      BY <1>6 DEF Settles, Others, TellsOn
    <2>2. run'.at = "outcome" /\ run.at # "idle"
      BY <1>6 DEF Settles, Moves
    <2>3. ASSUME NEW q \in Sites, told'[q].taken
          PROVE  stored'[q] \/ queue'[q] # "none" \/ q \in run'.problems \/ told'[q].nothing
      <3>1. CASE q = p
        BY <1>6, <3>1 DEF Settles
      <3>2. CASE q # p
        <4>1. ~Solar!Open(q)
          BY <1>6, <3>2 DEF Settles, Solar!Open, Solar!Only
        <4> QED BY <1>0, <1>6, <2>1, <2>2, <2>3, <3>2, <4>1 DEF Settles, Solar!DaysFollowed
      <3> QED BY <3>1, <3>2
    <2> QED BY <2>2, <2>3 DEF Solar!DaysFollowed
  <1>7. ASSUME NEW p \in Sites, Continues(p) PROVE Solar!DaysFollowed'
    BY <1>0, <1>7 DEF Continues, Moves, Solar!DaysFollowed, Solar!Open, Solar!Only
  <1>8. CASE Starts
    <2>1. \A q \in Sites : ~told'[q].taken
      BY <1>8 DEF Starts, Solar!Silent
    <2> QED BY <1>8, <2>1 DEF Starts, Solar!DaysFollowed
  <1>9. CASE Stops
    <2>1. run.at = "next" => \A q \in Sites : ~Solar!Open(q)
      BY DEF Solar!Open
    <2> QED BY <1>0, <1>9, <2>1 DEF Stops, Solar!DaysFollowed
  <1> QED BY <1>1, <1>2, <1>3, <1>4, <1>5, <1>6, <1>7, <1>8, <1>9, Effects

LEMMA StepRefusals ==
    ASSUME SolarInv, InSolar, MCNext
    PROVE  Solar!RefusalsKnown' /\ Solar!RefusedWaitsLong'
  <1> DEFINE Goal == Solar!RefusalsKnown' /\ Solar!RefusedWaitsLong'
  <1>0. /\ Solar!RefusalsKnown /\ Solar!RefusedWaitsLong /\ Solar!DaysFollowed
        /\ told' \in [Sites -> Telling] /\ told \in [Sites -> Telling]
    BY SolarTyped DEF SolarInv, Solar!TypeOK, Telling
  <1>1. ASSUME NEW p \in Sites, OwnerActs(p) PROVE Goal
    <2>1. \A q \in Sites : told'[q].refused = told[q].refused /\ told'[q].queued = told[q].queued
      BY <1>0, <1>1 DEF OwnerActs, Others, Telling
    <2> QED BY <1>0, <1>1, <2>1 DEF OwnerActs, Solar!RefusalsKnown, Solar!RefusedWaitsLong,
                                    Solar!Open, Solar!Only
  <1>2. ASSUME NEW p \in Sites, Skips(p) \/ Works(p) PROVE Goal
    BY <1>0, <1>2 DEF Skips, Works, Moves, Solar!RefusalsKnown, Solar!RefusedWaitsLong,
                      Solar!Open, Solar!Only
  <1>3. ASSUME NEW p \in Sites, Takes(p) PROVE Goal
    <2>1. \A q \in Sites : told'[q].refused = told[q].refused /\ told'[q].queued = told[q].queued
      <3>1. \A t \in Telling : /\ [t EXCEPT !.taken = TRUE, !.swapped = FALSE].refused = t.refused
                               /\ [t EXCEPT !.taken = TRUE, !.swapped = FALSE].queued = t.queued
        BY DEF Telling
      <3> QED BY <1>0, <1>3, <3>1 DEF Takes, Others
    <2> QED BY <1>0, <1>3, <2>1 DEF Takes, Moves, Solar!RefusalsKnown, Solar!RefusedWaitsLong,
                                    Solar!Open, Solar!Only
  <1>4. ASSUME NEW p \in Sites, NEW e \in Solar!Errors, Raises(p, e) PROVE Goal
    <2>1. /\ \A q \in Sites : told'[q].queued = told[q].queued
          /\ \A q \in Sites \ {p} : told'[q].refused = told[q].refused
          /\ told'[p].refused => told[p].refused \/ e \in {"auth", "blocked", "limited"}
      BY <1>0, <1>4 DEF Raises, Others, Telling
    <2>2. Solar!Open(p) /\ ~told[p].refused
      BY <1>0, <1>4 DEF Raises, Solar!Open, Solar!RefusalsKnown
    <2> QED BY <1>0, <1>4, <2>1, <2>2 DEF Raises, Moves, Solar!RefusalsKnown,
                                    Solar!RefusedWaitsLong, Solar!Open, Solar!Only
  <1>5. ASSUME NEW p \in Sites, Gets(p) PROVE Goal
    <2>1. \A q \in Sites : told'[q].refused = told[q].refused /\ told'[q].queued = told[q].queued
      BY <1>5 DEF Gets, Others, TellsOn
    <2> QED BY <1>0, <1>5, <2>1 DEF Gets, Moves, Solar!RefusalsKnown, Solar!RefusedWaitsLong,
                                    Solar!Open, Solar!Only
  <1>6. ASSUME NEW p \in Sites, Settles(p) PROVE Goal
    <2>1. \A q \in Sites : told'[q].refused = told[q].refused /\ told'[q].queued = told[q].queued
      BY <1>6 DEF Settles, Others, TellsOn
    <2>2. Solar!Open(p) /\ run'.at = "outcome" /\ run'.todo = run.todo /\ run'.plant = run.plant
      BY <1>6 DEF Settles, Moves, Solar!Open
    <2>3. \A q \in Sites : q \in run'.todo => q # p /\ queue'[q] = queue[q]
      BY <1>0, <1>6, <2>2 DEF Settles, Solar!RefusalsKnown
    <2>4. Solar!RefusalsKnown'
      BY <1>0, <2>1, <2>2, <2>3 DEF Solar!RefusalsKnown, Solar!Open, Solar!Only
    <2>5. ASSUME told[p].refused, queue'[p] = "soon", queue'[p] # queue[p] PROVE FALSE
      <3>1. run.error \in {"auth", "blocked", "limited"} /\ queue'[p] = Solar!Due(run.error)
        BY <1>0, <1>6, <2>2, <2>5 DEF Settles, Solar!RefusalsKnown
      <3> QED BY <2>5, <3>1 DEF Solar!Due
    <2>6. Solar!RefusedWaitsLong'
      BY <1>0, <1>6, <2>1, <2>5 DEF Settles, Solar!RefusedWaitsLong
    <2> QED BY <2>4, <2>6
  <1>7. ASSUME NEW p \in Sites, Continues(p) PROVE Goal
    BY <1>0, <1>7 DEF Continues, Moves, Solar!RefusalsKnown, Solar!RefusedWaitsLong,
                      Solar!Open, Solar!Only
  <1>8. ASSUME Starts PROVE Goal
    <2>1. \A q \in Sites : ~told'[q].refused /\ told'[q].queued = (queue[q] # "none")
      BY <1>8 DEF Starts, Solar!Silent
    <2> QED BY <1>8, <2>1 DEF Starts, Solar!RefusalsKnown, Solar!RefusedWaitsLong,
                              Solar!Open, Solar!Only
  <1>9. ASSUME Stops PROVE Goal
    BY <1>0, <1>9 DEF Stops, Solar!RefusalsKnown, Solar!RefusedWaitsLong, Solar!Open, Solar!Only
  <1> HIDE DEF Goal
  <1>10. Goal
    BY <1>1, <1>2, <1>3, <1>4, <1>5, <1>6, <1>7, <1>8, <1>9, Effects
  <1> QED BY <1>10 DEF Goal

LEMMA StepSwaps ==
    ASSUME SolarInv, InSolar, MCNext
    PROVE  Solar!SwapsKnown' /\ Solar!FailureIsOwn'
  <1> DEFINE Goal == Solar!SwapsKnown' /\ Solar!FailureIsOwn'
  <1>0. /\ Solar!SwapsKnown /\ Solar!FailureIsOwn /\ Solar!DaysFollowed
        /\ told' \in [Sites -> Telling] /\ told \in [Sites -> Telling]
        /\ outcome \in [Sites -> Solar!Outcomes] /\ outcome' \in [Sites -> Solar!Outcomes]
    BY SolarTyped DEF SolarInv, Solar!TypeOK, Telling
  <1>1. ASSUME NEW p \in Sites, OwnerActs(p) PROVE Goal
    <2>1. told'[p].swapped /\ \A q \in Sites \ {p} : told'[q].swapped = told[q].swapped
      BY <1>0, <1>1 DEF OwnerActs, Others, Telling
    <2>2. Solar!SwapsKnown'
      BY <1>0, <1>1, <2>1 DEF OwnerActs, Solar!SwapsKnown, Solar!Only
    <2>3. Solar!FailureIsOwn'
      BY <1>0, <1>1 DEF OwnerActs, Solar!FailureIsOwn
    <2> QED BY <2>2, <2>3
  <1>2. ASSUME NEW p \in Sites, Skips(p) \/ Works(p) PROVE Goal
    BY <1>0, <1>2 DEF Skips, Works, Moves, Solar!SwapsKnown, Solar!FailureIsOwn, Solar!Only
  <1>3. ASSUME NEW p \in Sites, Takes(p) PROVE Goal
    BY <1>0, <1>3 DEF Takes, Moves, Solar!SwapsKnown, Solar!FailureIsOwn, Solar!Only
  <1>4. ASSUME NEW p \in Sites, NEW e \in Solar!Errors, Raises(p, e) PROVE Goal
    <2>1. \A q \in Sites : told'[q].swapped = told[q].swapped
      BY <1>0, <1>4 DEF Raises, Others, Telling
    <2> QED BY <1>0, <1>4, <2>1 DEF Raises, Moves, Solar!SwapsKnown, Solar!FailureIsOwn, Solar!Only
  <1>5. ASSUME NEW p \in Sites, Gets(p) \/ Settles(p) PROVE Goal
    <2>1. \A q \in Sites : told'[q].swapped = told[q].swapped
      BY <1>5 DEF Gets, Settles, Others, TellsOn
    <2> QED BY <1>0, <1>5, <2>1 DEF Gets, Settles, Moves, Solar!SwapsKnown, Solar!FailureIsOwn,
                                    Solar!Only
  <1>6. ASSUME NEW p \in Sites, Continues(p) PROVE Goal
    <2>1. ~told[p].swapped => run.conn.n = accounts[p].n
      BY <1>0, <1>6 DEF Continues, Solar!SwapsKnown
    <2>2. Solar!FailureIsOwn'
      BY <1>0, <1>6, <2>1 DEF Continues, Solar!FailureIsOwn
    <2>3. Solar!SwapsKnown'
      BY <1>6 DEF Continues, Moves, Solar!SwapsKnown, Solar!Only
    <2> QED BY <2>2, <2>3
  <1>7. ASSUME Starts \/ Stops PROVE Goal
    BY <1>0, <1>7 DEF Starts, Stops, Solar!SwapsKnown, Solar!FailureIsOwn, Solar!Only
  <1> HIDE DEF Goal
  <1>8. Goal
    BY <1>1, <1>2, <1>3, <1>4, <1>5, <1>6, <1>7, Effects
  <1> QED BY <1>8 DEF Goal

\* A refused account's call is over: its error is all a step can see of it.
LEMMA StepLeavesRefused == ASSUME SolarInv, InSolar, MCNext PROVE Solar!RefusedStep
  <1> SUFFICES ASSUME NEW p \in Sites, Solar!Only(p), told[p].refused,
                      run.at \in {"calling", "raised"}
               PROVE  run'.at \in {"raised", "outcome", "idle"} \/ run' = run
    BY DEF Solar!RefusedStep
  <1>0. run.at = "raised"
    BY DEF SolarInv, Solar!RefusalsKnown, Solar!Open
  <1>1. \A q \in Sites : OwnerActs(q) => run' = run
    BY DEF OwnerActs
  <1>2. \A q \in Sites : Settles(q) => run'.at = "outcome"
    BY DEF Settles, Moves
  <1>3. \A q \in Sites : ~Skips(q) /\ ~Takes(q) /\ ~Works(q) /\ ~Gets(q) /\ ~Continues(q)
                         /\ \A e \in Solar!Errors : ~Raises(q, e)
    BY <1>0 DEF Skips, Takes, Works, Gets, Continues, Raises
  <1>4. ~Starts
    BY <1>0 DEF Starts
  <1>5. Stops => run'.at = "idle"
    BY <1>0 DEF Stops
  <1> QED BY <1>1, <1>2, <1>3, <1>4, <1>5, Effects

LEMMA SolarInvHolds == MCSpec => [](InSolar => SolarInv)
  <1> DEFINE Inv == InSolar => SolarInv
  <1>1. MCInit => Inv
    <2> SUFFICES ASSUME MCInit, InSolar PROVE SolarInv
      OBVIOUS
    <2>1. Solar!Init
      BY DEF MCInit, InSolar
    <2>2. Solar!TypeOK
      <3>1. accounts \in [Sites -> Solar!AccountRow]
        BY <2>1, RestIsRun DEF Solar!Init
      <3>2. outcome \in [Sites -> Solar!Outcomes]
        <4>1. [ok |-> 0, failed |-> 0, late |-> FALSE] \in Solar!Outcomes
          BY SolarConstants DEF Solar!Outcomes
        <4> QED BY <2>1, <4>1 DEF Solar!Init
      <3>3. queue \in [Sites -> {"none", "soon", "slow"}]
        BY <2>1 DEF Solar!Init
      <3>4. stored \in [Sites -> BOOLEAN]
        BY <2>1 DEF Solar!Init
      <3>5. run \in RunRecord /\ run.plant = {}
        BY <2>1, RestIsRun DEF Solar!Init, Solar!Rest
      <3>6. told \in [Sites -> Telling]
        BY <2>1, SilentIsTelling DEF Solar!Init
      <3>7. Solar!Cardinality(run.plant) <= 1
        BY <3>5, OnePlantAtMost
      <3> QED BY <3>1, <3>2, <3>3, <3>4, <3>5, <3>6, <3>7 DEF Solar!TypeOK, RunRecord, Telling
    <2>3. run.at = "idle" /\ run.todo = {} /\ run.plant = {}
      BY <2>1 DEF Solar!Init, Solar!Rest
    <2>4. \A p \in Sites : ~told[p].refused
      BY <2>1 DEF Solar!Init, Solar!Silent
    <2>5. \A p \in Sites : outcome[p].failed = 0
      BY <2>1 DEF Solar!Init
    <2> QED BY <2>2, <2>3, <2>4, <2>5 DEF SolarInv, Solar!DaysFollowed, Solar!RefusalsKnown,
               Solar!SwapsKnown, Solar!FailureIsOwn, Solar!RefusedWaitsLong, Solar!Open, Solar!Only
  <1>2. Inv /\ [MCNext]_vars => Inv'
    <2> SUFFICES ASSUME Inv, [MCNext]_vars, InSolar' PROVE SolarInv'
      OBVIOUS
    <2>1. InSolar /\ SolarInv
      BY PartKept DEF InSolar
    <2>2. CASE MCNext
      BY <2>1, <2>2, SolarTyped, StepDays, StepRefusals, StepSwaps DEF SolarInv
    <2>3. CASE UNCHANGED vars
      <3>1. UNCHANGED <<s1, s2, s3, s4, s5, s6>>
        BY <2>3 DEF vars
      <3>2. Solar!TypeOK'
        BY <2>1, <3>1 DEF SolarInv, Solar!TypeOK
      <3>3. Solar!DaysFollowed'
        BY <2>1, <3>1 DEF SolarInv, Solar!DaysFollowed, Solar!Open, Solar!Only
      <3>4. Solar!RefusalsKnown'
        BY <2>1, <3>1 DEF SolarInv, Solar!RefusalsKnown, Solar!Open, Solar!Only
      <3>5. Solar!SwapsKnown'
        BY <2>1, <3>1 DEF SolarInv, Solar!SwapsKnown, Solar!Only
      <3>6. Solar!FailureIsOwn' /\ Solar!RefusedWaitsLong'
        BY <2>1, <3>1 DEF SolarInv, Solar!FailureIsOwn, Solar!RefusedWaitsLong
      <3> QED BY <3>2, <3>3, <3>4, <3>5, <3>6 DEF SolarInv
    <2> QED BY <2>2, <2>3
  <1> HIDE DEF Inv
  <1>3. MCSpec => []Inv
    BY <1>1, <1>2, PTL DEF MCSpec
  <1> QED BY <1>3 DEF Inv

\* Once a run is through, a plant it collected has its day, or a task for it, or is
\* among the problems that fail the job, unless the manufacturer had nothing to tell;
\* and a failure written on a connection is its own, unless the plant was connected
\* anew while the run was under way; for any plants, attempts and bounds (cloud_jobs.py,
\* run_collection, _write_provider_outcome; collection/job.py; providers/accounts.py).
THEOREM DaysAndFailuresKept == MCSpec => []OutcomesKept
  <1>1. (InSolar => SolarInv) => OutcomesKept
    <2> SUFFICES ASSUME SolarInv PROVE Solar!NoDayDropped /\ Solar!FailureIsOwn
      BY DEF OutcomesKept
    <2>1. run.at = "finished" => \A p \in Sites : ~Solar!Open(p)
      BY DEF Solar!Open
    <2> QED BY <2>1 DEF SolarInv, Solar!DaysFollowed, Solar!NoDayDropped
  <1> QED BY <1>1, SolarInvHolds, PTL

\* An account that was refused or limited is not called again in the run, and its day
\* waits long, unless it waited in the queue already; for any plants, attempts and
\* bounds (providers/resilient.py; growatt/openapi.py, meter_totals; collection/job.py,
\* _enqueue_retry; collection/queue.py, enqueue).
THEOREM RefusedAreLeftAlone == MCSpec => RefusedLeftAlone
  <1> DEFINE Waits == InSolar => Solar!RefusedWaitsLong
             Leaves == InSolar => Solar!RefusedStep
             Inv == InSolar => SolarInv
  <1>1. Inv => Waits
    BY DEF SolarInv
  <1>2. Inv /\ [MCNext]_vars => [Leaves]_vars
    BY StepLeavesRefused
  <1>3. MCSpec => []Inv
    BY SolarInvHolds
  <1>4. RefusedLeftAlone <=> []Waits /\ [][Leaves]_vars
    BY DEF RefusedLeftAlone
  <1> HIDE DEF Inv, Waits, Leaves
  <1> QED BY <1>1, <1>2, <1>3, <1>4, PTL DEF MCSpec

-----------------------------------------------------------------------------
(* Sessions and links: organizations/service.py, auth/session_service.py.    *)
(* The invariant says what a request between two of its statements holds: a  *)
(* claimed session, the sessions a revocation saw, a link, the row of the    *)
(* organization.  The state by its names.                                    *)

org == s1
users == s2
sessions == s3
invitations == s4
pc == s5
target == s6
user == s7
snap == s8
seen == s9
mark == s10
late == s11
barred == s12
uses == s13
limit == s14
USE DEF org, users, sessions, invitations, pc, target, user, snap, seen, mark, late, barred,
        uses, limit

AccessInv ==
    /\ Sessions!TypeOK /\ Sessions!FamiliesNumbered /\ Sessions!SessionsHeld
    /\ Sessions!OneLivePerFamily /\ Sessions!RevocationEndsFamilies
    /\ Sessions!LinksHeld /\ Sessions!ClientHeld

LEMMA AccessConstants ==
    NoName \notin Names /\ \A l \in Limits : l.sessions \in Nat /\ l.links \in Nat
  BY ConstantsOfParts DEF Sessions!ConstantsOK

LEMMA AccessSteps ==
    ASSUME InSessions, MCNext
    PROVE  \/ \E r \in Requests, n \in Names :
                 \/ Sessions!Login(r, n) \/ Sessions!CreateUser(r, n)
                 \/ Sessions!DeactivateUser(r, n) \/ Sessions!ReplaceLinks(r, n)
           \/ \E r \in Requests, s \in Sessions!SessionIds :
                 Sessions!RefreshRead(r, s) \/ Sessions!LogoutRead(r, s)
           \/ \E r \in Requests, i \in Sessions!LinkIds :
                 Sessions!RevokeInvitation(r, i) \/ Sessions!OpenInvitation(r, i)
           \/ \E r \in Requests, p \in {"invite", "reset"} : Sessions!LockClient(r, p)
           \/ \E r \in Requests :
                 \/ Sessions!OpenSession(r) \/ Sessions!Rotate(r) \/ Sessions!RotateRefused(r)
                 \/ Sessions!CommitRotation(r) \/ Sessions!Logout(r)
                 \/ Sessions!InsertUser(r) \/ Sessions!InsertUserRefused(r)
                 \/ Sessions!AcceptInvitation(r) \/ Sessions!StartReset(r)
                 \/ Sessions!ResetRefused(r) \/ Sessions!FinishReset(r)
                 \/ Sessions!StartDeactivation(r) \/ Sessions!StartRevocation(r)
                 \/ Sessions!FinishDeactivation(r) \/ Sessions!Reactivate(r)
           \/ \E n \in Names : Sessions!CreateClient(n) \/ Sessions!CreateInvitation(n)
           \/ \E i \in Sessions!LinkIds : Sessions!ExpireInvitation(i)
  <1>1. ~InSolar /\ ~InScopes /\ ~InProvider /\ ~InLimiter /\ ~InSettings
    BY DEF InLimiter, InSessions, InProvider, InSolar, InSettings, InScopes
  <1> QED BY <1>1, ZenonT(60) DEF MCNext

-----------------------------------------------------------------------------
(* The tables as a step leaves them.                                         *)

\* Sessions only end, those of S now; at most one begins, of the user and family given.
Age(S) ==
    /\ sessions' \in Seq(Sessions!SessionRow)
    /\ Len(sessions') \in {Len(sessions), Len(sessions) + 1}
    /\ \A s \in 1 .. Len(sessions) :
          /\ sessions'[s].user = sessions[s].user /\ sessions'[s].family = sessions[s].family
          /\ sessions'[s].active => sessions[s].active /\ s \notin S
          /\ sessions[s].active /\ s \notin S => sessions'[s].active
NoneBegins == Len(sessions') = Len(sessions)
Begins(n, f) ==
    /\ Len(sessions') = Len(sessions) + 1
    /\ sessions'[Len(sessions) + 1].user = n /\ sessions'[Len(sessions) + 1].family = f

LEMMA EndedSessions ==
    ASSUME Sessions!TypeOK, NEW S
    PROVE  /\ Sessions!Ended(S) \in Seq(Sessions!SessionRow)
           /\ Len(Sessions!Ended(S)) = Len(sessions)
           /\ \A s \in 1 .. Len(sessions) :
                 /\ Sessions!Ended(S)[s].user = sessions[s].user
                 /\ Sessions!Ended(S)[s].family = sessions[s].family
                 /\ Sessions!Ended(S)[s].active => sessions[s].active /\ s \notin S
                 /\ sessions[s].active /\ s \notin S => Sessions!Ended(S)[s].active
  <1>0. sessions \in Seq(Sessions!SessionRow) /\ DOMAIN sessions = 1 .. Len(sessions)
    BY DEF Sessions!TypeOK
  <1>1. ASSUME NEW s \in 1 .. Len(sessions)
        PROVE  /\ Sessions!Ended(S)[s] \in Sessions!SessionRow
               /\ Sessions!Ended(S)[s].user = sessions[s].user
               /\ Sessions!Ended(S)[s].family = sessions[s].family
               /\ Sessions!Ended(S)[s].active => sessions[s].active /\ s \notin S
               /\ sessions[s].active /\ s \notin S => Sessions!Ended(S)[s].active
    <2>1. sessions[s] \in Sessions!SessionRow
      BY <1>0
    <2>2. CASE s \in S
      <3>1. Sessions!Ended(S)[s] = [sessions[s] EXCEPT !.active = FALSE]
        BY <1>0, <2>2 DEF Sessions!Ended
      <3> QED BY <2>1, <2>2, <3>1 DEF Sessions!SessionRow
    <2>3. CASE s \notin S
      <3>1. Sessions!Ended(S)[s] = sessions[s]
        BY <1>0, <2>3 DEF Sessions!Ended
      <3> QED BY <2>1, <2>3, <3>1
    <2> QED BY <2>2, <2>3
  <1>2. Sessions!Ended(S) \in Seq(Sessions!SessionRow) /\ Len(Sessions!Ended(S)) = Len(sessions)
    BY <1>0, <1>1 DEF Sessions!Ended
  <1> QED BY <1>1, <1>2

LEMMA NewSessions ==
    ASSUME NEW n \in Names, NEW f \in Nat
    PROVE  /\ Sessions!NewSession(n, f) \in Sessions!SessionRow
           /\ Sessions!NewSession(n, f).user = n /\ Sessions!NewSession(n, f).family = f
  BY DEF Sessions!NewSession, Sessions!SessionRow

LEMMA SessionsEnded ==
    ASSUME Sessions!TypeOK, NEW S, sessions' = Sessions!Ended(S)
    PROVE  Age(S) /\ NoneBegins
  BY EndedSessions DEF Age, NoneBegins

LEMMA SessionBegun ==
    ASSUME Sessions!TypeOK, NEW S, NEW n \in Names, NEW f \in Nat,
           sessions' = Append(Sessions!Ended(S), Sessions!NewSession(n, f))
    PROVE  Age(S) /\ Begins(n, f)
  <1> DEFINE old == Sessions!Ended(S)
             new == Sessions!NewSession(n, f)
  <1>1. old \in Seq(Sessions!SessionRow) /\ new \in Sessions!SessionRow /\ Len(old) = Len(sessions)
    BY EndedSessions, NewSessions
  <1> HIDE DEF old, new
  <1>2. /\ sessions' \in Seq(Sessions!SessionRow) /\ Len(sessions') = Len(old) + 1
        /\ sessions'[Len(old) + 1] = new /\ \A s \in 1 .. Len(old) : sessions'[s] = old[s]
    BY <1>1 DEF old, new
  <1> QED BY <1>1, <1>2, EndedSessions, NewSessions DEF Age, Begins, old, new

LEMMA SessionAdded ==
    ASSUME Sessions!TypeOK, NEW n \in Names, NEW f \in Nat,
           sessions' = Append(sessions, Sessions!NewSession(n, f))
    PROVE  Age({}) /\ Begins(n, f)
  <1> DEFINE new == Sessions!NewSession(n, f)
  <1>1. new \in Sessions!SessionRow /\ new.user = n /\ new.family = f
    BY NewSessions
  <1>2. sessions \in Seq(Sessions!SessionRow)
    BY DEF Sessions!TypeOK
  <1> HIDE DEF new
  <1>3. /\ sessions' \in Seq(Sessions!SessionRow) /\ Len(sessions') = Len(sessions) + 1
        /\ sessions'[Len(sessions) + 1] = new
        /\ \A s \in 1 .. Len(sessions) : sessions'[s] = sessions[s]
    BY <1>1, <1>2 DEF new
  <1> QED BY <1>1, <1>3 DEF Age, Begins

\* Links are only ever used up, revoked or expired; at most one is made.
Wear ==
    /\ invitations' \in Seq(Sessions!InvitationRow)
    /\ Len(invitations') \in {Len(invitations), Len(invitations) + 1}
    /\ \A i \in 1 .. Len(invitations) :
          /\ invitations'[i].name = invitations[i].name
          /\ invitations'[i].purpose = invitations[i].purpose
          /\ invitations[i].accepted => invitations'[i].accepted
          /\ invitations[i].revoked => invitations'[i].revoked
          /\ invitations[i].expired => invitations'[i].expired
NoneAccepted ==
    \A i \in 1 .. Len(invitations) : invitations'[i].accepted => invitations[i].accepted
NoLinkMade == Len(invitations') = Len(invitations)
LinkMade(n, p) ==
    /\ Len(invitations') = Len(invitations) + 1
    /\ invitations'[Len(invitations) + 1] = Sessions!NewLink(n, p)

LEMMA RevokedLinks ==
    ASSUME Sessions!TypeOK, NEW I
    PROVE  /\ Sessions!Revoked(I) \in Seq(Sessions!InvitationRow)
           /\ Len(Sessions!Revoked(I)) = Len(invitations)
           /\ \A i \in 1 .. Len(invitations) :
                 /\ Sessions!Revoked(I)[i].name = invitations[i].name
                 /\ Sessions!Revoked(I)[i].purpose = invitations[i].purpose
                 /\ Sessions!Revoked(I)[i].accepted = invitations[i].accepted
                 /\ Sessions!Revoked(I)[i].expired = invitations[i].expired
                 /\ invitations[i].revoked \/ i \in I => Sessions!Revoked(I)[i].revoked
  <1>0. invitations \in Seq(Sessions!InvitationRow) /\ DOMAIN invitations = 1 .. Len(invitations)
    BY DEF Sessions!TypeOK
  <1>1. ASSUME NEW i \in 1 .. Len(invitations)
        PROVE  /\ Sessions!Revoked(I)[i] \in Sessions!InvitationRow
               /\ Sessions!Revoked(I)[i].name = invitations[i].name
               /\ Sessions!Revoked(I)[i].purpose = invitations[i].purpose
               /\ Sessions!Revoked(I)[i].accepted = invitations[i].accepted
               /\ Sessions!Revoked(I)[i].expired = invitations[i].expired
               /\ invitations[i].revoked \/ i \in I => Sessions!Revoked(I)[i].revoked
    <2>1. invitations[i] \in Sessions!InvitationRow
      BY <1>0
    <2>2. CASE i \in I
      <3>1. Sessions!Revoked(I)[i] = [invitations[i] EXCEPT !.revoked = TRUE]
        BY <1>0, <2>2 DEF Sessions!Revoked
      <3> QED BY <2>1, <2>2, <3>1 DEF Sessions!InvitationRow
    <2>3. CASE i \notin I
      <3>1. Sessions!Revoked(I)[i] = invitations[i]
        BY <1>0, <2>3 DEF Sessions!Revoked
      <3> QED BY <2>1, <2>3, <3>1
    <2> QED BY <2>2, <2>3
  <1>2. Sessions!Revoked(I) \in Seq(Sessions!InvitationRow) /\ Len(Sessions!Revoked(I)) = Len(invitations)
    BY <1>0, <1>1 DEF Sessions!Revoked
  <1> QED BY <1>1, <1>2

LEMMA NewLinks ==
    ASSUME NEW n \in Names, NEW p \in {"invite", "reset"}
    PROVE  /\ Sessions!NewLink(n, p) \in Sessions!InvitationRow
           /\ Sessions!NewLink(n, p).purpose = p /\ ~Sessions!NewLink(n, p).accepted
  BY DEF Sessions!NewLink, Sessions!InvitationRow

LEMMA LinksRevoked ==
    ASSUME Sessions!TypeOK, NEW I, invitations' = Sessions!Revoked(I)
    PROVE  /\ Wear /\ NoneAccepted /\ NoLinkMade
           /\ \A i \in 1 .. Len(invitations) : i \in I => invitations'[i].revoked
  BY RevokedLinks DEF Wear, NoneAccepted, NoLinkMade

LEMMA LinksReplaced ==
    ASSUME Sessions!TypeOK, NEW I, NEW n \in Names, NEW p \in {"invite", "reset"},
           invitations' = Append(Sessions!Revoked(I), Sessions!NewLink(n, p))
    PROVE  /\ Wear /\ NoneAccepted /\ LinkMade(n, p)
           /\ \A i \in 1 .. Len(invitations) : i \in I => invitations'[i].revoked
  <1> DEFINE old == Sessions!Revoked(I)
             new == Sessions!NewLink(n, p)
  <1>1. old \in Seq(Sessions!InvitationRow) /\ new \in Sessions!InvitationRow /\ Len(old) = Len(invitations)
    BY RevokedLinks, NewLinks
  <1> HIDE DEF old, new
  <1>2. /\ invitations' \in Seq(Sessions!InvitationRow) /\ Len(invitations') = Len(old) + 1
        /\ invitations'[Len(old) + 1] = new /\ \A i \in 1 .. Len(old) : invitations'[i] = old[i]
    BY <1>1 DEF old, new
  <1> QED BY <1>1, <1>2, RevokedLinks DEF Wear, NoneAccepted, LinkMade, old, new

LEMMA LinkAdded ==
    ASSUME Sessions!TypeOK, NEW n \in Names,
           invitations' = Append(invitations, Sessions!NewLink(n, "invite"))
    PROVE  Wear /\ NoneAccepted /\ LinkMade(n, "invite")
  <1> DEFINE new == Sessions!NewLink(n, "invite")
  <1>1. new \in Sessions!InvitationRow
    BY NewLinks
  <1>2. invitations \in Seq(Sessions!InvitationRow)
    BY DEF Sessions!TypeOK
  <1> HIDE DEF new
  <1>3. /\ invitations' \in Seq(Sessions!InvitationRow) /\ Len(invitations') = Len(invitations) + 1
        /\ invitations'[Len(invitations) + 1] = new
        /\ \A i \in 1 .. Len(invitations) : invitations'[i] = invitations[i]
    BY <1>1, <1>2 DEF new
  <1> QED BY <1>1, <1>3 DEF Wear, NoneAccepted, LinkMade, new

LEMMA LinkRewritten ==
    ASSUME Sessions!TypeOK, NEW i \in DOMAIN invitations, NEW x \in Sessions!InvitationRow,
           invitations' = [invitations EXCEPT ![i] = x],
           x.name = invitations[i].name, x.purpose = invitations[i].purpose,
           invitations[i].accepted => x.accepted, invitations[i].revoked => x.revoked,
           invitations[i].expired => x.expired
    PROVE  /\ Wear /\ NoLinkMade /\ invitations'[i] = x
           /\ \A j \in 1 .. Len(invitations) : j # i => invitations'[j] = invitations[j]
  <1>1. invitations \in Seq(Sessions!InvitationRow) /\ DOMAIN invitations = 1 .. Len(invitations)
    BY DEF Sessions!TypeOK
  <1> QED BY <1>1 DEF Wear, NoLinkMade

LEMMA LinkAccepted ==
    ASSUME Sessions!TypeOK, NEW i \in DOMAIN invitations,
           invitations' = [invitations EXCEPT ![i].accepted = TRUE]
    PROVE  /\ Wear /\ NoLinkMade /\ invitations'[i].accepted
           /\ \A j \in 1 .. Len(invitations) : j # i => invitations'[j] = invitations[j]
  <1> DEFINE x == [invitations[i] EXCEPT !.accepted = TRUE]
  <1>0. invitations[i] \in Sessions!InvitationRow
    BY DEF Sessions!TypeOK
  <1>1. /\ x \in Sessions!InvitationRow /\ x.name = invitations[i].name
        /\ x.purpose = invitations[i].purpose /\ x.accepted
        /\ (invitations[i].revoked => x.revoked) /\ (invitations[i].expired => x.expired)
    BY <1>0 DEF Sessions!InvitationRow
  <1>2. invitations' = [invitations EXCEPT ![i] = x]
    OBVIOUS
  <1> HIDE DEF x
  <1> QED BY <1>1, <1>2, LinkRewritten

LEMMA LinkExpired ==
    ASSUME Sessions!TypeOK, NEW i \in DOMAIN invitations,
           invitations' = [invitations EXCEPT ![i].expired = TRUE]
    PROVE  Wear /\ NoLinkMade /\ NoneAccepted
  <1> DEFINE x == [invitations[i] EXCEPT !.expired = TRUE]
  <1>0. invitations[i] \in Sessions!InvitationRow
    BY DEF Sessions!TypeOK
  <1>1. /\ x \in Sessions!InvitationRow /\ x.name = invitations[i].name
        /\ x.purpose = invitations[i].purpose /\ x.expired
        /\ (invitations[i].revoked => x.revoked)
        /\ (invitations[i].accepted => x.accepted) /\ (x.accepted => invitations[i].accepted)
    BY <1>0 DEF Sessions!InvitationRow
  <1>2. invitations' = [invitations EXCEPT ![i] = x]
    OBVIOUS
  <1> HIDE DEF x
  <1> QED BY <1>1, <1>2, LinkRewritten DEF NoneAccepted

-----------------------------------------------------------------------------
(* The requests as a step leaves them.                                       *)

Unmoved(q) ==
    /\ pc'[q] = pc[q] /\ target'[q] = target[q] /\ user'[q] = user[q]
    /\ snap'[q] = snap[q] /\ seen'[q] = seen[q]
OnlyMoves(r) == \A q \in Requests \ {r} : Unmoved(q)
RequestsTyped ==
    /\ pc' \in [Requests -> Sessions!PCs] /\ target' \in [Requests -> Nat]
    /\ user' \in [Requests -> Names \cup {NoName}]
    /\ snap' \in [Requests -> SUBSET Nat] /\ seen' \in [Requests -> Nat]

LEMMA Finished ==
    ASSUME Sessions!TypeOK, NEW r \in Requests, Sessions!Finish(r)
    PROVE  RequestsTyped /\ pc'[r] = "idle" /\ OnlyMoves(r)
  <1>1. "idle" \in Sessions!PCs
    BY DEF Sessions!PCs
  <1> QED BY <1>1 DEF Sessions!TypeOK, Sessions!Finish, Sessions!Goto, RequestsTyped, OnlyMoves, Unmoved

LEMMA AllUnmoved ==
    ASSUME Sessions!TypeOK, UNCHANGED Sessions!request
    PROVE  RequestsTyped /\ \A q \in Requests : Unmoved(q)
  BY DEF Sessions!TypeOK, Sessions!request, RequestsTyped, Unmoved

LEMMA WentOn ==
    ASSUME Sessions!TypeOK, NEW r \in Requests, NEW label \in Sessions!PCs,
           Sessions!Goto(r, label), UNCHANGED <<target, user, snap, seen>>
    PROVE  /\ RequestsTyped /\ pc'[r] = label /\ OnlyMoves(r) /\ target'[r] = target[r]
           /\ user'[r] = user[r] /\ snap'[r] = snap[r] /\ seen'[r] = seen[r]
  BY DEF Sessions!TypeOK, Sessions!Goto, RequestsTyped, OnlyMoves, Unmoved

LEMMA TookUp ==
    ASSUME Sessions!TypeOK, NEW r \in Requests, NEW label \in Sessions!PCs, NEW i \in Nat,
           NEW n \in Names, Sessions!Goto(r, label), UNCHANGED <<snap, seen>>,
           target' = target \/ target' = [target EXCEPT ![r] = i],
           user' = user \/ user' = [user EXCEPT ![r] = n]
    PROVE  /\ RequestsTyped /\ pc'[r] = label /\ OnlyMoves(r)
           /\ target' = [target EXCEPT ![r] = i] => target'[r] = i
           /\ user' = [user EXCEPT ![r] = n] => user'[r] = n
  BY DEF Sessions!TypeOK, Sessions!Goto, RequestsTyped, OnlyMoves, Unmoved

LEMMA Saw ==
    ASSUME Sessions!TypeOK, NEW r \in Requests, NEW label \in Sessions!PCs, NEW N,
           Sessions!Goto(r, label), Sessions!SeeSessions(r, N), UNCHANGED <<target, user>>
    PROVE  /\ RequestsTyped /\ pc'[r] = label /\ OnlyMoves(r) /\ target'[r] = target[r]
           /\ user'[r] = user[r] /\ snap'[r] = Sessions!LiveOf(N) /\ seen'[r] = Len(sessions)
  <1>1. Sessions!LiveOf(N) \in SUBSET Nat /\ Len(sessions) \in Nat
    BY DEF Sessions!LiveOf, Sessions!TypeOK
  <1> QED BY <1>1 DEF Sessions!TypeOK, Sessions!Goto, Sessions!SeeSessions, RequestsTyped,
                      OnlyMoves, Unmoved

LEMMA Locked ==
    ASSUME Sessions!TypeOK, NEW r \in Requests, NEW label \in Sessions!PCs, NEW p,
           Sessions!Goto(r, label), snap' = [snap EXCEPT ![r] = Sessions!PendingOf(p)],
           UNCHANGED <<target, user, seen>>
    PROVE  /\ RequestsTyped /\ pc'[r] = label /\ OnlyMoves(r) /\ target'[r] = target[r]
           /\ user'[r] = user[r] /\ snap'[r] = Sessions!PendingOf(p)
  <1>1. Sessions!PendingOf(p) \in SUBSET Nat
    BY DEF Sessions!PendingOf, Sessions!TypeOK
  <1> QED BY <1>1 DEF Sessions!TypeOK, Sessions!Goto, RequestsTyped, OnlyMoves, Unmoved

LEMMA RevocationTyped ==
    ASSUME Sessions!TypeOK, NEW r \in Requests, NEW N, Sessions!RevocationEnds(r, N)
    PROVE  mark' \in [Names -> Nat] /\ late' \subseteq Nat
  <1>1. \A s \in DOMAIN sessions : sessions[s].family \in Nat
    <2>1. \A s \in DOMAIN sessions : sessions[s] \in Sessions!SessionRow
      BY DEF Sessions!TypeOK
    <2> QED BY <2>1 DEF Sessions!SessionRow
  <1>2. Len(sessions) \in Nat /\ mark \in [Names -> Nat] /\ late \subseteq Nat
    BY DEF Sessions!TypeOK
  <1>3. mark' \in [Names -> Nat]
    BY <1>2 DEF Sessions!RevocationEnds
  <1>4. late' \subseteq Nat
    BY <1>1, <1>2 DEF Sessions!RevocationEnds
  <1> QED BY <1>3, <1>4

LEMMA LinkUsed ==
    ASSUME Sessions!TypeOK, NEW i \in 1 .. limit.links, Sessions!Used(i), limit' = limit
    PROVE  /\ uses' \in [1 .. limit'.links -> Nat] /\ uses'[i] = uses[i] + 1
           /\ \A j \in 1 .. limit.links : j # i => uses'[j] = uses[j]
  <1>1. uses \in [1 .. limit.links -> Nat] /\ uses' = [uses EXCEPT ![i] = uses[i] + 1]
    BY DEF Sessions!TypeOK, Sessions!Used
  <1>2. uses' \in [1 .. limit.links -> Nat]
    BY <1>1
  <1> QED BY <1>1, <1>2

LEMMA LinkBarred ==
    ASSUME Sessions!TypeOK, NEW I, I \subseteq Nat, Sessions!Bar(I)
    PROVE  barred' \subseteq Nat
  BY DEF Sessions!TypeOK, Sessions!Bar

LEMMA UserSet ==
    ASSUME Sessions!TypeOK, NEW n, NEW v \in {"none", "bare", "active", "inactive"},
           users' = [users EXCEPT ![n] = v]
    PROVE  users' \in [Names -> {"none", "bare", "active", "inactive"}]
  BY DEF Sessions!TypeOK

LEMMA AccessTyped == ASSUME AccessInv, InSessions, MCNext PROVE Sessions!TypeOK'
  <1> DEFINE Rows == /\ org' \in {"absent", "active", "inactive"}
                     /\ users' \in [Names -> {"none", "bare", "active", "inactive"}]
                     /\ sessions' \in Seq(Sessions!SessionRow)
                     /\ invitations' \in Seq(Sessions!InvitationRow)
             Past == /\ mark' \in [Names -> Nat] /\ late' \subseteq Nat
                     /\ barred' \subseteq Nat /\ uses' \in [1 .. limit'.links -> Nat]
                     /\ limit' \in Limits
  <1>0. /\ Sessions!TypeOK /\ org \in {"absent", "active", "inactive"}
        /\ users \in [Names -> {"none", "bare", "active", "inactive"}]
        /\ sessions \in Seq(Sessions!SessionRow) /\ invitations \in Seq(Sessions!InvitationRow)
        /\ mark \in [Names -> Nat] /\ late \subseteq Nat
        /\ barred \subseteq Nat /\ uses \in [1 .. limit.links -> Nat] /\ limit \in Limits
        /\ Len(sessions) \in Nat /\ Len(invitations) \in Nat
    BY DEF AccessInv, Sessions!TypeOK
  <1>1. Rows /\ Past /\ RequestsTyped => Sessions!TypeOK'
    BY DEF Sessions!TypeOK, RequestsTyped
  <1>2. UNCHANGED <<limit, Sessions!rows, Sessions!history>> => Rows /\ Past
    BY <1>0 DEF Sessions!rows, Sessions!history
  <1>3. \A r \in Requests : Sessions!Refuse(r) => Sessions!TypeOK'
    BY <1>0, <1>1, <1>2, Finished DEF Sessions!Refuse
  <1>4. ASSUME NEW r \in Requests, NEW n \in Names, Sessions!Login(r, n) PROVE Sessions!TypeOK'
    <2>1. "loggingIn" \in Sessions!PCs
      BY DEF Sessions!PCs
    <2>2. RequestsTyped
      BY <1>0, <1>4, <2>1, TookUp DEF Sessions!Login
    <2> QED BY <1>1, <1>2, <1>4, <2>2 DEF Sessions!Login
  <1>5. ASSUME NEW r \in Requests, NEW n \in Names,
               Sessions!CreateUser(r, n) \/ Sessions!DeactivateUser(r, n)
        PROVE  Sessions!TypeOK'
    <2>1. users' \in [Names -> {"none", "bare", "active", "inactive"}]
      BY <1>0, <1>5, UserSet DEF Sessions!CreateUser, Sessions!DeactivateUser
    <2>2. UNCHANGED <<limit, org, sessions, invitations, mark, late, barred, uses>>
          /\ UNCHANGED Sessions!request
      BY <1>5 DEF Sessions!CreateUser, Sessions!DeactivateUser, Sessions!history
    <2>3. RequestsTyped
      BY <1>0, <2>2, AllUnmoved
    <2> QED BY <1>0, <1>1, <2>1, <2>2, <2>3
  <1>6. ASSUME NEW r \in Requests, NEW n \in Names, Sessions!ReplaceLinks(r, n)
        PROVE  Sessions!TypeOK'
    <2>1. RequestsTyped
      BY <1>0, <1>6, Finished DEF Sessions!ReplaceLinks
    <2>2. invitations' \in Seq(Sessions!InvitationRow)
      <3>1. \/ invitations' = Append(Sessions!Revoked(snap[r]), Sessions!NewLink(n, "invite"))
            \/ invitations' = Append(Sessions!Revoked(snap[r]), Sessions!NewLink(n, "reset"))
        BY <1>6 DEF Sessions!ReplaceLinks
      <3> QED BY <1>0, <3>1, LinksReplaced DEF Wear
    <2>3. barred' \subseteq Nat
      <3>1. snap[r] \subseteq Nat
        BY <1>0 DEF Sessions!TypeOK
      <3> QED BY <1>0, <1>6, <3>1, LinkBarred DEF Sessions!ReplaceLinks
    <2> QED BY <1>0, <1>1, <1>6, <2>1, <2>2, <2>3 DEF Sessions!ReplaceLinks
  <1>7. ASSUME NEW r \in Requests, NEW s \in Sessions!SessionIds,
               Sessions!RefreshRead(r, s) \/ Sessions!LogoutRead(r, s)
        PROVE  Sessions!TypeOK'
    <2>1. "refreshing" \in Sessions!PCs /\ "loggingOut" \in Sessions!PCs
      BY DEF Sessions!PCs
    <2>2. s \in Nat /\ target' = [target EXCEPT ![r] = s] /\ UNCHANGED <<user, snap, seen>>
          /\ (Sessions!Goto(r, "refreshing") \/ Sessions!Goto(r, "loggingOut"))
      BY <1>0, <1>7 DEF Sessions!RefreshRead, Sessions!LogoutRead
    <2>3. RequestsTyped
      BY <1>0, <2>1, <2>2 DEF Sessions!TypeOK, Sessions!Goto, RequestsTyped
    <2> QED BY <1>1, <1>2, <1>7, <2>3 DEF Sessions!RefreshRead, Sessions!LogoutRead
  <1>8. ASSUME NEW r \in Requests, NEW i \in Sessions!LinkIds, Sessions!RevokeInvitation(r, i)
        PROVE  Sessions!TypeOK'
    <2>1. invitations' = Sessions!Revoked({i}) /\ Sessions!Bar({i}) /\ i \in Nat
          /\ UNCHANGED <<limit, org, users, sessions, mark, late, uses>> /\ UNCHANGED Sessions!request
      BY <1>0, <1>8 DEF Sessions!RevokeInvitation
    <2>2. RequestsTyped
      BY <1>0, <2>1, AllUnmoved
    <2>3. barred' \subseteq Nat
      BY <1>0, <2>1, LinkBarred
    <2>4. invitations' \in Seq(Sessions!InvitationRow)
      BY <1>0, <2>1, LinksRevoked DEF Wear
    <2> QED BY <1>0, <1>1, <2>1, <2>2, <2>3, <2>4
  <1>9. ASSUME NEW r \in Requests, NEW i \in Sessions!LinkIds, Sessions!OpenInvitation(r, i)
        PROVE  Sessions!TypeOK'
    <2>1. "opened" \in Sessions!PCs /\ i \in Nat /\ i \in DOMAIN invitations
      BY <1>0, <1>9 DEF Sessions!PCs, Sessions!OpenInvitation
    <2>2. invitations[i].name \in Names
      <3>1. invitations[i] \in Sessions!InvitationRow
        BY <1>0, <2>1
      <3> QED BY <3>1 DEF Sessions!InvitationRow
    <2>3. RequestsTyped
      BY <1>0, <1>9, <2>1, <2>2, TookUp DEF Sessions!OpenInvitation
    <2> QED BY <1>1, <1>2, <1>9, <2>3 DEF Sessions!OpenInvitation
  <1>10. ASSUME NEW r \in Requests, NEW p \in {"invite", "reset"}, Sessions!LockClient(r, p)
         PROVE  Sessions!TypeOK'
    <2>1. "replacing" \in Sessions!PCs /\ "replacingReset" \in Sessions!PCs
      BY DEF Sessions!PCs
    <2>2. Sessions!Goto(r, "replacing") \/ Sessions!Goto(r, "replacingReset")
      BY <1>10 DEF Sessions!LockClient
    <2>3. RequestsTyped
      BY <1>0, <1>10, <2>1, <2>2, Locked DEF Sessions!LockClient
    <2> QED BY <1>1, <1>2, <1>10, <2>3 DEF Sessions!LockClient
  <1>11. ASSUME NEW r \in Requests, Sessions!OpenSession(r) PROVE Sessions!TypeOK'
    <2>1. user[r] \in Names
      BY <1>11 DEF AccessInv, Sessions!SessionsHeld, Sessions!OpenSession, Sessions!At
    <2>2. sessions' \in Seq(Sessions!SessionRow)
      BY <1>0, <1>11, <2>1, SessionAdded DEF Sessions!OpenSession, Age
    <2>3. RequestsTyped
      BY <1>0, <1>11, Finished DEF Sessions!OpenSession
    <2> QED BY <1>0, <1>1, <1>11, <2>2, <2>3 DEF Sessions!OpenSession, Sessions!history
  <1>12. ASSUME NEW r \in Requests, Sessions!Rotate(r) \/ Sessions!InsertUser(r)
         PROVE  Sessions!TypeOK'
    <2>1. "rotated" \in Sessions!PCs /\ "created" \in Sessions!PCs
      BY DEF Sessions!PCs
    <2>2. RequestsTyped
      BY <1>0, <1>12, <2>1, WentOn DEF Sessions!Rotate, Sessions!InsertUser
    <2> QED BY <1>1, <1>2, <1>12, <2>2 DEF Sessions!Rotate, Sessions!InsertUser
  <1>13. ASSUME NEW r \in Requests, Sessions!CommitRotation(r) PROVE Sessions!TypeOK'
    <2> DEFINE t == target[r]
    <2>1. t \in DOMAIN sessions
      BY <1>13 DEF AccessInv, Sessions!SessionsHeld, Sessions!CommitRotation, Sessions!At
    <2>2. sessions[t].user \in Names /\ sessions[t].family \in Nat
      <3>1. sessions[t] \in Sessions!SessionRow
        BY <1>0, <2>1
      <3> QED BY <3>1 DEF Sessions!SessionRow
    <2>3. sessions' \in Seq(Sessions!SessionRow)
      BY <1>0, <1>13, <2>2, SessionBegun DEF Sessions!CommitRotation, Age
    <2>4. RequestsTyped
      BY <1>0, <1>13, Finished DEF Sessions!CommitRotation
    <2> QED BY <1>0, <1>1, <1>13, <2>3, <2>4 DEF Sessions!CommitRotation, Sessions!history
  <1>14. ASSUME NEW r \in Requests, Sessions!Logout(r) PROVE Sessions!TypeOK'
    <2>1. sessions' \in Seq(Sessions!SessionRow)
      BY <1>0, <1>14, SessionsEnded DEF Sessions!Logout, Age
    <2>2. RequestsTyped
      BY <1>0, <1>14, Finished DEF Sessions!Logout
    <2> QED BY <1>0, <1>1, <1>14, <2>1, <2>2 DEF Sessions!Logout, Sessions!history
  <1>15. ASSUME NEW r \in Requests, pc[r] \in {"created", "resetting"}
         PROVE  /\ target[r] \in DOMAIN invitations /\ target[r] \in 1 .. limit.links
                /\ user[r] \in Names
    <2>1. target[r] \in DOMAIN invitations /\ user[r] = invitations[target[r]].name
          /\ Len(invitations) <= limit.links
      BY <1>15 DEF AccessInv, Sessions!LinksHeld
    <2>2. invitations[target[r]] \in Sessions!InvitationRow
      BY <1>0, <2>1
    <2>3. limit.links \in Nat
      BY <1>0, AccessConstants
    <2> QED BY <1>0, <2>1, <2>2, <2>3 DEF Sessions!InvitationRow
  <1>16. ASSUME NEW r \in Requests, Sessions!AcceptInvitation(r) PROVE Sessions!TypeOK'
    <2>1. target[r] \in DOMAIN invitations /\ target[r] \in 1 .. limit.links /\ user[r] \in Names
      BY <1>15, <1>16 DEF Sessions!AcceptInvitation, Sessions!At
    <2>2. sessions' \in Seq(Sessions!SessionRow)
      <3>1. sessions' = Append(sessions, Sessions!NewSession(user[r], Len(sessions) + 1))
        BY <1>16 DEF Sessions!AcceptInvitation
      <3> QED BY <1>0, <2>1, <3>1, SessionAdded DEF Age
    <2>3. invitations' \in Seq(Sessions!InvitationRow)
      BY <1>0, <1>16, <2>1, LinkAccepted DEF Sessions!AcceptInvitation, Wear
    <2>4. users' \in [Names -> {"none", "bare", "active", "inactive"}]
      BY <1>0, <1>16, UserSet DEF Sessions!AcceptInvitation
    <2>5. uses' \in [1 .. limit'.links -> Nat] /\ UNCHANGED <<limit, org, mark, late, barred>>
      BY <1>0, <1>16, <2>1, LinkUsed DEF Sessions!AcceptInvitation
    <2>6. RequestsTyped
      BY <1>0, <1>16, Finished DEF Sessions!AcceptInvitation
    <2> QED BY <1>0, <1>1, <2>2, <2>3, <2>4, <2>5, <2>6
  <1>17. ASSUME NEW r \in Requests, Sessions!StartReset(r) PROVE Sessions!TypeOK'
    <2>1. "resetting" \in Sessions!PCs
      BY DEF Sessions!PCs
    <2>2. RequestsTyped
      BY <1>0, <1>17, <2>1, Saw DEF Sessions!StartReset
    <2> QED BY <1>1, <1>2, <1>17, <2>2 DEF Sessions!StartReset
  <1>18. ASSUME NEW r \in Requests, Sessions!FinishReset(r) PROVE Sessions!TypeOK'
    <2>1. target[r] \in DOMAIN invitations /\ target[r] \in 1 .. limit.links /\ user[r] \in Names
      BY <1>15, <1>18 DEF Sessions!FinishReset, Sessions!At
    <2>2. sessions' \in Seq(Sessions!SessionRow)
      <3>1. sessions' = Append(Sessions!Ended(snap[r]), Sessions!NewSession(user[r], Len(sessions) + 1))
        BY <1>18 DEF Sessions!FinishReset
      <3>2. Len(sessions) + 1 \in Nat
        BY <1>0
      <3>3. Age(snap[r])
        BY <1>0, <2>1, <3>1, <3>2, SessionBegun
      <3> QED BY <3>3 DEF Age
    <2>3. invitations' \in Seq(Sessions!InvitationRow)
      BY <1>0, <1>18, <2>1, LinkAccepted DEF Sessions!FinishReset, Wear
    <2>4. users' \in [Names -> {"none", "bare", "active", "inactive"}]
      BY <1>0, <1>18, UserSet DEF Sessions!FinishReset
    <2>5. uses' \in [1 .. limit'.links -> Nat] /\ UNCHANGED <<limit, org, barred>>
      BY <1>0, <1>18, <2>1, LinkUsed DEF Sessions!FinishReset
    <2>6. mark' \in [Names -> Nat] /\ late' \subseteq Nat
      BY <1>0, <1>18, RevocationTyped DEF Sessions!FinishReset
    <2>7. RequestsTyped
      BY <1>0, <1>18, Finished DEF Sessions!FinishReset
    <2> QED BY <1>0, <1>1, <2>2, <2>3, <2>4, <2>5, <2>6, <2>7
  <1>19. ASSUME NEW r \in Requests, Sessions!StartDeactivation(r) \/ Sessions!StartRevocation(r)
         PROVE  Sessions!TypeOK'
    <2>1. "deactivating" \in Sessions!PCs /\ "revoking" \in Sessions!PCs
      BY DEF Sessions!PCs
    <2>2. RequestsTyped
      BY <1>0, <1>19, <2>1, Saw DEF Sessions!StartDeactivation, Sessions!StartRevocation
    <2> QED BY <1>1, <1>2, <1>19, <2>2 DEF Sessions!StartDeactivation, Sessions!StartRevocation
  <1>20. ASSUME NEW r \in Requests, Sessions!FinishDeactivation(r) PROVE Sessions!TypeOK'
    <2>1. sessions' \in Seq(Sessions!SessionRow)
      BY <1>0, <1>20, SessionsEnded DEF Sessions!FinishDeactivation, Age
    <2>2. mark' \in [Names -> Nat] /\ late' \subseteq Nat
      BY <1>0, <1>20, RevocationTyped DEF Sessions!FinishDeactivation
    <2>3. RequestsTyped
      BY <1>0, <1>20, Finished DEF Sessions!FinishDeactivation
    <2>4. org' \in {"absent", "active", "inactive"}
          /\ UNCHANGED <<limit, users, invitations, barred, uses>>
      BY <1>0, <1>20 DEF Sessions!FinishDeactivation
    <2> QED BY <1>0, <1>1, <2>1, <2>2, <2>3, <2>4
  <1>21. ASSUME NEW r \in Requests, Sessions!Reactivate(r) PROVE Sessions!TypeOK'
    <2>1. org' = "active" /\ UNCHANGED <<limit, users, sessions, invitations, mark, late, barred, uses>>
          /\ UNCHANGED Sessions!request
      BY <1>21 DEF Sessions!Reactivate, Sessions!history
    <2>2. RequestsTyped
      BY <1>0, <2>1, AllUnmoved
    <2> QED BY <1>0, <1>1, <2>1, <2>2
  <1>22. ASSUME NEW n \in Names, Sessions!CreateClient(n) \/ Sessions!CreateInvitation(n)
         PROVE  Sessions!TypeOK'
    <2>1. /\ org' \in {org, "active"} /\ UNCHANGED Sessions!request
          /\ invitations' = Append(invitations, Sessions!NewLink(n, "invite"))
          /\ UNCHANGED <<limit, users, sessions, mark, late, barred, uses>>
      BY <1>22 DEF Sessions!CreateClient, Sessions!CreateInvitation, Sessions!history
    <2>2. RequestsTyped
      BY <1>0, <2>1, AllUnmoved
    <2>3. invitations' \in Seq(Sessions!InvitationRow)
      BY <1>0, <2>1, LinkAdded DEF Wear
    <2> QED BY <1>0, <1>1, <2>1, <2>2, <2>3
  <1>23. ASSUME NEW i \in Sessions!LinkIds, Sessions!ExpireInvitation(i) PROVE Sessions!TypeOK'
    <2>1. /\ i \in DOMAIN invitations /\ invitations' = [invitations EXCEPT ![i].expired = TRUE]
          /\ UNCHANGED <<limit, org, users, sessions, mark, late, barred, uses>>
          /\ UNCHANGED Sessions!request
      BY <1>23 DEF Sessions!ExpireInvitation, Sessions!history
    <2>2. RequestsTyped
      BY <1>0, <2>1, AllUnmoved
    <2>3. invitations' \in Seq(Sessions!InvitationRow)
      BY <1>0, <2>1, LinkExpired DEF Wear
    <2> QED BY <1>0, <1>1, <2>1, <2>2, <2>3
  <1>24. ASSUME NEW r \in Requests,
                Sessions!RotateRefused(r) \/ Sessions!InsertUserRefused(r) \/ Sessions!ResetRefused(r)
         PROVE  Sessions!TypeOK'
    BY <1>3, <1>24 DEF Sessions!RotateRefused, Sessions!InsertUserRefused, Sessions!ResetRefused
  <1> QED BY <1>4, <1>5, <1>6, <1>7, <1>8, <1>9, <1>10, <1>11, <1>12, <1>13, <1>14, <1>16, <1>17,
             <1>18, <1>19, <1>20, <1>21, <1>22, <1>23, <1>24, AccessSteps

-----------------------------------------------------------------------------
(* Sessions.                                                                 *)

SessionsFine ==
    /\ Sessions!FamiliesNumbered /\ Sessions!SessionsHeld
    /\ Sessions!OneLivePerFamily /\ Sessions!RevocationEndsFamilies
SameSessions == UNCHANGED <<sessions, mark, late>>

\* What a request holds of the sessions.
Holds(r) ==
    /\ pc[r] \in {"refreshing", "rotated", "loggingOut"} => target[r] \in DOMAIN sessions
    /\ pc[r] = "loggingIn" => user[r] \in Names
    /\ pc[r] = "rotated" =>
          /\ Sessions!Live(target[r])
          /\ \A q \in Requests \ {r} : pc[q] = "rotated" => target[q] # target[r]
    /\ Sessions!Revoking(r) =>
          /\ seen[r] <= Len(sessions) /\ snap[r] \subseteq DOMAIN sessions
          /\ \A s \in 1 .. seen[r] :
                Sessions!Live(s) /\ sessions[s].user \in Sessions!RevokesOf(r) => s \in snap[r]

LEMMA HeldByAll == Sessions!SessionsHeld <=> \A r \in Requests : Holds(r)
  BY DEF Sessions!SessionsHeld, Holds, Sessions!Others

LEMMA HeldByAllNext == Sessions!SessionsHeld' <=> \A r \in Requests : Holds(r)'
  BY DEF Sessions!SessionsHeld, Holds, Sessions!Others

\* A request moves on, and the sessions stay.
LEMMA MovesKeepSessions ==
    ASSUME AccessInv, SameSessions, NEW r \in Requests, OnlyMoves(r), Holds(r)'
    PROVE  SessionsFine'
  <1>1. ASSUME NEW q \in Requests, q # r PROVE Holds(q)'
    <2>1. Holds(q) /\ Unmoved(q) /\ sessions' = sessions
      BY <1>1, HeldByAll DEF AccessInv, OnlyMoves, SameSessions
    <2>2. ASSUME pc'[q] = "rotated", NEW x \in Requests \ {q}, pc'[x] = "rotated"
          PROVE  target'[x] # target'[q]
      <3>1. CASE x = r
        BY <1>1, <2>2, <3>1 DEF Holds
      <3>2. CASE x # r
        BY <2>1, <2>2, <3>2 DEF Holds, OnlyMoves, Unmoved
      <3> QED BY <3>1, <3>2
    <2> QED BY <2>1, <2>2 DEF Holds, Unmoved, Sessions!Live, Sessions!Revoking, Sessions!RevokesOf,
                              Sessions!At
  <1>2. Sessions!SessionsHeld'
    BY <1>1, HeldByAllNext
  <1> QED BY <1>2 DEF AccessInv, SessionsFine, SameSessions, Sessions!FamiliesNumbered,
                      Sessions!OneLivePerFamily, Sessions!RevocationEndsFamilies, Sessions!Live

LEMMA StillKeepsSessions ==
    ASSUME AccessInv, SameSessions, \A q \in Requests : Unmoved(q)
    PROVE  SessionsFine'
  <1>1. ASSUME NEW q \in Requests PROVE Holds(q)'
    BY HeldByAll DEF AccessInv, SameSessions, Unmoved, Holds, Sessions!Live, Sessions!Revoking,
                     Sessions!RevokesOf, Sessions!At
  <1>2. Sessions!SessionsHeld'
    BY <1>1, HeldByAllNext
  <1> QED BY <1>2 DEF AccessInv, SessionsFine, SameSessions, Sessions!FamiliesNumbered,
                      Sessions!OneLivePerFamily, Sessions!RevocationEndsFamilies, Sessions!Live

\* The table before a step and after it, its length apart from its rows.
Older(L, M, S) ==
    /\ L = Len(sessions) /\ M = Len(sessions') /\ M \in {L, L + 1}
    /\ DOMAIN sessions = 1 .. L /\ DOMAIN sessions' = 1 .. M
    /\ \A s \in 1 .. L :
          /\ sessions'[s].user = sessions[s].user
          /\ sessions'[s].family = sessions[s].family
          /\ sessions'[s].active => sessions[s].active /\ s \notin S
          /\ sessions[s].active /\ s \notin S => sessions'[s].active
          /\ sessions[s].family \in Nat /\ sessions[s].family >= 1
          /\ sessions[s].family <= s /\ sessions[s].user \in Names
Newest(L, M, n, f) ==
    M # L => M = L + 1 /\ sessions'[M].user = n /\ sessions'[M].family = f

LEMMA Aged ==
    ASSUME AccessInv, NEW S, Age(S)
    PROVE  /\ \E L \in Nat, M \in Nat : Older(L, M, S)
           /\ \A n, f : NoneBegins \/ Begins(n, f) => Newest(Len(sessions), Len(sessions'), n, f)
  <1>1. sessions \in Seq(Sessions!SessionRow) /\ sessions' \in Seq(Sessions!SessionRow)
    BY DEF AccessInv, Sessions!TypeOK, Age
  <1>2. \A s \in 1 .. Len(sessions) :
           /\ sessions[s] \in Sessions!SessionRow
           /\ sessions[s].family \in 1 .. s
    BY <1>1 DEF AccessInv, Sessions!FamiliesNumbered
  <1>3. \A s \in 1 .. Len(sessions) :
           /\ sessions[s].family \in Nat /\ sessions[s].family >= 1
           /\ sessions[s].family <= s /\ sessions[s].user \in Names
    BY <1>2 DEF Sessions!SessionRow
  <1>4. DOMAIN sessions = 1 .. Len(sessions) /\ DOMAIN sessions' = 1 .. Len(sessions')
        /\ Len(sessions) \in Nat /\ Len(sessions') \in Nat
    BY <1>1
  <1>5. \A n, f : NoneBegins \/ Begins(n, f) => Newest(Len(sessions), Len(sessions'), n, f)
    BY DEF NoneBegins, Begins, Newest
  <1>6. \A s \in 1 .. Len(sessions) :
                    /\ sessions'[s].user = sessions[s].user
                    /\ sessions'[s].family = sessions[s].family
                    /\ sessions'[s].active => sessions[s].active /\ s \notin S
                    /\ sessions[s].active /\ s \notin S => sessions'[s].active
    BY DEF Age
  <1>7. Len(sessions') \in {Len(sessions), Len(sessions) + 1}
    BY DEF Age
  <1>8. Older(Len(sessions), Len(sessions'), S)
    <2>1. \A s \in 1 .. Len(sessions) :
             /\ sessions'[s].user = sessions[s].user
             /\ sessions'[s].family = sessions[s].family
             /\ sessions'[s].active => sessions[s].active /\ s \notin S
             /\ sessions[s].active /\ s \notin S => sessions'[s].active
             /\ sessions[s].family \in Nat /\ sessions[s].family >= 1
             /\ sessions[s].family <= s /\ sessions[s].user \in Names
      BY <1>3, <1>6
    <2> QED BY <1>4, <1>7, <2>1, Zenon DEF Older
  <1> QED BY <1>4, <1>5, <1>8, Zenon

\* A request that ends sessions, or begins one, and is done: it leaves alone what others
\* have claimed.
LEMMA OthersStillHold ==
    ASSUME AccessInv, NEW r \in Requests, NEW S, Age(S), OnlyMoves(r), pc'[r] = "idle",
           \A q \in Requests \ {r} : pc[q] = "rotated" => target[q] \notin S
    PROVE  Sessions!SessionsHeld'
  <1>0. PICK L \in Nat, M \in Nat : Older(L, M, S)
    BY Aged
  <1>1. Holds(r)'
    BY DEF Holds, Sessions!Revoking
  <1>2. ASSUME NEW q \in Requests, q # r PROVE Holds(q)'
    <2>1. Holds(q) /\ Unmoved(q)
      BY <1>2, HeldByAll DEF AccessInv, OnlyMoves
    <2>2. pc'[q] \in {"refreshing", "rotated", "loggingOut"} => target'[q] \in DOMAIN sessions'
      BY <1>0, <2>1 DEF Holds, Unmoved, Older
    <2>3. pc'[q] = "loggingIn" => user'[q] \in Names
      BY <2>1 DEF Holds, Unmoved
    <2>4. ASSUME pc'[q] = "rotated"
          PROVE  /\ sessions'[target'[q]].active
                 /\ \A x \in Requests \ {q} : pc'[x] = "rotated" => target'[x] # target'[q]
      <3>1. sessions[target[q]].active /\ target[q] \notin S /\ target[q] \in 1 .. L
        BY <1>0, <1>2, <2>1, <2>4 DEF Older, Holds, Unmoved, Sessions!Live
      <3>2. sessions'[target[q]].active
        BY <1>0, <3>1 DEF Older
      <3> QED BY <2>1, <2>4, <3>1, <3>2 DEF Holds, Unmoved, OnlyMoves
    <2>5. ASSUME Sessions!Revoking(q)'
          PROVE  /\ seen'[q] <= Len(sessions') /\ snap'[q] \subseteq DOMAIN sessions'
                 /\ \A s \in 1 .. seen'[q] :
                       sessions'[s].active /\ sessions'[s].user \in Sessions!RevokesOf(q)' => s \in snap'[q]
      <3>1. /\ Sessions!Revoking(q) /\ seen'[q] = seen[q] /\ snap'[q] = snap[q]
            /\ Sessions!RevokesOf(q)' = Sessions!RevokesOf(q)
        BY <2>1, <2>5 DEF Unmoved, Sessions!Revoking, Sessions!RevokesOf, Sessions!At
      <3>2. /\ seen[q] \in Nat /\ seen[q] <= L /\ snap[q] \subseteq 1 .. L
            /\ \A s \in 1 .. seen[q] :
                  sessions[s].active /\ sessions[s].user \in Sessions!RevokesOf(q) => s \in snap[q]
        BY <1>0, <2>1, <3>1 DEF Older, Holds, Sessions!Live, AccessInv, Sessions!TypeOK
      <3>3. L <= M /\ seen[q] <= M
        BY <1>0, <3>2 DEF Older
      <3>4. \A s \in 1 .. seen[q] : s \in 1 .. L
        BY <3>2
      <3>5. \A s \in 1 .. seen[q] :
                  sessions'[s].active /\ sessions'[s].user \in Sessions!RevokesOf(q) => s \in snap[q]
        BY <1>0, <3>2, <3>4 DEF Older
      <3>6. snap[q] \subseteq 1 .. M
        BY <3>2, <3>3
      <3>7. M = Len(sessions') /\ DOMAIN sessions' = 1 .. M
        BY <1>0 DEF Older
      <3> QED BY <3>1, <3>3, <3>5, <3>6, <3>7
    <2> QED BY <2>2, <2>3, <2>4, <2>5 DEF Holds, Sessions!Live
  <1> QED BY <1>1, <1>2, HeldByAllNext

\* A session that begins is of a new family, or follows the only live one of its family,
\* which ends.
LEMMA FamiliesStayFine ==
    ASSUME AccessInv, NEW S, NEW n, NEW f \in Nat, Age(S), NoneBegins \/ Begins(n, f),
           \/ f = Len(sessions) + 1
           \/ \E t \in S : /\ t \in DOMAIN sessions /\ Sessions!Live(t)
                           /\ sessions[t].family = f /\ sessions[t].user = n
    PROVE  /\ \A s \in DOMAIN sessions' : sessions'[s].family \in 1 .. s
           /\ Sessions!OneLivePerFamily'
  <1>0. PICK L \in Nat, M \in Nat : Older(L, M, S)
    BY Aged
  <1>1. Newest(L, M, n, f)
    BY <1>0, Aged DEF Older
  <1>2. \A s, t \in 1 .. L : sessions[s].active /\ sessions[t].active
                             /\ sessions[s].family = sessions[t].family => s = t
    BY <1>0 DEF Older, AccessInv, Sessions!OneLivePerFamily, Sessions!Live
  <1>3. \/ f = L + 1
        \/ \E t \in S : /\ t \in 1 .. L /\ sessions[t].active
                        /\ sessions[t].family = f /\ sessions[t].user = n
    BY <1>0 DEF Older, Sessions!Live
  <1>4. f >= 1 /\ f <= L + 1
    BY <1>0, <1>3 DEF Older
  <1>5. ASSUME NEW s \in 1 .. M PROVE sessions'[s].family \in 1 .. s
    <2>1. CASE s <= L
      BY <1>0, <2>1 DEF Older
    <2>2. CASE s > L
      BY <1>0, <1>1, <1>4, <2>2 DEF Older, Newest
    <2> QED BY <2>1, <2>2
  <1>6. ASSUME NEW s \in 1 .. L, sessions'[s].active, sessions'[s].family = f PROVE FALSE
    <2>1. sessions[s].active /\ s \notin S /\ sessions[s].family = f
      BY <1>0, <1>6 DEF Older
    <2>2. f # L + 1
      BY <1>0, <2>1 DEF Older
    <2> QED BY <1>2, <1>3, <2>1, <2>2
  <1>7. ASSUME NEW s \in 1 .. M, NEW t \in 1 .. M,
               sessions'[s].active, sessions'[t].active, sessions'[s].family = sessions'[t].family
        PROVE  s = t
    <2>1. CASE s \in 1 .. L /\ t \in 1 .. L
      BY <1>0, <1>2, <1>7, <2>1 DEF Older
    <2>2. CASE s \in 1 .. L /\ t \notin 1 .. L
      BY <1>0, <1>1, <1>6, <1>7, <2>2 DEF Older, Newest
    <2>3. CASE s \notin 1 .. L /\ t \in 1 .. L
      BY <1>0, <1>1, <1>6, <1>7, <2>3 DEF Older, Newest
    <2>4. CASE s \notin 1 .. L /\ t \notin 1 .. L
      BY <1>0, <2>4 DEF Older
    <2> QED BY <2>1, <2>2, <2>3, <2>4
  <1> QED BY <1>0, <1>5, <1>7 DEF Older, Sessions!OneLivePerFamily, Sessions!Live
\* Without a revocation what has been ended stays so.
LEMMA RevokedStaysFine ==
    ASSUME AccessInv, NEW S, NEW n \in Names, NEW f \in Nat, Age(S), UNCHANGED <<mark, late>>,
           NoneBegins \/ Begins(n, f),
           \/ f = Len(sessions) + 1
           \/ \E t \in S : /\ t \in DOMAIN sessions /\ Sessions!Live(t)
                           /\ sessions[t].family = f /\ sessions[t].user = n
    PROVE  Sessions!RevocationEndsFamilies' /\ \A x \in Names : mark'[x] <= Len(sessions')
  <1>0. PICK L \in Nat, M \in Nat : Older(L, M, S)
    BY Aged
  <1>1. Newest(L, M, n, f)
    BY <1>0, Aged DEF Older
  <1>2. \A x \in Names : mark[x] \in Nat /\ mark[x] <= L
    BY <1>0 DEF Older, AccessInv, Sessions!TypeOK, Sessions!FamiliesNumbered
  <1>3. \A s \in 1 .. L : sessions[s].active =>
           sessions[s].family > mark[sessions[s].user] \/ sessions[s].family \in late
    BY <1>0 DEF Older, AccessInv, Sessions!RevocationEndsFamilies, Sessions!Live
  <1>4. \/ f = L + 1
        \/ \E t \in S : /\ t \in 1 .. L /\ sessions[t].active
                        /\ sessions[t].family = f /\ sessions[t].user = n
    BY <1>0 DEF Older, Sessions!Live
  <1>5. f > mark[n] \/ f \in late
    BY <1>2, <1>3, <1>4
  <1>6. ASSUME NEW s \in 1 .. M, sessions'[s].active
        PROVE  sessions'[s].family > mark[sessions'[s].user] \/ sessions'[s].family \in late
    <2>1. CASE s <= L
      BY <1>0, <1>3, <1>6, <2>1 DEF Older
    <2>2. CASE s > L
      BY <1>0, <1>1, <1>5, <2>2 DEF Older, Newest
    <2> QED BY <2>1, <2>2
  <1>7. \A x \in Names : mark[x] <= M
    BY <1>0, <1>2 DEF Older
  <1>8. M = Len(sessions') /\ DOMAIN sessions' = 1 .. M
    BY <1>0 DEF Older
  <1> QED BY <1>6, <1>7, <1>8 DEF Sessions!RevocationEndsFamilies, Sessions!Live

\* A revocation that ends what it saw leaves only families begun since, and those that
\* gained a session while it ran.
LEMMA RevocationIsFine ==
    ASSUME AccessInv, NEW r \in Requests, Sessions!Revoking(r), Age(snap[r]),
           Sessions!RevocationEnds(r, Sessions!RevokesOf(r)), NEW n,
           NoneBegins \/ Begins(n, Len(sessions) + 1), NoneBegins \/ n \in Names
    PROVE  Sessions!RevocationEndsFamilies' /\ \A x \in Names : mark'[x] <= Len(sessions')
  <1> DEFINE N == Sessions!RevokesOf(r)
  <1>0. PICK L \in Nat, M \in Nat : Older(L, M, snap[r])
    BY Aged
  <1>1. Newest(L, M, n, L + 1)
    BY <1>0, Aged DEF Older
  <1>2. \A x \in Names : mark[x] \in Nat /\ mark[x] <= L
    BY <1>0 DEF Older, AccessInv, Sessions!TypeOK, Sessions!FamiliesNumbered
  <1>3. \A s \in 1 .. L : sessions[s].active =>
           sessions[s].family > mark[sessions[s].user] \/ sessions[s].family \in late
    BY <1>0 DEF Older, AccessInv, Sessions!RevocationEndsFamilies, Sessions!Live
  <1>4. /\ \A x \in Names : mark'[x] = IF x \in N THEN L ELSE mark[x]
        /\ \A f \in late : f \in late'
        /\ \A s \in 1 .. L : s > seen[r] => sessions[s].family \in late'
    BY <1>0 DEF Older, Sessions!RevocationEnds
  <1>5. /\ seen[r] \in Nat
        /\ \A s \in 1 .. seen[r] : sessions[s].active /\ sessions[s].user \in N => s \in snap[r]
    BY HeldByAll DEF AccessInv, Sessions!TypeOK, Holds, Sessions!Live
  <1> HIDE DEF N
  <1>6. \A x \in Names : mark'[x] \in Nat /\ mark'[x] <= L
    BY <1>2, <1>4
  <1>7. ASSUME NEW s \in 1 .. M, sessions'[s].active
        PROVE  sessions'[s].family > mark'[sessions'[s].user] \/ sessions'[s].family \in late'
    <2>1. CASE s <= L
      <3>1. /\ s \in 1 .. L /\ sessions[s].active /\ s \notin snap[r]
            /\ sessions'[s].user = sessions[s].user
            /\ sessions'[s].family = sessions[s].family /\ sessions[s].user \in Names
        BY <1>0, <1>7, <2>1 DEF Older
      <3>2. CASE sessions[s].user \in N
        <4>1. s > seen[r]
          BY <1>5, <3>1, <3>2
        <4> QED BY <1>4, <3>1, <4>1
      <3>3. CASE sessions[s].user \notin N
        BY <1>3, <1>4, <3>1, <3>3
      <3> QED BY <3>2, <3>3
    <2>2. CASE s > L
      <3>1. sessions'[s].user = n /\ sessions'[s].family = L + 1 /\ n \in Names
        BY <1>0, <1>1, <2>2 DEF Older, Newest, NoneBegins
      <3> QED BY <1>6, <3>1
    <2> QED BY <2>1, <2>2
  <1>8. M = Len(sessions') /\ DOMAIN sessions' = 1 .. M /\ L <= M
    BY <1>0 DEF Older
  <1>9. \A x \in Names : mark'[x] <= M
    BY <1>6, <1>8
  <1> QED BY <1>7, <1>8, <1>9 DEF Sessions!RevocationEndsFamilies, Sessions!Live

\* Who accepts a link, or resets with it, is the user of the link.
LEMMA InvitedIsNamed ==
    ASSUME AccessInv
    PROVE  \A r \in Requests : pc[r] \in {"created", "resetting"} =>
               target[r] \in DOMAIN invitations /\ user[r] \in Names
  <1>1. \A i \in DOMAIN invitations : invitations[i] \in Sessions!InvitationRow
    BY DEF AccessInv, Sessions!TypeOK
  <1>2. \A i \in DOMAIN invitations : invitations[i].name \in Names
    BY <1>1 DEF Sessions!InvitationRow
  <1> QED BY <1>2 DEF AccessInv, Sessions!LinksHeld

LEMMA StepSessions == ASSUME AccessInv, InSessions, MCNext PROVE SessionsFine'
  <1>0. Sessions!TypeOK /\ (\A q \in Requests : Holds(q)) /\ Len(sessions) + 1 \in Nat
    BY HeldByAll DEF AccessInv, Sessions!TypeOK
  <1>1. SessionsFine' <=> /\ Sessions!FamiliesNumbered' /\ Sessions!SessionsHeld'
                          /\ Sessions!OneLivePerFamily' /\ Sessions!RevocationEndsFamilies'
    BY DEF SessionsFine
  <1>2. ASSUME /\ \A s \in DOMAIN sessions' : sessions'[s].family \in 1 .. s
               /\ \A x \in Names : mark'[x] <= Len(sessions')
        PROVE  Sessions!FamiliesNumbered'
    BY <1>2 DEF Sessions!FamiliesNumbered
  <1>3. \A r \in Requests :
           pc'[r] \notin {"refreshing", "rotated", "loggingOut", "loggingIn",
                          "resetting", "deactivating", "revoking"} => Holds(r)'
    BY DEF Holds, Sessions!Revoking
  <1>4. \A r \in Requests : Sessions!Refuse(r) => SessionsFine'
    <2>1. ASSUME NEW r \in Requests, Sessions!Refuse(r) PROVE SessionsFine'
      <3>1. OnlyMoves(r) /\ pc'[r] = "idle" /\ SameSessions
        BY <1>0, <2>1, Finished DEF Sessions!Refuse, Sessions!rows, Sessions!history, SameSessions
      <3> QED BY <1>3, <3>1, MovesKeepSessions
    <2> QED BY <2>1
  <1>5. ASSUME NEW r \in Requests, NEW n \in Names, Sessions!Login(r, n) PROVE SessionsFine'
    <2>1. "loggingIn" \in Sessions!PCs /\ SameSessions
      BY <1>5 DEF Sessions!PCs, Sessions!Login, Sessions!rows, Sessions!history, SameSessions
    <2>2. OnlyMoves(r) /\ pc'[r] = "loggingIn" /\ user'[r] = n
      BY <1>0, <1>5, <2>1, TookUp DEF Sessions!Login
    <2>3. Holds(r)'
      BY <2>2 DEF Holds, Sessions!Revoking
    <2> QED BY <2>1, <2>2, <2>3, MovesKeepSessions
  <1>6. ASSUME NEW r \in Requests, NEW n \in Names,
               Sessions!CreateUser(r, n) \/ Sessions!DeactivateUser(r, n)
        PROVE  SessionsFine'
    <2>1. SameSessions /\ UNCHANGED Sessions!request
      BY <1>6 DEF Sessions!CreateUser, Sessions!DeactivateUser, Sessions!history, SameSessions
    <2> QED BY <1>0, <2>1, AllUnmoved, StillKeepsSessions
  <1>7. ASSUME NEW r \in Requests, NEW n \in Names, Sessions!ReplaceLinks(r, n)
        PROVE  SessionsFine'
    <2>1. OnlyMoves(r) /\ pc'[r] = "idle" /\ SameSessions
      BY <1>0, <1>7, Finished DEF Sessions!ReplaceLinks, SameSessions
    <2> QED BY <1>3, <2>1, MovesKeepSessions
  <1>8. ASSUME NEW r \in Requests, NEW s \in Sessions!SessionIds,
               Sessions!RefreshRead(r, s) \/ Sessions!LogoutRead(r, s)
        PROVE  SessionsFine'
    <2>1. s \in DOMAIN sessions /\ target' = [target EXCEPT ![r] = s] /\ SameSessions
          /\ UNCHANGED <<user, snap, seen>>
          /\ (Sessions!Goto(r, "refreshing") \/ Sessions!Goto(r, "loggingOut"))
      BY <1>8 DEF Sessions!RefreshRead, Sessions!LogoutRead, Sessions!rows, Sessions!history, SameSessions
    <2>2. OnlyMoves(r) /\ pc'[r] \in {"refreshing", "loggingOut"} /\ target'[r] = s
      BY <1>0, <2>1 DEF Sessions!TypeOK, Sessions!Goto, OnlyMoves, Unmoved
    <2>3. Holds(r)'
      BY <2>1, <2>2 DEF Holds, SameSessions, Sessions!Revoking
    <2> QED BY <2>1, <2>2, <2>3, MovesKeepSessions
  <1>9. ASSUME NEW r \in Requests, NEW i \in Sessions!LinkIds, Sessions!RevokeInvitation(r, i)
        PROVE  SessionsFine'
    <2>1. SameSessions /\ UNCHANGED Sessions!request
      BY <1>9 DEF Sessions!RevokeInvitation, SameSessions
    <2> QED BY <1>0, <2>1, AllUnmoved, StillKeepsSessions
  <1>10. ASSUME NEW r \in Requests, NEW i \in Sessions!LinkIds, Sessions!OpenInvitation(r, i)
         PROVE  SessionsFine'
    <2>1. SameSessions /\ OnlyMoves(r) /\ pc'[r] = "opened"
      BY <1>0, <1>10 DEF Sessions!OpenInvitation, Sessions!rows, Sessions!history, SameSessions,
                         Sessions!TypeOK, Sessions!Goto, OnlyMoves, Unmoved
    <2> QED BY <1>3, <2>1, MovesKeepSessions
  <1>11. ASSUME NEW r \in Requests, NEW p \in {"invite", "reset"}, Sessions!LockClient(r, p)
         PROVE  SessionsFine'
    <2>1. SameSessions /\ OnlyMoves(r) /\ pc'[r] \in {"replacing", "replacingReset"}
      BY <1>0, <1>11 DEF Sessions!LockClient, Sessions!rows, Sessions!history, SameSessions,
                         Sessions!TypeOK, Sessions!Goto, OnlyMoves, Unmoved
    <2> QED BY <1>3, <2>1, MovesKeepSessions
  <1>12. ASSUME NEW r \in Requests, Sessions!Rotate(r) PROVE SessionsFine'
    <2>1. "rotated" \in Sessions!PCs /\ SameSessions
      BY <1>12 DEF Sessions!PCs, Sessions!Rotate, Sessions!rows, Sessions!history, SameSessions
    <2>2. OnlyMoves(r) /\ pc'[r] = "rotated" /\ target'[r] = target[r]
      BY <1>0, <1>12, <2>1, WentOn DEF Sessions!Rotate
    <2>3. target[r] \in DOMAIN sessions /\ Sessions!Live(target[r])
          /\ \A q \in Requests \ {r} : pc[q] = "rotated" => target[q] # target[r]
      BY <1>0, <1>12 DEF Sessions!Rotate, Sessions!SessionBusy, Sessions!Others, Sessions!At, Holds
    <2>4. Holds(r)'
      BY <2>1, <2>2, <2>3 DEF Holds, SameSessions, OnlyMoves, Unmoved, Sessions!Revoking, Sessions!Live
    <2> QED BY <2>1, <2>2, <2>4, MovesKeepSessions
  <1>13. ASSUME NEW r \in Requests, Sessions!InsertUser(r) PROVE SessionsFine'
    <2>1. "created" \in Sessions!PCs /\ SameSessions
      BY <1>13 DEF Sessions!PCs, Sessions!InsertUser, Sessions!rows, Sessions!history, SameSessions
    <2>2. OnlyMoves(r) /\ pc'[r] = "created"
      BY <1>0, <1>13, <2>1, WentOn DEF Sessions!InsertUser
    <2> QED BY <1>3, <2>1, <2>2, MovesKeepSessions
  <1>14. ASSUME NEW r \in Requests,
                \/ Sessions!StartReset(r) /\ pc'[r] = "resetting"
                \/ Sessions!StartDeactivation(r) /\ pc'[r] = "deactivating"
                \/ Sessions!StartRevocation(r) /\ pc'[r] = "revoking"
         PROVE  SessionsFine'
    <2> DEFINE N == Sessions!RevokesOf(r)'
    <2>1. SameSessions
      BY <1>14 DEF Sessions!StartReset, Sessions!StartDeactivation, Sessions!StartRevocation,
                   Sessions!rows, Sessions!history, SameSessions
    <2>2. Sessions!SeeSessions(r, N) /\ UNCHANGED <<target, user>>
      BY <1>14 DEF Sessions!StartReset, Sessions!StartDeactivation, Sessions!StartRevocation,
                   Sessions!RevokesOf, Sessions!At
    <2>3. PICK label \in Sessions!PCs : Sessions!Goto(r, label)
      BY <1>14 DEF Sessions!StartReset, Sessions!StartDeactivation, Sessions!StartRevocation,
                   Sessions!PCs
    <2>4. OnlyMoves(r) /\ snap'[r] = Sessions!LiveOf(N) /\ seen'[r] = Len(sessions)
      BY <1>0, <2>2, <2>3, Saw
    <2>5. pc'[r] \in {"resetting", "deactivating", "revoking"}
      BY <1>14
    <2>6. DOMAIN sessions = 1 .. Len(sessions) /\ Len(sessions) \in Nat
      BY <1>0 DEF Sessions!TypeOK
    <2>7. Holds(r)'
      BY <2>1, <2>4, <2>5, <2>6 DEF Holds, SameSessions, Sessions!LiveOf, Sessions!Live
    <2> QED BY <2>1, <2>4, <2>7, MovesKeepSessions
  <1>15. ASSUME NEW r \in Requests, Sessions!Reactivate(r) PROVE SessionsFine'
    <2>1. SameSessions /\ UNCHANGED Sessions!request
      BY <1>15 DEF Sessions!Reactivate, Sessions!history, SameSessions
    <2> QED BY <1>0, <2>1, AllUnmoved, StillKeepsSessions
  <1>16. ASSUME NEW n \in Names, Sessions!CreateClient(n) \/ Sessions!CreateInvitation(n)
         PROVE  SessionsFine'
    <2>1. SameSessions /\ UNCHANGED Sessions!request
      BY <1>16 DEF Sessions!CreateClient, Sessions!CreateInvitation, Sessions!history, SameSessions
    <2> QED BY <1>0, <2>1, AllUnmoved, StillKeepsSessions
  <1>17. ASSUME NEW i \in Sessions!LinkIds, Sessions!ExpireInvitation(i) PROVE SessionsFine'
    <2>1. SameSessions /\ UNCHANGED Sessions!request
      BY <1>17 DEF Sessions!ExpireInvitation, Sessions!history, SameSessions
    <2> QED BY <1>0, <2>1, AllUnmoved, StillKeepsSessions
  <1>18. ASSUME NEW r \in Requests, Sessions!OpenSession(r) \/ Sessions!AcceptInvitation(r)
         PROVE  SessionsFine'
    <2>1. user[r] \in Names
      BY <1>0, <1>18, InvitedIsNamed DEF Holds, Sessions!OpenSession, Sessions!AcceptInvitation, Sessions!At
    <2>2. /\ sessions' = Append(sessions, Sessions!NewSession(user[r], Len(sessions) + 1))
          /\ Sessions!Finish(r) /\ UNCHANGED <<mark, late>>
      BY <1>18 DEF Sessions!OpenSession, Sessions!AcceptInvitation, Sessions!history
    <2>3. Age({}) /\ Begins(user[r], Len(sessions) + 1)
      BY <1>0, <2>1, <2>2, SessionAdded
    <2>4. OnlyMoves(r) /\ pc'[r] = "idle"
      BY <1>0, <2>2, Finished
    <2>5. Sessions!SessionsHeld'
      BY <2>3, <2>4, OthersStillHold
    <2>6. (\A s \in DOMAIN sessions' : sessions'[s].family \in 1 .. s) /\ Sessions!OneLivePerFamily'
      BY <1>0, <2>3, FamiliesStayFine
    <2>7. Sessions!RevocationEndsFamilies' /\ \A x \in Names : mark'[x] <= Len(sessions')
      BY <1>0, <2>1, <2>2, <2>3, RevokedStaysFine
    <2> QED BY <1>1, <1>2, <2>5, <2>6, <2>7
  <1>19. ASSUME NEW r \in Requests, Sessions!CommitRotation(r) PROVE SessionsFine'
    <2> DEFINE t == target[r]
               n == sessions[t].user
               f == sessions[t].family
    <2>1. t \in DOMAIN sessions /\ Sessions!Live(t)
          /\ \A q \in Requests \ {r} : pc[q] = "rotated" => target[q] # t
      BY <1>0, <1>19 DEF Holds, Sessions!CommitRotation, Sessions!At
    <2>2. n \in Names /\ f \in Nat
      <3>1. sessions[t] \in Sessions!SessionRow
        BY <1>0, <2>1 DEF Sessions!TypeOK
      <3> QED BY <3>1 DEF Sessions!SessionRow
    <2>3. /\ sessions' = Append(Sessions!Ended({t}), Sessions!NewSession(n, f))
          /\ Sessions!Finish(r) /\ UNCHANGED <<mark, late>>
      BY <1>19 DEF Sessions!CommitRotation, Sessions!history
    <2>4. Age({t}) /\ Begins(n, f)
      BY <1>0, <2>2, <2>3, SessionBegun
    <2>5. OnlyMoves(r) /\ pc'[r] = "idle"
      BY <1>0, <2>3, Finished
    <2>6. Sessions!SessionsHeld'
      BY <2>1, <2>4, <2>5, OthersStillHold
    <2>7. \E x \in {t} : x \in DOMAIN sessions /\ Sessions!Live(x)
                         /\ sessions[x].family = f /\ sessions[x].user = n
      BY <2>1
    <2> HIDE DEF t, n, f
    <2>8. (\A s \in DOMAIN sessions' : sessions'[s].family \in 1 .. s) /\ Sessions!OneLivePerFamily'
      BY <2>2, <2>4, <2>7, FamiliesStayFine
    <2>9. Sessions!RevocationEndsFamilies' /\ \A x \in Names : mark'[x] <= Len(sessions')
      BY <2>2, <2>3, <2>4, <2>7, RevokedStaysFine
    <2> QED BY <1>1, <1>2, <2>6, <2>8, <2>9
  <1>20. ASSUME NEW r \in Requests, Sessions!Logout(r) PROVE SessionsFine'
    <2> DEFINE t == target[r]
               n == sessions[t].user
    <2>1. t \in DOMAIN sessions /\ \A q \in Requests \ {r} : pc[q] = "rotated" => target[q] # t
      BY <1>0, <1>20 DEF Holds, Sessions!Logout, Sessions!At, Sessions!SessionBusy, Sessions!Others
    <2>2. n \in Names
      <3>1. sessions[t] \in Sessions!SessionRow
        BY <1>0, <2>1 DEF Sessions!TypeOK
      <3> QED BY <3>1 DEF Sessions!SessionRow
    <2>3. sessions' = Sessions!Ended({t}) /\ Sessions!Finish(r) /\ UNCHANGED <<mark, late>>
      BY <1>20 DEF Sessions!Logout, Sessions!history
    <2>4. Age({t}) /\ NoneBegins
      BY <1>0, <2>3, SessionsEnded
    <2>5. OnlyMoves(r) /\ pc'[r] = "idle"
      BY <1>0, <2>3, Finished
    <2>6. Sessions!SessionsHeld'
      BY <2>1, <2>4, <2>5, OthersStillHold
    <2> HIDE DEF t, n
    <2>7. (\A s \in DOMAIN sessions' : sessions'[s].family \in 1 .. s) /\ Sessions!OneLivePerFamily'
      BY <1>0, <2>4, FamiliesStayFine
    <2>8. Sessions!RevocationEndsFamilies' /\ \A x \in Names : mark'[x] <= Len(sessions')
      BY <1>0, <2>2, <2>3, <2>4, RevokedStaysFine
    <2> QED BY <1>1, <1>2, <2>6, <2>7, <2>8
  <1>21. ASSUME NEW r \in Requests, Sessions!FinishReset(r) \/ Sessions!FinishDeactivation(r)
         PROVE  SessionsFine'
    <2>1. /\ Sessions!Revoking(r) /\ Sessions!CanRevoke(r) /\ Sessions!Finish(r)
          /\ Sessions!RevocationEnds(r, Sessions!RevokesOf(r))
      BY <1>21 DEF Sessions!FinishReset, Sessions!FinishDeactivation, Sessions!Revoking,
                   Sessions!RevokesOf, Sessions!At
    <2>2. Age(snap[r]) /\ (NoneBegins \/ Begins(user[r], Len(sessions) + 1))
          /\ (NoneBegins \/ user[r] \in Names)
      <3>1. CASE Sessions!FinishReset(r)
        <4>1. user[r] \in Names
          BY <1>0, <3>1, InvitedIsNamed DEF Sessions!FinishReset, Sessions!At
        <4> QED BY <1>0, <3>1, <4>1, SessionBegun DEF Sessions!FinishReset
      <3>2. CASE Sessions!FinishDeactivation(r)
        BY <1>0, <3>2, SessionsEnded DEF Sessions!FinishDeactivation
      <3> QED BY <1>21, <3>1, <3>2
    <2>3. OnlyMoves(r) /\ pc'[r] = "idle"
      BY <1>0, <2>1, Finished
    <2>4. \A q \in Requests \ {r} : pc[q] = "rotated" => target[q] \notin snap[r]
      BY <2>1 DEF Sessions!CanRevoke, Sessions!SessionBusy, Sessions!Others
    <2>5. Sessions!SessionsHeld'
      BY <2>2, <2>3, <2>4, OthersStillHold
    <2>6. (\A s \in DOMAIN sessions' : sessions'[s].family \in 1 .. s) /\ Sessions!OneLivePerFamily'
      BY <1>0, <2>2, FamiliesStayFine
    <2>7. Sessions!RevocationEndsFamilies' /\ \A x \in Names : mark'[x] <= Len(sessions')
      BY <2>1, <2>2, RevocationIsFine
    <2> QED BY <1>1, <1>2, <2>5, <2>6, <2>7
  <1>22. ASSUME NEW r \in Requests,
                Sessions!RotateRefused(r) \/ Sessions!InsertUserRefused(r) \/ Sessions!ResetRefused(r)
         PROVE  SessionsFine'
    BY <1>4, <1>22 DEF Sessions!RotateRefused, Sessions!InsertUserRefused, Sessions!ResetRefused
  <1>23. ASSUME NEW r \in Requests,
                Sessions!StartReset(r) \/ Sessions!StartDeactivation(r) \/ Sessions!StartRevocation(r)
         PROVE  SessionsFine'
    <2>1. \A label \in Sessions!PCs : Sessions!Goto(r, label) => pc'[r] = label
      BY <1>0 DEF Sessions!TypeOK, Sessions!Goto
    <2>2. {"resetting", "deactivating", "revoking"} \subseteq Sessions!PCs
      BY DEF Sessions!PCs
    <2> QED BY <1>14, <1>23, <2>1, <2>2
            DEF Sessions!StartReset, Sessions!StartDeactivation, Sessions!StartRevocation
  <1> QED BY <1>5, <1>6, <1>7, <1>8, <1>9, <1>10, <1>11, <1>12, <1>13, <1>15, <1>16, <1>17, <1>18,
             <1>19, <1>20, <1>21, <1>22, <1>23, AccessSteps

-----------------------------------------------------------------------------
(* Links.                                                                    *)

\* What a request holds of the links.
AtLink(r) == pc[r] \in {"opened", "created", "resetting"}
Opened(r) ==
    /\ AtLink(r) => /\ target[r] \in DOMAIN invitations /\ target[r] \notin barred
                    /\ user[r] = invitations[target[r]].name
    /\ pc[r] = "created" => invitations[target[r]].purpose = "invite"
    /\ pc[r] = "resetting" =>
          /\ invitations[target[r]].purpose = "reset" /\ ~invitations[target[r]].accepted
          /\ \A q \in Requests \ {r} : pc[q] = "resetting" => target[q] # target[r]
LinkTable ==
    /\ Len(invitations) <= limit.links
    /\ \A i \in 1 .. limit.links :
          uses[i] # 0 => i \in DOMAIN invitations /\ invitations[i].accepted /\ uses[i] = 1
    /\ \A i \in barred :
          i \in DOMAIN invitations /\ invitations[i].revoked /\ ~invitations[i].accepted
SameLinks == UNCHANGED <<limit, invitations, barred, uses>>

LEMMA OpenedByAll == Sessions!LinksHeld <=> LinkTable /\ \A r \in Requests : Opened(r)
  BY DEF Sessions!LinksHeld, LinkTable, Opened, AtLink, Sessions!Others

LEMMA OpenedByAllNext == Sessions!LinksHeld' <=> LinkTable' /\ \A r \in Requests : Opened(r)'
  BY DEF Sessions!LinksHeld, LinkTable, Opened, AtLink, Sessions!Others

\* A request moves on, and the links stay.
LEMMA MovesKeepLinks ==
    ASSUME AccessInv, SameLinks, NEW r \in Requests, OnlyMoves(r), Opened(r)'
    PROVE  Sessions!LinksHeld'
  <1>0. LinkTable /\ \A q \in Requests : Opened(q)
    BY OpenedByAll DEF AccessInv
  <1>1. ASSUME NEW q \in Requests, q # r PROVE Opened(q)'
    <2>1. Opened(q) /\ Unmoved(q) /\ invitations' = invitations /\ barred' = barred
      BY <1>0, <1>1 DEF OnlyMoves, SameLinks
    <2>2. ASSUME pc'[q] = "resetting", NEW x \in Requests \ {q}, pc'[x] = "resetting"
          PROVE  target'[x] # target'[q]
      <3>1. CASE x = r
        BY <1>1, <2>2, <3>1 DEF Opened
      <3>2. CASE x # r
        BY <2>1, <2>2, <3>2 DEF Opened, OnlyMoves, Unmoved
      <3> QED BY <3>1, <3>2
    <2> QED BY <2>1, <2>2 DEF Opened, AtLink, Unmoved
  <1>2. LinkTable'
    BY <1>0 DEF LinkTable, SameLinks
  <1> QED BY <1>1, <1>2, OpenedByAllNext

\* Links are made, revoked or expired; who is at a link stays there or is done.
LEMMA WornLinksAreHeld ==
    ASSUME AccessInv, Wear, NoneAccepted, Len(invitations') <= limit.links,
           limit' = limit, uses' = uses,
           \A q \in Requests : Unmoved(q) \/ pc'[q] = "idle",
           \A i \in barred' : i \in barred \/
               /\ i \in DOMAIN invitations /\ invitations'[i].revoked /\ ~invitations[i].accepted
               /\ \A q \in Requests : AtLink(q) => target[q] # i
    PROVE  Sessions!LinksHeld'
  <1> DEFINE L == Len(invitations)
             M == Len(invitations')
  <1>0. LinkTable /\ \A q \in Requests : Opened(q)
    BY OpenedByAll DEF AccessInv
  <1>1. /\ L \in Nat /\ M \in Nat /\ L <= M /\ M <= limit.links
        /\ DOMAIN invitations = 1 .. L /\ DOMAIN invitations' = 1 .. M
    BY DEF AccessInv, Sessions!TypeOK, Wear
  <1>2. \A i \in 1 .. L :
          /\ invitations'[i].name = invitations[i].name
          /\ invitations'[i].purpose = invitations[i].purpose
          /\ invitations[i].accepted <=> invitations'[i].accepted
          /\ invitations[i].revoked => invitations'[i].revoked
    BY DEF Wear, NoneAccepted
  <1>3. \A i \in 1 .. L : i \in 1 .. M
    BY <1>1
  <1>4. M = Len(invitations')
    OBVIOUS
  <1> HIDE DEF L, M
  <1>5. ASSUME NEW q \in Requests PROVE Opened(q)'
    <2>1. CASE pc'[q] = "idle"
      BY <2>1 DEF Opened, AtLink
    <2>2. CASE Unmoved(q) /\ pc'[q] # "idle"
      <3>1. Opened(q) /\ AtLink(q)' = AtLink(q)
        BY <1>0, <2>2 DEF Unmoved, AtLink
      <3>2. AtLink(q) => /\ target[q] \in 1 .. L /\ target'[q] = target[q] /\ user'[q] = user[q]
                         /\ target[q] \notin barred' /\ user[q] = invitations[target[q]].name
        BY <1>1, <2>2, <3>1 DEF Opened, Unmoved
      <3>3. pc'[q] = "resetting" =>
               \A x \in Requests \ {q} : pc'[x] = "resetting" => target'[x] # target'[q]
        BY <2>2, <3>1 DEF Opened, Unmoved
      <3>4. pc'[q] = pc[q]
        BY <2>2 DEF Unmoved
      <3> QED BY <1>1, <1>2, <1>3, <3>1, <3>2, <3>3, <3>4 DEF Opened, AtLink
    <2> QED BY <2>1, <2>2
  <1>6. LinkTable'
    <2>1. \A i \in 1 .. limit.links :
             uses[i] # 0 => i \in 1 .. M /\ invitations'[i].accepted /\ uses[i] = 1
      BY <1>0, <1>1, <1>2, <1>3 DEF LinkTable
    <2>2. \A i \in barred' : i \in 1 .. M /\ invitations'[i].revoked /\ ~invitations'[i].accepted
      BY <1>0, <1>1, <1>2, <1>3 DEF LinkTable
    <2> QED BY <1>1, <1>4, <2>1, <2>2 DEF LinkTable
  <1> QED BY <1>5, <1>6, OpenedByAllNext

\* The one who holds a link uses it, and is done.
LEMMA UsedLinkIsHeld ==
    ASSUME AccessInv, NEW r \in Requests, OnlyMoves(r), pc'[r] = "idle",
           (pc[r] = "created" /\ ~invitations[target[r]].accepted) \/ pc[r] = "resetting",
           invitations' = [invitations EXCEPT ![target[r]].accepted = TRUE],
           Sessions!Used(target[r]), UNCHANGED <<limit, barred>>
    PROVE  Sessions!LinksHeld'
  <1> DEFINE t == target[r]
  <1>0. LinkTable /\ (\A q \in Requests : Opened(q)) /\ Sessions!TypeOK
    BY OpenedByAll DEF AccessInv
  <1>1. /\ t \in DOMAIN invitations /\ t \notin barred /\ ~invitations[t].accepted
        /\ \A q \in Requests \ {r} : pc[q] = "resetting" => target[q] # t
    BY <1>0 DEF Opened, AtLink
  <1>2. /\ Wear /\ NoLinkMade /\ invitations'[t].accepted
        /\ \A j \in 1 .. Len(invitations) : j # t => invitations'[j] = invitations[j]
    BY <1>0, <1>1, LinkAccepted
  <1>3. /\ DOMAIN invitations = 1 .. Len(invitations) /\ DOMAIN invitations' = 1 .. Len(invitations)
        /\ Len(invitations') = Len(invitations) /\ Len(invitations) \in Nat
    BY <1>0, <1>2 DEF Sessions!TypeOK, Wear, NoLinkMade
  <1>4. t \in 1 .. limit.links /\ uses[t] = 0
    BY <1>0, <1>1, <1>3, AccessConstants DEF LinkTable, Sessions!TypeOK
  <1>5. uses'[t] = 1 /\ \A j \in 1 .. limit.links : j # t => uses'[j] = uses[j]
    BY <1>0, <1>4, LinkUsed
  <1>6. \A j \in 1 .. Len(invitations) : invitations'[j].name = invitations[j].name
                                         /\ invitations'[j].purpose = invitations[j].purpose
    BY <1>2 DEF Wear
  <1> HIDE DEF t
  <1>7. ASSUME NEW q \in Requests PROVE Opened(q)'
    <2>1. CASE q = r
      BY <2>1 DEF Opened, AtLink
    <2>2. CASE q # r
      <3>1. Opened(q) /\ Unmoved(q)
        BY <1>0, <2>2 DEF OnlyMoves
      <3>2. \A x \in Requests \ {q} : pc'[x] = "resetting" => pc[x] = "resetting" /\ target'[x] = target[x]
        BY DEF OnlyMoves, Unmoved
      <3>3. pc'[q] = "resetting" => /\ target[q] # t /\ target[q] \in 1 .. Len(invitations)
                                    /\ invitations'[target[q]] = invitations[target[q]]
        BY <1>1, <1>2, <1>3, <2>2, <3>1 DEF Opened, AtLink, Unmoved
      <3>4. /\ pc'[q] = pc[q] /\ target'[q] = target[q] /\ user'[q] = user[q]
            /\ barred' = barred /\ AtLink(q)' = AtLink(q)
        BY <1>2, <3>1 DEF Unmoved, AtLink, Wear, NoLinkMade
      <3>5. ASSUME AtLink(q)
            PROVE  /\ target[q] \in DOMAIN invitations' /\ target[q] \notin barred
                   /\ user[q] = invitations'[target[q]].name
                   /\ invitations'[target[q]].purpose = invitations[target[q]].purpose
        <4>1. /\ target[q] \in DOMAIN invitations /\ target[q] \notin barred
              /\ user[q] = invitations[target[q]].name
          BY <3>1, <3>5 DEF Opened
        <4> QED BY <1>3, <1>6, <4>1, Zenon
      <3>6. pc[q] \in {"created", "resetting"} => AtLink(q)
        BY DEF AtLink
      <3>7. pc[q] = "created" => invitations'[target[q]].purpose = "invite"
        BY <3>1, <3>5, <3>6 DEF Opened
      <3>8. pc[q] = "resetting" =>
              /\ invitations'[target[q]].purpose = "reset" /\ ~invitations'[target[q]].accepted
              /\ \A x \in Requests \ {q} : pc'[x] = "resetting" => target'[x] # target[q]
        <4> HAVE pc[q] = "resetting"
        <4>1. /\ invitations[target[q]].purpose = "reset" /\ ~invitations[target[q]].accepted
              /\ \A x \in Requests \ {q} : pc[x] = "resetting" => target[x] # target[q]
          BY <3>1 DEF Opened
        <4>2. invitations'[target[q]] = invitations[target[q]]
          BY <3>3, <3>4
        <4> QED BY <3>2, <4>1, <4>2, Zenon
      <3> QED BY <3>4, <3>5, <3>7, <3>8, Zenon DEF Opened
    <2> QED BY <2>1, <2>2
  <1>8. LinkTable'
    <2>1. Len(invitations') <= limit'.links
      BY <1>0, <1>3 DEF LinkTable
    <2>2. ASSUME NEW i \in 1 .. limit.links, uses'[i] # 0
          PROVE  i \in DOMAIN invitations' /\ invitations'[i].accepted /\ uses'[i] = 1
      BY <1>0, <1>1, <1>2, <1>3, <1>5, <2>2 DEF LinkTable
    <2>3. ASSUME NEW i \in barred
          PROVE  i \in DOMAIN invitations' /\ invitations'[i].revoked /\ ~invitations'[i].accepted
      BY <1>0, <1>1, <1>2, <1>3, <2>3 DEF LinkTable
    <2> QED BY <2>1, <2>2, <2>3 DEF LinkTable
  <1> QED BY <1>7, <1>8, OpenedByAllNext

LEMMA StepLinks == ASSUME AccessInv, InSessions, MCNext PROVE Sessions!LinksHeld'
  <1>0. /\ Sessions!TypeOK /\ LinkTable /\ (\A q \in Requests : Opened(q))
        /\ Len(invitations) \in Nat /\ limit.links \in Nat
    BY OpenedByAll, AccessConstants DEF AccessInv, Sessions!TypeOK
  <1>1. \A r \in Requests : pc'[r] \notin {"opened", "created", "resetting"} => Opened(r)'
    BY DEF Opened, AtLink
  <1>2. \A r \in Requests :
           Sessions!Finish(r) /\ SameLinks => Sessions!LinksHeld'
    <2>1. \A r \in Requests : Sessions!Finish(r) => OnlyMoves(r) /\ pc'[r] = "idle"
      BY <1>0, Finished
    <2> QED BY <1>1, <2>1, MovesKeepLinks
  <1>3. ASSUME UNCHANGED Sessions!request PROVE \A q \in Requests : Unmoved(q) \/ pc'[q] = "idle"
    BY <1>0, <1>3, AllUnmoved
  <1>4. ASSUME SameLinks, UNCHANGED Sessions!request PROVE Sessions!LinksHeld'
    <2>1. Wear /\ NoneAccepted
      BY <1>0, <1>4 DEF SameLinks, Wear, NoneAccepted, Sessions!TypeOK
    <2> QED BY <1>0, <1>3, <1>4, <2>1, WornLinksAreHeld DEF SameLinks, LinkTable
  <1>5. ASSUME NEW n, NEW p, Wear, LinkMade(n, p) \/ NoLinkMade, Sessions!RoomForLink \/ NoLinkMade
        PROVE  Len(invitations') <= limit.links
    BY <1>0, <1>5 DEF LinkMade, NoLinkMade, Sessions!RoomForLink, LinkTable
  <1>6. ASSUME NEW I, I \subseteq DOMAIN invitations, Sessions!Bar(I),
               \A i \in 1 .. Len(invitations) : i \in I => invitations'[i].revoked
        PROVE  \A i \in barred' : i \in barred \/
               /\ i \in DOMAIN invitations /\ invitations'[i].revoked /\ ~invitations[i].accepted
               /\ \A q \in Requests : AtLink(q) => target[q] # i
    <2>1. DOMAIN invitations = 1 .. Len(invitations)
      BY <1>0 DEF Sessions!TypeOK
    <2> QED BY <1>6, <2>1 DEF Sessions!Bar, AtLink
  <1>7. ASSUME NEW r \in Requests, NEW n \in Names, Sessions!Login(r, n) PROVE Sessions!LinksHeld'
    <2>1. "loggingIn" \in Sessions!PCs /\ SameLinks
      BY <1>7 DEF Sessions!PCs, Sessions!Login, Sessions!rows, Sessions!history, SameLinks
    <2>2. OnlyMoves(r) /\ pc'[r] = "loggingIn"
      BY <1>0, <1>7, <2>1, TookUp DEF Sessions!Login
    <2> QED BY <1>1, <2>1, <2>2, MovesKeepLinks
  <1>8. ASSUME NEW r \in Requests, NEW n \in Names,
               Sessions!CreateUser(r, n) \/ Sessions!DeactivateUser(r, n)
        PROVE  Sessions!LinksHeld'
    <2>1. SameLinks /\ UNCHANGED Sessions!request
      BY <1>8 DEF Sessions!CreateUser, Sessions!DeactivateUser, Sessions!history, SameLinks
    <2> QED BY <1>4, <2>1
  <1>9. ASSUME NEW r \in Requests, NEW n \in Names, Sessions!ReplaceLinks(r, n)
        PROVE  Sessions!LinksHeld'
    <2>1. PICK p \in {"invite", "reset"} :
             invitations' = Append(Sessions!Revoked(snap[r]), Sessions!NewLink(n, p))
      BY <1>9 DEF Sessions!ReplaceLinks
    <2>2. /\ Wear /\ NoneAccepted /\ LinkMade(n, p)
          /\ \A i \in 1 .. Len(invitations) : i \in snap[r] => invitations'[i].revoked
      BY <1>0, <2>1, LinksReplaced
    <2>3. /\ Sessions!RoomForLink /\ Sessions!Bar(snap[r]) /\ Sessions!Finish(r)
          /\ limit' = limit /\ uses' = uses
          /\ pc[r] \in {"replacing", "replacingReset"}
      BY <1>9 DEF Sessions!ReplaceLinks, Sessions!At
    <2>4. snap[r] \subseteq DOMAIN invitations
      BY <2>3 DEF AccessInv, Sessions!ClientHeld
    <2>5. \A q \in Requests : Unmoved(q) \/ pc'[q] = "idle"
      BY <1>0, <2>3, Finished DEF OnlyMoves
    <2>6. Len(invitations') <= limit.links
      BY <1>5, <2>2, <2>3
    <2>7. \A i \in barred' : i \in barred \/
               /\ i \in DOMAIN invitations /\ invitations'[i].revoked /\ ~invitations[i].accepted
               /\ \A q \in Requests : AtLink(q) => target[q] # i
      BY <1>6, <2>2, <2>3, <2>4
    <2> QED BY <2>2, <2>3, <2>5, <2>6, <2>7, WornLinksAreHeld
  <1>10. ASSUME NEW r \in Requests, NEW s \in Sessions!SessionIds,
                Sessions!RefreshRead(r, s) \/ Sessions!LogoutRead(r, s)
         PROVE  Sessions!LinksHeld'
    <2>1. SameLinks /\ (Sessions!Goto(r, "refreshing") \/ Sessions!Goto(r, "loggingOut"))
          /\ target' = [target EXCEPT ![r] = s] /\ UNCHANGED <<user, snap, seen>>
      BY <1>10 DEF Sessions!RefreshRead, Sessions!LogoutRead, Sessions!rows, Sessions!history, SameLinks
    <2>2. OnlyMoves(r) /\ pc'[r] \in {"refreshing", "loggingOut"}
      BY <1>0, <2>1 DEF Sessions!TypeOK, Sessions!Goto, OnlyMoves, Unmoved
    <2> QED BY <1>1, <2>1, <2>2, MovesKeepLinks
  <1>11. ASSUME NEW r \in Requests, NEW i \in Sessions!LinkIds, Sessions!RevokeInvitation(r, i)
         PROVE  Sessions!LinksHeld'
    <2>1. /\ invitations' = Sessions!Revoked({i}) /\ Sessions!Bar({i})
          /\ {i} \subseteq DOMAIN invitations /\ UNCHANGED Sessions!request
          /\ limit' = limit /\ uses' = uses
      BY <1>11 DEF Sessions!RevokeInvitation
    <2>2. /\ Wear /\ NoneAccepted /\ NoLinkMade
          /\ \A j \in 1 .. Len(invitations) : j \in {i} => invitations'[j].revoked
      BY <1>0, <2>1, LinksRevoked
    <2>3. Len(invitations') <= limit.links
      BY <1>5, <2>2
    <2>4. \A q \in Requests : Unmoved(q) \/ pc'[q] = "idle"
      BY <1>3, <2>1
    <2>5. \A j \in barred' : j \in barred \/
               /\ j \in DOMAIN invitations /\ invitations'[j].revoked /\ ~invitations[j].accepted
               /\ \A q \in Requests : AtLink(q) => target[q] # j
      BY <1>6, <2>1, <2>2
    <2> QED BY <2>1, <2>2, <2>3, <2>4, <2>5, WornLinksAreHeld
  <1>12. ASSUME NEW r \in Requests, NEW i \in Sessions!LinkIds, Sessions!OpenInvitation(r, i)
         PROVE  Sessions!LinksHeld'
    <2>1. SameLinks /\ OnlyMoves(r) /\ pc'[r] = "opened" /\ target'[r] = i
          /\ user'[r] = invitations[i].name
      BY <1>0, <1>12 DEF Sessions!OpenInvitation, Sessions!rows, Sessions!history, SameLinks,
                         Sessions!TypeOK, Sessions!Goto, OnlyMoves, Unmoved
    <2>2. i \in DOMAIN invitations /\ ~invitations[i].revoked
      BY <1>12 DEF Sessions!OpenInvitation, Sessions!Pending
    <2>3. i \notin barred
      BY <1>0, <2>2 DEF LinkTable
    <2>4. Opened(r)'
      BY <2>1, <2>2, <2>3 DEF Opened, AtLink, SameLinks
    <2> QED BY <2>1, <2>4, MovesKeepLinks
  <1>13. ASSUME NEW r \in Requests, NEW p \in {"invite", "reset"}, Sessions!LockClient(r, p)
         PROVE  Sessions!LinksHeld'
    <2>1. SameLinks /\ OnlyMoves(r) /\ pc'[r] \in {"replacing", "replacingReset"}
      BY <1>0, <1>13 DEF Sessions!LockClient, Sessions!rows, Sessions!history, SameLinks,
                         Sessions!TypeOK, Sessions!Goto, OnlyMoves, Unmoved
    <2> QED BY <1>1, <2>1, MovesKeepLinks
  <1>14. ASSUME NEW r \in Requests,
                Sessions!OpenSession(r) \/ Sessions!CommitRotation(r) \/ Sessions!Logout(r)
                \/ Sessions!FinishDeactivation(r)
         PROVE  Sessions!LinksHeld'
    BY <1>2, <1>14 DEF Sessions!OpenSession, Sessions!CommitRotation, Sessions!Logout,
                       Sessions!FinishDeactivation, Sessions!history, SameLinks
  <1>15. ASSUME NEW r \in Requests, Sessions!Rotate(r) PROVE Sessions!LinksHeld'
    <2>1. "rotated" \in Sessions!PCs /\ SameLinks
      BY <1>15 DEF Sessions!PCs, Sessions!Rotate, Sessions!rows, Sessions!history, SameLinks
    <2>2. OnlyMoves(r) /\ pc'[r] = "rotated"
      BY <1>0, <1>15, <2>1, WentOn DEF Sessions!Rotate
    <2> QED BY <1>1, <2>1, <2>2, MovesKeepLinks
  <1>16. ASSUME NEW r \in Requests, Sessions!InsertUser(r) PROVE Sessions!LinksHeld'
    <2>1. "created" \in Sessions!PCs /\ SameLinks
      BY <1>16 DEF Sessions!PCs, Sessions!InsertUser, Sessions!rows, Sessions!history, SameLinks
    <2>2. OnlyMoves(r) /\ pc'[r] = "created" /\ target'[r] = target[r] /\ user'[r] = user[r]
      BY <1>0, <1>16, <2>1, WentOn DEF Sessions!InsertUser
    <2>3. pc[r] = "opened" /\ invitations[target[r]].purpose = "invite" /\ Opened(r)
      BY <1>0, <1>16 DEF Sessions!InsertUser, Sessions!At
    <2>4. Opened(r)'
      BY <2>1, <2>2, <2>3 DEF Opened, AtLink, SameLinks
    <2> QED BY <2>1, <2>2, <2>4, MovesKeepLinks
  <1>17. ASSUME NEW r \in Requests, Sessions!StartReset(r) PROVE Sessions!LinksHeld'
    <2>1. "resetting" \in Sessions!PCs /\ SameLinks
      BY <1>17 DEF Sessions!PCs, Sessions!StartReset, Sessions!rows, Sessions!history, SameLinks
    <2>2. OnlyMoves(r) /\ pc'[r] = "resetting" /\ target'[r] = target[r] /\ user'[r] = user[r]
      BY <1>0, <1>17, <2>1, Saw DEF Sessions!StartReset
    <2>3. /\ pc[r] = "opened" /\ invitations[target[r]].purpose = "reset" /\ Opened(r)
          /\ ~invitations[target[r]].accepted
          /\ \A q \in Requests \ {r} : pc[q] = "resetting" => target[q] # target[r]
      BY <1>0, <1>17 DEF Sessions!StartReset, Sessions!At, Sessions!LinkBusy, Sessions!Others
    <2>4. Opened(r)'
      BY <2>1, <2>2, <2>3 DEF Opened, AtLink, SameLinks, OnlyMoves, Unmoved
    <2> QED BY <2>1, <2>2, <2>4, MovesKeepLinks
  <1>18. ASSUME NEW r \in Requests, Sessions!StartDeactivation(r) \/ Sessions!StartRevocation(r)
         PROVE  Sessions!LinksHeld'
    <2>1. "deactivating" \in Sessions!PCs /\ "revoking" \in Sessions!PCs /\ SameLinks
      BY <1>18 DEF Sessions!PCs, Sessions!StartDeactivation, Sessions!StartRevocation,
                   Sessions!rows, Sessions!history, SameLinks
    <2>2. OnlyMoves(r) /\ pc'[r] \in {"deactivating", "revoking"}
      BY <1>0, <1>18, <2>1, Saw DEF Sessions!StartDeactivation, Sessions!StartRevocation
    <2> QED BY <1>1, <2>1, <2>2, MovesKeepLinks
  <1>19. ASSUME NEW r \in Requests, Sessions!AcceptInvitation(r) \/ Sessions!FinishReset(r)
         PROVE  Sessions!LinksHeld'
    <2>1. /\ (pc[r] = "created" /\ ~invitations[target[r]].accepted) \/ pc[r] = "resetting"
          /\ invitations' = [invitations EXCEPT ![target[r]].accepted = TRUE]
          /\ Sessions!Used(target[r]) /\ Sessions!Finish(r) /\ UNCHANGED <<limit, barred>>
      BY <1>19 DEF Sessions!AcceptInvitation, Sessions!FinishReset, Sessions!At
    <2>2. OnlyMoves(r) /\ pc'[r] = "idle"
      BY <1>0, <2>1, Finished
    <2> QED BY <2>1, <2>2, UsedLinkIsHeld
  <1>20. ASSUME NEW r \in Requests, Sessions!Reactivate(r) PROVE Sessions!LinksHeld'
    <2>1. SameLinks /\ UNCHANGED Sessions!request
      BY <1>20 DEF Sessions!Reactivate, Sessions!history, SameLinks
    <2> QED BY <1>4, <2>1
  <1>21. ASSUME NEW n \in Names, Sessions!CreateClient(n) \/ Sessions!CreateInvitation(n)
         PROVE  Sessions!LinksHeld'
    <2>1. /\ Sessions!RoomForLink /\ invitations' = Append(invitations, Sessions!NewLink(n, "invite"))
          /\ UNCHANGED Sessions!request /\ limit' = limit /\ uses' = uses /\ barred' = barred
      BY <1>21 DEF Sessions!CreateClient, Sessions!CreateInvitation, Sessions!history
    <2>2. Wear /\ NoneAccepted /\ LinkMade(n, "invite")
      BY <1>0, <2>1, LinkAdded
    <2>3. Len(invitations') <= limit.links
      BY <1>5, <2>1, <2>2
    <2> QED BY <1>3, <2>1, <2>2, <2>3, WornLinksAreHeld
  <1>22. ASSUME NEW i \in Sessions!LinkIds, Sessions!ExpireInvitation(i) PROVE Sessions!LinksHeld'
    <2>1. /\ i \in DOMAIN invitations /\ invitations' = [invitations EXCEPT ![i].expired = TRUE]
          /\ UNCHANGED Sessions!request /\ limit' = limit /\ uses' = uses /\ barred' = barred
      BY <1>22 DEF Sessions!ExpireInvitation, Sessions!history
    <2>2. Wear /\ NoneAccepted /\ NoLinkMade
      BY <1>0, <2>1, LinkExpired
    <2>3. Len(invitations') <= limit.links
      BY <1>5, <2>2
    <2> QED BY <1>3, <2>1, <2>2, <2>3, WornLinksAreHeld
  <1>23. ASSUME NEW r \in Requests,
                Sessions!RotateRefused(r) \/ Sessions!InsertUserRefused(r) \/ Sessions!ResetRefused(r)
         PROVE  Sessions!LinksHeld'
    BY <1>2, <1>23 DEF Sessions!RotateRefused, Sessions!InsertUserRefused, Sessions!ResetRefused,
                       Sessions!Refuse, Sessions!rows, Sessions!history, SameLinks
  <1> QED BY <1>7, <1>8, <1>9, <1>10, <1>11, <1>12, <1>13, <1>14, <1>15, <1>16, <1>17, <1>18, <1>19,
             <1>20, <1>21, <1>22, <1>23, AccessSteps

-----------------------------------------------------------------------------
(* The row of the organization, and the reset links.                        *)

Resets == Sessions!PendingOf("reset")

\* No reset link is made or opened again, and the requests that hold the organization
\* go on holding it.
LEMMA FewerResets ==
    ASSUME AccessInv, Wear, NEW n, NoLinkMade \/ LinkMade(n, "invite")
    PROVE  Resets' \subseteq Resets /\ DOMAIN invitations \subseteq DOMAIN invitations'
  <1> DEFINE L == Len(invitations)
             M == Len(invitations')
  <1>1. /\ L \in Nat /\ M \in {L, L + 1}
        /\ DOMAIN invitations = 1 .. L /\ DOMAIN invitations' = 1 .. M
    BY DEF AccessInv, Sessions!TypeOK, Wear
  <1>2. \A i \in 1 .. L :
          /\ invitations'[i].purpose = invitations[i].purpose
          /\ invitations[i].accepted => invitations'[i].accepted
          /\ invitations[i].revoked => invitations'[i].revoked
          /\ invitations[i].expired => invitations'[i].expired
    BY DEF Wear
  <1>3. M # L => M = L + 1 /\ invitations'[M].purpose = "invite"
    BY DEF NoLinkMade, LinkMade, Sessions!NewLink
  <1> HIDE DEF L, M
  <1>4. ASSUME NEW i \in 1 .. M, Sessions!Pending(i)', invitations'[i].purpose = "reset"
        PROVE  i \in 1 .. L /\ Sessions!Pending(i) /\ invitations[i].purpose = "reset"
    <2>1. i \in 1 .. L
      BY <1>1, <1>3, <1>4
    <2> QED BY <1>2, <1>4, <2>1 DEF Sessions!Pending
  <1>5. DOMAIN invitations \subseteq DOMAIN invitations'
    BY <1>1
  <1> QED BY <1>1, <1>4, <1>5 DEF Resets, Sessions!PendingOf

HoldsClient(r) ==
    /\ pc[r] \in {"replacing", "replacingReset"} => snap[r] \subseteq DOMAIN invitations
    /\ pc[r] = "replacingReset" => Resets \subseteq snap[r]

LEMMA ClientStaysHeld ==
    ASSUME AccessInv, Resets' \subseteq Resets, DOMAIN invitations \subseteq DOMAIN invitations',
           \A q \in Requests : \/ Unmoved(q) \/ ~Sessions!HoldsOrg(q)'
                               \/ /\ HoldsClient(q)'
                                  /\ \A x \in Requests \ {q} : Unmoved(x) /\ ~Sessions!HoldsOrg(x)
    PROVE  Sessions!ClientHeld'
  <1>0. /\ \A r, q \in Requests : Sessions!HoldsOrg(r) /\ Sessions!HoldsOrg(q) => r = q
        /\ \A q \in Requests : HoldsClient(q)
        /\ \A i, j \in Resets : i = j
    BY DEF AccessInv, Sessions!ClientHeld, HoldsClient, Resets
  <1>1. \A q \in Requests : Unmoved(q) => Sessions!HoldsOrg(q)' = Sessions!HoldsOrg(q)
    BY DEF Unmoved, Sessions!HoldsOrg
  <1>2. ASSUME NEW r \in Requests, NEW q \in Requests, Sessions!HoldsOrg(r)', Sessions!HoldsOrg(q)'
        PROVE  r = q
    BY <1>0, <1>1, <1>2
  <1>3. ASSUME NEW q \in Requests PROVE HoldsClient(q)'
    <2>1. CASE Unmoved(q)
      <3>1. pc'[q] = pc[q] /\ snap'[q] = snap[q] /\ HoldsClient(q)
        BY <1>0, <2>1 DEF Unmoved
      <3> QED BY <3>1 DEF HoldsClient
    <2>2. CASE ~Sessions!HoldsOrg(q)'
      BY <2>2 DEF HoldsClient, Sessions!HoldsOrg
    <2> QED BY <2>1, <2>2
  <1>4. \A i, j \in Resets' : i = j
    BY <1>0
  <1> QED BY <1>2, <1>3, <1>4 DEF Sessions!ClientHeld, HoldsClient, Resets

\* Whatever is not about the links or the organization.
LEMMA ClientUntouched ==
    ASSUME AccessInv, invitations' = invitations,
           \A q \in Requests : Unmoved(q) \/ ~Sessions!HoldsOrg(q)'
    PROVE  Sessions!ClientHeld'
  <1>1. Resets' = Resets
    BY DEF Resets, Sessions!PendingOf, Sessions!Pending
  <1> QED BY <1>1, ClientStaysHeld

LEMMA StepClient == ASSUME AccessInv, InSessions, MCNext PROVE Sessions!ClientHeld'
  <1>0. Sessions!TypeOK /\ Len(invitations) \in Nat /\ DOMAIN invitations = 1 .. Len(invitations)
    BY DEF AccessInv, Sessions!TypeOK
  <1>1. ASSUME UNCHANGED Sessions!request PROVE \A q \in Requests : Unmoved(q)
    BY <1>0, <1>1, AllUnmoved
  <1>2. ASSUME NEW r \in Requests, OnlyMoves(r), pc'[r] \notin {"deactivating", "replacing", "replacingReset"}
        PROVE  \A q \in Requests : Unmoved(q) \/ ~Sessions!HoldsOrg(q)'
    BY <1>2 DEF OnlyMoves, Sessions!HoldsOrg
  <1>3. \A r \in Requests : Sessions!Finish(r) => OnlyMoves(r) /\ pc'[r] = "idle"
    BY <1>0, Finished
  <1>4. \A r \in Requests : Sessions!Finish(r) => \A q \in Requests : Unmoved(q) \/ ~Sessions!HoldsOrg(q)'
    BY <1>2, <1>3
  <1>5. ASSUME NEW r \in Requests, NEW n \in Names, Sessions!Login(r, n) PROVE Sessions!ClientHeld'
    <2>1. "loggingIn" \in Sessions!PCs /\ invitations' = invitations
      BY <1>5 DEF Sessions!PCs, Sessions!Login, Sessions!rows
    <2>2. OnlyMoves(r) /\ pc'[r] = "loggingIn"
      BY <1>0, <1>5, <2>1, TookUp DEF Sessions!Login
    <2> QED BY <1>2, <2>1, <2>2, ClientUntouched
  <1>6. ASSUME NEW r \in Requests, NEW n \in Names,
               Sessions!CreateUser(r, n) \/ Sessions!DeactivateUser(r, n)
        PROVE  Sessions!ClientHeld'
    <2>1. invitations' = invitations /\ UNCHANGED Sessions!request
      BY <1>6 DEF Sessions!CreateUser, Sessions!DeactivateUser
    <2> QED BY <1>1, <2>1, ClientUntouched
  <1>7. ASSUME NEW r \in Requests, NEW n \in Names, Sessions!ReplaceLinks(r, n)
        PROVE  Sessions!ClientHeld'
    <2> DEFINE p == IF Sessions!At(r, "replacing") THEN "invite" ELSE "reset"
    <2>1. /\ invitations' = Append(Sessions!Revoked(snap[r]), Sessions!NewLink(n, p))
          /\ Sessions!Finish(r) /\ pc[r] \in {"replacing", "replacingReset"}
      BY <1>7 DEF Sessions!ReplaceLinks, Sessions!At
    <2>2. p \in {"invite", "reset"}
      OBVIOUS
    <2>3. /\ Wear /\ NoneAccepted /\ LinkMade(n, p)
          /\ \A i \in 1 .. Len(invitations) : i \in snap[r] => invitations'[i].revoked
      BY <1>0, <2>1, <2>2, LinksReplaced
    <2>4. CASE pc[r] = "replacing"
      <3>1. p = "invite"
        BY <2>4 DEF Sessions!At
      <3>2. Resets' \subseteq Resets /\ DOMAIN invitations \subseteq DOMAIN invitations'
        BY <2>3, <3>1, FewerResets
      <3> QED BY <1>4, <2>1, <3>2, ClientStaysHeld
    <2>5. CASE pc[r] = "replacingReset"
      <3>1. \A q \in Requests : ~Sessions!HoldsOrg(q)'
        <4>1. \A q \in Requests : q # r => ~Sessions!HoldsOrg(q)
          BY <2>1 DEF AccessInv, Sessions!ClientHeld, Sessions!HoldsOrg
        <4> QED BY <1>3, <2>1, <4>1 DEF OnlyMoves, Unmoved, Sessions!HoldsOrg
      <3>2. Resets \subseteq snap[r]
        BY <2>5 DEF AccessInv, Sessions!ClientHeld, Resets
      <3>3. DOMAIN invitations' = 1 .. Len(invitations) + 1
        BY <1>0, <2>3 DEF Wear, LinkMade
      <3>4. ASSUME NEW i \in Resets' PROVE i = Len(invitations) + 1
        <4>1. i \in DOMAIN invitations' /\ Sessions!Pending(i)' /\ invitations'[i].purpose = "reset"
          BY <3>4 DEF Resets, Sessions!PendingOf
        <4>2. ASSUME i \in 1 .. Len(invitations) PROVE FALSE
          <5>1. i \in Resets
            BY <1>0, <2>3, <4>1, <4>2 DEF Wear, Resets, Sessions!PendingOf, Sessions!Pending
          <5>2. invitations'[i].revoked
            BY <2>3, <3>2, <4>2, <5>1
          <5> QED BY <4>1, <5>2 DEF Sessions!Pending
        <4> QED BY <1>0, <3>3, <4>1, <4>2
      <3>5. \A i, j \in Resets' : i = j
        BY <3>4
      <3>6. \A q \in Requests : pc'[q] \notin {"deactivating", "replacing", "replacingReset"}
        BY <3>1 DEF Sessions!HoldsOrg
      <3> QED BY <3>1, <3>5, <3>6 DEF Sessions!ClientHeld, Resets
    <2> QED BY <2>1, <2>4, <2>5
  <1>8. ASSUME NEW r \in Requests, NEW s \in Sessions!SessionIds,
                Sessions!RefreshRead(r, s) \/ Sessions!LogoutRead(r, s)
         PROVE  Sessions!ClientHeld'
    <2>1. invitations' = invitations /\ (Sessions!Goto(r, "refreshing") \/ Sessions!Goto(r, "loggingOut"))
          /\ target' = [target EXCEPT ![r] = s] /\ UNCHANGED <<user, snap, seen>>
      BY <1>8 DEF Sessions!RefreshRead, Sessions!LogoutRead, Sessions!rows
    <2>2. OnlyMoves(r) /\ pc'[r] \in {"refreshing", "loggingOut"}
      BY <1>0, <2>1 DEF Sessions!TypeOK, Sessions!Goto, OnlyMoves, Unmoved
    <2> QED BY <1>2, <2>1, <2>2, ClientUntouched
  <1>9. ASSUME NEW r \in Requests, NEW i \in Sessions!LinkIds, Sessions!RevokeInvitation(r, i)
        PROVE  Sessions!ClientHeld'
    <2>1. invitations' = Sessions!Revoked({i}) /\ UNCHANGED Sessions!request
      BY <1>9 DEF Sessions!RevokeInvitation
    <2>2. Wear /\ NoLinkMade
      BY <1>0, <2>1, LinksRevoked
    <2>3. Resets' \subseteq Resets /\ DOMAIN invitations \subseteq DOMAIN invitations'
      BY <2>2, FewerResets
    <2> QED BY <1>1, <2>1, <2>3, ClientStaysHeld
  <1>10. ASSUME NEW r \in Requests, NEW i \in Sessions!LinkIds, Sessions!OpenInvitation(r, i)
         PROVE  Sessions!ClientHeld'
    <2>1. invitations' = invitations /\ OnlyMoves(r) /\ pc'[r] = "opened"
      BY <1>0, <1>10 DEF Sessions!OpenInvitation, Sessions!rows, Sessions!TypeOK, Sessions!Goto,
                         OnlyMoves, Unmoved
    <2> QED BY <1>2, <2>1, ClientUntouched
  <1>11. ASSUME NEW r \in Requests, NEW p \in {"invite", "reset"}, Sessions!LockClient(r, p)
         PROVE  Sessions!ClientHeld'
    <2>1. /\ invitations' = invitations /\ OnlyMoves(r) /\ snap'[r] = Sessions!PendingOf(p)
          /\ pc'[r] = IF p = "reset" THEN "replacingReset" ELSE "replacing"
      BY <1>0, <1>11 DEF Sessions!LockClient, Sessions!rows, Sessions!TypeOK, Sessions!Goto,
                         OnlyMoves, Unmoved
    <2>2. \A x \in Requests \ {r} : Unmoved(x) /\ ~Sessions!HoldsOrg(x)
      BY <1>11, <2>1 DEF Sessions!LockClient, Sessions!OrgBusy, Sessions!Others, OnlyMoves,
                         Sessions!HoldsOrg
    <2>3. Resets' = Resets
      BY <2>1 DEF Resets, Sessions!PendingOf, Sessions!Pending
    <2>4. HoldsClient(r)'
      <3>1. snap'[r] \subseteq DOMAIN invitations'
        BY <2>1 DEF Sessions!PendingOf
      <3>2. pc'[r] = "replacingReset" => Resets' \subseteq snap'[r]
        BY <2>1, <2>3 DEF Resets
      <3> QED BY <3>1, <3>2 DEF HoldsClient
    <2>5. \A q \in Requests : \/ Unmoved(q) \/ ~Sessions!HoldsOrg(q)'
                              \/ /\ HoldsClient(q)'
                                 /\ \A x \in Requests \ {q} : Unmoved(x) /\ ~Sessions!HoldsOrg(x)
      BY <2>2, <2>4
    <2> QED BY <2>1, <2>3, <2>5, ClientStaysHeld
  <1>12. ASSUME NEW r \in Requests,
                \/ Sessions!OpenSession(r) \/ Sessions!CommitRotation(r) \/ Sessions!Logout(r)
                \/ Sessions!FinishDeactivation(r) \/ Sessions!RotateRefused(r)
                \/ Sessions!InsertUserRefused(r) \/ Sessions!ResetRefused(r)
         PROVE  Sessions!ClientHeld'
    <2>1. invitations' = invitations /\ Sessions!Finish(r)
      BY <1>12 DEF Sessions!OpenSession, Sessions!CommitRotation, Sessions!Logout,
                   Sessions!FinishDeactivation, Sessions!RotateRefused, Sessions!InsertUserRefused,
                   Sessions!ResetRefused, Sessions!Refuse, Sessions!rows
    <2> QED BY <1>4, <2>1, ClientUntouched
  <1>13. ASSUME NEW r \in Requests, Sessions!Rotate(r) \/ Sessions!InsertUser(r)
         PROVE  Sessions!ClientHeld'
    <2>1. "rotated" \in Sessions!PCs /\ "created" \in Sessions!PCs /\ invitations' = invitations
      BY <1>13 DEF Sessions!PCs, Sessions!Rotate, Sessions!InsertUser, Sessions!rows
    <2>2. OnlyMoves(r) /\ pc'[r] \in {"rotated", "created"}
      BY <1>0, <1>13, <2>1, WentOn DEF Sessions!Rotate, Sessions!InsertUser
    <2> QED BY <1>2, <2>1, <2>2, ClientUntouched
  <1>14. ASSUME NEW r \in Requests, Sessions!StartReset(r) \/ Sessions!StartRevocation(r)
         PROVE  Sessions!ClientHeld'
    <2>1. "resetting" \in Sessions!PCs /\ "revoking" \in Sessions!PCs /\ invitations' = invitations
      BY <1>14 DEF Sessions!PCs, Sessions!StartReset, Sessions!StartRevocation, Sessions!rows
    <2>2. OnlyMoves(r) /\ pc'[r] \in {"resetting", "revoking"}
      BY <1>0, <1>14, <2>1, Saw DEF Sessions!StartReset, Sessions!StartRevocation
    <2> QED BY <1>2, <2>1, <2>2, ClientUntouched
  <1>15. ASSUME NEW r \in Requests, Sessions!StartDeactivation(r) PROVE Sessions!ClientHeld'
    <2>1. "deactivating" \in Sessions!PCs /\ invitations' = invitations
      BY <1>15 DEF Sessions!PCs, Sessions!StartDeactivation, Sessions!rows
    <2>2. OnlyMoves(r) /\ pc'[r] = "deactivating"
      BY <1>0, <1>15, <2>1, Saw DEF Sessions!StartDeactivation
    <2>3. \A x \in Requests \ {r} : Unmoved(x) /\ ~Sessions!HoldsOrg(x)
      BY <1>15, <2>2 DEF Sessions!StartDeactivation, Sessions!OrgBusy, Sessions!Others, OnlyMoves,
                         Sessions!HoldsOrg
    <2>4. HoldsClient(r)'
      BY <2>2 DEF HoldsClient
    <2>5. Resets' = Resets
      BY <2>1 DEF Resets, Sessions!PendingOf, Sessions!Pending
    <2>6. \A q \in Requests : \/ Unmoved(q) \/ ~Sessions!HoldsOrg(q)'
                              \/ /\ HoldsClient(q)'
                                 /\ \A x \in Requests \ {q} : Unmoved(x) /\ ~Sessions!HoldsOrg(x)
      BY <2>3, <2>4
    <2> QED BY <2>1, <2>5, <2>6, ClientStaysHeld
  <1>16. ASSUME NEW r \in Requests, Sessions!AcceptInvitation(r) \/ Sessions!FinishReset(r)
         PROVE  Sessions!ClientHeld'
    <2>1. /\ pc[r] \in {"created", "resetting"} /\ Sessions!Finish(r)
          /\ invitations' = [invitations EXCEPT ![target[r]].accepted = TRUE]
      BY <1>16 DEF Sessions!AcceptInvitation, Sessions!FinishReset, Sessions!At
    <2>2. target[r] \in DOMAIN invitations
      BY <2>1, InvitedIsNamed
    <2>3. Wear /\ NoLinkMade
      BY <1>0, <2>1, <2>2, LinkAccepted
    <2>4. Resets' \subseteq Resets /\ DOMAIN invitations \subseteq DOMAIN invitations'
      BY <2>3, FewerResets
    <2> QED BY <1>4, <2>1, <2>4, ClientStaysHeld
  <1>17. ASSUME NEW r \in Requests, Sessions!Reactivate(r) PROVE Sessions!ClientHeld'
    <2>1. invitations' = invitations /\ UNCHANGED Sessions!request
      BY <1>17 DEF Sessions!Reactivate
    <2> QED BY <1>1, <2>1, ClientUntouched
  <1>18. ASSUME NEW n \in Names, Sessions!CreateClient(n) \/ Sessions!CreateInvitation(n)
         PROVE  Sessions!ClientHeld'
    <2>1. invitations' = Append(invitations, Sessions!NewLink(n, "invite")) /\ UNCHANGED Sessions!request
      BY <1>18 DEF Sessions!CreateClient, Sessions!CreateInvitation
    <2>2. Wear /\ LinkMade(n, "invite")
      BY <1>0, <2>1, LinkAdded
    <2>3. Resets' \subseteq Resets /\ DOMAIN invitations \subseteq DOMAIN invitations'
      BY <2>2, FewerResets
    <2> QED BY <1>1, <2>1, <2>3, ClientStaysHeld
  <1>19. ASSUME NEW i \in Sessions!LinkIds, Sessions!ExpireInvitation(i) PROVE Sessions!ClientHeld'
    <2>1. /\ i \in DOMAIN invitations /\ invitations' = [invitations EXCEPT ![i].expired = TRUE]
          /\ UNCHANGED Sessions!request
      BY <1>19 DEF Sessions!ExpireInvitation
    <2>2. Wear /\ NoLinkMade
      BY <1>0, <2>1, LinkExpired
    <2>3. Resets' \subseteq Resets /\ DOMAIN invitations \subseteq DOMAIN invitations'
      BY <2>2, FewerResets
    <2> QED BY <1>1, <2>1, <2>3, ClientStaysHeld
  <1> QED BY <1>5, <1>6, <1>7, <1>8, <1>9, <1>10, <1>11, <1>12, <1>13, <1>14, <1>15, <1>16, <1>17,
             <1>18, <1>19, AccessSteps

-----------------------------------------------------------------------------
(* Of every behaviour.                                                       *)

LEMMA InitAccess == ASSUME MCInit, InSessions PROVE AccessInv
  <1>1. Sessions!Init
    BY DEF MCInit, InSessions, InLimiter, InProvider, InSolar, InSettings, InScopes
  <1>2. /\ sessions = <<>> /\ invitations = <<>> /\ barred = {} /\ late = {}
        /\ limit \in Limits /\ uses = [i \in 1 .. limit.links |-> 0]
        /\ \A r \in Requests : pc[r] = "idle"
        /\ \A n \in Names : mark[n] = 0
    BY <1>1 DEF Sessions!Init
  <1>3. DOMAIN sessions = {} /\ DOMAIN invitations = {} /\ Len(sessions) = 0 /\ Len(invitations) = 0
    BY <1>2
  <1>4. limit.links \in Nat
    BY <1>2, AccessConstants
  <1>5. Sessions!TypeOK
    <2>1. /\ org \in {"absent", "active", "inactive"}
          /\ users \in [Names -> {"none", "bare", "active", "inactive"}]
      BY <1>1 DEF Sessions!Init
    <2>2. sessions \in Seq(Sessions!SessionRow) /\ invitations \in Seq(Sessions!InvitationRow)
      BY <1>2
    <2>3. pc \in [Requests -> Sessions!PCs]
      BY <1>1 DEF Sessions!Init, Sessions!PCs
    <2>4. /\ target \in [Requests -> Nat] /\ user \in [Requests -> Names \cup {NoName}]
          /\ snap \in [Requests -> SUBSET Nat] /\ seen \in [Requests -> Nat]
          /\ mark \in [Names -> Nat] /\ late \subseteq Nat /\ barred \subseteq Nat
      BY <1>1 DEF Sessions!Init
    <2>5. uses \in [1 .. limit.links -> Nat]
      BY <1>2
    <2> QED BY <1>2, <2>1, <2>2, <2>3, <2>4, <2>5 DEF Sessions!TypeOK
  <1>6. Sessions!FamiliesNumbered /\ Sessions!OneLivePerFamily /\ Sessions!RevocationEndsFamilies
    BY <1>2, <1>3 DEF Sessions!FamiliesNumbered, Sessions!OneLivePerFamily,
                      Sessions!RevocationEndsFamilies
  <1>7. Sessions!SessionsHeld
    BY <1>2 DEF Sessions!SessionsHeld, Sessions!Revoking
  <1>8. Sessions!LinksHeld
    BY <1>2, <1>3, <1>4 DEF Sessions!LinksHeld
  <1>9. Sessions!ClientHeld
    BY <1>2, <1>3 DEF Sessions!ClientHeld, Sessions!HoldsOrg, Sessions!PendingOf
  <1> QED BY <1>5, <1>6, <1>7, <1>8, <1>9 DEF AccessInv

LEMMA StillAccess == ASSUME AccessInv, UNCHANGED vars PROVE AccessInv'
  <1>1. /\ UNCHANGED <<org, users, sessions, invitations, pc, target, user, snap, seen>>
        /\ UNCHANGED <<mark, late, barred, uses, limit>>
    BY DEF vars
  <1>2. Sessions!TypeOK'
    BY <1>1 DEF AccessInv, Sessions!TypeOK
  <1>3. \A q \in Requests : Unmoved(q)
    BY <1>1 DEF Unmoved
  <1>4. SessionsFine'
    BY <1>1, <1>3, StillKeepsSessions DEF SameSessions
  <1>5. Sessions!LinksHeld'
    <2>1. Wear /\ NoneAccepted /\ Len(invitations') <= limit.links
      BY <1>1 DEF AccessInv, Sessions!TypeOK, Sessions!LinksHeld, Wear, NoneAccepted
    <2> QED BY <1>1, <1>3, <2>1, WornLinksAreHeld
  <1>6. Sessions!ClientHeld'
    BY <1>1, <1>3, ClientUntouched
  <1> QED BY <1>2, <1>4, <1>5, <1>6 DEF AccessInv, SessionsFine

\* What every behaviour keeps of sessions and links.
LEMMA AccessInvHolds == MCSpec => [](InSessions => AccessInv)
  <1> DEFINE Inv == InSessions => AccessInv
  <1>1. MCInit => Inv
    BY InitAccess
  <1>2. Inv /\ [MCNext]_vars => Inv'
    <2> SUFFICES ASSUME Inv, [MCNext]_vars, InSessions' PROVE AccessInv'
      OBVIOUS
    <2>1. InSessions /\ AccessInv
      BY PartKept DEF InSessions
    <2>2. CASE MCNext
      BY <2>1, <2>2, AccessTyped, StepSessions, StepLinks, StepClient DEF AccessInv, SessionsFine
    <2>3. CASE UNCHANGED vars
      BY <2>1, <2>3, StillAccess
    <2> QED BY <2>2, <2>3
  <1> HIDE DEF Inv
  <1>3. MCSpec => []Inv
    BY <1>1, <1>2, PTL DEF MCSpec
  <1> QED BY <1>3 DEF Inv

\* However rotations, logouts, resets and deactivations interleave, a family has at
\* most one live session, and what a revocation ended has none; for any users, requests
\* and bounds (auth/session_service.py, rotate, revoke_all_for_organization;
\* organizations/service.py, deactivate; auth/router.py, _accept_access_reset).
THEOREM SessionsStayEnded == MCSpec => []SessionsEnd
  <1>1. (InSessions => AccessInv) => SessionsEnd
    BY DEF AccessInv, SessionsEnd
  <1> QED BY <1>1, AccessInvHolds, PTL

\* A link revoked before anybody opened it is never accepted, a link gives access once
\* however many requests opened it, and at most one reset link is open; for any users,
\* requests and bounds (organizations/invitation_service.py, consume, mark_accepted;
\* clients/router.py, reset_client_access).
THEOREM LinksStaySpent == MCSpec => []LinksSpent
  <1>1. (InSessions => AccessInv) => LinksSpent
    <2> SUFFICES ASSUME AccessInv
                 PROVE  /\ Sessions!BarredStaysUnused /\ Sessions!LinkUsedOnce
                        /\ Sessions!OnePendingReset
      BY DEF LinksSpent
    <2>1. Sessions!BarredStaysUnused
      BY DEF AccessInv, Sessions!LinksHeld, Sessions!BarredStaysUnused
    <2>2. Sessions!LinkUsedOnce
      <3>1. DOMAIN uses = 1 .. limit.links
        BY DEF AccessInv, Sessions!TypeOK
      <3>2. \A i \in 1 .. limit.links : uses[i] = 0 \/ uses[i] = 1
        BY DEF AccessInv, Sessions!LinksHeld
      <3> QED BY <3>1, <3>2 DEF Sessions!LinkUsedOnce
    <2>3. Sessions!OnePendingReset
      <3> DEFINE S == Sessions!PendingOf("reset")
      <3>1. \A i, j \in S : i = j
        BY DEF AccessInv, Sessions!ClientHeld
      <3>2. Sessions!Cardinality(S) = Cardinality(S)
        BY DEF Sessions!Cardinality, Cardinality
      <3> HIDE DEF S
      <3>3. S = {} \/ \E i : S = {i}
        BY <3>1
      <3>4. Cardinality(S) <= 1
        BY <3>3, FS_EmptySet, FS_Singleton
      <3> QED BY <3>2, <3>4 DEF S, Sessions!OnePendingReset
    <2> QED BY <2>1, <2>2, <2>3
  <1> QED BY <1>1, AccessInvHolds, PTL

\* Every component keeps its state within its types, and with it what they say of its
\* bookkeeping, for any instance.
THEOREM IdentityTyped == MCSpec => []TypeOK
  <1> DEFINE All == /\ InSessions => AccessInv
                    /\ InLimiter => LimiterInv
                    /\ InProvider => ProviderInv
                    /\ InSolar => SolarInv
                    /\ InSettings => SettingsInv
                    /\ InScopes => ScopesInv
  <1>1. All => TypeOK
    BY DEF AccessInv, LimiterInv, ProviderInv, SolarInv, SettingsInv, ScopesInv, TypeOK
  <1>2. MCSpec => [](InSettings => SettingsInv)
    BY SettingsInvHolds, PTL DEF MCSpec
  <1>3. MCSpec => []All
    BY <1>2, AccessInvHolds, LimiterInvHolds, ProviderInvHolds, SolarInvHolds, ScopesInvHolds, PTL
  <1> HIDE DEF All
  <1> QED BY <1>1, <1>3, PTL
=============================================================================
