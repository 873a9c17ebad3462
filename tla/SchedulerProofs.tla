--------------------------- MODULE SchedulerProofs ---------------------------
(***************************************************************************)
(* Proofs about the scheduled jobs, for any number of jobs, triggers and   *)
(* tickers.  The argument: a tick that holds the mutex holds jobs that are *)
(* due at the instant it read, nobody else touches them meanwhile, and the *)
(* next run an UPDATE or a registration stores is later than that instant  *)
(* by at least the period.                                                 *)
(***************************************************************************)
EXTENDS Scheduler, TLAPS

\* What the arithmetic promises: an instant, or no run.
LEMMA NextScheduleRunType ==
    ASSUME NEW trigger \in Trigger, NEW instant \in Instant
    PROVE  NextScheduleRun(trigger, instant) \in Instant \cup {NoRun}
<1> U64Max \in Nat
  BY U64MaxAssumption
<1> instant \in Nat /\ trigger.n \in Nat /\ trigger.kind \in TriggerKind
  BY DEF Trigger, Instant
<1>1. ASSUME NEW m \in Nat
      PROVE  SatAdd(instant, m) \in Instant
  BY DEF SatAdd, Instant
<1>2. CASE trigger.kind = "every"
  BY <1>1, <1>2 DEF NextScheduleRun
<1>3. CASE trigger.kind = "cronStep"
  <2>1. CASE trigger.n = 0
    BY <1>3, <2>1 DEF NextScheduleRun, CronStep
  <2>2. CASE trigger.n > 0
    <3>1. PICK r : r = instant % trigger.n
      OBVIOUS
    <3>2. r \in 0..(trigger.n - 1)
      BY <2>2, <3>1
    <3>3. (IF r = 0 THEN trigger.n ELSE trigger.n - r) \in Nat
      BY <2>2, <3>2
    <3> QED
      BY <1>1, <1>3, <2>2, <3>1, <3>3 DEF NextScheduleRun, CronStep
  <2> QED
    BY <2>1, <2>2
<1>4. CASE trigger.kind = "cronAt"
  <2>1. CASE trigger.n > 59
    BY <1>4, <2>1 DEF NextScheduleRun, CronAt
  <2>2. CASE trigger.n <= 59
    <3>1. PICK c : c = instant % 60
      OBVIOUS
    <3>2. c \in 0..59
      BY <3>1
    <3>3. PICK d : d = IF trigger.n > c THEN trigger.n - c ELSE 60 - (c - trigger.n)
      OBVIOUS
    <3>4. (IF d < 1 THEN 1 ELSE d) \in Nat
      BY <2>2, <3>2, <3>3
    <3>5. CronAt(trigger.n, instant) = SatAdd(instant, IF d < 1 THEN 1 ELSE d)
      BY <2>2, <3>1, <3>3 DEF CronAt
    <3> QED
      BY <1>1, <1>4, <3>4, <3>5 DEF NextScheduleRun
  <2> QED
    BY <2>1, <2>2
<1>5. CASE trigger.kind = "cronBad"
  BY <1>5 DEF NextScheduleRun
<1> QED
  BY <1>2, <1>3, <1>4, <1>5 DEF TriggerKind

LEMMA NextRunType ==
    ASSUME NEW trigger \in Trigger, NEW instant \in Instant
    PROVE  NextRun(trigger, instant) \in Column
<1> U64Max \in Nat
  BY U64MaxAssumption
<1>1. ASSUME NEW n \in Instant
      PROVE  ToI64(n) \in Column
  BY U64MaxAssumption DEF ToI64, I64Max, Column, Instant
<1>2. SatAdd(instant, FallbackDelay) \in Instant
  BY SchedulerAssumption DEF SatAdd, Instant
<1>3. PICK next : next = NextScheduleRun(trigger, instant)
  OBVIOUS
<1>4. next \in Instant \cup {NoRun}
  BY <1>3, NextScheduleRunType
<1>5. (IF next = NoRun THEN SatAdd(instant, FallbackDelay) ELSE next) \in Instant
  BY <1>2, <1>4
<1> QED
  BY <1>1, <1>3, <1>5 DEF NextRun

\* Every wait a registered trigger can ask for ends while the clock and the
\* column are still far from their limits: no saturation, no change of sign.
Waits == {FallbackDelay, 60} \cup {trigger.n : trigger \in Triggers}
WaitsFit == \A n \in Waits : MaxNow + n <= U64Max \div 2

\* The next run is later than the instant it is counted from, by the period
\* at least when there is one.
LEMMA NextRunLater ==
    ASSUME WaitsFit, NEW trigger \in Triggers, NEW instant \in 0..MaxNow
    PROVE  /\ NextRun(trigger, instant) > instant
           /\ trigger.kind = "every" /\ trigger.n > 0
              => NextRun(trigger, instant) >= instant + trigger.n
<1> U64Max \in Nat
  BY U64MaxAssumption
<1>0. MaxNow \in Nat /\ FallbackDelay \in Nat \ {0} /\ trigger \in Trigger
  BY SchedulerAssumption
<1> instant \in Nat /\ trigger.n \in Nat /\ trigger.kind \in TriggerKind
  BY <1>0 DEF Trigger
<1>1. /\ MaxNow + FallbackDelay <= U64Max \div 2
      /\ MaxNow + 60 <= U64Max \div 2
      /\ MaxNow + trigger.n <= U64Max \div 2
  BY DEF WaitsFit, Waits
<1>2. PICK half : half = U64Max \div 2
  OBVIOUS
<1>3. half \in Nat /\ half <= U64Max
  BY <1>2
<1>4. ASSUME NEW m \in Nat, MaxNow + m <= half
      PROVE  SatAdd(instant, m) = instant + m /\ ToI64(instant + m) = instant + m
  BY <1>0, <1>2, <1>3, <1>4 DEF SatAdd, ToI64, I64Max
<1>5. ASSUME NEW m \in Nat \ {0}, MaxNow + m <= half,
             NextScheduleRun(trigger, instant) = SatAdd(instant, m)
      PROVE  NextRun(trigger, instant) = instant + m
  <2>1. SatAdd(instant, m) = instant + m /\ ToI64(instant + m) = instant + m
    BY <1>4, <1>5
  <2>2. instant + m # NoRun
    BY DEF NoRun
  <2> QED
    BY <1>5, <2>1, <2>2 DEF NextRun
<1>6. ASSUME NextScheduleRun(trigger, instant) = NoRun
      PROVE  NextRun(trigger, instant) = instant + FallbackDelay
  <2>1. /\ SatAdd(instant, FallbackDelay) = instant + FallbackDelay
        /\ ToI64(instant + FallbackDelay) = instant + FallbackDelay
    BY <1>0, <1>1, <1>2, <1>4
  <2> QED
    BY <1>6, <2>1 DEF NextRun
<1>7. CASE trigger.kind = "every"
  <2>1. CASE trigger.n = 0
    BY <1>0, <1>6, <1>7, <2>1 DEF NextScheduleRun
  <2>2. CASE trigger.n > 0
    <3>1. NextScheduleRun(trigger, instant) = SatAdd(instant, trigger.n)
      BY <1>7, <2>2 DEF NextScheduleRun
    <3>2. NextRun(trigger, instant) = instant + trigger.n
      BY <1>1, <1>2, <1>5, <2>2, <3>1
    <3> QED
      BY <2>2, <3>2
  <2> QED
    BY <2>1, <2>2
<1>8. CASE trigger.kind = "cronStep"
  <2>1. CASE trigger.n = 0
    BY <1>0, <1>6, <1>8, <2>1 DEF NextScheduleRun, CronStep
  <2>2. CASE trigger.n > 0
    <3>1. PICK r : r = instant % trigger.n
      OBVIOUS
    <3>2. r \in 0..(trigger.n - 1)
      BY <2>2, <3>1
    <3>3. PICK m : m = IF r = 0 THEN trigger.n ELSE trigger.n - r
      OBVIOUS
    <3>4. m \in Nat \ {0} /\ m <= trigger.n
      BY <2>2, <3>2, <3>3
    <3>5. NextScheduleRun(trigger, instant) = SatAdd(instant, m)
      BY <1>8, <2>2, <3>1, <3>3 DEF NextScheduleRun, CronStep
    <3>6. MaxNow + m <= half
      BY <1>0, <1>1, <1>2, <1>3, <3>4
    <3>7. NextRun(trigger, instant) = instant + m
      BY <1>5, <3>4, <3>5, <3>6
    <3> QED
      BY <1>8, <3>4, <3>7
  <2> QED
    BY <2>1, <2>2
<1>9. CASE trigger.kind = "cronAt"
  <2>1. CASE trigger.n > 59
    BY <1>0, <1>6, <1>9, <2>1 DEF NextScheduleRun, CronAt
  <2>2. CASE trigger.n <= 59
    <3>1. PICK c : c = instant % 60
      OBVIOUS
    <3>2. c \in 0..59
      BY <3>1
    <3>3. PICK d : d = IF trigger.n > c THEN trigger.n - c ELSE 60 - (c - trigger.n)
      OBVIOUS
    <3>4. d \in Nat \ {0} /\ d <= 60
      BY <2>2, <3>2, <3>3
    <3>5. CronAt(trigger.n, instant) = SatAdd(instant, IF d < 1 THEN 1 ELSE d)
      BY <2>2, <3>1, <3>3 DEF CronAt
    <3>6. NextScheduleRun(trigger, instant) = SatAdd(instant, d)
      BY <1>9, <3>4, <3>5 DEF NextScheduleRun
    <3>7. MaxNow + d <= half
      BY <1>0, <1>1, <1>2, <1>3, <3>4
    <3>8. NextRun(trigger, instant) = instant + d
      BY <1>5, <3>4, <3>6, <3>7
    <3> QED
      BY <1>9, <3>4, <3>8
  <2> QED
    BY <2>1, <2>2
<1>10. CASE trigger.kind = "cronBad"
  BY <1>0, <1>6, <1>10 DEF NextScheduleRun
<1> QED
  BY <1>7, <1>8, <1>9, <1>10 DEF TriggerKind

-----------------------------------------------------------------------------
(* The inductive invariants.                                               *)

\* What a tick relies on between its SELECT and its end.
Selected ==
    \A t \in Tickers :
        /\ \A j \in todo[t] : jobs[j] # None /\ jobs[j].next <= at[t]
        /\ current[t] # None =>
              <<current[t], at[t]>> \in submitted /\ since[current[t]] = at[t]

\* The clock is never behind an instant that was read from it.
Clocked ==
    /\ now \in 0..MaxNow
    /\ at \in [Tickers -> 0..MaxNow]
    /\ since \in [Jobs -> 0..MaxNow]
    /\ \A j \in Jobs : jobs[j] # None => jobs[j].trigger \in Triggers
    /\ registrations \in Nat /\ faults \in Nat

\* TypeOK says what the locals hold; this, that they are functions.
Shaped == todo \in [Tickers -> SUBSET Jobs] /\ current \in [Tickers -> Jobs \cup {None}]

TickInv == TypeOK /\ Shaped /\ Selected /\ Clocked

\* Outside its INSERT and its UPDATE, a job waits for its period to end.
Later(j) ==
    /\ jobs[j].next > since[j]
    /\ jobs[j].trigger.kind = "every" /\ jobs[j].trigger.n > 0
       => jobs[j].next >= since[j] + jobs[j].trigger.n

Waiting(j) == jobs[j] # None /\ \A t \in Tickers : current[t] # j

WaitInv == faults = 0 => \A j \in Jobs : Waiting(j) => Later(j)

-----------------------------------------------------------------------------
(* The mutex: TypeOK, Selected and Clocked are inductive together.         *)

LEMMA TickInvInit == Init => TickInv
<1> SUFFICES ASSUME Init PROVE TickInv
  OBVIOUS
<1> U64Max \in Nat /\ MaxNow \in Nat /\ 0 \in Instant /\ 0 \in 0..MaxNow
  BY U64MaxAssumption, SchedulerAssumption DEF Instant
<1>1. TypeOK
  BY DEF Init, TypeOK
<1>2. Selected
  BY DEF Init, Selected
<1>3. Clocked
  BY DEF Init, Clocked
<1>4. Shaped
  BY DEF Init, Shaped
<1> QED
  BY <1>1, <1>2, <1>3, <1>4 DEF TickInv

\* While nobody holds the mutex nobody has selected a job.
LEMMA FreeHoldsNothing ==
    ASSUME TypeOK, DatabaseFree
    PROVE  \A t \in Tickers : todo[t] = {} /\ current[t] = None
BY DEF TypeOK, DatabaseFree

\* The holder of the mutex is alone with it.
LEMMA HolderAlone ==
    ASSUME TypeOK, NEW t \in Tickers, todo[t] # {}, NEW u \in Tickers, u # t
    PROVE  todo[u] = {} /\ current[u] = None
BY DEF TypeOK

\* A ticker that goes back to idle disturbs neither the table nor the others.
LEMMA EndTickKeeps ==
    ASSUME TickInv, NEW t \in Tickers, EndTick(t),
           UNCHANGED <<now, jobs, registrations, submitted, since>>,
           faults' \in Nat
    PROVE  TickInv'
<1> U64Max \in Nat /\ MaxNow \in Nat /\ 0 \in Instant /\ 0 \in 0..MaxNow
  BY U64MaxAssumption, SchedulerAssumption DEF Instant
<1> USE DEF TickInv
<1>1. /\ pc' \in [Tickers -> {"idle", "waiting", "selected", "submitted"}]
      /\ at' \in [Tickers -> Instant] /\ at' \in [Tickers -> 0..MaxNow]
      /\ pc'[t] = "idle" /\ todo'[t] = {} /\ current'[t] = None
  BY DEF EndTick, TypeOK, Shaped, Clocked
<1>2. Shaped'
  BY DEF EndTick, Shaped
<1>3. ASSUME NEW u \in Tickers, u # t
      PROVE  UNCHANGED <<pc[u], at[u], todo[u], current[u]>>
  BY <1>3 DEF EndTick, TypeOK, Shaped
<1>4. TypeOK'
  BY <1>1, <1>3 DEF TypeOK
<1>5. Selected'
  BY <1>1, <1>3 DEF Selected
<1>6. Clocked'
  BY <1>1 DEF Clocked
<1> QED
  BY <1>2, <1>4, <1>5, <1>6

LEMMA TickInvStep == TickInv /\ [Next]_vars => TickInv'
<1> SUFFICES ASSUME TickInv, [Next]_vars PROVE TickInv'
  OBVIOUS
<1> U64Max \in Nat /\ MaxNow \in 0..(U64Max \div 2) /\ MaxNow \in Nat /\ 0 \in Instant /\ 0 \in 0..MaxNow
  BY U64MaxAssumption, SchedulerAssumption DEF Instant
<1>0. 0..MaxNow \subseteq Instant
  BY DEF Instant
<1> USE DEF TickInv
<1>1. CASE Tick
  <2>1. now' \in 0..MaxNow /\ UNCHANGED <<jobs, pc, at, todo, current, registrations, faults, submitted, since>>
    BY <1>1 DEF Tick, Clocked, ticks
  <2>2. TypeOK'
    BY <1>0, <2>1 DEF TypeOK
  <2>3. Selected' /\ Shaped'
    BY <2>1 DEF Selected, Shaped
  <2>4. Clocked'
    BY <2>1 DEF Clocked
  <2> QED
    BY <2>2, <2>3, <2>4
<1>2. ASSUME NEW j \in Jobs, NEW trigger \in Triggers, Register(j, trigger)
      PROVE  TickInv'
  <2>1. PICK lag \in 0..MaxLag :
            /\ lag <= now
            /\ jobs' = [jobs EXCEPT ![j] =
                          [trigger |-> trigger, next |-> NextRun(trigger, now - lag)]]
            /\ since' = [since EXCEPT ![j] = now - lag]
    BY <1>2 DEF Register
  <2>2. lag \in Nat /\ now \in 0..MaxNow
    BY <2>1, SchedulerAssumption DEF Clocked
  <2>3. now - lag \in 0..MaxNow
    BY <2>1, <2>2
  <2>4. NextRun(trigger, now - lag) \in Column /\ trigger \in Trigger
    BY <1>0, <2>3, NextRunType, SchedulerAssumption
  <2>5. jobs' \in [Jobs -> JobRow \cup {None}]
    BY <2>1, <2>4 DEF TypeOK, JobRow
  <2>6. since' \in [Jobs -> 0..MaxNow] /\ since' \in [Jobs -> Instant]
    BY <1>0, <2>1, <2>3 DEF Clocked
  <2>7. UNCHANGED <<now, pc, at, todo, current, faults, submitted>>
    BY <1>2 DEF Register, ticks
  <2>8. TypeOK'
    BY <2>5, <2>6, <2>7 DEF TypeOK
  <2>9. Selected' /\ Shaped'
    <3>1. \A t \in Tickers : todo'[t] = {} /\ current'[t] = None
      BY <1>2, <2>7, FreeHoldsNothing DEF Register
    <3> QED
      BY <2>7, <3>1 DEF Selected, Shaped
  <2>10. Clocked'
    <3>1. registrations' \in Nat
      BY <1>2 DEF Register, Clocked
    <3>2. ASSUME NEW k \in Jobs, jobs'[k] # None PROVE jobs'[k].trigger \in Triggers
      <4>1. CASE k = j
        BY <2>1, <4>1 DEF TypeOK
      <4>2. CASE k # j
        BY <2>1, <3>2, <4>2 DEF TypeOK, Clocked
      <4> QED
        BY <4>1, <4>2
    <3> QED
      BY <2>6, <2>7, <3>1, <3>2 DEF Clocked
  <2> QED
    BY <2>8, <2>9, <2>10
<1>3. ASSUME NEW t \in Tickers, BeginTick(t)
      PROVE  TickInv'
  <2>1. /\ pc[t] = "idle"
        /\ pc' = [pc EXCEPT ![t] = "waiting"]
        /\ at' = [at EXCEPT ![t] = now]
        /\ UNCHANGED <<now, jobs, todo, current, registrations, faults, submitted, since>>
    BY <1>3 DEF BeginTick
  <2>2. /\ pc' \in [Tickers -> {"idle", "waiting", "selected", "submitted"}]
        /\ at' \in [Tickers -> Instant] /\ at' \in [Tickers -> 0..MaxNow]
        /\ pc'[t] = "waiting" /\ todo[t] = {} /\ current[t] = None
    BY <2>1 DEF TypeOK, Clocked
  <2>3. ASSUME NEW u \in Tickers, u # t PROVE UNCHANGED <<pc[u], at[u]>>
    BY <2>1, <2>3 DEF TypeOK
  <2>4. TypeOK'
    BY <2>1, <2>2, <2>3 DEF TypeOK
  <2>5. Selected' /\ Shaped'
    BY <2>1, <2>2, <2>3 DEF Selected, Shaped
  <2>6. Clocked'
    BY <2>1, <2>2 DEF Clocked
  <2> QED
    BY <2>4, <2>5, <2>6
<1>4. ASSUME NEW t \in Tickers, SelectDue(t)
      PROVE  TickInv'
  <2>1. CASE DueAt(at[t]) = {}
    BY <1>4, <2>1, EndTickKeeps DEF SelectDue, Clocked
  <2>2. CASE DueAt(at[t]) # {}
    <3>1. /\ pc' = [pc EXCEPT ![t] = "selected"]
          /\ todo' = [todo EXCEPT ![t] = DueAt(at[t])]
          /\ UNCHANGED <<now, jobs, at, current, registrations, faults, submitted, since>>
      BY <1>4, <2>2 DEF SelectDue
    <3>2. \A u \in Tickers : todo[u] = {} /\ current[u] = None
      BY <1>4, FreeHoldsNothing DEF SelectDue
    <3>3. /\ pc' \in [Tickers -> {"idle", "waiting", "selected", "submitted"}]
          /\ pc'[t] = "selected" /\ todo'[t] = DueAt(at[t])
          /\ todo' \in [Tickers -> SUBSET Jobs]
      BY <3>1 DEF TypeOK, Shaped, DueAt
    <3>4. ASSUME NEW u \in Tickers, u # t PROVE UNCHANGED <<pc[u], todo[u]>>
      BY <3>1, <3>4 DEF TypeOK, Shaped
    <3>5. TypeOK'
      BY <2>2, <3>1, <3>2, <3>3, <3>4 DEF TypeOK
    <3>6. Selected'
      BY <3>1, <3>2, <3>3, <3>4 DEF Selected, DueAt
    <3>7. Clocked' /\ Shaped'
      BY <3>1, <3>3 DEF Clocked, Shaped
    <3> QED
      BY <3>5, <3>6, <3>7
  <2> QED
    BY <2>1, <2>2
<1>5. ASSUME NEW t \in Tickers, SubmitTask(t)
      PROVE  TickInv'
  <2>1. PICK j \in todo[t] :
            /\ submitted' = submitted \cup {<<j, at[t]>>}
            /\ current' = [current EXCEPT ![t] = j]
            /\ since' = [since EXCEPT ![j] = at[t]]
    BY <1>5 DEF SubmitTask
  <2>2. /\ pc[t] = "selected" /\ pc' = [pc EXCEPT ![t] = "submitted"]
        /\ UNCHANGED <<now, jobs, at, todo, registrations, faults>>
    BY <1>5 DEF SubmitTask
  <2>3. j \in Jobs /\ j # None /\ at[t] \in Instant /\ at[t] \in 0..MaxNow
    BY <2>1, NoneAssumption DEF TypeOK, Clocked
  <2>4. /\ pc' \in [Tickers -> {"idle", "waiting", "selected", "submitted"}]
        /\ pc'[t] = "submitted" /\ current'[t] = j
        /\ current' \in [Tickers -> Jobs \cup {None}]
    BY <2>1, <2>2, <2>3 DEF TypeOK, Shaped
  <2>5. ASSUME NEW u \in Tickers, u # t PROVE UNCHANGED <<pc[u], current[u]>>
    BY <2>1, <2>2, <2>5 DEF TypeOK, Shaped
  <2>6. submitted' \subseteq Jobs \X Instant
    BY <2>1, <2>3 DEF TypeOK
  <2>7. since' \in [Jobs -> Instant] /\ since' \in [Jobs -> 0..MaxNow] /\ since'[j] = at[t]
    BY <2>1, <2>3 DEF TypeOK, Clocked
  <2>8. TypeOK'
    BY <2>1, <2>2, <2>3, <2>4, <2>5, <2>6, <2>7 DEF TypeOK
  <2>9. Selected'
    <3>1. ASSUME NEW u \in Tickers, u # t PROVE current'[u] = None
      BY <2>1, <2>5, <3>1, HolderAlone
    <3> QED
      BY <2>1, <2>2, <2>4, <2>7, <3>1 DEF Selected
  <2>10. Clocked' /\ Shaped'
    BY <2>2, <2>4, <2>7 DEF Clocked, Shaped
  <2> QED
    BY <2>8, <2>9, <2>10
<1>6. ASSUME NEW t \in Tickers, AdvanceJob(t)
      PROVE  TickInv'
  <2>1. PICK j : j = current[t]
    OBVIOUS
  <2>2. PICK rest : rest = todo[t] \ {j}
    OBVIOUS
  <2>3. /\ pc[t] = "submitted"
        /\ jobs' = [jobs EXCEPT ![j].next = NextRun(jobs[j].trigger, at[t])]
        /\ IF rest = {}
           THEN EndTick(t)
           ELSE /\ todo' = [todo EXCEPT ![t] = rest]
                /\ pc' = [pc EXCEPT ![t] = "selected"]
                /\ current' = [current EXCEPT ![t] = None]
                /\ UNCHANGED at
        /\ UNCHANGED <<now, registrations, faults, submitted, since>>
    BY <1>6, <2>1, <2>2 DEF AdvanceJob
  <2>4. j \in todo[t] /\ j \in Jobs /\ jobs[j] # None /\ at[t] \in Instant
    BY <2>1, <2>3 DEF TypeOK, Selected
  <2>5. jobs[j] \in JobRow /\ jobs[j].trigger \in Trigger /\ jobs[j].trigger \in Triggers
    BY <2>4 DEF TypeOK, JobRow, Clocked
  <2>6. NextRun(jobs[j].trigger, at[t]) \in Column
    BY <2>4, <2>5, NextRunType
  <2>7. jobs' \in [Jobs -> JobRow \cup {None}]
    BY <2>3, <2>4, <2>5, <2>6 DEF TypeOK, JobRow
  <2>8. ASSUME NEW k \in Jobs, k # j PROVE jobs'[k] = jobs[k]
    BY <2>3, <2>8 DEF TypeOK
  <2>9. jobs'[j].trigger = jobs[j].trigger
    BY <2>3, <2>4, <2>5 DEF TypeOK, JobRow
  <2>10. ASSUME NEW u \in Tickers, u # t PROVE todo[u] = {} /\ current[u] = None
    BY <2>4, <2>10, HolderAlone
  <2>11. UNCHANGED <<now, registrations, faults, submitted, since>>
    BY <2>3
  <2>12. \A k \in Jobs : jobs'[k] # None => jobs'[k].trigger \in Triggers
    BY <2>5, <2>8, <2>9 DEF Clocked
  <2>13. CASE rest = {}
    <3>1. EndTick(t)
      BY <2>3, <2>13
    <3>2. /\ pc' \in [Tickers -> {"idle", "waiting", "selected", "submitted"}]
          /\ at' \in [Tickers -> Instant] /\ at' \in [Tickers -> 0..MaxNow]
          /\ pc'[t] = "idle" /\ todo'[t] = {} /\ current'[t] = None
      BY <3>1 DEF EndTick, TypeOK, Shaped, Clocked
    <3>3. Shaped'
      BY <3>1 DEF EndTick, Shaped
    <3>4. ASSUME NEW u \in Tickers, u # t
          PROVE  UNCHANGED <<pc[u], at[u], todo[u], current[u]>>
      BY <3>1, <3>4 DEF EndTick, TypeOK, Shaped
    <3>5. TypeOK'
      BY <2>7, <2>11, <3>2, <3>4 DEF TypeOK
    <3>6. Selected'
      BY <2>10, <3>2, <3>4 DEF Selected
    <3>7. Clocked'
      BY <2>11, <2>12, <3>2 DEF Clocked
    <3> QED
      BY <3>3, <3>5, <3>6, <3>7
  <2>14. CASE rest # {}
    <3>1. /\ todo' = [todo EXCEPT ![t] = rest]
          /\ pc' = [pc EXCEPT ![t] = "selected"]
          /\ current' = [current EXCEPT ![t] = None]
          /\ at' = at
      BY <2>3, <2>14
    <3>2. rest \in SUBSET Jobs
      BY <2>2 DEF TypeOK
    <3>3. /\ pc' \in [Tickers -> {"idle", "waiting", "selected", "submitted"}]
          /\ pc'[t] = "selected" /\ todo'[t] = rest /\ current'[t] = None
          /\ Shaped'
      BY <3>1, <3>2 DEF TypeOK, Shaped
    <3>4. ASSUME NEW u \in Tickers, u # t
          PROVE  UNCHANGED <<pc[u], todo[u], current[u]>>
      BY <3>1, <3>4 DEF TypeOK, Shaped
    <3>5. TypeOK'
      BY <2>7, <2>10, <2>11, <2>14, <3>1, <3>2, <3>3, <3>4 DEF TypeOK
    <3>6. Selected'
      <4>1. \A k \in rest : jobs'[k] # None /\ jobs'[k].next <= at'[t]
        BY <2>2, <2>8, <3>1, <3>2 DEF Selected
      <4> QED
        BY <2>10, <3>3, <3>4, <4>1 DEF Selected
    <3>7. Clocked'
      BY <2>11, <2>12, <3>1 DEF Clocked
    <3> QED
      BY <3>3, <3>5, <3>6, <3>7
  <2> QED
    BY <2>13, <2>14
<1>7. ASSUME NEW t \in Tickers, TickError(t)
      PROVE  TickInv'
  BY <1>7, EndTickKeeps DEF TickError, Suffer, Clocked
<1>8. CASE Crash
  <2>1. /\ pc' = [t \in Tickers |-> "idle"]
        /\ at' = [t \in Tickers |-> 0]
        /\ todo' = [t \in Tickers |-> {}]
        /\ current' = [t \in Tickers |-> None]
        /\ UNCHANGED <<now, jobs, registrations, submitted, since>>
        /\ faults' \in Nat
    BY <1>8 DEF Crash, Suffer, Clocked
  <2>2. TypeOK'
    BY <2>1 DEF TypeOK
  <2>3. Selected' /\ Shaped'
    BY <2>1 DEF Selected, Shaped
  <2>4. Clocked'
    BY <2>1 DEF Clocked
  <2> QED
    BY <2>2, <2>3, <2>4
<1>9. CASE UNCHANGED vars
  BY <1>9 DEF vars, ticks, TypeOK, Shaped, Selected, Clocked
<1> QED
  BY <1>1, <1>2, <1>3, <1>4, <1>5, <1>6, <1>7, <1>8, <1>9 DEF Next, TickStep

LEMMA TickInvHolds == Spec => []TickInv
BY TickInvInit, TickInvStep, PTL DEF Spec

(***************************************************************************)
(* Type correctness: the rows and the ticks' locals keep their shape, a    *)
(* saturated or negative next run included, and only one tick at a time    *)
(* holds the mutex of run_scheduler_tick, for any faults.                  *)
(***************************************************************************)
THEOREM TypeCorrect == Spec => []TypeOK
<1>1. TickInv => TypeOK
  BY DEF TickInv
<1> QED
  BY <1>1, TickInvHolds, PTL

-----------------------------------------------------------------------------
(* What may change a row of scheduled_jobs.                                *)

LEMMA RowStep ==
    ASSUME TickInv, [Next]_vars, NEW j \in Jobs, jobs[j] # None, jobs'[j] # jobs[j]
    PROVE  \/ registrations' > registrations
           \/ \E i \in Instant : i >= jobs[j].next /\ <<j, i>> \in submitted
<1>1. ASSUME NEW k \in Jobs, NEW trigger \in Triggers, Register(k, trigger)
      PROVE  registrations' > registrations
  BY <1>1 DEF Register, TickInv, Clocked
<1>2. ASSUME NEW t \in Tickers, AdvanceJob(t)
      PROVE  \E i \in Instant : i >= jobs[j].next /\ <<j, i>> \in submitted
  <2>1. PICK c : c = current[t]
    OBVIOUS
  <2>2. /\ pc[t] = "submitted"
        /\ jobs' = [jobs EXCEPT ![c].next = NextRun(jobs[c].trigger, at[t])]
    BY <1>2, <2>1 DEF AdvanceJob
  <2>3. j = c
    BY <2>2 DEF TickInv, TypeOK
  <2>4. j \in todo[t] /\ j # None /\ at[t] \in Instant
    BY <2>1, <2>2, <2>3 DEF TickInv, TypeOK
  <2>5. jobs[j].next <= at[t] /\ <<j, at[t]>> \in submitted
    BY <2>1, <2>3, <2>4 DEF TickInv, Selected
  <2>6. jobs[j].next \in Int /\ at[t] \in Int
    BY <2>4, U64MaxAssumption DEF TickInv, TypeOK, JobRow, Column, Instant
  <2> QED
    BY <2>4, <2>5, <2>6
<1>3. CASE Tick \/ Crash \/ UNCHANGED vars
  BY <1>3 DEF Tick, Crash, vars
<1>4. ASSUME NEW t \in Tickers, BeginTick(t) \/ SelectDue(t) \/ SubmitTask(t) \/ TickError(t)
      PROVE  UNCHANGED jobs
  BY <1>4 DEF BeginTick, SelectDue, SubmitTask, TickError
<1> QED
  BY <1>1, <1>2, <1>3, <1>4 DEF Next, TickStep

(***************************************************************************)
(* At least once: for any number of tickers, and through any crashes and   *)
(* failing statements of run_scheduler_tick, the next run of a due job is  *)
(* only moved on after its task was put in the queue, or by a new          *)
(* registration.                                                           *)
(***************************************************************************)
THEOREM AtLeastOnceHolds == Spec => AtLeastOnce
<1>1. ASSUME TickInv, [Next]_vars
      PROVE  [\A j \in Jobs :
                 /\ jobs[j] # None /\ jobs'[j] # jobs[j]
                 => \/ registrations' > registrations
                    \/ \E i \in Instant :
                          i >= jobs[j].next /\ <<j, i>> \in submitted]_vars
  BY <1>1, RowStep
<1> QED
  BY <1>1, TickInvHolds, PTL DEF Spec, AtLeastOnce

-----------------------------------------------------------------------------
(* While nothing fails, a job that is not between its INSERT and its       *)
(* UPDATE waits for its period to end.                                     *)

LEMMA WaitInit == Init => WaitInv
BY DEF Init, WaitInv, Waiting

\* A row written now, by an UPDATE or a registration, waits.
LEMMA RowWaits ==
    ASSUME WaitsFit, TickInv', NEW j \in Jobs, NEW trigger \in Triggers,
           NEW instant \in 0..MaxNow,
           jobs'[j].trigger = trigger, jobs'[j].next = NextRun(trigger, instant),
           since'[j] = instant
    PROVE  Later(j)'
BY NextRunLater DEF Later

LEMMA RowKept ==
    ASSUME NEW j \in Jobs, Later(j), jobs'[j] = jobs[j], since'[j] = since[j]
    PROVE  Later(j)'
BY DEF Later

LEMMA WaitStep ==
    ASSUME WaitsFit, TickInv, TickInv', WaitInv, [Next]_vars
    PROVE  WaitInv'
<1> SUFFICES ASSUME faults' = 0, NEW k \in Jobs, Waiting(k)'
             PROVE  Later(k)'
  BY DEF WaitInv
<1>0. faults = 0 /\ ~Crash /\ \A t \in Tickers : ~TickError(t)
  <2>1. \/ faults' = faults
        \/ faults' = faults + 1 /\ (Crash \/ \E t \in Tickers : TickError(t))
    BY DEF Next, Tick, Register, BeginTick, TickStep, SelectDue, SubmitTask,
           AdvanceJob, TickError, Crash, Suffer, vars
  <2>2. faults \in Nat
    BY DEF TickInv, Clocked
  <2>3. Crash \/ (\E t \in Tickers : TickError(t)) => faults' = faults + 1
    BY DEF TickError, Crash, Suffer
  <2> QED
    BY <2>1, <2>2, <2>3
<1>1. jobs'[k] # None /\ \A t \in Tickers : current'[t] # k
  BY DEF Waiting
<1>2. ASSUME UNCHANGED <<jobs, since>>, \A t \in Tickers : current[t] # k
      PROVE  Later(k)'
  BY <1>0, <1>1, <1>2, RowKept DEF WaitInv, Waiting
<1>3. CASE Tick \/ UNCHANGED vars
  BY <1>1, <1>2, <1>3 DEF Tick, vars, ticks
<1>4. ASSUME NEW j \in Jobs, NEW trigger \in Triggers, Register(j, trigger)
      PROVE  Later(k)'
  <2>1. PICK lag \in 0..MaxLag :
            /\ lag <= now
            /\ jobs' = [jobs EXCEPT ![j] =
                          [trigger |-> trigger, next |-> NextRun(trigger, now - lag)]]
            /\ since' = [since EXCEPT ![j] = now - lag]
    BY <1>4 DEF Register
  <2>2. lag \in Nat /\ now \in 0..MaxNow
    BY <2>1, SchedulerAssumption DEF TickInv, Clocked
  <2>3. now - lag \in 0..MaxNow
    BY <2>1, <2>2, SchedulerAssumption
  <2>4. current' = current
    BY <1>4 DEF Register, ticks
  <2>5. CASE k = j
    <3>1. /\ jobs'[k] = [trigger |-> trigger, next |-> NextRun(trigger, now - lag)]
          /\ since'[k] = now - lag
      BY <2>1, <2>5 DEF TickInv, TypeOK
    <3> QED
      BY <2>3, <3>1, RowWaits
  <2>6. CASE k # j
    <3>1. jobs'[k] = jobs[k] /\ since'[k] = since[k]
      BY <2>1, <2>6 DEF TickInv, TypeOK
    <3>2. Later(k)
      BY <1>0, <1>1, <2>4, <3>1 DEF WaitInv, Waiting
    <3> QED
      BY <3>1, <3>2, RowKept
  <2> QED
    BY <2>5, <2>6
<1>5. ASSUME NEW t \in Tickers, BeginTick(t)
      PROVE  Later(k)'
  BY <1>1, <1>2, <1>5 DEF BeginTick
<1>6. ASSUME NEW t \in Tickers, SelectDue(t)
      PROVE  Later(k)'
  <2>1. UNCHANGED <<jobs, since>>
    BY <1>6 DEF SelectDue
  <2>2. \A u \in Tickers : current[u] = None
    BY <1>6, FreeHoldsNothing DEF SelectDue, TickInv
  <2> QED
    BY <1>2, <2>1, <2>2, NoneAssumption
<1>7. ASSUME NEW t \in Tickers, SubmitTask(t)
      PROVE  Later(k)'
  <2>1. PICK j \in todo[t] :
            /\ current' = [current EXCEPT ![t] = j]
            /\ since' = [since EXCEPT ![j] = at[t]]
    BY <1>7 DEF SubmitTask
  <2>2. /\ jobs' = jobs /\ pc[t] = "selected"
    BY <1>7 DEF SubmitTask
  <2>3. k # j
    BY <1>1, <2>1 DEF TickInv, Shaped
  <2>4. since'[k] = since[k]
    BY <2>1, <2>3 DEF TickInv, TypeOK
  <2>5. \A u \in Tickers : current[u] = None
    BY <2>1, <2>2, HolderAlone DEF TickInv, TypeOK
  <2>6. Later(k)
    BY <1>0, <1>1, <2>2, <2>5, NoneAssumption DEF WaitInv, Waiting
  <2> QED
    BY <2>2, <2>4, <2>6, RowKept
<1>8. ASSUME NEW t \in Tickers, AdvanceJob(t)
      PROVE  Later(k)'
  <2>1. PICK j : j = current[t]
    OBVIOUS
  <2>2. /\ pc[t] = "submitted"
        /\ jobs' = [jobs EXCEPT ![j].next = NextRun(jobs[j].trigger, at[t])]
        /\ since' = since
    BY <1>8, <2>1 DEF AdvanceJob
  <2>3. j \in todo[t] /\ j \in Jobs /\ j # None /\ jobs[j] # None
    <3>1. /\ todo[t] \in SUBSET Jobs
          /\ current[t] \in todo[t] \cup {None} /\ current[t] # None
      BY <2>2 DEF TickInv, TypeOK
    <3>2. j \in todo[t] /\ j \in Jobs /\ j # None
      BY <2>1, <3>1
    <3> QED
      BY <3>2 DEF TickInv, Selected
  <2>4. /\ jobs[j] \in JobRow /\ jobs[j].trigger \in Triggers
        /\ at[t] \in 0..MaxNow /\ since[j] = at[t]
    <3>1. jobs[j] \in JobRow
      BY <2>3 DEF TickInv, TypeOK
    <3>2. jobs[j].trigger \in Triggers /\ at[t] \in 0..MaxNow
      BY <2>3 DEF TickInv, Clocked
    <3>3. since[j] = at[t]
      BY <2>1, <2>3 DEF TickInv, Selected
    <3> QED
      BY <3>1, <3>2, <3>3
  <2>5. CASE k = j
    <3>1. /\ jobs'[k].trigger = jobs[k].trigger
          /\ jobs'[k].next = NextRun(jobs[k].trigger, at[t])
          /\ since'[k] = at[t]
      BY <2>2, <2>3, <2>4, <2>5 DEF TickInv, TypeOK, JobRow
    <3> QED
      BY <2>4, <2>5, <3>1, RowWaits
  <2>6. CASE k # j
    <3>1. jobs'[k] = jobs[k]
      BY <2>2, <2>6 DEF TickInv, TypeOK
    <3>2. \A u \in Tickers : current[u] # k
      BY <2>1, <2>3, <2>6, HolderAlone, NoneAssumption DEF TickInv
    <3>3. Later(k)
      BY <1>0, <1>1, <3>1, <3>2 DEF WaitInv, Waiting
    <3> QED
      BY <2>2, <3>1, <3>3, RowKept
  <2> QED
    BY <2>5, <2>6
<1> QED
  BY <1>0, <1>3, <1>4, <1>5, <1>6, <1>7, <1>8 DEF Next, TickStep

LEMMA WaitInvHolds ==
    ASSUME WaitsFit
    PROVE  Spec => [](TickInv /\ WaitInv)
<1>1. Init => TickInv /\ WaitInv
  BY TickInvInit, WaitInit
<1>2. TickInv /\ WaitInv /\ [Next]_vars => (TickInv /\ WaitInv)'
  BY TickInvStep, WaitStep
<1> QED
  BY <1>1, <1>2, PTL DEF Spec

\* A job is submitted by the one holder of the mutex, when its wait is over.
LEMMA SubmitStep ==
    ASSUME TickInv, WaitInv, [Next]_vars, faults = 0,
           NEW t \in Tickers, NEW j \in Jobs, Submits(t, j)
    PROVE  /\ at[t] > since[j]
           /\ jobs[j].trigger.kind = "every" /\ jobs[j].trigger.n > 0
              => at[t] >= since[j] + jobs[j].trigger.n
<1>0. pc[t] = "selected" /\ current'[t] = j /\ current[t] = None /\ j # None
  BY NoneAssumption DEF Submits
<1>1. SubmitTask(t)
  <2>1. ASSUME NEW u \in Tickers, u # t, SubmitTask(u) \/ TickError(u)
        PROVE  current'[t] = current[t]
    BY <2>1 DEF SubmitTask, TickError, EndTick, TickInv, Shaped
  <2>2. ASSUME NEW u \in Tickers, SelectDue(u) \/ AdvanceJob(u) \/ TickError(u)
        PROVE  current'[t] \in {None, current[t]}
    BY <2>2 DEF SelectDue, AdvanceJob, TickError, EndTick, TickInv, Shaped
  <2>3. CASE Tick \/ Crash \/ UNCHANGED vars
    BY <1>0, <2>3 DEF Tick, Crash, vars, ticks
  <2>4. ASSUME NEW k \in Jobs, NEW trigger \in Triggers, Register(k, trigger)
        PROVE  FALSE
    BY <1>0, <2>4 DEF Register, ticks
  <2>5. ASSUME NEW u \in Tickers, BeginTick(u)
        PROVE  FALSE
    BY <1>0, <2>5 DEF BeginTick
  <2> QED
    BY <1>0, <2>1, <2>2, <2>3, <2>4, <2>5 DEF Next, TickStep
<1>2. j \in todo[t]
  BY <1>0, <1>1 DEF SubmitTask, TickInv, Shaped
<1>3. jobs[j] # None /\ jobs[j].next <= at[t]
  BY <1>2 DEF TickInv, Selected
<1>4. \A u \in Tickers : current[u] # j
  BY <1>0, <1>2, HolderAlone DEF TickInv
<1>5. Later(j)
  BY <1>3, <1>4 DEF WaitInv, Waiting
<1>6. /\ at[t] \in Int /\ since[j] \in Int /\ jobs[j].next \in Int
      /\ jobs[j].trigger.n \in Int
  BY <1>3, U64MaxAssumption DEF TickInv, TypeOK, JobRow, Trigger, Column, Instant
<1> QED
  BY <1>3, <1>5, <1>6 DEF Later

(***************************************************************************)
(* For any number of jobs, workers and callers of POST /scheduler/tick, a  *)
(* job that runs every n seconds is not submitted twice within n seconds,  *)
(* nor within n seconds of its registration, until a crash or an error     *)
(* falls between its INSERT and its UPDATE.  WaitsFit leaves out the       *)
(* periods that saturate u64 or turn negative as an i64: a job with such a *)
(* period is due at every tick.                                            *)
(***************************************************************************)
THEOREM SpacedHolds ==
    ASSUME WaitsFit
    PROVE  Spec => Spaced
<1>1. ASSUME TickInv, WaitInv, [Next]_vars
      PROVE  [\A t \in Tickers, j \in Jobs :
                 /\ faults = 0 /\ Submits(t, j)
                 /\ jobs[j].trigger.kind = "every" /\ jobs[j].trigger.n > 0
                 => at[t] >= since[j] + jobs[j].trigger.n]_vars
  BY <1>1, SubmitStep
<1> QED
  BY <1>1, WaitInvHolds, PTL DEF Spec, Spaced

(***************************************************************************)
(* For any triggers that fit, a job's submissions come at strictly later   *)
(* instants until something fails: the task id "sched-<job>-<instant>"     *)
(* replaces no earlier task of the job since its registration.             *)
(***************************************************************************)
THEOREM FreshTaskIdsHolds ==
    ASSUME WaitsFit
    PROVE  Spec => FreshTaskIds
<1>1. ASSUME TickInv, WaitInv, [Next]_vars
      PROVE  [\A t \in Tickers, j \in Jobs :
                 faults = 0 /\ Submits(t, j) => at[t] > since[j]]_vars
  BY <1>1, SubmitStep
<1> QED
  BY <1>1, WaitInvHolds, PTL DEF Spec, FreshTaskIds
=============================================================================
