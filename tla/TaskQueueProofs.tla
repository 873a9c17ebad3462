-------------------------- MODULE TaskQueueProofs --------------------------
(***************************************************************************)
(* Proofs about TaskQueue, for every set of ids and workers, every bound   *)
(* and every number of faults.                                             *)
(***************************************************************************)
EXTENDS TaskQueueRefinement, TLAPS, FiniteSetTheorems

TypeInv == TypeOK /\ HeldWhileBusy

\* The arithmetic of the backoff stays within u64, whatever the attempt, delay
\* and jitter.
LEMMA RetryInstant ==
    ASSUME NEW t \in Instant, NEW n \in Nat
    PROVE  SatAdd(t, ComputeRetryDelay(n, BaseDelay, JitterSeconds, t))
               \in Instant
<1> USE U64MaxAssumption, QueueAssumption
<1> DEFINE p == Pow2[Exponent(n) + 1]
           product == SatMul(BaseDelay, p)
           jitter == Jitter(JitterSeconds, t)
<1>1. Exponent(n) \in 0..16
  BY DEF Exponent
<1>2. p \in Nat
  BY <1>1 DEF Pow2
<1>3. product \in Nat
  <2>1. BaseDelay * p \in Nat
    BY <1>2
  <2> QED
    BY <2>1 DEF SatMul
<1>4. jitter \in Nat
  BY DEF Jitter, Instant
<1>5. SatAdd(product, jitter) \in Nat
  BY <1>3, <1>4 DEF SatAdd
<1> QED
  BY <1>5 DEF ComputeRetryDelay, SatAdd, Instant

\* The cast of any u64 fits the signed column.
LEMMA ColumnType ==
    ASSUME NEW n \in Instant
    PROVE  ToI64(n) \in Column
  BY U64MaxAssumption DEF ToI64, I64Max, Column, Instant

-----------------------------------------------------------------------------
(* Type correctness.                                                       *)

LEMMA TypeInit == Init => TypeInv
  BY U64MaxAssumption, NoneAssumption
  DEF Init, TypeInv, TypeOK, HeldWhileBusy, Busy, Instant

LEMMA NewRowType ==
    ASSUME NEW kind \in Kinds, NEW max \in MaxAttempts, NEW avail \in Instant
    PROVE  NewRow(kind, max, avail) \in Row
  BY QueueAssumption, ColumnType DEF NewRow, Row

LEMMA RequeuedRowType ==
    ASSUME requeuing \in Requeued
    PROVE  NewRow(requeuing.kind, requeuing.max, requeuing.at) \in Row
  BY ColumnType DEF NewRow, Row, Requeued

LEMMA SubmitType ==
    ASSUME TypeInv, NEW ids \in SUBSET TaskId, NEW row \in Row, Submit(ids, row)
    PROVE  /\ taskQueue' \in [TaskId -> Row \cup {None}]
           /\ requests' \in Nat
           /\ tries' \in [TaskId -> Nat]
           /\ owed' \subseteq TaskId
  BY DEF Submit, TypeInv, TypeOK

LEMMA EnqueueType ==
    ASSUME TypeInv, NEW id \in ClientIds, Enqueue(id)
    PROVE  TypeInv'
<1>1. PICK kind \in Kinds, max \in MaxAttempts, lag \in 0..MaxLag :
         lag <= now /\ Submit({id}, NewRow(kind, max, now - lag))
  BY DEF Enqueue
<1>2. now - lag \in Instant
  BY <1>1, U64MaxAssumption, QueueAssumption DEF TypeInv, TypeOK, Instant
<1>3. NewRow(kind, max, now - lag) \in Row
  BY <1>2, NewRowType
<1>4. {id} \in SUBSET TaskId
  BY DEF TaskId
<1>5. /\ taskQueue' \in [TaskId -> Row \cup {None}]
      /\ requests' \in Nat
      /\ tries' \in [TaskId -> Nat]
      /\ owed' \subseteq TaskId
  BY <1>1, <1>3, <1>4, SubmitType
<1> QED
  BY <1>5 DEF Enqueue, TypeInv, TypeOK, HeldWhileBusy, workers

LEMMA SchedulerTickType ==
    ASSUME TypeInv, NEW w \in Workers, NEW due \in SUBSET ScheduledIds,
           SchedulerTick(w, due)
    PROVE  TypeInv'
<1>1. /\ taskQueue' \in [TaskId -> Row \cup {None}]
      /\ requests' \in Nat
      /\ tries' \in [TaskId -> Nat]
      /\ owed' \subseteq TaskId
  <2>1. CASE due = {}
    BY <2>1 DEF SchedulerTick, TypeInv, TypeOK, history
  <2>2. CASE due # {}
    <3>1. PICK kind \in Kinds, max \in MaxAttempts :
             Submit(due, NewRow(kind, max, cycleNow[w]))
      BY <2>2 DEF SchedulerTick
    <3>2. NewRow(kind, max, cycleNow[w]) \in Row
      BY NewRowType DEF TypeInv, TypeOK
    <3>3. due \in SUBSET TaskId
      BY DEF TaskId
    <3> QED
      BY <3>1, <3>2, <3>3, SubmitType
  <2> QED
    BY <2>1, <2>2
<1>2. pc' = [pc EXCEPT ![w] = "claim"] /\ pc[w] = "tick"
  BY DEF SchedulerTick, Goto
<1>3. UNCHANGED <<now, deadLetter, cycleNow, held, requeuing, faults>>
  BY DEF SchedulerTick
<1>4. HeldWhileBusy'
  BY <1>2, <1>3 DEF TypeInv, TypeOK, HeldWhileBusy, Busy
<1> QED
  BY <1>1, <1>2, <1>3, <1>4 DEF TypeInv, TypeOK

\* A worker at the end of its cycle: whatever it was doing, it holds nothing.
LEMMA EndCycleType ==
    ASSUME TypeInv, NEW w \in Workers, EndCycle(w)
    PROVE  /\ pc' \in [Workers -> {"sleep", "tick", "claim"} \cup Busy]
           /\ cycleNow' \in [Workers -> Instant]
           /\ held' \in [Workers -> Task \cup {None}]
           /\ HeldWhileBusy'
<1>1. 0 \in Instant
  BY U64MaxAssumption DEF Instant
<1> QED
  BY <1>1 DEF EndCycle, Goto, TypeInv, TypeOK, HeldWhileBusy, Busy

LEMMA ClaimType ==
    ASSUME TypeInv, NEW w \in Workers, Claim(w)
    PROVE  TypeInv'
<1>1. PICK id \in FirstDue(cycleNow[w]) :
        /\ taskQueue' = [taskQueue EXCEPT ![id].status = "running"]
        /\ held' = [held EXCEPT ![w] =
                      [id |-> id, kind |-> taskQueue[id].kind,
                       attempts |-> taskQueue[id].attempts,
                       max |-> taskQueue[id].max]]
        /\ tries' = [tries EXCEPT ![id] = @ + 1]
  BY DEF Claim
<1>2. id \in TaskId /\ taskQueue[id] \in Row
  BY DEF FirstDue, Due, Waiting, InQueue, TypeInv, TypeOK
<1>3. taskQueue' \in [TaskId -> Row \cup {None}]
  BY <1>1, <1>2 DEF TypeInv, TypeOK, Row
<1>4. held' \in [Workers -> Task \cup {None}] /\ held'[w] \in Task
  BY <1>1, <1>2 DEF TypeInv, TypeOK, Row, Task
<1>5. tries' \in [TaskId -> Nat]
  BY <1>1, <1>2 DEF TypeInv, TypeOK
<1>6. pc' = [pc EXCEPT ![w] = "run"]
  BY DEF Claim, Goto
<1>7. HeldWhileBusy'
  <2>1. held'[w] # None
    BY <1>4, NoneAssumption
  <2> QED
    BY <1>1, <1>6, <2>1 DEF TypeInv, TypeOK, HeldWhileBusy, Busy
<1> QED
  BY <1>3, <1>4, <1>5, <1>6, <1>7 DEF Claim, TypeInv, TypeOK, Busy

\* What a worker that is busy with a task knows about it.
LEMMA HeldType ==
    ASSUME TypeInv, NEW w \in Workers, pc[w] \in Busy
    PROVE  held[w] \in Task /\ held[w] # None
  BY DEF TypeInv, TypeOK, HeldWhileBusy

LEMMA RetryType ==
    ASSUME TypeInv, NEW w \in Workers, Retry(w)
    PROVE  TypeInv'
<1>1. held[w] \in Task
  BY HeldType DEF Retry, Busy
<1>2. AttemptsNext(w) \in Nat
  BY <1>1 DEF AttemptsNext, Task
<1>3. RetryAt(w) \in Column
  BY <1>2, RetryInstant, ColumnType DEF RetryAt, TypeInv, TypeOK
<1>4. taskQueue' \in [TaskId -> Row \cup {None}]
  <2>1. ASSUME NEW id \in TaskId, InQueue(id)
        PROVE  [taskQueue[id] EXCEPT !.status = "retry",
                                     !.attempts = AttemptsNext(w),
                                     !.avail = RetryAt(w)] \in Row
    <3>1. taskQueue[id] \in Row
      BY <2>1 DEF InQueue, TypeInv, TypeOK
    <3> QED
      BY <3>1, <1>2, <1>3 DEF Row
  <2> QED
    BY <2>1 DEF Retry, TypeInv, TypeOK
<1>5. EndCycle(w)
  BY DEF Retry
<1> QED
  BY <1>4, <1>5, EndCycleType DEF Retry, TypeInv, TypeOK, history

LEMMA TaskStepType ==
    ASSUME TypeInv, NEW w \in Workers, TaskStep(w)
    PROVE  TypeInv'
<1>1. CASE Claim(w)
  BY <1>1, ClaimType
<1>2. CASE NothingDue(w)
  BY <1>2, EndCycleType DEF NothingDue, TypeInv, TypeOK, tables, history
<1>3. CASE Execute(w)
  <2>1. PICK outcome \in {"ok", "failed"} : pc' = [pc EXCEPT ![w] = outcome]
    BY <1>3 DEF Execute, Outcomes, Goto
  <2>2. pc[w] \in Busy /\ outcome \in Busy
    BY <1>3 DEF Execute, Busy
  <2>3. HeldWhileBusy'
    BY <1>3, <2>1, <2>2 DEF Execute, TypeInv, TypeOK, HeldWhileBusy
  <2> QED
    BY <1>3, <2>1, <2>2, <2>3
    DEF Execute, TypeInv, TypeOK, tables, history
<1>4. CASE Complete(w)
  <2>1. held[w].id \in TaskId
    BY <1>4, HeldType DEF Complete, Busy, Task
  <2> QED
    BY <1>4, <2>1, EndCycleType DEF Complete, TypeInv, TypeOK
<1>5. CASE Retry(w)
  BY <1>5, RetryType
<1>6. CASE DeadLetterDelete(w)
  <2>1. HeldWhileBusy'
    BY <1>6
    DEF DeadLetterDelete, Goto, TypeInv, TypeOK, HeldWhileBusy, Busy
  <2> QED
    BY <1>6, <2>1
    DEF DeadLetterDelete, Goto, TypeInv, TypeOK, Busy, history
<1>7. CASE DeadLetterInsert(w)
  <2>1. held[w] \in Task
    BY <1>7, HeldType DEF DeadLetterInsert, Busy
  <2>2. [kind |-> held[w].kind, attempts |-> AttemptsNext(w),
         max |-> held[w].max] \in DeadRow
    BY <2>1 DEF AttemptsNext, Task, DeadRow
  <2>3. deadLetter' \in [TaskId -> DeadRow \cup {None}]
    BY <1>7, <2>2 DEF DeadLetterInsert, TypeInv, TypeOK
  <2> QED
    BY <1>7, <2>3, EndCycleType DEF DeadLetterInsert, TypeInv, TypeOK, history
<1> QED
  BY <1>1, <1>2, <1>3, <1>4, <1>5, <1>6, <1>7 DEF TaskStep

LEMMA OtherStepType ==
    ASSUME TypeInv, OtherStep
    PROVE  TypeInv'
<1> USE U64MaxAssumption
<1>1. CASE Tick
  <2>1. now' \in Instant
    BY <1>1, QueueAssumption DEF Tick, TypeInv, TypeOK, Instant
  <2> QED
    BY <1>1, <2>1
    DEF Tick, TypeInv, TypeOK, HeldWhileBusy, tables, workers, history
<1>2. ASSUME NEW w \in Workers, BeginCycle(w) PROVE TypeInv'
  BY <1>2
  DEF BeginCycle, Goto, TypeInv, TypeOK, HeldWhileBusy, Busy, tables, history
<1>3. ASSUME NEW id \in TaskId, RequeueDelete(id) PROVE TypeInv'
  <2>1. deadLetter[id] \in DeadRow
    BY <1>3 DEF RequeueDelete, TypeInv, TypeOK
  <2>2. requeuing' \in Requeued
    BY <1>3, <2>1
    DEF RequeueDelete, Requeued, DeadRow, TypeInv, TypeOK
  <2> QED
    BY <1>3, <2>2
    DEF RequeueDelete, TypeInv, TypeOK, HeldWhileBusy, workers, history
<1>4. CASE RequeueInsert
  <2>1. requeuing \in Requeued
    BY <1>4 DEF RequeueInsert, TypeInv, TypeOK
  <2>2. NewRow(requeuing.kind, requeuing.max, requeuing.at) \in Row
    BY <2>1, RequeuedRowType
  <2>3. requeuing.id \in TaskId
    BY <2>1 DEF Requeued
  <2> QED
    BY <1>4, <2>2, <2>3
    DEF RequeueInsert, TypeInv, TypeOK, HeldWhileBusy, workers
<1>5. CASE Crash
  BY <1>5
  DEF Crash, Suffer, TypeInv, TypeOK, HeldWhileBusy, Busy, Instant, tables,
      history
<1>6. ASSUME NEW w \in Workers, StatementError(w) PROVE TypeInv'
  <2>1. CASE pc[w] = "tick" /\ Goto(w, "claim") /\ UNCHANGED <<cycleNow, held>>
    BY <1>6, <2>1
    DEF StatementError, Suffer, Goto, TypeInv, TypeOK, HeldWhileBusy, Busy,
        tables, history
  <2>2. CASE EndCycle(w)
    BY <1>6, <2>2, EndCycleType
    DEF StatementError, Suffer, TypeInv, TypeOK, tables, history
  <2> QED
    BY <1>6, <2>1, <2>2 DEF StatementError
<1>7. CASE RequeueError
  BY <1>7
  DEF RequeueError, Suffer, TypeInv, TypeOK, HeldWhileBusy, tables, workers,
      history
<1> QED
  BY <1>1, <1>2, <1>3, <1>4, <1>5, <1>6, <1>7 DEF OtherStep

LEMMA TypeStep == TypeInv /\ [Next]_vars => TypeInv'
<1> SUFFICES ASSUME TypeInv, [Next]_vars PROVE TypeInv'
  OBVIOUS
<1>1. ASSUME NEW id \in ClientIds, Enqueue(id) PROVE TypeInv'
  BY <1>1, EnqueueType
<1>2. ASSUME NEW w \in Workers, AnySchedulerTick(w) PROVE TypeInv'
  BY <1>2, SchedulerTickType DEF AnySchedulerTick
<1>3. ASSUME NEW w \in Workers, TaskStep(w) PROVE TypeInv'
  BY <1>3, TaskStepType
<1>4. CASE OtherStep
  BY <1>4, OtherStepType
<1>5. CASE UNCHANGED vars
  BY <1>5
  DEF vars, TypeInv, TypeOK, HeldWhileBusy, tables, workers, history
<1> QED
  BY <1>1, <1>2, <1>3, <1>4, <1>5 DEF Next

\* The rows of both tables and the locals of the threads keep their shape and
\* their width in every run of the program, with whatever ids are reused: no
\* backoff, however long, makes fail_task write an instant the signed column
\* cannot hold, since what it writes is the cast of a saturated sum.
THEOREM TypeCorrect == Spec => []TypeOK
<1>1. TypeInv => TypeOK
  BY DEF TypeInv
<1> QED
  BY TypeInit, TypeStep, <1>1, PTL DEF Spec

-----------------------------------------------------------------------------
(* Exclusive, OnePlace and AttemptsEnforced, for the ids that nobody       *)
(* submits again while a task has them.  Crashes and failing statements    *)
(* may come between any two steps.                                         *)

LEMMA OrderlyAreIds == OrderlyIds \subseteq TaskId
  BY QueueAssumption

LEMMA SafetyInit == Init => IInv
  BY OrderlyAreIds
  DEF Init, IInv, Exclusive, OneHolder, HoldsOrderly, Holds, OnePlace, InFlight,
     InQueue, AttemptsEnforced, AttemptsCounted, RequeuedUnheld, BuriedExhausted

\* A step that touches no orderly task: what a worker or a requeue does under
\* a reused id, and a worker that lets go of what it carries.
LEMMA StrangerSafe ==
    ASSUME TypeInv, IInv,
           \A id \in OrderlyIds : /\ taskQueue'[id] = taskQueue[id]
                                 /\ deadLetter'[id] = deadLetter[id]
                                 /\ tries'[id] = tries[id],
           requeuing' \in {requeuing, None} \/ requeuing'.id \notin OrderlyIds,
           \A v \in Workers :
               \/ ~HoldsOrderly(v)'
               \/ held'[v] = held[v] /\ (pc'[v] = "bury" <=> pc[v] = "bury")
    PROVE  IInv'
<1>1. \A id \in OrderlyIds, v \in Workers :
         Holds(v, id)' => /\ Holds(v, id) /\ held'[v] = held[v]
                          /\ (pc'[v] = "bury" <=> pc[v] = "bury")
  BY DEF HoldsOrderly, Holds
<1>2. \A v \in Workers :
         HoldsOrderly(v)' => /\ HoldsOrderly(v) /\ held'[v] = held[v]
                             /\ (pc'[v] = "bury" <=> pc[v] = "bury")
  BY DEF HoldsOrderly
<1>3. Exclusive'
  <2>1. OneHolder'
    BY <1>1 DEF IInv, Exclusive, OneHolder
  <2>2. ASSUME NEW v \in Workers, HoldsOrderly(v)', pc'[v] # "bury"
        PROVE  CopyIsCurrent(v)'
    <3>1. CopyIsCurrent(v) /\ held'[v] = held[v] /\ held[v].id \in OrderlyIds
      BY <1>2, <2>2 DEF IInv, Exclusive, HoldsOrderly
    <3> QED
      BY <3>1 DEF CopyIsCurrent, Running, InQueue
  <2> QED
    BY <2>1, <2>2 DEF Exclusive
<1>4. OnePlace'
  <2>1. \A id \in OrderlyIds : InFlight(id)' => InFlight(id)
    BY <1>1 DEF InFlight
  <2> QED
    BY <2>1 DEF IInv, OnePlace, InQueue
<1>5. AttemptsEnforced'
  BY DEF IInv, AttemptsEnforced, AttemptsCounted, InQueue, Running
<1>6. RequeuedUnheld'
  BY <1>1 DEF IInv, RequeuedUnheld
<1>7. BuriedExhausted'
  <2> SUFFICES ASSUME NEW v \in Workers, HoldsOrderly(v)', pc'[v] = "bury"
               PROVE  /\ AttemptsNext(v)' = held'[v].max
                      /\ tries'[held'[v].id] = held'[v].max
    BY DEF BuriedExhausted
  <2>1. /\ AttemptsNext(v) = held[v].max /\ tries[held[v].id] = held[v].max
        /\ held'[v] = held[v] /\ held[v].id \in OrderlyIds
    BY <1>2 DEF IInv, BuriedExhausted, HoldsOrderly
  <2> QED
    BY <2>1 DEF AttemptsNext
<1> QED
  BY <1>3, <1>4, <1>5, <1>6, <1>7 DEF IInv

\* A submission writes rows nobody has anything to do with, as far as their
\* ids are orderly.
LEMMA SubmitSafe ==
    ASSUME TypeInv, IInv,
           NEW ids \in SUBSET TaskId, Fresh(ids),
           NEW kind, NEW max \in Nat, max > 0, NEW avail,
           NewRow(kind, max, avail) \in Row,
           Submit(ids, NewRow(kind, max, avail)),
           UNCHANGED <<deadLetter, held, requeuing>>,
           \A w \in Workers : pc'[w] = "bury" <=> pc[w] = "bury"
    PROVE  IInv'
<1> DEFINE row == NewRow(kind, max, avail)
<1>1. \A id \in OrderlyIds : id \in ids =>
         /\ taskQueue'[id] = row /\ tries'[id] = 0
         /\ ~InQueue(id) /\ deadLetter[id] = None
         /\ \A w \in Workers : ~Holds(w, id)
         /\ ~(requeuing # None /\ requeuing.id = id)
  BY OrderlyAreIds DEF Submit, Fresh, Live
<1>2. \A id \in OrderlyIds : id \notin ids =>
         taskQueue'[id] = taskQueue[id] /\ tries'[id] = tries[id]
  BY OrderlyAreIds DEF Submit
<1>3. row # None /\ row.status = "pending" /\ row.attempts = 0 /\ row.max = max
  BY NoneAssumption DEF NewRow
<1>4. \A w \in Workers : HoldsOrderly(w) => held[w].id \in OrderlyIds \ ids
  BY <1>1 DEF Holds, HoldsOrderly
<1>5. Exclusive'
  BY <1>2, <1>4
  DEF IInv, Exclusive, OneHolder, HoldsOrderly, Holds, CopyIsCurrent, Running,
      InQueue
<1>6. OnePlace'
  <2>1. \A id \in OrderlyIds : InFlight(id)' <=> InFlight(id)
    BY DEF InFlight, Holds
  <2>2. \A id \in OrderlyIds : id \in ids => ~InFlight(id)
    BY <1>1 DEF InFlight
  <2> QED
    BY <1>1, <1>2, <2>1, <2>2 DEF IInv, OnePlace, InQueue
<1>7. AttemptsEnforced'
  BY <1>1, <1>2, <1>3
  DEF IInv, AttemptsEnforced, AttemptsCounted, InQueue, Running
<1>8. RequeuedUnheld' 
  BY DEF IInv, RequeuedUnheld, Holds
<1>9. BuriedExhausted'
  BY <1>2, <1>4 DEF IInv, BuriedExhausted, HoldsOrderly, AttemptsNext
<1> QED
  BY <1>5, <1>6, <1>7, <1>8, <1>9 DEF IInv

LEMMA EnqueueSafe ==
    ASSUME TypeInv, IInv, NEW id \in ClientIds, Fresh({id}), Enqueue(id)
    PROVE  IInv'
<1>1. PICK kind \in Kinds, max \in MaxAttempts, lag \in 0..MaxLag :
         /\ max > 0
         /\ lag <= now
         /\ Submit({id}, NewRow(kind, max, now - lag))
  BY DEF Enqueue
<1>2. now - lag \in Instant
  BY <1>1, U64MaxAssumption, QueueAssumption DEF TypeInv, TypeOK, Instant
<1>3. NewRow(kind, max, now - lag) \in Row
  BY <1>2, NewRowType
<1>4. {id} \in SUBSET TaskId /\ max \in Nat
  BY QueueAssumption DEF TaskId
<1>5. UNCHANGED <<deadLetter, held, requeuing, pc>>
  BY DEF Enqueue, workers
<1> QED
  BY <1>1, <1>3, <1>4, <1>5, SubmitSafe

LEMMA SchedulerTickSafe ==
    ASSUME TypeInv, IInv, NEW w \in Workers, NEW due \in SUBSET ScheduledIds,
           Fresh(due), SchedulerTick(w, due)
    PROVE  IInv'
<1>1. UNCHANGED <<deadLetter, held, requeuing>>
  BY DEF SchedulerTick
<1>2. \A v \in Workers : pc'[v] = "bury" <=> pc[v] = "bury"
  BY DEF SchedulerTick, Goto, TypeInv, TypeOK
<1>3. CASE due = {}
  <2>1. UNCHANGED <<taskQueue, tries>>
    BY <1>3 DEF SchedulerTick, history
  <2> QED
    BY <1>1, <1>2, <2>1, StrangerSafe
<1>4. CASE due # {}
  <2>1. PICK kind \in Kinds, max \in MaxAttempts :
           max > 0 /\ Submit(due, NewRow(kind, max, cycleNow[w]))
    BY <1>4 DEF SchedulerTick
  <2>2. NewRow(kind, max, cycleNow[w]) \in Row
    BY NewRowType DEF TypeInv, TypeOK
  <2>3. due \in SUBSET TaskId /\ max \in Nat
    BY QueueAssumption DEF TaskId
  <2> QED
    BY <1>1, <1>2, <2>1, <2>2, <2>3, SubmitSafe
<1> QED
  BY <1>3, <1>4

\* What the invariants say of an orderly task and the worker that carries it.
LEMMA HeldFacts ==
    ASSUME TypeInv, IInv, NEW w \in Workers, HoldsOrderly(w)
    PROVE  /\ held[w] \in Task /\ held[w] # None
           /\ held[w].id \in OrderlyIds /\ held[w].id \in TaskId
           /\ deadLetter[held[w].id] = None
           /\ ~(requeuing # None /\ requeuing.id = held[w].id)
           /\ \A v \in Workers : v # w => ~Holds(v, held[w].id)
           /\ pc[w] # "bury" => CopyIsCurrent(w)
<1>1. /\ held[w] \in Task /\ held[w] # None
      /\ held[w].id \in OrderlyIds /\ held[w].id \in TaskId
  BY OrderlyAreIds DEF HoldsOrderly, TypeInv, TypeOK
<1>2. ~(requeuing # None /\ requeuing.id = held[w].id)
  BY <1>1 DEF IInv, RequeuedUnheld, Holds
<1>3. \A v \in Workers : v # w => ~Holds(v, held[w].id)
  BY <1>1 DEF IInv, Exclusive, OneHolder, Holds
<1>4. pc[w] # "bury" => CopyIsCurrent(w)
  BY <1>1 DEF IInv, Exclusive
<1>5. deadLetter[held[w].id] = None
  <2>1. CASE pc[w] = "bury"
    BY <1>1, <2>1 DEF IInv, OnePlace, InFlight, Holds
  <2>2. CASE pc[w] # "bury"
    BY <1>1, <1>4, <2>2 DEF IInv, OnePlace, CopyIsCurrent, Running
  <2> QED
    BY <2>1, <2>2
<1> QED
  BY <1>1, <1>2, <1>3, <1>4, <1>5

LEMMA ClaimSafe ==
    ASSUME TypeInv, IInv, NEW w \in Workers, Claim(w)
    PROVE  IInv'
<1>1. PICK id \in FirstDue(cycleNow[w]) :
        /\ taskQueue' = [taskQueue EXCEPT ![id].status = "running"]
        /\ held' = [held EXCEPT ![w] =
                      [id |-> id, kind |-> taskQueue[id].kind,
                       attempts |-> taskQueue[id].attempts,
                       max |-> taskQueue[id].max]]
        /\ tries' = [tries EXCEPT ![id] = @ + 1]
  BY DEF Claim
<1>2. id \in TaskId /\ InQueue(id) /\ ~Running(id) /\ taskQueue[id] \in Row
  BY DEF FirstDue, Due, Waiting, Running, InQueue, TypeInv, TypeOK
<1>3. pc[w] = "claim" /\ pc' = [pc EXCEPT ![w] = "run"]
      /\ UNCHANGED <<deadLetter, requeuing>> /\ requeuing = None
      /\ \A v \in Workers : pc[v] # "bury"
  BY DEF Claim, Goto, DatabaseFree
<1>5. /\ taskQueue'[id] \in Row /\ taskQueue'[id] # None
      /\ taskQueue'[id].status = "running"
      /\ taskQueue'[id].attempts = taskQueue[id].attempts
      /\ taskQueue'[id].max = taskQueue[id].max
      /\ \A i \in TaskId : i # id => taskQueue'[i] = taskQueue[i]
  BY <1>1, <1>2, NoneAssumption DEF TypeInv, TypeOK, Row
<1>6. /\ held'[w].id = id
      /\ held'[w].attempts = taskQueue[id].attempts
      /\ held'[w].max = taskQueue[id].max
      /\ \A v \in Workers : v # w => held'[v] = held[v]
  BY <1>1 DEF TypeInv, TypeOK
<1>7. held[w] = None /\ \A v \in Workers : pc'[v] # "bury"
  BY <1>3 DEF TypeInv, TypeOK, HeldWhileBusy, Busy
<1>8. /\ tries'[id] = tries[id] + 1
      /\ \A i \in TaskId : i # id => tries'[i] = tries[i]
  BY <1>1, <1>2 DEF TypeInv, TypeOK
<1>9. CASE id \notin OrderlyIds
  <2>1. ~HoldsOrderly(w)'
    BY <1>6, <1>9 DEF HoldsOrderly
  <2>2. \A i \in OrderlyIds : /\ taskQueue'[i] = taskQueue[i]
                              /\ deadLetter'[i] = deadLetter[i]
                              /\ tries'[i] = tries[i]
    BY <1>3, <1>5, <1>8, <1>9, OrderlyAreIds
  <2> QED
    BY <1>3, <1>6, <1>7, <2>1, <2>2, StrangerSafe
<1>10. CASE id \in OrderlyIds
  <2>1. \A v \in Workers : ~Holds(v, id)
    BY <1>2, <1>3, <1>10
    DEF IInv, Exclusive, CopyIsCurrent, HoldsOrderly, Holds
  <2>2. Exclusive'
    <3>1. OneHolder'
      BY <1>6, <2>1 DEF IInv, Exclusive, OneHolder, Holds
    <3>2. ASSUME NEW v \in Workers, HoldsOrderly(v)'
          PROVE  CopyIsCurrent(v)'
      <4>1. CASE v = w
        BY <4>1, <1>5, <1>6 DEF CopyIsCurrent, Running, InQueue
      <4>2. CASE v # w
        <5>1. /\ held'[v] = held[v] /\ HoldsOrderly(v) /\ held[v].id # id
              /\ held[v].id \in TaskId
          BY <3>2, <4>2, <1>6, <2>1, OrderlyAreIds DEF HoldsOrderly, Holds
        <5> QED
          BY <5>1, <1>3, <1>5
          DEF IInv, Exclusive, CopyIsCurrent, Running, InQueue
      <4> QED
        BY <4>1, <4>2
    <3> QED
      BY <3>1, <3>2 DEF Exclusive
  <2>3. OnePlace'
    BY <1>2, <1>3, <1>5, <1>7, OrderlyAreIds
    DEF IInv, OnePlace, InFlight, InQueue
  <2>4. AttemptsEnforced'
    <3>1. /\ deadLetter[id] = None
          /\ tries[id] = taskQueue[id].attempts
          /\ taskQueue[id].attempts < taskQueue[id].max
      BY <1>2, <1>10
      DEF IInv, OnePlace, AttemptsEnforced, AttemptsCounted, Row
    <3>2. AttemptsCounted(id)'
      BY <1>2, <1>3, <1>5, <1>8, <3>1 DEF AttemptsCounted, Running, InQueue
    <3>3. ASSUME NEW i \in OrderlyIds, i # id PROVE AttemptsCounted(i)'
      BY <1>8, <3>3, <1>3, <1>5, OrderlyAreIds
      DEF IInv, AttemptsEnforced, AttemptsCounted, Running, InQueue
    <3> QED
      BY <3>2, <3>3 DEF AttemptsEnforced
  <2> QED
    BY <1>3, <1>7, <2>2, <2>3, <2>4 DEF IInv, RequeuedUnheld, BuriedExhausted
<1> QED
  BY <1>9, <1>10

\* A worker that ends its cycle without touching a table lets go of its task
\* and disturbs nothing: a crash or a failing statement, seen from one worker.
LEMMA LetGoSafe ==
    ASSUME TypeInv, IInv,
           UNCHANGED <<taskQueue, deadLetter, tries>>,
           requeuing' \in {requeuing, None},
           \A v \in Workers :
               \/ held'[v] = None /\ pc'[v] # "bury"
               \/ held'[v] = held[v] /\ (pc'[v] = "bury" <=> pc[v] = "bury")
    PROVE  IInv'
  BY StrangerSafe DEF HoldsOrderly

LEMMA EndCycleLetsGo ==
    ASSUME TypeInv, NEW w \in Workers, EndCycle(w)
    PROVE  /\ held'[w] = None /\ pc'[w] = "sleep"
           /\ \A v \in Workers : v # w => held'[v] = held[v] /\ pc'[v] = pc[v]
  BY DEF EndCycle, Goto, TypeInv, TypeOK

\* The end of a cycle that rewrites or deletes the row of the worker's task:
\* no other worker, dead letter or requeue knows the task if it is orderly.
LEMMA SettleSafe ==
    ASSUME TypeInv, IInv, NEW w \in Workers, pc[w] \in {"ok", "failed"},
           DatabaseFree, EndCycle(w),
           UNCHANGED <<deadLetter, requeuing, tries>>,
           \A id \in TaskId : id # held[w].id => taskQueue'[id] = taskQueue[id],
           HoldsOrderly(w) =>
              \/ taskQueue'[held[w].id] = None
              \/ /\ taskQueue'[held[w].id].status = "retry"
                 /\ taskQueue'[held[w].id].attempts = AttemptsNext(w)
                 /\ taskQueue'[held[w].id].max = held[w].max
                 /\ ~Exhausted(w)
    PROVE  IInv'
<1>1. PICK mine : mine = held[w].id
  OBVIOUS
<1>2. held'[w] = None /\ \A v \in Workers : v # w => held'[v] = held[v]
  BY EndCycleLetsGo
<1>3. /\ requeuing = None
      /\ \A v \in Workers : pc[v] # "bury" /\ pc'[v] # "bury"
  BY EndCycleLetsGo DEF DatabaseFree
<1>4. held[w] # None
  BY HeldType DEF Busy
<1>5. CASE ~HoldsOrderly(w)
  <2>1. \A id \in OrderlyIds : taskQueue'[id] = taskQueue[id]
    BY <1>4, <1>5, OrderlyAreIds DEF HoldsOrderly
  <2> QED
    BY <1>2, <1>3, <2>1, StrangerSafe DEF HoldsOrderly
<1>6. CASE HoldsOrderly(w)
  <2>1. /\ mine \in OrderlyIds /\ mine \in TaskId
        /\ deadLetter[mine] = None /\ CopyIsCurrent(w)
        /\ \A v \in Workers : v # w => ~Holds(v, mine)
        /\ held[w] \in Task
    BY <1>1, <1>3, <1>6, HeldFacts
  <2>2. Exclusive'
    <3>1. ASSUME NEW v \in Workers, HoldsOrderly(v)'
          PROVE  CopyIsCurrent(v)'
      <4>1. /\ HoldsOrderly(v) /\ held'[v] = held[v] /\ held[v].id # mine
            /\ held[v].id \in TaskId
        BY <1>2, <2>1, <3>1, OrderlyAreIds DEF HoldsOrderly, Holds
      <4> QED
        BY <1>1, <1>3, <4>1
        DEF IInv, Exclusive, CopyIsCurrent, Running, InQueue
    <3>2. OneHolder'
      BY <1>2 DEF IInv, Exclusive, OneHolder, Holds
    <3> QED
      BY <3>1, <3>2 DEF Exclusive
  <2>3. OnePlace'
    BY <1>1, <1>3, <2>1, OrderlyAreIds DEF IInv, OnePlace, InFlight, InQueue
  <2>4. AttemptsEnforced'
    <3>1. ASSUME NEW id \in OrderlyIds, id # mine PROVE AttemptsCounted(id)'
      BY <1>1, <3>1, OrderlyAreIds
      DEF IInv, AttemptsEnforced, AttemptsCounted, InQueue, Running
    <3>2. tries[mine] = held[w].attempts + 1
      BY <1>1, <2>1
      DEF CopyIsCurrent, IInv, AttemptsEnforced, AttemptsCounted, Running
    <3>3. AttemptsCounted(mine)'
      <4>1. CASE taskQueue'[mine] = None
        BY <4>1, <2>1 DEF AttemptsCounted, InQueue
      <4>2. CASE /\ taskQueue'[mine].status = "retry"
                 /\ taskQueue'[mine].attempts = AttemptsNext(w)
                 /\ taskQueue'[mine].max = held[w].max
                 /\ ~Exhausted(w)
        <5>1. AttemptsNext(w) < held[w].max
          BY <2>1, <4>2 DEF Exhausted, AttemptsNext, Task
        <5>2. ~Running(mine)'
          BY <4>2 DEF Running
        <5>3. AttemptsNext(w) = tries[mine] /\ AttemptsNext(w) + 0 = tries[mine]
          BY <1>1, <2>1, <3>2 DEF AttemptsNext, Task
        <5>4. deadLetter'[mine] = None /\ tries'[mine] = tries[mine]
          BY <2>1
        <5> QED
          BY <4>2, <5>1, <5>2, <5>3, <5>4 DEF AttemptsCounted
      <4> QED
        BY <1>1, <1>6, <4>1, <4>2
    <3> QED
      BY <3>1, <3>3 DEF AttemptsEnforced
  <2> QED
    BY <1>3, <2>2, <2>3, <2>4 DEF IInv, RequeuedUnheld, BuriedExhausted
<1> QED
  BY <1>5, <1>6

LEMMA CompleteSafe ==
    ASSUME TypeInv, IInv, NEW w \in Workers, Complete(w)
    PROVE  IInv'
<1>1. held[w].id \in TaskId
  BY HeldType DEF Complete, Busy, Task
<1>2. /\ taskQueue'[held[w].id] = None
      /\ \A id \in TaskId : id # held[w].id => taskQueue'[id] = taskQueue[id]
  BY <1>1 DEF Complete, TypeInv, TypeOK
<1> QED
  BY <1>2, SettleSafe DEF Complete

LEMMA RetrySafe ==
    ASSUME TypeInv, IInv, NEW w \in Workers, Retry(w)
    PROVE  IInv'
<1>1. \A id \in TaskId : id # held[w].id => taskQueue'[id] = taskQueue[id]
  BY DEF Retry
<1>2. ASSUME HoldsOrderly(w)
      PROVE  /\ taskQueue'[held[w].id].status = "retry"
             /\ taskQueue'[held[w].id].attempts = AttemptsNext(w)
             /\ taskQueue'[held[w].id].max = held[w].max
  <2>1. pc[w] # "bury"
    BY DEF Retry
  <2>2. held[w] \in Task /\ held[w].id \in TaskId /\ CopyIsCurrent(w)
    BY <1>2, <2>1, HeldFacts
  <2>3. /\ InQueue(held[w].id) /\ taskQueue[held[w].id] \in Row
        /\ taskQueue[held[w].id].max = held[w].max
    BY <2>2 DEF CopyIsCurrent, Running, InQueue, TypeInv, TypeOK
  <2>4. taskQueue'[held[w].id] =
           [taskQueue[held[w].id] EXCEPT !.status = "retry",
                                         !.attempts = AttemptsNext(w),
                                         !.avail = RetryAt(w)]
    BY <2>2, <2>3 DEF Retry
  <2> QED
    BY <2>3, <2>4 DEF Row
<1>3. /\ pc[w] \in {"ok", "failed"} /\ DatabaseFree /\ EndCycle(w) /\ ~Exhausted(w)
      /\ UNCHANGED <<deadLetter, requeuing, tries>>
  BY DEF Retry, history
<1> QED
  BY <1>1, <1>2, <1>3, SettleSafe

LEMMA DeadLetterDeleteSafe ==
    ASSUME TypeInv, IInv, NEW w \in Workers, DeadLetterDelete(w)
    PROVE  IInv'
<1>1. PICK mine : mine = held[w].id
  OBVIOUS
<1>2. held[w] \in Task /\ held[w] # None /\ mine \in TaskId
  BY <1>1, HeldType DEF DeadLetterDelete, Busy, Task
<1>3. /\ taskQueue'[mine] = None
      /\ \A id \in TaskId : id # mine => taskQueue'[id] = taskQueue[id]
      /\ UNCHANGED <<deadLetter, held, requeuing, tries>>
      /\ requeuing = None
  BY <1>1, <1>2
  DEF DeadLetterDelete, DatabaseFree, TypeInv, TypeOK, history
<1>4. \A v \in Workers : pc[v] # "bury" /\ (pc'[v] = "bury" <=> v = w)
  BY DEF DeadLetterDelete, DatabaseFree, Goto, TypeInv, TypeOK
<1>5. CASE ~HoldsOrderly(w)
  <2>1. \A id \in OrderlyIds : taskQueue'[id] = taskQueue[id]
    BY <1>1, <1>2, <1>3, <1>5, OrderlyAreIds DEF HoldsOrderly
  <2>2. ~HoldsOrderly(w)'
    BY <1>3, <1>5 DEF HoldsOrderly
  <2> QED
    BY <1>3, <1>4, <2>1, <2>2, StrangerSafe
<1>6. CASE HoldsOrderly(w)
  <2>1. /\ mine \in OrderlyIds /\ deadLetter[mine] = None
        /\ \A v \in Workers : v # w => ~Holds(v, mine)
        /\ CopyIsCurrent(w)
    BY <1>1, <1>4, <1>6, HeldFacts
  <2>2. Exclusive'
    <3>1. ASSUME NEW v \in Workers, v # w, HoldsOrderly(v)'
          PROVE  CopyIsCurrent(v)'
      <4>1. HoldsOrderly(v) /\ held[v].id # mine /\ held[v].id \in TaskId
        BY <1>3, <2>1, <3>1, OrderlyAreIds DEF HoldsOrderly, Holds
      <4> QED
        BY <1>3, <1>4, <4>1
        DEF IInv, Exclusive, CopyIsCurrent, Running, InQueue
    <3>2. OneHolder'
      BY <1>3 DEF IInv, Exclusive, OneHolder, Holds
    <3> QED
      BY <1>4, <3>1, <3>2 DEF Exclusive
  <2>3. OnePlace'
    <3>1. ASSUME NEW id \in OrderlyIds, id # mine PROVE ~InFlight(id)'
      BY <1>1, <1>3, <1>4, <3>1 DEF InFlight, Holds
    <3> QED
      BY <1>3, <2>1, <3>1, OrderlyAreIds DEF IInv, OnePlace, InQueue
  <2>4. AttemptsEnforced'
    BY <1>3, <2>1, OrderlyAreIds
    DEF IInv, AttemptsEnforced, AttemptsCounted, InQueue, Running
  <2>5. BuriedExhausted'
    <3>1. taskQueue[mine].attempts = held[w].attempts
          /\ taskQueue[mine].max = held[w].max
          /\ tries[mine] = held[w].attempts + 1
          /\ held[w].attempts < held[w].max
      BY <1>1, <2>1
      DEF CopyIsCurrent, IInv, AttemptsEnforced, AttemptsCounted, Running
    <3>2. AttemptsNext(w) = held[w].max
      BY <1>2, <3>1 DEF DeadLetterDelete, Exhausted, AttemptsNext, Task
    <3> QED
      BY <1>1, <1>2, <1>3, <1>4, <3>1, <3>2
      DEF BuriedExhausted, AttemptsNext, Task
  <2> QED
    BY <1>3, <2>2, <2>3, <2>4, <2>5 DEF IInv, RequeuedUnheld
<1> QED
  BY <1>5, <1>6

LEMMA DeadLetterInsertSafe ==
    ASSUME TypeInv, IInv, NEW w \in Workers, DeadLetterInsert(w)
    PROVE  IInv'
<1>1. PICK mine : mine = held[w].id
  OBVIOUS
<1>2. held[w] \in Task /\ held[w] # None /\ mine \in TaskId
  BY <1>1, HeldType DEF DeadLetterInsert, Busy, Task
<1>3. /\ deadLetter'[mine].attempts = AttemptsNext(w)
      /\ deadLetter'[mine].max = held[w].max
      /\ \A id \in TaskId : id # mine => deadLetter'[id] = deadLetter[id]
      /\ UNCHANGED <<taskQueue, requeuing, tries>>
  BY <1>1, <1>2 DEF DeadLetterInsert, TypeInv, TypeOK, history
<1>4. /\ held'[w] = None /\ pc'[w] = "sleep" /\ ~HoldsOrderly(w)'
      /\ \A v \in Workers : v # w => held'[v] = held[v] /\ pc'[v] = pc[v]
  BY EndCycleLetsGo DEF DeadLetterInsert, HoldsOrderly
<1>5. CASE ~HoldsOrderly(w)
  <2>1. \A id \in OrderlyIds : deadLetter'[id] = deadLetter[id]
    BY <1>1, <1>2, <1>3, <1>5, OrderlyAreIds DEF HoldsOrderly
  <2> QED
    BY <1>3, <1>4, <2>1, StrangerSafe
<1>6. CASE HoldsOrderly(w)
  <2>1. /\ mine \in OrderlyIds
        /\ ~(requeuing # None /\ requeuing.id = mine)
        /\ \A v \in Workers : v # w => ~Holds(v, mine)
        /\ ~InQueue(mine)
    BY <1>1, <1>6, HeldFacts
    DEF DeadLetterInsert, IInv, OnePlace, InFlight, Holds
  <2>2. Exclusive'
    BY <1>3, <1>4
    DEF IInv, Exclusive, OneHolder, HoldsOrderly, Holds, CopyIsCurrent,
        Running, InQueue
  <2>3. OnePlace'
    <3>1. ASSUME NEW id \in OrderlyIds, InFlight(id)'
          PROVE  InFlight(id) /\ id # mine
      BY <1>3, <1>4, <2>1, <3>1 DEF InFlight, Holds
    <3> QED
      BY <1>3, <2>1, <3>1, OrderlyAreIds DEF IInv, OnePlace, InQueue
  <2>4. AttemptsEnforced'
    <3>1. /\ tries[mine] = held[w].max /\ AttemptsNext(w) = held[w].max
          /\ held[w].max > 0
      BY <1>1, <1>2, <1>6
      DEF DeadLetterInsert, IInv, BuriedExhausted, AttemptsNext, Task
    <3> QED
      BY <1>3, <2>1, <3>1, OrderlyAreIds
      DEF IInv, AttemptsEnforced, AttemptsCounted, InQueue, Running
  <2>5. RequeuedUnheld' /\ BuriedExhausted'
    BY <1>3, <1>4
    DEF IInv, RequeuedUnheld, BuriedExhausted, HoldsOrderly, Holds, AttemptsNext
  <2> QED
    BY <2>2, <2>3, <2>4, <2>5 DEF IInv
<1> QED
  BY <1>5, <1>6

LEMMA TaskStepSafe ==
    ASSUME TypeInv, IInv, NEW w \in Workers, TaskStep(w)
    PROVE  IInv'
<1>1. CASE NothingDue(w)
  BY <1>1, EndCycleLetsGo, LetGoSafe DEF NothingDue, tables, history
<1>2. CASE Execute(w)
  <2>1. PICK outcome \in {"ok", "failed"} : pc' = [pc EXCEPT ![w] = outcome]
    BY <1>2 DEF Execute, Outcomes, Goto
  <2>2. \A v \in Workers : pc'[v] = "bury" <=> pc[v] = "bury"
    BY <1>2, <2>1 DEF Execute, TypeInv, TypeOK
  <2> QED
    BY <1>2, <2>2, LetGoSafe DEF Execute, tables, history
<1> QED
  BY <1>1, <1>2, ClaimSafe, CompleteSafe, RetrySafe, DeadLetterDeleteSafe,
     DeadLetterInsertSafe
  DEF TaskStep

LEMMA RequeueDeleteSafe ==
    ASSUME TypeInv, IInv, NEW id \in TaskId, RequeueDelete(id)
    PROVE  IInv'
<1>1. /\ deadLetter[id] # None
      /\ \A v \in Workers : pc[v] # "bury"
      /\ deadLetter'[id] = None
      /\ \A i \in TaskId : i # id => deadLetter'[i] = deadLetter[i]
      /\ requeuing'.id = id /\ requeuing'.max = deadLetter[id].max
      /\ UNCHANGED <<taskQueue, pc, held, tries>>
  BY DEF RequeueDelete, DatabaseFree, TypeInv, TypeOK, workers, history
<1>2. CASE id \notin OrderlyIds
  <2>1. \A i \in OrderlyIds : deadLetter'[i] = deadLetter[i]
    BY <1>1, <1>2, OrderlyAreIds
  <2> QED
    BY <1>1, <1>2, <2>1, StrangerSafe
<1>3. CASE id \in OrderlyIds
  <2>1. ~InQueue(id) /\ requeuing'.max > 0
    BY <1>1, <1>3 DEF IInv, OnePlace, AttemptsEnforced, AttemptsCounted
  <2>2. \A v \in Workers : ~Holds(v, id)
    BY <1>1, <1>3, <2>1
    DEF IInv, Exclusive, CopyIsCurrent, Running, HoldsOrderly, Holds
  <2>3. Exclusive'
    BY <1>1
    DEF IInv, Exclusive, OneHolder, HoldsOrderly, Holds, CopyIsCurrent,
        Running, InQueue
  <2>4. OnePlace'
    <3>1. \A i \in OrderlyIds : InFlight(i)' => i = id
      BY <1>1 DEF InFlight
    <3> QED
      BY <1>1, <2>1, <3>1, OrderlyAreIds DEF IInv, OnePlace, InQueue
  <2>5. AttemptsEnforced'
    BY <1>1, <2>1, OrderlyAreIds
    DEF IInv, AttemptsEnforced, AttemptsCounted, InQueue, Running
  <2>6. RequeuedUnheld' /\ BuriedExhausted'
    BY <1>1, <2>1, <2>2
    DEF IInv, RequeuedUnheld, BuriedExhausted, Holds, AttemptsNext
  <2> QED
    BY <2>3, <2>4, <2>5, <2>6 DEF IInv
<1> QED
  BY <1>2, <1>3

LEMMA RequeueInsertSafe ==
    ASSUME TypeInv, IInv, RequeueInsert
    PROVE  IInv'
<1>1. PICK id : id = requeuing.id
  OBVIOUS
<1>2. requeuing \in Requeued /\ requeuing # None /\ id \in TaskId
  BY <1>1 DEF RequeueInsert, Requeued, TypeInv, TypeOK
<1>3. PICK row : row = NewRow(requeuing.kind, requeuing.max, requeuing.at)
  OBVIOUS
<1>4. /\ row \in Row /\ row # None /\ row.status = "pending"
      /\ row.attempts = 0 /\ row.max = requeuing.max
  BY <1>2, <1>3, RequeuedRowType, NoneAssumption DEF NewRow
<1>5. /\ taskQueue'[id] = row /\ tries'[id] = 0 /\ requeuing' = None
      /\ \A i \in TaskId :
            i # id => taskQueue'[i] = taskQueue[i] /\ tries'[i] = tries[i]
      /\ UNCHANGED <<deadLetter, pc, held>>
  BY <1>1, <1>2, <1>3 DEF RequeueInsert, TypeInv, TypeOK, workers
<1>6. CASE id \notin OrderlyIds
  <2>1. \A i \in OrderlyIds : /\ taskQueue'[i] = taskQueue[i]
                              /\ tries'[i] = tries[i]
    BY <1>5, <1>6, OrderlyAreIds
  <2> QED
    BY <1>5, <2>1, StrangerSafe
<1>7. CASE id \in OrderlyIds
  <2>1. /\ requeuing.max > 0
        /\ ~InQueue(id) /\ deadLetter[id] = None
        /\ \A v \in Workers : ~Holds(v, id)
    BY <1>1, <1>2, <1>7 DEF IInv, OnePlace, InFlight, RequeuedUnheld
  <2>2. \A v \in Workers : HoldsOrderly(v) => held[v].id \in TaskId \ {id}
    BY <2>1, OrderlyAreIds DEF Holds, HoldsOrderly
  <2>3. Exclusive'
    BY <1>5, <2>2
    DEF IInv, Exclusive, OneHolder, HoldsOrderly, Holds, CopyIsCurrent,
        Running, InQueue
  <2>4. OnePlace'
    <3>1. \A i \in OrderlyIds : InFlight(i)' => InFlight(i) /\ i # id
      BY <1>5, <2>1 DEF InFlight, Holds
    <3> QED
      BY <1>5, <2>1, <3>1, OrderlyAreIds DEF IInv, OnePlace, InQueue
  <2>5. AttemptsEnforced'
    BY <1>4, <1>5, <2>1, OrderlyAreIds
    DEF IInv, AttemptsEnforced, AttemptsCounted, InQueue, Running
  <2>6. BuriedExhausted'
    BY <1>5, <2>2 DEF IInv, BuriedExhausted, HoldsOrderly, AttemptsNext
  <2> QED
    BY <1>5, <2>3, <2>4, <2>5, <2>6 DEF IInv, RequeuedUnheld
<1> QED
  BY <1>6, <1>7

LEMMA OtherStepSafe ==
    ASSUME TypeInv, IInv, OtherStep
    PROVE  IInv'
<1>1. CASE Tick
  BY <1>1, LetGoSafe DEF Tick, tables, workers, history
<1>2. ASSUME NEW w \in Workers, BeginCycle(w) PROVE IInv'
  <2>1. \A v \in Workers : pc'[v] = "bury" <=> pc[v] = "bury"
    BY <1>2 DEF BeginCycle, Goto, TypeInv, TypeOK
  <2> QED
    BY <1>2, <2>1, LetGoSafe DEF BeginCycle, tables, history
<1>3. CASE Crash
  <2>1. \A v \in Workers : held'[v] = None /\ pc'[v] # "bury"
    BY <1>3 DEF Crash
  <2> QED
    BY <1>3, <2>1, LetGoSafe DEF Crash, tables, history
<1>4. ASSUME NEW w \in Workers, StatementError(w) PROVE IInv'
  <2>1. CASE pc[w] = "tick" /\ Goto(w, "claim") /\ UNCHANGED <<cycleNow, held>>
    <3>1. \A v \in Workers : pc'[v] = "bury" <=> pc[v] = "bury"
      BY <2>1 DEF Goto, TypeInv, TypeOK
    <3> QED
      BY <1>4, <2>1, <3>1, LetGoSafe DEF StatementError, tables, history
  <2>2. CASE EndCycle(w)
    BY <1>4, <2>2, EndCycleLetsGo, LetGoSafe
    DEF StatementError, tables, history
  <2> QED
    BY <1>4, <2>1, <2>2 DEF StatementError
<1>5. CASE RequeueError
  BY <1>5, LetGoSafe DEF RequeueError, tables, workers, history
<1> QED
  BY <1>1, <1>2, <1>3, <1>4, <1>5, RequeueDeleteSafe, RequeueInsertSafe
  DEF OtherStep

LEMMA SafetyStep == TypeInv /\ IInv /\ [Next]_vars => IInv'
<1> SUFFICES ASSUME TypeInv, IInv, [Next]_vars PROVE IInv'
  OBVIOUS
<1>1. ASSUME NEW id \in ClientIds, Fresh({id}), Enqueue(id) PROVE IInv'
  BY <1>1, EnqueueSafe
<1>2. ASSUME NEW w \in Workers, NEW due \in SUBSET ScheduledIds, Fresh(due),
             SchedulerTick(w, due)
      PROVE  IInv'
  BY <1>2, SchedulerTickSafe
<1>3. ASSUME NEW w \in Workers, TaskStep(w) PROVE IInv'
  BY <1>3, TaskStepSafe
<1>4. CASE OtherStep
  BY <1>4, OtherStepSafe
<1>5. CASE UNCHANGED vars
  BY <1>5, LetGoSafe DEF vars, tables, workers, history
<1> QED
  BY <1>1, <1>2, <1>3, <1>4, <1>5 DEF Next, AnySchedulerTick

LEMMA SafetyInvariant == Spec => [](TypeInv /\ IInv)
<1>1. Init => TypeInv /\ IInv
  BY TypeInit, SafetyInit
<1>2. TypeInv /\ IInv /\ [Next]_vars => (TypeInv /\ IInv)'
  BY TypeStep, SafetyStep
<1> QED
  BY <1>1, <1>2, PTL DEF Spec

\* No task of an orderly id runs twice at once: no two workers carry it, and
\* its row is the one that was claimed, still 'running', whatever happens under
\* ids that are reused.
THEOREM ExclusiveHolds == Spec => []Exclusive
<1>1. IInv => Exclusive
  BY DEF IInv
<1> QED
  BY SafetyInvariant, <1>1, PTL

\* A task of an orderly id is never queued and dead at once, nor in a table
\* while a thread is moving it between the two.
THEOREM OnePlaceHolds == Spec => []OnePlace
<1>1. IInv => OnePlace
  BY DEF IInv
<1> QED
  BY SafetyInvariant, <1>1, PTL

\* max_attempts is enforced exactly for every orderly id: the count of attempts
\* never drifts from the attempts made, through crashes, errors, retries and
\* requeues.
THEOREM AttemptsEnforcedHolds == Spec => []AttemptsEnforced
<1>1. IInv => AttemptsEnforced
  BY DEF IInv
<1> QED
  BY SafetyInvariant, <1>1, PTL

-----------------------------------------------------------------------------
(* What leaves the queue, and what is lost.                                *)

\* A row leaves the queue in one way: the worker that carries its task
\* deletes it, to complete the task or to bury it.
LEMMA LeavesByItsWorker ==
    ASSUME TypeInv, IInv, [Next]_vars, NEW id \in OrderlyIds,
           InQueue(id), ~InQueue(id)'
    PROVE  \E w \in Workers :
              /\ Complete(w) \/ DeadLetterDelete(w)
              /\ held[w].id = id /\ Running(id)
<1> id \in TaskId
  BY OrderlyAreIds
<1>1. ASSUME NEW ids \in SUBSET TaskId, NEW kind \in Kinds,
             NEW max \in MaxAttempts, NEW avail \in Instant,
             Submit(ids, NewRow(kind, max, avail))
      PROVE  FALSE
  <2>1. NewRow(kind, max, avail) # None
    BY NewRowType, NoneAssumption
  <2> QED
    BY <1>1, <2>1 DEF Submit, InQueue
<1>2. ASSUME NEW i \in ClientIds, Enqueue(i) PROVE FALSE
  <2>1. PICK kind \in Kinds, max \in MaxAttempts, lag \in 0..MaxLag :
           lag <= now /\ Submit({i}, NewRow(kind, max, now - lag))
    BY <1>2 DEF Enqueue
  <2>2. now - lag \in Instant
    BY <2>1, U64MaxAssumption, QueueAssumption DEF TypeInv, TypeOK, Instant
  <2>3. {i} \in SUBSET TaskId
    BY DEF TaskId
  <2> QED
    BY <2>1, <2>2, <2>3, <1>1
<1>3. ASSUME NEW w \in Workers, NEW due \in SUBSET ScheduledIds,
             SchedulerTick(w, due)
      PROVE  FALSE
  <2>1. due # {}
    BY <1>3 DEF SchedulerTick, InQueue
  <2>2. PICK kind \in Kinds, max \in MaxAttempts :
           Submit(due, NewRow(kind, max, cycleNow[w]))
    BY <1>3, <2>1 DEF SchedulerTick
  <2>3. cycleNow[w] \in Instant /\ due \in SUBSET TaskId
    BY DEF TypeInv, TypeOK, TaskId
  <2> QED
    BY <2>2, <2>3, <1>1
<1>4. ASSUME NEW w \in Workers, TaskStep(w)
      PROVE  /\ Complete(w) \/ DeadLetterDelete(w)
             /\ held[w].id = id /\ Running(id)
  <2>1. CASE Claim(w)
    <3>1. PICK i \in FirstDue(cycleNow[w]) :
             taskQueue' = [taskQueue EXCEPT ![i].status = "running"]
      BY <2>1 DEF Claim
    <3>2. i \in TaskId /\ taskQueue[i] \in Row
      BY DEF FirstDue, Due, Waiting, InQueue, TypeInv, TypeOK
    <3>3. taskQueue'[i] \in Row
      BY <3>1, <3>2 DEF TypeInv, TypeOK, Row
    <3> QED
      BY <3>1, <3>2, <3>3, NoneAssumption DEF InQueue, TypeInv, TypeOK
  <2>2. CASE Complete(w) \/ DeadLetterDelete(w)
    <3>1. held[w] # None /\ pc[w] # "bury"
      BY <2>2, HeldType DEF Complete, DeadLetterDelete, Busy
    <3>2. taskQueue' = [taskQueue EXCEPT ![held[w].id] = None]
      BY <2>2 DEF Complete, DeadLetterDelete
    <3>3. id = held[w].id
      BY <3>2 DEF InQueue, TypeInv, TypeOK
    <3> QED
      BY <2>2, <3>1, <3>3, HeldFacts DEF HoldsOrderly, CopyIsCurrent
  <2>3. CASE Retry(w)
    <3>1. id = held[w].id
      BY <2>3 DEF Retry, InQueue
    <3>2. taskQueue[id] \in Row
      BY DEF InQueue, TypeInv, TypeOK
    <3>3. held[w] \in Task
      BY <2>3, HeldType DEF Retry, Busy
    <3>4. AttemptsNext(w) \in Nat
      BY <3>3 DEF AttemptsNext, Task
    <3>5. RetryAt(w) \in Column
      BY <3>4, RetryInstant, ColumnType DEF RetryAt, TypeInv, TypeOK
    <3>6. taskQueue'[id] = [taskQueue[id] EXCEPT !.status = "retry",
                                                 !.attempts = AttemptsNext(w),
                                                 !.avail = RetryAt(w)]
      BY <2>3, <3>1 DEF Retry
    <3>7. taskQueue'[id] \in Row
      BY <3>2, <3>4, <3>5, <3>6 DEF Row
    <3> QED
      BY <3>7, NoneAssumption DEF InQueue
  <2>4. CASE NothingDue(w) \/ Execute(w) \/ DeadLetterInsert(w)
    BY <2>4 DEF NothingDue, Execute, DeadLetterInsert, InQueue, tables
  <2> QED
    BY <1>4, <2>1, <2>2, <2>3, <2>4 DEF TaskStep
<1>5. CASE OtherStep
  <2>1. CASE RequeueInsert
    <3>1. requeuing \in Requeued
      BY <2>1 DEF RequeueInsert, TypeInv, TypeOK
    <3>2. NewRow(requeuing.kind, requeuing.max, requeuing.at) \in Row
      BY <3>1, RequeuedRowType
    <3> QED
      BY <2>1, <3>2, NoneAssumption DEF RequeueInsert, InQueue, TypeInv, TypeOK
  <2>2. CASE ~RequeueInsert
    <3>1. UNCHANGED taskQueue
      BY <1>5, <2>2
      DEF OtherStep, Tick, BeginCycle, RequeueDelete, Crash, StatementError,
          RequeueError, tables
    <3> QED
      BY <3>1 DEF InQueue
  <2> QED
    BY <2>1, <2>2
<1>6. CASE UNCHANGED vars
  BY <1>6 DEF vars, tables, InQueue
<1> QED
  BY <1>2, <1>3, <1>4, <1>5, <1>6 DEF Next, AnySchedulerTick

\* Only one thread at a time is between the two statements of a burial or a
\* requeue: the mutex is held from the DELETE to the INSERT.
OneBetween ==
    /\ \A v, w \in Workers : pc[v] = "bury" /\ pc[w] = "bury" => v = w
    /\ \A w \in Workers : pc[w] = "bury" => requeuing = None

LEMMA BetweenInit == Init => OneBetween
  BY DEF Init, OneBetween

LEMMA BetweenStep == TypeInv /\ OneBetween /\ [Next]_vars => OneBetween'
<1> SUFFICES ASSUME TypeInv, OneBetween, [Next]_vars PROVE OneBetween'
  OBVIOUS
<1> USE DEF OneBetween
<1>1. ASSUME \A w \in Workers : pc'[w] = "bury" => pc[w] = "bury",
             requeuing' \in {requeuing, None}
      PROVE  OneBetween'
  BY <1>1
<1>2. ASSUME NEW id \in ClientIds, Enqueue(id) PROVE OneBetween'
  BY <1>2, <1>1 DEF Enqueue, workers
<1>3. ASSUME NEW w \in Workers, AnySchedulerTick(w) PROVE OneBetween'
  BY <1>3, <1>1 DEF AnySchedulerTick, SchedulerTick, Goto, TypeInv, TypeOK
<1>4. ASSUME NEW w \in Workers, TaskStep(w) PROVE OneBetween'
  <2>1. CASE DeadLetterDelete(w)
    BY <2>1 DEF DeadLetterDelete, DatabaseFree, Goto, TypeInv, TypeOK
  <2>2. CASE Execute(w)
    <3>1. PICK outcome \in {"ok", "failed"} : pc' = [pc EXCEPT ![w] = outcome]
      BY <2>2 DEF Execute, Outcomes, Goto
    <3> QED
      BY <2>2, <3>1, <1>1 DEF Execute, TypeInv, TypeOK
  <2>3. CASE Claim(w)
    BY <2>3, <1>1 DEF Claim, Goto, TypeInv, TypeOK
  <2>4. CASE EndCycle(w) /\ UNCHANGED requeuing
    BY <2>4, <1>1 DEF EndCycle, Goto, TypeInv, TypeOK
  <2> QED
    BY <1>4, <2>1, <2>2, <2>3, <2>4
    DEF TaskStep, NothingDue, Complete, Retry, DeadLetterInsert
<1>5. CASE OtherStep
  <2>1. ASSUME NEW w \in Workers, BeginCycle(w) PROVE OneBetween'
    BY <2>1, <1>1 DEF BeginCycle, Goto, TypeInv, TypeOK
  <2>2. ASSUME NEW id \in TaskId, RequeueDelete(id) PROVE OneBetween'
    BY <2>2 DEF RequeueDelete, DatabaseFree, workers
  <2>3. ASSUME NEW w \in Workers, StatementError(w) PROVE OneBetween'
    BY <2>3, <1>1 DEF StatementError, EndCycle, Goto, TypeInv, TypeOK
  <2> QED
    BY <1>1, <1>5, <2>1, <2>2, <2>3
    DEF OtherStep, Tick, RequeueInsert, Crash, RequeueError, workers
<1>6. CASE UNCHANGED vars
  BY <1>6, <1>1 DEF vars, workers
<1> QED
  BY <1>2, <1>3, <1>4, <1>5, <1>6 DEF Next

\* The faults are counted by what happens: a crash, a failing statement of a
\* worker, a failing INSERT of a requeue, and nothing else.
LEMMA FaultsCounted ==
    [Next]_vars => \/ UNCHANGED faults
                   \/ /\ faults' = faults + 1
                      /\ \/ Crash
                         \/ \E w \in Workers : StatementError(w)
                         \/ RequeueError
<1> SUFFICES ASSUME [Next]_vars,
                    ~Crash, ~(\E w \in Workers : StatementError(w)),
                    ~RequeueError
             PROVE  UNCHANGED faults
  BY DEF Crash, StatementError, RequeueError, Suffer
<1>1. ASSUME NEW w \in Workers, AnySchedulerTick(w) \/ TaskStep(w)
      PROVE  UNCHANGED faults
  BY <1>1
  DEF AnySchedulerTick, SchedulerTick, TaskStep, Claim, NothingDue, Execute,
      Complete, Retry, DeadLetterDelete, DeadLetterInsert
<1> QED
  BY <1>1
  DEF Next, Enqueue, OtherStep, Tick, BeginCycle, RequeueDelete,
      RequeueInsert, vars

\* A task becomes a loss in one way: a fault stops the thread that was moving
\* it between the two tables.
LEMMA LossStep ==
    ASSUME TypeInv, IInv, [Next]_vars, NEW id \in OrderlyIds, Lost(id)'
    PROVE  Lost(id) \/ (InFlight(id) /\ faults' = faults + 1)
<1> id \in TaskId
  BY OrderlyAreIds
<1>1. ~InQueue(id)' /\ deadLetter'[id] = None /\ ~InFlight(id)' /\ id \in owed'
  BY DEF Lost, InQueue
<1>2. ASSUME NEW ids \in SUBSET TaskId, NEW kind \in Kinds,
             NEW max \in MaxAttempts, NEW avail \in Instant,
             Submit(ids, NewRow(kind, max, avail))
      PROVE  id \in owed
  <2>1. NewRow(kind, max, avail) # None
    BY NewRowType, NoneAssumption
  <2> QED
    BY <1>1, <1>2, <2>1 DEF Submit, InQueue
<1>3. id \in owed
  <2>1. ASSUME NEW i \in ClientIds, Enqueue(i) PROVE id \in owed
    <3>1. PICK kind \in Kinds, max \in MaxAttempts, lag \in 0..MaxLag :
             lag <= now /\ Submit({i}, NewRow(kind, max, now - lag))
      BY <2>1 DEF Enqueue
    <3>2. now - lag \in Instant
      BY <3>1, U64MaxAssumption, QueueAssumption DEF TypeInv, TypeOK, Instant
    <3>3. {i} \in SUBSET TaskId
      BY DEF TaskId
    <3> QED
      BY <3>1, <3>2, <3>3, <1>2
  <2>2. ASSUME NEW w \in Workers, NEW due \in SUBSET ScheduledIds,
               SchedulerTick(w, due)
        PROVE  id \in owed
    <3>1. CASE due = {}
      BY <2>2, <3>1, <1>1 DEF SchedulerTick, history
    <3>2. CASE due # {}
      <4>1. PICK kind \in Kinds, max \in MaxAttempts :
               Submit(due, NewRow(kind, max, cycleNow[w]))
        BY <2>2, <3>2 DEF SchedulerTick
      <4>2. cycleNow[w] \in Instant /\ due \in SUBSET TaskId
        BY DEF TypeInv, TypeOK, TaskId
      <4> QED
        BY <4>1, <4>2, <1>2
    <3> QED
      BY <3>1, <3>2
  <2>3. ASSUME NEW w \in Workers, TaskStep(w) PROVE id \in owed
    BY <2>3, <1>1
    DEF TaskStep, Claim, NothingDue, Execute, Complete, Retry,
        DeadLetterDelete, DeadLetterInsert, history
  <2>4. CASE OtherStep
    BY <2>4, <1>1
    DEF OtherStep, Tick, BeginCycle, RequeueDelete, RequeueInsert, Crash,
        StatementError, RequeueError, history
  <2> QED
    BY <1>1, <2>1, <2>2, <2>3, <2>4 DEF Next, AnySchedulerTick, vars, history
<1>4. ~InQueue(id)
  <2> SUFFICES ASSUME InQueue(id) PROVE FALSE
    OBVIOUS
  <2>1. PICK w \in Workers : /\ Complete(w) \/ DeadLetterDelete(w)
                             /\ held[w].id = id
    BY <1>1, LeavesByItsWorker
  <2>2. CASE Complete(w)
    BY <1>1, <2>1, <2>2 DEF Complete
  <2>3. CASE DeadLetterDelete(w)
    <3>1. held[w] # None
      BY <2>3, HeldType DEF DeadLetterDelete, Busy
    <3>2. pc'[w] = "bury" /\ held'[w] = held[w]
      BY <2>3 DEF DeadLetterDelete, Goto, TypeInv, TypeOK
    <3> QED
      BY <1>1, <2>1, <3>1, <3>2 DEF InFlight, Holds
  <2> QED
    BY <2>1, <2>2, <2>3
<1>5. deadLetter[id] = None
  <2> SUFFICES ASSUME deadLetter[id] # None PROVE FALSE
    OBVIOUS
  <2>1. ASSUME NEW i \in TaskId, RequeueDelete(i) PROVE FALSE
    <3>1. i = id
      BY <2>1, <1>1 DEF RequeueDelete, TypeInv, TypeOK
    <3>2. deadLetter[i] \in DeadRow
      BY <3>1 DEF TypeInv, TypeOK
    <3>3. requeuing' \in Requeued /\ requeuing'.id = id
      BY <2>1, <3>1, <3>2
      DEF RequeueDelete, Requeued, DeadRow, TypeInv, TypeOK
    <3> QED
      BY <1>1, <3>3, NoneAssumption DEF InFlight
  <2>2. ASSUME NEW w \in Workers, DeadLetterInsert(w) PROVE FALSE
    <3>1. held[w] \in Task
      BY <2>2, HeldType DEF DeadLetterInsert, Busy
    <3>2. [kind |-> held[w].kind, attempts |-> AttemptsNext(w),
           max |-> held[w].max] \in DeadRow
      BY <3>1 DEF AttemptsNext, Task, DeadRow
    <3> QED
      BY <2>2, <1>1, <3>2, NoneAssumption DEF DeadLetterInsert, TypeInv, TypeOK
  <2>3. UNCHANGED deadLetter
    BY <2>1, <2>2
    DEF Next, AnySchedulerTick, Enqueue, SchedulerTick, TaskStep, Claim, NothingDue,
        Execute, Complete, Retry, DeadLetterDelete, OtherStep, Tick,
        BeginCycle, RequeueInsert, Crash, StatementError, RequeueError,
        vars, tables
  <2> QED
    BY <1>1, <2>3
<1>6. ASSUME InFlight(id) PROVE faults' = faults + 1
  <2>1. ~DatabaseFree
    BY <1>6 DEF InFlight, DatabaseFree
  <2>2. ASSUME UNCHANGED requeuing,
               \A w \in Workers : pc[w] = "bury" =>
                   pc'[w] = "bury" /\ held'[w] = held[w]
        PROVE  FALSE
    BY <2>2, <1>1, <1>6 DEF InFlight, Holds
  <2>3. ~Tick /\ ~UNCHANGED vars
    BY <2>2 DEF Tick, vars, workers
  <2>4. ASSUME NEW w \in Workers, BeginCycle(w) PROVE FALSE
    BY <2>4, <2>2 DEF BeginCycle, Goto, TypeInv, TypeOK
  <2>5. ASSUME NEW w \in Workers, TaskStep(w) PROVE FALSE
    <3>1. CASE Execute(w)
      BY <3>1, <2>2 DEF Execute, Goto, TypeInv, TypeOK
    <3>2. CASE DeadLetterInsert(w)
      <4>1. held[w] \in Task
        BY <3>2, HeldType DEF DeadLetterInsert, Busy
      <4>2. [kind |-> held[w].kind, attempts |-> AttemptsNext(w),
             max |-> held[w].max] \in DeadRow
        BY <4>1 DEF AttemptsNext, Task, DeadRow
      <4>3. held[w].id # id
        BY <1>1, <3>2, <4>2, NoneAssumption
        DEF DeadLetterInsert, TypeInv, TypeOK
      <4>4. \A v \in Workers : v # w => held'[v] = held[v] /\ pc'[v] = pc[v]
        BY <3>2, EndCycleLetsGo DEF DeadLetterInsert
      <4> QED
        BY <1>1, <1>6, <3>2, <4>3, <4>4 DEF DeadLetterInsert, InFlight, Holds
    <3> QED
      BY <2>1, <2>5, <3>1, <3>2
      DEF TaskStep, Claim, NothingDue, Complete, Retry, DeadLetterDelete
  <2>6. ~RequeueInsert
    <3> SUFFICES ASSUME RequeueInsert PROVE FALSE
      OBVIOUS
    <3>1. requeuing \in Requeued
      BY DEF RequeueInsert, TypeInv, TypeOK
    <3>2. NewRow(requeuing.kind, requeuing.max, requeuing.at) \in Row
      BY <3>1, RequeuedRowType
    <3>3. requeuing.id # id
      BY <1>1, <3>2, NoneAssumption DEF RequeueInsert, InQueue, TypeInv, TypeOK
    <3>4. UNCHANGED <<pc, held>>
      BY DEF RequeueInsert, workers
    <3> QED
      BY <1>1, <1>6, <3>3, <3>4 DEF InFlight, Holds
  <2>7. Crash \/ (\E w \in Workers : StatementError(w)) \/ RequeueError
    BY <2>1, <2>3, <2>4, <2>5, <2>6
    DEF Next, AnySchedulerTick, Enqueue, Submit, SchedulerTick, OtherStep, RequeueDelete
  <2> QED
    BY <2>7 DEF Crash, StatementError, RequeueError, Suffer
<1> QED
  BY <1>1, <1>3, <1>4, <1>5, <1>6 DEF Lost

\* A row is left 'running' with nobody to run it in one way: a fault makes
\* the worker that carries its task let go of it.
LEMMA StrandStep ==
    ASSUME TypeInv, IInv, [Next]_vars, NEW id \in OrderlyIds, Stranded(id)'
    PROVE  \/ Stranded(id)
           \/ \E w \in Workers : /\ Holds(w, id)
                                 /\ Crash \/ StatementError(w)
<1> id \in TaskId
  BY OrderlyAreIds
<1>1. Running(id)' /\ \A w \in Workers : ~Holds(w, id)'
  BY DEF Stranded
<1>2. ASSUME UNCHANGED taskQueue,
             \A w \in Workers : Holds(w, id) => held'[w] = held[w]
      PROVE  Stranded(id)
  BY <1>1, <1>2 DEF Stranded, Running, InQueue, Holds
<1>3. ASSUME NEW ids \in SUBSET TaskId, NEW kind, NEW max, NEW avail,
             Submit(ids, NewRow(kind, max, avail)), UNCHANGED held
      PROVE  Stranded(id)
  <2>1. NewRow(kind, max, avail).status = "pending"
    BY DEF NewRow
  <2>2. id \notin ids
    BY <1>1, <1>3, <2>1 DEF Submit, Running
  <2> QED
    BY <1>1, <1>3, <2>2 DEF Submit, Stranded, Running, InQueue, Holds
<1>4. ASSUME NEW i \in ClientIds, Enqueue(i) PROVE Stranded(id)
  <2>1. {i} \in SUBSET TaskId
    BY DEF TaskId
  <2> QED
    BY <1>3, <1>4, <2>1 DEF Enqueue, workers
<1>5. ASSUME NEW w \in Workers, NEW due \in SUBSET ScheduledIds,
             SchedulerTick(w, due)
      PROVE  Stranded(id)
  <2>1. due \in SUBSET TaskId
    BY DEF TaskId
  <2> QED
    BY <1>2, <1>3, <1>5, <2>1 DEF SchedulerTick
<1>6. ASSUME NEW w \in Workers, TaskStep(w) PROVE Stranded(id)
  <2>1. CASE Claim(w)
    <3>1. PICK i \in FirstDue(cycleNow[w]) :
            /\ taskQueue' = [taskQueue EXCEPT ![i].status = "running"]
            /\ held' = [held EXCEPT ![w] =
                          [id |-> i, kind |-> taskQueue[i].kind,
                           attempts |-> taskQueue[i].attempts,
                           max |-> taskQueue[i].max]]
      BY <2>1 DEF Claim
    <3>2. i \in TaskId /\ taskQueue[i] \in Row
      BY DEF FirstDue, Due, Waiting, InQueue, TypeInv, TypeOK
    <3>3. held'[w] \in Task /\ held'[w].id = i
      BY <3>1, <3>2 DEF TypeInv, TypeOK, Row, Task
    <3>4. i # id
      BY <1>1, <3>3, NoneAssumption DEF Holds
    <3>5. held[w] = None
      BY <2>1 DEF Claim, TypeInv, TypeOK, HeldWhileBusy, Busy
    <3>6. taskQueue'[id] = taskQueue[id]
          /\ \A v \in Workers : v # w => held'[v] = held[v]
      BY <3>1, <3>4 DEF TypeInv, TypeOK
    <3> QED
      BY <1>1, <3>5, <3>6 DEF Stranded, Running, InQueue, Holds
  <2>2. CASE NothingDue(w)
    <3>1. held[w] = None
      BY <2>2 DEF NothingDue, TypeInv, TypeOK, HeldWhileBusy, Busy
    <3>2. \A v \in Workers : v # w => held'[v] = held[v]
      BY <2>2, EndCycleLetsGo DEF NothingDue
    <3> QED
      BY <1>2, <2>2, <3>1, <3>2 DEF NothingDue, Holds, tables
  <2>3. CASE Execute(w)
    BY <1>2, <2>3 DEF Execute, tables
  <2>4. CASE Complete(w)
    <3>1. held[w].id # id
      BY <1>1, <2>4 DEF Complete, Running, InQueue, TypeInv, TypeOK
    <3>2. \A v \in Workers : v # w => held'[v] = held[v]
      BY <2>4, EndCycleLetsGo DEF Complete
    <3>3. taskQueue'[id] = taskQueue[id]
      BY <2>4, <3>1 DEF Complete, TypeInv, TypeOK
    <3> QED
      BY <1>1, <3>1, <3>2, <3>3 DEF Stranded, Running, InQueue, Holds
  <2>5. CASE Retry(w)
    <3>1. held[w].id # id
      <4> SUFFICES ASSUME held[w].id = id PROVE FALSE
        OBVIOUS
      <4>1. held[w] # None /\ pc[w] # "bury"
        BY <2>5, HeldType DEF Retry, Busy
      <4>0. CopyIsCurrent(w)
        BY <4>1, HeldFacts DEF HoldsOrderly
      <4>2. InQueue(id) /\ taskQueue[id] \in Row
        BY <4>0 DEF CopyIsCurrent, Running, InQueue, TypeInv, TypeOK
      <4>3. taskQueue'[id] = [taskQueue[id] EXCEPT !.status = "retry",
                                                   !.attempts = AttemptsNext(w),
                                                   !.avail = RetryAt(w)]
        BY <2>5, <4>2 DEF Retry
      <4>4. taskQueue'[id].status = "retry"
        BY <4>2, <4>3 DEF Row
      <4> QED
        BY <1>1, <4>4 DEF Running
    <3>2. \A v \in Workers : v # w => held'[v] = held[v]
      BY <2>5, EndCycleLetsGo DEF Retry
    <3>3. taskQueue'[id] = taskQueue[id]
      BY <2>5, <3>1 DEF Retry
    <3> QED
      BY <1>1, <3>1, <3>2, <3>3 DEF Stranded, Running, InQueue, Holds
  <2>6. CASE DeadLetterDelete(w)
    <3>1. taskQueue'[id] = taskQueue[id] /\ held' = held
      BY <1>1, <2>6 DEF DeadLetterDelete, Running, InQueue, TypeInv, TypeOK
    <3> QED
      BY <1>1, <3>1 DEF Stranded, Running, InQueue, Holds
  <2>7. CASE DeadLetterInsert(w)
    <3>1. UNCHANGED taskQueue
      BY <2>7 DEF DeadLetterInsert
    <3>2. ~Holds(w, id)
      BY <1>1, <2>7, <3>1
      DEF DeadLetterInsert, IInv, OnePlace, InFlight, Running, InQueue
    <3>3. \A v \in Workers : v # w => held'[v] = held[v]
      BY <2>7, EndCycleLetsGo DEF DeadLetterInsert
    <3> QED
      BY <1>2, <3>1, <3>2, <3>3
  <2> QED
    BY <1>6, <2>1, <2>2, <2>3, <2>4, <2>5, <2>6, <2>7 DEF TaskStep
<1>7. CASE OtherStep
  <2>1. CASE RequeueInsert
    <3>1. NewRow(requeuing.kind, requeuing.max, requeuing.at).status
             = "pending"
      BY DEF NewRow
    <3>2. requeuing.id # id
      BY <1>1, <2>1, <3>1 DEF RequeueInsert, Running, TypeInv, TypeOK
    <3>3. taskQueue'[id] = taskQueue[id] /\ held' = held
      BY <2>1, <3>2 DEF RequeueInsert, TypeInv, TypeOK, workers
    <3> QED
      BY <1>1, <3>3 DEF Stranded, Running, InQueue, Holds
  <2>2. CASE Crash
    BY <1>2, <2>2 DEF Crash, tables
  <2>3. ASSUME NEW w \in Workers, StatementError(w) PROVE
           Stranded(id) \/ Holds(w, id)
    <3>1. \A v \in Workers : v # w => held'[v] = held[v]
      BY <2>3, EndCycleLetsGo DEF StatementError
    <3> QED
      BY <1>2, <2>3, <3>1 DEF StatementError, tables
  <2> QED
    BY <1>2, <1>7, <2>1, <2>2, <2>3
    DEF OtherStep, Tick, BeginCycle, RequeueDelete, RequeueError, tables,
        workers
<1>8. CASE UNCHANGED vars
  BY <1>2, <1>8 DEF vars, tables, workers
<1> QED
  BY <1>4, <1>5, <1>6, <1>7, <1>8 DEF Next, AnySchedulerTick

LostIds == {id \in OrderlyIds : Lost(id)}
StrandedIds == {id \in OrderlyIds : Stranded(id)}

\* What one fault costs, counted: the tasks that are lost and the rows that
\* are stranded stay few enough for the faults there were.
Cost ==
    /\ IsFiniteSet(LostIds) /\ Cardinality(LostIds) <= faults
    /\ IsFiniteSet(StrandedIds)
    /\ Cardinality(StrandedIds) <= faults * Cardinality(Workers)

LEMMA CostInit ==
    ASSUME IsFiniteSet(Workers), Init
    PROVE  Cost
<1>1. LostIds = {} /\ StrandedIds = {}
  BY OrderlyAreIds DEF Init, LostIds, Lost, StrandedIds, Stranded, Running, InQueue
<1>2. faults = 0 /\ 0 <= 0 * Cardinality(Workers)
  <2>1. PICK c \in Nat : c = Cardinality(Workers)
    BY FS_CardinalityType
  <2>2. 0 <= 0 * c
    BY <2>1
  <2> QED
    BY <2>1, <2>2 DEF Init
<1> QED
  BY <1>1, <1>2, FS_EmptySet DEF Cost

\* A fault stops one mover at most, and makes every worker let go at most.
LEMMA CostStep ==
    ASSUME IsFiniteSet(Workers), TypeInv, IInv, OneBetween, Cost,
           [Next]_vars
    PROVE  Cost'
<1>1. PICK c : c = Cardinality(Workers)
  OBVIOUS
<1>2. c \in Nat /\ faults \in Nat
  BY <1>1, FS_CardinalityType DEF TypeInv, TypeOK
<1>3. IsFiniteSet(LostIds') /\ Cardinality(LostIds') <= faults'
  <2>1. CASE UNCHANGED faults
    <3>1. LostIds' \in SUBSET LostIds
      BY <2>1, LossStep, <1>2 DEF LostIds
    <3>2. Cardinality(LostIds) \in Nat /\ Cardinality(LostIds') \in Nat
      BY <3>1, FS_Subset, FS_CardinalityType DEF Cost
    <3> QED
      BY <2>1, <3>1, <3>2, <1>2, FS_Subset DEF Cost
  <2>2. CASE faults' = faults + 1
    <3>1. PICK x : \A id \in TaskId : InFlight(id) => id = x
      <4>1. \A i, j \in TaskId : InFlight(i) /\ InFlight(j) => i = j
        BY DEF InFlight, Holds, OneBetween
      <4> QED
        BY <4>1
    <3>2. LostIds' \in SUBSET (LostIds \cup {x})
      <4> SUFFICES ASSUME NEW id \in OrderlyIds, Lost(id)'
                   PROVE  Lost(id) \/ id = x
        BY DEF LostIds
      <4>1. Lost(id) \/ InFlight(id)
        BY LossStep
      <4> QED
        BY <3>1, <4>1, OrderlyAreIds
    <3>3. /\ IsFiniteSet(LostIds \cup {x})
          /\ Cardinality(LostIds \cup {x}) <= faults + 1
      <4>1. IsFiniteSet(LostIds) /\ Cardinality(LostIds) <= faults
        BY DEF Cost
      <4>2. Cardinality(LostIds) \in Nat
        BY <4>1, FS_CardinalityType
      <4>3. /\ IsFiniteSet(LostIds \cup {x})
            /\ Cardinality(LostIds \cup {x}) =
                  IF x \in LostIds THEN Cardinality(LostIds)
                                   ELSE Cardinality(LostIds) + 1
        BY <4>1, FS_AddElement
      <4> QED
        BY <4>1, <4>2, <4>3, <1>2
    <3>4. /\ Cardinality(LostIds \cup {x}) \in Nat
          /\ IsFiniteSet(LostIds') /\ Cardinality(LostIds') \in Nat
          /\ Cardinality(LostIds') <= Cardinality(LostIds \cup {x})
      BY <3>2, <3>3, FS_Subset, FS_CardinalityType
    <3> QED
      BY <2>2, <3>3, <3>4, <1>2
  <2> QED
    BY <2>1, <2>2, FaultsCounted
<1>4. IsFiniteSet(StrandedIds') /\ Cardinality(StrandedIds') <= faults' * c
  <2>1. CASE UNCHANGED faults
    <3>1. StrandedIds' \in SUBSET StrandedIds
      BY <2>1, StrandStep, <1>2
      DEF StrandedIds, Crash, StatementError, Suffer
    <3>2. Cardinality(StrandedIds) \in Nat /\ Cardinality(StrandedIds') \in Nat
      BY <3>1, FS_Subset, FS_CardinalityType DEF Cost
    <3>3. faults * c \in Nat /\ faults' * c = faults * c
      BY <2>1, <1>2
    <3> QED
      BY <1>1, <3>1, <3>2, <3>3, FS_Subset DEF Cost
  <2>2. CASE faults' = faults + 1
    <3> DEFINE Holders == {w \in Workers : held[w] # None}
               Carried == {held[w].id : w \in Holders}
               f == [w \in Holders |-> held[w].id]
    <3>1. IsFiniteSet(Holders) /\ Cardinality(Holders) <= c
      BY <1>1, FS_Subset
    <3>2. f \in Surjection(Holders, Carried)
      BY DEF Surjection
    <3>3. IsFiniteSet(Carried) /\ Cardinality(Carried) <= Cardinality(Holders)
      BY <3>1, <3>2, FS_Surjection
    <3>4. StrandedIds' \in SUBSET (StrandedIds \cup Carried)
      BY StrandStep DEF StrandedIds, Holds
    <3>5. /\ IsFiniteSet(StrandedIds \cup Carried)
          /\ Cardinality(StrandedIds \cup Carried)
                = Cardinality(StrandedIds) + Cardinality(Carried)
                     - Cardinality(StrandedIds \cap Carried)
      BY <3>3, FS_Union DEF Cost
    <3>6. /\ IsFiniteSet(StrandedIds \cap Carried)
          /\ IsFiniteSet(StrandedIds')
          /\ Cardinality(StrandedIds') <= Cardinality(StrandedIds \cup Carried)
      BY <3>3, <3>4, <3>5, FS_Subset
    <3>7. /\ Cardinality(StrandedIds) \in Nat /\ Cardinality(Carried) \in Nat
          /\ Cardinality(StrandedIds \cap Carried) \in Nat
          /\ Cardinality(StrandedIds') \in Nat
          /\ Cardinality(StrandedIds \cup Carried) \in Nat
          /\ Cardinality(Holders) \in Nat
      BY <3>1, <3>3, <3>5, <3>6, FS_CardinalityType DEF Cost
    <3>8. faults * c \in Nat /\ faults' * c = faults * c + c
      BY <2>2, <1>2
    <3>9. Cardinality(StrandedIds) <= faults * c
      BY <1>1 DEF Cost
    <3> HIDE DEF Holders, Carried, f
    <3> QED
      BY <1>2, <3>1, <3>3, <3>5, <3>6, <3>7, <3>8, <3>9
  <2> QED
    BY <2>1, <2>2, FaultsCounted
<1> QED
  BY <1>1, <1>3, <1>4 DEF Cost

\* What a crash or a failing statement costs: one task for good at most, and
\* for each worker one row that stays 'running' with nobody to run it.  There
\* may be any number of ids; the workers are finitely many threads.  Counted
\* are the orderly ids: the reuse of one can destroy no task of another.
THEOREM FaultsCostHolds ==
    ASSUME IsFiniteSet(Workers)
    PROVE  Spec => []FaultsCost
<1>1. Init => TypeInv /\ IInv /\ OneBetween /\ Cost
  BY TypeInit, SafetyInit, BetweenInit, CostInit
<1>2. TypeInv /\ IInv /\ OneBetween /\ Cost /\ [Next]_vars
         => (TypeInv /\ IInv /\ OneBetween /\ Cost)'
  BY TypeStep, SafetyStep, BetweenStep, CostStep
<1>3. Cost => FaultsCost
  BY DEF Cost, FaultsCost, LostIds, StrandedIds
<1> QED
  BY <1>1, <1>2, <1>3, PTL DEF Spec

-----------------------------------------------------------------------------
(* Without faults.                                                         *)

NoFaults == Faults = {} \/ MaxFaults = 0

LEMMA NoFaultStep ==
    ASSUME NoFaults, TypeInv, [Next]_vars
    PROVE  UNCHANGED faults
  BY FaultsCounted, QueueAssumption
  DEF NoFaults, TypeInv, TypeOK, Crash, StatementError, RequeueError, Suffer

\* A task of an orderly id that was accepted and has not completed is in a
\* table or between the two, as long as nothing crashes and no statement fails: the losses of
\* FaultsCost have no other cause.
THEOREM NothingLostHolds ==
    ASSUME NoFaults
    PROVE  Spec => []NothingLost
<1>1. Init => NothingLost
  BY DEF Init, NothingLost, Lost
<1>2. TypeInv /\ IInv /\ NothingLost /\ [Next]_vars => NothingLost'
  <2>1. ASSUME TypeInv, [Next]_vars PROVE faults' = faults /\ faults \in Nat
    BY <2>1, NoFaultStep DEF TypeInv, TypeOK
  <2>2. ASSUME TypeInv, [Next]_vars PROVE faults' # faults + 1
    BY <2>1, <2>2
  <2> QED
    BY <2>2, LossStep DEF NothingLost
<1> QED
  BY SafetyInvariant, <1>1, <1>2, PTL DEF Spec

\* While a worker is burying a task nothing puts a row back under its id: the
\* mutex is held, whoever else has a copy of the task.
BuriedGone == \A w \in Workers : pc[w] = "bury" => ~InQueue(held[w].id)

\* With reused ids a worker may hold a copy of a task whose row another has
\* rewritten; but a row that is 'running' always has some worker.
NoOrphanInv == OneBetween /\ BuriedGone /\ NoOrphan

LEMMA OrphanInit == Init => NoOrphanInv
  BY DEF Init, NoOrphanInv, OneBetween, BuriedGone, NoOrphan, Running, InQueue

\* A step that starts no task and after which no worker has let go.
LEMMA StillRun ==
    ASSUME NoOrphanInv, OneBetween',
           \A id \in TaskId : taskQueue'[id] # taskQueue[id] =>
               ~Running(id)' /\ \A w \in Workers : pc[w] # "bury",
           \A w \in Workers : pc'[w] = "bury" => pc[w] = "bury",
           \A w \in Workers : held'[w] = held[w],
           \A w \in Workers : pc[w] = "bury" => held[w].id \in TaskId
    PROVE  NoOrphanInv'
<1>1. BuriedGone'
  BY DEF NoOrphanInv, BuriedGone, InQueue
<1>2. NoOrphan'
  BY DEF NoOrphanInv, NoOrphan, Running, InQueue, Holds
<1> QED
  BY <1>1, <1>2 DEF NoOrphanInv

LEMMA OrphanStep ==
    ASSUME NoFaults, TypeInv, NoOrphanInv, [Next]_vars
    PROVE  NoOrphanInv'
<1>1. OneBetween'
  BY BetweenStep DEF NoOrphanInv
<1>2. UNCHANGED faults
  BY NoFaultStep
<1>3. \A w \in Workers : pc[w] \in Busy => held[w].id \in TaskId
  BY HeldType DEF Task
<1>4. ASSUME NEW ids \in SUBSET TaskId, NEW kind, NEW max, NEW avail,
             Submit(ids, NewRow(kind, max, avail)), UNCHANGED held,
             \A w \in Workers : pc'[w] = "bury" => pc[w] = "bury"
      PROVE  NoOrphanInv'
  <2>1. NewRow(kind, max, avail).status = "pending"
    BY DEF NewRow
  <2>2. \A id \in TaskId : taskQueue'[id] # taskQueue[id] =>
            ~Running(id)' /\ \A w \in Workers : pc[w] # "bury"
    BY <1>4, <2>1 DEF Submit, Running, DatabaseFree
  <2> QED
    BY <1>1, <1>3, <1>4, <2>2, StillRun DEF Busy
<1>5. ASSUME NEW id \in ClientIds, Enqueue(id) PROVE NoOrphanInv'
  <2>1. {id} \in SUBSET TaskId
    BY DEF TaskId
  <2>2. UNCHANGED <<held, pc>>
    BY <1>5 DEF Enqueue, workers
  <2> QED
    BY <1>4, <1>5, <2>1, <2>2 DEF Enqueue
<1>6. ASSUME NEW w \in Workers, NEW due \in SUBSET ScheduledIds,
             SchedulerTick(w, due)
      PROVE  NoOrphanInv'
  <2>1. due \in SUBSET TaskId
    BY DEF TaskId
  <2>2. UNCHANGED held /\ \A v \in Workers : pc'[v] = "bury" => pc[v] = "bury"
    BY <1>6 DEF SchedulerTick, Goto, TypeInv, TypeOK
  <2>3. CASE due = {}
    <3>1. UNCHANGED taskQueue
      BY <1>6, <2>3 DEF SchedulerTick
    <3> QED
      BY <1>1, <1>3, <2>2, <3>1, StillRun DEF Busy
  <2>4. CASE due # {}
    BY <1>4, <1>6, <2>1, <2>2, <2>4 DEF SchedulerTick
  <2> QED
    BY <2>3, <2>4
<1>7. ASSUME NEW w \in Workers, TaskStep(w) PROVE NoOrphanInv'
  <2>1. CASE Claim(w)
    <3>1. PICK i \in FirstDue(cycleNow[w]) :
            /\ taskQueue' = [taskQueue EXCEPT ![i].status = "running"]
            /\ held' = [held EXCEPT ![w] =
                          [id |-> i, kind |-> taskQueue[i].kind,
                           attempts |-> taskQueue[i].attempts,
                           max |-> taskQueue[i].max]]
      BY <2>1 DEF Claim
    <3>2. i \in TaskId /\ taskQueue[i] \in Row
      BY DEF FirstDue, Due, Waiting, InQueue, TypeInv, TypeOK
    <3>3. held'[w] \in Task /\ held'[w].id = i
      BY <3>1, <3>2 DEF TypeInv, TypeOK, Row, Task
    <3>4. held[w] = None /\ \A v \in Workers : v # w => held'[v] = held[v]
      BY <2>1, <3>1 DEF Claim, TypeInv, TypeOK, HeldWhileBusy, Busy
    <3>5. \A id \in TaskId : id # i => taskQueue'[id] = taskQueue[id]
      BY <3>1 DEF TypeInv, TypeOK
    <3>6. NoOrphan'
      BY <3>3, <3>4, <3>5, NoneAssumption
      DEF NoOrphanInv, NoOrphan, Running, InQueue, Holds
    <3>7. BuriedGone'
      BY <2>1 DEF Claim, DatabaseFree, Goto, TypeInv, TypeOK, BuriedGone
    <3> QED
      BY <1>1, <3>6, <3>7 DEF NoOrphanInv
  <2>2. CASE Execute(w)
    <3>1. PICK outcome \in {"ok", "failed"} : pc' = [pc EXCEPT ![w] = outcome]
      BY <2>2 DEF Execute, Outcomes, Goto
    <3>2. \A v \in Workers : pc'[v] = "bury" => pc[v] = "bury"
      BY <3>1 DEF TypeInv, TypeOK
    <3> QED
      BY <1>1, <1>3, <2>2, <3>2, StillRun DEF Execute, Busy, tables
  <2>3. CASE DeadLetterDelete(w)
    <3>1. /\ \A id \in TaskId : id # held[w].id =>
                taskQueue'[id] = taskQueue[id]
          /\ taskQueue'[held[w].id] = None
          /\ held' = held
      BY <1>3, <2>3 DEF DeadLetterDelete, Busy, TypeInv, TypeOK
    <3>2. \A v \in Workers : pc'[v] = "bury" => v = w
      BY <2>3 DEF DeadLetterDelete, DatabaseFree, Goto, TypeInv, TypeOK
    <3>3. BuriedGone'
      BY <3>1, <3>2 DEF BuriedGone, InQueue
    <3>4. NoOrphan'
      BY <3>1 DEF NoOrphanInv, NoOrphan, Running, InQueue, Holds
    <3> QED
      BY <1>1, <3>3, <3>4 DEF NoOrphanInv
  <2>4. ASSUME EndCycle(w),
               \A id \in TaskId :
                  \/ taskQueue'[id] = taskQueue[id] /\ ~(Running(id) /\ Holds(w, id))
                  \/ ~Running(id)',
               \A v \in Workers : pc'[v] = "bury" =>
                  taskQueue'[held[v].id] = taskQueue[held[v].id]
        PROVE  NoOrphanInv'
    <3>1. /\ held'[w] = None /\ pc'[w] = "sleep"
          /\ \A v \in Workers : v # w => held'[v] = held[v] /\ pc'[v] = pc[v]
      BY <2>4, EndCycleLetsGo
    <3>2. BuriedGone'
      BY <2>4, <3>1 DEF NoOrphanInv, BuriedGone, InQueue
    <3>3. NoOrphan'
      BY <2>4, <3>1 DEF NoOrphanInv, NoOrphan, Running, InQueue, Holds
    <3> QED
      BY <1>1, <3>2, <3>3 DEF NoOrphanInv
  <2>5. CASE NothingDue(w)
    <3>1. held[w] = None
      BY <2>5 DEF NothingDue, TypeInv, TypeOK, HeldWhileBusy, Busy
    <3> QED
      BY <2>4, <2>5, <3>1 DEF NothingDue, Holds, tables
  <2>6. CASE Complete(w)
    <3>1. /\ \A id \in TaskId : id # held[w].id =>
                taskQueue'[id] = taskQueue[id]
          /\ taskQueue'[held[w].id] = None
      BY <1>3, <2>6 DEF Complete, Busy, TypeInv, TypeOK
    <3>2. \A v \in Workers : pc'[v] # "bury"
      BY <2>6, EndCycleLetsGo DEF Complete, DatabaseFree
    <3> QED
      BY <2>4, <2>6, <3>1, <3>2 DEF Complete, Holds, Running, InQueue
  <2>7. CASE Retry(w)
    <3>1. \A v \in Workers : pc'[v] # "bury"
      BY <2>7, EndCycleLetsGo DEF Retry, DatabaseFree
    <3>2. \A id \in TaskId : id # held[w].id => taskQueue'[id] = taskQueue[id]
      BY <2>7 DEF Retry
    <3>3. ASSUME NEW id \in TaskId, id = held[w].id, InQueue(id)
          PROVE  ~Running(id)'
      <4>1. taskQueue[id] \in Row
        BY <3>3 DEF InQueue, TypeInv, TypeOK
      <4>2. taskQueue'[id] = [taskQueue[id] EXCEPT !.status = "retry",
                                                   !.attempts = AttemptsNext(w),
                                                   !.avail = RetryAt(w)]
        BY <2>7, <3>3 DEF Retry
      <4>3. taskQueue'[id].status = "retry"
        BY <4>1, <4>2 DEF Row
      <4> QED
        BY <4>3 DEF Running
    <3>4. ASSUME NEW id \in TaskId, id = held[w].id, ~InQueue(id)
          PROVE  ~Running(id)'
      BY <2>7, <3>4 DEF Retry, Running, InQueue
    <3> QED
      BY <2>4, <2>7, <3>1, <3>2, <3>3, <3>4 DEF Retry, Holds
  <2>8. CASE DeadLetterInsert(w)
    <3>1. UNCHANGED taskQueue /\ ~InQueue(held[w].id)
      BY <2>8 DEF DeadLetterInsert, NoOrphanInv, BuriedGone
    <3> QED
      BY <2>4, <2>8, <3>1 DEF DeadLetterInsert, Holds, Running
  <2> QED
    BY <1>7, <2>1, <2>2, <2>3, <2>5, <2>6, <2>7, <2>8 DEF TaskStep
<1>8. CASE OtherStep
  <2>1. faults' # faults + 1
    <3>1. faults \in Nat /\ faults' = faults
      BY <1>2 DEF TypeInv, TypeOK
    <3> QED
      BY <3>1
  <2>2. CASE RequeueInsert
    <3>1. NewRow(requeuing.kind, requeuing.max, requeuing.at).status
             = "pending"
      BY DEF NewRow
    <3>2. \A v \in Workers : pc[v] # "bury"
      BY <2>2 DEF RequeueInsert, NoOrphanInv, OneBetween
    <3>3. UNCHANGED <<held, pc>>
      BY <2>2 DEF RequeueInsert, workers
    <3>4. \A id \in TaskId : taskQueue'[id] # taskQueue[id] =>
              ~Running(id)' /\ \A w \in Workers : pc[w] # "bury"
      BY <2>2, <3>1, <3>2 DEF RequeueInsert, Running, TypeInv, TypeOK
    <3> QED
      BY <1>1, <1>3, <3>3, <3>4, StillRun DEF Busy
  <2>3. ASSUME NEW w \in Workers, BeginCycle(w) PROVE NoOrphanInv'
    <3>1. \A v \in Workers : pc'[v] = "bury" => pc[v] = "bury"
      BY <2>3 DEF BeginCycle, Goto, TypeInv, TypeOK
    <3> QED
      BY <1>1, <1>3, <2>3, <3>1, StillRun DEF BeginCycle, tables, Busy
  <2>4. ASSUME NEW id \in TaskId, RequeueDelete(id) PROVE NoOrphanInv'
    BY <1>1, <1>3, <2>4, StillRun DEF RequeueDelete, workers, Busy
  <2>5. CASE Tick
    BY <1>1, <1>3, <2>5, StillRun DEF Tick, tables, workers, Busy
  <2> QED
    BY <1>8, <2>1, <2>2, <2>3, <2>4, <2>5
    DEF OtherStep, Crash, StatementError, RequeueError, Suffer
<1>9. CASE UNCHANGED vars
  BY <1>1, <1>3, <1>9, StillRun DEF vars, tables, workers, Busy
<1> QED
  BY <1>5, <1>6, <1>7, <1>8, <1>9 DEF Next, AnySchedulerTick

\* A 'running' row has a worker that runs it as long as nothing crashes and
\* no statement fails, whatever ids the submitters reuse: claim_due_task never
\* looks at such a row again, so nobody else would.
THEOREM NoOrphanHolds ==
    ASSUME NoFaults
    PROVE  Spec => []NoOrphan
<1>1. Init => TypeInv /\ NoOrphanInv
  BY TypeInit, OrphanInit
<1>2. TypeInv /\ NoOrphanInv /\ [Next]_vars => (TypeInv /\ NoOrphanInv)'
  BY TypeStep, OrphanStep
<1>3. NoOrphanInv => NoOrphan
  BY DEF NoOrphanInv
<1> QED
  BY <1>1, <1>2, <1>3, PTL DEF Spec

-----------------------------------------------------------------------------
(* The refinement: the queue's tables and threads keep the promise of      *)
(* TaskLifecycle, step by step.                                            *)

LEMMA LifeWhenQueued ==
    ASSUME NEW id \in OrderlyIds, InQueue(id)
    PROVE  LifeOf(id) = [stage |-> IF Running(id) THEN "running" ELSE "waiting",
                         attempts |-> taskQueue[id].attempts,
                         max |-> taskQueue[id].max]
  BY DEF LifeOf

\* The thread between the two tables is the only one, so that CHOOSE finds it.
LEMMA LifeWhenBuried ==
    ASSUME NEW id \in OrderlyIds, OneHolder, ~InQueue(id), deadLetter[id] = None,
           ~(requeuing # None /\ requeuing.id = id),
           NEW w \in Workers, pc[w] = "bury", Holds(w, id)
    PROVE  LifeOf(id) = [stage |-> "running", attempts |-> held[w].attempts,
                         max |-> held[w].max]
<1>1. Bury(id) = {w}
  BY DEF Bury, Holds, OneHolder
<1> QED
  BY <1>1 DEF LifeOf

LEMMA LifeWhenUnknown ==
    ASSUME NEW id \in OrderlyIds, ~InQueue(id), deadLetter[id] = None, ~InFlight(id)
    PROVE  LifeOf(id) = [stage |-> "absent", attempts |-> 0, max |-> 0]
  BY DEF LifeOf, InFlight

\* A step that changes nothing the life of a task is read from.
LEMMA LifeSame ==
    ASSUME NEW id \in OrderlyIds,
           taskQueue'[id] = taskQueue[id], deadLetter'[id] = deadLetter[id],
           \/ UNCHANGED requeuing
           \/ /\ ~(requeuing # None /\ requeuing.id = id)
              /\ ~(requeuing' # None /\ requeuing'.id = id),
           \A w \in Workers :
              \/ /\ held'[w] = held[w]
                 /\ pc'[w] = "bury" <=> pc[w] = "bury"
              \/ /\ ~(pc[w] = "bury" /\ Holds(w, id))
                 /\ ~(pc[w] = "bury" /\ Holds(w, id))'
    PROVE  LifeOf(id)' = LifeOf(id)
<1>1. Bury(id)' = Bury(id)
  BY DEF Bury, Holds
<1>2. (InQueue(id)' <=> InQueue(id)) /\ (Running(id)' <=> Running(id))
  BY DEF InQueue, Running
<1>3. CASE InQueue(id)
  BY <1>2, <1>3 DEF LifeOf
<1>4. CASE ~InQueue(id) /\ deadLetter[id] # None
  BY <1>2, <1>4 DEF LifeOf
<1>5. CASE /\ ~InQueue(id) /\ deadLetter[id] = None
           /\ requeuing # None /\ requeuing.id = id
  BY <1>2, <1>5 DEF LifeOf
<1>6. CASE /\ ~InQueue(id) /\ deadLetter[id] = None
           /\ ~(requeuing # None /\ requeuing.id = id)
  <2>1. CASE Bury(id) = {}
    BY <1>1, <1>2, <1>6, <2>1 DEF LifeOf, Bury
  <2>2. CASE Bury(id) # {}
    <3>1. PICK w \in Workers : w = CHOOSE v \in Bury(id) : TRUE
      BY <2>2 DEF Bury
    <3>2. w \in Bury(id)
      BY <2>2, <3>1
    <3>3. held'[w] = held[w]
      BY <3>2 DEF Bury
    <3>4. w = CHOOSE v \in Bury(id)' : TRUE
      BY <1>1, <3>1
    <3>5. LifeOf(id) = [stage |-> "running", attempts |-> held[w].attempts,
                        max |-> held[w].max]
      BY <1>6, <2>2, <3>1 DEF LifeOf, Bury
    <3>6. LifeOf(id)' = [stage |-> "running", attempts |-> held'[w].attempts,
                         max |-> held'[w].max]
      <4>1. \E v \in Workers : (pc[v] = "bury" /\ Holds(v, id))'
        BY <1>1, <2>2 DEF Bury
      <4> QED
        BY <1>2, <1>6, <3>4, <4>1 DEF LifeOf
    <3> QED
      BY <3>3, <3>5, <3>6
  <2> QED
    BY <2>1, <2>2
<1> QED
  BY <1>3, <1>4, <1>5, <1>6

life == [id \in OrderlyIds |-> LifeOf(id)]

LEMMA LivesSame ==
    ASSUME \A id \in OrderlyIds : LifeOf(id)' = LifeOf(id)
    PROVE  life' = life
  BY DEF life

\* One task lives on, the others stand still.
LEMMA OneLife ==
    ASSUME NEW id \in OrderlyIds, NEW l, LifeOf(id)' = l,
           \A i \in OrderlyIds : i # id => LifeOf(i)' = LifeOf(i)
    PROVE  life' = [life EXCEPT ![id] = l]
  BY DEF life

\* A step that touches no orderly task shows in no life.
LEMMA StrangerLife ==
    ASSUME \A id \in OrderlyIds : /\ taskQueue'[id] = taskQueue[id]
                                 /\ deadLetter'[id] = deadLetter[id],
           \/ UNCHANGED requeuing
           \/ /\ ~(requeuing # None /\ requeuing.id \in OrderlyIds)
              /\ ~(requeuing' # None /\ requeuing'.id \in OrderlyIds),
           \A w \in Workers :
              \/ held'[w] = held[w] /\ (pc'[w] = "bury" <=> pc[w] = "bury")
              \/ /\ ~(pc[w] = "bury" /\ HoldsOrderly(w))
                 /\ ~(pc[w] = "bury" /\ HoldsOrderly(w))'
    PROVE  life' = life
<1> SUFFICES ASSUME NEW id \in OrderlyIds PROVE LifeOf(id)' = LifeOf(id)
  BY LivesSame
<1> QED
  BY LifeSame DEF HoldsOrderly, Holds

LEMMA RefineInit == Init => Lifecycle!Init
<1> SUFFICES ASSUME Init, NEW id \in OrderlyIds
             PROVE  LifeOf(id) = [stage |-> "absent", attempts |-> 0, max |-> 0]
  BY DEF Lifecycle!Init, Lifecycle!Absent
<1> QED
  BY LifeWhenUnknown, OrderlyAreIds DEF Init, InQueue, InFlight

\* A submission is an Accept of the orderly ids it names.
LEMMA RefineSubmit ==
    ASSUME TypeInv, IInv, NEW mine \in SUBSET OrderlyIds,
           NEW ids \in SUBSET TaskId, mine = ids \cap OrderlyIds, Fresh(ids),
           NEW kind \in Kinds, NEW max \in MaxAttempts, max > 0,
           NEW avail \in Instant, Submit(ids, NewRow(kind, max, avail)),
           UNCHANGED <<deadLetter, requeuing, held>>,
           \A w \in Workers : pc'[w] = "bury" <=> pc[w] = "bury"
    PROVE  Lifecycle!Accept(mine)
<1>1. \A id \in mine :
         LifeOf(id) = [stage |-> "absent", attempts |-> 0, max |-> 0]
  <2> TAKE id \in mine
  <2>1. ~InQueue(id) /\ deadLetter[id] = None /\ ~InFlight(id)
    BY DEF Fresh, Live, InFlight
  <2> QED
    BY <2>1, LifeWhenUnknown
<1>2. \A id \in mine :
         LifeOf(id)' = [stage |-> "waiting", attempts |-> 0, max |-> max]
  <2> TAKE id \in mine
  <2>1. taskQueue'[id] = NewRow(kind, max, avail)
    BY OrderlyAreIds DEF Submit
  <2>2. InQueue(id)' /\ ~Running(id)'
    BY <2>1, NewRowType, NoneAssumption DEF InQueue, Running, NewRow
  <2> QED
    BY <2>1, <2>2 DEF LifeOf, NewRow
<1>3. \A id \in OrderlyIds \ mine : LifeOf(id)' = LifeOf(id)
  BY LifeSame, OrderlyAreIds DEF Submit
<1>4. max \in MaxAttempts \ {0}
  BY QueueAssumption
<1>5. life' = [id \in OrderlyIds |->
                 IF id \in mine
                 THEN [stage |-> "waiting", attempts |-> 0, max |-> max]
                 ELSE life[id]]
  BY <1>2, <1>3 DEF life
<1>6. \A id \in mine : life[id].stage = "absent"
  BY <1>1 DEF life
<1> QED
  BY <1>4, <1>5, <1>6 DEF Lifecycle!Accept, life

LEMMA RefineClaim ==
    ASSUME TypeInv, IInv, NEW w \in Workers, Claim(w)
    PROVE  (\E id \in OrderlyIds : Lifecycle!Start(id)) \/ life' = life
<1>1. PICK id \in FirstDue(cycleNow[w]) :
         taskQueue' = [taskQueue EXCEPT ![id].status = "running"]
  BY DEF Claim
<1>2. id \in TaskId /\ InQueue(id) /\ ~Running(id) /\ taskQueue[id] \in Row
  BY DEF FirstDue, Due, Waiting, Running, InQueue, TypeInv, TypeOK
<1>3. /\ taskQueue'[id] \in Row /\ taskQueue'[id].status = "running"
      /\ taskQueue'[id].attempts = taskQueue[id].attempts
      /\ taskQueue'[id].max = taskQueue[id].max
      /\ \A i \in TaskId : i # id => taskQueue'[i] = taskQueue[i]
  BY <1>1, <1>2 DEF TypeInv, TypeOK, Row
<1>0. /\ UNCHANGED <<deadLetter, requeuing>>
      /\ \A v \in Workers : pc[v] # "bury" /\ pc'[v] # "bury"
  BY DEF Claim, DatabaseFree, Goto, TypeInv, TypeOK
<1>14. CASE id \notin OrderlyIds
  BY <1>0, <1>3, <1>14, OrderlyAreIds, StrangerLife
<1> SUFFICES ASSUME id \in OrderlyIds
             PROVE  \E i \in OrderlyIds : Lifecycle!Start(i)
  BY <1>14
<1>4. PICK l : l = LifeOf(id)
  OBVIOUS
<1>5. l = [stage |-> "waiting", attempts |-> taskQueue[id].attempts,
           max |-> taskQueue[id].max]
  BY <1>2, <1>4, LifeWhenQueued
<1>6. LifeOf(id)' = [stage |-> "running", attempts |-> taskQueue[id].attempts,
                     max |-> taskQueue[id].max]
  <2>1. InQueue(id)' /\ Running(id)'
    BY <1>3, NoneAssumption DEF InQueue, Running
  <2> QED
    BY <1>3, <2>1 DEF LifeOf
<1>7. LifeOf(id)' = [l EXCEPT !.stage = "running"]
  BY <1>5, <1>6
<1>8. \A i \in OrderlyIds : i # id => LifeOf(i)' = LifeOf(i)
  BY <1>0, <1>3, LifeSame, OrderlyAreIds
<1>9. life' = [life EXCEPT ![id] = [l EXCEPT !.stage = "running"]]
  BY <1>2, <1>7, <1>8, OneLife
<1>10. life[id] = l
  BY <1>2, <1>4 DEF life
<1>11. life' = [life EXCEPT ![id].stage = "running"]
  BY <1>9, <1>10
<1>12. life[id].stage = "waiting"
  BY <1>5, <1>10
<1>13. Lifecycle!Start(id)
  BY <1>11, <1>12, Zenon DEF Lifecycle!Start, life
<1> QED
  BY <1>2, <1>13

\* The end of a cycle that rewrites or deletes the row of the worker's task
\* changes the life of that task alone.
LEMMA OthersStandStill ==
    ASSUME TypeInv, IInv, NEW w \in Workers, pc[w] \in Busy, EndCycle(w),
           UNCHANGED requeuing,
           \A id \in TaskId : id # held[w].id =>
              /\ taskQueue'[id] = taskQueue[id]
              /\ deadLetter'[id] = deadLetter[id]
    PROVE  /\ \A id \in OrderlyIds : id # held[w].id => LifeOf(id)' = LifeOf(id)
           /\ ~HoldsOrderly(w) => life' = life
<1>1. /\ held'[w] = None
      /\ \A v \in Workers : v # w => held'[v] = held[v] /\ pc'[v] = pc[v]
  BY EndCycleLetsGo
<1>2. \A id \in OrderlyIds : id # held[w].id => ~Holds(w, id) /\ ~Holds(w, id)'
  BY <1>1 DEF Holds
<1>3. \A id \in OrderlyIds : id # held[w].id => LifeOf(id)' = LifeOf(id)
  BY <1>1, <1>2, LifeSame, OrderlyAreIds
<1>4. ASSUME ~HoldsOrderly(w) PROVE life' = life
  BY <1>3, <1>4, HeldType, LivesSame DEF HoldsOrderly
<1> QED
  BY <1>3, <1>4

LEMMA RefineComplete ==
    ASSUME TypeInv, IInv, NEW w \in Workers, HoldsOrderly(w), Complete(w)
    PROVE  \E id \in OrderlyIds : Lifecycle!Succeed(id)
<1>1. PICK id : id = held[w].id
  OBVIOUS
<1>2. pc[w] \in Busy /\ pc[w] # "bury"
  BY DEF Complete, Busy
<1>3. /\ id \in OrderlyIds /\ id \in TaskId /\ Running(id) /\ InQueue(id)
      /\ deadLetter[id] = None /\ requeuing = None
  BY <1>1, <1>2, HeldFacts DEF CopyIsCurrent, Running, Complete, DatabaseFree
<1>4. /\ taskQueue'[id] = None
      /\ \A i \in TaskId : i # id => taskQueue'[i] = taskQueue[i]
      /\ UNCHANGED <<deadLetter, requeuing>>
  BY <1>1, <1>3 DEF Complete, TypeInv, TypeOK
<1>5. \A v \in Workers : pc'[v] # "bury"
  BY EndCycleLetsGo DEF Complete, DatabaseFree
<1>6. LifeOf(id).stage = "running"
  BY <1>3, LifeWhenQueued
<1>7. LifeOf(id)' = [stage |-> "absent", attempts |-> 0, max |-> 0]
  BY <1>3, <1>4, <1>5 DEF LifeOf, InQueue
<1>8. \A i \in OrderlyIds : i # id => LifeOf(i)' = LifeOf(i)
  BY <1>1, <1>2, <1>4, OthersStandStill DEF Complete
<1>9. life' = [life EXCEPT ![id] = [stage |-> "absent", attempts |-> 0, max |-> 0]]
  BY <1>3, <1>7, <1>8, OneLife
<1> QED
  BY <1>3, <1>6, <1>9 DEF Lifecycle!Succeed, Lifecycle!Absent, life

LEMMA RefineRetry ==
    ASSUME TypeInv, IInv, NEW w \in Workers, HoldsOrderly(w), Retry(w)
    PROVE  \E id \in OrderlyIds : Lifecycle!FailAgain(id)
<1>1. PICK id : id = held[w].id
  OBVIOUS
<1>2. pc[w] \in Busy /\ pc[w] # "bury"
  BY DEF Retry, Busy
<1>3. /\ id \in OrderlyIds /\ id \in TaskId /\ Running(id) /\ InQueue(id)
      /\ taskQueue[id] \in Row /\ held[w] \in Task
      /\ taskQueue[id].attempts = held[w].attempts
      /\ taskQueue[id].max = held[w].max
  BY <1>1, <1>2, HeldFacts DEF CopyIsCurrent, Running, InQueue, TypeInv, TypeOK
<1>4. PICK n : n = AttemptsNext(w)
  OBVIOUS
<1>5. n = taskQueue[id].attempts + 1 /\ n \in Nat /\ n < taskQueue[id].max
  <2>1. n = held[w].attempts + 1 /\ ~(n >= held[w].max)
    BY <1>4 DEF AttemptsNext, Retry, Exhausted
  <2>2. held[w].attempts \in Nat /\ held[w].max \in Nat
    BY <1>3 DEF Task
  <2> QED
    BY <1>3, <2>1, <2>2
<1>6. RetryAt(w) \in Column
  BY <1>4, <1>5, RetryInstant, ColumnType DEF RetryAt, TypeInv, TypeOK
<1>7. taskQueue'[id] = [taskQueue[id] EXCEPT !.status = "retry",
                                             !.attempts = n,
                                             !.avail = RetryAt(w)]
  BY <1>1, <1>3, <1>4 DEF Retry
<1>8. /\ taskQueue'[id] \in Row /\ taskQueue'[id].status = "retry"
      /\ taskQueue'[id].attempts = n
      /\ taskQueue'[id].max = taskQueue[id].max
  BY <1>3, <1>5, <1>6, <1>7 DEF Row
<1>9. PICK l : l = LifeOf(id)
  OBVIOUS
<1>10. l = [stage |-> "running", attempts |-> taskQueue[id].attempts,
            max |-> taskQueue[id].max]
  BY <1>3, <1>9, LifeWhenQueued
<1>11. LifeOf(id)' = [stage |-> "waiting", attempts |-> n,
                      max |-> taskQueue[id].max]
  <2>1. InQueue(id)' /\ ~Running(id)'
    BY <1>8, NoneAssumption DEF InQueue, Running
  <2> QED
    BY <1>8, <2>1 DEF LifeOf
<1>12. \A i \in OrderlyIds : i # id => LifeOf(i)' = LifeOf(i)
  <2>1. UNCHANGED <<deadLetter, requeuing>> /\ EndCycle(w)
    BY DEF Retry
  <2>2. \A i \in TaskId : i # id => taskQueue'[i] = taskQueue[i]
    BY <1>1 DEF Retry
  <2> QED
    BY <1>1, <1>2, <2>1, <2>2, OthersStandStill
<1>13. life' = [life EXCEPT ![id] =
                  [stage |-> "waiting", attempts |-> n, max |-> l.max]]
  BY <1>3, <1>10, <1>11, <1>12, OneLife
<1>14. life[id] = l /\ l.attempts + 1 = n /\ n < l.max
  <2>1. life[id] = l
    BY <1>3, <1>9 DEF life
  <2>2. l.attempts = taskQueue[id].attempts /\ l.max = taskQueue[id].max
    BY <1>10
  <2> QED
    BY <1>5, <2>1, <2>2
<1>15. life' = [life EXCEPT ![id].stage = "waiting", ![id].attempts = @ + 1]
  <2>1. PICK q : q = [stage |-> "waiting", attempts |-> taskQueue[id].attempts, max |-> l.max]
    OBVIOUS
  <2>2. PICK r : r = [stage |-> "waiting", attempts |-> n, max |-> l.max]
    OBVIOUS
  <2>3. q = [l EXCEPT !.stage = "waiting"]
    BY <1>10, <2>1
  <2>4. r = [q EXCEPT !.attempts = n]
    BY <2>1, <2>2
  <2>5. r = [l EXCEPT !.stage = "waiting", !.attempts = @ + 1]
    BY <1>14, <2>3, <2>4
  <2>6. life' = [life EXCEPT ![id] =
                   [life[id] EXCEPT !.stage = "waiting", !.attempts = @ + 1]]
    BY <1>13, <1>14, <2>2, <2>5
  <2> QED
    BY <2>6
<1>16. life[id].stage = "running" /\ life[id].attempts + 1 < life[id].max
  BY <1>10, <1>14
<1>17. Lifecycle!FailAgain(id)
  BY <1>15, <1>16, Zenon DEF Lifecycle!FailAgain, life
<1> QED
  BY <1>3, <1>17

\* The DELETE of a burial shows nothing yet: the attempt is still running.
LEMMA RefineDelete ==
    ASSUME TypeInv, IInv, NEW w \in Workers, HoldsOrderly(w),
           DeadLetterDelete(w)
    PROVE  life' = life
<1>1. PICK id : id = held[w].id
  OBVIOUS
<1>2. pc[w] \in Busy /\ pc[w] # "bury"
  BY DEF DeadLetterDelete, Busy
<1>3. /\ id \in OrderlyIds /\ id \in TaskId /\ Running(id) /\ InQueue(id) /\ Holds(w, id)
      /\ taskQueue[id].attempts = held[w].attempts
      /\ taskQueue[id].max = held[w].max
      /\ deadLetter[id] = None /\ requeuing = None /\ OneHolder
  BY <1>1, <1>2, HeldFacts
  DEF CopyIsCurrent, Running, Holds, DeadLetterDelete, DatabaseFree, IInv,
      Exclusive
<1>4. /\ taskQueue'[id] = None
      /\ \A i \in TaskId : i # id => taskQueue'[i] = taskQueue[i]
      /\ UNCHANGED <<deadLetter, requeuing, held>>
  BY <1>1, <1>3 DEF DeadLetterDelete, TypeInv, TypeOK
<1>5. pc'[w] = "bury" /\ \A v \in Workers : v # w => pc'[v] = pc[v]
  BY DEF DeadLetterDelete, Goto, TypeInv, TypeOK
<1>6. LifeOf(id) = [stage |-> "running", attempts |-> held[w].attempts,
                    max |-> held[w].max]
  BY <1>3, LifeWhenQueued
<1>7. LifeOf(id)' = [stage |-> "running", attempts |-> held[w].attempts,
                     max |-> held[w].max]
  <2>1. Bury(id)' = {w}
    BY <1>3, <1>4, <1>5 DEF Bury, Holds, OneHolder
  <2>2. ~InQueue(id)' /\ deadLetter'[id] = None /\ requeuing' = None
    BY <1>3, <1>4 DEF InQueue
  <2>3. (pc[w] = "bury" /\ Holds(w, id))'
    BY <1>3, <1>4, <1>5 DEF Holds
  <2>4. w = CHOOSE v \in Bury(id)' : TRUE
    BY <2>1
  <2> QED
    BY <1>4, <2>2, <2>3, <2>4 DEF LifeOf
<1>8. \A i \in OrderlyIds : i # id => LifeOf(i)' = LifeOf(i)
  BY <1>1, <1>4, <1>5, LifeSame, OrderlyAreIds DEF Holds
<1> QED
  BY <1>6, <1>7, <1>8, LivesSame

LEMMA RefineInsert ==
    ASSUME TypeInv, IInv, NEW w \in Workers, HoldsOrderly(w), DeadLetterInsert(w)
    PROVE  \E id \in OrderlyIds : Lifecycle!GiveUp(id)
<1>1. PICK id : id = held[w].id
  OBVIOUS
<1>2. pc[w] = "bury" /\ pc[w] \in Busy
  BY DEF DeadLetterInsert, Busy
<1>3. /\ id \in OrderlyIds /\ id \in TaskId
      /\ held[w] \in Task /\ held[w] # None /\ Holds(w, id)
      /\ deadLetter[id] = None /\ ~(requeuing # None /\ requeuing.id = id)
      /\ ~InQueue(id) /\ OneHolder
  BY <1>1, <1>2, HeldFacts DEF Holds, IInv, Exclusive, OnePlace, InFlight
<1>4. PICK n : n = AttemptsNext(w)
  OBVIOUS
<1>5. n = held[w].attempts + 1 /\ n = held[w].max /\ n \in Nat
  BY <1>2, <1>3, <1>4 DEF AttemptsNext, Task, IInv, BuriedExhausted,
     HoldsOrderly
<1>6. PICK l : l = LifeOf(id)
  OBVIOUS
<1>7. l = [stage |-> "running", attempts |-> held[w].attempts,
           max |-> held[w].max]
  BY <1>2, <1>3, <1>6, LifeWhenBuried
<1>8. PICK d : d = [kind |-> held[w].kind, attempts |-> n, max |-> held[w].max]
  OBVIOUS
<1>9. d \in DeadRow
  BY <1>3, <1>5, <1>8 DEF Task, DeadRow
<1>10. /\ deadLetter'[id] = d
       /\ \A i \in TaskId : i # id => deadLetter'[i] = deadLetter[i]
       /\ UNCHANGED <<taskQueue, requeuing>>
  BY <1>1, <1>3, <1>4, <1>8 DEF DeadLetterInsert, TypeInv, TypeOK
<1>11. LifeOf(id)' = [stage |-> "dead", attempts |-> n, max |-> l.max]
  <2>1. deadLetter'[id] # None /\ ~InQueue(id)'
    BY <1>3, <1>9, <1>10, NoneAssumption DEF InQueue
  <2>2. d.attempts = n /\ d.max = l.max
    BY <1>7, <1>8
  <2> QED
    BY <1>10, <2>1, <2>2 DEF LifeOf
<1>12. \A i \in OrderlyIds : i # id => LifeOf(i)' = LifeOf(i)
  BY <1>1, <1>2, <1>10, OthersStandStill DEF DeadLetterInsert
<1>13. life' = [life EXCEPT ![id] =
                  [stage |-> "dead", attempts |-> n, max |-> l.max]]
  BY <1>3, <1>11, <1>12, OneLife
<1>14. life[id] = l /\ l.attempts + 1 = n
  <2>1. life[id] = l
    BY <1>3, <1>6 DEF life
  <2> QED
    BY <1>5, <1>7, <2>1
<1>15. life' = [life EXCEPT ![id].stage = "dead", ![id].attempts = @ + 1]
  <2>1. PICK q : q = [stage |-> "dead", attempts |-> held[w].attempts, max |-> l.max]
    OBVIOUS
  <2>2. PICK r : r = [stage |-> "dead", attempts |-> n, max |-> l.max]
    OBVIOUS
  <2>3. q = [l EXCEPT !.stage = "dead"]
    BY <1>7, <2>1
  <2>4. r = [q EXCEPT !.attempts = n]
    BY <2>1, <2>2
  <2>5. r = [l EXCEPT !.stage = "dead", !.attempts = @ + 1]
    BY <1>14, <2>3, <2>4
  <2>6. life' = [life EXCEPT ![id] =
                   [life[id] EXCEPT !.stage = "dead", !.attempts = @ + 1]]
    BY <1>13, <1>14, <2>2, <2>5
  <2> QED
    BY <2>6
<1>16. life[id].stage = "running" /\ life[id].attempts + 1 = life[id].max
  BY <1>5, <1>7, <1>14
<1>17. Lifecycle!GiveUp(id)
  BY <1>15, <1>16, Zenon DEF Lifecycle!GiveUp, life
<1> QED
  BY <1>3, <1>17

\* The DELETE of a requeue shows nothing yet: the task is still dead.
LEMMA RefineRequeueDelete ==
    ASSUME TypeInv, IInv, NEW id \in OrderlyIds, RequeueDelete(id)
    PROVE  life' = life
<1> id \in TaskId
  BY OrderlyAreIds
<1>1. /\ deadLetter[id] # None /\ deadLetter[id] \in DeadRow /\ ~InQueue(id)
      /\ deadLetter[id].attempts = deadLetter[id].max
      /\ requeuing = None /\ \A w \in Workers : pc[w] # "bury"
  BY DEF RequeueDelete, DatabaseFree, TypeInv, TypeOK, IInv, OnePlace,
     AttemptsEnforced, AttemptsCounted
<1>2. PICK r : r = [id |-> id, kind |-> deadLetter[id].kind,
                    max |-> deadLetter[id].max, at |-> now]
  OBVIOUS
<1>3. r \in Requeued
  BY <1>1, <1>2 DEF Requeued, DeadRow, TypeInv, TypeOK
<1>4. /\ deadLetter'[id] = None /\ requeuing' = r
      /\ \A i \in TaskId : i # id => deadLetter'[i] = deadLetter[i]
      /\ UNCHANGED <<taskQueue, pc, held>>
  BY <1>2 DEF RequeueDelete, TypeInv, TypeOK, workers
<1>5. LifeOf(id) = [stage |-> "dead", attempts |-> deadLetter[id].max,
                    max |-> deadLetter[id].max]
  BY <1>1 DEF LifeOf
<1>6. LifeOf(id)' = [stage |-> "dead", attempts |-> deadLetter[id].max,
                     max |-> deadLetter[id].max]
  <2>1. /\ requeuing' # None /\ requeuing'.id = id
        /\ requeuing'.max = deadLetter[id].max
    BY <1>2, <1>3, <1>4, NoneAssumption
  <2>2. ~InQueue(id)'
    BY <1>1, <1>4 DEF InQueue
  <2> QED
    BY <1>4, <2>1, <2>2 DEF LifeOf
<1>7. \A i \in OrderlyIds : i # id => LifeOf(i)' = LifeOf(i)
  <2>1. requeuing'.id = id
    BY <1>2, <1>4
  <2> QED
    BY <1>1, <1>4, <2>1, LifeSame, OrderlyAreIds
<1> QED
  BY <1>5, <1>6, <1>7, LivesSame

LEMMA RefineRequeueInsert ==
    ASSUME TypeInv, IInv, RequeueInsert, requeuing.id \in OrderlyIds
    PROVE  \E id \in OrderlyIds : Lifecycle!Reopen(id)
<1>1. PICK id : id = requeuing.id
  OBVIOUS
<1>2. PICK m : m = requeuing.max
  OBVIOUS
<1>3. /\ requeuing # None /\ requeuing \in Requeued
      /\ id \in OrderlyIds /\ id \in TaskId
      /\ ~InQueue(id) /\ deadLetter[id] = None
  BY <1>1
  DEF RequeueInsert, Requeued, TypeInv, TypeOK, IInv, OnePlace, InFlight
<1>4. PICK l : l = LifeOf(id)
  OBVIOUS
<1>5. l = [stage |-> "dead", attempts |-> m, max |-> m]
  BY <1>1, <1>2, <1>3, <1>4 DEF LifeOf
<1>6. PICK row : row = NewRow(requeuing.kind, requeuing.max, requeuing.at)
  OBVIOUS
<1>7. /\ row \in Row /\ row.status = "pending" /\ row.attempts = 0
      /\ row.max = m
  BY <1>2, <1>3, <1>6, RequeuedRowType DEF NewRow
<1>8. /\ taskQueue'[id] = row /\ requeuing' = None
      /\ \A i \in TaskId : i # id => taskQueue'[i] = taskQueue[i]
      /\ UNCHANGED <<deadLetter, pc, held>>
  BY <1>1, <1>3, <1>6 DEF RequeueInsert, TypeInv, TypeOK, workers
<1>9. LifeOf(id)' = [stage |-> "waiting", attempts |-> 0, max |-> m]
  <2>1. InQueue(id)' /\ ~Running(id)'
    BY <1>7, <1>8, NoneAssumption DEF InQueue, Running
  <2> QED
    BY <1>7, <1>8, <2>1 DEF LifeOf
<1>10. \A i \in OrderlyIds : i # id => LifeOf(i)' = LifeOf(i)
  BY <1>1, <1>8, LifeSame, OrderlyAreIds
<1>11. life' = [life EXCEPT ![id] =
                  [stage |-> "waiting", attempts |-> 0, max |-> m]]
  BY <1>3, <1>9, <1>10, OneLife
<1>12. life[id] = l
  BY <1>3, <1>4 DEF life
<1>13. life' = [life EXCEPT ![id].stage = "waiting", ![id].attempts = 0]
  <2>1. PICK q : q = [stage |-> "waiting", attempts |-> m, max |-> m]
    OBVIOUS
  <2>2. PICK r : r = [stage |-> "waiting", attempts |-> 0, max |-> m]
    OBVIOUS
  <2>3. q = [l EXCEPT !.stage = "waiting"]
    BY <1>5, <2>1
  <2>4. r = [q EXCEPT !.attempts = 0]
    BY <2>1, <2>2
  <2>5. r = [l EXCEPT !.stage = "waiting", !.attempts = 0]
    BY <2>3, <2>4
  <2>6. life' = [life EXCEPT ![id] =
                   [life[id] EXCEPT !.stage = "waiting", !.attempts = 0]]
    BY <1>11, <1>12, <2>2, <2>5
  <2> QED
    BY <2>6
<1>14. life[id].stage = "dead"
  BY <1>5, <1>12
<1>15. Lifecycle!Reopen(id)
  BY <1>13, <1>14, Zenon DEF Lifecycle!Reopen, life
<1> QED
  BY <1>3, <1>15

\* What a worker does to a task whose id is reused.
LEMMA RefineStranger ==
    ASSUME TypeInv, IInv, NEW w \in Workers, ~HoldsOrderly(w),
           \/ Complete(w) \/ Retry(w) \/ DeadLetterDelete(w)
           \/ DeadLetterInsert(w)
    PROVE  life' = life
<1>1. held[w] # None /\ held[w].id \in TaskId /\ held[w].id \notin OrderlyIds
  BY HeldType
  DEF Complete, Retry, DeadLetterDelete, DeadLetterInsert, Busy, Task,
      HoldsOrderly
<1>2. \A id \in OrderlyIds : /\ taskQueue'[id] = taskQueue[id]
                             /\ deadLetter'[id] = deadLetter[id]
  BY <1>1, OrderlyAreIds
  DEF Complete, Retry, DeadLetterDelete, DeadLetterInsert, TypeInv, TypeOK
<1>3. \A v \in Workers :
         \/ held'[v] = held[v] /\ (pc'[v] = "bury" <=> pc[v] = "bury")
         \/ ~HoldsOrderly(v) /\ ~HoldsOrderly(v)'
  <2>1. CASE EndCycle(w)
    BY <2>1, EndCycleLetsGo DEF HoldsOrderly
  <2>2. CASE DeadLetterDelete(w)
    BY <2>2 DEF DeadLetterDelete, Goto, HoldsOrderly, TypeInv, TypeOK
  <2> QED
    BY <2>1, <2>2 DEF Complete, Retry, DeadLetterInsert
<1>4. UNCHANGED requeuing
  BY DEF Complete, Retry, DeadLetterDelete, DeadLetterInsert
<1> QED
  BY <1>2, <1>3, <1>4, StrangerLife

\* Every step of the program is a step of the lifecycle or none at all.
LEMMA RefineStep ==
    ASSUME NoFaults, TypeInv, IInv, [Next]_vars
    PROVE  Lifecycle!Next \/ life' = life
<1>1. ASSUME NEW ids \in SUBSET TaskId, Fresh(ids),
             NEW kind \in Kinds, NEW max \in MaxAttempts, max > 0,
             NEW avail \in Instant, Submit(ids, NewRow(kind, max, avail)),
             UNCHANGED <<deadLetter, requeuing, held>>,
             \A w \in Workers : pc'[w] = "bury" <=> pc[w] = "bury"
      PROVE  Lifecycle!Next \/ life' = life
  <2>1. PICK mine \in SUBSET OrderlyIds : mine = ids \cap OrderlyIds
    OBVIOUS
  <2>2. CASE mine = {}
    <3>1. \A id \in OrderlyIds : taskQueue'[id] = taskQueue[id]
      BY <1>1, <2>1, <2>2, OrderlyAreIds DEF Submit
    <3> QED
      BY <1>1, <3>1, StrangerLife
  <2>3. CASE mine # {}
    <3>1. Lifecycle!Accept(mine)
      BY <1>1, <2>1, RefineSubmit
    <3> QED
      BY <2>3, <3>1 DEF Lifecycle!Next
  <2> QED
    BY <2>2, <2>3
<1>2. ASSUME NEW id \in ClientIds, Fresh({id}), Enqueue(id)
      PROVE  Lifecycle!Next \/ life' = life
  <2>1. PICK kind \in Kinds, max \in MaxAttempts, lag \in 0..MaxLag :
           max > 0 /\ lag <= now /\ Submit({id}, NewRow(kind, max, now - lag))
    BY <1>2 DEF Enqueue
  <2>2. now - lag \in Instant
    BY <2>1, U64MaxAssumption, QueueAssumption DEF TypeInv, TypeOK, Instant
  <2>3. {id} \in SUBSET TaskId
    BY DEF TaskId
  <2>4. UNCHANGED <<deadLetter, requeuing, held, pc>>
    BY <1>2 DEF Enqueue, workers
  <2> QED
    BY <1>1, <1>2, <2>1, <2>2, <2>3, <2>4
<1>3. ASSUME NEW w \in Workers, NEW due \in SUBSET ScheduledIds, Fresh(due),
             SchedulerTick(w, due)
      PROVE  Lifecycle!Next \/ life' = life
  <2>1. /\ UNCHANGED <<deadLetter, requeuing, held>>
        /\ \A v \in Workers : pc'[v] = "bury" <=> pc[v] = "bury"
    BY <1>3 DEF SchedulerTick, Goto, TypeInv, TypeOK
  <2>2. CASE due = {}
    <3>1. UNCHANGED taskQueue
      BY <1>3, <2>2 DEF SchedulerTick
    <3> QED
      BY <2>1, <3>1, StrangerLife
  <2>3. CASE due # {}
    <3>1. PICK kind \in Kinds, max \in MaxAttempts :
             max > 0 /\ Submit(due, NewRow(kind, max, cycleNow[w]))
      BY <1>3, <2>3 DEF SchedulerTick
    <3>2. cycleNow[w] \in Instant /\ due \in SUBSET TaskId
      BY DEF TypeInv, TypeOK, TaskId
    <3> QED
      BY <1>1, <1>3, <2>1, <3>1, <3>2
  <2> QED
    BY <2>2, <2>3
<1>4. ASSUME NEW w \in Workers, TaskStep(w)
      PROVE  Lifecycle!Next \/ life' = life
  <2>1. CASE NothingDue(w)
    <3>1. /\ \A v \in Workers : v # w => held'[v] = held[v] /\ pc'[v] = pc[v]
          /\ pc[w] # "bury" /\ pc'[w] # "bury"
      BY <2>1, EndCycleLetsGo DEF NothingDue
    <3> QED
      BY <2>1, <3>1, StrangerLife DEF NothingDue, tables
  <2>2. CASE Execute(w)
    <3>1. PICK outcome \in {"ok", "failed"} : pc' = [pc EXCEPT ![w] = outcome]
      BY <2>2 DEF Execute, Outcomes, Goto
    <3>2. \A v \in Workers : pc'[v] = "bury" <=> pc[v] = "bury"
      BY <2>2, <3>1 DEF Execute, TypeInv, TypeOK
    <3> QED
      BY <2>2, <3>2, StrangerLife DEF Execute, tables
  <2>3. CASE Claim(w)
    BY <2>3, RefineClaim DEF Lifecycle!Next
  <2>4. CASE \/ Complete(w) \/ Retry(w) \/ DeadLetterDelete(w)
             \/ DeadLetterInsert(w)
    <3>1. CASE HoldsOrderly(w)
      BY <2>4, <3>1, RefineComplete, RefineRetry, RefineDelete, RefineInsert
      DEF Lifecycle!Next, Lifecycle!Finish
    <3>2. CASE ~HoldsOrderly(w)
      BY <2>4, <3>2, RefineStranger
    <3> QED
      BY <3>1, <3>2
  <2> QED
    BY <1>4, <2>1, <2>2, <2>3, <2>4 DEF TaskStep
<1>5. CASE OtherStep
  <2>1. faults' # faults + 1
    <3>1. faults \in Nat /\ faults' = faults
      BY NoFaultStep DEF TypeInv, TypeOK
    <3> QED
      BY <3>1
  <2>2. ASSUME NEW w \in Workers, BeginCycle(w) PROVE life' = life
    <3>1. \A v \in Workers : pc'[v] = "bury" <=> pc[v] = "bury"
      BY <2>2 DEF BeginCycle, Goto, TypeInv, TypeOK
    <3> QED
      BY <2>2, <3>1, StrangerLife DEF BeginCycle, tables
  <2>3. CASE Tick
    BY <2>3, StrangerLife DEF Tick, tables, workers
  <2>4. ASSUME NEW id \in TaskId, RequeueDelete(id) PROVE life' = life
    <3>1. CASE id \in OrderlyIds
      BY <2>4, <3>1, RefineRequeueDelete
    <3>2. CASE id \notin OrderlyIds
      BY <2>4, <3>2, OrderlyAreIds, StrangerLife
      DEF RequeueDelete, DatabaseFree, TypeInv, TypeOK, workers
    <3> QED
      BY <3>1, <3>2
  <2>5. CASE RequeueInsert
    <3>1. CASE requeuing.id \in OrderlyIds
      BY <2>5, <3>1, RefineRequeueInsert DEF Lifecycle!Next
    <3>2. CASE requeuing.id \notin OrderlyIds
      BY <2>5, <3>2, OrderlyAreIds, StrangerLife
      DEF RequeueInsert, TypeInv, TypeOK, workers
    <3> QED
      BY <3>1, <3>2
  <2> QED
    BY <1>5, <2>1, <2>2, <2>3, <2>4, <2>5
    DEF OtherStep, Crash, StatementError, RequeueError, Suffer
<1>6. CASE UNCHANGED vars
  BY <1>6, StrangerLife DEF vars, tables, workers
<1> QED
  BY <1>2, <1>3, <1>4, <1>5, <1>6 DEF Next, AnySchedulerTick

\* The queue implements the life of a task that TaskLifecycle states: without
\* faults nothing the tables and threads do to a task of an orderly id is
\* anything but being accepted, started, completed, failed, given up or
\* reopened, and what takes two statements shows as one step.
THEOREM ImplementsLifecycle ==
    ASSUME NoFaults
    PROVE  Spec => Lifecycle!Spec
<1>1. TypeInv /\ IInv /\ [Next]_vars => [Lifecycle!Next]_life
  BY RefineStep
<1> QED
  BY SafetyInvariant, RefineInit, <1>1, PTL
  DEF Spec, Lifecycle!Spec, life

-----------------------------------------------------------------------------
(* What the life of a task promises.                                       *)

\* AttemptsBounded of a given life.
Bounded(l) ==
    /\ l \in [OrderlyIds -> Lifecycle!Life]
    /\ \A id \in OrderlyIds :
          /\ l[id].stage \in {"waiting", "running"} => l[id].attempts < l[id].max
          /\ l[id].stage = "dead" => l[id].max > 0 /\ l[id].attempts = l[id].max

LEMMA BoundedInit == Lifecycle!Init => Bounded(life)
BY DEF Lifecycle!Init, Lifecycle!Absent, Lifecycle!Life, Bounded, life

\* A step of the lifecycle, told of the life before and the life after.
LEMMA BoundedStep ==
    ASSUME NEW l, NEW m, Bounded(l), l = life, m = life',
           Lifecycle!Next \/ m = l
    PROVE  Bounded(m)
<1>1. ASSUME NEW ids \in SUBSET OrderlyIds, Lifecycle!Accept(ids) PROVE Bounded(m)
  <2>1. PICK max \in MaxAttempts \ {0} :
          m = [id \in OrderlyIds |->
                 IF id \in ids THEN [stage |-> "waiting", attempts |-> 0, max |-> max]
                 ELSE l[id]]
    BY <1>1 DEF Lifecycle!Accept, life
  <2>2. max \in Nat /\ 0 < max
    BY <2>1, QueueAssumption
  <2> QED
    BY <2>1, <2>2 DEF Bounded, Lifecycle!Life
<1>2. ASSUME NEW id \in OrderlyIds, Lifecycle!Start(id) PROVE Bounded(m)
  <2>1. l[id].stage = "waiting" /\ m = [l EXCEPT ![id].stage = "running"]
    BY <1>2 DEF Lifecycle!Start, life
  <2> QED
    BY <2>1 DEF Bounded, Lifecycle!Life
<1>3. ASSUME NEW id \in OrderlyIds, Lifecycle!Succeed(id) PROVE Bounded(m)
  <2>1. m = [l EXCEPT ![id] = Lifecycle!Absent]
    BY <1>3 DEF Lifecycle!Succeed, life
  <2> QED
    BY <2>1 DEF Bounded, Lifecycle!Life, Lifecycle!Absent
<1>4. ASSUME NEW id \in OrderlyIds, Lifecycle!FailAgain(id) PROVE Bounded(m)
  <2>1. /\ l[id].attempts + 1 < l[id].max
        /\ m = [l EXCEPT ![id].stage = "waiting", ![id].attempts = @ + 1]
    BY <1>4 DEF Lifecycle!FailAgain, life
  <2> QED
    BY <2>1 DEF Bounded, Lifecycle!Life
<1>5. ASSUME NEW id \in OrderlyIds, Lifecycle!GiveUp(id) PROVE Bounded(m)
  <2>1. /\ l[id].stage = "running" /\ l[id].attempts + 1 = l[id].max
        /\ m = [l EXCEPT ![id].stage = "dead", ![id].attempts = @ + 1]
    BY <1>5 DEF Lifecycle!GiveUp, life
  <2> QED
    BY <2>1 DEF Bounded, Lifecycle!Life
<1>6. ASSUME NEW id \in OrderlyIds, Lifecycle!Reopen(id) PROVE Bounded(m)
  <2>1. /\ l[id].stage = "dead"
        /\ m = [l EXCEPT ![id].stage = "waiting", ![id].attempts = 0]
    BY <1>6 DEF Lifecycle!Reopen, life
  <2> QED
    BY <2>1 DEF Bounded, Lifecycle!Life
<1> QED
  BY <1>1, <1>2, <1>3, <1>4, <1>5, <1>6 DEF Lifecycle!Next, Lifecycle!Finish

\* Max-attempt enforcement, as those who submit tasks see it: a task still in
\* play has an attempt left; a dead one has none, and was attempted at least
\* once.
THEOREM AttemptsBoundedHolds ==
    ASSUME NoFaults
    PROVE  Spec => []Lifecycle!AttemptsBounded
<1>1. Bounded(life) /\ [Lifecycle!Next]_life => Bounded(life)'
  <2> SUFFICES ASSUME Bounded(life), Lifecycle!Next \/ life' = life
               PROVE  Bounded(life)'
    OBVIOUS
  <2>1. PICK l, m : l = life /\ m = life'
    OBVIOUS
  <2>2. Bounded(m)
    BY <2>1, BoundedStep
  <2> QED
    BY <2>1, <2>2 DEF Bounded, Lifecycle!Life
<1>2. Bounded(life) => Lifecycle!AttemptsBounded
  BY DEF Bounded, Lifecycle!AttemptsBounded, life
<1>3. TypeInv /\ IInv /\ [Next]_vars => [Lifecycle!Next]_life
  BY RefineStep
<1>4. Init => Bounded(life)
  BY RefineInit, BoundedInit
<1> QED
  BY SafetyInvariant, <1>1, <1>2, <1>3, <1>4, PTL DEF Spec
=============================================================================
