----------------------------- MODULE TaskQueue -----------------------------
(***************************************************************************)
(* The persistent task queue (crates/ultra-core/src/persistence/mod.rs)    *)
(* and the workers and HTTP handlers that drive it (app.rs): submission,   *)
(* scheduling, claiming, execution, retry with backoff, dead letter and    *)
(* requeue, under crashes of the process and failing SQL statements.       *)
(*                                                                         *)
(* All threads share one SQLite connection behind one mutex.  A step below *)
(* is what one thread does in one autocommitted statement or transaction;  *)
(* the mutex is held between two steps only in the two operations that     *)
(* are a DELETE followed by an INSERT outside a transaction (fail_task and *)
(* requeue_dead_letter), which is where a crash can come between.          *)
(***************************************************************************)
EXTENDS Autonomy, FiniteSets

CONSTANTS
    ClientIds,      \* task ids that HTTP clients and webhooks submit
    ScheduledIds,   \* ids "sched-<job>-<instant>" the scheduler makes up
    PoolWorkers,    \* the threads of start_worker_pool
    TickCallers,    \* callers of POST /queue/worker-tick
    Kinds,          \* the kinds of task submitted, a subset of Kind
    MaxAttempts,    \* the max_attempts values requests ask for
    BaseDelay,      \* retry_base_delay_seconds
    JitterSeconds,  \* retry_jitter_seconds
    OrderlyIds,     \* the ids nobody submits again while a task has them
    MaxNow,         \* bound: how far the clock runs
    MaxLag,         \* bound: seconds a handler waits for the mutex
    Faults,         \* the faults that may happen, a subset of Fault
    MaxFaults,      \* bound: number of faults
    MaxRequests,    \* bound: number of submissions and requeues
    None            \* no row, no task

\* What a worker does with a payload: bridge.reply tasks are sent and may
\* fail; the others fail when the payload contains "fail" and succeed if not.
Kind == {"plain", "failing", "reply"}

Fault == {"crash", "error"}

TaskId == ClientIds \cup ScheduledIds
Workers == PoolWorkers \cup TickCallers
Instant == 0..U64Max

ASSUME QueueAssumption ==
    /\ Kinds \subseteq Kind
    /\ MaxAttempts \subseteq Nat
    /\ OrderlyIds \subseteq TaskId
    /\ BaseDelay \in Nat /\ JitterSeconds \in Nat /\ MaxLag \in Nat
    /\ MaxNow \in Instant
    /\ Faults \subseteq Fault
    /\ MaxFaults \in Nat /\ MaxRequests \in Nat

\* A row of task_queue.  created_at, the second sort key of a claim, is left
\* out: rows available at the same instant are claimed in any order.
Row == [kind : Kind, status : {"pending", "retry", "running"},
        attempts : Nat, max : Nat, avail : Column]

\* The TaskItem a worker carries from its claim to the end of its cycle.
Task == [id : TaskId, kind : Kind, attempts : Nat, max : Nat]

DeadRow == [kind : Kind, attempts : Nat, max : Nat]

\* A requeue_dead_letter between its DELETE and its INSERT.
Requeued == [id : TaskId, kind : Kind, max : Nat, at : Instant]

ASSUME NoneAssumption ==
    None \notin (Row \cup Task \cup DeadRow \cup Requeued)

VARIABLES
    now,          \* the wall clock, in seconds
    taskQueue,    \* table task_queue, by id
    deadLetter,   \* table dead_letter_queue, by task_id
    pc,           \* where each worker is in run_single_worker_cycle
    cycleNow,     \* the instant each worker read when its cycle began
    held,         \* the task each worker has claimed
    requeuing,    \* the requeue under way
    faults,       \* faults so far
    requests,     \* submissions and requeues so far
    tries,        \* history: claims of a task since it was last queued afresh
    owed          \* history: tasks accepted and not completed

tables == <<taskQueue, deadLetter>>
workers == <<pc, cycleNow, held>>
history == <<tries, owed>>
vars == <<now, tables, workers, requeuing, faults, requests, history>>

InQueue(id) == taskQueue[id] # None
Waiting(id) == InQueue(id) /\ taskQueue[id].status # "running"
Running(id) == InQueue(id) /\ taskQueue[id].status = "running"

Holds(w, id) == held[w] # None /\ held[w].id = id

\* The task is in the program's hands: some table, worker or handler has it.
Live(id) ==
    \/ InQueue(id)
    \/ deadLetter[id] # None
    \/ \E w \in Workers : Holds(w, id)
    \/ requeuing # None /\ requeuing.id = id

\* Faulty variant: fail_task's two statements each lock the store by themselves.
DatabaseFreeWhileBurying == requeuing = None

\* Nobody is between the two statements of a DELETE-then-INSERT.
DatabaseFree == requeuing = None /\ \A w \in Workers : pc[w] # "bury"

Init ==
    /\ now = 0
    /\ taskQueue = [id \in TaskId |-> None]
    /\ deadLetter = [id \in TaskId |-> None]
    /\ pc = [w \in Workers |-> "sleep"]
    /\ cycleNow = [w \in Workers |-> 0]
    /\ held = [w \in Workers |-> None]
    /\ requeuing = None
    /\ faults = 0
    /\ requests = 0
    /\ tries = [id \in TaskId |-> 0]
    /\ owed = {}

Tick ==
    /\ now < MaxNow
    /\ now' = now + 1
    /\ UNCHANGED <<tables, workers, requeuing, faults, requests, history>>

-----------------------------------------------------------------------------
(* Submission.                                                             *)

NewRow(kind, max, avail) ==
    [kind |-> kind, status |-> "pending", attempts |-> 0, max |-> max,
     avail |-> ToI64(avail)]

\* enqueue_task is INSERT OR REPLACE: a row with the same id, waiting or
\* running, is overwritten.
Submit(ids, row) ==
    /\ DatabaseFree
    /\ requests < MaxRequests
    /\ requests' = requests + 1
    /\ taskQueue' = [id \in TaskId |-> IF id \in ids THEN row
                                                     ELSE taskQueue[id]]
    /\ tries' = [id \in TaskId |-> IF id \in ids THEN 0 ELSE tries[id]]
    /\ owed' = owed \cup ids

\* queue_enqueue and the webhook handlers.  available_at is read before the
\* wait for the mutex.
Enqueue(id) ==
    \E kind \in Kinds, max \in MaxAttempts, lag \in 0..MaxLag :
        /\ max > 0
        /\ lag <= now
        /\ Submit({id}, NewRow(kind, max, now - lag))
        /\ UNCHANGED <<now, deadLetter, workers, requeuing, faults>>

-----------------------------------------------------------------------------
(* One cycle of a worker (run_single_worker_cycle).                        *)

Goto(w, label) == pc' = [pc EXCEPT ![w] = label]

\* The cycle is over: the worker sleeps and its locals are gone.
EndCycle(w) ==
    /\ Goto(w, "sleep")
    /\ cycleNow' = [cycleNow EXCEPT ![w] = 0]
    /\ held' = [held EXCEPT ![w] = None]

BeginCycle(w) ==
    /\ pc[w] = "sleep"
    /\ Goto(w, "tick")
    /\ cycleNow' = [cycleNow EXCEPT ![w] = now]
    /\ UNCHANGED <<now, tables, held, requeuing, faults, requests, history>>

\* run_scheduler_tick: every job that is due submits a task.
SchedulerTick(w, due) ==
    /\ pc[w] = "tick"
    /\ DatabaseFree
    /\ Goto(w, "claim")
    /\ IF due = {}
       THEN UNCHANGED <<taskQueue, requests, history>>
       ELSE \E kind \in Kinds, max \in MaxAttempts :
                /\ max > 0
                /\ Submit(due, NewRow(kind, max, cycleNow[w]))
    /\ UNCHANGED <<now, deadLetter, cycleNow, held, requeuing, faults>>

\* Faulty variants, to see that the properties notice: a WHERE clause
\* without the status, and one that forgets 'retry'.
DueWhateverStatus(t) ==
    {id \in TaskId : InQueue(id) /\ taskQueue[id].avail <= ToI64(t)}

DueOnlyPending(t) ==
    {id \in TaskId : /\ InQueue(id) /\ taskQueue[id].status = "pending"
                     /\ taskQueue[id].avail <= ToI64(t)}

Due(t) ==
    {id \in TaskId : Waiting(id) /\ taskQueue[id].avail <= ToI64(t)}

FirstDue(t) == {id \in Due(t) :
                  \A other \in Due(t) :
                      taskQueue[id].avail <= taskQueue[other].avail}

\* claim_due_task: SELECT and UPDATE in one transaction.
Claim(w) ==
    /\ pc[w] = "claim"
    /\ DatabaseFree
    /\ \E id \in FirstDue(cycleNow[w]) :
          /\ taskQueue' = [taskQueue EXCEPT ![id].status = "running"]
          /\ held' = [held EXCEPT ![w] =
                        [id |-> id, kind |-> taskQueue[id].kind,
                         attempts |-> taskQueue[id].attempts,
                         max |-> taskQueue[id].max]]
          /\ tries' = [tries EXCEPT ![id] = @ + 1]
    /\ Goto(w, "run")
    /\ UNCHANGED <<now, deadLetter, cycleNow, requeuing, faults, requests,
                   owed>>

NothingDue(w) ==
    /\ pc[w] = "claim"
    /\ DatabaseFree
    /\ Due(cycleNow[w]) = {}
    /\ EndCycle(w)
    /\ UNCHANGED <<now, tables, requeuing, faults, requests, history>>

Outcomes(kind) ==
    {o \in {"ok", "failed"} : /\ kind = "plain" => o = "ok"
                              /\ kind = "failing" => o = "failed"}

Execute(w) ==
    /\ pc[w] = "run"
    /\ \E outcome \in Outcomes(held[w].kind) : Goto(w, outcome)
    /\ UNCHANGED <<now, tables, cycleNow, held, requeuing, faults, requests,
                   history>>

\* Faulty variant: the DELETE is forgotten.
CompleteKeepsRow(w) ==
    /\ pc[w] = "ok"
    /\ DatabaseFree
    /\ owed' = owed \ {held[w].id}
    /\ EndCycle(w)
    /\ UNCHANGED <<now, tables, requeuing, faults, requests, tries>>

\* complete_task: the DELETE is by id, whatever the row now says.
Complete(w) ==
    /\ pc[w] = "ok"
    /\ DatabaseFree
    /\ taskQueue' = [taskQueue EXCEPT ![held[w].id] = None]
    /\ owed' = owed \ {held[w].id}
    /\ EndCycle(w)
    /\ UNCHANGED <<now, deadLetter, requeuing, faults, requests, tries>>

-----------------------------------------------------------------------------
(* fail_task: a later retry, or the dead letter when the attempts are      *)
(* exhausted.  Counts and delays come from the worker's copy of the task   *)
(* and from the instant its cycle began.                                   *)

AttemptsNext(w) == held[w].attempts + 1
\* Faulty variant: one attempt too many.
ExhaustedLate(w) == AttemptsNext(w) > held[w].max

Exhausted(w) == AttemptsNext(w) >= held[w].max

\* Faulty variant: the u64 as it is.
RetryAtUncast(w) ==
    SatAdd(cycleNow[w], ComputeRetryDelay(AttemptsNext(w), BaseDelay,
                                          JitterSeconds, cycleNow[w]))

\* An instant past i64 is stored as a negative number, which is due at once.
RetryAt(w) ==
    ToI64(SatAdd(cycleNow[w], ComputeRetryDelay(AttemptsNext(w), BaseDelay,
                                                JitterSeconds, cycleNow[w])))

\* The UPDATE touches no row when the id has left the queue.
Retry(w) ==
    /\ pc[w] = "failed"
    /\ DatabaseFree
    /\ ~Exhausted(w)
    /\ taskQueue' = [id \in TaskId |->
                        IF id = held[w].id /\ InQueue(id)
                        THEN [taskQueue[id] EXCEPT !.status = "retry",
                                                   !.attempts = AttemptsNext(w),
                                                   !.avail = RetryAt(w)]
                        ELSE taskQueue[id]]
    /\ EndCycle(w)
    /\ UNCHANGED <<now, deadLetter, requeuing, faults, requests, history>>

\* Faulty variants: a burial that leaves the row, and one that ends with the
\* DELETE.
DeadLetterKeepsRow(w) ==
    /\ pc[w] = "failed"
    /\ DatabaseFree
    /\ Exhausted(w)
    /\ Goto(w, "bury")
    /\ UNCHANGED <<now, tables, cycleNow, held, requeuing, faults, requests,
                   history>>

DeadLetterDropsTask(w) ==
    /\ pc[w] = "failed"
    /\ DatabaseFree
    /\ Exhausted(w)
    /\ taskQueue' = [taskQueue EXCEPT ![held[w].id] = None]
    /\ EndCycle(w)
    /\ UNCHANGED <<now, deadLetter, requeuing, faults, requests, history>>

DeadLetterDelete(w) ==
    /\ pc[w] = "failed"
    /\ DatabaseFree
    /\ Exhausted(w)
    /\ taskQueue' = [taskQueue EXCEPT ![held[w].id] = None]
    /\ Goto(w, "bury")
    /\ UNCHANGED <<now, deadLetter, cycleNow, held, requeuing, faults,
                   requests, history>>

DeadLetterInsert(w) ==
    /\ pc[w] = "bury"
    /\ deadLetter' = [deadLetter EXCEPT ![held[w].id] =
                        [kind |-> held[w].kind, attempts |-> AttemptsNext(w),
                         max |-> held[w].max]]
    /\ EndCycle(w)
    /\ UNCHANGED <<now, taskQueue, requeuing, faults, requests, history>>

-----------------------------------------------------------------------------
(* requeue_dead_letter (POST /queue/requeue).                              *)

RequeueDelete(id) ==
    /\ DatabaseFree
    /\ deadLetter[id] # None
    /\ requests < MaxRequests
    /\ requests' = requests + 1
    /\ deadLetter' = [deadLetter EXCEPT ![id] = None]
    /\ requeuing' = [id |-> id, kind |-> deadLetter[id].kind,
                     max |-> deadLetter[id].max, at |-> now]
    /\ UNCHANGED <<now, taskQueue, workers, faults, history>>

RequeueInsert ==
    /\ requeuing # None
    /\ taskQueue' = [taskQueue EXCEPT ![requeuing.id] =
                        NewRow(requeuing.kind, requeuing.max, requeuing.at)]
    /\ tries' = [tries EXCEPT ![requeuing.id] = 0]
    /\ requeuing' = None
    /\ UNCHANGED <<now, deadLetter, workers, faults, requests, owed>>

-----------------------------------------------------------------------------
(* Faults.                                                                 *)

Suffer(fault) ==
    /\ fault \in Faults
    /\ faults < MaxFaults
    /\ faults' = faults + 1

\* The process dies and is restarted (systemd, Restart=always): threads and
\* handlers are gone, the tables stay as they were committed.
Crash ==
    /\ Suffer("crash")
    /\ pc' = [w \in Workers |-> "sleep"]
    /\ cycleNow' = [w \in Workers |-> 0]
    /\ held' = [w \in Workers |-> None]
    /\ requeuing' = None
    /\ UNCHANGED <<now, tables, requests, history>>

\* A worker's SQL statement returns an error.  The scheduler's is discarded;
\* every other one is at most logged, and the cycle ends.
StatementError(w) ==
    /\ Suffer("error")
    /\ DatabaseFree \/ pc[w] = "bury"
    /\ \/ pc[w] = "tick" /\ Goto(w, "claim") /\ UNCHANGED <<cycleNow, held>>
       \/ pc[w] \in {"claim", "ok", "failed", "bury"} /\ EndCycle(w)
    /\ UNCHANGED <<now, tables, requeuing, requests, history>>

\* The INSERT of a requeue returns an error, which the caller is told.
RequeueError ==
    /\ Suffer("error")
    /\ requeuing # None
    /\ requeuing' = None
    /\ UNCHANGED <<now, tables, workers, requests, history>>

-----------------------------------------------------------------------------
(***************************************************************************)
(* What submitters do.  Nothing in the code keeps them from submitting an  *)
(* id again while a task with this id is queued, running, dead or on its   *)
(* way.  OrderlyIds names the ids of which they do not, the assumption     *)
(* most properties below need of an id they speak of, and of no other: a   *)
(* reused id harms only the tasks that share it.                           *)
(***************************************************************************)
Fresh(ids) == \A id \in ids \cap OrderlyIds : ~Live(id)

AnySchedulerTick(w) ==
    \E due \in SUBSET ScheduledIds : Fresh(due) /\ SchedulerTick(w, due)

TaskStep(w) ==
    \/ Claim(w)
    \/ NothingDue(w)
    \/ Execute(w)
    \/ Complete(w)
    \/ Retry(w)
    \/ DeadLetterDelete(w)
    \/ DeadLetterInsert(w)

OtherStep ==
    \/ Tick
    \/ \E w \in Workers : BeginCycle(w)
    \/ \E id \in TaskId : RequeueDelete(id)
    \/ RequeueInsert
    \/ Crash
    \/ \E w \in Workers : StatementError(w)
    \/ RequeueError

Next ==
    \/ \E id \in ClientIds : Fresh({id}) /\ Enqueue(id)
    \/ \E w \in Workers : AnySchedulerTick(w) \/ TaskStep(w)
    \/ OtherStep

Spec == Init /\ [][Next]_vars

(***************************************************************************)
(* A pool thread loops for ever; a cycle or a requeue, once begun, runs to *)
(* its end.  Nobody has to call POST /queue/worker-tick.  Weak fairness is *)
(* enough for the waits for the mutex, which is released after every       *)
(* operation and is contended finitely often (MaxRequests).                *)
(***************************************************************************)
Fairness ==
    /\ WF_vars(Tick)
    /\ \A w \in PoolWorkers : WF_vars(BeginCycle(w))
    /\ \A w \in Workers : WF_vars(AnySchedulerTick(w) \/ TaskStep(w))
    /\ WF_vars(RequeueInsert)

FairSpec == Spec /\ Fairness

-----------------------------------------------------------------------------
(* Properties.                                                             *)

Busy == {"run", "ok", "failed", "bury"}

\* The shape of the tables (task_queue, dead_letter_queue) and of the locals
\* of run_single_worker_cycle and requeue_dead_letter.
TypeOK ==
    /\ now \in Instant
    /\ taskQueue \in [TaskId -> Row \cup {None}]
    /\ deadLetter \in [TaskId -> DeadRow \cup {None}]
    /\ pc \in [Workers -> {"sleep", "tick", "claim"} \cup Busy]
    /\ cycleNow \in [Workers -> Instant]
    /\ held \in [Workers -> Task \cup {None}]
    /\ requeuing \in Requeued \cup {None}
    /\ faults \in Nat /\ requests \in Nat
    /\ tries \in [TaskId -> Nat]
    /\ owed \subseteq TaskId

(***************************************************************************)
(* No task runs twice at once, whatever crashes and failing statements     *)
(* come between: two workers never carry the same id, and as long as a     *)
(* worker carries a task and has not begun to bury it, the row it was      *)
(* claimed from is still there, still 'running', with the same counts, so  *)
(* that complete_task and fail_task, which go by id and by the worker's    *)
(* copy, touch the row they mean.  This holds of every orderly id,         *)
(* whatever is done under the others.                                      *)
(***************************************************************************)
OneHolder ==
    \A id \in OrderlyIds : \A v, w \in Workers :
        Holds(v, id) /\ Holds(w, id) => v = w

HoldsOrderly(w) == held[w] # None /\ held[w].id \in OrderlyIds

CopyIsCurrent(w) ==
    LET row == taskQueue[held[w].id]
    IN  /\ Running(held[w].id)
        /\ row.attempts = held[w].attempts
        /\ row.max = held[w].max

Exclusive ==
    /\ OneHolder
    /\ \A w \in Workers : HoldsOrderly(w) /\ pc[w] # "bury" => CopyIsCurrent(w)

\* Between the two statements of a burial or a requeue.
InFlight(id) ==
    \/ requeuing # None /\ requeuing.id = id
    \/ \E w \in Workers : pc[w] = "bury" /\ Holds(w, id)

(***************************************************************************)
(* A task is never both queued and dead, so that a requeue, which is an    *)
(* INSERT OR REPLACE, never overwrites a live row of the queue; and        *)
(* nothing else puts a row under an id that is between two tables.  (A     *)
(* reused id may be dead and queued at once, and then a requeue does       *)
(* overwrite the live row.)                                                *)
(***************************************************************************)
OnePlace ==
    \A id \in OrderlyIds :
        /\ ~(InQueue(id) /\ deadLetter[id] # None)
        /\ InFlight(id) => ~InQueue(id) /\ deadLetter[id] = None

\* The count of a row is what happened to the task.
AttemptsCounted(id) ==
    /\ InQueue(id) =>
          /\ taskQueue[id].attempts < taskQueue[id].max
          /\ tries[id] = taskQueue[id].attempts
                             + (IF Running(id) THEN 1 ELSE 0)
    /\ deadLetter[id] # None =>
          /\ deadLetter[id].max > 0
          /\ tries[id] = deadLetter[id].max
          /\ deadLetter[id].attempts = deadLetter[id].max

(***************************************************************************)
(* Max-attempt enforcement (fail_task, with the count claim_due_task read  *)
(* a cycle earlier): a task was claimed exactly as often as its row says,  *)
(* once more while it runs, so never more than max_attempts times; and a   *)
(* dead letter was tried exactly max_attempts times, never given up early. *)
(***************************************************************************)
AttemptsEnforced == \A id \in OrderlyIds : AttemptsCounted(id)

(***************************************************************************)
(* What makes the three invariants above inductive: a worker has a task    *)
(* exactly between its claim and the end of its cycle; nobody carries a    *)
(* task that is being requeued; and a task that is being buried has been   *)
(* tried as often as its dead letter is about to say.                      *)
(***************************************************************************)
HeldWhileBusy == \A w \in Workers : held[w] # None <=> pc[w] \in Busy

RequeuedUnheld ==
    requeuing # None /\ requeuing.id \in OrderlyIds =>
        /\ requeuing.max > 0
        /\ \A w \in Workers : ~Holds(w, requeuing.id)

BuriedExhausted ==
    \A w \in Workers : HoldsOrderly(w) /\ pc[w] = "bury" =>
        AttemptsNext(w) = held[w].max /\ tries[held[w].id] = held[w].max

IInv ==
    /\ Exclusive
    /\ OnePlace
    /\ AttemptsEnforced
    /\ RequeuedUnheld
    /\ BuriedExhausted

(***************************************************************************)
(* A task that was accepted and has not completed is in the queue, in the  *)
(* dead letters, or in the hands of a thread that is moving it between     *)
(* the two.                                                                *)
(***************************************************************************)
Lost(id) ==
    id \in owed /\ ~InQueue(id) /\ deadLetter[id] = None /\ ~InFlight(id)

NothingLost == \A id \in OrderlyIds : ~Lost(id)

(***************************************************************************)
(* What a crash or an error can cost.  It loses at most one task for good, *)
(* since only one thread at a time can be between the two statements of a  *)
(* burial or a requeue; and it leaves at most one row 'running' that no    *)
(* worker runs for each of the workers.                                    *)
(***************************************************************************)
Stranded(id) == Running(id) /\ \A w \in Workers : ~Holds(w, id)

FaultsCost ==
    /\ Cardinality({id \in OrderlyIds : Lost(id)}) <= faults
    /\ Cardinality({id \in OrderlyIds : Stranded(id)})
           <= faults * Cardinality(Workers)

(***************************************************************************)
(* A 'running' row has a worker that runs it (and will settle it: nothing  *)
(* else in the code ever looks at such a row), even when ids are reused    *)
(* and several workers end up with copies of one task.                     *)
(***************************************************************************)
NoOrphan == \A id \in TaskId : Running(id) => \E w \in Workers : Holds(w, id)

\* Every task that enters the queue leaves it: completed or dead.
Settles == \A id \in TaskId : InQueue(id) ~> ~InQueue(id)
=============================================================================
