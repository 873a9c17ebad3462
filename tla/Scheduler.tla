----------------------------- MODULE Scheduler -----------------------------
(***************************************************************************)
(* Scheduled jobs: register_schedule (app.rs), upsert_scheduled_job and    *)
(* run_scheduler_tick (persistence/mod.rs).  Ticks are run by the cycles   *)
(* of the worker pool and by POST /scheduler/tick.                         *)
(*                                                                         *)
(* A tick reads the clock, waits for the SQLite mutex, and then holds it   *)
(* for all of its statements: one SELECT, and for each due job an INSERT   *)
(* OR REPLACE of the task "sched-<job>-<instant>" and an UPDATE of the     *)
(* job's next run.  Each is committed by itself: a crash, or an error in   *)
(* one of them, leaves those before it done and those after it undone.     *)
(***************************************************************************)
EXTENDS Autonomy

CONSTANTS
    Jobs,             \* job ids
    Triggers,         \* the triggers jobs are registered with
    PoolTickers,      \* the worker pool's threads
    OtherTickers,     \* callers of POST /scheduler/tick
    FallbackDelay,    \* wait of a job whose trigger names no instant; 60
    MaxNow,           \* bound of the clock
    MaxLag,           \* bound: seconds a registration waits for the mutex
    MaxRegistrations, \* bound: number of registrations
    Faults,           \* the faults that may happen, a subset of Fault
    MaxFaults,        \* bound: number of faults
    None              \* no row, no job

Fault == {"crash", "error"}
Tickers == PoolTickers \cup OtherTickers

ASSUME SchedulerAssumption ==
    /\ Triggers \subseteq Trigger
    /\ FallbackDelay \in Nat \ {0}
    /\ MaxNow \in 0..(U64Max \div 2)
    /\ MaxLag \in Nat /\ MaxRegistrations \in Nat /\ MaxFaults \in Nat
    /\ Faults \subseteq Fault

ASSUME NoneAssumption == None \notin Jobs

VARIABLES
    now,             \* the wall clock, in seconds
    jobs,            \* table scheduled_jobs: each job's trigger and next run
    pc,              \* where each ticker is in its tick
    at,              \* the instant each tick read when it began
    todo,            \* the due jobs a tick has selected and not yet advanced
    current,         \* the job between its INSERT and its UPDATE
    registrations,   \* registrations so far
    faults,          \* faults so far
    submitted,       \* history: the tasks <<job, instant>> put in the queue
    since            \* history: when a job was last submitted or registered

ticks == <<pc, at, todo, current>>
vars == <<now, jobs, ticks, registrations, faults, submitted, since>>

Instant == 0..U64Max

JobRow == [trigger : Trigger, next : Column]

\* The mutex is held from a tick's SELECT to its end.
DatabaseFree == \A t \in Tickers : pc[t] \notin {"selected", "submitted"}

Init ==
    /\ now = 0
    /\ jobs = [j \in Jobs |-> None]
    /\ pc = [t \in Tickers |-> "idle"]
    /\ at = [t \in Tickers |-> 0]
    /\ todo = [t \in Tickers |-> {}]
    /\ current = [t \in Tickers |-> None]
    /\ registrations = 0
    /\ faults = 0
    /\ submitted = {}
    /\ since = [j \in Jobs |-> 0]

Tick ==
    /\ now < MaxNow
    /\ now' = now + 1
    /\ UNCHANGED <<jobs, ticks, registrations, faults, submitted, since>>

-----------------------------------------------------------------------------
\* Faulty variant: the next run is counted from the second before.
NextRunTooEarly(trigger, instant) ==
    LET next == NextScheduleRun(trigger, instant)
    IN  ToI64(IF next = NoRun THEN SatAdd(instant, FallbackDelay) ELSE next - 1)

\* A trigger that names no instant (every 0 seconds, a cron expression that
\* does not parse) runs every FallbackDelay seconds.
NextRun(trigger, instant) ==
    LET next == NextScheduleRun(trigger, instant)
    IN  ToI64(IF next = NoRun THEN SatAdd(instant, FallbackDelay) ELSE next)

\* register_schedule: reads the clock, waits, and upserts.  The max_attempts
\* of the task, which must be positive, plays no part here.
Register(j, trigger) ==
    /\ DatabaseFree
    /\ registrations < MaxRegistrations
    /\ registrations' = registrations + 1
    /\ \E lag \in 0..MaxLag :
          /\ lag <= now
          /\ jobs' = [jobs EXCEPT ![j] =
                        [trigger |-> trigger, next |-> NextRun(trigger, now - lag)]]
          /\ since' = [since EXCEPT ![j] = now - lag]
    /\ UNCHANGED <<now, ticks, faults, submitted>>

-----------------------------------------------------------------------------
(* One tick.                                                               *)

DueAt(instant) == {j \in Jobs : jobs[j] # None /\ jobs[j].next <= instant}

EndTick(t) ==
    /\ pc' = [pc EXCEPT ![t] = "idle"]
    /\ at' = [at EXCEPT ![t] = 0]
    /\ todo' = [todo EXCEPT ![t] = {}]
    /\ current' = [current EXCEPT ![t] = None]

BeginTick(t) ==
    /\ pc[t] = "idle"
    /\ pc' = [pc EXCEPT ![t] = "waiting"]
    /\ at' = [at EXCEPT ![t] = now]
    /\ UNCHANGED <<now, jobs, todo, current, registrations, faults, submitted,
                   since>>

\* Faulty variant: the due jobs are selected before the mutex is taken.
SelectUnlocked(t) ==
    /\ pc[t] = "waiting"
    /\ IF DueAt(at[t]) = {}
       THEN EndTick(t)
       ELSE /\ pc' = [pc EXCEPT ![t] = "selected"]
            /\ todo' = [todo EXCEPT ![t] = DueAt(at[t])]
            /\ UNCHANGED <<at, current>>
    /\ UNCHANGED <<now, jobs, registrations, faults, submitted, since>>

SelectDue(t) ==
    /\ pc[t] = "waiting"
    /\ DatabaseFree
    /\ IF DueAt(at[t]) = {}
       THEN EndTick(t)
       ELSE /\ pc' = [pc EXCEPT ![t] = "selected"]
            /\ todo' = [todo EXCEPT ![t] = DueAt(at[t])]
            /\ UNCHANGED <<at, current>>
    /\ UNCHANGED <<now, jobs, registrations, faults, submitted, since>>

\* Faulty variant: the job counts as submitted and the INSERT never happens.
SubmitNothing(t) ==
    /\ pc[t] = "selected"
    /\ \E j \in todo[t] : current' = [current EXCEPT ![t] = j]
    /\ pc' = [pc EXCEPT ![t] = "submitted"]
    /\ UNCHANGED <<now, jobs, at, todo, registrations, faults, submitted, since>>

SubmitTask(t) ==
    /\ pc[t] = "selected"
    /\ \E j \in todo[t] :
          /\ submitted' = submitted \cup {<<j, at[t]>>}
          /\ current' = [current EXCEPT ![t] = j]
          /\ since' = [since EXCEPT ![j] = at[t]]
    /\ pc' = [pc EXCEPT ![t] = "submitted"]
    /\ UNCHANGED <<now, jobs, at, todo, registrations, faults>>

\* Faulty variant: the next run is left as it was.
AdvanceNowhere(t) ==
    /\ pc[t] = "submitted"
    /\ LET rest == todo[t] \ {current[t]}
       IN  IF rest = {}
           THEN EndTick(t)
           ELSE /\ todo' = [todo EXCEPT ![t] = rest]
                /\ pc' = [pc EXCEPT ![t] = "selected"]
                /\ current' = [current EXCEPT ![t] = None]
                /\ UNCHANGED at
    /\ UNCHANGED <<now, jobs, registrations, faults, submitted, since>>

AdvanceJob(t) ==
    LET j == current[t]
        rest == todo[t] \ {j}
    IN  /\ pc[t] = "submitted"
        /\ jobs' = [jobs EXCEPT ![j].next = NextRun(jobs[j].trigger, at[t])]
        /\ IF rest = {}
           THEN EndTick(t)
           ELSE /\ todo' = [todo EXCEPT ![t] = rest]
                /\ pc' = [pc EXCEPT ![t] = "selected"]
                /\ current' = [current EXCEPT ![t] = None]
                /\ UNCHANGED at
        /\ UNCHANGED <<now, registrations, faults, submitted, since>>

-----------------------------------------------------------------------------
Suffer(fault) ==
    /\ fault \in Faults
    /\ faults < MaxFaults
    /\ faults' = faults + 1

\* A statement of the tick fails: the tick ends there, its other jobs wait.
TickError(t) ==
    /\ Suffer("error")
    /\ pc[t] \in {"selected", "submitted"} \/ (pc[t] = "waiting" /\ DatabaseFree)
    /\ EndTick(t)
    /\ UNCHANGED <<now, jobs, registrations, submitted, since>>

\* The process dies and is restarted.
Crash ==
    /\ Suffer("crash")
    /\ pc' = [t \in Tickers |-> "idle"]
    /\ at' = [t \in Tickers |-> 0]
    /\ todo' = [t \in Tickers |-> {}]
    /\ current' = [t \in Tickers |-> None]
    /\ UNCHANGED <<now, jobs, registrations, submitted, since>>

-----------------------------------------------------------------------------
TickStep(t) == SelectDue(t) \/ SubmitTask(t) \/ AdvanceJob(t)

Next ==
    \/ Tick
    \/ \E j \in Jobs, trigger \in Triggers : Register(j, trigger)
    \/ \E t \in Tickers : BeginTick(t) \/ TickStep(t) \/ TickError(t)
    \/ Crash

Spec == Init /\ [][Next]_vars

\* The pool ticks for ever, and a tick that has begun runs to its end; the
\* registrations, which compete for the mutex, are finitely many.
Fairness ==
    /\ WF_vars(Tick)
    /\ \A t \in PoolTickers : WF_vars(BeginTick(t))
    /\ \A t \in Tickers : WF_vars(TickStep(t))

FairSpec == Spec /\ Fairness

-----------------------------------------------------------------------------
(* Properties.                                                             *)

\* The table and the locals of a tick; a tick holds a due job exactly while
\* it has the mutex, and only one tick does.
TypeOK ==
    /\ now \in Instant
    /\ jobs \in [Jobs -> JobRow \cup {None}]
    /\ pc \in [Tickers -> {"idle", "waiting", "selected", "submitted"}]
    /\ at \in [Tickers -> Instant]
    /\ \A t \in Tickers :
          /\ todo[t] \in SUBSET Jobs
          /\ todo[t] # {} <=> pc[t] \in {"selected", "submitted"}
          /\ current[t] \in todo[t] \cup {None}
          /\ current[t] # None <=> pc[t] = "submitted"
          /\ \A u \in Tickers : todo[t] # {} /\ todo[u] # {} => t = u
    /\ submitted \subseteq Jobs \X Instant
    /\ since \in [Jobs -> Instant]

\* The task that step SubmitTask of ticker t puts in the queue.
Submits(t, j) == pc[t] = "selected" /\ current'[t] = j /\ current[t] = None

(***************************************************************************)
(* A job that runs every n seconds is never submitted twice within n       *)
(* seconds, nor within n seconds of its registration, though two workers   *)
(* and any number of callers tick the same table with clocks they read     *)
(* before they waited for the mutex.  A crash or an error between a job's  *)
(* INSERT and its UPDATE does run it again: hence the condition.           *)
(***************************************************************************)
Spaced ==
    [][\A t \in Tickers, j \in Jobs :
          /\ faults = 0 /\ Submits(t, j)
          /\ jobs[j].trigger.kind = "every" /\ jobs[j].trigger.n > 0
          => at[t] >= since[j] + jobs[j].trigger.n]_vars

(***************************************************************************)
(* A job's submissions come at strictly later and later instants, whatever *)
(* its trigger, so that "sched-<job>-<instant>" is a fresh task id: a task *)
(* with the same id would be replaced in the queue, waiting or running.    *)
(* It only holds from one registration of the job to the next: after a     *)
(* registration whose clock reading is a second old, the instant may come  *)
(* round again.                                                            *)
(***************************************************************************)
FreshTaskIds ==
    [][\A t \in Tickers, j \in Jobs :
          faults = 0 /\ Submits(t, j) => at[t] > since[j]]_vars

(***************************************************************************)
(* At least once: through crashes and failing statements, the next run of  *)
(* a due job is only moved on after its task was put in the queue (or by   *)
(* a new registration).                                                    *)
(***************************************************************************)
AtLeastOnce ==
    [][\A j \in Jobs :
          /\ jobs[j] # None /\ jobs'[j] # jobs[j]
          => \/ registrations' > registrations
             \/ \E i \in Instant : i >= jobs[j].next /\ <<j, i>> \in submitted]_vars

\* A job that is due does not stay due: it is run, one job's failure or a
\* crash in the middle of a tick holding up no other for good.
DueJobsRun == \A j \in Jobs : j \in DueAt(now) ~> j \notin DueAt(now)
=============================================================================
