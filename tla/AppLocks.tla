----------------------------- MODULE AppLocks ------------------------------
(***************************************************************************)
(* The four mutexes of AppState (crates/ultra-core/src/app.rs) and the     *)
(* order in which the handlers and the worker take and release them.       *)
(*                                                                         *)
(* What a handler does with the mutexes is a path: the sequence of its     *)
(* lock and unlock operations along one way through its code.  A guard     *)
(* bound by `let` lives to the end of the function, a guard that is a      *)
(* temporary to the end of its statement; and a temporary in the scrutinee *)
(* of a `match` lives to the end of the match.  std::sync::Mutex is not    *)
(* reentrant: a thread that locks what it holds waits for itself.          *)
(***************************************************************************)
EXTENDS Sequences

CONSTANTS
    Threads,    \* the threads of the runtime that run handlers and workers
    Requests,   \* the paths that requests and worker cycles take
    None        \* no thread

Mutex == {"guardian", "logs", "sqlite", "hub"}

-----------------------------------------------------------------------------
(* The paths.                                                              *)

Lock(m) == <<[op |-> "lock", mutex |-> m]>>
Unlock(m) == <<[op |-> "unlock", mutex |-> m]>>

\* body, under the mutex m.
Holding(m, body) == Lock(m) \o body \o Unlock(m)

\* One statement that locks a mutex and uses what it guards.
Use(m) == Holding(m, <<>>)

\* Faulty variant: the ring buffer stays locked for the whole log_action, and
\* the guardian's status is put into the line.
LogActionNested == Holding("logs", Use("guardian") \o Use("sqlite"))

\* log_action: the ring buffer, then the audit row.
LogAction == Use("logs") \o Use("sqlite")
AppendTimeline == Use("sqlite")
AppendApprovalEvent == Use("sqlite")
PersistGuardianSnapshot == Use("sqlite")

\* queue_status, dead_letter_list, metrics, audit_logs, task_timeline,
\* approvals_pending, begin_shutdown, one round of stream_socket; and the
\* handlers below when their statement fails or has nothing to report.
SqliteOnly == {Use("sqlite")}

\* One statement on the store, and a log entry when it did something.
StoreAndLog == SqliteOnly \cup {Use("sqlite") \o LogAction}

\* guardian_status, preflight.
GuardianRead == {Use("guardian")}

\* register_spend, reset_guardian.
GuardianWrite == {Holding("guardian", PersistGuardianSnapshot \o LogAction)}

PermissionCheck == {LogAction, AppendApprovalEvent \o LogAction}

QueueEnqueue ==
    SqliteOnly \cup {Use("sqlite") \o AppendTimeline \o LogAction \o Use("sqlite")}

\* requeue_dead_letter, register_schedule, scheduler_tick.
QueueControl == StoreAndLog

\* memory_ingest; memory_query, _retrieve, _purge and _delete log nothing.
Memory == StoreAndLog

ApprovalDecision == StoreAndLog

\* telegram_webhook and whatsapp_webhook: rejected, or queued.
Webhook ==
    {Use("hub"),
     Use("hub") \o Use("sqlite") \o AppendTimeline \o LogAction}

\* bridge_reply is a match on state.sqlite.lock()...enqueue_task(..): its Ok
\* arm writes the timeline and the audit log with the guard still alive.
BridgeReply ==
    {Holding("sqlite", AppendTimeline \o LogAction), Use("sqlite")}

BridgesHealth == {Use("hub")}

ObservabilityActions == {Use("logs")}

\* run_single_worker_cycle; worker_tick is a cycle and then queue_status.
\* A bridge.reply task is sent, retries and all, under the hub's mutex.
Report == AppendTimeline \o LogAction

\* Faulty variant: the worker matches on the hub's send directly, as
\* bridge_reply does on its enqueue.
WorkerCycleUnderHub ==
    {Use("sqlite") \o Use("sqlite") \o AppendTimeline
        \o Holding("hub", Use("sqlite") \o Report)}

WorkerCycle ==
    LET tickAndClaim == Use("sqlite") \o Use("sqlite")
        settle == Use("sqlite")
    IN  {tickAndClaim}
          \cup {tickAndClaim \o AppendTimeline \o body :
                  body \in {settle, settle \o Report,
                            Use("hub") \o settle \o Report}}

WorkerTick == {path \o Use("sqlite") : path \in WorkerCycle}

\* Everything but BridgeReply.
SoundRequests ==
    SqliteOnly \cup StoreAndLog \cup GuardianRead \cup GuardianWrite
        \cup PermissionCheck \cup QueueEnqueue \cup QueueControl \cup Memory
        \cup ApprovalDecision \cup Webhook \cup BridgesHealth
        \cup ObservabilityActions \cup WorkerCycle \cup WorkerTick

AllRequests == SoundRequests \cup BridgeReply

ASSUME RequestsAssumption == Requests \subseteq AllRequests
ASSUME NoneAssumption == None \notin Threads

-----------------------------------------------------------------------------
VARIABLES
    owner,   \* which thread has each mutex
    path     \* what each thread still has to do; empty between requests

vars == <<owner, path>>

Init ==
    /\ owner = [m \in Mutex |-> None]
    /\ path = [t \in Threads |-> <<>>]

\* A request arrives, or a worker's cycle begins.
Begin(t) ==
    /\ path[t] = <<>>
    /\ \E request \in Requests : path' = [path EXCEPT ![t] = request]
    /\ UNCHANGED owner

At(t, op) == path[t] # <<>> /\ Head(path[t]).op = op

Acquire(t) ==
    /\ At(t, "lock")
    /\ owner[Head(path[t]).mutex] = None
    /\ owner' = [owner EXCEPT ![Head(path[t]).mutex] = t]
    /\ path' = [path EXCEPT ![t] = Tail(@)]

Release(t) ==
    /\ At(t, "unlock")
    /\ owner' = [owner EXCEPT ![Head(path[t]).mutex] = None]
    /\ path' = [path EXCEPT ![t] = Tail(@)]

Next == \E t \in Threads : Begin(t) \/ Acquire(t) \/ Release(t)

\* A thread in a request keeps running, and a mutex that is released again
\* and again is given to everyone who waits for it.
Fairness ==
    \A t \in Threads : SF_vars(Acquire(t)) /\ WF_vars(Release(t))

Spec == Init /\ [][Next]_vars
FairSpec == Spec /\ Fairness

-----------------------------------------------------------------------------
(* Properties.                                                             *)

Holds(t, m) == owner[m] = t

(***************************************************************************)
(* The order of the mutexes, which the code nowhere states: the guardian   *)
(* comes before all others, and among the others nobody waits for one      *)
(* while holding one.                                                      *)
(***************************************************************************)
LockOrder ==
    \A t \in Threads : At(t, "lock") =>
        \A m \in Mutex : Holds(t, m) =>
            m = "guardian" /\ Head(path[t]).mutex # "guardian"

Waits(t) == At(t, "lock") /\ owner[Head(path[t]).mutex] # None

CanGo(t) ==
    \/ At(t, "unlock")
    \/ At(t, "lock") /\ owner[Head(path[t]).mutex] = None

\* What the order is for: whenever a thread waits for a mutex, some thread is in
\* the middle of its work and can go on.  However the handlers and the worker
\* meet, they never wait for one another in a circle.
NoCircularWait == \A t \in Threads : Waits(t) => \E u \in Threads : CanGo(u)

\* Every request is answered and every cycle ends.
Answered == \A t \in Threads : path[t] # <<>> ~> path[t] = <<>>
=============================================================================
