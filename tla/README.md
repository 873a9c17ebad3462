# Ultra Tiger core: a TLA+ model

TLA+ modules, TLC configurations and TLAPS proofs for `ultra-core`
(`src/crates/ultra-core/src`), the Rust service of Ultra Tiger. Paths below are
relative to that directory unless they start with `src/`.

## 1. The system

| Part | State | Operations | Interacts with |
|---|---|---|---|
| Task queue (`persistence/mod.rs`) | tables `task_queue`, `dead_letter_queue` | `enqueue_task`, `claim_due_task`, `complete_task`, `fail_task`, `requeue_dead_letter` | called by the workers, the HTTP handlers, the webhooks and the scheduler |
| Workers (`app.rs`) | a claimed `TaskItem` and the `now` of its cycle, per thread | `run_single_worker_cycle`, `start_worker_pool`, `worker_tick` | scheduler tick, claim, bridge send, then complete or fail |
| Scheduled jobs (`persistence/mod.rs`, `app.rs`) | table `scheduled_jobs` | `register_schedule`, `run_scheduler_tick` | submits tasks `sched-<job>-<instant>` |
| Time arithmetic (`autonomy/mod.rs`) | none | `compute_retry_delay_seconds`, `next_schedule_run_unix` | used by `fail_task` and the scheduler |
| Guardian (`guardian.rs`) | total of the day, revocation flag; table `guardian_daily_spend` | preflight, spend, reset | clients that ask and report; persisted on spend and reset |
| Application state (`app.rs`) | four mutexes: guardian, logs, sqlite, bridge hub | every HTTP handler, every worker cycle | all parts |
| Bridges (`bridges/mod.rs`) | a rate window and health metrics per bridge | webhooks in, `send_outbound_with_retry` out | worker cycle, under the hub's mutex; the queue on both sides |
| Approvals, audit, timeline | tables `approval_events`, `audit_logs`, `task_timeline` | append, list, decide | every handler and worker writes them; operators read them on a page |
| Action log (`observability/mod.rs`) | ring buffer of 500 | push, list | `log_action`, before the audit log |
| Memory store (`persistence/mod.rs`, `memory/mod.rs`) | tables `memory_records`, `memory_embeddings` | ingest, query, retrieve, purge, delete | HTTP only |
| Permission gate (`permissions.rs`) | none | `requires_human_approval` | files a request for approval |
| Skill runtime (`skill/`) | none kept | run a signed skill under a timeout | not called by the service |
| Configuration, models, router | none | | |

Everything runs in one process; the threads of the Tokio runtime run handlers
and worker cycles, and share one SQLite connection behind one mutex. systemd
restarts the process whenever it dies
(`src/deployment/systemd/ultra-core.service:9`), and the tables are what
survives.

What is hard to test here:

* the **store's mutex is released between the steps of a worker's cycle**, so
  that everything a worker carries from its claim to its settlement (ids,
  counts, the clock) may be stale when it is used;
* **statements are autocommitted one by one** where two belong together
  (`fail_task`, `requeue_dead_letter`, `run_scheduler_tick`);
* **crashes** between any two of them, and failing statements whose errors are
  discarded;
* **ids chosen by clients or made of the clock**, in seconds or milliseconds,
  over `INSERT OR REPLACE` (the second row wins) or `INSERT` (the first wins);
* **two retry loops**, one inside the other, and answers that get lost;
* **pages that are old**: an operator decides on what was pending a while ago;
* four **mutexes without a stated order**, with guards whose lifetime depends
  on `let` and `match`;
* the guardian **checks and then trusts** the client to report;
* `u64` **arithmetic at its limits**, its casts to the `i64` of a column, and the
  seconds of the minute;
* texts **cut between bytes**, in the middle of a character if it comes to that.

`PROJECT.json` lists these hazards one by one, at their lines.

What makes each part correct, in the order of the modules:

* *time*: the next run is the first named instant after now; backoff grows;
* *queue*: of a task whose id nobody submits again meanwhile, nothing is lost, it
  does not run twice at once, its attempts are counted exactly and bounded; under
  any id, a row leaves the queue in the end;
* *scheduler*: a job is queued before its next run moves on, keeps its period,
  never repeats a task id, and no due job is starved;
* *guardian*: keys revoked exactly over the limit, until a reset; a known bound on
  the overshoot; the persisted row is current;
* *locks*: one order, no circle of waiting threads, every request answered;
* *bridges*: no more events than the limit and no refusal below it; an event
  that was queued is run; a completed reply has arrived; a true health page;
* *journal*: which entries can be missing; a decision falls on what its operator
  saw, and is not forgotten; what the buffer shows is in the audit log;
* *memory*: a citation is of the record as it is; what was answered is whole, but
  for the characters a cut goes through.

## 2. The modules

```
Autonomy ---- AutonomyClock ---- AutonomyProofs  (MC_Autonomy)
   |--------- TaskQueue ---- TaskQueueRefinement ---- TaskLifecycle (INSTANCE)
   |                              |    `--- (MC_TaskQueue)
   |                        TaskQueueProofs
   `--------- Scheduler ---- SchedulerProofs   (MC_Scheduler)
Guardian ---- GuardianProofs                   (MC_Guardian)
AppLocks ---- AppLocksProofs                   (MC_AppLocks)
BridgeHub ---- TaskLifecycle (INSTANCE)        (MC_BridgeHub)
   `--------- BridgeHubProofs
Journal ---- JournalProofs                     (MC_Journal)
MemoryStore ---- MemoryStoreProofs             (MC_MemoryStore)
```

**Autonomy** has the functions of `autonomy/mod.rs` as operators. Instants and
durations are `u64`; `U64Max` is a constant so that a small width shows
saturation. `ToI64` is the cast to the column's `i64`, by which the upper half of
`u64` becomes negative. A cron expression is kept as what its first field parses to.
**AutonomyClock** is a clock at every tick of which the functions are compared
with a reference definition: the set of instants an expression names.

**TaskQueue** has one action per autocommitted statement or transaction. A
worker goes `sleep -> tick -> claim -> run -> ok | failed -> (bury) -> sleep`:

| Action | Code |
|---|---|
| `Enqueue`, `Submit` | `queue_enqueue`, the webhooks, `enqueue_task` |
| `BeginCycle`, `SchedulerTick` | the `now` of the cycle; `run_scheduler_tick`, seen as the submission of any set of the ids it makes up |
| `Claim`, `NothingDue` | `claim_due_task` |
| `Execute` | the bridge send, or the test of the payload for "fail" |
| `Complete` | `complete_task`, by id |
| `Retry`, `DeadLetterDelete`, `DeadLetterInsert` | the two branches of `fail_task`, with the worker's copy of the task and its `cycleNow` |
| `RequeueDelete`, `RequeueInsert` | `requeue_dead_letter` |
| `Crash`, `StatementError`, `RequeueError` | process death and restart; errors that are discarded or end the cycle |

The store's mutex shows in `DatabaseFree`: between the two statements of a
burial or a requeue nobody else may use the store. `tries` and `owed` are
history: how often a task was claimed since it was last queued afresh, and what
was accepted and has not completed. A client may submit any id at any time,
live or not, and `INSERT OR REPLACE` takes it: nothing in the code prevents that.
`OrderlyIds` are the ids under which nobody does (`Fresh`), as with ids that are
made up anew for each task; the properties that need that are stated for those
ids, while anything may be done under the others at the same time. A retry
instant goes through `ToI64` (`RetryAt`), as the code's does: one past `i64` is
stored negative, and the task is due at once.
Left out: payloads beyond their kind, `last_error`, and `created_at`, the
second sort key of a claim (rows available at the same instant are claimed in
any order, which allows more than the code does).

**TaskLifecycle** is the abstract promise: accepted, attempted one attempt at a
time, completed or dead after `max_attempts` failures, reopened by an operator.
No tables, clocks, workers or mutex. **TaskQueueRefinement** maps the queue to
it: `LifeOf(id)` reads a task's life off its row, its dead letter, or the thread
that is moving it.

**Scheduler** opens the tick up: SELECT, then for each due job an INSERT of the
task and an UPDATE of the next run, with a crash or an error possible before
each. A ticker reads its clock (`BeginTick`), waits for the mutex (`SelectDue`)
and then holds it. `MaxLag` is the same wait for `register_schedule`.

**Guardian** has the handlers of `/guardian`. `register_spend` and
`reset_guardian` are two steps under one hold of the mutex, change and persist.
Agents that ask first (`Preflight`, then `AgentSpends`, at most what they were
cleared for) and clients that report without asking (`UnannouncedSpend`) are the
environment; so are `Authorize` and `Decline`. `Crash` is `Guardian::new` again;
the agents and what they were told live on. `spent`, `unasked` and `restarts` are
history since the last manual reset; a restart forgets none of them. There is no
midnight in the module because there is none in the code: the date is a constant.

**AppLocks** has, for each handler and for the worker's cycle, the sequences of
lock and unlock operations along the ways through its code (error paths and
paths with nothing to report included); a thread runs one such path after
another. A guard bound by `let` is released at the end of the function, a
temporary at the end of its statement, and a temporary in the scrutinee of a
`match` at the end of the `match`. The mutexes are not reentrant.

**BridgeHub** has both directions of the bridges.

| Action | Code |
|---|---|
| `Ingest` | `ingest_telegram_webhook`, `ingest_whatsapp_webhook`: the rate window, under the hub's mutex |
| `NameTask`, `EnqueueEvent`, `EnqueueError` | the rest of the webhook: the second in the task's id, the INSERT OR REPLACE, its discarded error |
| `ClaimEvent`, `CompleteEvent`, `RetryEvent` | a worker with an inbound task: the copy it claimed, and changes by id |
| `SubmitReply`, `ClaimReply`, `SettleReply` | a reply's life in the queue |
| `RefuseBlank`, `SendOk`, `SendFails` | the turns of `send_outbound_with_retry`, the hub's mutex held from the first to the last |

A reply's life is the abstract one: `Queue == INSTANCE TaskLifecycle`, whose
actions occur inside those of the workers. `TaskQueueRefinement` is why that
may stand for the tables; a dead reply that is requeued is a new one here. For
inbound tasks the abstract life would be too kind
(their ids collide), so their rows are in the module. An attempt ends `ok`,
`refused` or `unanswered`: taken by Telegram or WhatsApp, with the answer lost.
Signatures, JSON and HTTP are I/O.

**Journal** has what is written down.

| Action | Code |
|---|---|
| `PushLog` | the first half of `log_action`: the action goes into the ring buffer, under the buffer's mutex |
| `StampEntry` | `now_millis()`, of which the entry's id is made; for an audit entry after the push, before the wait for the store |
| `InsertRow`, `InsertError` | the INSERT, which does nothing if the id exists; its discarded error |
| `LoadPage` | `list_pending_approvals` into an operator's browser |
| `Decide` | `approval_decision`: any id, of a page (`DecideOnPage`, possibly long after it was loaded) or not (`DecideUnseen`), and 404 for an id without a row |

`todo` is what a request has still to write, in the order of the handler.
`pushes` numbers the entries of the buffer, so that a row can be told to be that
of an entry and not of an earlier one of the same action; it, the serials, and
`written` and `verdicts` are history.

**MemoryStore** has an ingestion as `BeginIngest` (an id is named, or made of
the second), `StampRecord` (`created_at_unix`, a second reading of the clock),
`StoreRecord`, a `StoreChunk` per chunk, `EndIngest`; the store's mutex is held
from the record to the last chunk. A text is a name, the positions of its bytes,
and the character each byte belongs to (`CharOf`). `Chunk` is what
`String::from_utf8_lossy` makes of a piece between two cuts: the characters that
are in it whole, and replacement characters where it has only some bytes of one.
INSERT OR REPLACE of a record, purge
and delete cascade to its embeddings (`Without`): the schema says ON DELETE
CASCADE, and foreign keys are enforced because rusqlite's `bundled` feature
compiles SQLite with `SQLITE_DEFAULT_FOREIGN_KEYS=1`. What the reads can find is
stated in the properties; their scores are floating point. `promised` is history.

## 3. The runs

| Run | Result | What it shows |
|---|---|---|
| `autonomy` | holds | At 151 instants, 12 periods, 17 exponents: cron's next run is the first named instant after now; backoff grows strictly while jitter < base and nothing is clamped or saturated. |
| `task_queue` | holds | Two pool workers, a client's id and a scheduled one, both orderly, `max_attempts` 1 and 2, up to two crashes or errors anywhere. `Exclusive`: no double execution, and a worker's copy is current. `OnePlace`: a requeue never overwrites a live row. `AttemptsEnforced`: counts equal claims. `FaultsCost`: each fault loses or strands one task at most. |
| `task_queue_live` | holds | Without faults, an orderly id next to one that clients reuse while it is live, a pool worker and a caller of `/queue/worker-tick`. For the orderly id `NothingLost` and the refinement of `TaskLifecycle!FairSpec`, safety and liveness. For both ids `NoOrphan`, every running row has a worker though two may hold copies of one task, and `Settles`, every row leaves the queue. |
| `guardian` | holds | `RevokedExactlyOverLimit` as long as the process lives; `OvershootBounded`: for each life of the process, limit + (agents - 1) * largest cost, and what was not asked for; `SavedIsCurrent`. |
| `app_locks` | holds | Three threads, every handler but `bridge_reply`: `LockOrder` (guardian first, nothing nested under the other three), `NoCircularWait` and `Answered`. |
| `scheduler` | holds | Two jobs, all trigger kinds, a worker and a caller, stale clocks, one crash or error at any statement: `Spaced`, `FreshTaskIds`, `AtLeastOnce`, `DueJobsRun`. |
| `bridges` | holds | Two webhooks, two workers, a reply to any bridge, two minutes of two seconds, a failing INSERT, lost answers. `RateBounded`, `OnlyExcessRefused`: the rate limit from both sides. `EventsKept`: of the events that share a task id one is run or waits. `SendsBounded`, `DeliveredAtLeastOnce`: the two retry loops multiply, and a second delivery takes a lost answer. `HealthIsTrue`. |
| `journal` | holds | Two threads, an operator, clients that name any id, two milliseconds, a crash or failing INSERT. `EntriesKept`: what goes missing shared its millisecond with one of its kind. `BufferIsAudited`: each entry of the ring buffer has its own row in the audit log or is on its way there, or lost its millisecond to another action. `DecidedAsShown`, `NeverReopened`: decisions fall on what was named and shown, and stay. |
| `memory` | holds | Two clients, a chosen id and the default ones, a text of one byte and one of six with characters of two bytes on and off the cuts, sizes 0 (raised to 2) and 4, two models, purges and deletes, a crash or error between any two statements. `CitationsCurrent`; `AnsweredWhole`: every character no cut goes through is in exactly one chunk; `BeginningsOnly`: a broken-off ingestion leaves a run of chunks from the first on. |
| `crash_strands` | violated | `Settles`: a crash while a task runs leaves its row `running`; the claim's `WHERE` (`persistence/mod.rs:522`) never sees it again. README: "unattended 24/7 processing". |
| `guardian_restart` | violated | `RevokedUntilReset`: a restart gives revoked keys back, since `Guardian::new` (`guardian.rs:12`) starts from zero and nothing reads the persisted row. Technical specification, line 53: "revokes all API keys until a manual reset is performed". |
| `bridge_reply` | violated | `Answered`: `bridge_reply` (`app.rs:878`) locks the store in the arm of a `match` whose scrutinee still holds it. README: "outbound reply channel". |

### Consequences without a run

The models also make visible what follows from the code where no text of the
repository promises enough to call it a violation:

* *Queue.* An id that is submitted again while its task is live runs the task
  twice at once, or the resubmission is deleted unclaimed when the first worker
  completes the task (`persistence/mod.rs:495`). A dead id that is submitted again
  is dead and queued at once, and a requeue then overwrites the live row
  (`persistence/mod.rs:709`). A retry instant past `i64`, a saturated one above
  all, is stored negative and is due at once (`persistence/mod.rs:618`). A crash
  or error between `fail_task`'s DELETE and INSERT, or between
  `requeue_dead_letter`'s, loses that task (`FaultsCost` says one per fault). The
  retry delay counts from the start of the cycle and not from the failure, so an
  attempt longer than the delay is retried at once (`app.rs:1230`). A task other
  than a reply fails if its payload contains "fail", an inbound message too.
* *Scheduler.* A job registered anew with a clock reading a second old may
  submit the same task id twice (`app.rs:468`).
* *Guardian.* No day ends at midnight, while the README speaks of "daily spend".
* *Bridges.* Two inbound messages in one second are one task, the later
  replacing the earlier (`app.rs:746`); a webhook answers 200 with a task id
  although the INSERT failed (`app.rs:764`); a reply to a bridge that does not
  exist counts as a failure of WhatsApp (`bridges/mod.rs:363`), whose health page
  may then be wrong.
* *Journal.* Two entries of a kind in one millisecond leave one: the second
  timeline entry of a task that is claimed and finished within a millisecond, or
  a request for approval, about which then nobody is asked (`app.rs:1389`). A
  decision may overrule an earlier one (`persistence/mod.rs:249`). The page has
  the newest 200 requests: under a steady stream of newer ones an older request
  is never seen (`persistence/mod.rs:230`).
* *Memory.* Two ingestions without an id in one second replace each other
  (`app.rs:548`). A character on a cut is in no chunk, neither whole nor in parts
  (`memory/mod.rs:126`). Ingesting a record again under another model drops the first
  model's embeddings, by the cascade. A broken-off ingestion stays as it is.

Each property of a run that holds has a faulty variant of the code in the same
module (marked "Faulty variant"), under which TLC finds it violated.

### Bounds

* **Clock.** In the `TaskQueue` runs `U64Max` is 7 (3 in `task_queue_live`), so
  that `i64` ends at 3 (at 1), which is also as far as the clock runs (`MaxNow`):
  delays of 1 and 2 seconds plus jitter end within `i64` and past it.
  `MaxNow = 4` with periods 2 and 3 lets a job of the scheduler run twice.
* **Requests.** `MaxRequests = 3` submissions and requeues in `task_queue`: a
  task can be submitted, die, be requeued and be submitted again next to
  another; in `crash_strands` one is enough. Three webhook calls fill a minute
  with `Limit = 1`, are refused in it and are let in in the next. Three requests
  for the journal, decisions included: two that collide and a decision, or one
  and two decisions. Three ingestions: store, store again, and another client.
* **Actors.** Two workers are enough for every pairwise interleaving of
  claims; three threads in `AppLocks` for a cycle through any pair of mutexes
  with a bystander; three agents make the overshoot more than one cost.
* **Faults.** `MaxFaults` 1 or 2: a second one hits the state the first left.
  In `bridges`, `journal` and `memory`, where a fault leaves no state of its own
  kind behind, one. Lost answers are bounded by the attempts alone.
* **Small sizes.** A minute of 2 seconds (so that two minutes and their turn fit
  into three), `U32Max = 2` (a count that saturates at once), `DegradedAt = 2`,
  a ring buffer of 2 and a page of 1, which overflow, two milliseconds
  (entries that share one and entries that do not), `PerSecond = 1`, retention
  of 0 and 1 second. A text of 1 byte is one chunk. One of 6 bytes has
  four characters, the middle two of two bytes: size 2 cuts through both of them
  (and makes a chunk with no whole character), size 4 through one.
* **Waiting.** `MaxLag = 1`: a clock reading one second old.
* **Attempts.** `max_attempts` 1 (dead at once) and 2 (one retry).
* **Spending.** `Limit = 4`, costs 1 and 3, unannounced 0, 1 and 5: exactly on
  the limit, one over, far over. `MaxTotal` stops unannounced spending.

Symmetry (of the pool's workers in `task_queue`, of the agents in `guardian`, of
the threads in `bridges`, of threads, tasks and sensitive actions in `journal`,
of clients and models in `memory`) is used for safety only, never in a run with a
liveness property.

### Fairness

* *Workers*: a pool thread loops for ever with a sleep of half a second, so
  `BeginCycle` of pool workers is weakly fair; a cycle that has begun has no way
  to stop, so its steps are too. Nobody has to call `/queue/worker-tick` or
  `/scheduler/tick`. Weak fairness is enough for the waits for the store in
  `TaskQueue` and `Scheduler`, where what competes is finitely often in the way.
* *Clock*: `Tick` is weakly fair up to its bound.
* *Mutexes* (`AppLocks`): a thread inside a request keeps running (weak fairness
  of `Release`); a mutex released again and again is eventually given to each
  waiter (strong fairness of `Acquire`). std's mutex does not promise the latter
  in so many words; it is the usual assumption that the operating system starves
  no thread, and it is what `Answered` rests on. Requests need not arrive.
* `Guardian`, `BridgeHub`, `Journal` and `MemoryStore` have no liveness property
  and no fairness. In particular nothing is claimed about when operators decide.
* `MC_Autonomy.cfg` and `MC_BridgeHub.cfg` disable the deadlock check because
  clock, calls and replies stop at their bounds; `MC_BridgeReply.cfg` because the
  run is about exactly that.

## 4. What is proved

TLAPS proves the following for every value of the constants that satisfies the
named assumptions of the modules: `U64MaxAssumption`, `ClockAssumption`,
`QueueAssumption`, `SchedulerAssumption`, `GuardianAssumption`,
`RequestsAssumption`, `BridgeAssumption`, `JournalAssumption`,
`MemoryAssumption` (signs and ranges of the parameters), and a `NoneAssumption`
each (the value for "nothing" is not a value of the kind it stands in for). The
proofs are in `<Module>Proofs`.

| Module | Theorem | Statement |
|---|---|---|
| `TaskQueue` | `TypeCorrect` | `Spec => []TypeOK`: also with reused ids and faults; its heart is `RetryInstant`, that the saturating backoff never leaves `u64` and its cast never leaves the `i64` of the column |
| | `ExclusiveHolds`, `OnePlaceHolds`, `AttemptsEnforcedHolds` | `Spec => []...` of the three safety invariants of the `OrderlyIds` |
| | `FaultsCostHolds` | `Spec => []FaultsCost`, for finitely many workers |
| | `NothingLostHolds` | without faults, `Spec => []NothingLost` |
| | `NoOrphanHolds` | without faults, `Spec => []NoOrphan`, of all ids |
| | `ImplementsLifecycle` | without faults, `Spec => Lifecycle!Spec`, the refinement, for the `OrderlyIds` |
| | `AttemptsBoundedHolds` | without faults, `Spec => []Lifecycle!AttemptsBounded`, by the refinement |
| `AutonomyClock` | `NextRunHolds`, `BackoffHolds` | `Spec => []...`: what the time functions compute, at every instant |
| `Scheduler` | `TypeCorrect` | `Spec => []TypeOK` |
| | `AtLeastOnceHolds` | `Spec => AtLeastOnce`, with faults anywhere |
| | `SpacedHolds`, `FreshTaskIdsHolds` | `Spec => ...`, for triggers that fit (`WaitsFit`) |
| `Guardian` | `TypeCorrect`, `RevokedHolds`, `SavedHolds` | `Spec => []...` |
| | `OvershootHolds` | `Spec => []OvershootBounded`, for `Bounded` agents and costs |
| `AppLocks` | `LockOrderHolds` | `Spec => []LockOrder`, for any threads and the `SoundRequests` |
| | `NoCircularWaitHolds` | `Spec => []NoCircularWait`, for the same requests |
| `BridgeHub` | `TypeCorrect`, `RateBoundedHolds`, `EventsKeptHolds`, `SendsBoundedHolds`, `DeliveredHolds`, `HealthHolds` | `Spec => []...` |
| | `OnlyExcessRefusedHolds` | `Spec => OnlyExcessRefused`, an action property |
| `Journal` | `TypeCorrect`, `EntriesKeptHolds`, `BufferIsAuditedHolds`, `DecidedAsShownHolds` | `Spec => []...` |
| | `NeverReopenedHolds` | `Spec => NeverReopened`, an action property |
| `MemoryStore` | `TypeCorrect`, `CitationsHold`, `AnsweredWholeHolds`, `BeginningsOnlyHolds` | `Spec => []...` |

Some theorems have a hypothesis of their own:

* `NoFaults`: `Faults = {}` or `MaxFaults = 0`. What faults do to the same
  properties is `FaultsCost`; each of them is false with a fault.
* `IsFiniteSet(Workers)`, where workers are counted; `Bounded` for the guardian:
  finitely many agents, and a largest cost among those an agent may name.
* `SoundRequests`: every handler but `bridge_reply`, which deadlocks
  (`bridge_reply` in section 3).
* `WaitsFit`: every period a trigger can have, added to the last instant of the
  clock, is at most half of `U64Max`. Beyond that `next_run` saturates, or turns
  negative in the column (`persistence/mod.rs:807`), and the job runs at every
  tick: the theorem excludes just what is listed as a hazard there. Times of the
  real clock are some 2^31 out of 2^63.

### The arguments

**The inductive invariant of the queue.** The three invariants need one another.
To know that `Complete` deletes the right row one needs that the worker's copy
is current (`Exclusive`); to know that a second claim cannot take the same row,
that a carried task's row is `running`, which a requeue would undo if its id
could also be in the queue (`OnePlace`); and to know that a dead letter was tried
`max_attempts` times, that the copy's count is the row's. `IInv` adds what the
threads between two tables know: a task being requeued is carried by nobody
(`RequeuedUnheld`), a task being buried has used all its attempts
(`BuriedExhausted`). All of it is about the orderly ids. What is done under the
others must then be shown to leave them alone, though it may put two workers on
one task or let a requeue overwrite a row: every statement of the queue goes by
id (`StrangerSafe`). And `HeldWhileBusy`, that a worker has a task exactly from
its claim to the end of its cycle, is proved with the types, where it also holds
when ids are reused. A crash keeps all of it because it only empties hands. The
step lemmas (`SubmitSafe`, `ClaimSafe`, `LetGoSafe`, `SettleSafe`) group the
actions by what they do to the invariant.

`FaultsCost` needs `OneBetween`, that only one thread is between a DELETE and its
INSERT; then a step other than a fault adds nothing to the lost and the stranded tasks (`LossStep`), and a fault adds
the one task in between, and a row per worker at most. `NothingLost` is the case
of no faults. `NoOrphan` is proved from invariants of its own, since `IInv`
says nothing of reused ids: two workers may hold one, but while one of them buries
it (`BuriedGone`) the mutex keeps the row from coming back.

**The refinement.** `ImplementsLifecycle` says step by step what `LifeOf` makes
of the queue's actions: a submission is `Accept` (of the ids that were absent),
a claim `Start`, `Complete` `Succeed`, `Retry` `FailAgain`. What takes two
statements shows as one step, `GiveUp` or `Reopen`, at the INSERT: until then the
thread in between stands for the row it has deleted. Everything else leaves
every life as it is. So
`AttemptsBounded`, which is an induction over the five steps of an abstract
life, holds of the tables.

**Time.** Cron's step rounds up to a multiple, and its second of a minute is
this minute's or the next's; between now and either there is no other named
instant. Backoff doubles while the exponent is below its clamp, and twice a base
delay is more than the base delay and a jitter below it. The powers are those up
to the clamp, so there is no induction.

**The scheduler.** The theorem is about submissions, `SELECT` being long ago
when they come. `TickInv` says what a tick may rely on in between: the jobs it
still has to do are due at the instant it read, its last INSERT is of that
instant, and the clock has not gone back. `WaitInv` is that a job outside its
INSERT and UPDATE runs next a period after it last ran; it is kept because the
next run is counted from the same instant as the task id.

**The guardian's** first invariants are inductive with the types: reports only
add, so the total comes back under the limit only together with the flag, and
until a restart that total is all that was spent (`RevokedOverTotal`); and
between a change and its persisting the handler is inside the mutex. For
`OvershootBounded` what agents hold cleared is counted (`Outstanding`, the
number of cleared units, which is the sum of the estimates without a recursion).
A preflight clears an agent only within the limit, and at that moment the others
hold at most a largest cost each. A restart zeroes the total while agents go on.
`Exposure` therefore adds what one life of the process can do to the next: what
agents hold alone is never more than one life grants (`OneLife`), and what the
restarts have forgotten is no more than the lives before this one granted
(`Forgotten`).

**The locks.** A thread holds exactly those mutexes whose next operation on the
rest of its path is an unlock (`LockInv`). Thereby the invariant speaks of paths
only, and it is enough that every path of every handler is tidy: each mutex is locked
and unlocked in turn (`Alternates`), and any but the guardian's is unlocked right
after it was locked (`Tight`). `Whole...` lemmas prove that of
the pieces handlers are made of and of their concatenation.
`NoCircularWait` is the consequence: who waits for the guardian waits for one
who waits for no guardian, and who waits for another mutex waits for one who
waits for nothing.

**The bridges'.** That a reply is delivered once more than answers were lost, and
not oftener, needs to know where its last delivery is known: in the hands of the
one worker that has sent it (`Carried`), or nowhere any more because it is
completed (`Arrived`). `Deliveries` is then an equation that every turn of the
retry loop keeps. `Counted` relates the hub's saturating counters to the
failures in a row. A turn that succeeds and one that fails are proved together
(`TurnInv`). `SendsBounded` adds the turns of the loop (`Tries`) and an equation
for what was sent (`Sends`). For the inbound side, `Windows` equates the count
of a bridge's minute with the events let in during it, up to the limit, past
which it no longer counts events but calls, and saturates; the two bounds of
`RateBounded` and `OnlyExcessRefused` are both read off it. `Followed` says that
a row and a worker's copy are of an event queued under that id, so that whoever
completes a row by id has handled one of its events.

**The journal's.** `DecidedAsShown` alone is not inductive: a decision comes from
a page that may be old. `PagesTrue` is what keeps it right: whatever a page shows
was asked for under that id, and still is what the id stands for, because the
INSERT of an id that exists changes nothing and no statement deletes a request.
A client that was shown nothing has named the id, which is what the property says
of it. The same two facts give `NeverReopened`. `EntriesKept` is that ids are made of
book, task and millisecond (`IdOfExact`), every row was written (`RowsWritten`),
and every entry that was written finds a row under its id (`WrittenFound`).
`BufferIsAudited` follows an entry of the buffer by its serial: from the push on
its thread is underway with it (`Writing` says that only a thread with an audit
entry to write has a serial), and at the INSERT either its row is added, or the id
existed, and then with a row of the audit log made in the same millisecond
(`IdOfExact`, `RowsWritten`). Rows are never removed, so that all three stay as
they are.

**The memory store's.** Every statement of an ingestion commits by itself, so
between two of them the tables must already be right. `HolderRecord` says that
only one client is storing, and that the record under its id is the one it
stored, whose text the next chunk is of; the cascade (`Without`) does the rest.
For the other two, `HolderRun` says that the client has stored exactly the chunks
before its `next`, and `PromisesRun` that what was answered is the run of all of
them. `AnsweredWhole` is then about one text (`RunKeeps`). A byte is in exactly one
chunk, its position divided by the size, at least the smallest size (`CountExact`,
`ChunkFacts`). So a character whose bytes fall into one chunk is whole in that one
and in no other, and one whose bytes fall into several is whole in none
(`ChunkCharacters`).

### Only model-checked

Every invariant and action property of the passing runs is proved. Liveness
stays with TLC: `Settles`, `Answered`, `DueJobsRun` and the liveness half of the refinement (`ImplementsLifecycleFairly`) rest on
fairness, whose definition contains ENABLED, which the provers do not support;
the safety half of the refinement is `ImplementsLifecycle`.

## 5. What is not modelled

* **Skill runtime** (`skill/`): no handler of the service calls it, and a call
  keeps no state. Its one hazard, a skill that runs on after its timeout, is in
  the list of hazards without a property.
* **Configuration, models, router, `main`**: constants, serde types and start-up.
* **`InMemoryStore`** of `memory/mod.rs`: the service uses the SQLite one.
* HTTP, signatures, JSON and websockets are I/O; hashing into embeddings and
  the ranking of what is retrieved are floating point; texts of errors, actors,
  reasons, sessions and sources are data no property tells apart.

## 6. Plan

1. `Orchestrator`: `Scheduler` and `TaskQueue` composed, in place of the any-set
   abstraction of `SchedulerTick`, and the proof that a tick of the composition is
   one that `TaskQueue` allows.
2. With it, `AtLeastOnce` up to the settled task: a due job's task is queued
   before its next run moves on, and is then not lost without a fault.
