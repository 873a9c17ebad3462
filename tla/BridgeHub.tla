----------------------------- MODULE BridgeHub -----------------------------
(***************************************************************************)
(* The bridges to Telegram and WhatsApp (crates/ultra-core/src/bridges)    *)
(* with the handlers and the part of the worker's cycle that use them      *)
(* (app.rs).                                                               *)
(*                                                                         *)
(* Inbound, a webhook passes the rate limit under the hub's mutex, names a *)
(* task after the second it then reads, and puts it in the queue.          *)
(* Outbound, a worker that claimed a reply sends it in a retry loop, under *)
(* the hub's mutex from the first attempt to the last.  The life of a      *)
(* reply in the queue is the one TaskLifecycle promises; one that is       *)
(* requeued from among the dead is a reply of its own here.                *)
(*                                                                         *)
(* A webhook with a wrong signature changes nothing and is left out; its   *)
(* payload is always well-formed JSON (the handlers serialize it).         *)
(* Counters that only count and last_error are left out.  A restart begins *)
(* a behaviour of its own: the hub is new, and what becomes of the rows of *)
(* the queue is in TaskQueue.                                              *)
(***************************************************************************)
EXTENDS Integers, FiniteSets

CONSTANTS
    Webhooks,        \* threads that handle webhooks
    Workers,         \* threads that run tasks
    Replies,         \* ids of bridge.reply tasks
    MaxAttempts,     \* the max_attempts values they are queued with
    Messages,        \* what they say: a bridge, and whether the text is blank
    Configured,      \* the bridges that have a token
    Limit,           \* rate_limit_per_minute
    MaxRetries,      \* outbound_max_retries
    Minute,          \* seconds in a minute; 60
    U32Max,          \* 2^32 - 1
    DegradedAt,      \* failures in a row that make a bridge degraded; 3
    MaxNow,          \* bound of the clock
    MaxCalls,        \* bound: webhook calls with a good signature
    MaxErrors,       \* bound: number of failing INSERTs
    None             \* no row, no reply

Bridges == {"telegram", "whatsapp"}

\* A reply may name any bridge; "other" stands for those that do not exist.
Names == Bridges \cup {"other"}

ASSUME BridgeAssumption ==
    /\ Configured \subseteq Bridges
    /\ Minute \in Nat \ {0}
    /\ U32Max \in Nat /\ DegradedAt \in 1..U32Max
    /\ Limit \in 0..(U32Max - 1)
    /\ MaxRetries \in Nat /\ MaxNow \in Nat /\ MaxCalls \in Nat
    /\ MaxErrors \in Nat /\ MaxAttempts \subseteq Nat
    /\ Messages \subseteq [to : Names, blank : BOOLEAN]

VARIABLES
    now,         \* the wall clock, in seconds
    window,      \* rate_counters: minute and count of each bridge
    failures,    \* consecutive_failures of each bridge's metrics
    life,        \* the replies in the queue: see TaskLifecycle
    message,     \* what each reply is: its bridge, whether its text is blank
    inbox,       \* the bridge.inbound rows of task_queue
    hook,        \* where each webhook is, with its bridge, event and second
    pc,          \* where each worker is
    job,         \* the task it claimed
    copy,        \* the event in its copy of an inbound task
    try,         \* the attempts of its retry loop so far
    calls,       \* webhook calls so far; numbers the events
    errors,      \* failed INSERTs so far
    events,      \* history: the events let in by the rate limit
    queued,      \* history: the events put in the queue
    handled,     \* history: the events whose task was completed, or given up
    sends,       \* history: attempts to send each reply
    delivered,   \* history: how often each reply reached its bridge
    unanswered,  \* history: deliveries reported to the hub as failures
    streak       \* history: failed attempts at each bridge name since the
                 \* last that succeeded

hub == <<window, failures>>
replies == <<life, message>>
workers == <<pc, job, copy, try>>
inbound == <<events, queued, handled>>
outbound == <<sends, delivered, unanswered, streak>>
vars == <<now, hub, replies, inbox, hook, workers, calls, errors, inbound,
          outbound>>

Second == 0..MaxNow
InboundId == Bridges \X Second
InboundRow == [event : 1..MaxCalls, running : BOOLEAN]

ASSUME NoneAssumption ==
    None \notin Messages \cup Replies \cup InboundId \cup InboundRow

Idle == [stage |-> "idle"]

Queue == INSTANCE TaskLifecycle WITH TaskId <- Replies

\* send_outbound_with_retry keeps the mutex between its attempts.
HubFree == \A w \in Workers : pc[w] # "sending"

Init ==
    /\ now = 0
    /\ window = [b \in Bridges |-> [minute |-> 0, count |-> 0]]
    /\ failures = [b \in Bridges |-> 0]
    /\ Queue!Init
    /\ message = [r \in Replies |-> None]
    /\ inbox = [id \in InboundId |-> None]
    /\ hook = [h \in Webhooks |-> Idle]
    /\ pc = [w \in Workers |-> "idle"]
    /\ job = [w \in Workers |-> None]
    /\ copy = [w \in Workers |-> 0]
    /\ try = [w \in Workers |-> 0]
    /\ calls = 0
    /\ errors = 0
    /\ events = {}
    /\ queued = {}
    /\ handled = {}
    /\ sends = [r \in Replies |-> 0]
    /\ delivered = [r \in Replies |-> 0]
    /\ unanswered = [r \in Replies |-> 0]
    /\ streak = [n \in Names |-> 0]

Tick ==
    /\ now < MaxNow
    /\ now' = now + 1
    /\ UNCHANGED <<hub, replies, inbox, hook, workers, calls, errors, inbound,
                   outbound>>

-----------------------------------------------------------------------------
(* Inbound.                                                                *)

\* Faulty variant: the count outgrows its width.
IncrementUnsaturated(n) == n + 1

\* Faulty variant: the count wraps.
IncrementWrapping(n) == (n + 1) % (U32Max + 1)

\* u32::saturating_add(1).
Increment(n) == IF n = U32Max THEN n ELSE n + 1

\* Faulty variant: the count of the minute before is kept.
CountKept(b) == window[b].count

\* The count of this minute before the call, zero in a new minute.
CountNow(b) == IF window[b].minute = now \div Minute THEN window[b].count ELSE 0

\* ingest_telegram_webhook, ingest_whatsapp_webhook: a call over the limit is
\* counted and refused, another leaves with the event it was turned into.
Ingest(h, b) ==
    LET count == Increment(CountNow(b))
        event == [n |-> calls + 1, bridge |-> b, at |-> now]
    IN  /\ hook[h] = Idle
        /\ HubFree
        /\ calls < MaxCalls
        /\ calls' = calls + 1
        /\ window' = [window EXCEPT ![b] = [minute |-> now \div Minute,
                                            count  |-> count]]
        /\ IF count > Limit
           THEN UNCHANGED <<hook, events>>
           ELSE /\ hook' = [hook EXCEPT ![h] =
                              [stage |-> "accepted", event |-> event]]
                /\ events' = events \cup {event}
        /\ UNCHANGED <<now, failures, replies, inbox, workers, errors, queued,
                       handled, outbound>>

\* The task's id is made of the second the handler reads once out of the hub.
NameTask(h) ==
    /\ hook[h].stage = "accepted"
    /\ hook' = [hook EXCEPT ![h] =
                    [stage |-> "named", event |-> [hook[h].event EXCEPT !.at = now]]]
    /\ UNCHANGED <<now, hub, replies, inbox, workers, calls, errors, inbound,
                   outbound>>

\* Faulty variant: the WhatsApp handler, a copy of the other, kept its name.
TaskIdOfTelegram(b, second) == <<"telegram", second>>

\* "bridge-inbound-<bridge>-<second>"
TaskIdOf(b, second) == <<b, second>>

\* INSERT OR REPLACE of the task, in status pending, and the answer 200.
EnqueueEvent(h) ==
    LET event == hook[h].event
        id == TaskIdOf(event.bridge, event.at)
    IN  /\ hook[h].stage = "named"
        /\ inbox' = [inbox EXCEPT ![id] = [event |-> event.n, running |-> FALSE]]
        /\ queued' = queued \cup
              {[n |-> event.n, bridge |-> event.bridge, at |-> event.at, id |-> id]}
        /\ hook' = [hook EXCEPT ![h] = Idle]
        /\ UNCHANGED <<now, hub, replies, workers, calls, errors, events, handled,
                       outbound>>

\* `let _ =`: the INSERT fails and the webhook answers 200 with a task id.
EnqueueError(h) ==
    /\ hook[h].stage = "named"
    /\ errors < MaxErrors
    /\ errors' = errors + 1
    /\ hook' = [hook EXCEPT ![h] = Idle]
    /\ UNCHANGED <<now, hub, replies, inbox, workers, calls, inbound, outbound>>

\* A worker claims the task of an event and has a copy of its payload.
ClaimEvent(w, id) ==
    /\ pc[w] = "idle"
    /\ inbox[id] # None
    /\ ~inbox[id].running
    /\ inbox' = [inbox EXCEPT ![id].running = TRUE]
    /\ pc' = [pc EXCEPT ![w] = "inbound"]
    /\ job' = [job EXCEPT ![w] = id]
    /\ copy' = [copy EXCEPT ![w] = inbox[id].event]
    /\ UNCHANGED <<now, hub, replies, hook, try, calls, errors, inbound, outbound>>

LetGo(w) ==
    /\ pc' = [pc EXCEPT ![w] = "idle"]
    /\ job' = [job EXCEPT ![w] = None]
    /\ copy' = [copy EXCEPT ![w] = 0]
    /\ try' = [try EXCEPT ![w] = 0]

\* complete_task deletes by id, whatever event the row then is of; so does
\* fail_task at the last attempt, which keeps the copy among the dead letters.
CompleteEvent(w) ==
    /\ pc[w] = "inbound"
    /\ inbox' = [inbox EXCEPT ![job[w]] = None]
    /\ handled' = handled \cup {copy[w]}
    /\ LetGo(w)
    /\ UNCHANGED <<now, hub, replies, hook, calls, errors, events, queued, outbound>>

\* An earlier attempt that fails (a text with "fail" in it) only changes the
\* row under the id, if there is one.
RetryEvent(w) ==
    /\ pc[w] = "inbound"
    /\ inbox' = IF inbox[job[w]] = None THEN inbox
                ELSE [inbox EXCEPT ![job[w]].running = FALSE]
    /\ LetGo(w)
    /\ UNCHANGED <<now, hub, replies, hook, calls, errors, inbound, outbound>>

-----------------------------------------------------------------------------
(* Outbound.                                                               *)

SubmitReply(r) ==
    /\ message[r] = None
    /\ Queue!Accept({r})
    /\ \E m \in Messages : message' = [message EXCEPT ![r] = m]
    /\ UNCHANGED <<now, hub, inbox, hook, workers, calls, errors, inbound, outbound>>

ClaimReply(w, r) ==
    /\ pc[w] = "idle"
    /\ Queue!Start(r)
    /\ pc' = [pc EXCEPT ![w] = "claimed"]
    /\ job' = [job EXCEPT ![w] = r]
    /\ UNCHANGED <<now, hub, message, inbox, hook, copy, try, calls, errors,
                   inbound, outbound>>

\* A blank text is refused before the first attempt.
RefuseBlank(w) ==
    /\ pc[w] = "claimed"
    /\ HubFree
    /\ message[job[w]].blank
    /\ pc' = [pc EXCEPT ![w] = "failed"]
    /\ UNCHANGED <<now, hub, replies, inbox, hook, job, copy, try, calls, errors,
                   inbound, outbound>>

\* An attempt may reach the bridge and still end in an error: a timeout, a
\* connection lost before the answer.  Without a token, or for a bridge that
\* does not exist, none is made, but the loop goes on all the same.
Outcomes(name) ==
    IF name \in Configured THEN {"ok", "refused", "unanswered"} ELSE {"refused"}

\* Faulty variant: each name falls to the other bridge.
MetricsOfAnyBridge(name) == IF name = "whatsapp" THEN "whatsapp" ELSE "telegram"

\* select_metrics_mut: every name but one is WhatsApp's.
MetricsOf(name) == IF name = "telegram" THEN "telegram" ELSE "whatsapp"

\* outbound_max_retries.max(1)
Retries == IF MaxRetries = 0 THEN 1 ELSE MaxRetries

\* Faulty variant: the loop includes its bound.
LastTryInclusive(w) == try[w] = Retries

LastTry(w) == try[w] + 1 = Retries

\* One turn of the retry loop, and what it records; the first takes the mutex.
CanSend(w) ==
    \/ pc[w] = "claimed" /\ HubFree /\ ~message[job[w]].blank
    \/ pc[w] = "sending"

RecordSend(w, outcome) ==
    LET r == job[w]
    IN  /\ sends' = [sends EXCEPT ![r] = @ + 1]
        /\ delivered' = [delivered EXCEPT ![r] = IF outcome = "refused" THEN @ ELSE @ + 1]
        /\ unanswered' = [unanswered EXCEPT ![r] = IF outcome = "unanswered" THEN @ + 1 ELSE @]
        /\ streak' = [streak EXCEPT ![message[r].to] = IF outcome = "ok" THEN 0 ELSE @ + 1]

\* Faulty variant: the loop goes on after the message was accepted.
SendAndGoOn(w) ==
    LET to == message[job[w]].to
    IN  /\ CanSend(w)
        /\ "ok" \in Outcomes(to)
        /\ failures' = [failures EXCEPT ![MetricsOf(to)] = 0]
        /\ pc' = [pc EXCEPT ![w] = IF LastTry(w) THEN "sent" ELSE "sending"]
        /\ try' = [try EXCEPT ![w] = @ + 1]
        /\ RecordSend(w, "ok")
        /\ UNCHANGED <<now, window, replies, inbox, hook, job, copy, calls, errors,
                       inbound>>

SendOk(w) ==
    LET to == message[job[w]].to
    IN  /\ CanSend(w)
        /\ "ok" \in Outcomes(to)
        /\ failures' = [failures EXCEPT ![MetricsOf(to)] = 0]
        /\ pc' = [pc EXCEPT ![w] = "sent"]
        /\ RecordSend(w, "ok")
        /\ UNCHANGED <<now, window, replies, inbox, hook, job, copy, try, calls,
                       errors, inbound>>

SendFails(w) ==
    LET to == message[job[w]].to
    IN  /\ CanSend(w)
        /\ failures' = [failures EXCEPT ![MetricsOf(to)] = Increment(@)]
        /\ try' = [try EXCEPT ![w] = @ + 1]
        /\ pc' = [pc EXCEPT ![w] = IF LastTry(w) THEN "failed" ELSE "sending"]
        /\ \E outcome \in Outcomes(to) \ {"ok"} : RecordSend(w, outcome)
        /\ UNCHANGED <<now, window, replies, inbox, hook, job, copy, calls, errors,
                       inbound>>

\* complete_task or fail_task.
SettleReply(w) ==
    /\ \/ pc[w] = "sent" /\ Queue!Succeed(job[w])
       \/ pc[w] = "failed" /\ (Queue!FailAgain(job[w]) \/ Queue!GiveUp(job[w]))
    /\ LetGo(w)
    /\ UNCHANGED <<now, hub, message, inbox, hook, calls, errors, inbound, outbound>>

-----------------------------------------------------------------------------
Webhook(h) ==
    \/ \E b \in Bridges : Ingest(h, b)
    \/ NameTask(h)
    \/ EnqueueEvent(h)
    \/ EnqueueError(h)

Work(w) ==
    \/ \E id \in InboundId : ClaimEvent(w, id)
    \/ CompleteEvent(w)
    \/ RetryEvent(w)
    \/ \E r \in Replies : ClaimReply(w, r)
    \/ RefuseBlank(w)
    \/ SendOk(w)
    \/ SendFails(w)
    \/ SettleReply(w)

Next ==
    \/ Tick
    \/ \E h \in Webhooks : Webhook(h)
    \/ \E r \in Replies : SubmitReply(r)
    \/ \E w \in Workers : Work(w)

Spec == Init /\ [][Next]_vars

-----------------------------------------------------------------------------
(* Properties.                                                             *)

Event == [n : 1..MaxCalls, bridge : Bridges, at : Second]

\* The hub, the queue's rows, and who holds what.
TypeOK ==
    /\ now \in Second
    /\ window \in [Bridges -> [minute : Nat, count : 0..U32Max]]
    /\ failures \in [Bridges -> 0..U32Max]
    /\ life \in [Replies -> Queue!Life]
    /\ message \in [Replies -> Messages \cup {None}]
    /\ inbox \in [InboundId -> InboundRow \cup {None}]
    /\ hook \in [Webhooks -> {Idle} \cup [stage : {"accepted", "named"}, event : Event]]
    /\ \A w \in Workers :
          /\ pc[w] = "idle" <=> job[w] = None
          /\ pc[w] = "inbound" => job[w] \in InboundId /\ copy[w] \in 1..MaxCalls
          /\ pc[w] \in {"claimed", "sending", "sent", "failed"} =>
                job[w] \in Replies /\ try[w] <= Retries
    /\ events \subseteq Event

LetIn(b, seconds) == Cardinality({e \in events : e.bridge = b /\ e.at \in seconds})

(***************************************************************************)
(* The rate limit, as a client of the queue meets it: no more than Limit   *)
(* events of a bridge in a minute of the clock, and no more than twice     *)
(* that in any minute, wherever it begins; however many calls are made and *)
(* whatever the count does at the limit of its width.                      *)
(***************************************************************************)
RateBounded ==
    \A b \in Bridges, s \in Second :
        /\ LetIn(b, {t \in Second : t \div Minute = s \div Minute}) <= Limit
        /\ LetIn(b, s..(s + Minute - 1)) <= 2 * Limit

(***************************************************************************)
(* And nobody is shut out: a call is refused only if Limit events of its   *)
(* bridge were let in within the same minute of the clock; calls refused   *)
(* in an earlier minute, and calls of the other bridge, do not count.      *)
(***************************************************************************)
OnlyExcessRefused ==
    [][\A h \in Webhooks, b \in Bridges :
          /\ Ingest(h, b) /\ events' = events
          => LetIn(b, {t \in Second : t \div Minute = now \div Minute}) = Limit]_vars

(***************************************************************************)
(* Of the events a bridge delivered under one task id (those named in one  *)
(* second), one at least is in the queue, or was run, or was given up      *)
(* after its attempts, whatever INSERT OR REPLACE and changes by id do to  *)
(* the others.  An event that is alone in its second is therefore never    *)
(* lost once it is queued: not to the other bridge, not to a slow worker.  *)
(***************************************************************************)
EventsKept ==
    \A b \in Bridges, s \in Second :
        LET named == {q \in queued : q.bridge = b /\ q.at = s}
        IN  named # {} =>
              \E q \in named : \/ q.n \in handled
                               \/ inbox[q.id] # None /\ inbox[q.id].event = q.n

(***************************************************************************)
(* What GET /bridges/health says: Telegram is "degraded" exactly if the    *)
(* last DegradedAt attempts at it have failed; a failing WhatsApp is never *)
(* shown healthy.  (The converse fails for WhatsApp: replies to a bridge   *)
(* that does not exist are counted there.)                                 *)
(***************************************************************************)
Degraded(b) == failures[b] >= DegradedAt

HealthIsTrue ==
    /\ Degraded("telegram") <=> streak["telegram"] >= DegradedAt
    /\ streak["whatsapp"] >= DegradedAt => Degraded("whatsapp")

(***************************************************************************)
(* The two retry loops, one in the hub and one in the queue, multiply: a   *)
(* reply is attempted at most Retries times per claim, and one that is     *)
(* given up was attempted Retries * max_attempts times, unless it is blank *)
(* and never was.                                                          *)
(***************************************************************************)
SendsBounded ==
    \A r \in Replies :
        /\ life[r].stage \in {"waiting", "dead"} =>
              sends[r] = IF message[r].blank THEN 0 ELSE Retries * life[r].attempts
        /\ life[r].stage = "running" => sends[r] <= Retries * (life[r].attempts + 1)

(***************************************************************************)
(* At least once: a reply that was completed has reached its bridge.  More *)
(* than once only if an answer was lost: every delivery but the last was   *)
(* reported to the hub as a failure.                                       *)
(***************************************************************************)
Completed(r) == message[r] # None /\ life[r].stage = "absent"

DeliveredAtLeastOnce ==
    \A r \in Replies :
        /\ Completed(r) => delivered[r] >= 1
        /\ delivered[r] <= unanswered[r] + 1
=============================================================================
