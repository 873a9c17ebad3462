------------------------------ MODULE Journal ------------------------------
(***************************************************************************)
(* What the service writes down: the requests for approval and their       *)
(* decisions (approval_events), the audit log (audit_logs), the timelines  *)
(* of tasks (task_timeline) and the ring buffer of recent actions          *)
(* (observability/mod.rs), by threads that handle requests and run tasks.  *)
(*                                                                         *)
(* An action that is logged is pushed to the buffer under its mutex; then  *)
(* its thread reads the millisecond that makes its id; then it waits for   *)
(* the store.  The INSERT of an id that exists fails, and the error is     *)
(* discarded.  Each push has a serial number here (the program has none),  *)
(* so that an entry of the buffer can be told from another of the same     *)
(* action.                                                                 *)
(*                                                                         *)
(* Operators have the approval page open: they decide on what it showed    *)
(* when it was last loaded.  Decisions may also be posted on any id, by    *)
(* clients that saw no page.  Texts, actors and reasons are left out.      *)
(***************************************************************************)
EXTENDS Integers, Sequences, FiniteSets

CONSTANTS
    Threads,        \* threads that handle requests and run tasks
    Operators,      \* people with the approval page open
    Actions,        \* actions agents ask permission for
    Sensitive,      \* those with a sensitive keyword in them
    Tasks,          \* ids of tasks that have a timeline
    Capacity,       \* of the ring buffer; 500
    PageSize,       \* pending requests a page shows; 200
    PerSecond,      \* milliseconds in a second; 1000
    MaxMillis,      \* bound of the clock
    MaxRequests,    \* bound: requests, decisions among them
    MaxFaults,      \* bound: crashes and failing INSERTs
    None            \* no row

ASSUME JournalAssumption ==
    /\ Sensitive \subseteq Actions
    /\ Capacity \in Nat \ {0} /\ PageSize \in Nat \ {0} /\ PerSecond \in Nat \ {0}
    /\ MaxMillis \in Nat /\ MaxRequests \in Nat /\ MaxFaults \in Nat

VARIABLES
    millis,       \* the wall clock, in milliseconds
    logs,         \* LogBuffer.entries
    books,        \* the rows of audit_logs and task_timeline
    approvals,    \* table approval_events, by the millisecond in its ids
    todo,         \* what each thread still has to write
    stage,        \* how far it is with the first of it
    stamp,        \* the millisecond in that entry's id
    serial,       \* history: the serial of that entry's push, or 0
    page,         \* the rows each operator's page shows
    requests,     \* requests so far
    faults,       \* faults so far
    pushes,       \* history: pushes so far
    written,      \* history: the entries whose INSERT was tried
    verdicts      \* history: the decisions that found their request

tables == <<books, approvals>>
threads == <<todo, stage, stamp, serial>>
history == <<pushes, written, verdicts>>
vars == <<millis, logs, tables, threads, page, requests, faults, history>>

Millis == 0..MaxMillis
Decision == {"pending", "approved", "rejected"}

Subject == Actions \cup Tasks \cup {None}

\* What a thread writes: an entry of some book, about a task or an action.
Item == [book : {"audit", "shutdown", "timeline", "approval"}, about : Subject]

\* An entry of the buffer.
Pushed == [about : Actions \cup Tasks, serial : Nat]

\* A row of approval_events.
Approval == [action : Subject, decision : Decision]

ASSUME NoneAssumption == None \notin Approval

Log(about) == [book |-> "audit", about |-> about]
Shutdown == [book |-> "shutdown", about |-> None]
Stage(task) == [book |-> "timeline", about |-> task]
AskFor(action) == [book |-> "approval", about |-> action]

Init ==
    /\ millis = 0
    /\ logs = <<>>
    /\ books = {}
    /\ approvals = [m \in Millis |-> None]
    /\ todo = [t \in Threads |-> <<>>]
    /\ stage = [t \in Threads |-> "next"]
    /\ stamp = [t \in Threads |-> 0]
    /\ serial = [t \in Threads |-> 0]
    /\ page = [o \in Operators |-> {}]
    /\ requests = 0
    /\ faults = 0
    /\ pushes = 0
    /\ written = {}
    /\ verdicts = {}

Tick ==
    /\ millis < MaxMillis
    /\ millis' = millis + 1
    /\ UNCHANGED <<logs, tables, threads, page, requests, faults, history>>

-----------------------------------------------------------------------------
(* Requests.                                                               *)

\* requires_human_approval
RequiresApproval(action) == action \in Sensitive

Begin(t, items) ==
    /\ todo[t] = <<>>
    /\ requests < MaxRequests
    /\ requests' = requests + 1
    /\ todo' = [todo EXCEPT ![t] = items]
    /\ UNCHANGED <<millis, logs, tables, stage, stamp, serial, page, faults, history>>

PermissionCheck(t, action) ==
    Begin(t, IF RequiresApproval(action) 
             THEN <<AskFor(action), Log(action)>> ELSE <<Log(action)>>)

\* queue_enqueue, the webhooks: an entry of the task's timeline and of the log.
SubmitTask(t, task) == Begin(t, <<Stage(task), Log(task)>>)

\* A worker's cycle with a task: claimed, finished, logged; or claimed and no
\* more, when the payload does not parse or the outcome cannot be stored.
RunTask(t, task) ==
    \/ Begin(t, <<Stage(task), Stage(task), Log(task)>>)
    \/ Begin(t, <<Stage(task)>>)

\* begin_shutdown writes to the table only, under an id of its own kind.
BeginShutdown(t) == Begin(t, <<Shutdown>>)

-----------------------------------------------------------------------------
(* Writing an entry.                                                       *)

\* Faulty variant: room is made only after the buffer was over its capacity.
PushLate(buffer, e) ==
    Append(IF Len(buffer) > Capacity THEN Tail(buffer) ELSE buffer, e)

\* LogBuffer::push
Push(buffer, e) ==
    Append(IF Len(buffer) >= Capacity THEN Tail(buffer) ELSE buffer, e)

NextItem(t) ==
    /\ todo' = [todo EXCEPT ![t] = Tail(@)]
    /\ stage' = [stage EXCEPT ![t] = "next"]
    /\ stamp' = [stamp EXCEPT ![t] = 0]
    /\ serial' = [serial EXCEPT ![t] = 0]

ToLog(t) == todo[t] # <<>> /\ Head(todo[t]).book = "audit"

\* log_action, under the mutex of the buffer.
PushLog(t) ==
    /\ ToLog(t)
    /\ stage[t] = "next"
    /\ pushes' = pushes + 1
    /\ serial' = [serial EXCEPT ![t] = pushes + 1]
    /\ logs' = Push(logs, [about |-> Head(todo[t]).about, serial |-> pushes + 1])
    /\ stage' = [stage EXCEPT ![t] = "pushed"]
    /\ UNCHANGED <<millis, tables, todo, stamp, page, requests, faults, written, verdicts>>

\* The first entry is to get its id: at once, or after the push.
Unstamped(t) ==
    /\ todo[t] # <<>>
    /\ stage[t] = IF ToLog(t) THEN "pushed" ELSE "next"

\* Faulty variant: try_lock, and no entry when another thread has the store.
StampIfStoreIsFree(t) ==
    /\ Unstamped(t)
    /\ IF \E u \in Threads : stage[u] = "stamped"
       THEN NextItem(t)
       ELSE /\ stamp' = [stamp EXCEPT ![t] = millis]
            /\ stage' = [stage EXCEPT ![t] = "stamped"]
            /\ UNCHANGED <<todo, serial>>
    /\ UNCHANGED <<millis, logs, tables, page, requests, faults, history>>

\* The id is made of now_millis(), read before the wait for the store.
StampEntry(t) ==
    /\ Unstamped(t)
    /\ stamp' = [stamp EXCEPT ![t] = millis]
    /\ stage' = [stage EXCEPT ![t] = "stamped"]
    /\ UNCHANGED <<millis, logs, tables, todo, serial, page, requests, faults, history>>

\* Faulty variant: the timelines of all tasks share their ids.
IdOfStage(item, m) == <<item.book, m>>

\* "audit-<ms>", "audit-shutdown-<ms>", "timeline-<task>-<ms>"
IdOf(item, m) ==
    IF item.book = "timeline" THEN <<item.book, item.about, m>> ELSE <<item.book, m>>

\* Faulty variant: INSERT OR REPLACE, as in the other tables.
InsertOrReplaceApproval(action, m) ==
    approvals' = [approvals EXCEPT ![m] = [action |-> action, decision |-> "pending"]]

\* append_approval_event: "approval-<ms>", pending.
InsertApproval(action, m) ==
    approvals' =
        IF approvals[m] # None THEN approvals
        ELSE [approvals EXCEPT ![m] = [action |-> action, decision |-> "pending"]]

\* append_audit_log, append_task_timeline
InsertEntry(item, m, n) ==
    books' = IF \E row \in books : row.id = IdOf(item, m) THEN books
             ELSE books \cup {[id |-> IdOf(item, m), item |-> item, at |-> m, serial |-> n]}

InsertRow(t) ==
    LET item == Head(todo[t])
        m == stamp[t]
    IN  /\ stage[t] = "stamped"
        /\ IF item.book = "approval"
           THEN InsertApproval(item.about, m) /\ UNCHANGED books
           ELSE InsertEntry(item, m, serial[t]) /\ UNCHANGED approvals
        /\ written' = written \cup {[item |-> item, at |-> m, serial |-> serial[t]]}
        /\ NextItem(t)
        /\ UNCHANGED <<millis, logs, page, requests, faults, pushes, verdicts>>

-----------------------------------------------------------------------------
(* Approvals.                                                              *)

Pending == {m \in Millis : approvals[m] # None /\ approvals[m].decision = "pending"}

\* list_pending_approvals: the newest by the second they were made in; SQLite
\* may order those of one second as it likes.
ListPending ==
    {S \in SUBSET Pending :
        /\ Cardinality(S) <= PageSize
        /\ Cardinality(S) < PageSize => S = Pending
        /\ \A m \in S, old \in Pending \ S : m \div PerSecond >= old \div PerSecond}

\* The page loads every three seconds and after each decision.
LoadPage(o) ==
    /\ \E S \in ListPending :
          page' = [page EXCEPT ![o] = {[id |-> m, action |-> approvals[m].action] : m \in S}]
    /\ UNCHANGED <<millis, logs, tables, threads, requests, faults, history>>

\* Faulty variant: the WHERE names no id.
SetDecisionOfAll(m, decision) ==
    [k \in Millis |-> IF k \in Pending THEN [approvals[k] EXCEPT !.decision = decision]
                      ELSE approvals[k]]

\* UPDATE ... WHERE id, whatever the decision was before.
SetDecision(m, decision) == [approvals EXCEPT ![m].decision = decision]

\* approval_decision, by a client that was shown this action, or none.  A
\* request may be decided twice, or by two clients; an id without a row is 404,
\* and nothing changes or is logged.
Decide(t, m, shown, decision) ==
    /\ todo[t] = <<>>
    /\ requests < MaxRequests
    /\ requests' = requests + 1
    /\ \/ /\ approvals[m] # None
          /\ approvals' = SetDecision(m, decision)
          /\ verdicts' = verdicts \cup {[id |-> m, shown |-> shown, decision |-> decision]}
          /\ todo' = [todo EXCEPT ![t] = <<Log(approvals[m].action)>>]
       \/ /\ approvals[m] = None
          /\ UNCHANGED <<approvals, verdicts, todo>>
    /\ UNCHANGED <<millis, logs, books, stage, stamp, serial, page, faults, pushes, written>>

\* A button of an open page, which may be older than other decisions.
DecideOnPage(t, o, decision) ==
    \E row \in page[o] : Decide(t, row.id, row.action, decision)

\* A POST of any id.
DecideUnseen(t, decision) == \E m \in Millis : Decide(t, m, None, decision)

-----------------------------------------------------------------------------
(* Faults.                                                                 *)

Suffer == faults < MaxFaults /\ faults' = faults + 1

\* The INSERT fails; `let _ =`.
InsertError(t) ==
    /\ Suffer
    /\ stage[t] = "stamped"
    /\ NextItem(t)
    /\ UNCHANGED <<millis, logs, tables, page, requests, history>>

\* The process dies and is restarted: the buffer is gone, the tables stay, and
\* so do the pages in the operators' browsers.
Crash ==
    /\ Suffer
    /\ logs' = <<>>
    /\ todo' = [t \in Threads |-> <<>>]
    /\ stage' = [t \in Threads |-> "next"]
    /\ stamp' = [t \in Threads |-> 0]
    /\ serial' = [t \in Threads |-> 0]
    /\ UNCHANGED <<millis, tables, page, requests, history>>

-----------------------------------------------------------------------------
Request(t) ==
    \/ \E action \in Actions : PermissionCheck(t, action)
    \/ \E task \in Tasks : SubmitTask(t, task) \/ RunTask(t, task)
    \/ BeginShutdown(t)

Verdict(t) ==
    \E decision \in {"approved", "rejected"} :
        (\E o \in Operators : DecideOnPage(t, o, decision)) \/ DecideUnseen(t, decision)

Write(t) == PushLog(t) \/ StampEntry(t) \/ InsertRow(t)

Next ==
    \/ Tick
    \/ \E t \in Threads : Request(t) \/ Verdict(t) \/ Write(t) \/ InsertError(t)
    \/ \E o \in Operators : LoadPage(o)
    \/ Crash

Spec == Init /\ [][Next]_vars

-----------------------------------------------------------------------------
(* Properties.                                                             *)

TypeOK ==
    /\ millis \in Millis
    /\ logs \in Seq(Pushed) /\ Len(logs) <= Capacity
    /\ \A m \in Millis : approvals[m] # None =>
          approvals[m].action \in Sensitive /\ approvals[m].decision \in Decision
    /\ \A t \in Threads :
          /\ todo[t] \in Seq(Item)
          /\ stage[t] \in {"next", "pushed", "stamped"} /\ stamp[t] \in 0..millis
          /\ stage[t] # "next" => todo[t] # <<>>
    /\ \A a, b \in books : a.id = b.id => a = b

(***************************************************************************)
(* Of the entries of one book, about one task, made in one millisecond,    *)
(* one is kept.  So an entry that is alone in its millisecond is in its    *)
(* table, whatever other threads write in between; what is lost without a  *)
(* word is a second entry of the same kind in the same millisecond.  (For  *)
(* approvals that second one is a sensitive action nobody is asked about.) *)
(***************************************************************************)
Kept(w) ==
    IF w.item.book = "approval"
    THEN approvals[w.at] # None /\ approvals[w.at].action = w.item.about
    ELSE \E row \in books :
            row.item = w.item /\ row.at = w.at /\ row.serial = w.serial

EntriesKept ==
    \A w \in written :
        \E v \in written :
            /\ Kept(v)
            /\ v.at = w.at
            /\ v.item.book = w.item.book
            /\ w.item.book = "timeline" => v.item.about = w.item.about

(***************************************************************************)
(* What GET /observability/actions shows is in the audit log: each entry   *)
(* of the buffer has its row, or its thread is still on its way to the     *)
(* table, though threads take the buffer and the table in different        *)
(* orders.  The one excuse is that the INSERT was refused because another  *)
(* action had its row under the same millisecond; nothing tells which      *)
(* entries of the buffer those are.  (Until an INSERT fails otherwise.)    *)
(***************************************************************************)
Rowed(e) == \E row \in books : row.item = Log(e.about) /\ row.serial = e.serial

Underway(e) ==
    \E t \in Threads :
        /\ stage[t] # "next"
        /\ Head(todo[t]) = Log(e.about)
        /\ serial[t] = e.serial

Refused(e) ==
    \E w \in written :
        /\ w.item = Log(e.about) /\ w.serial = e.serial
        /\ \E row \in books : row.item.book = "audit" /\ row.at = w.at

BufferIsAudited ==
    faults = 0 =>
        \A i \in DOMAIN logs : Rowed(logs[i]) \/ Underway(logs[i]) \/ Refused(logs[i])

(***************************************************************************)
(* A request that was decided was decided by a client that named it, and   *)
(* whose page, if it came from one, showed it with this action: no         *)
(* decision falls on a request that nobody decided, nor, however old the   *)
(* page is, on one that took the id of another since.                      *)
(***************************************************************************)
DecidedAsShown ==
    \A m \in Millis :
        approvals[m] # None /\ approvals[m].decision # "pending" =>
            \E v \in verdicts :
                /\ v.id = m
                /\ v.shown \in {approvals[m].action, None}
                /\ v.decision = approvals[m].decision

\* What makes it inductive: a page may be old, but what it shows was asked for
\* under that id, and still is what the id stands for.
PagesTrue ==
    \A o \in Operators : \A row \in page[o] :
        approvals[row.id] # None /\ approvals[row.id].action = row.action

IInv == DecidedAsShown /\ PagesTrue

(***************************************************************************)
(* A decision may be overruled, by a page that is older than it or by a    *)
(* POST of its id, but it is never forgotten: a decided request does not   *)
(* become pending again, nor does its id come to stand for another action. *)
(***************************************************************************)
NeverReopened ==
    [][\A m \in Millis : approvals[m] # None =>
          /\ approvals'[m] # None
          /\ approvals'[m].action = approvals[m].action
          /\ approvals[m].decision # "pending" => approvals'[m].decision # "pending"]_vars
=============================================================================
