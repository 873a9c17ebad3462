--------------------------- MODULE JournalProofs ---------------------------
(***************************************************************************)
(* Proofs about the approvals of Journal, for every set of threads,        *)
(* operators, actions and tasks, and every number of requests and faults.  *)
(***************************************************************************)
EXTENDS Journal, TLAPS

\* What the proofs need of the types.
Shape ==
    /\ millis \in Millis
    /\ approvals \in [Millis -> Approval \cup {None}]
    /\ todo \in [Threads -> Seq(Item)]
    /\ stage \in [Threads -> {"next", "pushed", "stamped"}]
    /\ stamp \in [Threads -> Millis]
    /\ serial \in [Threads -> Nat]
    /\ pushes \in Nat
    /\ \A t \in Threads : stage[t] # "next" => todo[t] # <<>>
    /\ page \in [Operators -> SUBSET [id : Millis, action : Subject]]

LEMMA ShapeInit == Init => Shape
<1> SUFFICES ASSUME Init PROVE Shape
  OBVIOUS
<1>1. 0 \in Millis
  BY JournalAssumption DEF Millis
<1>2. <<>> \in Seq(Item)
  OBVIOUS
<1> QED
  BY <1>1, <1>2 DEF Init, Shape

\* A request gives an idle thread a list of entries to write.
LEMMA BeginShape ==
    ASSUME Shape, NEW t \in Threads, NEW items \in Seq(Item), Begin(t, items)
    PROVE  Shape'
<1>1. stage[t] = "next"
  BY DEF Begin, Shape
<1> QED
  BY <1>1 DEF Begin, Shape, tables, history

LEMMA RequestShape ==
    ASSUME Shape, NEW t \in Threads, Request(t)
    PROVE  Shape'
<1>1. \A action \in Actions : Log(action) \in Item /\ AskFor(action) \in Item
  BY DEF Log, AskFor, Item, Subject
<1>2. \A task \in Tasks : Log(task) \in Item /\ Stage(task) \in Item
  BY DEF Log, Stage, Item, Subject
<1>3. Shutdown \in Item
  BY DEF Shutdown, Item, Subject
<1>4. ASSUME NEW action \in Actions, PermissionCheck(t, action) PROVE Shape'
  <2>1. /\ <<AskFor(action), Log(action)>> \in Seq(Item)
        /\ <<Log(action)>> \in Seq(Item)
    BY <1>1
  <2> QED
    BY <1>4, <2>1, BeginShape DEF PermissionCheck
<1>5. ASSUME NEW task \in Tasks, SubmitTask(t, task) \/ RunTask(t, task)
      PROVE  Shape'
  <2>1. /\ <<Stage(task), Log(task)>> \in Seq(Item)
        /\ <<Stage(task), Stage(task), Log(task)>> \in Seq(Item)
        /\ <<Stage(task)>> \in Seq(Item)
    BY <1>2
  <2> QED
    BY <1>5, <2>1, BeginShape DEF SubmitTask, RunTask
<1>6. CASE BeginShutdown(t)
  <2>1. <<Shutdown>> \in Seq(Item)
    BY <1>3
  <2> QED
    BY <1>6, <2>1, BeginShape DEF BeginShutdown
<1> QED
  BY <1>4, <1>5, <1>6 DEF Request

\* The first entry is done with, whether it got its row or not.
LEMMA NextItemShape ==
    ASSUME Shape, NEW t \in Threads, stage[t] = "stamped", NextItem(t),
           approvals' \in [Millis -> Approval \cup {None}],
           UNCHANGED <<millis, page, pushes>>
    PROVE  Shape'
<1>1. Tail(todo[t]) \in Seq(Item)
  BY DEF Shape
<1>2. 0 \in Millis
  BY JournalAssumption DEF Millis
<1>3. todo' \in [Threads -> Seq(Item)]
  BY <1>1 DEF NextItem, Shape
<1>4. /\ stage' \in [Threads -> {"next", "pushed", "stamped"}]
      /\ stamp' \in [Threads -> Millis]
      /\ serial' \in [Threads -> Nat]
  BY <1>2 DEF NextItem, Shape
<1>5. \A u \in Threads : stage'[u] # "next" => todo'[u] # <<>>
  BY DEF NextItem, Shape
<1> QED
  BY <1>3, <1>4, <1>5 DEF Shape

\* A push leaves the entry to be written, a stamp too.
LEMMA PushLogShape ==
    ASSUME Shape, NEW t \in Threads, PushLog(t)
    PROVE  Shape'
<1>1. /\ stage' = [stage EXCEPT ![t] = "pushed"]
      /\ serial' = [serial EXCEPT ![t] = pushes + 1]
      /\ pushes' = pushes + 1
      /\ todo[t] # <<>>
      /\ UNCHANGED <<millis, approvals, todo, stamp, page>>
  BY DEF PushLog, ToLog, tables
<1>2. pushes + 1 \in Nat
  BY DEF Shape
<1>3. /\ stage' \in [Threads -> {"next", "pushed", "stamped"}]
      /\ serial' \in [Threads -> Nat]
      /\ \A u \in Threads : stage'[u] # "next" => todo'[u] # <<>>
  BY <1>1, <1>2 DEF Shape
<1> QED
  BY <1>1, <1>2, <1>3 DEF Shape

LEMMA StampEntryShape ==
    ASSUME Shape, NEW t \in Threads, StampEntry(t)
    PROVE  Shape'
<1>1. /\ stage' = [stage EXCEPT ![t] = "stamped"]
      /\ stamp' = [stamp EXCEPT ![t] = millis]
      /\ todo[t] # <<>>
      /\ UNCHANGED <<millis, approvals, todo, serial, pushes, page>>
  BY DEF StampEntry, Unstamped, tables, history
<1>2. /\ stage' \in [Threads -> {"next", "pushed", "stamped"}]
      /\ stamp' \in [Threads -> Millis]
      /\ \A u \in Threads : stage'[u] # "next" => todo'[u] # <<>>
  BY <1>1 DEF Shape
<1> QED
  BY <1>1, <1>2 DEF Shape

\* An INSERT adds a pending row where there was none, and changes nothing else.
LEMMA InsertApprovalExact ==
    ASSUME Shape, NEW action \in Subject, NEW m \in Millis,
           InsertApproval(action, m)
    PROVE  /\ approvals' \in [Millis -> Approval \cup {None}]
           /\ \A k \in Millis : approvals'[k] # approvals[k] =>
                 approvals[k] = None /\ approvals'[k].decision = "pending"
           /\ \A k \in Millis : approvals[k] # None => approvals'[k] = approvals[k]
<1>1. [action |-> action, decision |-> "pending"] \in Approval
  BY DEF Approval, Decision
<1> QED
  BY <1>1 DEF InsertApproval, Shape

LEMMA InsertRowExact ==
    ASSUME Shape, NEW t \in Threads, InsertRow(t)
    PROVE  /\ approvals' \in [Millis -> Approval \cup {None}]
           /\ \A k \in Millis : approvals'[k] # approvals[k] =>
                 approvals[k] = None /\ approvals'[k].decision = "pending"
           /\ \A k \in Millis : approvals[k] # None => approvals'[k] = approvals[k]
<1>1. Head(todo[t]) \in Item
  BY DEF InsertRow, Shape
<1>2. Head(todo[t]).about \in Subject /\ stamp[t] \in Millis
  BY <1>1 DEF Item, Shape
<1>3. \/ InsertApproval(Head(todo[t]).about, stamp[t])
      \/ UNCHANGED approvals
  BY DEF InsertRow
<1>4. CASE InsertApproval(Head(todo[t]).about, stamp[t])
  BY <1>2, <1>4, InsertApprovalExact
<1>5. CASE UNCHANGED approvals
  BY <1>5 DEF Shape
<1> QED
  BY <1>3, <1>4, <1>5

\* A decision of a page names a request and its action; a posted one names none.
LEMMA VerdictDecides ==
    ASSUME Shape, PagesTrue, NEW t \in Threads, Verdict(t)
    PROVE  \E m \in Millis, decision \in {"approved", "rejected"} :
              \E shown \in {approvals[m].action, None} : Decide(t, m, shown, decision)
<1>1. PICK decision \in {"approved", "rejected"} :
         (\E o \in Operators : DecideOnPage(t, o, decision)) \/ DecideUnseen(t, decision)
  BY DEF Verdict
<1>2. CASE \E o \in Operators : DecideOnPage(t, o, decision)
  <2>1. PICK o \in Operators : DecideOnPage(t, o, decision)
    BY <1>2
  <2>2. PICK row \in page[o] : Decide(t, row.id, row.action, decision)
    BY <2>1 DEF DecideOnPage
  <2>3. row.id \in Millis /\ row.action = approvals[row.id].action
    BY DEF Shape, PagesTrue
  <2> QED
    BY <2>2, <2>3
<1>3. CASE DecideUnseen(t, decision)
  BY <1>3 DEF DecideUnseen
<1> QED
  BY <1>1, <1>2, <1>3

\* A decision changes the one row it names, and only its decision.
LEMMA DecideExact ==
    ASSUME Shape, NEW t \in Threads, NEW m \in Millis, NEW shown,
           NEW decision \in {"approved", "rejected"}, Decide(t, m, shown, decision)
    PROVE  \/ UNCHANGED <<approvals, verdicts, todo>>
           \/ /\ approvals[m] # None /\ approvals[m].action \in Subject
              /\ approvals' \in [Millis -> Approval \cup {None}]
              /\ approvals'[m] # None
              /\ approvals'[m].action = approvals[m].action
              /\ approvals'[m].decision = decision
              /\ \A k \in Millis \ {m} : approvals'[k] = approvals[k]
              /\ verdicts' = verdicts
                    \cup {[id |-> m, shown |-> shown, decision |-> decision]}
              /\ todo' = [todo EXCEPT ![t] = <<Log(approvals[m].action)>>]
<1>1. CASE approvals[m] = None
  BY <1>1 DEF Decide
<1>2. CASE approvals[m] # None
  <2>1. approvals[m] \in Approval
    BY <1>2 DEF Shape
  <2>2. approvals' = [approvals EXCEPT ![m].decision = decision]
    BY <1>2 DEF Decide, SetDecision
  <2>3. approvals'[m] = [approvals[m] EXCEPT !.decision = decision]
    BY <2>2 DEF Shape
  <2>4. approvals'[m] = [action |-> approvals[m].action, decision |-> decision]
    BY <2>1, <2>3 DEF Approval
  <2>5. approvals'[m] \in Approval /\ approvals[m].action \in Subject
    BY <2>1, <2>4 DEF Approval, Decision
  <2>6. \A k \in Millis \ {m} : approvals'[k] = approvals[k]
    BY <2>2 DEF Shape
  <2>7. approvals' \in [Millis -> Approval \cup {None}]
    <3>1. approvals' = [k \in Millis |-> approvals'[k]]
      BY <2>2 DEF Shape
    <3>2. \A k \in Millis : approvals'[k] \in Approval \cup {None}
      BY <2>5, <2>6 DEF Shape
    <3> QED
      BY <3>1, <3>2
  <2>8. /\ verdicts' = verdicts \cup {[id |-> m, shown |-> shown, decision |-> decision]}
        /\ todo' = [todo EXCEPT ![t] = <<Log(approvals[m].action)>>]
    BY <1>2 DEF Decide
  <2>9. approvals'[m].action = approvals[m].action /\ approvals'[m].decision = decision
    BY <2>4
  <2> QED
    BY <1>2, <2>5, <2>6, <2>7, <2>8, <2>9, NoneAssumption
<1> QED
  BY <1>1, <1>2

LEMMA DecideShape ==
    ASSUME Shape, NEW t \in Threads, NEW m \in Millis, NEW shown,
           NEW decision \in {"approved", "rejected"}, Decide(t, m, shown, decision)
    PROVE  Shape'
<1>1. UNCHANGED <<millis, stage, stamp, serial, pushes, page>>
  BY DEF Decide
<1>2. CASE UNCHANGED <<approvals, verdicts, todo>>
  BY <1>1, <1>2 DEF Shape
<1>3. CASE ~ UNCHANGED <<approvals, verdicts, todo>>
  <2>1. /\ approvals[m].action \in Subject
        /\ approvals' \in [Millis -> Approval \cup {None}]
        /\ todo' = [todo EXCEPT ![t] = <<Log(approvals[m].action)>>]
    BY <1>3, DecideExact
  <2>2. Log(approvals[m].action) \in Item
    BY <2>1 DEF Log, Item
  <2>3. <<Log(approvals[m].action)>> \in Seq(Item)
    BY <2>2
  <2>4. stage[t] = "next"
    BY DEF Decide, Shape
  <2> QED
    BY <1>1, <2>1, <2>3, <2>4 DEF Shape
<1> QED
  BY <1>2, <1>3

LEMMA LoadPageExact ==
    ASSUME Shape, NEW o \in Operators, LoadPage(o)
    PROVE  /\ page' \in [Operators -> SUBSET [id : Millis, action : Subject]]
           /\ \A p \in Operators : \A row \in page'[p] :
                 \/ row \in page[p]
                 \/ approvals[row.id] # None /\ approvals[row.id].action = row.action
<1>1. PICK S \in ListPending :
        page' = [page EXCEPT ![o] = {[id |-> m, action |-> approvals[m].action] : m \in S}]
  BY DEF LoadPage
<1>2. S \subseteq Pending
  BY DEF ListPending
<1>3. \A m \in S : m \in Millis /\ approvals[m] # None /\ approvals[m] \in Approval
  BY <1>2 DEF Pending, Shape
<1>4. \A m \in S : approvals[m].action \in Subject
  BY <1>3 DEF Approval
<1>5. {[id |-> m, action |-> approvals[m].action] : m \in S}
        \subseteq [id : Millis, action : Subject]
  BY <1>3, <1>4
<1>6. \A row \in {[id |-> m, action |-> approvals[m].action] : m \in S} :
         approvals[row.id] # None /\ approvals[row.id].action = row.action
  BY <1>3
<1> QED
  BY <1>1, <1>5, <1>6 DEF Shape

LEMMA ShapeStep == Shape /\ PagesTrue /\ [Next]_vars => Shape'
<1> SUFFICES ASSUME Shape, PagesTrue, [Next]_vars PROVE Shape'
  OBVIOUS
<1>1. CASE Tick
  BY <1>1, JournalAssumption DEF Tick, Shape, Millis, tables, threads, history
<1>2. ASSUME NEW t \in Threads, Request(t) PROVE Shape'
  BY <1>2, RequestShape
<1>3. ASSUME NEW t \in Threads, PushLog(t) \/ StampEntry(t) PROVE Shape'
  BY <1>3, PushLogShape, StampEntryShape
<1>4. ASSUME NEW t \in Threads, InsertRow(t) PROVE Shape'
  BY <1>4, InsertRowExact, NextItemShape DEF InsertRow
<1>5. ASSUME NEW t \in Threads, InsertError(t) PROVE Shape'
  <2>1. approvals' \in [Millis -> Approval \cup {None}]
    BY <1>5 DEF InsertError, tables, Shape
  <2> QED
    BY <1>5, <2>1, NextItemShape DEF InsertError, history
<1>6. ASSUME NEW o \in Operators, LoadPage(o) PROVE Shape'
  BY <1>6, LoadPageExact DEF LoadPage, Shape, tables, threads, history
<1>7. ASSUME NEW t \in Threads, Verdict(t) PROVE Shape'
  BY <1>7, VerdictDecides, DecideShape
<1>8. CASE Crash
  <2>1. 0 \in Millis /\ <<>> \in Seq(Item)
    BY JournalAssumption DEF Millis
  <2> QED
    BY <1>8, <2>1 DEF Crash, Shape, tables, history
<1>9. CASE UNCHANGED vars
  BY <1>9 DEF vars, Shape, tables, threads, history
<1> QED
  BY <1>1, <1>2, <1>3, <1>4, <1>5, <1>6, <1>7, <1>8, <1>9 DEF Next, Write

-----------------------------------------------------------------------------
LEMMA IInvInit == Init => IInv
  BY DEF Init, IInv, DecidedAsShown, PagesTrue

\* Rows that were there stay as they are, new ones are pending, pages stay.
LEMMA InsertRowIInv ==
    ASSUME Shape, IInv, NEW t \in Threads, InsertRow(t)
    PROVE  IInv'
<1>1. /\ \A k \in Millis : approvals'[k] # approvals[k] =>
            approvals[k] = None /\ approvals'[k].decision = "pending"
      /\ \A k \in Millis : approvals[k] # None => approvals'[k] = approvals[k]
  BY InsertRowExact
<1>2. UNCHANGED <<page, verdicts>>
  BY DEF InsertRow
<1>3. DecidedAsShown'
  BY <1>1, <1>2 DEF IInv, DecidedAsShown
<1>4. \A o \in Operators : \A row \in page[o] : row.id \in Millis
  BY DEF Shape
<1>5. PagesTrue'
  BY <1>1, <1>2, <1>4 DEF IInv, PagesTrue
<1> QED
  BY <1>3, <1>5 DEF IInv

LEMMA DecideIInv ==
    ASSUME Shape, IInv, NEW t \in Threads, NEW m \in Millis, NEW shown,
           NEW decision \in {"approved", "rejected"}, Decide(t, m, shown, decision),
           shown \in {approvals[m].action, None}
    PROVE  IInv'
<1>1. page' = page
  BY DEF Decide
<1>2. CASE UNCHANGED <<approvals, verdicts, todo>>
  BY <1>1, <1>2 DEF IInv, DecidedAsShown, PagesTrue
<1>3. CASE ~ UNCHANGED <<approvals, verdicts, todo>>
  <2>1. /\ approvals[m] # None /\ approvals'[m] # None
        /\ approvals'[m].action = approvals[m].action
        /\ approvals'[m].decision = decision
        /\ \A k \in Millis \ {m} : approvals'[k] = approvals[k]
        /\ verdicts' = verdicts \cup {[id |-> m, shown |-> shown, decision |-> decision]}
    BY <1>3, DecideExact
  <2>2. DecidedAsShown'
    <3> SUFFICES ASSUME NEW k \in Millis,
                        approvals'[k] # None, approvals'[k].decision # "pending"
                 PROVE  \E v \in verdicts' :
                           /\ v.id = k
                           /\ v.shown \in {approvals'[k].action, None}
                           /\ v.decision = approvals'[k].decision
      BY DEF DecidedAsShown
    <3>1. CASE k = m
      <4>1. PICK v : v = [id |-> m, shown |-> shown, decision |-> decision]
        OBVIOUS
      <4>2. v \in verdicts'
        BY <2>1, <4>1
      <4>3. /\ v.id = k /\ v.decision = approvals'[k].decision
            /\ v.shown \in {approvals'[k].action, None}
        BY <2>1, <3>1, <4>1
      <4> QED
        BY <4>2, <4>3
    <3>2. CASE k # m
      <4>1. approvals'[k] = approvals[k] /\ verdicts \subseteq verdicts'
        BY <2>1, <3>2
      <4> QED
        BY <4>1 DEF IInv, DecidedAsShown
    <3> QED
      BY <3>1, <3>2
  <2>3. PagesTrue'
    <3> SUFFICES ASSUME NEW o \in Operators, NEW row \in page[o]
                 PROVE  approvals'[row.id] # None
                        /\ approvals'[row.id].action = row.action
      BY <1>1 DEF PagesTrue
    <3>1. /\ row.id \in Millis
          /\ approvals[row.id] # None /\ approvals[row.id].action = row.action
      BY DEF IInv, PagesTrue, Shape
    <3> QED
      BY <2>1, <3>1
  <2> QED
    BY <2>2, <2>3 DEF IInv
<1> QED
  BY <1>2, <1>3

LEMMA IInvStep == Shape /\ IInv /\ [Next]_vars => IInv'
<1> SUFFICES ASSUME Shape, IInv, [Next]_vars PROVE IInv'
  OBVIOUS
<1>1. ASSUME UNCHANGED <<approvals, page, verdicts>> PROVE IInv'
  BY <1>1 DEF IInv, DecidedAsShown, PagesTrue
<1>2. ASSUME NEW t \in Threads, Request(t) PROVE IInv'
  BY <1>1, <1>2 DEF Request, PermissionCheck, SubmitTask, RunTask, BeginShutdown,
                    Begin, tables, history
<1>3. ASSUME NEW t \in Threads, PushLog(t) \/ StampEntry(t) \/ InsertError(t)
      PROVE  IInv'
  BY <1>1, <1>3 DEF PushLog, StampEntry, InsertError, tables, history
<1>4. ASSUME NEW t \in Threads, InsertRow(t) PROVE IInv'
  BY <1>4, InsertRowIInv
<1>5. ASSUME NEW o \in Operators, LoadPage(o) PROVE IInv'
  <2>1. UNCHANGED <<approvals, verdicts>>
    BY <1>5 DEF LoadPage, tables, history
  <2>2. PagesTrue'
    BY <1>5, <2>1, LoadPageExact DEF IInv, PagesTrue
  <2> QED
    BY <2>1, <2>2 DEF IInv, DecidedAsShown
<1>6. ASSUME NEW t \in Threads, Verdict(t) PROVE IInv'
  BY <1>6, VerdictDecides, DecideIInv DEF IInv
<1>7. CASE Tick \/ Crash \/ UNCHANGED vars
  BY <1>1, <1>7 DEF Tick, Crash, vars, tables, history
<1> QED
  BY <1>2, <1>3, <1>4, <1>5, <1>6, <1>7 DEF Next, Write

\* Whatever pages are open and how old they are, every decision in the table
\* was taken by somebody who named this request, and saw it with this action
\* if he saw a page.
THEOREM DecidedAsShownHolds == Spec => []DecidedAsShown
<1>1. Init => Shape /\ IInv
  BY ShapeInit, IInvInit
<1>2. Shape /\ IInv /\ [Next]_vars => (Shape /\ IInv)'
  BY ShapeStep, IInvStep DEF IInv
<1>3. IInv => DecidedAsShown
  BY DEF IInv
<1> QED
  BY <1>1, <1>2, <1>3, PTL DEF Spec

-----------------------------------------------------------------------------
\* One step of NeverReopened.
Kept1 ==
    \A m \in Millis : approvals[m] # None =>
        /\ approvals'[m] # None
        /\ approvals'[m].action = approvals[m].action
        /\ approvals[m].decision # "pending" => approvals'[m].decision # "pending"

LEMMA KeptStep == Shape /\ IInv /\ [Next]_vars => Kept1
<1> SUFFICES ASSUME Shape, IInv, [Next]_vars PROVE Kept1
  OBVIOUS
<1>1. ASSUME UNCHANGED approvals PROVE Kept1
  BY <1>1 DEF Kept1
<1>2. ASSUME NEW t \in Threads, InsertRow(t) PROVE Kept1
  BY <1>2, InsertRowExact DEF Kept1
<1>3. ASSUME NEW t \in Threads, Verdict(t) PROVE Kept1
  <2>1. PICK m \in Millis, decision \in {"approved", "rejected"} :
            \E shown \in {approvals[m].action, None} : Decide(t, m, shown, decision)
    BY <1>3, VerdictDecides DEF IInv
  <2>2. \/ UNCHANGED approvals
        \/ /\ approvals'[m] # None
           /\ approvals'[m].action = approvals[m].action
           /\ approvals'[m].decision = decision
           /\ \A k \in Millis \ {m} : approvals'[k] = approvals[k]
    BY <2>1, DecideExact
  <2> QED
    BY <1>1, <2>2 DEF Kept1
<1>4. ASSUME NEW t \in Threads,
             Request(t) \/ PushLog(t) \/ StampEntry(t) \/ InsertError(t)
      PROVE  Kept1
  BY <1>1, <1>4 DEF Request, PermissionCheck, SubmitTask, RunTask, BeginShutdown,
                    Begin, PushLog, StampEntry, InsertError, tables
<1>5. ASSUME NEW o \in Operators, LoadPage(o) PROVE Kept1
  BY <1>1, <1>5 DEF LoadPage, tables
<1>6. CASE Tick \/ Crash \/ UNCHANGED vars
  BY <1>1, <1>6 DEF Tick, Crash, vars, tables
<1> QED
  BY <1>2, <1>3, <1>4, <1>5, <1>6 DEF Next, Write

\* A decided request is never pending again and never stands for another
\* action, whatever is asked, shown, decided or lost in between.
THEOREM NeverReopenedHolds == Spec => NeverReopened
<1>1. Init => Shape /\ IInv
  BY ShapeInit, IInvInit
<1>2. Shape /\ IInv /\ [Next]_vars => (Shape /\ IInv)'
  BY ShapeStep, IInvStep DEF IInv
<1>3. Shape /\ IInv /\ [Next]_vars => [Kept1]_vars
  BY KeptStep
<1>4. Spec => [][Kept1]_vars
  BY <1>1, <1>2, <1>3, PTL DEF Spec
<1> QED
  BY <1>4 DEF NeverReopened, Kept1

-----------------------------------------------------------------------------
(* The buffer and the tables: the invariants.                              *)

\* What threads really write: actions and tasks are logged, a timeline belongs
\* to a task, and only sensitive actions are asked about.
Entry ==
    [book : {"audit"}, about : Actions \cup Tasks]
        \cup [book : {"approval"}, about : Sensitive]
        \cup [book : {"timeline"}, about : Tasks]
        \cup [book : {"shutdown"}, about : {None}]

Writing ==
    /\ todo \in [Threads -> Seq(Entry)]
    /\ logs \in Seq(Pushed)
    /\ Len(logs) <= Capacity
    /\ \A t \in Threads : stamp[t] <= millis
    /\ \A t \in Threads : serial[t] # 0 => ToLog(t)
    /\ \A m \in Millis : approvals[m] # None => approvals[m].action \in Sensitive
    /\ \A a, b \in books : a.id = b.id => a = b
    /\ faults \in Nat

\* Every row was written, under its id; every entry that was written finds a
\* row under its id.
RowsWritten ==
    /\ \A m \in Millis : approvals[m] # None =>
          [item |-> AskFor(approvals[m].action), at |-> m, serial |-> 0] \in written
    /\ \A row \in books :
          /\ row.item \in Entry /\ row.item.book # "approval"
          /\ row.id = IdOf(row.item, row.at)
          /\ [item |-> row.item, at |-> row.at, serial |-> row.serial] \in written

WrittenFound ==
    \A w \in written :
        /\ w.item \in Entry /\ w.at \in Millis
        /\ IF w.item.book = "approval"
           THEN approvals[w.at] # None
           ELSE \E row \in books : row.id = IdOf(w.item, w.at)

BookInvariant == Shape /\ IInv /\ Writing /\ RowsWritten /\ WrittenFound /\ BufferIsAudited

LEMMA EntryIsItem ==
    ASSUME NEW e \in Entry
    PROVE  /\ e \in Item
           /\ e.book = "audit" => e.about \in Actions \cup Tasks /\ e = Log(e.about)
           /\ e.book = "approval" => e.about \in Sensitive /\ e = AskFor(e.about)
BY JournalAssumption DEF Entry, Item, Subject, Log, AskFor

LEMMA WhatIsWritten ==
    /\ \A action \in Actions : Log(action) \in Entry
    /\ \A action \in Sensitive : AskFor(action) \in Entry
    /\ \A task \in Tasks : Log(task) \in Entry /\ Stage(task) \in Entry
    /\ Shutdown \in Entry
BY DEF Entry, Log, AskFor, Stage, Shutdown

\* The first entry of a thread that has an id for it.
LEMMA HeadIsEntry ==
    ASSUME Shape, Writing, NEW t \in Threads, todo[t] # <<>>
    PROVE  Head(todo[t]) \in Entry /\ Tail(todo[t]) \in Seq(Entry)
BY DEF Writing

LEMMA BooksInit == Init => Writing /\ RowsWritten /\ WrittenFound /\ BufferIsAudited
<1> SUFFICES ASSUME Init PROVE Writing /\ RowsWritten /\ WrittenFound /\ BufferIsAudited
  OBVIOUS
<1>1. <<>> \in Seq(Entry) /\ <<>> \in Seq(Pushed) /\ Len(<<>>) = 0
  OBVIOUS
<1>2. Writing
  BY <1>1, JournalAssumption DEF Init, Writing
<1>3. RowsWritten /\ WrittenFound
  BY DEF Init, RowsWritten, WrittenFound
<1>4. BufferIsAudited
  BY DEF Init, BufferIsAudited
<1> QED
  BY <1>2, <1>3, <1>4

\* An id names the book and the millisecond, and that of a timeline its task.
LEMMA IdOfExact ==
    ASSUME NEW a \in Entry, NEW b \in Entry, NEW m, NEW n, IdOf(a, m) = IdOf(b, n)
    PROVE  /\ a.book = b.book /\ m = n
           /\ a.book = "timeline" => a.about = b.about
<1>1. CASE a.book = "timeline" /\ b.book = "timeline"
  BY <1>1 DEF IdOf
<1>2. CASE a.book # "timeline" /\ b.book # "timeline"
  BY <1>2 DEF IdOf
<1>3. CASE a.book = "timeline" /\ b.book # "timeline"
  <2>1. <<a.book, a.about, m>> = <<b.book, n>>
    BY <1>3 DEF IdOf
  <2>2. Len(<<a.book, a.about, m>>) = 3 /\ Len(<<b.book, n>>) = 2
    OBVIOUS
  <2> QED
    BY <2>1, <2>2
<1>4. CASE a.book # "timeline" /\ b.book = "timeline"
  <2>1. <<a.book, m>> = <<b.book, b.about, n>>
    BY <1>4 DEF IdOf
  <2>2. Len(<<a.book, m>>) = 2 /\ Len(<<b.book, b.about, n>>) = 3
    OBVIOUS
  <2> QED
    BY <2>1, <2>2
<1> QED
  BY <1>1, <1>2, <1>3, <1>4

-----------------------------------------------------------------------------
(* LogBuffer::push: the newest at the end, the oldest out.                 *)
LEMMA PushExact ==
    ASSUME NEW S, NEW buffer \in Seq(S), NEW e \in S, Len(buffer) <= Capacity
    PROVE  /\ Push(buffer, e) \in Seq(S)
           /\ Len(Push(buffer, e)) <= Capacity
           /\ \A i \in DOMAIN Push(buffer, e) :
                 \/ Push(buffer, e)[i] = e
                 \/ \E j \in DOMAIN buffer : Push(buffer, e)[i] = buffer[j]
<1>1. Capacity \in Nat \ {0}
  BY JournalAssumption
<1>2. PICK kept : kept = IF Len(buffer) >= Capacity THEN Tail(buffer) ELSE buffer
  OBVIOUS
<1>3. /\ kept \in Seq(S) /\ Len(kept) + 1 <= Capacity
      /\ \A i \in DOMAIN kept : \E j \in DOMAIN buffer : kept[i] = buffer[j]
  <2>1. CASE Len(buffer) >= Capacity
    <3>1. buffer # <<>> /\ kept = Tail(buffer)
      BY <1>1, <1>2, <2>1
    <3>2. kept \in Seq(S) /\ Len(kept) = Len(buffer) - 1
      BY <3>1
    <3>3. ASSUME NEW i \in 1..Len(kept) PROVE kept[i] = buffer[i + 1] /\ i + 1 \in 1..Len(buffer)
      BY <3>1, <3>2, <3>3
    <3>4. DOMAIN kept = 1..Len(kept) /\ DOMAIN buffer = 1..Len(buffer)
      BY <3>2
    <3>5. \A i \in DOMAIN kept : \E j \in DOMAIN buffer : kept[i] = buffer[j]
      BY <3>3, <3>4
    <3>6. Len(kept) + 1 <= Capacity
      BY <1>1, <3>2
    <3> QED
      BY <3>2, <3>5, <3>6
  <2>2. CASE Len(buffer) < Capacity
    BY <1>1, <1>2, <2>2
  <2> QED
    BY <1>1, <2>1, <2>2
<1>4. Push(buffer, e) = Append(kept, e)
  BY <1>2 DEF Push
<1>5. ASSUME NEW i \in 1..(Len(kept) + 1)
      PROVE  \/ Append(kept, e)[i] = e
             \/ i \in 1..Len(kept) /\ Append(kept, e)[i] = kept[i]
  BY <1>3
<1>6. DOMAIN Append(kept, e) = 1..(Len(kept) + 1) /\ DOMAIN kept = 1..Len(kept)
  BY <1>3
<1> QED
  BY <1>3, <1>4, <1>5, <1>6

-----------------------------------------------------------------------------
\* What an INSERT of a thread does to the two tables.
Inserts(item, m, n) ==
    /\ item \in Entry /\ m \in Millis
    /\ IF item.book = "approval"
       THEN /\ UNCHANGED books
            /\ approvals'[m] # None
            /\ approvals'[m].action =
                  IF approvals[m] = None THEN item.about ELSE approvals[m].action
            /\ \A k \in Millis \ {m} : approvals'[k] = approvals[k]
       ELSE /\ UNCHANGED approvals
            /\ \E row \in books' : row.id = IdOf(item, m)
            /\ \/ books' = books /\ \E row \in books : row.id = IdOf(item, m)
               \/ /\ books' = books \cup
                        {[id |-> IdOf(item, m), item |-> item, at |-> m, serial |-> n]}
                  /\ \A row \in books : row.id # IdOf(item, m)

LEMMA InsertRowInserts ==
    ASSUME Shape, Writing, NEW t \in Threads, InsertRow(t)
    PROVE  Inserts(Head(todo[t]), stamp[t], serial[t])
<1>1. PICK item, m, n : item = Head(todo[t]) /\ m = stamp[t] /\ n = serial[t]
  OBVIOUS
<1>2. item \in Entry /\ m \in Millis
  BY <1>1, HeadIsEntry DEF InsertRow, Shape
<1>3. CASE item.book = "approval"
  <2>1. books' = books /\ InsertApproval(item.about, m)
    BY <1>1, <1>3 DEF InsertRow
  <2>2. PICK row : row = [action |-> item.about, decision |-> "pending"]
    OBVIOUS
  <2>3. row # None /\ row.action = item.about
    <3>1. item.about \in Sensitive /\ item.about \in Subject
      BY <1>2, <1>3, EntryIsItem, JournalAssumption DEF Subject
    <3>2. row \in Approval
      BY <2>2, <3>1 DEF Approval, Decision
    <3> QED
      BY <2>2, <3>2, NoneAssumption
  <2>4. approvals' = IF approvals[m] # None THEN approvals ELSE [approvals EXCEPT ![m] = row]
    BY <2>1, <2>2 DEF InsertApproval
  <2> QED
    BY <1>1, <1>2, <1>3, <2>1, <2>3, <2>4 DEF Inserts, Shape
<1>4. CASE item.book # "approval"
  <2>1. approvals' = approvals /\ InsertEntry(item, m, n)
    BY <1>1, <1>4 DEF InsertRow
  <2>2. PICK new :
          new = [id |-> IdOf(item, m), item |-> item, at |-> m, serial |-> n]
    OBVIOUS
  <2>3. new.id = IdOf(item, m)
    BY <2>2
  <2>4. books' = IF \E row \in books : row.id = IdOf(item, m) THEN books
                 ELSE books \cup {new}
    BY <2>1, <2>2 DEF InsertEntry
  <2>5. \E row \in books' : row.id = IdOf(item, m)
    BY <2>3, <2>4
  <2>6. \/ books' = books /\ \E row \in books : row.id = IdOf(item, m)
        \/ books' = books \cup {new} /\ \A row \in books : row.id # IdOf(item, m)
    BY <2>4
  <2> QED
    BY <1>1, <1>2, <1>4, <2>1, <2>2, <2>5, <2>6 DEF Inserts
<1> QED
  BY <1>3, <1>4

-----------------------------------------------------------------------------
(* What threads write, and the buffer's length.                            *)

LEMMA RequestWriting ==
    ASSUME Shape, Writing, NEW t \in Threads, Request(t)
    PROVE  Writing'
<1>1. PICK items \in Seq(Entry) : Begin(t, items)
  <2>1. CASE \E action \in Actions : PermissionCheck(t, action)
    <3>1. PICK action \in Actions : PermissionCheck(t, action)
      BY <2>1
    <3>2. Log(action) \in Entry /\ (RequiresApproval(action) => AskFor(action) \in Entry)
      BY WhatIsWritten DEF RequiresApproval
    <3>3. /\ <<Log(action)>> \in Seq(Entry)
          /\ RequiresApproval(action) => <<AskFor(action), Log(action)>> \in Seq(Entry)
      BY <3>2
    <3> QED
      BY <3>1, <3>3 DEF PermissionCheck
  <2>2. CASE \E task \in Tasks : SubmitTask(t, task) \/ RunTask(t, task)
    <3>1. PICK task \in Tasks : SubmitTask(t, task) \/ RunTask(t, task)
      BY <2>2
    <3>2. Log(task) \in Entry /\ Stage(task) \in Entry
      BY WhatIsWritten
    <3>3. /\ <<Stage(task), Log(task)>> \in Seq(Entry)
          /\ <<Stage(task), Stage(task), Log(task)>> \in Seq(Entry)
          /\ <<Stage(task)>> \in Seq(Entry)
      BY <3>2
    <3> QED
      BY <3>1, <3>3 DEF SubmitTask, RunTask
  <2>3. CASE BeginShutdown(t)
    <3>1. <<Shutdown>> \in Seq(Entry)
      BY WhatIsWritten
    <3> QED
      BY <2>3, <3>1 DEF BeginShutdown
  <2> QED
    BY <2>1, <2>2, <2>3 DEF Request
<1>2. /\ todo' = [todo EXCEPT ![t] = items]
      /\ todo[t] = <<>>
      /\ UNCHANGED <<logs, books, approvals, stamp, serial, millis, faults>>
  BY <1>1 DEF Begin, tables
<1>3. todo' \in [Threads -> Seq(Entry)]
  BY <1>2 DEF Writing
<1>4. \A u \in Threads : serial'[u] # 0 => ToLog(u)'
  BY <1>2 DEF Writing, ToLog
<1> QED
  BY <1>2, <1>3, <1>4 DEF Writing

\* The thread is done with its first entry.
LEMMA NextItemWriting ==
    ASSUME Shape, Writing, NEW t \in Threads, stage[t] = "stamped", NextItem(t)
    PROVE  /\ todo' \in [Threads -> Seq(Entry)]
           /\ \A u \in Threads : stamp'[u] <= millis
           /\ \A u \in Threads : serial'[u] # 0 => ToLog(u)'
<1>1. Tail(todo[t]) \in Seq(Entry)
  BY HeadIsEntry DEF Shape
<1>2. todo' \in [Threads -> Seq(Entry)]
  BY <1>1 DEF NextItem, Writing
<1>3. \A u \in Threads : stamp'[u] \in {stamp[u], 0}
  BY DEF NextItem, Shape
<1>4. millis \in Nat
  BY JournalAssumption DEF Shape, Millis
<1>5. ASSUME NEW u \in Threads PROVE stamp'[u] <= millis
  <2>1. stamp[u] <= millis /\ 0 <= millis
    BY <1>4 DEF Writing
  <2> QED
    BY <1>3, <2>1
<1>6. ASSUME NEW u \in Threads, serial'[u] # 0 PROVE ToLog(u)'
  <2>1. u # t /\ serial[u] # 0 /\ todo'[u] = todo[u]
    BY <1>6 DEF NextItem, Shape
  <2> QED
    BY <2>1 DEF Writing, ToLog
<1> QED
  BY <1>2, <1>5, <1>6

LEMMA PushWriting ==
    ASSUME Shape, Writing, NEW t \in Threads, PushLog(t)
    PROVE  Writing'
<1>1. PICK e : e = [about |-> Head(todo[t]).about, serial |-> pushes + 1]
  OBVIOUS
<1>2. /\ ToLog(t) /\ logs' = Push(logs, e)
      /\ serial' = [serial EXCEPT ![t] = pushes + 1]
      /\ UNCHANGED <<millis, books, approvals, todo, stamp, faults>>
  BY <1>1 DEF PushLog, tables
<1>3. e \in Pushed
  <2>1. Head(todo[t]) \in Entry /\ Head(todo[t]).book = "audit"
    BY <1>2, HeadIsEntry DEF ToLog
  <2>2. Head(todo[t]).about \in Actions \cup Tasks /\ pushes + 1 \in Nat
    BY <2>1, EntryIsItem DEF Shape
  <2> QED
    BY <1>1, <2>2 DEF Pushed
<1>4. logs' \in Seq(Pushed) /\ Len(logs') <= Capacity
  BY <1>2, <1>3, PushExact DEF Writing
<1>5. \A u \in Threads : serial'[u] # 0 => ToLog(u)'
  BY <1>2 DEF Writing, ToLog, Shape
<1> QED
  BY <1>2, <1>4, <1>5 DEF Writing

LEMMA StampWriting ==
    ASSUME Shape, Writing, NEW t \in Threads, StampEntry(t)
    PROVE  Writing'
<1>1. /\ stamp' = [stamp EXCEPT ![t] = millis]
      /\ UNCHANGED <<millis, logs, books, approvals, todo, serial, faults>>
  BY DEF StampEntry, tables
<1>2. \A u \in Threads : stamp'[u] <= millis'
  <2>1. millis \in Nat
    BY JournalAssumption DEF Shape, Millis
  <2> QED
    BY <1>1, <2>1 DEF Writing, Shape
<1>3. \A u \in Threads : serial'[u] # 0 => ToLog(u)'
  BY <1>1 DEF Writing, ToLog
<1> QED
  BY <1>1, <1>2, <1>3 DEF Writing

LEMMA InsertWriting ==
    ASSUME Shape, Writing, NEW t \in Threads, InsertRow(t)
    PROVE  Writing'
<1>1. PICK item, m, n : item = Head(todo[t]) /\ m = stamp[t] /\ n = serial[t]
  OBVIOUS
<1>2. Inserts(item, m, n)
  BY <1>1, InsertRowInserts
<1>3. /\ todo' \in [Threads -> Seq(Entry)] /\ \A u \in Threads : stamp'[u] <= millis
      /\ \A u \in Threads : serial'[u] # 0 => ToLog(u)'
      /\ UNCHANGED <<millis, logs, faults>>
  BY NextItemWriting DEF InsertRow
<1>4. ASSUME NEW k \in Millis, approvals'[k] # None
      PROVE  approvals'[k].action \in Sensitive
  <2>1. item.book = "approval" => item.about \in Sensitive
    BY <1>2, EntryIsItem DEF Inserts
  <2> QED
    BY <1>2, <1>4, <2>1 DEF Inserts, Writing
<1>5. ASSUME NEW a \in books', NEW b \in books', a.id = b.id
      PROVE  a = b
  <2>1. PICK new :
          new = [id |-> IdOf(item, m), item |-> item, at |-> m, serial |-> n]
    OBVIOUS
  <2>2. new.id = IdOf(item, m)
    BY <2>1
  <2>3. \/ books' = books
        \/ books' = books \cup {new} /\ \A row \in books : row.id # new.id
    BY <1>2, <2>1, <2>2 DEF Inserts
  <2> QED
    BY <1>5, <2>3 DEF Writing
<1> QED
  BY <1>3, <1>4, <1>5 DEF Writing

LEMMA DecideWriting ==
    ASSUME Shape, Writing, NEW t \in Threads, NEW m \in Millis, NEW shown,
           NEW decision \in {"approved", "rejected"}, Decide(t, m, shown, decision)
    PROVE  Writing'
<1>1. /\ todo[t] = <<>>
      /\ UNCHANGED <<millis, logs, books, stamp, serial, faults>>
  BY DEF Decide
<1>2. CASE UNCHANGED <<approvals, verdicts, todo>>
  BY <1>1, <1>2 DEF Writing, ToLog
<1>3. CASE ~ UNCHANGED <<approvals, verdicts, todo>>
  <2>1. /\ approvals[m] # None
        /\ approvals'[m].action = approvals[m].action
        /\ \A k \in Millis \ {m} : approvals'[k] = approvals[k]
        /\ todo' = [todo EXCEPT ![t] = <<Log(approvals[m].action)>>]
    BY <1>3, DecideExact
  <2>2. <<Log(approvals[m].action)>> \in Seq(Entry)
    <3>1. Log(approvals[m].action) \in Entry
      BY <2>1, WhatIsWritten, JournalAssumption DEF Writing
    <3> QED
      BY <3>1
  <2>3. todo' \in [Threads -> Seq(Entry)]
    BY <2>1, <2>2 DEF Writing
  <2>4. \A k \in Millis : approvals'[k] # None => approvals'[k].action \in Sensitive
    BY <2>1 DEF Writing
  <2>5. \A u \in Threads : serial'[u] # 0 => ToLog(u)'
    BY <1>1, <2>1 DEF Writing, ToLog
  <2> QED
    BY <1>1, <2>3, <2>4, <2>5 DEF Writing
<1> QED
  BY <1>2, <1>3

LEMMA WritingStep ==
    ASSUME Shape, IInv, Writing, [Next]_vars
    PROVE  Writing'
<1> USE DEF tables, threads
<1>0. millis \in Nat /\ 0 \in Nat
  BY JournalAssumption DEF Shape, Millis
<1>1. CASE Tick
  <2>1. millis' = millis + 1 /\ UNCHANGED <<logs, books, approvals, todo, stamp, serial, faults>>
    BY <1>1 DEF Tick
  <2>2. \A t \in Threads : stamp[t] \in Nat
    BY JournalAssumption DEF Shape, Millis
  <2> QED
    BY <1>0, <2>1, <2>2 DEF Writing, ToLog
<1>2. ASSUME NEW t \in Threads, InsertError(t) PROVE Writing'
  <2>1. /\ todo' \in [Threads -> Seq(Entry)] /\ \A u \in Threads : stamp'[u] <= millis
        /\ \A u \in Threads : serial'[u] # 0 => ToLog(u)'
        /\ UNCHANGED <<millis, logs, books, approvals>> /\ faults' = faults + 1
    BY <1>2, NextItemWriting DEF InsertError, Suffer
  <2> QED
    BY <2>1 DEF Writing
<1>3. CASE Crash
  <2>1. /\ logs' = <<>> /\ todo' = [t \in Threads |-> <<>>]
        /\ stamp' = [t \in Threads |-> 0] /\ serial' = [t \in Threads |-> 0]
        /\ UNCHANGED <<millis, books, approvals>> /\ faults' = faults + 1
    BY <1>3 DEF Crash, Suffer
  <2>2. <<>> \in Seq(Entry) /\ <<>> \in Seq(Pushed) /\ Len(<<>>) = 0
    OBVIOUS
  <2> QED
    BY <1>0, <2>1, <2>2, JournalAssumption DEF Writing
<1>4. ASSUME NEW o \in Operators, LoadPage(o) PROVE Writing'
  BY <1>4 DEF LoadPage, Writing, ToLog
<1>5. ASSUME NEW t \in Threads, Verdict(t) PROVE Writing'
  BY <1>5, VerdictDecides, DecideWriting DEF IInv
<1>6. CASE UNCHANGED vars
  BY <1>6 DEF vars, Writing, ToLog
<1> QED
  BY <1>1, <1>2, <1>3, <1>4, <1>5, <1>6, RequestWriting, PushWriting,
     StampWriting, InsertWriting DEF Next, Write

-----------------------------------------------------------------------------
(* Rows and entries belong together.                                       *)

LEMMA RowsBystander ==
    ASSUME RowsWritten, WrittenFound, UNCHANGED <<books, approvals, written>>
    PROVE  (RowsWritten /\ WrittenFound)'
BY DEF RowsWritten, WrittenFound

LEMMA InsertRows ==
    ASSUME Shape, Writing, RowsWritten, WrittenFound, NEW t \in Threads, InsertRow(t)
    PROVE  (RowsWritten /\ WrittenFound)'
<1>1. PICK item, m, n : item = Head(todo[t]) /\ m = stamp[t] /\ n = serial[t]
  OBVIOUS
<1>2. PICK w : w = [item |-> item, at |-> m, serial |-> n]
  OBVIOUS
<1>3. Inserts(item, m, n) /\ written' = written \cup {w}
  BY <1>1, <1>2, InsertRowInserts DEF InsertRow
<1>4. item \in Entry /\ m \in Millis /\ w.item = item /\ w.at = m /\ w.serial = n
  BY <1>2, <1>3 DEF Inserts
<1>5. CASE item.book = "approval"
  <2>1. /\ books' = books /\ approvals'[m] # None
        /\ approvals'[m].action =
              IF approvals[m] = None THEN item.about ELSE approvals[m].action
        /\ \A k \in Millis \ {m} : approvals'[k] = approvals[k]
    BY <1>3, <1>5 DEF Inserts
  <2>2. item = AskFor(item.about) /\ n = 0
    BY <1>1, <1>4, <1>5, EntryIsItem DEF Writing, ToLog
  <2>3. ASSUME NEW k \in Millis, approvals'[k] # None
        PROVE  [item |-> AskFor(approvals'[k].action), at |-> k, serial |-> 0] \in written'
    BY <1>2, <1>3, <2>1, <2>2, <2>3 DEF RowsWritten
  <2>4. RowsWritten'
    BY <1>3, <2>1, <2>3 DEF RowsWritten
  <2>5. WrittenFound'
    BY <1>3, <1>4, <1>5, <2>1 DEF WrittenFound
  <2> QED
    BY <2>4, <2>5
<1>6. CASE item.book # "approval"
  <2>1. PICK new :
          new = [id |-> IdOf(item, m), item |-> item, at |-> m, serial |-> n]
    OBVIOUS
  <2>2. new.id = IdOf(item, m) /\ new.item = item /\ new.at = m /\ new.serial = n
    BY <2>1
  <2>3. /\ approvals' = approvals
        /\ \E row \in books' : row.id = IdOf(item, m)
        /\ books' = books \/ books' = books \cup {new}
    BY <1>3, <1>6, <2>1 DEF Inserts
  <2>4. ASSUME NEW row \in books'
        PROVE  /\ row.item \in Entry /\ row.item.book # "approval"
               /\ row.id = IdOf(row.item, row.at)
               /\ [item |-> row.item, at |-> row.at, serial |-> row.serial] \in written'
    <3>1. CASE row \in books
      BY <1>3, <3>1 DEF RowsWritten
    <3>2. CASE row = new
      BY <1>2, <1>3, <1>4, <1>6, <2>2, <3>2
    <3> QED
      BY <2>3, <3>1, <3>2
  <2>5. RowsWritten'
    BY <1>3, <2>3, <2>4 DEF RowsWritten
  <2>6. ASSUME NEW v \in written'
        PROVE  /\ v.item \in Entry /\ v.at \in Millis
               /\ IF v.item.book = "approval"
                  THEN approvals'[v.at] # None
                  ELSE \E row \in books' : row.id = IdOf(v.item, v.at)
    <3>1. CASE v \in written
      BY <2>3, <3>1 DEF WrittenFound
    <3>2. CASE v = w
      BY <1>4, <1>6, <2>3, <3>2
    <3> QED
      BY <1>3, <3>1, <3>2
  <2>7. WrittenFound'
    BY <2>6 DEF WrittenFound
  <2> QED
    BY <2>5, <2>7
<1> QED
  BY <1>5, <1>6

LEMMA DecideRows ==
    ASSUME Shape, RowsWritten, WrittenFound, NEW t \in Threads, NEW m \in Millis,
           NEW shown, NEW decision \in {"approved", "rejected"},
           Decide(t, m, shown, decision)
    PROVE  (RowsWritten /\ WrittenFound)'
<1>1. UNCHANGED <<books, written>>
  BY DEF Decide
<1>2. \A k \in Millis : /\ approvals'[k] # None <=> approvals[k] # None
                        /\ approvals'[k].action = approvals[k].action
  BY DecideExact
<1>3. RowsWritten'
  BY <1>1, <1>2 DEF RowsWritten
<1>4. WrittenFound'
  BY <1>1, <1>2 DEF WrittenFound
<1> QED
  BY <1>3, <1>4

LEMMA RowsStep ==
    ASSUME Shape, IInv, Writing, RowsWritten, WrittenFound, [Next]_vars
    PROVE  (RowsWritten /\ WrittenFound)'
<1> USE DEF tables, history
<1>1. CASE Tick \/ Crash \/ UNCHANGED vars
  BY <1>1, RowsBystander DEF Tick, Crash, vars
<1>2. ASSUME NEW t \in Threads, Request(t) PROVE UNCHANGED <<books, approvals, written>>
  BY <1>2 DEF Request, PermissionCheck, SubmitTask, RunTask, BeginShutdown, Begin
<1>3. ASSUME NEW t \in Threads, PushLog(t) \/ StampEntry(t) \/ InsertError(t)
      PROVE  UNCHANGED <<books, approvals, written>>
  BY <1>3 DEF PushLog, StampEntry, InsertError
<1>4. ASSUME NEW o \in Operators, LoadPage(o)
      PROVE  UNCHANGED <<books, approvals, written>>
  BY <1>4 DEF LoadPage
<1>5. ASSUME NEW t \in Threads, Verdict(t)
      PROVE  (RowsWritten /\ WrittenFound)'
  BY <1>5, VerdictDecides, DecideRows DEF IInv
<1> QED
  BY <1>1, <1>2, <1>3, <1>4, <1>5, RowsBystander, InsertRows DEF Next, Write

-----------------------------------------------------------------------------
(* The buffer and the audit log.                                           *)

Audited(e) == Rowed(e) \/ Underway(e) \/ Refused(e)

LEMMA AuditedBystander ==
    ASSUME NEW e, Audited(e), books \subseteq books', written \subseteq written',
           \A t \in Threads : stage[t] # "next" =>
               /\ stage'[t] # "next" /\ todo'[t] = todo[t] /\ serial'[t] = serial[t]
    PROVE  Audited(e)'
BY DEF Audited, Rowed, Underway, Refused, Log

\* A thread that is done with its entry leaves a row of it, or a row of
\* another action under the same millisecond.
LEMMA AuditedInsert ==
    ASSUME Shape, Writing, RowsWritten, NEW t \in Threads, InsertRow(t),
           NEW e, Audited(e)
    PROVE  Audited(e)'
<1>1. PICK item, m, n : item = Head(todo[t]) /\ m = stamp[t] /\ n = serial[t]
  OBVIOUS
<1>2. PICK w : w = [item |-> item, at |-> m, serial |-> n]
  OBVIOUS
<1>3. /\ written' = written \cup {w}
      /\ w.item = item /\ w.at = m /\ w.serial = n
      /\ Inserts(item, m, n)
  BY <1>1, <1>2, InsertRowInserts DEF InsertRow
<1>4. books \subseteq books'
  BY <1>3 DEF Inserts
<1>5. \A u \in Threads : u # t =>
         stage'[u] = stage[u] /\ todo'[u] = todo[u] /\ serial'[u] = serial[u]
  BY DEF InsertRow, NextItem, Shape
<1>6. CASE Rowed(e)
  BY <1>4, <1>6 DEF Audited, Rowed, Log
<1>7. CASE Refused(e)
  BY <1>3, <1>4, <1>7 DEF Audited, Refused, Log
<1>8. CASE Underway(e) /\ ~(item = Log(e.about) /\ n = e.serial)
  BY <1>1, <1>5, <1>8 DEF Audited, Underway, Log
<1>9. CASE item = Log(e.about) /\ n = e.serial
  <2>1. item.book = "audit" /\ item \in Entry /\ m \in Millis
    BY <1>3, <1>9 DEF Log, Inserts
  <2>2. CASE \E row \in books : row.id = IdOf(item, m)
    <3>1. PICK row \in books : row.id = IdOf(item, m)
      BY <2>2
    <3>2. row.item \in Entry /\ IdOf(row.item, row.at) = IdOf(item, m)
      BY <3>1 DEF RowsWritten
    <3>3. row.item.book = "audit" /\ row.at = m
      BY <2>1, <3>2, IdOfExact
    <3>4. w \in written' /\ row \in books'
      BY <1>3, <1>4
    <3> QED
      BY <1>3, <1>9, <3>3, <3>4 DEF Audited, Refused, Log
  <2>3. CASE ~ \E row \in books : row.id = IdOf(item, m)
    <3>1. PICK new :
            new = [id |-> IdOf(item, m), item |-> item, at |-> m, serial |-> n]
      OBVIOUS
    <3>2. new.item = item /\ new.serial = n
      BY <3>1
    <3>3. new \in books'
      BY <1>3, <2>1, <2>3, <3>1 DEF Inserts
    <3> QED
      BY <1>9, <3>2, <3>3 DEF Audited, Rowed, Log
  <2> QED
    BY <2>2, <2>3
<1> QED
  BY <1>6, <1>7, <1>8, <1>9 DEF Audited

\* The entry that is pushed is under way, the others stay.
LEMMA PushAudit ==
    ASSUME Shape, Writing, BufferIsAudited, NEW t \in Threads, PushLog(t),
           faults' = 0, NEW i \in DOMAIN logs'
    PROVE  Audited(logs[i])'
<1>1. PICK e : e = [about |-> Head(todo[t]).about, serial |-> pushes + 1]
  OBVIOUS
<1>2. PICK f : f = logs'[i]
  OBVIOUS
<1>3. /\ ToLog(t) /\ stage[t] = "next" /\ faults = 0
      /\ logs' = Push(logs, e)
      /\ serial' = [serial EXCEPT ![t] = pushes + 1]
      /\ stage' = [stage EXCEPT ![t] = "pushed"]
      /\ UNCHANGED <<books, todo, written>>
  BY <1>1 DEF PushLog, tables
<1>4. /\ stage'[t] = "pushed" /\ serial'[t] = pushes + 1
      /\ \A u \in Threads : stage[u] # "next" =>
            stage'[u] = stage[u] /\ serial'[u] = serial[u]
  BY <1>3 DEF Shape
<1>5. Head(todo[t]) \in Entry /\ Head(todo[t]).book = "audit"
  BY <1>3, HeadIsEntry DEF ToLog
<1>6. Head(todo[t]).about \in Actions \cup Tasks /\ Head(todo[t]) = Log(Head(todo[t]).about)
  BY <1>5, EntryIsItem
<1>7. e \in Pushed /\ e.about = Head(todo[t]).about /\ e.serial = pushes + 1
  BY <1>1, <1>6 DEF Pushed, Shape
<1>8. f = e \/ \E j \in DOMAIN logs : f = logs[j]
  BY <1>2, <1>3, <1>7, PushExact DEF Writing
<1>9. Audited(f)'
  <2>1. CASE f = e
    <3>1. Head(todo'[t]) = Log(f.about) /\ serial'[t] = f.serial
      BY <1>3, <1>4, <1>6, <1>7, <2>1
    <3> QED
      BY <1>4, <3>1 DEF Audited, Underway, Log
  <2>2. CASE \E j \in DOMAIN logs : f = logs[j]
    <3>1. Audited(f)
      BY <1>3, <2>2 DEF BufferIsAudited, Audited
    <3> QED
      BY <1>3, <1>4, <3>1, AuditedBystander
  <2> QED
    BY <1>8, <2>1, <2>2
<1> QED
  BY <1>2, <1>9 DEF Audited, Rowed, Underway, Refused, Log

LEMMA AuditStep ==
    ASSUME Shape, IInv, Writing, RowsWritten, BufferIsAudited, [Next]_vars
    PROVE  BufferIsAudited'
<1> USE DEF tables, threads, history
<1>0. faults' # 0 => BufferIsAudited'
  BY DEF BufferIsAudited
<1>1. ASSUME UNCHANGED <<logs, faults>>, \A e : Audited(e) => Audited(e)'
      PROVE  BufferIsAudited'
  <2>1. faults' = 0 => \A i \in DOMAIN logs' : Audited(logs[i])'
    BY <1>1 DEF BufferIsAudited, Audited
  <2> QED
    BY <2>1 DEF BufferIsAudited, Audited
<1>2. ASSUME UNCHANGED <<logs, faults, books, written>>,
             \A t \in Threads : stage[t] # "next" =>
               /\ stage'[t] # "next" /\ todo'[t] = todo[t] /\ serial'[t] = serial[t]
      PROVE  BufferIsAudited'
  <2>1. \A e : Audited(e) => Audited(e)'
    BY <1>2, AuditedBystander
  <2> QED
    BY <1>1, <1>2, <2>1
<1>3. CASE Tick \/ UNCHANGED vars
  BY <1>2, <1>3 DEF Tick, vars
<1>4. ASSUME NEW t \in Threads, Request(t) PROVE BufferIsAudited'
  <2>1. PICK items : Begin(t, items)
    BY <1>4 DEF Request, PermissionCheck, SubmitTask, RunTask, BeginShutdown
  <2>2. stage[t] = "next"
    BY <2>1 DEF Begin, Shape
  <2> QED
    BY <1>2, <2>1, <2>2 DEF Begin, Shape
<1>5. ASSUME NEW t \in Threads, Verdict(t) PROVE BufferIsAudited'
  <2>1. PICK m \in Millis, decision \in {"approved", "rejected"} :
            \E shown \in {approvals[m].action, None} : Decide(t, m, shown, decision)
    BY <1>5, VerdictDecides DEF IInv
  <2>2. stage[t] = "next"
    BY <2>1 DEF Decide, Shape
  <2>3. \A u \in Threads : u # t => todo'[u] = todo[u]
    BY <2>1 DEF Decide, Shape
  <2> QED
    BY <1>2, <2>1, <2>2, <2>3 DEF Decide
<1>6. ASSUME NEW t \in Threads, PushLog(t) PROVE BufferIsAudited'
  <2>1. faults' = 0 => \A i \in DOMAIN logs' : Audited(logs[i])'
    BY <1>6, PushAudit
  <2> QED
    BY <2>1 DEF BufferIsAudited, Audited
<1>7. ASSUME NEW t \in Threads, StampEntry(t) PROVE BufferIsAudited'
  BY <1>2, <1>7 DEF StampEntry, Shape
<1>8. ASSUME NEW t \in Threads, InsertRow(t) PROVE BufferIsAudited'
  <2>1. UNCHANGED <<logs, faults>>
    BY <1>8 DEF InsertRow
  <2>2. \A e : Audited(e) => Audited(e)'
    BY <1>8, AuditedInsert
  <2> QED
    BY <1>1, <2>1, <2>2
<1>9. CASE Crash \/ \E t \in Threads : InsertError(t)
  <2>1. faults' = faults + 1 /\ faults \in Nat
    BY <1>9 DEF Crash, InsertError, Suffer, Writing
  <2> QED
    BY <1>0, <2>1
<1>10. ASSUME NEW o \in Operators, LoadPage(o) PROVE BufferIsAudited'
  BY <1>2, <1>10 DEF LoadPage
<1> QED
  BY <1>3, <1>4, <1>5, <1>6, <1>7, <1>8, <1>9, <1>10 DEF Next, Write

-----------------------------------------------------------------------------
(* The theorems.                                                           *)

LEMMA BookInvariantHolds == Spec => []BookInvariant
<1>1. Init => BookInvariant
  BY ShapeInit, IInvInit, BooksInit DEF BookInvariant
<1>2. BookInvariant /\ [Next]_vars => BookInvariant'
  <2> SUFFICES ASSUME BookInvariant, [Next]_vars PROVE BookInvariant'
    OBVIOUS
  <2> USE DEF BookInvariant
  <2>1. Shape'
    BY ShapeStep DEF IInv
  <2>2. IInv'
    BY IInvStep
  <2>3. Writing'
    BY WritingStep
  <2>4. (RowsWritten /\ WrittenFound)'
    BY RowsStep
  <2>5. BufferIsAudited'
    BY AuditStep
  <2> QED
    BY <2>1, <2>2, <2>3, <2>4, <2>5
<1> QED
  BY <1>1, <1>2, PTL DEF Spec

LEMMA BookInvariantTypes == BookInvariant => TypeOK
<1> SUFFICES ASSUME BookInvariant PROVE TypeOK
  OBVIOUS
<1> USE DEF BookInvariant
<1>1. ASSUME NEW m \in Millis, approvals[m] # None
      PROVE  approvals[m].action \in Sensitive /\ approvals[m].decision \in Decision
  <2>1. approvals[m] \in Approval
    BY <1>1 DEF Shape
  <2> QED
    BY <1>1, <2>1 DEF Writing, Approval
<1>2. ASSUME NEW t \in Threads
      PROVE  /\ todo[t] \in Seq(Item)
             /\ stage[t] \in {"next", "pushed", "stamped"} /\ stamp[t] \in 0..millis
             /\ stage[t] # "next" => todo[t] # <<>>
  <2>1. /\ todo[t] \in Seq(Item) /\ stage[t] \in {"next", "pushed", "stamped"}
        /\ stage[t] # "next" => todo[t] # <<>>
    BY DEF Shape
  <2>2. stamp[t] \in Millis /\ stamp[t] <= millis /\ millis \in Millis
    BY DEF Shape, Writing
  <2>3. stamp[t] \in 0..millis
    BY <2>2, JournalAssumption DEF Millis
  <2> QED
    BY <2>1, <2>3
<1>3. /\ millis \in Millis
      /\ logs \in Seq(Pushed) /\ Len(logs) <= Capacity
      /\ \A a, b \in books : a.id = b.id => a = b
  BY DEF Shape, Writing
<1> QED
  BY <1>1, <1>2, <1>3 DEF TypeOK

LEMMA BookInvariantKeeps == BookInvariant => EntriesKept
<1> SUFFICES ASSUME BookInvariant, NEW w \in written
             PROVE  \E v \in written :
                       /\ Kept(v)
                       /\ v.at = w.at
                       /\ v.item.book = w.item.book
                       /\ w.item.book = "timeline" => v.item.about = w.item.about
  BY DEF EntriesKept
<1> USE DEF BookInvariant
<1>1. w.item \in Entry /\ w.at \in Millis
  BY DEF WrittenFound
<1>2. CASE w.item.book = "approval"
  <2>1. approvals[w.at] # None
    BY <1>2 DEF WrittenFound
  <2>2. PICK item : item = AskFor(approvals[w.at].action)
    OBVIOUS
  <2>3. item.book = "approval" /\ item.about = approvals[w.at].action
    BY <2>2 DEF AskFor
  <2>4. PICK v : v = [item |-> item, at |-> w.at, serial |-> 0]
    OBVIOUS
  <2>5. v \in written
    BY <1>1, <2>1, <2>2, <2>4 DEF RowsWritten
  <2>6. v.item = item /\ v.at = w.at
    BY <2>4
  <2>7. Kept(v)
    BY <2>1, <2>3, <2>6 DEF Kept
  <2> QED
    BY <1>2, <2>3, <2>5, <2>6, <2>7
<1>3. CASE w.item.book # "approval"
  <2>1. PICK row \in books : row.id = IdOf(w.item, w.at)
    BY <1>3 DEF WrittenFound
  <2>2. /\ row.item \in Entry /\ row.item.book # "approval"
        /\ row.id = IdOf(row.item, row.at)
        /\ [item |-> row.item, at |-> row.at, serial |-> row.serial] \in written
    BY DEF RowsWritten
  <2>3. /\ row.item.book = w.item.book /\ row.at = w.at
        /\ w.item.book = "timeline" => row.item.about = w.item.about
    <3>1. IdOf(w.item, w.at) = IdOf(row.item, row.at)
      BY <2>1, <2>2
    <3> QED
      BY <1>1, <2>2, <3>1, IdOfExact
  <2>4. PICK v : v = [item |-> row.item, at |-> row.at, serial |-> row.serial]
    OBVIOUS
  <2>5. v \in written /\ v.item = row.item /\ v.at = row.at /\ v.serial = row.serial
    BY <2>2, <2>4
  <2>6. Kept(v)
    BY <2>2, <2>5 DEF Kept
  <2> QED
    BY <2>3, <2>5, <2>6
<1> QED
  BY <1>2, <1>3

\* The tables and the buffer keep their types: only sensitive actions are
\* waiting for a decision, the ring buffer is never over its capacity, and the
\* ids of the audit log and of the timelines are unique.
THEOREM TypeCorrect == Spec => []TypeOK
BY BookInvariantHolds, BookInvariantTypes, PTL

\* Of the entries of a book that were made in one millisecond one is in its
\* table, whichever threads write in between, fail or die.
THEOREM EntriesKeptHolds == Spec => []EntriesKept
BY BookInvariantHolds, BookInvariantKeeps, PTL

\* Until something fails, every entry of the ring buffer has its own row in the
\* audit log, or its thread is on its way there, or another action has the row
\* of its millisecond.
THEOREM BufferIsAuditedHolds == Spec => []BufferIsAudited
<1>1. BookInvariant => BufferIsAudited
  BY DEF BookInvariant
<1> QED
  BY <1>1, BookInvariantHolds, PTL
=============================================================================
