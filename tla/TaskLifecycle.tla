--------------------------- MODULE TaskLifecycle ---------------------------
(***************************************************************************)
(* What the task queue promises to those who submit tasks, without tables, *)
(* clocks, workers or a mutex: a task that is accepted is attempted, one   *)
(* attempt at a time, until it succeeds or has failed max_attempts times;  *)
(* then it is a dead letter until an operator requeues it.                 *)
(***************************************************************************)
EXTENDS Naturals

CONSTANTS TaskId,       \* the ids tasks are known by
          MaxAttempts   \* the max_attempts values submissions ask for

\* "absent" is both never submitted and completed.  attempts counts the
\* failures, max is max_attempts; both are 0 for an absent task.
Absent == [stage |-> "absent", attempts |-> 0, max |-> 0]
Life == [stage : {"absent", "waiting", "running", "dead"},
         attempts : Nat, max : Nat]

VARIABLE life

Init == life = [id \in TaskId |-> Absent]

\* Several tasks are accepted at once when several jobs fall due together.
Accept(ids) ==
    /\ \A id \in ids : life[id].stage = "absent"
    /\ \E max \in MaxAttempts \ {0} :
          life' = [id \in TaskId |->
                      IF id \in ids
                      THEN [stage |-> "waiting", attempts |-> 0, max |-> max]
                      ELSE life[id]]

Start(id) ==
    /\ life[id].stage = "waiting"
    /\ life' = [life EXCEPT ![id].stage = "running"]

Succeed(id) ==
    /\ life[id].stage = "running"
    /\ life' = [life EXCEPT ![id] = Absent]

FailAgain(id) ==
    /\ life[id].stage = "running"
    /\ life[id].attempts + 1 < life[id].max
    /\ life' = [life EXCEPT ![id].stage = "waiting", ![id].attempts = @ + 1]

GiveUp(id) ==
    /\ life[id].stage = "running"
    /\ life[id].attempts + 1 = life[id].max
    /\ life' = [life EXCEPT ![id].stage = "dead", ![id].attempts = @ + 1]

Reopen(id) ==
    /\ life[id].stage = "dead"
    /\ life' = [life EXCEPT ![id].stage = "waiting", ![id].attempts = 0]

Finish(id) == Succeed(id) \/ FailAgain(id) \/ GiveUp(id)

Next ==
    \/ \E ids \in (SUBSET TaskId) \ {{}} : Accept(ids)
    \/ \E id \in TaskId : Start(id) \/ Finish(id) \/ Reopen(id)

Spec == Init /\ [][Next]_life

\* Every waiting task is started and every started one finishes; nobody has
\* to submit or to reopen anything.
FairSpec ==
    /\ Spec
    /\ \A id \in TaskId : WF_life(Start(id)) /\ WF_life(Finish(id))

-----------------------------------------------------------------------------
(***************************************************************************)
(* A task still in play has an attempt left; a dead one has none, and was  *)
(* attempted at least once: the promise fail_task and the "max-attempt     *)
(* enforcement" of the README make.                                        *)
(***************************************************************************)
AttemptsBounded ==
    /\ life \in [TaskId -> Life]
    /\ \A id \in TaskId :
          /\ life[id].stage \in {"waiting", "running"} =>
                life[id].attempts < life[id].max
          /\ life[id].stage = "dead" =>
                life[id].max > 0 /\ life[id].attempts = life[id].max
=============================================================================
