------------------------ MODULE TaskQueueRefinement ------------------------
(***************************************************************************)
(* The task queue keeps the promise of TaskLifecycle for every id nobody   *)
(* submits again while a task has it, as long as neither a crash nor an    *)
(* SQL error comes in between.  What happens under other ids is no step of *)
(* the lifecycle at all.                                                   *)
(***************************************************************************)
EXTENDS TaskQueue

Bury(id) == {w \in Workers : pc[w] = "bury" /\ Holds(w, id)}

\* The life of one task as its row, its dead letter and the thread between
\* the two tell it.  A burial under way is still the failed attempt running,
\* a requeue under way is still the dead task.
LifeOf(id) ==
    IF InQueue(id) THEN
        [stage |-> IF Running(id) THEN "running" ELSE "waiting",
         attempts |-> taskQueue[id].attempts, max |-> taskQueue[id].max]
    ELSE IF deadLetter[id] # None THEN
        [stage |-> "dead", attempts |-> deadLetter[id].attempts,
         max |-> deadLetter[id].max]
    ELSE IF requeuing # None /\ requeuing.id = id THEN
        [stage |-> "dead", attempts |-> requeuing.max, max |-> requeuing.max]
    ELSE IF \E w \in Workers : pc[w] = "bury" /\ Holds(w, id) THEN
        LET w == CHOOSE v \in Bury(id) : TRUE
        IN  [stage |-> "running", attempts |-> held[w].attempts,
             max |-> held[w].max]
    ELSE [stage |-> "absent", attempts |-> 0, max |-> 0]

Lifecycle == INSTANCE TaskLifecycle WITH
                 TaskId <- OrderlyIds,
                 life <- [id \in OrderlyIds |-> LifeOf(id)]

\* Every step of the queue is a step of the lifecycle or none: what the
\* tables and threads of persistence/mod.rs and app.rs do to one task.  And
\* the fairness of the threads is enough for the lifecycle's: whatever waits
\* is started, whatever is started finishes.
ImplementsLifecycleFairly == Lifecycle!FairSpec
=============================================================================
