---------------------------- MODULE MC_Scheduler ----------------------------
EXTENDS Scheduler

CONSTANTS j1, j2, w1, c1

\* One trigger of each kind: a period, a cron step, a named second of the
\* minute, and an expression that does not parse.
MCTriggers ==
    {[kind |-> "every", n |-> 2], [kind |-> "cronStep", n |-> 3],
     [kind |-> "cronAt", n |-> 1], [kind |-> "cronBad", n |-> 0]}
=============================================================================
