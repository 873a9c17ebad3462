----------------------------- MODULE Guardian ------------------------------
(***************************************************************************)
(* The budget guardian (crates/ultra-core/src/guardian.rs) behind its HTTP *)
(* handlers (app.rs) and its persisted row (persist_guardian_daily_spend): *)
(* agents ask for a preflight check, work, and report what they spent.     *)
(*                                                                         *)
(* A handler holds the guardian's mutex from its first statement to its    *)
(* last.  register_spend and reset_guardian change the guardian and then   *)
(* persist it, two steps under one hold of the mutex; the other handlers   *)
(* are one step.  Amounts are whole units of money, as coarse as one likes.*)
(***************************************************************************)
EXTENDS Integers, FiniteSetsExt

CONSTANTS
    Agents,       \* clients that ask before they spend
    Costs,        \* the estimated costs they ask for
    Limit,        \* daily_budget_limit_usd
    Threshold,    \* preflight_authorize_threshold_usd
    Unannounced,  \* amounts reported by clients that did not ask
    MaxTotal,     \* bound: unannounced spending stops beyond it
    Faults,       \* the faults that may happen, a subset of Fault
    MaxFaults,    \* bound: number of faults
    None          \* no row

Fault == {"crash", "error"}

ASSUME GuardianAssumption ==
    /\ Costs \subseteq Nat /\ Unannounced \subseteq Nat
    /\ Limit \in Nat /\ Threshold \in Nat /\ MaxTotal \in Nat
    /\ Faults \subseteq Fault
    /\ MaxFaults \in Nat

VARIABLES
    total,       \* Guardian.total_spent_today_usd
    revoked,     \* Guardian.keys_revoked
    writing,     \* a handler holds the mutex and has yet to persist
    saved,       \* the row of guardian_daily_spend
    agent,       \* what each agent is doing
    estimate,    \* the cost its last preflight was about
    spent,       \* history: what was reported since the last manual reset
    unasked,     \* history: the part of it nobody asked for first
    restarts,    \* history: restarts of the process since then
    faults       \* faults so far

guardian == <<total, revoked>>
agents == <<agent, estimate>>
history == <<spent, unasked, restarts>>
vars == <<guardian, writing, saved, agents, history, faults>>

Row == [total : Nat, revoked : BOOLEAN]

Init ==
    /\ total = 0
    /\ revoked = FALSE
    /\ writing = FALSE
    /\ saved = None
    /\ agent = [a \in Agents |-> "idle"]
    /\ estimate = [a \in Agents |-> 0]
    /\ spent = 0
    /\ unasked = 0
    /\ restarts = 0
    /\ faults = 0

-----------------------------------------------------------------------------
(* POST /guardian/preflight.  The check changes nothing in the guardian:   *)
(* what it allowed lives on only in the client that was told.              *)

\* Faulty variant: the projection leaves the new cost out.
AllowedWithoutProjection(cost) == ~revoked /\ total <= Limit

Allowed(cost) == ~revoked /\ total + cost <= Limit
RequiresAuthorization(cost) == cost >= Threshold

Preflight(a, cost) ==
    /\ agent[a] = "idle"
    /\ ~writing
    /\ Allowed(cost)
    /\ agent' = [agent EXCEPT ![a] =
                    IF RequiresAuthorization(cost) THEN "asking" ELSE "cleared"]
    /\ estimate' = [estimate EXCEPT ![a] = cost]
    /\ UNCHANGED <<guardian, writing, saved, history, faults>>

\* The user answers the request for authorization (outside the program).
Authorize(a) ==
    /\ agent[a] = "asking"
    /\ agent' = [agent EXCEPT ![a] = "cleared"]
    /\ UNCHANGED <<guardian, writing, saved, estimate, history, faults>>

Decline(a) ==
    /\ agent[a] = "asking"
    /\ agent' = [agent EXCEPT ![a] = "idle"]
    /\ estimate' = [estimate EXCEPT ![a] = 0]
    /\ UNCHANGED <<guardian, writing, saved, history, faults>>

-----------------------------------------------------------------------------
(* POST /guardian/spend and POST /guardian/reset.                          *)

\* Faulty variant: a budget reached is taken for a budget exceeded.
RegisterSpendAtLimit(amount) ==
    /\ ~writing
    /\ total' = total + amount
    /\ revoked' = (revoked \/ total' >= Limit)
    /\ writing' = TRUE
    /\ spent' = spent + amount
    /\ UNCHANGED <<saved, restarts, faults>>

RegisterSpend(amount) ==
    /\ ~writing
    /\ total' = total + amount
    /\ revoked' = (revoked \/ total' > Limit)
    /\ writing' = TRUE
    /\ spent' = spent + amount
    /\ UNCHANGED <<saved, restarts, faults>>

\* An agent reports at most what it was cleared for.
AgentSpends(a) ==
    /\ agent[a] = "cleared"
    /\ \E amount \in 0..estimate[a] : RegisterSpend(amount)
    /\ agent' = [agent EXCEPT ![a] = "idle"]
    /\ estimate' = [estimate EXCEPT ![a] = 0]
    /\ UNCHANGED unasked

UnannouncedSpend(amount) ==
    /\ total <= MaxTotal
    /\ RegisterSpend(amount)
    /\ unasked' = unasked + amount
    /\ UNCHANGED agents

\* Faulty variant: the reset is not persisted.
ManualResetUnsaved ==
    /\ ~writing
    /\ total' = 0
    /\ revoked' = FALSE
    /\ spent' = 0 /\ unasked' = 0 /\ restarts' = 0
    /\ UNCHANGED <<writing, saved, agents, faults>>

ManualReset ==
    /\ ~writing
    /\ total' = 0
    /\ revoked' = FALSE
    /\ writing' = TRUE
    /\ spent' = 0 /\ unasked' = 0 /\ restarts' = 0
    /\ UNCHANGED <<saved, agents, faults>>

\* persist_guardian_snapshot: one row, upserted under one constant date.
Persist ==
    /\ writing
    /\ saved' = [total |-> total, revoked |-> revoked]
    /\ writing' = FALSE
    /\ UNCHANGED <<guardian, agents, history, faults>>

-----------------------------------------------------------------------------
(* The world.                                                              *)

Suffer(fault) ==
    /\ fault \in Faults
    /\ faults < MaxFaults
    /\ faults' = faults + 1

\* The error of the upsert is discarded.
PersistError ==
    /\ Suffer("error")
    /\ writing
    /\ writing' = FALSE
    /\ UNCHANGED <<guardian, saved, agents, history>>

\* The process dies and is restarted.  Guardian::new starts from zero; nothing
\* reads the saved row back.  The agents and what they were told live on, and
\* what was spent stays spent.
Crash ==
    /\ Suffer("crash")
    /\ total' = 0
    /\ revoked' = FALSE
    /\ writing' = FALSE
    /\ restarts' = restarts + 1
    /\ UNCHANGED <<saved, agents, spent, unasked>>

-----------------------------------------------------------------------------
Next ==
    \/ \E a \in Agents :
          \/ \E cost \in Costs : Preflight(a, cost)
          \/ Authorize(a)
          \/ Decline(a)
          \/ AgentSpends(a)
    \/ \E amount \in Unannounced : UnannouncedSpend(amount)
    \/ ManualReset
    \/ Persist
    \/ PersistError
    \/ Crash

Spec == Init /\ [][Next]_vars

-----------------------------------------------------------------------------
(* Properties.                                                             *)

\* The fields of Guardian, its row, and what the agents were told.
TypeOK ==
    /\ total \in Nat /\ spent \in Nat /\ unasked \in Nat
    /\ restarts \in Nat /\ faults \in Nat
    /\ revoked \in BOOLEAN /\ writing \in BOOLEAN
    /\ saved \in Row \cup {None}
    /\ agent \in [Agents -> {"idle", "asking", "cleared"}]
    /\ estimate \in [Agents -> Nat]

(***************************************************************************)
(* The hard kill-switch of the technical specification: once more than the *)
(* limit was spent, the keys are revoked until a manual reset.  It does    *)
(* not hold of the program: a restart gives the keys back.                 *)
(***************************************************************************)
RevokedUntilReset == spent > Limit => revoked

\* As long as the process lives, the keys are revoked exactly while what was
\* spent since the last reset is over the limit: a report never takes it over
\* unnoticed, and a budget used up to the last unit does not lock anybody out.
RevokedExactlyOverLimit == restarts = 0 => (revoked <=> spent > Limit)

(***************************************************************************)
(* How far the cap can be overshot.  preflight_check reserves nothing, so  *)
(* agents cleared one after the other against the same total may all spend *)
(* it; and a restart forgets what was spent but not who was cleared, so    *)
(* that each one grants another budget.  What was spent since the last     *)
(* reset plus all that is still cleared stays within, for every life of    *)
(* the process, the limit and what all agents but one can be cleared for,  *)
(* plus what was reported by clients that never asked.                     *)
(***************************************************************************)
\* Every unit of money some agent is still cleared for; their number is the sum
\* of the estimates.
Units == UNION {{a} \X (1..estimate[a]) : a \in Agents}
Outstanding == Cardinality(Units)

\* The most one life of the process grants to agents that ask.
OneLife == Limit + (Cardinality(Agents) - 1) * Max(Costs)

OvershootBounded == spent + Outstanding <= (restarts + 1) * OneLife + unasked

(***************************************************************************)
(* The persisted row, which GET /metrics reports as the spend of the day,  *)
(* is what the guardian says whenever nobody is inside the mutex; as long  *)
(* as no write has failed and the process has not been restarted.          *)
(***************************************************************************)
SavedIsCurrent ==
    ~writing /\ faults = 0 =>
        \/ saved = [total |-> total, revoked |-> revoked]
        \/ saved = None /\ total = 0 /\ ~revoked
=============================================================================
