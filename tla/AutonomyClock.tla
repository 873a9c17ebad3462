--------------------------- MODULE AutonomyClock ---------------------------
(***************************************************************************)
(* The functions of Autonomy consulted at every instant of a clock, and    *)
(* what they owe their callers at each of them.                            *)
(***************************************************************************)
EXTENDS Autonomy

CONSTANTS MaxNow,      \* bound of the clock
          Periods,     \* the n of the triggers that are tried
          Bases,       \* retry_base_delay_seconds values
          MaxJitter    \* bound of retry_jitter_seconds

ASSUME ClockAssumption ==
    /\ MaxNow \in Nat /\ MaxJitter \in Nat
    /\ Periods \subseteq 0..U64Max /\ Bases \subseteq 0..U64Max

VARIABLE now           \* now_unix()

Init == now = 0

Tick == now < MaxNow /\ now' = now + 1

Spec == Init /\ [][Tick]_now

(***************************************************************************)
(* A cron trigger that parses is due next at the first instant after now   *)
(* that its expression names: never now itself (which would fire it twice  *)
(* in one second), never past a named instant (a missed run).  Unless the  *)
(* addition saturates.                                                     *)
(***************************************************************************)
NextRunIsFirstNamedInstant ==
    \A t \in [kind : {"cronStep", "cronAt"}, n : Periods] :
        LET next == NextScheduleRun(t, now)
        IN  Parses(t) /\ next < U64Max =>
                /\ next > now
                /\ Names(t, next)
                /\ \A i \in (now + 1)..(next - 1) : ~Names(t, i)

(***************************************************************************)
(* Exponential backoff: as long as the jitter stays below the base delay,  *)
(* each further attempt waits strictly longer than the one before it,      *)
(* whatever the clock reads at the two failures; until the exponent        *)
(* reaches its clamp or the product saturates.                             *)
(***************************************************************************)
BackoffGrows ==
    \A base \in Bases, jitter \in 0..MaxJitter, a \in 1..16 :
        \A later \in now..(now + jitter) :
            LET first  == ComputeRetryDelay(a, base, jitter, now)
                second == ComputeRetryDelay(a + 1, base, jitter, later)
            IN  jitter < base /\ second < U64Max => second > first
=============================================================================
