------------------------------ MODULE Autonomy ------------------------------
(***************************************************************************)
(* The time arithmetic of crates/ultra-core/src/autonomy/mod.rs: how long  *)
(* a failed task waits before its next attempt, and when a scheduled job   *)
(* is due next.  Instants and durations are u64 seconds.                   *)
(***************************************************************************)
EXTENDS Integers

CONSTANT U64Max  \* the largest u64, 2^64 - 1 in the build

ASSUME U64MaxAssumption == U64Max \in Nat

SatAdd(a, b) == IF a + b > U64Max THEN U64Max ELSE a + b

SatMul(a, b) == IF a * b > U64Max THEN U64Max ELSE a * b

(***************************************************************************)
(* Every instant is cast `as i64` on its way into an SQLite INTEGER column *)
(* or into a comparison with one: the upper half of u64 becomes negative.  *)
(***************************************************************************)
I64Max == U64Max \div 2
Column == (-(I64Max + 1))..I64Max

ToI64(n) == IF n > I64Max THEN n - (U64Max + 1) ELSE n

(***************************************************************************)
(* The backoff of one failed task: base * 2^(attempts-1), the exponent     *)
(* clamped to 0..16, plus a jitter that is read off the clock.             *)
(***************************************************************************)
Exponent(attempts) ==
    LET before == IF attempts = 0 THEN 0 ELSE attempts - 1
    IN  IF before > 16 THEN 16 ELSE before

\* Faulty variant: Rust's 2 ^ exponent, which is exclusive or.
Pow2Xor == <<2, 3, 0, 1, 6, 7, 4, 5, 10, 11, 8, 9, 14, 15, 12, 13, 18>>

\* 2^0 .. 2^16, every power the clamped exponent can ask for.
Pow2 == <<1, 2, 4, 8, 16, 32, 64, 128, 256, 512, 1024, 2048, 4096, 8192,
          16384, 32768, 65536>>

Jitter(jitter_seconds, now) ==
    IF jitter_seconds = 0 THEN 0 ELSE now % (jitter_seconds + 1)

ComputeRetryDelay(attempts, base_delay, jitter_seconds, now) ==
    SatAdd(SatMul(base_delay, Pow2[Exponent(attempts) + 1]),
           Jitter(jitter_seconds, now))

(***************************************************************************)
(* Triggers.  A cron expression is kept as what its first field parses to: *)
(*   "every"    every_seconds = n                                          *)
(*   "cronStep" "*/n * * * * *"                                            *)
(*   "cronAt"   "n * * * * *"                                              *)
(*   "cronBad"  any expression that does not parse (n is ignored)          *)
(***************************************************************************)
TriggerKind == {"every", "cronStep", "cronAt", "cronBad"}
Trigger == [kind : TriggerKind, n : 0..U64Max]

\* None of the source's Option<u64>; no u64 is negative.
NoRun == -1

CronStep(step, now) ==
    IF step = 0 THEN NoRun
    ELSE LET rem == now % step
         IN  SatAdd(now, IF rem = 0 THEN step ELSE step - rem)

\* Faulty variant: >= where the code has >, due again at once.
CronAtNow(sec, now) ==
    IF sec > 59 THEN NoRun
    ELSE LET current == now % 60
         IN  SatAdd(now, IF sec >= current THEN sec - current
                                           ELSE 60 - (current - sec))

CronAt(sec, now) ==
    IF sec > 59 THEN NoRun
    ELSE LET current == now % 60
             delta   == IF sec > current THEN sec - current
                                         ELSE 60 - (current - sec)
         IN  SatAdd(now, IF delta < 1 THEN 1 ELSE delta)

NextScheduleRun(trigger, now) ==
    CASE trigger.kind = "every"    -> IF trigger.n = 0 THEN NoRun
                                      ELSE SatAdd(now, trigger.n)
      [] trigger.kind = "cronStep" -> CronStep(trigger.n, now)
      [] trigger.kind = "cronAt"   -> CronAt(trigger.n, now)
      [] trigger.kind = "cronBad"  -> NoRun

(***************************************************************************)
(* The reference: the instants a cron trigger names.                       *)
(***************************************************************************)
Parses(trigger) ==
    \/ trigger.kind = "cronStep" /\ trigger.n > 0
    \/ trigger.kind = "cronAt" /\ trigger.n <= 59

Names(trigger, instant) ==
    IF trigger.kind = "cronStep" THEN instant % trigger.n = 0
                                 ELSE instant % 60 = trigger.n
=============================================================================
