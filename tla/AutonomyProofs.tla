--------------------------- MODULE AutonomyProofs ---------------------------
(***************************************************************************)
(* Proofs about the time arithmetic, for every width of the integers, every*)
(* clock, period, base delay and jitter.                                   *)
(***************************************************************************)
EXTENDS AutonomyClock, TLAPS

(* Division.                                                               *)

LEMMA DivMod ==
    ASSUME NEW m \in Nat \ {0}, NEW s \in Nat
    PROVE  /\ s \div m \in Nat /\ s % m \in 0..(m - 1)
           /\ s = m * (s \div m) + (s % m)
BY Z3

LEMMA FactorsOrdered ==
    ASSUME NEW m \in Nat \ {0}, NEW p \in Nat, NEW q \in Nat, m * p < m * q
    PROVE  p < q
<1>1. CASE p >= q
  <2>1. PICK d \in Nat : p = q + d
    <3>1. p - q \in Nat /\ p = q + (p - q)
      BY <1>1
    <3> QED
      BY <3>1
  <2>2. m * (q + d) = m * q + m * d /\ m * d \in Nat /\ m * q \in Nat
    OBVIOUS
  <2> QED
    BY <2>1, <2>2
<1> QED
  BY <1>1

LEMMA NoRemainder ==
    ASSUME NEW m \in Nat \ {0}, NEW i \in Nat
    PROVE  (m * i) % m = 0
<1>1. PICK q, r : q = (m * i) \div m /\ r = (m * i) % m
  OBVIOUS
<1>2. m * i \in Nat
  OBVIOUS
<1>3. q \in Nat /\ r \in 0..(m - 1) /\ m * i = m * q + r
  BY <1>1, <1>2, DivMod
<1>4. m * q \in Nat /\ m * (q + 1) = m * q + m
  BY <1>3
<1>5. m * i < m * (q + 1)
  BY <1>2, <1>3, <1>4
<1>6. i < q + 1
  BY <1>3, <1>5, FactorsOrdered
<1>7. CASE i < q
  <2>1. PICK d \in Nat : q = i + 1 + d
    <3>1. q - i - 1 \in Nat /\ q = i + 1 + (q - i - 1)
      BY <1>3, <1>7
    <3> QED
      BY <3>1
  <2>2. m * (i + 1 + d) = m * i + m + m * d /\ m * d \in Nat
    OBVIOUS
  <2> QED
    BY <1>2, <1>3, <1>4, <2>1, <2>2
<1>8. CASE i = q
  BY <1>1, <1>2, <1>3, <1>4, <1>8
<1> QED
  BY <1>3, <1>6, <1>7, <1>8

-----------------------------------------------------------------------------
(* When a job is due next.                                                 *)

LEMMA SumUnlessSaturated ==
    ASSUME NEW a \in Nat, NEW b \in Nat, SatAdd(a, b) < U64Max
    PROVE  SatAdd(a, b) = a + b
BY U64MaxAssumption DEF SatAdd

\* cron_step: the next multiple of the step.
LEMMA CronStepFirst ==
    ASSUME NEW step \in Nat \ {0}, NEW instant \in Nat,
           CronStep(step, instant) < U64Max
    PROVE  /\ CronStep(step, instant) > instant
           /\ CronStep(step, instant) % step = 0
           /\ \A i \in (instant + 1)..(CronStep(step, instant) - 1) : i % step # 0
<1>1. PICK q, r : q = instant \div step /\ r = instant % step
  OBVIOUS
<1>2. q \in Nat /\ r \in 0..(step - 1) /\ instant = step * q + r
  BY <1>1, DivMod
<1>3. PICK delta : delta = IF r = 0 THEN step ELSE step - r
  OBVIOUS
<1>4. delta \in Nat /\ delta = step - r
  BY <1>2, <1>3
<1>5. CronStep(step, instant) = SatAdd(instant, delta)
  BY <1>1, <1>3 DEF CronStep
<1>6. PICK next : next = CronStep(step, instant)
  OBVIOUS
<1>7. next = instant + delta
  BY <1>4, <1>5, <1>6, SumUnlessSaturated
<1>8. step * q \in Nat /\ step * (q + 1) = step * q + step
  BY <1>2
<1>9. next = step * (q + 1)
  BY <1>2, <1>4, <1>7, <1>8
<1>10. next % step = 0
  BY <1>2, <1>9, NoRemainder
<1>11. next > instant /\ next \in Nat
  BY <1>2, <1>4, <1>7
<1>12. ASSUME NEW i \in (instant + 1)..(next - 1), i % step = 0 PROVE FALSE
  <2>1. i \in Nat /\ instant < i /\ i < next
    BY <1>11
  <2>2. PICK k : k = i \div step
    OBVIOUS
  <2>3. k \in Nat /\ i = step * k + 0
    BY <1>12, <2>1, <2>2, DivMod
  <2>4. step * k \in Nat /\ i = step * k
    BY <2>3
  <2>5. step * q < step * k /\ step * k < step * (q + 1)
    BY <1>2, <1>8, <1>9, <2>1, <2>4
  <2>6. q < k /\ k < q + 1
    BY <1>2, <2>3, <2>5, FactorsOrdered
  <2> QED
    BY <1>2, <2>3, <2>6
<1> QED
  BY <1>6, <1>10, <1>11, <1>12

\* cron_at: the next instant with this second of its minute.
LEMMA CronAtFirst ==
    ASSUME NEW sec \in 0..59, NEW instant \in Nat, CronAt(sec, instant) < U64Max
    PROVE  /\ CronAt(sec, instant) > instant
           /\ CronAt(sec, instant) % 60 = sec
           /\ \A i \in (instant + 1)..(CronAt(sec, instant) - 1) : i % 60 # sec
<1>1. PICK c : c = instant % 60
  OBVIOUS
<1>2. c \in 0..59
  BY <1>1
<1>3. PICK delta : delta = IF sec > c THEN sec - c ELSE 60 - (c - sec)
  OBVIOUS
<1>4. delta \in 1..60 /\ delta \in Nat
  BY <1>2, <1>3
<1>5. CronAt(sec, instant) = SatAdd(instant, delta)
  BY <1>1, <1>3, <1>4 DEF CronAt
<1>6. PICK next : next = CronAt(sec, instant)
  OBVIOUS
<1>7. next = instant + delta
  BY <1>4, <1>5, <1>6, SumUnlessSaturated
<1>8. next > instant
  BY <1>4, <1>7
<1>9. next % 60 = sec
  BY <1>1, <1>2, <1>3, <1>7
<1>10. ASSUME NEW i \in (instant + 1)..(next - 1) PROVE i % 60 # sec
  <2>1. PICK d : d = i - instant
    OBVIOUS
  <2>2. d \in 1..(delta - 1) /\ i = instant + d
    BY <1>4, <1>7, <2>1
  <2> QED
    BY <1>1, <1>2, <1>3, <2>2
<1> QED
  BY <1>6, <1>8, <1>9, <1>10

LEMMA FirstNamedInstant ==
    ASSUME now \in Nat
    PROVE  NextRunIsFirstNamedInstant
<1> SUFFICES ASSUME NEW t \in [kind : {"cronStep", "cronAt"}, n : Periods],
                    Parses(t), NextScheduleRun(t, now) < U64Max
             PROVE  /\ NextScheduleRun(t, now) > now
                    /\ Names(t, NextScheduleRun(t, now))
                    /\ \A i \in (now + 1)..(NextScheduleRun(t, now) - 1) : ~Names(t, i)
  BY DEF NextRunIsFirstNamedInstant
<1>1. t.n \in Nat
  <2>1. Periods \subseteq Nat
    BY ClockAssumption, U64MaxAssumption
  <2>2. t.n \in Periods
    OBVIOUS
  <2> QED
    BY <2>1, <2>2
<1>2. CASE t.kind = "cronStep"
  <2>1. t.n \in Nat \ {0} /\ NextScheduleRun(t, now) = CronStep(t.n, now)
    BY <1>1, <1>2 DEF Parses, NextScheduleRun
  <2>2. /\ CronStep(t.n, now) > now /\ CronStep(t.n, now) % t.n = 0
        /\ \A i \in (now + 1)..(CronStep(t.n, now) - 1) : i % t.n # 0
    <3>1. CronStep(t.n, now) < U64Max
      BY <2>1
    <3> QED
      BY <2>1, <3>1, CronStepFirst
  <2>3. \A i : Names(t, i) <=> i % t.n = 0
    BY <1>2 DEF Names
  <2> QED
    BY <2>1, <2>2, <2>3
<1>3. CASE t.kind = "cronAt"
  <2>1. t.n \in 0..59 /\ NextScheduleRun(t, now) = CronAt(t.n, now)
    BY <1>1, <1>3 DEF Parses, NextScheduleRun
  <2>2. /\ CronAt(t.n, now) > now /\ CronAt(t.n, now) % 60 = t.n
        /\ \A i \in (now + 1)..(CronAt(t.n, now) - 1) : i % 60 # t.n
    <3>1. CronAt(t.n, now) < U64Max
      BY <2>1
    <3> QED
      BY <2>1, <3>1, CronAtFirst
  <2>3. \A i : Names(t, i) <=> i % 60 = t.n
    BY <1>3 DEF Names
  <2> QED
    BY <2>1, <2>2, <2>3
<1> QED
  BY <1>2, <1>3

-----------------------------------------------------------------------------
(* How long a failed task waits.                                           *)

\* Up to the clamp, each attempt more is one power of two more.
LEMMA Doubling ==
    ASSUME NEW a \in 1..16
    PROVE  /\ Pow2[Exponent(a) + 1] \in Nat \ {0}
           /\ Pow2[Exponent(a + 1) + 1] = 2 * Pow2[Exponent(a) + 1]
<1>1. Exponent(a) = a - 1 /\ Exponent(a + 1) = a
  BY DEF Exponent
<1>2. \/ a = 1 \/ a = 2 \/ a = 3 \/ a = 4 \/ a = 5 \/ a = 6 \/ a = 7 \/ a = 8
      \/ a = 9 \/ a = 10 \/ a = 11 \/ a = 12 \/ a = 13 \/ a = 14 \/ a = 15 \/ a = 16
  OBVIOUS
<1>3. Pow2[a] \in Nat \ {0} /\ Pow2[a + 1] = 2 * Pow2[a]
  BY <1>2 DEF Pow2
<1> QED
  BY <1>1, <1>3

LEMMA JitterBounded ==
    ASSUME NEW jitter \in Nat, NEW instant \in Nat
    PROVE  Jitter(jitter, instant) \in 0..jitter
<1>1. CASE jitter = 0
  BY <1>1 DEF Jitter
<1>2. CASE jitter # 0
  <2>1. instant % (jitter + 1) \in 0..(jitter + 1 - 1)
    BY DivMod
  <2> QED
    BY <1>2, <2>1 DEF Jitter
<1> QED
  BY <1>1, <1>2

LEMMA DelayGrows ==
    ASSUME NEW base \in Nat, NEW jitter \in Nat, NEW a \in 1..16,
           NEW instant \in Nat, NEW later \in Nat, jitter < base,
           ComputeRetryDelay(a + 1, base, jitter, later) < U64Max
    PROVE  ComputeRetryDelay(a + 1, base, jitter, later)
             > ComputeRetryDelay(a, base, jitter, instant)
<1>1. U64Max \in Nat
  BY U64MaxAssumption
<1>2. PICK power : power = Pow2[Exponent(a) + 1]
  OBVIOUS
<1>3. power \in Nat \ {0} /\ Pow2[Exponent(a + 1) + 1] = 2 * power
  BY <1>2, Doubling
<1>4. PICK wait : wait = base * power
  OBVIOUS
<1>5. wait \in Nat /\ base * (2 * power) = wait + wait
  BY <1>3, <1>4
<1>6. base <= wait
  <2>1. PICK d \in Nat : power = 1 + d
    <3>1. power - 1 \in Nat /\ power = 1 + (power - 1)
      BY <1>3
    <3> QED
      BY <3>1
  <2>2. base * (1 + d) = base + base * d /\ base * d \in Nat
    OBVIOUS
  <2> QED
    BY <1>4, <2>1, <2>2
<1>7. PICK j, k : j = Jitter(jitter, instant) /\ k = Jitter(jitter, later)
  OBVIOUS
<1>8. j \in Nat /\ j < base /\ k \in Nat
  BY <1>7, JitterBounded
<1>9. /\ ComputeRetryDelay(a, base, jitter, instant) = SatAdd(SatMul(base, power), j)
      /\ ComputeRetryDelay(a + 1, base, jitter, later) = SatAdd(SatMul(base, 2 * power), k)
  BY <1>2, <1>3, <1>7 DEF ComputeRetryDelay
<1>10. /\ SatMul(base, power) = IF wait > U64Max THEN U64Max ELSE wait
       /\ SatMul(base, 2 * power) = IF wait + wait > U64Max THEN U64Max ELSE wait + wait
  BY <1>4, <1>5 DEF SatMul
<1>11. wait + wait <= U64Max /\ SatAdd(SatMul(base, 2 * power), k) = wait + wait + k
  BY <1>1, <1>5, <1>8, <1>9, <1>10 DEF SatAdd
<1>12. SatAdd(SatMul(base, power), j) = wait + j
  BY <1>1, <1>5, <1>6, <1>8, <1>10, <1>11 DEF SatAdd
<1> QED
  BY <1>5, <1>6, <1>8, <1>9, <1>11, <1>12

LEMMA BackoffGrowing ==
    ASSUME now \in Nat
    PROVE  BackoffGrows
<1> SUFFICES ASSUME NEW base \in Bases, NEW jitter \in 0..MaxJitter, NEW a \in 1..16,
                    NEW later \in now..(now + jitter), jitter < base,
                    ComputeRetryDelay(a + 1, base, jitter, later) < U64Max
             PROVE  ComputeRetryDelay(a + 1, base, jitter, later)
                      > ComputeRetryDelay(a, base, jitter, now)
  BY DEF BackoffGrows
<1>1. base \in Nat /\ jitter \in Nat /\ later \in Nat
  BY ClockAssumption, U64MaxAssumption
<1> QED
  BY <1>1, DelayGrows

-----------------------------------------------------------------------------
LEMMA ClockHolds == Spec => [](now \in Nat)
<1>1. Init => now \in Nat
  BY DEF Init
<1>2. now \in Nat /\ [Tick]_now => (now \in Nat)'
  BY DEF Tick
<1> QED
  BY <1>1, <1>2, PTL DEF Spec

\* At every instant and for every step and second of the minute: a cron
\* trigger that parses is due next at the first instant after now that its
\* expression names, unless the sum saturates.
THEOREM NextRunHolds == Spec => []NextRunIsFirstNamedInstant
<1>1. now \in Nat => NextRunIsFirstNamedInstant
  BY FirstNamedInstant
<1> QED
  BY <1>1, ClockHolds, PTL

\* For every base delay and every jitter below it: each further attempt waits
\* strictly longer than the one before it, whatever the clock reads, up to the
\* clamp of the exponent and unless the wait saturates.
THEOREM BackoffHolds == Spec => []BackoffGrows
<1>1. now \in Nat => BackoffGrows
  BY BackoffGrowing
<1> QED
  BY <1>1, ClockHolds, PTL
=============================================================================
