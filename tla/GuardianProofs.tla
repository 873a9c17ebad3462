--------------------------- MODULE GuardianProofs ---------------------------
(***************************************************************************)
(* Proofs about Guardian, for every set of agents, every limit and cost,   *)
(* and every number of faults.                                             *)
(***************************************************************************)
EXTENDS Guardian, TLAPS, FiniteSetTheorems

LEMMA TypeInit == Init => TypeOK
<1> SUFFICES ASSUME Init PROVE TypeOK
  OBVIOUS
<1>1. revoked \in BOOLEAN /\ writing \in BOOLEAN
  BY Zenon DEF Init
<1>2. /\ total \in Nat /\ spent \in Nat /\ unasked \in Nat
      /\ restarts \in Nat /\ faults \in Nat
      /\ saved \in Row \cup {None}
      /\ agent \in [Agents -> {"idle", "asking", "cleared"}]
      /\ estimate \in [Agents -> Nat]
  BY DEF Init
<1> QED
  BY <1>1, <1>2 DEF TypeOK

\* What register_spend does to the guardian, whoever reports.
LEMMA RegisterType ==
    ASSUME TypeOK, NEW amount \in Nat, RegisterSpend(amount)
    PROVE  /\ total' = total + amount /\ total' \in Nat
           /\ revoked' \in BOOLEAN /\ writing' = TRUE
           /\ saved' \in Row \cup {None} /\ faults' \in Nat
           /\ saved' = saved /\ faults' = faults
           /\ spent' = spent + amount /\ spent' \in Nat /\ restarts' = restarts
<1>1. revoked' \in BOOLEAN
  BY DEF RegisterSpend
<1> QED
  BY <1>1 DEF RegisterSpend, TypeOK

LEMMA PreflightType ==
    ASSUME TypeOK, NEW a \in Agents, NEW cost \in Costs, Preflight(a, cost)
    PROVE  TypeOK'
<1>1. cost \in Nat
  BY GuardianAssumption
<1> QED
  BY <1>1 DEF TypeOK, Preflight, guardian, history

LEMMA AgentSpendsType ==
    ASSUME TypeOK, NEW a \in Agents, AgentSpends(a)
    PROVE  TypeOK'
<1>1. PICK amount \in 0..estimate[a] : RegisterSpend(amount)
  BY DEF AgentSpends
<1>2. amount \in Nat
  BY DEF TypeOK
<1>3. /\ agent' \in [Agents -> {"idle", "asking", "cleared"}]
      /\ estimate' \in [Agents -> Nat]
      /\ unasked' \in Nat
  BY DEF AgentSpends, TypeOK
<1> QED
  BY <1>1, <1>2, <1>3, RegisterType DEF TypeOK

LEMMA UnannouncedType ==
    ASSUME TypeOK, NEW amount \in Unannounced, UnannouncedSpend(amount)
    PROVE  TypeOK'
<1>1. amount \in Nat
  BY GuardianAssumption
<1>2. RegisterSpend(amount) /\ unasked' \in Nat /\ UNCHANGED agents
  BY <1>1 DEF UnannouncedSpend, TypeOK
<1> QED
  BY <1>1, <1>2, RegisterType DEF TypeOK, agents

\* The steps that are not a report of spending, one by one.
LEMMA TypeStep == TypeOK /\ [Next]_vars => TypeOK'
<1> SUFFICES ASSUME TypeOK, [Next]_vars PROVE TypeOK'
  OBVIOUS
<1> USE GuardianAssumption
<1>1. ASSUME NEW a \in Agents, NEW cost \in Costs, Preflight(a, cost)
      PROVE  TypeOK'
  BY <1>1, PreflightType
<1>2. ASSUME NEW a \in Agents, Authorize(a) PROVE TypeOK'
  BY <1>2 DEF Authorize, TypeOK, guardian, history
<1>3. ASSUME NEW a \in Agents, Decline(a) PROVE TypeOK'
  BY <1>3 DEF Decline, TypeOK, guardian, history
<1>4. ASSUME NEW a \in Agents, AgentSpends(a) PROVE TypeOK'
  BY <1>4, AgentSpendsType
<1>5. ASSUME NEW amount \in Unannounced, UnannouncedSpend(amount) PROVE TypeOK'
  BY <1>5, UnannouncedType
<1>6. CASE ManualReset
  BY <1>6 DEF ManualReset, TypeOK, agents
<1>7. CASE Persist
  <2>1. saved' \in Row
    BY <1>7 DEF Persist, TypeOK, Row
  <2> QED
    BY <1>7, <2>1 DEF Persist, TypeOK, guardian, agents, history
<1>8. CASE PersistError
  <2>1. faults' \in Nat
    BY <1>8 DEF PersistError, Suffer, TypeOK
  <2> QED
    BY <1>8, <2>1, Zenon DEF PersistError, TypeOK, guardian, agents, history
<1>9. CASE Crash
  <2>1. /\ faults' \in Nat /\ total' \in Nat /\ unasked' \in Nat
        /\ spent' \in Nat /\ restarts' \in Nat
    BY <1>9 DEF Crash, Suffer, TypeOK
  <2> QED
    BY <1>9, <2>1, Zenon DEF Crash, TypeOK, agents
<1>10. CASE UNCHANGED vars
  BY <1>10 DEF vars, TypeOK, guardian, agents, history
<1> QED
  BY <1>1, <1>2, <1>3, <1>4, <1>5, <1>6, <1>7, <1>8, <1>9, <1>10
  DEF Next

\* The fields of the guardian, its persisted row and the agents keep their
\* shape, through every report, reset, failed write and restart.
THEOREM TypeCorrect == Spec => []TypeOK
  BY TypeInit, TypeStep, PTL DEF Spec

-----------------------------------------------------------------------------
\* The keys are revoked exactly while the guardian's own total is over the
\* limit, and that total is all that was spent until a restart forgets it.
RevokedOverTotal ==
    /\ revoked <=> total > Limit
    /\ restarts = 0 => spent = total

\* A report revokes the keys exactly when it takes the total over the limit,
\* because reports only add: the total never comes back under it unless the
\* keys are given back with it.
LEMMA RegisterExact ==
    ASSUME TypeOK, RevokedOverTotal, NEW amount \in Nat, RegisterSpend(amount)
    PROVE  RevokedOverTotal'
<1>1. total > Limit => total + amount > Limit
  BY GuardianAssumption DEF TypeOK
<1>2. total' = total + amount /\ (revoked' <=> revoked \/ total' > Limit)
  BY DEF RegisterSpend, TypeOK
<1>3. revoked <=> total > Limit
  BY DEF RevokedOverTotal
<1>4. revoked' <=> total' > Limit
  BY <1>1, <1>2, <1>3
<1>5. restarts' = 0 => spent' = total'
  BY RegisterType DEF RevokedOverTotal
<1> QED
  BY <1>4, <1>5 DEF RevokedOverTotal

\* The other steps leave total and revocation alone, or zero them together.
LEMMA RevokedStep ==
    TypeOK /\ RevokedOverTotal /\ [Next]_vars => RevokedOverTotal'
<1> SUFFICES ASSUME TypeOK, RevokedOverTotal, [Next]_vars
             PROVE  RevokedOverTotal'
  OBVIOUS
<1>1. ASSUME NEW a \in Agents, AgentSpends(a) PROVE RevokedOverTotal'
  <2>1. PICK amount \in 0..estimate[a] : RegisterSpend(amount)
    BY <1>1 DEF AgentSpends
  <2>2. amount \in Nat
    BY DEF TypeOK
  <2> QED
    BY <2>1, <2>2, RegisterExact
<1>2. ASSUME NEW amount \in Unannounced, UnannouncedSpend(amount)
      PROVE  RevokedOverTotal'
  BY <1>2, GuardianAssumption, RegisterExact DEF UnannouncedSpend
<1>3. ASSUME total' = 0, revoked' = FALSE, spent' = 0 \/ restarts' # 0
      PROVE  RevokedOverTotal'
  BY <1>3, GuardianAssumption DEF RevokedOverTotal
<1>4. ASSUME UNCHANGED <<guardian, history>> PROVE RevokedOverTotal'
  BY <1>4 DEF RevokedOverTotal, guardian, history
<1>5. CASE Crash
  <2>1. restarts' # 0
    BY <1>5 DEF Crash, TypeOK
  <2> QED
    BY <1>3, <1>5, <2>1 DEF Crash
<1>6. CASE ManualReset
  BY <1>3, <1>6 DEF ManualReset
<1> QED
  BY <1>1, <1>2, <1>4, <1>5, <1>6
  DEF Next, Preflight, Authorize, Decline, Persist, PersistError, vars

LEMMA RevokedInit == Init => RevokedOverTotal
  BY GuardianAssumption DEF Init, RevokedOverTotal

\* As long as the process lives, the keys are revoked exactly while what was
\* spent since the last reset is over the limit, whoever reports what and
\* when, and through failed writes.
THEOREM RevokedHolds == Spec => []RevokedExactlyOverLimit
<1>1. Init => TypeOK /\ RevokedOverTotal
  BY TypeInit, RevokedInit
<1>2. TypeOK /\ RevokedOverTotal /\ [Next]_vars => (TypeOK /\ RevokedOverTotal)'
  BY TypeStep, RevokedStep
<1>3. RevokedOverTotal => RevokedExactlyOverLimit
  BY DEF RevokedOverTotal, RevokedExactlyOverLimit
<1> QED
  BY <1>1, <1>2, <1>3, PTL DEF Spec

-----------------------------------------------------------------------------
\* While nothing has failed, a handler that changes the guardian is inside
\* the mutex until it has written the row.
LEMMA SavedStep ==
    TypeOK /\ SavedIsCurrent /\ [Next]_vars => SavedIsCurrent'
<1> SUFFICES ASSUME TypeOK, SavedIsCurrent, [Next]_vars PROVE SavedIsCurrent'
  OBVIOUS
<1>1. ASSUME writing' = TRUE PROVE SavedIsCurrent'
  BY <1>1 DEF SavedIsCurrent
<1>2. ASSUME faults' = faults + 1 PROVE SavedIsCurrent'
  BY <1>2 DEF SavedIsCurrent, TypeOK
<1>3. ASSUME UNCHANGED <<guardian, writing, saved, faults>>
      PROVE  SavedIsCurrent'
  BY <1>3 DEF SavedIsCurrent, guardian
<1>4. CASE Persist
  BY <1>4 DEF Persist, SavedIsCurrent, guardian
<1> QED
  BY <1>1, <1>2, <1>3, <1>4
  DEF Next, Preflight, Authorize, Decline, AgentSpends, UnannouncedSpend,
      RegisterSpend, ManualReset, PersistError, Crash, Suffer, vars

\* What GET /metrics reports as the spend of the day is what the guardian
\* says, until a write fails or the process restarts.
THEOREM SavedHolds == Spec => []SavedIsCurrent
<1>1. Init => TypeOK /\ SavedIsCurrent
  BY TypeInit DEF Init, SavedIsCurrent
<1>2. TypeOK /\ SavedIsCurrent /\ [Next]_vars => (TypeOK /\ SavedIsCurrent)'
  BY TypeStep, SavedStep
<1> QED
  BY <1>1, <1>2, PTL DEF Spec

-----------------------------------------------------------------------------
(* How far the limit can be overshot.                                      *)

\* What the bound needs: some agents, and a largest cost.
Bounded ==
    /\ IsFiniteSet(Agents) /\ Agents # {}
    /\ \E m \in Costs : \A cost \in Costs : cost <= m

\* The most that agents other than one can be cleared for.
Others == (Cardinality(Agents) - 1) * Max(Costs)

\* What makes the bound inductive: an agent that is idle is cleared for
\* nothing; what the agents hold never was more than one life of the process
\* grants, so that it may stay when a restart zeroes the total; and what the
\* restarts have forgotten is what the lives before this one granted.
Forgotten == spent - total <= restarts * OneLife + unasked

Exposure ==
    /\ \A a \in Agents : estimate[a] <= Max(Costs)
    /\ \A a \in Agents : agent[a] = "idle" => estimate[a] = 0
    /\ OvershootBounded
    /\ Outstanding <= OneLife
    /\ Forgotten

LEMMA LargestCost ==
    ASSUME Bounded
    PROVE  Max(Costs) \in Nat /\ \A cost \in Costs : cost <= Max(Costs)
<1>1. Max(Costs) = CHOOSE m \in Costs : \A cost \in Costs : m >= cost
  BY DEF Max
<1>2. \E m \in Costs : \A cost \in Costs : m >= cost
  BY GuardianAssumption DEF Bounded
<1>3. Max(Costs) \in Costs /\ \A cost \in Costs : Max(Costs) >= cost
  BY <1>1, <1>2
<1> QED
  BY <1>3, GuardianAssumption

LEMMA HowManyOthers ==
    ASSUME Bounded
    PROVE  /\ Cardinality(Agents) - 1 \in Nat /\ Others \in Nat
           /\ \A a \in Agents : IsFiniteSet(Agents \ {a})
                                /\ Cardinality(Agents \ {a}) = Cardinality(Agents) - 1
<1>1. \A a \in Agents : IsFiniteSet(Agents \ {a})
                        /\ Cardinality(Agents \ {a}) = Cardinality(Agents) - 1
  BY FS_RemoveElement DEF Bounded
<1>2. Cardinality(Agents) - 1 \in Nat
  BY <1>1, FS_CardinalityType DEF Bounded
<1>3. Max(Costs) \in Nat
  BY LargestCost
<1> QED
  BY <1>1, <1>2, <1>3 DEF Others

\* Units of money that agents hold under some estimates.
UnitsOf(f) == UNION {{a} \X (1..f[a]) : a \in Agents}

LEMMA UnitsFinite ==
    ASSUME Bounded, NEW f \in [Agents -> 0..Max(Costs)]
    PROVE  IsFiniteSet(UnitsOf(f)) /\ Cardinality(UnitsOf(f)) \in Nat
<1>1. PICK m : m = Max(Costs)
  OBVIOUS
<1>2. m \in Nat
  BY <1>1, LargestCost
<1>3. IsFiniteSet(1..m)
  BY <1>2, FS_Interval
<1>4. IsFiniteSet(Agents \X (1..m))
  BY <1>3, FS_Product DEF Bounded
<1>5. UnitsOf(f) \subseteq Agents \X (1..m)
  <2>1. \A a \in Agents : 1..f[a] \subseteq 1..m
    BY <1>1, <1>2
  <2> QED
    BY <2>1 DEF UnitsOf
<1>6. IsFiniteSet(UnitsOf(f))
  BY <1>4, <1>5, FS_Subset
<1> QED
  BY <1>6, FS_CardinalityType

\* The units of one agent are as many as its estimate, and no other agent's.
LEMMA UnitsSplit ==
    ASSUME Bounded, NEW f \in [Agents -> 0..Max(Costs)], NEW a \in Agents
    PROVE  Cardinality(UnitsOf(f)) =
               Cardinality(UnitsOf([f EXCEPT ![a] = 0])) + f[a]
<1>1. PICK g : g = [f EXCEPT ![a] = 0]
  OBVIOUS
<1>2. PICK mine : mine = {a} \X (1..f[a])
  OBVIOUS
<1>3. Max(Costs) \in Nat /\ f[a] \in Nat
  BY LargestCost
<1>4. g \in [Agents -> 0..Max(Costs)] /\ g[a] = 0
      /\ \A b \in Agents \ {a} : g[b] = f[b]
  BY <1>1, <1>3
<1>5. IsFiniteSet(UnitsOf(g)) /\ Cardinality(UnitsOf(g)) \in Nat
  BY <1>4, UnitsFinite
<1>6. IsFiniteSet(mine) /\ Cardinality(mine) = f[a]
  <2>1. IsFiniteSet(1..f[a]) /\ Cardinality(1..f[a]) = f[a]
    BY <1>3, FS_Interval
  <2>2. IsFiniteSet({a}) /\ Cardinality({a}) = 1
    BY FS_Singleton
  <2>3. IsFiniteSet(mine) /\ Cardinality(mine) = 1 * f[a]
    BY <1>2, <2>1, <2>2, FS_Product
  <2> QED
    BY <1>3, <2>3
<1>7. 1..g[a] = {}
  BY <1>4
<1>8. UnitsOf(f) = UnitsOf(g) \cup mine
  BY <1>2, <1>4, <1>7 DEF UnitsOf
<1>9. UnitsOf(g) \cap mine = {}
  BY <1>2, <1>4, <1>7 DEF UnitsOf
<1>10. Cardinality(UnitsOf(g) \cap mine) = 0
  BY <1>9, FS_EmptySet
<1>11. Cardinality(UnitsOf(g) \cup mine) =
         Cardinality(UnitsOf(g)) + Cardinality(mine) - Cardinality(UnitsOf(g) \cap mine)
  BY <1>5, <1>6, FS_Union
<1> QED
  BY <1>1, <1>3, <1>5, <1>6, <1>8, <1>10, <1>11

LEMMA UnitsOfOthers ==
    ASSUME Bounded, NEW f \in [Agents -> 0..Max(Costs)], NEW a \in Agents, f[a] = 0
    PROVE  Cardinality(UnitsOf(f)) <= Others
<1>1. PICK m : m = Max(Costs)
  OBVIOUS
<1>2. m \in Nat
  BY <1>1, LargestCost
<1>3. IsFiniteSet(1..m) /\ Cardinality(1..m) = m
  <2>1. 1 \in Int /\ m \in Int
    BY <1>2
  <2>2. /\ IsFiniteSet(1..m)
        /\ Cardinality(1..m) = IF 1 > m THEN 0 ELSE m - 1 + 1
    BY <2>1, FS_Interval, Zenon
  <2> QED
    BY <1>2, <2>2
<1>4. PICK all : all = (Agents \ {a}) \X (1..m)
  OBVIOUS
<1>5. IsFiniteSet(all) /\ Cardinality(all) = (Cardinality(Agents) - 1) * m
  <2>1. IsFiniteSet(Agents \ {a}) /\ Cardinality(Agents \ {a}) = Cardinality(Agents) - 1
    BY HowManyOthers
  <2>2. /\ IsFiniteSet(all)
        /\ Cardinality(all) = Cardinality(Agents \ {a}) * Cardinality(1..m)
    BY <1>3, <1>4, <2>1, FS_Product, Zenon
  <2> QED
    BY <1>3, <2>1, <2>2
<1>6. UnitsOf(f) \subseteq all
  <2>1. \A b \in Agents \ {a} : 1..f[b] \subseteq 1..m
    BY <1>1, <1>2
  <2>2. 1..f[a] = {}
    OBVIOUS
  <2> QED
    BY <1>4, <2>1, <2>2 DEF UnitsOf
<1>7. Cardinality(UnitsOf(f)) <= Cardinality(all)
  BY <1>5, <1>6, FS_Subset
<1> QED
  BY <1>1, <1>5, <1>7 DEF Others

LEMMA OutstandingUnits == Outstanding = Cardinality(UnitsOf(estimate))
BY DEF Outstanding, Units, UnitsOf

LEMMA EstimatesBounded ==
    ASSUME TypeOK, Bounded, \A a \in Agents : estimate[a] <= Max(Costs)
    PROVE  /\ estimate \in [Agents -> 0..Max(Costs)]
           /\ Outstanding \in Nat
<1>1. Max(Costs) \in Nat
  BY LargestCost
<1>2. estimate \in [Agents -> 0..Max(Costs)]
  BY <1>1 DEF TypeOK
<1> QED
  BY <1>2, UnitsFinite, OutstandingUnits

\* What the lives before this one granted, and its arithmetic.
Granted == restarts * OneLife

LEMMA GrantedType ==
    ASSUME TypeOK, Bounded
    PROVE  /\ Granted \in Nat /\ OneLife \in Nat /\ OneLife = Limit + Others
           /\ Forgotten <=> spent - total <= Granted + unasked
           /\ OvershootBounded <=> spent + Outstanding <= Granted + OneLife + unasked
<1>1. OneLife = Limit + Others
  BY DEF OneLife, Others
<1>2. OneLife \in Nat /\ restarts \in Nat
  BY <1>1, HowManyOthers, GuardianAssumption DEF TypeOK
<1>3. \A m, n \in Nat : m * n \in Nat /\ (m + 1) * n = m * n + n
  OBVIOUS
<1>4. Granted \in Nat /\ (restarts + 1) * OneLife = Granted + OneLife
  BY <1>2, <1>3 DEF Granted
<1> QED
  BY <1>1, <1>2, <1>4, Zenon DEF Forgotten, OvershootBounded, Granted

\* The same one step later: the constants stay, and so does what was granted
\* as long as nothing restarts.
LEMMA GrantedStep ==
    ASSUME TypeOK, TypeOK', Bounded
    PROVE  /\ OneLife' = OneLife
           /\ restarts' = restarts => Granted' = Granted
           /\ restarts' = restarts + 1 => Granted' = Granted + OneLife
           /\ Granted' \in Nat
           /\ Forgotten' <=> spent' - total' <= Granted' + unasked'
           /\ OvershootBounded' <=>
                 spent' + Outstanding' <= Granted' + OneLife + unasked'
<1>1. OneLife' = OneLife /\ OneLife \in Nat
  BY GrantedType DEF OneLife
<1>2. \A m, n \in Nat : m * n \in Nat /\ (m + 1) * n = m * n + n
  OBVIOUS
<1>3. restarts \in Nat /\ restarts' \in Nat
  BY DEF TypeOK
<1>4. Granted = restarts * OneLife /\ Granted' = restarts' * OneLife
  BY <1>1 DEF Granted
<1>5. Granted' \in Nat /\ (restarts' + 1) * OneLife = Granted' + OneLife
  BY <1>1, <1>2, <1>3, <1>4
<1>6. restarts' = restarts + 1 => Granted' = Granted + OneLife
  BY <1>1, <1>2, <1>3, <1>4
<1>7. Forgotten' <=> spent' - total' <= Granted' + unasked'
  BY <1>1, <1>4 DEF Forgotten
<1>8. OvershootBounded' <=>
         spent' + Outstanding' <= (restarts' + 1) * OneLife + unasked'
  BY <1>1 DEF OvershootBounded
<1> QED
  BY <1>1, <1>4, <1>5, <1>6, <1>7, <1>8

LEMMA ExposureInit == ASSUME Bounded, Init PROVE Exposure
<1>1. Max(Costs) \in Nat /\ Others \in Nat /\ TypeOK
  BY LargestCost, HowManyOthers, TypeInit
<1>2. \A a \in Agents : estimate[a] = 0
  BY DEF Init
<1>3. PICK a : a \in Agents
  BY DEF Bounded
<1>4. estimate \in [Agents -> 0..Max(Costs)] /\ Outstanding \in Nat
  BY <1>1, <1>2, EstimatesBounded
<1>5. Outstanding <= Others
  BY <1>2, <1>3, <1>4, UnitsOfOthers, OutstandingUnits
<1>6. Outstanding <= OneLife
  BY <1>1, <1>4, <1>5, GrantedType, GuardianAssumption
<1>7. spent = 0 /\ total = 0 /\ unasked = 0
  BY DEF Init
<1>8. OvershootBounded /\ Forgotten
  BY <1>1, <1>4, <1>6, <1>7, GrantedType
<1> QED
  BY <1>1, <1>2, <1>6, <1>8 DEF Exposure

\* The agent that was idle held nothing: what is out is what the others hold.
LEMMA PreflightExposure ==
    ASSUME TypeOK, TypeOK', Bounded, Exposure,
           NEW a \in Agents, NEW cost \in Costs, Preflight(a, cost)
    PROVE  Exposure'
<1>1. /\ Max(Costs) \in Nat /\ Others \in Nat /\ Limit \in Nat
      /\ cost \in Nat /\ cost <= Max(Costs)
      /\ total \in Nat /\ spent \in Nat /\ unasked \in Nat
  BY LargestCost, HowManyOthers, GuardianAssumption DEF TypeOK
<1>2. estimate \in [Agents -> 0..Max(Costs)] /\ Outstanding \in Nat
  BY EstimatesBounded DEF Exposure
<1>3. estimate[a] = 0 /\ total + cost <= Limit
  BY DEF Exposure, Preflight, Allowed
<1>4. /\ estimate' = [estimate EXCEPT ![a] = cost]
      /\ total' = total /\ spent' = spent /\ unasked' = unasked
      /\ restarts' = restarts
      /\ agent'[a] # "idle" /\ \A b \in Agents \ {a} : agent'[b] = agent[b]
  BY DEF Preflight, guardian, history, TypeOK
<1>5. /\ estimate' \in [Agents -> 0..Max(Costs)] /\ estimate'[a] = cost
      /\ estimate = [estimate' EXCEPT ![a] = 0]
  <2>1. cost \in 0..Max(Costs)
    BY <1>1
  <2>2. estimate' \in [Agents -> 0..Max(Costs)] /\ estimate'[a] = cost
    BY <1>2, <1>4, <2>1
  <2>3. \A b \in Agents : estimate[b] = [estimate' EXCEPT ![a] = 0][b]
    BY <1>2, <1>3, <1>4, <2>2
  <2>4. /\ estimate = [b \in Agents |-> estimate[b]]
        /\ [estimate' EXCEPT ![a] = 0] =
              [b \in Agents |-> [estimate' EXCEPT ![a] = 0][b]]
    BY <1>2, <2>2
  <2> QED
    BY <2>2, <2>3, <2>4
<1>6. Outstanding' = Outstanding + cost
  <2>1. Cardinality(UnitsOf(estimate')) = Cardinality(UnitsOf(estimate)) + cost
    BY <1>5, UnitsSplit
  <2> QED
    BY <2>1, OutstandingUnits DEF UnitsOf, Outstanding, Units
<1>7. Outstanding <= Others
  BY <1>2, <1>3, UnitsOfOthers, OutstandingUnits
<1>8. /\ Granted \in Nat /\ OneLife = Limit + Others /\ Granted' = Granted
      /\ spent - total <= Granted + unasked
  BY <1>4, GrantedType, GrantedStep DEF Exposure
<1>9. Forgotten'
  BY <1>4, <1>8, GrantedStep
<1>10. spent' + Outstanding' <= Granted' + OneLife + unasked'
  <2>1. PICK out, granted : out = Outstanding /\ granted = Granted
    OBVIOUS
  <2>2. /\ out \in Nat /\ granted \in Nat /\ out <= Others
        /\ spent - total <= granted + unasked
    BY <1>2, <1>7, <1>8, <2>1
  <2>3. spent + (out + cost) <= granted + (Limit + Others) + unasked
    BY <1>1, <1>3, <2>2
  <2> QED
    BY <1>4, <1>6, <1>8, <2>1, <2>3
<1>11. Outstanding' <= OneLife'
  BY <1>1, <1>2, <1>3, <1>6, <1>7, <1>8, GrantedStep
<1>12. \A b \in Agents : agent'[b] = "idle" => estimate'[b] = 0
  BY <1>4 DEF Exposure, TypeOK
<1>13. \A b \in Agents : estimate'[b] <= Max(Costs)
  BY <1>1, <1>5
<1>14. OvershootBounded'
  BY <1>10, GrantedStep
<1> QED
  BY <1>9, <1>11, <1>12, <1>13, <1>14 DEF Exposure

\* An agent that is done is cleared for nothing any more.
LEMMA DoneExposure ==
    ASSUME TypeOK, Bounded, Exposure, NEW a \in Agents,
           estimate' = [estimate EXCEPT ![a] = 0]
    PROVE  /\ Outstanding' \in Nat /\ Outstanding = Outstanding' + estimate[a]
           /\ \A b \in Agents : estimate'[b] <= Max(Costs)
           /\ \A b \in Agents : agent[b] = "idle" => estimate'[b] = 0
           /\ estimate'[a] = 0
<1>1. Max(Costs) \in Nat
  BY LargestCost
<1>2. estimate \in [Agents -> 0..Max(Costs)]
  BY EstimatesBounded DEF Exposure
<1>3. estimate' \in [Agents -> 0..Max(Costs)]
  BY <1>1, <1>2
<1>4. Cardinality(UnitsOf(estimate')) \in Nat
  BY <1>3, UnitsFinite
<1>5. Cardinality(UnitsOf(estimate)) = Cardinality(UnitsOf(estimate')) + estimate[a]
  BY <1>2, UnitsSplit
<1>6. Outstanding' = Cardinality(UnitsOf(estimate'))
  BY DEF UnitsOf, Outstanding, Units
<1> QED
  BY <1>1, <1>2, <1>3, <1>4, <1>5, <1>6, OutstandingUnits DEF Exposure

\* What an agent reports, or gives up, it was cleared for: the sum does not
\* grow.
LEMMA ReleaseExposure ==
    ASSUME TypeOK, TypeOK', Bounded, Exposure, NEW a \in Agents,
           NEW amount \in 0..estimate[a],
           total' = total + amount, spent' = spent + amount,
           unasked' = unasked, restarts' = restarts,
           estimate' = [estimate EXCEPT ![a] = 0],
           agent' = [agent EXCEPT ![a] = "idle"]
    PROVE  Exposure'
<1>1. /\ total \in Nat /\ spent \in Nat /\ unasked \in Nat
      /\ estimate[a] \in Nat /\ amount \in Nat /\ amount <= estimate[a]
  BY DEF TypeOK
<1>2. /\ Outstanding' \in Nat /\ Outstanding = Outstanding' + estimate[a]
      /\ \A b \in Agents : estimate'[b] <= Max(Costs)
      /\ \A b \in Agents : agent[b] = "idle" => estimate'[b] = 0
      /\ estimate'[a] = 0
  BY DoneExposure
<1>3. /\ Granted \in Nat /\ OneLife \in Nat /\ Granted' = Granted
      /\ OneLife' = OneLife /\ Outstanding <= OneLife
      /\ spent - total <= Granted + unasked
      /\ spent + Outstanding <= Granted + OneLife + unasked
  BY GrantedType, GrantedStep DEF Exposure
<1>4. /\ spent' + Outstanding' <= Granted' + OneLife + unasked'
      /\ Outstanding' <= OneLife'
      /\ spent' - total' <= Granted' + unasked'
  <2>1. PICK before, after, granted, most :
           /\ before = Outstanding /\ after = Outstanding'
           /\ granted = Granted /\ most = OneLife
    OBVIOUS
  <2>2. /\ after \in Nat /\ before = after + estimate[a]
        /\ granted \in Nat /\ most \in Nat /\ before <= most
        /\ spent - total <= granted + unasked
        /\ spent + before <= granted + most + unasked
    BY <1>2, <1>3, <2>1
  <2>3. /\ (spent + amount) + after <= granted + most + unasked
        /\ after <= most
        /\ (spent + amount) - (total + amount) <= granted + unasked
    BY <1>1, <2>2
  <2> QED
    BY <1>3, <2>1, <2>3
<1>5. \A b \in Agents : agent'[b] = "idle" => estimate'[b] = 0
  BY <1>2 DEF TypeOK
<1> QED
  BY <1>2, <1>4, <1>5, GrantedStep DEF Exposure

LEMMA AgentSpendsExposure ==
    ASSUME TypeOK, TypeOK', Bounded, Exposure, NEW a \in Agents, AgentSpends(a)
    PROVE  Exposure'
<1>1. PICK amount \in 0..estimate[a] : RegisterSpend(amount)
  BY DEF AgentSpends
<1>2. /\ total' = total + amount /\ spent' = spent + amount
      /\ unasked' = unasked /\ restarts' = restarts
  BY <1>1 DEF AgentSpends, RegisterSpend
<1> QED
  BY <1>2, ReleaseExposure DEF AgentSpends

LEMMA DeclineExposure ==
    ASSUME TypeOK, TypeOK', Bounded, Exposure, NEW a \in Agents, Decline(a)
    PROVE  Exposure'
<1>1. 0 \in 0..estimate[a]
  BY DEF TypeOK
<1>2. /\ total' = total + 0 /\ spent' = spent + 0
      /\ unasked' = unasked /\ restarts' = restarts
  BY DEF Decline, guardian, history, TypeOK
<1> QED
  BY <1>1, <1>2, ReleaseExposure DEF Decline

\* Steps that leave the clearances alone: a report of a client that did not
\* ask, a reset, a restart.
LEMMA ClearancesStay ==
    ASSUME TypeOK, TypeOK', Bounded, Exposure, estimate' = estimate,
           \A a \in Agents : agent'[a] = "idle" => agent[a] = "idle",
           \/ total' = 0 /\ spent' = 0 /\ unasked' = 0
           \/ /\ total' = 0 /\ spent' = spent /\ unasked' = unasked
              /\ restarts' = restarts + 1
           \/ /\ restarts' = restarts
              /\ \E amount \in Nat : /\ total' = total + amount
                                     /\ spent' = spent + amount
                                     /\ unasked' = unasked + amount
           \/ UNCHANGED <<total, spent, unasked, restarts>>
    PROVE  Exposure'
<1>1. total \in Nat /\ spent \in Nat /\ unasked \in Nat
  BY DEF TypeOK
<1>2. Outstanding' = Outstanding /\ Outstanding \in Nat
  BY EstimatesBounded DEF Outstanding, Units, Exposure
<1>3. /\ Granted \in Nat /\ OneLife \in Nat /\ OneLife' = OneLife
      /\ Granted' \in Nat /\ Outstanding <= OneLife
      /\ spent - total <= Granted + unasked
      /\ spent + Outstanding <= Granted + OneLife + unasked
  BY GrantedType, GrantedStep DEF Exposure
<1>4. /\ spent' + Outstanding' <= Granted' + OneLife + unasked'
      /\ spent' - total' <= Granted' + unasked'
  <2>1. CASE total' = 0 /\ spent' = 0 /\ unasked' = 0
    <3>1. PICK out, granted, most :
             out = Outstanding /\ granted = Granted' /\ most = OneLife
      OBVIOUS
    <3>2. out \in Nat /\ granted \in Nat /\ most \in Nat /\ out <= most
      BY <1>2, <1>3, <3>1
    <3>3. 0 + out <= granted + most + 0 /\ 0 - 0 <= granted + 0
      BY <3>2
    <3> QED
      BY <1>2, <2>1, <3>1, <3>3
  <2>2. CASE /\ total' = 0 /\ spent' = spent /\ unasked' = unasked
             /\ restarts' = restarts + 1
    <3>1. Granted' = Granted + OneLife
      BY <2>2, GrantedStep
    <3> QED
      BY <1>1, <1>2, <1>3, <2>2, <3>1
  <2>3. ASSUME restarts' = restarts, NEW amount \in Nat,
               total' = total + amount, spent' = spent + amount,
               unasked' = unasked + amount
        PROVE  /\ spent' + Outstanding' <= Granted' + OneLife + unasked'
               /\ spent' - total' <= Granted' + unasked'
    <3>1. Granted' = Granted
      BY <2>3, GrantedStep
    <3> QED
      BY <1>1, <1>2, <1>3, <2>3, <3>1
  <2>4. CASE UNCHANGED <<total, spent, unasked, restarts>>
    <3>1. Granted' = Granted
      BY <2>4, GrantedStep
    <3> QED
      BY <1>1, <1>2, <1>3, <2>4, <3>1
  <2> QED
    BY <2>1, <2>2, <2>3, <2>4
<1>5. OvershootBounded' /\ Forgotten'
  BY <1>4, GrantedStep
<1>6. Outstanding' <= OneLife'
  BY <1>2, <1>3
<1> QED
  BY <1>5, <1>6 DEF Exposure

LEMMA ExposureStep ==
    ASSUME Bounded, TypeOK, Exposure, [Next]_vars
    PROVE  Exposure'
<1>1. TypeOK'
  BY TypeStep
<1>2. ASSUME NEW a \in Agents, Authorize(a) PROVE Exposure'
  <2>1. /\ \A b \in Agents : agent'[b] = "idle" => agent[b] = "idle"
        /\ estimate' = estimate
    BY <1>2 DEF Authorize, TypeOK
  <2>2. UNCHANGED <<total, spent, unasked, restarts>>
    BY <1>2 DEF Authorize, guardian, history
  <2> QED
    BY <1>1, <2>1, <2>2, ClearancesStay
<1>3. ASSUME NEW amount \in Unannounced, UnannouncedSpend(amount) PROVE Exposure'
  <2>1. amount \in Nat
    BY GuardianAssumption
  <2> QED
    BY <1>1, <1>3, <2>1, ClearancesStay DEF UnannouncedSpend, RegisterSpend, agents
<1>4. CASE ManualReset
  BY <1>1, <1>4, ClearancesStay DEF ManualReset, agents
<1>5. CASE Crash
  BY <1>1, <1>5, ClearancesStay DEF Crash, agents
<1>6. CASE Persist \/ PersistError \/ UNCHANGED vars
  <2>1. UNCHANGED <<total, spent, unasked, restarts, agents>>
    BY <1>6 DEF Persist, PersistError, vars, guardian, history
  <2> QED
    BY <1>1, <2>1, ClearancesStay DEF agents
<1> QED
  BY <1>1, <1>2, <1>3, <1>4, <1>5, <1>6,
     PreflightExposure, AgentSpendsExposure, DeclineExposure
  DEF Next

\* The cap is overshot by no more than the agents but one can be cleared for,
\* by what was reported unasked, and by one budget more for every restart: for
\* every number of agents, whoever is cleared against the same total.
THEOREM OvershootHolds ==
    ASSUME Bounded
    PROVE  Spec => []OvershootBounded
<1>1. Init => TypeOK /\ Exposure
  BY TypeInit, ExposureInit
<1>2. TypeOK /\ Exposure /\ [Next]_vars => (TypeOK /\ Exposure)'
  BY TypeStep, ExposureStep
<1>3. Exposure => OvershootBounded
  BY DEF Exposure
<1> QED
  BY <1>1, <1>2, <1>3, PTL DEF Spec
=============================================================================
