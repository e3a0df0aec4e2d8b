----------------------------- MODULE BattleProofs -----------------------------
(***************************************************************************)
(* Proofs about Battle for every set of rosters: the turn order always     *)
(* exists, every action leaves a state validate_battle_state accepts, no   *)
(* healing passes the maximum, accepted attacks do not throw, the battle   *)
(* keeps the contract of module Duel, the targets offered are those the    *)
(* validator accepts, and a drain gives back half of what it takes, in     *)
(* order.  And about BattleSweep for every scenario: battles that end      *)
(* badly have a reason, and the summary adds up.                           *)
(*                                                                         *)
(* TypeOK /\ ValidState is inductive as it stands.  The work is in the     *)
(* effects: each is shown to turn a clean table of units (the living have  *)
(* HP, the dead owe no skip) into a clean table that is capped (nobody got *)
(* above the greater of his old HP and his maximum), and Settle to turn    *)
(* any clean table into a valid state.  The contract needs two more facts  *)
(* (DuelInv): nobody owes more than one skip, and the turn order is sorted *)
(* by ActsBefore.  The sweep needs SweepInv: the entries follow the pairs, *)
(* the counters count them, and while a battle is on it is that of the     *)
(* next pair and FightInv holds of it.                                     *)
(***************************************************************************)
EXTENDS BattleSweep, NaturalFacts

Table == [Members -> UnitState]

-----------------------------------------------------------------------------
(* The roster of a state is a valid one.                                   *)
LEMMA RosterFacts ==
  ASSUME roster \in Rosters
  PROVE  /\ Members \subseteq Unit
         /\ roster.maxHp \in [Members -> Nat]
         /\ roster.startHp \in [Members -> Nat]
         /\ roster.primary \in [Members -> Attack]
         /\ roster.secondary \in [Members -> Attack]
         /\ roster.leader \in [Side -> Unit \cup {NoUnit}]
BY RostersAssumption DEF ValidRoster, Members

LEMMA UnitsArePairs ==
  ASSUME roster \in Rosters
  PROVE  \A u \in Members : u[1] \in Side /\ u[2] \in Slot /\ u = <<u[1], u[2]>>
BY RosterFacts DEF Unit

LEMMA MembersAreFinite ==
  ASSUME roster \in Rosters
  PROVE  \A L \in SUBSET Members : IsFiniteSet(L) /\ Cardinality(L) \in Nat
<1>1. IsFiniteSet(Slot)
  <2>1. 0 \in Int /\ 5 \in Int
    OBVIOUS
  <2> QED
    BY <2>1, FS_Interval, Zenon DEF Slot
<1>2. IsFiniteSet(Side)
  <2>1. IsFiniteSet({1} \cup {2})
    BY FS_Singleton, FS_Union, Zenon
  <2>2. {1} \cup {2} = Side
    BY DEF Side
  <2> QED
    BY <2>1, <2>2
<1>3. IsFiniteSet(Unit)
  BY <1>1, <1>2, FS_Product DEF Unit
<1> QED
  BY <1>3, RosterFacts, FS_Subset, FS_CardinalityType

(* ActsBefore is a strict total order on the units.                        *)
LEMMA InitiativeIsInt ==
  ASSUME roster \in Rosters, NEW u \in Members
  PROVE  Initiative(u) \in Int
BY RosterFacts DEF Initiative, Attack

LEMMA ActsBeforeIsTotal ==
  ASSUME roster \in Rosters
  PROVE  /\ \A u \in Members : ~ActsBefore(u, u)
         /\ \A u, v, w \in Members : ActsBefore(u, v) /\ ActsBefore(v, w) => ActsBefore(u, w)
         /\ \A u, v \in Members : u # v => ActsBefore(u, v) \/ ActsBefore(v, u)
<1>1. \A u \in Members : Initiative(u) \in Int /\ u[1] \in Int /\ u[2] \in Int /\ u = <<u[1], u[2]>>
  BY InitiativeIsInt, UnitsArePairs DEF Side, Slot
<1> QED
  BY <1>1 DEF ActsBefore

Ahead(L, u) == {v \in L : ActsBefore(v, u)}

(* Who acts later has more units ahead of him.                             *)
LEMMA AheadGrows ==
  ASSUME roster \in Rosters, NEW L \in SUBSET Members
  PROVE  /\ Cardinality(L) \in Nat
         /\ \A u \in L : Cardinality(Ahead(L, u)) \in 0..Cardinality(L) - 1
         /\ \A u, v \in L : ActsBefore(u, v) => Cardinality(Ahead(L, u)) < Cardinality(Ahead(L, v))
<1>1. IsFiniteSet(L) /\ Cardinality(L) \in Nat
  BY MembersAreFinite
<1>2. \A u \in L : Ahead(L, u) \in SUBSET Members /\ Ahead(L, u) \in SUBSET L
                   /\ u \notin Ahead(L, u)
  BY ActsBeforeIsTotal DEF Ahead
<1>3. \A u \in L : IsFiniteSet(Ahead(L, u)) /\ Cardinality(Ahead(L, u)) \in Nat
  BY <1>2, MembersAreFinite
<1>4. \A u \in L : Cardinality(Ahead(L, u)) < Cardinality(L)
  BY <1>1, <1>2, <1>3, FS_Subset
<1>5. ASSUME NEW u \in L, NEW v \in L, ActsBefore(u, v)
      PROVE  Cardinality(Ahead(L, u)) < Cardinality(Ahead(L, v))
  <2>1. Ahead(L, u) \in SUBSET Ahead(L, v)
    BY <1>5, ActsBeforeIsTotal DEF Ahead
  <2>2. u \in Ahead(L, v) /\ u \notin Ahead(L, u)
    BY <1>5, <1>2 DEF Ahead
  <2> QED
    BY <2>1, <2>2, <1>3, FS_Subset
<1> QED
  BY <1>1, <1>3, <1>4, <1>5

(* Every position of the turn order is taken by exactly one living unit.   *)
LEMMA PositionsAreTaken ==
  ASSUME roster \in Rosters, NEW L \in SUBSET Members
  PROVE  \A k \in 0..Cardinality(L) - 1 : \E u \in L : Cardinality(Ahead(L, u)) = k
<1> DEFINE N == Cardinality(L)
           place == [u \in L |-> Cardinality(Ahead(L, u))]
<1>1. IsFiniteSet(L) /\ N \in Nat
  BY MembersAreFinite
<1>2. place \in [L -> 0..N - 1]
  BY AheadGrows
<1>3. \A u, v \in L : ActsBefore(u, v) => place[u] < place[v]
  BY AheadGrows
<1>4. \A u, v \in L : place[u] = place[v] => u = v
  <2> HIDE DEF place
  <2>1. \A u \in L : place[u] \in Int
    BY <1>1, <1>2
  <2> QED
    BY <1>3, <2>1, ActsBeforeIsTotal
<1>5. place \in Injection(L, 0..N - 1)
  BY <1>2, <1>4 DEF Injection, IsInjective
<1>6. IsFiniteSet(0..N - 1) /\ Cardinality(0..N - 1) = N
  BY <1>1, FS_Interval
<1>7. place \in Surjection(L, 0..N - 1)
  BY <1>1, <1>5, <1>6, FS_Injection
<1> QED
  BY <1>7 DEF Surjection

(* So the order lists every one of L exactly once.                         *)
LEMMA TurnOrderIsFair ==
  ASSUME roster \in Rosters, NEW L \in SUBSET Members
  PROVE  /\ BuildTurnOrder(L) \in Seq(Members)
         /\ Len(BuildTurnOrder(L)) = Cardinality(L)
         /\ \A i \in 1..Cardinality(L) : BuildTurnOrder(L)[i] \in L
         /\ \A i, j \in 1..Cardinality(L) : BuildTurnOrder(L)[i] = BuildTurnOrder(L)[j] => i = j
<1> DEFINE N == Cardinality(L)
           order == BuildTurnOrder(L)
<1>1. N \in Nat
  BY MembersAreFinite
<1>2. ASSUME NEW i \in 1..N
      PROVE  order[i] \in L /\ Cardinality(Ahead(L, order[i])) = i - 1
  <2>1. \E u \in L : Cardinality(Ahead(L, u)) = i - 1
    BY <1>1, PositionsAreTaken
  <2> QED
    BY <2>1 DEF BuildTurnOrder, Ahead
<1>3. order \in [1..N -> L]
  BY <1>2 DEF BuildTurnOrder
<1>4. order \in Seq(L) /\ Len(order) = N
  <2> HIDE DEF order
  <2> QED
    BY <1>1, <1>2, <1>3
<1>5. order \in Seq(Members)
  <2> HIDE DEF order
  <2> QED
    BY <1>1, <1>2, <1>3
<1>6. \A i, j \in 1..N : order[i] = order[j] => i = j
  <2> HIDE DEF order
  <2> QED
    BY <1>1, <1>2
<1> QED
  BY <1>2, <1>4, <1>5, <1>6

(* The order lists everybody, each before those he acts before.            *)
LEMMA TurnOrderIsSorted ==
  ASSUME roster \in Rosters, NEW L \in SUBSET Members
  PROVE  LET order == BuildTurnOrder(L)
         IN  /\ \A i, j \in DOMAIN order : i < j => ActsBefore(order[i], order[j])
             /\ L = {order[i] : i \in DOMAIN order}
<1> DEFINE N == Cardinality(L)
           order == BuildTurnOrder(L)
<1>1. N \in Nat
  BY MembersAreFinite
<1>2. ASSUME NEW i \in 1..N
      PROVE  order[i] \in L /\ Cardinality(Ahead(L, order[i])) = i - 1
  <2>1. \E u \in L : Cardinality(Ahead(L, u)) = i - 1
    BY <1>1, PositionsAreTaken
  <2> QED
    BY <2>1 DEF BuildTurnOrder, Ahead
<1>3. DOMAIN order = 1..N
  BY DEF BuildTurnOrder
<1> HIDE DEF order, N
<1>4. \A u, v \in L : Cardinality(Ahead(L, u)) < Cardinality(Ahead(L, v)) => ActsBefore(u, v)
  <2> SUFFICES ASSUME NEW u \in L, NEW v \in L, Cardinality(Ahead(L, u)) < Cardinality(Ahead(L, v))
               PROVE  ActsBefore(u, v)
    OBVIOUS
  <2>1. Cardinality(Ahead(L, u)) \in Int /\ Cardinality(Ahead(L, v)) \in Int
    BY AheadGrows
  <2>2. u # v /\ ~ActsBefore(v, u)
    BY <2>1, AheadGrows
  <2> QED
    BY <2>2, ActsBeforeIsTotal
<1>5. \A i, j \in DOMAIN order : i < j => ActsBefore(order[i], order[j])
  <2> SUFFICES ASSUME NEW i \in 1..N, NEW j \in 1..N, i < j PROVE ActsBefore(order[i], order[j])
    BY <1>3
  <2>1. /\ order[i] \in L /\ Cardinality(Ahead(L, order[i])) = i - 1
        /\ order[j] \in L /\ Cardinality(Ahead(L, order[j])) = j - 1
    BY <1>2
  <2>2. i - 1 < j - 1
    BY <1>1
  <2> QED
    BY <1>4, <2>1, <2>2
<1>6. ASSUME NEW u \in L PROVE \E i \in DOMAIN order : order[i] = u
  <2> DEFINE k == Cardinality(Ahead(L, u))
  <2>1. k \in 0..N - 1
    BY AheadGrows DEF N
  <2> HIDE DEF k
  <2>2. PICK i \in 1..N : i - 1 = k
    BY <1>1, <2>1
  <2>3. order[i] \in L /\ Cardinality(Ahead(L, order[i])) = k
    BY <1>2, <2>2
  <2>4. ~ActsBefore(u, order[i]) /\ ~ActsBefore(order[i], u)
    <3>1. Cardinality(Ahead(L, u)) = k /\ k \in Int
      BY <1>1, <2>1 DEF k
    <3> QED
      BY <2>3, <3>1, AheadGrows
  <2>5. order[i] = u
    BY <2>3, <2>4, ActsBeforeIsTotal
  <2> QED
    BY <1>3, <2>5
<1>7. \A i \in DOMAIN order : order[i] \in L
  BY <1>2, <1>3
<1> QED
  BY <1>5, <1>6, <1>7 DEF order

-----------------------------------------------------------------------------
(* A unit table in which the living have HP and the dead owe no skip.      *)
Clean(us) ==
  \A u \in Members : /\ us[u].alive <=> us[u].hp > 0
                     /\ ~us[u].alive => us[u].skips = 0

Capped(old, new) ==
  \A u \in Members : new[u].hp <= Greater(old[u].hp, roster.maxHp[u])

(* The sums over the slots of a side, and a drain's budget, are naturals.   *)
LEMMA SlotSums ==
  ASSUME NEW f \in [Slot -> Nat]
  PROVE  SlotSum(f) \in Nat
<1>1. \A k \in {0, 1, 2, 3, 4, 5} : k \in Slot
  BY DEF Slot
<1> QED
  BY <1>1 DEF SlotSum

LEMMA BudgetIsNat ==
  ASSUME NEW us \in Table, NEW s \in Side, NEW T \in SUBSET Members, NEW damage \in Nat
  PROVE  DamageDealt(us, s, T, damage) \div 2 \in Nat
<1> DEFINE f == [k \in Slot |-> IF <<s, k>> \in T THEN Lesser(us[<<s, k>>].hp, damage) ELSE 0]
<1>1. \A u \in T : us[u].hp \in Nat
  BY DEF Table, UnitState
<1>2. f \in [Slot -> Nat]
  BY <1>1 DEF Lesser
<1>3. SlotSum(f) \in Nat
  BY <1>2, SlotSums
<1>4. DamageDealt(us, s, T, damage) \in Nat
  BY <1>3 DEF DamageDealt
<1> QED
  BY <1>4

(* Damage lowers HP, and sheds the skips of whom it kills.                  *)
LEMMA DamagedUnit ==
  ASSUME NEW x \in UnitState, x.alive <=> x.hp > 0, ~x.alive => x.skips = 0, NEW damage \in Nat
  PROVE  /\ Damaged(x, damage) \in UnitState
         /\ Damaged(x, damage).hp <= x.hp
         /\ Damaged(x, damage).alive <=> Damaged(x, damage).hp > 0
         /\ ~Damaged(x, damage).alive => Damaged(x, damage).skips = 0
<1> DEFINE left == Greater(0, x.hp - damage)
           skips == IF x.alive /\ left = 0 THEN 0 ELSE x.skips
           d == [hp |-> left, alive |-> left > 0, skips |-> skips]
<1>1. left \in Nat /\ left <= x.hp /\ skips \in Nat
  BY DEF UnitState, Greater
<1>2. ~(left > 0) => skips = 0
  BY <1>1
<1>3. Damaged(x, damage) = d
  BY Zenon DEF Damaged
<1>4. d \in UnitState /\ d.hp = left /\ d.alive = (left > 0) /\ d.skips = skips
  <2> HIDE DEF left, skips
  <2> QED
    BY <1>1 DEF UnitState
<1> QED
  <2> HIDE DEF left, skips, d
  <2> QED
    BY <1>1, <1>2, <1>3, <1>4

LEMMA DamageAllEffect ==
  ASSUME roster \in Rosters, NEW us \in Table, Clean(us), NEW T \in SUBSET Members,
         NEW damage \in Nat
  PROVE  /\ DamageAll(us, T, damage) \in Table
         /\ Clean(DamageAll(us, T, damage))
         /\ \A u \in Members : DamageAll(us, T, damage)[u].hp <= us[u].hp
         /\ \A u \in Members \ T : DamageAll(us, T, damage)[u] = us[u]
<1>1. \A u \in Members : us[u] \in UnitState
  BY DEF Table
<1>2. \A u \in Members : LET d == Damaged(us[u], damage)
                         IN  /\ d \in UnitState /\ d.hp <= us[u].hp
                             /\ d.alive <=> d.hp > 0
                             /\ ~d.alive => d.skips = 0
  BY <1>1, DamagedUnit DEF Clean
<1>3. DOMAIN us = Members
  BY DEF Table
<1>4. \A u \in Members : DamageAll(us, T, damage)[u] = IF u \in T THEN Damaged(us[u], damage) ELSE us[u]
  BY <1>3, Zenon DEF DamageAll
<1>5. DamageAll(us, T, damage) \in Table
  BY <1>1, <1>2, <1>3 DEF DamageAll, Table
<1>6. Clean(DamageAll(us, T, damage))
  BY <1>2, <1>4 DEF Clean
<1>7. \A u \in Members : us[u].hp <= us[u].hp
  BY <1>1 DEF UnitState
<1> QED
  BY <1>2, <1>4, <1>5, <1>6, <1>7

(* Healing never fills more than what is missing.                          *)
LEMMA MissingIsNat ==
  ASSUME roster \in Rosters, NEW us \in Table, NEW u \in Members
  PROVE  /\ Missing(us, u) \in Nat
         /\ us[u].hp + Missing(us, u) <= Greater(us[u].hp, roster.maxHp[u])
BY RosterFacts DEF Missing, Greater, Table, UnitState

LEMMA FedUnit ==
  ASSUME NEW x \in UnitState, NEW gain \in Nat
  PROVE  LET y == [x EXCEPT !.hp = @ + gain]
         IN  /\ y \in UnitState /\ y.hp = x.hp + gain
             /\ y.alive = x.alive /\ y.skips = x.skips
BY DEF UnitState

LEMMA HealedEffect ==
  ASSUME roster \in Rosters, NEW us \in Table, Clean(us), NEW H \in SUBSET Members,
         \A u \in H : us[u].alive, NEW amount \in Nat
  PROVE  /\ Healed(us, H, amount) \in Table
         /\ Clean(Healed(us, H, amount))
         /\ Capped(us, Healed(us, H, amount))
         /\ \A u \in Members : Healed(us, H, amount)[u].alive = us[u].alive
         /\ \A u \in Members \ H : Healed(us, H, amount)[u] = us[u]
<1> DEFINE new == Healed(us, H, amount)
<1>1. \A u \in Members : us[u] \in UnitState
  BY DEF Table
<1>2. DOMAIN us = Members
  BY DEF Table
<1>3. \A u \in Members :
        new[u] = IF u \in H THEN [us[u] EXCEPT !.hp = @ + Lesser(amount, Missing(us, u))] ELSE us[u]
  BY <1>2, Zenon DEF Healed
<1>4. ASSUME NEW u \in Members
      PROVE  /\ new[u] \in UnitState /\ new[u].alive = us[u].alive /\ new[u].skips = us[u].skips
             /\ us[u].hp <= new[u].hp /\ new[u].hp <= Greater(us[u].hp, roster.maxHp[u])
             /\ u \notin H => new[u].hp = us[u].hp
  <2>1. CASE u \in H
    <3> DEFINE gain == Lesser(amount, Missing(us, u))
    <3>1. gain \in Nat /\ us[u].hp + gain <= Greater(us[u].hp, roster.maxHp[u])
          /\ us[u].hp <= us[u].hp + gain
      <4>1. Missing(us, u) \in Nat /\ us[u].hp + Missing(us, u) <= Greater(us[u].hp, roster.maxHp[u])
        BY MissingIsNat
      <4>2. us[u].hp \in Nat /\ roster.maxHp[u] \in Nat
        BY <1>1, RosterFacts DEF UnitState
      <4>3. Greater(us[u].hp, roster.maxHp[u]) \in Nat
        BY <4>2 DEF Greater
      <4> QED
        BY <4>1, <4>2, <4>3 DEF Lesser
    <3>2. new[u] = [us[u] EXCEPT !.hp = @ + gain]
      BY <1>3, <2>1, Zenon
    <3> HIDE DEF gain, new
    <3>3. /\ [us[u] EXCEPT !.hp = @ + gain] \in UnitState
          /\ [us[u] EXCEPT !.hp = @ + gain].hp = us[u].hp + gain
          /\ [us[u] EXCEPT !.hp = @ + gain].alive = us[u].alive
          /\ [us[u] EXCEPT !.hp = @ + gain].skips = us[u].skips
      BY <1>1, <3>1, FedUnit
    <3> QED
      BY <2>1, <3>1, <3>2, <3>3
  <2>2. CASE u \notin H
    <3>1. new[u] = us[u]
      BY <1>3, <2>2, Zenon
    <3>2. us[u].hp <= us[u].hp /\ us[u].hp <= Greater(us[u].hp, roster.maxHp[u])
      BY <1>1, RosterFacts DEF UnitState, Greater
    <3> QED
      BY <1>1, <2>2, <3>1, <3>2
  <2> QED
    BY <2>1, <2>2
<1>5. new \in Table
  <2>1. new \in [Members -> UnitState]
    BY <1>2, <1>4 DEF Healed
  <2> QED
    BY <2>1 DEF Table
<1> HIDE DEF new
<1>6. Clean(new)
  BY <1>1, <1>4 DEF Clean, UnitState
<1>7. Capped(us, new)
  BY <1>4 DEF Capped
<1>8. \A u \in Members \ H : new[u] = us[u]
  BY <1>3, Zenon
<1> QED
  BY <1>4, <1>5, <1>6, <1>7, <1>8 DEF new

(* The overflow of a drain goes to living allies and respects their maximum. *)
LEMMA DrainedOverflowEffect ==
  ASSUME roster \in Rosters, NEW us \in Table, Clean(us), NEW u \in Members, us[u].alive,
         NEW T \in SUBSET Members, \A t \in T : t[1] = Opposite(u[1]), NEW damage \in Nat
  PROVE  LET new == DrainedOverflow(us, u, T, damage)
         IN  new \in Table /\ Clean(new) /\ Capped(us, new) /\ new[u].alive
<1> DEFINE hit == DamageAll(us, T, damage)
           budget == DamageDealt(us, Opposite(u[1]), T, damage) \div 2
           rest == budget - Lesser(budget, Missing(hit, u))
           ally(k) == <<u[1], k>> \in AliveOf(hit, u[1]) \ {u}
           need == [k \in Slot |-> IF ally(k) THEN Missing(hit, <<u[1], k>>) ELSE 0]
           share(k) == Lesser(need[k], Greater(0, rest - NeedBefore(need, k)))
           fed == Healed(hit, {u}, budget)
           new == DrainedOverflow(us, u, T, damage)
<1>1. u[1] \in Side /\ Opposite(u[1]) \in Side /\ u \notin T
  BY UnitsArePairs DEF Side, Opposite
<1>2. /\ hit \in Table /\ Clean(hit)
      /\ \A v \in Members : hit[v].hp <= us[v].hp
      /\ hit[u] = us[u]
  <2>1. u \in Members \ T
    BY <1>1
  <2> QED
    BY <2>1, DamageAllEffect, Zenon
<1>3. budget \in Nat
  BY <1>1, BudgetIsNat
<1>4. /\ fed \in Table /\ Clean(fed) /\ Capped(hit, fed)
      /\ \A v \in Members : fed[v].alive = hit[v].alive
      /\ \A v \in Members \ {u} : fed[v] = hit[v]
  <2> HIDE DEF hit, budget
  <2> QED
    BY <1>2, <1>3, \A v \in {u} : hit[v].alive, {u} \in SUBSET Members, HealedEffect, Zenon
<1>5. \A k \in Slot : ally(k) => <<u[1], k>> \in Members /\ <<u[1], k>> # u
                                 /\ hit[<<u[1], k>>].alive
  BY DEF AliveOf, Alive
<1>6. need \in [Slot -> Nat]
  <2> HIDE DEF hit, ally
  <2> QED
    BY <1>2, <1>5, MissingIsNat
<1>7. \A k \in Slot : NeedBefore(need, k) \in Nat
  <2> HIDE DEF need
  <2>1. \A k \in Slot : [j \in Slot |-> IF j < k THEN need[j] ELSE 0] \in [Slot -> Nat]
    BY <1>6
  <2> QED
    BY <2>1, SlotSums DEF NeedBefore
<1>8. rest \in Int
  <2> HIDE DEF hit, budget
  <2> QED
    BY <1>2, <1>3, MissingIsNat DEF Lesser
<1>9. \A k \in Slot : share(k) \in Nat /\ share(k) <= need[k]
  <2> SUFFICES ASSUME NEW k \in Slot PROVE share(k) \in Nat /\ share(k) <= need[k]
    OBVIOUS
  <2> HIDE DEF need, rest
  <2>1. need[k] \in Nat
    BY <1>6
  <2>2. rest - NeedBefore(need, k) \in Int
    BY <1>7, <1>8
  <2>3. \A a \in Nat, b \in Int : Lesser(a, Greater(0, b)) \in Nat /\ Lesser(a, Greater(0, b)) <= a
    BY DEF Lesser, Greater
  <2> QED
    BY <2>1, <2>2, <2>3
<1>10. DOMAIN us = Members
  BY DEF Table
<1>11. new = [v \in Members |->
         IF v[1] = u[1] /\ ally(v[2]) THEN [fed[v] EXCEPT !.hp = @ + share(v[2])] ELSE fed[v]]
  BY <1>10, Zenon DEF DrainedOverflow
<1>12. ASSUME NEW v \in Members
       PROVE  /\ new[v] \in UnitState /\ new[v].alive = fed[v].alive
              /\ new[v].skips = fed[v].skips /\ fed[v].hp <= new[v].hp
              /\ new[v].hp <= Greater(us[v].hp, roster.maxHp[v])
              /\ ~fed[v].alive => new[v].hp = fed[v].hp
  <2>1. fed[v] \in UnitState /\ us[v] \in UnitState /\ hit[v] \in UnitState /\ roster.maxHp[v] \in Nat
    BY <1>2, <1>4, RosterFacts DEF Table
  <2>2. fed[v].hp \in Nat /\ us[v].hp \in Nat /\ hit[v].hp \in Nat
    BY <2>1 DEF UnitState
  <2>3. fed[v].hp <= Greater(hit[v].hp, roster.maxHp[v]) /\ hit[v].hp <= us[v].hp
    BY <1>2, <1>4 DEF Capped
  <2>4. fed[v].hp <= Greater(us[v].hp, roster.maxHp[v])
    BY <2>1, <2>2, <2>3 DEF Greater
  <2>5. CASE v[1] = u[1] /\ ally(v[2])
    <3> DEFINE gain == share(v[2])
    <3>1. v[2] \in Slot /\ v = <<u[1], v[2]>>
      BY <2>5, UnitsArePairs
    <3>2. v # u /\ hit[v].alive /\ fed[v] = hit[v]
      BY <1>4, <1>5, <2>5, <3>1
    <3>3. need[v[2]] = Missing(hit, v)
      BY <2>5, <3>1
    <3>4. gain \in Nat /\ gain <= Missing(hit, v)
      BY <1>9, <3>1, <3>3
    <3>5. Missing(hit, v) \in Nat /\ hit[v].hp + Missing(hit, v) <= Greater(hit[v].hp, roster.maxHp[v])
      BY <1>2, MissingIsNat
    <3>6. new[v] = [fed[v] EXCEPT !.hp = @ + gain]
      BY <1>11, <2>5, Zenon
    <3> HIDE DEF new, fed, gain, hit
    <3>7. fed[v].hp + gain <= Greater(us[v].hp, roster.maxHp[v]) /\ fed[v].hp <= fed[v].hp + gain
      BY <2>1, <2>2, <2>3, <3>2, <3>4, <3>5 DEF Greater
    <3>8. /\ new[v] \in UnitState /\ new[v].hp = fed[v].hp + gain
          /\ new[v].alive = fed[v].alive /\ new[v].skips = fed[v].skips
      BY <2>1, <3>4, <3>6, FedUnit
    <3> QED
      BY <3>2, <3>7, <3>8
  <2>6. CASE ~(v[1] = u[1] /\ ally(v[2]))
    <3>1. new[v] = fed[v]
      BY <1>11, <2>6, Zenon
    <3> HIDE DEF new, fed, hit
    <3> QED
      BY <2>1, <2>2, <2>4, <3>1
  <2> QED
    BY <2>5, <2>6
<1>13. new \in Table
  <2>1. new \in [Members -> UnitState]
    BY <1>11, <1>12
  <2> QED
    BY <2>1 DEF Table
<1> HIDE DEF new, fed, hit
<1>14. Clean(new)
  <2>1. \A v \in Members : fed[v].hp \in Nat /\ new[v].hp \in Nat
    BY <1>4, <1>13 DEF Table, UnitState
  <2> QED
    BY <1>4, <1>12, <2>1 DEF Clean
<1>15. Capped(us, new)
  BY <1>12 DEF Capped
<1>16. new[u].alive
  BY <1>2, <1>4, <1>12
<1> QED
  BY <1>13, <1>14, <1>15, <1>16 DEF new

(* A drain hurts the enemy and heals the actor.                            *)
LEMMA DrainedEffect ==
  ASSUME roster \in Rosters, NEW us \in Table, Clean(us), NEW u \in Members, us[u].alive,
         NEW T \in SUBSET Members, \A t \in T : t[1] = Opposite(u[1]), NEW damage \in Nat
  PROVE  LET new == Drained(us, u, T, damage)
         IN  new \in Table /\ Clean(new) /\ Capped(us, new) /\ new[u].alive
<1> DEFINE hit == DamageAll(us, T, damage)
           budget == DamageDealt(us, Opposite(u[1]), T, damage) \div 2
           new == Healed(hit, {u}, budget)
<1>1. u[1] \in Side /\ Opposite(u[1]) \in Side /\ u \in Members \ T
  BY UnitsArePairs DEF Side, Opposite
<1>2. /\ hit \in Table /\ Clean(hit)
      /\ \A v \in Members : hit[v].hp <= us[v].hp
      /\ hit[u] = us[u]
  BY <1>1, DamageAllEffect, Zenon
<1>3. budget \in Nat
  BY <1>1, BudgetIsNat
<1>4. new \in Table /\ Clean(new) /\ Capped(hit, new) /\ new[u].alive = hit[u].alive
  <2> HIDE DEF hit, budget
  <2> QED
    BY <1>2, <1>3, \A v \in {u} : hit[v].alive, {u} \in SUBSET Members, HealedEffect, Zenon
<1> HIDE DEF hit, new
<1>5. Capped(us, new)
  <2>1. \A v \in Members : us[v].hp \in Nat /\ hit[v].hp \in Nat /\ new[v].hp \in Nat
                           /\ roster.maxHp[v] \in Nat
    BY <1>2, <1>4, RosterFacts DEF Table, UnitState
  <2> QED
    BY <1>2, <1>4, <2>1 DEF Capped, Greater
<1> QED
  BY <1>2, <1>4, <1>5 DEF Drained, new, hit

(* Capped is a preorder on the tables.                                     *)
LEMMA CappedIsReflexive ==
  ASSUME roster \in Rosters, NEW us \in Table
  PROVE  Capped(us, us)
BY RosterFacts DEF Capped, Greater, Table, UnitState

LEMMA CappedIsTransitive ==
  ASSUME roster \in Rosters, NEW us \in Table, NEW mid \in Table, NEW new \in Table,
         Capped(us, mid), Capped(mid, new)
  PROVE  Capped(us, new)
<1>1. \A v \in Members : us[v].hp \in Nat /\ mid[v].hp \in Nat /\ new[v].hp \in Nat
                         /\ roster.maxHp[v] \in Nat
  BY RosterFacts DEF Table, UnitState
<1> QED
  BY <1>1 DEF Capped, Greater

(* Petrifying and curing change nothing but the skips owed.                *)
WithSkips(us, T, n) ==
  [v \in DOMAIN us |-> IF v \in T THEN [us[v] EXCEPT !.skips = n] ELSE us[v]]

LEMMA SkipsEffect ==
  ASSUME roster \in Rosters, NEW us \in Table, Clean(us), NEW T \in SUBSET Members,
         NEW n \in Nat, n = 0 \/ \A t \in T : us[t].alive
  PROVE  LET new == WithSkips(us, T, n)
         IN  /\ new \in Table /\ Clean(new) /\ Capped(us, new)
             /\ \A v \in Members : new[v].alive = us[v].alive
<1> DEFINE new == WithSkips(us, T, n)
<1>1. DOMAIN us = Members /\ \A v \in Members : us[v] \in UnitState /\ roster.maxHp[v] \in Nat
  BY RosterFacts DEF Table
<1>2. \A x \in UnitState : LET y == [x EXCEPT !.skips = n]
                           IN  y \in UnitState /\ y.hp = x.hp /\ y.alive = x.alive /\ y.skips = n
  BY DEF UnitState
<1>3. \A v \in Members : /\ new[v] \in UnitState /\ new[v].hp = us[v].hp
                         /\ new[v].alive = us[v].alive
                         /\ new[v].skips = IF v \in T THEN n ELSE us[v].skips
  BY <1>1, <1>2 DEF WithSkips
<1>4. new \in Table
  BY <1>1, <1>3 DEF Table, WithSkips
<1> HIDE DEF new
<1>5. Clean(new)
  BY <1>3 DEF Clean
<1>6. Capped(us, new)
  BY <1>1, <1>3 DEF Capped, Greater, UnitState
<1> QED
  BY <1>3, <1>4, <1>5, <1>6 DEF new

(* Reviving brings the dead back with some HP.                             *)
LEMMA RevivedEffect ==
  ASSUME roster \in Rosters, NEW us \in Table, Clean(us), NEW T \in SUBSET Members,
         NEW amount \in Nat, amount # 0, \A t \in T : roster.maxHp[t] # 0 /\ ~us[t].alive
  PROVE  LET new == Revived(us, T, amount)
         IN  /\ new \in Table /\ Clean(new) /\ Capped(us, new)
             /\ \A v \in Members : us[v].alive => new[v].alive
<1> DEFINE new == Revived(us, T, amount)
           hp(v) == Lesser(amount, roster.maxHp[v])
<1>1. DOMAIN us = Members /\ \A v \in Members : us[v] \in UnitState /\ roster.maxHp[v] \in Nat
  BY RosterFacts DEF Table
<1>2. \A v \in T : hp(v) \in Nat /\ hp(v) > 0 /\ hp(v) <= roster.maxHp[v]
  BY <1>1 DEF Lesser
<1>3. \A x \in UnitState, h \in Nat : LET y == [x EXCEPT !.hp = h, !.alive = TRUE]
                           IN  y \in UnitState /\ y.hp = h /\ y.alive /\ y.skips = x.skips
  BY DEF UnitState
<1>4. \A v \in Members :
        new[v] = IF v \in T THEN [us[v] EXCEPT !.hp = hp(v), !.alive = TRUE] ELSE us[v]
  BY <1>1, Zenon DEF Revived
<1>5. ASSUME NEW v \in Members
      PROVE  /\ new[v] \in UnitState /\ new[v].skips = us[v].skips
             /\ v \notin T => new[v] = us[v]
             /\ v \in T => new[v].alive /\ new[v].hp > 0 /\ new[v].hp <= roster.maxHp[v]
  <2>1. CASE v \in T
    <3>1. new[v] = [us[v] EXCEPT !.hp = hp(v), !.alive = TRUE]
      BY <1>4, <2>1, Zenon
    <3>2. hp(v) \in Nat /\ hp(v) > 0 /\ hp(v) <= roster.maxHp[v]
      BY <1>2, <2>1
    <3> DEFINE h == hp(v)
    <3> HIDE DEF new, h
    <3>3. /\ [us[v] EXCEPT !.hp = h, !.alive = TRUE] \in UnitState
          /\ [us[v] EXCEPT !.hp = h, !.alive = TRUE].hp = h
          /\ [us[v] EXCEPT !.hp = h, !.alive = TRUE].alive
          /\ [us[v] EXCEPT !.hp = h, !.alive = TRUE].skips = us[v].skips
      BY <1>1, <1>3, <3>2 DEF h
    <3> QED
      BY <2>1, <3>1, <3>2, <3>3 DEF h
  <2>2. CASE v \notin T
    <3>1. new[v] = us[v]
      BY <1>4, <2>2, Zenon
    <3> HIDE DEF new
    <3> QED
      BY <1>1, <2>2, <3>1
  <2> QED
    BY <2>1, <2>2
<1>6. new \in Table
  <2>1. new \in [Members -> UnitState]
    BY <1>1, <1>5 DEF Revived
  <2> QED
    BY <2>1 DEF Table
<1> HIDE DEF new
<1>7. Clean(new)
  BY <1>5 DEF Clean
<1>8. Capped(us, new)
  BY <1>1, <1>5 DEF Capped, Greater, UnitState
<1>9. \A v \in Members : us[v].alive => new[v].alive
  BY <1>5
<1> QED
  BY <1>6, <1>7, <1>8, <1>9 DEF new

(* What any supported effect leaves behind on its eligible targets.        *)
LEMMA EffectKeepsTables ==
  ASSUME roster \in Rosters, NEW us \in Table, Clean(us), NEW u \in Members, us[u].alive,
         NEW attack \in Attack, NEW T \in SUBSET Members, T # {},
         attack.class \in EnemyClass => \A t \in T : t[1] = Opposite(u[1]),
         \A t \in T : RightVitality(us, t, attack),
         ~EffectThrows(us, u, attack, T)
  PROVE  LET new == Effect(us, u, attack, T)
         IN  new \in Table /\ Clean(new) /\ Capped(us, new) /\ new[u].alive
<1> DEFINE new == Effect(us, u, attack, T)
<1>1. attack.damage \in Nat /\ attack.heal \in Nat
  BY DEF Attack
<1>2. u[1] \in Side /\ (attack.class \in EnemyClass => u \in Members \ T)
  BY UnitsArePairs DEF Side, Opposite
<1>3. attack.class # "Revive" => \A t \in T : us[t].alive
  BY DEF RightVitality
<1>4. CASE attack.class = "Damage"
  <2>1. new = DamageAll(us, T, attack.damage)
    BY <1>4 DEF Effect
  <2> HIDE DEF new
  <2>2. u \in Members \ T
    BY <1>2, <1>4 DEF EnemyClass
  <2>3. /\ new \in Table /\ Clean(new) /\ new[u] = us[u]
        /\ \A v \in Members : new[v].hp <= us[v].hp
    BY <1>1, <2>1, <2>2, DamageAllEffect, Zenon
  <2>4. \A v \in Members : new[v].hp \in Nat /\ us[v].hp \in Nat /\ roster.maxHp[v] \in Nat
    BY <2>3, RosterFacts DEF Table, UnitState
  <2>5. Capped(us, new)
    BY <2>3, <2>4 DEF Capped, Greater
  <2> QED
    BY <2>3, <2>5 DEF new
<1>5. CASE attack.class = "Drain"
  BY <1>1, <1>5, DrainedEffect DEF Effect, EnemyClass
<1>6. CASE attack.class = "DrainOverflow"
  BY <1>1, <1>6, DrainedOverflowEffect DEF Effect, EnemyClass
<1>7. CASE attack.class = "Petrify"
  <2>1. new = WithSkips(us, T, 1)
    BY <1>7 DEF Effect, Petrified, PetrifySkips, WithSkips
  <2> HIDE DEF new
  <2>2. \A t \in T : us[t].alive
    BY <1>3, <1>7
  <2>3. 1 \in Nat
    OBVIOUS
  <2>4. new \in Table /\ Clean(new) /\ Capped(us, new) /\ new[u].alive = us[u].alive
    BY <2>1, <2>2, <2>3, SkipsEffect, Zenon
  <2> QED
    BY <2>4 DEF new
<1>8. CASE attack.class = "Heal"
  <2>1. new = Healed(us, T, attack.heal)
    BY <1>8 DEF Effect
  <2> HIDE DEF new
  <2>2. \A t \in T : us[t].alive
    BY <1>3, <1>8
  <2>3. new \in Table /\ Clean(new) /\ Capped(us, new) /\ new[u].alive = us[u].alive
    BY <1>1, <2>1, <2>2, HealedEffect, Zenon
  <2> QED
    BY <2>3 DEF new
<1>9. CASE attack.class = "Cure"
  <2>1. new = WithSkips(us, T, 0)
    BY <1>9 DEF Effect, Cured, WithSkips
  <2> HIDE DEF new
  <2>2. 0 \in Nat
    OBVIOUS
  <2>3. new \in Table /\ Clean(new) /\ Capped(us, new) /\ new[u].alive = us[u].alive
    BY <2>1, <2>2, SkipsEffect, Zenon
  <2> QED
    BY <2>3 DEF new
<1>10. CASE attack.class = "Revive"
  <2>1. new = Revived(us, T, attack.heal)
    BY <1>10 DEF Effect
  <2>2. attack.heal # 0 /\ \A t \in T : roster.maxHp[t] # 0 /\ ~us[t].alive
    BY <1>10 DEF EffectThrows, RightVitality
  <2> HIDE DEF new
  <2>3. new \in Table /\ Clean(new) /\ Capped(us, new) /\ new[u].alive
    BY <1>1, <2>1, <2>2, RevivedEffect, Zenon
  <2> QED
    BY <2>3 DEF new
<1>11. CASE attack.class \notin SupportedClass
  <2>1. new = us
    BY <1>11 DEF Effect, SupportedClass, EnemyClass, AllyClass
  <2> QED
    BY <2>1, CappedIsReflexive
<1> QED
  BY <1>4, <1>5, <1>6, <1>7, <1>8, <1>9, <1>10, <1>11 DEF SupportedClass, EnemyClass, AllyClass

(* The targets of an accepted attack are members of the side it aims at.   *)
LEMMA AcceptedTargets ==
  ASSUME roster \in Rosters, NEW u, NEW target, AttackVerdict(u, target) = "None"
  PROVE  /\ status = "InProgress" /\ u = CurrentActor /\ u \in Members
         /\ BundleSupported(u)
         /\ \A us, attack : \A t \in ComponentTargets(us, u, target, attack) :
              t \in Members /\ t[1] = TargetSide(u) /\ RightVitality(us, t, attack)
<1>1. status = "InProgress" /\ u = CurrentActor /\ u \in Members /\ BundleSupported(u)
  BY Zenon DEF AttackVerdict
<1>2. target \notin {AllEnemyUnits, AllAlliedUnits} => target \in Members /\ target[1] = TargetSide(u)
  BY Zenon DEF AttackVerdict, SideWide
<1>3. ASSUME NEW us, NEW attack, NEW t \in ComponentTargets(us, u, target, attack)
      PROVE  t \in Members /\ t[1] = TargetSide(u) /\ RightVitality(us, t, attack)
  BY <1>2, <1>3 DEF ComponentTargets, UnitTargets
<1> QED
  BY <1>1, <1>3

(* One component of a bundle, then the whole bundle.                       *)
LEMMA ComponentKeepsTables ==
  ASSUME roster \in Rosters, NEW us \in Table, Clean(us), NEW u \in Members, us[u].alive,
         NEW attack \in Attack, NEW target, AttackVerdict(u, target) = "None",
         attack.class \in EnemyClass => AimsAtEnemy(u),
         ~EffectThrows(us, u, attack, ComponentTargets(us, u, target, attack))
  PROVE  LET new == Component(us, u, target, attack)
         IN  new \in Table /\ Clean(new) /\ Capped(us, new) /\ new[u].alive
<1> DEFINE T == ComponentTargets(us, u, target, attack)
<1>1. \A t \in T : t \in Members /\ t[1] = TargetSide(u) /\ RightVitality(us, t, attack)
  BY AcceptedTargets
<1>2. CASE T = {}
  BY <1>2, CappedIsReflexive DEF Component
<1>3. CASE T # {}
  <2>1. Component(us, u, target, attack) = Effect(us, u, attack, T)
    BY <1>3 DEF Component
  <2>2. attack.class \in EnemyClass => \A t \in T : t[1] = Opposite(u[1])
    BY <1>1 DEF TargetSide
  <2>3. T \in SUBSET Members
    BY <1>1
  <2> HIDE DEF T
  <2> QED
    BY <1>1, <1>3, <2>1, <2>2, <2>3, EffectKeepsTables DEF T
<1> QED
  BY <1>2, <1>3

LEMMA AttackKeepsTables ==
  ASSUME roster \in Rosters, units \in Table, Clean(units), NEW u \in Members, units[u].alive,
         NEW target, AttackVerdict(u, target) = "None", ~Throws(u, target)
  PROVE  LET new == AfterAttack(u, target)
         IN  new \in Table /\ Clean(new) /\ Capped(units, new)
<1> DEFINE first == roster.primary[u]
           second == roster.secondary[u]
           mid == AfterPrimary(u, target)
<1>1. first \in Attack /\ second \in Attack
  BY RosterFacts
<1>2. first.class \in EnemyClass => AimsAtEnemy(u)
  BY DEF AimsAtEnemy
<1>3. HasSecondary(u) => (second.class \in EnemyClass => AimsAtEnemy(u))
  BY AcceptedTargets DEF BundleSupported, AimsAtEnemy
<1>4. mid \in Table /\ Clean(mid) /\ Capped(units, mid) /\ mid[u].alive
  <2>1. ~EffectThrows(units, u, first, ComponentTargets(units, u, target, first))
    BY DEF Throws
  <2> HIDE DEF first, mid
  <2>2. mid = Component(units, u, target, first)
    BY DEF mid, AfterPrimary, first
  <2> QED
    BY <1>1, <1>2, <2>1, <2>2, ComponentKeepsTables
<1>5. CASE HasSecondary(u)
  <2>1. ~EffectThrows(mid, u, second, ComponentTargets(mid, u, target, second))
    BY <1>5 DEF Throws
  <2>2. AfterAttack(u, target) = Component(mid, u, target, second)
    BY <1>5 DEF AfterAttack
  <2> DEFINE new == Component(mid, u, target, second)
  <2> HIDE DEF second, mid
  <2>3. new \in Table /\ Clean(new) /\ Capped(mid, new)
    BY <1>1, <1>3, <1>4, <1>5, <2>1, ComponentKeepsTables
  <2> HIDE DEF new
  <2> QED
    BY <1>4, <2>2, <2>3, CappedIsTransitive DEF new
<1>6. CASE ~HasSecondary(u)
  BY <1>4, <1>6 DEF AfterAttack
<1> QED
  BY <1>5, <1>6

-----------------------------------------------------------------------------
(* Facts about the helpers Settle and Init are made of.                    *)
LEMMA LeaderFlagsRight ==
  ASSUME roster \in Rosters, NEW us \in Table, NEW flags \in [Side -> BOOLEAN]
  PROVE  /\ LeaderFlags(us, flags) \in [Side -> BOOLEAN]
         /\ \A s \in Side : roster.leader[s] \in Members =>
              LeaderFlags(us, flags)[s] = us[roster.leader[s]].alive
<1>1. NoUnit \notin Members
  BY UnitsArePairs DEF NoUnit, Side
<1>2. \A u \in Members : us[u].alive \in BOOLEAN /\ (u \in Alive(us) <=> us[u].alive)
  BY DEF Table, UnitState, Alive
<1>3. \A s \in Side : LeaderFlags(us, flags)[s] =
        IF roster.leader[s] = NoUnit THEN flags[s] ELSE roster.leader[s] \in Alive(us)
  BY DEF LeaderFlags
<1>4. ASSUME NEW s \in Side, roster.leader[s] \in Members
      PROVE  LeaderFlags(us, flags)[s] = us[roster.leader[s]].alive
  BY <1>1, <1>2, <1>3, <1>4
<1>5. LeaderFlags(us, flags) \in [Side -> BOOLEAN]
  <2>1. \A s \in Side : (roster.leader[s] \in Alive(us)) \in BOOLEAN /\ flags[s] \in BOOLEAN
    OBVIOUS
  <2>2. \A s \in Side :
          (IF roster.leader[s] = NoUnit THEN flags[s] ELSE roster.leader[s] \in Alive(us)) \in BOOLEAN
    BY <2>1, Zenon
  <2> QED
    BY <2>2, Zenon DEF LeaderFlags
<1> QED
  BY <1>4, <1>5

LEMMA OutcomeRight ==
  ASSUME NEW us
  PROVE  /\ StatusOf(us) \in {"InProgress", "Finished"}
         /\ StatusOf(us) = "InProgress" => WinnerOf(us) = NoSide /\ \A s \in Side : AliveOf(us, s) # {}
         /\ WinnerOf(us) \in {NoSide} \cup Side
         /\ StatusOf(us) # "InProgress" => \A s \in Side : AliveOf(us, s) # {} <=> WinnerOf(us) = s
BY DEF StatusOf, WinnerOf, NoSide, Side

(* A new round starts with a living unit.                                  *)
LEMMA FirstOfRound ==
  ASSUME roster \in Rosters, NEW us \in Table, Alive(us) # {}
  PROVE  LET order == BuildTurnOrder(Alive(us))
         IN  /\ order \in Seq(Members) /\ 1 \in DOMAIN order
             /\ \A i \in DOMAIN order : order[i] \in Alive(us)
             /\ \A i, j \in DOMAIN order : order[i] = order[j] => i = j
<1> DEFINE L == Alive(us)
           order == BuildTurnOrder(L)
<1>1. L \in SUBSET Members
  BY DEF Alive
<1>2. Cardinality(L) \in Nat /\ Cardinality(L) # 0
  BY <1>1, MembersAreFinite, FS_EmptySet
<1>3. order \in Seq(Members) /\ Len(order) = Cardinality(L)
      /\ (\A i \in 1..Cardinality(L) : order[i] \in L)
      /\ \A i, j \in 1..Cardinality(L) : order[i] = order[j] => i = j
  BY <1>1, TurnOrderIsFair, Zenon
<1> HIDE DEF order, L
<1>4. DOMAIN order = 1..Cardinality(L)
  BY <1>3
<1> QED
  BY <1>2, <1>3, <1>4 DEF order, L

(* Within a round the turn passes to a living unit further on.             *)
LEMMA NextDue ==
  ASSUME turnOrder \in Seq(Members), NEW us, StillDue(us) # {}
  PROVE  LET next == CHOOSE i \in StillDue(us) : \A j \in StillDue(us) : i <= j
         IN  /\ next \in StillDue(us) /\ next \in Nat \ {0} /\ next \in DOMAIN turnOrder
             /\ turnOrder[next] \in Members /\ us[turnOrder[next]].alive
<1>1. StillDue(us) \in SUBSET Nat
  BY DEF StillDue
<1>2. \E i \in StillDue(us) : \A j \in StillDue(us) : i <= j
  BY <1>1, LeastExists
<1>3. (CHOOSE i \in StillDue(us) : \A j \in StillDue(us) : i <= j) \in StillDue(us)
  BY <1>2, Zenon
<1>4. \A i \in StillDue(us) : /\ i \in Nat \ {0} /\ i \in DOMAIN turnOrder
                              /\ turnOrder[i] \in Members /\ us[turnOrder[i]].alive
  BY DEF StillDue
<1> QED
  BY <1>3, <1>4, Zenon

(* Whatever clean table an action leaves, Settle leaves a valid state.     *)
LEMMA SettleKeepsInv ==
  ASSUME TypeOK, ValidState, InProgress, NEW us, us \in Table, Clean(us), Settle(us)
  PROVE  (TypeOK /\ ValidState)'
<1>1. roster \in Rosters /\ units \in Table /\ turnOrder \in Seq(Members) /\ round \in Nat
      /\ turn \in Nat \ {0} /\ leaderAlive \in [Side -> BOOLEAN]
  BY DEF TypeOK, Table
<1>2. roster' = roster /\ Members' = Members /\ units' = us
  BY DEF Settle, Members
<1>3. status' = StatusOf(us) /\ winner' = WinnerOf(us)
      /\ leaderAlive' = LeaderFlags(us, leaderAlive)
  BY DEF Settle
<1>4. Alive(units)' = Alive(us) /\ \A s \in Side : AliveOf(units, s)' = AliveOf(us, s)
  BY <1>2 DEF Alive, AliveOf
<1>5. InProgress' <=> StatusOf(us) = "InProgress"
  BY <1>3 DEF InProgress
<1>6. ASSUME StatusOf(us) = "InProgress" /\ StillDue(us) # {} PROVE TypeOK' /\ TurnIsPlayable'
  <2>1. /\ turn' = CHOOSE i \in StillDue(us) : \A j \in StillDue(us) : i <= j
        /\ round' = round /\ turnOrder' = turnOrder
    BY <1>6 DEF Settle, AdvanceTurn
  <2>2. turn' \in Nat \ {0} /\ turn' \in DOMAIN turnOrder /\ us[turnOrder[turn']].alive
    BY <1>1, <1>6, <2>1, NextDue, Zenon
  <2>3. TypeOK'
    BY <1>1, <1>2, <1>3, <2>1, <2>2, LeaderFlagsRight, OutcomeRight DEF TypeOK, Table
  <2>4. TurnIsPlayable'
    <3>1. round > 0 /\ \A i, j \in DOMAIN turnOrder : turnOrder[i] = turnOrder[j] => i = j
      BY DEF ValidState, TurnIsPlayable
    <3>2. CurrentActor' = turnOrder[turn']
      BY <2>1 DEF CurrentActor
    <3>3. \A s \in Side : AliveOf(us, s) # {}
      BY <1>6, OutcomeRight
    <3> QED
      BY <1>2, <1>4, <2>1, <2>2, <3>1, <3>2, <3>3 DEF TurnIsPlayable
  <2> QED
    BY <2>3, <2>4
<1>7. ASSUME StatusOf(us) = "InProgress" /\ StillDue(us) = {} PROVE TypeOK' /\ TurnIsPlayable'
  <2>1. turn' = 1 /\ round' = round + 1 /\ turnOrder' = BuildTurnOrder(Alive(us))
    BY <1>7 DEF Settle, AdvanceTurn
  <2>2. \A s \in Side : AliveOf(us, s) # {}
    BY <1>7, OutcomeRight
  <2>3. Alive(us) # {}
    BY <2>2 DEF AliveOf, Side
  <2>4. /\ turnOrder' \in Seq(Members) /\ 1 \in DOMAIN turnOrder'
        /\ \A i \in DOMAIN turnOrder' : turnOrder'[i] \in Alive(us)
        /\ \A i, j \in DOMAIN turnOrder' : turnOrder'[i] = turnOrder'[j] => i = j
    BY <1>1, <2>1, <2>3, FirstOfRound, Zenon
  <2>5. TypeOK'
    BY <1>1, <1>2, <1>3, <2>1, <2>4, LeaderFlagsRight, OutcomeRight DEF TypeOK, Table
  <2>6. TurnIsPlayable'
    <3>1. CurrentActor' = turnOrder'[1] /\ turnOrder'[1] \in Alive(us)
      BY <2>1, <2>4 DEF CurrentActor
    <3>2. us[CurrentActor'].alive
      BY <3>1 DEF Alive
    <3> QED
      BY <1>1, <1>2, <1>4, <2>1, <2>2, <2>4, <3>2 DEF TurnIsPlayable
  <2> QED
    BY <2>5, <2>6
<1>8. ASSUME StatusOf(us) # "InProgress" PROVE TypeOK' /\ TurnIsPlayable'
  <2>1. round' = round /\ turnOrder' = turnOrder /\ turn' = turn
    BY <1>8 DEF Settle
  <2>2. TypeOK'
    BY <1>1, <1>2, <1>3, <2>1, LeaderFlagsRight, OutcomeRight DEF TypeOK, Table
  <2>3. TurnIsPlayable'
    BY <1>5, <1>8 DEF TurnIsPlayable
  <2> QED
    BY <2>2, <2>3
<1>9. TypeOK' /\ TurnIsPlayable'
  BY <1>6, <1>7, <1>8
<1>10. DeadAreClean'
  BY <1>2 DEF DeadAreClean, Clean
<1>11. LeaderFlagsAgree'
  <2>1. \A s \in Side : roster.leader[s] \in Members =>
          LeaderFlags(us, leaderAlive)[s] = us[roster.leader[s]].alive
    BY <1>1, LeaderFlagsRight
  <2> QED
    BY <1>2, <1>3, <2>1 DEF LeaderFlagsAgree
<1>12. OutcomeAgrees'
  <2>1. winner' # NoSide => ~InProgress'
    BY <1>3, <1>5, OutcomeRight
  <2>2. ~InProgress' => \A s \in Side : AliveOf(units, s)' # {} <=> winner' = s
    BY <1>3, <1>4, <1>5, OutcomeRight
  <2> QED
    BY <2>1, <2>2 DEF OutcomeAgrees
<1> QED
  BY <1>9, <1>10, <1>11, <1>12 DEF ValidState

LEMMA InitInv == Init => TypeOK /\ ValidState
<1> SUFFICES ASSUME Init PROVE TypeOK /\ ValidState
  OBVIOUS
<1>1. roster \in Rosters /\ units = Bootstrapped(roster)
  BY DEF Init
<1>2. units \in Table /\ Clean(units)
  <2>1. \A u \in Members : LET x == [hp |-> roster.startHp[u], alive |-> roster.startHp[u] > 0, skips |-> 0]
                           IN  /\ x \in UnitState /\ x.skips = 0
                               /\ x.alive <=> x.hp > 0
    <3>1. ASSUME NEW n \in Nat
          PROVE  LET x == [hp |-> n, alive |-> n > 0, skips |-> 0]
                 IN  x \in UnitState /\ x.skips = 0 /\ (x.alive <=> x.hp > 0)
      <4> DEFINE b == n > 0
                 x == [hp |-> n, alive |-> b, skips |-> 0]
      <4>1. x \in UnitState /\ x.hp = n /\ x.alive = b /\ x.skips = 0
        <5> HIDE DEF b
        <5>1. b \in BOOLEAN
          BY DEF b
        <5> QED
          BY <5>1 DEF UnitState
      <4> HIDE DEF x
      <4> QED
        BY <4>1 DEF x
    <3>2. \A u \in Members : roster.startHp[u] \in Nat
      BY <1>1, RosterFacts
    <3> QED
      BY <3>1, <3>2
  <2>2. units = [u \in Members |->
                  [hp |-> roster.startHp[u], alive |-> roster.startHp[u] > 0, skips |-> 0]]
    BY <1>1, Zenon DEF Bootstrapped, Members
  <2> QED
    BY <2>1, <2>2 DEF Table, Clean
<1>3. PICK flags \in [Side -> BOOLEAN] : leaderAlive = LeaderFlags(units, flags)
  BY DEF Init
<1>4. /\ leaderAlive \in [Side -> BOOLEAN]
      /\ \A s \in Side : roster.leader[s] \in Members =>
           leaderAlive[s] = units[roster.leader[s]].alive
  BY <1>1, <1>2, <1>3, LeaderFlagsRight
<1>5. status = StatusOf(units) /\ winner = WinnerOf(units)
  BY DEF Init
<1>6. /\ round \in Nat /\ turnOrder \in Seq(Members) /\ turn \in Nat \ {0}
      /\ TurnIsPlayable
  <2>1. CASE status = "InProgress"
    <3>1. round = 1 /\ turnOrder = BuildTurnOrder(Alive(units)) /\ turn = 1
      BY <2>1 DEF Init
    <3>2. \A s \in Side : AliveOf(units, s) # {}
      BY <1>5, <2>1, OutcomeRight
    <3>3. Alive(units) # {}
      BY <3>2 DEF AliveOf, Side
    <3>4. /\ turnOrder \in Seq(Members) /\ 1 \in DOMAIN turnOrder
          /\ \A i \in DOMAIN turnOrder : turnOrder[i] \in Alive(units)
          /\ \A i, j \in DOMAIN turnOrder : turnOrder[i] = turnOrder[j] => i = j
      BY <1>1, <1>2, <3>1, <3>3, FirstOfRound, Zenon
    <3>5. units[CurrentActor].alive
      BY <3>1, <3>4 DEF CurrentActor, Alive
    <3> QED
      BY <3>1, <3>2, <3>4, <3>5 DEF TurnIsPlayable
  <2>2. CASE status # "InProgress"
    <3>1. round = 0 /\ turnOrder = <<>> /\ turn = 1
      BY <2>2 DEF Init
    <3> QED
      BY <2>2, <3>1 DEF TurnIsPlayable, InProgress
  <2> QED
    BY <2>1, <2>2
<1>7. TypeOK
  BY <1>1, <1>2, <1>4, <1>5, <1>6, OutcomeRight DEF TypeOK, Table
<1>8. OutcomeAgrees
  BY <1>5, OutcomeRight DEF OutcomeAgrees, InProgress
<1> QED
  BY <1>2, <1>4, <1>6, <1>7, <1>8 DEF ValidState, DeadAreClean, Clean, LeaderFlagsAgree

(* A skip takes one skip off the actor, who is alive.                      *)
LEMMA SkipKeepsTables ==
  ASSUME TypeOK, ValidState, NEW u \in Members, SkipVerdict(u) = "None"
  PROVE  LET new == [units EXCEPT ![u].skips = @ - 1]
         IN  InProgress /\ new \in Table /\ Clean(new) /\ Capped(units, new)
<1> DEFINE new == [units EXCEPT ![u].skips = @ - 1]
<1>1. units \in Table /\ roster \in Rosters
  BY DEF TypeOK, Table
<1>2. InProgress /\ units[u].alive /\ units[u].skips # 0
  BY Zenon DEF SkipVerdict, InProgress
<1>3. \A v \in Members : units[v] \in UnitState /\ roster.maxHp[v] \in Nat
  BY <1>1, RosterFacts DEF Table
<1>4. \A v \in Members : /\ new[v] \in UnitState /\ new[v].hp = units[v].hp
                         /\ new[v].alive = units[v].alive
                         /\ v # u => new[v] = units[v]
  BY <1>1, <1>2, <1>3 DEF Table, UnitState
<1>5. new \in Table
  BY <1>1, <1>4 DEF Table
<1> HIDE DEF new
<1>6. Clean(new)
  BY <1>2, <1>4 DEF Clean, ValidState, DeadAreClean
<1>7. Capped(units, new)
  BY <1>3, <1>4 DEF Capped, Greater, UnitState
<1> QED
  BY <1>2, <1>5, <1>6, <1>7 DEF new

(* Every step of the battle settles a clean, capped table.                 *)
LEMMA StepSettles ==
  ASSUME TypeOK, ValidState, Next
  PROVE  /\ InProgress
         /\ \E us : us \in Table /\ Clean(us) /\ Capped(units, us) /\ Settle(us)
<1>1. roster \in Rosters /\ units \in Table /\ Clean(units)
  BY DEF TypeOK, Table, ValidState, DeadAreClean, Clean
<1>2. CASE AttackStep
  <2>1. PICK u \in Members, target \in AttackTarget : DoAttack(u, target)
    BY <1>2 DEF AttackStep
  <2>2. AttackVerdict(u, target) = "None" /\ ~Throws(u, target) /\ Settle(AfterAttack(u, target))
    BY <2>1 DEF DoAttack
  <2>3. InProgress /\ u = CurrentActor
    BY <1>1, <2>2, AcceptedTargets DEF InProgress
  <2>4. units[u].alive
    BY <2>3 DEF ValidState, TurnIsPlayable
  <2>5. AfterAttack(u, target) \in Table /\ Clean(AfterAttack(u, target))
        /\ Capped(units, AfterAttack(u, target))
    BY <1>1, <2>2, <2>4, AttackKeepsTables, Zenon
  <2> QED
    BY <2>2, <2>3, <2>5, Zenon
<1>3. CASE SkipStep
  <2>1. PICK u \in Members : DoSkip(u)
    BY <1>3 DEF SkipStep
  <2>2. SkipVerdict(u) = "None" /\ Settle([units EXCEPT ![u].skips = @ - 1])
    BY <2>1 DEF DoSkip
  <2> QED
    BY <2>2, SkipKeepsTables, Zenon
<1> QED
  BY <1>2, <1>3 DEF Next

LEMMA StepKeepsInv == TypeOK /\ ValidState /\ [Next]_vars => (TypeOK /\ ValidState)'
<1> SUFFICES ASSUME TypeOK, ValidState, [Next]_vars PROVE (TypeOK /\ ValidState)'
  OBVIOUS
<1>1. CASE Next
  <2>1. InProgress
    BY <1>1, StepSettles
  <2>2. PICK us : us \in Table /\ Clean(us) /\ Settle(us)
    BY <1>1, StepSettles
  <2> QED
    BY <2>1, <2>2, SettleKeepsInv
<1>2. CASE UNCHANGED vars
  <2>1. TypeOK'
    BY <1>2 DEF TypeOK, vars, Members
  <2>2. DeadAreClean' /\ LeaderFlagsAgree'
    BY <1>2 DEF ValidState, DeadAreClean, LeaderFlagsAgree, vars, Members
  <2>3. TurnIsPlayable' /\ OutcomeAgrees'
    BY <1>2 DEF ValidState, TurnIsPlayable, OutcomeAgrees, InProgress, CurrentActor, AliveOf, Alive,
                vars, Members
  <2> QED
    BY <2>1, <2>2, <2>3 DEF ValidState
<1> QED
  BY <1>1, <1>2
-----------------------------------------------------------------------------
(* The variables keep their shape in every battle of every roster.         *)
THEOREM BattleTypeCorrect == Spec => []TypeOK
<1>1. Spec => [](TypeOK /\ ValidState)
  BY InitInv, StepKeepsInv, PTL DEF Spec
<1> QED
  BY <1>1, PTL

(* Whatever the stacks and their attacks, an action leaves a state that    *)
(* validate_battle_state accepts.                                          *)
THEOREM ActionsLeaveValidStates == Spec => []ValidState
<1>1. Spec => [](TypeOK /\ ValidState)
  BY InitInv, StepKeepsInv, PTL DEF Spec
<1> QED
  BY <1>1, PTL

(* No chain of heals, drains and revivals raises a unit above its maximum. *)
THEOREM MaximumIsNeverExceeded == Spec => HealingStopsAtMaximum
<1> DEFINE Act == \A u \in Members : units'[u].hp <= Greater(units[u].hp, roster.maxHp[u])
<1>1. TypeOK /\ ValidState /\ [Next]_vars => [Act]_vars
  <2> SUFFICES ASSUME TypeOK, ValidState, Next PROVE Act
    OBVIOUS
  <2>1. PICK us : Capped(units, us) /\ Settle(us)
    BY StepSettles
  <2> QED
    BY <2>1 DEF Capped, Settle
<1>2. Spec => [](TypeOK /\ ValidState)
  BY InitInv, StepKeepsInv, PTL DEF Spec
<1> QED
  BY <1>1, <1>2, PTL DEF Spec, HealingStopsAtMaximum

(* With a sound roster, HP stay within the maximum, so that no accepted    *)
(* attack can throw in an effect.                                          *)
WithinMaximum == SoundRoster => \A u \in Members : units[u].hp <= roster.maxHp[u]

(* No effect of a sound roster throws on a table within the maxima.        *)
LEMMA SoundEffects ==
  ASSUME roster \in Rosters, SoundRoster, NEW us, \A v \in Members : us[v].hp <= roster.maxHp[v],
         us \in Table, NEW u \in Members, NEW attack \in {roster.primary[u], roster.secondary[u]},
         NEW T \in SUBSET Members
  PROVE  ~EffectThrows(us, u, attack, T)
<1>1. \A v \in Members : us[v].hp \in Nat /\ roster.maxHp[v] \in Nat
  BY RosterFacts DEF Table, UnitState
<1>2. \A v \in Members : ~CannotHeal(us, v) /\ roster.maxHp[v] # 0
  BY <1>1 DEF CannotHeal, SoundRoster
<1>3. attack.class = "Revive" => attack.heal # 0
  BY RosterFacts DEF SoundRoster, Attack
<1> QED
  BY <1>2, <1>3 DEF EffectThrows

LEMMA SoundAttacks ==
  ASSUME TypeOK, ValidState, WithinMaximum, SoundRoster, NEW u \in Members, units[u].alive,
         NEW target, AttackVerdict(u, target) = "None"
  PROVE  ~Throws(u, target)
<1> DEFINE first == roster.primary[u]
           second == roster.secondary[u]
           mid == AfterPrimary(u, target)
<1>1. roster \in Rosters /\ units \in Table /\ Clean(units)
  BY DEF TypeOK, Table, ValidState, DeadAreClean, Clean
<1>2. \A v \in Members : units[v].hp <= roster.maxHp[v]
  BY DEF WithinMaximum
<1>3. \A us, attack : ComponentTargets(us, u, target, attack) \in SUBSET Members
  BY <1>1, AcceptedTargets
<1>4. ~EffectThrows(units, u, first, ComponentTargets(units, u, target, first))
  BY <1>1, <1>2, <1>3, SoundEffects
<1>5. first \in Attack /\ (first.class \in EnemyClass => AimsAtEnemy(u))
  BY <1>1, RosterFacts DEF AimsAtEnemy
<1>6. mid \in Table /\ Capped(units, mid)
  BY <1>1, <1>4, <1>5, ComponentKeepsTables, Zenon DEF AfterPrimary
<1>7. \A v \in Members : mid[v].hp <= roster.maxHp[v]
  <2> HIDE DEF mid
  <2>1. \A v \in Members : units[v].hp \in Nat /\ mid[v].hp \in Nat /\ roster.maxHp[v] \in Nat
    BY <1>1, <1>6, RosterFacts DEF Table, UnitState
  <2> QED
    BY <1>2, <1>6, <2>1 DEF Capped, Greater
<1>8. ~EffectThrows(mid, u, second, ComponentTargets(mid, u, target, second))
  <2> HIDE DEF mid
  <2> QED
    BY <1>1, <1>3, <1>6, <1>7, SoundEffects
<1> QED
  BY <1>4, <1>8 DEF Throws

LEMMA InitWithinMaximum == Init => WithinMaximum
<1> SUFFICES ASSUME Init, SoundRoster, NEW u \in Members PROVE units[u].hp <= roster.maxHp[u]
  BY DEF WithinMaximum
<1>1. units[u].hp = roster.startHp[u]
  BY DEF Init, Bootstrapped, Members
<1> QED
  BY <1>1 DEF SoundRoster

LEMMA StepWithinMaximum ==
  TypeOK /\ ValidState /\ WithinMaximum /\ [Next]_vars => WithinMaximum'
<1> SUFFICES ASSUME TypeOK, ValidState, WithinMaximum, [Next]_vars, SoundRoster', NEW u \in Members'
             PROVE  units'[u].hp <= roster'.maxHp[u]
  BY DEF WithinMaximum
<1>1. CASE Next
  <2>1. PICK us : us \in Table /\ Capped(units, us) /\ Settle(us)
    BY <1>1, StepSettles
  <2>2. roster' = roster /\ units' = us
    BY <2>1 DEF Settle
  <2>3. u \in Members /\ SoundRoster
    BY <2>2 DEF Members, SoundRoster
  <2>4. units[u].hp <= roster.maxHp[u] /\ us[u].hp <= Greater(units[u].hp, roster.maxHp[u])
    BY <2>1, <2>3 DEF WithinMaximum, Capped
  <2>5. roster \in Rosters /\ units \in Table
    BY DEF TypeOK, Table
  <2>6. units[u].hp \in Nat /\ us[u].hp \in Nat /\ roster.maxHp[u] \in Nat
    BY <2>1, <2>3, <2>5, RosterFacts DEF Table, UnitState
  <2> QED
    BY <2>2, <2>4, <2>6 DEF Greater
<1>2. CASE UNCHANGED vars
  BY <1>2 DEF WithinMaximum, SoundRoster, vars, Members
<1> QED
  BY <1>1, <1>2

(* No attack the rules accept, and so none they offer, fails in an effect  *)
(* when the stacks were bootstrapped at or below their maximum HP.         *)
THEOREM AcceptedAttacksDoNotThrow == Spec => []AcceptedAttacksSucceed
<1>1. TypeOK /\ ValidState /\ WithinMaximum => AcceptedAttacksSucceed
  <2> SUFFICES ASSUME TypeOK, ValidState, WithinMaximum, InProgress, SoundRoster,
                      NEW t \in AttackTarget, AttackVerdict(CurrentActor, t) = "None"
               PROVE  ~Throws(CurrentActor, t)
    BY DEF AcceptedAttacksSucceed
  <2>1. roster \in Rosters
    BY DEF TypeOK
  <2>2. CurrentActor \in Members /\ units[CurrentActor].alive
    BY <2>1, AcceptedTargets DEF ValidState, TurnIsPlayable
  <2> QED
    BY <2>2, SoundAttacks
<1> QED
  BY InitInv, StepKeepsInv, InitWithinMaximum, StepWithinMaximum, <1>1, PTL DEF Spec

-----------------------------------------------------------------------------
(* What an attack on the enemy, and one on the own side, may do to lives   *)
(* and frozen units.  Everybody owes one skip at most.                     *)
Harmed(u, old, new) ==
  \A v \in Members :
    /\ v[1] = u[1] => new[v].alive = old[v].alive /\ new[v].skips = old[v].skips
    /\ new[v].alive => old[v].alive /\ (old[v].skips > 0 => new[v].skips > 0)

Helped(u, old, new) ==
  \A v \in Members :
    /\ v[1] # u[1] => new[v].alive = old[v].alive /\ new[v].skips = old[v].skips
    /\ old[v].alive => new[v].alive
    /\ new[v].skips > 0 => old[v].skips > 0

OwesOneAtMost(us) == \A v \in Members : us[v].skips \in {0, 1}

LEMMA HarmAddsUp ==
  ASSUME NEW us, NEW mid, NEW new, NEW u, Harmed(u, us, mid), Harmed(u, mid, new)
  PROVE  Harmed(u, us, new)
BY DEF Harmed

LEMMA HelpAddsUp ==
  ASSUME NEW us, NEW mid, NEW new, NEW u, Helped(u, us, mid), Helped(u, mid, new)
  PROVE  Helped(u, us, new)
BY DEF Helped

(* Healing leaves lives and skips alone.                                   *)
LEMMA HealedKeepsLives ==
  ASSUME NEW us \in Table, NEW H, NEW amount
  PROVE  \A v \in Members : /\ Healed(us, H, amount)[v].alive = us[v].alive
                            /\ Healed(us, H, amount)[v].skips = us[v].skips
<1> SUFFICES ASSUME NEW v \in Members
             PROVE  /\ Healed(us, H, amount)[v].alive = us[v].alive
                    /\ Healed(us, H, amount)[v].skips = us[v].skips
  OBVIOUS
<1> DEFINE gain == us[v].hp + Lesser(amount, Missing(us, v))
<1>1. DOMAIN us = Members /\ us[v] \in UnitState
  BY DEF Table
<1>2. Healed(us, H, amount)[v] = IF v \in H THEN [us[v] EXCEPT !.hp = gain] ELSE us[v]
  BY <1>1 DEF Healed
<1> HIDE DEF gain
<1> QED
  BY <1>1, <1>2 DEF UnitState

LEMMA DamageHarms ==
  ASSUME roster \in Rosters, NEW us \in Table, Clean(us), OwesOneAtMost(us), NEW u \in Members,
         NEW T \in SUBSET Members, \A t \in T : t[1] = Opposite(u[1]), NEW damage \in Nat
  PROVE  Harmed(u, us, DamageAll(us, T, damage)) /\ OwesOneAtMost(DamageAll(us, T, damage))
<1> DEFINE new == DamageAll(us, T, damage)
<1>1. u[1] \in Side /\ u[1] # Opposite(u[1])
  BY UnitsArePairs DEF Side, Opposite
<1>2. ASSUME NEW v \in Members \ T PROVE new[v] = us[v]
  BY DamageAllEffect, Zenon
<1>3. ASSUME NEW v \in T
      PROVE  /\ new[v].alive => us[v].alive /\ new[v].skips = us[v].skips
             /\ new[v].skips \in {0, us[v].skips}
  <2> DEFINE left == Greater(0, us[v].hp - damage)
             skips == IF us[v].alive /\ left = 0 THEN 0 ELSE us[v].skips
             living == left > 0
  <2>1. v \in Members /\ v \in DOMAIN us /\ us[v] \in UnitState
    BY DEF Table
  <2>2. us[v].alive <=> us[v].hp > 0
    BY <2>1 DEF Clean
  <2>3. new[v] = [hp |-> left, alive |-> living, skips |-> skips]
    BY <2>1, Zenon DEF DamageAll, Damaged
  <2>4. living => us[v].hp > 0 /\ left # 0
    BY <2>1 DEF UnitState, Greater
  <2>5. new[v].alive = living /\ new[v].skips = skips
    <3> HIDE DEF left, skips, living, new
    <3> QED
      BY <2>3
  <2> HIDE DEF left, living, new
  <2> QED
    BY <2>2, <2>4, <2>5
<1> HIDE DEF new
<1>4. Harmed(u, us, new)
  BY <1>1, <1>2, <1>3 DEF Harmed
<1>5. OwesOneAtMost(new)
  BY <1>2, <1>3 DEF OwesOneAtMost
<1> QED
  BY <1>4, <1>5 DEF new

SameLives(old, new) ==
  \A v \in Members : new[v].alive = old[v].alive /\ new[v].skips = old[v].skips

(* A drain takes from the enemy, and gives nothing but HP.                 *)
LEMMA DrainHarms ==
  ASSUME roster \in Rosters, NEW us \in Table, Clean(us), OwesOneAtMost(us), NEW u \in Members,
         NEW T \in SUBSET Members, \A t \in T : t[1] = Opposite(u[1]), NEW damage \in Nat
  PROVE  Harmed(u, us, Drained(us, u, T, damage)) /\ OwesOneAtMost(Drained(us, u, T, damage))
<1> DEFINE hit == DamageAll(us, T, damage)
           budget == DamageDealt(us, Opposite(u[1]), T, damage) \div 2
           new == Healed(hit, {u}, budget)
<1>1. hit \in Table
  BY DamageAllEffect, Zenon
<1>2. Harmed(u, us, hit) /\ OwesOneAtMost(hit)
  BY DamageHarms, Zenon
<1>3. SameLives(hit, new)
  <2> HIDE DEF hit, budget
  <2> QED
    BY <1>1, HealedKeepsLives DEF SameLives
<1>4. Drained(us, u, T, damage) = new
  BY DEF Drained
<1> HIDE DEF hit, budget, new
<1> QED
  BY <1>2, <1>3, <1>4 DEF Harmed, SameLives, OwesOneAtMost

LEMMA DrainOverflowHarms ==
  ASSUME roster \in Rosters, NEW us \in Table, Clean(us), OwesOneAtMost(us), NEW u \in Members,
         NEW T \in SUBSET Members, \A t \in T : t[1] = Opposite(u[1]), NEW damage \in Nat
  PROVE  /\ Harmed(u, us, DrainedOverflow(us, u, T, damage))
         /\ OwesOneAtMost(DrainedOverflow(us, u, T, damage))
<1> DEFINE hit == DamageAll(us, T, damage)
           budget == DamageDealt(us, Opposite(u[1]), T, damage) \div 2
           rest == budget - Lesser(budget, Missing(hit, u))
           ally(k) == <<u[1], k>> \in AliveOf(hit, u[1]) \ {u}
           need == [k \in Slot |-> IF ally(k) THEN Missing(hit, <<u[1], k>>) ELSE 0]
           share(k) == Lesser(need[k], Greater(0, rest - NeedBefore(need, k)))
           fed == Healed(hit, {u}, budget)
           new == DrainedOverflow(us, u, T, damage)
<1>1. u[1] \in Side /\ Opposite(u[1]) \in Side /\ {u} \in SUBSET Members
  BY UnitsArePairs DEF Side, Opposite
<1>2. hit \in Table /\ Clean(hit)
  BY DamageAllEffect, Zenon
<1>3. Harmed(u, us, hit) /\ OwesOneAtMost(hit)
  BY DamageHarms, Zenon
<1>4. SameLives(hit, fed)
  <2> HIDE DEF hit, budget
  <2> QED
    BY <1>2, HealedKeepsLives DEF SameLives
<1>5. \A v \in Members : fed[v] = IF v \in {u} THEN [hit[v] EXCEPT !.hp = @ + Lesser(budget, Missing(hit, v))]
                                  ELSE hit[v]
  <2>1. DOMAIN hit = Members
    BY <1>2 DEF Table
  <2> HIDE DEF hit, budget
  <2> QED
    BY <2>1, Zenon DEF Healed
<1>6. DOMAIN us = Members
  BY DEF Table
<1>7. new = [v \in Members |->
         IF v[1] = u[1] /\ ally(v[2]) THEN [fed[v] EXCEPT !.hp = @ + share(v[2])] ELSE fed[v]]
  BY <1>6, Zenon DEF DrainedOverflow
<1>8. ASSUME NEW v \in Members PROVE new[v].alive = hit[v].alive /\ new[v].skips = hit[v].skips
  <2> DEFINE gain == fed[v].hp + share(v[2])
             lent == hit[v].hp + Lesser(budget, Missing(hit, v))
  <2>1. hit[v] \in UnitState
    BY <1>2 DEF Table
  <2>2. new[v] = IF v[1] = u[1] /\ ally(v[2]) THEN [fed[v] EXCEPT !.hp = gain] ELSE fed[v]
    BY <1>7, Zenon
  <2>3. fed[v] = [hit[v] EXCEPT !.hp = lent] \/ fed[v] = hit[v]
    BY <1>5
  <2> HIDE DEF gain, lent, hit, fed, new
  <2>4. "alive" \in DOMAIN fed[v] /\ "skips" \in DOMAIN fed[v]
    BY <2>1, <2>3 DEF UnitState
  <2>5. fed[v].alive = hit[v].alive /\ fed[v].skips = hit[v].skips
    BY <1>4 DEF SameLives
  <2> QED
    BY <2>2, <2>4, <2>5
<1> HIDE DEF hit, new
<1>9. Harmed(u, us, new) /\ OwesOneAtMost(new)
  BY <1>3, <1>8 DEF Harmed, OwesOneAtMost
<1> QED
  BY <1>9 DEF new

(* Petrification freezes living targets for one activation, and a cure     *)
(* thaws them.                                                             *)
LEMMA SkipsSet ==
  ASSUME NEW us \in Table, NEW T, NEW n \in Nat
  PROVE  \A v \in Members :
           /\ WithSkips(us, T, n)[v].alive = us[v].alive
           /\ WithSkips(us, T, n)[v].skips = IF v \in T THEN n ELSE us[v].skips
<1>1. DOMAIN us = Members /\ \A v \in Members : us[v] \in UnitState
  BY DEF Table
<1>2. \A x \in UnitState : LET y == [x EXCEPT !.skips = n]
                           IN  y.alive = x.alive /\ y.skips = n
  BY DEF UnitState
<1> QED
  BY <1>1, <1>2 DEF WithSkips

LEMMA PetrifyHarms ==
  ASSUME roster \in Rosters, NEW us \in Table, OwesOneAtMost(us), NEW u \in Members,
         NEW T \in SUBSET Members, \A t \in T : t[1] = Opposite(u[1])
  PROVE  Harmed(u, us, Petrified(us, T)) /\ OwesOneAtMost(Petrified(us, T))
<1> DEFINE new == WithSkips(us, T, 1)
<1>1. u[1] # Opposite(u[1])
  BY UnitsArePairs DEF Side, Opposite
<1>2. \A v \in Members : new[v].alive = us[v].alive /\ new[v].skips = IF v \in T THEN 1 ELSE us[v].skips
  <2>1. 1 \in Nat
    OBVIOUS
  <2> QED
    BY <2>1, SkipsSet
<1>3. Petrified(us, T) = new
  BY DEF Petrified, PetrifySkips, WithSkips
<1> HIDE DEF new
<1>4. Harmed(u, us, new)
  BY <1>1, <1>2 DEF Harmed
<1>5. OwesOneAtMost(new)
  BY <1>2 DEF OwesOneAtMost
<1> QED
  BY <1>3, <1>4, <1>5

LEMMA CureHelps ==
  ASSUME roster \in Rosters, NEW us \in Table, OwesOneAtMost(us), NEW u \in Members,
         NEW T \in SUBSET Members, \A t \in T : t[1] = u[1]
  PROVE  Helped(u, us, Cured(us, T)) /\ OwesOneAtMost(Cured(us, T))
<1> DEFINE new == WithSkips(us, T, 0)
<1>1. \A v \in Members : new[v].alive = us[v].alive /\ new[v].skips = IF v \in T THEN 0 ELSE us[v].skips
  <2>1. 0 \in Nat
    OBVIOUS
  <2> QED
    BY <2>1, SkipsSet
<1>2. Cured(us, T) = new
  BY DEF Cured, WithSkips
<1> HIDE DEF new
<1>3. Helped(u, us, new)
  BY <1>1 DEF Helped
<1>4. OwesOneAtMost(new)
  BY <1>1 DEF OwesOneAtMost
<1> QED
  BY <1>2, <1>3, <1>4

LEMMA RevivalHelps ==
  ASSUME roster \in Rosters, NEW us \in Table, OwesOneAtMost(us), NEW u \in Members,
         NEW T \in SUBSET Members, \A t \in T : t[1] = u[1], NEW amount
  PROVE  Helped(u, us, Revived(us, T, amount)) /\ OwesOneAtMost(Revived(us, T, amount))
<1> DEFINE new == Revived(us, T, amount)
<1>1. ASSUME NEW v \in Members
      PROVE  /\ v \notin T => new[v] = us[v]
             /\ v \in T => new[v].alive = TRUE /\ new[v].skips = us[v].skips
  <2> DEFINE hp == Lesser(amount, roster.maxHp[v])
  <2>1. DOMAIN us = Members /\ us[v] \in UnitState
    BY DEF Table
  <2>2. new[v] = IF v \in T THEN [us[v] EXCEPT !.hp = hp, !.alive = TRUE] ELSE us[v]
    BY <2>1 DEF Revived
  <2> HIDE DEF hp, new
  <2> QED
    BY <2>1, <2>2 DEF UnitState
<1> HIDE DEF new
<1>2. Helped(u, us, new)
  BY <1>1 DEF Helped
<1>3. OwesOneAtMost(new)
  BY <1>1 DEF OwesOneAtMost
<1> QED
  BY <1>2, <1>3 DEF new

LEMMA HealHelps ==
  ASSUME NEW us \in Table, OwesOneAtMost(us), NEW u, NEW T, NEW amount
  PROVE  Helped(u, us, Healed(us, T, amount)) /\ OwesOneAtMost(Healed(us, T, amount))
<1> DEFINE new == Healed(us, T, amount)
<1>1. \A v \in Members : new[v].alive = us[v].alive /\ new[v].skips = us[v].skips
  BY HealedKeepsLives
<1> HIDE DEF new
<1>2. Helped(u, us, new) /\ OwesOneAtMost(new)
  BY <1>1 DEF Helped, OwesOneAtMost
<1> QED
  BY <1>2 DEF new
(* Every effect on the enemy harms, every effect on the own side helps.    *)
LEMMA EffectHarms ==
  ASSUME roster \in Rosters, NEW us \in Table, Clean(us), OwesOneAtMost(us), NEW u \in Members,
         NEW attack \in Attack, attack.class \in EnemyClass,
         NEW T \in SUBSET Members, \A t \in T : t[1] = Opposite(u[1])
  PROVE  Harmed(u, us, Effect(us, u, attack, T)) /\ OwesOneAtMost(Effect(us, u, attack, T))
<1>1. attack.damage \in Nat
  BY DEF Attack
<1>2. CASE attack.class = "Damage"
  <2>1. Effect(us, u, attack, T) = DamageAll(us, T, attack.damage)
    BY <1>2 DEF Effect
  <2> QED
    BY <1>1, <2>1, DamageHarms
<1>3. CASE attack.class = "Drain"
  <2>1. Effect(us, u, attack, T) = Drained(us, u, T, attack.damage)
    BY <1>3 DEF Effect
  <2> QED
    BY <1>1, <2>1, DrainHarms
<1>4. CASE attack.class = "DrainOverflow"
  <2>1. Effect(us, u, attack, T) = DrainedOverflow(us, u, T, attack.damage)
    BY <1>4 DEF Effect
  <2> QED
    BY <1>1, <2>1, DrainOverflowHarms
<1>5. CASE attack.class = "Petrify"
  <2>1. Effect(us, u, attack, T) = Petrified(us, T)
    BY <1>5 DEF Effect
  <2> QED
    BY <2>1, PetrifyHarms
<1> QED
  BY <1>2, <1>3, <1>4, <1>5 DEF EnemyClass

LEMMA EffectHelps ==
  ASSUME roster \in Rosters, NEW us \in Table, OwesOneAtMost(us), NEW u \in Members,
         NEW attack \in Attack, attack.class \in AllyClass,
         NEW T \in SUBSET Members, \A t \in T : t[1] = u[1]
  PROVE  Helped(u, us, Effect(us, u, attack, T)) /\ OwesOneAtMost(Effect(us, u, attack, T))
<1>1. CASE attack.class = "Heal"
  <2>1. Effect(us, u, attack, T) = Healed(us, T, attack.heal)
    BY <1>1 DEF Effect
  <2> QED
    BY <2>1, HealHelps
<1>2. CASE attack.class = "Cure"
  <2>1. Effect(us, u, attack, T) = Cured(us, T)
    BY <1>2 DEF Effect
  <2> QED
    BY <2>1, CureHelps
<1>3. CASE attack.class = "Revive"
  <2>1. Effect(us, u, attack, T) = Revived(us, T, attack.heal)
    BY <1>3 DEF Effect
  <2> QED
    BY <2>1, RevivalHelps
<1> QED
  BY <1>1, <1>2, <1>3 DEF AllyClass

LEMMA ComponentHarmsOrHelps ==
  ASSUME roster \in Rosters, NEW us \in Table, Clean(us), OwesOneAtMost(us), NEW u \in Members,
         NEW attack \in Attack, NEW target, AttackVerdict(u, target) = "None",
         attack.class \in SupportedClass, (attack.class \in EnemyClass) = AimsAtEnemy(u)
  PROVE  LET new == Component(us, u, target, attack)
         IN  /\ OwesOneAtMost(new)
             /\ AimsAtEnemy(u) => Harmed(u, us, new)
             /\ ~AimsAtEnemy(u) => Helped(u, us, new)
<1> DEFINE T == ComponentTargets(us, u, target, attack)
<1>1. \A t \in T : t \in Members /\ t[1] = TargetSide(u)
  BY AcceptedTargets
<1>2. CASE T = {}
  <2>1. Component(us, u, target, attack) = us
    BY <1>2 DEF Component
  <2> QED
    BY <2>1 DEF Harmed, Helped
<1>3. CASE T # {}
  <2>1. Component(us, u, target, attack) = Effect(us, u, attack, T)
    BY <1>3 DEF Component
  <2>2. T \in SUBSET Members
    BY <1>1
  <2> HIDE DEF T
  <2>3. CASE AimsAtEnemy(u)
    <3>1. \A t \in T : t[1] = Opposite(u[1])
      BY <1>1, <2>3 DEF TargetSide
    <3>2. attack.class \in EnemyClass
      BY <2>3
    <3> QED
      BY <2>1, <2>2, <2>3, <3>1, <3>2, EffectHarms
  <2>4. CASE ~AimsAtEnemy(u)
    <3>1. \A t \in T : t[1] = u[1]
      BY <1>1, <2>4 DEF TargetSide
    <3>2. attack.class \in AllyClass
      BY <2>4 DEF SupportedClass
    <3> QED
      BY <2>1, <2>2, <2>4, <3>1, <3>2, EffectHelps
  <2> QED
    BY <2>3, <2>4
<1> QED
  BY <1>2, <1>3

LEMMA AttackHarmsOrHelps ==
  ASSUME roster \in Rosters, units \in Table, Clean(units), OwesOneAtMost(units),
         NEW u \in Members, units[u].alive,
         NEW target, AttackVerdict(u, target) = "None", ~Throws(u, target)
  PROVE  LET new == AfterAttack(u, target)
         IN  /\ OwesOneAtMost(new)
             /\ Harmed(u, units, new) \/ Helped(u, units, new)
<1> DEFINE first == roster.primary[u]
           second == roster.secondary[u]
           mid == AfterPrimary(u, target)
<1>1. first \in Attack /\ second \in Attack
  BY RosterFacts
<1>2. first.class \in SupportedClass /\ (first.class \in EnemyClass) = AimsAtEnemy(u)
  BY AcceptedTargets DEF BundleSupported, ComponentSupported, AimsAtEnemy
<1>3. HasSecondary(u) => /\ second.class \in SupportedClass
                         /\ (second.class \in EnemyClass) = AimsAtEnemy(u)
  BY AcceptedTargets DEF BundleSupported, ComponentSupported, AimsAtEnemy
<1>4. mid = Component(units, u, target, first)
  BY DEF AfterPrimary
<1>5. mid \in Table /\ Clean(mid)
  <2>1. ~EffectThrows(units, u, first, ComponentTargets(units, u, target, first))
    BY DEF Throws
  <2> HIDE DEF first, mid
  <2> QED
    BY <1>1, <1>2, <1>4, <2>1, ComponentKeepsTables
<1>6. /\ OwesOneAtMost(mid)
      /\ AimsAtEnemy(u) => Harmed(u, units, mid)
      /\ ~AimsAtEnemy(u) => Helped(u, units, mid)
  <2> HIDE DEF first, mid
  <2> QED
    BY <1>1, <1>2, <1>4, ComponentHarmsOrHelps
<1>7. CASE HasSecondary(u)
  <2> DEFINE new == Component(mid, u, target, second)
  <2>1. AfterAttack(u, target) = new
    BY <1>7 DEF AfterAttack
  <2> HIDE DEF second, mid
  <2>2. /\ OwesOneAtMost(new)
        /\ AimsAtEnemy(u) => Harmed(u, mid, new)
        /\ ~AimsAtEnemy(u) => Helped(u, mid, new)
    BY <1>1, <1>3, <1>5, <1>6, <1>7, ComponentHarmsOrHelps
  <2> HIDE DEF new
  <2> QED
    BY <1>6, <2>1, <2>2, HarmAddsUp, HelpAddsUp
<1>8. CASE ~HasSecondary(u)
  <2>1. AfterAttack(u, target) = mid
    BY <1>8 DEF AfterAttack
  <2> HIDE DEF mid
  <2> QED
    BY <1>6, <2>1
<1> QED
  BY <1>7, <1>8
-----------------------------------------------------------------------------
(* The units still to come, as the contract reads them off the turn order. *)
Pending == {turnOrder[i] : i \in {j \in DOMAIN turnOrder : j > turn}}

OrderIsKept ==
  InProgress => \A i, j \in DOMAIN turnOrder : i < j => ActsBefore(turnOrder[i], turnOrder[j])

DuelInv == TypeOK /\ ValidState /\ OwesOneAtMost(units) /\ OrderIsKept

(* A round begins with the first of the living; the others are pending.    *)
LEMMA RoundBegins ==
  ASSUME roster \in Rosters, NEW us \in Table, Alive(us) # {}
  PROVE  LET order == BuildTurnOrder(Alive(us))
         IN  /\ 1 \in DOMAIN order /\ order[1] \in Alive(us)
             /\ \A v \in Alive(us) \ {order[1]} : ActsBefore(order[1], v)
             /\ {order[i] : i \in {j \in DOMAIN order : j > 1}} = Alive(us) \ {order[1]}
             /\ \A i, j \in DOMAIN order : i < j => ActsBefore(order[i], order[j])
<1> DEFINE L == Alive(us)
           order == BuildTurnOrder(L)
<1>1. L \in SUBSET Members
  BY DEF Alive
<1>2. /\ order \in Seq(Members) /\ 1 \in DOMAIN order
      /\ \A i \in DOMAIN order : order[i] \in L
      /\ \A i, j \in DOMAIN order : order[i] = order[j] => i = j
  BY FirstOfRound, Zenon
<1>3. /\ \A i, j \in DOMAIN order : i < j => ActsBefore(order[i], order[j])
      /\ L = {order[i] : i \in DOMAIN order}
  BY <1>1, TurnOrderIsSorted, Zenon
<1> HIDE DEF order, L
<1>4. DOMAIN order \in SUBSET (Nat \ {0})
  BY <1>2
<1>5. \A i \in DOMAIN order : i = 1 \/ i > 1
  BY <1>4
<1>6. \A v \in L \ {order[1]} : ActsBefore(order[1], v)
  BY <1>2, <1>3, <1>5
<1>7. {order[i] : i \in {j \in DOMAIN order : j > 1}} = L \ {order[1]}
  <2>1. \A i \in DOMAIN order : i > 1 => order[i] \in L /\ order[i] # order[1]
    BY <1>2, <1>4
  <2>2. ASSUME NEW v \in L \ {order[1]} PROVE \E i \in DOMAIN order : i > 1 /\ v = order[i]
    BY <1>3, <1>5
  <2> QED
    BY <2>1, <2>2
<1> QED
  BY <1>2, <1>3, <1>6, <1>7 DEF order, L

(* Within a round the turn passes to the first of those pending and alive, *)
(* and those he acts before stay pending.                                  *)
LEMMA RoundGoesOn ==
  ASSUME TypeOK, OrderIsKept, InProgress, NEW us \in Table
  PROVE  /\ Pending \cap Alive(us) = {turnOrder[i] : i \in StillDue(us)}
         /\ StillDue(us) # {} =>
              LET n == CHOOSE i \in StillDue(us) : \A j \in StillDue(us) : i <= j
              IN  /\ n \in DOMAIN turnOrder
                  /\ turnOrder[n] \in Pending \cap Alive(us)
                  /\ \A v \in (Pending \cap Alive(us)) \ {turnOrder[n]} : ActsBefore(turnOrder[n], v)
                  /\ {turnOrder[i] : i \in {j \in DOMAIN turnOrder : j > n}}
                       = {v \in Pending : ActsBefore(turnOrder[n], v)}
<1>1. roster \in Rosters /\ turnOrder \in Seq(Members) /\ turn \in Nat
  BY DEF TypeOK
<1>2. /\ DOMAIN turnOrder = 1..Len(turnOrder) /\ DOMAIN turnOrder \in SUBSET Nat
      /\ \A i \in DOMAIN turnOrder : turnOrder[i] \in Members
  BY <1>1
<1>3. \A i, j \in DOMAIN turnOrder : i < j => ActsBefore(turnOrder[i], turnOrder[j])
  BY DEF OrderIsKept
<1>4. StillDue(us) = {i \in DOMAIN turnOrder : i > turn /\ us[turnOrder[i]].alive}
  BY <1>2 DEF StillDue
<1>5. Pending \cap Alive(us) = {turnOrder[i] : i \in StillDue(us)}
  BY <1>2, <1>4 DEF Pending, Alive
<1>6. ASSUME StillDue(us) # {}, NEW n, n = CHOOSE i \in StillDue(us) : \A j \in StillDue(us) : i <= j
      PROVE  /\ n \in DOMAIN turnOrder
             /\ turnOrder[n] \in Pending \cap Alive(us)
             /\ \A v \in (Pending \cap Alive(us)) \ {turnOrder[n]} : ActsBefore(turnOrder[n], v)
             /\ {turnOrder[i] : i \in {j \in DOMAIN turnOrder : j > n}}
                  = {v \in Pending : ActsBefore(turnOrder[n], v)}
  <2>1. n \in StillDue(us) /\ \A j \in StillDue(us) : n <= j
    <3>1. StillDue(us) \in SUBSET Nat
      BY <1>2, <1>4
    <3>2. \E i \in StillDue(us) : \A j \in StillDue(us) : i <= j
      BY <1>6, <3>1, LeastExists
    <3> QED
      BY <1>6, <3>2, Zenon
  <2>2. n \in DOMAIN turnOrder /\ n > turn /\ n \in Nat
    BY <1>2, <1>4, <2>1
  <2>3. turnOrder[n] \in Pending \cap Alive(us)
    BY <1>5, <2>1
  <2>4. ASSUME NEW v \in (Pending \cap Alive(us)) \ {turnOrder[n]} PROVE ActsBefore(turnOrder[n], v)
    <3>1. PICK i \in StillDue(us) : v = turnOrder[i]
      BY <1>5, <2>4
    <3>2. i # n /\ n <= i /\ i \in DOMAIN turnOrder /\ i \in Nat
      BY <1>2, <1>4, <2>1, <2>4, <3>1
    <3>3. n < i
      BY <2>2, <3>2
    <3> QED
      BY <1>3, <2>2, <3>1, <3>2, <3>3
  <2>5. ASSUME NEW i \in DOMAIN turnOrder, i > n
        PROVE  turnOrder[i] \in Pending /\ ActsBefore(turnOrder[n], turnOrder[i])
    <3>1. i > turn
      BY <1>1, <1>2, <2>2, <2>5
    <3> QED
      BY <1>3, <2>2, <2>5, <3>1 DEF Pending
  <2>6. ASSUME NEW v \in Pending, ActsBefore(turnOrder[n], v)
        PROVE  \E i \in DOMAIN turnOrder : i > n /\ v = turnOrder[i]
    <3>1. PICK i \in DOMAIN turnOrder : v = turnOrder[i]
      BY <2>6 DEF Pending
    <3>2. ~(i = n)
      BY <1>1, <1>2, <2>2, <2>6, <3>1, ActsBeforeIsTotal
    <3>3. ~(i < n)
      <4> SUFFICES ASSUME i < n PROVE FALSE
        OBVIOUS
      <4>1. ActsBefore(turnOrder[i], turnOrder[n])
        BY <1>3, <2>2, <3>1
      <4>2. turnOrder[i] \in Members /\ turnOrder[n] \in Members
        BY <1>2, <2>2
      <4> QED
        BY <1>1, <2>6, <3>1, <4>1, <4>2, ActsBeforeIsTotal
    <3>4. i > n
      BY <1>2, <2>2, <3>2, <3>3
    <3> QED
      BY <3>1, <3>4
  <2> QED
    BY <2>2, <2>3, <2>4, <2>5, <2>6
<1> QED
  BY <1>5, <1>6

(* What a step does to the units, seen from who acts.                      *)
LEMMA StepHarmsOrHelps ==
  ASSUME TypeOK, ValidState, OwesOneAtMost(units), Next
  PROVE  /\ InProgress
         /\ \E us : /\ us \in Table /\ Clean(us) /\ OwesOneAtMost(us) /\ Settle(us)
                    /\ \/ /\ units[CurrentActor].skips > 0
                          /\ \A v \in Members :
                               /\ us[v].alive = units[v].alive
                               /\ us[v].skips = IF v = CurrentActor THEN 0 ELSE units[v].skips
                       \/ /\ ~(units[CurrentActor].skips > 0)
                          /\ Harmed(CurrentActor, units, us) \/ Helped(CurrentActor, units, us)
<1>1. roster \in Rosters /\ units \in Table /\ Clean(units)
  BY DEF TypeOK, Table, ValidState, DeadAreClean, Clean
<1>2. CASE AttackStep
  <2>1. PICK u \in Members, target \in AttackTarget : DoAttack(u, target)
    BY <1>2 DEF AttackStep
  <2> DEFINE us == AfterAttack(u, target)
  <2>2. AttackVerdict(u, target) = "None" /\ ~Throws(u, target) /\ Settle(us)
    BY <2>1 DEF DoAttack
  <2>3. InProgress /\ u = CurrentActor
    BY <1>1, <2>2, AcceptedTargets DEF InProgress
  <2>4. units[u].alive
    BY <2>3 DEF ValidState, TurnIsPlayable
  <2>5. ~(units[u].skips > 0)
    BY <2>2, Zenon DEF AttackVerdict
  <2>6. us \in Table /\ Clean(us)
    BY <1>1, <2>2, <2>4, AttackKeepsTables, Zenon
  <2>7. OwesOneAtMost(us) /\ (Harmed(u, units, us) \/ Helped(u, units, us))
    BY <1>1, <2>2, <2>4, AttackHarmsOrHelps, Zenon
  <2> HIDE DEF us
  <2> QED
    BY <2>2, <2>3, <2>5, <2>6, <2>7
<1>3. CASE SkipStep
  <2>1. PICK u \in Members : DoSkip(u)
    BY <1>3 DEF SkipStep
  <2> DEFINE us == [units EXCEPT ![u].skips = @ - 1]
  <2>2. SkipVerdict(u) = "None" /\ Settle(us)
    BY <2>1 DEF DoSkip
  <2>3. InProgress /\ us \in Table /\ Clean(us)
    BY <2>2, SkipKeepsTables, Zenon
  <2>4. u = CurrentActor /\ units[u].skips # 0
    BY <2>2, Zenon DEF SkipVerdict
  <2>5. units[u].skips = 1
    BY <2>4 DEF OwesOneAtMost
  <2>6. \A v \in Members : units[v] \in UnitState
    BY <1>1 DEF Table
  <2>7. \A v \in Members : /\ us[v].alive = units[v].alive
                           /\ us[v].skips = IF v = u THEN 0 ELSE units[v].skips
    BY <1>1, <2>5, <2>6 DEF Table, UnitState
  <2> HIDE DEF us
  <2>8. OwesOneAtMost(us)
    BY <2>7 DEF OwesOneAtMost
  <2>9. units[CurrentActor].skips > 0
    BY <2>4, <2>5
  <2> QED
    BY <2>2, <2>3, <2>4, <2>7, <2>8, <2>9
<1> QED
  BY <1>2, <1>3 DEF Next
-----------------------------------------------------------------------------
(* A battle that begins is one the contract begins with.                   *)
LEMMA BeforeIsActsBefore ==
  \A u, v \in Members : <<u, v>> \in {p \in Members \X Members : ActsBefore(p[1], p[2])} <=> ActsBefore(u, v)
OBVIOUS

LEMMA InitDuelInv == Init => DuelInv /\ Contract!Init
<1> SUFFICES ASSUME Init PROVE DuelInv /\ Contract!Init
  OBVIOUS
<1>1. TypeOK /\ ValidState /\ roster \in Rosters /\ units \in Table
  BY InitInv DEF TypeOK, Table
<1>2. \A u \in Members : units[u].skips = 0
  <2>1. units = [u \in Members |->
                  [hp |-> roster.startHp[u], alive |-> roster.startHp[u] > 0, skips |-> 0]]
    BY Zenon DEF Init, Bootstrapped, Members
  <2> QED
    BY <2>1
<1>3. OwesOneAtMost(units)
  BY <1>2 DEF OwesOneAtMost
<1>4. Alive(units) \in SUBSET Members /\ {u \in Members : units[u].skips > 0} = {}
  BY <1>2 DEF Alive
<1>5. \A s \in Side : AliveOf(units, s) = {u \in Alive(units) : u[1] = s}
  BY DEF AliveOf
<1>6. status = StatusOf(units) /\ winner = WinnerOf(units)
  BY DEF Init
<1>7. CASE status = "InProgress"
  <2>1. round = 1 /\ turnOrder = BuildTurnOrder(Alive(units)) /\ turn = 1
    BY <1>7 DEF Init
  <2>2. winner = 0 /\ \A s \in Side : AliveOf(units, s) # {}
    BY <1>6, <1>7, OutcomeRight DEF NoSide
  <2>3. Alive(units) # {}
    BY <2>2 DEF AliveOf, Side
  <2>4. /\ 1 \in DOMAIN turnOrder /\ turnOrder[1] \in Alive(units)
        /\ \A v \in Alive(units) \ {turnOrder[1]} : ActsBefore(turnOrder[1], v)
        /\ {turnOrder[i] : i \in {j \in DOMAIN turnOrder : j > 1}} = Alive(units) \ {turnOrder[1]}
        /\ \A i, j \in DOMAIN turnOrder : i < j => ActsBefore(turnOrder[i], turnOrder[j])
    BY <1>1, <2>1, <2>3, RoundBegins, Zenon
  <2>5. OrderIsKept
    BY <2>4 DEF OrderIsKept
  <2>6. ~Contract!Over
    BY <1>5, <2>2 DEF Contract!Over, Contract!Survivors, Side
  <2>7. Contract!Init
    <3>1. CurrentActor = turnOrder[1] /\ (IF turn \in DOMAIN turnOrder THEN CurrentActor ELSE NoUnit) = turnOrder[1]
      BY <2>1, <2>4 DEF CurrentActor
    <3>2. Contract!IsFirst(turnOrder[1], Alive(units))
      BY <1>4, <2>4, BeforeIsActsBefore DEF Contract!IsFirst
    <3> QED
      BY <1>4, <2>1, <2>2, <2>4, <2>6, <3>1, <3>2 DEF Contract!Init
  <2> QED
    BY <1>1, <1>3, <2>5, <2>7 DEF DuelInv
<1>8. CASE status # "InProgress"
  <2>1. round = 0 /\ turnOrder = <<>> /\ turn = 1
    BY <1>8 DEF Init
  <2>2. Contract!Over
    BY <1>5, <1>6, <1>8 DEF Contract!Over, Contract!Survivors, StatusOf, Side
  <2>3. winner = IF Contract!Survivors(1) # {} THEN 1 ELSE IF Contract!Survivors(2) # {} THEN 2 ELSE 0
    BY <1>5, <1>6, <1>8 DEF Contract!Survivors, WinnerOf, StatusOf, Side, NoSide
  <2>4. ~(turn \in DOMAIN turnOrder) /\ DOMAIN turnOrder = {}
    BY <2>1
  <2>5. Contract!Init
    BY <1>4, <2>1, <2>2, <2>3, <2>4 DEF Contract!Init
  <2>6. OrderIsKept
    BY <1>8 DEF OrderIsKept, InProgress
  <2> QED
    BY <1>1, <1>3, <2>5, <2>6 DEF DuelInv
<1> QED
  BY <1>7, <1>8

(* A step turns the table of units as one of the three activations does.   *)
LEMMA StepActivates ==
  ASSUME DuelInv, InProgress, NEW us, us \in Table, Clean(us), units' = us, Members' = Members,
         \/ /\ units[CurrentActor].skips > 0
            /\ \A v \in Members : /\ us[v].alive = units[v].alive
                                  /\ us[v].skips = IF v = CurrentActor THEN 0 ELSE units[v].skips
         \/ /\ ~(units[CurrentActor].skips > 0)
            /\ Harmed(CurrentActor, units, us) \/ Helped(CurrentActor, units, us)
  PROVE  Contract!Forfeit \/ Contract!Strike \/ Contract!Aid
<1> DEFINE actor == CurrentActor
<1>1. /\ units \in Table /\ roster \in Rosters /\ turn \in DOMAIN turnOrder
      /\ actor \in Members /\ turnOrder \in Seq(Members)
  BY DEF DuelInv, TypeOK, Table, ValidState, TurnIsPlayable, CurrentActor
<1>2. (IF turn \in DOMAIN turnOrder THEN CurrentActor ELSE NoUnit) = actor
  BY <1>1
<1>3. Alive(units)' = Alive(us)
  BY DEF Alive
<1>4. \A v \in Members : /\ v \in Alive(units) <=> units[v].alive
                         /\ v \in Alive(us) <=> us[v].alive
  BY DEF Alive
<1>5. Alive(units) \in SUBSET Members /\ Alive(us) \in SUBSET Members
  BY DEF Alive
<1>6. {v \in Members : units[v].skips > 0}' = {v \in Members : us[v].skips > 0}
  OBVIOUS
<1>7. \A v \in Members : /\ units[v].alive \in BOOLEAN /\ us[v].alive \in BOOLEAN
                         /\ units[v].skips \in Nat /\ us[v].skips \in Nat
  BY <1>1 DEF Table, UnitState
<1>8. \A v \in Members : /\ ~us[v].alive => us[v].skips = 0
                         /\ ~units[v].alive => units[v].skips = 0
  BY DEF Clean, DuelInv, ValidState, DeadAreClean
<1> HIDE DEF actor
<1>9. CASE /\ units[actor].skips > 0
           /\ \A v \in Members : /\ us[v].alive = units[v].alive
                                 /\ us[v].skips = IF v = actor THEN 0 ELSE units[v].skips
  <2>1. Alive(us) = Alive(units)
    BY <1>4, <1>5, <1>9
  <2>2. {v \in Members : us[v].skips > 0} = {v \in Members : units[v].skips > 0} \ {actor}
    BY <1>7, <1>9
  <2>3. Contract!Forfeit
    BY <1>1, <1>2, <1>3, <1>6, <1>9, <2>1, <2>2 DEF Contract!Forfeit
  <2> QED
    BY <2>3
<1>10. CASE ~(units[actor].skips > 0) /\ Harmed(actor, units, us)
  <2>1. Alive(us) \subseteq Alive(units)
    BY <1>4, <1>5, <1>10 DEF Harmed
  <2>2. \A v \in Alive(units) \ Alive(us) : v[1] # actor[1]
    BY <1>4, <1>5, <1>10 DEF Harmed
  <2>3. {v \in Members : us[v].skips > 0} \subseteq Alive(us)
    BY <1>4, <1>7, <1>8
  <2>4. \A v \in {w \in Members : us[w].skips > 0} \ {w \in Members : units[w].skips > 0} : v[1] # actor[1]
    BY <1>7, <1>10 DEF Harmed
  <2>5. {v \in Members : units[v].skips > 0} \ {v \in Members : us[v].skips > 0} \subseteq Alive(units) \ Alive(us)
    BY <1>4, <1>7, <1>8, <1>10 DEF Harmed
  <2>6. Contract!Strike
    BY <1>2, <1>3, <1>6, <1>10, <2>1, <2>2, <2>3, <2>4, <2>5 DEF Contract!Strike, Contract!Enemy
  <2> QED
    BY <2>6
<1>11. CASE ~(units[actor].skips > 0) /\ Helped(actor, units, us)
  <2>1. Alive(units) \subseteq Alive(us)
    BY <1>4, <1>5, <1>11 DEF Helped
  <2>2. \A v \in Alive(us) \ Alive(units) : v[1] = actor[1]
    BY <1>4, <1>5, <1>11 DEF Helped
  <2>3. {v \in Members : us[v].skips > 0} \subseteq {v \in Members : units[v].skips > 0}
    BY <1>7, <1>11 DEF Helped
  <2>4. \A v \in {w \in Members : units[w].skips > 0} \ {w \in Members : us[w].skips > 0} : v[1] = actor[1]
    BY <1>7, <1>11 DEF Helped
  <2>5. Contract!Aid
    BY <1>2, <1>3, <1>5, <1>6, <1>11, <2>1, <2>2, <2>3, <2>4 DEF Contract!Aid, Contract!Enemy
  <2> QED
    BY <2>5
<1> QED
  BY <1>9, <1>10, <1>11 DEF actor

(* The end of an action passes the turn on, or ends the battle.            *)
LEMMA SettlePassesOn ==
  ASSUME DuelInv, InProgress, NEW us, us \in Table, Settle(us), StatusOf(us) = "InProgress"
  PROVE  Contract!PassOn /\ OrderIsKept'
<1>1. /\ roster \in Rosters /\ turnOrder \in Seq(Members) /\ round \in Nat
  BY DEF DuelInv, TypeOK
<1>2. roster' = roster /\ Members' = Members /\ units' = us /\ AdvanceTurn(us)
  BY DEF Settle, Members
<1>3. Alive(units)' = Alive(us) /\ Alive(us) \in SUBSET Members
  BY <1>2 DEF Alive
<1>4. Alive(us) # {}
  BY OutcomeRight DEF AliveOf, Side
<1>5. \A u, v : ActsBefore(u, v)' <=> ActsBefore(u, v)
  BY <1>2 DEF ActsBefore, Initiative
<1>6. Pending \in SUBSET Members
  BY <1>1 DEF Pending
<1>7. Pending = {turnOrder[i] : i \in {j \in DOMAIN turnOrder : j > turn}}
  BY DEF Pending
<1>8. CASE StillDue(us) # {}
  <2> DEFINE n == CHOOSE i \in StillDue(us) : \A j \in StillDue(us) : i <= j
  <2>1. turn' = n /\ round' = round /\ turnOrder' = turnOrder
    BY <1>2, <1>8 DEF AdvanceTurn
  <2>2. /\ n \in DOMAIN turnOrder
        /\ turnOrder[n] \in Pending \cap Alive(us)
        /\ \A v \in (Pending \cap Alive(us)) \ {turnOrder[n]} : ActsBefore(turnOrder[n], v)
        /\ {turnOrder[i] : i \in {j \in DOMAIN turnOrder : j > n}}
             = {v \in Pending : ActsBefore(turnOrder[n], v)}
    BY <1>8, RoundGoesOn, Zenon DEF DuelInv
  <2> HIDE DEF n
  <2>3. CurrentActor' = turnOrder[n] /\ (IF turn \in DOMAIN turnOrder THEN CurrentActor ELSE NoUnit)' = turnOrder[n]
    BY <2>1, <2>2 DEF CurrentActor
  <2>4. {turnOrder[i] : i \in {j \in DOMAIN turnOrder : j > turn}}' = {v \in Pending : ActsBefore(turnOrder[n], v)}
    BY <2>1, <2>2
  <2>5. Contract!IsFirst(turnOrder[n], Pending \cap Alive(us))
    BY <1>6, <2>2, BeforeIsActsBefore DEF Contract!IsFirst
  <2>6. {v \in Pending : ActsBefore(turnOrder[n], v)}
          = {v \in Pending : <<turnOrder[n], v>> \in {p \in Members \X Members : ActsBefore(p[1], p[2])}}
    BY <1>6, <2>2, BeforeIsActsBefore
  <2>7. Contract!PassOn
    BY <1>3, <1>7, <2>1, <2>2, <2>3, <2>4, <2>5, <2>6 DEF Contract!PassOn
  <2>8. OrderIsKept'
    BY <1>5, <2>1 DEF DuelInv, OrderIsKept
  <2> QED
    BY <2>7, <2>8
<1>9. CASE StillDue(us) = {}
  <2> DEFINE order == BuildTurnOrder(Alive(us))
  <2>1. turn' = 1 /\ round' = round + 1 /\ turnOrder' = order
    BY <1>2, <1>9 DEF AdvanceTurn
  <2>2. /\ 1 \in DOMAIN order /\ order[1] \in Alive(us)
        /\ \A v \in Alive(us) \ {order[1]} : ActsBefore(order[1], v)
        /\ {order[i] : i \in {j \in DOMAIN order : j > 1}} = Alive(us) \ {order[1]}
        /\ \A i, j \in DOMAIN order : i < j => ActsBefore(order[i], order[j])
    BY <1>1, <1>4, RoundBegins, Zenon
  <2>3. Pending \cap Alive(us) = {}
    <3>1. Pending \cap Alive(us) = {turnOrder[i] : i \in StillDue(us)}
      BY RoundGoesOn, Zenon DEF DuelInv
    <3> QED
      BY <1>9, <3>1
  <2> HIDE DEF order
  <2>4. CurrentActor' = order[1] /\ (IF turn \in DOMAIN turnOrder THEN CurrentActor ELSE NoUnit)' = order[1]
    BY <2>1, <2>2 DEF CurrentActor
  <2>5. {turnOrder[i] : i \in {j \in DOMAIN turnOrder : j > turn}}' = Alive(us) \ {order[1]}
    BY <2>1, <2>2
  <2>6. Contract!IsFirst(order[1], Alive(us))
    BY <1>3, <2>2, BeforeIsActsBefore DEF Contract!IsFirst
  <2>7. Contract!PassOn
    BY <1>3, <1>7, <2>1, <2>3, <2>4, <2>5, <2>6 DEF Contract!PassOn
  <2>8. OrderIsKept'
    BY <1>5, <2>1, <2>2 DEF OrderIsKept
  <2> QED
    BY <2>7, <2>8
<1> QED
  BY <1>8, <1>9

LEMMA StepIsActivation ==
  ASSUME DuelInv, Next
  PROVE  Contract!Activation /\ DuelInv'
<1>1. InProgress
  BY StepHarmsOrHelps DEF DuelInv
<1>2. PICK us :
        /\ us \in Table /\ Clean(us) /\ OwesOneAtMost(us) /\ Settle(us)
        /\ \/ /\ units[CurrentActor].skips > 0
              /\ \A v \in Members : /\ us[v].alive = units[v].alive
                                    /\ us[v].skips = IF v = CurrentActor THEN 0 ELSE units[v].skips
           \/ /\ ~(units[CurrentActor].skips > 0)
              /\ Harmed(CurrentActor, units, us) \/ Helped(CurrentActor, units, us)
  BY StepHarmsOrHelps DEF DuelInv
<1>3. /\ roster' = roster /\ Members' = Members /\ units' = us
      /\ status' = StatusOf(us) /\ winner' = WinnerOf(us)
  BY <1>2 DEF Settle, Members
<1>4. TypeOK' /\ ValidState'
  BY <1>1, <1>2, SettleKeepsInv DEF DuelInv
<1>5. OwesOneAtMost(units)'
  BY <1>2, <1>3 DEF OwesOneAtMost
<1>6. /\ units \in Table /\ roster \in Rosters /\ turn \in DOMAIN turnOrder
      /\ CurrentActor \in Members /\ units[CurrentActor].alive
  BY <1>1 DEF DuelInv, TypeOK, Table, ValidState, TurnIsPlayable, CurrentActor
<1>7. Alive(units)' = Alive(us)
  BY <1>3 DEF Alive
<1>8. \A s \in Side : AliveOf(us, s) = {u \in Alive(us) : u[1] = s}
                      /\ AliveOf(units, s) = {u \in Alive(units) : u[1] = s}
  BY DEF AliveOf
<1>9. ~Contract!Over
  BY <1>1, <1>8 DEF DuelInv, ValidState, TurnIsPlayable, Contract!Over, Contract!Survivors, Side
<1>10. Contract!Over' <=> StatusOf(us) # "InProgress"
  BY <1>7, <1>8 DEF Contract!Over, Contract!Survivors, StatusOf, Side
<1>11. Contract!Forfeit \/ Contract!Strike \/ Contract!Aid
  BY <1>1, <1>2, <1>3, StepActivates
<1>12. Members' = Members
       /\ {p \in Members \X Members : ActsBefore(p[1], p[2])}' = {p \in Members \X Members : ActsBefore(p[1], p[2])}
  BY <1>3 DEF ActsBefore, Initiative, Members
<1>13. CASE StatusOf(us) = "InProgress"
  <2>1. winner' = 0
    BY <1>3, <1>13, OutcomeRight DEF NoSide
  <2>2. Contract!PassOn /\ OrderIsKept'
    BY <1>1, <1>2, <1>13, SettlePassesOn
  <2>3. Contract!Activation
    BY <1>9, <1>10, <1>11, <1>12, <1>13, <2>1, <2>2 DEF Contract!Activation
  <2> QED
    BY <1>4, <1>5, <2>2, <2>3 DEF DuelInv
<1>14. CASE StatusOf(us) # "InProgress"
  <2>1. round' = round /\ turnOrder' = turnOrder /\ turn' = turn
    BY <1>2, <1>14 DEF Settle
  <2>2. us[CurrentActor].alive
    BY <1>2, <1>6 DEF Harmed, Helped
  <2>3. CurrentActor \in AliveOf(us, CurrentActor[1]) /\ CurrentActor[1] \in Side
    BY <1>6, <2>2, UnitsArePairs DEF AliveOf, Alive
  <2>4. winner' = CurrentActor[1]
    BY <1>3, <1>14, <2>3, OutcomeRight
  <2>5. /\ (IF turn \in DOMAIN turnOrder THEN CurrentActor ELSE NoUnit) = CurrentActor
        /\ (IF turn \in DOMAIN turnOrder THEN CurrentActor ELSE NoUnit)' = CurrentActor
    BY <1>6, <2>1 DEF CurrentActor
  <2>6. {turnOrder[i] : i \in {j \in DOMAIN turnOrder : j > turn}}'
          = {turnOrder[i] : i \in {j \in DOMAIN turnOrder : j > turn}}
    BY <2>1
  <2>7. Contract!Activation
    BY <1>9, <1>10, <1>11, <1>12, <1>14, <2>1, <2>4, <2>5, <2>6 DEF Contract!Activation
  <2>8. OrderIsKept'
    BY <1>3, <1>14 DEF OrderIsKept, InProgress
  <2> QED
    BY <1>4, <1>5, <2>7, <2>8 DEF DuelInv
<1> QED
  BY <1>13, <1>14

(* Whatever the stacks and their attacks, a battle keeps the contract of   *)
(* module Duel: harm goes to the other side and help to the own one, a     *)
(* petrified unit loses exactly its activation, every round is played in   *)
(* order, and the battle ends when a side is wiped out (battle_apply.cpp,  *)
(* detail/battle_turn.cpp, detail/battle_status.cpp).                      *)
THEOREM BattleImplementsDuel == Spec => ImplementsDuel
<1>1. DuelInv /\ [Next]_vars => DuelInv' /\ [Contract!Activation]_(Contract!vars)
  <2> SUFFICES ASSUME DuelInv, [Next]_vars PROVE DuelInv' /\ [Contract!Activation]_(Contract!vars)
    OBVIOUS
  <2>1. CASE Next
    BY <2>1, StepIsActivation
  <2>2. CASE UNCHANGED vars
    <3>1. Members' = Members
      BY <2>2 DEF vars, Members
    <3>2. TypeOK' /\ ValidState'
      BY <2>2, StepKeepsInv DEF DuelInv
    <3>3. OwesOneAtMost(units)' /\ OrderIsKept'
      BY <2>2, <3>1 DEF DuelInv, OwesOneAtMost, OrderIsKept, InProgress, ActsBefore, Initiative, vars
    <3>4. UNCHANGED Contract!vars
      BY <2>2, <3>1 DEF vars, Contract!vars, Alive, ActsBefore, Initiative, CurrentActor
    <3> QED
      BY <3>2, <3>3, <3>4 DEF DuelInv
  <2> QED
    BY <2>1, <2>2
<1> QED
  BY <1>1, InitDuelInv, PTL DEF Spec, ImplementsDuel, Contract!Spec
-----------------------------------------------------------------------------
(* The side-wide targets are no units.                                     *)
LEMMA SideWideIsNoUnit ==
  ASSUME NEW x \in Unit
  PROVE  x \notin {AllEnemyUnits, AllAlliedUnits}
<1>1. DOMAIN x = {1, 2}
  BY DEF Unit
<1>2. 2 \notin DOMAIN AllEnemyUnits /\ 2 \notin DOMAIN AllAlliedUnits
  BY DEF AllEnemyUnits, AllAlliedUnits
<1> QED
  BY <1>1, <1>2

(* An attack on one unit, or on a whole side, affects somebody exactly     *)
(* when the enumeration offers it.                                         *)
Affected(u, target) ==
  ComponentTargets(units, u, target, roster.primary[u])
    \cup IF HasSecondary(u) THEN ComponentTargets(units, u, target, roster.secondary[u]) ELSE {}

LEMMA AffectedAreOffered ==
  ASSUME roster \in Rosters, NEW u
  PROVE  /\ Affected(u, SideWide(u)) = BundleUnitTargets(u)
         /\ BundleUnitTargets(u) \subseteq {t \in Members : t[1] = TargetSide(u)}
         /\ \A t \in Members : t[1] = TargetSide(u) => (Affected(u, t) # {} <=> t \in BundleUnitTargets(u))
<1>1. \A attack : ComponentTargets(units, u, SideWide(u), attack) = UnitTargets(units, u, attack)
  BY DEF ComponentTargets, SideWide
<1>2. ASSUME NEW t \in Members, t[1] = TargetSide(u), NEW attack
      PROVE  ComponentTargets(units, u, t, attack) # {} <=> t \in UnitTargets(units, u, attack)
  <2>1. t \notin {AllEnemyUnits, AllAlliedUnits}
    BY RosterFacts, SideWideIsNoUnit
  <2> QED
    BY <1>2, <2>1 DEF ComponentTargets, UnitTargets
<1>3. \A attack : UnitTargets(units, u, attack) \subseteq {t \in Members : t[1] = TargetSide(u)}
  BY DEF UnitTargets
<1>4. Affected(u, SideWide(u)) = BundleUnitTargets(u)
  BY <1>1 DEF Affected, BundleUnitTargets
<1>5. BundleUnitTargets(u) \subseteq {t \in Members : t[1] = TargetSide(u)}
  BY <1>3 DEF BundleUnitTargets
<1>6. ASSUME NEW t \in Members, t[1] = TargetSide(u)
      PROVE  Affected(u, t) # {} <=> t \in BundleUnitTargets(u)
  BY <1>2, <1>6 DEF Affected, BundleUnitTargets
<1> QED
  BY <1>4, <1>5, <1>6

(* The verdict on an attack of the current actor, without its reasons.     *)
LEMMA VerdictIsNone ==
  ASSUME InProgress, CurrentActor \in Members, ~(units[CurrentActor].skips > 0),
         BundleSupported(CurrentActor), NEW target
  PROVE  LET u == CurrentActor
         IN  AttackVerdict(u, target) = "None" <=>
               /\ IF BundleReach(u) = "All" THEN target = SideWide(u)
                  ELSE /\ target \notin {AllEnemyUnits, AllAlliedUnits}
                       /\ target \in Members /\ target[1] = TargetSide(u)
               /\ BundleReach(u) = "Adjacent" => MeleeVerdict(units, u, target) = "None"
               /\ Affected(u, target) # {}
BY Zenon DEF AttackVerdict, Affected, InProgress

LEMMA OffersAgree == TypeOK /\ ValidState => OffersAreTheAcceptedOnes
<1> SUFFICES ASSUME TypeOK, ValidState, InProgress, ~EnumeratorThrows
             PROVE  OfferedTargets = {t \in AttackTarget : AttackVerdict(CurrentActor, t) = "None"}
  BY DEF OffersAreTheAcceptedOnes
<1> DEFINE u == CurrentActor
           ts == BundleUnitTargets(u)
<1>1. roster \in Rosters /\ u \in Members /\ Members \subseteq AttackTarget /\ SideWide(u) \in AttackTarget
  BY RosterFacts DEF TypeOK, ValidState, TurnIsPlayable, CurrentActor, AttackTarget, SideWide
<1>2. CASE units[u].skips > 0
  <2>1. \A t : AttackVerdict(u, t) # "None"
    BY <1>2, Zenon DEF AttackVerdict
  <2> QED
    BY <1>2, <2>1 DEF OfferedTargets
<1>3. CASE ~(units[u].skips > 0) /\ ~BundleSupported(u)
  <2>1. \A t : AttackVerdict(u, t) # "None"
    BY <1>3, Zenon DEF AttackVerdict
  <2> QED
    BY <1>3, <2>1 DEF OfferedTargets
<1>4. CASE ~(units[u].skips > 0) /\ BundleSupported(u)
  <2>1. \A t : AttackVerdict(u, t) = "None" <=>
             /\ IF BundleReach(u) = "All" THEN t = SideWide(u)
                ELSE /\ t \notin {AllEnemyUnits, AllAlliedUnits}
                     /\ t \in Members /\ t[1] = TargetSide(u)
             /\ BundleReach(u) = "Adjacent" => MeleeVerdict(units, u, t) = "None"
             /\ Affected(u, t) # {}
    BY <1>1, <1>4, VerdictIsNone
  <2>2. OfferedTargets =
          IF BundleReach(u) = "All" THEN {a \in {SideWide(u)} : ts # {}}
          ELSE IF BundleReach(u) = "Adjacent" THEN {t \in ts : MeleeVerdict(units, u, t) = "None"}
          ELSE ts
    BY <1>4 DEF OfferedTargets, InProgress
  <2>3. /\ Affected(u, SideWide(u)) = ts
        /\ ts \subseteq {t \in Members : t[1] = TargetSide(u)}
        /\ \A t \in Members : t[1] = TargetSide(u) => (Affected(u, t) # {} <=> t \in ts)
    BY <1>1, AffectedAreOffered
  <2>4. \A t \in Members : t \notin {AllEnemyUnits, AllAlliedUnits}
    BY <1>1, RosterFacts, SideWideIsNoUnit
  <2> HIDE DEF u, ts
  <2>5. CASE BundleReach(u) = "All"
    BY <1>1, <2>1, <2>2, <2>3, <2>5 DEF u
  <2>6. CASE BundleReach(u) # "All"
    BY <1>1, <2>1, <2>2, <2>3, <2>4, <2>6 DEF u
  <2> QED
    BY <2>5, <2>6
<1> QED
  BY <1>2, <1>3, <1>4

(* The targets the rules offer are the ones they accept, for every pair of *)
(* stacks, in every state of every battle: the enumeration and the         *)
(* validator, two paths through the code, never disagree                   *)
(* (battle_valid_actions.cpp, battle_action_validate.cpp).                 *)
THEOREM OffersAreAccepted == Spec => []OffersAreTheAcceptedOnes
BY OffersAgree, InitInv, StepKeepsInv, PTL DEF Spec
-----------------------------------------------------------------------------
(* Sums over the six slots of a side.                                      *)
LEMMA SumsOfSlots ==
  ASSUME NEW f \in [Slot -> Int], NEW g \in [Slot -> Int], NEW h \in [Slot -> Int]
  PROVE  /\ SlotSum(f) \in Int
         /\ (\A k \in Slot : f[k] <= g[k]) => SlotSum(f) <= SlotSum(g)
         /\ (\A k \in Slot : h[k] = f[k] + g[k]) => SlotSum(h) = SlotSum(f) + SlotSum(g)
         /\ \A n \in Slot : (\A k \in Slot : k # n => f[k] = 0) => SlotSum(f) = f[n]
<1>1. \A k \in {0, 1, 2, 3, 4, 5} : k \in Slot
  BY DEF Slot
<1>2. /\ f[0] \in Int /\ f[1] \in Int /\ f[2] \in Int /\ f[3] \in Int /\ f[4] \in Int /\ f[5] \in Int
      /\ g[0] \in Int /\ g[1] \in Int /\ g[2] \in Int /\ g[3] \in Int /\ g[4] \in Int /\ g[5] \in Int
  BY <1>1
<1>3. SlotSum(f) \in Int
  BY <1>2 DEF SlotSum
<1>4. (\A k \in Slot : f[k] <= g[k]) => SlotSum(f) <= SlotSum(g)
  BY <1>1, <1>2 DEF SlotSum
<1>5. (\A k \in Slot : h[k] = f[k] + g[k]) => SlotSum(h) = SlotSum(f) + SlotSum(g)
  BY <1>1, <1>2 DEF SlotSum
<1>6. ASSUME NEW n \in Slot, \A k \in Slot : k # n => f[k] = 0 PROVE SlotSum(f) = f[n]
  <2>1. n \in {0, 1, 2, 3, 4, 5}
    BY DEF Slot
  <2>2. /\ 0 # n => f[0] = 0
        /\ 1 # n => f[1] = 0
        /\ 2 # n => f[2] = 0
        /\ 3 # n => f[3] = 0
        /\ 4 # n => f[4] = 0
        /\ 5 # n => f[5] = 0
    BY <1>1, <1>6
  <2>3. SlotSum(f) = f[0] + f[1] + f[2] + f[3] + f[4] + f[5]
    BY DEF SlotSum
  <2>4. CASE n = 0
    BY <1>2, <2>2, <2>3, <2>4
  <2>5. CASE n = 1
    BY <1>2, <2>2, <2>3, <2>5
  <2>6. CASE n = 2
    BY <1>2, <2>2, <2>3, <2>6
  <2>7. CASE n = 3
    BY <1>2, <2>2, <2>3, <2>7
  <2>8. CASE n = 4
    BY <1>2, <2>2, <2>3, <2>8
  <2>9. CASE n = 5
    BY <1>2, <2>2, <2>3, <2>9
  <2> QED
    BY <2>1, <2>4, <2>5, <2>6, <2>7, <2>8, <2>9
<1> QED
  BY <1>3, <1>4, <1>5, <1>6

(* What an ally in slot k gets of what the actor leaves, and that all of   *)
(* them together get no more.                                              *)
Share(need, rest, k) == Lesser(need[k], Greater(0, rest - NeedBefore(need, k)))

LEMMA NeedsBefore ==
  ASSUME NEW need \in [Slot -> Nat]
  PROVE  /\ NeedBefore(need, 0) = 0
         /\ NeedBefore(need, 1) = need[0]
         /\ NeedBefore(need, 2) = need[0] + need[1]
         /\ NeedBefore(need, 3) = need[0] + need[1] + need[2]
         /\ NeedBefore(need, 4) = need[0] + need[1] + need[2] + need[3]
         /\ NeedBefore(need, 5) = need[0] + need[1] + need[2] + need[3] + need[4]
<1>1. \A k \in {0, 1, 2, 3, 4, 5} : k \in Slot /\ need[k] \in Nat
  BY DEF Slot
<1>2. ASSUME NEW k \in Slot
      PROVE  NeedBefore(need, k) = (IF 0 < k THEN need[0] ELSE 0) + (IF 1 < k THEN need[1] ELSE 0)
                                   + (IF 2 < k THEN need[2] ELSE 0) + (IF 3 < k THEN need[3] ELSE 0)
                                   + (IF 4 < k THEN need[4] ELSE 0) + (IF 5 < k THEN need[5] ELSE 0)
  <2> DEFINE f == [j \in Slot |-> IF j < k THEN need[j] ELSE 0]
  <2>1. \A j \in {0, 1, 2, 3, 4, 5} : f[j] = IF j < k THEN need[j] ELSE 0
    BY <1>1
  <2> HIDE DEF f
  <2>2. SlotSum(f) = f[0] + f[1] + f[2] + f[3] + f[4] + f[5]
    BY DEF SlotSum
  <2> QED
    BY <2>1, <2>2 DEF NeedBefore, f
<1> QED
  BY <1>1, <1>2

LEMMA SharesFit ==
  ASSUME NEW need \in [Slot -> Nat], NEW rest \in Nat
  PROVE  LET shares == [k \in Slot |-> Share(need, rest, k)]
         IN  shares \in [Slot -> Nat] /\ SlotSum(shares) <= rest
<1> DEFINE shares == [k \in Slot |-> Share(need, rest, k)]
           before(k) == NeedBefore(need, k)
           upto(k) == Lesser(rest, before(k))
<1>1. \A k \in {0, 1, 2, 3, 4, 5} : k \in Slot /\ need[k] \in Nat
  BY DEF Slot
<1>2. /\ before(0) = 0 /\ before(1) = before(0) + need[0] /\ before(2) = before(1) + need[1]
      /\ before(3) = before(2) + need[2] /\ before(4) = before(3) + need[3]
      /\ before(5) = before(4) + need[4]
  BY <1>1, NeedsBefore
<1>3. \A k \in Slot : before(k) \in Nat
  <2>1. \A k \in Slot : k \in {0, 1, 2, 3, 4, 5}
    BY DEF Slot
  <2> HIDE DEF before
  <2> QED
    BY <1>1, <1>2, <2>1
<1>4. \A b \in Nat, n \in Nat :
        LET s == Lesser(n, Greater(0, rest - b))
        IN  s \in Nat /\ Lesser(rest, b) + s = Lesser(rest, b + n)
  BY DEF Lesser, Greater
<1>5. \A k \in Slot : shares[k] \in Nat /\ upto(k) + shares[k] = Lesser(rest, before(k) + need[k])
  BY <1>3, <1>4 DEF Share
<1>6. shares \in [Slot -> Nat]
  BY <1>5
<1>7. SlotSum(shares) <= rest
  <2>1. /\ upto(0) = 0 /\ upto(0) + shares[0] = upto(1) /\ upto(1) + shares[1] = upto(2)
        /\ upto(2) + shares[2] = upto(3) /\ upto(3) + shares[3] = upto(4) /\ upto(4) + shares[4] = upto(5)
    <3> HIDE DEF shares, before
    <3>1. Lesser(rest, 0) = 0
      BY DEF Lesser
    <3> QED
      BY <1>1, <1>2, <1>5, <3>1
  <2>2. upto(5) + shares[5] <= rest
    <3>1. before(5) + need[5] \in Nat /\ upto(5) + shares[5] = Lesser(rest, before(5) + need[5])
      BY <1>1, <1>3, <1>5
    <3> HIDE DEF shares, before, upto
    <3> QED
      BY <3>1 DEF Lesser
  <2>3. \A k \in {0, 1, 2, 3, 4, 5} : shares[k] \in Nat /\ upto(k) \in Nat
    <3>1. \A b \in Nat : Lesser(rest, b) \in Nat
      BY DEF Lesser
    <3> HIDE DEF shares, before
    <3> QED
      BY <1>1, <1>3, <1>5, <3>1
  <2> HIDE DEF shares, upto
  <2> QED
    BY <2>1, <2>2, <2>3 DEF SlotSum
<1> QED
  BY <1>6, <1>7

(* The HP of a side.  A fair attack on the enemy raises nobody there and   *)
(* lowers nobody on the own side, and gives back half of what it takes.    *)
Hp(us, s) == [k \in Slot |-> IF <<s, k>> \in Members THEN us[<<s, k>>].hp ELSE 0]
HpOf(us, s) == SlotSum(Hp(us, s))

Fair(u, old, new) ==
  /\ \A v \in Members : /\ v[1] = u[1] => old[v].hp <= new[v].hp
                        /\ v[1] = Opposite(u[1]) => new[v].hp <= old[v].hp
  /\ 2 * (HpOf(new, u[1]) - HpOf(old, u[1])) <= HpOf(old, Opposite(u[1])) - HpOf(new, Opposite(u[1]))

LEMMA HpIsNatural ==
  ASSUME NEW us \in Table, NEW s
  PROVE  /\ \A v \in Members : us[v].hp \in Nat
         /\ Hp(us, s) \in [Slot -> Int]
         /\ \A k \in Slot : Hp(us, s)[k] = IF <<s, k>> \in Members THEN us[<<s, k>>].hp ELSE 0
         /\ HpOf(us, s) \in Int
<1>1. \A v \in Members : us[v].hp \in Nat
  BY DEF Table, UnitState
<1>2. Hp(us, s) \in [Slot -> Int]
  BY <1>1 DEF Hp
<1>3. HpOf(us, s) \in Int
  BY <1>2, SumsOfSlots DEF HpOf
<1> QED
  BY <1>1, <1>2, <1>3 DEF Hp

LEMMA FairAddsUp ==
  ASSUME roster \in Rosters, NEW us \in Table, NEW mid \in Table, NEW new \in Table, NEW u \in Members,
         Fair(u, us, mid), Fair(u, mid, new)
  PROVE  Fair(u, us, new)
<1>1. \A v \in Members : us[v].hp \in Nat /\ mid[v].hp \in Nat /\ new[v].hp \in Nat
  BY HpIsNatural
<1>2. \A s : HpOf(us, s) \in Int /\ HpOf(mid, s) \in Int /\ HpOf(new, s) \in Int
  BY HpIsNatural
<1>3. \A v \in Members : /\ v[1] = u[1] => us[v].hp <= new[v].hp
                         /\ v[1] = Opposite(u[1]) => new[v].hp <= us[v].hp
  BY <1>1 DEF Fair
<1> DEFINE mine == u[1]
           theirs == Opposite(u[1])
<1>4. /\ 2 * (HpOf(mid, mine) - HpOf(us, mine)) <= HpOf(us, theirs) - HpOf(mid, theirs)
      /\ 2 * (HpOf(new, mine) - HpOf(mid, mine)) <= HpOf(mid, theirs) - HpOf(new, theirs)
  BY DEF Fair
<1>5. 2 * (HpOf(new, mine) - HpOf(us, mine)) <= HpOf(us, theirs) - HpOf(new, theirs)
  <2> HIDE DEF mine, theirs
  <2> QED
    BY <1>2, <1>4
<1> QED
  BY <1>3, <1>5 DEF Fair

(* Whatever a table is that gives the side of the attacker, on top of the  *)
(* damage, no more than the budget of the drain.                           *)
LEMMA DrainIsFair ==
  ASSUME roster \in Rosters, NEW us \in Table, Clean(us), NEW u \in Members,
         NEW T \in SUBSET Members, \A t \in T : t[1] = Opposite(u[1]), NEW damage \in Nat,
         NEW new \in Table, NEW gain \in [Slot -> Nat],
         \A v \in Members :
           /\ v[1] = u[1] => new[v].hp = DamageAll(us, T, damage)[v].hp + gain[v[2]]
           /\ v[1] # u[1] => new[v].hp = DamageAll(us, T, damage)[v].hp,
         SlotSum(gain) <= DamageDealt(us, Opposite(u[1]), T, damage) \div 2
  PROVE  Fair(u, us, new)
<1> DEFINE hit == DamageAll(us, T, damage)
           mine == u[1]
           theirs == Opposite(u[1])
           dealt == [k \in Slot |-> IF <<theirs, k>> \in T THEN Lesser(us[<<theirs, k>>].hp, damage) ELSE 0]
<1>1. mine \in Side /\ theirs \in Side /\ mine # theirs
  BY UnitsArePairs DEF Side, Opposite
<1>2. /\ hit \in Table
      /\ \A v \in Members : hit[v].hp <= us[v].hp
      /\ \A v \in Members \ T : hit[v] = us[v]
  BY DamageAllEffect, Zenon
<1>3. /\ \A v \in Members : us[v].hp \in Nat /\ hit[v].hp \in Nat /\ new[v].hp \in Nat
      /\ Hp(us, mine) \in [Slot -> Int] /\ Hp(us, theirs) \in [Slot -> Int]
      /\ Hp(new, mine) \in [Slot -> Int] /\ Hp(new, theirs) \in [Slot -> Int]
      /\ HpOf(us, mine) \in Int /\ HpOf(us, theirs) \in Int
      /\ HpOf(new, mine) \in Int /\ HpOf(new, theirs) \in Int
  BY <1>2, HpIsNatural
<1>4. \A v \in T : hit[v].hp = us[v].hp - Lesser(us[v].hp, damage)
  <2> SUFFICES ASSUME NEW v \in T PROVE hit[v].hp = us[v].hp - Lesser(us[v].hp, damage)
    OBVIOUS
  <2>1. v \in DOMAIN us /\ v \in Members
    BY DEF Table
  <2>2. hit[v].hp = Greater(0, us[v].hp - damage)
    BY <2>1 DEF DamageAll, Damaged
  <2>3. us[v].hp \in Nat
    BY <1>3, <2>1
  <2> HIDE DEF hit
  <2> QED
    BY <2>2, <2>3 DEF Greater, Lesser
<1>5. \A v \in Members : v[1] = theirs => new[v].hp = hit[v].hp
  BY <1>1, <1>3
<1>6. \A v \in Members : v[1] = mine => /\ hit[v] = us[v] /\ new[v].hp = us[v].hp + gain[v[2]]
                                        /\ gain[v[2]] \in Nat
  <2>1. \A v \in Members : v[1] = mine => v \notin T /\ v[2] \in Slot
    BY <1>1, UnitsArePairs
  <2> HIDE DEF hit
  <2> QED
    BY <1>2, <2>1 DEF hit
<1> HIDE DEF hit, mine, theirs
<1>7. dealt \in [Slot -> Int] /\ SlotSum(dealt) = DamageDealt(us, theirs, T, damage)
  <2>1. \A v \in T : Lesser(us[v].hp, damage) \in Int
    BY <1>3 DEF Lesser
  <2> QED
    BY <2>1 DEF DamageDealt
<1>8. HpOf(us, theirs) = HpOf(new, theirs) + SlotSum(dealt)
  <2>1. ASSUME NEW k \in Slot PROVE Hp(us, theirs)[k] = Hp(new, theirs)[k] + dealt[k]
    <3> DEFINE v == <<theirs, k>>
    <3>1. /\ Hp(us, theirs)[k] = IF v \in Members THEN us[v].hp ELSE 0
          /\ Hp(new, theirs)[k] = IF v \in Members THEN new[v].hp ELSE 0
          /\ dealt[k] = IF v \in T THEN Lesser(us[v].hp, damage) ELSE 0
      BY HpIsNatural
    <3>2. v[1] = theirs
      OBVIOUS
    <3>3. \A a \in Nat : Lesser(a, damage) \in Int
      BY DEF Lesser
    <3> HIDE DEF v, dealt
    <3>4. CASE v \in T
      <4>1. v \in Members /\ new[v].hp = us[v].hp - Lesser(us[v].hp, damage) /\ us[v].hp \in Nat
        BY <1>3, <1>4, <1>5, <3>2, <3>4
      <4> QED
        BY <3>1, <3>3, <3>4, <4>1
    <3>5. CASE v \in Members \ T
      <4>1. new[v].hp = us[v].hp /\ us[v].hp \in Nat
        BY <1>2, <1>3, <1>5, <3>2, <3>5
      <4> QED
        BY <3>1, <3>5, <4>1
    <3>6. CASE v \notin Members
      BY <3>1, <3>6
    <3> QED
      BY <3>4, <3>5, <3>6
  <2> HIDE DEF dealt
  <2> QED
    BY <1>3, <1>7, <2>1, SumsOfSlots DEF HpOf
<1>9. HpOf(new, mine) <= HpOf(us, mine) + SlotSum(gain)
  <2> DEFINE sum == [k \in Slot |-> Hp(us, mine)[k] + gain[k]]
  <2>1. sum \in [Slot -> Int] /\ gain \in [Slot -> Int]
    BY <1>3
  <2>2. SlotSum(sum) = SlotSum(Hp(us, mine)) + SlotSum(gain)
    <3>1. \A k \in Slot : sum[k] = Hp(us, mine)[k] + gain[k]
      OBVIOUS
    <3> HIDE DEF sum
    <3> QED
      BY <1>3, <2>1, <3>1, SumsOfSlots
  <2>3. ASSUME NEW k \in Slot PROVE Hp(new, mine)[k] <= sum[k]
    <3> DEFINE v == <<mine, k>>
    <3>1. /\ Hp(us, mine)[k] = IF v \in Members THEN us[v].hp ELSE 0
          /\ Hp(new, mine)[k] = IF v \in Members THEN new[v].hp ELSE 0
          /\ sum[k] = Hp(us, mine)[k] + gain[k]
      BY HpIsNatural
    <3>2. v[1] = mine /\ v[2] = k /\ gain[k] \in Nat
      OBVIOUS
    <3> HIDE DEF v, sum
    <3>3. CASE v \in Members
      <4>1. new[v].hp = us[v].hp + gain[k] /\ us[v].hp \in Nat
        BY <1>3, <1>6, <3>2, <3>3
      <4> QED
        BY <3>1, <3>2, <3>3, <4>1
    <3>4. CASE v \notin Members
      BY <3>1, <3>2, <3>4
    <3> QED
      BY <3>3, <3>4
  <2>4. SlotSum(Hp(new, mine)) <= SlotSum(sum)
    <3> HIDE DEF sum
    <3> QED
      BY <1>3, <2>1, <2>3, SumsOfSlots
  <2> HIDE DEF sum
  <2> QED
    BY <2>2, <2>4 DEF HpOf
<1>10. 2 * (HpOf(new, mine) - HpOf(us, mine)) <= HpOf(us, theirs) - HpOf(new, theirs)
  <2>1. SlotSum(gain) <= DamageDealt(us, theirs, T, damage) \div 2
    BY DEF theirs
  <2>2. SlotSum(dealt) \in Int /\ SlotSum(gain) \in Int
    <3>1. gain \in [Slot -> Int]
      OBVIOUS
    <3> HIDE DEF dealt
    <3> QED
      BY <1>7, <3>1, SumsOfSlots
  <2>3. \A a \in Int, b \in Int : a <= b \div 2 => 2 * a <= b
    OBVIOUS
  <2>4. 2 * SlotSum(gain) <= SlotSum(dealt)
    BY <1>7, <2>1, <2>2, <2>3
  <2> HIDE DEF dealt
  <2> QED
    BY <1>3, <1>8, <1>9, <2>2, <2>4
<1>11. \A v \in Members : /\ v[1] = mine => us[v].hp <= new[v].hp
                          /\ v[1] = theirs => new[v].hp <= us[v].hp
  BY <1>2, <1>3, <1>5, <1>6
<1> QED
  BY <1>10, <1>11 DEF Fair, mine, theirs
(* What an overflowing drain gives: to the actor first, then to its living *)
(* allies, slot by slot.                                                   *)
Fed(hit, u, budget) == Lesser(budget, Missing(hit, u))
Allies(hit, u) == {k \in Slot : <<u[1], k>> \in AliveOf(hit, u[1]) \ {u}}
Needs(hit, u) == [k \in Slot |-> IF k \in Allies(hit, u) THEN Missing(hit, <<u[1], k>>) ELSE 0]
Gains(hit, u, budget) ==
  [k \in Slot |-> IF k = u[2] THEN Fed(hit, u, budget)
                  ELSE Share(Needs(hit, u), budget - Fed(hit, u, budget), k)]

LEMMA GainsFit ==
  ASSUME roster \in Rosters, NEW hit \in Table, NEW u \in Members, NEW budget \in Nat
  PROVE  /\ Fed(hit, u, budget) \in Nat /\ budget - Fed(hit, u, budget) \in Nat
         /\ Needs(hit, u) \in [Slot -> Nat]
         /\ Gains(hit, u, budget) \in [Slot -> Nat]
         /\ SlotSum(Gains(hit, u, budget)) <= budget
<1> DEFINE fed == Fed(hit, u, budget)
           rest == budget - fed
           need == Needs(hit, u)
           shares == [k \in Slot |-> Share(need, rest, k)]
           own == [k \in Slot |-> IF k = u[2] THEN fed ELSE 0]
           gains == [k \in Slot |-> IF k = u[2] THEN fed ELSE shares[k]]
<1>1. fed \in Nat /\ rest \in Nat
  BY MissingIsNat DEF Fed, Lesser
<1>2. need \in [Slot -> Nat]
  <2>1. \A k \in Allies(hit, u) : <<u[1], k>> \in Members
    BY DEF Allies, AliveOf, Alive
  <2> QED
    BY <2>1, MissingIsNat DEF Needs
<1>3. u[2] \in Slot /\ u = <<u[1], u[2]>>
  BY UnitsArePairs
<1>4. need[u[2]] = 0
  BY <1>3 DEF Needs, Allies
<1> HIDE DEF fed, rest, need
<1>5. shares \in [Slot -> Nat] /\ SlotSum(shares) <= rest
  BY <1>1, <1>2, SharesFit
<1>6. shares[u[2]] = 0
  <2>1. need[u[2]] \in Nat /\ NeedBefore(need, u[2]) \in Nat
    <3>1. [j \in Slot |-> IF j < u[2] THEN need[j] ELSE 0] \in [Slot -> Nat]
      BY <1>2
    <3> QED
      BY <1>2, <1>3, <3>1, SlotSums DEF NeedBefore
  <2>2. shares[u[2]] = Share(need, rest, u[2])
    BY <1>3
  <2> HIDE DEF shares
  <2> QED
    BY <1>1, <1>4, <2>1, <2>2 DEF Share, Lesser, Greater
<1>7. own \in [Slot -> Nat] /\ own \in [Slot -> Int]
  BY <1>1
<1>8. SlotSum(own) = fed
  <2>1. own[u[2]] = fed /\ \A k \in Slot : k # u[2] => own[k] = 0
    BY <1>3
  <2> HIDE DEF own
  <2> QED
    BY <1>3, <1>7, <2>1, SumsOfSlots
<1>9. gains \in [Slot -> Nat]
  BY <1>1, <1>5
<1>10. SlotSum(gains) = SlotSum(own) + SlotSum(shares)
  <2>1. \A k \in Slot : own[k] = IF k = u[2] THEN fed ELSE 0
    OBVIOUS
  <2>2. \A k \in Slot : gains[k] = IF k = u[2] THEN fed ELSE shares[k]
    OBVIOUS
  <2> HIDE DEF own, gains, shares
  <2>3. \A k \in Slot : gains[k] = own[k] + shares[k]
    BY <1>1, <1>5, <1>6, <2>1, <2>2
  <2>4. gains \in [Slot -> Int] /\ shares \in [Slot -> Int]
    BY <1>5, <1>9
  <2> QED
    BY <1>7, <2>3, <2>4, SumsOfSlots
<1>11. Gains(hit, u, budget) = gains
  BY DEF Gains, fed, rest, need
<1>12. SlotSum(shares) \in Int
  <2>1. shares \in [Slot -> Int]
    BY <1>5
  <2> HIDE DEF shares
  <2> QED
    BY <2>1, SumsOfSlots
<1>13. fed + SlotSum(shares) <= budget
  <2>1. SlotSum(shares) <= budget - fed
    BY <1>5 DEF rest
  <2> HIDE DEF shares
  <2> QED
    BY <1>1, <1>12, <2>1
<1> QED
  <2> HIDE DEF gains, own, shares
  <2>1. SlotSum(gains) <= budget
    BY <1>8, <1>10, <1>13
  <2> QED
    BY <1>1, <1>2, <1>9, <1>11, <2>1 DEF fed, rest, need
(* The HP that the two drains leave.                                       *)
LEMMA FedHp ==
  ASSUME roster \in Rosters, NEW hit \in Table, NEW u \in Members, NEW budget \in Nat
  PROVE  \A v \in Members : /\ v = u => Healed(hit, {u}, budget)[v].hp = hit[v].hp + Fed(hit, u, budget)
                            /\ v # u => Healed(hit, {u}, budget)[v].hp = hit[v].hp
<1> SUFFICES ASSUME NEW v \in Members
             PROVE  /\ v = u => Healed(hit, {u}, budget)[v].hp = hit[v].hp + Fed(hit, u, budget)
                    /\ v # u => Healed(hit, {u}, budget)[v].hp = hit[v].hp
  OBVIOUS
<1>1. v \in DOMAIN hit /\ hit[v] \in UnitState /\ hit[v].hp \in Nat
  BY DEF Table, UnitState
<1>2. Fed(hit, u, budget) \in Nat
  BY GainsFit
<1>3. CASE v = u
  <2>1. Healed(hit, {u}, budget)[v] = [hit[v] EXCEPT !.hp = @ + Fed(hit, u, budget)]
    BY <1>1, <1>3 DEF Healed, Fed
  <2> DEFINE x == hit[v]
             gain == Fed(hit, u, budget)
  <2>2. [x EXCEPT !.hp = @ + gain].hp = x.hp + gain
    BY <1>1 DEF UnitState
  <2> QED
    BY <1>3, <2>1, <2>2
<1>4. CASE v # u
  <2>1. Healed(hit, {u}, budget)[v] = hit[v]
    BY <1>1, <1>4 DEF Healed
  <2> QED
    BY <1>1, <1>4, <2>1
<1> QED
  BY <1>3, <1>4

LEMMA DrainedOverflowHp ==
  ASSUME roster \in Rosters, NEW us \in Table, Clean(us), NEW u \in Members, us[u].alive,
         NEW T \in SUBSET Members, \A t \in T : t[1] = Opposite(u[1]), NEW damage \in Nat,
         NEW hit, hit = DamageAll(us, T, damage),
         NEW budget, budget = DamageDealt(us, Opposite(u[1]), T, damage) \div 2
  PROVE  \A v \in Members :
           LET new == DrainedOverflow(us, u, T, damage)
           IN  /\ v[1] = u[1] => new[v].hp = hit[v].hp + Gains(hit, u, budget)[v[2]]
               /\ v[1] # u[1] => new[v].hp = hit[v].hp
<1> DEFINE new == DrainedOverflow(us, u, T, damage)
           rest == budget - Fed(hit, u, budget)
           share(k) == Share(Needs(hit, u), rest, k)
           fed == Healed(hit, {u}, budget)
<1> SUFFICES ASSUME NEW v \in Members
             PROVE  /\ v[1] = u[1] => new[v].hp = hit[v].hp + Gains(hit, u, budget)[v[2]]
                    /\ v[1] # u[1] => new[v].hp = hit[v].hp
  OBVIOUS
<1>1. hit \in Table
  BY DamageAllEffect, Zenon
<1>2. budget \in Nat
  <2>1. Opposite(u[1]) \in Side
    BY UnitsArePairs DEF Side, Opposite
  <2> QED
    BY <2>1, BudgetIsNat
<1>3. /\ v = u => fed[v].hp = hit[v].hp + Fed(hit, u, budget)
      /\ v # u => fed[v].hp = hit[v].hp
      /\ fed \in Table /\ fed[v] \in UnitState
  <2>1. Clean(hit) /\ hit[u] = us[u]
    <3>1. u \in Members \ T
      BY UnitsArePairs DEF Side, Opposite
    <3> QED
      BY <3>1, DamageAllEffect, Zenon
  <2>2. fed \in Table
    BY <1>1, <1>2, <2>1, \A w \in {u} : hit[w].alive, {u} \in SUBSET Members, HealedEffect, Zenon
  <2>3. fed[v] \in UnitState
    BY <2>2 DEF Table
  <2>4. /\ v = u => fed[v].hp = hit[v].hp + Fed(hit, u, budget)
        /\ v # u => fed[v].hp = hit[v].hp
    <3>1. roster \in Rosters /\ u \in Members /\ v \in Members
      OBVIOUS
    <3> QED
      BY ONLY <1>1, <1>2, <3>1, FedHp
  <2> HIDE DEF fed
  <2> QED
    BY <2>2, <2>3, <2>4
<1>4. new[v] = IF v[1] = u[1] /\ v[2] \in Allies(hit, u)
               THEN [fed[v] EXCEPT !.hp = @ + share(v[2])] ELSE fed[v]
  <2>1. v \in DOMAIN us /\ v[2] \in Slot
    BY UnitsArePairs DEF Table
  <2>2. <<u[1], v[2]>> \in AliveOf(hit, u[1]) \ {u} <=> v[2] \in Allies(hit, u)
    BY <2>1 DEF Allies
  <2>3. Needs(hit, u) = [k \in Slot |-> IF <<u[1], k>> \in AliveOf(hit, u[1]) \ {u}
                                        THEN Missing(hit, <<u[1], k>>) ELSE 0]
    BY DEF Needs, Allies
  <2> DEFINE need == [k \in Slot |-> IF <<u[1], k>> \in AliveOf(hit, u[1]) \ {u}
                                        THEN Missing(hit, <<u[1], k>>) ELSE 0]
             left == budget - Lesser(budget, Missing(hit, u))
             piece(k) == Lesser(need[k], Greater(0, left - NeedBefore(need, k)))
  <2>4. new[v] = IF v[1] = u[1] /\ <<u[1], v[2]>> \in AliveOf(hit, u[1]) \ {u}
                 THEN [fed[v] EXCEPT !.hp = @ + piece(v[2])] ELSE fed[v]
    BY <2>1, Zenon DEF DrainedOverflow
  <2>5. piece(v[2]) = share(v[2])
    <3>1. rest = left
      BY DEF Fed
    <3> HIDE DEF rest, left, need
    <3> QED
      BY <2>3, <3>1 DEF Share, need
  <2> HIDE DEF new, fed, piece, share
  <2> QED
    BY <2>2, <2>4, <2>5
<1>5. u \in Members /\ v = <<v[1], v[2]>> /\ u = <<u[1], u[2]>> /\ v[2] \in Slot
  BY UnitsArePairs
<1>6. Gains(hit, u, budget)[v[2]] = IF v[2] = u[2] THEN Fed(hit, u, budget) ELSE share(v[2])
  BY <1>5 DEF Gains
<1>7. /\ hit[v].hp \in Nat /\ Fed(hit, u, budget) \in Nat
      /\ Gains(hit, u, budget)[v[2]] \in Nat
  <2>1. hit[v].hp \in Nat
    BY <1>1 DEF Table, UnitState
  <2> QED
    BY <1>1, <1>2, <1>5, <2>1, GainsFit
<1>8. CASE v = u
  <2>1. v[2] \notin Allies(hit, u)
    BY <1>5, <1>8 DEF Allies
  <2> HIDE DEF new, fed, share
  <2> QED
    BY <1>3, <1>4, <1>6, <1>8, <2>1
<1>9. CASE v # u /\ v[1] = u[1] /\ v[2] \in Allies(hit, u)
  <2>1. v[2] # u[2]
    BY <1>5, <1>9
  <2> HIDE DEF new, fed, share
  <2>2. fed[v].hp = hit[v].hp /\ new[v] = [fed[v] EXCEPT !.hp = @ + share(v[2])]
    BY <1>3, <1>4, <1>9
  <2>3. share(v[2]) \in Nat /\ Gains(hit, u, budget)[v[2]] = share(v[2])
    BY <1>6, <1>7, <2>1
  <2>4. new[v].hp = fed[v].hp + share(v[2])
    BY <1>3, <2>2, <2>3, FedUnit
  <2> QED
    BY <1>7, <1>9, <2>2, <2>3, <2>4
<1>10. CASE v # u /\ v[1] = u[1] /\ v[2] \notin Allies(hit, u)
  <2>1. v[2] # u[2]
    BY <1>5, <1>10
  <2>2. share(v[2]) = 0
    <3>1. Needs(hit, u)[v[2]] = 0
      BY <1>5, <1>10 DEF Needs
    <3>2. NeedBefore(Needs(hit, u), v[2]) \in Nat
      <4>1. Needs(hit, u) \in [Slot -> Nat]
        BY <1>1, <1>2, GainsFit
      <4>2. [j \in Slot |-> IF j < v[2] THEN Needs(hit, u)[j] ELSE 0] \in [Slot -> Nat]
        BY <4>1
      <4> QED
        BY <4>2, SlotSums DEF NeedBefore
    <3>3. rest \in Nat
      BY <1>1, <1>2, GainsFit
    <3> HIDE DEF rest
    <3> QED
      BY <3>1, <3>2, <3>3 DEF Share, Lesser, Greater
  <2> HIDE DEF new, fed, share
  <2> QED
    BY <1>3, <1>4, <1>6, <1>7, <1>10, <2>1, <2>2
<1>11. CASE v[1] # u[1]
  <2> HIDE DEF new, fed, share
  <2> QED
    BY <1>3, <1>4, <1>7, <1>11
<1> QED
  <2> HIDE DEF new
  <2> QED
    BY <1>8, <1>9, <1>10, <1>11
LEMMA SameHpIsFair ==
  ASSUME NEW us \in Table, NEW new \in Table, NEW u, \A v \in Members : new[v].hp = us[v].hp
  PROVE  Fair(u, us, new)
<1>1. \A v \in Members : us[v].hp \in Nat
  BY HpIsNatural
<1>2. \A s : Hp(new, s) = Hp(us, s)
  BY DEF Hp
<1>3. \A s : HpOf(new, s) = HpOf(us, s) /\ HpOf(us, s) \in Int
  BY <1>2, HpIsNatural DEF HpOf
<1>4. /\ HpOf(new, u[1]) = HpOf(us, u[1]) /\ HpOf(us, u[1]) \in Int
      /\ HpOf(new, Opposite(u[1])) = HpOf(us, Opposite(u[1])) /\ HpOf(us, Opposite(u[1])) \in Int
  BY <1>3
<1> QED
  BY <1>1, <1>4 DEF Fair

(* Each of the four attacks on the enemy is fair.                          *)
LEMMA EffectIsFair ==
  ASSUME roster \in Rosters, NEW us \in Table, Clean(us), NEW u \in Members, us[u].alive,
         NEW attack \in Attack, attack.class \in EnemyClass,
         NEW T \in SUBSET Members, \A t \in T : t[1] = Opposite(u[1]),
         Effect(us, u, attack, T) \in Table
  PROVE  Fair(u, us, Effect(us, u, attack, T))
<1> DEFINE damage == attack.damage
           hit == DamageAll(us, T, damage)
           budget == DamageDealt(us, Opposite(u[1]), T, damage) \div 2
           new == Effect(us, u, attack, T)
           none == [k \in Slot |-> 0]
           own == [k \in Slot |-> IF k = u[2] THEN Fed(hit, u, budget) ELSE 0]
<1>1. damage \in Nat
  BY DEF Attack
<1>2. hit \in Table
  <2> HIDE DEF damage
  <2> QED
    BY <1>1, DamageAllEffect
<1>3. budget \in Nat
  <2>1. Opposite(u[1]) \in Side
    BY UnitsArePairs DEF Side, Opposite
  <2> HIDE DEF damage
  <2> QED
    BY <1>1, <2>1, BudgetIsNat
<1>4. \A v \in Members : v = <<v[1], v[2]>> /\ v[2] \in Slot
  BY UnitsArePairs
<1>5. \A v \in Members : hit[v].hp \in Nat
  <2> HIDE DEF hit
  <2> QED
    BY <1>2, HpIsNatural
<1>6. CASE attack.class = "Damage"
  <2>1. new = hit
    BY <1>6 DEF Effect
  <2>2. none \in [Slot -> Nat] /\ SlotSum(none) <= budget
    <3>1. SlotSum(none) = 0
      BY DEF SlotSum, Slot
    <3> HIDE DEF none, budget
    <3> QED
      BY <1>3, <3>1 DEF none
  <2>3. \A v \in Members : hit[v].hp = hit[v].hp + none[v[2]]
    <3>1. \A v \in Members : none[v[2]] = 0
      BY <1>4
    <3> HIDE DEF none, hit
    <3> QED
      BY <1>5, <3>1
  <2> HIDE DEF none, damage
  <2> QED
    BY <1>1, <1>2, <2>1, <2>2, <2>3, DrainIsFair
<1>7. CASE attack.class = "Drain"
  <2>1. new = Healed(hit, {u}, budget)
    BY <1>7 DEF Effect, Drained
  <2>2. own \in [Slot -> Nat] /\ SlotSum(own) <= budget
    <3>1. Fed(hit, u, budget) \in Nat /\ Fed(hit, u, budget) <= budget
      <4> HIDE DEF hit, budget
      <4> QED
        BY <1>2, <1>3, MissingIsNat DEF Fed, Lesser
    <3> DEFINE fed == Fed(hit, u, budget)
    <3> HIDE DEF fed
    <3>2. own = [k \in Slot |-> IF k = u[2] THEN fed ELSE 0]
      BY DEF fed
    <3>3. own \in [Slot -> Nat] /\ own \in [Slot -> Int]
          /\ own[u[2]] = fed /\ \A k \in Slot : k # u[2] => own[k] = 0
      BY <1>4, <3>1, <3>2 DEF fed
    <3> HIDE DEF own, budget
    <3>4. SlotSum(own) = own[u[2]]
      BY <1>4, <3>3, SumsOfSlots
    <3> QED
      BY <3>1, <3>3, <3>4 DEF fed
  <2>3. \A v \in Members : /\ v[1] = u[1] => new[v].hp = hit[v].hp + own[v[2]]
                           /\ v[1] # u[1] => new[v].hp = hit[v].hp
    <3> SUFFICES ASSUME NEW v \in Members
                 PROVE  /\ v[1] = u[1] => new[v].hp = hit[v].hp + own[v[2]]
                        /\ v[1] # u[1] => new[v].hp = hit[v].hp
      OBVIOUS
    <3>1. own[v[2]] = IF v[2] = u[2] THEN Fed(hit, u, budget) ELSE 0
      BY <1>4
    <3> HIDE DEF hit, budget, own, new
    <3>2. /\ v = u => new[v].hp = hit[v].hp + Fed(hit, u, budget)
          /\ v # u => new[v].hp = hit[v].hp
      BY <1>2, <1>3, <2>1, FedHp
    <3>3. v = u <=> v[1] = u[1] /\ v[2] = u[2]
      BY <1>4
    <3> QED
      BY <1>5, <3>1, <3>2, <3>3
  <2> HIDE DEF damage, own, new
  <2> QED
    BY <1>1, <2>2, <2>3, DrainIsFair DEF new
<1>8. CASE attack.class = "DrainOverflow"
  <2>1. new = DrainedOverflow(us, u, T, damage)
    BY <1>8 DEF Effect
  <2> DEFINE gains == Gains(hit, u, budget)
  <2>2. gains \in [Slot -> Nat] /\ SlotSum(gains) <= budget
    <3> HIDE DEF hit, budget
    <3> QED
      BY <1>2, <1>3, GainsFit
  <2> HIDE DEF damage, new
  <2>3. \A v \in Members : /\ v[1] = u[1] => new[v].hp = hit[v].hp + gains[v[2]]
                           /\ v[1] # u[1] => new[v].hp = hit[v].hp
    BY <1>1, <2>1, DrainedOverflowHp
  <2> HIDE DEF gains
  <2> QED
    BY <1>1, <2>2, <2>3, DrainIsFair DEF new
<1>9. CASE attack.class = "Petrify"
  <2>1. new = Petrified(us, T)
    BY <1>9 DEF Effect
  <2>2. \A v \in Members : Petrified(us, T)[v].hp = us[v].hp
    BY DEF Petrified, Table, UnitState
  <2> HIDE DEF new
  <2> QED
    BY <2>1, <2>2, SameHpIsFair DEF new
<1> QED
  BY <1>6, <1>7, <1>8, <1>9 DEF EnemyClass
LEMMA ComponentIsFair ==
  ASSUME roster \in Rosters, NEW us \in Table, Clean(us), NEW u \in Members, us[u].alive,
         NEW attack \in Attack, NEW target, AttackVerdict(u, target) = "None",
         attack.class \in EnemyClass, AimsAtEnemy(u),
         ~EffectThrows(us, u, attack, ComponentTargets(us, u, target, attack))
  PROVE  Fair(u, us, Component(us, u, target, attack))
<1> DEFINE T == ComponentTargets(us, u, target, attack)
<1>1. \A t \in T : t \in Members /\ t[1] = TargetSide(u)
  BY AcceptedTargets
<1>2. CASE T = {}
  <2>1. Component(us, u, target, attack) = us
    BY <1>2 DEF Component
  <2> QED
    BY <2>1, SameHpIsFair
<1>3. CASE T # {}
  <2>1. Component(us, u, target, attack) = Effect(us, u, attack, T)
    BY <1>3 DEF Component
  <2>2. T \in SUBSET Members /\ \A t \in T : t[1] = Opposite(u[1])
    BY <1>1 DEF TargetSide
  <2>3. Component(us, u, target, attack) \in Table
    BY ComponentKeepsTables
  <2> HIDE DEF T
  <2> QED
    BY <2>1, <2>2, <2>3, EffectIsFair
<1> QED
  BY <1>2, <1>3

LEMMA AttackIsFair ==
  ASSUME roster \in Rosters, units \in Table, Clean(units), NEW u \in Members, units[u].alive,
         NEW target, AttackVerdict(u, target) = "None", ~Throws(u, target), AimsAtEnemy(u)
  PROVE  Fair(u, units, AfterAttack(u, target))
<1> DEFINE first == roster.primary[u]
           second == roster.secondary[u]
           mid == AfterPrimary(u, target)
<1>1. first \in Attack /\ second \in Attack
  BY RosterFacts
<1>2. /\ first.class \in EnemyClass
      /\ HasSecondary(u) => second.class \in EnemyClass
  BY AcceptedTargets DEF BundleSupported, AimsAtEnemy
<1>3. mid = Component(units, u, target, first)
  BY DEF AfterPrimary
<1>4. ~EffectThrows(units, u, first, ComponentTargets(units, u, target, first))
  BY DEF Throws
<1>5. mid \in Table /\ Clean(mid) /\ mid[u].alive /\ Fair(u, units, mid)
  <2> HIDE DEF first, mid
  <2>1. mid \in Table /\ Clean(mid) /\ mid[u].alive
    BY <1>1, <1>2, <1>3, <1>4, ComponentKeepsTables
  <2>2. Fair(u, units, mid)
    BY <1>1, <1>2, <1>3, <1>4, ComponentIsFair
  <2> QED
    BY <2>1, <2>2
<1>6. CASE HasSecondary(u)
  <2> DEFINE new == Component(mid, u, target, second)
  <2>1. AfterAttack(u, target) = new
    BY <1>6 DEF AfterAttack
  <2>2. ~EffectThrows(mid, u, second, ComponentTargets(mid, u, target, second))
    BY <1>6 DEF Throws
  <2> HIDE DEF first, second, mid
  <2>3. new \in Table
    BY <1>1, <1>2, <1>5, <1>6, <2>2, ComponentKeepsTables
  <2>4. Fair(u, mid, new)
    BY <1>1, <1>2, <1>5, <1>6, <2>2, ComponentIsFair
  <2> HIDE DEF new
  <2> QED
    BY <1>5, <2>1, <2>3, <2>4, FairAddsUp
<1>7. CASE ~HasSecondary(u)
  <2>1. AfterAttack(u, target) = mid
    BY <1>7 DEF AfterAttack
  <2> HIDE DEF mid
  <2> QED
    BY <1>5, <2>1
<1> QED
  BY <1>6, <1>7

(* A fair step gives half of what it takes.                                *)
LEMMA FairGivesHalf ==
  ASSUME roster \in Rosters, units \in Table, units' \in Table, roster' = roster,
         NEW u \in Members, Fair(u, units, units')
  PROVE  2 * SideSum(u[1], Gain) <= SideSum(Opposite(u[1]), Loss)
<1> DEFINE mine == u[1]
           theirs == Opposite(u[1])
           gain == [k \in Slot |-> IF <<mine, k>> \in Members THEN Gain(<<mine, k>>) ELSE 0]
           loss == [k \in Slot |-> IF <<theirs, k>> \in Members THEN Loss(<<theirs, k>>) ELSE 0]
           old(s) == Hp(units, s)
           new(s) == Hp(units', s)
<1>1. \A v \in Members : units[v].hp \in Nat /\ units'[v].hp \in Nat
  BY HpIsNatural
<1>2. /\ \A v \in Members : v[1] = mine => Gain(v) = units'[v].hp - units[v].hp
      /\ \A v \in Members : v[1] = theirs => Loss(v) = units[v].hp - units'[v].hp
  BY <1>1 DEF Fair, Gain, Loss, Greater
<1>3. \A s : /\ old(s) \in [Slot -> Int] /\ new(s) \in [Slot -> Int]
             /\ \A k \in Slot : old(s)[k] = IF <<s, k>> \in Members THEN units[<<s, k>>].hp ELSE 0
             /\ \A k \in Slot : new(s)[k] = IF <<s, k>> \in Members THEN units'[<<s, k>>].hp ELSE 0
  BY HpIsNatural
<1>4. ASSUME NEW k \in Slot PROVE gain[k] \in Int /\ new(mine)[k] = old(mine)[k] + gain[k]
  <2> DEFINE v == <<mine, k>>
  <2>1. /\ gain[k] = IF v \in Members THEN Gain(v) ELSE 0
        /\ old(mine)[k] = IF v \in Members THEN units[v].hp ELSE 0
        /\ new(mine)[k] = IF v \in Members THEN units'[v].hp ELSE 0
    BY <1>3
  <2>2. v[1] = mine
    OBVIOUS
  <2> HIDE DEF v, gain, old, new, mine
  <2>3. CASE v \in Members
    BY <1>1, <1>2, <2>1, <2>2, <2>3
  <2>4. CASE v \notin Members
    BY <2>1, <2>4
  <2> QED
    BY <2>3, <2>4
<1>5. ASSUME NEW k \in Slot PROVE loss[k] \in Int /\ old(theirs)[k] = new(theirs)[k] + loss[k]
  <2> DEFINE v == <<theirs, k>>
  <2>1. /\ loss[k] = IF v \in Members THEN Loss(v) ELSE 0
        /\ old(theirs)[k] = IF v \in Members THEN units[v].hp ELSE 0
        /\ new(theirs)[k] = IF v \in Members THEN units'[v].hp ELSE 0
    BY <1>3
  <2>2. v[1] = theirs
    OBVIOUS
  <2> HIDE DEF v, loss, old, new, theirs
  <2>3. CASE v \in Members
    BY <1>1, <1>2, <2>1, <2>2, <2>3
  <2>4. CASE v \notin Members
    BY <2>1, <2>4
  <2> QED
    BY <2>3, <2>4
<1>6. gain \in [Slot -> Int] /\ loss \in [Slot -> Int]
  BY <1>4, <1>5
<1> DEFINE o1 == old(mine)
           n1 == new(mine)
           o2 == old(theirs)
           n2 == new(theirs)
<1>7. o1 \in [Slot -> Int] /\ n1 \in [Slot -> Int] /\ o2 \in [Slot -> Int] /\ n2 \in [Slot -> Int]
  BY <1>3
<1>8. 2 * (SlotSum(n1) - SlotSum(o1)) <= SlotSum(o2) - SlotSum(n2)
  BY DEF Fair, HpOf
<1>9. SideSum(mine, Gain) = SlotSum(gain) /\ SideSum(theirs, Loss) = SlotSum(loss)
  BY DEF SideSum
<1>10. /\ \A k \in Slot : n1[k] = o1[k] + gain[k]
       /\ \A k \in Slot : o2[k] = n2[k] + loss[k]
  BY <1>4, <1>5
<1> HIDE DEF gain, loss, old, new, mine, theirs, o1, n1, o2, n2
<1>11. SlotSum(n1) = SlotSum(o1) + SlotSum(gain)
  BY <1>6, <1>7, <1>10, SumsOfSlots
<1>12. SlotSum(o2) = SlotSum(n2) + SlotSum(loss)
  BY <1>6, <1>7, <1>10, SumsOfSlots
<1>13. /\ SlotSum(n1) \in Int /\ SlotSum(o1) \in Int /\ SlotSum(o2) \in Int /\ SlotSum(n2) \in Int
       /\ SlotSum(gain) \in Int /\ SlotSum(loss) \in Int
  BY <1>6, <1>7, SumsOfSlots
<1>14. 2 * SlotSum(gain) <= SlotSum(loss)
  BY <1>8, <1>11, <1>12, <1>13
<1> QED
  BY <1>9, <1>14 DEF mine, theirs
LEMMA NeedsGrow ==
  ASSUME NEW need \in [Slot -> Nat], NEW j \in Slot, NEW k \in Slot, j < k
  PROVE  /\ NeedBefore(need, j) \in Nat /\ NeedBefore(need, k) \in Nat
         /\ NeedBefore(need, j) + need[j] <= NeedBefore(need, k)
<1>1. \A i \in {0, 1, 2, 3, 4, 5} : i \in Slot /\ need[i] \in Nat
  BY DEF Slot
<1>2. j \in {0, 1, 2, 3, 4} /\ k \in {1, 2, 3, 4, 5}
  BY DEF Slot
<1> DEFINE before(i) == NeedBefore(need, i)
<1>3. /\ before(0) = 0 /\ before(1) = need[0] /\ before(2) = need[0] + need[1]
      /\ before(3) = need[0] + need[1] + need[2]
      /\ before(4) = need[0] + need[1] + need[2] + need[3]
      /\ before(5) = need[0] + need[1] + need[2] + need[3] + need[4]
  BY NeedsBefore
<1> HIDE DEF before
<1>4. /\ before(0) \in Nat /\ before(1) \in Nat /\ before(2) \in Nat
      /\ before(3) \in Nat /\ before(4) \in Nat /\ before(5) \in Nat
  BY <1>1, <1>3
<1>5. before(j) \in Nat /\ before(k) \in Nat
  BY <1>2, <1>4
<1>6. before(j) + need[j] <= before(k)
  <2>1. CASE j = 0
    BY <1>1, <1>2, <1>3, <2>1
  <2>2. CASE j = 1
    BY <1>1, <1>2, <1>3, <2>2
  <2>3. CASE j = 2
    BY <1>1, <1>2, <1>3, <2>3
  <2>4. CASE j = 3
    BY <1>1, <1>2, <1>3, <2>4
  <2>5. CASE j = 4
    BY <1>1, <1>2, <1>3, <2>5
  <2> QED
    BY <1>2, <2>1, <2>2, <2>3, <2>4, <2>5
<1> QED
  BY <1>5, <1>6 DEF before

(* Who gets a point of an overflowing drain comes after units that miss    *)
(* none any more.                                                          *)
FeedsInOrder(u, old, new) ==
  \A v \in Alive(old) \ {u} :
    v[1] = u[1] /\ new[v].hp > old[v].hp =>
      \A w \in Alive(old) : w = u \/ (w[1] = v[1] /\ w[2] < v[2]) => new[w].hp >= roster.maxHp[w]

LEMMA DrainedOverflowFeedsInOrder ==
  ASSUME roster \in Rosters, NEW us \in Table, Clean(us), NEW u \in Members, us[u].alive,
         NEW T \in SUBSET Members, \A t \in T : t[1] = Opposite(u[1]), NEW damage \in Nat
  PROVE  FeedsInOrder(u, us, DrainedOverflow(us, u, T, damage))
<1> DEFINE hit == DamageAll(us, T, damage)
           budget == DamageDealt(us, Opposite(u[1]), T, damage) \div 2
           new == DrainedOverflow(us, u, T, damage)
           fed == Fed(hit, u, budget)
           rest == budget - fed
           need == Needs(hit, u)
<1>1. hit \in Table /\ \A v \in Members : v[1] = u[1] => hit[v] = us[v]
  <2>1. \A v \in Members : v[1] = u[1] => v \in Members \ T
    BY UnitsArePairs DEF Side, Opposite
  <2> QED
    BY <2>1, DamageAllEffect, Zenon
<1>2. budget \in Nat
  <2>1. Opposite(u[1]) \in Side
    BY UnitsArePairs DEF Side, Opposite
  <2> QED
    BY <2>1, BudgetIsNat
<1>3. \A v \in Members : v = <<v[1], v[2]>> /\ v[2] \in Slot
  BY UnitsArePairs
<1>4. \A v \in Members : v[1] = u[1] => new[v].hp = us[v].hp + Gains(hit, u, budget)[v[2]]
  <2>1. \A v \in Members : v[1] = u[1] => new[v].hp = hit[v].hp + Gains(hit, u, budget)[v[2]]
    BY DrainedOverflowHp
  <2> HIDE DEF hit, new, budget
  <2> QED
    BY <1>1, <2>1
<1> HIDE DEF hit, budget, new
<1>5. fed \in Nat /\ rest \in Nat /\ need \in [Slot -> Nat]
  BY <1>1, <1>2, GainsFit
<1>6. \A v \in Members : /\ us[v].hp \in Nat /\ roster.maxHp[v] \in Nat /\ Missing(hit, v) \in Nat
                         /\ v[1] = u[1] => us[v].hp + Missing(hit, v) >= roster.maxHp[v]
  <2>1. \A v \in Members : us[v].hp \in Nat /\ hit[v].hp \in Nat /\ roster.maxHp[v] \in Nat
    BY <1>1, HpIsNatural, RosterFacts
  <2> QED
    BY <1>1, <2>1 DEF Missing, Greater
<1>7. Gains(hit, u, budget)[u[2]] = fed
      /\ \A k \in Slot : k # u[2] => Gains(hit, u, budget)[k] = Share(need, rest, k)
  BY <1>3 DEF Gains
<1> SUFFICES ASSUME NEW v \in Alive(us) \ {u}, v[1] = u[1], new[v].hp > us[v].hp,
                    NEW w \in Alive(us), w = u \/ (w[1] = v[1] /\ w[2] < v[2])
             PROVE  new[w].hp >= roster.maxHp[w]
  BY DEF FeedsInOrder, new
<1>8. v \in Members /\ w \in Members /\ v # u /\ v[2] \in Slot /\ w[2] \in Slot /\ w[1] = u[1]
  BY <1>3 DEF Alive
<1>9. v[2] # u[2]
  BY <1>3, <1>8
<1>10. NeedBefore(need, v[2]) \in Nat /\ need[v[2]] \in Nat
  <2>1. [j \in Slot |-> IF j < v[2] THEN need[j] ELSE 0] \in [Slot -> Nat]
    BY <1>5
  <2> HIDE DEF need
  <2> QED
    BY <1>5, <1>8, <2>1, SlotSums DEF NeedBefore
<1>11. NeedBefore(need, v[2]) < rest
  <2>1. new[v].hp = us[v].hp + Share(need, rest, v[2])
    BY <1>4, <1>7, <1>8, <1>9
  <2> HIDE DEF rest, need
  <2>2. Share(need, rest, v[2]) \in Nat
    BY <1>5, <1>10 DEF Share, Lesser, Greater
  <2>3. Share(need, rest, v[2]) > 0
    BY <1>6, <1>8, <2>1, <2>2
  <2> QED
    BY <1>5, <1>10, <2>3 DEF Share, Lesser, Greater
<1>12. CASE w = u
  <2>1. fed = Missing(hit, u)
    <3>1. fed # budget
      BY <1>2, <1>5, <1>10, <1>11
    <3> QED
      BY <3>1 DEF Fed, Lesser
  <2>2. new[u].hp = us[u].hp + Missing(hit, u)
    BY <1>4, <1>7, <2>1
  <2> QED
    BY <1>6, <1>12, <2>2
<1>13. CASE w # u /\ w[2] < v[2]
  <2>1. w[2] # u[2]
    BY <1>3, <1>8, <1>13
  <2>2. w[2] \in Allies(hit, u)
    <3>1. w = <<u[1], w[2]>> /\ us[w].alive
      BY <1>3, <1>8 DEF Alive
    <3>2. hit[w].alive
      BY <1>1, <1>8, <3>1
    <3> QED
      BY <1>8, <1>13, <3>1, <3>2 DEF Allies, AliveOf, Alive
  <2>3. need[w[2]] = Missing(hit, w)
    <3>1. w = <<u[1], w[2]>>
      BY <1>3, <1>8
    <3> QED
      BY <1>8, <2>2, <3>1 DEF Needs
  <2> HIDE DEF need, rest
  <2>4. /\ NeedBefore(need, w[2]) \in Nat
        /\ NeedBefore(need, w[2]) + need[w[2]] <= NeedBefore(need, v[2])
    BY <1>5, <1>8, <1>13, NeedsGrow
  <2>5. Share(need, rest, w[2]) = need[w[2]]
    <3>1. need[w[2]] \in Nat
      BY <1>5, <1>8
    <3> QED
      BY <1>5, <1>10, <1>11, <2>4, <3>1 DEF Share, Lesser, Greater
  <2>6. new[w].hp = us[w].hp + Missing(hit, w)
    BY <1>4, <1>7, <1>8, <2>1, <2>3, <2>5
  <2> QED
    BY <1>6, <1>8, <2>6
<1> QED
  BY <1>12, <1>13

LEMMA AttackFeedsInOrder ==
  ASSUME roster \in Rosters, units \in Table, Clean(units), NEW u \in Members, units[u].alive,
         NEW target, AttackVerdict(u, target) = "None",
         roster.primary[u].class = "DrainOverflow", ~HasSecondary(u)
  PROVE  FeedsInOrder(u, units, AfterAttack(u, target))
<1> DEFINE first == roster.primary[u]
           T == ComponentTargets(units, u, target, first)
<1>1. first \in Attack /\ first.damage \in Nat
  BY RosterFacts DEF Attack
<1>2. AfterAttack(u, target) = IF T = {} THEN units ELSE Effect(units, u, first, T)
  BY DEF AfterAttack, AfterPrimary, Component
<1>3. \A t \in T : t \in Members /\ t[1] = Opposite(u[1])
  <2>1. \A t \in T : t \in Members /\ t[1] = TargetSide(u)
    BY AcceptedTargets
  <2> QED
    BY <2>1 DEF TargetSide, AimsAtEnemy, EnemyClass
<1>4. CASE T = {}
  <2>1. \A v \in Members : units[v].hp \in Nat
    BY HpIsNatural
  <2> HIDE DEF T, first
  <2>2. AfterAttack(u, target) = units
    BY <1>2, <1>4
  <2> QED
    BY <2>1, <2>2 DEF FeedsInOrder, Alive
<1>5. CASE T # {}
  <2>1. Effect(units, u, first, T) = DrainedOverflow(units, u, T, first.damage)
    BY DEF Effect
  <2>2. T \in SUBSET Members
    BY <1>3
  <2> HIDE DEF T, first
  <2> QED
    BY <1>1, <1>2, <1>3, <1>5, <2>1, <2>2, DrainedOverflowFeedsInOrder
<1> QED
  BY <1>4, <1>5

(* Every step of the battle shares a drain as it should.                   *)
LEMMA StepSharesDrains ==
  ASSUME TypeOK, ValidState, Next
  PROVE  /\ units' \in Table /\ roster' = roster
         /\ AimsAtEnemy(CurrentActor) => Fair(CurrentActor, units, units')
         /\ units[CurrentActor].skips = 0 /\ roster.primary[CurrentActor].class = "DrainOverflow"
              /\ ~HasSecondary(CurrentActor) => FeedsInOrder(CurrentActor, units, units')
<1>1. roster \in Rosters /\ units \in Table /\ Clean(units)
  BY DEF TypeOK, Table, ValidState, DeadAreClean, Clean
<1>2. CASE AttackStep
  <2>1. PICK u \in Members, target \in AttackTarget : DoAttack(u, target)
    BY <1>2 DEF AttackStep
  <2> DEFINE us == AfterAttack(u, target)
  <2>2. AttackVerdict(u, target) = "None" /\ ~Throws(u, target) /\ Settle(us)
    BY <2>1 DEF DoAttack
  <2>3. InProgress /\ u = CurrentActor
    BY <1>1, <2>2, AcceptedTargets DEF InProgress
  <2>4. units[u].alive
    BY <2>3 DEF ValidState, TurnIsPlayable
  <2>5. us \in Table
    BY <1>1, <2>2, <2>4, AttackKeepsTables, Zenon
  <2>6. AimsAtEnemy(u) => Fair(u, units, us)
    BY <1>1, <2>2, <2>4, AttackIsFair, Zenon
  <2>7. roster.primary[u].class = "DrainOverflow" /\ ~HasSecondary(u) => FeedsInOrder(u, units, us)
    BY <1>1, <2>2, <2>4, AttackFeedsInOrder, Zenon
  <2>8. units' = us /\ roster' = roster
    BY <2>2 DEF Settle
  <2> HIDE DEF us
  <2> QED
    BY <2>3, <2>5, <2>6, <2>7, <2>8
<1>3. CASE SkipStep
  <2>1. PICK u \in Members : DoSkip(u)
    BY <1>3 DEF SkipStep
  <2> DEFINE us == [units EXCEPT ![u].skips = @ - 1]
  <2>2. SkipVerdict(u) = "None" /\ Settle(us)
    BY <2>1 DEF DoSkip
  <2>3. us \in Table
    BY <2>2, SkipKeepsTables, Zenon
  <2>4. u = CurrentActor /\ units[u].skips # 0
    BY <2>2, Zenon DEF SkipVerdict
  <2>5. \A v \in Members : us[v].hp = units[v].hp
    BY <1>1 DEF Table, UnitState
  <2>6. units' = us /\ roster' = roster
    BY <2>2 DEF Settle
  <2> HIDE DEF us
  <2>7. Fair(CurrentActor, units, us)
    BY <1>1, <2>3, <2>5, SameHpIsFair
  <2> QED
    BY <2>3, <2>4, <2>6, <2>7
<1> QED
  BY <1>2, <1>3 DEF Next
-----------------------------------------------------------------------------
(* Whatever is drained, by whom and from how many, the attacker's side     *)
(* gets at most half of what the enemy loses, and nobody gets a point of   *)
(* it while a unit due before him still misses one (detail/drain.cpp,      *)
(* detail/drain_overflow.cpp).                                             *)
THEOREM DrainsAreShared == Spec => DrainIsShared
<1> DEFINE Half == InProgress /\ AimsAtEnemy(CurrentActor) =>
                     2 * SideSum(CurrentActor[1], Gain) <= SideSum(Opposite(CurrentActor[1]), Loss)
           Order == InProgress /\ units[CurrentActor].skips = 0
                      /\ roster.primary[CurrentActor].class = "DrainOverflow" /\ ~HasSecondary(CurrentActor) =>
                      \A v \in Alive(units) \ {CurrentActor} :
                        v[1] = CurrentActor[1] /\ Gain(v) > 0 =>
                          \A w \in Alive(units) :
                            w = CurrentActor \/ (w[1] = v[1] /\ w[2] < v[2]) =>
                              units'[w].hp >= roster.maxHp[w]
<1>1. TypeOK /\ ValidState /\ [Next]_vars => [Half]_vars /\ [Order]_vars
  <2> SUFFICES ASSUME TypeOK, ValidState, Next, InProgress PROVE Half /\ Order
    BY DEF vars
  <2>1. /\ units' \in Table /\ roster' = roster
        /\ AimsAtEnemy(CurrentActor) => Fair(CurrentActor, units, units')
        /\ units[CurrentActor].skips = 0 /\ roster.primary[CurrentActor].class = "DrainOverflow"
             /\ ~HasSecondary(CurrentActor) => FeedsInOrder(CurrentActor, units, units')
    BY StepSharesDrains
  <2>2. roster \in Rosters /\ units \in Table /\ CurrentActor \in Members
    BY DEF TypeOK, Table, ValidState, TurnIsPlayable, CurrentActor
  <2>3. Half
    BY <2>1, <2>2, FairGivesHalf
  <2>4. \A v \in Members : Gain(v) > 0 => units'[v].hp > units[v].hp
    <3>1. \A v \in Members : units[v].hp \in Nat /\ units'[v].hp \in Nat
      BY <2>1, <2>2, HpIsNatural
    <3> QED
      BY <3>1 DEF Gain, Greater
  <2>5. Order
    BY <2>1, <2>4 DEF FeedsInOrder, Alive
  <2> QED
    BY <2>3, <2>5
<1>2. Spec => [](TypeOK /\ ValidState)
  BY InitInv, StepKeepsInv, PTL DEF Spec
<1> QED
  BY <1>1, <1>2, PTL DEF Spec, DrainIsShared, DrainGivesHalfAtMost, OverflowFeedsInOrder
-----------------------------------------------------------------------------
(* The fighters of a scenario are finitely many and told apart by their    *)
(* identifiers.                                                            *)
LEMMA FightersAreApart ==
  ASSUME world \in Worlds
  PROVE  /\ IsFiniteSet(Fighters) /\ Cardinality(Fighters) \in Nat
         /\ \A s \in Fighters : s.id \in Int /\ s \in Range(world.stacks) /\ Eligible(s)
         /\ \A s, t \in Fighters : s.id = t.id => s = t
<1> DEFINE S == Range(world.stacks)
<1>1. /\ world.stacks \in Seq(S) /\ \A s \in S : s.id \in Int
      /\ \A i, j \in DOMAIN world.stacks : world.stacks[i].id = world.stacks[j].id => i = j
  BY WorldsAssumption
<1>2. IsFiniteSet(S)
  <2>1. Len(world.stacks) \in Nat /\ DOMAIN world.stacks = 1 .. Len(world.stacks)
    BY <1>1
  <2>2. IsFiniteSet(DOMAIN world.stacks)
    BY <2>1, FS_Interval
  <2>3. world.stacks \in Surjection(DOMAIN world.stacks, S)
    BY <1>1 DEF Surjection, Range
  <2> QED
    BY <2>2, <2>3, FS_Surjection
<1>3. \A s, t \in S : s.id = t.id => s = t
  BY <1>1 DEF Range
<1>4. Fighters \in SUBSET S /\ \A s \in Fighters : Eligible(s)
  BY DEF Fighters
<1>5. IsFiniteSet(Fighters) /\ Cardinality(Fighters) \in Nat
  BY <1>2, <1>4, FS_Subset, FS_CardinalityType
<1> HIDE DEF S
<1> QED
  BY <1>1, <1>3, <1>4, <1>5 DEF S

(* The fighters whose identifiers come before that of s.                   *)
Earlier(s) == {t \in Fighters : t.id < s.id}

LEMMA EarlierGrows ==
  ASSUME world \in Worlds
  PROVE  /\ \A s \in Fighters : Cardinality(Earlier(s)) \in 0 .. Cardinality(Fighters) - 1
         /\ \A s, t \in Fighters : s.id < t.id => Cardinality(Earlier(s)) < Cardinality(Earlier(t))
<1>1. /\ IsFiniteSet(Fighters) /\ Cardinality(Fighters) \in Nat
      /\ \A s \in Fighters : s.id \in Int
  BY FightersAreApart
<1>2. \A s \in Fighters : Earlier(s) \in SUBSET Fighters /\ s \notin Earlier(s)
  BY <1>1 DEF Earlier
<1>3. \A s \in Fighters : IsFiniteSet(Earlier(s)) /\ Cardinality(Earlier(s)) \in Nat
  BY <1>1, <1>2, FS_Subset, FS_CardinalityType
<1>4. \A s \in Fighters : Cardinality(Earlier(s)) < Cardinality(Fighters)
  BY <1>1, <1>2, <1>3, FS_Subset
<1>5. ASSUME NEW s \in Fighters, NEW t \in Fighters, s.id < t.id
      PROVE  Cardinality(Earlier(s)) < Cardinality(Earlier(t))
  <2>1. Earlier(s) \in SUBSET Earlier(t)
    BY <1>1, <1>5 DEF Earlier
  <2>2. s \in Earlier(t) /\ s \notin Earlier(s)
    BY <1>5, <1>2 DEF Earlier
  <2> QED
    BY <2>1, <2>2, <1>3, FS_Subset
<1> QED
  BY <1>1, <1>3, <1>4, <1>5

(* The catalogue exists, and lists every fighter exactly once.             *)
LEMMA FightersAreListed ==
  ASSUME world \in Worlds
  PROVE  /\ Catalog \in [1 .. Cardinality(Fighters) -> Fighters]
         /\ Len(Catalog) = Cardinality(Fighters)
         /\ \A i, j \in 1 .. Cardinality(Fighters) : Catalog[i] = Catalog[j] => i = j
         /\ Range(Catalog) = Fighters
<1> DEFINE N == Cardinality(Fighters)
           place == [s \in Fighters |-> Cardinality(Earlier(s))]
<1>1. /\ IsFiniteSet(Fighters) /\ N \in Nat
      /\ \A s \in Fighters : s.id \in Int
      /\ \A s, t \in Fighters : s.id = t.id => s = t
  BY FightersAreApart
<1>2. place \in [Fighters -> 0 .. N - 1]
  BY EarlierGrows
<1>3. \A s, t \in Fighters : s.id < t.id => place[s] < place[t]
  BY EarlierGrows
<1> HIDE DEF place
<1>4. \A s \in Fighters : place[s] \in Int
  BY <1>1, <1>2
<1>5. \A s, t \in Fighters : place[s] = place[t] => s = t
  BY <1>1, <1>3, <1>4
<1>6. place \in Injection(Fighters, 0 .. N - 1)
  BY <1>2, <1>5 DEF Injection, IsInjective
<1>7. IsFiniteSet(0 .. N - 1) /\ Cardinality(0 .. N - 1) = N
  BY <1>1, FS_Interval
<1>8. place \in Surjection(Fighters, 0 .. N - 1)
  BY <1>1, <1>6, <1>7, FS_Injection
<1> HIDE DEF N
<1> DEFINE c == [i \in 1 .. N |-> CHOOSE s \in Fighters : place[s] = i - 1]
<1>9. \A i \in 1 .. N : c[i] \in Fighters /\ place[c[i]] = i - 1
  <2> SUFFICES ASSUME NEW i \in 1 .. N PROVE c[i] \in Fighters /\ place[c[i]] = i - 1
    OBVIOUS
  <2>1. i - 1 \in 0 .. N - 1
    BY <1>1
  <2>2. \E s \in Fighters : place[s] = i - 1
    BY <1>8, <2>1 DEF Surjection
  <2> QED
    BY <2>2
<1>10. DOMAIN c = 1 .. N /\ c \in [1 .. N -> Fighters]
  BY <1>9
<1> HIDE DEF c
<1>11. \A i, j \in DOMAIN c : i < j => c[i].id < c[j].id
  <2> SUFFICES ASSUME NEW i \in 1 .. N, NEW j \in 1 .. N, i < j PROVE c[i].id < c[j].id
    BY <1>10
  <2>1. c[i] \in Fighters /\ c[j] \in Fighters /\ place[c[i]] < place[c[j]]
    BY <1>1, <1>9
  <2>2. c[i].id # c[j].id /\ ~(c[j].id < c[i].id)
    BY <1>1, <1>3, <1>4, <2>1
  <2> QED
    BY <1>1, <2>1, <2>2
<1>12. Catalog \in [1 .. N -> Fighters] /\ \A i, j \in DOMAIN Catalog : i < j => Catalog[i].id < Catalog[j].id
  BY <1>10, <1>11, Zenon DEF Catalog, N
<1>13. \A i, j \in 1 .. N : Catalog[i] = Catalog[j] => i = j
  <2> SUFFICES ASSUME NEW i \in 1 .. N, NEW j \in 1 .. N, Catalog[i] = Catalog[j], i # j PROVE FALSE
    OBVIOUS
  <2>1. DOMAIN Catalog = 1 .. N /\ Catalog[i].id \in Int
    BY <1>1, <1>12
  <2>2. i < j \/ j < i
    BY <1>1
  <2> QED
    BY <1>12, <2>1, <2>2
<1>14. Range(Catalog) = Fighters
  <2>1. Catalog \in Injection(1 .. N, Fighters)
    BY <1>12, <1>13 DEF Injection, IsInjective
  <2>2. IsFiniteSet(1 .. N) /\ Cardinality(1 .. N) = N
    BY <1>1, FS_Interval
  <2>3. Catalog \in Surjection(1 .. N, Fighters)
    BY <1>1, <2>1, <2>2, FS_Injection DEF N
  <2> QED
    BY <1>12, <2>3 DEF Range, Surjection
<1>15. Len(Catalog) = N
  BY <1>1, <1>12
<1> QED
  BY <1>12, <1>13, <1>14, <1>15 DEF N
-----------------------------------------------------------------------------
(* Division with remainder: q * m + r is divided back into q and r.        *)
LEMMA DivisionIsExact ==
  ASSUME NEW m \in Nat, m > 0, NEW q \in Nat, NEW r \in 0 .. m - 1
  PROVE  (q * m + r) \div m = q /\ (q * m + r) % m = r
<1> DEFINE x == q * m + r
           p == x \div m
           s == x % m
<1>1. x \in Nat
  OBVIOUS
<1>2. p \in Int /\ s \in 0 .. m - 1 /\ x = m * p + s
  BY <1>1
<1> QED
  BY <1>2

(* Every directed pair of two places of the catalogue is one of the pairs. *)
LEMMA PairsAreAll ==
  ASSUME world \in Worlds
  PROVE  LET n == Cardinality(Fighters)
         IN  /\ PairCount(n) \in Nat /\ DOMAIN Pairs = 1 .. PairCount(n) /\ Len(Pairs) = PairCount(n)
             /\ \A i \in DOMAIN Pairs :
                  Pairs[i][1] \in 1 .. n /\ Pairs[i][2] \in 1 .. n /\ Pairs[i][1] # Pairs[i][2]
             /\ \A a, b \in 1 .. n : a # b => \E i \in DOMAIN Pairs : Pairs[i] = <<a, b>>
<1> DEFINE n == Cardinality(Fighters)
           K == PairCount(n)
           A(i) == (i - 1) \div (n - 1) + 1
           R(i) == ((i - 1) % (n - 1)) + 1
           B(i) == IF R(i) < A(i) THEN R(i) ELSE R(i) + 1
<1>1. n \in Nat
  BY FightersAreApart
<1>2. K = n * (n - 1)
  BY DEF PairCount
<1>3. Pairs = [i \in 1 .. K |-> <<A(i), B(i)>>]
  BY Zenon DEF Pairs
<1> HIDE DEF n, K
<1>4. K \in Nat
  <2>1. CASE n = 0
    BY <1>2, <2>1
  <2>2. CASE n # 0
    <3>1. n - 1 \in Nat
      BY <1>1, <2>2
    <3> DEFINE m == n - 1
    <3>2. K = n * m
      BY <1>2
    <3> HIDE DEF m
    <3> QED
      BY <1>1, <3>1, <3>2 DEF m
  <2> QED
    BY <2>1, <2>2
<1>5. DOMAIN Pairs = 1 .. K /\ Len(Pairs) = K
  BY <1>3, <1>4
<1>6. ASSUME NEW i \in 1 .. K
      PROVE  A(i) \in 1 .. n /\ R(i) \in 1 .. n - 1
  <2> DEFINE m == n - 1
             j == i - 1
             q == j \div m
             r == j % m
  <2>1. n # 0 /\ n # 1
    <3>1. n = 0 => K = 0
      BY <1>2
    <3>2. n = 1 => K = 0
      BY <1>2
    <3> QED
      BY <1>4, <3>1, <3>2
  <2>2. m \in Nat /\ m > 0 /\ n = m + 1
    BY <1>1, <2>1
  <2>3. j \in Nat /\ j < K
    BY <1>4
  <2>4. K = m * n
    BY <1>1, <1>2, <2>2
  <2> HIDE DEF m, j
  <2>5. q \in Int /\ r \in 0 .. m - 1 /\ j = m * q + r
    BY <2>2, <2>3
  <2> HIDE DEF q, r
  <2>6. q >= 0
    <3> SUFFICES ASSUME q < 0 PROVE FALSE
      BY <2>5
    <3>1. m * q <= -m
      BY <2>2, <2>5
    <3> DEFINE z == m * q
    <3>2. z \in Int
      BY <2>2, <2>5
    <3> HIDE DEF z
    <3> QED
      BY <2>2, <2>3, <2>5, <3>1, <3>2 DEF z
  <2>7. q < n
    <3> SUFFICES ASSUME q >= n PROVE FALSE
      BY <1>1, <2>5
    <3>1. m * q >= m * n
      BY <1>1, <2>2, <2>5
    <3> DEFINE z == m * q
    <3>2. z \in Int
      BY <2>2, <2>5
    <3> HIDE DEF z
    <3> QED
      BY <1>4, <2>2, <2>3, <2>4, <2>5, <3>1, <3>2 DEF z
  <2>8. A(i) = q + 1 /\ R(i) = r + 1
    BY DEF m, j, q, r
  <2> HIDE DEF A, R
  <2> QED
    BY <1>1, <2>2, <2>5, <2>6, <2>7, <2>8
<1>7. \A i \in 1 .. K : Pairs[i] = <<A(i), B(i)>>
  BY <1>3
<1>8. \A i \in DOMAIN Pairs :
        Pairs[i][1] \in 1 .. n /\ Pairs[i][2] \in 1 .. n /\ Pairs[i][1] # Pairs[i][2]
  <2> SUFFICES ASSUME NEW i \in 1 .. K
               PROVE  Pairs[i][1] \in 1 .. n /\ Pairs[i][2] \in 1 .. n /\ Pairs[i][1] # Pairs[i][2]
    BY <1>5
  <2>1. Pairs[i][1] = A(i) /\ Pairs[i][2] = IF R(i) < A(i) THEN R(i) ELSE R(i) + 1
    BY <1>7
  <2>2. A(i) \in 1 .. n /\ R(i) \in 1 .. n - 1
    BY <1>6
  <2> HIDE DEF A, R
  <2> QED
    BY <1>1, <2>1, <2>2
<1>9. ASSUME NEW a \in 1 .. n, NEW b \in 1 .. n, a # b
      PROVE  \E i \in DOMAIN Pairs : Pairs[i] = <<a, b>>
  <2> DEFINE m == n - 1
             q == a - 1
             r == IF b < a THEN b - 1 ELSE b - 2
             x == q * m + r
  <2>1. m \in Nat /\ m > 0 /\ n = m + 1
    BY <1>1, <1>9
  <2>2. q \in Nat /\ r \in 0 .. m - 1 /\ q <= m
    BY <1>1, <1>9
  <2>3. (q * m + r) \div m = q /\ (q * m + r) % m = r
    <3> HIDE DEF m, q, r
    <3> QED
      BY <2>1, <2>2, DivisionIsExact
  <2>4. x \in Nat /\ x < K
    <3>1. K = m * m + m
      BY <1>1, <1>2, <2>1
    <3> HIDE DEF m, q, r
    <3>2. q * m <= m * m /\ q * m \in Nat
      BY <2>1, <2>2
    <3> DEFINE y == q * m
               z == m * m
    <3>3. z \in Nat
      BY <2>1
    <3> HIDE DEF y, z
    <3> QED
      BY <2>1, <2>2, <3>1, <3>2, <3>3 DEF y, z
  <2>5. x \div m = q /\ x % m = r
    BY <2>3
  <2> HIDE DEF x
  <2>6. x + 1 \in 1 .. K /\ (x + 1) - 1 = x
    BY <1>4, <2>4
  <2>7. A(x + 1) = a /\ R(x + 1) = r + 1
    BY <2>5, <2>6
  <2>8. Pairs[x + 1] = <<a, IF r + 1 < a THEN r + 1 ELSE (r + 1) + 1>>
    <3> HIDE DEF A, R, r
    <3> QED
      BY <1>7, <2>6, <2>7
  <2>9. (IF r + 1 < a THEN r + 1 ELSE (r + 1) + 1) = b
    BY <1>1, <1>9
  <2> HIDE DEF r
  <2> QED
    BY <1>5, <2>6, <2>8, <2>9
<1> QED
  BY <1>4, <1>5, <1>8, <1>9 DEF n, K
-----------------------------------------------------------------------------
(* The summary of the sweep as an invariant: one entry per pair, in the    *)
(* order of the pairs, and counters that agree with the entries.           *)
Entries ==
  [pair : Int \X Int, status : Statuses \ {"Running"}, winner : {NoSide} \cup Side,
   rounds : Nat, actions : Nat]

PairIds(i) == <<Catalog[Pairs[i][1]].id, Catalog[Pairs[i][2]].id>>
WinsOf(p) == Cardinality({i \in DOMAIN entries : entries[i].winner = p})

EntriesFollowPairs ==
  /\ entries \in Seq(Entries)
  /\ Len(entries) <= Len(Pairs)
  /\ \A i \in DOMAIN entries : entries[i].pair = PairIds(i)

CountersAgree ==
  /\ counts \in [Statuses \ {"Running"} -> Nat] /\ total \in Nat /\ wins \in [Side -> Nat]
  /\ \A s \in DOMAIN counts : counts[s] = CountOf(s)
  /\ total = Len(entries) - CountOf("AbortedBootstrapFailure")
  /\ \A p \in Side : wins[p] = WinsOf(p)

StageFits ==
  /\ stage \in {"Load", "Pair", "Battle", "Ended"}
  /\ stage = "Load" => exit = NoExit
  /\ stage \in {"Pair", "Battle"} => world.loads /\ exit = NoExit
  /\ stage = "Battle" => Len(entries) < Len(Pairs)
  /\ stage = "Ended" => IF world.loads THEN Len(entries) = Len(Pairs) /\ exit = ExitCode ELSE exit = 1

Book == world \in Worlds /\ EntriesFollowPairs /\ CountersAgree /\ FinishedMeansWon

(* The stacks of the next pair are two different fighters.                 *)
LEMMA NextPair ==
  ASSUME world \in Worlds, entries \in Seq(Entries), Sequence <= Len(Pairs)
  PROVE  /\ First \in Fighters /\ Second \in Fighters /\ First # Second
         /\ First \in Range(world.stacks) /\ Second \in Range(world.stacks)
         /\ Eligible(First) /\ Eligible(Second)
         /\ <<First.id, Second.id>> \in Int \X Int
         /\ <<First.id, Second.id>> = PairIds(Sequence)
<1> DEFINE n == Cardinality(Fighters)
<1>1. Sequence \in DOMAIN Pairs
  <2>1. Len(entries) \in Nat
    OBVIOUS
  <2>2. PairCount(n) \in Nat /\ DOMAIN Pairs = 1 .. PairCount(n) /\ Len(Pairs) = PairCount(n)
    BY PairsAreAll
  <2> HIDE DEF n
  <2> QED
    BY <2>1, <2>2 DEF Sequence
<1>2. /\ Pairs[Sequence][1] \in 1 .. n /\ Pairs[Sequence][2] \in 1 .. n
      /\ Pairs[Sequence][1] # Pairs[Sequence][2]
  BY <1>1, PairsAreAll
<1>3. /\ Catalog \in [1 .. n -> Fighters]
      /\ \A i, j \in 1 .. n : Catalog[i] = Catalog[j] => i = j
  BY FightersAreListed
<1>4. First \in Fighters /\ Second \in Fighters /\ First # Second
  BY <1>2, <1>3 DEF First, Second
<1>5. \A s \in Fighters : s.id \in Int /\ s \in Range(world.stacks) /\ Eligible(s)
  BY FightersAreApart
<1>6. <<First.id, Second.id>> = PairIds(Sequence)
  BY DEF First, Second, PairIds
<1> QED
  BY <1>4, <1>5, <1>6

(* One more entry is one more of its status and of its winner.             *)
LEMMA EntryIsCounted ==
  ASSUME entries \in Seq(Entries), NEW e \in Entries, entries' = Append(entries, e)
  PROVE  /\ entries' \in Seq(Entries) /\ Len(entries') = Len(entries) + 1
         /\ \A i \in DOMAIN entries' : entries'[i] = IF i \in DOMAIN entries THEN entries[i] ELSE e
         /\ \A i \in DOMAIN entries' : i \in DOMAIN entries \/ i = Len(entries) + 1
         /\ \A s : /\ CountOf(s) \in Nat
                   /\ e.status = s => CountOf(s)' = CountOf(s) + 1
                   /\ e.status # s => CountOf(s)' = CountOf(s)
         /\ \A p : /\ WinsOf(p) \in Nat
                   /\ e.winner = p => WinsOf(p)' = WinsOf(p) + 1
                   /\ e.winner # p => WinsOf(p)' = WinsOf(p)
<1> DEFINE n == Len(entries)
<1>1. n \in Nat /\ DOMAIN entries = 1 .. n
  OBVIOUS
<1>2. entries' \in Seq(Entries) /\ Len(entries') = n + 1 /\ DOMAIN entries' = 1 .. (n + 1)
  OBVIOUS
<1>3. \A i \in 1 .. (n + 1) : entries'[i] = IF i \in 1 .. n THEN entries[i] ELSE e
  BY <1>1
<1>4. \A i \in 1 .. (n + 1) : i \in 1 .. n \/ i = n + 1
  BY <1>1
<1>5. n + 1 \notin 1 .. n /\ n + 1 \in 1 .. (n + 1) /\ \A i \in 1 .. n : i \in 1 .. (n + 1)
  BY <1>1
<1> HIDE DEF n
<1>6. \A T \in SUBSET (1 .. n) : /\ IsFiniteSet(T) /\ Cardinality(T) \in Nat
                                 /\ Cardinality(T \cup {n + 1}) = Cardinality(T) + 1
  <2> SUFFICES ASSUME NEW T \in SUBSET (1 .. n)
               PROVE  /\ IsFiniteSet(T) /\ Cardinality(T) \in Nat
                      /\ Cardinality(T \cup {n + 1}) = Cardinality(T) + 1
    OBVIOUS
  <2>1. IsFiniteSet(1 .. n)
    BY <1>1, FS_Interval
  <2>2. IsFiniteSet(T) /\ Cardinality(T) \in Nat
    BY <2>1, FS_Subset, FS_CardinalityType
  <2>3. n + 1 \notin T
    BY <1>5
  <2> QED
    BY <2>2, <2>3, FS_AddElement
<1>7. ASSUME NEW s
      PROVE  /\ CountOf(s) \in Nat
             /\ e.status = s => CountOf(s)' = CountOf(s) + 1
             /\ e.status # s => CountOf(s)' = CountOf(s)
  <2> DEFINE T == {i \in 1 .. n : entries[i].status = s}
             U == {i \in 1 .. (n + 1) : entries'[i].status = s}
  <2>1. CountOf(s) = Cardinality(T)
    BY <1>1 DEF CountOf
  <2>2. CountOf(s)' = Cardinality(U)
    BY <1>2 DEF CountOf
  <2>3. e.status = s => U = T \cup {n + 1}
    BY <1>3, <1>4, <1>5
  <2>4. e.status # s => U = T
    BY <1>3, <1>4, <1>5
  <2> HIDE DEF U
  <2>5. T \in SUBSET (1 .. n)
    OBVIOUS
  <2> HIDE DEF T
  <2> QED
    BY <1>6, <2>1, <2>2, <2>3, <2>4, <2>5
<1>8. ASSUME NEW p
      PROVE  /\ WinsOf(p) \in Nat
             /\ e.winner = p => WinsOf(p)' = WinsOf(p) + 1
             /\ e.winner # p => WinsOf(p)' = WinsOf(p)
  <2> DEFINE T == {i \in 1 .. n : entries[i].winner = p}
             U == {i \in 1 .. (n + 1) : entries'[i].winner = p}
  <2>1. WinsOf(p) = Cardinality(T)
    BY <1>1 DEF WinsOf
  <2>2. WinsOf(p)' = Cardinality(U)
    BY <1>2 DEF WinsOf
  <2>3. e.winner = p => U = T \cup {n + 1}
    BY <1>3, <1>4, <1>5
  <2>4. e.winner # p => U = T
    BY <1>3, <1>4, <1>5
  <2> HIDE DEF U
  <2>5. T \in SUBSET (1 .. n)
    OBVIOUS
  <2> HIDE DEF T
  <2> QED
    BY <1>6, <2>1, <2>2, <2>3, <2>4, <2>5
<1> QED
  BY <1>1, <1>2, <1>3, <1>4, <1>7, <1>8 DEF n
-----------------------------------------------------------------------------
(* What a finished battle must say of itself.                              *)
SaysWhoWon(e) == e.status = "Finished" => e.winner \in Side /\ e.actions > 0

(* What an aborted one must not say: its winner would not be counted.      *)
OnlyWinnersFinish(e) == e.status # "Finished" => e.winner = NoSide

(* The next entry of the right pair, whatever was counted with it.         *)
LEMMA EntryFollowsPairs ==
  ASSUME Book, Sequence <= Len(Pairs), UNCHANGED world,
         NEW e \in Entries, e.pair = <<First.id, Second.id>>, SaysWhoWon(e),
         entries' = Append(entries, e)
  PROVE  world' \in Worlds /\ EntriesFollowPairs' /\ FinishedMeansWon'
<1>1. /\ entries \in Seq(Entries) /\ Len(entries) \in Nat
      /\ Sequence = Len(entries) + 1
      /\ \A i \in DOMAIN entries : entries[i].pair = PairIds(i)
  BY DEF Book, EntriesFollowPairs, Sequence
<1>2. /\ entries' \in Seq(Entries) /\ Len(entries') = Len(entries) + 1
      /\ \A i \in DOMAIN entries' : entries'[i] = IF i \in DOMAIN entries THEN entries[i] ELSE e
      /\ \A i \in DOMAIN entries' : i \in DOMAIN entries \/ i = Len(entries) + 1
  BY <1>1, EntryIsCounted
<1>3. Pairs' = Pairs /\ Catalog' = Catalog
  BY DEF Pairs, Catalog, Fighters
<1>4. \A i : PairIds(i)' = PairIds(i)
  BY <1>3 DEF PairIds
<1>5. e.pair = PairIds(Sequence)
  BY <1>1, NextPair DEF Book
<1>6. \A i \in DOMAIN entries' : entries'[i].pair = PairIds(i)
  BY <1>1, <1>2, <1>5
<1>7. EntriesFollowPairs'
  BY <1>1, <1>2, <1>3, <1>4, <1>6 DEF EntriesFollowPairs
<1>8. FinishedMeansWon'
  <2>1. \A i \in DOMAIN entries : SaysWhoWon(entries[i])
    BY DEF Book, FinishedMeansWon, SaysWhoWon
  <2>2. \A i \in DOMAIN entries' : SaysWhoWon(entries'[i])
    BY <1>2, <2>1
  <2> QED
    BY <2>2 DEF FinishedMeansWon, SaysWhoWon
<1> QED
  BY <1>7, <1>8 DEF Book

(* The common end of the loop body counts its entry and adds it.           *)
LEMMA ReportKeepsBook ==
  ASSUME Book, Sequence <= Len(Pairs), NEW e \in Entries, Report(e),
         e.pair = <<First.id, Second.id>>, SaysWhoWon(e), OnlyWinnersFinish(e),
         e.status # "AbortedBootstrapFailure"
  PROVE  Book'
<1>1. /\ entries' = Append(entries, e) /\ total' = total + 1
      /\ counts' = [counts EXCEPT ![e.status] = @ + 1]
      /\ wins' = IF e.winner = NoSide THEN wins ELSE [wins EXCEPT ![e.winner] = @ + 1]
      /\ world' = world
  BY DEF Report, OnlyWinnersFinish
<1>2. world' \in Worlds /\ EntriesFollowPairs' /\ FinishedMeansWon'
  BY <1>1, EntryFollowsPairs
<1>3. /\ entries \in Seq(Entries) /\ Len(entries) \in Nat
      /\ counts \in [Statuses \ {"Running"} -> Nat] /\ total \in Nat /\ wins \in [Side -> Nat]
      /\ \A s \in Statuses \ {"Running"} : counts[s] = CountOf(s)
      /\ total = Len(entries) - CountOf("AbortedBootstrapFailure")
      /\ \A p \in Side : wins[p] = WinsOf(p)
  BY DEF Book, EntriesFollowPairs, CountersAgree
<1>4. e.status \in Statuses \ {"Running"} /\ e.winner \in {NoSide} \cup Side
  BY DEF Entries
<1>5. /\ Len(entries') = Len(entries) + 1
      /\ \A s : /\ CountOf(s) \in Nat
                /\ e.status = s => CountOf(s)' = CountOf(s) + 1
                /\ e.status # s => CountOf(s)' = CountOf(s)
      /\ \A p : /\ WinsOf(p) \in Nat
                /\ e.winner = p => WinsOf(p)' = WinsOf(p) + 1
                /\ e.winner # p => WinsOf(p)' = WinsOf(p)
  BY <1>1, <1>3, EntryIsCounted
<1>6. /\ counts' \in [Statuses \ {"Running"} -> Nat]
      /\ \A s \in DOMAIN counts' : counts'[s] = CountOf(s)'
  BY <1>1, <1>3, <1>4, <1>5
<1>7. total' \in Nat /\ total' = Len(entries') - CountOf("AbortedBootstrapFailure")'
  BY <1>1, <1>3, <1>5
<1>8. wins' \in [Side -> Nat] /\ \A p \in Side : wins'[p] = WinsOf(p)'
  <2>1. NoSide \notin Side
    BY DEF NoSide, Side
  <2>2. CASE e.winner = NoSide
    BY <1>1, <1>3, <1>5, <2>1, <2>2
  <2>3. CASE e.winner # NoSide
    BY <1>1, <1>3, <1>4, <1>5, <2>3
  <2> QED
    BY <2>2, <2>3
<1>9. CountersAgree'
  BY <1>6, <1>7, <1>8 DEF CountersAgree
<1> QED
  BY <1>2, <1>9 DEF Book

(* A failed bootstrap is entered and counted, not added.                   *)
LEMMA BootstrapFailureKeepsBook ==
  ASSUME Book, BootstrapFailure
  PROVE  Book' /\ Len(entries') = Len(entries) + 1
<1> DEFINE e == Entry("AbortedBootstrapFailure", NoSide, 0, 0)
<1>1. /\ Sequence <= Len(Pairs) /\ entries' = Append(entries, e)
      /\ counts' = [counts EXCEPT !["AbortedBootstrapFailure"] = @ + 1]
      /\ world' = world /\ total' = total /\ wins' = wins
  BY DEF BootstrapFailure, PairIsNext
<1>2. /\ entries \in Seq(Entries) /\ Len(entries) \in Nat
      /\ counts \in [Statuses \ {"Running"} -> Nat] /\ total \in Nat /\ wins \in [Side -> Nat]
      /\ \A s \in Statuses \ {"Running"} : counts[s] = CountOf(s)
      /\ total = Len(entries) - CountOf("AbortedBootstrapFailure")
      /\ \A p \in Side : wins[p] = WinsOf(p)
  BY DEF Book, EntriesFollowPairs, CountersAgree
<1>3. "AbortedBootstrapFailure" \in Statuses \ {"Running"}
  BY DEF Statuses
<1>4. /\ e \in Entries /\ e.pair = <<First.id, Second.id>>
      /\ e.status = "AbortedBootstrapFailure" /\ e.winner = NoSide /\ SaysWhoWon(e)
  <2>1. <<First.id, Second.id>> \in Int \X Int
    BY <1>1, <1>2, NextPair DEF Book
  <2> QED
    BY <1>3, <2>1 DEF Entries, Entry, SaysWhoWon
<1> HIDE DEF e
<1>5. world' \in Worlds /\ EntriesFollowPairs' /\ FinishedMeansWon'
  BY <1>1, <1>4, EntryFollowsPairs
<1>6. /\ Len(entries') = Len(entries) + 1
      /\ \A s : /\ CountOf(s) \in Nat
                /\ e.status = s => CountOf(s)' = CountOf(s) + 1
                /\ e.status # s => CountOf(s)' = CountOf(s)
      /\ \A p : /\ WinsOf(p) \in Nat
                /\ e.winner = p => WinsOf(p)' = WinsOf(p) + 1
                /\ e.winner # p => WinsOf(p)' = WinsOf(p)
  BY <1>1, <1>2, <1>4, EntryIsCounted
<1>7. /\ counts' \in [Statuses \ {"Running"} -> Nat]
      /\ \A s \in DOMAIN counts' : counts'[s] = CountOf(s)'
  BY <1>1, <1>2, <1>3, <1>4, <1>6
<1>8. total' = Len(entries') - CountOf("AbortedBootstrapFailure")'
  BY <1>1, <1>2, <1>4, <1>6
<1>9. \A p \in Side : wins'[p] = WinsOf(p)'
  BY <1>1, <1>2, <1>4, <1>6 DEF NoSide, Side
<1>10. CountersAgree'
  BY <1>1, <1>2, <1>7, <1>8, <1>9 DEF CountersAgree
<1> QED
  BY <1>5, <1>6, <1>10 DEF Book

LEMMA BookStays ==
  ASSUME Book, UNCHANGED <<world, summary>>
  PROVE  Book'
<1>1. /\ world' = world /\ entries' = entries /\ counts' = counts /\ total' = total /\ wins' = wins
  BY DEF summary
<1>2. Pairs' = Pairs /\ Catalog' = Catalog
  BY <1>1 DEF Pairs, Catalog, Fighters
<1>3. EntriesFollowPairs'
  BY <1>1, <1>2 DEF Book, EntriesFollowPairs, PairIds
<1>4. CountersAgree' /\ FinishedMeansWon'
  BY <1>1 DEF Book, CountersAgree, CountOf, WinsOf, FinishedMeansWon
<1> QED
  BY <1>1, <1>3, <1>4 DEF Book

(* The entries of a complete sweep are all the directed pairs.             *)
LEMMA MeetingsOfFighters ==
  ASSUME world \in Worlds
  PROVE  \A x : x \in Meetings <=> \E s, t \in Fighters : s # t /\ x = <<s.id, t.id>>
<1>1. Range(Catalog) = Fighters /\ \A s, t \in Fighters : s.id = t.id => s = t
  BY FightersAreListed, FightersAreApart
<1> DEFINE Q == {<<s.id, t.id>> : s, t \in Fighters}
           D == {<<s.id, s.id>> : s \in Fighters}
<1>2. Meetings = Q \ D
  BY <1>1 DEF Meetings
<1>3. \A x : x \in Q <=> \E s, t \in Fighters : x = <<s.id, t.id>>
  OBVIOUS
<1>4. \A x : x \in D <=> \E s \in Fighters : x = <<s.id, s.id>>
  OBVIOUS
<1> HIDE DEF Q, D
<1> QED
  BY <1>1, <1>2, <1>3, <1>4

LEMMA AllPairsEntered ==
  ASSUME Book, Len(entries) = Len(Pairs)
  PROVE  /\ {entries[i].pair : i \in DOMAIN entries} = Meetings
         /\ Len(entries) = PairCount(Len(Catalog))
<1> DEFINE n == Cardinality(Fighters)
           C == Catalog
           Q == Pairs
<1>1. /\ PairCount(n) \in Nat /\ DOMAIN Q = 1 .. PairCount(n) /\ Len(Q) = PairCount(n)
      /\ \A i \in DOMAIN Q : Q[i][1] \in 1 .. n /\ Q[i][2] \in 1 .. n /\ Q[i][1] # Q[i][2]
      /\ \A a, b \in 1 .. n : a # b => \E i \in DOMAIN Q : Q[i] = <<a, b>>
  BY PairsAreAll DEF Book
<1>2. /\ C \in [1 .. n -> Fighters] /\ Len(C) = n
      /\ \A i, j \in 1 .. n : C[i] = C[j] => i = j
      /\ Range(C) = Fighters
  BY FightersAreListed DEF Book
<1>3. /\ DOMAIN entries = DOMAIN Q
      /\ \A i \in DOMAIN Q : entries[i].pair = <<C[Q[i][1]].id, C[Q[i][2]].id>>
  <2>1. entries \in Seq(Entries) /\ \A i \in DOMAIN entries : entries[i].pair = PairIds(i)
    BY DEF Book, EntriesFollowPairs
  <2>2. DOMAIN entries = 1 .. Len(entries)
    BY <2>1
  <2> QED
    BY <1>1, <2>1, <2>2 DEF PairIds
<1>4. Len(entries) = PairCount(Len(Catalog))
  BY <1>1, <1>2
<1>5. \A x : x \in Meetings <=> \E s, t \in Fighters : s # t /\ x = <<s.id, t.id>>
  BY MeetingsOfFighters DEF Book
<1> HIDE DEF n, C, Q
<1>6. Fighters = {C[i] : i \in 1 .. n}
  BY <1>2 DEF Range
<1>7. ASSUME NEW i \in DOMAIN entries PROVE entries[i].pair \in Meetings
  <2> DEFINE a == Q[i][1]
             b == Q[i][2]
  <2>1. a \in 1 .. n /\ b \in 1 .. n /\ a # b /\ entries[i].pair = <<C[a].id, C[b].id>>
    BY <1>1, <1>3
  <2> HIDE DEF a, b
  <2>2. C[a] \in Fighters /\ C[b] \in Fighters /\ C[a] # C[b]
    BY <1>2, <2>1
  <2> QED
    BY <1>5, <2>1, <2>2
<1>8. ASSUME NEW x \in Meetings PROVE \E i \in DOMAIN entries : x = entries[i].pair
  <2>1. PICK s \in Fighters, t \in Fighters : s # t /\ x = <<s.id, t.id>>
    BY <1>5
  <2>2. PICK a \in 1 .. n, b \in 1 .. n : s = C[a] /\ t = C[b]
    BY <1>6
  <2>3. a # b
    BY <2>1, <2>2
  <2>4. PICK i \in DOMAIN Q : Q[i] = <<a, b>>
    BY <1>1, <2>3
  <2>5. Q[i][1] = a /\ Q[i][2] = b
    BY <2>4
  <2>6. entries[i].pair = x
    BY <1>3, <2>1, <2>2, <2>5
  <2> QED
    BY <1>3, <2>6
<1>9. {entries[i].pair : i \in DOMAIN entries} = Meetings
  BY <1>7, <1>8
<1> QED
  BY <1>4, <1>9

(* So the summary tells the truth.                                         *)
LEMMA BookAddsUp ==
  ASSUME Book, StageFits
  PROVE  SummaryAddsUp
<1>1. /\ FinishedMeansWon /\ \A s \in DOMAIN counts : counts[s] = CountOf(s)
      /\ total = Len(entries) - CountOf("AbortedBootstrapFailure")
      /\ \A p \in Side : wins[p] = Cardinality({i \in DOMAIN entries : entries[i].winner = p})
  BY DEF Book, CountersAgree, WinsOf
<1>2. world.loads \in BOOLEAN
  BY WorldsAssumption DEF Book
<1>3. stage = "Ended" /\ exit # 1 => Len(entries) = Len(Pairs)
  BY <1>2 DEF StageFits
<1>4. /\ entries \in Seq(Entries) /\ DOMAIN counts = Statuses \ {"Running"}
      /\ \A s \in DOMAIN counts : counts[s] = CountOf(s)
  BY DEF Book, EntriesFollowPairs, CountersAgree
<1>5. ExitCode \in {0, 2}
  BY DEF ExitCode
<1>6. ExitCode = 0 <=> \A i \in DOMAIN entries : entries[i].status = "Finished"
  <2>1. ExitCode = 0 <=> \A s \in Statuses \ {"Running", "Finished"} : CountOf(s) = 0
    BY <1>4 DEF ExitCode
  <2>2. \A s : CountOf(s) = 0 <=> {i \in DOMAIN entries : entries[i].status = s} = {}
    <3>1. IsFiniteSet(DOMAIN entries)
      <4>1. Len(entries) \in Nat /\ DOMAIN entries = 1 .. Len(entries)
        BY <1>4
      <4> QED
        BY <4>1, FS_Interval
    <3> QED
      BY <3>1, FS_Subset, FS_EmptySet DEF CountOf
  <2>3. \A i \in DOMAIN entries : entries[i].status \in Statuses \ {"Running"}
    <3>1. \A i \in DOMAIN entries : entries[i] \in Entries
      BY <1>4
    <3> QED
      BY <3>1 DEF Entries
  <2>4. (\A s \in Statuses \ {"Running", "Finished"} : {i \in DOMAIN entries : entries[i].status = s} = {})
          <=> \A i \in DOMAIN entries : entries[i].status = "Finished"
    BY <2>3
  <2> QED
    BY <2>1, <2>2, <2>4
<1>7. exit = 0 <=> stage = "Ended" /\ world.loads /\ \A i \in DOMAIN entries : entries[i].status = "Finished"
  BY <1>2, <1>5, <1>6 DEF StageFits, NoExit
<1>8. stage = "Ended" /\ exit # 1 =>
        /\ {entries[i].pair : i \in DOMAIN entries} = Meetings
        /\ Len(entries) = PairCount(Len(Catalog))
  BY <1>3, AllPairsEntered
<1> QED
  BY <1>1, <1>7, <1>8, Zenon DEF SummaryAddsUp
-----------------------------------------------------------------------------
(* What the simulator sees in melee: the rows a living unit holds in the   *)
(* rank its side fights from.                                              *)
LEMMA RanksAgree ==
  ASSUME TypeOK
  PROVE  /\ \A s \in Side : ActiveRank(roster.cells[s], LivingSlots(units, s)) = FightingRank(s)
         /\ \A u \in Members : \A t \in Members :
              LET R == RowsHeld(u)
                  S == RowsHeld(t)
                  v == MeleeVerdict(units, u, t)
              IN  /\ R = {} <=> v = "ActorNotOnActiveMeleeRank"
                  /\ v = "None" <=> \E a \in R, b \in S : a - b \in {-1, 0, 1}
<1>1. roster \in Rosters /\ roster.cells \in [Side -> Formations]
  BY RostersAssumption DEF TypeOK, ValidRoster
<1>2. \A s \in Side : \A k \in Slot \cup {NoMember} :
        k \in LivingSlots(units, s) <=> \E w \in AliveOf(units, s) : w[2] = k
  BY DEF LivingSlots
<1>3. ASSUME NEW s \in Side
      PROVE  ActiveRank(roster.cells[s], LivingSlots(units, s)) = FightingRank(s)
  <2>1. \A w \in AliveOf(units, s) : w[1] = s
    BY DEF AliveOf
  <2>2. AliveMembersInRank(roster.cells[s], LivingSlots(units, s), "Front") = {}
          <=> ~\E w \in AliveOf(units, s) : Stands(w, "Front")
    BY <2>1 DEF AliveMembersInRank, LivingSlots, Stands
  <2> QED
    BY <2>2 DEF ActiveRank, FightingRank
<1>4. ASSUME NEW u \in Members
      PROVE  OccupiedRowsInRank(roster.cells[u[1]], u[2], ActiveRank(roster.cells[u[1]], LivingSlots(units, u[1])))
               = RowsHeld(u)
  <2>1. u[1] \in Side
    BY <1>1, UnitsArePairs
  <2> QED
    BY <1>3, <2>1, Zenon DEF OccupiedRowsInRank, RowsHeld
<1>5. ASSUME NEW u \in Members, NEW t \in Members
      PROVE  /\ RowsHeld(u) = {} <=> MeleeVerdict(units, u, t) = "ActorNotOnActiveMeleeRank"
             /\ MeleeVerdict(units, u, t) = "None" <=>
                  \E a \in RowsHeld(u), b \in RowsHeld(t) : a - b \in {-1, 0, 1}
  <2> DEFINE R == RowsHeld(u)
             S == RowsHeld(t)
  <2>1. MeleeVerdict(units, u, t) =
          CASE R = {} -> "ActorNotOnActiveMeleeRank"
            [] R # {} /\ S = {} -> "TargetProtectedByFrontRank"
            [] R # {} /\ S # {} ->
                 IF \E a \in R, b \in S : AdjacentRowsReachable(a, b)
                 THEN "None" ELSE "TargetOutOfAdjacentReach"
    BY <1>4, Zenon DEF MeleeVerdict, AdjacentVerdict
  <2> HIDE DEF R, S
  <2> QED
    BY <2>1 DEF AdjacentRowsReachable, R, S
<1> QED
  BY <1>3, <1>5

(* Rows are 0, 1 and 2, and every living side has somebody on the rank it  *)
(* fights from.                                                            *)
LEMMA RowsAreHeld ==
  ASSUME TypeOK
  PROVE  /\ \A u \in Members : RowsHeld(u) \subseteq {0, 1, 2}
         /\ \A u \in Members : RowsHeld(u) # {} <=> Stands(u, FightingRank(u[1]))
         /\ \A u \in Members : Stands(u, "Front") \/ Stands(u, "Back")
         /\ \A s \in Side : AliveOf(units, s) # {} => \E v \in AliveOf(units, s) : RowsHeld(v) # {}
<1>1. /\ roster \in Rosters /\ roster.cells \in [Side -> Formations]
      /\ \A u \in Members : \E c \in Cell : roster.cells[u[1]][c] = u[2]
  BY RostersAssumption DEF TypeOK, ValidRoster, Members
<1>2. \A c \in Cell : RowOf(c) \in {0, 1, 2} /\ RankOf(c) \in {"Front", "Back"}
  BY DEF RowOf, RankOf, Cell
<1>3. \A u \in Members : RowsHeld(u) \subseteq {0, 1, 2}
  BY <1>2 DEF RowsHeld
<1>4. \A u \in Members : RowsHeld(u) # {} <=> Stands(u, FightingRank(u[1]))
  BY DEF RowsHeld, Stands
<1>5. \A u \in Members : Stands(u, "Front") \/ Stands(u, "Back")
  BY <1>1, <1>2 DEF Stands
<1>6. ASSUME NEW s \in Side, AliveOf(units, s) # {}
      PROVE  \E v \in AliveOf(units, s) : RowsHeld(v) # {}
  <2>1. \A w \in AliveOf(units, s) : w \in Members /\ w[1] = s
    BY DEF AliveOf, Alive
  <2>2. CASE \E w \in AliveOf(units, s) : Stands(w, "Front")
    BY <1>4, <2>1, <2>2 DEF FightingRank
  <2>3. CASE ~\E w \in AliveOf(units, s) : Stands(w, "Front")
    <3>1. FightingRank(s) = "Back"
      BY <2>3 DEF FightingRank
    <3> QED
      BY <1>4, <1>5, <1>6, <2>1, <2>3, <3>1
  <2> QED
    BY <2>2, <2>3
<1> QED
  BY <1>3, <1>4, <1>5, <1>6

(* The actor of a battle in progress is a living member.                   *)
LEMMA ActorLives ==
  ASSUME TypeOK, ValidState, InProgress
  PROVE  /\ CurrentActor \in Members /\ units[CurrentActor].alive
         /\ CurrentActor \in AliveOf(units, CurrentActor[1])
         /\ CurrentActor[1] \in Side /\ Opposite(CurrentActor[1]) \in Side
         /\ \A s \in Side : AliveOf(units, s) # {}
         /\ units[CurrentActor].skips \in Nat
<1>1. CurrentActor \in Members /\ units[CurrentActor].alive /\ \A s \in Side : AliveOf(units, s) # {}
  BY DEF TypeOK, ValidState, TurnIsPlayable, CurrentActor
<1>2. CurrentActor[1] \in Side
  BY <1>1, UnitsArePairs DEF TypeOK
<1>3. units[CurrentActor].skips \in Nat
  BY <1>1 DEF TypeOK, UnitState
<1> QED
  BY <1>1, <1>2, <1>3 DEF AliveOf, Alive, Side, Opposite
-----------------------------------------------------------------------------
(* Whom a bundle could affect: the living enemies, or the comrades its     *)
(* classes look for.                                                       *)
LEMMA BundleFindsTargets ==
  ASSUME TypeOK, ValidState, InProgress, BundleSupported(CurrentActor)
  PROVE  LET u == CurrentActor
             ts == BundleUnitTargets(u)
             classes == {roster.primary[u].class, roster.secondary[u].class} \ {"None"}
         IN  /\ AimsAtEnemy(u) => ts = AliveOf(units, Opposite(u[1]))
             /\ ~AimsAtEnemy(u) /\ ts = {} =>
                  classes = {"Revive"} /\ \A v \in Members : v[1] = u[1] => units[v].alive
<1> DEFINE u == CurrentActor
           first == roster.primary[u]
           second == roster.secondary[u]
<1>1. u \in AliveOf(units, u[1]) /\ u \in Members /\ units[u].alive
  BY ActorLives
<1>2. /\ first.class \in SupportedClass
      /\ HasSecondary(u) => /\ second.class \in SupportedClass
                            /\ (first.class \in EnemyClass) = (second.class \in EnemyClass)
      /\ HasSecondary(u) <=> second.class # "None"
  BY DEF BundleSupported, ComponentSupported, HasSecondary
<1>3. AimsAtEnemy(u) <=> first.class \in EnemyClass
  BY DEF AimsAtEnemy
<1>4. BundleUnitTargets(u) = UnitTargets(units, u, first)
        \cup IF HasSecondary(u) THEN UnitTargets(units, u, second) ELSE {}
  BY DEF BundleUnitTargets
<1>5. \A v \in Members : units[v].alive \in BOOLEAN
  BY DEF TypeOK, UnitState
<1>6. \A a : UnitTargets(units, u, a)
               = {t \in Members : t[1] = TargetSide(u) /\ units[t].alive = (a.class # "Revive")}
  BY DEF UnitTargets, RightVitality
<1> HIDE DEF u, first, second
<1>7. ASSUME AimsAtEnemy(u) PROVE BundleUnitTargets(u) = AliveOf(units, Opposite(u[1]))
  <2>1. TargetSide(u) = Opposite(u[1])
    BY <1>7 DEF TargetSide
  <2>2. first.class # "Revive" /\ (HasSecondary(u) => second.class # "Revive")
    BY <1>2, <1>3, <1>7 DEF EnemyClass
  <2>3. \A a : a.class # "Revive" => UnitTargets(units, u, a) = AliveOf(units, Opposite(u[1]))
    BY <1>5, <1>6, <2>1 DEF AliveOf, Alive
  <2> QED
    BY <1>4, <2>2, <2>3
<1>8. ASSUME ~AimsAtEnemy(u), BundleUnitTargets(u) = {}
      PROVE  /\ {first.class, second.class} \ {"None"} = {"Revive"}
             /\ \A v \in Members : v[1] = u[1] => units[v].alive
  <2>1. TargetSide(u) = u[1]
    BY <1>8 DEF TargetSide
  <2>2. \A a : a.class # "Revive" => u \in UnitTargets(units, u, a)
    BY <1>1, <1>6, <2>1
  <2>3. first.class = "Revive"
    BY <1>4, <1>8, <2>2
  <2>4. HasSecondary(u) => second.class = "Revive"
    BY <1>4, <1>8, <2>2
  <2>5. {first.class, second.class} \ {"None"} = {"Revive"}
    BY <1>2, <2>3, <2>4
  <2>6. UnitTargets(units, u, first) = {}
    BY <1>4, <1>8
  <2> QED
    BY <1>5, <1>6, <2>1, <2>3, <2>5, <2>6
<1> QED
  BY <1>7, <1>8 DEF u, first, second

(* A melee fighter for whom no living enemy is in reach stands alone in an *)
(* edge row.                                                               *)
LEMMA NobodyInReach ==
  ASSUME TypeOK, ValidState, InProgress,
         \A t \in AliveOf(units, Opposite(CurrentActor[1])) :
           MeleeVerdict(units, CurrentActor, t) \notin {"None", "ActorNotOnActiveMeleeRank"}
  PROVE  OutOfReach(CurrentActor)
<1> DEFINE u == CurrentActor
           foes == AliveOf(units, Opposite(u[1]))
           R == RowsHeld(u)
<1>1. u \in Members /\ Opposite(u[1]) \in Side /\ foes # {}
  BY ActorLives
<1>2. foes \in SUBSET Members
  BY DEF AliveOf, Alive
<1>3. /\ R \subseteq {0, 1, 2} /\ \A t \in foes : RowsHeld(t) \subseteq {0, 1, 2}
      /\ \E v \in foes : RowsHeld(v) # {}
  BY <1>1, <1>2, RowsAreHeld
<1>4. \A t \in foes : R # {} /\ ~\E a \in R, b \in RowsHeld(t) : a - b \in {-1, 0, 1}
  BY <1>1, <1>2, RanksAgree
<1> HIDE DEF R, foes, u
<1>5. PICK v \in foes : RowsHeld(v) # {}
  BY <1>3
<1>6. PICK b \in RowsHeld(v) : b \in {0, 1, 2}
  BY <1>3, <1>5
<1>7. PICK r \in R : r \in {0, 1, 2}
  BY <1>3, <1>4, <1>5
<1>8. r # 1 /\ R = {r}
  <2>1. \A a \in R : a \in {0, 1, 2} /\ a - b \notin {-1, 0, 1}
    BY <1>3, <1>4, <1>5, <1>6
  <2>2. \A a \in R : a = 2 - b
    BY <1>6, <2>1
  <2>3. r = 2 - b /\ r # 1
    BY <1>6, <1>7, <2>1, <2>2
  <2> QED
    BY <1>7, <2>2, <2>3
<1>9. \A t \in foes : RowsHeld(t) \subseteq {2 - r}
  <2> SUFFICES ASSUME NEW t \in foes, NEW c \in RowsHeld(t) PROVE c = 2 - r
    OBVIOUS
  <2>1. c \in {0, 1, 2} /\ r - c \notin {-1, 0, 1}
    BY <1>3, <1>4, <1>7
  <2> QED
    BY <1>7, <1>8, <2>1
<1>10. r \in {0, 2}
  BY <1>7, <1>8
<1> QED
  BY <1>8, <1>9, <1>10 DEF OutOfReach, R, foes, u

(* Without a valid action the actor is stuck for one of the three reasons. *)
LEMMA StuckHasReason ==
  ASSUME TypeOK, ValidState, InProgress, ~OutcomesThrow, NothingOffered
  PROVE  LET u == CurrentActor
             classes == {roster.primary[u].class, roster.secondary[u].class} \ {"None"}
         IN  /\ units[u].skips = 0
             /\ \/ ~BundleSupported(u)
                \/ classes = {"Revive"} /\ \A v \in Members : v[1] = u[1] => units[v].alive
                \/ BundleReach(u) = "Adjacent" /\ OutOfReach(u)
<1> DEFINE u == CurrentActor
           ts == BundleUnitTargets(u)
<1>1. u \in Members /\ Opposite(u[1]) \in Side /\ units[u].skips \in Nat /\ \A s \in Side : AliveOf(units, s) # {}
  BY ActorLives
<1>2. ~(units[u].skips > 0) /\ OfferedTargets = {} /\ ~EnumeratorThrows
  BY DEF NothingOffered, MustSkip, OutcomesThrow
<1>3. units[u].skips = 0
  BY <1>1, <1>2
<1>4. ASSUME BundleSupported(u)
      PROVE  \/ /\ {roster.primary[u].class, roster.secondary[u].class} \ {"None"} = {"Revive"}
                /\ \A v \in Members : v[1] = u[1] => units[v].alive
             \/ BundleReach(u) = "Adjacent" /\ OutOfReach(u)
  <2>1. OfferedTargets =
          IF BundleReach(u) = "All" THEN {a \in {SideWide(u)} : ts # {}}
          ELSE IF BundleReach(u) = "Adjacent" THEN {t \in ts : MeleeVerdict(units, u, t) = "None"}
          ELSE ts
    BY <1>2, <1>4 DEF OfferedTargets, InProgress
  <2>2. /\ AimsAtEnemy(u) => ts = AliveOf(units, Opposite(u[1]))
        /\ ~AimsAtEnemy(u) /\ ts = {} =>
             /\ {roster.primary[u].class, roster.secondary[u].class} \ {"None"} = {"Revive"}
             /\ \A v \in Members : v[1] = u[1] => units[v].alive
    BY <1>4, BundleFindsTargets
  <2>3. CASE BundleReach(u) # "Adjacent"
    <3>1. ts = {}
      BY <1>2, <2>1, <2>3
    <3> QED
      BY <1>1, <2>2, <3>1
  <2>4. CASE BundleReach(u) = "Adjacent"
    <3>1. AimsAtEnemy(u)
      BY <1>4, <2>4 DEF BundleSupported, ComponentSupported, ReachSupported, BundleReach, AimsAtEnemy
    <3>2. \A t \in ts : MeleeVerdict(units, u, t) # "None"
      BY <1>2, <2>1, <2>4
    <3>3. \A t \in ts : MeleeVerdict(units, u, t) # "ActorNotOnActiveMeleeRank"
      BY <1>2, <1>3, <1>4, <2>4 DEF EnumeratorThrows, InProgress
    <3>4. OutOfReach(u)
      BY <2>2, <3>1, <3>2, <3>3, NobodyInReach
    <3> QED
      BY <2>4, <3>4
  <2> QED
    BY <2>3, <2>4
<1> QED
  BY <1>3, <1>4

(* An exception of the rules has one of the two reasons.                   *)
LEMMA ExceptionHasReason ==
  ASSUME TypeOK, ValidState, WithinMaximum, InProgress, OutcomesThrow
  PROVE  \/ ~SoundRoster
         \/ /\ BundleReach(CurrentActor) = "Adjacent"
            /\ ~Stands(CurrentActor, "Front")
            /\ FightingRank(CurrentActor[1]) = "Front"
<1> DEFINE u == CurrentActor
<1>1. u \in Members /\ units[u].alive /\ u \in AliveOf(units, u[1])
  BY ActorLives
<1>2. CASE EnumeratorThrows
  <2>1. /\ BundleReach(u) = "Adjacent"
        /\ \E t \in BundleUnitTargets(u) : MeleeVerdict(units, u, t) = "ActorNotOnActiveMeleeRank"
    BY <1>2 DEF EnumeratorThrows
  <2>2. BundleUnitTargets(u) \subseteq Members
    BY DEF BundleUnitTargets, UnitTargets
  <2>3. RowsHeld(u) = {}
    BY <1>1, <2>1, <2>2, RanksAgree
  <2>4. ~Stands(u, FightingRank(u[1])) /\ (Stands(u, "Front") \/ Stands(u, "Back"))
    BY <1>1, <2>3, RowsAreHeld
  <2>5. Stands(u, "Front") => FightingRank(u[1]) = "Front"
    BY <1>1 DEF FightingRank
  <2>6. FightingRank(u[1]) \in {"Front", "Back"}
    BY DEF FightingRank
  <2> QED
    BY <2>1, <2>4, <2>5, <2>6
<1>3. CASE ~EnumeratorThrows
  <2>1. PICK t \in OfferedTargets : Throws(u, t)
    BY <1>3 DEF OutcomesThrow
  <2>2. AttackVerdict(u, t) = "None"
    BY <1>3, <2>1, OffersAgree DEF OffersAreTheAcceptedOnes
  <2> QED
    BY <1>1, <2>1, <2>2, SoundAttacks
<1> QED
  BY <1>2, <1>3

(* One action of the simulator is one step of the rules.                   *)
LEMMA PlayIsStep ==
  ASSUME TypeOK, ValidState, Play
  PROVE  Next
<1> DEFINE u == CurrentActor
<1>1. InProgress /\ round <= MaxRounds /\ ~OutcomesThrow
  BY DEF Play, Running, WithinLimits
<1>2. u \in Members
  BY <1>1, ActorLives
<1>3. CASE MustSkip
  <2>1. DoSkip(u)
    BY <1>3 DEF Play
  <2> QED
    BY <1>1, <1>2, <2>1 DEF Next, SkipStep
<1>4. CASE ~MustSkip
  <2>1. PICK t \in OfferedTargets : DoAttack(u, t)
    BY <1>4 DEF Play
  <2>2. t \in AttackTarget
    BY <1>1, OffersAgree DEF OutcomesThrow, OffersAreTheAcceptedOnes
  <2> QED
    BY <1>1, <1>2, <2>1, <2>2 DEF Next, AttackStep
<1> QED
  BY <1>3, <1>4
-----------------------------------------------------------------------------
(* The battle of the sweep: it keeps the contract, it is the battle of the *)
(* next pair, and the simulator's result says how it stands.               *)
FightInv ==
  /\ DuelInv /\ WithinMaximum
  /\ roster = RosterOf(First, Second)
  /\ SimTypeOK
  /\ ~InProgress => winner \in Side /\ applied > 0
  /\ StuckIsExplained /\ ExceptionIsExplained

(* A battle of two fighters begins as the rules say, with both sides       *)
(* alive.                                                                  *)
LEMMA BattleBegins ==
  ASSUME world \in Worlds, NEW a \in Range(world.stacks), NEW b \in Range(world.stacks),
         Eligible(a), Eligible(b), a # b, ~BootstrapThrows(a, b), NewBattle(RosterOf(a, b))
  PROVE  Init' /\ InProgress' /\ roster' = RosterOf(a, b) /\ result' = "Running" /\ applied' = 0 /\ round' = 1
<1> DEFINE r == RosterOf(a, b)
<1>1. r \in Rosters
  BY RostersOfWorlds
<1>2. /\ r.members = ({1} \X a.members) \cup ({2} \X b.members)
      /\ r.startHp = [u \in r.members |-> IF u[1] = 1 THEN a.hp[u[2]] ELSE b.hp[u[2]]]
      /\ r.leader = <<<<1, a.leader>>, <<2, b.leader>>>>
  BY DEF RosterOf, BothSides
<1> HIDE DEF r
<1>3. /\ roster' = r /\ units' = Bootstrapped(r)
      /\ leaderAlive' = [s \in Side |-> r.leader[s] \in Alive(units)']
      /\ status' = StatusOf(units)' /\ winner' = WinnerOf(units)' /\ turn' = 1
      /\ IF status' = "InProgress"
         THEN round' = 1 /\ turnOrder' = BuildTurnOrder(Alive(units))'
         ELSE round' = 0 /\ turnOrder' = <<>>
      /\ result' = "Running" /\ applied' = 0
  BY DEF NewBattle, r
<1>4. Alive(units)' = {u \in r.members : units'[u].alive}
  BY <1>3 DEF Alive, Members
<1>5. \A u \in r.members : units'[u].alive = (r.startHp[u] > 0)
  BY <1>3 DEF Bootstrapped
<1>6. ASSUME NEW k \in a.members, a.hp[k] > 0 PROVE AliveOf(units, 1)' # {}
  <2>1. <<1, k>> \in r.members /\ r.startHp[<<1, k>>] > 0
    BY <1>2, <1>6
  <2>2. <<1, k>> \in AliveOf(units, 1)'
    BY <1>4, <1>5, <2>1 DEF AliveOf
  <2> QED
    BY <2>2
<1>7. ASSUME NEW k \in b.members, b.hp[k] > 0 PROVE AliveOf(units, 2)' # {}
  <2>1. <<2, k>> \in r.members /\ r.startHp[<<2, k>>] > 0
    BY <1>2, <1>7
  <2>2. <<2, k>> \in AliveOf(units, 2)'
    BY <1>4, <1>5, <2>1 DEF AliveOf
  <2> QED
    BY <2>2
<1>8. status' = "InProgress"
  <2>1. AliveOf(units, 1)' # {} /\ AliveOf(units, 2)' # {}
    BY <1>6, <1>7 DEF Eligible, HasAliveMember
  <2> QED
    BY <1>3, <2>1 DEF StatusOf
<1>9. leaderAlive' = LeaderFlags(units, leaderAlive)' /\ leaderAlive' \in [Side -> BOOLEAN]
  <2>1. \A s \in Side : r.leader[s] # NoUnit
    BY <1>2 DEF Side, NoUnit
  <2>2. leaderAlive' = [s \in Side |-> IF r.leader[s] = NoUnit THEN leaderAlive'[s]
                                       ELSE r.leader[s] \in Alive(units)']
    BY <1>3, <2>1
  <2>3. \A s \in Side : (r.leader[s] \in Alive(units)') \in BOOLEAN
    OBVIOUS
  <2> QED
    BY <1>3, <2>2, <2>3 DEF LeaderFlags
<1>10. Init'
  BY <1>1, <1>3, <1>8, <1>9 DEF Init
<1> QED
  BY <1>3, <1>8, <1>10 DEF InProgress, r

LEMMA InitFights == Init => DuelInv /\ WithinMaximum
BY InitDuelInv, InitWithinMaximum

LEMMA FightBegins ==
  ASSUME Book, StartBattle
  PROVE  FightInv'
<1>1. Sequence <= Len(Pairs) /\ ~BootstrapThrows(First, Second) /\ NewBattle(RosterOf(First, Second))
      /\ world' = world /\ entries' = entries
  BY DEF StartBattle, PairIsNext, summary
<1>2. /\ First # Second /\ Eligible(First) /\ Eligible(Second)
      /\ First \in Range(world.stacks) /\ Second \in Range(world.stacks)
  BY <1>1, NextPair DEF Book, EntriesFollowPairs
<1>3. Init' /\ InProgress' /\ roster' = RosterOf(First, Second)
      /\ result' = "Running" /\ applied' = 0 /\ round' = 1
  BY <1>1, <1>2, BattleBegins DEF Book
<1>4. First' = First /\ Second' = Second
  BY <1>1 DEF First, Second, Sequence, Pairs, Catalog, Fighters
<1>5. DuelInv' /\ WithinMaximum'
  BY <1>3, InitFights, PTL
<1>6. SimTypeOK'
  BY <1>3, MaxActionsAssumption, MaxRoundsAssumption DEF SimTypeOK, Results
<1>7. StuckIsExplained' /\ ExceptionIsExplained'
  BY <1>3 DEF StuckIsExplained, ExceptionIsExplained
<1> QED
  BY <1>3, <1>4, <1>5, <1>6, <1>7 DEF FightInv
-----------------------------------------------------------------------------
LEMMA PlayKeepsFight ==
  ASSUME FightInv, Play, First' = First, Second' = Second
  PROVE  FightInv'
<1>1. /\ TypeOK /\ ValidState /\ DuelInv /\ WithinMaximum
      /\ InProgress /\ result = "Running" /\ applied < MaxActions /\ round <= MaxRounds
      /\ result' = result /\ applied' = applied + 1
  BY DEF FightInv, DuelInv, Play, Running, WithinLimits
<1>2. Next
  BY <1>1, PlayIsStep
<1>3. Contract!Activation /\ DuelInv' /\ WithinMaximum'
  BY <1>1, <1>2, StepIsActivation, StepWithinMaximum
<1>4. PICK us : Settle(us)
  BY <1>1, <1>2, StepSettles
<1>5. roster' = roster /\ round' \in {round, round + 1}
  BY <1>4 DEF Settle, AdvanceTurn
<1>6. CurrentActor \in Members /\ CurrentActor[1] \in Side /\ turn \in DOMAIN turnOrder
  BY <1>1, ActorLives DEF ValidState, TurnIsPlayable
<1>7. /\ applied \in Nat /\ MaxActions \in Nat /\ round \in Nat /\ MaxRounds \in Nat
  BY <1>1, MaxActionsAssumption, MaxRoundsAssumption DEF FightInv, SimTypeOK, TypeOK
<1>8. applied' \in 0 .. MaxActions /\ applied' > 0 /\ round' <= MaxRounds + 1
  BY <1>1, <1>5, <1>7
<1>9. ~InProgress' => winner' \in Side
  <2> SUFFICES ASSUME ~InProgress', winner' \notin Side PROVE FALSE
    OBVIOUS
  <2>1. \A s \in Side : AliveOf(units, s)' = {}
    BY <1>3 DEF DuelInv, ValidState, OutcomeAgrees
  <2>2. Contract!Over'
    BY <2>1 DEF Contract!Over, Contract!Survivors, AliveOf, Side
  <2>3. winner' = (IF turn \in DOMAIN turnOrder THEN CurrentActor ELSE NoUnit)[1]
    BY <1>3, <2>2 DEF Contract!Activation
  <2> QED
    BY <1>6, <2>3
<1>10. SimTypeOK' /\ StuckIsExplained' /\ ExceptionIsExplained'
  BY <1>1, <1>8 DEF SimTypeOK, StuckIsExplained, ExceptionIsExplained, Results
<1> QED
  BY <1>3, <1>5, <1>8, <1>9, <1>10 DEF FightInv

(* The steps that only set the result.                                     *)
LEMMA EndKeepsFight ==
  ASSUME FightInv, NEW r, End(r), First' = First, Second' = Second,
         r \in Results \ {"Running"}, r = "Finished" <=> ~InProgress,
         r = "AbortedNoValidActions" => ~OutcomesThrow /\ NothingOffered,
         r = "AbortedRuleException" => OutcomesThrow
  PROVE  FightInv'
<1>1. UNCHANGED vars /\ result' = r /\ applied' = applied
  BY DEF End
<1>2. TypeOK /\ ValidState /\ DuelInv /\ WithinMaximum
  BY DEF FightInv, DuelInv
<1>3. Members' = Members /\ (InProgress' <=> InProgress) /\ CurrentActor' = CurrentActor
      /\ \A s : AliveOf(units, s)' = AliveOf(units, s)
  BY <1>1 DEF vars, Members, InProgress, CurrentActor, AliveOf, Alive
<1>4. DuelInv' /\ WithinMaximum'
  <2>1. TypeOK' /\ ValidState'
    BY <1>1, <1>2, StepKeepsInv
  <2>2. OwesOneAtMost(units)' /\ OrderIsKept'
    BY <1>1, <1>2, <1>3 DEF DuelInv, OwesOneAtMost, OrderIsKept, ActsBefore, Initiative, vars
  <2>3. WithinMaximum'
    BY <1>1, <1>2, StepWithinMaximum
  <2> QED
    BY <2>1, <2>2, <2>3 DEF DuelInv
<1>5. SimTypeOK'
  BY <1>1, <1>3 DEF FightInv, SimTypeOK, vars
<1>6. \A u, k : Stands(u, k)' = Stands(u, k)
  BY <1>1 DEF Stands, vars
<1>7. \A s : FightingRank(s)' = FightingRank(s)
  BY <1>3, <1>6 DEF FightingRank
<1>8. OutOfReach(CurrentActor)' <=> OutOfReach(CurrentActor)
  <2>1. \A u : RowsHeld(u)' = RowsHeld(u)
    BY <1>1, <1>7 DEF RowsHeld, vars
  <2> QED
    BY <1>3, <2>1 DEF OutOfReach
<1>9. StuckIsExplained'
  <2> SUFFICES ASSUME r = "AbortedNoValidActions" PROVE StuckIsExplained'
    BY <1>1 DEF StuckIsExplained
  <2>1. LET u == CurrentActor
             classes == {roster.primary[u].class, roster.secondary[u].class} \ {"None"}
         IN  /\ units[u].skips = 0
             /\ \/ ~BundleSupported(u)
                \/ classes = {"Revive"} /\ \A v \in Members : v[1] = u[1] => units[v].alive
                \/ BundleReach(u) = "Adjacent" /\ OutOfReach(u)
    BY <1>2, StuckHasReason
  <2>2. StuckIsExplained' <=>
          LET u == CurrentActor
              classes == {roster.primary[u].class, roster.secondary[u].class} \ {"None"}
          IN  /\ units[u].skips = 0
              /\ \/ ~BundleSupported(u)
                 \/ classes = {"Revive"} /\ \A v \in Members : v[1] = u[1] => units[v].alive
                 \/ BundleReach(u) = "Adjacent" /\ OutOfReach(u)
    BY <1>1, <1>3, <1>8 DEF StuckIsExplained, BundleSupported, ComponentSupported, ReachSupported,
                            HasSecondary, BundleReach, vars
  <2> QED
    BY <2>1, <2>2
<1>10. ExceptionIsExplained'
  <2> SUFFICES ASSUME r = "AbortedRuleException" PROVE ExceptionIsExplained'
    BY <1>1 DEF ExceptionIsExplained
  <2>1. InProgress
    OBVIOUS
  <2>2. \/ ~SoundRoster
        \/ /\ BundleReach(CurrentActor) = "Adjacent"
           /\ ~Stands(CurrentActor, "Front")
           /\ FightingRank(CurrentActor[1]) = "Front"
    BY <1>2, <2>1, ExceptionHasReason
  <2>3. SoundRoster' <=> SoundRoster
    BY <1>1, <1>3 DEF SoundRoster, vars
  <2> QED
    BY <1>1, <1>3, <1>6, <1>7, <2>2, <2>3 DEF ExceptionIsExplained, BundleReach, vars
<1>11. roster' = RosterOf(First', Second') /\ (~InProgress' => winner' \in Side /\ applied' > 0)
  BY <1>1, <1>3 DEF FightInv, vars
<1> QED
  BY <1>4, <1>5, <1>9, <1>10, <1>11 DEF FightInv

LEMMA FightKeepsFight ==
  ASSUME FightInv, Fight
  PROVE  FightInv'
<1>1. world' = world /\ entries' = entries /\ SimNext
  BY DEF Fight, summary
<1>2. First' = First /\ Second' = Second
  BY <1>1 DEF First, Second, Sequence, Pairs, Catalog, Fighters
<1>3. CASE Finish
  BY <1>2, <1>3, EndKeepsFight DEF Finish, Results
<1>4. CASE ActionLimitReached
  BY <1>2, <1>4, EndKeepsFight DEF ActionLimitReached, Results, Running
<1>5. CASE RoundLimitReached
  BY <1>2, <1>5, EndKeepsFight DEF RoundLimitReached, Results, Running
<1>6. CASE RuleException
  BY <1>2, <1>6, EndKeepsFight DEF RuleException, Results, Running
<1>7. CASE NoValidActions
  BY <1>2, <1>7, EndKeepsFight DEF NoValidActions, Results, Running
<1>8. CASE Play
  BY <1>2, <1>8, PlayKeepsFight
<1> QED
  BY <1>1, <1>3, <1>4, <1>5, <1>6, <1>7, <1>8 DEF SimNext
-----------------------------------------------------------------------------
LEMMA FightStays ==
  ASSUME FightInv, UNCHANGED sweepVars
  PROVE  FightInv'
<1>1. UNCHANGED vars /\ result' = result /\ applied' = applied /\ world' = world /\ entries' = entries
  BY DEF sweepVars, simVars, summary
<1>2. First' = First /\ Second' = Second
  BY <1>1 DEF First, Second, Sequence, Pairs, Catalog, Fighters
<1>3. Members' = Members /\ (InProgress' <=> InProgress) /\ CurrentActor' = CurrentActor
      /\ \A s : AliveOf(units, s)' = AliveOf(units, s)
  BY <1>1 DEF vars, Members, InProgress, CurrentActor, AliveOf, Alive
<1>4. DuelInv' /\ WithinMaximum'
  <2>1. TypeOK' /\ ValidState'
    BY <1>1, StepKeepsInv DEF FightInv, DuelInv
  <2>2. OwesOneAtMost(units)' /\ OrderIsKept'
    BY <1>1, <1>3 DEF FightInv, DuelInv, OwesOneAtMost, OrderIsKept, ActsBefore, Initiative, vars
  <2>3. WithinMaximum'
    BY <1>1, StepWithinMaximum DEF FightInv, DuelInv
  <2> QED
    BY <2>1, <2>2, <2>3 DEF DuelInv
<1>5. SimTypeOK'
  BY <1>1, <1>3 DEF FightInv, SimTypeOK, vars
<1>6. \A u, k : Stands(u, k)' = Stands(u, k)
  BY <1>1 DEF Stands, vars
<1>7. \A s : FightingRank(s)' = FightingRank(s)
  BY <1>3, <1>6 DEF FightingRank
<1>8. OutOfReach(CurrentActor)' <=> OutOfReach(CurrentActor)
  <2>1. \A u : RowsHeld(u)' = RowsHeld(u)
    BY <1>1, <1>7 DEF RowsHeld, vars
  <2> QED
    BY <1>3, <2>1 DEF OutOfReach
<1>9. StuckIsExplained'
  BY <1>1, <1>3, <1>8 DEF FightInv, StuckIsExplained, BundleSupported, ComponentSupported,
                          ReachSupported, HasSecondary, BundleReach, vars
<1>10. ExceptionIsExplained'
  <2>1. SoundRoster' <=> SoundRoster
    BY <1>1, <1>3 DEF SoundRoster, vars
  <2> QED
    BY <1>1, <1>3, <1>6, <1>7, <2>1 DEF FightInv, ExceptionIsExplained, BundleReach, vars
<1>11. roster' = RosterOf(First', Second') /\ (~InProgress' => winner' \in Side /\ applied' > 0)
  BY <1>1, <1>2, <1>3 DEF FightInv, vars
<1> QED
  BY <1>4, <1>5, <1>9, <1>10, <1>11 DEF FightInv

-----------------------------------------------------------------------------
(* The sweep: its book, the stage it is at, and the battle of that stage.  *)
SweepInv == Book /\ StageFits /\ (stage = "Battle" => FightInv)

LEMMA InitSweepInv == SweepInit => SweepInv
<1> SUFFICES ASSUME SweepInit PROVE SweepInv
  OBVIOUS
<1>1. /\ world \in Worlds /\ stage = "Load" /\ exit = NoExit /\ entries = <<>> /\ total = 0
      /\ counts = [s \in Statuses \ {"Running"} |-> 0] /\ wins = [s \in Side |-> 0]
  BY DEF SweepInit
<1>2. entries \in Seq(Entries) /\ Len(entries) = 0 /\ DOMAIN entries = {}
  BY <1>1
<1>3. Len(Pairs) \in Nat
  BY <1>1, PairsAreAll
<1>4. EntriesFollowPairs /\ FinishedMeansWon
  BY <1>2, <1>3 DEF EntriesFollowPairs, FinishedMeansWon
<1>5. \A s : CountOf(s) = 0 /\ WinsOf(s) = 0
  BY <1>2, FS_EmptySet DEF CountOf, WinsOf
<1>6. CountersAgree
  BY <1>1, <1>2, <1>5 DEF CountersAgree
<1> QED
  BY <1>1, <1>4, <1>6 DEF SweepInv, Book, StageFits

(* The entry of a battle that has returned says how it ended.              *)
LEMMA ReturnsAnEntry ==
  ASSUME SweepInv, stage = "Battle", result # "Running"
  PROVE  LET e == IF result = "AbortedRuleException" THEN Entry(result, NoSide, 0, 0)
                  ELSE Entry(result, winner, round, applied)
         IN  /\ e \in Entries /\ e.pair = <<First.id, Second.id>> /\ SaysWhoWon(e)
             /\ OnlyWinnersFinish(e) /\ e.status # "AbortedBootstrapFailure"
<1>1. /\ TypeOK /\ SimTypeOK /\ (~InProgress => winner \in Side /\ applied > 0)
      /\ world \in Worlds /\ entries \in Seq(Entries) /\ Len(entries) < Len(Pairs)
  BY DEF SweepInv, FightInv, DuelInv, Book, EntriesFollowPairs, StageFits
<1>2. <<First.id, Second.id>> \in Int \X Int
  <2>1. Len(entries) \in Nat /\ Len(Pairs) \in Nat
    BY <1>1, PairsAreAll
  <2>2. Sequence <= Len(Pairs)
    BY <1>1, <2>1 DEF Sequence
  <2> QED
    BY <1>1, <2>2, NextPair
<1>3. /\ result \in Statuses \ {"Running"} /\ result # "AbortedBootstrapFailure"
      /\ winner \in {NoSide} \cup Side /\ round \in Nat /\ applied \in Nat
      /\ result = "Finished" => winner \in Side /\ applied > 0
      /\ result # "Finished" => winner = NoSide
  <2>1. winner # NoSide => ~InProgress
    BY DEF SweepInv, FightInv, DuelInv, ValidState, OutcomeAgrees
  <2> QED
    BY <1>1, <2>1, MaxActionsAssumption DEF SimTypeOK, TypeOK, Results, Statuses
<1>4. ASSUME NEW v \in {NoSide} \cup Side, NEW r \in Nat, NEW a \in Nat,
             result = "Finished" => v \in Side /\ a > 0, result # "Finished" => v = NoSide
      PROVE  /\ Entry(result, v, r, a) \in Entries
             /\ Entry(result, v, r, a).pair = <<First.id, Second.id>>
             /\ SaysWhoWon(Entry(result, v, r, a)) /\ OnlyWinnersFinish(Entry(result, v, r, a))
             /\ Entry(result, v, r, a).status # "AbortedBootstrapFailure"
  BY <1>2, <1>3, <1>4 DEF Entries, Entry, SaysWhoWon, OnlyWinnersFinish
<1>5. CASE result = "AbortedRuleException"
  BY <1>4, <1>5
<1>6. CASE result # "AbortedRuleException"
  BY <1>3, <1>4, <1>6
<1> QED
  BY <1>5, <1>6

LEMMA SweepKeepsInv == SweepInv /\ [SweepNext]_sweepVars => SweepInv'
<1> SUFFICES ASSUME SweepInv, [SweepNext]_sweepVars PROVE SweepInv'
  OBVIOUS
<1>1. Book /\ StageFits /\ world \in Worlds /\ world.loads \in BOOLEAN
      /\ entries \in Seq(Entries) /\ Len(entries) \in Nat /\ Len(entries) <= Len(Pairs)
  BY WorldsAssumption DEF SweepInv, Book, EntriesFollowPairs
<1>2. Len(Pairs) \in Nat /\ Sequence = Len(entries) + 1
  BY <1>1, PairsAreAll DEF Sequence
<1>3. UNCHANGED world => Pairs' = Pairs
  BY DEF Pairs, Fighters
<1>4. CASE Load
  <2>1. Book'
    BY <1>1, <1>4, BookStays DEF Load
  <2>2. stage' # "Battle" /\ StageFits'
    BY <1>1, <1>4 DEF Load, StageFits, NoExit
  <2> QED
    BY <2>1, <2>2 DEF SweepInv
<1>5. CASE BootstrapFailure
  <2>1. Book' /\ Len(entries') = Len(entries) + 1
    BY <1>1, <1>5, BootstrapFailureKeepsBook
  <2>2. stage' = "Pair" /\ exit' = exit /\ world' = world /\ stage = "Pair"
    BY <1>5 DEF BootstrapFailure, PairIsNext
  <2>3. StageFits'
    BY <1>1, <2>2 DEF StageFits
  <2> QED
    BY <2>1, <2>2, <2>3 DEF SweepInv
<1>6. CASE LogFailure
  <2> DEFINE e == Entry("AbortedLogFailure", NoSide, 0, 0)
  <2>1. Sequence <= Len(Pairs) /\ stage = "Pair" /\ Report(e)
    BY <1>6 DEF LogFailure, PairIsNext
  <2>2. <<First.id, Second.id>> \in Int \X Int
    BY <1>1, <2>1, NextPair
  <2>3. e \in Entries /\ e.pair = <<First.id, Second.id>> /\ SaysWhoWon(e)
        /\ OnlyWinnersFinish(e) /\ e.status # "AbortedBootstrapFailure"
    BY <2>2 DEF Entries, Entry, SaysWhoWon, OnlyWinnersFinish, Statuses
  <2> HIDE DEF e
  <2>4. Book'
    BY <1>1, <2>1, <2>3, ReportKeepsBook
  <2>5. stage' = "Pair" /\ StageFits'
    BY <1>1, <2>1 DEF Report, StageFits
  <2> QED
    BY <2>4, <2>5 DEF SweepInv
<1>7. CASE StartBattle
  <2>1. Book'
    BY <1>1, <1>7, BookStays DEF StartBattle
  <2>2. FightInv'
    BY <1>1, <1>7, FightBegins
  <2>3. StageFits'
    <3>1. /\ stage = "Pair" /\ stage' = "Battle" /\ world' = world /\ exit' = exit /\ entries' = entries
          /\ Sequence <= Len(Pairs)
      BY <1>7 DEF StartBattle, PairIsNext, summary
    <3>2. Len(entries') < Len(Pairs')
      BY <1>2, <1>1, <1>3, <3>1
    <3> QED
      BY <1>1, <3>1, <3>2 DEF StageFits
  <2> QED
    BY <2>1, <2>2, <2>3 DEF SweepInv
<1>8. CASE Fight
  <2>1. Book'
    BY <1>1, <1>8, BookStays DEF Fight
  <2>2. FightInv'
    BY <1>8, FightKeepsFight DEF SweepInv, Fight
  <2>3. StageFits'
    <3>1. /\ stage = "Battle" /\ stage' = stage /\ world' = world /\ exit' = exit /\ entries' = entries
      BY <1>8 DEF Fight, summary
    <3> QED
      BY <1>1, <1>3, <3>1 DEF StageFits
  <2> QED
    BY <2>1, <2>2, <2>3 DEF SweepInv
<1>9. CASE BattleReturns
  <2> DEFINE e == IF result = "AbortedRuleException" THEN Entry(result, NoSide, 0, 0)
                  ELSE Entry(result, winner, round, applied)
  <2>1. stage = "Battle" /\ result # "Running" /\ Report(e)
    BY <1>9 DEF BattleReturns
  <2>2. e \in Entries /\ e.pair = <<First.id, Second.id>> /\ SaysWhoWon(e)
        /\ OnlyWinnersFinish(e) /\ e.status # "AbortedBootstrapFailure"
    BY <2>1, ReturnsAnEntry
  <2> HIDE DEF e
  <2>3. Sequence <= Len(Pairs)
    BY <1>1, <1>2, <2>1 DEF StageFits
  <2>4. Book'
    BY <1>1, <2>1, <2>2, <2>3, ReportKeepsBook
  <2>5. stage' = "Pair" /\ StageFits'
    BY <1>1, <2>1 DEF Report, StageFits
  <2> QED
    BY <2>4, <2>5 DEF SweepInv
<1>10. CASE WriteSummary
  <2>1. Book'
    BY <1>1, <1>10, BookStays DEF WriteSummary
  <2>2. /\ stage = "Pair" /\ stage' = "Ended" /\ exit' = ExitCode /\ Sequence > Len(Pairs)
        /\ world' = world /\ entries' = entries /\ counts' = counts
    BY <1>10 DEF WriteSummary, summary
  <2>3. Len(entries') = Len(Pairs')
    BY <1>1, <1>2, <1>3, <2>2
  <2>4. ExitCode' = ExitCode
    BY <2>2 DEF ExitCode
  <2> QED
    BY <1>1, <2>1, <2>2, <2>3, <2>4 DEF SweepInv, StageFits
<1>11. CASE UNCHANGED sweepVars
  <2>1. Book'
    BY <1>1, <1>11, BookStays DEF sweepVars
  <2>2. stage' = stage /\ exit' = exit /\ world' = world /\ entries' = entries /\ counts' = counts
    BY <1>11 DEF sweepVars, summary
  <2>3. ExitCode' = ExitCode
    BY <2>2 DEF ExitCode
  <2>4. StageFits'
    BY <1>1, <1>3, <2>2, <2>3 DEF StageFits
  <2> QED
    BY <1>11, <2>1, <2>2, <2>4, FightStays DEF SweepInv
<1> QED
  BY <1>4, <1>5, <1>6, <1>7, <1>8, <1>9, <1>10, <1>11 DEF SweepNext

LEMMA SweepInvExplains == SweepInv => BadEndsAreExplained /\ SummaryAddsUp
<1> SUFFICES ASSUME SweepInv PROVE BadEndsAreExplained /\ SummaryAddsUp
  OBVIOUS
<1>1. Book /\ StageFits /\ (stage = "Battle" => FightInv)
  BY DEF SweepInv
<1>2. SummaryAddsUp
  BY <1>1, BookAddsUp
<1>3. exit \in {NoExit, 0, 1, 2}
  BY <1>1, WorldsAssumption DEF StageFits, ExitCode
<1>4. SweepTypeOK
  BY <1>1, <1>3 DEF SweepTypeOK, FightInv, StageFits, Book, CountersAgree
<1> QED
  BY <1>1, <1>2, <1>4 DEF BadEndsAreExplained, FightInv

(* Whatever the stacks, every battle of the sweep that ends without a      *)
(* valid action or with an exception of the rules does so for one of the   *)
(* reasons BadEndsAreExplained lists (battle_simulator.cpp:95, :138).      *)
THEOREM BadEndsHaveReasons == SweepSpec => []BadEndsAreExplained
<1> QED
  BY InitSweepInv, SweepKeepsInv, SweepInvExplains, PTL DEF SweepSpec

(* Whatever the stacks, the summary agrees with its entries, every         *)
(* finished battle was won after an action, and exit code 0 means that     *)
(* every directed pair was fought to its end (sweep_runner.cpp:270-360).   *)
THEOREM SummariesAddUp == SweepSpec => []SummaryAddsUp
<1> QED
  BY InitSweepInv, SweepKeepsInv, SweepInvExplains, PTL DEF SweepSpec
=============================================================================
