------------------------------- MODULE Battle --------------------------------
(***************************************************************************)
(* The turn-based battle rules of src/src/d2battle_rules: who acts, which  *)
(* actions the rules accept, what an action does to the units, and when    *)
(* the battle ends.                                                        *)
(*                                                                         *)
(* A unit is identified by its side and its member slot, which is how the  *)
(* code keys turn order ties and target enumeration.  What bootstrap reads *)
(* from the two stacks and from the game data (formation, maximum HP, the  *)
(* primary and secondary attack, the leader, the starting HP) is the       *)
(* roster; it never changes during the battle.                             *)
(*                                                                         *)
(* A call that throws leaves the caller's state untouched (apply works on  *)
(* a copy), so it is not a step here; Throws and EnumeratorThrows say when *)
(* that happens and module BattleSweep models what its caller does.        *)
(***************************************************************************)
EXTENDS Integers, Sequences, FiniteSets

CONSTANTS
  Rosters,     (* the pairs of stacks a battle may be bootstrapped from      *)
  MaxRounds    (* bound: no action is taken in a later round                 *)

(***************************************************************************)
(* The 3 x 2 battle formation of one side and the melee reach rule.        *)
(*                                                                         *)
(* A side has six member slots and six cells.  cell_members maps a cell to *)
(* the slot of the member standing on it, or to NoMember; a large unit     *)
(* stands on two cells.  Even cells are the front rank, odd cells the back *)
(* rank, and cells 2r and 2r+1 form row r (0 top, 1 middle, 2 bottom).     *)
(***************************************************************************)
Slot == 0..5
Cell == 0..5
NoMember == -1
Formations == [Cell -> Slot \cup {NoMember}]

RankOf(c) == IF c % 2 = 0 THEN "Front" ELSE "Back"
RowOf(c) == c \div 2

(* The members standing in a rank that are in the set of living slots.     *)
AliveMembersInRank(cells, living, rank) ==
  {cells[c] : c \in {k \in Cell : RankOf(k) = rank /\ cells[k] \in living}}

(* The rank that fights in melee: the front one while anybody there lives. *)
ActiveRank(cells, living) ==
  IF AliveMembersInRank(cells, living, "Front") = {} THEN "Back" ELSE "Front"

OccupiedRowsInRank(cells, slot, rank) ==
  {RowOf(c) : c \in {k \in Cell : RankOf(k) = rank /\ cells[k] = slot}}

AdjacentRowsReachable(attackerRow, targetRow) ==
  attackerRow - targetRow \in {-1, 0, 1}

(***************************************************************************)
(* Verdict on a melee attack of member `actor` of the side (cells, living) *)
(* on member `target` of the side (tcells, tliving).                       *)
(***************************************************************************)
AdjacentVerdict(cells, living, actor, tcells, tliving, target) ==
  LET actorRows  == OccupiedRowsInRank(cells, actor, ActiveRank(cells, living))
      targetRows == OccupiedRowsInRank(tcells, target, ActiveRank(tcells, tliving))
  IN  CASE actorRows = {}  -> "ActorNotOnActiveMeleeRank"
        [] actorRows # {} /\ targetRows = {} -> "TargetProtectedByFrontRank"
        [] actorRows # {} /\ targetRows # {} ->
             IF \E a \in actorRows, t \in targetRows : AdjacentRowsReachable(a, t)
             THEN "None" ELSE "TargetOutOfAdjacentReach"
-----------------------------------------------------------------------------
Side == {1, 2}                       \* BattleSide::Party1, BattleSide::Party2
Opposite(s) == 3 - s
NoSide == 0
Unit == Side \X Slot
NoUnit == <<0, 0>>

(* The seven attack classes the rules support, "Other" for every other     *)
(* class of the data, "None" for an empty attack id.                       *)
EnemyClass == {"Damage", "Drain", "DrainOverflow", "Petrify"}
AllyClass == {"Heal", "Cure", "Revive"}
SupportedClass == EnemyClass \cup AllyClass
AttackClass == SupportedClass \cup {"Other", "None"}
Reach == {"All", "Any", "Adjacent", "Unknown"}
Attack == [class : AttackClass, reach : Reach, initiative : Int, damage : Nat, heal : Nat]
NoAttack == [class |-> "None", reach |-> "Unknown", initiative |-> 0, damage |-> 0, heal |-> 0]

(* What validate_battle_state demands of the static part of a battle.      *)
ValidRoster(r) ==
  /\ r.members \in SUBSET Unit
  /\ r.members # {}
  /\ r.cells \in [Side -> Formations]
  /\ \A s \in Side, c \in Cell : r.cells[s][c] # NoMember => <<s, r.cells[s][c]>> \in r.members
  /\ \A u \in r.members : \E c \in Cell : r.cells[u[1]][c] = u[2]
  /\ r.maxHp \in [r.members -> Nat]
  /\ r.startHp \in [r.members -> Nat]
  /\ r.primary \in [r.members -> Attack]
  /\ r.secondary \in [r.members -> Attack]
  /\ r.leader \in [Side -> Unit \cup {NoUnit}]

ASSUME RostersAssumption == \A r \in Rosters : ValidRoster(r)
ASSUME MaxRoundsAssumption == MaxRounds \in Nat

VARIABLES
  roster,       (* the two sides' static data                                *)
  units,        (* per unit: hp, alive and the petrify skips it still owes   *)
  leaderAlive,  (* per side, the leader_alive flag                           *)
  status,       (* "InProgress" or "Finished"                                *)
  winner,       (* the winning side, NoSide for none                         *)
  round,        (* round_number                                              *)
  turnOrder,    (* turn_order: the units due to act in this round            *)
  turn          (* current_turn_index, counted from 1                        *)

vars == <<roster, units, leaderAlive, status, winner, round, turnOrder, turn>>

Members == roster.members
UnitState == [hp : Nat, alive : BOOLEAN, skips : Nat]
-----------------------------------------------------------------------------
(***************************************************************************)
(* Turn order.                                                             *)
(***************************************************************************)
Initiative(u) ==
  IF roster.primary[u].class # "None" THEN roster.primary[u].initiative
                                      ELSE roster.secondary[u].initiative

(* u acts before v: higher initiative, then side, then member slot.        *)
ActsBefore(u, v) ==
  \/ Initiative(u) > Initiative(v)
  \/ /\ Initiative(u) = Initiative(v)
     /\ u[1] < v[1] \/ (u[1] = v[1] /\ u[2] < v[2])

Alive(us) == {u \in Members : us[u].alive}
AliveOf(us, s) == {u \in Alive(us) : u[1] = s}

(* The units of L in the order they act: position i is held by the unit    *)
(* that i - 1 units of L precede.                                          *)
BuildTurnOrder(L) ==
  [i \in 1..Cardinality(L) |->
     CHOOSE u \in L : Cardinality({v \in L : ActsBefore(v, u)}) = i - 1]

CurrentActor == turnOrder[turn]
-----------------------------------------------------------------------------
(***************************************************************************)
(* Attack bundles: a unit attacks with its primary attack and, when it has *)
(* one, its secondary attack, both with the primary's relation and reach.  *)
(***************************************************************************)
ReachSupported(a) == a.reach \in {"All", "Any"} \/ (a.reach = "Adjacent" /\ a.class \in EnemyClass)
ComponentSupported(a) == a.class \in SupportedClass /\ ReachSupported(a)

HasSecondary(u) == roster.secondary[u].class # "None"

BundleSupported(u) ==
  /\ ComponentSupported(roster.primary[u])
  /\ HasSecondary(u) =>
       /\ ComponentSupported(roster.secondary[u])
       /\ (roster.primary[u].class \in EnemyClass) = (roster.secondary[u].class \in EnemyClass)
       /\ roster.primary[u].reach = roster.secondary[u].reach

AimsAtEnemy(u) == roster.primary[u].class \in EnemyClass
BundleReach(u) == roster.primary[u].reach
TargetSide(u) == IF AimsAtEnemy(u) THEN Opposite(u[1]) ELSE u[1]

AllEnemyUnits == <<"AllEnemyUnits">>
AllAlliedUnits == <<"AllAlliedUnits">>
AttackTarget == Unit \cup {AllEnemyUnits, AllAlliedUnits}
SideWide(u) == IF AimsAtEnemy(u) THEN AllEnemyUnits ELSE AllAlliedUnits

(* Only Revive looks for the dead; every other class needs a living unit.  *)
RightVitality(us, t, attack) == us[t].alive = (attack.class # "Revive")

(* enumerate_unit_targets: the members of the target side an attack of     *)
(* this class can affect.                                                  *)
UnitTargets(us, u, attack) ==
  {t \in Members : t[1] = TargetSide(u) /\ RightVitality(us, t, attack)}

(* resolve_bundle_component_context: whom one component affects.           *)
ComponentTargets(us, u, target, attack) ==
  IF target \in {AllEnemyUnits, AllAlliedUnits}
  THEN UnitTargets(us, u, attack)
  ELSE {t \in {target} : RightVitality(us, t, attack)}

LivingSlots(us, s) == {u[2] : u \in AliveOf(us, s)}

MeleeVerdict(us, u, t) ==
  AdjacentVerdict(roster.cells[u[1]], LivingSlots(us, u[1]), u[2],
                  roster.cells[t[1]], LivingSlots(us, t[1]), t[2])
-----------------------------------------------------------------------------
(***************************************************************************)
(* Which actions the rules accept.                                         *)
(***************************************************************************)
AttackVerdict(u, target) ==
  LET shapeOK == IF BundleReach(u) = "All" THEN target = SideWide(u)
                                           ELSE target \notin {AllEnemyUnits, AllAlliedUnits}
      affected == ComponentTargets(units, u, target, roster.primary[u])
                    \cup IF HasSecondary(u)
                         THEN ComponentTargets(units, u, target, roster.secondary[u]) ELSE {}
  IN  IF status # "InProgress" THEN "BattleFinished"
      ELSE IF u \notin Members THEN "ActorUnknown"
      ELSE IF u # CurrentActor THEN "ActorNotCurrent"
      ELSE IF units[u].skips > 0 THEN "ActorIncapacitated"
      ELSE IF ~BundleSupported(u) THEN "UnsupportedBundle"
      ELSE IF ~shapeOK THEN "TargetShapeMismatch"
      ELSE IF BundleReach(u) # "All" /\ target \notin Members THEN "TargetUnknown"
      ELSE IF BundleReach(u) # "All" /\ target[1] # TargetSide(u)
           THEN IF AimsAtEnemy(u) THEN "FriendlyTarget" ELSE "HostileTarget"
      ELSE IF BundleReach(u) = "Adjacent" /\ MeleeVerdict(units, u, target) # "None"
           THEN MeleeVerdict(units, u, target)
      ELSE IF affected = {} THEN "NoEligibleTargets"
      ELSE "None"

SkipVerdict(u) ==
  IF status # "InProgress" THEN "BattleFinished"
  ELSE IF u \notin Members THEN "ActorUnknown"
  ELSE IF u # CurrentActor THEN "ActorNotCurrent"
  ELSE IF ~units[u].alive THEN "TargetDead"
  ELSE IF units[u].skips = 0 THEN "SkipNotRequired"
  ELSE "None"

(* Mutant of BundleUnitTargets: the secondary attack is forgotten.          *)
PrimaryUnitTargets(u) == UnitTargets(units, u, roster.primary[u])

(* Everybody the bundle could affect, before melee reach is looked at.     *)
BundleUnitTargets(u) ==
  UnitTargets(units, u, roster.primary[u])
    \cup IF HasSecondary(u) THEN UnitTargets(units, u, roster.secondary[u]) ELSE {}

(* enumerate_bundle_unit_targets drops a protected or a distant target and *)
(* throws on every other verdict, so on an attacker outside its side's     *)
(* active rank.                                                            *)
EnumeratorThrows ==
  /\ status = "InProgress"
  /\ units[CurrentActor].skips = 0
  /\ BundleSupported(CurrentActor)
  /\ BundleReach(CurrentActor) = "Adjacent"
  /\ \E t \in BundleUnitTargets(CurrentActor) :
       MeleeVerdict(units, CurrentActor, t) = "ActorNotOnActiveMeleeRank"

(* valid_actions_on_valid_state, for an actor that is not petrified: the   *)
(* targets offered to the player.                                          *)
OfferedTargets ==
  LET u == CurrentActor
      ts == BundleUnitTargets(u)
  IN  IF status # "InProgress" \/ units[u].skips > 0 \/ ~BundleSupported(u) \/ EnumeratorThrows
      THEN {}
      ELSE IF BundleReach(u) = "All" THEN {a \in {SideWide(u)} : ts # {}}
      ELSE IF BundleReach(u) = "Adjacent" THEN {t \in ts : MeleeVerdict(units, u, t) = "None"}
      ELSE ts
-----------------------------------------------------------------------------
(***************************************************************************)
(* What one attack component does.  Targets are distinct units, so a batch *)
(* is applied to all of them at once.                                      *)
(***************************************************************************)
Lesser(a, b) == IF a < b THEN a ELSE b
Greater(a, b) == IF a > b THEN a ELSE b

(* The sum of f over the six member slots of a side.                       *)
SlotSum(f) == f[0] + f[1] + f[2] + f[3] + f[4] + f[5]

(* Mutant of Damaged: HP are not clamped at zero.                           *)
DamagedBelowZero(unit, damage) ==
  LET left == unit.hp - damage
  IN  [hp |-> left, alive |-> left > 0,
       skips |-> IF unit.alive /\ left <= 0 THEN 0 ELSE unit.skips]

(* apply_raw_damage: losing the last HP kills and sheds petrification.     *)
Damaged(unit, damage) ==
  LET left == Greater(0, unit.hp - damage)
  IN  [hp |-> left, alive |-> left > 0,
       skips |-> IF unit.alive /\ left = 0 THEN 0 ELSE unit.skips]

DamageAll(us, T, damage) ==
  [u \in DOMAIN us |-> IF u \in T THEN Damaged(us[u], damage) ELSE us[u]]

(* Mutant of DamageDealt: the requested damage, overkill included.          *)
DamageRequested(us, s, T, damage) ==
  SlotSum([k \in Slot |-> IF <<s, k>> \in T THEN damage ELSE 0])

(* total_actual_damage: what the targets, all of side s, really lose.      *)
DamageDealt(us, s, T, damage) ==
  SlotSum([k \in Slot |-> IF <<s, k>> \in T THEN Lesser(us[<<s, k>>].hp, damage) ELSE 0])

Missing(us, u) == Greater(0, roster.maxHp[u] - us[u].hp)

(* heal_alive_unit_up_to_max throws on a unit over its maximum.            *)
CannotHeal(us, u) == us[u].hp > roster.maxHp[u] \/ roster.maxHp[u] = 0

(* Mutant of Healed: the maximum is not looked at.                          *)
HealedInFull(us, H, amount) ==
  [u \in DOMAIN us |-> IF u \in H THEN [us[u] EXCEPT !.hp = @ + amount] ELSE us[u]]

Healed(us, H, amount) ==
  [u \in DOMAIN us |->
     IF u \in H THEN [us[u] EXCEPT !.hp = @ + Lesser(amount, Missing(us, u))] ELSE us[u]]

Drained(us, u, T, damage) ==
  LET budget == DamageDealt(us, Opposite(u[1]), T, damage) \div 2
  IN  Healed(DamageAll(us, T, damage), {u}, budget)

(* What the allies in the slots before k need.  The mutant takes the allies *)
(* in reverse.                                                              *)
NeedAfter(need, k) == SlotSum([j \in Slot |-> IF j > k THEN need[j] ELSE 0])
NeedBefore(need, k) == SlotSum([j \in Slot |-> IF j < k THEN need[j] ELSE 0])

(* distribute_drain_healing: the actor first, then its living allies in    *)
(* slot order, each taking what it misses of what is left.                 *)
DrainedOverflow(us, u, T, damage) ==
  LET hit == DamageAll(us, T, damage)
      budget == DamageDealt(us, Opposite(u[1]), T, damage) \div 2
      rest == budget - Lesser(budget, Missing(hit, u))
      ally(k) == <<u[1], k>> \in AliveOf(hit, u[1]) \ {u}
      need == [k \in Slot |-> IF ally(k) THEN Missing(hit, <<u[1], k>>) ELSE 0]
      share(k) == Lesser(need[k], Greater(0, rest - NeedBefore(need, k)))
      fed == Healed(hit, {u}, budget)
  IN  [v \in DOMAIN us |->
         IF v[1] = u[1] /\ ally(v[2]) THEN [fed[v] EXCEPT !.hp = @ + share(v[2])] ELSE fed[v]]

PetrifySkips == 1

(* Mutant of Petrified: a second petrification adds up instead of           *)
(* refreshing the first.                                                    *)
PetrifiedAgain(us, T) ==
  [u \in DOMAIN us |-> IF u \in T THEN [us[u] EXCEPT !.skips = @ + PetrifySkips] ELSE us[u]]

Petrified(us, T) ==
  [u \in DOMAIN us |-> IF u \in T THEN [us[u] EXCEPT !.skips = PetrifySkips] ELSE us[u]]

Cured(us, T) == [u \in DOMAIN us |-> IF u \in T THEN [us[u] EXCEPT !.skips = 0] ELSE us[u]]

(* Mutant of Revived: the revived HP are not capped.                        *)
RevivedUncapped(us, T, amount) ==
  [u \in DOMAIN us |-> IF u \in T THEN [us[u] EXCEPT !.hp = amount, !.alive = TRUE] ELSE us[u]]

Revived(us, T, amount) ==
  [u \in DOMAIN us |->
     IF u \in T THEN [us[u] EXCEPT !.hp = Lesser(amount, roster.maxHp[u]), !.alive = TRUE]
                ELSE us[u]]

(* dispatch_attack_effect.                                                 *)
Effect(us, u, attack, T) ==
  CASE attack.class = "Damage"        -> DamageAll(us, T, attack.damage)
    [] attack.class = "Drain"         -> Drained(us, u, T, attack.damage)
    [] attack.class = "DrainOverflow" -> DrainedOverflow(us, u, T, attack.damage)
    [] attack.class = "Petrify"       -> Petrified(us, T)
    [] attack.class = "Heal"          -> Healed(us, T, attack.heal)
    [] attack.class = "Cure"          -> Cured(us, T)
    [] attack.class = "Revive"        -> Revived(us, T, attack.heal)
    [] OTHER                          -> us

EffectThrows(us, u, attack, T) ==
  /\ T # {}
  /\ \/ attack.class \in {"Drain", "DrainOverflow"} /\ CannotHeal(us, u)
     \/ attack.class = "Heal" /\ \E t \in T : CannotHeal(us, t)
     \/ attack.class = "Revive" /\ (attack.heal = 0 \/ \E t \in T : roster.maxHp[t] = 0)

Component(us, u, target, attack) ==
  LET T == ComponentTargets(us, u, target, attack)
  IN  IF T = {} THEN us ELSE Effect(us, u, attack, T)

(* The whole attack.  The secondary's targets are resolved again on the    *)
(* state the primary leaves behind.                                        *)
AfterPrimary(u, target) == Component(units, u, target, roster.primary[u])

(* Mutant of AfterAttack: the secondary strikes the targets found before    *)
(* the primary was applied.                                                 *)
AfterAttackStale(u, target) ==
  LET mid == AfterPrimary(u, target)
      T == ComponentTargets(units, u, target, roster.secondary[u])
  IN  IF HasSecondary(u) /\ T # {} THEN Effect(mid, u, roster.secondary[u], T) ELSE mid

AfterAttack(u, target) ==
  IF HasSecondary(u)
  THEN Component(AfterPrimary(u, target), u, target, roster.secondary[u])
  ELSE AfterPrimary(u, target)

Throws(u, target) ==
  LET mid == AfterPrimary(u, target)
  IN  \/ EffectThrows(units, u, roster.primary[u],
                      ComponentTargets(units, u, target, roster.primary[u]))
      \/ /\ HasSecondary(u)
         /\ EffectThrows(mid, u, roster.secondary[u],
                         ComponentTargets(mid, u, target, roster.secondary[u]))
-----------------------------------------------------------------------------
(***************************************************************************)
(* normalize_derived_side_state, normalize_battle_status, advance_turn.    *)
(***************************************************************************)
LeaderFlags(us, flags) ==
  [s \in Side |-> IF roster.leader[s] = NoUnit THEN flags[s] ELSE roster.leader[s] \in Alive(us)]

StatusOf(us) ==
  IF AliveOf(us, 1) = {} \/ AliveOf(us, 2) = {} THEN "Finished" ELSE "InProgress"

WinnerOf(us) ==
  CASE AliveOf(us, 1) # {} /\ AliveOf(us, 2) = {} -> 1
    [] AliveOf(us, 1) = {} /\ AliveOf(us, 2) # {} -> 2
    [] OTHER -> NoSide

(* The positions after the current one whose unit lives.                   *)
StillDue(us) == {i \in 1..Len(turnOrder) : i > turn /\ us[turnOrder[i]].alive}

AdvanceTurn(us) ==
  IF StillDue(us) # {}
  THEN /\ turn' = CHOOSE i \in StillDue(us) : \A j \in StillDue(us) : i <= j
       /\ UNCHANGED <<round, turnOrder>>
  ELSE /\ round' = round + 1
       /\ turnOrder' = BuildTurnOrder(Alive(us))
       /\ turn' = 1

(* What follows every action, whatever it did to the units.                *)
Settle(us) ==
  /\ units' = us
  /\ leaderAlive' = LeaderFlags(us, leaderAlive)
  /\ status' = StatusOf(us)
  /\ winner' = WinnerOf(us)
  /\ IF StatusOf(us) = "InProgress" THEN AdvanceTurn(us)
                                    ELSE UNCHANGED <<round, turnOrder, turn>>
  /\ UNCHANGED roster

Bootstrapped(r) == [u \in r.members |-> [hp |-> r.startHp[u], alive |-> r.startHp[u] > 0, skips |-> 0]]

Init ==
  /\ roster \in Rosters
  /\ units = Bootstrapped(roster)
  /\ \E flags \in [Side -> BOOLEAN] : leaderAlive = LeaderFlags(units, flags)
  /\ status = StatusOf(units)
  /\ winner = WinnerOf(units)
  /\ IF status = "InProgress"
     THEN round = 1 /\ turnOrder = BuildTurnOrder(Alive(units)) /\ turn = 1
     ELSE round = 0 /\ turnOrder = <<>> /\ turn = 1

(* apply of an AttackAction.                                               *)
DoAttack(u, target) ==
  /\ AttackVerdict(u, target) = "None"
  /\ ~Throws(u, target)
  /\ Settle(AfterAttack(u, target))

(* apply of a SkipActivationAction.                                        *)
DoSkip(u) ==
  /\ SkipVerdict(u) = "None"
  /\ Settle([units EXCEPT ![u].skips = @ - 1])

AttackStep ==
  /\ round <= MaxRounds
  /\ \E u \in Members, target \in AttackTarget : DoAttack(u, target)

SkipStep ==
  /\ round <= MaxRounds
  /\ \E u \in Members : DoSkip(u)

Next == AttackStep \/ SkipStep

Spec == Init /\ [][Next]_vars
-----------------------------------------------------------------------------
(***************************************************************************)
(* What the battle rules must keep true; ImplementsDuel states that they   *)
(* implement the abstract contract of module Duel.                         *)
(***************************************************************************)
InProgress == status = "InProgress"

(* The shape of every variable.                                            *)
TypeOK ==
  /\ roster \in Rosters
  /\ units \in [Members -> UnitState]
  /\ leaderAlive \in [Side -> BOOLEAN]
  /\ status \in {"InProgress", "Finished"}
  /\ winner \in {NoSide} \cup Side
  /\ round \in Nat
  /\ turnOrder \in Seq(Members)
  /\ turn \in Nat \ {0}
-----------------------------------------------------------------------------
(* The four groups of checks of validate_battle_state.                     *)
DeadAreClean ==
  \A u \in Members : /\ units[u].alive <=> units[u].hp > 0
                     /\ ~units[u].alive => units[u].skips = 0

LeaderFlagsAgree ==
  \A s \in Side : roster.leader[s] \in Members => leaderAlive[s] = units[roster.leader[s]].alive

TurnIsPlayable ==
  InProgress =>
    /\ round > 0
    /\ turn \in DOMAIN turnOrder
    /\ \A i, j \in DOMAIN turnOrder : turnOrder[i] = turnOrder[j] => i = j
    /\ units[CurrentActor].alive
    /\ \A s \in Side : AliveOf(units, s) # {}

OutcomeAgrees ==
  /\ winner # NoSide => ~InProgress
  /\ ~InProgress => \A s \in Side : AliveOf(units, s) # {} <=> winner = s

(* validate_battle_state accepts the state: apply checks its own result    *)
(* with it and throws away the whole action when it fails, so an action    *)
(* that leaves anything inconsistent ends the battle.                      *)
ValidState == DeadAreClean /\ LeaderFlagsAgree /\ TurnIsPlayable /\ OutcomeAgrees
-----------------------------------------------------------------------------
(* valid_actions and validate_action, two paths through the code, agree:   *)
(* the targets offered are exactly the ones the validator accepts.         *)
OffersAreTheAcceptedOnes ==
  InProgress /\ ~EnumeratorThrows =>
    OfferedTargets = {t \in AttackTarget : AttackVerdict(CurrentActor, t) = "None"}

Stands(u, rank) == \E c \in Cell : RankOf(c) = rank /\ roster.cells[u[1]][c] = u[2]

(* Stacks that start at or below their maximum HP, and healers that heal.  *)
SoundRoster ==
  \A u \in Members :
    /\ roster.maxHp[u] > 0
    /\ roster.startHp[u] <= roster.maxHp[u]
    /\ \A a \in {roster.primary[u], roster.secondary[u]} : a.class = "Revive" => a.heal > 0

(* From a sound roster no accepted attack ever throws in an effect: nothing *)
(* the rules do brings a unit over its maximum.                             *)
AcceptedAttacksSucceed ==
  InProgress /\ SoundRoster =>
    \A t \in AttackTarget : AttackVerdict(CurrentActor, t) = "None" => ~Throws(CurrentActor, t)
-----------------------------------------------------------------------------
Loss(u) == Greater(0, units[u].hp - units'[u].hp)
Gain(u) == Greater(0, units'[u].hp - units[u].hp)
SideSum(s, f(_)) == SlotSum([k \in Slot |-> IF <<s, k>> \in Members THEN f(<<s, k>>) ELSE 0])

(* No life out of nothing: whatever an attack on the enemy gives back to   *)
(* the attacker's side is at most half of what it took, also when a bundle *)
(* drains twice and when a drain kills.                                    *)
DrainGivesHalfAtMost ==
  [][ InProgress /\ AimsAtEnemy(CurrentActor) =>
        2 * SideSum(CurrentActor[1], Gain) <= SideSum(Opposite(CurrentActor[1]), Loss) ]_vars

(* No unit is ever raised above its maximum, whichever chain of heals,     *)
(* drains and revivals hits it; a unit that was bootstrapped above it      *)
(* (a levelled unit of a saved game) is not raised further.                *)
HealingStopsAtMaximum ==
  [][ \A u \in Members : units'[u].hp <= Greater(units[u].hp, roster.maxHp[u]) ]_vars

(* An overflowing drain feeds the actor first and its allies in slot       *)
(* order: nobody gets a point while somebody before him still misses one.  *)
OverflowFeedsInOrder ==
  [][ InProgress /\ units[CurrentActor].skips = 0
        /\ roster.primary[CurrentActor].class = "DrainOverflow" /\ ~HasSecondary(CurrentActor) =>
        \A v \in Alive(units) \ {CurrentActor} :
          v[1] = CurrentActor[1] /\ Gain(v) > 0 =>
            \A w \in Alive(units) :
              w = CurrentActor \/ (w[1] = v[1] /\ w[2] < v[2]) =>
                units'[w].hp >= roster.maxHp[w] ]_vars

(* What a drain gives and to whom.                                         *)
DrainIsShared == DrainGivesHalfAtMost /\ OverflowFeedsInOrder
-----------------------------------------------------------------------------
(***************************************************************************)
(* The contract.  Who is frozen, whose turn it is and who is still to come *)
(* are read off the unit table and the turn vector.                        *)
(***************************************************************************)
Contract == INSTANCE Duel WITH
  Nobody   <- NoUnit,
  fighters <- Members,
  before   <- {p \in Members \X Members : ActsBefore(p[1], p[2])},
  living   <- Alive(units),
  frozen   <- {u \in Members : units[u].skips > 0},
  actor    <- IF turn \in DOMAIN turnOrder THEN CurrentActor ELSE NoUnit,
  pending  <- {turnOrder[i] : i \in {j \in DOMAIN turnOrder : j > turn}},
  rounds   <- round,
  victor   <- winner

(* Every step of the rules is an activation the contract allows: harm goes *)
(* to the other side only and help to the own one, a petrified unit loses  *)
(* exactly its activation, the order of the round is kept, dead units are  *)
(* passed over and revived ones wait for the next round, and the battle    *)
(* ends exactly when a side is wiped out, won by the side that acted.      *)
ImplementsDuel == Contract!Spec
=============================================================================
