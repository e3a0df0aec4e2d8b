------------------------------- MODULE MCSweep -------------------------------
(***************************************************************************)
(* Small scenarios.  The Guard stands in the bottom row of the front rank  *)
(* with a Mate behind him, the Foe in the top row of the front rank, so    *)
(* Guard and Foe are out of each other's melee reach.  Their weapons cover *)
(* fights that end, fights that never do, and every reason for an abort.   *)
(* Other scenarios have a dead stack, a stack in a city, stacks the        *)
(* bootstrap refuses, failing logs, and do not load.                       *)
(***************************************************************************)
EXTENDS BattleSweep

Weapon(class, reach, power) ==
  [class |-> class, reach |-> reach, initiative |-> power, damage |-> power, heal |-> power]

FrontWeapons ==
  {Weapon("Damage", "Adjacent", 2), Weapon("Damage", "All", 1), Weapon("Drain", "Any", 2),
   Weapon("Petrify", "Any", 1), Weapon("Heal", "Any", 1), Weapon("Other", "Any", 1)}
BackWeapons ==
  {Weapon("Damage", "Adjacent", 2), Weapon("Revive", "Any", 1), Weapon("Revive", "All", 0),
   Weapon("DrainOverflow", "All", 1), Weapon("Petrify", "Any", 3)}
EnemyWeapons == {Weapon("Damage", "Any", 2), Weapon("Petrify", "All", 2), Weapon("Heal", "Any", 1)}

Party(id, hp, cells, weapons, second) ==
  [id |-> id, inside |-> FALSE, members |-> DOMAIN hp, unknown |-> {}, untyped |-> {},
   hp |-> hp, maxHp |-> [k \in DOMAIN hp |-> 3], cells |-> cells,
   primary |-> weapons, secondary |-> [k \in DOMAIN hp |-> IF k = 1 THEN second ELSE NoAttack],
   leader |-> 0]

GuardAndMate(id, hp, front, back, second) ==
  Party(id, hp, [c \in Cell |-> CASE c = 4 -> 0 [] c = 3 -> 1 [] OTHER -> NoMember],
        (0 :> front @@ 1 :> back), second)
Foe(id, hp, weapon) ==
  Party(id, (0 :> hp), [c \in Cell |-> IF c = 0 THEN 0 ELSE NoMember], (0 :> weapon), NoAttack)

World(stacks) == [stacks |-> stacks, loads |-> TRUE, logsFail |-> FALSE]

Duels ==
  {World(<<GuardAndMate(1, hp[1], front, back, NoAttack), Foe(2, hp[2], enemy)>>) :
     front \in FrontWeapons, back \in BackWeapons, enemy \in EnemyWeapons,
     hp \in {<<(0 :> 3 @@ 1 :> 3), 3>>, <<(0 :> 0 @@ 1 :> 2), 4>>}}
  \cup {World(<<GuardAndMate(1, (0 :> 2 @@ 1 :> 2), front, Weapon("Revive", "Any", 1),
                             Weapon("Cure", "Any", 1)), Foe(2, 3, enemy)>>) :
     front \in FrontWeapons, enemy \in EnemyWeapons}

Archer(id) == Foe(id, 2, Weapon("Damage", "Any", 2))
Crowd == <<Archer(3), [Archer(1) EXCEPT !.inside = TRUE], Foe(4, 0, Weapon("Damage", "Any", 2)),
           Archer(2)>>
Spoiled(s) ==
  {[s EXCEPT !.members = {0, 1}, !.unknown = {1}, !.hp = (0 :> 2 @@ 1 :> 0),
             !.maxHp = (0 :> 3 @@ 1 :> 0), !.primary = (0 :> NoAttack @@ 1 :> NoAttack),
             !.secondary = (0 :> NoAttack @@ 1 :> NoAttack)],
   [s EXCEPT !.untyped = {0}], [s EXCEPT !.cells = [c \in Cell |-> NoMember]]}

MCWorlds ==
  Duels
  \cup {World(Crowd), [World(Crowd) EXCEPT !.loads = FALSE], World(<<Archer(1)>>), World(<<>>)}
  \cup {[World(<<Archer(1), x>>) EXCEPT !.logsFail = f] :
          x \in Spoiled(Archer(2)) \cup {Archer(2)}, f \in BOOLEAN}
  \cup {World(<<Archer(1), x, Archer(3)>>) : x \in Spoiled(Archer(2))}

MCRosters ==
  UNION {{RosterOf(w.stacks[i], w.stacks[j]) : i, j \in DOMAIN w.stacks} : w \in Duels}
  \cup {RosterOf(Archer(i), Archer(j)) : i, j \in 1..3}
=============================================================================
