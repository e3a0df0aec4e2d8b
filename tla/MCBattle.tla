------------------------------ MODULE MCBattle -------------------------------
(***************************************************************************)
(* Small battles for TLC.  On side 1 the unit A, whose attack bundle varies *)
(* over everything the rules know, B, who petrifies, and E, who fights in  *)
(* melee; on side 2 the large unit C, who hits, and D behind it, who       *)
(* revives and cures.  HP are 0..4, so most blows decide a life, and A and *)
(* C tie on initiative.                                                    *)
(***************************************************************************)
EXTENDS Battle

A == <<1, 0>>
B == <<1, 1>>
E == <<1, 4>>
C == <<2, 0>>
D == <<2, 1>>

Blow(class, reach, ini, dmg, heal) ==
  IF class = "None" THEN NoAttack
  ELSE [class |-> class, reach |-> reach, initiative |-> ini, damage |-> dmg, heal |-> heal]

(* Every pair of classes of one relation at every reach, and some bundles   *)
(* that analyze_attack_bundle refuses.                                      *)
Bundles ==
  {[pair |-> p, reach |-> r] : p \in EnemyClass \X (EnemyClass \cup {"None"}),
                               r \in {"All", "Any", "Adjacent"}}
  \cup {[pair |-> p, reach |-> r] : p \in AllyClass \X (AllyClass \cup {"None"}), r \in {"All", "Any"}}
  \cup {[pair |-> <<"Heal", "Damage">>, reach |-> "Any"],
        [pair |-> <<"Other", "None">>, reach |-> "Any"],
        [pair |-> <<"Cure", "None">>, reach |-> "Adjacent"]}

Hp(a, b, e, c, d) ==
  [u \in {A, B, E, C, D} |->
     CASE u = A -> a [] u = B -> b [] u = E -> e [] u = C -> c [] OTHER -> d]

CellsOf(side1) ==
  <<side1, [c \in Cell |-> IF c \in {0, 2} THEN 0 ELSE IF c = 5 THEN 1 ELSE NoMember]>>

(* A in front with B behind, or A behind B; E in front in the bottom row.  *)
Front == [c \in Cell |-> CASE c = 2 -> 0 [] c = 1 -> 1 [] c = 4 -> 4 [] OTHER -> NoMember]
Back  == [c \in Cell |-> CASE c = 3 -> 0 [] c = 2 -> 1 [] c = 4 -> 4 [] OTHER -> NoMember]

Roster(bundle, cells, start) ==
  [members |-> {A, B, E, C, D}, cells |-> CellsOf(cells),
   maxHp |-> Hp(3, 2, 2, 3, 2), startHp |-> start,
   primary |-> [u \in {A, B, E, C, D} |->
     CASE u = A -> Blow(bundle.pair[1], bundle.reach, 2, 2, 3)
       [] u = B -> Blow("Petrify", "Any", 1, 0, 0)
       [] u = E -> Blow("Damage", "Adjacent", 0, 1, 0)
       [] u = C -> Blow("Damage", "Any", 2, 2, 0)
       [] OTHER -> Blow("Revive", "Any", 3, 0, 1)],
   secondary |-> [u \in {A, B, E, C, D} |->
     CASE u = A -> Blow(bundle.pair[2], bundle.reach, 0, 1, 1)
       [] u = D -> Blow("Cure", "Any", 0, 0, 0)
       [] OTHER -> NoAttack],
   leader |-> <<A, NoUnit>>]

Full == Hp(3, 2, 2, 3, 2)

(* Full strength; wounded with one dead on each side; over the maximum;     *)
(* two allies hurt on side 1; and a battle that is over before it begins.    *)
Starts == {Full, Hp(1, 0, 1, 3, 0), Hp(4, 1, 3, 2, 1), Hp(3, 1, 1, 3, 2), Hp(2, 1, 1, 0, 0)}

MCRosters ==
  {Roster(b, Front, s) : b \in Bundles, s \in Starts}
  \cup {Roster(b, Back, s) : b \in {x \in Bundles : x.reach = "Adjacent"},
                              s \in {Full, Hp(3, 0, 0, 3, 2)}}
  \cup {Roster([pair |-> <<"Damage", "None">>, reach |-> "Any"], Front, Hp(0, 0, 0, 0, 0))}
=============================================================================
