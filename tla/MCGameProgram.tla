---------------------------- MODULE MCGameProgram -----------------------------
(***************************************************************************)
(* One image of each kind the program treats differently.  The standing    *)
(* stack is both an animation of the map (with a mask) and, with another   *)
(* view of it, what a movement asks for; the portrait is asked for by the  *)
(* stack information and read by a battle; a battle's plan names the same  *)
(* image twice.  At most one file is faulty.                               *)
(***************************************************************************)
EXTENDS GameProgram

CONSTANTS tile, select, route, city, stack, turned, walk, face, wolf

Tiles == <<tile>>
Selects == <<select>>
Routes == <<route>>
Cities == <<city>>
Stacks == <<stack>>
Idles == <<stack, turned>>
Walks == <<walk>>
Faces == <<face>>
Wolves == <<wolf, wolf>>
AllKeys == {tile, select, route, city, stack, turned, walk, face, wolf}

NoFault == [undecodable |-> {}, unusable |-> {}, scenario |-> FALSE, battle |-> FALSE]
OneFault ==
  {NoFault, [NoFault EXCEPT !.scenario = TRUE], [NoFault EXCEPT !.battle = TRUE]}
    \cup {[NoFault EXCEPT !.undecodable = {k}] : k \in {select, city, stack, turned}}
    \cup {[NoFault EXCEPT !.unusable = {k}] : k \in {route, stack, turned, walk, face, wolf}}
=============================================================================
