------------------------- MODULE MCAdventureScreen --------------------------
(***************************************************************************)
(* A 3 x 2 map: a road through forest and water; a walker, a flyer and a   *)
(* guard, whose leader's type has no profile, on the map; a stack in a     *)
(* settlement; one in no place the world knows.  One of the worlds has two *)
(* stacks on one cell, which the navigation map refuses.  Segments of two  *)
(* units, and frames shorter than a segment, longer than one and longer    *)
(* than two.                                                               *)
(***************************************************************************)
EXTENDS AdventureScreen

MCTerrain ==
  [ground |-> [c \in Cells |-> IF c = <<1, 0>> THEN "Forest"
                               ELSE IF c = <<2, 1>> THEN "Water" ELSE "Plain"],
   road |-> {<<1, 1>>, <<2, 1>>}, blocking |-> {}]

MCWhereabouts ==
  [s \in Stack |-> CASE s = "settled" -> "settlement" [] s = "lost" -> "lost" [] OTHER -> "map"]
MCLeader ==
  [s \in Stack |-> CASE s = "walker" -> "Walking" [] s = "flyer" -> "Flying"
                     [] s = "guard" -> "NoProfile" [] OTHER -> "NoLeader"]

Layout(walker, flyer, points) ==
  [s \in Stack |-> CASE s = "walker" -> [position |-> walker, move |-> points]
                     [] s = "flyer" -> [position |-> flyer, move |-> 4]
                     [] s = "guard" -> [position |-> <<2, 0>>, move |-> 6]
                     [] OTHER -> [position |-> <<0, 0>>, move |-> -1]]
MCWorlds == {Layout(<<0, 0>>, <<0, 1>>, points) : points \in {-1, 3}}
            \cup {Layout(<<1, 1>>, <<1, 1>>, 3)}
=============================================================================
