--------------------------- MODULE TerrainSurface ---------------------------
(***************************************************************************)
(* The ground of the adventure map: what a raw tile is                     *)
(* (AdventureTerrainDecoder, AdventureGroundClassifier), and how the map   *)
(* is prepared and painted (adventure_terrain_surface.cpp with its border  *)
(* shape resolver).  All of it is a function of the terrain and of the     *)
(* images there are; module AdventureMap calls it.                         *)
(*                                                                         *)
(* A terrain is a function from cells to raw low bytes; it is empty when   *)
(* the scenario has a size and no map blocks.  A mask is a set of          *)
(* directions.  Images are known by what they are for: assets.noShape,     *)
(* .crowded and .unreadable are sets of border shapes <<family, shape>>    *)
(* that the catalogue lacks, has more than four variants of, or whose      *)
(* image cannot be read; assets.noGround are the codes without a ground    *)
(* image.  Which of several variants is taken is left out, as are pixels:  *)
(* a unit of length is a quarter of a tile in either direction, and the    *)
(* painted map is, for every cell, the layers that cover its diamond.      *)
(***************************************************************************)
EXTENDS AdventureRules

CONSTANTS PatchWidth, PatchHeight  (* of a ground image, in quarters of a tile *)

ASSUME PatchAssumption == PatchWidth \in Nat \ {0} /\ PatchHeight \in Nat \ {0}
-----------------------------------------------------------------------------
(* A raw tile: its terrain code, its material (the code, or "Unknown",     *)
(* which is drawn as "BL"), and the ground one walks on.                   *)
LowBytes ==
  [BL |-> {0}, HU |-> {1, 9}, DW |-> {2, 10}, HE |-> {3, 11}, UN |-> {4, 12},
   NE |-> {5, 13, 37}, EL |-> {6, 14}, WA |-> {7, 29}]
Lands == {"HU", "DW", "HE", "UN", "NE", "EL"}

MaterialOf(raw) ==
  IF \E code \in DOMAIN LowBytes : raw \in LowBytes[code]
  THEN CHOOSE code \in DOMAIN LowBytes : raw \in LowBytes[code]
  ELSE "Unknown"
CodeOf(raw) == IF MaterialOf(raw) = "Unknown" THEN "BL" ELSE MaterialOf(raw)
IsForest(raw) == raw \in 9 .. 14

GroundOf(raw) ==
  IF MaterialOf(raw) = "WA" THEN "Water"
  ELSE IF IsForest(raw) THEN "Forest"
  ELSE IF MaterialOf(raw) # "Unknown" THEN "Plain" ELSE "Unknown"
-----------------------------------------------------------------------------
(* The eight neighbours, in the order of their bits in a mask: first the   *)
(* four that touch at a corner of the grid and are cardinal on the screen, *)
(* then the four that share a side.                                        *)
Directions == << <<-1, -1>>, <<1, -1>>, <<1, 1>>, <<-1, 1>>, <<-1, 0>>, <<0, -1>>, <<1, 0>>, <<0, 1>> >>
Neighbour(c, d) == <<c[1] + Directions[d][1], c[2] + Directions[d][2]>>
Diagonals == 5 .. 8
Bits(n) == {d \in 1 .. 8 : (n \div 2 ^ (d - 1)) % 2 = 1}
Number(mask) ==
  LET bit(d) == IF d \in mask THEN 2 ^ (d - 1) ELSE 0
  IN  bit(1) + bit(2) + bit(3) + bit(4) + bit(5) + bit(6) + bit(7) + bit(8)

(* The masks there are images for, as the composer lists them, ...         *)
TopologyKeys ==
  {Bits(n) : n \in {16, 32, 48, 64, 95, 103, 127, 128, 157, 175, 191, 206, 223, 239, 240} \cup 1 .. 15}

(* ... and the number of the image of each, as the resolver lists them.    *)
BorderShape(mask) ==
  LET shapes == <<16, 32, 48, 64, 95, 103, 127, 128, 157, 175, 191, 206, 223, 239, 240>>
  IN  IF Number(mask) < 16 THEN 16 + Number(mask)
      ELSE CHOOSE s \in DOMAIN shapes : shapes[s] = Number(mask)

(* topology_decomposition_table: the whole mask when it has an image, else *)
(* the largest part first, of equal ones the smaller number, until nothing *)
(* remains.  All four sides together are an end of their own: the corners  *)
(* do not count then.                                                      *)
Largest(mask) ==
  CHOOSE k \in {k \in TopologyKeys : k \subseteq mask} :
    \A j \in TopologyKeys \ {k} : j \subseteq mask =>
      \/ Cardinality(j) < Cardinality(k)
      \/ Cardinality(j) = Cardinality(k) /\ Number(k) < Number(j)
WithoutLargest(mask) == IF mask = {} THEN {} ELSE mask \ Largest(mask)
Decomposition(mask) ==
  LET Remaining[n \in Nat] == IF n = 0 THEN mask ELSE WithoutLargest(Remaining[n - 1])
  IN  IF Diagonals \subseteq mask THEN {Diagonals}
      ELSE {Largest(Remaining[n]) : n \in {n \in 0 .. 7 : Remaining[n] # {}}}
-----------------------------------------------------------------------------
(* Which ground lies over which, in two tables: the rank that decides who  *)
(* gets a border, and the index of the pass that paints it.                *)
DominanceRank(code) ==
  CASE code = "DW" -> 6 [] code = "EL" -> 5 [] code = "HU" -> 4 [] code = "UN" -> 3
    [] code = "HE" -> 2 [] code = "NE" -> 1 [] OTHER -> 0

(* Mutant: the passes of two grounds swapped.                              *)
MaterialIndexSwapped(code) ==
  CASE code = "WA" -> 1 [] code = "NE" -> 2 [] code = "HE" -> 4 [] code = "UN" -> 3
    [] code = "HU" -> 5 [] code = "EL" -> 6 [] code = "DW" -> 7 [] OTHER -> 0

MaterialIndex(code) ==
  CASE code = "WA" -> 1 [] code = "NE" -> 2 [] code = "HE" -> 3 [] code = "UN" -> 4
    [] code = "HU" -> 5 [] code = "EL" -> 6 [] code = "DW" -> 7 [] OTHER -> 0

(* The grounds that lie over a ground, if they are its neighbours.         *)
Over(code) ==
  {land \in Lands \ {code} : code \notin Lands \/ DominanceRank(land) > DominanceRank(code)}

MaskOf(t, c, codes) ==
  {d \in 1 .. 8 : Neighbour(c, d) \in DOMAIN t /\ CodeOf(t[Neighbour(c, d)]) \in codes}

Interior(t, c) ==
  \A d \in 1 .. 8 : /\ Neighbour(c, d) \in DOMAIN t
                    /\ MaterialOf(t[Neighbour(c, d)]) = MaterialOf(t[c])

(* build_topology3x3_operations: the border images of a cell, NE for the   *)
(* grounds that lie over it, WA for the shores of water.                   *)
PartsOf(family, code, mask) ==
  {[family |-> family, code |-> code, mask |-> part, shape |-> BorderShape(part)] :
     part \in Decomposition(mask)}
DryMask(t, c) == MaskOf(t, c, DOMAIN LowBytes \ {"WA"})
Overlaid(t, c) == UNION {PartsOf("NE", land, MaskOf(t, c, {land})) : land \in Over(CodeOf(t[c]))}
BorderPlans(t, c) ==
  Overlaid(t, c) \cup IF CodeOf(t[c]) = "WA" THEN PartsOf("WA", "WA", DryMask(t, c)) ELSE {}

(* collect_operations does not ask for those of an interior cell.          *)
BorderOperations(t, c) == IF Interior(t, c) THEN {} ELSE BorderPlans(t, c)

ShapeIn(op, shapes) == <<op.family, op.shape>> \in shapes
Operations(t, assets) ==
  [c \in DOMAIN t |-> {op \in BorderOperations(t, c) : ~ShapeIn(op, assets.noShape)}]
CrowdedShape(t, assets) ==
  \E c \in DOMAIN t : \E op \in BorderOperations(t, c) :
    ShapeIn(op, assets.crowded) /\ ~ShapeIn(op, assets.noShape)
-----------------------------------------------------------------------------
(* The place of a cell, and the patches of ground images a rectangle of    *)
(* the world lies on.  Division truncates, so negative places need care.   *)
Box == 4
Project(c) == <<(c[1] - c[2]) * (Box \div 2), (c[1] + c[2]) * (Box \div 2)>>

FloorDiv(a, b) == IF a >= 0 THEN a \div b ELSE -((b - 1 - a) \div b)

PatchOf(at) == <<FloorDiv(at[1], PatchWidth), FloorDiv(at[2], PatchHeight)>>

(* build_ground_fields: for every ground with an image the patches under   *)
(* the cells that have it or a border of it.                               *)
GroundField(users) ==
  LET xs == {Project(c)[1] : c \in users}
      ys == {Project(c)[2] : c \in users}
      first == PatchOf(<<Min(xs), Min(ys)>>)
      last == PatchOf(<<Max(xs) + Box - 1, Max(ys) + Box - 1>>)
  IN  (first[1] .. last[1]) \X (first[2] .. last[2])

GroundFields(t, operations, assets) ==
  LET Users(code) == {c \in DOMAIN t : \/ CodeOf(t[c]) = code
                                       \/ \E op \in operations[c] : op.family = "NE" /\ op.code = code}
  IN  [code \in {code \in DOMAIN LowBytes \ assets.noGround : Users(code) # {}} |->
         GroundField(Users(code))]

(* build_layout: the corner of the map in the world.                       *)
MapCorner(t) ==
  IF DOMAIN t = {} THEN <<0, 0>>
  ELSE <<Min({Project(c)[1] : c \in DOMAIN t}), Min({Project(c)[2] : c \in DOMAIN t})>>

(* prepare_border_assets: the operations whose image can be read.          *)
Readable(operations, assets, c, family) ==
  {op \in operations[c] : op.family = family /\ ~ShapeIn(op, assets.unreadable)}

(* build_sparse_commands: what is to be painted on the fields, per cell    *)
(* the parts of its shore, and of every ground that lies over it.          *)
Shores(t, operations, assets) ==
  [c \in DOMAIN t |-> {op.mask : op \in Readable(operations, assets, c, "WA")}]
Overlays(t, operations, assets) ==
  [c \in DOMAIN t |->
     [code \in {op.code : op \in {op \in operations[c] : op.family = "NE"}} |->
        UNION {op.mask : op \in {op \in Readable(operations, assets, c, "NE") : op.code = code}}]]

(* prepare_full_map.                                                       *)
Prepared(t, assets) ==
  LET operations == Operations(t, assets)
  IN  [corner |-> MapCorner(t),
       fields |-> GroundFields(t, operations, assets),
       water  |-> {c \in DOMAIN t : CodeOf(t[c]) = "WA"},
       land   |-> {c \in DOMAIN t : CodeOf(t[c]) \in Lands},
       shores |-> Shores(t, operations, assets),
       over   |-> Overlays(t, operations, assets)]

(* render_prepared_full_map.  Water first; then the shores, whose images   *)
(* are not clipped to their cell; then the land, which covers what spilled *)
(* onto it; then the borders, one ground after the other, clipped to the   *)
(* cell.  A ground without an image is skipped wherever it is used.        *)
PassOrder == [i \in 1 .. 6 |-> CHOOSE code \in Lands : MaterialIndex(code) = i + 1]

Layer(kind, code, mask) == [kind |-> kind, code |-> code, mask |-> mask]
LayerIf(condition, layer) == IF condition THEN <<layer>> ELSE << >>

HasGround(s, code) == code \in DOMAIN s.fields
Base(t, c) == Layer("Base", CodeOf(t[c]), {})
Wet(t, s, c) ==
  LayerIf(c \in s.water /\ HasGround(s, "WA"), Base(t, c))
  \o LayerIf(c \in s.water /\ s.shores[c] # {}, Layer("Shore", "WA", UNION s.shores[c]))
  \o LayerIf(\E b \in s.water \ {c} : Chebyshev(b, c) = 1 /\ s.shores[b] # {},
             Layer("Spill", "WA", {}))
Floor(t, s, c) ==
  IF c \in s.land /\ HasGround(s, CodeOf(t[c])) THEN <<Base(t, c)>> ELSE Wet(t, s, c)

Pass(s, c, i) ==
  LET code == PassOrder[i]
  IN  LayerIf(code \in DOMAIN s.over[c] /\ HasGround(s, code) /\ s.over[c][code] # {},
              Layer("Border", code, s.over[c][code]))
Borders(s, c) ==
  Pass(s, c, 1) \o Pass(s, c, 2) \o Pass(s, c, 3) \o Pass(s, c, 4) \o Pass(s, c, 5) \o Pass(s, c, 6)

Painted(t, s) == [c \in DOMAIN t |-> Floor(t, s, c) \o Borders(s, c)]
-----------------------------------------------------------------------------
(* What the tools are told of a cell: the other ground it meets, ...       *)
Towards(t, c, material) ==
  {d \in 1 .. 8 : Neighbour(c, d) \in DOMAIN t /\ MaterialOf(t[Neighbour(c, d)]) = material}

(* choose_material_b: water if it is near, else what there is most of, of  *)
(* equal ones what is found first; sides are looked at before corners.     *)
OtherMaterial(t, c) ==
  LET place == <<5, 6, 7, 8, 4, 1, 2, 3>>  (* of a direction in kNeighborOrder *)
      First(m) == Min({place[d] : d \in Towards(t, c, m)})
      others == {m \in {MaterialOf(t[b]) : b \in DOMAIN t} \ {MaterialOf(t[c])} : Towards(t, c, m) # {}}
  IN  IF others = {} THEN MaterialOf(t[c])
      ELSE IF "WA" \in others THEN "WA"
      ELSE CHOOSE m \in others : \A n \in others \ {m} :
             \/ Cardinality(Towards(t, c, n)) < Cardinality(Towards(t, c, m))
             \/ Cardinality(Towards(t, c, n)) = Cardinality(Towards(t, c, m)) /\ First(m) < First(n)

(* ... and the border image it names: the first in the order of the plans, *)
(* masks before overlays, the stronger ground first, the larger part.      *)
PlannedBefore(p, q) ==
  IF p.family # q.family THEN p.family = "NE"
  ELSE IF p.code # q.code THEN DominanceRank(p.code) > DominanceRank(q.code)
  ELSE \/ Cardinality(p.mask) > Cardinality(q.mask)
       \/ Cardinality(p.mask) = Cardinality(q.mask) /\ Number(p.mask) < Number(q.mask)

NamedPlans(t, assets, c) == {op \in BorderPlans(t, c) : ~ShapeIn(op, assets.noShape)}
FirstPlan(plans) == CHOOSE op \in plans : \A q \in plans \ {op} : PlannedBefore(op, q)

(* The neighbours off the map, of other land, and what they are to it.     *)
NeighbourMasks(t, c) ==
  LET own == CodeOf(t[c])
      Of(codes) == IF own \in Lands THEN MaskOf(t, c, codes) ELSE {}
  IN  [out      |-> {d \in 1 .. 8 : Neighbour(c, d) \notin DOMAIN t},
       land     |-> Of(Lands \ {own}),
       stronger |-> Of(Over(own)),
       weaker   |-> Of(Lands \ (Over(own) \cup {own})),
       water    |-> IF own = "WA" THEN DryMask(t, c) ELSE {}]

(* describe_tile.  A tile may be marked, in bits that are not kept here,   *)
(* as one without a border; the painting does not look at the mark.  A     *)
(* shore names the neighbour seen last.                                    *)
NoBorder == << >>
Description(t, assets, c, marked) ==
  LET other == OtherMaterial(t, c)
      named == IF marked THEN {} ELSE NamedPlans(t, assets, c)
      first == IF named = {} THEN NoBorder ELSE FirstPlan(named)
  IN  [transition |-> other # MaterialOf(t[c]),
       towards    |-> Towards(t, c, other),
       masks      |-> IF marked THEN << >> ELSE NeighbourMasks(t, c),
       operations |-> IF marked THEN {} ELSE BorderPlans(t, c),
       border     |-> first,
       kind       |-> IF marked THEN "NonDrawableShape16" ELSE IF named = {} THEN "None" ELSE "Drawable",
       found      |-> marked \/ (named # {} /\ ~ShapeIn(first, assets.unreadable)),
       code       |-> IF named = {} THEN (IF other = "Unknown" THEN "BL" ELSE other)
                      ELSE IF first.family = "WA" THEN CodeOf(t[Neighbour(c, Max(DryMask(t, c)))])
                      ELSE first.code]
=============================================================================
