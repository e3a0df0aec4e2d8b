----------------------------- MODULE MapProofs ------------------------------
(***************************************************************************)
(* Proofs about AdventureMap for every size of the map and every set of    *)
(* scenarios: the pointer finds the cell it lies on, a picture is sorted   *)
(* by its front-most cell, the order of painting is one, groups are turned *)
(* round without loss, the search for a route finds a cheapest one         *)
(* whenever there is one, the ground is painted without seams, everything  *)
(* is painted once and in order, and one sees what one walks on.           *)
(***************************************************************************)
EXTENDS AdventureMap, RouteProofs

LEMMA DepthIsNatural ==
  ASSUME NEW c \in Cells
  PROVE  Depth(c) \in Nat
BY CellFacts DEF Depth

(* A footprint on the map has a front-most cell: of those of the greatest  *)
(* depth the one furthest to the right (map_geometry.cpp:77).              *)
LEMMA FrontMostExists ==
  ASSUME NEW S \in SUBSET Cells, S # {}
  PROVE  /\ FrontMost(S) \in S
         /\ \A b \in S \ {FrontMost(S)} : InFront(FrontMost(S), b)
<1> DEFINE D == {Depth(c) : c \in S}
<1>1. D \in SUBSET (0 .. Width + Height) /\ D # {} /\ Width + Height \in Nat
  BY MapAssumption, CellFacts, DepthIsNatural DEF Depth
<1>2. PICK d \in D : \A e \in D : e <= d
  <2> HIDE DEF D
  <2> QED
    BY <1>1, GreatestExists
<1> DEFINE X == {c[1] : c \in {c \in S : Depth(c) = d}}
<1>3. X \in SUBSET (0 .. Width) /\ X # {} /\ Width \in Nat
  BY MapAssumption, CellFacts, DepthIsNatural DEF D
<1>4. PICK x \in X : \A y \in X : y <= x
  <2> HIDE DEF X
  <2> QED
    BY <1>3, GreatestExists
<1>5. PICK c \in S : Depth(c) = d /\ c[1] = x
  BY <1>4 DEF X
<1>6. ASSUME NEW b \in S, b # c PROVE InFront(c, b)
  <2>1. Depth(b) <= d /\ Depth(b) \in Int /\ d \in Int
    BY <1>2, <1>5, CellFacts, DepthIsNatural DEF D
  <2>2. CASE Depth(b) < d
    BY <2>2, <1>5, CellFacts, DepthIsNatural DEF InFront
  <2>3. CASE Depth(b) = d
    <3>1. b[1] <= x
      BY <2>3, <1>4 DEF X
    <3>2. b[1] # x
      <4>1. b[1] = x => b[2] = c[2]
        BY <2>3, <1>5, CellFacts, DepthIsNatural DEF Depth
      <4>2. b = <<b[1], b[2]>> /\ c = <<c[1], c[2]>>
        BY CellFacts, DepthIsNatural
      <4> QED
        BY <4>1, <4>2, <1>5, <1>6
    <3> QED
      BY <2>3, <3>1, <3>2, <1>5, CellFacts, DepthIsNatural DEF InFront
  <2> QED
    BY <2>1, <2>2, <2>3
<1>7. \E a \in S : \A b \in S \ {a} : InFront(a, b)
  BY <1>6
<1> QED
  BY <1>7 DEF FrontMost
-----------------------------------------------------------------------------
(* FloorDiv rounds down, at negative places too                            *)
(* (adventure_terrain_surface.cpp:662, and std::floor in map_geometry.cpp).*)
LEMMA FloorDivRoundsDown ==
  ASSUME NEW a \in Int
  PROVE  /\ FloorDiv(a, 4) \in Int
         /\ 4 * FloorDiv(a, 4) <= a
         /\ a < 4 * FloorDiv(a, 4) + 4
BY DEF FloorDiv

Estimate(at) ==
  <<FloorDiv((at[1] + CanvasCorner[1]) + (at[2] + CanvasCorner[2]), Box),
    FloorDiv((at[2] + CanvasCorner[2]) - (at[1] + CanvasCorner[1]), Box)>>

(* Every cell whose diamond a place lies on is one of the nine around the  *)
(* estimate (map_geometry.cpp:30-62).                                      *)
LEMMA WindowIsWideEnough ==
  ASSUME NEW at \in Int \X Int, NEW c \in Cells, InDiamond(at, c)
  PROVE  c \in Candidates(Estimate(at))
<1> DEFINE x == at[1] + CanvasCorner[1]
           y == at[2] + CanvasCorner[2]
           e1 == FloorDiv(x + y, 4)
           e2 == FloorDiv(y - x, 4)
           dx == x - 2 * (c[1] - c[2]) - 2
           dy == y - 2 * (c[1] + c[2]) - 2
<1>1. CanvasCorner[1] \in Int /\ CanvasCorner[2] = 0
  BY MapAssumption DEF CanvasCorner, Box
<1>2. x \in Int /\ y \in Int
  BY <1>1
<1>3. c[1] \in Int /\ c[2] \in Int
  BY CellFacts, DepthIsNatural
<1>4. dx \in Int /\ dy \in Int /\ Abs(dx) + Abs(dy) <= 2
  <2>1. CellOrigin(c)[1] = 2 * (c[1] - c[2]) - CanvasCorner[1]
        /\ CellOrigin(c)[2] = 2 * (c[1] + c[2]) - CanvasCorner[2]
    BY <1>1, <1>3 DEF CellOrigin, Project, Box
  <2>2. at[1] - CellOrigin(c)[1] - Box \div 2 = dx /\ at[2] - CellOrigin(c)[2] - Box \div 2 = dy
    BY <2>1, <1>1, <1>3 DEF Box
  <2> QED
    BY <2>2, <1>2, <1>3 DEF InDiamond, Box
<1>5. -2 <= dx + dy /\ dx + dy <= 2 /\ -2 <= dy - dx /\ dy - dx <= 2
  BY <1>4 DEF Abs
<1>6. /\ e1 \in Int /\ 4 * e1 <= x + y /\ x + y < 4 * e1 + 4
      /\ e2 \in Int /\ 4 * e2 <= y - x /\ y - x < 4 * e2 + 4
  <2>1. x + y \in Int /\ y - x \in Int
    BY <1>2
  <2> HIDE DEF x, y
  <2> QED
    BY <2>1, FloorDivRoundsDown
<1>7. c[1] - e1 \in {-1, 0} /\ c[2] - e2 \in {0, 1}
  <2>1. 4 * c[1] + 2 <= x + y /\ x + y <= 4 * c[1] + 6
    BY <1>2, <1>3, <1>5
  <2>2. 4 * c[2] - 2 <= y - x /\ y - x <= 4 * c[2] + 2
    BY <1>2, <1>3, <1>5
  <2>3. x + y \in Int /\ y - x \in Int
    BY <1>2
  <2> DEFINE sum == x + y
             difference == y - x
  <2>4. /\ sum \in Int /\ 4 * c[1] + 2 <= sum /\ sum <= 4 * c[1] + 6
        /\ e1 \in Int /\ 4 * e1 <= sum /\ sum < 4 * e1 + 4
    BY <2>1, <2>3, <1>6
  <2>5. /\ difference \in Int /\ 4 * c[2] - 2 <= difference /\ difference <= 4 * c[2] + 2
        /\ e2 \in Int /\ 4 * e2 <= difference /\ difference < 4 * e2 + 4
    BY <2>2, <2>3, <1>6
  <2> HIDE DEF sum, difference, e1, e2
  <2>6. c[1] <= e1 /\ e1 <= c[1] + 1
    BY <2>4, <1>3
  <2>7. e2 <= c[2] /\ c[2] <= e2 + 1
    BY <2>5, <1>3
  <2> QED
    BY <2>4, <2>5, <2>6, <2>7, <1>3
<1>8. Estimate(at) = <<e1, e2>>
  BY DEF Estimate, Box
<1>9. Chebyshev(c, <<e1, e2>>) <= 1
  <2> HIDE DEF e1, e2
  <2> QED
    BY <1>3, <1>6, <1>7 DEF Chebyshev, Abs
<1> QED
  BY <1>8, <1>9 DEF Candidates

(* The cell found for a place is the front-most of the cells it lies on,   *)
(* and none is found only where there is none.                             *)
LEMMA CanvasToCellIsRight ==
  ASSUME NEW at \in Int \X Int
  PROVE  LET under == {c \in Cells : InDiamond(at, c)}
         IN  IF under = {} THEN CanvasToCell(at) = Nowhere
             ELSE /\ CanvasToCell(at) \in under
                  /\ \A c \in under \ {CanvasToCell(at)} : ~InFront(c, CanvasToCell(at))
<1> DEFINE under == {c \in Cells : InDiamond(at, c)}
           found == {c \in Candidates(Estimate(at)) : InDiamond(at, c)}
<1>1. CanvasToCell(at) = IF found = {} THEN Nowhere ELSE FrontMost(found)
  BY DEF CanvasToCell, Estimate
<1>2. found = under
  BY WindowIsWideEnough DEF Candidates
<1>3. CASE under = {}
  BY <1>1, <1>2, <1>3
<1>4. CASE under # {}
  <2>1. CanvasToCell(at) = FrontMost(under) /\ under \in SUBSET Cells
    BY <1>1, <1>2, <1>4
  <2> HIDE DEF under, found
  <2>2. /\ CanvasToCell(at) \in under
        /\ \A c \in under \ {CanvasToCell(at)} : InFront(CanvasToCell(at), c)
    BY <2>1, <1>4, FrontMostExists
  <2>3. ASSUME NEW c \in under \ {CanvasToCell(at)} PROVE ~InFront(c, CanvasToCell(at))
    <3> DEFINE f == CanvasToCell(at)
    <3>1. InFront(f, c) /\ f \in Cells /\ c \in Cells
      BY <2>1, <2>2, <2>3
    <3> HIDE DEF f
    <3>2. ~InFront(c, f)
      BY <3>1, CellFacts, DepthIsNatural DEF InFront
    <3> QED
      BY <3>2 DEF f
  <2> QED
    BY <1>4, <2>2, <2>3 DEF under
<1> QED
  BY <1>3, <1>4
-----------------------------------------------------------------------------
(* What is pointed at is a place of the canvas, with the cell found there. *)
PointerInv ==
  /\ scenario \in Scenarios
  /\ pointed # Nothing =>
       \E at \in Int \X Int : pointed.at = at /\ pointed.cell = CanvasToCell(at)

LEMMA PointerInvIsInductive == Spec => []PointerInv
<1>1. Init => PointerInv
  BY DEF Init, PointerInv
<1>2. PointerInv /\ [Next]_mapVars => PointerInv'
  <2> SUFFICES ASSUME PointerInv, [Next]_mapVars PROVE PointerInv'
    OBVIOUS
  <2>1. CASE \E at \in scenario.points : Point(at) \/ Inspect(at)
    <3>1. PICK at \in scenario.points : Point(at) \/ Inspect(at)
      BY <2>1
    <3>2. at \in Int \X Int
      BY ScenariosAssumption DEF PointerInv
    <3>3. scenario' = scenario /\ pointed' = Found(at)
      BY <3>1 DEF Point, Inspect
    <3>4. pointed'.at = at /\ pointed'.cell = CanvasToCell(at)
      BY <3>3 DEF Found
    <3> QED
      BY <3>2, <3>3, <3>4 DEF PointerInv
  <2>2. CASE UNCHANGED <<scenario, pointed>>
    BY <2>2 DEF PointerInv
  <2>3. CASE Next /\ ~\E at \in scenario.points : Point(at) \/ Inspect(at)
    <3>1. UNCHANGED <<scenario, pointed>>
      BY <2>3 DEF Next, Load, ResolveActors, PrepareTerrain, PrepareWorld, PaintTerrain, BuildMasks,
                  CloseInformation, Ask, SearchRoute, drawingVars
    <3> QED
      BY <3>1, <2>2
  <2> QED
    BY <2>1, <2>2, <2>3 DEF mapVars, drawingVars
<1> QED
  BY <1>1, <1>2, PTL DEF Spec

(* On a map of any size a click goes to the front-most cell it lies on,    *)
(* although only nine cells around an estimate are looked at, and to none  *)
(* only off the map (AdventureMapGeometry::canvas_to_cell,                 *)
(* map_geometry.cpp:25-62; the run of the map asserts it on 3 x 3 cells).  *)
THEOREM PointerIsCorrect == Spec => []PointerIsRight
<1>1. PointerInv => PointerIsRight
  <2> SUFFICES ASSUME PointerInv, pointed # Nothing
               PROVE  LET under == {c \in Cells : InDiamond(pointed.at, c)}
                      IN  IF under = {} THEN pointed.cell = Nowhere
                          ELSE /\ pointed.cell \in under
                               /\ \A c \in under \ {pointed.cell} : ~InFront(c, pointed.cell)
    BY DEF PointerIsRight
  <2>1. PICK at \in Int \X Int : pointed.at = at /\ pointed.cell = CanvasToCell(at)
    BY DEF PointerInv
  <2> QED
    BY <2>1, CanvasToCellIsRight
<1> QED
  BY <1>1, PointerInvIsInductive, PTL
-----------------------------------------------------------------------------
(* A picture whose footprint is on the map is sorted by a cell it stands   *)
(* on, and no cell of it is nearer to the viewer: the scan that starts at  *)
(* the depth -1 overlooks none (map_geometry.cpp:64-89).                   *)
THEOREM AnchorIsFrontMost ==
  ASSUME NEW S \in SUBSET Cells, S # {}
  PROVE  DepthAnchor(S) \in S /\ \A c \in S : Depth(c) <= Depth(DepthAnchor(S))
<1>1. {c \in S : Depth(c) > -1 \/ (Depth(c) = -1 /\ c[1] > 0)} = S
  BY CellFacts, DepthIsNatural
<1>2. DepthAnchor(S) = FrontMost(S)
  BY <1>1, Zenon DEF DepthAnchor
<1>3. FrontMost(S) \in S /\ \A b \in S \ {FrontMost(S)} : InFront(FrontMost(S), b)
  BY FrontMostExists
<1>4. ASSUME NEW c \in S PROVE Depth(c) <= Depth(FrontMost(S))
  <2>1. CASE c = FrontMost(S)
    BY <2>1, CellFacts, DepthIsNatural
  <2>2. CASE c # FrontMost(S)
    <3>1. InFront(FrontMost(S), c)
      BY <1>3, <2>2
    <3> QED
      BY <3>1, <1>3, CellFacts, DepthIsNatural DEF InFront
  <2> QED
    BY <2>1, <2>2
<1> QED
  BY <1>2, <1>3, <1>4

(* What the order of painting looks at.                                    *)
Sortable(p) == p.anchor \in Int \X Int /\ p.level \in Int /\ p.suborder \in Int /\ p.id \in Int

(* The order of painting is one: no picture comes before itself or before  *)
(* one that comes before it, it has no gaps, and of two pictures one comes *)
(* first unless they have the same stable id, so that std::sort may use it *)
(* (IsoDepthResolver::comes_before, iso_depth_resolver.cpp:8-38).          *)
THEOREM PaintingOrderIsStrict ==
  ASSUME NEW p, Sortable(p), NEW q, Sortable(q), NEW r, Sortable(r)
  PROVE  /\ ~ComesBefore(p, p)
         /\ ComesBefore(p, q) => ~ComesBefore(q, p)
         /\ ComesBefore(p, q) /\ ComesBefore(q, r) => ComesBefore(p, r)
         /\ p.id # q.id => ComesBefore(p, q) \/ ComesBefore(q, p)
<1>1. ASSUME NEW a, Sortable(a)
      PROVE  \E x, y \in Int : a.anchor = <<x, y>>
  BY <1>1 DEF Sortable
<1>2. PICK p1 \in Int, p2 \in Int : p.anchor = <<p1, p2>>
  BY <1>1
<1>3. PICK q1 \in Int, q2 \in Int : q.anchor = <<q1, q2>>
  BY <1>1
<1>4. PICK r1 \in Int, r2 \in Int : r.anchor = <<r1, r2>>
  BY <1>1
<1>5. /\ Depth(p.anchor) = p1 + p2 /\ Depth(q.anchor) = q1 + q2 /\ Depth(r.anchor) = r1 + r2
      /\ p.anchor[1] = p1 /\ q.anchor[1] = q1 /\ r.anchor[1] = r1
  BY <1>2, <1>3, <1>4 DEF Depth
<1>6. /\ p.anchor = q.anchor <=> p1 = q1 /\ p2 = q2
      /\ q.anchor = r.anchor <=> q1 = r1 /\ q2 = r2
      /\ p.anchor = r.anchor <=> p1 = r1 /\ p2 = r2
  BY <1>2, <1>3, <1>4
<1>7. /\ p.level \in Int /\ p.suborder \in Int /\ p.id \in Int
      /\ q.level \in Int /\ q.suborder \in Int /\ q.id \in Int
      /\ r.level \in Int /\ r.suborder \in Int /\ r.id \in Int
  BY DEF Sortable
<1>8. ~ComesBefore(p, p)
  BY <1>5, <1>7 DEF ComesBefore
<1>9. ComesBefore(p, q) => ~ComesBefore(q, p)
  BY <1>5, <1>6, <1>7 DEF ComesBefore
<1>10. ComesBefore(p, q) /\ ComesBefore(q, r) => ComesBefore(p, r)
  BY <1>5, <1>6, <1>7 DEF ComesBefore
<1>11. p.id # q.id => ComesBefore(p, q) \/ ComesBefore(q, p)
  BY <1>5, <1>6, <1>7 DEF ComesBefore
<1> QED
  BY <1>8, <1>9, <1>10, <1>11
-----------------------------------------------------------------------------
(* A group is stored as cells that name members and kept as members that   *)
(* have a position.  Turning it round loses nobody who is stored, puts     *)
(* nobody where the scenario does not, and never two members in one cell,  *)
(* whatever the cells say (build_unit_group,                               *)
(* AdventureWorldBuilder.cpp:140-195).                                     *)
THEOREM PositionsInvertCells ==
  ASSUME NEW o, NEW i \in Slots
  PROVE  LET position == Group(o).positions
         IN  /\ position[i] = -1 <=> ~\E c \in Slots : Group(o).cells[c] = i
             /\ position[i] # -1 => position[i] \in Slots /\ Stored(o.cells, position[i]) = i
             /\ \A j \in Slots : position[i] = position[j] /\ position[i] # -1 => i = j
<1> DEFINE occupant == Group(o).cells
           position == Group(o).positions
           Of(k) == {c \in Slots : occupant[c] = k}
<1>1. \A k \in Slots : position[k] = IF Of(k) = {} THEN -1 ELSE Min(Of(k))
  BY DEF Group
<1>2. \A c \in Slots : occupant[c] # -1 => occupant[c] = Stored(o.cells, c)
  BY DEF Group
<1>3. ASSUME NEW k \in Slots, Of(k) # {} PROVE Min(Of(k)) \in Of(k)
  <2>1. Of(k) \in SUBSET Nat
    BY DEF Slots
  <2>2. \E c \in Of(k) : \A b \in Of(k) : c <= b
    <3> HIDE DEF Of
    <3> QED
      BY <2>1, <1>3, LeastExists
  <2> QED
    BY <2>2 DEF Min
<1> HIDE DEF occupant, position
<1>4. \A k \in Slots : position[k] # -1 => position[k] \in Of(k)
  BY <1>1, <1>3
<1>5. position[i] = -1 <=> ~\E c \in Slots : occupant[c] = i
  BY <1>1, <1>3 DEF Slots
<1>6. position[i] # -1 => position[i] \in Slots /\ Stored(o.cells, position[i]) = i
  BY <1>2, <1>4 DEF Slots
<1>7. \A j \in Slots : position[i] = position[j] /\ position[i] # -1 => i = j
  BY <1>4
<1> QED
  BY <1>5, <1>6, <1>7 DEF occupant, position

-----------------------------------------------------------------------------
(* The reference of the search as a function of the request.               *)
Within(q) ==
  LET Cost(c) == EnterCost(q.nav, q.profile, q.mover, c)
      Sets[k \in Nat] ==
        IF k = 0 THEN << {q.start} >>
        ELSE LET sets == Sets[k - 1]
                 Joins(c) == /\ Cost(c) \in (1 .. k)
                             /\ \E b \in sets[k - Cost(c) + 1] : Adjacent(b, c)
             IN Append(sets, {c \in Cells : c \in sets[k] \/ Joins(c)})
  IN Sets[Unreached - 1]

LEMMA WithinIsWithinCost == WithinCost = Within(request) /\ WithinCost' = Within(request')
BY Zenon DEF WithinCost, Within, Nav

(* The cells that the walks of cost k add to those of less.                *)
Level(q, k, sets) ==
  {c \in Cells : \/ c \in sets[k]
                 \/ CostOf(q, c) \in (1 .. k) /\ \E b \in sets[k - CostOf(q, c) + 1] : Adjacent(b, c)}

LEMMA WithinHasLevels ==
  ASSUME NEW q, WellAsked(q)
  PROVE  \E f \in [Nat -> Seq(SUBSET Cells)] :
           /\ f[0] = << {q.start} >>
           /\ \A n \in Nat : Len(f[n]) = n + 1 /\ f[n + 1] = Append(f[n], Level(q, n + 1, f[n]))
           /\ Within(q) = f[Unreached - 1]
<1> DEFINE S == Seq(SUBSET Cells)
           F == [sets \in S |-> Append(sets, Level(q, Len(sets), sets))]
           first == << {q.start} >>
           Sets[k \in Nat] == IF k = 0 THEN first ELSE Append(Sets[k - 1], Level(q, k, Sets[k - 1]))
<1>1. first \in S /\ Len(first) = 1
  BY DEF WellAsked
<1>2. \A k, sets : Level(q, k, sets) \in SUBSET Cells
  BY DEF Level
<1>3. F \in [S -> S]
  <2>1. \A sets \in S : Append(sets, Level(q, Len(sets), sets)) \in S
    BY <1>2
  <2> HIDE DEF S
  <2> QED
    BY <2>1
<1> HIDE DEF first
<1>4. PICK f \in [Nat -> S] : f[0] = first /\ \A n \in Nat : f[n + 1] = F[f[n]]
  <2> HIDE DEF S, F
  <2>1. first \in S
    BY <1>1
  <2> QED
    BY ONLY <2>1, <1>3, SequenceExists
<1>5. \A n \in Nat : f[n] \in S /\ f[n + 1] = Append(f[n], Level(q, Len(f[n]), f[n]))
  <2> HIDE DEF S
  <2> QED
    BY <1>4
<1>6. \A n \in Nat : Len(f[n]) = n + 1
  <2> DEFINE T == {n \in Nat : Len(f[n]) = n + 1}
  <2>1. 0 \in T
    BY <1>1, <1>4
  <2>2. ASSUME NEW n \in T PROVE n + 1 \in T
    BY <1>2, <1>5
  <2>3. T = Nat
    <3> HIDE DEF T
    <3> QED
      BY <2>1, <2>2, NatSetInduction DEF T
  <2> QED
    BY <2>3
<1>7. \A n \in Nat : f[n + 1] = Append(f[n], Level(q, n + 1, f[n]))
  <2> HIDE DEF S
  <2> QED
    BY <1>5, <1>6
<1>8. f = [k \in Nat |-> IF k = 0 THEN first ELSE Append(f[k - 1], Level(q, k, f[k - 1]))]
  <2>1. \A k \in Nat : k # 0 => k - 1 \in Nat /\ k = (k - 1) + 1
    OBVIOUS
  <2>2. \A k \in Nat : f[k] = IF k = 0 THEN first ELSE Append(f[k - 1], Level(q, k, f[k - 1]))
    <3> HIDE DEF S
    <3> QED
      BY <2>1, <1>4, <1>7
  <2> QED
    BY <2>2, <1>4
<1>9. Sets = [k \in Nat |-> IF k = 0 THEN first ELSE Append(Sets[k - 1], Level(q, k, Sets[k - 1]))]
  BY <1>8, Zenon
<1>10. Within(q) = Sets[Unreached - 1]
  BY Zenon DEF Within, Level, CostOf, first
<1> HIDE DEF Sets
<1>11. \A n \in Nat : Sets[n] = f[n]
  <2> DEFINE T == {n \in Nat : Sets[n] = f[n]}
  <2>1. 0 \in T
    BY <1>4, <1>9
  <2>2. ASSUME NEW n \in T PROVE n + 1 \in T
    <3>1. n \in Nat /\ n + 1 \in Nat /\ n + 1 # 0 /\ (n + 1) - 1 = n /\ Sets[n] = f[n]
      OBVIOUS
    <3>2. Sets[n + 1] = Append(Sets[(n + 1) - 1], Level(q, n + 1, Sets[(n + 1) - 1]))
      BY <1>9, <3>1, Zenon
    <3> HIDE DEF T
    <3>3. Sets[n + 1] = f[n + 1]
      BY <3>1, <3>2, <1>7
    <3> QED
      BY <3>1, <3>3 DEF T
  <2>3. T = Nat
    <3> HIDE DEF T
    <3> QED
      BY <2>1, <2>2, NatSetInduction DEF T
  <2> QED
    BY <2>3
<1>12. Unreached - 1 \in Nat
  BY UnreachedIsNatural
<1> QED
  BY <1>4, <1>6, <1>7, <1>10, <1>11, <1>12 DEF first

(* The reference is the walks that the proofs about the search reason of.  *)
LEMMA WithinIsWalks ==
  ASSUME NEW q, WellAsked(q)
  PROVE  \E W : Walks(q, W) /\ \A k \in 0 .. Unreached - 1 : W[k] = Within(q)[k + 1]
<1>1. PICK f \in [Nat -> Seq(SUBSET Cells)] :
        /\ f[0] = << {q.start} >>
        /\ \A n \in Nat : Len(f[n]) = n + 1 /\ f[n + 1] = Append(f[n], Level(q, n + 1, f[n]))
        /\ Within(q) = f[Unreached - 1]
  BY WithinHasLevels
<1> DEFINE K == 0 .. Unreached - 1
           W == [k \in K |-> f[Unreached - 1][k + 1]]
<1>2. Unreached \in Nat /\ Unreached > 0
  BY UnreachedIsNatural
<1>3. \A n \in Nat : \A i \in 1 .. n + 1 : f[n][i] \in SUBSET Cells
  <2>1. ASSUME NEW n \in Nat PROVE \A i \in 1 .. n + 1 : f[n][i] \in SUBSET Cells
    <3>1. f[n] \in Seq(SUBSET Cells) /\ Len(f[n]) = n + 1
      BY <1>1
    <3> QED
      BY <3>1
  <2> QED
    BY <2>1
<1>4. \A m, n \in Nat : n <= m => \A i \in 1 .. n + 1 : f[m][i] = f[n][i]
  <2> DEFINE T == {m \in Nat : \A n \in 0 .. m : \A i \in 1 .. n + 1 : f[m][i] = f[n][i]}
  <2>1. 0 \in T
    OBVIOUS
  <2>2. ASSUME NEW m \in T PROVE m + 1 \in T
    <3>1. m \in Nat /\ f[m] \in Seq(SUBSET Cells) /\ Len(f[m]) = m + 1
          /\ f[m + 1] = Append(f[m], Level(q, m + 1, f[m]))
      BY <1>1
    <3>2. \A i \in 1 .. m + 1 : f[m + 1][i] = f[m][i]
      BY <3>1
    <3>3. ASSUME NEW n \in 0 .. m + 1, NEW i \in 1 .. n + 1 PROVE f[m + 1][i] = f[n][i]
      <4>1. CASE n = m + 1
        BY <4>1
      <4>2. CASE n # m + 1
        <5>1. n \in 0 .. m /\ i \in 1 .. m + 1
          BY <3>1, <3>3, <4>2
        <5>2. f[m][i] = f[n][i]
          BY <5>1, <3>3
        <5> QED
          BY <5>1, <5>2, <3>2
      <4> QED
        BY <4>1, <4>2
    <3> QED
      BY <3>1, <3>3
  <2>3. T = Nat
    <3> HIDE DEF T
    <3> QED
      BY <2>1, <2>2, NatSetInduction DEF T
  <2>4. ASSUME NEW m \in Nat, NEW n \in Nat, n <= m PROVE \A i \in 1 .. n + 1 : f[m][i] = f[n][i]
    <3>1. n \in 0 .. m
      BY <2>4
    <3>2. m \in T
      <4> HIDE DEF T
      <4> QED
        BY <2>3
    <3> QED
      BY <3>1, <3>2
  <2> QED
    BY <2>4
<1>5. \A k \in K : W[k] = f[k][k + 1] /\ \A j \in 0 .. k : W[j] = f[k][j + 1]
  <2>1. ASSUME NEW k \in K, NEW j \in 0 .. k PROVE W[j] = f[k][j + 1]
    <3>1. /\ j \in K /\ k \in Nat /\ Unreached - 1 \in Nat /\ k <= Unreached - 1
          /\ j + 1 \in 1 .. k + 1
      BY <1>2
    <3>2. f[Unreached - 1][j + 1] = f[k][j + 1]
      BY <3>1, <1>4
    <3> QED
      BY <3>1, <3>2
  <2>2. \A k \in K : k \in 0 .. k
    BY <1>2
  <2> HIDE DEF W, K
  <2> QED
    BY <2>1, <2>2
<1>6. W \in [K -> SUBSET Cells]
  <2>1. ASSUME NEW k \in K PROVE f[Unreached - 1][k + 1] \in SUBSET Cells
    <3>1. Unreached - 1 \in Nat /\ k + 1 \in 1 .. (Unreached - 1) + 1
      BY <1>2
    <3> QED
      BY <3>1, <1>3
  <2> QED
    BY <2>1
<1>7. W[0] = {q.start}
  <2>1. 0 \in K /\ 0 + 1 = 1 /\ f[0][1] = {q.start}
    BY <1>1, <1>2
  <2>2. W[0] = f[0][0 + 1]
    BY <2>1, <1>5
  <2> QED
    BY <2>1, <2>2
<1>8. ASSUME NEW k \in 1 .. Unreached - 1, NEW c \in Cells
      PROVE  c \in W[k] <=> \/ c \in W[k - 1]
                            \/ CostOf(q, c) \in 1 .. k /\ \E b \in W[k - CostOf(q, c)] : Adjacent(b, c)
  <2> DEFINE n == k - 1
             cost == CostOf(q, c)
  <2>1. n \in Nat /\ n + 1 = k /\ k \in K /\ n \in K /\ k \in Nat
    BY <1>2
  <2> HIDE DEF n
  <2>2. W[k] = f[n + 1][k + 1] /\ W[n] = f[n][k] /\ f[n] \in Seq(SUBSET Cells) /\ Len(f[n]) = k
        /\ f[n + 1] = Append(f[n], Level(q, k, f[n]))
    BY <1>1, <1>5, <2>1
  <2>3. W[k] = Level(q, k, f[n])
    <3> DEFINE sets == f[n]
               level == Level(q, k, f[n])
    <3>1. sets \in Seq(SUBSET Cells) /\ Len(sets) = k /\ k \in Nat
      BY <2>1, <2>2
    <3> HIDE DEF sets, level
    <3>2. Append(sets, level)[k + 1] = level
      BY <3>1
    <3>3. W[k] = Append(sets, level)[k + 1]
      BY <2>1, <2>2 DEF sets, level
    <3> QED
      BY <3>2, <3>3 DEF level
  <2>4. cost \in 1 .. k => W[k - cost] = f[n][k - cost + 1]
    <3> HIDE DEF cost
    <3>1. cost \in 1 .. k => k - cost \in 0 .. n
      BY <2>1
    <3> QED
      BY <3>1, <1>5, <2>1
  <2> HIDE DEF W, cost
  <2>5. c \in W[k] <=> c \in f[n][k] \/ (cost \in 1 .. k /\ \E b \in f[n][k - cost + 1] : Adjacent(b, c))
    BY <2>3 DEF Level, cost
  <2> QED
    BY <2>2, <2>4, <2>5 DEF n, cost
<1>9. \A k \in K : W[k] = Within(q)[k + 1]
  BY <1>1
<1> QED
  BY <1>6, <1>7, <1>8, <1>9 DEF Walks

-----------------------------------------------------------------------------
(* The inductive invariant of the search for a route, on top of what is    *)
(* promised of its answers.                                                *)
RequestIsTyped ==
  request # NoRequest => request.nav.ground \in [Cells -> Ground] /\ request.profile \in Profile

SearchIsOnWay ==
  search # NoSearch =>
    /\ request # NoRequest /\ RequestRefusal = "None" /\ SearchInv(request, search)
    /\ result = Pending => request.goal \notin search.closed /\ InRounds(request, search)

(* What is settled, on its own.                                            *)
SettledAreCheapest(q, s) ==
  \A c \in s.closed : /\ c \in Within(q)[s.best[c] + 1]
                      /\ s.best[c] > 0 => c \notin Within(q)[s.best[c]]

Answers ==
  {"Pending", "Found", "AlreadyAtDestination", "StartOutOfBounds", "DestinationOutOfBounds",
   "StartBlocked", "DestinationBlocked", "NoPath", "NavigationMapInvalid"}

(* The answer, when there is one, is that of find_path, and the route of   *)
(* an answer that is one costs as little as any walk.                      *)
AnswerIsRight ==
  /\ result.status \in Answers
  /\ request # NoRequest /\ result # Pending => result = FoundFor(request)
  /\ result.status = "Found" =>
       /\ WellAsked(request) /\ RouteIsRight(request, result.route)
       /\ request.goal \in Within(request)[result.route.total + 1]
       /\ result.route.total > 0 => request.goal \notin Within(request)[result.route.total]
  /\ result.status = "NoPath" => request.goal \notin Within(request)[Unreached]

PathInv ==
  /\ scenario \in Scenarios /\ RequestIsTyped /\ SearchIsOnWay /\ AnswerIsRight
  /\ search # NoSearch => SettledAreCheapest(request, search)

LEMMA RefusalOfRequest ==
  /\ RequestRefusal = RefusalFor(request)
  /\ RequestIsTyped /\ request # NoRequest /\ RequestRefusal = "None" => WellAsked(request)
BY RefusalCases DEF RequestRefusal, RefusalFor, RequestIsTyped, WellAsked

(* While the goal is not closed, what is closed is settled.                *)
LEMMA ClosedAreCheapest ==
  ASSUME NEW q, WellAsked(q), NEW s, SearchInv(q, s), q.goal \notin s.closed
  PROVE  /\ SettledAreCheapest(q, s)
         /\ s.open # {} /\ ~Stale(s, Top(s.open)) =>
              SettledAreCheapest(q, Closed(Popped(s), Top(s.open)))
         /\ s.open = {} => q.goal \notin Within(q)[Unreached]
<1>1. PICK W : Walks(q, W) /\ \A k \in 0 .. Unreached - 1 : W[k] = Within(q)[k + 1]
  BY WithinIsWalks
<1>2. /\ Unreached \in Nat /\ Unreached > 0 /\ s.best \in [Cells -> 0 .. Unreached] /\ s.closed \subseteq Cells
  BY UnreachedIsNatural DEF SearchInv, SearchState
<1>3. ASSUME NEW c \in Cells, s.best[c] < Unreached, \A k \in 0 .. s.best[c] - 1 : c \notin W[k]
      PROVE  /\ c \in Within(q)[s.best[c] + 1]
             /\ s.best[c] > 0 => c \notin Within(q)[s.best[c]]
  <2> DEFINE n == s.best[c]
  <2>1. n \in Nat /\ n < Unreached /\ c \in W[n]
    BY <1>1, <1>2, <1>3, ReachedByWalk
  <2>2. \A k \in 0 .. n - 1 : c \notin W[k]
    BY <1>3
  <2> HIDE DEF n
  <2>3. c \in Within(q)[n + 1]
    BY <1>1, <1>2, <2>1
  <2>4. n > 0 => n - 1 \in 0 .. n - 1 /\ n - 1 \in 0 .. Unreached - 1 /\ (n - 1) + 1 = n
    BY <1>2, <2>1
  <2>5. n > 0 => c \notin Within(q)[n]
    BY <1>1, <2>2, <2>4
  <2> QED
    BY <2>3, <2>5 DEF n
<1>4. ASSUME NEW c \in s.closed
      PROVE  /\ c \in Within(q)[s.best[c] + 1]
             /\ s.best[c] > 0 => c \notin Within(q)[s.best[c]]
  <2>1. c \in Cells /\ s.best[c] < Unreached
    BY <1>2 DEF SearchInv, ClosedBeforeOpen
  <2>2. \A k \in 0 .. s.best[c] - 1 : c \notin W[k]
    BY <1>1, SettledIsCheapest
  <2> QED
    BY <2>1, <2>2, <1>3
<1>5. SettledAreCheapest(q, s)
  BY <1>4 DEF SettledAreCheapest
<1>6. ASSUME s.open # {}, ~Stale(s, Top(s.open))
      PROVE  SettledAreCheapest(q, Closed(Popped(s), Top(s.open)))
  <2> DEFINE e == Top(s.open)
             t == Closed(Popped(s), e)
  <2>1. e.cell \in Cells /\ s.best[e.cell] < Unreached
    BY <1>6, FreshEntry
  <2>2. \A k \in 0 .. s.best[e.cell] - 1 : e.cell \notin W[k]
    BY <1>1, <1>6, SettledIsCheapest
  <2>3. t.best = s.best /\ t.closed = s.closed \cup {e.cell}
    BY DEF SearchInv, SearchState, Popped, Closed
  <2> HIDE DEF t, e
  <2>4. /\ e.cell \in Within(q)[s.best[e.cell] + 1]
        /\ s.best[e.cell] > 0 => e.cell \notin Within(q)[s.best[e.cell]]
    BY <2>1, <2>2, <1>3
  <2>5. SettledAreCheapest(q, t)
    BY <2>3, <2>4, <1>4 DEF SettledAreCheapest
  <2> QED
    BY <2>5 DEF t, e
<1>7. ASSUME s.open = {} PROVE q.goal \notin Within(q)[Unreached]
  <2>1. q.goal \notin W[Unreached - 1]
    BY <1>1, <1>7, SettledIsCheapest
  <2>2. Unreached - 1 \in 0 .. Unreached - 1 /\ (Unreached - 1) + 1 = Unreached
    BY <1>2
  <2> QED
    BY <2>1, <2>2, <1>1
<1> QED
  BY <1>5, <1>6, <1>7
-----------------------------------------------------------------------------
(* A route is asked for over a navigation map with a ground in every cell. *)
LEMMA AskKeepsInv ==
  ASSUME PathInv, NEW a \in scenario.asks, Ask(a)
  PROVE  PathInv'
<1>1. search' = NoSearch /\ scenario' = scenario
  BY DEF Ask
<1>2. SearchIsOnWay' /\ (search # NoSearch => SettledAreCheapest(request, search))'
  BY <1>1 DEF SearchIsOnWay, NoSearch
<1>3. CASE Navigable(world)
  <2>1. PICK s \in OnMap(world) :
          request' = [nav |-> NavigationMap(world), profile |-> a.profile, mover |-> s.id,
                      start |-> s.at, goal |-> a.goal]
    BY <1>3 DEF Ask
  <2>2. a.profile \in Profile
    BY ScenariosAssumption DEF PathInv
  <2>3. NavigationMap(world).ground = [c \in Cells |-> GroundOf(world.terrain[c])]
    BY <1>3 DEF NavigationMap
  <2>4. \A raw : GroundOf(raw) \in Ground
    BY DEF GroundOf, Ground
  <2>5. NavigationMap(world).ground \in [Cells -> Ground]
    BY <2>3, <2>4
  <2> HIDE DEF NavigationMap
  <2>6. RequestIsTyped'
    BY <2>1, <2>2, <2>5 DEF RequestIsTyped
  <2>7. result' = Pending
    BY <1>3 DEF Ask
  <2>8. AnswerIsRight'
    BY <2>7 DEF AnswerIsRight, Pending, Answers
  <2> QED
    BY <1>1, <1>2, <2>6, <2>8 DEF PathInv
<1>4. CASE ~Navigable(world)
  <2>1. request' = NoRequest /\ result' = [status |-> "NavigationMapInvalid", route |-> NoRoute]
    BY <1>4 DEF Ask
  <2>2. RequestIsTyped' /\ AnswerIsRight'
    BY <2>1 DEF RequestIsTyped, AnswerIsRight, Answers
  <2> QED
    BY <1>1, <1>2, <2>2 DEF PathInv
<1> QED
  BY <1>3, <1>4

LEMMA RefuseKeepsInv ==
  ASSUME PathInv, Refuse, scenario' = scenario
  PROVE  PathInv'
<1>1. /\ request' = request /\ search' = search /\ search = NoSearch /\ request # NoRequest
      /\ RequestRefusal # "None" /\ RequestRefusal = RefusalFor(request)
  BY RefusalOfRequest DEF Refuse, Asked
<1>2. result' = FoundFor(request)
  BY <1>1, FoundCases, RefusalCases DEF Refuse
<1>3. result'.status = RefusalFor(request)
  BY <1>1 DEF Refuse
<1>4. result'.status \in Answers /\ result'.status \notin {"Found", "NoPath"}
  BY <1>1, <1>3, RefusalCases DEF Answers
<1>5. AnswerIsRight'
  BY <1>1, <1>2, <1>4 DEF AnswerIsRight
<1>6. RequestIsTyped' /\ SearchIsOnWay' /\ (search # NoSearch => SettledAreCheapest(request, search))'
  BY <1>1 DEF PathInv, RequestIsTyped, SearchIsOnWay
<1> QED
  BY <1>5, <1>6 DEF PathInv

LEMMA BeginKeepsInv ==
  ASSUME PathInv, Begin, scenario' = scenario
  PROVE  PathInv'
<1>1. /\ request' = request /\ result' = result /\ result = Pending /\ request # NoRequest
      /\ RequestRefusal = "None" /\ WellAsked(request)
      /\ search' = StartSearch(request.profile, request.start, request.goal)
  BY RefusalOfRequest DEF Begin, Asked, PathInv
<1> DEFINE s == StartSearch(request.profile, request.start, request.goal)
<1>2. SearchInv(request, s) /\ InRounds(request, s) /\ s.closed = {}
  <2>1. s.closed = {}
    BY DEF StartSearch
  <2> HIDE DEF s
  <2> QED
    BY <2>1, <1>1, StartKeepsInv, StartIsInRounds DEF s
<1> HIDE DEF s
<1>3. search' = s
  BY <1>1 DEF s
<1>4. RequestRefusal' = RequestRefusal
  BY <1>1 DEF RequestRefusal
<1>5. SearchIsOnWay' /\ (search # NoSearch => SettledAreCheapest(request, search))'
  BY <1>1, <1>2, <1>3, <1>4 DEF SearchIsOnWay, SettledAreCheapest
<1>6. RequestIsTyped' /\ AnswerIsRight'
  BY <1>1 DEF PathInv, RequestIsTyped, AnswerIsRight, Pending
<1> QED
  BY <1>5, <1>6 DEF PathInv

LEMMA SearchingFacts ==
  ASSUME PathInv, Searching
  PROVE  /\ request # NoRequest /\ RequestRefusal = "None" /\ RefusalFor(request) = "None"
         /\ WellAsked(request) /\ SearchInv(request, search) /\ result = Pending
         /\ request.goal \notin search.closed /\ InRounds(request, search)
BY RefusalOfRequest DEF PathInv, SearchIsOnWay, Searching

(* A round that leaves the goal open leaves the search on its way.         *)
LEMMA SearchGoesOn ==
  ASSUME PathInv, Searching, scenario' = scenario, request' = request, result' = result, NEW t, search' = t,
         SearchInv(request, t), InRounds(request, t), request.goal \notin t.closed
  PROVE  PathInv'
<1>1. RequestRefusal' = RequestRefusal
  BY DEF RequestRefusal
<1>2. SettledAreCheapest(request, t)
  BY SearchingFacts, ClosedAreCheapest
<1>3. SearchIsOnWay' /\ (search # NoSearch => SettledAreCheapest(request, search))'
  BY <1>1, <1>2, SearchingFacts DEF SearchIsOnWay
<1>4. RequestIsTyped' /\ AnswerIsRight'
  BY SearchingFacts DEF PathInv, RequestIsTyped, AnswerIsRight, Pending
<1> QED
  BY <1>3, <1>4 DEF PathInv

LEMMA SkipKeepsInv ==
  ASSUME PathInv, SkipStale, scenario' = scenario
  PROVE  PathInv'
<1> DEFINE t == Popped(search)
<1>1. /\ Searching /\ search.open # {} /\ Stale(search, Top(search.open)) /\ search' = t
      /\ request' = request /\ result' = result
  BY DEF SkipStale
<1>2. SearchInv(request, t) /\ InRounds(request, t)
  BY <1>1, SearchingFacts, PopKeepsInv, RoundIsInRounds
<1>3. t.closed = search.closed
  BY <1>1, SearchingFacts DEF SearchInv, SearchState, Popped
<1> HIDE DEF t
<1> QED
  BY <1>1, <1>2, <1>3, SearchingFacts, SearchGoesOn

LEMMA ExpandKeepsPathInv ==
  ASSUME PathInv, Expand, scenario' = scenario
  PROVE  PathInv'
<1> DEFINE e == Top(search.open)
           t == Expanded(request.nav, request.profile, request.mover, request.goal,
                         Closed(Popped(search), e), e)
<1>1. /\ Searching /\ search.open # {} /\ ~Stale(search, e) /\ e.cell # request.goal /\ search' = t
      /\ request' = request /\ result' = result
  BY DEF Expand, Nav
<1>2. SearchInv(request, t) /\ InRounds(request, t)
  BY <1>1, SearchingFacts, ExpandKeepsInv, RoundIsInRounds
<1>3. t.closed = search.closed \cup {e.cell}
  BY <1>1, SearchingFacts, ExpandedFacts
<1> HIDE DEF t, e
<1> QED
  BY <1>1, <1>2, <1>3, SearchingFacts, SearchGoesOn

(* Only best_g and the predecessors are read to turn the chain round.      *)
LEMMA ReconstructedAlike ==
  ASSUME NEW s, NEW t, s.best = t.best, s.from = t.from, NEW start, NEW goal
  PROVE  Reconstructed(s, start, goal) = Reconstructed(t, start, goal)
<1>1. RouteSteps(s, start, goal) = RouteSteps(t, start, goal)
  <2> DEFINE Chain(best, from) ==
               LET Back[n \in Nat] == IF n = 0 THEN goal
                                      ELSE LET c == Back[n - 1] IN IF c \in Cells THEN from[c] ELSE Nowhere
                   lengths == {n \in 0 .. Width * Height : Back[n] = start}
                   n == Min(lengths)
               IN IF lengths = {} THEN << >>
                  ELSE [i \in 1 .. n |-> [cell |-> Back[n - i],
                                          cost |-> best[Back[n - i]] - best[Back[n - i + 1]],
                                          cumulative |-> best[Back[n - i]]]]
  <2>1. RouteSteps(s, start, goal) = Chain(s.best, s.from) /\ RouteSteps(t, start, goal) = Chain(t.best, t.from)
    BY Zenon DEF RouteSteps
  <2> HIDE DEF Chain
  <2> QED
    BY <2>1
<1> QED
  BY <1>1, Zenon DEF Reconstructed

LEMMA ArriveKeepsPathInv ==
  ASSUME PathInv, Arrive, scenario' = scenario
  PROVE  PathInv'
<1> DEFINE e == Top(search.open)
           t == Closed(Popped(search), e)
           route == Reconstructed(search, request.start, request.goal)
           goal == request.goal
<1>1. /\ Searching /\ search.open # {} /\ ~Stale(search, e) /\ e.cell = goal /\ search' = t
      /\ result' = [status |-> IF route = NoRoute THEN "NoPath" ELSE "Found", route |-> route]
      /\ request' = request
  BY DEF Arrive
<1>2. /\ SearchInv(request, t) /\ SearchedFor(request) = t /\ SettledAreCheapest(request, t)
      /\ WellAsked(request) /\ request # NoRequest /\ RequestRefusal = "None" /\ RefusalFor(request) = "None"
  BY <1>1, SearchingFacts, ArriveKeepsInv, RoundIsInRounds, ClosedAreCheapest
<1>3. t.closed = search.closed \cup {goal} /\ t.best = search.best /\ t.from = search.from
  BY <1>1, SearchingFacts DEF SearchInv, SearchState, Popped, Closed
<1> HIDE DEF t, e
<1>4. route = Reconstructed(t, request.start, goal)
  BY <1>3, ReconstructedAlike
<1> HIDE DEF route
<1>5. route # NoRoute /\ RouteIsRight(request, route) /\ route.total = t.best[goal]
  BY <1>2, <1>3, <1>4, ReconstructedIsRight
<1>6. result' = [status |-> "Found", route |-> route] /\ result'.status = "Found" /\ result'.route = route
  BY <1>1, <1>5
<1>7. result' = FoundFor(request)
  <2>1. Arrived(SearchedFor(request), goal)
    BY <1>2, <1>3 DEF Arrived
  <2> QED
    BY <1>2, <1>4, <1>5, <1>6, <2>1, FoundCases
<1>8. /\ goal \in Within(request)[route.total + 1]
      /\ route.total > 0 => goal \notin Within(request)[route.total]
  BY <1>2, <1>3, <1>5 DEF SettledAreCheapest
<1>9. AnswerIsRight'
  <2>1. "Found" \in Answers /\ "Found" # "NoPath"
    BY DEF Answers
  <2> QED
    BY <1>1, <1>2, <1>5, <1>6, <1>7, <1>8, <2>1 DEF AnswerIsRight
<1>10. result' # Pending
  BY <1>6 DEF Pending
<1>11. RequestRefusal' = RequestRefusal
  BY <1>1 DEF RequestRefusal
<1>12. SearchIsOnWay' /\ (search # NoSearch => SettledAreCheapest(request, search))'
  BY <1>1, <1>2, <1>10, <1>11 DEF SearchIsOnWay
<1>13. RequestIsTyped'
  BY <1>1 DEF PathInv, RequestIsTyped
<1> QED
  BY <1>9, <1>12, <1>13 DEF PathInv

LEMMA ExhaustKeepsInv ==
  ASSUME PathInv, Exhaust, scenario' = scenario
  PROVE  PathInv'
<1>1. /\ Searching /\ search.open = {} /\ request' = request /\ search' = search
      /\ result' = [status |-> "NoPath", route |-> NoRoute]
  BY DEF Exhaust
<1>2. /\ SearchInv(request, search) /\ SearchedFor(request) = search /\ SettledAreCheapest(request, search)
      /\ WellAsked(request) /\ request # NoRequest /\ RequestRefusal = "None" /\ RefusalFor(request) = "None"
      /\ request.goal \notin search.closed /\ request.goal \notin Within(request)[Unreached]
  BY <1>1, SearchingFacts, RoundIsInRounds, ClosedAreCheapest
<1>3. result' = FoundFor(request)
  <2>1. ~Arrived(SearchedFor(request), request.goal)
    BY <1>2 DEF Arrived
  <2> QED
    BY <1>1, <1>2, <2>1, FoundCases
<1>4. result'.status = "NoPath" /\ result' # Pending /\ "NoPath" \in Answers /\ "NoPath" # "Found"
  BY <1>1 DEF Answers, Pending
<1>5. AnswerIsRight'
  BY <1>1, <1>2, <1>3, <1>4 DEF AnswerIsRight
<1>6. RequestRefusal' = RequestRefusal
  BY <1>1 DEF RequestRefusal
<1>7. SearchIsOnWay' /\ (search # NoSearch => SettledAreCheapest(request, search))'
  BY <1>1, <1>2, <1>4, <1>6 DEF SearchIsOnWay
<1>8. RequestIsTyped'
  BY <1>1 DEF PathInv, RequestIsTyped
<1> QED
  BY <1>5, <1>7, <1>8 DEF PathInv

LEMMA PathInvIsInductive == Spec => []PathInv
<1>1. Init => PathInv
  BY DEF Init, PathInit, PathInv, RequestIsTyped, SearchIsOnWay, AnswerIsRight, Answers, Pending
<1>2. PathInv /\ [Next]_mapVars => PathInv'
  <2> SUFFICES ASSUME PathInv, [Next]_mapVars PROVE PathInv'
    OBVIOUS
  <2>1. CASE \E a \in scenario.asks : Ask(a)
    BY <2>1, AskKeepsInv
  <2>2. CASE SearchRoute
    BY <2>2, RefuseKeepsInv, BeginKeepsInv, SkipKeepsInv, ExpandKeepsPathInv, ArriveKeepsPathInv, ExhaustKeepsInv
       DEF SearchRoute, PathNext
  <2>3. CASE UNCHANGED <<scenario, request, search, result>>
    <3>1. RequestRefusal' = RequestRefusal
      BY <2>3 DEF RequestRefusal
    <3> QED
      BY <2>3, <3>1 DEF PathInv, RequestIsTyped, SearchIsOnWay, AnswerIsRight
  <2>4. CASE Next /\ ~(\E a \in scenario.asks : Ask(a)) /\ ~SearchRoute
    <3>1. UNCHANGED <<scenario, request, search, result>>
      BY <2>4 DEF Next, Load, ResolveActors, PrepareTerrain, PrepareWorld, PaintTerrain, BuildMasks,
                  Point, Inspect, CloseInformation, pathVars
    <3> QED
      BY <3>1, <2>3
  <2> QED
    BY <2>1, <2>2, <2>3, <2>4 DEF mapVars, pathVars
<1> QED
  BY <1>1, <1>2, PTL DEF Spec

LEMMA InvMeansAnswersAreRight == PathInv => AnswersAreRight
<1> SUFFICES ASSUME PathInv PROVE AnswersAreRight
  OBVIOUS
<1>1. FoundRouteIsShortest
  <2> SUFFICES ASSUME result.status = "Found"
               PROVE  LET r == result.route
                      IN /\ WellFormedRoute(r) /\ r.start = request.start /\ r.destination = request.goal
                         /\ \A i \in DOMAIN r.steps :
                              r.steps[i].cost = EnterCost(Nav, request.profile, request.mover, r.steps[i].cell)
                         /\ IsCheapest(request.goal, r.total)
    BY DEF FoundRouteIsShortest
  <2> DEFINE r == result.route
  <2>1. /\ RouteIsRight(request, r) /\ request.goal \in Within(request)[r.total + 1]
        /\ r.total > 0 => request.goal \notin Within(request)[r.total]
    BY DEF PathInv, AnswerIsRight
  <2>2. IsCheapest(request.goal, r.total)
    BY <2>1, WithinIsWithinCost DEF IsCheapest
  <2>3. r.start = request.start /\ r.destination = request.goal
    BY <2>1 DEF RouteIsRight
  <2> QED
    BY <2>1, <2>2, <2>3 DEF RouteIsRight, CostOf, Nav
<1>2. NoPathMeansUnreachable
  BY WithinIsWithinCost DEF PathInv, AnswerIsRight, NoPathMeansUnreachable, IsReachable
<1>3. ClosedCellsAreSettled
  <2>1. search # NoSearch => SearchInv(request, search) /\ SettledAreCheapest(request, search)
    BY DEF PathInv, SearchIsOnWay
  <2>2. PathTypeOK
    <3>1. result.status \in Answers
      BY DEF PathInv, AnswerIsRight
    <3>2. search # NoSearch => search \in SearchState /\ \A e \in search.open : e.seq < search.seq
      BY <2>1 DEF SearchInv, OpenIsOrdered
    <3> QED
      BY <3>1, <3>2 DEF PathTypeOK, SearchState, OpenEntry, Answers
  <2> QED
    BY <2>1, <2>2, WithinIsWithinCost DEF ClosedCellsAreSettled, SettledAreCheapest, IsCheapest
<1>4. LoopComputesFindPath
  BY DEF PathInv, AnswerIsRight, LoopComputesFindPath, FoundFor, Nav
<1> QED
  BY <1>1, <1>2, <1>3, <1>4 DEF AnswersAreRight

(* On a map of any size, with any terrain, objects and stacks: a route     *)
(* that is found is a cheapest one, no route is denied that exists, a cell *)
(* that is closed never has a cheaper way left, and the loop computes what *)
(* GameSession calls (AdventurePathfinder.cpp:141-222).                    *)
THEOREM SearchIsCorrect == Spec => []AnswersAreRight
BY PathInvIsInductive, InvMeansAnswersAreRight, PTL
-----------------------------------------------------------------------------
(* A mask is a set of directions.  Its number is one, and its size small.  *)
Masks8 == SUBSET (1 .. 8)

LEMMA NumberIsOne ==
  ASSUME NEW a \in Masks8, NEW b \in Masks8
  PROVE  /\ Number(a) \in 0 .. 255
         /\ Number(a) = Number(b) => a = b
<1> DEFINE bit(m, d) == IF d \in m THEN 2 ^ (d - 1) ELSE 0
<1>1. /\ 2 ^ (1 - 1) = 1 /\ 2 ^ (2 - 1) = 2 /\ 2 ^ (3 - 1) = 4 /\ 2 ^ (4 - 1) = 8
      /\ 2 ^ (5 - 1) = 16 /\ 2 ^ (6 - 1) = 32 /\ 2 ^ (7 - 1) = 64 /\ 2 ^ (8 - 1) = 128
  OBVIOUS
<1>2. \A m : Number(m) = (IF 1 \in m THEN 1 ELSE 0) + (IF 2 \in m THEN 2 ELSE 0)
                         + (IF 3 \in m THEN 4 ELSE 0) + (IF 4 \in m THEN 8 ELSE 0)
                         + (IF 5 \in m THEN 16 ELSE 0) + (IF 6 \in m THEN 32 ELSE 0)
                         + (IF 7 \in m THEN 64 ELSE 0) + (IF 8 \in m THEN 128 ELSE 0)
  BY <1>1 DEF Number
<1>3. Number(a) \in 0 .. 255
  BY <1>2
<1>4. ASSUME Number(a) = Number(b)
      PROVE  \A d \in 1 .. 8 : d \in a <=> d \in b
  <2>1. (8 \in a <=> 8 \in b) /\ (7 \in a <=> 7 \in b) /\ (6 \in a <=> 6 \in b) /\ (5 \in a <=> 5 \in b)
        /\ (4 \in a <=> 4 \in b) /\ (3 \in a <=> 3 \in b) /\ (2 \in a <=> 2 \in b) /\ (1 \in a <=> 1 \in b)
    BY <1>2, <1>4
  <2> QED
    BY <2>1
<1> QED
  BY <1>3, <1>4 DEF Masks8

LEMMA MaskIsSmall ==
  ASSUME NEW a \in Masks8
  PROVE  /\ IsFiniteSet(a) /\ Cardinality(a) \in 0 .. 8
         /\ \A b \in SUBSET a : IsFiniteSet(b) /\ Cardinality(b) <= Cardinality(a)
         /\ \A b \in SUBSET a : b # {} => Cardinality(a \ b) < Cardinality(a)
<1>1. IsFiniteSet(1 .. 8) /\ Cardinality(1 .. 8) = 8
  <2>1. \A n \in Int : IsFiniteSet(1 .. n) /\ Cardinality(1 .. n) = IF 1 > n THEN 0 ELSE n - 1 + 1
    BY FS_Interval
  <2> QED
    BY <2>1
<1>2. IsFiniteSet(a) /\ Cardinality(a) \in Nat /\ Cardinality(a) <= 8
  BY <1>1, FS_Subset, FS_CardinalityType DEF Masks8
<1>3. \A b \in SUBSET a : IsFiniteSet(b) /\ Cardinality(b) <= Cardinality(a)
  BY <1>2, FS_Subset
<1>4. ASSUME NEW b \in SUBSET a, b # {} PROVE Cardinality(a \ b) < Cardinality(a)
  <2>1. /\ IsFiniteSet(a \ b) /\ Cardinality(a \ b) \in Nat /\ Cardinality(a \ b) <= Cardinality(a)
        /\ Cardinality(a \ b) = Cardinality(a) => a \ b = a
    BY <1>2, FS_Subset, FS_CardinalityType
  <2> QED
    BY <1>2, <1>4, <2>1
<1> QED
  BY <1>2, <1>3, <1>4

(* There are images of the single directions.                              *)
LEMMA SinglesAreKeys ==
  ASSUME NEW d \in 1 .. 8
  PROVE  {d} \in TopologyKeys
<1>1. /\ 2 ^ (1 - 1) = 1 /\ 2 ^ (2 - 1) = 2 /\ 2 ^ (3 - 1) = 4 /\ 2 ^ (4 - 1) = 8
      /\ 2 ^ (5 - 1) = 16 /\ 2 ^ (6 - 1) = 32 /\ 2 ^ (7 - 1) = 64 /\ 2 ^ (8 - 1) = 128
  OBVIOUS
<1> DEFINE Bit(n, e) == (n \div 2 ^ (e - 1)) % 2 = 1
<1>2. \A n : Bits(n) = {k \in 1 .. 8 : Bit(n, k)}
  BY DEF Bits
<1>3. Bits(1) = {1}
  <2>1. /\ Bit(1, 1) /\ ~Bit(1, 2) /\ ~Bit(1, 3) /\ ~Bit(1, 4)
        /\ ~Bit(1, 5) /\ ~Bit(1, 6) /\ ~Bit(1, 7) /\ ~Bit(1, 8)
    BY <1>1
  <2> HIDE DEF Bit
  <2> QED
    BY <1>2, <2>1
<1>4. Bits(2) = {2}
  <2>1. /\ ~Bit(2, 1) /\ Bit(2, 2) /\ ~Bit(2, 3) /\ ~Bit(2, 4)
        /\ ~Bit(2, 5) /\ ~Bit(2, 6) /\ ~Bit(2, 7) /\ ~Bit(2, 8)
    BY <1>1
  <2> HIDE DEF Bit
  <2> QED
    BY <1>2, <2>1
<1>5. Bits(4) = {3}
  <2>1. /\ ~Bit(4, 1) /\ ~Bit(4, 2) /\ Bit(4, 3) /\ ~Bit(4, 4)
        /\ ~Bit(4, 5) /\ ~Bit(4, 6) /\ ~Bit(4, 7) /\ ~Bit(4, 8)
    BY <1>1
  <2> HIDE DEF Bit
  <2> QED
    BY <1>2, <2>1
<1>6. Bits(8) = {4}
  <2>1. /\ ~Bit(8, 1) /\ ~Bit(8, 2) /\ ~Bit(8, 3) /\ Bit(8, 4)
        /\ ~Bit(8, 5) /\ ~Bit(8, 6) /\ ~Bit(8, 7) /\ ~Bit(8, 8)
    BY <1>1
  <2> HIDE DEF Bit
  <2> QED
    BY <1>2, <2>1
<1>7. Bits(16) = {5}
  <2>1. /\ ~Bit(16, 1) /\ ~Bit(16, 2) /\ ~Bit(16, 3) /\ ~Bit(16, 4)
        /\ Bit(16, 5) /\ ~Bit(16, 6) /\ ~Bit(16, 7) /\ ~Bit(16, 8)
    BY <1>1
  <2> HIDE DEF Bit
  <2> QED
    BY <1>2, <2>1
<1>8. Bits(32) = {6}
  <2>1. /\ ~Bit(32, 1) /\ ~Bit(32, 2) /\ ~Bit(32, 3) /\ ~Bit(32, 4)
        /\ ~Bit(32, 5) /\ Bit(32, 6) /\ ~Bit(32, 7) /\ ~Bit(32, 8)
    BY <1>1
  <2> HIDE DEF Bit
  <2> QED
    BY <1>2, <2>1
<1>9. Bits(64) = {7}
  <2>1. /\ ~Bit(64, 1) /\ ~Bit(64, 2) /\ ~Bit(64, 3) /\ ~Bit(64, 4)
        /\ ~Bit(64, 5) /\ ~Bit(64, 6) /\ Bit(64, 7) /\ ~Bit(64, 8)
    BY <1>1
  <2> HIDE DEF Bit
  <2> QED
    BY <1>2, <2>1
<1>10. Bits(128) = {8}
  <2>1. /\ ~Bit(128, 1) /\ ~Bit(128, 2) /\ ~Bit(128, 3) /\ ~Bit(128, 4)
        /\ ~Bit(128, 5) /\ ~Bit(128, 6) /\ ~Bit(128, 7) /\ Bit(128, 8)
    BY <1>1
  <2> HIDE DEF Bit
  <2> QED
    BY <1>2, <2>1
<1> QED
  BY <1>3, <1>4, <1>5, <1>6, <1>7, <1>8, <1>9, <1>10 DEF TopologyKeys

LEMMA KeysAreMasks == TopologyKeys \subseteq Masks8
BY DEF TopologyKeys, Bits, Masks8

(* A mask that is not empty has a largest part with an image.              *)
LEMMA LargestIsPart ==
  ASSUME NEW mask \in Masks8, mask # {}
  PROVE  Largest(mask) \in TopologyKeys /\ Largest(mask) \subseteq mask /\ Largest(mask) # {}
<1> DEFINE K == {k \in TopologyKeys : k \subseteq mask}
           Goes(k, j) == \/ Cardinality(j) < Cardinality(k)
                         \/ Cardinality(j) = Cardinality(k) /\ Number(k) < Number(j)
<1>1. \A k \in K : k \in Masks8 /\ Cardinality(k) \in 0 .. 8 /\ Number(k) \in 0 .. 255
  BY KeysAreMasks, MaskIsSmall, NumberIsOne
<1>2. PICK d \in mask : {d} \in K
  BY SinglesAreKeys DEF Masks8
<1>3. PICK k \in K : \A j \in K \ {k} : Goes(k, j)
  <2> DEFINE C == {Cardinality(k) : k \in K}
  <2>1. PICK c \in C : \A e \in C : e <= c
    <3>1. C \in SUBSET (0 .. 8) /\ C # {}
      BY <1>1, <1>2
    <3> HIDE DEF C
    <3> QED
      BY <3>1, GreatestExists
  <2> DEFINE N == {Number(k) : k \in {k \in K : Cardinality(k) = c}}
  <2>2. PICK n \in N : \A e \in N : n <= e
    <3>1. N \in SUBSET Nat /\ N # {}
      BY <1>1, <2>1
    <3> HIDE DEF N
    <3> QED
      BY <3>1, LeastExists
  <2>3. PICK k \in K : Cardinality(k) = c /\ Number(k) = n
    BY <2>2
  <2>4. ASSUME NEW j \in K, j # k PROVE Goes(k, j)
    <3>1. Cardinality(j) <= c /\ Cardinality(j) \in Int /\ c \in Int /\ n \in Int /\ Number(j) \in Int
      BY <2>1, <2>3, <1>1
    <3>2. Number(j) # n
      BY <2>3, <2>4, <1>1, NumberIsOne
    <3>3. Cardinality(j) = c => n <= Number(j)
      BY <2>2
    <3> QED
      BY <2>3, <3>1, <3>2, <3>3
  <2> QED
    BY <2>3, <2>4
<1>4. Largest(mask) = CHOOSE l \in K : \A j \in TopologyKeys \ {l} : j \subseteq mask => Goes(l, j)
  BY Zenon DEF Largest
<1>5. \E l \in K : \A j \in TopologyKeys \ {l} : j \subseteq mask => Goes(l, j)
  <2> HIDE DEF Goes
  <2> QED
    BY <1>3
<1>6. Largest(mask) \in K /\ \A j \in TopologyKeys \ {Largest(mask)} : j \subseteq mask => Goes(Largest(mask), j)
  <2> HIDE DEF K, Goes
  <2> QED
    BY <1>4, <1>5
<1>7. Largest(mask) # {}
  <2>1. CASE Largest(mask) = {d}
    BY <2>1
  <2>2. CASE Largest(mask) # {d}
    <3>1. Goes(Largest(mask), {d})
      BY <1>2, <1>6, <2>2
    <3>2. Cardinality({d}) = 1 /\ Cardinality({}) = 0
      BY FS_Singleton, FS_EmptySet
    <3>3. Cardinality(Largest(mask)) \in 0 .. 8
      BY <1>1, <1>6
    <3> HIDE DEF K
    <3>4. Cardinality(Largest(mask)) # 0
      BY <3>1, <3>2, <3>3
    <3> QED
      BY <3>2, <3>4
  <2> QED
    BY <2>1, <2>2
<1> QED
  BY <1>6, <1>7

(* A mask is split into parts that cover it, unless all four sides are in  *)
(* it (topology_decomposition_table, adventure_terrain_surface.cpp:328).   *)
LEMMA DecompositionCovers ==
  ASSUME NEW mask \in Masks8
  PROVE  /\ Diagonals \subseteq mask => Decomposition(mask) = {Diagonals}
         /\ ~(Diagonals \subseteq mask) => UNION Decomposition(mask) = mask
         /\ \A part \in Decomposition(mask) : part \in SUBSET mask /\ part # {}
<1> DEFINE F == [m \in Masks8 |-> WithoutLargest(m)]
           Remaining[n \in Nat] == IF n = 0 THEN mask ELSE WithoutLargest(Remaining[n - 1])
<1>1. F \in [Masks8 -> Masks8]
  BY DEF WithoutLargest, Masks8
<1>2. PICK f \in [Nat -> Masks8] : f[0] = mask /\ \A n \in Nat : f[n + 1] = F[f[n]]
  <2> HIDE DEF F
  <2> QED
    BY <1>1, SequenceExists
<1>3. \A n \in Nat : f[n + 1] = WithoutLargest(f[n])
  BY <1>2
<1>4. f = [n \in Nat |-> IF n = 0 THEN mask ELSE WithoutLargest(f[n - 1])]
  <2>1. \A n \in Nat : n # 0 => n - 1 \in Nat /\ n = (n - 1) + 1
    OBVIOUS
  <2>2. \A n \in Nat : f[n] = IF n = 0 THEN mask ELSE WithoutLargest(f[n - 1])
    BY <2>1, <1>2, <1>3
  <2> QED
    BY <2>2, <1>2
<1>5. Remaining = [n \in Nat |-> IF n = 0 THEN mask ELSE WithoutLargest(Remaining[n - 1])]
  BY <1>4, Zenon
<1>6. Decomposition(mask) = IF Diagonals \subseteq mask THEN {Diagonals}
                            ELSE {Largest(Remaining[n]) : n \in {n \in 0 .. 7 : Remaining[n] # {}}}
  BY Zenon DEF Decomposition
<1> HIDE DEF Remaining, F
<1>7. \A n \in Nat : Remaining[n] = f[n]
  <2> DEFINE T == {n \in Nat : Remaining[n] = f[n]}
  <2>1. 0 \in T
    BY <1>2, <1>5
  <2>2. ASSUME NEW n \in T PROVE n + 1 \in T
    <3>1. n \in Nat /\ n + 1 \in Nat /\ n + 1 # 0 /\ (n + 1) - 1 = n /\ Remaining[n] = f[n]
      OBVIOUS
    <3>2. Remaining[n + 1] = WithoutLargest(Remaining[(n + 1) - 1])
      BY <1>5, <3>1, Zenon
    <3> QED
      BY <3>1, <3>2, <1>3
  <2>3. T = Nat
    <3> HIDE DEF T
    <3> QED
      BY <2>1, <2>2, NatSetInduction DEF T
  <2> QED
    BY <2>3
<1> DEFINE Left(n) == IF n < 8 THEN 8 - n ELSE 0
<1>80. \A m \in Masks8 : IsFiniteSet(m) /\ Cardinality(m) \in 0 .. 8
  BY MaskIsSmall
<1>8. \A n \in Nat : f[n] \in Masks8 /\ f[n] \subseteq mask /\ Cardinality(f[n]) <= Left(n)
  <2> DEFINE T == {n \in Nat : f[n] \subseteq mask /\ Cardinality(f[n]) <= Left(n)}
  <2>1. 0 \in T
    <3>1. Cardinality(mask) <= Left(0)
      BY <1>80
    <3> QED
      BY <1>2, <3>1
  <2>2. ASSUME NEW n \in T PROVE n + 1 \in T
    <3>1. n \in Nat /\ f[n] \in Masks8 /\ f[n] \subseteq mask /\ f[n + 1] = WithoutLargest(f[n])
      BY <1>2, <1>3
    <3>2. CASE f[n] = {}
      <4>1. f[n + 1] = {} /\ Cardinality(f[n + 1]) = 0
        BY <3>1, <3>2, FS_EmptySet DEF WithoutLargest
      <4>2. 0 <= Left(n + 1)
        BY <3>1
      <4>3. f[n + 1] \subseteq mask /\ Cardinality(f[n + 1]) <= Left(n + 1)
        BY <4>1, <4>2
      <4> HIDE DEF Left
      <4> QED
        BY <4>3
    <3>3. CASE f[n] # {}
      <4>1. f[n + 1] = f[n] \ Largest(f[n]) /\ Largest(f[n]) \in SUBSET f[n] /\ Largest(f[n]) # {}
        BY <3>1, <3>3, LargestIsPart DEF WithoutLargest
      <4>2. Cardinality(f[n + 1]) < Cardinality(f[n])
        BY <3>1, <4>1, MaskIsSmall
      <4>3. Cardinality(f[n]) \in Nat /\ Cardinality(f[n + 1]) \in Nat
        BY <3>1, <1>2, <1>80
      <4>4. Cardinality(f[n + 1]) <= Left(n + 1)
        <5>1. Cardinality(f[n]) <= Left(n)
          OBVIOUS
        <5> HIDE DEF T
        <5> QED
          BY <3>1, <4>2, <4>3, <5>1
      <4>5. f[n + 1] \subseteq mask
        BY <3>1, <4>1
      <4> HIDE DEF Left
      <4> QED
        BY <4>4, <4>5
    <3> QED
      BY <3>2, <3>3
  <2>3. T = Nat
    <3> HIDE DEF T
    <3> QED
      BY <2>1, <2>2, NatSetInduction DEF T
  <2> QED
    BY <2>3, <1>2
<1> HIDE DEF Left
<1>90. Left(8) = 0
  BY DEF Left
<1>9. f[8] = {}
  <2>1. f[8] \in Masks8 /\ Cardinality(f[8]) <= 0 /\ IsFiniteSet(f[8]) /\ Cardinality(f[8]) \in Nat
    BY <1>8, <1>80, <1>90
  <2> QED
    BY <2>1, FS_EmptySet
<1>10. ASSUME NEW d \in mask PROVE \E n \in 0 .. 7 : d \in f[n] /\ d \in Largest(f[n])
  <2> DEFINE L == {n \in Nat : d \notin f[n]}
  <2>1. PICK n \in L : \A j \in L : n <= j
    <3>1. L \in SUBSET Nat /\ 8 \in L
      BY <1>9
    <3> HIDE DEF L
    <3> QED
      BY <3>1, LeastExists
  <2>2. n \in 1 .. 8 /\ n - 1 \in Nat /\ n = (n - 1) + 1
    BY <2>1, <1>2, <1>9
  <2>3. d \in f[n - 1]
    BY <2>1, <2>2
  <2>4. f[n] = WithoutLargest(f[n - 1])
    BY <1>3, <2>2
  <2>5. d \in Largest(f[n - 1])
    BY <2>1, <2>3, <2>4 DEF WithoutLargest
  <2> QED
    BY <2>2, <2>3, <2>5
<1>11. CASE Diagonals \subseteq mask
  BY <1>6, <1>11 DEF Diagonals
<1>12. CASE ~(Diagonals \subseteq mask)
  <2>1. Decomposition(mask) = {Largest(f[n]) : n \in {n \in 0 .. 7 : f[n] # {}}}
    BY <1>6, <1>7, <1>12
  <2>2. \A part \in Decomposition(mask) : part \in SUBSET mask /\ part # {}
    <3>1. \A n \in 0 .. 7 : f[n] # {} => Largest(f[n]) \in SUBSET f[n] /\ Largest(f[n]) # {}
      BY <1>8, LargestIsPart
    <3> QED
      BY <2>1, <3>1, <1>8
  <2>3. \A d \in mask : \E part \in Decomposition(mask) : d \in part
    BY <2>1, <1>10
  <2> QED
    BY <2>2, <2>3, <1>12
<1> QED
  BY <1>11, <1>12
-----------------------------------------------------------------------------
(* The codes and the materials of tiles, and which ground lies over which. *)
Codes == {"BL", "HU", "DW", "HE", "UN", "NE", "EL", "WA"}

LEMMA CodeFacts ==
  /\ DOMAIN LowBytes = Codes
  /\ Lands = Codes \ {"BL", "WA"}
  /\ \A raw : MaterialOf(raw) \in Codes \cup {"Unknown"} /\ CodeOf(raw) \in Codes
  /\ \A a, b : MaterialOf(a) = MaterialOf(b) => CodeOf(a) = CodeOf(b)
<1>1. DOMAIN LowBytes = Codes
  BY DEF LowBytes, Codes
<1>2. Lands = Codes \ {"BL", "WA"}
  BY DEF Lands, Codes
<1>3. ASSUME NEW raw PROVE MaterialOf(raw) \in Codes \cup {"Unknown"}
  BY <1>1, Zenon DEF MaterialOf
<1>4. \A raw : MaterialOf(raw) # "Unknown" => CodeOf(raw) = MaterialOf(raw)
  BY DEF CodeOf
<1>5. \A raw : MaterialOf(raw) = "Unknown" => CodeOf(raw) = "BL"
  BY DEF CodeOf
<1>6. "BL" \in Codes
  BY DEF Codes
<1> QED
  BY <1>1, <1>2, <1>3, <1>4, <1>5, <1>6

LEMMA OverFacts ==
  ASSUME NEW a \in Codes, NEW b \in Codes
  PROVE  /\ Over(a) \subseteq Lands /\ a \notin Over(a)
         /\ b \in Over(a) => a \notin Over(b)
         /\ a # b /\ {a, b} \cap Lands # {} => b \in Over(a) \/ a \in Over(b)
         /\ DominanceRank(a) \in 0 .. 6
         /\ a \in Lands /\ b \in Lands /\ DominanceRank(a) = DominanceRank(b) => a = b
BY DEF Over, Lands, DominanceRank, Codes

LEMMA MaskFacts ==
  ASSUME NEW t, NEW c, NEW codes
  PROVE  /\ MaskOf(t, c, codes) \in Masks8
         /\ \A d \in 1 .. 8 : d \in MaskOf(t, c, codes)
              <=> Neighbour(c, d) \in DOMAIN t /\ CodeOf(t[Neighbour(c, d)]) \in codes
BY DEF MaskOf, Masks8
-----------------------------------------------------------------------------
(* The borders of a cell: for every ground that lies over its own the parts*)
(* of the mask of that ground, and for water the parts of its shore.       *)
Plan(family, code, part) ==
  [family |-> family, code |-> code, mask |-> part, shape |-> BorderShape(part)]

LEMMA PlanFacts ==
  ASSUME NEW t, NEW c, NEW op \in BorderPlans(t, c)
  PROVE  /\ op = Plan(op.family, op.code, op.mask)
         /\ op.mask \in Masks8 /\ op.mask # {}
         /\ \/ op.family = "NE" /\ op.code \in Over(CodeOf(t[c]))
               /\ op.mask \in Decomposition(MaskOf(t, c, {op.code}))
               /\ op.mask \subseteq MaskOf(t, c, {op.code})
            \/ op.family = "WA" /\ op.code = "WA" /\ CodeOf(t[c]) = "WA"
               /\ op.mask \in Decomposition(DryMask(t, c))
               /\ op.mask \subseteq DryMask(t, c)
<1>1. CASE op \in Overlaid(t, c)
  <2>1. PICK land \in Over(CodeOf(t[c])) : op \in PartsOf("NE", land, MaskOf(t, c, {land}))
    BY <1>1 DEF Overlaid
  <2>2. PICK part \in Decomposition(MaskOf(t, c, {land})) : op = Plan("NE", land, part)
    BY <2>1 DEF PartsOf, Plan
  <2>3. op.family = "NE" /\ op.code = land /\ op.mask = part
    BY <2>2 DEF Plan
  <2>4. part \in SUBSET MaskOf(t, c, {land}) /\ part # {} /\ MaskOf(t, c, {land}) \in Masks8
    BY MaskFacts, DecompositionCovers
  <2> QED
    BY <2>2, <2>3, <2>4 DEF Masks8
<1>2. CASE op \notin Overlaid(t, c)
  <2>1. CodeOf(t[c]) = "WA" /\ op \in PartsOf("WA", "WA", DryMask(t, c))
    BY <1>2 DEF BorderPlans
  <2>2. PICK part \in Decomposition(DryMask(t, c)) : op = Plan("WA", "WA", part)
    BY <2>1 DEF PartsOf, Plan
  <2>3. op.family = "WA" /\ op.code = "WA" /\ op.mask = part
    BY <2>2 DEF Plan
  <2>4. part \in SUBSET DryMask(t, c) /\ part # {} /\ DryMask(t, c) \in Masks8
    BY MaskFacts, DecompositionCovers DEF DryMask
  <2> QED
    BY <2>1, <2>2, <2>3, <2>4 DEF Masks8
<1> QED
  BY <1>1, <1>2

LEMMA PlansExist ==
  ASSUME NEW t, NEW c
  PROVE  /\ \A code \in Over(CodeOf(t[c])) : \A part \in Decomposition(MaskOf(t, c, {code})) :
              Plan("NE", code, part) \in BorderPlans(t, c)
         /\ CodeOf(t[c]) = "WA" => \A part \in Decomposition(DryMask(t, c)) :
              Plan("WA", "WA", part) \in BorderPlans(t, c)
<1>1. ASSUME NEW code \in Over(CodeOf(t[c])), NEW part \in Decomposition(MaskOf(t, c, {code}))
      PROVE  Plan("NE", code, part) \in BorderPlans(t, c)
  <2>1. Plan("NE", code, part) \in PartsOf("NE", code, MaskOf(t, c, {code}))
    BY DEF PartsOf, Plan
  <2> QED
    BY <2>1 DEF BorderPlans, Overlaid
<1>2. ASSUME CodeOf(t[c]) = "WA", NEW part \in Decomposition(DryMask(t, c))
      PROVE  Plan("WA", "WA", part) \in BorderPlans(t, c)
  <2>1. Plan("WA", "WA", part) \in PartsOf("WA", "WA", DryMask(t, c))
    BY DEF PartsOf, Plan
  <2> QED
    BY <1>2, <2>1 DEF BorderPlans
<1> QED
  BY <1>1, <1>2

(* An interior cell, which is not looked at, has none to paint             *)
(* (collect_operations, adventure_terrain_surface.cpp:813-843).            *)
LEMMA InteriorHasNoBorders ==
  ASSUME NEW t, NEW c
  PROVE  BorderOperations(t, c) = BorderPlans(t, c)
<1>1. ASSUME Interior(t, c), NEW op \in BorderPlans(t, c) PROVE FALSE
  <2>1. PICK d \in op.mask : d \in 1 .. 8
    BY PlanFacts DEF Masks8
  <2>2. CodeOf(t[Neighbour(c, d)]) = CodeOf(t[c])
    BY <1>1, <2>1, CodeFacts DEF Interior
  <2>3. CASE op.family = "NE"
    <3>1. op.code \in Over(CodeOf(t[c])) /\ d \in MaskOf(t, c, {op.code})
      BY <2>1, <2>3, PlanFacts
    <3>2. CodeOf(t[Neighbour(c, d)]) = op.code
      BY <2>1, <3>1, MaskFacts
    <3> QED
      BY <2>2, <3>1, <3>2, CodeFacts, OverFacts
  <2>4. CASE op.family = "WA"
    <3>1. CodeOf(t[c]) = "WA" /\ d \in DryMask(t, c)
      BY <2>1, <2>4, PlanFacts
    <3> QED
      BY <2>1, <2>2, <3>1, MaskFacts DEF DryMask
  <2> QED
    BY <2>3, <2>4, PlanFacts
<1> QED
  BY <1>1 DEF BorderOperations
-----------------------------------------------------------------------------
(* The plans of a cell are put in an order: there is a first one           *)
(* (describe_tile, adventure_terrain_surface.cpp:1279-1365).               *)
LEMMA FirstPlanIsFirst ==
  ASSUME NEW t, NEW c, NEW plans \in SUBSET BorderPlans(t, c), plans # {}
  PROVE  /\ FirstPlan(plans) \in plans
         /\ \A q \in plans \ {FirstPlan(plans)} : PlannedBefore(FirstPlan(plans), q)
<1> DEFINE Fam(p) == IF p.family = "NE" THEN 0 ELSE 1
           Rank(p) == DominanceRank(p.code)
           Size(p) == Cardinality(p.mask)
           Num(p) == Number(p.mask)
           Rung(p) == 9 * (7 * Fam(p) + (6 - Rank(p))) + (8 - Size(p))
           Place(p) == 256 * Rung(p) + Num(p)
<1>1. \A p \in plans : /\ Fam(p) \in {0, 1} /\ Rank(p) \in 0 .. 6 /\ Size(p) \in 0 .. 8 /\ Num(p) \in 0 .. 255
                       /\ p.family \in {"NE", "WA"} /\ (p.family = "NE" => p.code \in Lands) /\ (p.family = "WA" => p.code = "WA")
                       /\ p.mask \in Masks8 /\ p = Plan(p.family, p.code, p.mask)
  <2> SUFFICES ASSUME NEW p \in plans
               PROVE  /\ Fam(p) \in {0, 1} /\ Rank(p) \in 0 .. 6 /\ Size(p) \in 0 .. 8 /\ Num(p) \in 0 .. 255
                      /\ p.family \in {"NE", "WA"} /\ (p.family = "NE" => p.code \in Lands) /\ (p.family = "WA" => p.code = "WA")
                      /\ p.mask \in Masks8 /\ p = Plan(p.family, p.code, p.mask)
    OBVIOUS
  <2>1. /\ p.family \in {"NE", "WA"} /\ (p.family = "NE" => p.code \in Lands) /\ (p.family = "WA" => p.code = "WA")
        /\ p.mask \in Masks8 /\ p = Plan(p.family, p.code, p.mask)
    <3>1. \A raw : Over(CodeOf(raw)) \subseteq Lands
      BY CodeFacts, OverFacts
    <3> QED
      BY <3>1, PlanFacts
  <2>2. p.code \in Codes
    BY <2>1, CodeFacts DEF Codes
  <2> QED
    BY <2>1, <2>2, OverFacts, MaskIsSmall, NumberIsOne
<1>2. ASSUME NEW p \in plans, NEW q \in plans, p # q, Place(p) <= Place(q)
      PROVE  PlannedBefore(p, q)
  <2>0. /\ Fam(p) <= Fam(q)
        /\ Fam(p) = Fam(q) => Rank(p) >= Rank(q)
        /\ Fam(p) = Fam(q) /\ Rank(p) = Rank(q) => Size(p) >= Size(q)
        /\ Fam(p) = Fam(q) /\ Rank(p) = Rank(q) /\ Size(p) = Size(q) => Num(p) <= Num(q)
        /\ Rank(p) \in Int /\ Rank(q) \in Int /\ Size(p) \in Int /\ Size(q) \in Int
        /\ Num(p) \in Int /\ Num(q) \in Int
    <3>1. /\ Fam(p) \in {0, 1} /\ Rank(p) \in 0 .. 6 /\ Size(p) \in 0 .. 8 /\ Num(p) \in 0 .. 255
          /\ Fam(q) \in {0, 1} /\ Rank(q) \in 0 .. 6 /\ Size(q) \in 0 .. 8 /\ Num(q) \in 0 .. 255
      BY <1>1
    <3>2. Place(p) <= Place(q)
      BY <1>2
    <3> HIDE DEF Fam, Rank, Size, Num
    <3>3. Rung(p) \in Int /\ Rung(q) \in Int
      BY <3>1
    <3>4. Rung(p) <= Rung(q) /\ (Rung(p) = Rung(q) => Num(p) <= Num(q))
      <4> HIDE DEF Rung
      <4>1. PICK a \in Int, b \in Int, n \in 0 .. 255, m \in 0 .. 255 :
                   a = Rung(p) /\ b = Rung(q) /\ n = Num(p) /\ m = Num(q)
        BY <3>1, <3>3
      <4>2. 256 * a + n <= 256 * b + m
        BY <3>2, <4>1
      <4>3. a <= b /\ (a = b => n <= m)
        BY <4>2
      <4> QED
        BY <4>1, <4>3
    <3>5. /\ Fam(p) <= Fam(q)
          /\ Fam(p) = Fam(q) => Rank(p) >= Rank(q)
          /\ Fam(p) = Fam(q) /\ Rank(p) = Rank(q) => Size(p) >= Size(q)
      BY <3>1, <3>4
    <3>6. Fam(p) = Fam(q) /\ Rank(p) = Rank(q) /\ Size(p) = Size(q) => Rung(p) = Rung(q)
      OBVIOUS
    <3>7. Rank(p) \in Int /\ Rank(q) \in Int /\ Size(p) \in Int /\ Size(q) \in Int
          /\ Num(p) \in Int /\ Num(q) \in Int
      BY <3>1
    <3> HIDE DEF Rung
    <3> QED
      BY <3>4, <3>5, <3>6, <3>7
  <2>1. p.family = q.family /\ p.code = q.code => p.mask # q.mask
    BY <1>1, <1>2
  <2>2. p.family = q.family /\ p.code # q.code => Rank(p) # Rank(q)
    BY <1>1, OverFacts, CodeFacts
  <2>3. p.mask # q.mask => Num(p) # Num(q)
    BY <1>1, NumberIsOne
  <2>4. p.family # q.family => p.family = "NE"
    <3>1. p.family # q.family /\ p.family # "NE" => Fam(p) = 1 /\ Fam(q) = 0
      BY <1>1
    <3> HIDE DEF Fam, Rank, Size, Num
    <3> QED
      BY <2>0, <3>1
  <2>5. p.family = q.family /\ p.code # q.code => Rank(p) > Rank(q)
    <3>1. p.family = q.family => Fam(p) = Fam(q)
      OBVIOUS
    <3> HIDE DEF Fam, Rank, Size, Num
    <3> QED
      BY <2>0, <2>2, <3>1
  <2>6. p.family = q.family /\ p.code = q.code => \/ Size(p) > Size(q)
                                                  \/ Size(p) = Size(q) /\ Num(p) < Num(q)
    <3>1. p.family = q.family => Fam(p) = Fam(q)
      OBVIOUS
    <3>2. p.code = q.code => Rank(p) = Rank(q)
      OBVIOUS
    <3> HIDE DEF Fam, Rank, Size, Num
    <3> QED
      BY <2>0, <2>1, <2>3, <3>1, <3>2
  <2> QED
    BY <2>4, <2>5, <2>6 DEF PlannedBefore
<1>3. PICK p \in plans : \A q \in plans : Place(p) <= Place(q)
  <2> DEFINE P == {Place(q) : q \in plans}
  <2>1. \A q \in plans : Place(q) \in Nat
    <3>1. \A q \in plans : Fam(q) \in {0, 1} /\ Rank(q) \in 0 .. 6 /\ Size(q) \in 0 .. 8 /\ Num(q) \in 0 .. 255
      BY <1>1
    <3> HIDE DEF Fam, Rank, Size, Num
    <3>2. \A q \in plans : Rung(q) \in Nat
      BY <3>1
    <3> HIDE DEF Rung
    <3> QED
      BY <3>1, <3>2
  <2> HIDE DEF Place
  <2>2. P \in SUBSET Nat /\ P # {}
    BY <2>1
  <2>3. PICK n \in P : \A m \in P : n <= m
    <3> HIDE DEF P
    <3> QED
      BY <2>2, LeastExists
  <2> QED
    BY <2>3
<1>4. \E op \in plans : \A q \in plans \ {op} : PlannedBefore(op, q)
  <2> HIDE DEF Place
  <2> QED
    BY <1>2, <1>3
<1> QED
  BY <1>4 DEF FirstPlan

(* The other ground of a cell is one it meets.                             *)
LEMMA OtherIsMet ==
  ASSUME NEW t, NEW c, NEW d \in 1 .. 8, Neighbour(c, d) \in DOMAIN t,
         MaterialOf(t[Neighbour(c, d)]) # MaterialOf(t[c])
  PROVE  OtherMaterial(t, c) # MaterialOf(t[c]) /\ Towards(t, c, OtherMaterial(t, c)) # {}
<1> DEFINE place == <<5, 6, 7, 8, 4, 1, 2, 3>>
           First(m) == Min({place[e] : e \in Towards(t, c, m)})
           others == {m \in {MaterialOf(t[b]) : b \in DOMAIN t} \ {MaterialOf(t[c])} : Towards(t, c, m) # {}}
           Size(m) == Cardinality(Towards(t, c, m))
           Goes(m, n) == \/ Size(n) < Size(m)
                         \/ Size(n) = Size(m) /\ First(m) < First(n)
           Place(m) == 9 * (8 - Size(m)) + First(m)
<1>1. OtherMaterial(t, c) =
        IF others = {} THEN MaterialOf(t[c])
        ELSE IF "WA" \in others THEN "WA"
        ELSE CHOOSE m \in others : \A n \in others \ {m} : Goes(m, n)
  BY Zenon DEF OtherMaterial
<1>2. \A m : /\ Towards(t, c, m) \in Masks8 /\ Size(m) \in 0 .. 8
             /\ \A e \in Towards(t, c, m) : m = MaterialOf(t[Neighbour(c, e)])
  <2>1. \A m : Towards(t, c, m) \in Masks8 /\ \A e \in Towards(t, c, m) : m = MaterialOf(t[Neighbour(c, e)])
    BY DEF Towards, Masks8
  <2> QED
    BY <2>1, MaskIsSmall
<1>3. MaterialOf(t[Neighbour(c, d)]) \in others
  <2>1. d \in Towards(t, c, MaterialOf(t[Neighbour(c, d)]))
    BY DEF Towards
  <2> QED
    BY <2>1
<1>4. \A e, g \in 1 .. 8 : place[e] \in 1 .. 8 /\ (place[e] = place[g] => e = g)
  OBVIOUS
<1> HIDE DEF place
<1>5. ASSUME NEW m \in others PROVE First(m) \in 1 .. 8 /\ \E e \in Towards(t, c, m) : First(m) = place[e]
  <2> DEFINE P == {place[e] : e \in Towards(t, c, m)}
  <2>1. P \in SUBSET (1 .. 8) /\ P # {}
    BY <1>2, <1>4 DEF Masks8
  <2> HIDE DEF P
  <2>2. PICK n \in P : \A k \in P : n <= k
    BY <2>1, LeastExists
  <2>3. Min(P) \in P
    BY <2>2 DEF Min
  <2> QED
    BY <2>1, <2>3 DEF P
<1>6. ASSUME NEW m \in others, NEW n \in others, m # n, Place(m) <= Place(n) PROVE Goes(m, n)
  <2>1. First(m) # First(n)
    <3>1. PICK e \in Towards(t, c, m) : First(m) = place[e]
      BY <1>5
    <3>2. PICK g \in Towards(t, c, n) : First(n) = place[g]
      BY <1>5
    <3>3. e # g /\ e \in 1 .. 8 /\ g \in 1 .. 8
      BY <3>1, <3>2, <1>2, <1>6 DEF Masks8
    <3> HIDE DEF First
    <3> QED
      BY <3>1, <3>2, <3>3, <1>4
  <2>2. First(m) \in 1 .. 8 /\ First(n) \in 1 .. 8 /\ Size(m) \in 0 .. 8 /\ Size(n) \in 0 .. 8
    BY <1>2, <1>5
  <2> HIDE DEF First, Size
  <2> QED
    BY <2>1, <2>2, <1>6
<1>7. \E m \in others : \A n \in others \ {m} : Goes(m, n)
  <2> DEFINE P == {Place(m) : m \in others}
  <2>1. \A m \in others : Place(m) \in Nat
    <3>1. \A m \in others : First(m) \in 1 .. 8 /\ Size(m) \in 0 .. 8
      BY <1>2, <1>5
    <3> HIDE DEF First, Size, others
    <3> QED
      BY <3>1
  <2> HIDE DEF Place, Goes, others
  <2>2. P \in SUBSET Nat /\ P # {}
    BY <2>1, <1>3
  <2>3. PICK n \in P : \A k \in P : n <= k
    <3> HIDE DEF P
    <3> QED
      BY <2>2, LeastExists
  <2>4. PICK m \in others : \A n2 \in others : Place(m) <= Place(n2)
    BY <2>3
  <2> QED
    BY <2>4, <1>6
<1>8. OtherMaterial(t, c) \in others
  <2> HIDE DEF others, Goes
  <2> QED
    BY <1>1, <1>3, <1>7
<1> QED
  BY <1>8
-----------------------------------------------------------------------------
(* What is prepared, cell by cell: the parts of its shore, the grounds     *)
(* that lie over it, and the grounds that have a field                     *)
(* (build_ground_fields, build_sparse_commands).                           *)
ReadablePlans(t, assets, c, family) ==
  {op \in NamedPlans(t, assets, c) : op.family = family /\ ~ShapeIn(op, assets.unreadable)}
Users(t, assets, code) ==
  {c \in DOMAIN t : \/ CodeOf(t[c]) = code
                    \/ \E op \in NamedPlans(t, assets, c) : op.family = "NE" /\ op.code = code}

LEMMA PreparedFacts ==
  ASSUME NEW t, NEW assets
  PROVE  LET s == Prepared(t, assets)
         IN  /\ s.water = {c \in DOMAIN t : CodeOf(t[c]) = "WA"}
             /\ s.land = {c \in DOMAIN t : CodeOf(t[c]) \in Lands}
             /\ \A c \in DOMAIN t :
                  /\ \A m : m \in s.shores[c] <=> \E op \in ReadablePlans(t, assets, c, "WA") : m = op.mask
                  /\ \A code : code \in DOMAIN s.over[c]
                       <=> \E op \in NamedPlans(t, assets, c) : op.family = "NE" /\ op.code = code
                  /\ \A code \in DOMAIN s.over[c] : \A d :
                       d \in s.over[c][code]
                         <=> \E op \in ReadablePlans(t, assets, c, "NE") : op.code = code /\ d \in op.mask
             /\ \A code : HasGround(s, code) <=> code \in Codes \ assets.noGround /\ Users(t, assets, code) # {}
             /\ \A code : HasGround(s, code) => s.fields[code] = GroundField(Users(t, assets, code))
<1> DEFINE s == Prepared(t, assets)
           operations == Operations(t, assets)
<1>1. /\ s.fields = GroundFields(t, operations, assets)
      /\ s.water = {c \in DOMAIN t : CodeOf(t[c]) = "WA"}
      /\ s.land = {c \in DOMAIN t : CodeOf(t[c]) \in Lands}
      /\ s.shores = Shores(t, operations, assets)
      /\ s.over = Overlays(t, operations, assets)
  BY DEF Prepared
<1>2. \A c \in DOMAIN t : operations[c] = NamedPlans(t, assets, c)
  <2>1. \A c \in DOMAIN t : operations[c] = {op \in BorderOperations(t, c) : ~ShapeIn(op, assets.noShape)}
    BY DEF Operations
  <2>2. \A c : BorderOperations(t, c) = BorderPlans(t, c)
    BY InteriorHasNoBorders
  <2> QED
    BY <2>1, <2>2 DEF NamedPlans
<1> HIDE DEF operations, s
<1>3. \A c \in DOMAIN t : \A family : Readable(operations, assets, c, family) = ReadablePlans(t, assets, c, family)
  BY <1>2 DEF Readable, ReadablePlans
<1>4. ASSUME NEW c \in DOMAIN t, NEW m
      PROVE  m \in s.shores[c] <=> \E op \in ReadablePlans(t, assets, c, "WA") : m = op.mask
  BY <1>1, <1>3 DEF Shores
<1>5. ASSUME NEW c \in DOMAIN t
      PROVE  /\ \A code : code \in DOMAIN s.over[c]
                  <=> \E op \in NamedPlans(t, assets, c) : op.family = "NE" /\ op.code = code
             /\ \A code \in DOMAIN s.over[c] :
                  s.over[c][code] = UNION {op.mask : op \in {op \in ReadablePlans(t, assets, c, "NE") : op.code = code}}
  <2>1. s.over[c] = [code \in {op.code : op \in {op \in operations[c] : op.family = "NE"}} |->
           UNION {op.mask : op \in {op \in Readable(operations, assets, c, "NE") : op.code = code}}]
    BY <1>1 DEF Overlays
  <2>2. DOMAIN s.over[c] = {op.code : op \in {op \in NamedPlans(t, assets, c) : op.family = "NE"}}
    BY <1>2, <2>1
  <2>3. \A code \in DOMAIN s.over[c] :
          s.over[c][code] = UNION {op.mask : op \in {op \in Readable(operations, assets, c, "NE") : op.code = code}}
    BY <2>1
  <2> QED
    BY <2>2, <2>3, <1>3
<1>6. ASSUME NEW c \in DOMAIN t, NEW code \in DOMAIN s.over[c], NEW d
      PROVE  d \in s.over[c][code]
               <=> \E op \in ReadablePlans(t, assets, c, "NE") : op.code = code /\ d \in op.mask
  BY <1>5
<1>7. \A code : Users(t, assets, code) =
        {c \in DOMAIN t : \/ CodeOf(t[c]) = code
                          \/ \E op \in operations[c] : op.family = "NE" /\ op.code = code}
  BY <1>2 DEF Users
<1>8. s.fields = [code \in {code \in Codes \ assets.noGround : Users(t, assets, code) # {}} |->
                    GroundField(Users(t, assets, code))]
  <2> DEFINE Using(code) == {c \in DOMAIN t : \/ CodeOf(t[c]) = code
                                              \/ \E op \in operations[c] : op.family = "NE" /\ op.code = code}
  <2>1. s.fields = [code \in {code \in DOMAIN LowBytes \ assets.noGround : Using(code) # {}} |->
                      GroundField(Using(code))]
    BY <1>1, Zenon DEF GroundFields
  <2>2. \A code : Using(code) = Users(t, assets, code)
    BY <1>7
  <2> HIDE DEF Using
  <2> QED
    BY <2>1, <2>2, CodeFacts
<1>9. \A code : HasGround(s, code) <=> code \in Codes \ assets.noGround /\ Users(t, assets, code) # {}
  BY <1>8 DEF HasGround
<1>10. \A code : HasGround(s, code) => s.fields[code] = GroundField(Users(t, assets, code))
  BY <1>8 DEF HasGround
<1> QED
  BY <1>1, <1>4, <1>5, <1>6, <1>9, <1>10 DEF s

(* The passes go through the lands from the weakest to the strongest: the  *)
(* two tables agree.                                                       *)
LEMMA PassFacts ==
  /\ \A i \in 1 .. 6 : PassOrder[i] \in Lands /\ DominanceRank(PassOrder[i]) = i
  /\ \A code \in Lands : DominanceRank(code) \in 1 .. 6 /\ PassOrder[DominanceRank(code)] = code
<1>1. \A code \in Lands : DominanceRank(code) \in 1 .. 6 /\ MaterialIndex(code) = DominanceRank(code) + 1
  BY DEF Lands, DominanceRank, MaterialIndex
<1>2. \A i \in 1 .. 6 : \E code \in Lands : DominanceRank(code) = i
  BY DEF Lands, DominanceRank
<1>3. \A i \in 1 .. 6 : \E code \in Lands : MaterialIndex(code) = i + 1
  BY <1>1, <1>2
<1>4. \A i \in 1 .. 6 : PassOrder[i] \in Lands /\ MaterialIndex(PassOrder[i]) = i + 1
  BY <1>3 DEF PassOrder
<1>5. \A i \in 1 .. 6 : DominanceRank(PassOrder[i]) = i
  BY <1>1, <1>4
<1>6. \A a, b \in Lands : DominanceRank(a) = DominanceRank(b) => a = b
  BY CodeFacts, OverFacts
<1> QED
  BY <1>1, <1>4, <1>5, <1>6

(* A layer is laid on others, or not.                                      *)
LEMMA LaidOn ==
  ASSUME NEW S, NEW q \in Seq(S), NEW l \in S, NEW p \in BOOLEAN
  PROVE  LET r == q \o LayerIf(p, l)
         IN  /\ r \in Seq(S)
             /\ p => Len(r) = Len(q) + 1 /\ r[Len(q) + 1] = l
             /\ ~p => r = q
             /\ \A i \in 1 .. Len(q) : r[i] = q[i]
BY DEF LayerIf

(* The floor of a cell: its own ground, or what is under water.            *)
ShoreOf(s, c) == Layer("Shore", "WA", UNION s.shores[c])
Spilled == Layer("Spill", "WA", {})
FloorLayers(t, s, c) == {Base(t, c), ShoreOf(s, c), Spilled}

LEMMA FloorFacts ==
  ASSUME NEW t, NEW s, NEW c, s.water = {b \in DOMAIN t : CodeOf(t[b]) = "WA"},
         s.land = {b \in DOMAIN t : CodeOf(t[b]) \in Lands}, c \in DOMAIN t
  PROVE  LET F == Floor(t, s, c)
         IN  /\ F \in Seq(FloorLayers(t, s, c))
             /\ \A i \in 1 .. Len(F) : F[i] = Base(t, c) => HasGround(s, CodeOf(t[c]))
             /\ \A i \in 1 .. Len(F) : F[i] = ShoreOf(s, c) => CodeOf(t[c]) = "WA" /\ s.shores[c] # {}
             /\ CodeOf(t[c]) \in Lands /\ HasGround(s, CodeOf(t[c])) => F = <<Base(t, c)>>
             /\ CodeOf(t[c]) = "WA" /\ HasGround(s, "WA") => Len(F) >= 1 /\ F[1] = Base(t, c)
             /\ CodeOf(t[c]) = "WA" /\ s.shores[c] # {} => \E i \in 1 .. Len(F) : F[i] = ShoreOf(s, c)
<1> DEFINE own == CodeOf(t[c])
           S == FloorLayers(t, s, c)
           wet == c \in s.water /\ HasGround(s, "WA")
           shore == c \in s.water /\ s.shores[c] # {}
           spilt == \E b \in s.water \ {c} : Chebyshev(b, c) = 1 /\ s.shores[b] # {}
           F1 == LayerIf(wet, Base(t, c))
           F2 == F1 \o LayerIf(shore, ShoreOf(s, c))
           F3 == F2 \o LayerIf(spilt, Spilled)
<1>1. Wet(t, s, c) = F3
  BY DEF Wet, ShoreOf, Spilled
<1>2. (c \in s.water <=> own = "WA") /\ (c \in s.land <=> own \in Lands)
  OBVIOUS
<1>3. Floor(t, s, c) = IF own \in Lands /\ HasGround(s, own) THEN <<Base(t, c)>> ELSE F3
  BY <1>1, <1>2 DEF Floor
<1>4. Base(t, c) \in S /\ ShoreOf(s, c) \in S /\ Spilled \in S
  BY DEF FloorLayers
<1>5. Base(t, c).kind = "Base" /\ ShoreOf(s, c).kind = "Shore" /\ Spilled.kind = "Spill"
  BY DEF Base, ShoreOf, Spilled, Layer
<1>6. own = "WA" => own \notin Lands
  BY CodeFacts
<1>7. wet \in BOOLEAN /\ shore \in BOOLEAN /\ spilt \in BOOLEAN
  OBVIOUS
<1>8. (wet => own = "WA" /\ HasGround(s, own)) /\ (shore <=> own = "WA" /\ s.shores[c] # {})
      /\ (own = "WA" /\ HasGround(s, "WA") => wet)
  BY <1>2
<1>9. CASE own \in Lands /\ HasGround(s, own)
  <2>1. Floor(t, s, c) = <<Base(t, c)>>
    BY <1>3, <1>9
  <2> HIDE DEF own, S
  <2>2. <<Base(t, c)>> \in Seq(S) /\ Len(<<Base(t, c)>>) = 1 /\ <<Base(t, c)>>[1] = Base(t, c)
    BY <1>4
  <2>3. Base(t, c) # ShoreOf(s, c)
    BY <1>5
  <2>4. \A i \in 1 .. Len(Floor(t, s, c)) : Floor(t, s, c)[i] = Base(t, c)
    BY <2>1, <2>2
  <2> QED
    BY <2>1, <2>2, <2>3, <2>4, <1>6, <1>9 DEF own, S
<1>10. CASE ~(own \in Lands /\ HasGround(s, own))
  <2>1. Floor(t, s, c) = F3
    BY <1>3, <1>10
  <2> HIDE DEF own, S, wet, shore, spilt
  <2>2. /\ F1 \in Seq(S) /\ \A i \in 1 .. Len(F1) : wet /\ F1[i] = Base(t, c)
        /\ wet => Len(F1) = 1 /\ F1[1] = Base(t, c)
    BY <1>4, <1>7 DEF LayerIf
  <2> HIDE DEF F1
  <2>3. /\ F2 \in Seq(S)
        /\ shore => Len(F2) = Len(F1) + 1 /\ F2[Len(F1) + 1] = ShoreOf(s, c)
        /\ ~shore => F2 = F1
        /\ \A i \in 1 .. Len(F1) : F2[i] = F1[i]
    BY <2>2, <1>4, <1>7 DEF LayerIf
  <2> HIDE DEF F2
  <2>4. /\ F3 \in Seq(S)
        /\ spilt => Len(F3) = Len(F2) + 1 /\ F3[Len(F2) + 1] = Spilled
        /\ ~spilt => F3 = F2
        /\ \A i \in 1 .. Len(F2) : F3[i] = F2[i]
    BY <2>3, <1>4, <1>7 DEF LayerIf
  <2> HIDE DEF F3
  <2>5. Len(F1) \in Nat /\ Len(F2) \in Nat /\ Len(F3) \in Nat /\ Len(F1) <= Len(F2) /\ Len(F2) <= Len(F3)
    <3>1. Len(F1) \in Nat /\ Len(F2) \in Nat /\ Len(F3) \in Nat
      BY <2>2, <2>3, <2>4
    <3>2. (~shore => Len(F2) = Len(F1)) /\ (~spilt => Len(F3) = Len(F2))
      BY <2>3, <2>4
    <3> QED
      BY <3>1, <3>2, <2>3, <2>4
  <2>6. \A i \in 1 .. Len(F2) : \/ i \in 1 .. Len(F1)
                                \/ shore /\ F2[i] = ShoreOf(s, c)
    BY <2>3, <2>5
  <2>7. \A i \in 1 .. Len(F3) : \/ i \in 1 .. Len(F2)
                                \/ spilt /\ F3[i] = Spilled
    BY <2>4, <2>5
  <2>8. \A i \in 1 .. Len(F3) : /\ F3[i] = Base(t, c) => wet
                                /\ F3[i] = ShoreOf(s, c) => shore
    <3>1. Base(t, c) # ShoreOf(s, c) /\ Spilled # ShoreOf(s, c) /\ Spilled # Base(t, c)
      BY <1>5
    <3> QED
      BY <3>1, <2>2, <2>3, <2>4, <2>6, <2>7
  <2>9. wet => Len(F3) >= 1 /\ F3[1] = Base(t, c)
    <3>1. wet => 1 \in 1 .. Len(F1) /\ 1 \in 1 .. Len(F2)
      BY <2>2, <2>5
    <3>2. wet => F3[1] = F2[1] /\ F2[1] = F1[1]
      BY <3>1, <2>3, <2>4
    <3> QED
      BY <3>2, <2>2, <2>5
  <2>10. shore => \E i \in 1 .. Len(F3) : F3[i] = ShoreOf(s, c)
    <3>1. shore => Len(F1) + 1 \in 1 .. Len(F2) /\ Len(F1) + 1 \in 1 .. Len(F3)
      BY <2>3, <2>5
    <3> QED
      BY <3>1, <2>3, <2>4
  <2>11. own \in Lands /\ HasGround(s, own) => F3 = <<Base(t, c)>>
    BY <1>10
  <2> QED
    BY <2>1, <2>4, <2>8, <2>9, <2>10, <2>11, <1>8 DEF own, S
<1> QED
  BY <1>9, <1>10

(* The borders of a cell lie in the order of their passes.                 *)
Shown(s, c, code) == code \in DOMAIN s.over[c] /\ HasGround(s, code) /\ s.over[c][code] # {}
BorderOf(s, c, code) == Layer("Border", code, s.over[c][code])
BorderLayers(s, c) == {BorderOf(s, c, code) : code \in Lands}
LaidUpTo(s, c, q, n) ==
  /\ q \in Seq(BorderLayers(s, c))
  /\ \A i \in 1 .. Len(q) : \E k \in 1 .. n : Shown(s, c, PassOrder[k]) /\ q[i] = BorderOf(s, c, PassOrder[k])
  /\ \A k \in 1 .. n : Shown(s, c, PassOrder[k]) => \E i \in 1 .. Len(q) : q[i] = BorderOf(s, c, PassOrder[k])
  /\ \A i, j \in 1 .. Len(q) : i < j => DominanceRank(q[i].code) < DominanceRank(q[j].code)

LEMMA PassLaysOne ==
  ASSUME NEW s, NEW c, NEW n \in 1 .. 6, NEW q, LaidUpTo(s, c, q, n - 1)
  PROVE  LaidUpTo(s, c, q \o Pass(s, c, n), n)
<1> DEFINE code == PassOrder[n]
           l == BorderOf(s, c, code)
           p == Shown(s, c, code)
           r == q \o LayerIf(p, l)
           S == BorderLayers(s, c)
<1>1. Pass(s, c, n) = LayerIf(p, l)
  BY DEF Pass, Shown, BorderOf
<1>2. code \in Lands /\ DominanceRank(code) = n /\ \A k \in 1 .. 6 : DominanceRank(PassOrder[k]) = k
  BY PassFacts
<1>3. l \in S /\ p \in BOOLEAN /\ q \in Seq(S)
  BY <1>2 DEF BorderLayers, Shown, LaidUpTo
<1>4. l.code = code /\ \A other : BorderOf(s, c, other).code = other
  BY DEF BorderOf, Layer
<1> HIDE DEF S, l, p, code
<1>5. /\ r \in Seq(S)
      /\ p => Len(r) = Len(q) + 1 /\ r[Len(q) + 1] = l
      /\ ~p => r = q
      /\ \A i \in 1 .. Len(q) : r[i] = q[i]
  BY <1>3, LaidOn
<1> HIDE DEF r
<1>6. Len(q) \in Nat /\ Len(r) \in Nat /\ (~p => Len(r) = Len(q))
  BY <1>3, <1>5
<1>7. \A i \in 1 .. Len(q) : i \in 1 .. Len(r)
  BY <1>5, <1>6
<1>8. \A i \in 1 .. Len(r) : i \in 1 .. Len(q) \/ (p /\ i = Len(q) + 1 /\ r[i] = l)
  BY <1>5, <1>6
<1>9. \A k \in 1 .. n : k \in 1 .. n - 1 \/ k = n
  OBVIOUS
<1>10. \A k \in 1 .. n - 1 : k \in 1 .. n /\ k \in 1 .. 6 /\ k < n
  OBVIOUS
<1>11. \A i \in 1 .. Len(r) : \E k \in 1 .. n : Shown(s, c, PassOrder[k]) /\ r[i] = BorderOf(s, c, PassOrder[k])
  <2> SUFFICES ASSUME NEW i \in 1 .. Len(r)
               PROVE  \E k \in 1 .. n : Shown(s, c, PassOrder[k]) /\ r[i] = BorderOf(s, c, PassOrder[k])
    OBVIOUS
  <2>1. CASE i \in 1 .. Len(q)
    BY <2>1, <1>5, <1>10 DEF LaidUpTo
  <2>2. CASE p /\ r[i] = l
    <3>1. n \in 1 .. n
      OBVIOUS
    <3> QED
      BY <2>2, <3>1 DEF p, l, code
  <2> QED
    BY <2>1, <2>2, <1>8
<1>12. \A k \in 1 .. n : Shown(s, c, PassOrder[k]) => \E i \in 1 .. Len(r) : r[i] = BorderOf(s, c, PassOrder[k])
  <2> SUFFICES ASSUME NEW k \in 1 .. n, Shown(s, c, PassOrder[k])
               PROVE  \E i \in 1 .. Len(r) : r[i] = BorderOf(s, c, PassOrder[k])
    OBVIOUS
  <2>1. CASE k \in 1 .. n - 1
    BY <2>1, <1>5, <1>7 DEF LaidUpTo
  <2>2. CASE k = n
    <3>1. p /\ l = BorderOf(s, c, PassOrder[k])
      BY <2>2 DEF p, l, code
    <3>2. Len(q) + 1 \in 1 .. Len(r) /\ r[Len(q) + 1] = l
      BY <3>1, <1>5, <1>6
    <3> QED
      BY <3>1, <3>2
  <2> QED
    BY <2>1, <2>2, <1>9
<1>13. \A i, j \in 1 .. Len(r) : i < j => DominanceRank(r[i].code) < DominanceRank(r[j].code)
  <2> SUFFICES ASSUME NEW i \in 1 .. Len(r), NEW j \in 1 .. Len(r), i < j
               PROVE  DominanceRank(r[i].code) < DominanceRank(r[j].code)
    OBVIOUS
  <2>1. i \in 1 .. Len(q)
    BY <1>6, <1>8
  <2>2. CASE j \in 1 .. Len(q)
    BY <2>1, <2>2, <1>5 DEF LaidUpTo
  <2>3. CASE r[j] = l
    <3>1. PICK k \in 1 .. n - 1 : q[i] = BorderOf(s, c, PassOrder[k])
      BY <2>1 DEF LaidUpTo
    <3>2. r[i].code = PassOrder[k] /\ DominanceRank(PassOrder[k]) = k
      BY <2>1, <3>1, <1>2, <1>4, <1>5, <1>10
    <3>3. DominanceRank(r[j].code) = n
      BY <2>3, <1>2, <1>4
    <3> QED
      BY <3>2, <3>3, <1>10
  <2> QED
    BY <2>2, <2>3, <1>8
<1>14. r = q \o Pass(s, c, n)
  BY <1>1 DEF r
<1> QED
  BY <1>5, <1>11, <1>12, <1>13, <1>14 DEF LaidUpTo, S

LEMMA BordersAreLaid ==
  ASSUME NEW s, NEW c
  PROVE  LaidUpTo(s, c, Borders(s, c), 6)
<1>0. LaidUpTo(s, c, << >>, 0)
  BY DEF LaidUpTo
<1>1. LaidUpTo(s, c, Pass(s, c, 1), 1)
  <2>1. << >> \o Pass(s, c, 1) = Pass(s, c, 1)
    BY DEF Pass, LayerIf
  <2>2. 1 \in 1 .. 6 /\ 1 - 1 = 0
    OBVIOUS
  <2> QED
    BY <1>0, <2>1, <2>2, PassLaysOne
<1> DEFINE Q2 == Pass(s, c, 1) \o Pass(s, c, 2)
           Q3 == Q2 \o Pass(s, c, 3)
           Q4 == Q3 \o Pass(s, c, 4)
           Q5 == Q4 \o Pass(s, c, 5)
           Q6 == Q5 \o Pass(s, c, 6)
<1>2. /\ 2 \in 1 .. 6 /\ 2 - 1 = 1 /\ 3 \in 1 .. 6 /\ 3 - 1 = 2 /\ 4 \in 1 .. 6 /\ 4 - 1 = 3
      /\ 5 \in 1 .. 6 /\ 5 - 1 = 4 /\ 6 \in 1 .. 6 /\ 6 - 1 = 5
  OBVIOUS
<1>3. LaidUpTo(s, c, Q2, 2)
  BY <1>1, <1>2, PassLaysOne
<1> HIDE DEF Q2
<1>4. LaidUpTo(s, c, Q3, 3)
  BY <1>2, <1>3, PassLaysOne
<1> HIDE DEF Q3
<1>5. LaidUpTo(s, c, Q4, 4)
  BY <1>2, <1>4, PassLaysOne
<1> HIDE DEF Q4
<1>6. LaidUpTo(s, c, Q5, 5)
  BY <1>2, <1>5, PassLaysOne
<1> HIDE DEF Q5
<1>7. LaidUpTo(s, c, Q6, 6)
  BY <1>2, <1>6, PassLaysOne
<1>8. Borders(s, c) = Q6
  BY DEF Borders, Q2, Q3, Q4, Q5, Q6
<1> QED
  BY <1>7, <1>8

(* The layers of a painted cell: its floor, and on it its borders, the     *)
(* strongest last (render_prepared_full_map).                              *)
LEMMA LayersAre ==
  ASSUME NEW t, NEW s, NEW c \in DOMAIN t, s.water = {b \in DOMAIN t : CodeOf(t[b]) = "WA"},
         s.land = {b \in DOMAIN t : CodeOf(t[b]) \in Lands}
  PROVE  LET L == Painted(t, s)[c]
             own == CodeOf(t[c])
         IN  /\ Len(L) \in Nat /\ DOMAIN L = 1 .. Len(L)
             /\ \A i \in 1 .. Len(L) :
                  \/ L[i] = Base(t, c) /\ HasGround(s, own)
                  \/ L[i] = ShoreOf(s, c) /\ own = "WA" /\ s.shores[c] # {}
                  \/ L[i] = Spilled /\ ~(own \in Lands /\ HasGround(s, own))
                  \/ \E code \in Lands : Shown(s, c, code) /\ L[i] = BorderOf(s, c, code)
             /\ \A code \in Lands : Shown(s, c, code) => \E i \in 1 .. Len(L) : L[i] = BorderOf(s, c, code)
             /\ own = "WA" /\ s.shores[c] # {} => \E i \in 1 .. Len(L) : L[i] = ShoreOf(s, c)
             /\ own \in Lands \cup {"WA"} /\ HasGround(s, own) => Len(L) >= 1 /\ L[1] = Base(t, c)
             /\ \A i, j \in 1 .. Len(L) : i < j /\ L[i].kind = "Border" /\ L[j].kind = "Border" =>
                  DominanceRank(L[i].code) < DominanceRank(L[j].code)
             /\ \A code \in Lands : Shown(s, c, code) =>
                  Len(L) >= 1 /\ L[Len(L)].kind = "Border" /\ DominanceRank(code) <= DominanceRank(L[Len(L)].code)
<1> DEFINE L == Painted(t, s)[c]
           own == CodeOf(t[c])
           F == Floor(t, s, c)
           B == Borders(s, c)
           FL == FloorLayers(t, s, c)
           BL == BorderLayers(s, c)
<1>1. L = F \o B
  BY DEF Painted
<1>2. /\ F \in Seq(FL)
      /\ \A i \in 1 .. Len(F) : F[i] = Base(t, c) => HasGround(s, own)
      /\ \A i \in 1 .. Len(F) : F[i] = ShoreOf(s, c) => own = "WA" /\ s.shores[c] # {}
      /\ own \in Lands /\ HasGround(s, own) => F = <<Base(t, c)>>
      /\ own = "WA" /\ HasGround(s, "WA") => Len(F) >= 1 /\ F[1] = Base(t, c)
      /\ own = "WA" /\ s.shores[c] # {} => \E i \in 1 .. Len(F) : F[i] = ShoreOf(s, c)
  BY FloorFacts
<1>3. LaidUpTo(s, c, B, 6)
  BY BordersAreLaid
<1>4. /\ \A x \in FL : x \in {Base(t, c), ShoreOf(s, c), Spilled} /\ x.kind # "Border"
      /\ \A code : BorderOf(s, c, code).kind = "Border" /\ BorderOf(s, c, code).code = code
      /\ Base(t, c) # Spilled
  BY DEF FloorLayers, Base, ShoreOf, Spilled, BorderOf, Layer
<1> HIDE DEF L, own, F, B, FL, BL
<1>5. /\ B \in Seq(BL)
      /\ \A i \in 1 .. Len(B) : \E k \in 1 .. 6 : Shown(s, c, PassOrder[k]) /\ B[i] = BorderOf(s, c, PassOrder[k])
      /\ \A k \in 1 .. 6 : Shown(s, c, PassOrder[k]) => \E i \in 1 .. Len(B) : B[i] = BorderOf(s, c, PassOrder[k])
      /\ \A i, j \in 1 .. Len(B) : i < j => DominanceRank(B[i].code) < DominanceRank(B[j].code)
  BY <1>3 DEF LaidUpTo, BL
<1>6. /\ Len(F) \in Nat /\ Len(B) \in Nat /\ Len(L) = Len(F) + Len(B) /\ DOMAIN L = 1 .. Len(L)
      /\ \A i \in 1 .. Len(F) : L[i] = F[i] /\ i \in 1 .. Len(L) /\ F[i] \in FL
      /\ \A i \in 1 .. Len(B) : L[Len(F) + i] = B[i] /\ Len(F) + i \in 1 .. Len(L)
  BY <1>1, <1>2, <1>5
<1>7. \A i \in 1 .. Len(L) : \/ i \in 1 .. Len(F) /\ L[i] = F[i]
                             \/ i - Len(F) \in 1 .. Len(B) /\ L[i] = B[i - Len(F)]
  <2> SUFFICES ASSUME NEW i \in 1 .. Len(L), i \notin 1 .. Len(F)
               PROVE  i - Len(F) \in 1 .. Len(B) /\ L[i] = B[i - Len(F)]
    BY <1>6
  <2>1. i - Len(F) \in 1 .. Len(B) /\ Len(F) + (i - Len(F)) = i
    BY <1>6
  <2> QED
    BY <2>1, <1>6
<1>8. \A i \in 1 .. Len(B) : \E code \in Lands : Shown(s, c, code) /\ B[i] = BorderOf(s, c, code)
  BY <1>5, PassFacts
<1>9. ASSUME NEW i \in 1 .. Len(L)
      PROVE  \/ L[i] = Base(t, c) /\ HasGround(s, own)
             \/ L[i] = ShoreOf(s, c) /\ own = "WA" /\ s.shores[c] # {}
             \/ L[i] = Spilled /\ ~(own \in Lands /\ HasGround(s, own))
             \/ \E code \in Lands : Shown(s, c, code) /\ L[i] = BorderOf(s, c, code)
  <2>1. CASE i \in 1 .. Len(F) /\ L[i] = F[i]
    <3>1. F[i] \in {Base(t, c), ShoreOf(s, c), Spilled}
      BY <2>1, <1>4, <1>6
    <3>2. own \in Lands /\ HasGround(s, own) => F[i] = Base(t, c)
      <4>1. \A x : Len(<<x>>) = 1 /\ <<x>>[1] = x
        OBVIOUS
      <4>2. F = <<Base(t, c)>> => i = 1
        BY <2>1, <4>1
      <4> QED
        BY <4>1, <4>2, <1>2
    <3> QED
      BY <2>1, <3>1, <3>2, <1>2, <1>4
  <2>2. CASE i - Len(F) \in 1 .. Len(B) /\ L[i] = B[i - Len(F)]
    BY <2>2, <1>8
  <2> QED
    BY <2>1, <2>2, <1>7
<1>10. ASSUME NEW code \in Lands, Shown(s, c, code)
       PROVE  \E i \in 1 .. Len(B) : B[i] = BorderOf(s, c, code)
  BY <1>5, <1>10, PassFacts
<1>11. \A code \in Lands : Shown(s, c, code) => \E i \in 1 .. Len(L) : L[i] = BorderOf(s, c, code)
  BY <1>6, <1>10
<1>12. own = "WA" /\ s.shores[c] # {} => \E i \in 1 .. Len(L) : L[i] = ShoreOf(s, c)
  BY <1>2, <1>6
<1>13. ASSUME own \in Lands \cup {"WA"}, HasGround(s, own) PROVE Len(L) >= 1 /\ L[1] = Base(t, c)
  <2>1. Len(F) >= 1 /\ F[1] = Base(t, c)
    <3>1. Len(<<Base(t, c)>>) = 1 /\ <<Base(t, c)>>[1] = Base(t, c)
      OBVIOUS
    <3> QED
      BY <3>1, <1>2, <1>13
  <2> QED
    BY <2>1, <1>6
<1>14. ASSUME NEW i \in 1 .. Len(L), L[i].kind = "Border"
       PROVE  i - Len(F) \in 1 .. Len(B) /\ L[i] = B[i - Len(F)]
  BY <1>14, <1>4, <1>6, <1>7
<1>15. ASSUME NEW i \in 1 .. Len(L), NEW j \in 1 .. Len(L), i < j, L[i].kind = "Border", L[j].kind = "Border"
       PROVE  DominanceRank(L[i].code) < DominanceRank(L[j].code)
  <2>1. i - Len(F) < j - Len(F)
    BY <1>6, <1>15
  <2> QED
    BY <2>1, <1>5, <1>14, <1>15
<1>16. ASSUME NEW code \in Lands, Shown(s, c, code)
       PROVE  Len(L) >= 1 /\ L[Len(L)].kind = "Border" /\ DominanceRank(code) <= DominanceRank(L[Len(L)].code)
  <2>1. PICK i \in 1 .. Len(B) : B[i] = BorderOf(s, c, code)
    BY <1>10, <1>16
  <2>2. Len(B) \in 1 .. Len(B) /\ Len(L) >= 1 /\ L[Len(L)] = B[Len(B)]
    BY <2>1, <1>6
  <2>3. PICK last \in Lands : B[Len(B)] = BorderOf(s, c, last)
    BY <2>2, <1>8
  <2>4. L[Len(L)].kind = "Border" /\ L[Len(L)].code = last /\ B[i].code = code
    BY <2>1, <2>2, <2>3, <1>4
  <2>5. DominanceRank(code) \in Int /\ DominanceRank(last) \in Int
    BY PassFacts
  <2>6. CASE i = Len(B)
    BY <2>1, <2>2, <2>4, <2>5, <2>6
  <2>7. CASE i < Len(B)
    BY <2>1, <2>2, <2>4, <2>5, <2>7, <1>5
  <2> QED
    BY <2>1, <2>2, <2>6, <2>7, <1>6
<1>17. Len(L) \in Nat
  BY <1>6
<1> QED
  BY <1>6, <1>9, <1>11, <1>12, <1>13, <1>15, <1>16, <1>17 DEF L, own
-----------------------------------------------------------------------------
(* Every cell of a ground lies on patches of its field, wherever the map   *)
(* begins (build_ground_fields, adventure_terrain_surface.cpp:662-760).    *)
LEMMA FloorDivKeepsOrder ==
  ASSUME NEW w \in Nat \ {0}, NEW a \in Int, NEW b \in Int, a <= b
  PROVE  FloorDiv(a, w) \in Int /\ FloorDiv(b, w) \in Int /\ FloorDiv(a, w) <= FloorDiv(b, w)
<1>1. \A n \in Int : n \div w \in Int
  OBVIOUS
<1>2. ASSUME NEW m \in Nat, NEW n \in Nat, m <= n PROVE m \div w <= n \div w
  BY <1>2
<1>3. \A n \in Nat : n \div w >= 0
  OBVIOUS
<1>4. CASE a >= 0
  BY <1>1, <1>2, <1>4 DEF FloorDiv
<1>5. CASE b < 0
  <2>1. w - 1 - a \in Nat /\ w - 1 - b \in Nat /\ w - 1 - b <= w - 1 - a
    BY <1>5
  <2>2. FloorDiv(a, w) = -((w - 1 - a) \div w) /\ FloorDiv(b, w) = -((w - 1 - b) \div w)
    BY <1>5 DEF FloorDiv
  <2>3. (w - 1 - b) \div w <= (w - 1 - a) \div w
    BY <1>2, <2>1
  <2>4. (w - 1 - b) \div w \in Int /\ (w - 1 - a) \div w \in Int
    BY <1>1, <2>1
  <2> QED
    BY <2>2, <2>3, <2>4
<1>6. CASE a < 0 /\ b >= 0
  <2>1. w - 1 - a \in Nat
    BY <1>6
  <2>2. FloorDiv(a, w) = -((w - 1 - a) \div w) /\ FloorDiv(b, w) = b \div w
    BY <1>6 DEF FloorDiv
  <2>3. (w - 1 - a) \div w >= 0 /\ b \div w >= 0 /\ (w - 1 - a) \div w \in Int /\ b \div w \in Int
    BY <1>1, <1>3, <1>6, <2>1
  <2> QED
    BY <2>2, <2>3
<1> QED
  BY <1>4, <1>5, <1>6

LEMMA EndsExist ==
  ASSUME NEW n \in Nat, NEW S \in SUBSET (-n .. n), S # {}
  PROVE  /\ Min(S) \in S /\ Max(S) \in S
         /\ \A x \in S : Min(S) <= x /\ x <= Max(S)
<1> DEFINE T == {x + n : x \in S}
<1>1. T \in SUBSET (0 .. 2 * n) /\ T # {} /\ 2 * n \in Nat
  OBVIOUS
<1>2. (\A x \in S : x + n \in T) /\ \A y \in T : y - n \in S /\ y \in Int
  OBVIOUS
<1> HIDE DEF T
<1>3. PICK l \in T : \A y \in T : l <= y
  BY <1>1, LeastExists
<1>4. PICK g \in T : \A y \in T : y <= g
  BY <1>1, GreatestExists
<1>5. l - n \in S /\ \A x \in S : l - n <= x
  BY <1>2, <1>3
<1>6. g - n \in S /\ \A x \in S : x <= g - n
  BY <1>2, <1>4
<1>7. \E x \in S : \A y \in S : x <= y
  BY <1>5
<1>8. \E x \in S : \A y \in S : x >= y
  BY <1>6
<1> QED
  BY <1>7, <1>8 DEF Min, Max

LEMMA FieldReaches ==
  ASSUME NEW users \in SUBSET Cells, NEW c \in users, NEW x \in 0 .. Box - 1, NEW y \in 0 .. Box - 1
  PROVE  PatchOf(<<Project(c)[1] + x, Project(c)[2] + y>>) \in GroundField(users)
<1> DEFINE xs == {Project(b)[1] : b \in users}
           ys == {Project(b)[2] : b \in users}
           first == PatchOf(<<Min(xs), Min(ys)>>)
           last == PatchOf(<<Max(xs) + Box - 1, Max(ys) + Box - 1>>)
           here == PatchOf(<<Project(c)[1] + x, Project(c)[2] + y>>)
           n == 2 * (Width + Height)
<1>1. GroundField(users) = (first[1] .. last[1]) \X (first[2] .. last[2])
  BY DEF GroundField
<1>2. Box = 4 /\ x \in 0 .. 3 /\ y \in 0 .. 3
  BY DEF Box
<1>3. \A b \in users : Project(b)[1] \in -n .. n /\ Project(b)[2] \in -n .. n
  BY CellFacts, MapAssumption DEF Project, Box
<1>4. n \in Nat
  BY MapAssumption
<1>5. /\ Project(c)[1] \in Int /\ Min(xs) \in Int /\ Max(xs) \in Int
      /\ Min(xs) <= Project(c)[1] /\ Project(c)[1] <= Max(xs)
  <2>1. xs \in SUBSET (-n .. n) /\ Project(c)[1] \in xs
    BY <1>3
  <2> HIDE DEF xs, n
  <2>2. /\ Min(xs) \in xs /\ Max(xs) \in xs
        /\ \A z \in xs : Min(xs) <= z /\ z <= Max(xs)
    BY <1>4, <2>1, EndsExist
  <2>3. \A z \in -n .. n : z \in Int
    BY <1>4
  <2>4. \A z \in xs : z \in Int
    BY <2>1, <2>3
  <2> QED
    BY <2>1, <2>2, <2>4
<1>6. /\ Project(c)[2] \in Int /\ Min(ys) \in Int /\ Max(ys) \in Int
      /\ Min(ys) <= Project(c)[2] /\ Project(c)[2] <= Max(ys)
  <2>1. ys \in SUBSET (-n .. n) /\ Project(c)[2] \in ys
    BY <1>3
  <2> HIDE DEF ys, n
  <2>2. /\ Min(ys) \in ys /\ Max(ys) \in ys
        /\ \A z \in ys : Min(ys) <= z /\ z <= Max(ys)
    BY <1>4, <2>1, EndsExist
  <2>3. \A z \in -n .. n : z \in Int
    BY <1>4
  <2>4. \A z \in ys : z \in Int
    BY <2>1, <2>3
  <2> QED
    BY <2>1, <2>2, <2>4
<1> HIDE DEF xs, ys
<1>7. /\ first = <<FloorDiv(Min(xs), PatchWidth), FloorDiv(Min(ys), PatchHeight)>>
      /\ last = <<FloorDiv(Max(xs) + Box - 1, PatchWidth), FloorDiv(Max(ys) + Box - 1, PatchHeight)>>
      /\ here = <<FloorDiv(Project(c)[1] + x, PatchWidth), FloorDiv(Project(c)[2] + y, PatchHeight)>>
  BY DEF PatchOf
<1>8. /\ Project(c)[1] + x \in Int /\ Min(xs) <= Project(c)[1] + x
      /\ Max(xs) + Box - 1 \in Int /\ Project(c)[1] + x <= Max(xs) + Box - 1
      /\ Project(c)[2] + y \in Int /\ Min(ys) <= Project(c)[2] + y
      /\ Max(ys) + Box - 1 \in Int /\ Project(c)[2] + y <= Max(ys) + Box - 1
  BY <1>2, <1>5, <1>6
<1> HIDE DEF first, last, here
<1>9. /\ first[1] \in Int /\ last[1] \in Int /\ here[1] \in Int /\ first[1] <= here[1] /\ here[1] <= last[1]
      /\ first[2] \in Int /\ last[2] \in Int /\ here[2] \in Int /\ first[2] <= here[2] /\ here[2] <= last[2]
  <2>1. \A w \in Nat \ {0}, a \in Int, b \in Int : a <= b =>
          FloorDiv(a, w) \in Int /\ FloorDiv(b, w) \in Int /\ FloorDiv(a, w) <= FloorDiv(b, w)
    BY FloorDivKeepsOrder
  <2>2. /\ first[1] = FloorDiv(Min(xs), PatchWidth) /\ first[2] = FloorDiv(Min(ys), PatchHeight)
        /\ last[1] = FloorDiv(Max(xs) + Box - 1, PatchWidth) /\ last[2] = FloorDiv(Max(ys) + Box - 1, PatchHeight)
        /\ here[1] = FloorDiv(Project(c)[1] + x, PatchWidth) /\ here[2] = FloorDiv(Project(c)[2] + y, PatchHeight)
    BY <1>7
  <2> QED
    BY <1>5, <1>6, <1>8, <2>1, <2>2, PatchAssumption
<1>10. here = <<here[1], here[2]>>
  BY <1>7
<1>11. here \in (first[1] .. last[1]) \X (first[2] .. last[2])
  BY <1>9, <1>10
<1> QED
  BY <1>1, <1>11 DEF here
-----------------------------------------------------------------------------
LEMMA OppositeFacts ==
  ASSUME NEW d \in 1 .. 8
  PROVE  /\ Opposite(d) \in 1 .. 8
         /\ d \in Diagonals <=> Opposite(d) \in Diagonals
         /\ \A c \in Int \X Int : Neighbour(Neighbour(c, d), Opposite(d)) = c
<1> DEFINE Back(e) == Directions[e] = <<-Directions[d][1], -Directions[d][2]>>
<1>1. Directions = << <<-1, -1>>, <<1, -1>>, <<1, 1>>, <<-1, 1>>, <<-1, 0>>, <<0, -1>>, <<1, 0>>, <<0, 1>> >>
  BY DEF Directions
<1>2. \E e \in 1 .. 8 : Back(e) /\ (d \in 5 .. 8 <=> e \in 5 .. 8)
  <2>1. CASE d = 1
    <3>1. Back(3)
      BY <1>1, <2>1
    <3> HIDE DEF Back
    <3> QED
      BY <2>1, <3>1
  <2>2. CASE d = 2
    <3>1. Back(4)
      BY <1>1, <2>2
    <3> HIDE DEF Back
    <3> QED
      BY <2>2, <3>1
  <2>3. CASE d = 3
    <3>1. Back(1)
      BY <1>1, <2>3
    <3> HIDE DEF Back
    <3> QED
      BY <2>3, <3>1
  <2>4. CASE d = 4
    <3>1. Back(2)
      BY <1>1, <2>4
    <3> HIDE DEF Back
    <3> QED
      BY <2>4, <3>1
  <2>5. CASE d = 5
    <3>1. Back(7)
      BY <1>1, <2>5
    <3> HIDE DEF Back
    <3> QED
      BY <2>5, <3>1
  <2>6. CASE d = 6
    <3>1. Back(8)
      BY <1>1, <2>6
    <3> HIDE DEF Back
    <3> QED
      BY <2>6, <3>1
  <2>7. CASE d = 7
    <3>1. Back(5)
      BY <1>1, <2>7
    <3> HIDE DEF Back
    <3> QED
      BY <2>7, <3>1
  <2>8. CASE d = 8
    <3>1. Back(6)
      BY <1>1, <2>8
    <3> HIDE DEF Back
    <3> QED
      BY <2>8, <3>1
  <2> QED
    BY <2>1, <2>2, <2>3, <2>4, <2>5, <2>6, <2>7, <2>8
<1>3. \A e \in 1 .. 8 : Directions[e] \in Int \X Int
  BY <1>1
<1>4. \A e, f \in 1 .. 8 : Directions[e] = Directions[f] => e = f
  BY <1>1
<1>5. Opposite(d) \in 1 .. 8 /\ Back(Opposite(d))
  BY <1>2 DEF Opposite
<1>6. d \in 5 .. 8 <=> Opposite(d) \in 5 .. 8
  BY <1>2, <1>4, <1>5
<1> HIDE DEF Back
<1>7. ASSUME NEW c \in Int \X Int PROVE Neighbour(Neighbour(c, d), Opposite(d)) = c
  <2>1. /\ Directions[d][1] \in Int /\ Directions[d][2] \in Int
        /\ Directions[Opposite(d)][1] = -Directions[d][1] /\ Directions[Opposite(d)][2] = -Directions[d][2]
    BY <1>3, <1>5 DEF Back
  <2>2. Neighbour(c, d) = <<c[1] + Directions[d][1], c[2] + Directions[d][2]>>
    BY DEF Neighbour
  <2>3. Neighbour(Neighbour(c, d), Opposite(d)) =
          <<(c[1] + Directions[d][1]) + Directions[Opposite(d)][1], (c[2] + Directions[d][2]) + Directions[Opposite(d)][2]>>
    BY <2>2 DEF Neighbour
  <2>4. c[1] \in Int /\ c[2] \in Int /\ c = <<c[1], c[2]>>
    OBVIOUS
  <2> QED
    BY <2>1, <2>3, <2>4
<1> QED
  BY <1>5, <1>6, <1>7 DEF Diagonals

(* A border that is seen is the part of its mask that is laid there; only  *)
(* water has shores.                                                       *)
HasBorder(L, kind, code, d) ==
  \E i \in DOMAIN L : L[i].kind = kind /\ L[i].code = code /\ d \in L[i].mask

LEMMA BordersSeen ==
  ASSUME NEW t, NEW assets, NEW c \in DOMAIN t, NEW code, NEW d
  PROVE  LET s == Prepared(t, assets)
             L == Painted(t, s)[c]
         IN  /\ HasBorder(L, "Border", code, d) <=> code \in Lands /\ Shown(s, c, code) /\ d \in s.over[c][code]
             /\ HasBorder(L, "Shore", code, d)
                  <=> code = "WA" /\ CodeOf(t[c]) = "WA" /\ \E m \in s.shores[c] : d \in m
<1> DEFINE s == Prepared(t, assets)
           L == Painted(t, s)[c]
           own == CodeOf(t[c])
<1>1. s.water = {b \in DOMAIN t : CodeOf(t[b]) = "WA"} /\ s.land = {b \in DOMAIN t : CodeOf(t[b]) \in Lands}
  BY PreparedFacts
<1> HIDE DEF s
<1>2. /\ DOMAIN L = 1 .. Len(L)
      /\ \A i \in 1 .. Len(L) :
            \/ L[i] = Base(t, c)
            \/ L[i] = ShoreOf(s, c) /\ own = "WA"
            \/ L[i] = Spilled
            \/ \E other \in Lands : Shown(s, c, other) /\ L[i] = BorderOf(s, c, other)
      /\ \A other \in Lands : Shown(s, c, other) => \E i \in 1 .. Len(L) : L[i] = BorderOf(s, c, other)
      /\ own = "WA" /\ s.shores[c] # {} => \E i \in 1 .. Len(L) : L[i] = ShoreOf(s, c)
  BY <1>1, LayersAre
<1>3. /\ Base(t, c).kind = "Base" /\ Spilled.kind = "Spill"
      /\ ShoreOf(s, c).kind = "Shore" /\ ShoreOf(s, c).code = "WA" /\ ShoreOf(s, c).mask = UNION s.shores[c]
      /\ \A other : /\ BorderOf(s, c, other).kind = "Border" /\ BorderOf(s, c, other).code = other
                    /\ BorderOf(s, c, other).mask = s.over[c][other]
  BY DEF Base, Spilled, ShoreOf, BorderOf, Layer
<1> HIDE DEF L, own
<1>4. HasBorder(L, "Border", code, d) => code \in Lands /\ Shown(s, c, code) /\ d \in s.over[c][code]
  BY <1>2, <1>3 DEF HasBorder
<1>5. code \in Lands /\ Shown(s, c, code) /\ d \in s.over[c][code] => HasBorder(L, "Border", code, d)
  BY <1>2, <1>3 DEF HasBorder
<1>6. HasBorder(L, "Shore", code, d) => code = "WA" /\ own = "WA" /\ \E m \in s.shores[c] : d \in m
  BY <1>2, <1>3 DEF HasBorder
<1>7. code = "WA" /\ own = "WA" /\ (\E m \in s.shores[c] : d \in m) => HasBorder(L, "Shore", code, d)
  BY <1>2, <1>3 DEF HasBorder
<1> QED
  BY <1>4, <1>5, <1>6, <1>7 DEF L, own, s

(* With every image there, the border of a stronger ground is seen on the  *)
(* parts of its mask, and nothing else is.                                 *)
LEMMA WholeBordersSeen ==
  ASSUME NEW t, NEW assets, Whole(assets), NEW c \in DOMAIN t, NEW code, NEW d
  PROVE  LET L == Painted(t, Prepared(t, assets))[c]
             own == CodeOf(t[c])
         IN  /\ HasBorder(L, "Border", code, d)
                  <=> code \in Over(own) /\ \E part \in Decomposition(MaskOf(t, c, {code})) : d \in part
             /\ HasBorder(L, "Shore", code, d)
                  <=> code = "WA" /\ own = "WA" /\ \E part \in Decomposition(DryMask(t, c)) : d \in part
<1> DEFINE s == Prepared(t, assets)
           L == Painted(t, s)[c]
           own == CodeOf(t[c])
<1>1. \A op : ~ShapeIn(op, assets.noShape) /\ ~ShapeIn(op, assets.unreadable)
  BY DEF Whole, ShapeIn
<1>2. NamedPlans(t, assets, c) = BorderPlans(t, c)
  BY <1>1 DEF NamedPlans
<1>3. \A family : ReadablePlans(t, assets, c, family) = {op \in BorderPlans(t, c) : op.family = family}
  BY <1>1, <1>2 DEF ReadablePlans
<1>4. /\ \A m : m \in s.shores[c] <=> \E op \in BorderPlans(t, c) : op.family = "WA" /\ m = op.mask
      /\ \A x : x \in DOMAIN s.over[c] <=> \E op \in BorderPlans(t, c) : op.family = "NE" /\ op.code = x
      /\ \A x \in DOMAIN s.over[c] : \A e :
           e \in s.over[c][x] <=> \E op \in BorderPlans(t, c) : op.family = "NE" /\ op.code = x /\ e \in op.mask
      /\ \A x : HasGround(s, x) <=> x \in Codes \ assets.noGround /\ Users(t, assets, x) # {}
  BY <1>2, <1>3, PreparedFacts
<1> HIDE DEF s
<1>5. ASSUME NEW op \in BorderPlans(t, c), op.family = "NE" PROVE HasGround(s, op.code) /\ op.code \in Over(own)
  <2>1. op.code \in Over(own) /\ op.code \in Codes
    <3>1. op.code \in Over(own)
      BY <1>5, PlanFacts
    <3>2. \A raw : Over(CodeOf(raw)) \subseteq Codes
      BY CodeFacts, OverFacts
    <3> QED
      BY <3>1, <3>2
  <2>2. c \in Users(t, assets, op.code)
    BY <1>2, <1>5 DEF Users
  <2> QED
    BY <1>4, <2>1, <2>2 DEF Whole
<1>6. Over(own) \subseteq Lands
  BY CodeFacts, OverFacts
<1>7. \A x \in Over(own) : \A part \in Decomposition(MaskOf(t, c, {x})) :
        \E op \in BorderPlans(t, c) : op.family = "NE" /\ op.code = x /\ op.mask = part
  <2>1. \A x, part : Plan("NE", x, part).family = "NE" /\ Plan("NE", x, part).code = x /\ Plan("NE", x, part).mask = part
    BY DEF Plan
  <2> QED
    BY <2>1, PlansExist
<1>8. \A part \in Decomposition(DryMask(t, c)) : own = "WA" =>
        \E op \in BorderPlans(t, c) : op.family = "WA" /\ op.mask = part
  <2>1. \A part : Plan("WA", "WA", part).family = "WA" /\ Plan("WA", "WA", part).mask = part
    BY DEF Plan
  <2> QED
    BY <2>1, PlansExist
<1>9. \A op \in BorderPlans(t, c) : /\ op.family = "NE" => op.mask \in Decomposition(MaskOf(t, c, {op.code})) /\ op.mask # {}
                                    /\ op.family = "WA" => op.mask \in Decomposition(DryMask(t, c)) /\ own = "WA"
  BY PlanFacts
<1>10. code \in Lands /\ Shown(s, c, code) /\ d \in s.over[c][code]
         <=> code \in Over(own) /\ \E part \in Decomposition(MaskOf(t, c, {code})) : d \in part
  <2>1. ASSUME Shown(s, c, code), d \in s.over[c][code]
        PROVE  code \in Over(own) /\ \E part \in Decomposition(MaskOf(t, c, {code})) : d \in part
    <3>1. PICK op \in BorderPlans(t, c) : op.family = "NE" /\ op.code = code /\ d \in op.mask
      BY <1>4, <2>1 DEF Shown
    <3> QED
      BY <3>1, <1>5, <1>9
  <2>2. ASSUME code \in Over(own), NEW part \in Decomposition(MaskOf(t, c, {code})), d \in part
        PROVE  code \in Lands /\ Shown(s, c, code) /\ d \in s.over[c][code]
    <3>1. PICK op \in BorderPlans(t, c) : op.family = "NE" /\ op.code = code /\ op.mask = part
      BY <1>7, <2>2
    <3>2. code \in DOMAIN s.over[c] /\ HasGround(s, code)
      BY <3>1, <1>4, <1>5
    <3>3. d \in s.over[c][code]
      BY <3>1, <3>2, <1>4, <2>2
    <3> QED
      BY <3>2, <3>3, <1>6, <2>2 DEF Shown
  <2> QED
    BY <2>1, <2>2
<1>11. code = "WA" /\ own = "WA" /\ (\E m \in s.shores[c] : d \in m)
         <=> code = "WA" /\ own = "WA" /\ \E part \in Decomposition(DryMask(t, c)) : d \in part
  <2>1. ASSUME NEW m \in s.shores[c], d \in m PROVE \E part \in Decomposition(DryMask(t, c)) : d \in part
    <3>1. PICK op \in BorderPlans(t, c) : op.family = "WA" /\ m = op.mask
      BY <1>4
    <3> QED
      BY <2>1, <3>1, <1>9
  <2>2. ASSUME own = "WA", NEW part \in Decomposition(DryMask(t, c)), d \in part PROVE \E m \in s.shores[c] : d \in m
    <3>1. part \in s.shores[c]
      BY <1>4, <1>8, <2>2
    <3> QED
      BY <2>2, <3>1
  <2> QED
    BY <2>1, <2>2
<1>12. /\ HasBorder(L, "Border", code, d) <=> code \in Lands /\ Shown(s, c, code) /\ d \in s.over[c][code]
       /\ HasBorder(L, "Shore", code, d)
            <=> code = "WA" /\ own = "WA" /\ \E m \in s.shores[c] : d \in m
  BY BordersSeen DEF s
<1> QED
  BY <1>10, <1>11, <1>12 DEF s
-----------------------------------------------------------------------------
(* The surface that was prepared of the terrain, and the canvas of it.     *)
SurfaceIsMade ==
  /\ DOMAIN world.terrain \subseteq Cells
  /\ surface = Prepared(world.terrain, scenario.assets)
  /\ canvas = Painted(world.terrain, surface)

LEMMA LayersSeen ==
  ASSUME SurfaceIsMade, NEW c \in DOMAIN canvas
  PROVE  /\ DOMAIN canvas = DOMAIN world.terrain
         /\ c \in DOMAIN world.terrain /\ c \in Cells
         /\ canvas[c] = Painted(world.terrain, Prepared(world.terrain, scenario.assets))[c]
         /\ \A kind, code, d : Shows(c, kind, code, d) <=> HasBorder(canvas[c], kind, code, d)
<1>1. DOMAIN canvas = DOMAIN world.terrain
  BY DEF SurfaceIsMade, Painted
<1>2. canvas[c] = Painted(world.terrain, Prepared(world.terrain, scenario.assets))[c]
  BY DEF SurfaceIsMade
<1>3. c \in DOMAIN world.terrain /\ c \in Cells
  BY <1>1 DEF SurfaceIsMade
<1>4. \A kind, code, d : Shows(c, kind, code, d) <=> HasBorder(canvas[c], kind, code, d)
  BY DEF Shows, HasBorder, LayersOf
<1> QED
  BY <1>1, <1>2, <1>3, <1>4

LEMMA WholeBordersShow ==
  ASSUME SurfaceIsMade, Whole(scenario.assets), NEW c \in DOMAIN canvas, NEW code, NEW d
  PROVE  LET t == world.terrain
             own == CodeOf(t[c])
         IN  /\ Shows(c, "Border", code, d)
                  <=> code \in Over(own) /\ \E part \in Decomposition(MaskOf(t, c, {code})) : d \in part
             /\ Shows(c, "Shore", code, d)
                  <=> code = "WA" /\ own = "WA" /\ \E part \in Decomposition(DryMask(t, c)) : d \in part
<1> DEFINE t == world.terrain
           L == Painted(t, Prepared(t, scenario.assets))[c]
<1>1. c \in DOMAIN t /\ canvas[c] = L /\ \A kind : Shows(c, kind, code, d) <=> HasBorder(canvas[c], kind, code, d)
  BY LayersSeen
<1>2. /\ HasBorder(L, "Border", code, d)
           <=> code \in Over(CodeOf(t[c])) /\ \E part \in Decomposition(MaskOf(t, c, {code})) : d \in part
      /\ HasBorder(L, "Shore", code, d)
           <=> code = "WA" /\ CodeOf(t[c]) = "WA" /\ \E part \in Decomposition(DryMask(t, c)) : d \in part
  BY <1>1, WholeBordersSeen
<1> HIDE DEF L
<1> QED
  BY <1>1, <1>2

(* Where a mask is split, all of it is seen but for the corners of a cell  *)
(* that is surrounded on its four sides.                                   *)
LEMMA PartsCover ==
  ASSUME NEW mask \in Masks8, NEW d \in mask, d \in Diagonals \/ ~(Diagonals \subseteq mask)
  PROVE  \E part \in Decomposition(mask) : d \in part
<1>1. CASE Diagonals \subseteq mask
  BY <1>1, DecompositionCovers
<1>2. CASE ~(Diagonals \subseteq mask)
  <2>1. UNION Decomposition(mask) = mask
    BY <1>2, DecompositionCovers
  <2> QED
    BY <2>1
<1> QED
  BY <1>1, <1>2

LEMMA SeamsAreClosed ==
  ASSUME SurfaceIsMade, Whole(scenario.assets), NEW c \in DOMAIN canvas, NEW d \in 1 .. 8,
         Neighbour(c, d) \in DOMAIN canvas
  PROVE  SeamIsClosed(c, d)
<1> DEFINE t == world.terrain
           b == Neighbour(c, d)
           e == Opposite(d)
           own == CodeOf(t[c])
           other == CodeOf(t[b])
           here == Shows(c, "Border", other, d)
           there == Shows(b, "Border", own, e)
           shore == Shows(c, "Shore", "WA", d)
<1>1. c \in DOMAIN t /\ b \in DOMAIN t /\ c \in Cells
  BY LayersSeen
<1>2. e \in 1 .. 8 /\ (d \in Diagonals <=> e \in Diagonals) /\ Neighbour(b, e) = c
  BY <1>1, OppositeFacts, CellFacts
<1>3. own \in Codes /\ other \in Codes
  BY CodeFacts
<1>4. here <=> other \in Over(own) /\ \E part \in Decomposition(MaskOf(t, c, {other})) : d \in part
  BY WholeBordersShow
<1>5. there <=> own \in Over(other) /\ \E part \in Decomposition(MaskOf(t, b, {own})) : e \in part
  BY WholeBordersShow
<1>6. shore <=> own = "WA" /\ \E part \in Decomposition(DryMask(t, c)) : d \in part
  BY WholeBordersShow
<1>7. d \in MaskOf(t, c, {other}) /\ e \in MaskOf(t, b, {own})
  BY <1>1, <1>2, MaskFacts
<1>8. MaskOf(t, c, {other}) \in Masks8 /\ MaskOf(t, b, {own}) \in Masks8 /\ DryMask(t, c) \in Masks8
  BY MaskFacts DEF DryMask
<1>9. other # "WA" => d \in DryMask(t, c)
  BY <1>1, <1>3, CodeFacts, MaskFacts DEF DryMask
<1>10. Surrounded(c, {other}) <=> Diagonals \subseteq MaskOf(t, c, {other})
  BY DEF Surrounded
<1>11. Surrounded(b, {own}) <=> Diagonals \subseteq MaskOf(t, b, {own})
  BY DEF Surrounded
<1>12. Surrounded(c, DOMAIN LowBytes \ {"WA"}) <=> Diagonals \subseteq DryMask(t, c)
  BY DEF Surrounded, DryMask
<1>13. other \in Over(own) => here \/ (d \notin Diagonals /\ Surrounded(c, {other}))
  BY <1>4, <1>7, <1>8, <1>10, PartsCover
<1>14. own \in Over(other) => there \/ (d \notin Diagonals /\ Surrounded(b, {own}))
  BY <1>2, <1>5, <1>7, <1>8, <1>11, PartsCover
<1>15. own = "WA" /\ other # "WA" => shore \/ (d \notin Diagonals /\ Surrounded(c, DOMAIN LowBytes \ {"WA"}))
  BY <1>6, <1>8, <1>9, <1>12, PartsCover
<1>16. SeamIsClosed(c, d) <=>
         /\ own = other => ~here /\ ~there
         /\ ~(here /\ there)
         /\ {own, other} \cap Lands # {} /\ own # other =>
              \/ here \/ there
              \/ d \notin Diagonals /\ (Surrounded(c, {other}) \/ Surrounded(b, {own}))
         /\ own = "WA" /\ other # "WA" =>
              \/ shore
              \/ d \notin Diagonals /\ Surrounded(c, DOMAIN LowBytes \ {"WA"})
  BY DEF SeamIsClosed
<1> HIDE DEF own, other, here, there, shore, b, e, t
<1>17. /\ own \notin Over(own)
       /\ other \in Over(own) => own \notin Over(other)
       /\ own # other /\ {own, other} \cap Lands # {} => other \in Over(own) \/ own \in Over(other)
  BY <1>3, OverFacts
<1>18. own = other => ~here /\ ~there
  BY <1>4, <1>5, <1>17
<1>19. ~(here /\ there)
  BY <1>4, <1>5, <1>17
<1> QED
  BY <1>13, <1>14, <1>15, <1>16, <1>17, <1>18, <1>19

LEMMA OrderIsKept ==
  ASSUME SurfaceIsMade, Whole(scenario.assets), NEW c \in DOMAIN canvas
  PROVE  LayersAreOrdered(c)
<1> DEFINE t == world.terrain
           s == Prepared(t, scenario.assets)
           L == canvas[c]
           own == CodeOf(t[c])
<1>1. c \in DOMAIN t /\ L = Painted(t, s)[c]
  BY LayersSeen
<1>2. s.water = {b \in DOMAIN t : CodeOf(t[b]) = "WA"} /\ s.land = {b \in DOMAIN t : CodeOf(t[b]) \in Lands}
  BY PreparedFacts
<1>3. HasGround(s, own)
  <2>1. c \in Users(t, scenario.assets, own)
    BY <1>1 DEF Users
  <2>2. own \in Codes /\ scenario.assets.noGround = {}
    BY CodeFacts DEF Whole
  <2>3. \A code : HasGround(s, code) <=> code \in Codes \ scenario.assets.noGround /\ Users(t, scenario.assets, code) # {}
    BY PreparedFacts
  <2> QED
    BY <2>1, <2>2, <2>3
<1>4. own \in Lands \cup {"BL", "WA"} /\ "WA" \notin Lands
  BY CodeFacts DEF Codes
<1>5. /\ Base(t, c) = Layer("Base", own, {})
      /\ Base(t, c).kind = "Base" /\ \A code : BorderOf(s, c, code).kind = "Border"
  BY DEF Base, BorderOf, Layer
<1> HIDE DEF s
<1>6. /\ Len(L) \in Nat /\ DOMAIN L = 1 .. Len(L)
      /\ \A i \in 1 .. Len(L) :
            \/ L[i] = Base(t, c)
            \/ own = "WA"
            \/ ~(own \in Lands /\ HasGround(s, own))
            \/ \E code \in Lands : L[i] = BorderOf(s, c, code)
      /\ own \in Lands \cup {"WA"} /\ HasGround(s, own) => Len(L) >= 1 /\ L[1] = Base(t, c)
      /\ \A i, j \in 1 .. Len(L) : i < j /\ L[i].kind = "Border" /\ L[j].kind = "Border" =>
              DominanceRank(L[i].code) < DominanceRank(L[j].code)
  BY <1>1, <1>2, LayersAre
<1>7. LayersAreOrdered(c) <=>
        /\ own # "BL" => L # << >> /\ L[1] = Layer("Base", own, {})
        /\ own \in Lands => \A i \in DOMAIN L : L[i].kind \in {"Base", "Border"}
        /\ \A i, j \in {i \in DOMAIN L : L[i].kind = "Border"} :
             i < j => DominanceRank(L[i].code) < DominanceRank(L[j].code)
  BY DEF LayersAreOrdered
<1> HIDE DEF L, own
<1>8. own # "BL" => L # << >> /\ L[1] = Layer("Base", own, {})
  <2>1. Len(L) >= 1 => L # << >>
    BY <1>6
  <2> QED
    BY <2>1, <1>3, <1>4, <1>5, <1>6
<1>9. own \in Lands => \A i \in DOMAIN L : L[i].kind \in {"Base", "Border"}
  BY <1>3, <1>4, <1>5, <1>6
<1> QED
  BY <1>6, <1>7, <1>8, <1>9

LEMMA FieldsAreWide ==
  ASSUME SurfaceIsMade, NEW c \in DOMAIN canvas
  PROVE  FieldsReach(c)
<1> DEFINE t == world.terrain
           assets == scenario.assets
           s == Prepared(t, assets)
           L == canvas[c]
           own == CodeOf(t[c])
<1>1. c \in DOMAIN t /\ c \in Cells /\ L = Painted(t, s)[c] /\ surface = s
  BY LayersSeen DEF SurfaceIsMade
<1>2. s.water = {b \in DOMAIN t : CodeOf(t[b]) = "WA"} /\ s.land = {b \in DOMAIN t : CodeOf(t[b]) \in Lands}
  BY PreparedFacts
<1>3. /\ \A code : HasGround(s, code) => s.fields[code] = GroundField(Users(t, assets, code))
      /\ \A code : code \in DOMAIN s.over[c]
           => \E op \in NamedPlans(t, assets, c) : op.family = "NE" /\ op.code = code
  BY <1>1, PreparedFacts
<1>4. \A code : Users(t, assets, code) \in SUBSET Cells
  BY DEF Users, SurfaceIsMade
<1>5. /\ c \in Users(t, assets, own)
      /\ \A code : code \in DOMAIN s.over[c] => c \in Users(t, assets, code)
  BY <1>1, <1>3 DEF Users
<1>6. /\ Base(t, c).kind = "Base" /\ Base(t, c).code = own
      /\ ShoreOf(s, c).kind = "Shore" /\ Spilled.kind = "Spill"
      /\ \A code : BorderOf(s, c, code).code = code
  BY DEF Base, ShoreOf, Spilled, BorderOf, Layer
<1> HIDE DEF s
<1>7. /\ DOMAIN L = 1 .. Len(L)
      /\ \A i \in 1 .. Len(L) :
            \/ L[i] = Base(t, c) /\ HasGround(s, own)
            \/ L[i] = ShoreOf(s, c)
            \/ L[i] = Spilled
            \/ \E code \in Lands : Shown(s, c, code) /\ L[i] = BorderOf(s, c, code)
  BY <1>1, <1>2, LayersAre
<1> HIDE DEF L, own, t, assets
<1>8. ASSUME NEW i \in DOMAIN L, L[i].kind \in {"Base", "Border"},
             NEW x \in 0 .. Box - 1, NEW y \in 0 .. Box - 1
      PROVE  PatchOf(<<Project(c)[1] + x, Project(c)[2] + y>>) \in s.fields[L[i].code]
  <2>1. HasGround(s, L[i].code) /\ c \in Users(t, assets, L[i].code)
    BY <1>5, <1>6, <1>7, <1>8 DEF Shown
  <2>2. PatchOf(<<Project(c)[1] + x, Project(c)[2] + y>>) \in GroundField(Users(t, assets, L[i].code))
    BY <1>4, <2>1, FieldReaches
  <2> QED
    BY <1>3, <2>1, <2>2
<1> QED
  BY <1>1, <1>8 DEF FieldsReach, L

(* What the tools are told of a cell, by its parts (describe_tile).        *)
LEMMA ToldFacts ==
  ASSUME NEW t, NEW assets, NEW c
  PROVE  LET told == Description(t, assets, c, FALSE)
             named == NamedPlans(t, assets, c)
         IN  /\ told.masks = NeighbourMasks(t, c)
             /\ told.transition <=> OtherMaterial(t, c) # MaterialOf(t[c])
             /\ told.towards = Towards(t, c, OtherMaterial(t, c))
             /\ told.kind = "None" <=> named = {}
             /\ told.kind = "Drawable" <=> named # {}
             /\ named # {} =>
                  /\ told.border = FirstPlan(named)
                  /\ told.found <=> ~ShapeIn(FirstPlan(named), assets.unreadable)
                  /\ FirstPlan(named).family # "WA" => told.code = FirstPlan(named).code
<1> DEFINE named == NamedPlans(t, assets, c)
           told == Description(t, assets, c, FALSE)
<1>2. CASE named = {}
  <2>1. /\ told.masks = NeighbourMasks(t, c) /\ told.kind = "None"
        /\ told.transition <=> OtherMaterial(t, c) # MaterialOf(t[c])
        /\ told.towards = Towards(t, c, OtherMaterial(t, c))
    BY <1>2 DEF Description
  <2> HIDE DEF told, named
  <2> QED
    BY <1>2, <2>1 DEF told, named
<1>3. CASE named # {}
  <2>1. /\ told.masks = NeighbourMasks(t, c) /\ told.kind = "Drawable"
        /\ told.transition <=> OtherMaterial(t, c) # MaterialOf(t[c])
        /\ told.towards = Towards(t, c, OtherMaterial(t, c))
    BY <1>3 DEF Description
  <2>2. /\ told.border = FirstPlan(named)
        /\ told.found <=> ~ShapeIn(FirstPlan(named), assets.unreadable)
        /\ FirstPlan(named).family # "WA" => told.code = FirstPlan(named).code
    BY <1>3 DEF Description
  <2> HIDE DEF told, named
  <2> QED
    BY <1>3, <2>1, <2>2 DEF told, named
<1> QED
  BY <1>2, <1>3

LEMMA StrengthIsMutual ==
  ASSUME NEW t, DOMAIN t \subseteq Cells, NEW c \in DOMAIN t, NEW d \in 1 .. 8,
         d \in NeighbourMasks(t, c).weaker \cup NeighbourMasks(t, c).stronger
  PROVE  /\ Neighbour(c, d) \in DOMAIN t
         /\ d \in NeighbourMasks(t, c).weaker
              <=> Opposite(d) \in NeighbourMasks(t, Neighbour(c, d)).stronger
<1> DEFINE b == Neighbour(c, d)
           own == CodeOf(t[c])
           other == CodeOf(t[b])
<1>1. \A a : /\ NeighbourMasks(t, a).stronger = IF CodeOf(t[a]) \in Lands THEN MaskOf(t, a, Over(CodeOf(t[a]))) ELSE {}
             /\ NeighbourMasks(t, a).weaker =
                  IF CodeOf(t[a]) \in Lands THEN MaskOf(t, a, Lands \ (Over(CodeOf(t[a])) \cup {CodeOf(t[a])})) ELSE {}
  BY DEF NeighbourMasks
<1>2. own \in Lands
  BY <1>1
<1>3. b \in DOMAIN t /\ (d \in NeighbourMasks(t, c).stronger <=> other \in Over(own))
      /\ (d \in NeighbourMasks(t, c).weaker <=> other \in Lands \ (Over(own) \cup {own}))
  <2>1. /\ NeighbourMasks(t, c).stronger = MaskOf(t, c, Over(own))
        /\ NeighbourMasks(t, c).weaker = MaskOf(t, c, Lands \ (Over(own) \cup {own}))
    BY <1>1, <1>2
  <2>2. \A codes : d \in MaskOf(t, c, codes) <=> b \in DOMAIN t /\ other \in codes
    BY MaskFacts
  <2> QED
    BY <2>1, <2>2
<1>4. Opposite(d) \in 1 .. 8 /\ Neighbour(b, Opposite(d)) = c
  <2>1. c \in Int \X Int
    BY CellFacts
  <2> QED
    BY <2>1, OppositeFacts
<1>5. Opposite(d) \in NeighbourMasks(t, b).stronger <=> other \in Lands /\ own \in Over(other)
  BY <1>1, <1>4, MaskFacts
<1>6. own \in Codes /\ other \in Codes
  BY CodeFacts
<1>7. other \in Lands \ (Over(own) \cup {own}) => own \in Over(other)
  BY <1>2, <1>6, OverFacts
<1>8. other \in Over(own) => own \notin Over(other)
  BY <1>6, OverFacts
<1> QED
  BY <1>3, <1>5, <1>7, <1>8

LEMMA DescriptionsAreTrue ==
  ASSUME SurfaceIsMade, NEW c \in DOMAIN canvas, NEW told, told = [b \in DOMAIN canvas |-> Told(b)]
  PROVE  DescriptionIsTrue(c, told)
<1> DEFINE t == world.terrain
           assets == scenario.assets
           s == Prepared(t, assets)
           L == canvas[c]
           own == CodeOf(t[c])
           O == NamedPlans(t, assets, c)
           first == FirstPlan(O)
           desc == told[c]
           borders == {i \in DOMAIN L : L[i].kind \in {"Border", "Shore"}}
<1>1. c \in DOMAIN t /\ c \in Cells /\ L = Painted(t, s)[c] /\ surface = s /\ DOMAIN canvas = DOMAIN t
      /\ DOMAIN t \subseteq Cells
  BY LayersSeen DEF SurfaceIsMade
<1>2. s.water = {b \in DOMAIN t : CodeOf(t[b]) = "WA"} /\ s.land = {b \in DOMAIN t : CodeOf(t[b]) \in Lands}
  BY PreparedFacts
<1>3. /\ \A m : m \in s.shores[c] <=> \E op \in ReadablePlans(t, assets, c, "WA") : m = op.mask
      /\ \A code : code \in DOMAIN s.over[c] <=> \E op \in O : op.family = "NE" /\ op.code = code
      /\ \A code \in DOMAIN s.over[c] : \A d :
           d \in s.over[c][code]
             <=> \E op \in ReadablePlans(t, assets, c, "NE") : op.code = code /\ d \in op.mask
  BY <1>1, PreparedFacts
<1>4. /\ \A family : \A op : op \in ReadablePlans(t, assets, c, family)
                               <=> op \in O /\ op.family = family /\ ~ShapeIn(op, assets.unreadable)
      /\ \A op \in O : op \in BorderPlans(t, c)
  BY DEF ReadablePlans, NamedPlans
<1>5. \A op \in O : /\ op.mask \in Masks8 /\ op.mask # {}
                    /\ \/ op.family = "NE" /\ op.code \in Over(own) /\ op.code \in Lands
                          /\ op.mask \subseteq MaskOf(t, c, {op.code})
                       \/ op.family = "WA" /\ own = "WA" /\ op.mask \subseteq DryMask(t, c)
  <2>1. Over(own) \subseteq Lands
    BY CodeFacts, OverFacts
  <2> QED
    BY <1>4, <2>1, PlanFacts
<1>6. O # {} => first \in O /\ \A q \in O \ {first} : PlannedBefore(first, q)
  <2>1. O \in SUBSET BorderPlans(t, c)
    BY <1>4
  <2> QED
    BY <2>1, FirstPlanIsFirst
<1>7. desc = Description(t, assets, c, FALSE)
      /\ \A b \in DOMAIN t : told[b] = Description(t, assets, b, FALSE)
  BY <1>1 DEF Told
<1>8. /\ desc.masks = NeighbourMasks(t, c)
      /\ desc.transition <=> OtherMaterial(t, c) # MaterialOf(t[c])
      /\ desc.towards = Towards(t, c, OtherMaterial(t, c))
      /\ desc.kind = "None" <=> O = {}
      /\ desc.kind = "Drawable" <=> O # {}
      /\ O # {} => /\ desc.border = first
                   /\ desc.found <=> ~ShapeIn(first, assets.unreadable)
                   /\ first.family # "WA" => desc.code = first.code
  <2>1. LET what == Description(t, assets, c, FALSE)
        IN  /\ what.masks = NeighbourMasks(t, c)
            /\ what.transition <=> OtherMaterial(t, c) # MaterialOf(t[c])
            /\ what.towards = Towards(t, c, OtherMaterial(t, c))
            /\ what.kind = "None" <=> O = {}
            /\ what.kind = "Drawable" <=> O # {}
            /\ O # {} => /\ what.border = first
                         /\ what.found <=> ~ShapeIn(first, assets.unreadable)
                         /\ first.family # "WA" => what.code = first.code
    BY ToldFacts
  <2> HIDE DEF O, first, desc, t, assets
  <2> QED
    BY <2>1, <1>7
<1>9. /\ Base(t, c).kind = "Base" /\ Spilled.kind = "Spill"
      /\ ShoreOf(s, c).kind = "Shore" /\ ShoreOf(s, c).mask = UNION s.shores[c]
      /\ \A code : /\ BorderOf(s, c, code).kind = "Border" /\ BorderOf(s, c, code).code = code
                   /\ BorderOf(s, c, code).mask = s.over[c][code]
  BY DEF Base, ShoreOf, Spilled, BorderOf, Layer
<1> HIDE DEF s
<1>10. /\ Len(L) \in Nat /\ DOMAIN L = 1 .. Len(L)
       /\ \A i \in 1 .. Len(L) :
             \/ L[i] = Base(t, c)
             \/ L[i] = ShoreOf(s, c) /\ own = "WA" /\ s.shores[c] # {}
             \/ L[i] = Spilled
             \/ \E code \in Lands : Shown(s, c, code) /\ L[i] = BorderOf(s, c, code)
       /\ own = "WA" /\ s.shores[c] # {} => \E i \in 1 .. Len(L) : L[i] = ShoreOf(s, c)
       /\ \A code \in Lands : Shown(s, c, code) =>
             Len(L) >= 1 /\ L[Len(L)].kind = "Border" /\ DominanceRank(code) <= DominanceRank(L[Len(L)].code)
  BY <1>1, <1>2, LayersAre
<1>11. DescriptionIsTrue(c, told) <=>
         /\ desc.kind = "None" => borders = {}
         /\ desc.kind = "Drawable" /\ desc.found =>
              IF desc.border.family = "WA"
              THEN \E i \in borders : L[i].kind = "Shore" /\ desc.border.mask \subseteq L[i].mask
              ELSE desc.code \in DOMAIN s.fields =>
                     /\ L[Len(L)].kind = "Border" /\ L[Len(L)].code = desc.code
                     /\ desc.border.mask \subseteq L[Len(L)].mask
         /\ own \in Lands => \A i \in borders : L[i].mask \subseteq desc.masks.stronger
         /\ \A d \in desc.masks.weaker \cup desc.masks.stronger :
              d \in desc.masks.weaker <=> Opposite(d) \in told[Neighbour(c, d)].masks.stronger
         /\ desc.kind = "Drawable" => desc.transition /\ desc.towards # {}
  BY <1>1 DEF DescriptionIsTrue
<1> HIDE DEF L, own, O, first, desc, t, assets
<1>12. \A code : Shown(s, c, code) => HasGround(s, code) /\ \E op \in O : op.family = "NE" /\ op.code = code
  BY <1>3 DEF Shown
<1>13. s.shores[c] # {} => O # {}
  BY <1>3, <1>4
<1>14. desc.kind = "None" => borders = {}
  <2>1. ASSUME O = {}, NEW i \in DOMAIN L, L[i].kind \in {"Border", "Shore"} PROVE FALSE
    BY <2>1, <1>9, <1>10, <1>12, <1>13
  <2> QED
    BY <2>1, <1>8
<1>15. ASSUME desc.kind = "Drawable", desc.found, desc.border.family = "WA"
       PROVE  \E i \in borders : L[i].kind = "Shore" /\ desc.border.mask \subseteq L[i].mask
  <2>1. first \in O /\ desc.border = first /\ first \in ReadablePlans(t, assets, c, "WA") /\ own = "WA"
    BY <1>4, <1>5, <1>6, <1>8, <1>15
  <2>2. first.mask \in s.shores[c]
    BY <2>1, <1>3
  <2>3. PICK i \in 1 .. Len(L) : L[i] = ShoreOf(s, c)
    BY <2>1, <2>2, <1>10
  <2>4. i \in borders /\ L[i].kind = "Shore" /\ L[i].mask = UNION s.shores[c]
    BY <2>3, <1>9, <1>10
  <2>5. first.mask \subseteq UNION s.shores[c]
    BY <2>2
  <2> QED
    BY <2>1, <2>4, <2>5
<1>16. ASSUME desc.kind = "Drawable", desc.found, desc.border.family # "WA", desc.code \in DOMAIN s.fields
       PROVE  /\ L[Len(L)].kind = "Border" /\ L[Len(L)].code = desc.code
              /\ desc.border.mask \subseteq L[Len(L)].mask
  <2>1. /\ first \in O /\ desc.border = first /\ desc.code = first.code /\ first.family = "NE"
        /\ first \in ReadablePlans(t, assets, c, "NE") /\ first.code \in Lands /\ first.mask # {}
    BY <1>4, <1>5, <1>6, <1>8, <1>16
  <2>2. first.code \in DOMAIN s.over[c] /\ first.mask \subseteq s.over[c][first.code]
    BY <2>1, <1>3
  <2>3. Shown(s, c, first.code)
    BY <2>1, <2>2, <1>16 DEF Shown, HasGround
  <2>4. Len(L) \in 1 .. Len(L) /\ L[Len(L)].kind = "Border" /\ DominanceRank(first.code) <= DominanceRank(L[Len(L)].code)
    BY <2>1, <2>3, <1>10
  <2>5. PICK last \in Lands : Shown(s, c, last) /\ L[Len(L)] = BorderOf(s, c, last)
    <3>1. L[Len(L)] # Base(t, c) /\ L[Len(L)] # ShoreOf(s, c) /\ L[Len(L)] # Spilled
      BY <2>4, <1>9
    <3> QED
      BY <2>4, <3>1, <1>10
  <2>6. last = first.code
    <3>1. PICK q \in O : q.family = "NE" /\ q.code = last
      BY <2>5, <1>12
    <3>2. DominanceRank(first.code) <= DominanceRank(last)
      BY <2>4, <2>5, <1>9
    <3>3. DominanceRank(first.code) \in Int /\ DominanceRank(last) \in Int
      BY <2>1, PassFacts
    <3>4. q # first /\ last # first.code => DominanceRank(first.code) > DominanceRank(last)
      <4>1. q # first => PlannedBefore(first, q)
        BY <3>1, <1>6
      <4> QED
        BY <2>1, <3>1, <4>1 DEF PlannedBefore
    <3>5. q = first => last = first.code
      BY <3>1
    <3> QED
      BY <3>2, <3>3, <3>4, <3>5
  <2> QED
    BY <2>1, <2>2, <2>4, <2>5, <2>6, <1>9
<1>17. ASSUME own \in Lands, NEW i \in borders PROVE L[i].mask \subseteq desc.masks.stronger
  <2>1. desc.masks.stronger = MaskOf(t, c, Over(own))
    BY <1>8, <1>17 DEF NeighbourMasks, own
  <2>2. PICK code \in Lands : Shown(s, c, code) /\ L[i] = BorderOf(s, c, code)
    <3>1. own # "WA"
      BY <1>17, CodeFacts
    <3>2. L[i] # Base(t, c) /\ L[i] # Spilled
      BY <1>9
    <3> QED
      BY <3>1, <3>2, <1>10
  <2>3. ASSUME NEW d \in s.over[c][code] PROVE d \in MaskOf(t, c, Over(own))
    <3>1. PICK op \in ReadablePlans(t, assets, c, "NE") : op.code = code /\ d \in op.mask
      BY <2>2, <2>3, <1>3 DEF Shown
    <3>2. code \in Over(own) /\ d \in MaskOf(t, c, {code}) /\ d \in 1 .. 8
      BY <3>1, <1>4, <1>5 DEF Masks8
    <3> QED
      BY <3>2, MaskFacts
  <2>4. L[i].mask = s.over[c][code]
    BY <2>2, <1>9
  <2> QED
    BY <2>1, <2>3, <2>4
<1>18. ASSUME NEW d \in desc.masks.weaker \cup desc.masks.stronger
       PROVE  d \in desc.masks.weaker <=> Opposite(d) \in told[Neighbour(c, d)].masks.stronger
  <2>1. d \in 1 .. 8
    <3>1. \A codes : MaskOf(t, c, codes) \in Masks8
      BY MaskFacts
    <3>2. NeighbourMasks(t, c).weaker \in Masks8 /\ NeighbourMasks(t, c).stronger \in Masks8
      BY <3>1 DEF NeighbourMasks, Masks8
    <3> QED
      BY <3>2, <1>8, <1>18 DEF Masks8
  <2>2. /\ Neighbour(c, d) \in DOMAIN t
        /\ d \in NeighbourMasks(t, c).weaker
             <=> Opposite(d) \in NeighbourMasks(t, Neighbour(c, d)).stronger
    BY <2>1, <1>1, <1>8, <1>18, StrengthIsMutual
  <2>3. told[Neighbour(c, d)].masks = NeighbourMasks(t, Neighbour(c, d))
    BY <2>2, <1>7, ToldFacts
  <2> QED
    BY <2>2, <2>3, <1>8
<1>19. ASSUME desc.kind = "Drawable" PROVE desc.transition /\ desc.towards # {}
  <2>1. first \in O
    BY <1>6, <1>8, <1>19
  <2>2. PICK d \in first.mask : d \in 1 .. 8
    BY <2>1, <1>5 DEF Masks8
  <2>3. Neighbour(c, d) \in DOMAIN t /\ CodeOf(t[Neighbour(c, d)]) # own
    <3>1. CASE first.family = "NE"
      <4>1. first.code \in Over(own) /\ d \in MaskOf(t, c, {first.code}) /\ own \notin Over(own)
        BY <2>1, <2>2, <3>1, <1>5, CodeFacts, OverFacts DEF own
      <4> QED
        BY <2>2, <4>1, MaskFacts
    <3>2. CASE first.family = "WA"
      <4>1. own = "WA" /\ d \in DryMask(t, c)
        BY <2>1, <2>2, <3>2, <1>5
      <4> QED
        BY <2>2, <4>1, MaskFacts DEF DryMask
    <3> QED
      BY <3>1, <3>2, <2>1, <1>5
  <2>4. MaterialOf(t[Neighbour(c, d)]) # MaterialOf(t[c])
    BY <2>3, CodeFacts DEF own
  <2> QED
    BY <2>2, <2>3, <2>4, <1>8, OtherIsMet
<1> QED
  BY <1>11, <1>14, <1>15, <1>16, <1>17, <1>18, <1>19

LEMMA SurfaceFollows == SurfaceIsMade => SurfaceIsSound
<1> SUFFICES ASSUME SurfaceIsMade PROVE SurfaceIsSound
  OBVIOUS
<1> DEFINE told == [c \in DOMAIN canvas |-> Told(c)]
<1>1. ASSUME NEW c \in DOMAIN canvas
      PROVE  /\ FieldsReach(c)
             /\ DescriptionIsTrue(c, told)
             /\ Whole(scenario.assets) =>
                  /\ LayersAreOrdered(c)
                  /\ \A d \in 1 .. 8 : Neighbour(c, d) \in DOMAIN canvas => SeamIsClosed(c, d)
  <2>1. told = [b \in DOMAIN canvas |-> Told(b)]
    OBVIOUS
  <2> HIDE DEF told
  <2> QED
    BY <2>1, FieldsAreWide, DescriptionsAreTrue, OrderIsKept, SeamsAreClosed
<1> HIDE DEF told
<1> QED
  BY <1>1 DEF SurfaceIsSound, told

(* The stages at which there is a world, a surface and a canvas.           *)
WithSurface == {"TerrainPrepared", "WorldPrepared", "TerrainPainted", "Ready"}
WithCanvas == {"TerrainPainted", "Ready"}
SurfaceInv ==
  /\ stage \in {"Loaded", "ActorsResolved"} \cup WithSurface => world = World(scenario)
  /\ stage \in WithSurface => surface = Prepared(world.terrain, scenario.assets)
  /\ stage \in WithCanvas => canvas = Painted(world.terrain, surface)

LEMMA SurfaceInvIsInductive == Spec => []SurfaceInv
<1>1. Init => SurfaceInv
  BY DEF Init, SurfaceInv, WithSurface, WithCanvas
<1>2. SurfaceInv /\ [Next]_mapVars => SurfaceInv'
  <2> SUFFICES ASSUME SurfaceInv, [Next]_mapVars PROVE SurfaceInv'
    OBVIOUS
  <2>1. CASE Load
    <3>1. scenario' = scenario /\ (stage' = "Refused" \/ (stage' \in {"Failed", "Loaded"} /\ world' = World(scenario)))
      BY <2>1 DEF Load
    <3> QED
      BY <3>1 DEF SurfaceInv, WithSurface, WithCanvas
  <2>2. CASE ResolveActors
    <3>1. UNCHANGED <<scenario, world>> /\ stage = "Loaded" /\ stage' \in {"Failed", "ActorsResolved"}
      BY <2>2 DEF ResolveActors
    <3> QED
      BY <3>1 DEF SurfaceInv, WithSurface, WithCanvas
  <2>3. CASE PrepareTerrain
    <3>1. /\ UNCHANGED <<scenario, world>> /\ stage = "ActorsResolved"
          /\ \/ stage' = "Failed"
             \/ stage' = "TerrainPrepared" /\ surface' = Prepared(world.terrain, scenario.assets)
      BY <2>3 DEF PrepareTerrain
    <3> QED
      BY <3>1 DEF SurfaceInv, WithSurface, WithCanvas
  <2>4. CASE PrepareWorld
    <3>1. UNCHANGED <<scenario, world, surface>> /\ stage = "TerrainPrepared" /\ stage' \in {"Failed", "WorldPrepared"}
      BY <2>4 DEF PrepareWorld
    <3> QED
      BY <3>1 DEF SurfaceInv, WithSurface, WithCanvas
  <2>5. CASE PaintTerrain
    <3>1. /\ UNCHANGED <<scenario, world, surface>> /\ stage = "WorldPrepared"
          /\ \/ stage' = "Failed"
             \/ stage' = "TerrainPainted" /\ canvas' = Painted(world.terrain, surface)
      BY <2>5 DEF PaintTerrain
    <3> QED
      BY <3>1 DEF SurfaceInv, WithSurface, WithCanvas
  <2>6. CASE BuildMasks
    <3>1. UNCHANGED <<scenario, world, surface, canvas>> /\ stage = "TerrainPainted" /\ stage' \in {"Failed", "Ready"}
      BY <2>6 DEF BuildMasks
    <3> QED
      BY <3>1 DEF SurfaceInv, WithSurface, WithCanvas
  <2>7. CASE UNCHANGED <<scenario, world, stage, surface, canvas>>
    BY <2>7 DEF SurfaceInv
  <2>8. CASE \/ \E at \in scenario.points : Point(at) \/ Inspect(at)
             \/ CloseInformation
             \/ \E a \in scenario.asks : Ask(a)
             \/ SearchRoute
             \/ UNCHANGED mapVars
    <3>1. UNCHANGED <<scenario, world, stage, surface, canvas>>
      BY <2>8 DEF Point, Inspect, CloseInformation, Ask, SearchRoute, mapVars, drawingVars
    <3> QED
      BY <3>1, <2>7
  <2> QED
    BY <2>1, <2>2, <2>3, <2>4, <2>5, <2>6, <2>8 DEF Next
<1> QED
  BY <1>1, <1>2, PTL DEF Spec

(* On a map of any size and any terrain, with patches of any size and      *)
(* whatever images are missing, the painted ground has no seams, and the   *)
(* tools are told what is seen (prepare_full_map,                          *)
(* render_prepared_full_map, describe_tile; the run of the map asserts it  *)
(* on 3 x 3 cells).                                                        *)
THEOREM GroundHasNoSeams == Spec => []SurfaceIsSound
<1>1. SurfaceInv => SurfaceIsSound
  <2>1. CASE stage = "Ready" /\ SurfaceInv
    <3>1. world = World(scenario) /\ surface = Prepared(world.terrain, scenario.assets)
          /\ canvas = Painted(world.terrain, surface)
      BY <2>1 DEF SurfaceInv, WithSurface, WithCanvas
    <3>2. world.terrain = Terrain(scenario)
      BY <3>1 DEF World
    <3>3. DOMAIN Terrain(scenario) \subseteq Cells
      BY DEF Terrain
    <3>4. SurfaceIsMade
      BY <3>1, <3>2, <3>3 DEF SurfaceIsMade
    <3> QED
      BY <3>4, SurfaceFollows
  <2>2. CASE stage # "Ready"
    BY <2>2 DEF SurfaceIsSound
  <2> QED
    BY <2>1, <2>2
<1> QED
  BY <1>1, SurfaceInvIsInductive, PTL
-----------------------------------------------------------------------------
(* A finite set with a strict total order has a first element, a second    *)
(* one and so on: every number of predecessors is that of one element.     *)
Below(S, R, x) == {y \in S : <<y, x>> \in R}
StrictTotalOrder(S, R) ==
  /\ \A x \in S : <<x, x>> \notin R
  /\ \A x, y, z \in S : <<x, y>> \in R /\ <<y, z>> \in R => <<x, z>> \in R
  /\ \A x, y \in S : x # y => <<x, y>> \in R \/ <<y, x>> \in R

LEMMA RanksGrow ==
  ASSUME NEW S, IsFiniteSet(S), NEW R, StrictTotalOrder(S, R)
  PROVE  /\ Cardinality(S) \in Nat
         /\ \A x \in S : Cardinality(Below(S, R, x)) \in 0 .. Cardinality(S) - 1
         /\ \A x, y \in S : <<x, y>> \in R => Cardinality(Below(S, R, x)) < Cardinality(Below(S, R, y))
<1>1. Cardinality(S) \in Nat
  BY FS_CardinalityType
<1>2. \A x \in S : Below(S, R, x) \in SUBSET S /\ x \notin Below(S, R, x)
  BY DEF Below, StrictTotalOrder
<1>3. \A x \in S : IsFiniteSet(Below(S, R, x)) /\ Cardinality(Below(S, R, x)) \in Nat
  BY <1>2, FS_Subset, FS_CardinalityType
<1>4. \A x \in S : Cardinality(Below(S, R, x)) < Cardinality(S)
  BY <1>1, <1>2, <1>3, FS_Subset
<1>5. ASSUME NEW x \in S, NEW y \in S, <<x, y>> \in R
      PROVE  Cardinality(Below(S, R, x)) < Cardinality(Below(S, R, y))
  <2>1. Below(S, R, x) \in SUBSET Below(S, R, y)
    BY <1>5 DEF Below, StrictTotalOrder
  <2>2. x \in Below(S, R, y) /\ x \notin Below(S, R, x)
    BY <1>2, <1>5 DEF Below
  <2> QED
    BY <2>1, <2>2, <1>3, FS_Subset
<1> QED
  BY <1>1, <1>3, <1>4, <1>5

LEMMA RanksAreTaken ==
  ASSUME NEW S, IsFiniteSet(S), NEW R, StrictTotalOrder(S, R)
  PROVE  \A k \in 0 .. Cardinality(S) - 1 : \E x \in S : Cardinality(Below(S, R, x)) = k
<1> DEFINE N == Cardinality(S)
           place == [x \in S |-> Cardinality(Below(S, R, x))]
<1>1. N \in Nat /\ place \in [S -> 0 .. N - 1]
  BY RanksGrow
<1>2. \A x, y \in S : <<x, y>> \in R => place[x] < place[y]
  BY RanksGrow
<1>3. \A x, y \in S : place[x] = place[y] => x = y
  <2> HIDE DEF place
  <2>1. \A x \in S : place[x] \in Int
    BY <1>1
  <2>2. \A x, y \in S : x # y => <<x, y>> \in R \/ <<y, x>> \in R
    BY DEF StrictTotalOrder
  <2> SUFFICES ASSUME NEW x \in S, NEW y \in S, place[x] = place[y], x # y PROVE FALSE
    OBVIOUS
  <2>3. place[x] \in Int /\ place[y] \in Int
    BY <2>1
  <2>4. CASE <<x, y>> \in R
    <3>1. place[x] < place[y]
      BY <1>2, <2>4
    <3> QED
      BY <2>3, <3>1
  <2>5. CASE <<y, x>> \in R
    <3>1. place[y] < place[x]
      BY <1>2, <2>5
    <3> QED
      BY <2>3, <3>1
  <2> QED
    BY <2>2, <2>4, <2>5
<1>4. place \in Injection(S, 0 .. N - 1)
  BY <1>1, <1>3 DEF Injection, IsInjective
<1>5. IsFiniteSet(0 .. N - 1) /\ Cardinality(0 .. N - 1) = N
  BY <1>1, FS_Interval
<1>6. place \in Surjection(S, 0 .. N - 1)
  BY <1>1, <1>4, <1>5, FS_Injection
<1> QED
  BY <1>6 DEF Surjection

(* The cells of a footprint, on the map or off it, have a front-most one.  *)
LEMMA InFrontIsTotal ==
  ASSUME NEW a \in Int \X Int, NEW b \in Int \X Int, NEW c \in Int \X Int
  PROVE  /\ ~InFront(a, a)
         /\ InFront(a, b) /\ InFront(b, c) => InFront(a, c)
         /\ a # b => InFront(a, b) \/ InFront(b, a)
<1>1. PICK a1 \in Int, a2 \in Int : a = <<a1, a2>>
  OBVIOUS
<1>2. PICK b1 \in Int, b2 \in Int : b = <<b1, b2>>
  OBVIOUS
<1>3. PICK c1 \in Int, c2 \in Int : c = <<c1, c2>>
  OBVIOUS
<1>4. Depth(a) = a1 + a2 /\ Depth(b) = b1 + b2 /\ Depth(c) = c1 + c2
  BY <1>1, <1>2, <1>3 DEF Depth
<1>5. a[1] = a1 /\ a[2] = a2 /\ b[1] = b1 /\ b[2] = b2 /\ c[1] = c1 /\ c[2] = c2
  BY <1>1, <1>2, <1>3
<1>6. a # b => a1 # b1 \/ a2 # b2
  BY <1>1, <1>2
<1> QED
  BY <1>4, <1>5, <1>6 DEF InFront

LEMMA FrontMostOfAny ==
  ASSUME NEW S \in SUBSET (Int \X Int), IsFiniteSet(S), S # {}
  PROVE  FrontMost(S) \in S /\ \A b \in S \ {FrontMost(S)} : InFront(FrontMost(S), b)
<1> DEFINE R == {e \in S \X S : InFront(e[1], e[2])}
<1>1. StrictTotalOrder(S, R)
  <2>1. \A x, y \in S : <<x, y>> \in R <=> InFront(x, y)
    OBVIOUS
  <2> HIDE DEF R
  <2> QED
    BY <2>1, InFrontIsTotal DEF StrictTotalOrder
<1>2. Cardinality(S) \in Nat \ {0}
  BY FS_CardinalityType, FS_EmptySet
<1>3. PICK x \in S : Cardinality(Below(S, R, x)) = 0
  <2> HIDE DEF R
  <2>1. 0 \in 0 .. Cardinality(S) - 1
    BY <1>2
  <2> QED
    BY <1>1, <2>1, RanksAreTaken
<1>4. Below(S, R, x) = {}
  <2>1. Below(S, R, x) \in SUBSET S
    BY DEF Below
  <2> QED
    BY <1>3, <2>1, FS_Subset, FS_EmptySet
<1>5. \A b \in S \ {x} : InFront(x, b)
  <2>1. ASSUME NEW b \in S, b # x, InFront(b, x) PROVE FALSE
    BY <1>4, <2>1 DEF Below
  <2> QED
    BY <2>1, InFrontIsTotal
<1> QED
  BY <1>5 DEF FrontMost

LEMMA AnchorIsPlace ==
  ASSUME NEW S \in SUBSET (Int \X Int), IsFiniteSet(S)
  PROVE  DepthAnchor(S) \in Int \X Int
<1> DEFINE ahead == {c \in S : Depth(c) > -1 \/ (Depth(c) = -1 /\ c[1] > 0)}
<1>1. ahead \in SUBSET S /\ ahead \in SUBSET (Int \X Int) /\ IsFiniteSet(ahead)
  BY FS_Subset
<1>2. DepthAnchor(S) = IF ahead = {} THEN <<0, 0>> ELSE FrontMost(ahead)
  BY DEF DepthAnchor
<1> HIDE DEF ahead
<1> QED
  BY <1>1, <1>2, FrontMostOfAny
-----------------------------------------------------------------------------
(* An object of the world is one of the scenario with a footprint.         *)
LEMMA ImagesAreFinite ==
  ASSUME NEW S, IsFiniteSet(S), NEW f, DOMAIN f = S
  PROVE  IsFiniteSet({f[x] : x \in S})
<1> DEFINE T == {f[x] : x \in S}
           g == [x \in S |-> f[x]]
<1>1. g \in Surjection(S, T)
  BY DEF Surjection
<1> QED
  BY <1>1, FS_Surjection

LEMMA PlansAreWhole ==
  ASSUME NEW sc \in Scenarios, NEW id
  PROVE  Planned(sc, id) \in SUBSET (Int \X Int) /\ IsFiniteSet(Planned(sc, id))
<1> DEFINE D == {i \in DOMAIN sc.plan : sc.plan[i].element = id}
           f == [i \in D |-> sc.plan[i].cell]
<1>1. sc.plan \in Seq([element : STRING, cell : Int \X Int])
  BY ObjectsAssumption
<1>2. IsFiniteSet(D)
  <2>1. DOMAIN sc.plan = 1 .. Len(sc.plan) /\ Len(sc.plan) \in Nat
    BY <1>1
  <2>2. IsFiniteSet(DOMAIN sc.plan)
    BY <2>1, FS_Interval
  <2> QED
    BY <2>2, FS_Subset
<1>3. Planned(sc, id) = {f[i] : i \in D}
  BY DEF Planned
<1>4. \A i \in D : f[i] \in Int \X Int
  <2> DEFINE Element == [element : STRING, cell : Int \X Int]
  <2>1. \A i \in DOMAIN sc.plan : sc.plan[i] \in Element
    <3> SUFFICES ASSUME NEW q \in Seq(Element) PROVE \A i \in DOMAIN q : q[i] \in Element
      BY <1>1
    <3> HIDE DEF Element
    <3> QED
      OBVIOUS
  <2>2. \A i \in DOMAIN sc.plan : sc.plan[i].cell \in Int \X Int
    BY <2>1
  <2> QED
    BY <2>2
<1>5. DOMAIN f = D
  OBVIOUS
<1> HIDE DEF f, D
<1> QED
  BY <1>2, <1>3, <1>4, <1>5, ImagesAreFinite

LEMMA RectanglesAreWhole ==
  ASSUME NEW at \in Int \X Int, NEW size \in Int \X Int
  PROVE  Rectangle(at, size) \in SUBSET (Int \X Int) /\ IsFiniteSet(Rectangle(at, size))
<1> DEFINE X == 0 .. size[1] - 1
           Y == 0 .. size[2] - 1
           f == [d \in X \X Y |-> <<at[1] + d[1], at[2] + d[2]>>]
<1>1. IsFiniteSet(X) /\ IsFiniteSet(Y)
  BY FS_Interval
<1>2. IsFiniteSet(X \X Y)
  BY <1>1, FS_Product
<1>3. Rectangle(at, size) = {f[d] : d \in X \X Y}
  <2>1. ASSUME NEW dx \in X, NEW dy \in Y
        PROVE  <<at[1] + dx, at[2] + dy>> = f[<<dx, dy>>] /\ <<dx, dy>> \in X \X Y
    OBVIOUS
  <2>2. ASSUME NEW d \in X \X Y
        PROVE  d[1] \in X /\ d[2] \in Y /\ f[d] = <<at[1] + d[1], at[2] + d[2]>>
    OBVIOUS
  <2>3. Rectangle(at, size) = {<<at[1] + dx, at[2] + dy>> : dx \in X, dy \in Y}
    BY DEF Rectangle
  <2> HIDE DEF f, X, Y
  <2>4. ASSUME NEW c \in Rectangle(at, size) PROVE c \in {f[d] : d \in X \X Y}
    <3>1. PICK dx \in X, dy \in Y : c = <<at[1] + dx, at[2] + dy>>
      BY <2>3
    <3>2. c = f[<<dx, dy>>] /\ <<dx, dy>> \in X \X Y
      BY <2>1, <3>1
    <3> QED
      BY <3>2
  <2>5. {f[d] : d \in X \X Y} \subseteq Rectangle(at, size)
    BY <2>2, <2>3
  <2> QED
    BY <2>4, <2>5
<1>4. \A d \in X \X Y : f[d] \in Int \X Int
  OBVIOUS
<1>5. DOMAIN f = X \X Y
  OBVIOUS
<1> HIDE DEF f, X, Y
<1> QED
  BY <1>2, <1>3, <1>4, <1>5, ImagesAreFinite

LEMMA ObjectIsOfScenario ==
  ASSUME NEW sc \in Scenarios, NEW x \in World(sc).objects
  PROVE  \E o \in sc.objects :
           /\ o \in ScenarioObject /\ x = WorldObject(sc, o)
           /\ x.kind = o.kind /\ x.id = o.id /\ x.at = o.at /\ x.stack = o.stack
           /\ x.plan = Footprint(sc, o)
<1>1. PICK o \in sc.objects : x = WorldObject(sc, o)
  BY DEF World
<1>2. o \in ScenarioObject
  BY ObjectsAssumption
<1> DEFINE added == [plan |-> Footprint(sc, o), group |-> Group(o), placement |-> Placement(sc, o)]
<1>3. x = [f \in DOMAIN o \cup DOMAIN added |-> IF f \in DOMAIN o THEN o[f] ELSE added[f]]
  BY <1>1 DEF WorldObject
<1>4. /\ {"kind", "id", "at", "stack"} \subseteq DOMAIN o /\ "plan" \notin DOMAIN o
  BY <1>2 DEF ScenarioObject
<1>5. added["plan"] = Footprint(sc, o) /\ "plan" \in DOMAIN added
  OBVIOUS
<1>6. /\ x.kind = o.kind /\ x.id = o.id /\ x.at = o.at /\ x.stack = o.stack
      /\ x.plan = Footprint(sc, o)
  <2> HIDE DEF added
  <2> QED
    BY <1>3, <1>4, <1>5
<1> QED
  BY <1>1, <1>2, <1>6

LEMMA ObjectFacts ==
  ASSUME NEW sc \in Scenarios, NEW x \in World(sc).objects
  PROVE  /\ x.kind \in STRING /\ x.id \in STRING \ {"Forest"} /\ x.at \in Int \X Int /\ x.stack \in STRING
         /\ x.plan \in SUBSET (Int \X Int) /\ IsFiniteSet(x.plan)
         /\ \A part \in {"Body", "Shadow", "Banner"} : <<part, x.id>> \in NamesIn(sc)
         /\ x.stack \notin Empty => <<"Shield", x.stack>> \in NamesIn(sc)
<1>1. PICK o \in sc.objects :
        /\ o \in ScenarioObject /\ x.kind = o.kind /\ x.id = o.id /\ x.at = o.at /\ x.stack = o.stack
        /\ x.plan = Footprint(sc, o)
  BY ObjectIsOfScenario
<1>2. /\ o.kind \in STRING /\ o.id \in STRING \ {"Forest"} /\ o.at \in Int \X Int /\ o.stack \in STRING
      /\ o.size \in Int \X Int
  BY <1>1 DEF ScenarioObject
<1>3. /\ Footprint(sc, o) \in SUBSET (Int \X Int) /\ IsFiniteSet(Footprint(sc, o))
  BY <1>2, PlansAreWhole, RectanglesAreWhole, FS_Singleton DEF Footprint
<1>4. \A part \in {"Body", "Shadow", "Banner"} : <<part, x.id>> \in NamesIn(sc)
  BY <1>1 DEF NamesIn
<1>5. x.stack \notin Empty => <<"Shield", x.stack>> \in NamesIn(sc)
  BY <1>1 DEF NamesIn
<1> QED
  BY <1>1, <1>2, <1>3, <1>4, <1>5

(* Of the objects of a world that is not refused one has an id.            *)
LEMMA IdsDiffer ==
  ASSUME NEW sc \in Scenarios, ~DuplicateStacks(World(sc)),
         NEW x \in World(sc).objects, NEW y \in World(sc).objects, x.id = y.id
  PROVE  x = y
<1>1. PICK o \in sc.objects : x = WorldObject(sc, o) /\ x.kind = o.kind /\ x.id = o.id
  BY ObjectIsOfScenario
<1>2. PICK r \in sc.objects : y = WorldObject(sc, r) /\ y.kind = r.kind /\ y.id = r.id
  BY ObjectIsOfScenario
<1>3. o = r \/ (x.kind = "Stack" /\ y.kind = "Stack")
  BY <1>1, <1>2, ObjectsAssumption
<1> QED
  BY <1>1, <1>2, <1>3 DEF DuplicateStacks, OfKind

LEMMA NamesAreFinite ==
  ASSUME NEW sc \in Scenarios
  PROVE  IsFiniteSet(NamesIn(sc))
<1> DEFINE N == NamesIn(sc)
           ids == {o.id : o \in sc.objects}
           stacks == {o.stack : o \in sc.objects}
           trees == {<<"Tree", "Forest", c>> : c \in Cells}
<1>1. IsFiniteSet(ids) /\ IsFiniteSet(stacks) /\ IsFiniteSet(trees)
  <2> DEFINE f == [o \in sc.objects |-> o.id]
             g == [o \in sc.objects |-> o.stack]
             h == [c \in Cells |-> <<"Tree", "Forest", c>>]
  <2>1. IsFiniteSet(sc.objects) /\ IsFiniteSet(Cells)
    BY ObjectsAssumption, CellsAreFinite
  <2>2. IsFiniteSet({f[o] : o \in sc.objects})
    BY <2>1, ImagesAreFinite
  <2>3. IsFiniteSet({g[o] : o \in sc.objects})
    BY <2>1, ImagesAreFinite
  <2>4. IsFiniteSet({h[c] : c \in Cells})
    BY <2>1, ImagesAreFinite
  <2>5. {f[o] : o \in sc.objects} = ids /\ {g[o] : o \in sc.objects} = stacks /\ {h[c] : c \in Cells} = trees
    OBVIOUS
  <2> QED
    BY <2>2, <2>3, <2>4, <2>5
<1>2. IsFiniteSet(N)
  <2>1. N = (({"Body", "Shadow", "Banner"} \X ids) \cup ({"Shield"} \X (stacks \ Empty))) \cup trees
    BY DEF NamesIn
  <2>2. IsFiniteSet({"Body", "Shadow", "Banner"}) /\ IsFiniteSet({"Shield"})
    <3>1. {"Body", "Shadow", "Banner"} = {"Body"} \cup ({"Shadow"} \cup {"Banner"})
      OBVIOUS
    <3>2. IsFiniteSet({"Body"}) /\ IsFiniteSet({"Shadow"}) /\ IsFiniteSet({"Banner"}) /\ IsFiniteSet({"Shield"})
      BY FS_Singleton, Zenon
    <3>3. IsFiniteSet({"Shadow"} \cup {"Banner"})
      BY <3>2, FS_Union, Zenon
    <3>4. IsFiniteSet({"Body"} \cup ({"Shadow"} \cup {"Banner"}))
      BY <3>2, <3>3, FS_Union, Zenon
    <3> QED
      BY <3>1, <3>2, <3>4
  <2>3. IsFiniteSet(stacks \ Empty)
    BY <1>1, FS_Subset
  <2> HIDE DEF ids, stacks, trees
  <2>4. IsFiniteSet({"Body", "Shadow", "Banner"} \X ids) /\ IsFiniteSet({"Shield"} \X (stacks \ Empty))
    BY <1>1, <2>2, <2>3, FS_Product
  <2>5. IsFiniteSet(({"Body", "Shadow", "Banner"} \X ids) \cup ({"Shield"} \X (stacks \ Empty)))
    BY <2>4, FS_Union
  <2>6. IsFiniteSet((({"Body", "Shadow", "Banner"} \X ids) \cup ({"Shield"} \X (stacks \ Empty))) \cup trees)
    BY <1>1, <2>5, FS_Union, Zenon
  <2> QED
    BY <2>1, <2>6
<1> QED
  BY <1>2

LEMMA HashesDiffer ==
  ASSUME NEW sc \in Scenarios, NEW m \in NamesIn(sc), NEW n \in NamesIn(sc)
  PROVE  Hash(m) \in Int /\ (Hash(m) = Hash(n) => m = n)
<1> DEFINE N == NamesIn(sc)
           T == {Hash(k) : k \in N}
           hash == [k \in N |-> Hash(k)]
<1>2. IsFiniteSet(N)
  BY NamesAreFinite
<1>3. hash \in Surjection(N, T)
  BY DEF Surjection
<1>4. T \subseteq Int /\ Cardinality(T) = Cardinality(N)
  BY NamesAssumption
<1>5. hash \in Injection(N, T)
  <2> HIDE DEF N, T, hash
  <2> QED
    BY <1>2, <1>3, <1>4, FS_Surjection
<1>6. \A a, b \in N : hash[a] = hash[b] => a = b
  BY <1>5 DEF Injection, IsInjective
<1> QED
  BY <1>4, <1>6
-----------------------------------------------------------------------------
(* A picture of an object by its rank: part, level and suborder.           *)
Ranks(kind) ==
  CASE kind = "Stack" -> {<<"Body", Actor, 0>>, <<"Shadow", ActorUnderlay, 0>>, <<"Banner", Actor, 1>>}
    [] kind = "Bag"   -> {<<"Body", GroundObject, 0>>}
    [] OTHER          -> {<<"Body", Structure, 0>>, <<"Shadow", Structure, -1>>, <<"Banner", Structure, 1>>}
StandsOn(o) == IF o.kind = "Stack" THEN {o.at} ELSE o.plan
PictureOf(o, r) == Primitive(<<r[1], o.id>>, StandsOn(o), r[2], r[3])
BodyRank(kind) == IF kind = "Stack" THEN Actor ELSE IF kind = "Bag" THEN GroundObject ELSE Structure
TreeAt(c) == Primitive(<<"Tree", "Forest", c>>, {c}, GroundObject, 0)
ShieldAt(o) == Primitive(<<"Shield", o.stack>>, o.plan, Actor, 0)

LEMMA PicturesAreRanked ==
  ASSUME NEW w, NEW assets, NEW visuals, NEW o, NEW p \in Pictures(w, assets, visuals, o)
  PROVE  \E r \in Ranks(o.kind) : p = PictureOf(o, r)
<1>1. CASE o.kind = "Stack"
  <2>1. Ranks(o.kind) = {<<"Body", Actor, 0>>, <<"Shadow", ActorUnderlay, 0>>, <<"Banner", Actor, 1>>}
    BY <1>1 DEF Ranks
  <2>2. StandsOn(o) = {o.at} /\ p \in StackPictures(w, visuals, o)
    BY <1>1 DEF StandsOn, Pictures, Sites
  <2>3. \/ p = PictureOf(o, <<"Body", Actor, 0>>)
        \/ p = PictureOf(o, <<"Shadow", ActorUnderlay, 0>>)
        \/ p = PictureOf(o, <<"Banner", Actor, 1>>)
    BY <2>2 DEF StackPictures, PictureOf
  <2> QED
    BY <2>1, <2>3
<1>2. CASE o.kind = "Bag"
  <2>1. p = PictureOf(o, <<"Body", GroundObject, 0>>)
    BY <1>2 DEF Pictures, TreasurePictures, Body, PictureOf, StandsOn, Sites
  <2> QED
    BY <1>2, <2>1 DEF Ranks
<1>3. CASE o.kind \notin {"Stack", "Bag"}
  <2>1. Ranks(o.kind) = {<<"Body", Structure, 0>>, <<"Shadow", Structure, -1>>, <<"Banner", Structure, 1>>}
    BY <1>3 DEF Ranks
  <2>2. StandsOn(o) = o.plan /\ p \in Body(o, Structure) \cup ShadowUnder(o, assets) \cup BannerOf(o)
    BY <1>3 DEF StandsOn, Pictures, CityPictures, SitePictures, RuinPictures, OtherPictures
  <2>3. \/ p = PictureOf(o, <<"Body", Structure, 0>>)
        \/ p = PictureOf(o, <<"Shadow", Structure, -1>>)
        \/ p = PictureOf(o, <<"Banner", Structure, 1>>)
    BY <2>2 DEF Body, ShadowUnder, BannerOf, PictureOf
  <2> QED
    BY <2>1, <2>3
<1> QED
  BY <1>1, <1>2, <1>3

LEMMA BodyIsShown ==
  ASSUME NEW w, NEW assets, NEW visuals, NEW o
  PROVE  PictureOf(o, <<"Body", BodyRank(o.kind), 0>>) \in Pictures(w, assets, visuals, o)
<1>1. CASE o.kind = "Stack"
  BY <1>1 DEF Pictures, Sites, StackPictures, PictureOf, StandsOn, BodyRank
<1>2. CASE o.kind = "Bag"
  BY <1>2 DEF Pictures, TreasurePictures, Body, PictureOf, StandsOn, Sites, BodyRank
<1>3. CASE o.kind \notin {"Stack", "Bag"}
  <2>1. Body(o, Structure) \subseteq Pictures(w, assets, visuals, o)
    BY <1>3 DEF Pictures, CityPictures, SitePictures, RuinPictures, OtherPictures
  <2>2. PictureOf(o, <<"Body", BodyRank(o.kind), 0>>) \in Body(o, Structure)
    BY <1>3 DEF Body, PictureOf, StandsOn, BodyRank
  <2> QED
    BY <2>1, <2>2
<1> QED
  BY <1>1, <1>2, <1>3

LEMMA PrimitiveIs ==
  ASSUME NEW w, NEW assets, NEW visuals, NEW p \in Primitives(w, assets, visuals)
  PROVE  \/ \E o \in WithPicture(w, assets, visuals) : \E r \in Ranks(o.kind) : p = PictureOf(o, r)
         \/ \E c \in DOMAIN w.terrain : IsForest(w.terrain[c]) /\ p = TreeAt(c)
         \/ \E o \in Hosts(w) : p = ShieldAt(o)
<1>1. CASE p \in UNION {Pictures(w, assets, visuals, o) : o \in WithPicture(w, assets, visuals)}
  <2>1. PICK o \in WithPicture(w, assets, visuals) : p \in Pictures(w, assets, visuals, o)
    BY <1>1
  <2>2. PICK r \in Ranks(o.kind) : p = PictureOf(o, r)
    BY <2>1, PicturesAreRanked
  <2> QED
    BY <2>1, <2>2
<1>2. CASE p \in Trees(w, assets)
  BY <1>2 DEF Trees, TreeAt
<1>3. CASE p \in Shields(w)
  BY <1>3 DEF Shields, ShieldAt
<1>4. \/ p \in UNION {Pictures(w, assets, visuals, o) : o \in WithPicture(w, assets, visuals)}
      \/ p \in Trees(w, assets) \/ p \in Shields(w)
  BY DEF Primitives
<1> QED
  BY <1>1, <1>2, <1>3, <1>4

(* A name with what it is the name of.                                     *)
LEMMA PrimitiveFields ==
  /\ \A o, r : LET p == PictureOf(o, r)
               IN  /\ p.part = r[1] /\ p.of = o.id /\ p.cells = StandsOn(o) /\ p.anchor = DepthAnchor(StandsOn(o))
                   /\ p.level = r[2] /\ p.suborder = r[3] /\ p.id = Hash(<<r[1], o.id>>)
  /\ \A c : LET p == TreeAt(c)
            IN  /\ p.part = "Tree" /\ p.of = "Forest" /\ p.cells = {c} /\ p.anchor = DepthAnchor({c})
                /\ p.level = GroundObject /\ p.suborder = 0 /\ p.id = Hash(<<"Tree", "Forest", c>>)
  /\ \A o : LET p == ShieldAt(o)
            IN  /\ p.part = "Shield" /\ p.of = o.stack /\ p.cells = o.plan /\ p.anchor = DepthAnchor(o.plan)
                /\ p.level = Actor /\ p.suborder = 0 /\ p.id = Hash(<<"Shield", o.stack>>)
BY DEF PictureOf, TreeAt, ShieldAt, Primitive

(* The world a map is made of, and what can be made of it.                 *)
Drawable(sc, w, assets, game, visuals) ==
  /\ sc \in Scenarios /\ w = World(sc)
  /\ ~DuplicateStacks(w) /\ ~WorldFails(w, assets, game, visuals)

LEMMA TerrainIsOnMap ==
  ASSUME NEW sc
  PROVE  DOMAIN World(sc).terrain \subseteq Cells /\ (World(sc).terrain # << >> => DOMAIN World(sc).terrain = Cells)
BY DEF World, Terrain

LEMMA HostFacts ==
  ASSUME NEW sc, NEW w, NEW assets, NEW game, NEW visuals, Drawable(sc, w, assets, game, visuals), NEW o \in Hosts(w)
  PROVE  /\ o \in w.objects /\ o.stack \notin Empty /\ o.plan # {}
         /\ \A r \in Hosts(w) : r.stack = o.stack => r = o
<1>1. ~ShieldFails(w, o) /\ \A r \in Hosts(w) : ~ShieldFails(w, r)
  BY DEF Drawable, WorldFails
<1>2. PICK s \in Guest(w, o) : o \in Home(w, s)
  BY <1>1 DEF ShieldFails
<1>3. ASSUME NEW r \in Hosts(w), r.stack = o.stack PROVE r = o
  <2>1. Guest(w, r) = Guest(w, o)
    BY <1>3 DEF Guest
  <2>2. r \in Home(w, s)
    BY <1>1, <1>2, <2>1 DEF ShieldFails
  <2>3. r.id = o.id /\ r \in w.objects /\ o \in w.objects
    BY <1>2, <2>2 DEF Home, OfKind
  <2> QED
    BY <2>3, IdsDiffer DEF Drawable
<1> QED
  BY <1>1, <1>3 DEF ShieldFails, Hosts, OfKind

(* What a name says of the picture it is the name of.                      *)
OfObject(w, p, n) == \E o \in w.objects : \E r \in Ranks(o.kind) : p = PictureOf(o, r) /\ n = <<r[1], o.id>>
OfTree(w, p, n) == \E c \in DOMAIN w.terrain : p = TreeAt(c) /\ n = <<"Tree", "Forest", c>>
OfShield(w, p, n) == \E o \in Hosts(w) : p = ShieldAt(o) /\ n = <<"Shield", o.stack>>

LEMMA PicturesAreNamed ==
  ASSUME NEW sc, NEW w, NEW assets, NEW game, NEW visuals, Drawable(sc, w, assets, game, visuals),
         NEW x \in Primitives(w, assets, visuals)
  PROVE  \E n \in NamesIn(sc) : x.id = Hash(n) /\ (OfObject(w, x, n) \/ OfTree(w, x, n) \/ OfShield(w, x, n))
<1>1. CASE \E o \in WithPicture(w, assets, visuals) : \E r \in Ranks(o.kind) : x = PictureOf(o, r)
  <2>1. PICK o \in WithPicture(w, assets, visuals) : \E r \in Ranks(o.kind) : x = PictureOf(o, r)
    BY <1>1
  <2>2. PICK r \in Ranks(o.kind) : x = PictureOf(o, r)
    BY <2>1
  <2>3. o \in w.objects /\ r[1] \in {"Body", "Shadow", "Banner"}
    BY DEF WithPicture, Ranks
  <2>4. <<r[1], o.id>> \in NamesIn(sc)
    BY <2>3, ObjectFacts DEF Drawable
  <2>5. OfObject(w, x, <<r[1], o.id>>) /\ x.id = Hash(<<r[1], o.id>>)
    BY <2>2, <2>3, PrimitiveFields DEF OfObject
  <2> QED
    BY <2>4, <2>5
<1>2. CASE \E c \in DOMAIN w.terrain : x = TreeAt(c)
  <2>1. PICK c \in DOMAIN w.terrain : x = TreeAt(c)
    BY <1>2
  <2>2. <<"Tree", "Forest", c>> \in NamesIn(sc)
    BY TerrainIsOnMap DEF Drawable, NamesIn
  <2>3. OfTree(w, x, <<"Tree", "Forest", c>>) /\ x.id = Hash(<<"Tree", "Forest", c>>)
    BY <2>1, PrimitiveFields DEF OfTree
  <2> QED
    BY <2>2, <2>3
<1>3. CASE \E o \in Hosts(w) : x = ShieldAt(o)
  <2>1. PICK o \in Hosts(w) : x = ShieldAt(o)
    BY <1>3
  <2>2. <<"Shield", o.stack>> \in NamesIn(sc)
    BY HostFacts, ObjectFacts DEF Drawable
  <2>3. OfShield(w, x, <<"Shield", o.stack>>) /\ x.id = Hash(<<"Shield", o.stack>>)
    BY <2>1, PrimitiveFields DEF OfShield
  <2> QED
    BY <2>2, <2>3
<1> QED
  BY <1>1, <1>2, <1>3, PrimitiveIs

(* The name determines the picture.                                        *)
LEMMA PicturesDiffer ==
  ASSUME NEW sc, NEW w, NEW assets, NEW game, NEW visuals, Drawable(sc, w, assets, game, visuals),
         NEW p \in Primitives(w, assets, visuals), NEW q \in Primitives(w, assets, visuals), p.id = q.id
  PROVE  p = q
<1>2. PICK n \in NamesIn(sc) : p.id = Hash(n) /\ (OfObject(w, p, n) \/ OfTree(w, p, n) \/ OfShield(w, p, n))
  BY PicturesAreNamed
<1>3. PICK m \in NamesIn(sc) : q.id = Hash(m) /\ (OfObject(w, q, m) \/ OfTree(w, q, m) \/ OfShield(w, q, m))
  BY PicturesAreNamed
<1>4. m = n
  BY <1>2, <1>3, HashesDiffer DEF Drawable
<1>5. \A k : /\ (\E x : OfObject(w, x, k)) => Len(k) = 2 /\ k[1] \in {"Body", "Shadow", "Banner"}
             /\ (\E x : OfTree(w, x, k)) => k[1] = "Tree"
             /\ (\E x : OfShield(w, x, k)) => k[1] = "Shield"
  BY DEF OfObject, OfTree, OfShield, Ranks
<1>6. CASE OfObject(w, p, n) /\ OfObject(w, q, n)
  <2>1. PICK o \in w.objects : \E r \in Ranks(o.kind) : p = PictureOf(o, r) /\ n = <<r[1], o.id>>
    BY <1>6 DEF OfObject
  <2>2. PICK r \in Ranks(o.kind) : p = PictureOf(o, r) /\ n = <<r[1], o.id>>
    BY <2>1
  <2>3. PICK u \in w.objects : \E s \in Ranks(u.kind) : q = PictureOf(u, s) /\ n = <<s[1], u.id>>
    BY <1>6 DEF OfObject
  <2>4. PICK s \in Ranks(u.kind) : q = PictureOf(u, s) /\ n = <<s[1], u.id>>
    BY <2>3
  <2>5. u.id = o.id /\ s[1] = r[1]
    BY <2>2, <2>4
  <2>6. u = o
    BY <2>5, IdsDiffer DEF Drawable
  <2>7. s = r
    BY <2>5, <2>6 DEF Ranks
  <2> QED
    BY <2>2, <2>4, <2>6, <2>7
<1>7. CASE OfTree(w, p, n) /\ OfTree(w, q, n)
  BY <1>7 DEF OfTree
<1>8. CASE OfShield(w, p, n) /\ OfShield(w, q, n)
  <2>1. PICK o \in Hosts(w) : p = ShieldAt(o) /\ n = <<"Shield", o.stack>>
    BY <1>8 DEF OfShield
  <2>2. PICK u \in Hosts(w) : q = ShieldAt(u) /\ n = <<"Shield", u.stack>>
    BY <1>8 DEF OfShield
  <2>3. u = o
    BY <2>1, <2>2, HostFacts
  <2> QED
    BY <2>1, <2>2, <2>3
<1> QED
  BY <1>2, <1>3, <1>4, <1>5, <1>6, <1>7, <1>8

LEMMA RankFacts ==
  ASSUME NEW kind, NEW r \in Ranks(kind)
  PROVE  r[1] \in {"Body", "Shadow", "Banner"} /\ r[2] \in 0 .. 3 /\ r[3] \in {-1, 0, 1}
<1> USE DEF Actor, ActorUnderlay, Structure, GroundObject
<1>1. CASE kind = "Stack"
  <2>1. r \in {<<"Body", 3, 0>>, <<"Shadow", 2, 0>>, <<"Banner", 3, 1>>}
    BY <1>1 DEF Ranks
  <2> QED
    BY <2>1
<1>2. CASE kind = "Bag"
  <2>1. r \in {<<"Body", 0, 0>>}
    BY <1>2 DEF Ranks
  <2> QED
    BY <2>1
<1>3. CASE kind \notin {"Stack", "Bag"}
  <2>1. r \in {<<"Body", 1, 0>>, <<"Shadow", 1, -1>>, <<"Banner", 1, 1>>}
    BY <1>3 DEF Ranks
  <2> QED
    BY <2>1
<1> QED
  BY <1>1, <1>2, <1>3

LEMMA PicturesAreSortable ==
  ASSUME NEW sc, NEW w, NEW assets, NEW game, NEW visuals, Drawable(sc, w, assets, game, visuals),
         NEW p \in Primitives(w, assets, visuals)
  PROVE  /\ Sortable(p) /\ p.cells \in SUBSET (Int \X Int) /\ IsFiniteSet(p.cells)
         /\ p.anchor = DepthAnchor(p.cells)
<1>1. p.id \in Int
  BY PicturesAreNamed, HashesDiffer DEF Drawable
<1>2. p.cells \in SUBSET (Int \X Int) /\ IsFiniteSet(p.cells) /\ p.anchor = DepthAnchor(p.cells)
      /\ p.level \in Int /\ p.suborder \in Int
  <2>1. CASE \E o \in WithPicture(w, assets, visuals) : \E r \in Ranks(o.kind) : p = PictureOf(o, r)
    <3>1. PICK o \in WithPicture(w, assets, visuals) : \E r \in Ranks(o.kind) : p = PictureOf(o, r)
      BY <2>1
    <3>2. PICK r \in Ranks(o.kind) : p = PictureOf(o, r)
      BY <3>1
    <3>3. o \in World(sc).objects
      BY DEF WithPicture, Drawable
    <3>4. StandsOn(o) \in SUBSET (Int \X Int) /\ IsFiniteSet(StandsOn(o))
      BY <3>3, ObjectFacts, FS_Singleton DEF StandsOn, Drawable
    <3>5. r[2] \in Int /\ r[3] \in Int
      BY RankFacts
    <3> QED
      BY <3>2, <3>4, <3>5, PrimitiveFields
  <2>2. CASE \E c \in DOMAIN w.terrain : p = TreeAt(c)
    <3>1. PICK c \in DOMAIN w.terrain : p = TreeAt(c)
      BY <2>2
    <3>2. c \in Int \X Int
      BY TerrainIsOnMap, CellFacts DEF Drawable
    <3>3. {c} \in SUBSET (Int \X Int) /\ IsFiniteSet({c})
      BY <3>2, FS_Singleton
    <3>4. p.cells = {c} /\ p.anchor = DepthAnchor({c}) /\ p.level = 0 /\ p.suborder = 0
      BY <3>1, PrimitiveFields DEF GroundObject
    <3> QED
      BY <3>3, <3>4
  <2>3. CASE \E o \in Hosts(w) : p = ShieldAt(o)
    <3>1. PICK o \in Hosts(w) : p = ShieldAt(o)
      BY <2>3
    <3>2. o \in World(sc).objects
      BY HostFacts DEF Drawable
    <3>3. o.plan \in SUBSET (Int \X Int) /\ IsFiniteSet(o.plan)
      BY <3>2, ObjectFacts DEF Drawable
    <3> QED
      BY <3>1, <3>3, PrimitiveFields DEF Actor
  <2> QED
    BY <2>1, <2>2, <2>3, PrimitiveIs
<1>3. p.anchor \in Int \X Int
  BY <1>2, AnchorIsPlace
<1> QED
  BY <1>1, <1>2, <1>3 DEF Sortable

LEMMA PicturesAreFinite ==
  ASSUME NEW sc, NEW w, NEW assets, NEW game, NEW visuals, Drawable(sc, w, assets, game, visuals)
  PROVE  IsFiniteSet(Primitives(w, assets, visuals))
<1> DEFINE S == Primitives(w, assets, visuals)
           N == NamesIn(sc)
           label == [p \in S |-> CHOOSE n \in N : p.id = Hash(n)]
<1>1. \A p \in S : label[p] \in N /\ p.id = Hash(label[p])
  BY PicturesAreNamed
<1>2. \A p, q \in S : label[p] = label[q] => p = q
  BY <1>1, PicturesDiffer
<1>3. label \in Injection(S, N)
  <2> HIDE DEF S, N
  <2>1. label \in [S -> N]
    BY <1>1
  <2> HIDE DEF label
  <2> QED
    BY <1>2, <2>1 DEF Injection, IsInjective
<1>4. IsFiniteSet(N)
  BY NamesAreFinite DEF Drawable
<1> HIDE DEF S, N, label
<1>5. IsFiniteSet(S)
  BY <1>3, <1>4, FS_Injection
<1> QED
  BY <1>5 DEF S

(* Sorted lists what it sorts, all of it, once and in order.               *)
LEMMA SortedIsOrder ==
  ASSUME NEW S, IsFiniteSet(S), \A p \in S : Sortable(p), \A p, q \in S : p.id = q.id => p = q
  PROVE  /\ Cardinality(S) \in Nat /\ DOMAIN Sorted(S) = 1 .. Cardinality(S)
         /\ \A i \in DOMAIN Sorted(S) : Sorted(S)[i] \in S
         /\ \A p \in S : \E i \in DOMAIN Sorted(S) : Sorted(S)[i] = p
         /\ \A i, j \in DOMAIN Sorted(S) : i < j => ComesBefore(Sorted(S)[i], Sorted(S)[j])
<1> DEFINE R == {e \in S \X S : ComesBefore(e[1], e[2])}
           N == Cardinality(S)
           Rank(p) == Cardinality({q \in S : ComesBefore(q, p)})
<1>1. \A x, y \in S : <<x, y>> \in R <=> ComesBefore(x, y)
  OBVIOUS
<1> HIDE DEF R
<1>2. StrictTotalOrder(S, R)
  <2>1. \A x \in S : <<x, x>> \notin R
    BY <1>1, PaintingOrderIsStrict
  <2>2. ASSUME NEW x \in S, NEW y \in S, NEW z \in S, <<x, y>> \in R, <<y, z>> \in R PROVE <<x, z>> \in R
    BY <2>2, <1>1, PaintingOrderIsStrict
  <2>3. ASSUME NEW x \in S, NEW y \in S, x # y PROVE <<x, y>> \in R \/ <<y, x>> \in R
    BY <2>3, <1>1, PaintingOrderIsStrict
  <2> QED
    BY <2>1, <2>2, <2>3 DEF StrictTotalOrder
<1>3. \A p \in S : Rank(p) = Cardinality(Below(S, R, p))
  <2>1. \A p \in S : {q \in S : ComesBefore(q, p)} = Below(S, R, p)
    BY <1>1 DEF Below
  <2> QED
    BY <2>1
<1> HIDE DEF Rank
<1>4. /\ N \in Nat
      /\ \A p \in S : Rank(p) \in 0 .. N - 1
      /\ \A p, q \in S : ComesBefore(p, q) => Rank(p) < Rank(q)
  <2>1. /\ N \in Nat
        /\ \A x \in S : Cardinality(Below(S, R, x)) \in 0 .. N - 1
        /\ \A x, y \in S : <<x, y>> \in R => Cardinality(Below(S, R, x)) < Cardinality(Below(S, R, y))
    BY <1>2, RanksGrow
  <2>2. ASSUME NEW p \in S, NEW q \in S, ComesBefore(p, q) PROVE Rank(p) < Rank(q)
    <3>1. <<p, q>> \in R
      BY <2>2, <1>1
    <3>2. Cardinality(Below(S, R, p)) < Cardinality(Below(S, R, q))
      BY <2>1, <3>1
    <3> QED
      BY <3>2, <1>3
  <2> QED
    BY <2>1, <2>2, <1>3
<1>5. \A k \in 0 .. N - 1 : \E p \in S : Rank(p) = k
  BY <1>2, <1>3, RanksAreTaken
<1>6. Sorted(S) = [i \in 1 .. N |-> CHOOSE p \in S : Rank(p) = i - 1]
  BY DEF Sorted, Rank
<1> HIDE DEF N
<1>7. \A i \in 1 .. N : Sorted(S)[i] \in S /\ Rank(Sorted(S)[i]) = i - 1
  <2> SUFFICES ASSUME NEW i \in 1 .. N PROVE Sorted(S)[i] \in S /\ Rank(Sorted(S)[i]) = i - 1
    OBVIOUS
  <2>1. i - 1 \in 0 .. N - 1
    BY <1>4
  <2>2. \E p \in S : Rank(p) = i - 1
    BY <2>1, <1>5
  <2>3. Sorted(S)[i] = CHOOSE p \in S : Rank(p) = i - 1
    BY <1>6
  <2> QED
    BY <2>2, <2>3
<1>8. \A p, q \in S : p # q => Rank(p) < Rank(q) \/ Rank(q) < Rank(p)
  BY <1>1, <1>2, <1>4 DEF StrictTotalOrder
<1>9. ASSUME NEW p \in S PROVE \E i \in 1 .. N : Sorted(S)[i] = p
  <2>1. PICK k \in 0 .. N - 1 : Rank(p) = k
    BY <1>4
  <2>2. k + 1 \in 1 .. N /\ (k + 1) - 1 = k
    BY <1>4
  <2>3. Sorted(S)[k + 1] \in S /\ Rank(Sorted(S)[k + 1]) = k
    BY <2>2, <1>7
  <2>4. Sorted(S)[k + 1] = p
    BY <2>1, <2>3, <1>8
  <2> QED
    BY <2>2, <2>4
<1>10. ASSUME NEW i \in 1 .. N, NEW j \in 1 .. N, i < j PROVE ComesBefore(Sorted(S)[i], Sorted(S)[j])
  <2> DEFINE p == Sorted(S)[i]
             q == Sorted(S)[j]
  <2>1. p \in S /\ q \in S /\ Rank(p) = i - 1 /\ Rank(q) = j - 1
    BY <1>7
  <2> HIDE DEF p, q
  <2>2. Rank(p) < Rank(q)
    BY <2>1, <1>10, <1>4
  <2>3. p # q /\ ~ComesBefore(q, p)
    BY <2>1, <2>2, <1>4
  <2>4. ComesBefore(p, q)
    BY <2>1, <2>3, <1>1, <1>2 DEF StrictTotalOrder
  <2> QED
    BY <2>4 DEF p, q
<1>11. DOMAIN Sorted(S) = 1 .. N
  BY <1>6
<1>12. \A i, j \in 1 .. N : i < j => ComesBefore(Sorted(S)[i], Sorted(S)[j])
  BY <1>10
<1> QED
  BY <1>4, <1>7, <1>9, <1>11, <1>12 DEF N

(* The list of pictures is that of the objects, trees and shields.         *)
LEMMA PicturesAreListed ==
  ASSUME NEW sc, NEW w, NEW assets, NEW game, NEW visuals, Drawable(sc, w, assets, game, visuals),
         NEW L, L = Sorted(Primitives(w, assets, visuals))
  PROVE  /\ Cardinality(Primitives(w, assets, visuals)) \in Nat
         /\ DOMAIN L = 1 .. Cardinality(Primitives(w, assets, visuals))
         /\ \A i \in DOMAIN L : L[i] \in Primitives(w, assets, visuals)
         /\ \A p \in Primitives(w, assets, visuals) : \E i \in DOMAIN L : L[i] = p
         /\ \A i, j \in DOMAIN L : i < j => ComesBefore(L[i], L[j])
<1> DEFINE S == Primitives(w, assets, visuals)
<1>1. IsFiniteSet(S)
  BY PicturesAreFinite
<1>2. \A p \in S : Sortable(p)
  BY PicturesAreSortable
<1>3. \A p, q \in S : p.id = q.id => p = q
  BY PicturesDiffer
<1> HIDE DEF S
<1>4. /\ Cardinality(S) \in Nat /\ DOMAIN Sorted(S) = 1 .. Cardinality(S)
      /\ \A i \in DOMAIN Sorted(S) : Sorted(S)[i] \in S
      /\ \A p \in S : \E i \in DOMAIN Sorted(S) : Sorted(S)[i] = p
      /\ \A i, j \in DOMAIN Sorted(S) : i < j => ComesBefore(Sorted(S)[i], Sorted(S)[j])
  BY <1>1, <1>2, <1>3, SortedIsOrder
<1>5. L = Sorted(S)
  BY DEF S
<1> QED
  BY <1>4, <1>5 DEF S

(* Of the pictures of one object at one anchor the shadow is the lowest    *)
(* and the banner the highest.                                             *)
LEMMA ShadowBelowBanner ==
  ASSUME NEW sc, NEW w, NEW assets, NEW game, NEW visuals, Drawable(sc, w, assets, game, visuals),
         NEW p \in Primitives(w, assets, visuals), NEW q \in Primitives(w, assets, visuals),
         p.of = q.of, p.anchor = q.anchor, p.part # "Shield", q.part # "Shield", ComesBefore(p, q)
  PROVE  p.part # "Banner" /\ q.part # "Shadow"
<1> USE DEF Actor, ActorUnderlay, Structure, GroundObject
<1>1. \A x \in Primitives(w, assets, visuals) : x.part # "Shield" =>
        \/ \E o \in WithPicture(w, assets, visuals) : \E r \in Ranks(o.kind) : x = PictureOf(o, r)
        \/ x.part = "Tree" /\ x.of = "Forest"
  BY PrimitiveIs, PrimitiveFields
<1>2. CASE p.part = "Tree" /\ p.of = "Forest" /\ q.part = "Tree" /\ q.of = "Forest"
  BY <1>2
<1>3. ASSUME NEW x \in Primitives(w, assets, visuals), NEW o \in WithPicture(w, assets, visuals),
             NEW r \in Ranks(o.kind), x = PictureOf(o, r)
      PROVE  /\ o \in World(sc).objects /\ x.of = o.id /\ x.of # "Forest" /\ x.part = r[1]
             /\ x.level = r[2] /\ x.suborder = r[3]
  <2>1. o \in World(sc).objects
    BY DEF WithPicture, Drawable
  <2>2. o.id # "Forest"
    BY <2>1, ObjectFacts DEF Drawable
  <2> QED
    BY <2>1, <2>2, <1>3, PrimitiveFields
<1>4. CASE /\ \E o \in WithPicture(w, assets, visuals) : \E r \in Ranks(o.kind) : p = PictureOf(o, r)
           /\ \E o \in WithPicture(w, assets, visuals) : \E r \in Ranks(o.kind) : q = PictureOf(o, r)
  <2>1. PICK o \in WithPicture(w, assets, visuals) : \E r \in Ranks(o.kind) : p = PictureOf(o, r)
    BY <1>4
  <2>2. PICK r \in Ranks(o.kind) : p = PictureOf(o, r)
    BY <2>1
  <2>3. PICK u \in WithPicture(w, assets, visuals) : \E s \in Ranks(u.kind) : q = PictureOf(u, s)
    BY <1>4
  <2>4. PICK s \in Ranks(u.kind) : q = PictureOf(u, s)
    BY <2>3
  <2>5. u = o
    <3>1. u \in World(sc).objects /\ o \in World(sc).objects /\ u.id = o.id
      BY <2>2, <2>4, <1>3
    <3> QED
      BY <3>1, IdsDiffer DEF Drawable
  <2>6. /\ p.part = r[1] /\ p.level = r[2] /\ p.suborder = r[3]
        /\ q.part = s[1] /\ q.level = s[2] /\ q.suborder = s[3] /\ s \in Ranks(o.kind)
    BY <2>2, <2>4, <2>5, <1>3
  <2>7. r # s
    <3>1. ~ComesBefore(p, p)
      BY PicturesAreSortable, PaintingOrderIsStrict
    <3> QED
      BY <3>1, <2>2, <2>4, <2>5
  <2>8. r[2] < s[2] \/ (r[2] = s[2] /\ r[3] <= s[3])
    <3>1. r[2] \in Int /\ s[2] \in Int /\ r[3] \in Int /\ s[3] \in Int
      BY <2>6, RankFacts
    <3> QED
      BY <3>1, <2>6 DEF ComesBefore
  <2>9. r[1] # "Banner" /\ s[1] # "Shadow"
    <3>1. CASE o.kind = "Stack"
      <4>1. r \in {<<"Body", 3, 0>>, <<"Shadow", 2, 0>>, <<"Banner", 3, 1>>}
            /\ s \in {<<"Body", 3, 0>>, <<"Shadow", 2, 0>>, <<"Banner", 3, 1>>}
        BY <3>1, <2>6 DEF Ranks
      <4> QED
        BY <4>1, <2>7, <2>8
    <3>2. CASE o.kind = "Bag"
      <4>1. r = <<"Body", 0, 0>> /\ s = <<"Body", 0, 0>>
        BY <3>2, <2>6 DEF Ranks
      <4> QED
        BY <4>1
    <3>3. CASE o.kind \notin {"Stack", "Bag"}
      <4>1. r \in {<<"Body", 1, 0>>, <<"Shadow", 1, -1>>, <<"Banner", 1, 1>>}
            /\ s \in {<<"Body", 1, 0>>, <<"Shadow", 1, -1>>, <<"Banner", 1, 1>>}
        BY <3>3, <2>6 DEF Ranks
      <4> QED
        BY <4>1, <2>7, <2>8
    <3> QED
      BY <3>1, <3>2, <3>3
  <2> QED
    BY <2>6, <2>9
<1> QED
  BY <1>1, <1>2, <1>3, <1>4

(* A picture stands somewhere.                                             *)
LEMMA PicturesStand ==
  ASSUME NEW sc, NEW w, NEW assets, NEW game, NEW visuals, Drawable(sc, w, assets, game, visuals),
         NEW p \in Primitives(w, assets, visuals)
  PROVE  p.cells # {}
<1>1. CASE \E o \in WithPicture(w, assets, visuals) : \E r \in Ranks(o.kind) : p = PictureOf(o, r)
  <2>1. PICK o \in WithPicture(w, assets, visuals) : \E r \in Ranks(o.kind) : p = PictureOf(o, r)
    BY <1>1
  <2>2. p.cells = StandsOn(o)
    BY <2>1, PrimitiveFields
  <2>3. o \in World(sc).objects /\ HasPicture(o, assets, visuals)
    BY DEF WithPicture, Drawable
  <2>4. CASE o.kind = "Stack"
    BY <2>2, <2>4 DEF StandsOn
  <2>5. CASE o.kind # "Stack"
    <3>1. PICK u \in sc.objects : o.kind = u.kind /\ o.plan = Footprint(sc, u)
      BY <2>3, ObjectIsOfScenario DEF Drawable
    <3>2. CASE u.kind \in Buildings
      <4>1. o.kind \in {"Village", "Capital"} \/ o.kind \in Sites \cup {"Ruin"}
        BY <3>1, <3>2 DEF Buildings, Settlements
      <4>2. o.plan # {}
        BY <2>3, <4>1, <2>5 DEF HasPicture, Sites
      <4> QED
        BY <2>2, <2>5, <4>2 DEF StandsOn
    <3>3. CASE u.kind \notin Buildings
      BY <2>2, <2>5, <3>1, <3>3 DEF StandsOn, Footprint
    <3> QED
      BY <3>2, <3>3
  <2> QED
    BY <2>4, <2>5
<1>2. CASE \E c \in DOMAIN w.terrain : p = TreeAt(c)
  BY <1>2, PrimitiveFields
<1>3. CASE \E o \in Hosts(w) : p = ShieldAt(o)
  BY <1>3, PrimitiveFields, HostFacts
<1> QED
  BY <1>1, <1>2, <1>3, PrimitiveIs

(* The parts of what is prepared, of the objects they are of.              *)
LEMMA GraphFacts ==
  ASSUME NEW w, NEW assets, NEW game, NEW visuals, NEW g, g = Graph(w, assets, game, visuals)
  PROVE  /\ g.world = Sorted(Primitives(w, assets, visuals))
         /\ \A r \in OfKind(w, {"Road"}) : HasPicture(r, assets, visuals) => RoadPicture(r) \in g.overlay
         /\ \A p \in g.overlay : \E r \in OfKind(w, {"Road"}) : p = RoadPicture(r)
         /\ \A o \in w.objects :
              ~HasPicture(o, assets, visuals) /\ (o.kind = "Stack" => o.inside \in Empty) => o.id \in g.unresolved
BY DEF Graph

LEMMA RoadFields ==
  ASSUME NEW r
  PROVE  RoadPicture(r).of = r.id /\ RoadPicture(r).cells = {r.at} /\ RoadPicture(r).part = "Road"
BY DEF RoadPicture, Primitive

(* What is prepared of a world, and what is seen of it.                    *)
MapIsPrepared ==
  /\ Drawable(scenario, world, scenario.assets, Game, actors)
  /\ {"world", "overlay", "unresolved", "picks", "ruined"} \subseteq DOMAIN graph
  /\ \E g : /\ g = Graph(world, scenario.assets, Game, actors)
             /\ graph.world = g.world /\ graph.overlay = g.overlay /\ graph.unresolved = g.unresolved
             /\ graph.picks = g.picks /\ graph.ruined = g.ruined
IsSeen(of, c) == of \in graph.unresolved \/ \E p \in PrimitivesOf(of) : c \in p.cells

LEMMA GraphIsListed ==
  ASSUME MapIsPrepared
  PROVE  /\ graph.world = Sorted(Primitives(world, scenario.assets, actors))
         /\ DOMAIN graph.world \subseteq Nat
         /\ \A i \in DOMAIN graph.world : graph.world[i] \in Primitives(world, scenario.assets, actors)
         /\ \A p \in Primitives(world, scenario.assets, actors) : \E i \in DOMAIN graph.world : graph.world[i] = p
         /\ \A i, j \in DOMAIN graph.world : i < j => ComesBefore(graph.world[i], graph.world[j])
<1>1. graph.world = Sorted(Primitives(world, scenario.assets, actors))
  BY GraphFacts DEF MapIsPrepared
<1> DEFINE L == graph.world
           S == Primitives(world, scenario.assets, actors)
<1>2. Drawable(scenario, world, scenario.assets, Game, actors)
  BY DEF MapIsPrepared
<1>3. L = Sorted(S)
  BY <1>1
<1> HIDE DEF L
<1>4. /\ Cardinality(S) \in Nat /\ DOMAIN L = 1 .. Cardinality(S)
      /\ \A i \in DOMAIN L : L[i] \in S
      /\ \A p \in S : \E i \in DOMAIN L : L[i] = p
      /\ \A i, j \in DOMAIN L : i < j => ComesBefore(L[i], L[j])
  BY <1>2, <1>3, PicturesAreListed
<1> HIDE DEF S
<1>5. DOMAIN L \subseteq Nat
  BY <1>4
<1> QED
  BY <1>3, <1>4, <1>5 DEF L, S

LEMMA PaintedAsListed ==
  ASSUME MapIsPrepared
  PROVE  PaintedInOrder /\ AnchoredInFront
<1> DEFINE S == Primitives(world, scenario.assets, actors)
<1>1. Drawable(scenario, world, scenario.assets, Game, actors)
  BY DEF MapIsPrepared
<1>2. \A x \in S : Sortable(x) /\ x.anchor = DepthAnchor(x.cells) /\ x.cells # {}
  BY <1>1, PicturesAreSortable, PicturesStand
<1>3. \A x, y \in S : x.of = y.of /\ x.anchor = y.anchor /\ x.part # "Shield" /\ y.part # "Shield" /\ ComesBefore(x, y)
        => x.part # "Banner" /\ y.part # "Shadow"
  BY <1>1, ShadowBelowBanner
<1>4. /\ \A i \in DOMAIN graph.world : graph.world[i] \in S
      /\ \A i, j \in DOMAIN graph.world : i < j => ComesBefore(graph.world[i], graph.world[j])
  BY GraphIsListed
<1> HIDE DEF S
<1>5. PaintedInOrder
  <2> SUFFICES ASSUME NEW i \in DOMAIN graph.world, NEW j \in DOMAIN graph.world, i < j
               PROVE  LET p == graph.world[i]
                          q == graph.world[j]
                      IN  /\ ComesBefore(p, q) /\ ~ComesBefore(q, p)
                          /\ p.of = q.of /\ p.anchor = q.anchor /\ p.part # "Shield" /\ q.part # "Shield" =>
                               p.part # "Banner" /\ q.part # "Shadow"
    BY DEF PaintedInOrder
  <2> DEFINE p == graph.world[i]
             q == graph.world[j]
  <2>1. p \in S /\ q \in S /\ ComesBefore(p, q)
    BY <1>4
  <2> HIDE DEF p, q
  <2>2. ~ComesBefore(q, p)
    BY <2>1, <1>2, PaintingOrderIsStrict
  <2>3. p.of = q.of /\ p.anchor = q.anchor /\ p.part # "Shield" /\ q.part # "Shield" =>
          p.part # "Banner" /\ q.part # "Shadow"
    BY <2>1, <1>3
  <2> QED
    BY <2>1, <2>2, <2>3 DEF p, q
<1>6. AnchoredInFront
  <2>1. ASSUME NEW p \in S, p.cells \subseteq Cells
        PROVE  p.anchor \in p.cells /\ \A c \in p.cells : Depth(c) <= Depth(p.anchor)
    BY <2>1, <1>2, AnchorIsFrontMost
  <2> QED
    BY <2>1, <1>4 DEF AnchoredInFront
<1> QED
  BY <1>5, <1>6

LEMMA ObjectsAreSeen ==
  ASSUME MapIsPrepared, NEW o \in world.objects, o.kind = "Stack" => o.inside \in Empty,
         NEW c \in IF o.kind = "Road" THEN {o.at} ELSE StandsOn(o)
  PROVE  IsSeen(o.id, c)
<1> DEFINE assets == scenario.assets
<1>1. PICK g : /\ g = Graph(world, assets, Game, actors)
               /\ graph.world = g.world /\ graph.overlay = g.overlay /\ graph.unresolved = g.unresolved
  BY DEF MapIsPrepared
<1>2. CASE ~HasPicture(o, assets, actors)
  <2>1. o.id \in graph.unresolved
    BY <1>1, <1>2, GraphFacts
  <2> QED
    BY <2>1 DEF IsSeen
<1>3. CASE HasPicture(o, assets, actors) /\ o.kind = "Road"
  <2>1. RoadPicture(o) \in graph.overlay
    <3>1. o \in OfKind(world, {"Road"})
      BY <1>3 DEF OfKind
    <3> QED
      BY <1>1, <1>3, <3>1, GraphFacts
  <2>2. RoadPicture(o) \in PrimitivesOf(o.id) /\ c \in RoadPicture(o).cells
    BY <2>1, <1>3, RoadFields DEF PrimitivesOf
  <2> QED
    BY <2>2 DEF IsSeen
<1>4. CASE HasPicture(o, assets, actors) /\ o.kind # "Road"
  <2> DEFINE p == PictureOf(o, <<"Body", BodyRank(o.kind), 0>>)
  <2>1. o \in WithPicture(world, assets, actors)
    BY <1>4 DEF WithPicture, OfKind
  <2>2. p \in Pictures(world, assets, actors, o)
    BY BodyIsShown
  <2>3. p \in Primitives(world, assets, actors)
    BY <2>1, <2>2 DEF Primitives
  <2>4. p.of = o.id /\ p.cells = StandsOn(o)
    BY PrimitiveFields
  <2> HIDE DEF p
  <2>5. PICK i \in DOMAIN graph.world : graph.world[i] = p
    BY <2>3, GraphIsListed
  <2>6. p \in PrimitivesOf(o.id) /\ c \in p.cells
    BY <2>4, <2>5, <1>4 DEF PrimitivesOf
  <2> QED
    BY <2>6 DEF IsSeen
<1> QED
  BY <1>2, <1>3, <1>4

LEMMA ForestIsSeen ==
  ASSUME MapIsPrepared, NEW c \in DOMAIN world.terrain, CodeOf(world.terrain[c]) \notin scenario.assets.noTrees
  PROVE  IsForest(world.terrain[c]) <=> \E p \in PrimitivesOf("Forest") : c \in p.cells
<1> DEFINE assets == scenario.assets
           S == Primitives(world, assets, actors)
<1>1. Drawable(scenario, world, assets, Game, actors)
  BY DEF MapIsPrepared
<1>2. ASSUME IsForest(world.terrain[c]) PROVE \E p \in PrimitivesOf("Forest") : c \in p.cells
  <2>1. TreeAt(c) \in Trees(world, assets)
    BY <1>2 DEF Trees, TreeAt
  <2>2. TreeAt(c) \in S
    BY <2>1 DEF Primitives
  <2>3. TreeAt(c).of = "Forest" /\ TreeAt(c).cells = {c}
    BY PrimitiveFields
  <2>4. PICK i \in DOMAIN graph.world : graph.world[i] = TreeAt(c)
    BY <2>2, GraphIsListed
  <2>5. TreeAt(c) \in PrimitivesOf("Forest")
    BY <2>3, <2>4 DEF PrimitivesOf
  <2> QED
    BY <2>3, <2>5
<1>3. ASSUME NEW p \in PrimitivesOf("Forest"), c \in p.cells PROVE IsForest(world.terrain[c])
  <2>1. p.of = "Forest" /\ (p \in graph.overlay \/ \E i \in DOMAIN graph.world : p = graph.world[i])
    BY DEF PrimitivesOf
  <2>2. \A o \in world.objects : o.id # "Forest"
    BY <1>1, ObjectFacts DEF Drawable
  <2>3. CASE p \in graph.overlay
    <3>1. PICK r \in OfKind(world, {"Road"}) : p = RoadPicture(r)
      BY <2>3, GraphFacts DEF MapIsPrepared
    <3>2. p.of = r.id /\ r \in world.objects
      BY <3>1, RoadFields DEF OfKind
    <3> QED
      BY <3>2, <2>1, <2>2
  <2>4. CASE p \in S
    <3>1. CASE \E o \in WithPicture(world, assets, actors) : \E r \in Ranks(o.kind) : p = PictureOf(o, r)
      <4>1. PICK o \in WithPicture(world, assets, actors) : \E r \in Ranks(o.kind) : p = PictureOf(o, r)
        BY <3>1
      <4>2. p.of = o.id /\ o \in world.objects
        BY <4>1, PrimitiveFields DEF WithPicture
      <4> QED
        BY <4>2, <2>1, <2>2
    <3>2. CASE \E b \in DOMAIN world.terrain : IsForest(world.terrain[b]) /\ p = TreeAt(b)
      BY <3>2, <1>3, PrimitiveFields
    <3>3. CASE \E o \in Hosts(world) : p = ShieldAt(o)
      <4>1. PICK o \in Hosts(world) : p = ShieldAt(o)
        BY <3>3
      <4>2. p.of = o.stack
        BY <4>1, PrimitiveFields
      <4>3. Guest(world, o) # {}
        BY <1>1 DEF Drawable, WorldFails, ShieldFails
      <4>4. PICK s \in world.objects : s.id = o.stack
        BY <4>3 DEF Guest, OfKind
      <4> QED
        BY <4>2, <4>4, <2>1, <2>2
    <3> QED
      BY <2>4, <3>1, <3>2, <3>3, PrimitiveIs
  <2> QED
    BY <2>1, <2>3, <2>4, GraphIsListed
<1> QED
  BY <1>2, <1>3

LEMMA StructuresBlock ==
  ASSUME MapIsPrepared, NEW i \in DOMAIN graph.world, graph.world[i].level = Structure
  PROVE  graph.world[i].cells \subseteq Blocked(world)
<1> DEFINE p == graph.world[i]
           assets == scenario.assets
<1> USE DEF Actor, ActorUnderlay, Structure, GroundObject
<1>1. p \in Primitives(world, assets, actors) /\ p.level = 1
  BY GraphIsListed
<1> HIDE DEF p
<1>2. CASE \E o \in WithPicture(world, assets, actors) : \E r \in Ranks(o.kind) : p = PictureOf(o, r)
  <2>1. PICK o \in WithPicture(world, assets, actors) : \E r \in Ranks(o.kind) : p = PictureOf(o, r)
    BY <1>2
  <2>2. PICK r \in Ranks(o.kind) : p = PictureOf(o, r)
    BY <2>1
  <2>3. r[2] = 1 /\ p.cells = StandsOn(o)
    BY <1>1, <2>2, PrimitiveFields
  <2>4. o.kind \notin {"Stack", "Bag"}
    BY <2>3 DEF Ranks
  <2>5. o \in Obstacles(world)
    BY <2>4 DEF WithPicture, OfKind, Obstacles
  <2> QED
    BY <2>3, <2>4, <2>5 DEF StandsOn, Blocked, p
<1>3. CASE \E c \in DOMAIN world.terrain : p = TreeAt(c)
  BY <1>1, <1>3, PrimitiveFields
<1>4. CASE \E o \in Hosts(world) : p = ShieldAt(o)
  BY <1>1, <1>4, PrimitiveFields
<1> QED
  BY <1>1, <1>2, <1>3, <1>4, PrimitiveIs

LEMMA GroundIsCode ==
  ASSUME NEW raw
  PROVE  /\ GroundOf(raw) = "Water" <=> CodeOf(raw) = "WA"
         /\ GroundOf(raw) = "Forest" <=> IsForest(raw)
<1>1. MaterialOf(raw) = "WA" => raw \in {7, 29}
  BY DEF MaterialOf, LowBytes
<1>2. IsForest(raw) => raw \notin {7, 29}
  BY DEF IsForest
<1>3. CodeOf(raw) = "WA" <=> MaterialOf(raw) = "WA"
  BY DEF CodeOf
<1> QED
  BY <1>1, <1>2, <1>3 DEF GroundOf

LEMMA WaterIsSeen ==
  ASSUME SurfaceIsMade, NEW c \in DOMAIN world.terrain, "WA" \notin scenario.assets.noGround
  PROVE  CodeOf(world.terrain[c]) = "WA" <=> HasLayer(c, "Base", "WA")
<1> DEFINE t == world.terrain
           assets == scenario.assets
           s == Prepared(t, assets)
           L == canvas[c]
           own == CodeOf(t[c])
<1>1. DOMAIN canvas = DOMAIN t
  BY DEF SurfaceIsMade, Painted
<1>2. L = Painted(t, s)[c]
  BY <1>1, LayersSeen
<1>3. s.water = {b \in DOMAIN t : CodeOf(t[b]) = "WA"} /\ s.land = {b \in DOMAIN t : CodeOf(t[b]) \in Lands}
  BY PreparedFacts
<1>4. own = "WA" => HasGround(s, own)
  <2>1. HasGround(s, "WA") <=> "WA" \in Codes \ assets.noGround /\ Users(t, assets, "WA") # {}
    BY PreparedFacts
  <2>2. own = "WA" => c \in Users(t, assets, "WA")
    BY DEF Users
  <2> QED
    BY <2>1, <2>2 DEF Codes
<1>5. /\ Base(t, c).kind = "Base" /\ Base(t, c).code = own
      /\ ShoreOf(s, c).kind = "Shore" /\ Spilled.kind = "Spill"
      /\ \A code : BorderOf(s, c, code).kind = "Border"
  BY DEF Base, ShoreOf, Spilled, BorderOf, Layer
<1> HIDE DEF s
<1>6. /\ Len(L) \in Nat /\ DOMAIN L = 1 .. Len(L)
      /\ \A i \in 1 .. Len(L) :
            \/ L[i] = Base(t, c) \/ L[i] = ShoreOf(s, c) \/ L[i] = Spilled
            \/ \E code \in Lands : L[i] = BorderOf(s, c, code)
      /\ own \in Lands \cup {"WA"} /\ HasGround(s, own) => Len(L) >= 1 /\ L[1] = Base(t, c)
  BY <1>2, <1>3, LayersAre
<1>7. HasLayer(c, "Base", "WA") <=> \E i \in DOMAIN L : L[i].kind = "Base" /\ L[i].code = "WA"
  BY DEF HasLayer, LayersOf
<1> HIDE DEF L, own
<1>8. ASSUME own = "WA" PROVE \E i \in DOMAIN L : L[i].kind = "Base" /\ L[i].code = "WA"
  BY <1>4, <1>5, <1>6, <1>8
<1>9. ASSUME NEW i \in DOMAIN L, L[i].kind = "Base", L[i].code = "WA" PROVE own = "WA"
  BY <1>5, <1>6, <1>9
<1> QED
  BY <1>7, <1>8, <1>9 DEF own

LEMMA WalkedAsSeen ==
  ASSUME MapIsPrepared, SurfaceIsMade, stage = "Ready", Navigable(world)
  PROVE  WalkedIsSeen
<1> DEFINE nav == NavigationMap(world)
           assets == scenario.assets
<1>1. /\ nav.ground = [c \in Cells |-> GroundOf(world.terrain[c])]
      /\ nav.road = {r.at : r \in OfKind(world, {"Road"})} \cap Cells
      /\ nav.blocking = Blocked(world)
      /\ \A c \in Cells : nav.occupant[c] # Nobody => \E s \in OnMap(world) : s.at = c /\ s.id = nav.occupant[c]
  <2>1. /\ nav.ground = [c \in Cells |-> GroundOf(world.terrain[c])]
        /\ nav.road = {r.at : r \in OfKind(world, {"Road"})} \cap Cells
        /\ nav.blocking = Blocked(world)
        /\ nav.occupant = [c \in Cells |-> LET there == {s \in OnMap(world) : s.at = c}
                                           IN  IF there = {} THEN Nobody ELSE (CHOOSE s \in there : TRUE).id]
    BY DEF NavigationMap
  <2> HIDE DEF nav
  <2>2. ASSUME NEW c \in Cells, nav.occupant[c] # Nobody
        PROVE  \E s \in OnMap(world) : s.at = c /\ s.id = nav.occupant[c]
    <3> DEFINE there == {s \in OnMap(world) : s.at = c}
    <3>1. nav.occupant[c] = IF there = {} THEN Nobody ELSE (CHOOSE s \in there : TRUE).id
      BY <2>1
    <3>2. there # {}
      BY <3>1, <2>2
    <3>3. (CHOOSE s \in there : TRUE) \in there
      BY <3>2
    <3> QED
      BY <3>1, <3>2, <3>3
  <2> QED
    BY <2>1, <2>2
<1>2. DOMAIN world.terrain = Cells
  <2>1. world = World(scenario) /\ world.terrain # << >>
    BY DEF MapIsPrepared, Drawable, Navigable
  <2> QED
    BY <2>1, TerrainIsOnMap
<1> HIDE DEF nav
<1>3. ASSUME NEW c \in Cells
      PROVE  /\ "WA" \notin assets.noGround => (nav.ground[c] = "Water" <=> HasLayer(c, "Base", "WA"))
             /\ CodeOf(world.terrain[c]) \notin assets.noTrees =>
                  (nav.ground[c] = "Forest" <=> \E p \in PrimitivesOf("Forest") : c \in p.cells)
  <2>1. nav.ground[c] = GroundOf(world.terrain[c]) /\ c \in DOMAIN world.terrain
    BY <1>1, <1>2
  <2> QED
    BY <2>1, GroundIsCode, WaterIsSeen, ForestIsSeen
<1>4. ASSUME NEW c \in nav.blocking PROVE \E o \in Obstacles(world) : c \in o.plan /\ IsSeen(o.id, c)
  <2>1. PICK o \in Obstacles(world) : c \in o.plan
    BY <1>1 DEF Blocked
  <2>2. o \in world.objects /\ o.kind \notin {"Road", "Stack"}
    BY DEF Obstacles
  <2>3. c \in StandsOn(o)
    BY <2>1, <2>2 DEF StandsOn
  <2> QED
    BY <2>1, <2>2, <2>3, ObjectsAreSeen
<1>5. ASSUME NEW c \in nav.road PROVE \E r \in OfKind(world, {"Road"}) : r.at = c /\ IsSeen(r.id, c)
  <2>1. PICK r \in OfKind(world, {"Road"}) : r.at = c
    BY <1>1
  <2>2. r \in world.objects /\ r.kind = "Road"
    BY DEF OfKind
  <2> QED
    BY <2>1, <2>2, ObjectsAreSeen
<1>6. ASSUME NEW c \in Cells, nav.occupant[c] # Nobody PROVE IsSeen(nav.occupant[c], c)
  <2>1. PICK s \in OnMap(world) : s.at = c /\ s.id = nav.occupant[c]
    BY <1>1, <1>6
  <2>2. s \in world.objects /\ s.kind = "Stack" /\ s.inside \in Empty
    BY DEF OnMap, OfKind
  <2>3. c \in StandsOn(s)
    BY <2>1, <2>2 DEF StandsOn
  <2> QED
    BY <2>1, <2>2, <2>3, ObjectsAreSeen
<1>7. ASSUME NEW i \in DOMAIN graph.world, graph.world[i].level = Structure
      PROVE  graph.world[i].cells \subseteq nav.blocking
  BY <1>1, <1>7, StructuresBlock
<1>8. WalkedIsSeen <=>
        /\ \A c \in Cells :
             /\ "WA" \notin assets.noGround => (nav.ground[c] = "Water" <=> HasLayer(c, "Base", "WA"))
             /\ CodeOf(world.terrain[c]) \notin assets.noTrees =>
                  (nav.ground[c] = "Forest" <=> \E p \in PrimitivesOf("Forest") : c \in p.cells)
             /\ c \in nav.blocking => \E o \in Obstacles(world) : c \in o.plan /\ IsSeen(o.id, c)
             /\ c \in nav.road => \E r \in OfKind(world, {"Road"}) : r.at = c /\ IsSeen(r.id, c)
             /\ nav.occupant[c] # Nobody => IsSeen(nav.occupant[c], c)
        /\ \A i \in DOMAIN graph.world :
             graph.world[i].level = Structure => graph.world[i].cells \subseteq nav.blocking
  BY DEF WalkedIsSeen, IsSeen, nav
<1> HIDE DEF assets
<1> QED
  BY <1>3, <1>4, <1>5, <1>6, <1>7, <1>8 DEF assets

(* From when on the objects are prepared.                                  *)
WithGraph == {"WorldPrepared", "TerrainPainted", "Ready"}
GraphInv ==
  /\ SurfaceInv
  /\ scenario \in Scenarios
  /\ stage \in {"Loaded", "ActorsResolved"} \cup WithSurface => ~DuplicateStacks(world)
  /\ stage \in WithGraph => MapIsPrepared

LEMMA PreparedIsKept ==
  ASSUME MapIsPrepared, UNCHANGED <<scenario, world, actors>>,
         \/ graph' = graph
         \/ \E m : graph' = [graph EXCEPT !.masks = m]
  PROVE  MapIsPrepared'
<1> DEFINE parts == {"world", "overlay", "unresolved", "picks", "ruined"}
<1>1. /\ DOMAIN graph' = DOMAIN graph
      /\ \A part \in parts : graph'[part] = graph[part]
  <2>1. parts \subseteq DOMAIN graph /\ "masks" \notin parts
    BY DEF MapIsPrepared
  <2> HIDE DEF parts
  <2>2. CASE graph' = graph
    BY <2>2
  <2>3. CASE \E m : graph' = [graph EXCEPT !.masks = m]
    BY <2>1, <2>3
  <2> QED
    BY <2>2, <2>3
<1>2. /\ graph'.world = graph.world /\ graph'.overlay = graph.overlay /\ graph'.unresolved = graph.unresolved
      /\ graph'.picks = graph.picks /\ graph'.ruined = graph.ruined
  BY <1>1
<1>3. Drawable(scenario, world, scenario.assets, Game, actors)'
  BY DEF MapIsPrepared, Game
<1> QED
  BY <1>1, <1>2, <1>3 DEF MapIsPrepared, Game

LEMMA GraphInvIsInductive == Spec => []GraphInv
<1>1. Init => GraphInv /\ SurfaceInv
  BY DEF Init, SurfaceInv, GraphInv, WithSurface, WithCanvas, WithGraph
<1>2. SurfaceInv' /\ GraphInv /\ [Next]_mapVars => GraphInv'
  <2> SUFFICES ASSUME SurfaceInv', GraphInv, [Next]_mapVars PROVE GraphInv'
    OBVIOUS
  <2> USE DEF WithSurface, WithGraph
  <2>1. CASE Load
    <3>1. /\ scenario' = scenario
          /\ stage' \in {"Refused", "Failed", "Loaded"} /\ (stage' = "Loaded" => ~DuplicateStacks(world'))
      BY <2>1 DEF Load
    <3> QED
      BY <3>1 DEF GraphInv
  <2>2. CASE ResolveActors
    <3>1. UNCHANGED <<scenario, world>> /\ stage = "Loaded" /\ stage' \in {"Failed", "ActorsResolved"}
      BY <2>2 DEF ResolveActors
    <3> QED
      BY <3>1 DEF GraphInv
  <2>3. CASE PrepareTerrain
    <3>1. UNCHANGED <<scenario, world>> /\ stage = "ActorsResolved" /\ stage' \in {"Failed", "TerrainPrepared"}
      BY <2>3 DEF PrepareTerrain
    <3> QED
      BY <3>1 DEF GraphInv
  <2>4. CASE PrepareWorld
    <3>1. /\ UNCHANGED <<scenario, world, actors>> /\ stage = "TerrainPrepared"
          /\ \/ stage' = "Failed"
             \/ /\ stage' = "WorldPrepared" /\ ~WorldFails(world, scenario.assets, Game, actors)
                /\ graph' = Graph(world, scenario.assets, Game, actors)
      BY <2>4 DEF PrepareWorld
    <3>2. CASE stage' = "Failed"
      BY <3>1, <3>2 DEF GraphInv
    <3>3. CASE stage' = "WorldPrepared"
      <4>1. world = World(scenario) /\ scenario \in Scenarios /\ ~DuplicateStacks(world)
        BY <3>1 DEF GraphInv, SurfaceInv
      <4>2. Drawable(scenario, world, scenario.assets, Game, actors)
        BY <3>1, <3>3, <4>1 DEF Drawable
      <4>3. {"world", "overlay", "unresolved", "picks", "ruined"} \subseteq DOMAIN Graph(world, scenario.assets, Game, actors)
        BY DEF Graph
      <4>4. MapIsPrepared'
        BY <3>1, <3>3, <4>2, <4>3 DEF MapIsPrepared, Game
      <4> QED
        BY <3>1, <3>3, <4>1, <4>4 DEF GraphInv
    <3> QED
      BY <3>1, <3>2, <3>3
  <2>5. CASE PaintTerrain
    <3>1. UNCHANGED <<scenario, world, actors, graph>> /\ stage = "WorldPrepared" /\ stage' \in {"Failed", "TerrainPainted"}
      BY <2>5 DEF PaintTerrain
    <3> QED
      BY <3>1, PreparedIsKept DEF GraphInv
  <2>6. CASE BuildMasks
    <3>1. /\ UNCHANGED <<scenario, world, actors>> /\ stage = "TerrainPainted" /\ stage' \in {"Failed", "Ready"}
          /\ graph' = graph \/ graph' = [graph EXCEPT !.masks = Masks(graph, scenario.assets, actors)]
      BY <2>6 DEF BuildMasks
    <3>2. graph' = graph \/ \E m : graph' = [graph EXCEPT !.masks = m]
      BY <3>1
    <3> QED
      BY <3>1, <3>2, PreparedIsKept DEF GraphInv
  <2>7. CASE \/ \E at \in scenario.points : Point(at) \/ Inspect(at)
             \/ CloseInformation
             \/ \E a \in scenario.asks : Ask(a)
             \/ SearchRoute
             \/ UNCHANGED mapVars
    <3>1. UNCHANGED <<scenario, world, stage, actors, graph>>
      BY <2>7 DEF Point, Inspect, CloseInformation, Ask, SearchRoute, mapVars, drawingVars
    <3> QED
      BY <3>1, PreparedIsKept DEF GraphInv
  <2> QED
    BY <2>1, <2>2, <2>3, <2>4, <2>5, <2>6, <2>7 DEF Next
<1> QED
  BY <1>1, <1>2, SurfaceInvIsInductive, PTL DEF Spec

LEMMA InvMeansGround == SurfaceInv /\ stage = "Ready" => SurfaceIsMade
<1> SUFFICES ASSUME SurfaceInv, stage = "Ready" PROVE SurfaceIsMade
  OBVIOUS
<1>1. world = World(scenario) /\ surface = Prepared(world.terrain, scenario.assets)
      /\ canvas = Painted(world.terrain, surface)
  BY DEF SurfaceInv, WithSurface, WithCanvas
<1> QED
  BY <1>1, TerrainIsOnMap DEF SurfaceIsMade

(* Whatever stands on a map of any size, everything is painted once and in *)
(* order, a shadow below its body and a banner above, each picture at the  *)
(* cell of its object that is nearest to the viewer (prepare and resolve,  *)
(* iso_depth_resolver.cpp:8-49, map_geometry.cpp:64-89; the run of the map *)
(* asserts it in DrawnWhereItStands).                                      *)
THEOREM PaintingIsOrdered == Spec => [](stage = "Ready" => PaintedInOrder /\ AnchoredInFront)
<1>1. GraphInv => (stage = "Ready" => PaintedInOrder /\ AnchoredInFront)
  BY PaintedAsListed DEF GraphInv, WithGraph
<1> QED
  BY <1>1, GraphInvIsInductive, PTL

(* On a map of any size the player sees what the rules walk on: water and  *)
(* forest where they are, a picture or a report for everything that blocks *)
(* a cell, makes it cheap or stands in it, and no building where nothing   *)
(* blocks (AdventureNavigationMapBuilder::build against the preparation of *)
(* terrain and objects; the run of the map asserts it in                   *)
(* MapIsDrawnAsWalked).                                                    *)
THEOREM WalkedIsAlwaysSeen == Spec => []WalkedIsSeen
<1>1. GraphInv => WalkedIsSeen
  <2>1. CASE ~(stage = "Ready" /\ Navigable(world))
    BY <2>1 DEF WalkedIsSeen
  <2>2. CASE GraphInv /\ stage = "Ready" /\ Navigable(world)
    BY <2>2, WalkedAsSeen, InvMeansGround DEF GraphInv, WithGraph
  <2> QED
    BY <2>1, <2>2
<1> QED
  BY <1>1, GraphInvIsInductive, PTL
=============================================================================
