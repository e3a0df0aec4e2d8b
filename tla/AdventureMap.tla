---------------------------- MODULE AdventureMap ----------------------------
(***************************************************************************)
(* A scenario is loaded, its map is prepared and painted, the player       *)
(* points at it, looks at stacks and asks the session for routes: the      *)
(* loader, the start-up of the adventure screen, the window of a stack and *)
(* the search of a route, composed.  The functions are in AdventureWorld,  *)
(* TerrainSurface and MapGraph, the search is in Pathfinder.               *)
(*                                                                         *)
(* A scenario also has .assets, the images there are; .asks, the routes    *)
(* that may be asked for; .points, the places of the canvas that may be    *)
(* pointed at; and .drawn: with FALSE the session is used alone.           *)
(***************************************************************************)
EXTENDS MapGraph, Pathfinder

CONSTANT Scenarios

(* The places are places of the canvas, or off it, in whole units; a route *)
(* is asked for with one of the three profiles, and to any place.          *)
ASSUME ScenariosAssumption ==
  \A sc \in Scenarios : /\ sc.points \subseteq Int \X Int
                        /\ \A a \in sc.asks : a.profile \in Profile

(* What a scenario is made of: finitely many objects at whole places and   *)
(* a plan of whole cells.  An id is that of one object, as the files have  *)
(* it; only two stacks may share one, which the session looks for.         *)
ScenarioObject ==
  [kind : STRING, id : STRING \ {"Forest"}, at : Int \X Int, image : Int, size : Int \X Int,
   stack : STRING, inside : STRING, leader : STRING, subrace : STRING,
   members : Seq(STRING), cells : Seq(Int)]
ASSUME ObjectsAssumption ==
  \A sc \in Scenarios :
    /\ sc.objects \subseteq ScenarioObject /\ IsFiniteSet(sc.objects)
    /\ \A o, r \in sc.objects : o.id = r.id => o = r \/ (o.kind = "Stack" /\ r.kind = "Stack")
    /\ sc.plan \in Seq([element : STRING, cell : Int \X Int])

(* The pictures of one scenario have different stable ids.  They are       *)
(* hashes of 64 bits, and the code does not look whether two are the same. *)
NamesIn(sc) ==
  ({"Body", "Shadow", "Banner"} \X {o.id : o \in sc.objects})
  \cup ({"Shield"} \X ({o.stack : o \in sc.objects} \ Empty))
  \cup {<<"Tree", "Forest", c>> : c \in Cells}
ASSUME NamesAssumption ==
  \A sc \in Scenarios :
    /\ {Hash(n) : n \in NamesIn(sc)} \subseteq Int
    /\ Cardinality({Hash(n) : n \in NamesIn(sc)}) = Cardinality(NamesIn(sc))

VARIABLES
  scenario, world,  (* what is loaded, and the world made of it             *)
  stage,            (* how far the start-up is                              *)
  actors,           (* the stacks that have a picture, with it              *)
  surface, canvas,  (* the prepared terrain, and what is painted of it      *)
  graph,            (* what stands on it                                    *)
  pointed,          (* the last place pointed at, and what was found there  *)
  information       (* the window of a stack, if it is open                 *)

drawingVars == <<actors, surface, canvas, graph, pointed, information>>
mapVars == <<scenario, world, stage, drawingVars, pathVars>>

Nothing == << >>
Game == GameOf[scenario.assets.disk]
Iso == Isounits[scenario.assets.isounit]

Init ==
  /\ scenario \in Scenarios
  /\ world = Nothing /\ stage = "Start"
  /\ actors = Nothing /\ surface = Nothing /\ canvas = Nothing /\ graph = Nothing
  /\ pointed = Nothing /\ information = Nothing
  /\ PathInit

(* load_semantic, and the constructor of the session.                      *)
Load ==
  /\ stage = "Start"
  /\ IF Refused(scenario)
     THEN stage' = "Refused" /\ UNCHANGED world
     ELSE /\ world' = World(scenario)
          /\ stage' = IF DuplicateStacks(world') THEN "Failed" ELSE "Loaded"
  /\ UNCHANGED <<scenario, drawingVars, pathVars>>

(* The start-up of the screen, in its order.  An exception ends it.        *)
ResolveActors ==
  /\ stage = "Loaded" /\ scenario.drawn
  /\ IF \E s \in OnMap(world) : ActorFails(world, Game, Iso, s)
     THEN stage' = "Failed" /\ UNCHANGED actors
     ELSE stage' = "ActorsResolved" /\ actors' = Actors(world, Game, Iso)
  /\ UNCHANGED <<scenario, world, surface, canvas, graph, pointed, information, pathVars>>

PrepareTerrain ==
  /\ stage = "ActorsResolved"
  /\ IF CrowdedShape(world.terrain, scenario.assets)
     THEN stage' = "Failed" /\ UNCHANGED surface
     ELSE stage' = "TerrainPrepared" /\ surface' = Prepared(world.terrain, scenario.assets)
  /\ UNCHANGED <<scenario, world, actors, canvas, graph, pointed, information, pathVars>>

PrepareWorld ==
  /\ stage = "TerrainPrepared"
  /\ IF WorldFails(world, scenario.assets, Game, actors)
     THEN stage' = "Failed" /\ UNCHANGED graph
     ELSE stage' = "WorldPrepared" /\ graph' = Graph(world, scenario.assets, Game, actors)
  /\ UNCHANGED <<scenario, world, actors, surface, canvas, pointed, information, pathVars>>

(* The shields are counted against the settlements before anything is      *)
(* shown, by picture and by what can be pointed at.                        *)
ShieldsIn(g) == {i \in DOMAIN g.world : g.world[i].part = "Shield"}
ShieldsAddUp ==
  LET hosts == Cardinality(Hosts(world))
  IN  /\ Cardinality(ShieldsIn(graph)) = hosts
      /\ Cardinality({i \in ShieldsIn(graph) : graph.world[i].id \in graph.picks}) = hosts

PaintTerrain ==
  /\ stage = "WorldPrepared"
  /\ IF ShieldsAddUp /\ BannersPair(world, graph)
     THEN stage' = "TerrainPainted" /\ canvas' = Painted(world.terrain, surface)
     ELSE stage' = "Failed" /\ UNCHANGED canvas
  /\ UNCHANGED <<scenario, world, actors, surface, graph, pointed, information, pathVars>>

(* The masks are made when the images of the world have been uploaded.     *)
BuildMasks ==
  /\ stage = "TerrainPainted"
  /\ IF MasksFail(graph, scenario.assets, actors)
     THEN stage' = "Failed" /\ UNCHANGED graph
     ELSE stage' = "Ready" /\ graph' = [graph EXCEPT !.masks = Masks(graph, scenario.assets, actors)]
  /\ UNCHANGED <<scenario, world, actors, surface, canvas, pointed, information, pathVars>>

(* The map reacts while no window lies over it.                            *)
MapReacts == stage = "Ready" /\ information = Nothing
Found(at) == [at |-> at, cell |-> CanvasToCell(at), hit |-> HitTest(graph, at)]

Point(at) ==
  /\ MapReacts
  /\ pointed' = Found(at)
  /\ UNCHANGED <<scenario, world, stage, actors, surface, canvas, graph, information, pathVars>>

(* handle_inspect_at, and the window that is pushed.                       *)
Inspect(at) ==
  /\ MapReacts
  /\ pointed' = Found(at)
  /\ information' = IF pointed'.hit.target = Nobody THEN Nothing
                    ELSE Window(world, Game, pointed'.hit.target)
  /\ UNCHANGED <<scenario, world, stage, actors, surface, canvas, graph, pathVars>>

CloseInformation ==
  /\ information # Nothing
  /\ information' = Nothing
  /\ UNCHANGED <<scenario, world, stage, actors, surface, canvas, graph, pointed, pathVars>>

(* GameSession::find_route: the navigation map is made anew every time.    *)
Ask(a) ==
  /\ IF scenario.drawn THEN MapReacts ELSE stage = "Loaded"
  /\ request = NoRequest \/ result # Pending
  /\ search' = NoSearch
  /\ IF Navigable(world)
     THEN /\ \E s \in OnMap(world) :
               /\ s.id = a.mover
               /\ request' = [nav |-> NavigationMap(world), profile |-> a.profile, mover |-> s.id,
                              start |-> s.at, goal |-> a.goal]
          /\ result' = Pending
     ELSE /\ request' = NoRequest
          /\ result' = [status |-> "NavigationMapInvalid", route |-> NoRoute]
  /\ UNCHANGED <<scenario, world, stage, drawingVars>>

SearchRoute == PathNext /\ UNCHANGED <<scenario, world, stage, drawingVars>>

Next ==
  \/ Load \/ ResolveActors \/ PrepareTerrain \/ PrepareWorld \/ PaintTerrain \/ BuildMasks
  \/ \E at \in scenario.points : Point(at) \/ Inspect(at)
  \/ CloseInformation
  \/ \E a \in scenario.asks : Ask(a)
  \/ SearchRoute

Spec == Init /\ [][Next]_mapVars
-----------------------------------------------------------------------------
(* Type invariant: the start-up goes through its stages in order, and each *)
(* part is there from its stage on.                                        *)
MapTypeOK ==
  /\ PathTypeOK
  /\ stage \in {"Start", "Refused", "Failed", "Loaded", "ActorsResolved", "TerrainPrepared",
                "WorldPrepared", "TerrainPainted", "Ready"}
  /\ stage = "Refused" => world = Nothing
  /\ stage = "Ready" => surface # Nothing /\ graph # Nothing /\ DOMAIN canvas = DOMAIN world.terrain
  /\ information # Nothing => stage = "Ready" /\ pointed.hit.target = information.model.id

(* The ground.  Where two grounds meet, exactly one of the two cells shows *)
(* a border of the other; a water cell shows a shore on every side where   *)
(* it ends.  Only a cell that is surrounded on its four sides shows its    *)
(* border there and not at its corners (decomposition).                    *)
Opposite(d) == CHOOSE e \in 1 .. 8 : Directions[e] = <<-Directions[d][1], -Directions[d][2]>>
LayersOf(c, kind, code) ==
  {i \in DOMAIN canvas[c] : canvas[c][i].kind = kind /\ canvas[c][i].code = code}
Shows(c, kind, code, d) == \E i \in LayersOf(c, kind, code) : d \in canvas[c][i].mask
Surrounded(c, codes) == Diagonals \subseteq MaskOf(world.terrain, c, codes)

SeamIsClosed(c, d) ==
  LET b == Neighbour(c, d)
      own == CodeOf(world.terrain[c])
      other == CodeOf(world.terrain[b])
      here == Shows(c, "Border", other, d)
      there == Shows(b, "Border", own, Opposite(d))
  IN  /\ own = other => ~here /\ ~there
      /\ ~(here /\ there)
      /\ {own, other} \cap Lands # {} /\ own # other =>
           \/ here \/ there
           \/ d \notin Diagonals /\ (Surrounded(c, {other}) \/ Surrounded(b, {own}))
      /\ own = "WA" /\ other # "WA" =>
           \/ Shows(c, "Shore", "WA", d)
           \/ d \notin Diagonals /\ Surrounded(c, DOMAIN LowBytes \ {"WA"})

(* The bottom of a cell is its own ground, nothing spills on land, and of  *)
(* two borders the one painted later is of the ground that would win.      *)
LayersAreOrdered(c) ==
  LET own == CodeOf(world.terrain[c])
      borders == {i \in DOMAIN canvas[c] : canvas[c][i].kind = "Border"}
  IN  /\ own # "BL" => canvas[c] # << >> /\ canvas[c][1] = Layer("Base", own, {})
      /\ own \in Lands => \A i \in DOMAIN canvas[c] : canvas[c][i].kind \in {"Base", "Border"}
      /\ \A i, j \in borders : i < j => DominanceRank(canvas[c][i].code) < DominanceRank(canvas[c][j].code)

(* Every image is cut from a ground field that reaches under it.           *)
FieldsReach(c) ==
  \A i \in DOMAIN canvas[c] : canvas[c][i].kind \in {"Base", "Border"} =>
    \A x, y \in 0 .. Box - 1 :
      PatchOf(<<Project(c)[1] + x, Project(c)[2] + y>>) \in surface.fields[canvas[c][i].code]

(* What the tools are told of a cell is what is seen there: the border it  *)
(* names is the one painted last, of the ground it names, or a shore; a    *)
(* cell of which no border is named shows none; borders lie towards the    *)
(* stronger grounds, and strength is seen alike from both sides.           *)
Told(c) == Description(world.terrain, scenario.assets, c, FALSE)
DescriptionIsTrue(c, told) ==
  LET own == CodeOf(world.terrain[c])
      of == told[c]
      layers == canvas[c]
      borders == {i \in DOMAIN layers : layers[i].kind \in {"Border", "Shore"}}
  IN  /\ of.kind = "None" => borders = {}
      /\ of.kind = "Drawable" /\ of.found =>
           IF of.border.family = "WA"
           THEN \E i \in borders : layers[i].kind = "Shore" /\ of.border.mask \subseteq layers[i].mask
           ELSE of.code \in DOMAIN surface.fields =>
                  /\ layers[Len(layers)].kind = "Border" /\ layers[Len(layers)].code = of.code
                  /\ of.border.mask \subseteq layers[Len(layers)].mask
      /\ own \in Lands => \A i \in borders : layers[i].mask \subseteq of.masks.stronger
      /\ \A d \in of.masks.weaker \cup of.masks.stronger :
           d \in of.masks.weaker <=> Opposite(d) \in told[Neighbour(c, d)].masks.stronger
      /\ of.kind = "Drawable" => of.transition /\ of.towards # {}

Whole(assets) == assets.noShape = {} /\ assets.unreadable = {} /\ assets.noGround = {}

(* The painted ground has no seams: with two tables for which ground lies  *)
(* over which, one for who gets a border and one for the order of painting,*)
(* and a mask that is split into the images there are; and what the tools  *)
(* are told of a cell, of the first of its borders, is what is seen of it  *)
(* (adventure_terrain_surface.cpp:304-448, 813-875, 1279-1365, 1562-1666). *)
SurfaceIsSound ==
  stage = "Ready" =>
    LET told == [c \in DOMAIN canvas |-> Told(c)]
    IN  \A c \in DOMAIN canvas :
          /\ FieldsReach(c)
          /\ DescriptionIsTrue(c, told)
          /\ Whole(scenario.assets) =>
               /\ LayersAreOrdered(c)
               /\ \A d \in 1 .. 8 : Neighbour(c, d) \in DOMAIN canvas => SeamIsClosed(c, d)
-----------------------------------------------------------------------------
PrimitivesOf(of) ==
  {p \in {graph.world[i] : i \in DOMAIN graph.world} \cup graph.overlay : p.of = of}
HasLayer(c, kind, code) == LayersOf(c, kind, code) # {}

(* The player sees what the rules walk on, although the map is painted and *)
(* the navigation map is built from the world by different code: water is  *)
(* painted where it is crossed at its price, trees stand where it is       *)
(* forest; what blocks a cell has a picture or is reported to have none,   *)
(* and so have the roads that make a cell cheap; a stack is seen where it  *)
(* is in the way.                                                          *)
WalkedIsSeen ==
  stage = "Ready" /\ Navigable(world) =>
    LET nav == NavigationMap(world)
        assets == scenario.assets
        Seen(of, c) == of \in graph.unresolved \/ \E p \in PrimitivesOf(of) : c \in p.cells
    IN  /\ \A c \in Cells :
             /\ "WA" \notin assets.noGround =>
                  (nav.ground[c] = "Water" <=> HasLayer(c, "Base", "WA"))
             /\ CodeOf(world.terrain[c]) \notin assets.noTrees =>
                  (nav.ground[c] = "Forest" <=> \E p \in PrimitivesOf("Forest") : c \in p.cells)
             /\ c \in nav.blocking => \E o \in Obstacles(world) : c \in o.plan /\ Seen(o.id, c)
             /\ c \in nav.road => \E r \in OfKind(world, {"Road"}) : r.at = c /\ Seen(r.id, c)
             /\ nav.occupant[c] # Nobody => Seen(nav.occupant[c], c)
        /\ \A i \in DOMAIN graph.world :
             graph.world[i].level = Structure => graph.world[i].cells \subseteq nav.blocking
-----------------------------------------------------------------------------
(* Everything is painted once, in an order that does not depend on the     *)
(* order of the scenario, each picture at the cell of its object that is   *)
(* nearest to the viewer, a shadow below its body and a banner above; the  *)
(* shields are those of the settlements, so the start-up's count of them   *)
(* never fails; and a click goes to the front-most cell it lies on, found  *)
(* in a window of nine (map_geometry.cpp:25-89,                            *)
(* iso_depth_resolver.cpp:8-49, adventure_startup_screen.cpp:863-881).     *)
PaintedInOrder ==
  \A i, j \in DOMAIN graph.world : i < j =>
    LET p == graph.world[i]
        q == graph.world[j]
    IN  /\ ComesBefore(p, q) /\ ~ComesBefore(q, p)
        /\ p.of = q.of /\ p.anchor = q.anchor /\ p.part # "Shield" /\ q.part # "Shield" =>
             p.part # "Banner" /\ q.part # "Shadow"
AnchoredInFront ==
  \A i \in DOMAIN graph.world :
    LET p == graph.world[i]
    IN  p.cells \subseteq Cells => p.anchor \in p.cells /\ \A c \in p.cells : Depth(c) <= Depth(p.anchor)
PointerIsRight ==
  pointed # Nothing =>
    LET under == {c \in Cells : InDiamond(pointed.at, c)}
    IN  IF under = {} THEN pointed.cell = Nowhere
        ELSE pointed.cell \in under /\ \A c \in under \ {pointed.cell} : ~InFront(c, pointed.cell)

(* The start-up's account of the map.  What is not drawn is reported, of   *)
(* every kind of object, although the two are counted from different parts *)
(* of the map, and roads and landmarks from the images; every stack on the *)
(* map shows one banner and one picture; what can be pointed at is what    *)
(* has a mask (adventure_startup_screen.cpp:683-1052, 371-433).            *)
AddsUp(tally) == tally.typed = tally.rendered + tally.unresolved
AccountIsRight ==
  LET account == Summary(world, scenario.assets, actors, graph)
      stacks == account.stacks
      IdsOf(kind) == {o.id : o \in OfKind(world, {kind})}
  IN  /\ \A kind \in Sites : AddsUp(account.sites[kind])
      /\ \A p \in {"Land", "Water"} : AddsUp(account.ruins[p]) /\ AddsUp(account.treasures[p])
      /\ AddsUp(account.cities)
      /\ account.roads.rendered = Cardinality(graph.overlay)
      /\ account.landmarks = Tally(graph, OfKind(world, {"Landmark"}))
      /\ stacks.typed = stacks.units + stacks.boats + stacks.unresolved
      /\ stacks.units + stacks.boats = Cardinality(PicturesOf(graph, "Banner", IdsOf("Stack")))
      /\ stacks.shadows["Visible"] = Cardinality(PicturesOf(graph, "Shadow", IdsOf("Stack")))
      /\ account.shields + stacks.units + stacks.boats = Cardinality(DOMAIN graph.masks)

(* What is pointed at.  The stack that is found is there to be looked at,  *)
(* on the map or in a settlement; what lies near is it or is painted later;*)
(* and a stack on the map whose ellipse the place lies in, and which no    *)
(* other stack is near, is found (adventure_pick_index.cpp:53-107).        *)
PositionsOf(id) == {i \in Picked(graph) : graph.world[i].of = id}
TargetIsRight ==
  pointed # Nothing =>
    LET hit == pointed.hit
        near == {i \in Picked(graph) : InRegion(graph.world[i], pointed.at)}
    IN  /\ hit.target # Nobody =>
             /\ hit.hover # Nobody
             /\ Cardinality(PositionsOf(hit.target)) = 1
             /\ \E s \in OfKind(world, {"Stack"}) :
                  s.id = hit.target /\ (s \in OnMap(world) \/ Home(world, s) # {})
             /\ \A i \in PositionsOf(hit.target), j \in PositionsOf(hit.hover) : i <= j
        /\ \A s \in OnMap(world) :
             near = PositionsOf(s.id) /\ near # {} /\ (\E i \in near : InEllipse(graph.world[i], pointed.at)) =>
               hit = [hover |-> s.id, target |-> s.id]
-----------------------------------------------------------------------------
(* The window of a stack.  Each cell that the scenario fills is covered by *)
(* one portrait, of the unit the scenario puts there, and by one frame,    *)
(* wide for a large unit, and nothing else is, although the window goes by *)
(* members with a position and not by cells; the leader is named unless    *)
(* the world reported that it is not a member; and what the log calls      *)
(* unresolved is what the tables do not have                               *)
(* (AdventureWorldBuilder.cpp:128-195, stack_inspection.cpp:145-243,       *)
(* stack_info_asset_plan.cpp:56-163, stack_info_screen.cpp:119-215).       *)
StoredStack(id) == CHOOSE o \in scenario.objects : o.kind = "Stack" /\ o.id = id
CoveredCells(layout) == IF layout[1] = "slot" THEN {layout[2]} ELSE {2 * layout[2], 2 * layout[2] + 1}
LastRow(table, column, id) ==
  LET rows == Rows(Disks[scenario.assets.disk], table)
      at == {i \in DOMAIN rows : Lower(Field(rows[i], column)) = Lower(id)}
  IN  IF at = {} THEN None ELSE rows[Max(at)]

(* The formation is sound: units that are known stand in one cell each, or *)
(* in a row when they are large.                                           *)
CellsStored(o, i) == {c \in Slots : Stored(o.cells, c) = i}
UnitRow(o, i) == LastRow("Gunits", "UNIT_ID", scenario.units[o.members[i + 1]].type)
FormationIsSound(o) ==
  /\ \A what \in {"DanglingStackUnitReference", "InvalidFormationCell", "PositionAssignedToEmptyMember"} :
       <<what, o.id>> \notin world.diagnostics
  /\ \A i \in {Stored(o.cells, c) : c \in Slots} \ {-1} :
       /\ UnitRow(o, i) # None
       /\ CellsStored(o, i) \in IF IsTrue(UnitRow(o, i), "SIZE_SMALL") THEN {{c} : c \in Slots}
                                ELSE {{0, 1}, {2, 3}, {4, 5}}

FormationIsShown(o) ==
  LET portraits == information.plan.portraits
      Covering(c, layouts) == {l \in layouts : c \in CoveredCells(l)}
  IN  \A c \in Slots :
        /\ {p.index : p \in {p \in portraits : c \in CoveredCells(p.layout)}} = {Stored(o.cells, c)} \ {-1}
        /\ Cardinality(Covering(c, information.drawing.frames)) = 1
        /\ Covering(c, {p.layout : p \in portraits}) \subseteq information.drawing.frames

(* What is missing of the unit in a slot, by the scenario and the tables.  *)
AttackMissing(row, column, alsoWithout) ==
  LET id == CanonicalOptionalAttackId(Field(row, column))
  IN  IF id = NoText THEN alsoWithout ELSE LastRow("Gattacks", "ATT_ID", id) = None
GapsOf(id) ==
  IF id \notin DOMAIN scenario.units THEN {"Instance"}
  ELSE LET row == LastRow("Gunits", "UNIT_ID", scenario.units[id].type)
       IN  IF row = None THEN {"Definition"}
           ELSE {gap \in {"Primary", "Secondary"} :
                   IF gap = "Primary" THEN AttackMissing(row, "ATTACK_ID", TRUE) ELSE AttackMissing(row, "ATTACK2_ID", FALSE)}
GapsIn(o) == UNION {IF MemberStored(o, i) \in Empty THEN {} ELSE {i} \X GapsOf(MemberStored(o, i)) : i \in Slots}

InformationIsRight ==
  information # Nothing =>
    LET o == StoredStack(information.model.id)
        model == information.model
    IN  /\ FormationIsSound(o) => FormationIsShown(o)
        /\ Unresolved(model) = GapsIn(o)
        /\ (information.drawing.leader # << >>)
             <=> (o.leader \notin Empty /\ <<"LeaderNotInStackGroup", o.id>> \notin world.diagnostics)
        /\ \A c \in Slots, i \in Slots : model.positions[i] = c => Stored(o.cells, c) = i
        /\ \A n \in DOMAIN model.members : model.slots[model.members[n].index] = model.members[n].id

(* A capital that is shown whole has a guardian who lives.                 *)
GuardianOf(o) ==
  LET player == scenario.subraces[o.subrace].player
  IN  Lower(Field(LastRow("Grace", "RACE_ID", scenario.players[player]), "GUARDIAN"))
CapitalsAreRight ==
  \A o \in ScenarioObjects(scenario, {"Capital"}) : o.id \notin graph.ruined =>
    \E i \in DOMAIN o.members \cap 1 .. 6 :
      LET unit == scenario.units[o.members[i]] IN Lower(unit.type) = GuardianOf(o) /\ unit.hp > 0

DrawnWhereItStands ==
  /\ MapTypeOK
  /\ stage = "WorldPrepared" => ShieldsAddUp
  /\ stage = "Ready" =>
       /\ PaintedInOrder /\ AnchoredInFront /\ PointerIsRight /\ TargetIsRight /\ AccountIsRight /\ CapitalsAreRight
       /\ world.terrain # Nothing => surface.corner = CanvasCorner

(* The map on the screen is the map that is walked on.                     *)
MapIsDrawnAsWalked == WalkedIsSeen /\ DrawnWhereItStands /\ InformationIsRight
=============================================================================
