------------------------------ MODULE MapGraph ------------------------------
(***************************************************************************)
(* What stands on the adventure map and in which order it is painted:      *)
(* src/src/d2adventure_render but for the terrain, with the resolvers that *)
(* choose the picture of a stack, as functions of a world.                 *)
(*                                                                         *)
(* A primitive is one picture: the object it is .of and its .part, the     *)
(* .cells it stands on, the .anchor that sorts it, .level and .suborder    *)
(* among the pictures of one anchor, and its stable .id, a hash of a name  *)
(* made of part, object and, of a tree, cell.  assets.disk and .isounit    *)
(* name the tables of the game and the animations of stacks; .noSprite are *)
(* the objects without a picture, .noTrees the grounds without trees,      *)
(* .noCapital the races whose capitals have none; .shadows says whether    *)
(* buildings have shadows, .banners how many banners there are, and        *)
(* .shield is the picture of a shield.                                     *)
(*                                                                         *)
(* A frame of an animation, and a shield, has .drawn, the places it covers *)
(* relative to the foot of its cell, and a .state: of a "Broken" frame the *)
(* catalogue has no sound entry, and of an "Undecodable" one no image can  *)
(* be made.                                                                *)
(***************************************************************************)
EXTENDS AdventureWorld

CONSTANTS
  Hash(_),   (* stable_render_id, of the name of a picture                  *)
  Isounits   (* the versions of Isounit.ff: frames, by names of animations  *)

(* WorldRenderLevel                                                        *)
GroundObject == 0
Structure == 1
ActorUnderlay == 2
Actor == 3

Depth(c) == c[1] + c[2]
InFront(a, b) ==
  \/ Depth(a) > Depth(b)
  \/ Depth(a) = Depth(b) /\ (a[1] > b[1] \/ (a[1] = b[1] /\ a[2] > b[2]))
FrontMost(cells) == CHOOSE c \in cells : \A b \in cells \ {c} : InFront(c, b)

(* The scan starts at the depth -1 with <<0, 0>>, so of a footprint that   *)
(* lies behind the map nothing is taken.                                   *)
DepthAnchor(cells) ==
  LET ahead == {c \in cells : Depth(c) > -1 \/ (Depth(c) = -1 /\ c[1] > 0)}
  IN  IF ahead = {} THEN <<0, 0>> ELSE FrontMost(ahead)

Primitive(name, cells, level, suborder) ==
  [part |-> name[1], of |-> name[2], cells |-> cells, anchor |-> DepthAnchor(cells),
   level |-> level, suborder |-> suborder, id |-> Hash(name)]
-----------------------------------------------------------------------------
(* The stacks on the map, before anything is prepared: on foot or in a     *)
(* boat, which needs a race.                                               *)
GroundUnder(w, s) == IF s.at \in DOMAIN w.terrain THEN GroundOf(w.terrain[s.at]) ELSE "Unknown"
LeaderDefinition(w, game, s) ==
  IF s.leader \in DOMAIN w.units THEN FindUnit(game, w.units[s.leader].type) ELSE None
WaterAbility == 3
TraversesWater(unit) ==
  "WATER_ONLY" \in unit.flags \/ \E i \in DOMAIN unit.abilities : unit.abilities[i] = WaterAbility
InBoat(w, game, s) == GroundUnder(w, s) = "Water" /\ ~TraversesWater(LeaderDefinition(w, game, s))

RequestFails(w, game, s) ==
  \/ GroundUnder(w, s) = "Unknown"
  \/ LeaderDefinition(w, game, s) = None
  \/ InBoat(w, game, s) /\ RaceOf(w, s) = NoId

(* The names of animations: of the unit or the race of the boat, and of    *)
(* the direction.  Units move and stand, and each has a shadow.            *)
AnimationSuffix ==
  [Unit |-> [Idle |-> [Main |-> "STOP", Shadow |-> "SSTO"], Move |-> [Main |-> "MOVE", Shadow |-> "SMOV"]],
   Boat |-> [Idle |-> [Main |-> "BOAT", Shadow |-> "SBOA"], Move |-> [Main |-> "BTMV", Shadow |-> "SBTM"]]]
AnimationName(kind, role, layer, owner, direction) ==
  <<Lower(owner), AnimationSuffix[kind][role][layer], direction>>

(* resolve_exact_layer: a shadow may be drawn with nothing in it, but not  *)
(* with frames of both sorts, and a body never.                            *)
Layers(iso, name, layer) ==
  LET frames == iso[name]
      blank == {i \in DOMAIN frames : frames[i].drawn = {}}
      malformed == \/ frames = << >> \/ \E i \in DOMAIN frames : frames[i].state = "Broken"
                   \/ blank # {} /\ (layer = "Main" \/ blank # DOMAIN frames)
  IN  IF malformed THEN [presence |-> "Malformed", frames |-> << >>]
      ELSE IF blank # {} THEN [presence |-> "AuthoredEmpty", frames |-> << >>]
      ELSE [presence |-> "Visible", frames |-> frames]
ExactLayer(iso, name, layer) ==
  IF name \in DOMAIN iso THEN Layers(iso, name, layer) ELSE [presence |-> "Missing", frames |-> << >>]

(* IsoActorVisualResolver::resolve: a boat is that of the race; a unit     *)
(* without an animation looks like its base unit, one step down.           *)
Visual(w, game, iso, s) ==
  LET kind == IF InBoat(w, game, s) THEN "Boat" ELSE "Unit"
      LayerOf(owner, layer) == ExactLayer(iso, AnimationName(kind, "Idle", layer, owner, s.image), layer)
      unit == LeaderDefinition(w, game, s)
      owner == IF kind = "Boat" THEN RaceOf(w, s)
               ELSE IF LayerOf(unit.id, "Main").presence # "Missing" \/ unit.base = NoText THEN unit.id
               ELSE unit.base
  IN  [kind |-> kind, owner |-> owner, body |-> LayerOf(owner, "Main"), shadow |-> LayerOf(owner, "Shadow")]

(* What is malformed is fatal, and a race without a boat; a unit without a *)
(* picture only leaves the stack out, before its shadow is looked at.      *)
VisualFails(v) ==
  \/ v.body.presence = "Malformed"
  \/ v.kind = "Boat" /\ v.body.presence = "Missing"
  \/ v.body.presence = "Visible" /\ v.shadow.presence = "Malformed"

ActorFails(w, game, iso, s) == RequestFails(w, game, s) \/ VisualFails(Visual(w, game, iso, s))

(* to_adventure_actor_visual: the pictures of the stacks that have one.    *)
Actors(w, game, iso) ==
  LET visuals == {<<s.id, Visual(w, game, iso, s)>> : s \in OnMap(w)}
      resolved == {v \in visuals : v[2].body.presence = "Visible"}
  IN  [id \in {v[1] : v \in resolved} |-> (CHOOSE v \in resolved : v[1] = id)[2]]
-----------------------------------------------------------------------------
(* A capital must be whole.  Its picture depends on its guardian, the      *)
(* first of its garrison of that type: without one, or with a dead one, it *)
(* is a ruin.                                                              *)
GuardianType(game, race) ==
  LET def == FindRace(game, race) IN IF def = None \/ def.guardian = "g000000000" THEN NoText ELSE def.guardian
IsGuardian(w, game, o, i) ==
  /\ o.group.members[i] \in DOMAIN w.units
  /\ Lower(w.units[o.group.members[i]].type) = GuardianType(game, RaceOf(w, o))
Guardians(w, game, o) == {i \in Slots : IsGuardian(w, game, o, i)}
StrangersInGarrison(w, o) == {i \in Slots : o.group.members[i] \notin DOMAIN w.units \cup {NoId}}

CapitalState(w, game, o) ==
  LET guardians == Guardians(w, game, o)
  IN  IF guardians # {} /\ w.units[o.group.members[Min(guardians)]].hp > 0 THEN "Active" ELSE "Ruined"

CapitalFails(w, assets, game, o) ==
  \/ o.plan = {} \/ RaceOf(w, o) \in {NoId} \cup assets.noCapital
  \/ GuardianType(game, RaceOf(w, o)) = NoText
  \/ \E i \in StrangersInGarrison(w, o) : \A j \in Guardians(w, game, o) : i < j

(* The shield of the stack in a settlement.                                *)
ShieldRaces(kind) == {"R0", "R1", "R2", "R3", "R5"} \cup (IF kind = "Village" THEN {"R4"} ELSE {})
Hosts(w) == {o \in OfKind(w, Settlements) : o.stack \notin Empty}
Guest(w, o) == {s \in OfKind(w, {"Stack"}) : s.id = o.stack}
ShieldFails(w, o) ==
  \/ Guest(w, o) = {}
  \/ \E s \in Guest(w, o) : o \notin Home(w, s) \/ RaceOf(w, s) \notin ShieldRaces(o.kind)
  \/ o.plan = {}

(* resolve_banner                                                          *)
BannerFails(w, assets, s) ==
  s.subrace \in DOMAIN w.subraces /\ w.subraces[s.subrace].banner \notin 0 .. assets.banners - 1

WorldFails(w, assets, game, actors) ==
  \/ \E o \in OfKind(w, {"Capital"}) : CapitalFails(w, assets, game, o)
  \/ \E o \in Hosts(w) : ShieldFails(w, o)
  \/ \E s \in OnMap(w) : s.id \in DOMAIN actors /\ BannerFails(w, assets, s)

(* The contributors: which objects have pictures, and which pictures.      *)
HasPicture(o, assets, actors) ==
  CASE o.kind = "Stack"                       -> o.inside \in Empty /\ o.id \in DOMAIN actors
    [] o.kind \in {"Village", "Capital"}      -> o.plan # {}
    [] o.kind = "Crystal"                     -> TRUE
    [] o.kind \in Sites \cup {"Ruin"}         -> o.plan # {} /\ o.id \notin assets.noSprite
    [] OTHER                                  -> o.id \notin assets.noSprite

Body(o, level) == {Primitive(<<"Body", o.id>>, o.plan, level, 0)}
ShadowUnder(o, assets) == IF assets.shadows THEN {Primitive(<<"Shadow", o.id>>, o.plan, Structure, -1)} ELSE {}
BannerOf(o) == {Primitive(<<"Banner", o.id>>, o.plan, Structure, 1)}

(* A stack shows the banner of its subrace, if that is known.              *)
StackPictures(w, actors, s) ==
  {Primitive(<<"Body", s.id>>, {s.at}, Actor, 0)}
  \cup (IF actors[s.id].shadow.presence = "Visible"
        THEN {Primitive(<<"Shadow", s.id>>, {s.at}, ActorUnderlay, 0)} ELSE {})
  \cup IF s.subrace \in DOMAIN w.subraces THEN {Primitive(<<"Banner", s.id>>, {s.at}, Actor, 1)} ELSE {}
CityPictures(assets, o) == Body(o, Structure) \cup ShadowUnder(o, assets)
SitePictures(assets, o) == CityPictures(assets, o) \cup BannerOf(o)
RuinPictures(o) == Body(o, Structure) \cup BannerOf(o)
TreasurePictures(o) == Body(o, GroundObject)
OtherPictures(o) == Body(o, Structure)

Pictures(w, assets, actors, o) ==
  CASE o.kind = "Stack"   -> StackPictures(w, actors, o)
    [] o.kind = "Village" -> CityPictures(assets, o)
    [] o.kind \in Sites   -> SitePictures(assets, o)
    [] o.kind = "Ruin"    -> RuinPictures(o)
    [] o.kind = "Bag"     -> TreasurePictures(o)
    [] OTHER              -> OtherPictures(o)

RoadPicture(r) == [Primitive(<<"Road", r.id>>, {r.at}, GroundObject, 0) EXCEPT !.anchor = r.at]

(* Mutant: the index of a tile taken apart the wrong way round.            *)
TreesByColumn(w, assets) ==
  {Primitive(<<"Tree", "Forest", c>>, {<<c[2], c[1]>>}, GroundObject, 0) :
     c \in {c \in DOMAIN w.terrain : IsForest(w.terrain[c]) /\ CodeOf(w.terrain[c]) \notin assets.noTrees}}

Trees(w, assets) ==
  {Primitive(<<"Tree", "Forest", c>>, {c}, GroundObject, 0) :
     c \in {c \in DOMAIN w.terrain : IsForest(w.terrain[c]) /\ CodeOf(w.terrain[c]) \notin assets.noTrees}}

Shields(w) == {Primitive(<<"Shield", o.stack>>, o.plan, Actor, 0) : o \in Hosts(w)}

(* IsoDepthResolver::comes_before                                          *)
ComesBefore(p, q) ==
  IF Depth(p.anchor) # Depth(q.anchor) THEN Depth(p.anchor) < Depth(q.anchor)
  ELSE IF p.anchor # q.anchor THEN p.anchor[1] < q.anchor[1]
  ELSE IF p.level # q.level THEN p.level < q.level
  ELSE IF p.suborder # q.suborder THEN p.suborder < q.suborder
  ELSE p.id < q.id

(* IsoDepthResolver::resolve: sorted, by how many come before each.        *)
Sorted(primitives) ==
  [i \in 1 .. Cardinality(primitives) |->
     CHOOSE p \in primitives : Cardinality({q \in primitives : ComesBefore(q, p)}) = i - 1]

(* AdventureMapPreparer::prepare: the roads, which lie on the ground, the  *)
(* rest in the order it is painted in, what has no picture, what can be    *)
(* pointed at.                                                             *)
WithPicture(w, assets, actors) == {o \in w.objects \ OfKind(w, {"Road"}) : HasPicture(o, assets, actors)}
Primitives(w, assets, actors) ==
  (UNION {Pictures(w, assets, actors, o) : o \in WithPicture(w, assets, actors)}) \cup Trees(w, assets) \cup Shields(w)

Graph(w, assets, game, actors) ==
  LET Missing(o) == \/ ~HasPicture(o, assets, actors) /\ (o.kind = "Stack" => o.inside \in Empty)
                    \/ o \in OnMap(w) /\ o.subrace \notin DOMAIN w.subraces
  IN  [overlay    |-> {RoadPicture(r) : r \in {r \in OfKind(w, {"Road"}) : HasPicture(r, assets, actors)}},
       world      |-> Sorted(Primitives(w, assets, actors)),
       unresolved |-> {o.id : o \in {o \in w.objects : Missing(o)}},
       picks      |-> {Hash(<<"Shield", o.stack>>) : o \in Hosts(w)}
                      \cup {Hash(<<"Body", s.id>>) : s \in WithPicture(w, assets, actors) \cap OnMap(w)},
       ruined     |-> {o.id : o \in {o \in OfKind(w, {"Capital"}) : CapitalState(w, game, o) = "Ruined"}},
       masks      |-> << >>]

(* collect_adventure_banner_pairing_statistics: of stacks, sites and ruins *)
(* every body has one banner, every banner one body, and no banner can be  *)
(* pointed at.                                                             *)
PicturesOf(g, part, ids) == {i \in DOMAIN g.world : g.world[i].part = part /\ g.world[i].of \in ids}
BannersPair(w, g) ==
  \A kinds \in {{"Stack"}, Sites, {"Ruin"}} : \A o \in OfKind(w, kinds) :
    LET bodies == PicturesOf(g, "Body", {o.id})
        banners == PicturesOf(g, "Banner", {o.id})
    IN  /\ Cardinality(bodies) = Cardinality(banners) /\ Cardinality(banners) <= 1
        /\ \A i \in banners : g.world[i].id \notin g.picks

(* What the start-up logs of the map: how many objects of a kind there     *)
(* are, how many have a picture and how many are reported without; the     *)
(* roads and landmarks are counted again from what images there are, the   *)
(* stacks from their visuals.                                              *)
Tally(g, objects) ==
  [typed      |-> Cardinality(objects),
   rendered   |-> Cardinality({o \in objects : PicturesOf(g, "Body", {o.id}) # {}}),
   unresolved |-> Cardinality({o \in objects : o.id \in g.unresolved})]
TallyImages(assets, objects) ==
  LET without == {o \in objects : o.id \in assets.noSprite}
  IN  [typed |-> Cardinality(objects), rendered |-> Cardinality(objects \ without), unresolved |-> Cardinality(without)]
TallyStacks(w, actors) ==
  LET Drawn(kind) == {id \in DOMAIN actors : actors[id].kind = kind}
      ShadowsOf(presence) == {id \in DOMAIN actors : actors[id].shadow.presence = presence}
  IN  [typed |-> Cardinality(OnMap(w)), units |-> Cardinality(Drawn("Unit")), boats |-> Cardinality(Drawn("Boat")),
       unresolved |-> Cardinality({s \in OnMap(w) : s.id \notin DOMAIN actors}),
       shadows |-> [p \in {"Visible", "Missing", "AuthoredEmpty"} |-> Cardinality(ShadowsOf(p))]]
TallyShadows(w, g, kinds) == Cardinality(PicturesOf(g, "Shadow", {o.id : o \in OfKind(w, kinds)}))
TallyPlaced(w, g, kind, placement) == Tally(g, {o \in OfKind(w, {kind}) : o.placement = placement})

Summary(w, assets, actors, g) ==
  [sites      |-> [kind \in Sites |-> Tally(g, OfKind(w, {kind}))],
   cities     |-> Tally(g, OfKind(w, {"Village"})),
   ruins      |-> [p \in {"Land", "Water"} |-> TallyPlaced(w, g, "Ruin", p)],
   treasures  |-> [p \in {"Land", "Water"} |-> TallyPlaced(w, g, "Bag", p)],
   shadows    |-> [sites |-> TallyShadows(w, g, Sites), cities |-> TallyShadows(w, g, {"Village"})],
   roads      |-> TallyImages(assets, OfKind(w, {"Road"})),
   landmarks  |-> TallyImages(assets, OfKind(w, {"Landmark"})),
   stacks     |-> TallyStacks(w, actors),
   shields    |-> Cardinality(Hosts(w))]
-----------------------------------------------------------------------------
(* The images that masks are made of, of what can be pointed at: all       *)
(* frames of an animation.  The mask covers what any frame covers.         *)
Picked(g) == {i \in DOMAIN g.world : g.world[i].level = Actor /\ g.world[i].id \in g.picks}
MaskFrames(assets, actors, p) == IF p.part = "Shield" THEN <<assets.shield>> ELSE actors[p.of].body.frames
Undecodable(frames) == \E i \in DOMAIN frames : frames[i].state = "Undecodable"

(* advance_adventure_startup_interaction_masks: one mask for everything    *)
(* that can be pointed at, or the start-up ends.                           *)
MasksFail(g, assets, actors) ==
  \/ \E i \in Picked(g) : Undecodable(MaskFrames(assets, actors, g.world[i]))
  \/ Cardinality(Picked(g)) # Cardinality(g.picks)
UnionMask(frames) == UNION {frames[i].drawn : i \in DOMAIN frames}
Masks(g, assets, actors) ==
  [id \in g.picks |->
     UnionMask(MaskFrames(assets, actors, g.world[CHOOSE i \in Picked(g) : g.world[i].id = id]))]
-----------------------------------------------------------------------------
(* AdventureMapGeometry: the corner of the canvas in the world, and the    *)
(* cell under a place of the canvas, looked for around an estimate.        *)
CanvasCorner == <<-(Height - 1) * (Box \div 2), 0>>
CellOrigin(c) == <<Project(c)[1] - CanvasCorner[1], Project(c)[2] - CanvasCorner[2]>>
InDiamond(at, c) ==
  Abs(at[1] - CellOrigin(c)[1] - Box \div 2) + Abs(at[2] - CellOrigin(c)[2] - Box \div 2) <= Box \div 2

Candidates(estimate) == {c \in Cells : Chebyshev(c, estimate) <= 1}

CanvasToCell(at) ==
  LET x == at[1] + CanvasCorner[1]
      y == at[2] + CanvasCorner[2]
      under == {c \in Candidates(<<FloorDiv(x + y, Box), FloorDiv(y - x, Box)>>) : InDiamond(at, c)}
  IN  IF under = {} THEN Nowhere ELSE FrontMost(under)

(* AdventurePickIndex: of what can be pointed at, in the order of painting,*)
(* the foot of its cell, the region that reacts to it, the ellipse that is *)
(* drawn around its feet, and its mask.  A place is sixteen points wide    *)
(* and eight high.                                                         *)
FootOf(p) == <<CellOrigin(p.anchor)[1] + Box \div 2, CellOrigin(p.anchor)[2] + Box>>
PointsFrom(p, at) == <<16 * (at[1] - FootOf(p)[1]), 8 * (at[2] - FootOf(p)[2])>>
InRegion(p, at) ==
  LET d == PointsFrom(p, at) IN d[1] \in -24 .. 23 /\ d[2] \in -34 .. 13
InEllipse(p, at) ==
  LET d == PointsFrom(p, at) IN d[1] * d[1] * 100 + (d[2] + 9) * (d[2] + 9) * 441 <= 441 * 100
InMask(g, p, at) == <<at[1] - FootOf(p)[1], at[2] - FootOf(p)[2]>> \in g.masks[p.id]

(* hit_test: what the place lies near, and what it lies on, an ellipse     *)
(* before a picture; of several the one painted last.                      *)
LastPainted(g, indices) == IF indices = {} THEN Nobody ELSE g.world[Max(indices)].of
HitTest(g, at) ==
  LET near == {i \in Picked(g) : InRegion(g.world[i], at)}
      circled == {i \in near : InEllipse(g.world[i], at)}
      covered == {i \in near \ circled : InMask(g, g.world[i], at)}
  IN  [hover  |-> LastPainted(g, near),
       target |-> LastPainted(g, IF circled # {} THEN circled ELSE covered)]
-----------------------------------------------------------------------------
(***************************************************************************)
(* The window with what is known of a stack: StackInspectionBuilder, which *)
(* reads it from the world and the tables of the game, what the log calls  *)
(* unresolved of it, the images the window plans, and what it draws, as    *)
(* functions of a stack.  Numbers that are only copied are left out.       *)
(***************************************************************************)
(* The race of the player the subrace belongs to, or else the first thing  *)
(* that is known of the subrace itself; a race without a name is no race.  *)
Faction(w, game, s) ==
  IF s.subrace \notin DOMAIN w.subraces \ {NoId} THEN NoText
  ELSE LET ref == w.subraces[s.subrace]
           owned == IF ref.race = NoId THEN None ELSE FindRace(game, ref.race)
           race == IF owned = None THEN FindRaceByType(game, ref.subrace) ELSE owned
       IN  IF race = None THEN NoText ELSE race.name

(* derive_formation_cells: a large unit takes the row of its position.     *)
FormationCells(anchor, large) ==
  IF anchor \notin Slots THEN << >>
  ELSE IF large THEN <<2 * (anchor \div 2), 2 * (anchor \div 2) + 1>>
  ELSE <<anchor>>

(* inspect_attack and inspect_definition: the labels are those of the      *)
(* tables, an attack that is not in the tables is left out.                *)
InspectedAttack(attack) ==
  IF attack = None THEN None
  ELSE [id |-> attack.id, name |-> attack.name, numbers |-> attack.numbers, flags |-> attack.flags,
        labels |-> <<attack.attackClass, attack.source, attack.reach>>, wards |-> attack.wards,
        alternative |-> attack.alternative]
InspectedDefinition(game, type) ==
  LET def == FindUnit(game, type)
  IN  IF def = None THEN None
      ELSE [id |-> def.id, texts |-> def.texts, numbers |-> def.numbers, level |-> def.level, small |-> def.small,
            labels |-> <<def.category, def.branch>>, base |-> def.base, ids |-> def.ids,
            abilities |-> def.abilities, immunities |-> def.immunities, classes |-> def.classes,
            primaryId |-> def.primaryId, primary |-> InspectedAttack(def.primary),
            secondaryId |-> def.secondaryId, secondary |-> InspectedAttack(def.secondary)]

(* inspect_unit                                                            *)
InspectedUnit(w, game, s, i) ==
  LET id == s.group.members[i]
      known == id \in DOMAIN w.units
      definition == IF known THEN InspectedDefinition(game, w.units[id].type) ELSE None
  IN  [index |-> i, id |-> id, leader |-> id = s.leader, known |-> known,
       type |-> IF known THEN w.units[id].type ELSE NoText, name |-> IF known THEN w.units[id].name ELSE NoText,
       hp |-> IF known THEN w.units[id].hp ELSE 0, definition |-> definition,
       cells |-> FormationCells(s.group.positions[i], definition # None /\ ~definition.small)]

(* StackInspectionBuilder::build                                           *)
Inspection(w, game, s) ==
  LET units == [n \in 1 .. 6 |-> InspectedUnit(w, game, s, n - 1)]
  IN  [id |-> s.id, leader |-> s.leader, at |-> s.at, inside |-> s.inside, faction |-> Faction(w, game, s),
       slots |-> s.group.members, positions |-> s.group.positions,
       members |-> SelectSeq(units, LAMBDA u : u.id # NoId)]

(* log_stack_inspection: what it calls unresolved.  The first attack is    *)
(* missed whenever it is not there, the second one only when it has an id. *)
UnresolvedOf(m) ==
  IF ~m.known THEN {"Instance"}
  ELSE IF m.definition = None THEN {"Definition"}
  ELSE (IF m.definition.primary = None THEN {"Primary"} ELSE {})
       \cup (IF m.definition.secondary = None /\ m.definition.secondaryId # NoText THEN {"Secondary"} ELSE {})
Unresolved(model) == UNION {{model.members[n].index} \X UnresolvedOf(model.members[n]) : n \in DOMAIN model.members}
-----------------------------------------------------------------------------
(* plan_stack_info_assets.  The leader is the first member that is; a cell *)
(* shows the last of the members whose first cell it is.                   *)
DisplayName(m) ==
  IF m.name # NoText THEN m.name ELSE IF m.definition # None THEN m.definition.texts["NAME_TXT"] ELSE m.type

FirstLeader(model) ==
  LET at == {n \in DOMAIN model.members : model.members[n].leader}
  IN  IF at = {} THEN None ELSE model.members[Min(at)]

(* The picture of a unit in Faces.ff, the face before the other.           *)
PortraitKey(game, type) ==
  LET visual == ResolveVisualType(game, type, HasFace(game))
  IN  IF type # NoText /\ visual \in DOMAIN game.portraits
      THEN {<<visual, kind>> : kind \in PortraitVariant(game.portraits[visual], "FACE")} ELSE {}

PortraitIn(game, cell, m) ==
  LET large == m.definition # None /\ ~m.definition.small
  IN  [cell |-> cell, index |-> m.index, id |-> m.id, leader |-> m.leader, name |-> DisplayName(m),
       large |-> large, key |-> PortraitKey(game, m.type),
       layout |-> IF large THEN <<"large_row", cell \div 2>> ELSE <<"slot", cell>>]

AssetPlan(game, model) ==
  LET In(cell) == {n \in DOMAIN model.members : model.members[n].cells # << >> /\ model.members[n].cells[1] = cell}
      leader == FirstLeader(model)
  IN  [leader    |-> IF leader = None THEN NoText ELSE ResolveVisualType(game, leader.type, HasFace(game)),
       portraits |-> {PortraitIn(game, cell, model.members[Max(In(cell))]) : cell \in {c \in Slots : In(c) # {}}}]

(* StackInfoScreen::render: of a row with a large unit one wide frame, of  *)
(* any other row a frame for each cell; portraits under them, names above. *)
RowsWithLarge(plan) == {p.cell \div 2 : p \in {p \in plan.portraits : p.large}}
Frames(plan) ==
  {<<"large_row", row>> : row \in RowsWithLarge(plan)}
  \cup {<<"slot", cell>> : cell \in {c \in Slots : c \div 2 \notin RowsWithLarge(plan)}}
LeaderText(model) ==
  LET leader == FirstLeader(model) IN IF leader = None THEN << >> ELSE <<DisplayName(leader), model.faction>>

Drawing(model, plan) ==
  [frames    |-> Frames(plan),
   portraits |-> {<<p.layout, p.key>> : p \in {p \in plan.portraits : p.key # {}}},
   names     |-> {<<p.layout, p.name>> : p \in {p \in plan.portraits : p.name # NoText}},
   leader    |-> LeaderText(model)]

(* The window of a stack, from what is read to what is drawn.              *)
Window(w, game, id) ==
  LET s == CHOOSE s \in OfKind(w, {"Stack"}) : s.id = id
      model == Inspection(w, game, s)
      plan == AssetPlan(game, model)
  IN  [model |-> model, plan |-> plan, drawing |-> Drawing(model, plan)]
=============================================================================
