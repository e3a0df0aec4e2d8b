--------------------------- MODULE AdventureWorld ---------------------------
(***************************************************************************)
(* From a scenario to the world that is played: what                       *)
(* AdventureWorldBuilder makes of the objects of a scenario and what it    *)
(* reports of them, which scenarios are refused, and the navigation map    *)
(* the rules of walking use (AdventureNavigationMapBuilder), as functions  *)
(* of the scenario.                                                        *)
(*                                                                         *)
(* A scenario has .size, "Terrain", "SizeOnly" or "None": whether it has   *)
(* map blocks, or at least a size; .raw, the tiles as they are stored,     *)
(* <<y, x>>; .plan, the entries of its plan, [element, cell]; .mountains,  *)
(* the ids of the objects mountains are stored in; .players, from ids to   *)
(* races; .subraces, from ids to [player, subrace, banner]; .units, from   *)
(* ids to [type, hp, name]; and .objects.  Every object has an .id, a      *)
(* .kind and a place .at; .image, the size of a village, the picture of a  *)
(* site or ruin, the resource of a crystal, the facing of a stack; and,    *)
(* where its kind has them, .size of a mountain, .stack of a settlement,   *)
(* .inside and .leader of a stack, .subrace, and .members and .cells, the  *)
(* group of a stack or a garrison as it is stored.  Ids are unique but for *)
(* those of stacks.  What is not looked at again is left out: the goods of *)
(* sites, and names.                                                       *)
(***************************************************************************)
EXTENDS TerrainSurface, Integers, Sequences, FiniteSetsExt, TLC
-----------------------------------------------------------------------------
(***************************************************************************)
(* The data of the game, GameDataRegistry, made of the tables of a         *)
(* directory of globals: units, attacks, upgrades and races, the labels    *)
(* their numbers stand for, and the links between them; and the portraits  *)
(* that Faces.ff has of the units (PortraitManifest and its index).        *)
(*                                                                         *)
(* A directory is a function from the names of tables to sequences of      *)
(* rows, a row a function from columns to texts; a table that is missing   *)
(* cannot be read.  The prices of units and upgrades are left out.         *)
(***************************************************************************)
CONSTANTS
  Disks,        (* the directories there are                                *)
  Numerals,     (* the texts std::stoi makes a number of, with the numbers  *)
  Lower(_),     (* a text in lower case                                     *)
  Resource(_)   (* the id under which images of a unit are filed            *)

None == << >>
NoText == ""

(* A text with nothing in it is no number.                                 *)
ASSUME NumeralsAssumption == NoText \notin DOMAIN Numerals

Field(row, column) == IF column \in DOMAIN row THEN row[column] ELSE NoText
SafeInt(row, column, fallback) ==
  IF Field(row, column) \in DOMAIN Numerals THEN Numerals[Field(row, column)] ELSE fallback
IsTrue(row, column) == Field(row, column) \in {"T", "t", "Y", "y"}
Ids(row, columns) == SelectSeq([i \in DOMAIN columns |-> Lower(Field(row, columns[i]))], LAMBDA id : id # NoText)
Numbers(row, columns) == [c \in columns |-> SafeInt(row, c, 0)]
Flags(row, columns) == {c \in columns : IsTrue(row, c)}
CanonicalOptionalAttackId(id) == IF Lower(id) = "g000000000" THEN NoText ELSE Lower(id)

(* load_dbf: a table that cannot be read is logged and taken as empty.     *)
Rows(disk, table) == IF table \in DOMAIN disk THEN disk[table] ELSE << >>

(* The entry under a key: the last with it.                                *)
Latest(entries, key, x) ==
  LET at == {i \in DOMAIN entries : entries[i][key] = x}
  IN  IF at = {} THEN None ELSE entries[Max(at)]
-----------------------------------------------------------------------------
(* The tables of labels.                                                   *)
AttackClass ==
  {"L_DAMAGE", "L_DRAIN", "L_PARALYZE", "L_HEAL", "L_FEAR", "L_BOOST_DAMAGE", "L_PETRIFY", "L_LOWER_DAMAGE",
   "L_LOWER_INITIATIVE", "L_POISON", "L_FROSTBITE", "L_REVIVE", "L_DRAIN_OVERFLOW", "L_CURE", "L_SUMMON",
   "L_DRAIN_LEVEL", "L_GIVE_ATTACK", "L_DOPPELGANGER", "L_TRANSFORM_SELF", "L_TRANSFORM_OTHER", "L_BLISTER",
   "L_BESTOW_WARDS", "L_SHATTER"}
AttackSource == {"L_WEAPON", "L_MIND", "L_LIFE", "L_DEATH", "L_FIRE", "L_WATER", "L_EARTH", "L_AIR"}
AttackReach == {"L_ALL", "L_ANY", "L_ADJACENT"}
UnitBranch ==
  {"L_FIGHTER", "L_ARCHER", "L_MAGE", "L_SPECIAL", "L_SIDESHOW", "L_HERO", "L_NOBLE", "L_SUMMON"}
UnitCategory ==
  {"L_SOLDIER", "L_NOBLE", "L_LEADER", "L_SUMMON", "L_ILLUSION", "L_NEUTRAL_LEADER", "L_NEUTRAL_SOLDIER",
   "L_GUARDIAN"}

(* The label of a number: a label the program does not know is Unknown,    *)
(* and so is a number the table does not have.                             *)
TextOf(disk, table, number, default) ==
  LET rows == Rows(disk, table)
      at == {i \in DOMAIN rows : SafeInt(rows[i], "ID", 0) = number}
  IN  IF at = {} THEN default ELSE Field(rows[Max(at)], "TEXT")
Label(disk, table, known, number) ==
  LET text == TextOf(disk, table, number, NoText) IN IF text \in known THEN text ELSE "Unknown"

(* Tglobal                                                                 *)
GlobalText(disk, id) ==
  LET rows == Rows(disk, "Tglobal")
      at == {i \in DOMAIN rows : Field(rows[i], "TXT_ID") = id}
  IN  IF id = NoText \/ at = {} THEN NoText ELSE Field(rows[Max(at)], "TEXT")

(* The animations of a death, and the bones that remain.                   *)
DeathBattleFfName(label, small) ==
  CASE label = "L_HERETIC" -> "DEATH_HERETIC_S13"
    [] label = "L_DWARF"   -> "DEATH_DWARF_S15"
    [] label = "L_UNDEAD"  -> "DEATH_UNDEAD_S15"
    [] label = "L_NEUTRAL" -> "DEATH_NEUTRAL_S10"
    [] label = "L_DRAGON"  -> "DEATH_DRAGON_S15"
    [] label = "L_GHOST"   -> "DEATH_GHOST_S15"
    [] label = "L_ELF"     -> IF small THEN "DEATH_ELF_S15" ELSE "DEATH_ELF_L15"
    [] OTHER               -> "DEATH_HUMAN_S13"
BonesSpriteBase(small) == IF small THEN "DEAD_HUMAN_SA" ELSE "DEAD_HUMAN_LA"
-----------------------------------------------------------------------------
(* The entries, of the rows that have an id, in the order of the rows.     *)
Named(entries) == SelectSeq(entries, LAMBDA e : e.id # NoText)

AttackDef(disk, row) ==
  [id          |-> Lower(Field(row, "ATT_ID")),
   name        |-> GlobalText(disk, Field(row, "NAME_TXT")),
   attackClass |-> Label(disk, "LattC", AttackClass, SafeInt(row, "CLASS", 0)),
   source      |-> Label(disk, "LattS", AttackSource, SafeInt(row, "SOURCE", 0)),
   reach       |-> Label(disk, "LAttR", AttackReach, SafeInt(row, "REACH", 0)),
   numbers     |-> Numbers(row, {"INITIATIVE", "QTY_DAM", "QTY_HEAL", "POWER"}),
   flags       |-> Flags(row, {"INFINITE", "CRIT_HIT"}),
   alternative |-> Lower(Field(row, "ALT_ATTACK")),
   wards       |-> Ids(row, <<"WARD1", "WARD2", "WARD3", "WARD4">>)]
Attacks(disk) == LET rows == Rows(disk, "Gattacks")
                 IN  Named([i \in DOMAIN rows |-> AttackDef(disk, rows[i])])

Upgrades(disk) ==
  LET rows == Rows(disk, "GDynUpgr")
  IN  Named([i \in DOMAIN rows |->
        [id      |-> Lower(Field(rows[i], "UPGRADE_ID")),
         numbers |-> Numbers(rows[i], {"HIT_POINT", "ARMOR", "REGEN", "DAMAGE", "HEAL", "POWER", "XP_KILLED",
                                       "XP_NEXT", "INITIATIVE", "MOVE", "NEGOTIATE"})]])

Races(disk) ==
  LET rows == Rows(disk, "Grace")
  IN  Named([i \in DOMAIN rows |->
        [id       |-> Lower(Field(rows[i], "RACE_ID")),
         name     |-> GlobalText(disk, Field(rows[i], "NAME_TXT")),
         type     |-> SafeInt(rows[i], "RACE_TYPE", 0),
         playable |-> IsTrue(rows[i], "PLAYABLE"),
         regen    |-> SafeInt(rows[i], "REGEN_H", 0),
         guardian |-> Lower(Field(rows[i], "GUARDIAN")),
         leaders  |-> Ids(rows[i], <<"LEADER_1", "LEADER_2", "LEADER_3", "LEADER_4">>),
         soldiers |-> Ids(rows[i], <<"SOLDIER_1", "SOLDIER_2", "SOLDIER_3", "SOLDIER_4", "SOLDIER_5">>)]])

(* What a table of traits says of a unit: of the last one with the id.     *)
Traits(disk, table, column, unit) ==
  LET rows == SelectSeq(Rows(disk, table), LAMBDA row : Lower(Field(row, "UNIT_ID")) = unit)
  IN  [i \in DOMAIN rows |-> SafeInt(rows[i], column, 0)]

UnitDef(disk, attacks, upgrades, row) ==
  LET small == IsTrue(row, "SIZE_SMALL")
      label == TextOf(disk, "LDthAnim", SafeInt(row, "DEATH_ANIM", 1), "L_HUMAN")
      primary == CanonicalOptionalAttackId(Field(row, "ATTACK_ID"))
      secondary == CanonicalOptionalAttackId(Field(row, "ATTACK2_ID"))
  IN  [id        |-> Lower(Field(row, "UNIT_ID")),
       texts     |-> [c \in {"NAME_TXT", "DESC_TXT", "ABIL_TXT"} |-> GlobalText(disk, Field(row, c))],
       numbers   |-> Numbers(row, {"SUBRACE", "HIT_POINT", "ARMOR", "REGEN", "MOVE", "SCOUT", "LEADERSHIP",
                                   "NEGOTIATE", "XP_KILLED", "XP_NEXT", "DYN_UPG_LV"}),
       level     |-> SafeInt(row, "LEVEL", 1),
       small     |-> small,
       flags     |-> Flags(row, {"SEX_M", "ATCK_TWICE", "WATER_ONLY"}),
       category  |-> Label(disk, "LunitC", UnitCategory, SafeInt(row, "UNIT_CAT", 0)),
       branch    |-> Label(disk, "LunitB", UnitBranch, SafeInt(row, "BRANCH", 0)),
       ids       |-> [c \in {"RACE_ID", "PREV_ID", "UPGRADE_B"} |-> Lower(Field(row, c))],
       base      |-> Lower(Field(row, "BASE_UNIT")),
       death     |-> DeathBattleFfName(label, small),
       bones     |-> BonesSpriteBase(small),
       primaryId |-> primary, primary |-> Latest(attacks, "id", primary),
       secondaryId |-> secondary, secondary |-> Latest(attacks, "id", secondary),
       upgrades  |-> [c \in {"DYN_UPG1", "DYN_UPG2"} |-> Latest(upgrades, "id", Lower(Field(row, c)))]]

(* Of several units with an id only the last one gets the traits, and only *)
(* that one is found again.                                                *)
WithTraits(disk, units, i) ==
  LET found == \A j \in i + 1 .. Len(units) : units[j].id # units[i].id
      traits(table, column) == IF found THEN Traits(disk, table, column, units[i].id) ELSE << >>
  IN  units[i] @@ [abilities  |-> traits("GMabi", "M_ABILITY"),
                   immunities |-> traits("Gimmu", "IMMUNITY"),
                   classes    |-> traits("GimmuC", "IMMUNITY")]
AllWithTraits(disk, units) == [i \in DOMAIN units |-> WithTraits(disk, units, i)]
Units(disk, attacks, upgrades) ==
  LET rows == Rows(disk, "Gunits")
  IN  AllWithTraits(disk, Named([i \in DOMAIN rows |-> UnitDef(disk, attacks, upgrades, rows[i])]))
-----------------------------------------------------------------------------
(* build_portrait_manifest, and the index of it: the ids of the rows of    *)
(* units, as images are filed, with the faces there are of each.  Without  *)
(* Faces.ff no unit has one.                                               *)
PortraitManifest(disk) ==
  LET rows == Rows(disk, "Gunits")
      filed == {Resource(Field(rows[i], "UNIT_ID")) : i \in {i \in DOMAIN rows : Field(rows[i], "UNIT_ID") # NoText}}
      records == Rows(disk, "Faces")
      Has(id, kind) == \E i \in DOMAIN records : records[i] = [kind |-> kind, unit |-> id]
  IN  [id \in filed |-> {kind \in {"FACE", "FACEB"} : Has(id, kind)}]

Registry(disk) ==
  [attacks |-> Attacks(disk), upgrades |-> Upgrades(disk), races |-> Races(disk),
   units |-> Units(disk, Attacks(disk), Upgrades(disk)), portraits |-> PortraitManifest(disk)]

(* Read once, when the program starts.                                     *)
GameOf == [d \in DOMAIN Disks |-> Registry(Disks[d])]

FindUnit(game, id) == Latest(game.units, "id", Lower(id))
FindRace(game, id) == Latest(game.races, "id", Lower(id))
FindRaceByType(game, type) == Latest(game.races, "type", type)

(* resolve_visual_type: the first with an image of a unit, its base unit,  *)
(* that one's base unit and so on, sixteen at most; else the unit itself.  *)
ResolveVisualType(game, id, pictured) ==
  LET chain[i \in 0 .. 15] ==
        IF i = 0 THEN Lower(id)
        ELSE LET unit == FindUnit(game, chain[i - 1]) IN IF unit = None THEN NoText ELSE unit.base
      hits == {i \in 0 .. 15 : chain[i] \in pictured}
  IN  IF hits = {} THEN Lower(id) ELSE chain[Min(hits)]

(* resolve_portrait_variant                                                *)
PortraitVariant(variants, preferred) == IF preferred \in variants THEN {preferred} ELSE variants
HasFace(game) == {id \in DOMAIN game.portraits : game.portraits[id] # {}}
-----------------------------------------------------------------------------

NoId == ""
NullId == "G000000000"
Empty == {NoId, NullId}
Settlements == {"Capital", "Village"}
Sites == {"Mage", "Merchant", "Mercs", "Trainer"}

ScenarioObjects(sc, kinds) == {o \in sc.objects : o.kind \in kinds}
Reported(ids, what) == {<<what, id>> : id \in ids}
IdsWhere(objects, Wrong(_)) == {o.id : o \in {o \in objects : Wrong(o)}}

Terrain(sc) == IF sc.size = "Terrain" THEN [c \in Cells |-> sc.raw[<<c[2], c[1]>>]] ELSE << >>
SizeDiagnostics(sc) == IF sc.size = "None" THEN {<<"MissingMapDimensions", NoId>>} ELSE {}

(* build_plan_footprints: the cells of every element.                      *)
Planned(sc, id) == {sc.plan[i].cell : i \in {i \in DOMAIN sc.plan : sc.plan[i].element = id}}
Elements(sc) == {sc.plan[i].element : i \in DOMAIN sc.plan}
DuplicateFootprints(sc) ==
  Reported({sc.plan[j].element : j \in {j \in DOMAIN sc.plan : \E i \in 1 .. j - 1 : sc.plan[i] = sc.plan[j]}},
           "DuplicateFootprint")

(* An element that is no object on the map; a mountain is one, although it *)
(* takes nothing from the plan.                                            *)
UnknownPlanReferences(sc) ==
  LET known == {o.id : o \in {o \in sc.objects : o.kind # "Mountain"}} \cup sc.mountains
  IN  Reported(Elements(sc) \ known, "UnknownPlanReference")

(* Settlements, sites and ruins have the cells of the plan or none; a      *)
(* mountain brings its own; everything else stands on its place when the   *)
(* plan has nothing for it.                                                *)
Buildings == Settlements \cup Sites \cup {"Ruin"}
Rectangle(at, size) == {<<at[1] + dx, at[2] + dy>> : dx \in 0 .. size[1] - 1, dy \in 0 .. size[2] - 1}
Footprint(sc, o) ==
  LET cells == IF o.kind = "Mountain" THEN Rectangle(o.at, o.size) ELSE Planned(sc, o.id)
  IN  IF cells = {} /\ o.kind \notin Buildings THEN {o.at} ELSE cells
MissingFootprints(sc) ==
  LET Bare(o) == Planned(sc, o.id) = {}
  IN  Reported(IdsWhere(ScenarioObjects(sc, Buildings), Bare), "MissingFootprint")

(* add_obj                                                                 *)
EmptyObjectIds(sc) ==
  LET ids == DOMAIN sc.players \cup DOMAIN sc.units \cup {o.id : o \in ScenarioObjects(sc, Settlements \cup {"Stack"})}
  IN  Reported(ids \cap {NoId}, "EmptyObjectId")
-----------------------------------------------------------------------------
(* build_unit_group.  Six slots of members, and for each of six cells the  *)
(* number of the member that stands there, from 0, or -1.  A member who is *)
(* in several cells has the position of the first.                         *)
Slots == 0 .. 5
Stored(cells, c) == IF c + 1 \in DOMAIN cells THEN cells[c + 1] ELSE -1
MemberStored(o, i) == IF i + 1 \in DOMAIN o.members THEN o.members[i + 1] ELSE NullId

Group(o) ==
  LET Occupied(c) == LET i == Stored(o.cells, c)
                     IN  i \in Slots /\ i + 1 \in DOMAIN o.members /\ o.members[i + 1] \notin Empty
      occupant == [c \in Slots |-> IF Occupied(c) THEN Stored(o.cells, c) ELSE -1]
      Of(i) == {c \in Slots : occupant[c] = i}
  IN  [members   |-> [i \in Slots |-> IF MemberStored(o, i) \in Empty THEN NoId ELSE MemberStored(o, i)],
       cells     |-> occupant,
       positions |-> [i \in Slots |-> IF Of(i) = {} THEN -1 ELSE Min(Of(i))]]

(* The kinds of what is wrong with a group, of a stack and of a garrison.  *)
GroupDiagnosticKinds ==
  [Stack   |-> <<"DanglingStackUnitReference", "InvalidFormationCell", "PositionAssignedToEmptyMember">>,
   Capital |-> <<"DanglingCapitalGarrisonUnitReference", "InvalidCapitalFormationCell",
                 "CapitalPositionAssignedToEmptyMember">>]

HasUnit(sc, id) == id \in DOMAIN sc.units \ {NoId}
DanglingMember(sc, o) == \E i \in Slots : MemberStored(o, i) \notin Empty /\ ~HasUnit(sc, MemberStored(o, i))
InvalidCell(o) == \E c \in Slots : Stored(o.cells, c) \notin {-1} \cup {i \in Slots : i + 1 \in DOMAIN o.members}
EmptyPlaced(o) ==
  \E c \in Slots : LET i == Stored(o.cells, c) + 1 IN i \in DOMAIN o.members \cap 1 .. 6 /\ o.members[i] \in Empty
GroupDiagnostics(sc) ==
  UNION {LET what == GroupDiagnosticKinds[o.kind]
         IN  (IF DanglingMember(sc, o) THEN {<<what[1], o.id>>} ELSE {})
             \cup (IF InvalidCell(o) THEN {<<what[2], o.id>>} ELSE {})
             \cup (IF EmptyPlaced(o) THEN {<<what[3], o.id>>} ELSE {}) :
           o \in ScenarioObjects(sc, DOMAIN GroupDiagnosticKinds)}

LeaderDiagnostics(sc) ==
  LET led == {s \in ScenarioObjects(sc, {"Stack"}) : s.leader \notin Empty}
      Unknown(s) == ~HasUnit(sc, s.leader)
      Absent(s) == \A i \in Slots : MemberStored(s, i) # s.leader
  IN  Reported(IdsWhere(led, Unknown), "DanglingStackLeader") \cup Reported(IdsWhere(led, Absent), "LeaderNotInStackGroup")
-----------------------------------------------------------------------------
(* What a picture, a size, a resource or a facing may be.                  *)
Images ==
  [Village |-> 1 .. 5, Mage |-> 0 .. 3, Merchant |-> 0 .. 7, Mercs |-> 0 .. 4, Trainer |-> 0 .. 3,
   Ruin |-> 0 .. 10, Crystal |-> 0 .. 5, Stack |-> 0 .. 7]
WrongImages(sc, kinds, what) ==
  LET Wrong(o) == o.image \notin Images[o.kind] IN Reported(IdsWhere(ScenarioObjects(sc, kinds), Wrong), what)

InvalidCitySizes(sc) == WrongImages(sc, {"Village"}, "InvalidCitySize")
InvalidSiteImages(sc) == WrongImages(sc, Sites, "InvalidSiteImageIndex")
InvalidRuinImages(sc) == WrongImages(sc, {"Ruin"}, "InvalidRuinImage")
InvalidFacings(sc) == WrongImages(sc, {"Stack"}, "InvalidFacingValue")
ResourceDiagnostics(sc) ==
  LET Elsewhere(o) == Planned(sc, o.id) # {o.at}
  IN  WrongImages(sc, {"Crystal"}, "UnsupportedResourceNodeValue")
      \cup Reported(IdsWhere(ScenarioObjects(sc, {"Crystal"}), Elsewhere), "ResourceNodePlanFootprintMismatch")

(* resolve_surface_placement and resolve_treasure_placement: whether a     *)
(* ruin or a treasure stands in water, on land when the cell is missing.   *)
Placement(sc, o) ==
  IF o.at \in DOMAIN Terrain(sc) /\ GroundOf(Terrain(sc)[o.at]) = "Water" THEN "Water" ELSE "Land"
MissingGroundCells(sc) ==
  LET Off(o) == o.at \notin DOMAIN Terrain(sc)
      valid == {o \in ScenarioObjects(sc, {"Ruin"}) : o.image \in Images["Ruin"]}
  IN  Reported(IdsWhere(valid, Off), "MissingRuinGroundCell")
      \cup Reported(IdsWhere(ScenarioObjects(sc, {"Bag"}), Off), "MissingTreasureGroundCell")

Diagnostics(sc) ==
  UNION {SizeDiagnostics(sc), DuplicateFootprints(sc), UnknownPlanReferences(sc), MissingFootprints(sc),
         EmptyObjectIds(sc), GroupDiagnostics(sc), LeaderDiagnostics(sc), InvalidCitySizes(sc),
         InvalidSiteImages(sc), InvalidRuinImages(sc), InvalidFacings(sc), ResourceDiagnostics(sc),
         MissingGroundCells(sc)}

(* is_build_error: a scenario with an error gets no session.               *)
Errors ==
  {"MissingMapDimensions", "EmptyObjectId", "InvalidFacingValue", "UnsupportedResourceNodeValue",
   "ResourceNodePlanFootprintMismatch", "InvalidCitySize", "InvalidRuinImage", "InvalidSiteImageIndex"}
Refused(sc) == \E d \in Diagnostics(sc) : d[1] \in Errors

(* The race of a subrace is that of its player.                            *)
SubraceRef(sc, ref) ==
  [race |-> IF ref.player \in DOMAIN sc.players THEN sc.players[ref.player] ELSE NoId,
   subrace |-> ref.subrace, banner |-> ref.banner]

WorldObject(sc, o) ==
  LET added == [plan |-> Footprint(sc, o), group |-> Group(o), placement |-> Placement(sc, o)]
  IN  [f \in DOMAIN o \cup DOMAIN added |-> IF f \in DOMAIN o THEN o[f] ELSE added[f]]

(* AdventureWorldBuilder::build                                            *)
World(sc) ==
  [terrain     |-> Terrain(sc),
   objects     |-> {WorldObject(sc, o) : o \in sc.objects},
   units       |-> sc.units,
   subraces    |-> [id \in DOMAIN sc.subraces |-> SubraceRef(sc, sc.subraces[id])],
   diagnostics |-> Diagnostics(sc)]

OfKind(w, kinds) == {o \in w.objects : o.kind \in kinds}
OnMap(w) == {s \in OfKind(w, {"Stack"}) : s.inside \in Empty}
RaceOf(w, o) == IF o.subrace \in DOMAIN w.subraces THEN w.subraces[o.subrace].race ELSE NoId

(* find_contained_stack_location: the settlement a stack is in, if that    *)
(* names it in turn.                                                       *)
Home(w, s) == {o \in OfKind(w, Settlements) : s.inside \notin Empty /\ o.id = s.inside /\ o.stack = s.id}

(* The constructor of GameSession throws for two stacks of one id.         *)
DuplicateStacks(w) == \E r, s \in OfKind(w, {"Stack"}) : r # s /\ r.id = s.id
-----------------------------------------------------------------------------
(* AdventureNavigationMapBuilder::build.  Overlapping buildings and roads  *)
(* off the map are warnings; everything else leaves the world without a    *)
(* navigation map.                                                         *)
Obstacles(w) == {o \in w.objects : o.kind \notin {"Road", "Stack"}}
Blocked(w) == UNION {o.plan : o \in Obstacles(w)}

Navigable(w) ==
  /\ w.terrain # << >>
  /\ \A o \in Obstacles(w) : o.plan # {} /\ o.plan \subseteq Cells
  /\ \A s \in OnMap(w) : /\ s.at \in Cells \ Blocked(w)
                         /\ \A r \in OnMap(w) \ {s} : r.at # s.at

NoMap == [ground |-> << >>, road |-> {}, blocking |-> {}, occupant |-> << >>]
NavigationMap(w) ==
  IF ~Navigable(w) THEN NoMap
  ELSE [ground   |-> [c \in Cells |-> GroundOf(w.terrain[c])],
        road     |-> {r.at : r \in OfKind(w, {"Road"})} \cap Cells,
        blocking |-> Blocked(w),
        occupant |-> [c \in Cells |-> LET there == {s \in OnMap(w) : s.at = c}
                                      IN  IF there = {} THEN Nobody ELSE (CHOOSE s \in there : TRUE).id]]
=============================================================================
