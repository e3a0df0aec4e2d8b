---------------------------- MODULE ScenarioReader ----------------------------
(***************************************************************************)
(* The reader of scenarios: SgParser and SgRecordReader of                 *)
(* src/src/d2scenario, which make a ScenarioTemplate of an .sg file.       *)
(*                                                                         *)
(* A file is a sequence of objects, an object a sequence of fields.  There *)
(* is no table of fields: a field is found by looking for the letters of   *)
(* its key among all bytes of the object, texts included.  So a field has, *)
(* beside its key and value, the number that follows the key (size: the    *)
(* value of a number, the length of a text or of bytes), whose lowest byte *)
(* is taken for the next letter of the key, and the keys its text mentions.*)
(* Only units, mountains and fog are read field by field.                  *)
(***************************************************************************)
EXTENDS Integers, Sequences, FiniteSets, FiniteSetsExt, SequencesExt, TLC

CONSTANT GlobalIds  (* the texts that begin with "G000"                     *)

NullId == "G000000000"
ASSUME GlobalIdsAssumption == NullId \in GlobalIds

(* What a read yields that takes other bytes for a value.                  *)
Garbage == "?"
GarbageNumber == 777

(* validate_signature.                                                     *)
HasSignature(file) == file.signature \in {"D2EESFISIG", "MidFile"}

(* The objects between WHAT and ENDOBJECT; an end that was cut off (cut)   *)
(* takes the object it ends with it.                                       *)
Objects(file) == IF file.cut THEN Front(file.objects) ELSE file.objects

VerifiedEmptyClasses == {"MidSpellCast", "MidSpellEffects", "MidStackDestroyed", "MidQuestLog"}
-----------------------------------------------------------------------------
(* The keys read from one class that are part of another of its keys where *)
(* the search does not notice: at the end, no underscore before it, or, for*)
(* a number, followed by a letter.                                         *)
TailOf ==
  {<<"ORDER", "AIORDER">>, <<"SPELL_ID", "KNOWNSPELL_ID">>, <<"BUILD_ID", "PLAYERBUILD_ID">>,
   <<"PLAN_ID", "MIDGARDPLAN_ID">>, <<"VAR_ID", "SCENVAR_ID">>}
HeadOf == {<<"TURN", "TURNSUM_ID">>}

Underscore == 95
LowByte(f) == f.size % 256
IsWord(byte) == byte \in 48..57 \cup 65..90 \cup {Underscore}

(* Mutant of MissesNumber: the boundary of texts holds for numbers too.    *)
MissesNumberLikeText(f) == IsWord(LowByte(f))

(* A field whose key is not recognised, because of the byte behind it.     *)
MissesText(f) == IsWord(LowByte(f))
MissesNumber(f) == LowByte(f) = Underscore

HoldsKey(f, key) == f.key = key \/ <<key, f.key>> \in TailOf

(* find_key_exact: the fields in which the search may stop.                *)
ExactHit(f, key) == HoldsKey(f, key) /\ ~MissesText(f)
ExactHits(o, key) ==
  {i \in DOMAIN o.fields : ExactHit(o.fields[i], key) \/ key \in o.fields[i].mentions}

(* find_key_numeric.                                                       *)
NumericHit(f, key) == (HoldsKey(f, key) /\ ~MissesNumber(f)) \/ <<key, f.key>> \in HeadOf
NumericHits(o, key) ==
  {i \in DOMAIN o.fields : NumericHit(o.fields[i], key) \/ key \in o.fields[i].mentions}

HasField(o, key) == ExactHits(o, key) # {}

(* read_string_exact: letters behind a mention make an impossible length,  *)
(* a small number in front of other fields makes a text of them.           *)
Text(o, key) ==
  IF ~HasField(o, key) THEN ""
  ELSE LET f == o.fields[Min(ExactHits(o, key))] IN
       IF ~ExactHit(f, key) \/ f.size <= 0 THEN "" ELSE IF f.kind = "text" THEN f.value ELSE Garbage

(* read_int32_exact, read_uint8_exact and read_bool_exact.                 *)
Number(o, key) ==
  IF NumericHits(o, key) = {} THEN 0
  ELSE LET f == o.fields[Min(NumericHits(o, key))] IN
       IF HoldsKey(f, key) /\ ~MissesNumber(f) THEN f.size ELSE GarbageNumber
Byte(o, key) == Number(o, key) % 256
Flag(o, key) == Number(o, key) # 0

(* read_bytes_exact.                                                       *)
Bytes(o, key) ==
  IF ~HasField(o, key) THEN <<>>
  ELSE LET f == o.fields[Min(ExactHits(o, key))] IN
       IF ExactHit(f, key) /\ f.kind = "bytes" THEN f.bytes ELSE <<>>

(* read_all_string_fields: mentions are passed over.                       *)
AllTexts(o, key) ==
  LET found == SelectSeq(o.fields, LAMBDA f : ExactHit(f, key) /\ f.size > 0)
  IN  [i \in DOMAIN found |-> IF found[i].kind = "text" THEN found[i].value ELSE Garbage]

(* read_all_int_fields: what follows a mention is one more number.         *)
AllNumbers(o, key) ==
  FlattenSeq([i \in DOMAIN o.fields |->
    (IF HoldsKey(o.fields[i], key) /\ ~MissesNumber(o.fields[i]) THEN <<o.fields[i].size>>
     ELSE IF NumericHit(o.fields[i], key) THEN <<GarbageNumber>> ELSE <<>>)
    \o (IF key \in o.fields[i].mentions THEN <<GarbageNumber>> ELSE <<>>)])

UnitKeys == <<"UNIT_0", "UNIT_1", "UNIT_2", "UNIT_3", "UNIT_4", "UNIT_5">>
PositionKeys == <<"POS_0", "POS_1", "POS_2", "POS_3", "POS_4", "POS_5">>
LevelKeys == <<"0_LVL", "1_LVL", "2_LVL", "3_LVL", "4_LVL", "5_LVL">>
UnitLevelKeys ==
  <<"UNIT_0_LVL", "UNIT_1_LVL", "UNIT_2_LVL", "UNIT_3_LVL", "UNIT_4_LVL", "UNIT_5_LVL">>

(* The members of a group, the null id standing for nobody.                *)
Members(o) ==
  [i \in 1..6 |-> LET id == Text(o, UnitKeys[i]) IN IF id = "" THEN NullId ELSE id]
Cells(o) == [i \in 1..6 |-> Number(o, PositionKeys[i])]

(* An attribute of the given type, read from where its key is found.       *)
Read(type, o, key) ==
  CASE type = "text" -> Text(o, key)
    [] type = "number" -> Number(o, key)
    [] type = "byte" -> Byte(o, key)
    [] type = "flag" -> Flag(o, key)
    [] type = "bytes" -> Bytes(o, key)
    [] type = "texts" -> AllTexts(o, key)
    [] type = "numbers" -> AllNumbers(o, key)
    [] type = "members" -> Members(o)
    [] type = "cells" -> Cells(o)
    [] type = "hired" -> SelectSeq(Members(o), LAMBDA id : id # NullId)
-----------------------------------------------------------------------------
(* The attributes of the template's structures and their types.            *)
Of(type, attributes) == [a \in attributes |-> type]

SgScenarioInfo ==
  Of("text", {"id", "name", "creator", "briefing", "description", "campaign", "debunk_loss"})
  @@ Of("number", {"map_size", "map_seed", "current_turn", "max_unit", "max_spell", "max_leader",
                   "max_city", "diff_scenario", "diff_game", "suggested_level"})
  @@ Of("texts", {"brief_long", "debunk_win"})
SgPlayer ==
  Of("text", {"id", "name", "description", "lord_id", "race_id", "fog_id", "known_id",
              "builds_id", "bank", "spell_bank"})
  @@ Of("number", {"face"}) @@ Of("flag", {"is_human", "attitude", "always_ai"})
SgSubRace == Of("text", {"id", "player_id", "name_txt"}) @@ Of("number", {"subrace", "number", "banner"})
SgStack ==
  Of("text", {"id", "group_id", "owner", "leader_id", "inside", "subrace", "banner", "tome",
              "battle1", "battle2", "artifact1", "artifact2", "boots"})
  @@ Of("number", {"pos_x", "pos_y", "move", "morale", "order", "ai_order", "ai_priority",
                   "create_level", "battles_won", "facing"})
  @@ Of("byte", {"leader_alive"}) @@ Of("flag", {"invisible", "ai_ignore"})
  @@ Of("members", {"units"}) @@ Of("cells", {"positions"})
SgCityOrVillage ==
  Of("text", {"id", "name", "description", "owner", "subrace", "stack", "group_id"})
  @@ Of("number", {"pos_x", "pos_y", "ai_priority", "size"})
  @@ Of("texts", {"item_ids"}) @@ Of("members", {"unit_ids"}) @@ Of("cells", {"positions"})
SgRuin ==
  Of("text", {"id", "title", "description", "cash", "item", "looter"})
  @@ Of("number", {"image", "pos_x", "pos_y", "ai_priority"})
  @@ Of("members", {"unit_ids"}) @@ Of("cells", {"positions"})
SgBag ==
  Of("text", {"id", "cash", "looter"}) @@ Of("number", {"pos_x", "pos_y", "image", "ai_priority"})
  @@ Of("texts", {"items"})
SgLocation == Of("text", {"id", "name"}) @@ Of("number", {"pos_x", "pos_y", "radius"})
SgEvent ==
  Of("text", {"id", "name"}) @@ Of("flag", {"enabled", "occur_once"})
  @@ Of("number", {"chance", "order", "cond_qty", "effect_qty", "frequency"})
  @@ Of("texts", {"locations", "players", "popup_texts"})
  @@ Of("numbers", {"category_values", "num_values"})
SgItem == Of("text", {"id", "type"})
SgLandmark ==
  Of("text", {"id", "type", "map_gfx_id", "image", "name"}) @@ Of("number", {"pos_x", "pos_y"})
SgRoad == Of("text", {"id"}) @@ Of("number", {"index", "variant", "pos_x", "pos_y"})
SgCrystal ==
  Of("text", {"id", "type", "owner"}) @@ Of("number", {"pos_x", "pos_y", "resource", "ai_priority"})
SgSite ==
  Of("text", {"id", "title", "description", "visitor", "buy_armor", "buy_jewel", "buy_weapon",
              "buy_banner", "buy_potion", "buy_scroll", "buy_wand"})
  @@ Of("number", {"image_iso", "image_interface", "pos_x", "pos_y", "ai_priority", "buy_value",
                   "qty_item", "qty_unit", "qty_spell"})
  @@ Of("texts", {"items", "missions", "spells"}) @@ Of("hired", {"units"})
SgStackTemplate ==
  Of("text", {"id", "owner", "leader", "name_txt", "subrace", "order_target", "modifier_id"})
  @@ Of("number", {"leader_level", "order", "facing", "ai_priority", "pos_x", "pos_y", "unit_pos"})
  @@ Of("flag", {"use_facing"})
SgPlayerKnownSpells == Of("text", {"id", "player_id"}) @@ Of("texts", {"spell_ids"})
SgPlayerBuildings == Of("text", {"id", "player_id"}) @@ Of("bytes", {"build_data"})
SgTurnSummary == Of("text", {"id"}) @@ Of("number", {"turn"})
-----------------------------------------------------------------------------
(* The keys the attributes are read from.                                  *)
ParseScenarioInfo ==
  [id |-> "INFO_ID", name |-> "NAME", creator |-> "CREATOR", briefing |-> "BRIEFING",
   description |-> "DESC", campaign |-> "CAMPAIGN", map_size |-> "MAP_SIZE",
   map_seed |-> "MAP_SEED", current_turn |-> "CUR_TURN", max_unit |-> "MAX_UNIT",
   max_spell |-> "MAX_SPELL", max_leader |-> "MAX_LEADER", max_city |-> "MAX_CITY",
   diff_scenario |-> "DIFFSCEN", diff_game |-> "DIFFGAME", suggested_level |-> "SUGG_LVL",
   brief_long |-> "BRIEFLONG", debunk_win |-> "DEBUNKW", debunk_loss |-> "DEBUNKL"]
ParsePlayer ==
  [id |-> "PLAYER_ID", name |-> "NAME_TXT", description |-> "DESC_TXT", lord_id |-> "LORD_ID",
   race_id |-> "RACE_ID", fog_id |-> "FOG_ID", known_id |-> "KNOWN_ID", builds_id |-> "BUILDS_ID",
   face |-> "FACE", is_human |-> "IS_HUMAN", bank |-> "BANK", spell_bank |-> "SPELL_BANK",
   attitude |-> "ATTITUDE", always_ai |-> "ALWAYSAI"]
ParseSubRace ==
  [id |-> "SUBRACE_ID", subrace |-> "SUBRACE", player_id |-> "PLAYER_ID", number |-> "NUMBER",
   name_txt |-> "NAME_TXT", banner |-> "BANNER"]
ParseStack ==
  [id |-> "STACK_ID", group_id |-> "GROUP_ID", units |-> "UNIT_", positions |-> "POS_",
   owner |-> "OWNER", leader_id |-> "LEADER_ID", leader_alive |-> "LEADR_ALIV",
   pos_x |-> "POS_X", pos_y |-> "POS_Y", move |-> "MOVE", morale |-> "MORALE",
   inside |-> "INSIDE", subrace |-> "SUBRACE", invisible |-> "INVISIBLE",
   ai_ignore |-> "AI_IGNORE", order |-> "ORDER", ai_order |-> "AIORDER",
   ai_priority |-> "AIPRIORITY", create_level |-> "CREAT_LVL", battles_won |-> "NBBATTLE",
   banner |-> "BANNER", tome |-> "TOME", battle1 |-> "BATTLE1", battle2 |-> "BATTLE2",
   artifact1 |-> "ARTIFACT1", artifact2 |-> "ARTIFACT2", boots |-> "BOOTS", facing |-> "FACING"]
ParseCity ==
  [id |-> "CITY_ID", name |-> "NAME_TXT", description |-> "DESC_TXT", owner |-> "OWNER",
   subrace |-> "SUBRACE", stack |-> "STACK", pos_x |-> "POS_X", pos_y |-> "POS_Y",
   group_id |-> "GROUP_ID", ai_priority |-> "AIPRIORITY", size |-> "SIZE",
   item_ids |-> "ITEM_ID", unit_ids |-> "UNIT_", positions |-> "POS_"]
ParseSite ==
  [id |-> "SITE_ID", title |-> "TXT_TITLE", description |-> "TXT_DESC", image_iso |-> "IMG_ISO",
   image_interface |-> "IMG_INTF", pos_x |-> "POS_X", pos_y |-> "POS_Y", visitor |-> "VISITER",
   ai_priority |-> "AIPRIORITY"]
ParseMerchant ==
  ParseSite @@
  [buy_armor |-> "BUY_ARMOR", buy_jewel |-> "BUY_JEWEL", buy_weapon |-> "BUY_WEAPON",
   buy_banner |-> "BUY_BANNER", buy_potion |-> "BUY_POTION", buy_scroll |-> "BUY_SCROLL",
   buy_wand |-> "BUY_WAND", buy_value |-> "BUY_VALUE", qty_item |-> "QTY_ITEM",
   items |-> "ITEM_ID", missions |-> "MISSION"]
ParseMercs == ParseSite @@ [qty_unit |-> "QTY_UNIT", units |-> "UNIT_"]
ParseMage == ParseSite @@ [qty_spell |-> "QTY_SPELL", spells |-> "SPELL"]
ParseRuin ==
  [id |-> "RUIN_ID", title |-> "TITLE", description |-> "DESC", image |-> "IMAGE",
   pos_x |-> "POS_X", pos_y |-> "POS_Y", cash |-> "CASH", item |-> "ITEM", looter |-> "LOOTER",
   ai_priority |-> "AIPRIORITY", unit_ids |-> "UNIT_", positions |-> "POS_"]
ParseBag ==
  [id |-> "BAG_ID", pos_x |-> "POS_X", pos_y |-> "POS_Y", image |-> "IMAGE", cash |-> "CASH",
   items |-> "ITEM_ID", looter |-> "LOOTER", ai_priority |-> "AIPRIORITY"]
ParseLocation ==
  [id |-> "LOC_ID", pos_x |-> "POS_X", pos_y |-> "POS_Y", name |-> "NAME_TXT", radius |-> "RADIUS"]
ParseEvent ==
  [id |-> "ID", name |-> "NAME_TXT", enabled |-> "ENABLED", occur_once |-> "OCCUR_ONCE",
   chance |-> "CHANCE", order |-> "ORDER", cond_qty |-> "COND_QTY", effect_qty |-> "EFFECT_QTY",
   frequency |-> "FREQUENCY", locations |-> "ID_LOC", players |-> "PLAYER",
   popup_texts |-> "POPUP_TXT", category_values |-> "CATEGORY", num_values |-> "NUM"]
ParseItem == [id |-> "ITEM_ID", type |-> "ITEM_TYPE"]
ParseLandmark ==
  [id |-> "LMARK_ID", pos_x |-> "POS_X", pos_y |-> "POS_Y", type |-> "TYPE",
   map_gfx_id |-> "MAP_GFX", image |-> "IMAGE", name |-> "NAME_TXT"]
ParseRoad ==
  [id |-> "ROAD_ID", index |-> "INDEX", variant |-> "VAR", pos_x |-> "POS_X", pos_y |-> "POS_Y"]
ParseCrystal ==
  [id |-> "CRYSTAL_ID", pos_x |-> "POS_X", pos_y |-> "POS_Y", resource |-> "RESOURCE",
   type |-> "TYPE", owner |-> "OWNER", ai_priority |-> "AIPRIORITY"]
ParseStackTemplate ==
  [id |-> "TEMPLATE_ID", owner |-> "OWNER", leader |-> "LEADER", leader_level |-> "LEADER_LVL",
   name_txt |-> "NAME_TXT", subrace |-> "SUBRACE", order |-> "ORDER",
   order_target |-> "ORDER_TARG", use_facing |-> "USE_FACING", facing |-> "FACING",
   ai_priority |-> "AIPRIORITY", pos_x |-> "POS_X", pos_y |-> "POS_Y",
   modifier_id |-> "MODIF_ID", unit_pos |-> "UNIT_POS"]
ParseKnownSpells == [id |-> "SPELLSET_ID", player_id |-> "PLAYER_ID", spell_ids |-> "SPELL_ID"]
ParseBuildings == [id |-> "BUILDINGS_ID", player_id |-> "PLAYER_ID", build_data |-> "BUILDDATA"]
ParseTurnSummary == [id |-> "SUMMARY_ID", turn |-> "TURN"]

Structure ==
  [ScenarioInfo |-> SgScenarioInfo, MidPlayer |-> SgPlayer, MidSubRace |-> SgSubRace,
   MidStack |-> SgStack, Capital |-> SgCityOrVillage, MidVillage |-> SgCityOrVillage,
   MidRuin |-> SgRuin, MidBag |-> SgBag, MidLocation |-> SgLocation, MidEvent |-> SgEvent,
   MidItem |-> SgItem, MidLandmark |-> SgLandmark, MidRoad |-> SgRoad, MidCrystal |-> SgCrystal,
   MidSiteMerchant |-> SgSite, MidSiteMercs |-> SgSite, MidSiteTrainer |-> SgSite,
   MidSiteMage |-> SgSite, MidStackTemplate |-> SgStackTemplate,
   PlayerKnownSpells |-> SgPlayerKnownSpells, PlayerBuildings |-> SgPlayerBuildings,
   TurnSummary |-> SgTurnSummary]
FieldKeys ==
  [ScenarioInfo |-> ParseScenarioInfo, MidPlayer |-> ParsePlayer, MidSubRace |-> ParseSubRace,
   MidStack |-> ParseStack, Capital |-> ParseCity, MidVillage |-> ParseCity,
   MidRuin |-> ParseRuin, MidBag |-> ParseBag, MidLocation |-> ParseLocation,
   MidEvent |-> ParseEvent, MidItem |-> ParseItem, MidLandmark |-> ParseLandmark,
   MidRoad |-> ParseRoad, MidCrystal |-> ParseCrystal, MidSiteMerchant |-> ParseMerchant,
   MidSiteMercs |-> ParseMercs, MidSiteTrainer |-> ParseSite, MidSiteMage |-> ParseMage,
   MidStackTemplate |-> ParseStackTemplate, PlayerKnownSpells |-> ParseKnownSpells,
   PlayerBuildings |-> ParseBuildings, TurnSummary |-> ParseTurnSummary]
-----------------------------------------------------------------------------
(* What some attributes fall back on: another key, or, for ids of classes  *)
(* parsed after the map, the OBJ_ID of the object.                         *)
Or(text, other) == IF text = "" THEN other ELSE text

SecondKey ==
  [MidLandmark |-> "LANDMARK_ID", MidStackTemplate |-> "STACK_TMPL_ID",
   PlayerKnownSpells |-> "KNOWNSPELL_ID", PlayerBuildings |-> "PLAYERBUILD_ID",
   TurnSummary |-> "TURNSUM_ID"]
SiteClasses == {"MidSiteMerchant", "MidSiteMercs", "MidSiteTrainer", "MidSiteMage"}
LateClasses ==
  SiteClasses \cup {"MidStackTemplate", "PlayerKnownSpells", "PlayerBuildings", "TurnSummary"}

IdOf(o, first) ==
  LET second == IF o.class \in DOMAIN SecondKey THEN Text(o, SecondKey[o.class]) ELSE ""
  IN  Or(Or(first, second), IF o.class \in LateClasses THEN o.id ELSE "")

ItemsOf(o, items) ==
  IF items = <<>> /\ Text(o, "ITEM") # "" THEN <<Text(o, "ITEM")>> ELSE items
GraphicOf(o, graphic) ==
  LET number == Number(o, "IMAGE")
  IN  Or(Or(graphic, Text(o, "IMAGE")), IF number = 0 THEN "" ELSE "IMG:" \o ToString(number))

(* The units of a template: nobody and unnamed ones are left out.          *)
TemplateUnits(o) ==
  LET level(i) == IF Number(o, LevelKeys[i]) # 0
                  THEN Number(o, LevelKeys[i]) ELSE Number(o, UnitLevelKeys[i])
      units == [i \in 1..6 |-> [unit_id |-> Text(o, UnitKeys[i]), level |-> level(i),
                                position |-> Number(o, PositionKeys[i])]]
  IN  SelectSeq(units, LAMBDA u : u.unit_id \notin {"", NullId})

(* The entry of the template made of an object of a class in FieldKeys.    *)
Completed(o, c, e, named) ==
  CASE c \in {"MidBag", "MidSiteMerchant"} -> [named EXCEPT !.items = ItemsOf(o, e.items)]
    [] c = "MidLandmark" -> [named EXCEPT !.map_gfx_id = GraphicOf(o, e.map_gfx_id)]
    [] c = "MidCrystal" -> [named EXCEPT !.type = Or(e.type, Text(o, "CRYSTAL_TYPE"))]
    [] c = "MidStackTemplate" -> [units |-> TemplateUnits(o)] @@ named
    [] c = "PlayerKnownSpells" ->
         [named EXCEPT !.spell_ids = IF @ = <<>> THEN AllTexts(o, "SPELL") ELSE @]
    [] c = "PlayerBuildings" ->
         [named EXCEPT !.build_data =
            IF @ = <<>> THEN AllTexts(o, "BUILD_ID") \o AllTexts(o, "BUILD") ELSE @]
    [] OTHER -> named
Named(o, e) == Completed(o, o.class, e, [e EXCEPT !.id = IdOf(o, e.id)])
FieldsEntry(o) ==
  Named(o, [a \in DOMAIN FieldKeys[o.class] |-> Read(Structure[o.class][a], o, FieldKeys[o.class][a])])
-----------------------------------------------------------------------------
(* Lists of which each column is read on its own and put together by       *)
(* position.                                                               *)
At(column, i, default) == IF i \in DOMAIN column THEN column[i] ELSE default

ScenVariables(o) ==
  LET names == AllTexts(o, "NAME")
      numbers == AllNumbers(o, "INTVAL")
  IN  [id |-> Or(Or(Text(o, "SCENVAR_ID"), Text(o, "VAR_ID")), o.id),
       variables |->
         IF names # <<>>
         THEN [i \in DOMAIN names |->
                 [name |-> names[i], value |-> At(AllTexts(o, "VALUE"), i, ""),
                  value2 |-> At(AllTexts(o, "VALUE2"), i, "")]]
         ELSE [i \in DOMAIN numbers |->
                 [name |-> "INTVAL", value |-> ToString(numbers[i]), value2 |-> ""]]]

Diplomacy(o) ==
  LET one == AllNumbers(o, "RACE_1")
      two == AllNumbers(o, "RACE_2")
      relations == AllNumbers(o, "RELATION")
  IN  [id |-> o.id,
       relations |-> [i \in 1..Min({Len(one), Len(two), Len(relations)}) |->
                        [race1 |-> one[i], race2 |-> two[i], relation |-> relations[i]]]]

TalismanCharges(o) ==
  LET items == AllTexts(o, "ID_TALIS")
      charges == AllNumbers(o, "CHARGES")
  IN  [id |-> o.id,
       charges |-> [i \in 1..Min({Len(items), Len(charges)}) |->
                      [item_id |-> items[i], charges |-> charges[i]]]]

Plan(o) ==
  LET elements == AllTexts(o, "ELEMENT")
      x == AllNumbers(o, "POS_X")
      y == AllNumbers(o, "POS_Y")
  IN  [id |-> Or(Or(Text(o, "PLAN_ID"), Text(o, "MIDGARDPLAN_ID")), o.id),
       entries |-> [i \in DOMAIN elements |->
                      [element |-> elements[i], pos_x |-> At(x, i, 0), pos_y |-> At(y, i, 0)]]]

(* Mountains and fog are read from front to back, up to the first field    *)
(* that is not the expected one; the key of the image is not looked at.    *)
KeysAt(fields, i, keys) ==
  i + Len(keys) - 1 <= Len(fields) /\ \A k \in DOMAIN keys : fields[i + k - 1].key = keys[k]

(* The number in field i may be the length of what lies before a later     *)
(* field of the given key; then it is taken for one, and that for a text.  *)
Width(f) == Len(f.key) + 4
JumpsTo(f, i, key) ==
  {k \in i + 1..Len(f) : f[k].key = key /\ f[i].size \in 1..499
                         /\ f[i].size = MapThenSumSet(LAMBDA n : Width(f[n]), i + 1..k - 1)}

Mountains(o) ==
  LET f == o.fields
      after(i, key) == IF JumpsTo(f, i, key) = {} THEN i + 1 ELSE Min(JumpsTo(f, i, key))
      number(i, key) == IF JumpsTo(f, i, key) = {} THEN f[i].size ELSE GarbageNumber
      from[i \in 1..Len(f) + 1] ==
        IF ~KeysAt(f, i, <<"ID_MOUNT", "SIZE_X", "SIZE_Y", "POS_X", "POS_Y">>) THEN <<>>
        ELSE LET entry == [id_mount |-> f[i].size, size_x |-> f[i + 1].size,
                           size_y |-> f[i + 2].size, pos_x |-> f[i + 3].size,
                           pos_y |-> f[i + 4].size, image |-> GarbageNumber, race |-> 0]
             IN  IF ~KeysAt(f, i + 5, <<"IMAGE">>) THEN <<entry>>
                 ELSE LET next == after(i + 5, "RACE")
                          image == [entry EXCEPT !.image = number(i + 5, "RACE")]
                      IN  IF ~KeysAt(f, next, <<"RACE">>) THEN <<image>> \o from[next]
                          ELSE <<[image EXCEPT !.race = number(next, "ID_MOUNT")]>>
                                 \o from[after(next, "ID_MOUNT")]
  IN  [id |-> o.id, entries |-> from[1]]

MapFog(o) ==
  LET f == o.fields
      from[i \in 1..Len(f) + 1] ==
        IF ~KeysAt(f, i, <<"POS_Y", "FOG">>) THEN <<>>
        ELSE (IF f[i + 1].size = 0 THEN <<>>
              ELSE <<[pos_y |-> f[i].size, raw_bytes |-> f[i + 1].bytes]>>) \o from[i + 2]
      rows == from[1]
  IN  [id |-> o.id, player_id |-> "", rows |-> rows, map_height_tiles |-> Len(rows),
       map_width_tiles |-> IF rows = <<>> THEN 0 ELSE 8 * Len(rows[1].raw_bytes)]
-----------------------------------------------------------------------------
(* A unit: every field in its place, or the whole file is refused.         *)
Modifiers(fields) == SelectSeq(fields, LAMBDA f : f.key = "MODIF_ID")
UnitLayouts(count) ==
  {<<"", "UNIT_ID", "TYPE", "LEVEL", "inner">> \o [i \in 1..count |-> "MODIF_ID"]
     \o <<"CREATION", "NAME_TXT", "TRANSF">> \o level \o <<"HP", "XP">> :
     level \in {<<>>, <<"DYNLEVEL">>, <<"DYNLEVEL", "padding">>}}

UnitIsWellFormed(o) ==
  LET inner == {f \in ToSet(o.fields) : f.key = "inner"}
  IN  \E f \in inner :
        /\ [i \in DOMAIN o.fields |-> o.fields[i].key] \in UnitLayouts(f.size)
        /\ \A g \in ToSet(o.fields) : g.kind = "text" => g.size > 0

FieldOf(o, key) == LET at == {i \in DOMAIN o.fields : o.fields[i].key = key} IN o.fields[Min(at)]

Unit(o) ==
  [id |-> FieldOf(o, "UNIT_ID").value, type_id |-> FieldOf(o, "TYPE").value,
   level |-> FieldOf(o, "LEVEL").size,
   modifier_ids |-> [i \in DOMAIN Modifiers(o.fields) |-> Modifiers(o.fields)[i].value],
   creation |-> FieldOf(o, "CREATION").size, name |-> FieldOf(o, "NAME_TXT").value,
   transformed |-> FieldOf(o, "TRANSF").size,
   dynamic_level |-> IF \E f \in ToSet(o.fields) : f.key = "DYNLEVEL"
                     THEN {FieldOf(o, "DYNLEVEL").size} ELSE {},
   hp |-> FieldOf(o, "HP").size, xp |-> FieldOf(o, "XP").size]

(* The warnings about units whose three ids differ.                        *)
UnitWarnings(o) ==
  LET id == FieldOf(o, "UNIT_ID").value
  IN  Cardinality({w \in {"envelope", "inner"} :
        \/ w = "envelope" /\ o.id \notin {"", id}
        \/ w = "inner" /\ FieldOf(o, "inner").value # id})
-----------------------------------------------------------------------------
(* A map block lies where the last four digits of its id say (grid: column *)
(* and row, -1 if they are no numbers) and has 32 values, or none.         *)
BlockValues == 32
MapBlock(o) ==
  LET data == Bytes(o, "BLOCKDATA")
  IN  [id |-> o.id, grid |-> o.grid,
       values |-> IF Len(data) < BlockValues THEN <<>> ELSE SubSeq(data, 1, BlockValues)]

ValueAt(values, i, j) == values[8 * i + j + 1]

(* reconstruct_terrain: every block writes its 4x8 tiles over the others.  *)
Terrain(blocks, size) ==
  LET write(tiles, b) ==
        IF b.grid[1] < 0 \/ b.grid[2] < 0 \/ b.values = <<>> THEN tiles
        ELSE [p \in DOMAIN tiles |->
                IF p[1] - b.grid[1] \in 0..3 /\ p[2] - b.grid[2] \in 0..7
                THEN ValueAt(b.values, p[1] - b.grid[1], p[2] - b.grid[2]) ELSE tiles[p]]
  IN  FoldLeft(write, [p \in (0..size - 1) \X (0..size - 1) |-> 0], blocks)
-----------------------------------------------------------------------------
ParsedClasses ==
  DOMAIN FieldKeys \cup {"MidUnit", "MidgardMapBlock", "MidgardMap", "MidScenVariables", "MidDiplomacy",
                    "MidTalismanCharges", "MidgardPlan", "MidMountains", "MidgardMapFog"}

(* classify_object.                                                        *)
Classify(class) ==
  IF class \in ParsedClasses THEN "parsed"
  ELSE IF class \in VerifiedEmptyClasses THEN "empty" ELSE "unknown"

(* The keys one of which an object of the class has if it has content.     *)
ContentKeys ==
  [PlayerKnownSpells |-> {"SPELL_ID", "SPELL", "PLAYER_ID", "SPELLSET_ID", "KNOWNSPELL_ID"},
   PlayerBuildings |->
     {"BUILD_ID", "BUILD", "PLAYER_ID", "BUILDDATA", "BUILDINGS_ID", "PLAYERBUILD_ID"}]
HasContent(o) ==
  o.class \in DOMAIN ContentKeys => \E key \in ContentKeys[o.class] : HasField(o, key)

EntryOf(o) ==
  CASE o.class = "MidUnit" -> Unit(o)
    [] o.class = "MidgardMapBlock" -> MapBlock(o)
    [] o.class = "MidgardMap" -> [id |-> o.id]
    [] o.class = "MidScenVariables" -> ScenVariables(o)
    [] o.class = "MidDiplomacy" -> Diplomacy(o)
    [] o.class = "MidTalismanCharges" -> TalismanCharges(o)
    [] o.class = "MidgardPlan" -> Plan(o)
    [] o.class = "MidMountains" -> Mountains(o)
    [] o.class = "MidgardMapFog" -> MapFog(o)
    [] OTHER -> FieldsEntry(o)

(* Of the scenario's description and of the map only the last one stays.   *)
SingleClasses == {"ScenarioInfo", "MidgardMap"}
EntriesOf(objects, class) ==
  LET found == SelectSeq(objects, LAMBDA o : o.class = class /\ HasContent(o))
      kept == IF class \in SingleClasses /\ found # <<>> THEN <<Last(found)>> ELSE found
  IN  [i \in DOMAIN kept |-> EntryOf(kept[i])]

(* The index: an object without content makes the first entry of its class *)
(* and id an empty one.                                                    *)
Label(objects, i) ==
  LET same == {j \in DOMAIN objects : objects[j].class = objects[i].class /\ objects[j].id = objects[i].id}
  IN  IF i = Min(same) /\ \E j \in same : ~HasContent(objects[j])
      THEN "empty" ELSE Classify(objects[i].class)

MapSize(template) ==
  IF template["ScenarioInfo"] = <<>> THEN 0 ELSE template["ScenarioInfo"][1].map_size
-----------------------------------------------------------------------------
(* collect_global_id_usages: the attributes whose ids are listed.          *)
Collected ==
  [MidPlayer |-> {"lord_id", "race_id", "fog_id", "known_id", "builds_id"},
   MidSubRace |-> {"player_id"}, MidUnit |-> {"type_id"},
   MidStack |-> {"owner", "leader_id", "inside", "subrace", "banner", "tome", "battle1", "battle2",
                 "artifact1", "artifact2", "boots", "units"},
   Capital |-> {"owner", "subrace", "stack", "group_id", "unit_ids", "item_ids"},
   MidVillage |-> {"owner", "subrace", "stack", "group_id", "unit_ids", "item_ids"},
   MidRuin |-> {"item", "looter", "unit_ids"}, MidBag |-> {"looter", "items"},
   MidEvent |-> {"locations", "players"}, MidLandmark |-> {"type", "map_gfx_id"},
   MidCrystal |-> {"owner"},
   MidStackTemplate |-> {"owner", "leader", "subrace", "order_target", "modifier_id", "units"},
   MidTalismanCharges |-> {"charges"}, MidgardPlan |-> {"entries"},
   MidSiteMerchant |-> {"visitor", "items", "missions"}, MidSiteMercs |-> {"visitor", "units"},
   MidSiteTrainer |-> {"visitor"}, MidSiteMage |-> {"visitor", "spells"},
   PlayerKnownSpells |-> {"spell_ids"}, MidgardMapFog |-> {"player_id"},
   PlayerBuildings |-> {"player_id"}]

(* The texts an attribute of an entry holds, as a sequence.                *)
ListedIn == [MidStackTemplate |-> "unit_id", MidTalismanCharges |-> "item_id", MidgardPlan |-> "element"]
ListAttributes ==
  {"units", "unit_ids", "item_ids", "items", "missions", "spells", "spell_ids", "locations",
   "players", "popup_texts", "modifier_ids", "brief_long", "debunk_win"}
TextsIn(class, e, a) ==
  IF <<class, a>> \in {<<"MidStackTemplate", "units">>, <<"MidTalismanCharges", "charges">>,
                       <<"MidgardPlan", "entries">>}
  THEN [i \in DOMAIN e[a] |-> e[a][i][ListedIn[class]]]
  ELSE IF a \in ListAttributes THEN e[a] ELSE <<e[a]>>

GlobalIdUsages(template) ==
  UNION {UNION {UNION {
    LET texts == TextsIn(c, template[c][i], a)
    IN  {[value |-> texts[k], class |-> c, entry |-> i, field |-> a, at |-> k] :
           k \in {n \in DOMAIN texts : texts[n] \in GlobalIds}} :
    a \in Collected[c]} : i \in DOMAIN template[c]} : c \in DOMAIN Collected}
-----------------------------------------------------------------------------
(* parse: an error, or the template and what is known about the objects.   *)
Result(objects, template, size, blocks, units) ==
  [ok |-> TRUE, template |-> template,
   terrain |-> IF size > 0 /\ blocks # <<>> THEN Terrain(blocks, size) ELSE <<>>,
   index |-> [i \in DOMAIN objects |->
                [class |-> objects[i].class, id |-> objects[i].id, label |-> Label(objects, i)]],
   hulls |-> [c \in VerifiedEmptyClasses |-> Len(SelectSeq(objects, LAMBDA o : o.class = c))],
   usages |-> GlobalIdUsages(template),
   warnings |-> [i \in DOMAIN units |-> UnitWarnings(units[i])]]
ResultOf(objects, template, units) ==
  Result(objects, template, MapSize(template), template["MidgardMapBlock"], units)

Units(file) == SelectSeq(Objects(file), LAMBDA o : o.class = "MidUnit")
Parse(file) ==
  IF ~HasSignature(file) \/ \E o \in ToSet(Units(file)) : ~UnitIsWellFormed(o)
  THEN [ok |-> FALSE]
  ELSE ResultOf(Objects(file), [c \in ParsedClasses |-> EntriesOf(Objects(file), c)], Units(file))
=============================================================================
