------------------------- MODULE MCExtractionTool -----------------------------
(***************************************************************************)
(* Scenarios of one object, of every class, complete and then with one     *)
(* field left out, resized, mentioned by a text or all in the reverse      *)
(* order; scenarios of several objects, with every set of tables.  The     *)
(* games of which packages are built are those of MCGames.                 *)
(***************************************************************************)
EXTENDS ExtractionTool

Known1 == "G000UU0001"
AllGlobalIds ==
  {NullId, Known1, "G000UU0002", "G000it0001", "G000tx0001", "G000SS0001", "G000XX9999", "G000"}
TenLetters ==
  {NullId, Known1, "G000UU0002", "G000IT0001", "G000TX0001", "G000SS0001", "G000XX9999"}
InCapitals == "G000it0001" :> "G000IT0001" @@ "G000tx0001" :> "G000TX0001"
Short == {"G000"}
Foreign == {"Zauber"}

TextField(key, text) ==
  [kind |-> "text", key |-> key, value |-> text, bytes |-> <<>>,
   size |-> IF text = "" THEN 1 ELSE 11, mentions |-> {}]
NumberField(key, n) == [TextField(key, "") EXCEPT !.kind = "number", !.size = n]
BytesField(key, bytes) ==
  [TextField(key, "") EXCEPT !.kind = "bytes", !.bytes = bytes, !.size = Len(bytes)]
Object(class, fields) == [class |-> class, id |-> "S001", grid |-> <<-1, -1>>, fields |-> fields]

(* The fields of an attribute.                                             *)
FieldsFor(type, key, text) ==
  CASE type = "text" -> <<TextField(key, text)>>
    [] type = "number" -> <<NumberField(key, 7)>>
    [] type = "byte" -> <<NumberField(key, 258)>>
    [] type = "flag" -> <<NumberField(key, 1)>>
    [] type = "bytes" -> <<BytesField(key, <<1, 2>>)>>
    [] type = "texts" -> <<TextField(key, text), TextField(key, "word")>>
    [] type = "numbers" -> <<NumberField(key, 3), NumberField(key, 4)>>
    [] type \in {"members", "hired"} ->
         <<TextField(UnitKeys[1], text), TextField(UnitKeys[3], NullId), TextField(UnitKeys[6], "K")>>
    [] type = "cells" -> [i \in 1..6 |-> NumberField(PositionKeys[i], i - 2)]
Full(class, text) ==
  LET attributes == FoldSet(LAMBDA a, found : Append(found, a), <<>>, DOMAIN FieldKeys[class])
      fields(a) == FieldsFor(Structure[class][a], FieldKeys[class][a], text)
  IN  Object(class, FlattenSeq([i \in DOMAIN attributes |-> fields(attributes[i])]))

(* Objects with columns, and those read from front to back.                *)
Relation(a, b, n) == <<NumberField("RACE_1", a), NumberField("RACE_2", b), NumberField("RELATION", n)>>
Charge(item, n) == <<TextField("ID_TALIS", item), NumberField("CHARGES", n)>>
Step(x, y, element) ==
  <<NumberField("POS_X", x), NumberField("POS_Y", y), TextField("ELEMENT", element)>>
Variable(name) == <<TextField("NAME", name), TextField("VALUE", "1"), TextField("VALUE2", name)>>
Columns ==
  {Object("MidDiplomacy", Relation(1, 2, 100) \o Relation(1, 3, 50) \o Relation(2, 3, 0)),
   Object("MidTalismanCharges", Charge(Known1, 3) \o Charge("G000it0001", 5)),
   Object("MidgardPlan", Step(3, 4, "S001") \o Step(5, 6, Known1)),
   Object("MidScenVariables", Variable("one") \o Variable("two")),
   Object("MidScenVariables", <<NumberField("INTVAL", 1), NumberField("INTVAL", 2)>>),
   Object("MidStackTemplate",
          <<TextField("UNIT_0", Known1), TextField("UNIT_1", NullId), NumberField("UNIT_0_LVL", 3),
            NumberField("POS_0", 2)>>),
   Object("MidLandmark", <<TextField("LANDMARK_ID", "S7"), NumberField("IMAGE", 9)>>),
   Object("MidLandmark", <<TextField("LMARK_ID", "S7"), TextField("IMAGE", Known1)>>),
   Object("MidBag", <<TextField("BAG_ID", "S7"), TextField("ITEM", "S9")>>),
   Object("PlayerKnownSpells", <<TextField("KNOWNSPELL_ID", "S7"), TextField("SPELL", Known1)>>),
   Object("PlayerBuildings", <<TextField("PLAYERBUILD_ID", "S7"), TextField("BUILD", Known1)>>),
   Object("PlayerBuildings", <<>>), Object("PlayerKnownSpells", <<TextField("OTHER", "S1")>>),
   Object("TurnSummary", <<TextField("TURNSUM_ID", "S7"), NumberField("TURN", 4)>>)}

Peak(image, races) ==
  <<NumberField("ID_MOUNT", 1), NumberField("SIZE_X", 2), NumberField("SIZE_Y", 2),
    NumberField("POS_X", 4), NumberField("POS_Y", 5), NumberField("IMAGE", image)>>
  \o [i \in DOMAIN races |-> NumberField("RACE", races[i])]
Row(y, bytes) == <<NumberField("POS_Y", y), BytesField("FOG", bytes)>>
UnitObject(id, inner, modifiers, level) ==
  Object("MidUnit",
         <<TextField("", "S001"), TextField("UNIT_ID", id), TextField("TYPE", Known1),
           NumberField("LEVEL", 2), [TextField("inner", inner) EXCEPT !.size = Len(modifiers)]>>
         \o [i \in DOMAIN modifiers |-> TextField("MODIF_ID", modifiers[i])]
         \o <<NumberField("CREATION", 0), TextField("NAME_TXT", "word"), NumberField("TRANSF", 0)>>
         \o level \o <<NumberField("HP", 95), NumberField("XP", 65)>>)
Sequential ==
  {Object("MidMountains", Peak(image, races) \o Peak(5, <<2>>) \o Peak(66, <<1>>)) :
     image \in {6, 67}, races \in {<<>>, <<3>>, <<67>>}}
  \cup
  {Object("MidMountains", <<>>), Object("MidMountains", SubSeq(Peak(6, <<2>>), 1, 5)),
   Object("MidgardMapFog", Row(0, <<255>>) \o Row(1, <<0>>)),
   Object("MidgardMapFog", Row(0, <<255>>) \o Row(1, <<>>) \o Row(2, <<1>>))}
  \cup {UnitObject(id, "S001", modifiers, level) :
          id \in {"S001", "S002"}, modifiers \in {<<>>, <<"G000UU0002">>},
          level \in {<<>>, <<NumberField("DYNLEVEL", 3)>>,
                     <<NumberField("DYNLEVEL", 3), NumberField("padding", 0)>>}}
-----------------------------------------------------------------------------
(* One field of an object changed.                                         *)
Without(o, i) == [o EXCEPT !.fields = RemoveAt(@, i)]
Resized(o, i, size) == [o EXCEPT !.fields[i].size = size]
Mentioning(o, i, key) == [o EXCEPT !.fields[i].mentions = {key}]
Backwards(o) == [o EXCEPT !.fields = Reverse(@)]
KeysIn(o) == {f.key : f \in ToSet(o.fields)}

Variants(o) ==
  {o, Backwards(o)}
  \cup {Without(o, i) : i \in DOMAIN o.fields}
  \cup {Resized(o, i, n) : i \in DOMAIN o.fields, n \in {0, 65, 95}}
  \cup UNION {{Mentioning(o, i, key), Mentioning(Backwards(o), i, key)} :
                i \in {n \in {1, Len(o.fields)} : o.fields # <<>> /\ o.fields[n].kind = "text"},
                key \in KeysIn(o)}

File(objects) == [signature |-> "D2EESFISIG", cut |-> FALSE, objects |-> objects]
Quick(file) ==
  [readable |-> TRUE, file |-> file, root |-> NoDirectory, options |-> {"summary"}, writable |-> {},
   cut |-> {}]
-----------------------------------------------------------------------------
(* Maps: blocks side by side, over each other, over the edge, without data *)
(* and with an id that says nothing of their place.                        *)
Block(id, x, y, base) ==
  [Object("MidgardMapBlock", <<BytesField("BLOCKDATA", [i \in 1..32 |-> base + i])>>)
     EXCEPT !.id = id, !.grid = <<x, y>>]
MapOf(size, blocks) ==
  File(<<Object("ScenarioInfo", <<NumberField("MAP_SIZE", size)>>), Object("MidgardMap", <<>>)>>
       \o blocks)
Maps ==
  {MapOf(8, <<Block("B1", 0, 0, 1000), Block("B2", 4, 0, 2000)>>),
   MapOf(8, <<Block("B1", 0, 0, 1000), Block("B2", 2, 3, 2000)>>),
   MapOf(8, <<Block("B2", 2, 3, 2000), Block("B1", 0, 0, 1000), Block("B3", -1, -1, 3000)>>),
   MapOf(8, <<Without(Block("B1", 0, 0, 1000), 1), Block("B2", 6, 4, 300)>>),
   MapOf(0, <<Block("B1", 0, 0, 1000)>>), MapOf(8, <<>>)}

(* Scenarios with many references, and some that are refused or cut.       *)
Called(o, id) == [o EXCEPT !.id = id]
Rich ==
  File(<<Full("ScenarioInfo", "word"), Full("ScenarioInfo", Known1), Full("MidStack", Known1),
         Full("MidVillage", "G000it0001"), Full("MidEvent", "G000XX9999"), Full("MidPlayer", NullId),
         Full("MidStackTemplate", "G000"), Object("MidQuestLog", <<>>), Object("MidNovelty", <<>>),
         Object("PlayerBuildings", <<>>)>>)
Texts == File(<<Full("MidPlayer", "G000tx0001"), Full("MidRuin", "G000UU0002")>>)
Spells == File(<<Full("MidSiteMage", "G000SS0001")>>)
Plain == File(<<Full("MidLocation", "word")>>)
ForeignId == File(<<Called(Full("MidLocation", "word"), "Zauber")>>)
Odd ==
  {[Rich EXCEPT !.signature = "MidFile"], [Rich EXCEPT !.signature = "other"],
   [Rich EXCEPT !.cut = TRUE], File(<<>>),
   File(<<Called(Full("PlayerBuildings", "word"), "P1"), Called(Object("PlayerBuildings", <<>>), "P2"),
          Called(Object("PlayerBuildings", <<>>), "P3")>>),
   File(<<Full("PlayerKnownSpells", "word"), Object("PlayerKnownSpells", <<>>)>>)}
Refused ==
  {File(<<o>>) :
     o \in {Without(UnitObject("S001", "S001", <<Known1>>, <<>>), i) : i \in 1..11}
       \cup {Resized(UnitObject("S001", "S001", <<Known1>>, <<>>), i, 0) : i \in {2, 3, 5, 6}}}
-----------------------------------------------------------------------------
(* Tables: units, with a row deleted and one that is cut off, items that   *)
(* share an id with them, texts, texts under other fields, spells with     *)
(* foreign letters, and a file that is no table.                           *)
Live(values) == [deleted |-> FALSE, values |-> values]
Table(name, words, rows) ==
  [name |-> name, words |-> words, readable |-> TRUE, complete |-> Len(rows), rows |-> rows]
UnitTable ==
  [Table("Gunits", {"unit"},
         <<Live([UNIT_ID |-> Known1, NAME_TXT |-> "X1", DESC_TXT |-> "X9"]),
           [Live([UNIT_ID |-> "G000UU0002", NAME_TXT |-> "", DESC_TXT |-> ""]) EXCEPT !.deleted = TRUE],
           Live([UNIT_ID |-> "G000XX9999", NAME_TXT |-> "X1", DESC_TXT |-> ""])>>)
     EXCEPT !.complete = 2]
Items ==
  Table("Gitem", {"item"},
        <<Live([ITEM_ID |-> "G000it0001", UNIT_ID |-> Known1, NAME_TXT |-> ""]),
          Live([ITEM_ID |-> NullId, UNIT_ID |-> NullId, NAME_TXT |-> "X1"])>>)
TextTable(name, id_field) ==
  Table(name, {"tglobal", "global"},
        <<Live(id_field :> "X1" @@ "TEXT" :> "Archer"), Live(id_field :> "G000tx0001" @@ "TEXT" :> name),
          Live(id_field :> "X1" @@ "TEXT" :> "")>>)
Spellbook ==
  Table("Gspells", {"spell"}, <<Live([SPELL_ID |-> "G000SS0001", NAME |-> "Zauber"])>>)
Broken == [Table("broken", {"unit"}, <<>>) EXCEPT !.readable = FALSE]
Nowhere == [d \in {"."} |-> {}]
Roots ==
  {NoDirectory, Nowhere, "." :> {UnitTable, Broken} @@ "Globals" :> {TextTable("Tglobal", "STR_ID")},
   "." :> {} @@ "DBF" :> {Items, UnitTable, Spellbook} @@ "Globals" :> {Broken},
   "." :> {} @@ "Globals" :> {UnitTable, TextTable("Tglobal", "STRID"), Items}
     @@ "Script" :> {TextTable("Tglobal2", "ID")}}
OptionSets ==
  {{}, {"report_ids", "annotate_ids"}, {"summary"}, {"summary", "report_ids"},
   {"summary", "annotate_ids", "json"}, {"json", "terrain", "terrain_debug", "objects"}}
WritableSets == {{}, {"json", "objects"}, ToSet(Outputs)}
Faults ==    (* outputs that cannot be opened, and some that are cut         *)
  {[writable |-> w, cut |-> {}] : w \in WritableSets}
  \cup {[writable |-> ToSet(Outputs), cut |-> {"json", "terrain_debug"}]}

AllRequests ==
  {Quick(File(<<o>>)) :
     o \in UNION {Variants(b) : b \in {Full(c, Known1) : c \in DOMAIN FieldKeys} \cup Columns}}
  \cup {Quick(File(<<o>>)) : o \in Sequential \cup {Full(c, id) : c \in DOMAIN FieldKeys, id \in {NullId, ""}}}
  \cup {Quick(file) : file \in Odd \cup Refused}
  \cup {[Quick(file) EXCEPT !.options = ToSet(Outputs), !.writable = f.writable, !.cut = f.cut] :
          file \in Maps \cup {ForeignId}, f \in Faults}
  \cup {[readable |-> TRUE, file |-> file, root |-> root, options |-> options] @@ f :
          file \in {Rich, Texts, Spells, Plain}, root \in Roots, options \in OptionSets, f \in Faults}
  \cup {[Quick(Plain) EXCEPT !.readable = FALSE]}
-----------------------------------------------------------------------------
Samples == INSTANCE MCGames
SampleGames == Samples!AllGames
SampleInspections == Samples!AllInspections
=============================================================================
