-------------------------- MODULE ScenarioInspection --------------------------
(***************************************************************************)
(* The command sg-inspect of src/src/cli/commands_sg_inspect.cpp: it reads *)
(* a scenario (ScenarioReader), the tables of the game if it is given a    *)
(* directory (GlobalIdResolver), prints what it found and writes it to     *)
(* files.                                                                  *)
(*                                                                         *)
(* A request holds the scenario file, the directory of the tables (a       *)
(* function from its parts to their tables), the options, and of the       *)
(* outputs those that can be opened and those whose end is lost while they *)
(* are written.  The tables of one directory are read in the order in which*)
(* the file system lists them, which is any order.                         *)
(***************************************************************************)
EXTENDS ScenarioReader

CONSTANTS
  Requests,       (* the calls of the command                                *)
  NoDirectory,    (* no directory is given, or it is not one                 *)
  IndexableIds, UpperCase, ShortIds,
  ForeignTexts    (* the texts that are not UTF-8                            *)

Resolver == INSTANCE GlobalIdResolver

VARIABLES
  request,
  stage,     (* what the command does next                                   *)
  pending,   (* the tables still to be read, directory by directory          *)
  seen,      (* the tables that were read, in their order                    *)
  parsed,    (* the parse result                                             *)
  printed,   (* what was printed: a function from its headings               *)
  written,   (* what the outputs hold: [content, whole]                      *)
  claimed,   (* the outputs of which "Wrote" was printed                     *)
  exit       (* the exit code, -1 before the end                             *)

inspectionVars == <<request, stage, pending, seen, parsed, printed, written, claimed, exit>>

Nothing == [ok |-> FALSE]
Outputs == <<"json", "terrain", "terrain_debug", "objects">>

Fresh ==
  /\ stage = "open"
  /\ pending = <<>> /\ seen = <<>>
  /\ parsed = Nothing
  /\ printed = <<>> /\ written = <<>>
  /\ claimed = {}
  /\ exit = -1
InspectionInit == request \in Requests /\ Fresh

HasResolver == request.root # NoDirectory
Usages == parsed.usages

Fail ==
  /\ exit' = 1 /\ stage' = "ended"
  /\ UNCHANGED <<request, pending, seen, printed, claimed>>
-----------------------------------------------------------------------------
(* The file is missing, cannot be opened or cannot be read.                *)
OpenFails == stage = "open" /\ ~request.readable /\ Fail /\ UNCHANGED <<parsed, written>>

(* SgParser::parse, and the directories of load_game_data.                 *)
ParseFile(result) ==
  /\ result.ok
  /\ parsed' = result
  /\ pending' = IF HasResolver
                THEN SelectSeq(Resolver!Directories(request.root), LAMBDA d : d # {}) ELSE <<>>
  /\ stage' = "load"
  /\ UNCHANGED <<request, seen, printed, written, claimed, exit>>

(* A signature or a unit that is not as it should be.                      *)
ParseFails(result) ==
  /\ ~result.ok
  /\ Fail
  /\ UNCHANGED <<parsed, written>>

(* load_dbf_file, for the next table of the directory.                     *)
LoadTable(table) ==
  /\ stage = "load" /\ pending # <<>>
  /\ table \in Head(pending)
  /\ seen' = Append(seen, table)
  /\ pending' = SelectSeq([pending EXCEPT ![1] = @ \ {table}], LAMBDA d : d # {})
  /\ UNCHANGED <<request, stage, parsed, printed, written, claimed, exit>>

Counts == [c \in ParsedClasses |-> Len(parsed.template[c])]

(* print_summary and what the resolver knows of the usages.                *)
PrintSummary ==
  /\ stage = "load" /\ pending = <<>>
  /\ printed' =
       (IF "summary" \notin request.options THEN <<>>
        ELSE "objects" :> Len(parsed.index) @@ "counts" :> Counts
             @@ "usages" :> Cardinality(Usages)
             @@ (IF ~HasResolver THEN <<>>
                 ELSE "rate" :> LET s == Resolver!Summarize(Usages, seen)
                                IN  [resolved |-> s.resolved, of |-> s.total - s.null]))
       @@ (IF HasResolver /\ Len(Resolver!Loaded(seen)) = 0 THEN "warning" :> TRUE ELSE <<>>)
  /\ stage' = "report"
  /\ UNCHANGED <<request, pending, seen, parsed, written, claimed, exit>>

Wants(option) == {"summary", option} \subseteq request.options /\ HasResolver

PrintReport ==
  /\ stage = "report"
  /\ printed' = (IF Wants("report_ids") THEN "unresolved" :> Resolver!UnresolvedReport(Usages, seen)
                 ELSE <<>>) @@ printed
  /\ stage' = "annotate"
  /\ UNCHANGED <<request, pending, seen, parsed, written, claimed, exit>>

(* The row a usage is printed with.  For an id that only a text is known   *)
(* of there is none, and the code reads the empty optional all the same.   *)
Annotation(u) ==
  LET answer == Resolver!ResolveRaw(seen, u.value)
  IN  IF answer.status # "resolved" THEN "unresolved"
      ELSE IF answer.matches = <<>> THEN Garbage ELSE answer.matches[1].table.name
Annotations == [u \in {v \in Usages : v.value # NullId} |-> Annotation(u)]
ReadsNothing == \E u \in DOMAIN Annotations : Annotations[u] = Garbage

Annotate ==
  /\ stage = "annotate"
  /\ printed' = (IF Wants("annotate_ids") THEN "annotations" :> Annotations ELSE <<>>) @@ printed
  /\ stage' = "write"
  /\ UNCHANGED <<request, pending, seen, parsed, written, claimed, exit>>

(* Reading what is not there may as well end the process.                  *)
AnnotateCrashes ==
  /\ stage = "annotate" /\ Wants("annotate_ids") /\ ReadsNothing
  /\ stage' = "crashed"
  /\ UNCHANGED <<request, pending, seen, parsed, printed, written, claimed, exit>>
-----------------------------------------------------------------------------
(* The texts the dump takes from the tables, and those it takes from the   *)
(* file as they are; all others are converted by decode_cp1251.            *)
TableTexts ==
  UNION {LET answer == Resolver!ResolveRaw(seen, id)
         IN  {t.value : t \in answer.names} \cup {t.id : t \in answer.names}
             \cup UNION {Range(answer.matches[i].values) : i \in DOMAIN answer.matches} :
         id \in Resolver!Ids(Usages)}
FileTexts == UNION {{x.class, x.id} : x \in ToSet(parsed.index)}
DumpFails ==
  \/ FileTexts \cap ForeignTexts # {}
  \/ HasResolver /\ TableTexts \cap ForeignTexts # {}

(* dump_json: the attributes of an entry that are not written.             *)
Equipment == {"banner", "tome", "battle1", "battle2", "artifact1", "artifact2", "boots"}
LeftOut(class) ==
  CASE class = "ScenarioInfo" ->
         {"max_unit", "max_spell", "max_leader", "max_city", "diff_scenario", "diff_game", "suggested_level"}
    [] class = "MidUnit" -> {"modifier_ids", "transformed", "dynamic_level"}
    [] class = "MidStack" ->
         {"group_id", "ai_order", "ai_priority", "create_level", "battles_won", "facing", "ai_ignore"}
         \cup Equipment
    [] class \in SiteClasses ->
         {"spells", "buy_armor", "buy_jewel", "buy_weapon", "buy_banner", "buy_potion", "buy_scroll",
          "buy_wand", "buy_value", "qty_item", "qty_unit", "qty_spell"}
    [] class = "MidCrystal" -> {"ai_priority"}
    [] class = "PlayerBuildings" -> {"build_data"}
    [] class = "MidgardMapFog" -> {"rows"}
    [] class \in {"MidgardMap", "MidgardMapBlock"} -> {"id", "grid", "values"}
    [] OTHER -> {}

(* Lists of a site that are empty are left out; of buildings and of fog    *)
(* only the sizes are written, and of the map its blocks and its size.     *)
EmptyLists(class, e) ==
  {a \in DOMAIN e : class \in SiteClasses /\ a \in {"items", "missions", "units"} /\ e[a] = <<>>}
Sizes(class, e) ==
  CASE class = "PlayerBuildings" -> [build_data_size |-> Len(e.build_data)]
    [] class = "MidgardMapFog" -> [row_count |-> Len(e.rows)]
    [] OTHER -> <<>>
Shown(class, e) ==
  [a \in DOMAIN e \ (LeftOut(class) \cup EmptyLists(class, e)) |-> e[a]] @@ Sizes(class, e)
Listing ==
  [c \in ParsedClasses |->
     [i \in DOMAIN parsed.template[c] |-> Shown(c, parsed.template[c][i])]]
TerrainSize ==
  [blocks |-> Len(parsed.template["MidgardMapBlock"]), tiles |-> Cardinality(DOMAIN parsed.terrain)]

(* What is written beside a usage: what its id resolves to.                *)
ShownUsage(answer) ==
  [resolved |-> answer.status = "resolved", source |-> answer.source, names |-> answer.names,
   tables |-> IF answer.matches = <<>> THEN {} ELSE {answer.matches[1].table.name}]
ShownUsages == [u \in Usages |-> ShownUsage(Resolver!ResolveRaw(seen, u.value))]

(* The classes under each heading; an entry counts where the index has it. *)
Labelled(index, label) == SelectSeq(index, LAMBDA x : x.label = label)
ClassCounts(index) ==
  [c \in {x.class : x \in ToSet(index)} |-> Len(SelectSeq(index, LAMBDA x : x.class = c))]
Classification ==
  [label \in {"parsed", "empty", "unknown"} |-> ClassCounts(Labelled(parsed.index, label))]

JsonDump ==
  [entries |-> Listing, terrain |-> TerrainSize, hulls |-> parsed.hulls, usages |-> Usages,
   classes |-> Classification, objects |-> parsed.index]
  @@ (IF ~HasResolver THEN <<>>
      ELSE [shown |-> ShownUsages,
            summary |-> Resolver!Summarize(Usages, seen),
            resolutions |-> Resolver!ResolutionMap(Usages, seen),
            unresolved |-> Resolver!UnresolvedReport(Usages, seen)])

(* write_terrain_debug_csv: the number of a tile and the 24 bits above it. *)
TerrainDebug ==
  [p \in DOMAIN parsed.terrain |->
     [raw |-> parsed.terrain[p], low |-> parsed.terrain[p] % 256, high |-> parsed.terrain[p] \div 256]]

Content(output) ==
  CASE output = "json" -> JsonDump
    [] output = "terrain" -> parsed.terrain
    [] output = "terrain_debug" -> TerrainDebug
    [] output = "objects" -> parsed.index

Asked(output) == output \in request.options
IsNext(output) ==
  /\ stage = "write" /\ Asked(output)
  /\ output \notin claimed
  /\ \A i, k \in DOMAIN Outputs :
       i < k /\ Outputs[k] = output /\ Asked(Outputs[i]) => Outputs[i] \in claimed

WithOutput(output, content) ==
  [o \in DOMAIN written \cup {output} |-> IF o = output THEN content ELSE written[o]]

(* What an output holds that could be opened.  Its stream is not looked at *)
(* again, so that one whose end is lost is as good as a whole one.         *)
Written(output) == [content |-> Content(output), whole |-> output \notin request.cut]
Empty == [content |-> <<>>, whole |-> FALSE]

(* An output; one that cannot be opened is claimed all the same.           *)
Write(output) ==
  /\ IsNext(output)
  /\ output = "json" => "json" \notin request.writable \/ ~DumpFails
  /\ written' = IF output \in request.writable THEN WithOutput(output, Written(output)) ELSE written
  /\ claimed' = claimed \cup {output}
  /\ UNCHANGED <<request, stage, pending, seen, parsed, printed, exit>>

(* The dump is made when its file is open and empty already.               *)
DumpThrows ==
  /\ IsNext("json") /\ "json" \in request.writable /\ DumpFails
  /\ written' = WithOutput("json", Empty)
  /\ Fail
  /\ UNCHANGED parsed

Finish ==
  /\ stage = "write" /\ \A i \in DOMAIN Outputs : Asked(Outputs[i]) => Outputs[i] \in claimed
  /\ exit' = 0 /\ stage' = "ended"
  /\ UNCHANGED <<request, pending, seen, parsed, printed, written, claimed>>

InspectionNext ==
  \/ OpenFails
  \/ /\ stage = "open" /\ request.readable
     /\ \E result \in {Parse(request.file)} : ParseFile(result) \/ ParseFails(result)
  \/ \E table \in UNION ToSet(pending) : LoadTable(table)
  \/ PrintSummary \/ PrintReport \/ Annotate \/ AnnotateCrashes
  \/ \E output \in ToSet(Outputs) : Write(output)
  \/ DumpThrows \/ Finish

InspectionSpec == InspectionInit /\ [][InspectionNext]_inspectionVars
-----------------------------------------------------------------------------
(* What was written into an object under a key, read without any search.   *)
Own(o, key) == SelectSeq(o.fields, LAMBDA f : f.key = key)

KindOf ==
  [text |-> "text", texts |-> "text", number |-> "number", numbers |-> "number",
   byte |-> "number", flag |-> "number", bytes |-> "bytes"]

Meant(type, o, key) ==
  LET own == Own(o, key)
      first == own[1]
      texts == SelectSeq(own, LAMBDA f : f.size > 0)
  IN  CASE type = "text" -> IF own = <<>> \/ first.size = 0 THEN "" ELSE first.value
        [] type = "texts" -> [i \in DOMAIN texts |-> texts[i].value]
        [] type = "numbers" -> [i \in DOMAIN own |-> own[i].size]
        [] type = "bytes" -> IF own = <<>> THEN <<>> ELSE first.bytes
        [] OTHER -> LET n == IF own = <<>> THEN 0 ELSE first.size
                    IN  CASE type = "number" -> n
                          [] type = "byte" -> n % 256
                          [] type = "flag" -> n # 0

(* A key whose search ends where it should: it is no part of another key   *)
(* and no text mentions it, its fields are of the right kind, and no number*)
(* behind it begins with a byte that continues a name.                     *)
Legible(type, o, key) ==
  \A i \in DOMAIN o.fields :
    LET f == o.fields[i] IN
    /\ key \notin f.mentions
    /\ <<key, f.key>> \notin TailOf \cup HeadOf
    /\ f.key = key =>
         /\ f.kind = KindOf[type]
         /\ IF f.kind = "number" THEN LowByte(f) # Underscore ELSE ~IsWord(LowByte(f))

(* Attributes with a second key, which counts when the first holds nothing.*)
HasSecondKey(class, a) ==
  a \in {"id", "spell_ids", "build_data"}
  \/ <<class, a>> \in {<<"MidBag", "items">>, <<"MidSiteMerchant", "items">>,
                       <<"MidLandmark", "map_gfx_id">>, <<"MidCrystal", "type">>}

IsFilled(o, key) ==
  \E f \in ToSet(Own(o, key)) : f.size > 0 /\ ~(f.kind = "text" /\ f.value = "")

AttributeIsRead(o, e, a) ==
  LET type == Structure[o.class][a]
      key == FieldKeys[o.class][a]
      all(t, keys) == \A i \in DOMAIN keys : Legible(t, o, keys[i])
      members == [i \in 1..6 |-> LET id == Meant("text", o, UnitKeys[i])
                                 IN  IF id = "" THEN NullId ELSE id]
  IN  CASE type = "members" -> all("text", UnitKeys) => e[a] = members
        [] type = "hired" ->
             all("text", UnitKeys) => e[a] = SelectSeq(members, LAMBDA id : id # NullId)
        [] type = "cells" ->
             all("number", PositionKeys) =>
               e[a] = [i \in 1..6 |-> Meant("number", o, PositionKeys[i])]
        [] OTHER ->
             Legible(type, o, key) /\ (HasSecondKey(o.class, a) => IsFilled(o, key))
               => e[a] = Meant(type, o, key)

(* A list written as groups of fields under the given keys and types; a    *)
(* text of no length is passed over and the ones after it move up.         *)
Groups(o, keys) ==
  LET own == SelectSeq(o.fields, LAMBDA f : f.key \in ToSet(keys))
  IN  IF Len(own) % Len(keys) = 0 /\ \A i \in DOMAIN own : own[i].key = keys[((i - 1) % Len(keys)) + 1]
      THEN [g \in 1..Len(own) \div Len(keys) |->
              [k \in DOMAIN keys |-> own[(g - 1) * Len(keys) + k]]]
      ELSE <<>>
ListIsRead(o, list, keys, types, entry(_)) ==
  /\ Groups(o, keys) # <<>>
  /\ \A k \in DOMAIN keys : Legible(types[k], o, keys[k])
  /\ \A f \in ToSet(o.fields) : f.kind = "text" => f.size > 0
  => list = [g \in DOMAIN Groups(o, keys) |-> entry(Groups(o, keys)[g])]

(* An entry of the mountains has so many bytes.                            *)
PeakBytes == 67

ListsAreRead(o, e) ==
  CASE o.class = "MidDiplomacy" ->
         ListIsRead(o, e.relations, <<"RACE_1", "RACE_2", "RELATION">>,
                    <<"number", "number", "number">>,
                    LAMBDA g : [race1 |-> g[1].size, race2 |-> g[2].size, relation |-> g[3].size])
    [] o.class = "MidTalismanCharges" ->
         ListIsRead(o, e.charges, <<"ID_TALIS", "CHARGES">>, <<"text", "number">>,
                    LAMBDA g : [item_id |-> g[1].value, charges |-> g[2].size])
    [] o.class = "MidgardPlan" ->
         ListIsRead(o, e.entries, <<"POS_X", "POS_Y", "ELEMENT">>, <<"number", "number", "text">>,
                    LAMBDA g : [element |-> g[3].value, pos_x |-> g[1].size, pos_y |-> g[2].size])
    [] o.class = "MidScenVariables" ->
         ListIsRead(o, e.variables, <<"NAME", "VALUE", "VALUE2">>, <<"text", "text", "text">>,
                    LAMBDA g : [name |-> g[1].value, value |-> g[2].value, value2 |-> g[3].value])
    [] o.class = "MidMountains" /\ (\A f \in ToSet(o.fields) : f.size < PeakBytes) ->
         ListIsRead(o, e.entries,
                    <<"ID_MOUNT", "SIZE_X", "SIZE_Y", "POS_X", "POS_Y", "IMAGE", "RACE">>,
                    [k \in 1..7 |-> "number"],
                    LAMBDA g : [id_mount |-> g[1].size, size_x |-> g[2].size, size_y |-> g[3].size,
                                pos_x |-> g[4].size, pos_y |-> g[5].size, image |-> g[6].size,
                                race |-> g[7].size])
    [] o.class = "MidgardMapFog" /\ (\A f \in ToSet(o.fields) : f.kind = "bytes" => f.size > 0) ->
         ListIsRead(o, e.rows, <<"POS_Y", "FOG">>, <<"number", "bytes">>,
                    LAMBDA g : [pos_y |-> g[1].size, raw_bytes |-> g[2].bytes])
    [] OTHER -> TRUE

(* The tile of the map at p: what the last block that covers it holds      *)
(* there, eight tiles of a column after eight of the column before.        *)
Covers(b, p) ==
  b.grid \in Nat \X Nat /\ b.values # <<>> /\ p[1] - b.grid[1] \in 0..3 /\ p[2] - b.grid[2] \in 0..7
TileIsRead(blocks, p) ==
  LET over == {i \in DOMAIN blocks : Covers(blocks[i], p)}
      b == blocks[Max(over)]
      at == 8 * (p[1] - b.grid[1]) + p[2] - b.grid[2]
  IN  parsed.terrain[p] = IF over = {} THEN 0 ELSE b.values[at + 1]

ObjectsWithEntries(class) ==
  LET objects == SelectSeq(Objects(request.file), LAMBDA o : o.class = class /\ HasContent(o))
      entries == parsed.template[class]
  IN  [i \in DOMAIN entries |-> <<objects[Len(objects) - Len(entries) + i], entries[i]>>]

(* What was written into the file is what the template holds: every        *)
(* attribute whose key is legible, every list of groups in its order and   *)
(* every tile of the map; and an object is called parsed in the index if   *)
(* and only if it has an entry.  The search for keys among all bytes of an *)
(* object may stop early, stop late or take one key for another.           *)
WhatIsWrittenIsRead ==
  parsed # Nothing /\ seen = <<>> /\ stage = "load" =>
    /\ \A c \in ParsedClasses : \A i \in DOMAIN parsed.template[c] :
         LET o == ObjectsWithEntries(c)[i][1]
             e == parsed.template[c][i]
         IN  /\ c \in DOMAIN FieldKeys => \A a \in DOMAIN FieldKeys[c] : AttributeIsRead(o, e, a)
             /\ ListsAreRead(o, e)
    /\ \A p \in DOMAIN parsed.terrain : TileIsRead(parsed.template["MidgardMapBlock"], p)
    /\ \A c \in ParsedClasses \ SingleClasses :
         LET of == SelectSeq(parsed.index, LAMBDA x : x.class = c)
             ids == {of[i].id : i \in DOMAIN of}
         IN  Cardinality(ids) = Len(of) =>
               Len(SelectSeq(of, LAMBDA x : x.label = "parsed")) = Len(parsed.template[c])
-----------------------------------------------------------------------------
(* What is known of an id, whatever the order of the tables was.           *)
Known(id) ==
  \E table \in {t \in ToSet(seen) : t.readable} :
    \E r \in 1..table.complete :
      LET values == table.rows[r].values IN
      /\ ~table.rows[r].deleted
      /\ \/ id \in IndexableIds /\ \E f \in DOMAIN values : id = Resolver!Upper(values[f])
         \/ /\ Resolver!IsTglobal(table) /\ Resolver!TextIdField(values) # ""
            /\ values[Resolver!TextIdField(values)] = id
            /\ "TEXT" \in DOMAIN values /\ values["TEXT"] # ""

(* The attributes that refer to others, and those whose ids are not        *)
(* collected, on purpose or not.                                           *)
NotCollected ==
  {<<"MidItem", "type">>, <<"MidUnit", "modifier_ids">>, <<"MidStack", "group_id">>,
   <<"MidLandmark", "image">>, <<"MidCrystal", "type">>, <<"PlayerKnownSpells", "player_id">>}
Prose ==
  {"name", "name_txt", "title", "description", "creator", "campaign", "briefing", "brief_long",
   "debunk_win", "debunk_loss", "popup_texts", "bank", "spell_bank", "cash", "buy_armor",
   "buy_jewel", "buy_weapon", "buy_banner", "buy_potion", "buy_scroll", "buy_wand"}
References(c) ==
  CASE c = "MidUnit" -> {"type_id", "modifier_ids"}
    [] c = "MidTalismanCharges" -> {"charges"}
    [] c = "MidgardPlan" -> {"entries"}
    [] c = "MidStackTemplate" -> {"units", "owner", "leader", "subrace", "order_target", "modifier_id"}
    [] c \in DOMAIN FieldKeys ->
         {a \in DOMAIN FieldKeys[c] \ ({"id"} \cup Prose) :
            Structure[c][a] \in {"text", "texts", "members", "hired"}}
    [] OTHER -> {}
EveryReferenceIsCollected ==
  \A c \in ParsedClasses : \A i \in DOMAIN parsed.template[c] :
    LET e == parsed.template[c][i] IN
    \A a \in References(c) : <<c, a>> \notin NotCollected =>
      ToSet(TextsIn(c, e, a)) \cap GlobalIds
        \subseteq {u.value : u \in {v \in Usages : v.class = c /\ v.entry = i}}

TalliesAgree(s, r, m, real, known) ==
  /\ s.resolved = Cardinality(known) /\ s.unresolved = Cardinality(real \ known)
  /\ s.total = s.resolved + s.unresolved + s.null
  /\ \A tally \in {s.by_source_kind, s.by_class, s.by_field} : SumFunction(tally) = s.total
  /\ SumFunction(s.by_domain_category) = Cardinality({u \in Usages : u.value \notin ShortIds})
  /\ s.null = IF "null" \in DOMAIN s.by_source_kind THEN s.by_source_kind["null"] ELSE 0
  /\ s.unique = s.unique_resolved + s.unique_unresolved + s.unique_null
  /\ <<r.total, r.resolved, r.unresolved, r.null>> = <<s.total, s.resolved, s.unresolved, s.null>>
  /\ {x.id : x \in r.entries} = {id \in DOMAIN m : ~m[id].resolved} \ {NullId}
  /\ MapThenSumSet(LAMBDA x : x.usage_count, r.entries) = r.unresolved
  /\ \A id \in DOMAIN m : m[id].resolved => m[id].source \in {"dbf", "text"}
TalliesAreRight ==
  stage = "report" /\ HasResolver =>
    TalliesAgree(Resolver!Summarize(Usages, seen), Resolver!UnresolvedReport(Usages, seen),
                 Resolver!ResolutionMap(Usages, seen), Resolver!Real(Usages),
                 {u \in Resolver!Real(Usages) : Known(u.value)})

(* What the exit code tells.  Without a scenario it is 1 and nothing was   *)
(* touched.  With one it is 1 if and only if the dump was asked for, could *)
(* be opened and holds a text that is not UTF-8: then the dump is empty and*)
(* no output after it was begun.  Otherwise it is 0, although outputs may  *)
(* be missing that could not be opened, and of others the end: it says that*)
(* each was tried, and that what is there is the beginning, and where no   *)
(* write failed all, of what was read.                                     *)
AllAsked == ToSet(Outputs) \cap request.options
DumpIsRefused == DumpFails /\ "json" \in request.options \cap request.writable
NothingIsTouched == claimed = {} /\ DOMAIN written = {}
OutputIsRight(output) ==
  /\ written[output].content = Content(output)
  /\ written[output].whole <=> output \notin request.cut
ExitCodeIsRight ==
  /\ stage = "crashed" \/ parsed = Nothing => NothingIsTouched
  /\ stage = "ended" =>
       IF parsed = Nothing THEN exit = 1
       ELSE IF DumpIsRefused
       THEN exit = 1 /\ claimed = {} /\ DOMAIN written = {"json"} /\ written["json"] = Empty
       ELSE /\ exit = 0 /\ claimed = AllAsked
            /\ DOMAIN written = AllAsked \cap request.writable
            /\ \A output \in DOMAIN written : OutputIsRight(output)

(* A whole dump can be followed: a usage is found in the entry it is said  *)
(* to be in, but for the equipment of stacks and the spells of mages, which*)
(* are collected and not written; what stands beside it is what the table  *)
(* of resolutions says; and every object of the index is under a heading.  *)
FoundInItsEntry(dump, u) ==
  LET e == dump.entries[u.class][u.entry]
  IN  u.field \in DOMAIN e /\ u.value \in ToSet(TextsIn(u.class, e, u.field))
NotWritten == ({"MidStack"} \X Equipment) \cup {<<"MidSiteMage", "spells">>}
DumpCanBeFollowed ==
  "json" \in DOMAIN written /\ written["json"].whole =>
    LET dump == written["json"].content IN
    /\ \A u \in dump.usages : FoundInItsEntry(dump, u) <=> <<u.class, u.field>> \notin NotWritten
    /\ HasResolver => \A u \in dump.usages :
         LET of == dump.resolutions[u.value]
         IN  [resolved |-> of.resolved, source |-> of.source, tables |-> of.tables]
               = [resolved |-> dump.shown[u].resolved, source |-> dump.shown[u].source,
                  tables |-> dump.shown[u].tables]
    /\ MapThenSumSet(LAMBDA label : SumFunction(dump.classes[label]), DOMAIN dump.classes)
         = Len(dump.objects)

(* The reports of one run tell the same story, and the right one: every    *)
(* reference in the template is among the usages, each usage is counted    *)
(* once in every tally, an id is resolved if and only if a table has it,   *)
(* whatever order the tables were read in, and the ids listed as           *)
(* unresolved are the rest.  The exit code is 1 without a scenario and      *)
(* when the dump could not be made, which is then there, empty, and the    *)
(* only output; otherwise it is 0 and every output was tried, but one that *)
(* could not be opened is missing and one whose write failed is cut: no    *)
(* other is.  Every usage in a whole dump can be found in the entry it     *)
(* names.                                                                  *)
ReportsAreRight ==
  /\ stage = "report" => EveryReferenceIsCollected
  /\ TalliesAreRight
  /\ ExitCodeIsRight
  /\ DumpCanBeFollowed
=============================================================================
