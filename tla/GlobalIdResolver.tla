--------------------------- MODULE GlobalIdResolver ---------------------------
(***************************************************************************)
(* GlobalIdResolver and DbfGameDataIndex of src/src/d2gamedata, and the    *)
(* reports src/src/d2analysis makes with them: which rows of the game's    *)
(* tables an id of a scenario stands for.                                  *)
(*                                                                         *)
(* A table is a .dbf file: its name (the words in it), whether it can be   *)
(* read, and its rows, some of them deleted, some missing at the end.  The *)
(* index is a function of the tables read so far, in their order, which is *)
(* the one in which the file system lists them.                            *)
(***************************************************************************)
EXTENDS Integers, Sequences, FiniteSets, FiniteSetsExt, SequencesExt, TLC

CONSTANTS
  NullId,         (* "G000000000", kNullGlobalId                             *)
  IndexableIds,   (* the ids of ten characters in capital letters            *)
  UpperCase,      (* other texts that are such an id in small letters        *)
  ShortIds        (* the ids of fewer than seven characters                  *)

Upper(text) == IF text \in DOMAIN UpperCase THEN UpperCase[text] ELSE text

(* read_records: deleted rows and rows the file has no bytes for are not   *)
(* there, and do not count.                                                *)
Rows(table) ==
  SelectSeq(SubSeq(table.rows, 1, table.complete), LAMBDA row : ~row.deleted)

(* The category of a table: the first word its name contains.              *)
Categories ==
  <<<<"unit", "unit">>, <<"attack", "attack">>, <<"race", "race">>, <<"lord", "lord">>,
    <<"item", "item">>, <<"spell", "spell">>, <<"build", "building">>,
    <<"land", "map_graphic">>, <<"mountain", "mountain">>, <<"road", "road">>,
    <<"terrain", "terrain">>, <<"tile", "terrain">>, <<"text", "text">>, <<"tglobal", "text">>,
    <<"global", "global">>, <<"facet", "facet">>, <<"leader", "leader">>,
    <<"mercen", "mercenary">>, <<"music", "music">>, <<"sound", "sound">>, <<"movie", "movie">>,
    <<"effect", "effect">>, <<"ai", "ai">>, <<"scen", "scenario">>>>
InferCategory(table) ==
  LET of == SelectSeq(Categories, LAMBDA rule : rule[1] \in table.words)
  IN  IF of = <<>> THEN "misc" ELSE of[1][2]
IsTglobal(table) == "tglobal" \in table.words

(* load_game_data: the directories that are searched, one after the other. *)
(* Below a root with a table of its own lies everything.                   *)
Directories(root) ==
  IF root["."] # {} THEN <<UNION {root[d] : d \in DOMAIN root}>>
  ELSE IF "DBF" \in DOMAIN root THEN <<root["DBF"]>>
  ELSE LET searched == SelectSeq(<<"Globals", "Script">>, LAMBDA d : d \in DOMAIN root)
       IN  [i \in DOMAIN searched |-> root[searched[i]]]
-----------------------------------------------------------------------------
(* The readable tables among those seen; the others count as failed.       *)
Loaded(seen) == SelectSeq(seen, LAMBDA t : t.readable)

(* The values of the rows of a table that are ids, row by row.             *)
RefsIn(table, id) ==
  LET rows == Rows(table)
  IN  FlattenSeq([r \in DOMAIN rows |->
        [k \in 1..Cardinality({f \in DOMAIN rows[r].values : Upper(rows[r].values[f]) = id}) |->
           [table |-> table, row |-> r, values |-> rows[r].values]]])

(* find_global_id: asks with the id as it is written.                      *)
FindGlobalId(seen, id) ==
  IF id \notin IndexableIds THEN <<>>
  ELSE FlattenSeq([i \in DOMAIN Loaded(seen) |-> RefsIn(Loaded(seen)[i], id)])

(* text_map_: the texts of Tglobal under the first of three fields a row   *)
(* has; a later row replaces an earlier one.                               *)
TextIdField(values) ==
  LET has == SelectSeq(<<"STR_ID", "STRID", "ID">>, LAMBDA f : f \in DOMAIN values)
  IN  IF has = <<>> THEN "" ELSE has[1]
TextsFor(seen, id) ==
  LET of(table) ==
        IF ~IsTglobal(table) THEN <<>>
        ELSE SelectSeq(Rows(table), LAMBDA row :
               /\ TextIdField(row.values) # "" /\ "TEXT" \in DOMAIN row.values
               /\ row.values[TextIdField(row.values)] = id
               /\ id # "" /\ row.values["TEXT"] # "")
  IN  FlattenSeq([i \in DOMAIN Loaded(seen) |-> of(Loaded(seen)[i])])
ResolveText(seen, id) ==
  LET rows == TextsFor(seen, id) IN IF rows = <<>> THEN "" ELSE Last(rows).values["TEXT"]

(* What scan_report counts.                                                *)
RowCount(tables) == Len(FlattenSeq([i \in DOMAIN tables |-> Rows(tables[i])]))
ScanOf(seen, refs) ==
  [loaded |-> Len(Loaded(seen)), failed |-> Len(seen) - Len(Loaded(seen)),
   rows |-> RowCount(Loaded(seen)), text_rows |-> RowCount(SelectSeq(Loaded(seen), IsTglobal)),
   indexed |-> MapThenSumSet(LAMBDA id : Len(refs[id]), IndexableIds),
   tables |-> UNION {{ref.table.name : ref \in ToSet(refs[id])} : id \in IndexableIds},
   unique |-> Cardinality({id \in IndexableIds : refs[id] # <<>>})]
ScanReport(seen) == ScanOf(seen, [id \in IndexableIds |-> FindGlobalId(seen, id)])
-----------------------------------------------------------------------------
(* A text a row names: its id, and the text if there is one.               *)
Named(seen, ref, field) ==
  IF field \notin DOMAIN ref.values \/ ref.values[field] = "" THEN {}
  ELSE {[id |-> ref.values[field], value |-> ResolveText(seen, ref.values[field])]}

Answer(status, source, category) ==
  [status |-> status, source |-> source, category |-> category, matches |-> <<>>, names |-> {}]

(* The answer of the first row that has the id, with the names it has; that*)
(* of a text of that name; or none.                                        *)
OfRow(refs, own, name, description) ==
  [Answer("resolved", "dbf", InferCategory(refs[1].table)) EXCEPT
     !.matches = refs, !.names = (IF name = {} THEN own ELSE name) \cup description]
OfTables(seen, refs, own) ==
  IF refs # <<>>
  THEN OfRow(refs, own, Named(seen, refs[1], "NAME_TXT"), Named(seen, refs[1], "DESC_TXT"))
  ELSE IF own # {} THEN [Answer("resolved", "text", "text") EXCEPT !.names = own]
  ELSE Answer("unresolved", "unknown", "")
Own(id, text) == IF text = "" THEN {} ELSE {[id |-> id, value |-> text]}

(* Mutant of ResolveRaw: the null reference is looked up like the others.  *)
ResolveNullToo(seen, id) ==
  OfTables(seen, FindGlobalId(seen, id), Own(id, ResolveText(seen, id)))

(* resolve_raw.                                                            *)
ResolveRaw(seen, id) ==
  IF id = NullId THEN Answer("null", "null", "null_reference")
  ELSE OfTables(seen, FindGlobalId(seen, id), Own(id, ResolveText(seen, id)))
-----------------------------------------------------------------------------
(* The reports about the usages of ids in a scenario.                      *)
Ids(usages) == {u.value : u \in usages}
Tally(usages, key(_)) == [k \in {key(u) : u \in usages} |-> Cardinality({u \in usages : key(u) = k})]

(* summarize; answer says what each id resolves to.                        *)
SummaryOf(usages, answer, real, resolved, scan) ==
  LET category(u) ==
        IF u.value = NullId THEN "null_reference"
        ELSE IF u \in resolved /\ answer[u.value].category # "" THEN answer[u.value].category
        ELSE "unresolved"
  IN  [total |-> Cardinality(usages), resolved |-> Cardinality(resolved),
       unresolved |-> Cardinality(real \ resolved), null |-> Cardinality(usages \ real),
       unique |-> Cardinality(Ids(usages)), unique_resolved |-> Cardinality(Ids(resolved)),
       unique_unresolved |-> Cardinality(Ids(real \ resolved)),
       unique_null |-> IF NullId \in Ids(usages) THEN 1 ELSE 0,
       by_source_kind |-> Tally(usages, LAMBDA u : answer[u.value].source),
       by_domain_category |->
         Tally({u \in usages : u.value \notin ShortIds}, category),
       by_class |-> Tally(usages, LAMBDA u : u.class),
       by_field |-> Tally(usages, LAMBDA u : u.field),
       scan |-> scan]
Answers(usages, seen) == [id \in Ids(usages) |-> ResolveRaw(seen, id)]
Real(usages) == {u \in usages : u.value # NullId}
Resolved(usages, answer) == {u \in Real(usages) : answer[u.value].status = "resolved"}
Summarize(usages, seen) ==
  SummaryOf(usages, Answers(usages, seen), Real(usages), Resolved(usages, Answers(usages, seen)),
            ScanReport(seen))

(* build_unresolved_report.                                                *)
UnresolvedOf(usages, real, resolved) ==
  [total |-> Cardinality(usages), resolved |-> Cardinality(resolved),
   unresolved |-> Cardinality(real \ resolved), null |-> Cardinality(usages \ real),
   entries |-> {[id |-> id, usage_count |-> Cardinality({u \in usages : u.value = id}),
                 examples |-> Min({3, Cardinality({u \in usages : u.value = id})})] :
                  id \in Ids(real \ resolved)}]
UnresolvedReport(usages, seen) ==
  UnresolvedOf(usages, Real(usages), Resolved(usages, Answers(usages, seen)))

(* build_resolution_map.                                                   *)
ResolutionOf(answer, count) ==
  [resolved |-> answer.status = "resolved", source |-> answer.source,
   category |-> answer.category, matches |-> Len(answer.matches),
   tables |-> IF answer.matches = <<>> THEN {} ELSE {answer.matches[1].table.name},
   usage_count |-> count]
ResolutionMap(usages, seen) ==
  [id \in Ids(usages) |->
     ResolutionOf(ResolveRaw(seen, id), Cardinality({u \in usages : u.value = id}))]
=============================================================================
