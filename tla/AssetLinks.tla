------------------------------ MODULE AssetLinks ------------------------------
(***************************************************************************)
(* How the rows of the tables of a package refer to its other assets:      *)
(* asset_reference_resolver.cpp, which writes asset_links.json,            *)
(* asset_link_manifest.cpp, which reads it, and the questions that         *)
(* asset_database.cpp and engine_contract.cpp answer from it.              *)
(*                                                                         *)
(* A source is <<table, key>>: the identifier of a table and the key of a  *)
(* row.  A link is [source, kind, target, why, at, said]: at tells apart   *)
(* links that the resolver adds once for every mention, said is FALSE when *)
(* what the row says is empty.                                             *)
(***************************************************************************)
EXTENDS AssetPackage

(* collect_strings: the texts of a row with the fields that hold them.     *)
Mention(field, text) == [field |-> field, text |-> text]
ElementMentions(element) ==
  <<Mention("element", element.id)>>
  \o [i \in DOMAIN element.images |-> Mention("IMAGE", element.images[i])]
FieldMentions(cells, fields) == [i \in DOMAIN fields |-> Mention(fields[i], cells[fields[i]])]

RowMentions(kind, cells) ==
  CASE kind = "dbf" -> FieldMentions(cells, SetToSeq(DOMAIN cells))
    [] kind = "dat" -> <<Mention("key", Text(cells.key)), Mention("value", cells.value)>>
    [] kind = "dlg" ->
         FlattenSeq([i \in DOMAIN cells.elements |-> ElementMentions(cells.elements[i])])
         \o <<Mention("id", Text(cells.id))>>
Mentions(kind, cells) == SelectSeq(RowMentions(kind, cells), LAMBDA m : m.text # NoText)

ImageField(field) == field = "IMAGE"
SoundField(field) == field = "SOUND"
-----------------------------------------------------------------------------
(* AssetReferenceResolver::resolve, row by row: the explicit identifiers,  *)
(* the images of dialogs, the sounds, and the animations of units.         *)
Found(links, unresolved) == [links |-> links, unresolved |-> unresolved]
Both(a, b) == Found(a.links \cup b.links, a.unresolved \cup b.unresolved)
Link(source, kind, target, why, at) ==
  [source |-> source, kind |-> kind, target |-> target, why |-> why, at |-> at, said |-> TRUE]
Unresolved(source, kind, reason, candidates) ==
  [source |-> source, kind |-> kind, reason |-> reason, candidates |-> candidates, said |-> TRUE]

Target(m, text) == {a \in m.assets : a.id = text.id}
Explicit(m, mentions) == {i \in DOMAIN mentions : Target(m, mentions[i].text) # {}}
TypeAt(m, mentions, i) == (CHOOSE a \in Target(m, mentions[i].text) : TRUE).type

UntypedLinks(m, source, mentions) ==
  Found({Link(source, "unknown", mentions[i].text.id, "explicit_asset_id", 0) :
           i \in {k \in Explicit(m, mentions) :
                    ~ImageField(mentions[k].field) /\ ~SoundField(mentions[k].field)}}, {})

(* An identifier in a field for a kind of asset, once for every mention.   *)
ExplicitLinks(m, source, mentions, at, kind, type) ==
  Found({Link(source, kind, mentions[i].text.id, "explicit_asset_id", i) :
           i \in {k \in at \cap Explicit(m, mentions) : TypeAt(m, mentions, k) = type}},
        {Unresolved(source, kind, "wrong_type", {mentions[i].text.id}) :
           i \in {k \in at \cap Explicit(m, mentions) : TypeAt(m, mentions, k) # type}})

(* A name in a dialog.  That the second mention of an image is called      *)
(* ambiguous leaves no trace: the image is resolved, see Settled.          *)
ImagesCalled(m, n) == {a \in OfType(m, "image") : Normalized(a.name) = Normalized(n)}
FirstNamedImage(source, candidates) ==     (* a mutant: one of several will do *)
  IF candidates # {}
  THEN LET first == CHOOSE a \in candidates : TRUE
       IN  Found({Link(source, "dialog_image", first.id, "exact_logical_name", 0)}, {})
  ELSE Found({}, {Unresolved(source, "dialog_image", "no_candidate", {})})
NamedImage(source, candidates) ==
  IF Cardinality(candidates) = 1
  THEN Found({Link(source, "dialog_image", a.id, "exact_logical_name", 0) : a \in candidates}, {})
  ELSE Found({}, {Unresolved(source, "dialog_image",
                             IF candidates = {} THEN "no_candidate" ELSE "ambiguous",
                             {a.id : a \in candidates})})
NamedImages(m, source, mentions, at) ==
  LET each == {NamedImage(source, ImagesCalled(m, mentions[i].text.name)) :
                 i \in at \ Explicit(m, mentions)}
  IN  Found(UNION {f.links : f \in each}, UNION {f.unresolved : f \in each})

DialogImages(m, source, mentions, at) ==
  Both(ExplicitLinks(m, source, mentions, at, "dialog_image", "image"),
       NamedImages(m, source, mentions, at))
RowSounds(m, source, mentions, at) ==
  Both(ExplicitLinks(m, source, mentions, at, "sound_candidate", "sound"),
       Found({}, {Unresolved(source, "sound_candidate", "unsupported_mapping", {}) :
                    i \in at \ Explicit(m, mentions)}))

(* unit_animation_prefix and classify: the animations whose names begin    *)
(* with the identifier of a unit, and what their names say they show.      *)
UnitPrefix(letters) ==
  IF Len(letters) >= 2 /\ letters[2] = "un" THEN [letters EXCEPT ![2] = "uu"] ELSE letters
Roles ==
  <<<<"death", "death">>, <<"dead", "death">>, <<"die", "death">>, <<"attack", "attack">>,
    <<"atk", "attack">>, <<"defend", "defend">>, <<"block", "defend">>, <<"cast", "cast">>,
    <<"spell", "cast">>, <<"idle", "idle">>, <<"move", "move">>, <<"walk", "move">>,
    <<"run", "move">>, <<"hit", "hit">>>>
Role(n) ==
  LET told == SelectSeq(Roles, LAMBDA r : r[1] \in ToSet(n.letters))
  IN  IF told = <<>> THEN "effect" ELSE told[1][2]

AnimationsOf(m, unit) ==
  {a \in OfType(m, "anim") : unit.id = <<>> /\ IsPrefix(UnitPrefix(unit.name.letters), a.name.letters)}
UnitRole(source, unit, role, candidates) ==
  IF Cardinality(candidates) = 1
  THEN Found({[Link(source, role, a.id, "unit_animation_prefix", 0) EXCEPT !.said = (unit # NoText)] :
                a \in candidates}, {})
  ELSE Found({}, {[Unresolved(source, role, IF candidates = {} THEN "no_candidate" ELSE "ambiguous",
                              {a.id : a \in candidates}) EXCEPT !.said = (unit # NoText)]})
UnitAnimations(source, unit, animations) ==
  LET roles == IF animations = {} THEN {"effect"} ELSE {Role(a.name) : a \in animations}
      each == {UnitRole(source, unit, r, {a \in animations : Role(a.name) = r}) : r \in roles}
  IN  Found(UNION {f.links : f \in each}, UNION {f.unresolved : f \in each})
-----------------------------------------------------------------------------
At(mentions, kind) ==
  {i \in DOMAIN mentions : IF kind = "image" THEN ImageField(mentions[i].field)
                           ELSE SoundField(mentions[i].field)}
TextLinks(m, kind, source, mentions) ==
  Both(UntypedLinks(m, source, mentions),
       Both(DialogImages(m, source, mentions, IF kind = "dlg" THEN At(mentions, "image") ELSE {}),
            RowSounds(m, source, mentions, At(mentions, "sound"))))
UnitLinks(m, kind, source, cells) ==
  IF kind # "dbf" \/ "UNIT_ID" \notin DOMAIN cells THEN Found({}, {})
  ELSE UnitAnimations(source, cells["UNIT_ID"], AnimationsOf(m, cells["UNIT_ID"]))

RowLinks(m, t, row) ==
  Both(TextLinks(m, t.kind, <<t.id, row.key>>, Mentions(t.kind, row.cells)),
       UnitLinks(m, t.kind, <<t.id, row.key>>, row.cells))
TableLinks(m, t) == {RowLinks(m, t, row) : row \in ToSet(t.table.rows)}

(* What is resolved for a row and a kind takes what is unresolved with it. *)
Settled(found) ==
  [is |-> "links", links |-> found.links,
   unresolved |-> {u \in found.unresolved :
                     \A l \in found.links : <<l.source, l.kind>> # <<u.source, u.kind>>}]
Resolve(package, m) ==
  LET rows == UNION {TableLinks(m, package[a.file]) : a \in OfType(m, "data")}
  IN  Settled(Found(UNION {f.links : f \in rows}, UNION {f.unresolved : f \in rows}))
-----------------------------------------------------------------------------
(* AssetLinkManifest::load: the error, or "none".                          *)
ExpectedType(kind) ==
  CASE kind = "unknown" -> {"image", "anim", "sound", "atlas", "data"}
    [] kind = "dialog_image" -> {"image"}
    [] kind = "sound_candidate" -> {"sound"}
    [] OTHER -> {"anim"}

SourceExists(package, m, source) ==
  \E a \in OfType(m, "data") :
    a.id = source[1] /\ \E row \in ToSet(package[a.file].table.rows) : row.key = source[2]
MalformedLink(package, m, l) ==
  \/ ~SourceExists(package, m, l.source) \/ ~l.said
  \/ \A a \in m.assets : a.id = l.target => a.type \notin ExpectedType(l.kind)
MalformedReference(package, m, links, u) ==
  \/ ~SourceExists(package, m, u.source) \/ ~u.said
  \/ ~(u.candidates \subseteq {a.id : a \in m.assets})
  \/ \E l \in links : <<l.source, l.kind>> = <<u.source, u.kind>>
SameLink(a, b) == <<a.source, a.kind, a.target>> = <<b.source, b.kind, b.target>>

LinkError(package, m) ==
  IF <<"links">> \notin DOMAIN package THEN "none"
  ELSE IF package[<<"links">>] = Cut THEN "malformed_asset_link"
  ELSE IF \E l \in package[<<"links">>].links : MalformedLink(package, m, l) THEN "malformed_asset_link"
  ELSE IF \E a, b \in package[<<"links">>].links : a # b /\ SameLink(a, b) THEN "duplicate_asset_link"
  ELSE IF \E u \in package[<<"links">>].unresolved :
            MalformedReference(package, m, package[<<"links">>].links, u) THEN "malformed_asset_link"
  ELSE "none"

(* AssetDatabase::open: the first error, in the order in which the parts   *)
(* are read.                                                               *)
FirstError(errors) == IF errors = {} THEN "none" ELSE CHOOSE e \in errors : TRUE
ErrorsOf(package, m, type) == {AssetError(package, m, a) : a \in OfType(m, type)} \ {"none"}
PartErrors(package, m) ==
  SelectSeq([i \in 1..4 |-> ErrorsOf(package, m, <<"atlas", "anim", "sound", "data">>[i])],
            LAMBDA errors : errors # {})
OpenError(package) ==
  IF ManifestError(package) # "none" THEN ManifestError(package)
  ELSE IF PartErrors(package, package[<<"manifest">>]) # <<>>
  THEN FirstError(Head(PartErrors(package, package[<<"manifest">>])))
  ELSE LinkError(package, package[<<"manifest">>])
-----------------------------------------------------------------------------
(* What an opened package answers: the queries of asset_database.cpp and   *)
(* data_table_manifest.cpp, and the command inspect of engine_contract.cpp,*)
(* which puts them together in one report.                                 *)
(*                                                                         *)
(* A request is [animation, sound, table, row, fromTable, fromRow, to];    *)
(* what is not asked for is Nothing, a row NoName.                         *)
Nothing == <<>>

(* find_record_by_id with a type.                                          *)
ById(m, type, id) == {a \in OfType(m, type) : a.id = id}

(* DataTable::find_row.                                                    *)
RowsWithKey(t, key) == {row \in ToSet(t.table.rows) : row.key = key}

(* links_from_data_row, unresolved_from_data_row, links_to_asset.          *)
Graph(package) ==
  IF <<"links">> \in DOMAIN package THEN package[<<"links">>] ELSE Settled(Found({}, {}))
HasRow(package, m, table, key) ==
  \E a \in ById(m, "data", table) : RowsWithKey(package[a.file], key) # {}
LinksFromRow(package, table, key) ==
  {l \in Graph(package).links : l.source = <<table, key>>}
UnresolvedFromRow(package, table, key) ==
  {u \in Graph(package).unresolved : u.source = <<table, key>>}
LinksToAsset(package, id) == {l \in Graph(package).links : l.target = id}
-----------------------------------------------------------------------------
(* success_json: what the report says of the animation, the sound, the     *)
(* table and its row, and the references.                                  *)
FrameReport(n, drawn, images, regions) ==
  [name |-> n, image |-> IF Cardinality(images) = 1 THEN {a.id : a \in images} ELSE {},
   resolved |-> drawn \/ Cardinality(regions) = 1]
AnimationReport(package, m, a) ==
  [id |-> a.id, role |-> Role(a.name), warnings |-> AnimationWarnings(package, m, a),
   frames |-> [i \in DOMAIN package[a.file].names |->
     LET n == package[a.file].names[i]
         images == ImagesNamed(m, a.container, n)
     IN  FrameReport(n, i \in package[a.file].files, images, RegionsOfFrame(package, m, images))]]

SoundReport(s) == [id |-> s.id, wave |-> s.wave, payload |-> s.payload, size |-> s.size]
TableReport(t, key) ==
  [id |-> t.id, kind |-> t.kind, columns |-> t.table.columns, rows |-> Len(t.table.rows),
   warnings |-> t.table.warnings, selected |-> {row.cells : row \in RowsWithKey(t, key)}]

NoReport == [animation |-> {}, sound |-> {}, table |-> {}, references |-> {}]
Answer(exit, report) == [exit |-> exit, report |-> report]
References(package, request) ==
  IF request.fromTable # Nothing
  THEN LinksFromRow(package, request.fromTable, request.fromRow)
       \cup UnresolvedFromRow(package, request.fromTable, request.fromRow)
  ELSE IF request.to # Nothing THEN LinksToAsset(package, request.to) ELSE {}
Report(package, m, request) ==
  [animation |-> {AnimationReport(package, m, a) : a \in ById(m, "anim", request.animation)},
   sound |-> {SoundReport(package[a.file]) : a \in ById(m, "sound", request.sound)},
   table |-> {TableReport(package[a.file], request.row) : a \in ById(m, "data", request.table)},
   references |-> References(package, request)]
-----------------------------------------------------------------------------
(* inspect_runtime_assets: what is asked for and is not there.             *)
MissingSound(m, request) == request.sound # Nothing /\ ById(m, "sound", request.sound) = {}
MissingTable(m, request) == request.table # Nothing /\ ById(m, "data", request.table) = {}
MissingRow(package, m, request) ==
  request.table # Nothing /\ request.row # NoName /\ ~HasRow(package, m, request.table, request.row)
MissingSource(package, m, request) ==
  request.fromTable # Nothing /\ ~HasRow(package, m, request.fromTable, request.fromRow)
MissingTarget(m, request) ==
  /\ request.fromTable = Nothing /\ request.to # Nothing
  /\ \A a \in m.assets : a.id # request.to

InspectPackage(package, m, request) ==
  IF ById(m, "anim", request.animation) = {} THEN Answer(4, NoReport)
  ELSE IF MissingSound(m, request) THEN Answer(5, NoReport)
  ELSE IF MissingTable(m, request) THEN Answer(6, NoReport)
  ELSE IF MissingRow(package, m, request) THEN Answer(7, NoReport)
  ELSE IF MissingSource(package, m, request) THEN Answer(8, NoReport)
  ELSE IF MissingTarget(m, request) THEN Answer(9, NoReport)
  ELSE Answer(0, Report(package, m, request))

(* run_d2asset_inspect: the requests that are refused.                     *)
Refused(request) ==
  \/ request.animation = Nothing
  \/ request.row # NoName /\ request.table = Nothing
  \/ (request.fromTable # Nothing) # (request.fromRow # NoName)
  \/ request.fromTable # Nothing /\ request.to # Nothing

Inspect(package, request) ==
  IF Refused(request) THEN Answer(2, NoReport)
  ELSE IF OpenError(package) # "none" THEN Answer(3, NoReport)
  ELSE InspectPackage(package, package[<<"manifest">>], request)
=============================================================================
