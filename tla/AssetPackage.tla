----------------------------- MODULE AssetPackage -----------------------------
(***************************************************************************)
(* A package of runtime assets: what the extractors of the tool cli write  *)
(* for a file of the game (commands_extract_*.cpp and                      *)
(* extraction_orchestrator.cpp) and what extract_container_assets collects *)
(* of it; what runtime_package.cpp puts into the directory of a package;   *)
(* and how src/src/d2asset reads it.                                       *)
(*                                                                         *)
(* A directory of the extractors is a function from the names of its files *)
(* to what they hold; a later file replaces an earlier one of the same     *)
(* name.  A file in the set cut was not written to its end: the extractors *)
(* do not check their streams, and a sidecar that is no JSON is not        *)
(* collected.                                                              *)
(*                                                                         *)
(* A package is a function from the names of its files to what they hold:  *)
(* <<"image", path, name>> and <<"png", path, name>> under images/,        *)
(* <<"anim", path, name>> a directory under animations/, <<"sound", ..>>   *)
(* and its payload under sounds/, <<"data", ..>>, <<"atlas", path>> with   *)
(* its sheets, and the files <<"manifest">>, <<"links">>, <<"build_report">>*)
(* and <<"validation_report">>.  A path is that of the container.          *)
(***************************************************************************)
EXTENDS GameFiles

CONSTANT SheetCapacity      (* the images that one atlas sheet holds; the    *)
                            (* packing itself is stb_rect_pack, external     *)

Safe(n) == [n EXCEPT !.odd = FALSE]

Cut == [is |-> "cut"]
Put(dir, file, content, cut) ==
  [k \in DOMAIN dir \cup {file} |->
     IF k # file THEN dir[k] ELSE IF file \in cut THEN Cut ELSE content]
Out(ok, files, warnings) == [ok |-> ok, files |-> files, warnings |-> warnings]
Failed == Out(FALSE, <<>>, {})

(* Files written one after the other.                                      *)
PutAll(dir, writes, cut) ==
  FoldLeft(LAMBDA d, w : Put(d, w.file, w.content, cut), dir, writes)
-----------------------------------------------------------------------------
(* cmd_extract_images.  An image without an area has no PNG.               *)
Write(kind, n, content) == [file |-> <<kind, Safe(n)>>, content |-> content]
ImageWrites(c, maps, names) ==
  FlattenSeq([i \in DOMAIN names |->
    LET size == DecodeImage(c, maps, names[i])
    IN  IF size \in {NoImage, Empty} THEN <<>>
        ELSE <<Write("png", names[i], [is |-> "png", of |-> names[i], size |-> size]),
               Write("image", names[i], [is |-> "image", name |-> names[i], size |-> size])>>])

ImageNames(maps) == LET own == ImageEntries(maps.index) IN [i \in DOMAIN own |-> own[i].name]
Undecoded(c, maps) == {n \in ToSet(ImageNames(maps)) : DecodeImage(c, maps, n) = NoImage}
Unencoded(c, maps) == {n \in ToSet(ImageNames(maps)) : DecodeImage(c, maps, n) = Empty}

ImagesFrom(c, maps, cut) ==
  LET writes == ImageWrites(c, maps, ImageNames(maps))
  IN  IF ~maps.ok \/ (writes = <<>> /\ ImageNames(maps) # <<>>) THEN Failed
      ELSE Out(TRUE, PutAll(<<>>, writes, cut),
               {<<"decode failed", n>> : n \in Undecoded(c, maps)}
               \cup {<<"encode failed", n>> : n \in Unencoded(c, maps)} \cup maps.warnings)
ExtractImages(c, cut) == ImagesFrom(c, ImageMaps(c), cut)
-----------------------------------------------------------------------------
(* cmd_extract_anim for all animations.  An animation that shares its      *)
(* directory with an earlier one leaves the frames of the longer one.      *)
AnimationContent(a, before) ==
  [is |-> "anim", name |-> a.name, names |-> a.names, frames |-> a.frames,
   files |-> {i \in DOMAIN a.frames : a.frames[i] # Empty} \cup before]
FilesBefore(dir, key) ==
  IF key \in DOMAIN dir /\ dir[key].is = "anim" THEN dir[key].files ELSE {}
PutAnimation(dir, a, cut) ==
  LET key == <<"anim", Safe(a.name)>>
  IN  Put(dir, key, AnimationContent(a, FilesBefore(dir, key)), cut)

AnimationsFrom(c, maps, dir, cut) ==
  LET all == [i \in DOMAIN maps.animations |-> DecodeAnimation(c, maps, maps.animations[i].name)]
  IN  IF ~maps.ok THEN Failed
      ELSE Out(TRUE, FoldLeft(LAMBDA d, a : PutAnimation(d, a, cut), dir, all),
               {<<"frame failed", a.name>> : a \in {x \in ToSet(all) : x.failed # {}}}
               \cup {<<"frame encode failed", a.name>> :
                       a \in {x \in ToSet(all) : Empty \in Range(x.frames)}})
ExtractAnimations(c, dir, cut) == AnimationsFrom(c, AllMaps(c), dir, cut)
-----------------------------------------------------------------------------
(* cmd_extract_sounds: the payload, as .wav or .bin, and its sidecar.      *)
SoundWrites(c) ==
  FlattenSeq([i \in DOMAIN ListSounds(c) |->
    LET n == ListSounds(c)[i]
        s == DecodeSound(c, n)
    IN  <<Write(IF s.wave THEN "wave" ELSE "noise", n, [is |-> "payload", of |-> s.name, size |-> s.size]),
          Write("sound", n, [is |-> "sound", name |-> s.name, wave |-> s.wave, size |-> s.size])>>])
ExtractSounds(c, cut) ==
  Out(TRUE, PutAll(<<>>, SoundWrites(c), cut),
      IF ListSounds(c) = <<>> THEN {<<"no sounds", NoName>>} ELSE {})

(* A container whose name is that of a table is read as one; what comes of *)
(* it is no table of a package.                                            *)
RawTables(path) ==
  LET stems == IF path.ext = "dbf" THEN {"schema", "records"} ELSE {"table"}
  IN  [key \in {<<"data", [path.name EXCEPT !.letters = Append(@, s)]>> : s \in stems} |->
         [is |-> "data", name |-> key[2]]]
-----------------------------------------------------------------------------
(* cmd_extract_atlas, which needs the animation map too.  Images an atlas  *)
(* cannot hold are skipped; those without an area come last, as they take  *)
(* no place, and a sheet that holds nothing else has no PNG.               *)
Sprites(c, maps) ==
  LET own == SelectSeq(ImageNames(maps), LAMBDA n : DecodeImage(c, maps, n) # NoImage)
  IN  [i \in DOMAIN own |-> [name |-> own[i], size |-> DecodeImage(c, maps, own[i])]]
Sized(sprites, size) == SelectSeq(sprites, LAMBDA s : s.size = size)
SheetOf(i, fitting) == (Max({1, Min({i, Len(fitting)})}) - 1) \div SheetCapacity

Pack(sprites) ==
  LET fitting == Sized(sprites, Fits)
      placed == fitting \o Sized(sprites, Empty)
  IN  [is |-> "atlas",
       sheets |-> IF placed = <<>> THEN 0 ELSE SheetOf(Len(placed), fitting) + 1,
       entries |-> [i \in DOMAIN placed |-> placed[i] @@ [sheet |-> SheetOf(i, fitting)]]]

AtlasFrom(c, maps, sprites) ==
  IF ~maps.ok \/ sprites = <<>> THEN Failed
  ELSE IF Sized(sprites, Fits) = <<>> /\ Sized(sprites, Empty) # <<>> THEN Failed
  ELSE Out(TRUE, Pack(sprites),
           {<<"decode failed", n>> : n \in Undecoded(c, maps)}
           \cup {<<"skipped", s.name>> : s \in ToSet(Sized(sprites, Oversize))} \cup maps.warnings)
ExtractAtlas(c) == AtlasFrom(c, AllMaps(c), Sprites(c, AllMaps(c)))
-----------------------------------------------------------------------------
(* collect_sidecars: every sidecar of the kind that can be read, but the   *)
(* files called like the extractors' own reports.                          *)
ReportNames == {Named(<<"images_manifest">>), Named(<<"anim_manifest">>), Named(<<"manifest">>)}
Sidecars(dir, kind) ==
  {[type |-> kind, name |-> dir[key].name, file |-> key[2]] :
     key \in {k \in DOMAIN dir : k[1] = kind /\ dir[k].is = kind
                                 /\ (kind = "anim" \/ k[2] \notin ReportNames)}}

(* extract_container_assets.  The warnings are those of the extractor that *)
(* ran last: each of them writes the same warnings.txt anew.               *)
NoExtraction == [ok |-> FALSE, assets |-> {}, files |-> <<>>, warnings |-> {}]
Extracted(out, kinds) ==
  IF ~out.ok THEN NoExtraction
  ELSE [ok |-> TRUE, files |-> out.files, warnings |-> out.warnings,
        assets |-> UNION {Sidecars(out.files, k) : k \in kinds}]
WithAnimations(c, images, cut) ==
  IF ~images.ok THEN Failed ELSE ExtractAnimations(c, images.files, cut)

Supported(content) == content \cap {"images", "animations", "sounds", "data_tables"} # {}
ExtractContainer(file, content, cut) ==
  LET c == file.content
  IN  IF "data_tables" \in content
      THEN Extracted(Out(TRUE, RawTables(file.path), {}), {"data"})
      ELSE IF ~c.opens THEN NoExtraction
      ELSE IF content = {"images", "animations"}
      THEN Extracted(WithAnimations(c, ExtractImages(c, cut), cut), {"image", "anim"})
      ELSE IF content = {"images"} THEN Extracted(ExtractImages(c, cut), {"image"})
      ELSE IF content = {"animations"} THEN Extracted(ExtractAnimations(c, <<>>, cut), {"anim"})
      ELSE Extracted(ExtractSounds(c, cut), {"sound"})
-----------------------------------------------------------------------------

(* ManifestBuilder::make_id: capitals and odd characters are gone.         *)
MakeId(n) == [n EXCEPT !.upper = FALSE, !.odd = FALSE]
PathId(path) == [path EXCEPT !.name = MakeId(@), !.mixed = FALSE]
AssetId(path, n) == <<PathId(path), MakeId(n)>>
AtlasName == Named(<<"__runtime_atlas">>)

(* normalize_ascii: capitals are gone.                                     *)
Normalized(n) == [n EXCEPT !.upper = FALSE]
-----------------------------------------------------------------------------
(* assemble_asset: the files of an asset, from the work directory to the   *)
(* package.  The payload of a sound is looked for under both endings.      *)
Placed(kind, path, file) == <<kind, path, file>>
SoundPayloads(files, n) == {k \in {"wave", "noise"} : <<k, n>> \in DOMAIN files}
CannotPackage(asset, files) ==
  asset.type = "sound" /\
    LET sidecar == files[<<"sound", asset.file>>]
    IN  sidecar.size = 0 \/ Cardinality(SoundPayloads(files, asset.file)) # 1

SoundSidecar(asset, path, payload, format) ==
  [is |-> "sound", id |-> AssetId(path, asset.name), name |-> asset.name,
   container |-> PathId(path), payload |-> payload.key, size |-> payload.size, wave |-> format]
SizeOfFile(content) == IF content = Cut THEN 1 ELSE content.size    (* of 2 *)

PackageSound(asset, path, files) ==
  LET kind == CHOOSE k \in SoundPayloads(files, asset.file) : TRUE
      payload == files[<<kind, asset.file>>]
      key == Placed(kind, path, asset.file)
  IN  (key :> payload)
      @@ (Placed("sound", path, asset.file) :>
            SoundSidecar(asset, path, [key |-> key, size |-> SizeOfFile(payload)],
                         files[<<"sound", asset.file>>].wave))
PackageImage(asset, path, files) ==
  (Placed("image", path, asset.file) :> files[<<"image", asset.file>>])
  @@ IF <<"png", asset.file>> \in DOMAIN files
     THEN Placed("png", path, asset.file) :> files[<<"png", asset.file>>] ELSE <<>>

AssembleAsset(asset, path, files) ==
  CASE asset.type = "image" -> PackageImage(asset, path, files)
    [] asset.type = "sound" -> PackageSound(asset, path, files)
    [] OTHER -> Placed(asset.type, path, asset.file) :> files[<<asset.type, asset.file>>]

(* package_extracted_dbf, _dat and _dlg: the columns and rows of a table.  *)
(* A row is [key, cells]; the keys of DLG rows are their ids, or their     *)
(* numbers when the id is missing or taken, with '_' before it as often as *)
(* it takes.                                                               *)
Indexed(i) == Named(<<ToString(i - 1)>>)
Underscores(n, k) == [n EXCEPT !.letters = [i \in 1..k |-> "_"] \o @]
Underscored(n, used) ==
  Underscores(n, Min({k \in 0..Cardinality(used) : Underscores(n, k) \notin used}))
DlgKey(d, i, used) ==
  IF d.id # NoName /\ d.id \notin used THEN d.id ELSE Underscored(Indexed(i), used)
DlgKeys(dialogs) ==
  FoldLeft(LAMBDA keys, d : Append(keys, DlgKey(d, Len(keys) + 1, ToSet(keys))), <<>>, dialogs)

DlgTable(dialogs, keys) ==
  [columns |-> IF dialogs = <<>> THEN <<>> ELSE <<"bounds", "elements", "id">>,
   rows |-> [i \in DOMAIN dialogs |->
               [key |-> keys[i], cells |-> [id |-> dialogs[i].id, elements |-> dialogs[i].elements]]],
   warnings |-> {keys[i] : i \in {k \in DOMAIN dialogs : keys[k] # dialogs[k].id}}]
DbfTable(d, rows) ==
  [columns |-> d.fields, warnings |-> {},
   rows |-> [i \in DOMAIN rows |-> [key |-> Indexed(i), cells |-> rows[i]]]]
DatTable(entries) ==
  LET keys == FoldSet(LAMBDA k, s : Append(s, k), <<>>, DOMAIN entries)
  IN  [columns |-> <<"key", "value">>, warnings |-> {},
       rows |-> [i \in DOMAIN keys |->
                   [key |-> keys[i], cells |-> [key |-> keys[i], value |-> entries[keys[i]]]]]]

TableOf(file) ==
  CASE file.path.ext = "dbf" -> DbfTable(file.content, DbfRows(file.content))
    [] file.path.ext = "dat" -> DatTable(DatEntries(file.content.lines))
    [] file.path.ext = "dlg" ->
         DlgTable(DlgDialogs(file.content.lines), DlgKeys(DlgDialogs(file.content.lines)))
(* What cannot be read as a table: a file without a header, a field without*)
(* a name.                                                                 *)
CannotExtract(file) ==
  file.path.ext = "dbf" /\ (~file.content.header \/ "" \in ToSet(file.content.fields))
CanonicalTable(file) ==
  [is |-> "table", id |-> AssetId(file.path, file.path.name), name |-> file.path.name,
   container |-> PathId(file.path), kind |-> file.path.ext, table |-> TableOf(file)]
-----------------------------------------------------------------------------
(* AssetManifest::load: the error, or "none".                              *)
NoManifest == [is |-> "manifest", containers |-> <<>>, assets |-> {}, warnings |-> {}]
ManifestError(package) ==
  LET m == package[<<"manifest">>]
      ids == [i \in DOMAIN m.containers |-> m.containers[i].id]
  IN  IF <<"manifest">> \notin DOMAIN package THEN "missing_manifest"
      ELSE IF m = Cut THEN "invalid_json"
      ELSE IF ~IsInjective(ids)
              \/ (\E a, b \in m.assets : a # b /\ a.id = b.id) THEN "duplicate_id"
      ELSE IF \E a \in m.assets : a.container \notin Range(ids) THEN "malformed_entry"
      ELSE IF \E a \in m.assets : a.file \notin DOMAIN package THEN "missing_file"
      ELSE "none"

OfType(m, type) == {a \in m.assets : a.type = type}
ImagesNamed(m, container, n) ==
  {a \in OfType(m, "image") : a.container = container /\ Normalized(a.name) = Normalized(n)}

(* AtlasManifest::load and load_atlases: every entry has an area and is the*)
(* one image of that name in its container.                                *)
AtlasError(package, m, a) ==
  LET atlas == package[a.file]
      entries == ToSet(atlas.entries)
  IN  IF atlas = Cut THEN "malformed_atlas"
      ELSE IF \E e \in entries : e.size = Empty \/ e.sheet >= atlas.sheets THEN "malformed_atlas"
      ELSE IF \E i, k \in DOMAIN atlas.entries :
                i # k /\ Normalized(atlas.entries[i].name) = Normalized(atlas.entries[k].name)
      THEN "duplicate_atlas_entry"
      ELSE IF \E e \in entries : Cardinality(ImagesNamed(m, a.container, e.name)) # 1
      THEN "malformed_atlas" ELSE "none"

(* AnimationManifest::load: every frame has an area, drawn or not.         *)
AnimationError(package, a) ==
  LET clip == package[a.file]
  IN  IF clip = Cut \/ Normalized(clip.name) # Normalized(a.name) \/ Empty \in Range(clip.frames)
      THEN "malformed_animation" ELSE "none"

(* SoundManifest::load.                                                    *)
SoundError(package, a) ==
  LET s == package[a.file]
  IN  IF s = Cut THEN "malformed_sound"
      ELSE IF <<s.id, Normalized(s.name), s.container>> # <<a.id, Normalized(a.name), a.container>>
              \/ s.size = 0
      THEN "malformed_sound"
      ELSE IF s.payload \notin DOMAIN package THEN "missing_sound_payload"
      ELSE IF SizeOfFile(package[s.payload]) # s.size THEN "sound_payload_size_mismatch" ELSE "none"

(* DataTableManifest::load.                                                *)
TableError(package, a) ==
  LET t == package[a.file]
  IN  IF t = Cut \/ t.is # "table" THEN "malformed_data_table"
      ELSE IF <<t.id, Normalized(t.name), t.container>> # <<a.id, Normalized(a.name), a.container>>
              \/ ~IsInjective(t.table.columns)
      THEN "malformed_data_table"
      ELSE IF \E i, k \in DOMAIN t.table.rows : i # k /\ t.table.rows[i].key = t.table.rows[k].key
      THEN "duplicate_data_row" ELSE "none"

AssetError(package, m, a) ==
  CASE a.type = "image" -> "none"
    [] a.type = "atlas" -> AtlasError(package, m, a)
    [] a.type = "anim" -> AnimationError(package, a)
    [] a.type = "sound" -> SoundError(package, a)
    [] a.type = "data" -> TableError(package, a)
AssetErrors(package, m) == {AssetError(package, m, a) : a \in m.assets} \ {"none"}

(* load_animations: what it says of a frame.  A frame is drawn from the    *)
(* place of its image in an atlas, or from its own PNG.                    *)
Regions(package, m, image) ==
  UNION {{<<a, e>> : e \in {e \in ToSet(package[a.file].entries) : Normalized(e.name) = Normalized(image.name)}} :
           a \in {a \in OfType(m, "atlas") : a.container = image.container}}
RegionsOfFrame(package, m, images) ==
  IF Cardinality(images) # 1 THEN {} ELSE UNION {Regions(package, m, image) : image \in images}

FrameWarnings(drawn, images, regions) ==
  (IF images = {} THEN {"no image"} ELSE {})
  \cup (IF Cardinality(images) > 1 THEN {"several images"} ELSE {})
  \cup (IF Cardinality(regions) > 1 THEN {"several atlases"} ELSE {})
  \cup (IF Cardinality(regions) # 1 /\ ~drawn THEN {"cannot be drawn"} ELSE {})
AnimationWarnings(package, m, a) ==
  UNION {LET images == ImagesNamed(m, a.container, package[a.file].names[i])
         IN  FrameWarnings(i \in package[a.file].files, images, RegionsOfFrame(package, m, images)) :
           i \in DOMAIN package[a.file].names}
=============================================================================
