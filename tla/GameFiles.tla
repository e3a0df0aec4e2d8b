------------------------------ MODULE GameFiles -------------------------------
(***************************************************************************)
(* The files of the original game as src/src/d2res reads them: containers  *)
(* of records (mqdb.cpp), the three maps of an image container (opt_*.cpp),*)
(* its images and animations, sounds, and the three kinds of tables.  A    *)
(* game is the sequence of its files in the order of their paths.          *)
(*                                                                         *)
(* A name is [letters, upper, odd]: its syllables, whether it is written in*)
(* capitals, and whether it has a character that is no letter, digit, '.', *)
(* '_' or '-'.  A file is [path, is, content]: is says whether it begins   *)
(* with the mark of a container.  A container is [opens, records, table]:  *)
(* records [id, live, payload] and its name table of [name, id].  An image *)
(* is its size: Empty, Fits, or Oversize for one no atlas sheet can hold.  *)
(* Pixels are left out.                                                    *)
(***************************************************************************)
EXTENDS Integers, Sequences, FiniteSets, SequencesExt, FiniteSetsExt, Functions, TLC

Named(syllables) == [letters |-> syllables, upper |-> FALSE, odd |-> FALSE]
NoName == Named(<<>>)
Upper(n) == [n EXCEPT !.upper = TRUE]
WithPng(n) == [n EXCEPT !.letters = Append(@, ".png")]

Empty == 0
Fits == 1
Oversize == 2

NoAnimation == -1      (* the id of the entries of an index that are animations *)
-----------------------------------------------------------------------------
(* MqdbContainer::parse: deleted records are not there.  The name table    *)
(* gives a name to the last record with the id, and lookups by id find the *)
(* first.                                                                  *)
Live(c) == SelectSeq(c.records, LAMBDA r : r.live)
LastWithId(c, id) == Max({i \in DOMAIN Live(c) : Live(c)[i].id = id} \cup {0})
TableEntries(c) == SelectSeq(c.table, LAMBDA t : LastWithId(c, t.id) # 0)
Records(c) ==
  [i \in DOMAIN Live(c) |->
     LET own == SelectSeq(TableEntries(c), LAMBDA t : LastWithId(c, t.id) = i)
     IN  [id |-> Live(c)[i].id, payload |-> Live(c)[i].payload,
          name |-> IF own = <<>> THEN NoName ELSE Last(own).name]]

NoRecord == [id |-> -1, payload |-> [is |-> "nothing"], name |-> NoName]
FindByName(c, n) ==
  LET own == SelectSeq(TableEntries(c), LAMBDA t : Upper(t.name) = Upper(n))
  IN  IF own = <<>> THEN NoRecord ELSE Records(c)[LastWithId(c, own[1].id)]
FindById(c, id) ==
  LET own == SelectSeq(Records(c), LAMBDA r : r.id = id)
  IN  IF own = <<>> THEN NoRecord ELSE own[1]

IsSpecial(n) == n.letters # <<>> /\ n.letters[1] \in {"-index.opt", "-images.opt", "-anims.opt"}
Special(word) == [Named(<<word>>) EXCEPT !.upper = TRUE]
-----------------------------------------------------------------------------
(* parse_image_opt_maps and parse_opt_maps: the index, a sequence of       *)
(* [name, id]; the image map, blocks of frames [name, size]; the animation *)
(* map, blocks of frame names, which get the names of the index in their   *)
(* order.                                                                  *)
NoMaps == [ok |-> FALSE, index |-> <<>>, images |-> <<>>, animations |-> <<>>, warnings |-> {}]

IsAnimation(e) == e.id = NoAnimation
ImageEntries(index) == SelectSeq(index, LAMBDA e : ~IsAnimation(e))
AnimationNames(index) ==
  LET own == SelectSeq(index, IsAnimation) IN [i \in DOMAIN own |-> own[i].name]

(* IndexParser and validate_opt_maps: what they complain about.  The frame *)
(* of an image is looked for as the index writes it, decoding looks for it *)
(* in capitals.                                                            *)
Frames(images) == FlattenSeq(images)
MapWarnings(c, index, images, blocks) ==
  {<<"duplicate name", index[j].name>> :
     j \in {k \in DOMAIN index : \E i \in 1..(k - 1) : Upper(index[i].name) = Upper(index[k].name)}}
  \cup {<<"no record", e.name>> : e \in {x \in ToSet(ImageEntries(index)) : FindById(c, x.id) = NoRecord}}
  \cup {<<"no frame", e.name>> :
          e \in {x \in ToSet(ImageEntries(index)) : \A f \in ToSet(Frames(images)) : f.name # x.name}}
  \cup {<<"unknown frame", n>> :
          n \in {m \in ToSet(FlattenSeq(blocks)) : \A e \in ToSet(index) : Upper(e.name) # Upper(m)}}

MapsOf(c, index, images, blocks) ==
  [ok |-> TRUE, index |-> index, images |-> images,
   animations |-> [i \in DOMAIN blocks |-> [name |-> AnimationNames(index)[i], frames |-> blocks[i]]],
   warnings |-> MapWarnings(c, index, images, blocks)]

Holds(c, word, kind) == FindByName(c, Special(word)).payload.is = kind
Opt(c, word) == FindByName(c, Special(word)).payload.value

ImageMaps(c) ==
  IF Holds(c, "-index.opt", "index") /\ Holds(c, "-images.opt", "images")
  THEN MapsOf(c, Opt(c, "-index.opt"), Opt(c, "-images.opt"), <<>>)
  ELSE NoMaps
AllMaps(c) ==
  IF /\ ImageMaps(c).ok /\ Holds(c, "-anims.opt", "anims")
     /\ Len(Opt(c, "-anims.opt")) <= Len(AnimationNames(ImageMaps(c).index))
  THEN MapsOf(c, ImageMaps(c).index, ImageMaps(c).images, Opt(c, "-anims.opt"))
  ELSE NoMaps
-----------------------------------------------------------------------------
(* ImageResourceDecoder::decode_image: the size of the image, or NoImage.  *)
NoImage == -1
BaseRecord(c, e) ==
  CASE FindById(c, e.id) # NoRecord -> FindById(c, e.id)
    [] FindByName(c, e.name) # NoRecord -> FindByName(c, e.name)
    [] OTHER -> FindByName(c, WithPng(e.name))

FrameOf(maps, key) ==
  LET blocks == SelectSeq(maps.images, LAMBDA b : \E f \in ToSet(b) : f.name = key)
  IN  IF blocks = <<>> THEN <<>> ELSE SelectSeq(blocks[1], LAMBDA f : Upper(f.name) = key)

DecodeImage(c, maps, name) ==
  LET entries == SelectSeq(ImageEntries(maps.index), LAMBDA e : Upper(e.name) = Upper(name))
      frames == FrameOf(maps, Upper(name))
  IN  IF entries = <<>> \/ frames = <<>> THEN NoImage
      ELSE IF BaseRecord(c, entries[1]).payload.is # "png" THEN NoImage
      ELSE frames[1].size

(* AnimationDecoder::decode_animation: the frames, and a placeholder as    *)
(* large as the frame before for each that cannot be decoded.  The name is *)
(* looked for as it is written first, where the last block counts.         *)
Block(maps, name) ==
  LET same == {i \in DOMAIN maps.animations : maps.animations[i].name = name}
  IN  maps.animations[Max(same)]
DecodeAnimation(c, maps, name) ==
  LET frames == Block(maps, name).frames
      sizes == [i \in DOMAIN frames |-> DecodeImage(c, maps, frames[i])]
      before(i) == {k \in 1..(i - 1) : sizes[k] # NoImage}
  IN  [name |-> name, names |-> frames,
       failed |-> {frames[i] : i \in {k \in DOMAIN frames : sizes[k] = NoImage}},
       frames |-> [i \in DOMAIN frames |->
                     IF sizes[i] # NoImage THEN sizes[i]
                     ELSE IF before(i) = {} \/ sizes[Max(before(i))] = Empty THEN Fits
                     ELSE sizes[Max(before(i))]]]

(* WdbDecoder: every named record is a sound, and the first record whose   *)
(* name is the same in capitals is the one that is decoded.                *)
ListSounds(c) ==
  LET own == SelectSeq(Records(c), LAMBDA r : r.name # NoName /\ ~IsSpecial(r.name))
  IN  [i \in DOMAIN own |-> own[i].name]
DecodeSound(c, name) ==
  LET r == SelectSeq(Records(c), LAMBDA x : Upper(x.name) = Upper(name))[1]
  IN  [name |-> r.name, wave |-> r.payload.is = "wave",
       size |-> IF r.payload.is \in {"wave", "noise"} THEN 2 ELSE 0]
-----------------------------------------------------------------------------
(* GameScanner.  A path is [folder, name, ext, mixed]: mixed when the      *)
(* extension is neither all lower nor all upper case.                      *)
SpecialWords(c) == {r.name.letters[1] : r \in {x \in ToSet(Records(c)) : IsSpecial(x.name)}}
InferContent(words, path) ==
  LET images == "-images.opt" \in words
      animations == "-anims.opt" \in words
  IN  IF images \/ animations
      THEN (IF images THEN {"images"} ELSE {}) \cup (IF animations THEN {"animations"} ELSE {})
      ELSE IF path.folder = "sounds" /\ path.ext = "wdb" THEN {"sounds"}
      ELSE IF path.ext = "wdt" THEN {"sound_mapping"}
      ELSE IF path.ext \in {"dbf", "dat", "dlg"} THEN {"data_tables"} ELSE {"unknown"}

LikelyContent(file) ==
  InferContent(IF file.content.opens THEN SpecialWords(file.content) ELSE {}, file.path)
InferType(path) ==
  IF ~path.mixed /\ path.ext \in {"dbf", "dat", "dlg"} THEN path.ext ELSE "other"

ScannedContainers(game) == SelectSeq(game, LAMBDA f : f.is = "container")
ScannedTables(game) == SelectSeq(game, LAMBDA f : f.is = "plain" /\ InferType(f.path) # "other")
ScanWarnings(game) ==
  {<<"failed to open", f.path>> : f \in {x \in ToSet(ScannedContainers(game)) : ~x.content.opens}}
-----------------------------------------------------------------------------
(* The tables.  A text in them is [name, id]: a name, or the identifier of *)
(* an asset.  DbfReader: deleted rows, and rows the file has no bytes for, *)
(* are left out; a field whose name comes twice keeps the last value.      *)
Text(n) == [name |-> n, id |-> <<>>]
NoText == Text(NoName)
DbfRows(d) ==
  LET rows == SelectSeq(SubSeq(d.rows, 1, d.complete), LAMBDA r : ~r.deleted)
      value(r, f) == r.values[Max({i \in DOMAIN d.fields : d.fields[i] = f})]
  IN  IF d.fields = <<>> THEN <<>>
      ELSE [i \in DOMAIN rows |-> [f \in ToSet(d.fields) |-> value(rows[i], f)]]

(* DatParser: lines [key, value]; one without a key says nothing, a later  *)
(* line with the same key replaces an earlier one.                         *)
DatEntries(lines) ==
  LET said == SelectSeq(lines, LAMBDA l : l.key # NoName)
      value(k) == said[Max({i \in DOMAIN said : said[i].key = k})].value
  IN  [k \in {l.key : l \in ToSet(said)} |-> value(k)]

(* DlgParser, line by line: [token, id, names].  A dialog is open from     *)
(* DIALOG to END, and takes elements after BEGIN.                          *)
NoDialogs == [dialogs |-> <<>>, open |-> FALSE, inside |-> FALSE]
DlgElement(line) ==
  [type |-> IF line.token \in {"IMAGE", "BUTTON", "TEXT"} THEN line.token ELSE "UNKNOWN",
   id |-> line.id,
   images |-> IF line.token \in {"IMAGE", "BUTTON"} THEN line.names ELSE <<>>]
DlgLine(line, state) ==
  CASE line.token = "DIALOG" ->
         [dialogs |-> Append(state.dialogs, [id |-> line.id, elements |-> <<>>]),
          open |-> TRUE, inside |-> FALSE]
    [] line.token = "BEGIN" -> [state EXCEPT !.inside = TRUE]
    [] line.token = "END" -> [state EXCEPT !.open = FALSE, !.inside = FALSE]
    [] OTHER ->
         IF ~state.open \/ ~state.inside THEN state
         ELSE [state EXCEPT !.dialogs[Len(state.dialogs)].elements = Append(@, DlgElement(line))]
DlgDialogs(lines) == FoldLeft(LAMBDA state, line : DlgLine(line, state), NoDialogs, lines).dialogs
=============================================================================
