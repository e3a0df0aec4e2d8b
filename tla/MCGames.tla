-------------------------------- MODULE MCGames -------------------------------
(***************************************************************************)
(* Small games for PackageBuilder: one with every kind of file, and that   *)
(* one with a single thing changed that its extraction or the package      *)
(* trips over.                                                             *)
(***************************************************************************)
EXTENDS GameFiles

N(syllable) == Named(<<syllable>>)
Odd(n) == [n EXCEPT !.odd = TRUE]
Path(folder, n, ext) == [folder |-> folder, name |-> n, ext |-> ext, mixed |-> FALSE]
File(path, is, content) == [path |-> path, is |-> is, content |-> content]

(* Containers: records of [id, payload], and names for them.               *)
Record(id, payload) == [id |-> id, live |-> TRUE, payload |-> payload]
Call(n, id) == [name |-> n, id |-> id]
Container(records, table) == [opens |-> TRUE, records |-> records, table |-> table]
Value(is, value) == [is |-> is, value |-> value]
Only(is) == [is |-> is]

(* An image is [name, size]; its record has number 10, 11, ...             *)
Image(n, size) == [name |-> n, size |-> size]
IndexOf(images, animations) ==
  [i \in DOMAIN images |-> [name |-> images[i].name, id |-> 9 + i]]
  \o [i \in DOMAIN animations |-> [name |-> animations[i].name, id |-> NoAnimation]]
FramesOf(images) == [i \in DOMAIN images |-> [name |-> Upper(images[i].name), size |-> images[i].size]]
Pngs(images) == [i \in DOMAIN images |-> Record(9 + i, Only("png"))]

Animation(n, frames) == [name |-> n, frames |-> frames]
ImageContainer(images, animations) ==
  Container(<<Record(1, Value("index", IndexOf(images, animations))),
              Record(2, Value("images", <<FramesOf(images)>>)),
              Record(3, Value("anims", [i \in DOMAIN animations |-> animations[i].frames]))>>
            \o Pngs(images),
            <<Call(Special("-index.opt"), 1), Call(Special("-images.opt"), 2),
              Call(Special("-anims.opt"), 3)>>)
Without(c, word) == [c EXCEPT !.table = SelectSeq(@, LAMBDA t : t.name # Special(word))]

Sound(n, is) == [name |-> n, is |-> is]
SoundContainer(sounds) ==
  Container([i \in DOMAIN sounds |-> Record(i, Only(sounds[i].is))],
            [i \in DOMAIN sounds |-> Call(sounds[i].name, i)])
-----------------------------------------------------------------------------
(* The game with everything.                                               *)
Unit == Named(<<"g000", "uu", "0001">>)
Legacy == Named(<<"g000", "un", "0001">>)
Walk == Named(<<"g000", "uu", "0001", "walk">>)
Hit == Named(<<"g000", "uu", "0001", "hit">>)
Other == Named(<<"g000", "uu", "0002">>)

Images == <<Image(N("sword"), Fits), Image(N("shield"), Fits)>>
Animations == <<Animation(Walk, <<N("sword"), N("shield")>>), Animation(Hit, <<N("shield")>>)>>
ImagesPath == Path("imgs", N("icons"), "ff")
SoundsPath == Path("sounds", N("noise"), "wdb")
TablePath(n, ext) == Path("data", N(n), ext)

IdText(path, n) ==
  [name |-> NoName,
   id |-> <<[path EXCEPT !.name.upper = FALSE, !.name.odd = FALSE], [n EXCEPT !.upper = FALSE, !.odd = FALSE]>>]
DbfRow(values) == [deleted |-> FALSE, values |-> values]
Dbf(fields, rows) ==
  [header |-> TRUE, fields |-> fields, rows |-> rows, complete |-> Len(rows)]
Line(token, id, names) == [token |-> token, id |-> id, names |-> names]
Dialog(n, lines) == <<Line("DIALOG", n, <<>>), Line("BEGIN", NoName, <<>>)>> \o lines
                    \o <<Line("END", NoName, <<>>)>>
ImageLine(names) == Line("IMAGE", NoText, names)

ImagesFile(c) == File(ImagesPath, "container", c)
SoundsFile(sounds) == File(SoundsPath, "container", SoundContainer(sounds))
UnitsFile(rows) == File(TablePath("units", "dbf"), "plain", Dbf(<<"UNIT_ID", "NAME">>, rows))
TextsFile(lines) == File(TablePath("texts", "dat"), "plain", [lines |-> lines])
DialogsFile(lines) == File(TablePath("dialogs", "dlg"), "plain", [lines |-> lines])
Entry(key, value) == [key |-> key, value |-> value]

Sounds == <<Sound(N("bell"), "wave"), Sound(N("drum"), "noise")>>
Units == <<DbfRow(<<Text(Unit), IdText(ImagesPath, Walk)>>), DbfRow(<<Text(Other), NoText>>)>>
Dialogs ==
  Dialog(N("intro"), <<ImageLine(<<Text(N("sword")), Text(Upper(N("sword")))>>), Line("TEXT", NoText, <<>>)>>)
  \o Dialog(N("intro"), <<ImageLine(<<Text(N("absent"))>>)>>)
  \o Dialog(NoName, <<ImageLine(<<IdText(ImagesPath, Walk)>>), ImageLine(<<IdText(ImagesPath, N("sword"))>>)>>)
Texts == <<Entry(N("hello"), Text(N("world"))), Entry(NoName, NoText), Entry(N("hello"), NoText)>>

Files(images, sounds, units, dialogs) ==
  <<DialogsFile(dialogs), TextsFile(Texts), UnitsFile(units), ImagesFile(images), SoundsFile(sounds)>>
Game(files) == [isDirectory |-> TRUE, files |-> files, only |-> {}]

Icons == ImageContainer(Images, Animations)
Whole == Game(Files(Icons, Sounds, Units, Dialogs))
WithImages(images) == Game(Files(ImageContainer(images, Animations), Sounds, Units, Dialogs))
WithAnimations(animations) == Game(Files(ImageContainer(Images, animations), Sounds, Units, Dialogs))
WithSounds(sounds) == Game(Files(Icons, sounds, Units, Dialogs))
WithUnits(units) == Game(Files(Icons, Sounds, units, Dialogs))
WithDialogs(dialogs) == Game(Files(Icons, Sounds, Units, dialogs))
WithFile(file) == [Whole EXCEPT !.files = Append(@, file)]
-----------------------------------------------------------------------------
(* Images and animations.                                                  *)
ImageGames ==
  {WithImages(images) : images \in
     {<<Images[1], Image(N("shield"), Empty)>>, <<Images[1], Image(N("shield"), Oversize)>>,
      <<Image(N("sword"), Empty), Image(N("shield"), Empty)>>,
      Append(Images, Image(Upper(N("sword")), Fits)), Append(Images, Image(Odd(N("sword")), Fits)),
      Append(Images, Image(N("manifest"), Fits)), Append(Images, Image(N("helmet"), Fits)),
      Append(Images, Image(Walk, Fits)), Append(Images, Image(N("__runtime_atlas"), Fits))}}
  \cup {WithAnimations(animations) : animations \in
          {<<>>, <<Animations[1], Animation(Odd(Walk), <<N("sword")>>)>>,
           <<Animation(Odd(Walk), <<N("sword")>>), Animations[1]>>,
           <<Animations[1], Animation(Upper(Walk), <<N("sword")>>)>>,
           <<Animation(N("manifest"), <<N("absent"), N("shield")>>)>>,
           <<Animation(Other, <<N("shield"), N("absent")>>), Animations[2]>>}}
IconsWithout(word) == Game(Files(Without(Icons, word), Sounds, Units, Dialogs))
Dead(c, i) == [c EXCEPT !.records[i].live = FALSE]
ContainerGames ==
  {IconsWithout(word) : word \in {"-index.opt", "-images.opt", "-anims.opt"}}
  \cup {Game(Files(c, Sounds, Units, Dialogs)) : c \in
          {Dead(Icons, 4), [Icons EXCEPT !.records[5].id = 10], [Icons EXCEPT !.opens = FALSE],
           [Icons EXCEPT !.records[2].payload.value[1][2].name.upper = FALSE],
           [Icons EXCEPT !.records[3].payload.value = Append(@, <<>>)]}}
(* Sounds and tables, and files that share a name.                         *)
SoundGames ==
  {WithSounds(sounds) : sounds \in
     {<<>>, Append(Sounds, Sound(Odd(N("bell")), "wave")), Append(Sounds, Sound(Odd(N("bell")), "noise")),
      Append(Sounds, Sound(N("manifest"), "wave")), Append(Sounds, Sound(N("silence"), "nothing")),
      Append(Sounds, Sound(Upper(N("bell")), "wave"))}}
TableGames ==
  {WithUnits(units) : units \in
     {<<DbfRow(<<Text(Legacy), NoText>>)>>, <<DbfRow(<<NoText, NoText>>)>>,
      <<[deleted |-> TRUE, values |-> <<NoText, NoText>>], DbfRow(<<Text(Unit), Text(N("ork"))>>)>>}}
  \cup {WithDialogs(lines) : lines \in
          {<<>>, Dialog(N("0"), <<>>) \o Dialog(NoName, <<>>),
           Dialog(N("a"), <<ImageLine(<<IdText(ImagesPath, N("sword")), IdText(ImagesPath, N("sword"))>>)>>)}}
FileGames ==
  {WithFile(file) : file \in
     {File(TablePath("again", "dbf"), "plain", Dbf(<<"SOUND", "SOUND">>, <<>>)),
      File(TablePath("again", "dbf"), "plain",
           Dbf(<<"SOUND">>, <<DbfRow(<<IdText(SoundsPath, N("bell"))>>), DbfRow(<<Text(N("boom"))>>),
                              DbfRow(<<IdText(ImagesPath, Walk)>>)>>)),
      [File(TablePath("again", "dbf"), "plain", Dbf(<<"A">>, <<>>)) EXCEPT !.content.header = FALSE],
      [UnitsFile(Units) EXCEPT !.path.name.upper = TRUE], [UnitsFile(Units) EXCEPT !.path.mixed = TRUE],
      [ImagesFile(Icons) EXCEPT !.path.name = N("second")],
      [ImagesFile(Icons) EXCEPT !.path.name.upper = TRUE],
      [ImagesFile(ImageContainer(<<>>, <<>>)) EXCEPT !.path.name = N("second")],
      File(TablePath("units", "dbf"), "container", SoundContainer(Sounds)),
      File(Path("imgs", N("more"), "ff"), "container", Without(Without(Icons, "-index.opt"), "-images.opt")),
      File(Path("imgs", N("more"), "ff"), "container", SoundContainer(Sounds))}}

SomeOf == [Whole EXCEPT !.only = {SoundsPath}]
NoGame == [Whole EXCEPT !.isDirectory = FALSE]
AllGames ==
  {Whole, SomeOf, NoGame} \cup ImageGames \cup ContainerGames \cup SoundGames \cup TableGames \cup FileGames
-----------------------------------------------------------------------------
(* Requests to inspect the package of the whole game.                      *)
Id(path, n) == IdText(path, n).id
Ask == [animation |-> Id(ImagesPath, Walk), sound |-> <<>>, table |-> <<>>, row |-> NoName,
        fromTable |-> <<>>, fromRow |-> NoName, to |-> <<>>]
UnitsId == Id(TablePath("units", "dbf"), N("units"))
AllInspections ==
  {Ask, [Ask EXCEPT !.animation = <<>>], [Ask EXCEPT !.animation = Id(SoundsPath, N("bell"))],
   [Ask EXCEPT !.sound = Id(SoundsPath, N("bell"))], [Ask EXCEPT !.sound = UnitsId],
   [Ask EXCEPT !.table = UnitsId, !.row = N("0")], [Ask EXCEPT !.table = UnitsId, !.row = N("9")],
   [Ask EXCEPT !.row = N("0")], [Ask EXCEPT !.table = Ask.animation],
   [Ask EXCEPT !.fromTable = UnitsId, !.fromRow = N("0")],
   [Ask EXCEPT !.fromTable = UnitsId, !.fromRow = N("9")],
   [Ask EXCEPT !.to = Ask.animation], [Ask EXCEPT !.to = Id(ImagesPath, N("absent"))],
   [Ask EXCEPT !.fromTable = UnitsId, !.fromRow = N("0"), !.to = UnitsId]}
=============================================================================
