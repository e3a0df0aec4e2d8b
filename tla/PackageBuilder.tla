---------------------------- MODULE PackageBuilder ----------------------------
(***************************************************************************)
(* The commands of the tool cli that make and read a package of runtime    *)
(* assets (runtime_package.cpp): build-runtime-assets, which extracts the  *)
(* files of the game one after the other into a staging directory beside   *)
(* the destination, validates it there and renames it; and                 *)
(* validate-runtime-assets and inspect, which open the destination.        *)
(*                                                                         *)
(* A process may die between any two steps and be started again: memory is *)
(* lost, directories stay.  A write may fail (faults), and something else  *)
(* may come to be where the destination goes.  A file that is written as a *)
(* stream and tested before it is closed, or not at all, is cut without a  *)
(* word when it is the last of it that fails.  A directory is              *)
(* [there, files].                                                         *)
(***************************************************************************)
EXTENDS AssetLinks

CONSTANTS Games,        (* [isDirectory, files, only]: the game, and the     *)
                        (* containers asked for, {} for all of them          *)
          Inspections,  (* the requests to the command inspect               *)
          MaxFaults,    (* bound: writes that fail                           *)
          MaxRuns       (* bound: processes started                          *)

VARIABLES game,         (* what the user asks to build from                  *)
          staging,      (* <destination>.staging-1                           *)
          destination,
          builder,      (* [at, files, tables, ids, manifest, log, exit]     *)
          answer,       (* what the last process said of the destination     *)
          faults, runs
vars == <<game, staging, destination, builder, answer, faults, runs>>

Absent == [there |-> FALSE, files |-> <<>>]
Directory(files) == [there |-> TRUE, files |-> files]
Foreign == Directory([k \in {<<"foreign">>} |-> [is |-> "foreign"]])

NoAnswer == Answer(-1, NoReport)
Idle == [at |-> "idle", files |-> <<>>, tables |-> <<>>, ids |-> {},
         manifest |-> NoManifest, log |-> {}, exit |-> -1]
Fresh ==
  /\ staging = Absent
  /\ destination = Absent
  /\ builder = Idle
  /\ answer = NoAnswer
  /\ faults = MaxFaults
  /\ runs = 1
Init == game \in Games /\ Fresh
-----------------------------------------------------------------------------
(* A diagnostic is [severity, what, of].                                   *)
Diagnostic(severity, what, of) == [severity |-> severity, what |-> what, of |-> of]
Warnings(what, of) == {Diagnostic("warning", what, w) : w \in of}
OfContainer(path) == {<<"container", path>>}
HasErrors(log) == \E d \in log : d.severity = "error"

(* The process is over; one that did not publish takes its staging         *)
(* directory with it.                                                      *)
FailAndLeave ==                       (* a mutant: the destructor does nothing *)
  /\ builder' = [builder EXCEPT !.at = "ended", !.exit = 1]
  /\ UNCHANGED <<game, staging, destination, answer, runs>>
Fail ==
  /\ builder' = [builder EXCEPT !.at = "ended", !.exit = 1]
  /\ staging' = Absent
  /\ UNCHANGED <<game, destination, answer, runs>>

(* build_runtime_package refuses before it touches anything.               *)
Refuse ==
  /\ builder.at = "idle"
  /\ ~game.isDirectory \/ destination.there
  /\ builder' = [builder EXCEPT !.at = "ended", !.exit = 1]
  /\ UNCHANGED <<game, staging, destination, answer, faults, runs>>

(* StagingDirectory and create_package_directories, which fail when        *)
(* something cannot be created, and GameScanner::scan.                     *)
Selected(g) ==
  SelectSeq(ScannedContainers(g.files), LAMBDA f : g.only = {} \/ f.path \in g.only)
OpenStaging ==
  /\ builder.at = "idle" /\ game.isDirectory /\ ~destination.there
  /\ staging' = Directory([k \in {<<"subtrees">>, <<".work">>} |-> [is |-> "directories"]])
  /\ builder' = [builder EXCEPT
       !.at = "containers",
       !.files = Selected(game),
       !.tables = ScannedTables(game.files),
       !.manifest.warnings = Warnings("scan", ScanWarnings(game.files)),
       !.log = Warnings("scan", ScanWarnings(game.files))]
  /\ UNCHANGED <<game, destination, answer, faults, runs>>
-----------------------------------------------------------------------------
(* One container.  A warning goes to the report of the build and into the  *)
(* manifest.                                                               *)
Working(at) == builder.at = at /\ staging.there
MayCut(keys) == {{}} \cup (IF faults > 0 THEN {{k} : k \in keys} ELSE {})
Next1(container) == [container EXCEPT !.files = Tail(@)]
Warn(b, diagnostics) ==
  [b EXCEPT !.log = @ \cup diagnostics, !.manifest.warnings = @ \cup diagnostics]
AddContainer(b, path, kinds) ==
  [b EXCEPT !.manifest.containers = Append(@, [id |-> PathId(path), path |-> path, kinds |-> kinds])]

SkipContainer(file) ==
  /\ ~Supported(LikelyContent(file))
  /\ builder' = Warn(Next1(builder), Warnings("unsupported", OfContainer(file.path)))
  /\ UNCHANGED <<game, staging, destination, answer, faults, runs>>

ContainerFails(file, x) ==
  /\ Supported(LikelyContent(file)) /\ ~x.ok
  /\ builder' = Warn(AddContainer(Next1(builder), file.path, LikelyContent(file)),
                     Warnings("container failed", OfContainer(file.path)))
  /\ UNCHANGED <<game, staging, destination, answer, runs>>

(* Identifiers are unique in the package, and the one of the atlas is      *)
(* reserved in every container with images.                                *)
NewIds(path, assets) == {AssetId(path, a.name) : a \in assets}
AtlasId(path) == AssetId(path, AtlasName)
Clashes(path, assets) ==
  \/ Cardinality(NewIds(path, assets)) # Cardinality(assets)
  \/ NewIds(path, assets) \cap builder.ids # {}
AtlasClashes(file, assets) ==
  /\ "images" \in LikelyContent(file)
  /\ AtlasId(file.path) \in builder.ids \cup NewIds(file.path, assets)
ContainerStops(file, x) ==
  /\ Supported(LikelyContent(file)) /\ x.ok
  /\ \/ Clashes(file.path, x.assets)
     \/ \E a \in x.assets : CannotPackage(a, x.files)
     \/ AtlasClashes(file, x.assets)
  /\ Fail

Entry(path, type, n, file) ==
  [id |-> AssetId(path, n), name |-> n, type |-> type, container |-> PathId(path), file |-> file]
Entries(path, assets) ==
  {Entry(path, a.type, a.name, Placed(a.type, path, a.file)) : a \in assets}
AssetFiles(path, x, cut) ==
  LET files == FoldSet(LAMBDA a, dir : AssembleAsset(a, path, x.files) @@ dir, <<>>, x.assets)
  IN  [k \in DOMAIN files |-> IF k \in cut THEN Cut ELSE files[k]]
WithAssets(b, file, x) ==
  Warn([AddContainer(Next1(b), file.path, LikelyContent(file)) EXCEPT
          !.ids = @ \cup NewIds(file.path, x.assets),
          !.manifest.assets = @ \cup Entries(file.path, x.assets)],
       Warnings("extraction", x.warnings))

(* An atlas that cannot be made is an error, and the build goes on.  What  *)
(* the atlas warns of stays out of the manifest.                           *)
AtlasKey(path) == <<"atlas", path>>
WithAtlas(b, path, atlas) ==
  IF atlas.ok
  THEN [b EXCEPT !.ids = @ \cup {AtlasId(path)},
                 !.manifest.assets = @ \cup {Entry(path, "atlas", AtlasName, AtlasKey(path))},
                 !.log = @ \cup Warnings("atlas", atlas.warnings)]
  ELSE [b EXCEPT !.manifest.warnings = @ \cup Warnings("no atlas", OfContainer(path)),
                 !.log = @ \cup {Diagnostic("error", "no atlas", <<"container", path>>)}]
AtlasFiles(path, atlas, cut) ==
  IF atlas.ok THEN Put(<<>>, AtlasKey(path), atlas.files, cut) ELSE <<>>

PackageAssets(file, x, cut) ==
  /\ "images" \notin LikelyContent(file)
  /\ builder' = WithAssets(builder, file, x)
  /\ staging' = Directory(AssetFiles(file.path, x, cut) @@ staging.files)
PackageWithAtlas(file, x, atlas, cut) ==
  /\ "images" \in LikelyContent(file)
  /\ ~AtlasClashes(file, x.assets)
  /\ builder' = WithAtlas(WithAssets(builder, file, x), file.path, atlas)
  /\ staging' = Directory(AtlasFiles(file.path, atlas, cut) @@ AssetFiles(file.path, x, cut)
                         @@ staging.files)
PackageContainer(file, x, cut) ==
  /\ Supported(LikelyContent(file)) /\ x.ok
  /\ ~Clashes(file.path, x.assets)
  /\ \A a \in x.assets : ~CannotPackage(a, x.files)
  /\ \/ PackageAssets(file, x, cut)
     \/ PackageWithAtlas(file, x, ExtractAtlas(file.content), cut)
  /\ UNCHANGED <<game, destination, answer, runs>>

(* The files of a container that may be cut: those the extractor writes,   *)
(* the atlas, and the sidecars of sounds in the package.                   *)
FilesOf(file, extracted) ==
  extracted \cup {Placed("sound", file.path, k[2]) : k \in {x \in extracted : x[1] = "sound"}}
  \cup (IF "images" \in LikelyContent(file) THEN {AtlasKey(file.path)} ELSE {})
Cuts(file) == MayCut(FilesOf(file, DOMAIN ExtractContainer(file, LikelyContent(file), {}).files))
ExtractOne(file, x, cut) ==
  /\ faults' = faults - Cardinality(cut)
  /\ \/ ContainerFails(file, x)
     \/ ContainerStops(file, x)
     \/ PackageContainer(file, x, cut)
Container ==
  /\ Working("containers") /\ builder.files # <<>>
  /\ LET file == Head(builder.files)
     IN  \/ SkipContainer(file)
         \/ /\ Supported(LikelyContent(file))
            /\ \E cut \in Cuts(file) :
                 ExtractOne(file, ExtractContainer(file, LikelyContent(file), cut), cut)
-----------------------------------------------------------------------------
(* One table.  The filter of containers does not apply.                    *)
TableKey(path) == Placed("data", path, path.name)
TableStops(file) ==
  /\ AssetId(file.path, file.path.name) \in builder.ids \/ CannotExtract(file)
  /\ Fail /\ UNCHANGED faults
PackageTable(file) ==
  /\ AssetId(file.path, file.path.name) \notin builder.ids /\ ~CannotExtract(file)
  /\ \E cut \in MayCut({TableKey(file.path)}) :
       /\ faults' = faults - Cardinality(cut)
       /\ staging' = Directory(Put(staging.files, TableKey(file.path), CanonicalTable(file), cut))
  /\ builder' = [AddContainer(builder, file.path, {"data"}) EXCEPT
       !.tables = Tail(@),
       !.ids = @ \cup {AssetId(file.path, file.path.name)},
       !.manifest.assets = @ \cup {Entry(file.path, "data", file.path.name, TableKey(file.path))}]
  /\ UNCHANGED <<game, destination, answer, runs>>
Table ==
  /\ Working("containers") /\ builder.files = <<>> /\ builder.tables # <<>>
  /\ TableStops(Head(builder.tables)) \/ PackageTable(Head(builder.tables))
-----------------------------------------------------------------------------
(* ManifestBuilder::write, which does not look whether it could.           *)
WriteManifest ==
  /\ Working("containers") /\ builder.files = <<>> /\ builder.tables = <<>>
  /\ \E cut \in MayCut({<<"manifest">>}) :
       /\ faults' = faults - Cardinality(cut)
       /\ staging' = Directory(Put(staging.files, <<"manifest">>, builder.manifest, cut))
  /\ builder' = [builder EXCEPT !.at = "links"]
  /\ UNCHANGED <<game, destination, answer, runs>>

(* AssetReferenceResolver::write opens the package first.                  *)
LinksStop == Working("links") /\ OpenError(staging.files) # "none" /\ Fail /\ UNCHANGED faults
WriteLinks ==
  /\ Working("links") /\ OpenError(staging.files) = "none"
  /\ \E cut \in MayCut({<<"links">>}) :
       /\ faults' = faults - Cardinality(cut)
       /\ staging' = Directory(Put(staging.files, <<"links">>,
                                  Resolve(staging.files, staging.files[<<"manifest">>]), cut))
  /\ builder' = [builder EXCEPT !.at = "report"]
  /\ UNCHANGED <<game, destination, answer, runs>>

(* The work directory goes, and the report of the build is written: after  *)
(* an error it is the last thing that happens to the directory.            *)
BuildReport(log) ==
  [is |-> "report", success |-> ~HasErrors(log), diagnostics |-> log]
WithoutWork(files) == Restrict(files, DOMAIN files \ {<<".work">>})
WriteReport ==
  /\ Working("report") /\ ~HasErrors(builder.log)
  /\ \E cut \in MayCut({<<"build_report">>}) :
       /\ faults' = faults - Cardinality(cut)
       /\ staging' = Directory(Put(WithoutWork(staging.files), <<"build_report">>,
                                  BuildReport(builder.log), cut))
  /\ builder' = [builder EXCEPT !.at = "validate"]
  /\ UNCHANGED <<game, destination, answer, runs>>
GiveUp == Working("report") /\ HasErrors(builder.log) /\ Fail /\ UNCHANGED faults

(* validate_runtime_package: the entries a package must have, then what    *)
(* opening it says; its report is written in every case.                   *)
Valid(files) == {<<"manifest">>, <<"subtrees">>} \subseteq DOMAIN files /\ OpenError(files) = "none"
FrameTrouble(files, a) ==
  Warnings("animation", {<<w, a.name>> : w \in AnimationWarnings(files, files[<<"manifest">>], a)})
ValidationReport(files) ==
  [is |-> "report", valid |-> Valid(files),
   warnings |-> IF ~Valid(files) THEN {}
                ELSE files[<<"manifest">>].warnings
                     \cup UNION {FrameTrouble(files, a) : a \in OfType(files[<<"manifest">>], "anim")}]
Reported(files, cut) == Put(files, <<"validation_report">>, ValidationReport(files), cut)
Validate ==
  /\ Working("validate") /\ Valid(staging.files)
  /\ \E cut \in MayCut({<<"validation_report">>}) :
       /\ faults' = faults - Cardinality(cut)
       /\ staging' = Directory(Reported(staging.files, cut))
  /\ builder' = [builder EXCEPT !.at = "publish"]
  /\ UNCHANGED <<game, destination, answer, runs>>
ValidationStops == Working("validate") /\ ~Valid(staging.files) /\ Fail /\ UNCHANGED faults

(* StagingDirectory::publish.  Where a rename may replace an empty         *)
(* directory, it does.                                                     *)
Publish ==
  /\ Working("publish")
  /\ destination.there => DOMAIN destination.files = {}
  /\ destination' = staging
  /\ staging' = Absent
  /\ builder' = [builder EXCEPT !.at = "ended", !.exit = 0]
  /\ UNCHANGED <<game, answer, faults, runs>>
CannotPublish == Working("publish") /\ destination.there /\ Fail /\ UNCHANGED faults

(* What is found to fail: a directory that cannot be made, a file that     *)
(* cannot be opened, copied or written but for its end, the rename itself. *)
WriteFails ==
  /\ faults > 0 /\ faults' = faults - 1
  /\ \/ builder.at = "idle" /\ game.isDirectory /\ ~destination.there
     \/ builder.at \in {"containers", "links", "report", "validate", "publish"}
  /\ Fail
-----------------------------------------------------------------------------
(* The process dies; another one is started.                               *)
Die ==
  /\ builder.at \notin {"idle", "ended"}
  /\ builder' = [Idle EXCEPT !.at = "ended"]
  /\ UNCHANGED <<game, staging, destination, answer, faults, runs>>
BuildAgain ==
  /\ builder.at = "ended" /\ runs < MaxRuns
  /\ builder' = Idle
  /\ runs' = runs + 1
  /\ UNCHANGED <<game, staging, destination, answer, faults>>

(* Something else appears where the destination goes, empty or not.        *)
Intrude ==
  /\ builder.at = "publish" /\ ~destination.there /\ faults > 0
  /\ faults' = faults - 1
  /\ destination' \in {Foreign, Directory(<<>>)}
  /\ UNCHANGED <<game, staging, builder, answer, runs>>

(* cmd_validate_runtime_assets on the destination.  Its report goes into   *)
(* the package, or to where --report says.  A report that cannot be opened,*)
(* or of which a write is seen to fail, is an error like any other.        *)
Validated == Answer(IF Valid(destination.files) THEN 0 ELSE 1, NoReport)
ReportNotWritten == [error |-> "report_write_failed"]
ReportInPackage ==
  /\ \E cut \in MayCut({<<"validation_report">>}) :
       /\ faults' = faults - Cardinality(cut)
       /\ destination' = Directory(Reported(destination.files, cut))
  /\ answer' = Validated
ReportElsewhere == answer' = Validated /\ UNCHANGED <<destination, faults>>
ReportFails ==
  /\ faults > 0 /\ faults' = faults - 1
  /\ destination' \in {destination, Directory(Reported(destination.files, {<<"validation_report">>}))}
  /\ answer' = Answer(1, ReportNotWritten)
ValidateDestination ==
  /\ builder.at = "ended" /\ destination.there
  /\ runs < MaxRuns /\ runs' = runs + 1
  /\ ReportInPackage \/ ReportElsewhere \/ ReportFails
  /\ UNCHANGED <<game, staging, builder>>

(* run_d2asset_inspect on the destination.                                 *)
InspectDestination ==
  /\ builder.at = "ended" /\ destination.there /\ runs < MaxRuns
  /\ runs' = runs + 1
  /\ \E request \in Inspections : answer' = Inspect(destination.files, request)
  /\ UNCHANGED <<game, staging, destination, builder, faults>>

Next ==
  \/ Refuse \/ OpenStaging \/ Container \/ Table
  \/ WriteManifest \/ LinksStop \/ WriteLinks \/ WriteReport \/ GiveUp
  \/ Validate \/ ValidationStops \/ Publish \/ CannotPublish \/ WriteFails
  \/ Die \/ BuildAgain \/ Intrude \/ ValidateDestination \/ InspectDestination
Spec == Init /\ [][Next]_vars
-----------------------------------------------------------------------------
(* What docs/runtime_assets/package_layout.md promises of a build, and     *)
(* what a package is for: that what it holds is what the game holds.       *)
Package == destination.files
Manifest == Package[<<"manifest">>]
IsPackage == <<"manifest">> \in DOMAIN Package
BuildReportOf == Package[<<"build_report">>]
Diagnosed(n) ==
  \/ BuildReportOf = Cut
  \/ \E d \in BuildReportOf.diagnostics : d.what \in {"extraction", "atlas"} /\ d.of[2] = n
ContainerDiagnosed(path) ==
  BuildReportOf = Cut \/ \E d \in BuildReportOf.diagnostics : d.what # "extraction" /\ d.of[2] = path
NoWriteFailed == faults = MaxFaults

(* The file of the game that an asset came from.                           *)
SourceOf(a) ==
  CHOOSE f \in ToSet(game.files) :
    \E c \in ToSet(Manifest.containers) : c.id = a.container /\ c.path = f.path
-----------------------------------------------------------------------------
(* What a file of the package holds is what the game has under the name of *)
(* the asset.  A payload whose write was cut goes unnoticed.               *)
ImageIsRight(c, a, png) ==
  /\ Package[a.file].size = DecodeImage(c, ImageMaps(c), a.name)
  /\ png \in DOMAIN Package
  /\ Package[png] = Cut \/ Package[png].of = a.name
AnimationIsRight(c, a, clip) ==
  /\ Package[a.file].names = clip.names /\ Package[a.file].frames = clip.frames
  /\ DOMAIN clip.frames \subseteq Package[a.file].files
SoundIsRight(c, a, payload) ==
  /\ Package[a.file].wave = DecodeSound(c, a.name).wave
  /\ Package[payload] = Cut \/ Package[payload].of = DecodeSound(c, a.name).name
AtlasIsRight(a) ==
  \A image \in OfType(Manifest, "image") : image.container = a.container =>
    \/ Package[image.file].size = Oversize
    \/ Cardinality(Regions(Package, Manifest, image)) = 1
TableIsRight(file, a) ==
  Len(Package[a.file].table.rows) =
    (CASE file.path.ext = "dbf" -> Cardinality({i \in 1..file.content.complete : ~file.content.rows[i].deleted})
       [] file.path.ext = "dat" -> Cardinality({l.key : l \in ToSet(file.content.lines)} \ {NoName})
       [] file.path.ext = "dlg" -> Len(SelectSeq(file.content.lines, LAMBDA l : l.token = "DIALOG")))
AssetIsRight(file, a) ==
  CASE a.type = "image" -> ImageIsRight(file.content, a, <<"png", file.path, a.file[3]>>)
    [] a.type = "anim" ->
         AnimationIsRight(file.content, a, DecodeAnimation(file.content, AllMaps(file.content), a.name))
    [] a.type = "sound" -> SoundIsRight(file.content, a, Package[a.file].payload)
    [] a.type = "atlas" -> AtlasIsRight(a)
    [] a.type = "data" -> TableIsRight(file, a)

(* What the game lists is in the package or is complained about.  A sound  *)
(* or an animation whose file has the name of another one's, or of a report*)
(* of the extractor, is lost without a word, and so is one whose sidecar   *)
(* was cut.                                                                *)
Held(file, type, n) ==
  \E a \in OfType(Manifest, type) : a.name = n /\ a.container = PathId(file.path)
SharesItsFile(n, names) == \E other \in names : other # n /\ Safe(other) = Safe(n)
ImagesAreHeld(file, maps) ==
  \A n \in ToSet(ImageNames(maps)) : Held(file, "image", n) \/ Diagnosed(n)
AnimationsAreHeld(file, names) ==
  \A n \in names : Held(file, "anim", n) \/ SharesItsFile(n, names) \/ ~NoWriteFailed
SoundsAreHeld(file, names) ==
  \A n \in names : \/ Held(file, "sound", n) \/ SharesItsFile(n, names) \/ ~NoWriteFailed
                   \/ Safe(n) \in ReportNames
ContainerIsHeld(file, content) ==
  \/ ContainerDiagnosed(file.path)
  \/ /\ "images" \in content => ImagesAreHeld(file, ImageMaps(file.content))
     /\ "animations" \in content =>
          AnimationsAreHeld(file, {b.name : b \in ToSet(AllMaps(file.content).animations)})
     /\ "sounds" \in content => SoundsAreHeld(file, ToSet(ListSounds(file.content)))

(* A dialog that names images, or a unit, has a link or a report of why it *)
(* has none; a link by name is to the only image of that name.             *)
Refers(t, row) ==
  IF t.kind = "dlg" THEN At(Mentions(t.kind, row.cells), "image") # {} ELSE "UNIT_ID" \in DOMAIN row.cells
RowIsAccountedFor(t, row) ==
  Refers(t, row) =>
    LinksFromRow(Package, t.id, row.key) \cup UnresolvedFromRow(Package, t.id, row.key) # {}
LinkIsRight(l) ==
  /\ \E a \in Manifest.assets : a.id = l.target
  /\ l.why = "exact_logical_name" =>
       \A a, b \in OfType(Manifest, "image") :
         a.id = l.target /\ Normalized(a.name) = Normalized(b.name) => a = b
ReferencesAreRight ==
  /\ \A a \in OfType(Manifest, "data") :
       \A row \in ToSet(Package[a.file].table.rows) : RowIsAccountedFor(Package[a.file], row)
  /\ \A l \in Graph(Package).links : LinkIsRight(l)
-----------------------------------------------------------------------------
(* A destination that was published can be opened, whatever writes failed  *)
(* while it was built: inspect finds a package, and a validation ends with *)
(* 1 only because its own report could not be written.  Every asset in it  *)
(* is what the game has under its name, and what the game lists is there or*)
(* was complained about.                                                   *)
PackagesAreRight ==
  IsPackage =>
    /\ OpenError(Package) = "none" /\ answer.exit # 3
    /\ answer.exit = 1 => answer.report = ReportNotWritten
    /\ \A a \in Manifest.assets : AssetIsRight(SourceOf(a), a)
    /\ \A f \in ToSet(Selected(game)) : ContainerIsHeld(f, LikelyContent(f))
    /\ \A f \in ToSet(ScannedTables(game.files)) : Held(f, "data", f.path.name)
    /\ ReferencesAreRight

(* Failed builds remove their staging directory and never expose a partial *)
(* destination (package_layout.md:52): what a build that succeeds leaves   *)
(* there is its staging directory, whole and validated, a manifest appears *)
(* in no other way, and no file that is there is ever replaced but the     *)
(* report of a validation.  The step that ends a build leaves no staging   *)
(* directory, whatever the end is.  Of a process that died the directory   *)
(* stays, until the next build that is not refused at once.  Only the      *)
(* reports may be cut: nothing reads them.                                 *)
IsComplete(files) ==
  /\ {<<"manifest">>, <<"links">>, <<"build_report">>, <<"validation_report">>} \subseteq DOMAIN files
  /\ <<".work">> \notin DOMAIN files
  /\ files[<<"build_report">>] = Cut \/ files[<<"build_report">>].success
  /\ files[<<"validation_report">>] = Cut \/ files[<<"validation_report">>].valid
SameButReport(old, new) ==
  /\ new.there
  /\ \A k \in DOMAIN old.files \ {<<"validation_report">>} : k \in DOMAIN new.files /\ new.files[k] = old.files[k]
BuildIsAllOrNothing ==
  [][/\ builder'.exit = 0 => destination'.there
     /\ destination.there => SameButReport(destination, destination')
     /\ builder.exit # 0 /\ builder'.exit = 0 => destination' = staging /\ IsComplete(staging.files)
     /\ <<"manifest">> \in DOMAIN destination'.files =>
          <<"manifest">> \in DOMAIN destination.files \/ (builder.exit # 0 /\ builder'.exit = 0)
     /\ ~destination.there /\ destination'.there => faults' < faults \/ builder'.exit = 0
     /\ builder.at \notin {"idle", "ended"} /\ builder'.exit \in {0, 1} => ~staging'.there]_vars
=============================================================================
