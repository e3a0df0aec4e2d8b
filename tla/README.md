# A TLA+ verification of OpenDis2

OpenDis2 re-implements the engine of a turn-based strategy game in C++20. This
directory holds TLA+ models of the parts whose behaviour is hard to test, TLC
runs that check them on small instances, and theorems about most of them that
the TLA+ proof system checks for every instance. All paths are relative to the
repository; the program's own code is under `src/src`.

1. [The system](#1-the-system)
2. [The modules and the code](#2-the-modules-and-the-code)
3. [The runs](#3-the-runs)
4. [Fairness](#4-fairness)
5. [Disagreements found](#5-disagreements-found)
6. [What is proved](#6-what-is-proved)
7. [What is not modelled](#7-what-is-not-modelled)
8. [Plan](#8-plan)
9. [Running it](#9-running-it)

## 1. The system

The program is layered. Readers (`d2res`, `d2asset`, `d2scenario`,
`d2gamedata`) turn the original game's files into tables; `d2runtime` builds the
adventure world from them; `d2adventure_rules` and `d2battle_rules` are pure
rules over value types; `d2game` owns the world and applies commands to it;
`d2engine` shows it (screens, presentation controllers, assets, rendering) with
SDL; several command-line programs drive the battle rules without a screen.

Almost everything runs on one thread. The exceptions are three components of
`d2engine/assets`, which own worker threads: the **asset runtime**, the **worker
pool** of the preloader and the **staging reclaimer**. Nothing is sent over a
network, and the game persists nothing while it runs. Only the extraction tool
writes what outlives it: a package of assets, built beside its destination, which a
process that dies or a write that fails must leave alone. Otherwise what is hard is of
three kinds: the
interleavings of those threads with their clients, long sequences of commands
over state that is cached or derived (plans, turn orders, leader flags), and two
pieces of state that have to advance in step (session and presentation, state
table and future).

| component | state | operations | talks to | hard behaviour |
|---|---|---|---|---|
| battle rules (`d2battle_rules`) | unit table, turn order, round, outcome | bootstrap, valid_actions, validate, apply_action | game data (constant) | effects that feed each other (drain, overflow, revival, petrification), a turn order that outlives the units in it, two code paths that must agree on what is allowed |
| battle sweep (`opendis2_battle_sweep`) | the pair being fought, one battle, a summary | run to the end | battle rules | battles that do not end or cannot go on, exceptions, bad stacks in the middle of a series |
| worker pool | job queue, counter, threads | enqueue, wait_idle, destroy | preloader | one condition variable for two kinds of waiters, draining on destruction |
| staging reclaimer | batches, work queue, counters, one thread | create, enqueue, seal, activate, drain_and_wait, wait_idle, destroy | render asset runtime | two mutexes and atomics, batches that are erased while somebody looks at them |
| asset runtime | entries by key, priority queue, threads | request, publish, release, destroy | preloader, render asset runtime | promotion, void jobs, entries replaced while being decoded, exactly one answer |
| world loading (`d2runtime`) | none that outlives it | build the world, refuse a scenario | readers, game session, map rendering | one terrain read by two consumers, objects without a plan, dangling ids |
| adventure rules | none | navigation map, cost, A*, route prefix, preview | game session | optimality, honest failure |
| map rendering (`d2adventure_render`) | prepared terrain, sorted pictures | prepare, paint, find the cell under the pointer | world, assets, adventure screen | two tables that must agree, masks split into the shapes there are, pictures over several cells in one order |
| game session (`d2game`) | world, movement state | select, clear, plan, confirm, step, two debug commands | adventure rules; screen | plans that go stale, movement in steps that re-check the world |
| adventure screen | film of the movement, clocks | clicks, debug panel, update | game session, assets | session and film advance separately; commit checks throw |
| screen manager, application loop, start-up | stack of screens, queued transitions, phases of the loading screen | switch, push, pop, input, update | screens, render asset runtime | transitions requested from inside handlers, screens closed while they load |
| render asset runtime | textures, handles waiting for upload, reclaim batches | request, upload, incremental preload, cancel | asset runtime, reclaimer | images shared by several requests, sessions cancelled while workers decode for them |
| battle presentation | scene, scripts, active step, player | submit a step, update, keys, restart | render asset runtime | scripts beside each other on the same tracks, waits on cues, cut off by frames |
| asset store (`FfAssetStore`) | caches of records and images per container, counters | resolve, read, decode | preloader, asset runtime | readers that race for one record outside of the mutex, two ways from a name to a record |
| preloader (`AnimationAssetPreloader`, `preload_complete`) | results and published images of one call | prepare, publish, upload, withdraw | pool, store, asset runtime, reclaim batch | rollback after a partial failure while jobs still run |
| scenario reader, game tables, `sg-inspect` | none that outlives a call | parse, index the tables, resolve ids, report, write | files | fields found by searching for their names among all bytes, ids that mean several things, outputs that fail one by one |
| package builder (`cli`), asset database (`d2asset`), decoders (`d2res`) | staging directory, destination | build, validate, inspect | files | a process that dies, writes that fail or are cut, names that fall together, a validation that must refuse what loading would |
| other extractors, tools | none that outlives a call | parse, write | files | formats |

What makes each modelled component correct:

- *Battle rules.* Every state they return passes their own
  `validate_battle_state`; they offer exactly the actions they accept, and an
  accepted action never throws; drains give back at most half of what they take;
  nobody is healed above his maximum; and seen from outside, a battle is a
  sequence of activations with the contract of module `Duel`.
- *Battle sweep.* A battle ends badly only for reasons that lie in the stacks and
  the formation, the summary tells the truth about every pair, and the sweep ends.
- *Worker pool.* Every job is run once; `wait_idle` returns, and not too early;
  the destructor drains and ends.
- *Reclaimer.* Every item is freed once, a batch completes when it is empty, the
  two waits return and not too early, the destructor drains, ends and stays
  within defined behaviour.
- *Asset runtime.* Every request is answered once, with what its entry says;
  no image is decoded twice at a time; the most urgent goes first.
- *Store and preloader.* A record has one decoded picture and true accounts; the
  images made in bulk are the ones the workers would make; a call that fails takes
  back all of its images and no others; and it ends.
- *World and map.* The ground is painted without seams, the picture agrees with
  what stacks walk on, everything is painted where it stands and in order, the
  start-up's account of it adds up, a click goes to the cell and the stack it lies
  on, and the window of a stack shows the units where the scenario puts them.
- *Adventure rules and session.* Routes are cheapest, "no path" is true, a
  confirmed movement runs to the end it promised and charges what it said.
- *Adventure screen.* What is shown is what the session does, time is kept, and
  a movement that began ends.
- *Battle presentation.* Scene, presenter and player agree on who is there, a film
  at rest shows the state of the battle, nothing that was to be shown is dropped,
  only a faulty scenario throws, and every film ends.
- *Scenario reader.* What was written into a file is read, and an id is reported as
  what the tables say it is.
- *Package builder.* A package appears whole, validated and of a build without errors,
  or not at all; it can be opened, what it holds is what the game holds, and what it
  does not hold was complained about.
- *Program.* A screen is shown with all of its images, what was decoded is given
  back, overlays open and close one at a time, and all loading ends.

## 2. The modules and the code

```
                 AdventureRules                      WorkerPool  Reclaimer  AssetRuntime
                 |      |    \                       |
                 | Pathfinder  GameSession           |
                 |      |       |    \ implements     |
        TerrainSurface  |       |   Journey        AnimationPreloader : FfAssetStore
                 |      |  AdventureScreen
       AdventureWorld   |                        BattleFilm      RenderAssets
                 |      |                            |                |
            MapGraph    |                       BattlePlayer     GameProgram
                  \    /
               AdventureMap                ScenarioReader -- ScenarioInspection -- GlobalIdResolver
                                                                   |
   Battle                    GameFiles -- AssetPackage -- AssetLinks |
   |    \ implements                                        |  ExtractionTool
   |   Duel                                                 |       : instance
BattleSweep                                                 +-- PackageBuilder

proofs:  NaturalFacts -- BattleProofs    (with BattleSweep)
                    |--- AssetProofs     (with AssetRuntime, ExtractionTool)
                    |--- ReclaimerProofs (with Reclaimer)
                    |--- PreloadProofs   (with AnimationPreloader, so WorkerPool and FfAssetStore)
                    \--- RouteProofs     (with AdventureRules) -- MapProofs (with AdventureMap)
                                                             \- SessionProofs (with AdventureScreen, GameProgram)
```

A module `MC...` beside one of these gives it an instance for TLC; where a
configuration is enough there is none. Lines are EXTENDS.

The header comment of each module says what a step is and what is left out;
the `map` of `PROJECT.json` names the lines of the definitions. One it does not
name is a part of the definition that uses it, and stands for lines within those
of that one. A definition with the comment "Mutant of X" is a plausible bug of X, used to make sure that the
property it belongs to can fail.

### Battle, Duel

`Battle` is `d2battle_rules`. It begins with the 2x3 grid (`battle_formation.cpp`,
`detail/battle_formation.cpp`): the active rank and who reaches whom. Its state is `BattleState`: `units` (hp, alive,
activations to skip), `turnOrder`, `turn`, `round`, `leaderAlive`, `status`,
`winner`; `roster` holds what never changes in a battle (cells, attacks,
initiative, maximum HP). There are two kinds of steps, as in `apply_action`: an
attack on a target (`AttackStep`) and a skip of a petrified unit (`SkipStep`).
A step is a whole call of `apply_action`: primary effect, secondary effect on
the state the first one left, leader flags, outcome, advance of the turn with as
many new rounds as it takes, and the final validation. Effects are tables over
the units; an exception in an effect is the predicate `Throws`, and a throwing
action leaves the state alone, as the caller's copy does.

The last part of `Battle` says what must hold. `Duel` is what a driver of battles is
promised, without HP, attack classes, formations and turn vectors; the mapping
reads "who is frozen", "whose turn" and "who is still to come" off the unit
table and the turn vector.

### BattleSweep

The first part of `BattleSweep` is the loop of `battle_simulator.cpp` around `Battle`, with the
limits and the abort statuses in the order in which the code tests them.
`RuleException` stands for the catch at `battle_simulator.cpp:138-153`: some
offered action throws, or the enumeration does. The rest is the program
around it: the catalogue of stacks that can fight, the two nested loops over
directed pairs, one battle per pair from the values of the scenario, the pairs
whose bootstrap or log fails, and the summary with its exit code.

### WorkerPool

`bounded_worker_pool.cpp`. Every thread has a place `pc`; a step is a critical
section or an atomic access. `notify_one` wakes *some* sleeper, `notify_all` all;
sleepers may wake spuriously. Going to sleep is a step of its own that still
holds the mutex ("block"), because the counter changes without the mutex. Jobs
are numbers in the order they are enqueued. The proofs also allow for several
clients and for jobs that enqueue jobs; the preloader, the only user of the pool in
the program, has neither.
`runs` is a history variable.

### Reclaimer

`cpu_staging_reclaimer.cpp` at the same grain, with the two mutexes, the atomic
flags of batches and the destructor's loop over `batches_` split where it drops
the mutex. Items are counted, not named. `total` of the automatic batch and
`freed` are history variables.

### AssetRuntime

`asset_runtime.cpp`. An entry (`RequestState`) is a number and `states` maps keys
to entries, so that an entry taken out of the map lives on in a worker's hand as
the `shared_ptr` does. A decoding may fail at any time. The image an entry ends
up with has the entry's number, which is all `release_prepared_if_matches`
compares. The queue is a set ordered by `Before`; the code's sequence number is
always the generation less one.

### FfAssetStore, AnimationPreloader

`FfAssetStore` is `ff_asset_store.cpp` over one container: the way from the name of
a sprite to a record (`Resolve`), the other way the decoder has (`SpritePixels`),
the two caches and the counters of the access report. A read is two critical
sections with the decoding between them, in which another reader may be faster.
`finished` and `given` are history variables. `AnimationPreloader` is one call of
`preload_complete` with its `AnimationAssetPreloader`: it resolves the images asked
for, enqueues a decoding job per record and then a composing job per image in the
`WorkerPool` it owns, publishes what they make in the asset runtime, uploads it,
and takes it back when anything fails. The steps of the jobs are the steps of the
pool's workers in the store; a worker of the asset runtime reads the same container
meanwhile. Names are letters with a case and an ending. Left out: animations and
`prepare`, which expand to such lists, several containers, records of one id, and
diagnostics.

### AdventureRules, Pathfinder

The pure part: ground, cost, obstruction, the heuristic, the open list, the
expansion of a cell, reconstruction, `RoutePrefix`, and `FindPath`, the whole of
`find_path` as a function (its state after `n` iterations, for an `n` no search
exceeds).
`Pathfinder` is the loop of `find_path` with one action per iteration; a part of
`AnswersAreRight` ties the two together, and `GameSession` uses the function.
Its requests come from `AdventureMap`.

### TerrainSurface, AdventureWorld, MapGraph, AdventureMap

What happens between a scenario and a map the player can click on. It runs once,
on one thread, so each part is a function and the state is in `AdventureMap`.

- `AdventureWorld` begins with `GameDataRegistry`: the tables of the game's directory (`Disks`) joined
  into units with their attacks, upgrades, labels and traits, and races; and the
  portraits there are. Of several rows with an id the last is found (`Latest`), and only
  that one gets the traits.
  The rest is `AdventureWorldBuilder` and `AdventureNavigationMapBuilder`:
  footprints from plans, mountains that bring their own, groups stored by cell turned
  into members with positions (`Group`), every diagnostic (`Diagnostics`) and the
  scenarios that are refused for one (`Errors`), the worlds without a navigation map
  (`Navigable`).
- `TerrainSurface` is the raw tile and `adventure_terrain_surface.cpp`: masks of
  neighbours, their decomposition into the shapes there are images for, ground
  fields, and `Painted`, which says for every cell which layers cover its diamond.
  `Description` is what the terrain export tools are told of a cell (`describe_tile`),
  from the same plans but past the fast path of interior cells, with a choice of the
  other ground of its own. A unit of length is a quarter of a tile.
- `MapGraph` is the rest of `d2adventure_render` and the resolvers of stacks and
  capitals: the animation of a stack on foot or in a boat, and when it is malformed
  (`Visual`); whether a capital has a living guardian; which object has which pictures,
  the anchor that sorts them, the order; what the start-up counts of them (`Summary`) and
  checks (`BannersPair`); the masks made of the frames of a picture (`Masks`); the cell
  under a place of the canvas and the stack it points at (`HitTest`). What would throw is
  `ActorFails`, `CapitalFails`, `ShieldFails`, `BannerFails`, `MasksFail`.
  Its last part is the window of a stack (`Window`): what `StackInspectionBuilder` reads from
  world and tables, what the log calls unresolved of it, the images that are planned, and
  the frames, portraits and names that are drawn.
- `AdventureMap` loads a scenario, prepares and paints its map and builds its masks in
  the order of the start-up (`stage`), and then lets the player point, open and close the
  window of a stack (`Inspect`, `CloseInformation`) and ask for routes, which it
  hands to `Pathfinder` on the navigation map of the same world.

### ScenarioReader, GlobalIdResolver, ScenarioInspection

`ScenarioReader` is `SgParser` with `SgRecordReader`, as a function from a file to a
`ScenarioTemplate`. A file is a sequence of objects and an object a sequence of fields,
but the reader does not know where fields begin: `ExactHits` and `NumericHits` say in
which fields the search for a name may stop. `Structure` and `FieldKeys` are the structures of
the template and the names their members are read by; mountains, fog and units have
readers of their own, and so have the lists whose members are columns.
`GlobalIdResolver` is the index of the game's tables and what an id means by it.
`ScenarioInspection` is the command `sg-inspect`, which uses both: it reads the scenario,
then the tables in the order of the file system, prints its reports, and writes its
outputs one by one. A request says of each output whether it can be opened and whether
its end is lost (`writable`, `cut`); no stream is tested after it was opened, so
`Written` is all that tells the two apart, and the command goes on alike. `DumpFails` is
the exception of the serialiser for a text that is not UTF-8: of a table, or a class or
an id, which the index takes from the file as they are (`FileTexts`).

### GameFiles, AssetPackage, AssetLinks, PackageBuilder, ExtractionTool

The command `build-runtime-assets` and the two that read its result. A game is the
sequence of its files; the first three modules are functions.

- `GameFiles` is `d2res`: containers with their records and name tables, the three maps
  of an image container, images, animations and sounds as far as they can be decoded,
  the scanner, and the three kinds of tables. A picture is its size class, a name its
  syllables, its capitals and whether it has a character file names may not have.
- `AssetPackage` is the extractors of `cli` and the orchestrator that collects what they
  wrote (a directory is a function from files to contents, so that a later file takes
  the place of an earlier one with the same sanitised name), the layout of a package
  (`assemble_asset`, the canonical tables) and the loaders of `d2asset` with their
  errors; `AssetLinks` is
  `asset_reference_resolver.cpp` and the loader of what it writes, the database's
  questions and `inspect`; `OpenError` is `AssetDatabase::open`.
- `PackageBuilder` has the state: `staging`, `destination`, and the process with its
  manifest and diagnostics. A step is a container, a table, or one of the files at the
  end. `MayCut` is a file that was written as a stream and lost its end unnoticed,
  `WriteFails` anything that is noticed, `Die` the end of a process between two steps,
  `Intrude` somebody else who creates the destination, as an empty directory, which a
  rename replaces (`Publish`), or with something in it. A validation writes its report into
  the package or where `--report` says, cut or whole, or finds that it cannot, which is
  an error and exit code 1 (`ReportFails`). Its last part says what must hold.
- `ExtractionTool` is `run_main`: a process runs one command, this one or `sg-inspect`.

### GameSession, Journey

One action per command of `GameSession::handle_command`; `reply` is the event it
returns. A command's early returns are a `Refusal` computed in the order of the
code. `Journey` is the abstract world: stacks walk one affordable, free,
adjacent cell at a time for the price of that cell, and points are refilled.

### AdventureScreen

`GameSession` with its only caller: clicks, the debug panel, and the frame loop
of the presentation controller. A frame of `delta` milliseconds is played in
steps (`ShowPart` inside a segment, `CommitSegment` at its end), no input comes
in between (`remaining > 0`), and what would throw sets `fault`. The headless
front end drives the same session by commands alone: `front` says which of the two
is at work, and with `"commands"` the steps are those of `GameSession`.

### BattleFilm, BattlePlayer

`BattleFilm` is what the animation engine computes: the scene with base and
effect tracks, the script every visual event is turned into, and the timeline
that advances them. It is sequential code called from one place, so a film is a
value and its operations are functions. `BattlePlayer` has the state: the
presenter with the envelopes of the active step (an event, the cue it waits for,
whether it is optional), the player that submits the steps of a scenario, the
runtime that creates and retires units, and the screen. A step is a frame, which
nests all of their calls as the code does, or a key. `clash` is a history
variable: two scripts met on the base track of one unit.

### RenderAssets, GameProgram

`RenderAssets` is the main thread's view of the images: textures, entries, the
handles waiting for an upload, preloads and reclaim batches. Its operators are
the calls of `RenderAssetRuntime` and `IncrementalRenderAssetPreload`; what the
workers of `AssetRuntime` do is the one action `Decode`, in any order.
`GameProgram` is the main loop over the stack of screens: the loading screen
with its phases, the adventure screen with a movement that begins and ends, the
stack information, and the battle with its loading session. `at` says where in a
frame the thread is, because events, uploads, updates and queued transitions
follow each other in a fixed order and the player may act between any two events.

## 3. The runs

Every run finishes on two cores within three minutes. A *pass* run
explores all reachable states of its instance; a *violation* run finds the
shortest way to break a promise of the repository (section 5).

| run | instance | states | question |
|---|---|---|---|
| `battle` | `MCBattle` | 15 308 | Do the rules keep their own state valid, offer what they accept, carry out what they accept, conserve HP as they should, and implement `Duel`? |
| `sweep` | `MCSweep` | 3 722 | Is every bad end of a battle explained, does the summary add up, and does the sweep end? |
| `reclaimer` | two clients | 232 717 | Is every item in one place and counted once, and do the two waits mean what they say? |
| `reclaimer_stop_hang` | one client | | Does the destructor end? (no) |
| `reclaimer_iterator` | one client | | Does the destructor's loop stay within the list? (no) |
| `assets` | two workers, two images | 257 778 | Is every request answered once, in the order of urgency, by one decoder? |
| `preload` | `MCPreload` | 162 428 | Are the pool's counter, its waits and its destructor right, as the preloader uses it? Do readers share one picture of a record, is what is made in bulk what the workers would make, and does a failed preload take back what it made and end? |
| `map` | `MCAdventureMap` | 44 523 | Is the ground painted without seams, does the picture agree with what is walked on, is every picture in its place and order, is what is pointed at found, does the window of a stack show what the scenario holds, and is every route a cheapest one? |
| `adventure` | `MCAdventureScreen` | 164 385 | Do plans stay fresh, movements run through, and the world follow `Journey`; do film and session stay together, and do movements end? |
| `film` | `MCBattlePlayer` | 190 068 | Do scene, presenter and player agree, is nothing dropped, and do films end? |
| `inspect` | `MCExtractionTool` | 57 582 | Is what was written into a scenario what is read from it, and do the reports say what the tables say? Is a package published whole or not at all, and is it what the game has? |
| `program` | `MCGameProgram` | 185 594 | Are screens shown with their images, images given back, and does loading end? |

### Bounds, and why they are enough

**battle.** Five units, HP 0..4. Unit A of side 1 carries every pair of classes
of one relation at every reach, and bundles the analyser refuses; B petrifies, E
fights in melee, C (large, on two cells) hits, D revives and cures. So every
effect meets every other as a primary or secondary component, both sides have a
way to kill, to disable and to bring back, a large unit straddles the ranks, and
A stands before and behind a comrade. Starting HP cover the full, the wounded,
the dead, a unit above its maximum (which a levelled unit of a saved game can
be), and battles that are over before they begin. `MaxRounds = 2` lets units
that died and were revived in one round act in the next, and a turn order be
rebuilt from changed units; a round depends on nothing before its beginning but
the unit table, and the starting tables vary. Damages and healings of 1 to 3
against maxima of 2 and 3 hit the exact, the short and the overshooting case.

**sweep.** The battles have two fighters on one side and one on the other, with
weapons for fights that end, fights that never do, and every reason to abort; two
rounds and five actions, so that either limit can be the one that stops a battle.
Other scenarios have three fighters (six directed pairs), a dead stack, a stack in
a city, stacks the bootstrap refuses, logs that cannot be written, and a scenario
that does not load.

**reclaimer.** Two batches and two items, split over them or the automatic batch
in every way, with two clients, so that one enqueues or activates while the
other drains the same batch. The two violation runs need one client only.

**assets.** Two workers, two keys, three priorities, two entries and four jobs:
enough for a promotion between two others, a void job left in the queue by each
promotion or release, an entry released while it is being decoded, and its
successor decoded beside it.

**map.** 3701 scenarios of 3x3 cells. *Walks:* every map of plains and roads with
obstacles in the middle column, from a corner to both ends of the opposite edge
(detours, ties, entries that go stale, walls); then mixed ground, all three
movement profiles, roads, another stack in the way, and every goal, one outside
the map included. *Grounds:* all 256 neighbourhoods of a cell for five pairs of
grounds (the weaker over the stronger, water and land, black), and rings of many
grounds around every ground. A cell's borders depend on nothing but its eight
neighbours, so 3x3 cells are enough. *Worlds:* objects of every kind, of one cell
and several, and each thing that may be wrong with one; then missing images, and
animations of which each is spoilt in a way of its own. *Sights:* every quarter of a
tile on the canvas and a margin around it, 225 places, is pointed at over bare ground,
over two stacks close together, and over a village with a shield. *Companies:* groups of
two or three members, one that takes two cells, one drawn as the unit it comes from,
some unknown, on every pair of seven sets of the six cells of a formation; then
formations no editor writes (seven members, too few cells, numbers out of range) and
tables that miss what the window reads. A patch of ground is 5 by 3 quarters, so that
cells lie across several of them, at negative coordinates too. `Hash` gives every picture
its own number, in no order of the objects: two that collide are beyond what
`stable_render_id` promises.

**adventure.** A 3x2 map with road, forest and water, and one stack of each kind
the code tells apart: walker, flyer, a leader without movement profile, a stack
in a settlement, one in no known place. Points start at -1 (a scenario may) or 3,
so that routes can be afforded in full, in part and not at all; one initial
world puts two stacks on a cell, which the navigation map builder refuses.
`FreeMovementPoints` is 6 where the code has 1024 * 1024: all that matters is
that it pays for any route on the map. A segment takes two units of time where the
code has 400 ms, and a frame brings 1, 3 or 5: less than a segment, more than one,
more than two.

**preload.** Containers of five records and five sprites: two sprites cut from one
record, one found by its name only, one whose record is broken, one without any; and
a container that does not open. In some plans the preloader and another reader race
for the same record, with up to five jobs on two workers, two calls of the other
reader, and at most one failure at any point of the call. Two workers are needed for
a notification to reach the wrong sleeper and for jobs to overlap. The others ask for one
image at a time, under every name, kind and treatment, from a container whose PNGs
lack their ends and from one without an index: what a name leads to depends on
nothing else.

**film.** Ten scenarios, frames of one and of three ticks against clips of one to
five, so that a frame ends before, with and after a clip. They cover a duel with
a death and a revival, summons and retreats, a volley whose envelopes wait for one
another, effects, two scripts on one unit, required events that cannot be shown,
aliases that do not exist and cells that are taken. Two keys and one restart, at
any moment. A restart builds the film anew, so a second one shows nothing new.

**inspect.** An object of every class, complete; then with one field left out, with a
number behind one key that is 0, 65 (a letter) or 95 (an underscore), with a text that
mentions another key, and with its fields in reverse. What is read of an object depends
on nothing but its fields, so one object is enough. Then objects with columns, the three
classes that are read from front to back with entries that are cut short or whose
numbers look like keys, maps whose blocks overlap, leave gaps or stick out, signatures,
and four scenarios full of ids with every directory of tables and set of options, and with
outputs that cannot be opened or are cut, and an id that is not UTF-8. The
tables of a directory come in every order.
Packages are built from 49 games: one with every kind of file, which refer to each
other in every way a row can, and that one with a single thing changed: images without an area
or too large for a sheet, names that differ by case or by a character that file names do
not have, names of the extractors' reports, sounds without a payload, maps that are
missing or do not fit, records that are deleted or share an id, dialogs without an id or
with that of another, broken tables, files that share a name. One sheet holds one image,
so that the second starts another. One write may fail or be cut, that of a validation's
report among them, or the destination may be taken, and there are two processes: a build that dies or is stopped and one that follows it, or a build and
a validation or inspection. A third process sees nothing that the second does not.

**program.** One image of each kind the program treats differently, three
movements, stack informations or battles in any order, and at most one faulty
file: an image that cannot be decoded, one no texture can be made of, or a
scenario that does not parse. Images are shared: the standing stack is an
animation of the map and is asked for again by a movement, the portrait by the
stack information and by a battle, and the battle's plan names one image twice.

`CHECK_DEADLOCK FALSE` is set where the program may stop: a battle or a search
that is over, a pool, reclaimer or asset runtime that has been destroyed or whose
bounds on jobs are used up.

### What a property is about

The comment over each property names the behaviour of the code, and `hazards` in
`PROJECT.json` lists the lines where it could go wrong. Each property of a
passing run has a mutant (`mutants` in `PROJECT.json`): a plausible bug in a
mapped definition that makes the property fail under the run's own
configuration.

## 4. Fairness

Safety runs need none. `Battle`, `AdventureMap` and
`GameSession` have none: they are called, and their callers may stop calling.

- **Reclaimer**, `Fairness`: `SF` for the steps of clients, worker and destructor,
  which take a mutex, and `WF` for going to sleep. Strong fairness at the mutex
  says that a thread which finds the mutex free again and again gets it in the
  end. `std::mutex` does not promise it, but the threads here spend their time
  outside of it and every scheduler the program runs on provides it. The code
  between two steps is straight-line.
- **AssetRuntime**, `FairSpec`: `SF(WorkerStep(w))`, and `WF` for the destructor
  once it has begun. A decoding ends, with an image or a failure.
- **AdventureScreen**, `ScreenSpec`: `WF(Frames)`. The application loop calls
  `update` on every iteration while the window is open, with a positive time, and
  an update runs to its end.
- **AnimationPreloader**, `PreloadSpec`: `SF` for each thread of the call as a whole
  (the main thread, every worker of its pool), for the reason given for the
  reclaimer; a job is assumed to end; and `WF(OtherStep)` for the other reader.
- **BattleSweep**, `SweepSpec`: `WF(SweepNext)`, one thread that computes.
- **BattlePlayer**, `FrameFairness`: weak fairness of frames, with the condition
  under which a frame changes something written out (`FrameMoves`), because TLC
  would enumerate the frame to find out whether it is enabled.
- **GameProgram**, `FairSpec`: weak fairness of the main thread, which goes on
  unless it waits for images (`MainMoves`), and `WF(Worker)`, which follows from
  `AssetRuntime`, where every request is answered.

Nothing is assumed of calls, clicks, spurious wakeups or the moment of
destruction: they may come or not. A sleeper may wake spuriously but never has
to, so no liveness property leans on it.

## 5. Disagreements found

1. **The reclaimer's worker can miss its stop** (`reclaimer_stop_hang`,
   `cpu_staging_reclaimer.cpp:82`). `stopping_` is set and notified without
   `work_mtx_`; a worker between its check and its sleep misses it, and `join` does
   not return. `wait_idle` (`:228`) can miss the worker's last `fetch_sub` (`:309`)
   and its `notify_all` (`:353`) in the same way, which is why `reclaimer` has
   `ReturnsMeanFreed` but no property that `wait_idle` returns.
2. **The destructor's loop outlives its iterator** (`reclaimer_iterator`,
   `cpu_staging_reclaimer.cpp:72`). It drops `batch_mtx_` in the middle of a
   range-for over `batches_`; for a sealed batch the worker may erase the element
   meanwhile. The model goes to the place `"undefined"` and stops there.

Met while modelling, and outside of what the program does today:

- *A second waiter can take the workers' wakeup* (`bounded_worker_pool.cpp:36`).
  Workers and `wait_idle` callers sleep on one condition variable and `enqueue`
  uses `notify_one`. With two clients a job can stay in the queue while both wait
  for ever. The preloader uses a pool from
  one thread; the stress test `test_bounded_worker_pool.cpp:57` uses several.
- *Publishing over a failed entry is lost* (`asset_runtime.cpp:265`):
  `publish_prepared` ends in `states_.emplace`, which does nothing for a key that is
  present, although `asset_runtime.hpp:119` promises that later requests find the
  image. Nothing in the program publishes over a failed entry.
- *The documentation turns the painting order round.*
  `docs/architecture/adventure_map_rendering.md:133` says that increasing depths are
  farther from the camera and draw first, and `:154` that an actor at depth 10 draws
  before a structure at depth 5. The code paints ascending depths
  (`iso_depth_resolver.cpp:18`), as `:94` of the same document says.
- *A black tile is plain ground.* `classify_adventure_ground` makes byte 0 `Plain`, so
  stacks walk where nothing but borders is painted (`AnswersAreRight` and
  `MapIsDrawnAsWalked` take it as the code has it).
- *A picture over several cells has one anchor.* A stack beside a large building,
  nearer to the viewer than some of its cells and not than its anchor, is painted
  before it. `DrawnWhereItStands` therefore speaks of anchors.
- *Bulk and single images may differ.* `asset_runtime.cpp:250` drops an image
  prepared in bulk when the worker is already at it, because "The worker will produce
  the same result". It does where the two ways are `Alike`. But the bulk way leaves
  sprites without their magenta treatment, the worker does not look for the magenta
  border of raw images, and names in small letters, without their ending, or of PNGs
  that lack their end lead one of them to another record or to none.

- *Fields are found by their names among all bytes* (`SgRecordReader.cpp:27`). Whoever
  writes into a text the name of a field that comes later hides that field. The byte
  behind a name must not continue it, so a text is missing when the low byte of its
  length is a letter, a digit or 95 (`docs/sg_format_findings.md` has it as "Field Lookup
  Hardening"), and a number when its low byte is 95: a relation or a number of charges
  is then passed over and the later ones move up, as they do behind a text of length 0
  in a list of columns. `KNOWNSPELL_ID` and `PLAYERBUILD_ID` are read as a spell and a
  building; a mountain whose image or race equals the bytes up to a later entry
  swallows the entries between. `WhatIsWrittenIsRead` therefore speaks of legible keys.
- *`global_id_usages` is said to record every `G000` reference*
  (`docs/sg_format_findings.md`). The types of items, the modifiers of units, the groups
  of stacks, the images of landmarks, the types of crystals and the players of known
  spells are not in it, and `MapFog.player_id`, which is, is never set.
- *`annotate` reads an empty optional* (`commands_sg_inspect.cpp:881`) for an id only a
  text is known of: `AnnotateCrashes`.
- *Outputs are claimed unseen.* "Wrote" is printed, and the exit code is 0, for an output
  that could not be opened and for one whose end was lost (`commands_sg_inspect.cpp:651-681`).
  So 0 says that every output was tried, and `ExitCodeIsRight` no more than that. A JSON
  dump with texts that are not UTF-8, ids and classes of the scenario among them, throws
  when its file is open, and leaves it empty.

- *An image container without animations stops the build.* `cmd_extract_atlas` asks for
  the map of animations too; without `-ANIMS.OPT` the images are extracted, the atlas
  is an error, and the build ends with 1 (`GiveUp`).
- *Warnings of images are lost.* The extractors of images and animations write the same
  `warnings.txt`; the report has the last one's.
- *Names that fall together.* Sounds and animations whose names become one file name
  replace each other without a word (`SharesItsFile`), and so are sounds called like a
  report left out (`ReportNames`); images whose ids fall together stop the build. A unit with an empty
  `UNIT_ID`, or a dialog that names one image by its id twice, yields links the loader
  refuses, and the build stops at its own validation.

Part of passing runs, because the properties say so:

- *Ordinary positions reported as fatal* (`BadEndsAreExplained`). A melee fighter
  in the back rank whose front rank still stands has no target, and
  `validate_adjacent_target` says so with `ActorNotOnActiveMeleeRank`.
  `enumerate_bundle_unit_targets` does not list that verdict among the ordinary
  ones and throws (`detail/bundle_support.cpp:98`), so the sweep reports "FATAL
  BATTLE INVARIANT" (`battle_log_writer.cpp:323`). This and stacks above their
  maximum HP are the only reasons.
- *Failed bootstraps are counted and not totalled* (`SummaryAddsUp`,
  `sweep_runner.cpp:287`): the pair has an entry and a counter, but is missing from
  `total`.
- *Two scripts on one base track hang the film* (`FilmEnds`): an attack cut short
  by another script of the same unit waits for a track that no longer plays. The
  player, and with it the battle, never goes on.
- *A payload can be cut unnoticed* (`SoundIsRight` in `PackagesAreRight`,
  `runtime_package.cpp:300`): the size in the sidecar of a sound is taken from the file
  that was copied, so the check of sizes compares a short file with itself. The same
  goes for PNGs, which nothing opens, and for the reports, whose stream is tested before
  it is closed (`:202`).
- *A sound package can be called invalid* (`ReportNotWritten` in `PackagesAreRight`,
  `runtime_package.cpp:728`): a validation that cannot write its own report ends with 1,
  as on a medium that is read-only. That is the only way to 1 for a published package.
- *Events that cannot be shown end the program* (`FilmIsInOrder`): a required
  `TargetMissed`, `TargetResisted`, `LifeDrained` or `SourceHealed` has no script, so
  its step fails, and the exception of the player is caught by nobody. An optional
  one is skipped, but its HP are applied. The effect tracks share their id numbers
  with base tracks, so an effect can fail to appear; and Space, which starts an
  attack of its own between frames, keeps a unit from retreating in the next step.
- *Images that stay in memory* (`ImagesAreReclaimed`): ground tiles, whose
  requests nobody collects; images no texture could be made of (`pump_uploads`);
  portraits a battle has read itself while the stack information waited for them.
- *Escape twice* (`OverlaysAreSound`): the transition of the first Escape is applied
  before the second is handled, so it reaches the adventure screen, which quits.

## 6. What is proved

`tlapm` checks seven modules of proofs, and `NaturalFacts`, which they share: least
elements, pigeon holes, sequences given step by step. The theorems hold for every
value of the constants that satisfies the assumptions named in the modules that
declare them; TLC evaluates the same assumptions on every run. Inductions over numbers,
rounds of a loop or the size of a set go over sets of natural numbers that contain 0 and
with each number the next (`NatSetInduction`); none of the library's theorems with an
operator as a parameter is used.

### PreloadProofs

From `ThreadsAssumption` (finitely many workers, at least one, distinct from the
clients) and `MaxJobsAssumption`, for any number of workers, clients and jobs; the last
three also from `PlansAssumption`, for any container, list of requests, entries of
others and calls of another reader:

| theorem | property | |
|---|---|---|
| `PoolTypeCorrect` | `PoolTypeOK` | in particular the unsigned `outstanding_` never falls below zero |
| `AccountingCorrect` | `OutstandingIsQueuedPlusExecuting` | the header's promise about `outstanding_` |
| `NoJobIsLost` | `EveryJobIsSomewhere` | every job is in one place, and run at most once |
| `WaitIdleIsSound` | `IdleMeansAllDone` | `wait_idle` does not return too early |
| `DestructorDrainsQueue` | `DestructorDrains` | a destroyed pool has run everything |
| `AccountsAreRight` | `JobsAreAccountedFor` | accounting, places and destructor together |
| `PreloaderUsesThePool` | `JobsAreAccountedFor`, `IdleMeansAllDone` | the same of the pool inside a preloader, as the run `preload` checks them |
| `BulkResultsAreRight` | `ResultsAreRight` | one right picture of each record in the store, and for each request what the decoder would give |
| `ThePreloaderKeepsToItsOwn` | `PreloadKeepsToItsOwn` | however the call ends, nothing of it is left, and nothing of others is touched |

`EveryJobIsSomewhere` is not inductive: it says nothing about *which* jobs are
queued, so popping the head could hand out a job that was run before. `PoolInv`
adds that the queue holds exactly the last jobs in the order they came
(`QueueIsTheRest`), that the jobs in the workers' hands are distinct earlier ones
(`HandsAreDistinct`), that every other earlier job has been run once and no later
one at all (`RunOnce`), and that workers leave only an empty queue behind
(`PlacesAgree`). `NextInv` goes through the actions; steps that move no job share
the lemma `QuietStep`. The theorems follow from `PoolInv` by counting.

Every step of a preloader is one of its pool or leaves the pool alone
(`PreloadStepsThePool`), so it implements the pool's specification, and the theorems of
the pool hold of it. About its results they do not say enough, and neither
`StoreIsCoherent` nor `NothingIsLeftBehind` is inductive. `PreloadInv` adds:

- `StoreInv`: of every reader within a call, which object it has decoded and that the
  counters run ahead of the caches by the calls that are still under way. From it
  follows what a cache holds, whoever looks it up next;
- `ListsOK`, `JobsOK`: the lists are made once, and which jobs have been run in each
  stage. Composing jobs exist only after all decoding jobs are done; Main uploads or
  rolls back only after all jobs are done; and no composing job is left when the
  preloader goes out of scope, though decoding jobs may be. The last two need
  `WaitIdleIsSound`, and the order of the wait and the rollback in the exception handler;
- `CallsOK`, `ProductsOK`: a worker reads what its job is for, and `phys`, the results
  and the published images are functions of the jobs that have been run;
- `EntriesOK`, `BatchOK`: an entry of the preloader in the asset runtime was published by
  one of its jobs and is still ahead of the upload, and the batch holds exactly what has
  been uploaded. Hence at the end there is none.

What a job composes and what the decoder gives are compared by cases
(`AlikeRaw`, `AlikeComposed`, `AlikeStanding`: a raw image, a sprite composed of a base
record, a sprite that stands in a record of its own name).

`PlansAssumption` says of a container (`WellFormed`) that its records differ in more
than the case of their names, which its lookups by name take no notice of, and that
index entries of one name over one record have the same image. These are properties of
the files: of two such records or entries the code takes the one it comes upon, and the
bulk way and the decoder need not come upon the same. Of the other reader it says that the asset
runtime has one request under way for each entry that is being decoded, which is
`RequestsAreAccountedFor` of `AssetRuntime`, and there a theorem.

### BattleProofs

From `RostersAssumption` (every roster is one bootstrap accepts: `ValidRoster`)
and `MaxRoundsAssumption`, for any set of rosters, any HP, damage and initiative; the
last two also from `MaxActionsAssumption`, `WorldsAssumption` (a scenario has a sequence
of stacks, each with an identifier of its own) and `RostersOfWorlds` (the rosters are
those of the battles the sweep starts), for any scenarios:

| theorem | property | |
|---|---|---|
| `BattleTypeCorrect` | | `TypeOK`, which no run needs to check any more |
| `ActionsLeaveValidStates` | `ValidState` | no action leaves a state `validate_battle_state` refuses |
| `MaximumIsNeverExceeded` | `HealingStopsAtMaximum` | |
| `AcceptedAttacksDoNotThrow` | `AcceptedAttacksSucceed` | what the validator accepts is carried out |
| `OffersAreAccepted` | `OffersAreTheAcceptedOnes` | enumeration and validation agree |
| `DrainsAreShared` | `DrainIsShared` | a drain gives back at most half, the actor first, then its allies in slot order |
| `BattleImplementsDuel` | `ImplementsDuel` | every step is an activation the contract `Duel` allows |
| `BadEndsHaveReasons` | `BadEndsAreExplained` | a battle that stops without a valid action, or with an exception, has one of the listed reasons |
| `SummariesAddUp` | `SummaryAddsUp` | the counters count the entries, every directed pair is fought once, exit code 0 means all came to an end |

`TypeOK /\ ValidState` is inductive. The argument has three layers. (1) Every
effect turns a *clean* table of units (the living have HP, the dead owe no skip)
into a clean one, and into a *capped* one (nobody got above the greater of his
old HP and his maximum): one lemma per effect, then `EffectKeepsTables`,
`ComponentKeepsTables`, `AttackKeepsTables` by composition, since being capped is
transitive. (2) The turn order of any set of units exists: `ActsBefore` is a
strict total order, so the numbers of predecessors are distinct
(`TurnOrderIsFair`), and by the pigeonhole principle every position is taken
(`PositionsAreTaken`); and among the units still to come that are alive there is
a first (`LeastExists`). (3) `Settle`, the end of every action, turns any clean
table into a valid state (`SettleKeepsInv`): leader flags and outcome are
recomputed, and the next unit in turn is alive. `AcceptedAttacksDoNotThrow`
needs one more invariant, that from sound stacks nobody is ever above his
maximum: a healing effect throws on a unit above it, and a revival also when it
heals nothing, which sound stacks exclude.

`OffersAreAccepted` compares the two code paths case by case: by the relation the
analyser finds for a bundle (enemies, allies, the dead, a side) and by its reach.

`DrainsAreShared` is about sums. `Fair` relates two tables of units by what a component
took and gave: it holds of each effect, and it composes, because the second component
drains a table the first one left and the shares are rounded down (`FairAddsUp`,
`FairGivesHalf`). That the overflow serves the actor and then the slots in order is a
statement about the prefix sums of what the allies lack (`SharesFit`, `FeedsInOrder`).

For `BattleImplementsDuel` the invariant becomes `DuelInv`, which adds that a unit owes
at most one activation and that what is left of the turn order is still sorted by
`ActsBefore`: the order of the round was made when it began, and initiative and slots
do not change. One lemma per effect says that it harms enemies or helps comrades, never
both (`EffectHarms`, `EffectHelps`); `StepActivates` puts an action together, and
`SettlePassesOn` shows that the next unit is the first of those still to come that
lives, or a round begins.

The sweep needs the conjunction `SweepInv`. `Book` says that the entries are those of
the first pairs, in their order, and that every counter counts them; neither
`SummaryAddsUp` nor its parts say which pair comes next. `StageFits` ties the stage
to the number of entries. `FightInv` holds while a battle is on: it is the battle of the
next pair, in a state of `DuelInv`, and if it is over somebody has won it after an
action, because a battle of fighters begins with both sides alive (`BattleBegins`) and
no attack wipes out the side of its actor. The reasons of the bad ends come from the
formation: `NobodyInReach` finds the rows a melee fighter is kept from, and
`StuckHasReason` and `ExceptionHasReason` go through relation and reach of a bundle as
`OffersAreAccepted` does. That the quotient and the remainder of the number of a pair
meet every pair of different fighters is `PairsAreAll`; that sorting by identifiers
lists every fighter once is `FightersAreListed`.

### AssetProofs

From `WorkersAssumption` (finitely many workers, at least one) and `BoundsAssumption`
(the bounds are numbers), for any keys, priorities and bounds:

| theorem | property | |
|---|---|---|
| `RequestsAreAlwaysAccountedFor` | `RequestsAreAccountedFor` | a request is in one place until it is answered, an image has one decoder, the destructor leaves nobody waiting |
| `MostUrgentIsFirst` | `MostUrgentFirst` | a worker starts on the most urgent image, and of these on the oldest |

`AssetInv` says, for each state an entry can be in, who has it: a waiting entry is the
one its key leads to, and a job with its *current* generation is queued
(`WaitingIsQueued`: every promotion and every release leaves void jobs behind, so the
queue alone says nothing); a decoding one is in exactly one worker's hand and still the
one its key leads to (`DecodingIsHeld`, `HandsAreDistinct`); a finished one has been
answered or is about to be (`DecidedIsAnswered`). Generations are unique, so the queue
has a first element (`QueueIsOrdered`, `TopIsFirst`), and workers leave only when
the queue is empty (`ExitsAreLast`).

The second half of the module is about `ExtractionTool`. It needs only
`MaxFaultsAssumption` (the bound on faults is a number); games, scenarios, requests
and the number of processes are arbitrary:

| theorem | property | |
|---|---|---|
| `PackagesAreBuiltWhole` | `BuildIsAllOrNothing` | what a build that succeeds leaves at a destination is its staging directory, whole and validated; a manifest appears in no other way; no file there is replaced but the report of a validation; a build that ends leaves no staging directory |
| `ExitCodesAreRight` | `ExitCodeIsRight`, a part of `ReportsAreRight` | with a scenario `sg-inspect` says 1 if and only if the dump was opened and cannot be made, and that empty dump is the only output; else 0, and each output that could be opened holds what was read, whole unless it was cut |

The property is about one step, but what a step publishes was written by steps before it,
so `PackageInv` says for each step of a build which of the four closing files are in the
staging directory by then and that the reports in it, if they were not cut, speak of
success (`InPlace`). Each write puts one file more and leaves the others
(`WritingKeepsPackageInv`); every failure goes through one clean-up
(`FailKeepsPackageInv`). `InspectionInv` says that nothing is written before the outputs begin
(`NothingIsWrittenYet`), and from then on that what was claimed was asked for, the dump
first, that exactly the claimed outputs that could be opened are there
(`OutputsAreWritten`), and that each holds the content of what was read, which no longer
changes (`ContentStays`), but for the end of those that are cut. Neither proof looks into what the content *is*, so the sizes of the
tables and of the game do not matter.

### ReclaimerProofs

From `ThreadsAssumption` (the worker and the free mutex are no clients) and
`BoundsAssumption`, for any number of clients, batches and images:

| theorem | property | |
|---|---|---|
| `EveryItemIsAccountedFor` | `ItemsAreAccountedFor` | an image is in one place, the counters agree with the places, a destroyed reclaimer has destroyed everything |
| `WaitingMeansFreed` | `ReturnsMeanFreed` | `drain_and_wait` and `wait_idle` do not return too early |

`ReclaimerInv` says where the items of each batch are (`ItemsOK`): held back, published,
in the worker's hands, or freed, with the batch's own counter and the two global ones
as sums over batches and over what clients carry. What makes that inductive is who may
have items and when: the client that activated a batch, between taking them and
publishing them (`CarrierOK`); the worker, from the moment it takes a batch over until
it has counted it (`WorkerOK`), and only of batches that were published (`BatchOK`);
the destructor, which publishes what nobody activated (`DestructorOK`). A completed
batch is empty for good. The module begins with what it needs of sums over finite sets.

### RouteProofs and MapProofs

From `MapAssumption` (a map has at least one cell) and `ScenariosAssumption` (one
points at whole places, and asks with a profile there is), for a map of any size, any
terrain and any scenarios; the two about objects also from `ObjectsAssumption` (finitely many
objects, and only two stacks may share an id) and `NamesAssumption` (the 64-bit hashes by
which equal pictures are told apart differ in one scenario; the code does not look):

| theorem | |
|---|---|
| `HeuristicIsConsistent` | no step costs less than the estimate drops by it, for every profile: why a closed cell may stay closed |
| `FoundRoutesAreRight` | a route `FindPath` answers with starts and ends where it was asked to, and enters neighbouring cells the profile may enter at their prices |
| `SearchIsCorrect` | `AnswersAreRight`: a route that is found is a cheapest one, none is denied that exists, no closed cell has a cheaper way left, and the loop computes what `GameSession` calls |
| `PointerIsCorrect` | `PointerIsRight`, a part of `MapIsDrawnAsWalked`: a click goes to the front-most cell it lies on |
| `AnchorIsFrontMost` | the cell a picture is sorted by is one it stands on, and none of its cells is nearer to the viewer |
| `PaintingOrderIsStrict` | `ComesBefore` is a strict order, without gaps, total on distinct ids: what `std::sort` relies on |
| `GroundHasNoSeams` | `SurfaceIsSound`: of two cells with different grounds one shows the border, layers are in order, and what the tools are told is what is seen |
| `PaintingIsOrdered` | `PaintedInOrder` and `AnchoredInFront`, parts of `MapIsDrawnAsWalked`: everything is painted once and in order, a shadow below its body and a banner above |
| `WalkedIsAlwaysSeen` | `WalkedIsSeen`, a part of `MapIsDrawnAsWalked`: the ground and the objects one walks on are those one sees |
| `PositionsInvertCells` | `Group` turns the cells of a scenario into positions of members without losing anybody, inventing a place or putting two members into one cell, whatever the cells say |

`RouteProofs` is about the function. One invariant of the search (`SearchInv`) is kept
by every round (`RoundKeepsInv`): a cell that is reached is entered from a closed one at
its price and waits in the list at its best cost until it is closed, the neighbours of a
closed cell are no further than over that cell, and what is closed was nearer than all
that is open. With the consistency of the estimate the top of the open list is a cheapest way to its
cell (`SettledIsCheapest`), and as long as some way to the goal is left something
waits in the list (`SomethingWaits`). A round closes a cell or drops an entry, and an
expansion adds at most eight, so the search ends within `8 * Width * Height + 1` rounds
(`RoundsEnd`): the function's state after that many rounds is its answer.
`MapProofs` carries this over to the steps of `Pathfinder` (`PathInv`: the search under
way is the function's after as many rounds) and to the map.
The consistency needs the cheapest step of each profile (`CheapestStep`) and that the
distances of neighbours differ by one (`NeighboursAreOneApart`).

`PointerIsCorrect` rests on `WindowIsWideEnough`: for a place of the diamond of a cell
the sum and the difference of its coordinates, divided by the side of a tile and
rounded *down* (`FloorDivRoundsDown`: truncation would not do left of the map),
are off by at most one from the cell, so that it is one of the nine looked at; and
on `FrontMostExists`, that the scan for the greatest depth, and then the greatest
column, has one result.

`GroundHasNoSeams` holds for every terrain and, with `PatchAssumption`, for patches of any
size. `SurfaceInv` says that what is kept between the stages is what the functions make of the scenario
(the surface is `Prepared` of the terrain, the canvas is `Painted` from it), and the
rest is about these functions:

- a mask, any of the 256, is split into shapes that lie in it and together cover it, unless
  it holds all four sides, which alone are shown then (`DecompositionCovers`); every border
  of a plan is one of these shapes (`PlanFacts`);
- the table of who gets a border and the table of the order of painting rank the grounds
  alike (`PassFacts`), so one pass paints the borders of one ground (`PassLaysOne`), and of
  two layers the later one is of the stronger ground (`OrderIsKept`);
- strength is seen alike from both sides (`StrengthIsMutual`), opposite directions are
  unique (`OppositeFacts`), and so exactly one of two neighbours gets the border, and
  all of it is laid (`BordersAreLaid`, `SeamsAreClosed`);
- the fast path that `prepare_full_map` takes for an interior cell and `describe_tile` does
  not leaves nothing out (`InteriorHasNoBorders`), and the border that is named is the first
  of the plans that pass `describe_tile`'s own choice (`FirstPlanIsFirst`, `DescriptionsAreTrue`);
- a field of a ground reaches under every image cut from it, because division that
  rounds down keeps the order of places (`FloorDivKeepsOrder`, `FieldReaches`).

The last two need what stands on the map to be what `Graph` makes of the world from the moment it
is prepared (`GraphInv`; the masks are put in later and change nothing else). A name
determines its picture (`PicturesDiffer`: ids are unique, and a stack in a settlement is
in that one only), so there are finitely many pictures and the order is total on them. In a
finite strict total order every number of predecessors below the size is that of exactly one
element (`RanksAreTaken`), which is why `Sorted`, and with it `std::sort`, lists each picture
once (`SortedIsOrder`). `ShadowBelowBanner` is about the levels and suborders of one object;
`ObjectsAreSeen`, `ForestIsSeen`, `WaterIsSeen` and `StructuresBlock` compare the picture
with the navigation map, the water through `LayersAre`.

### SessionProofs

From `SessionAssumption`, `WorldAssumption` (what loading guarantees: every cell has a
ground, every stack a place, perhaps off the map, and a number of points, perhaps
negative) and `ScreenAssumption`, for any map, stacks and worlds:

| theorem | property | |
|---|---|---|
| `PlansAlwaysHold` | `PlansHold` | the re-checks of `Confirm` and `AdvanceStep` never fail once the plan they check was made |
| `MovementsArrive` | `ArrivesWherePromised` | |
| `SessionImplementsJourney` | `ImplementsJourney` | whatever the commands, the world changes only as `Journey` allows |
| `ScreenDrivesTheSession` | | a behaviour of the screen is one of the session, so all of this holds under it |
| `TheFilmFollows` | `FilmAndSessionAgree` | the film shows what the session does; no check of `update` throws |
| `TimeIsAlwaysKept` | `TimeIsKept` | a step is committed after its segment was shown in full, however frames cut the time |
| `ScreensStayLoaded` | `ScreensAreLoaded` | nothing is shown without its images; only a faulty file that is needed stops the program |
| `ImagesStayReclaimed` | `ImagesAreReclaimed` | an image in memory is owed to somebody or one that stays; every batch has an owner that closes it |
| `OverlaysStaySound` | `OverlaysAreSound` | screens of `GameProgram`: a transition is applied before the next is asked for, a battle has a session while its screen stands |

`PlansHold` is not inductive: that a confirmed movement is not interrupted depends on
what its route says of the cells ahead. `SessionInv` says that a plan is the one that
would be made now (`PlanIsFresh`: its route is what `FindPath` answers in the present
world, which `FoundRoutesAreRight` says is fit to travel), and that a movement stands
where its progress says, with points that pay for all that is left, on a route whose
prices still hold (`MovementIsOnCourse`). Commands that leave the places of the stacks
alone keep the map the search sees (`SamePlaces`); a step of a movement moves only the
stack that moves, which is not in its own way. A prefix of a route one may travel is
one (`PrefixTravels`), which is what `Confirm` cuts when the points fall short.
`ScreenInv` adds that the film is `FilmOf` the execution, at the segment of its next
step, and that no time is left over without a film (`FilmFacts`, `SegmentFacts`).

`OverlaysStaySound` rests on `KeysAssumption` and `FaultsAssumption`. `OverlayInv` lists
the four stacks of screens there can be (`ScreensStand`), says of a pending transition
that the loop is at the point that applies it and that it fits the stack
(`TransitionFits`: a screen hears one event and one update between two applications),
and that the session of a battle is there exactly under its screen (`BattleHasScreen`:
closing the screen cancels it, whatever phase the session has reached).

`ScreensStayLoaded` and `ImagesStayReclaimed` are about the images of the same program,
for any sets of keys, any faulty files and any order of decodings and uploads. Neither
property is inductive, and neither is without the other. `ProgramInv` is what both need:

- `ImagesOK`: what is said of a key is said of an image of that key; a texture comes of a
  good file; an image is decoded or failed as its file is;
- `HandlesOK`: whoever keeps handles (`pending_`, the preloads, the masks, the cancelled
  preloads, the waiting thread) keeps those of keys it asks for, and a preload that has
  not failed has for each key of its plan a texture or a handle (`PreloadOK`);
- `BatchesOK`: a batch that is not active has exactly one owner, which has it open as long
  as it waits for something; a sealed one without an owner is armed;
- `PhasesOK`: which preloads there are in which phase, where the thread may wait, and that
  until the program runs there is one screen and no battle;
- `LoadedOK`, `ShownOK`, `BattleOK`: which images have a texture by then, also in the
  middle of a wait;
- `KeepOK`: every handle is settled (its image is gone, failed, or one that stays) or
  somebody's; and what is still to be uploaded is the image its key has *now*, so nobody
  gives back the image of somebody else.

A preload is complete with all of its textures only because its handles stay the images of
their keys; they do because a battle's keys are its own and the phases of loading follow
each other; and that a battle that was closed leaves nothing behind needs the owner of
each batch. `KeysAssumption` says which keys are shared: those of a battle with nobody,
because its requests set a `postprocess` that is a part of the key
(`battle_startup_texture_warmup.cpp:25`, `image_asset_key.hpp:36`). The passes over
keys and handles are folds, written as functions on `0 .. Len(s)` (`Through`); what one
round keeps is a lemma for each of them, carried to the end by an induction over the rounds.

### Only model-checked

Liveness (`PreloadEnds`, `SweepEnds`, `DrainReturns`,
`RequestsAreAnswered`, `MovementEnds`, `FilmEnds`, `LoadingEnds`) is beyond the
prover. Of the invariants these stay with TLC, but for the parts proved above:

- `FilmIsInOrder` (`BattlePlayer`) and `WhatIsWrittenIsRead` with the rest of
  `ReportsAreRight` (`ScenarioReader`, `GlobalIdResolver`, `ScenarioInspection`): they say
  what a pass over a sequence *computes*, which takes an induction over data;
- `PackagesAreRight`: that each asset is what the game has under its name is about
  the contents of files, which are folds over the game, for the same reason;
- `MapIsDrawnAsWalked`: its parts about the click, the anchor, the order of painting, the
  positions and what is walked on are theorems; the start-up's account, what is pointed at and
  the window of a stack are not.

## 7. What is not modelled

**Within the modelled components.** Texts, logs, diagnostics and statistics;
bytes beside the item counts they go with (reclaimer); animations (store, preloader); what images look like and
how they are decoded (a decoding succeeds or fails); facings of stacks; cameras,
panels, the minimap and drawing around the adventure screen; commands that change
nothing; strict mode, unplanned sprites and their lazy reading, and the debug
window (render assets, program); drawing, tuning, layouts, the position rule of
`setup_units`, the keys that only choose among units, and the parser of scenarios
(battle film); the pointer position sent to a revealed screen; pixels, the choice
among several images of one thing, where a banner is docked, the names and
goods of objects, prices of units and upgrades, and numbers that the window of a stack
only copies (map); letters and offsets, the names of numbered variables and the
wording of reports (scenarios); pixels, packing, the formats of files, sound and
frame times, and files of an extractor that cannot even be opened, which it passes over with
a warning (packages); the removal of a work or staging directory is taken to succeed; two builds at a
time, whose staging directories have the same name (`runtime_package.cpp:55`); `EmptyNavigationMap` and a terrain whose size is not that
of the map but for a missing one, which the builder does not produce. The leader,
the whereabouts and the existence of a stack are constants of `GameSession`,
because no command changes them. An exception that nobody catches ends the program
and is a `fault` in `AdventureScreen`. HP, damage and movement points are small numbers; the code's
`int` arithmetic does not come near its limits with the values of the game's
data, so width is not modelled.

**Whole components.** `components` in `PROJECT.json` lists every part with the
reason: the back
ends that draw map and battle, audio, input and platform adapters, command-line front ends,
logging. Nothing in the program calls `preload_complete` at this commit; its tests do.

## 8. Plan

The order is that of importance: first the components with threads and the rules
with long histories, then what composes them.

1. Done: `Battle` with its properties, contract, simulator, sweep and proofs;
   `WorkerPool` with proofs; `Reclaimer`; `AssetRuntime`; `AdventureRules`,
   `Pathfinder`, `GameSession`, `AdventureScreen`; `BattleFilm`, `BattlePlayer`;
   `RenderAssets`, `GameProgram`; `TerrainSurface`, `AdventureWorld`,
   `MapGraph`, `AdventureMap`; `FfAssetStore`, `AnimationPreloader`; `ScenarioReader`,
   `GlobalIdResolver`, `ScenarioInspection`; `GameFiles` to `PackageBuilder`, `ExtractionTool`.
2. Done: proofs of the invariants and action properties of `WorkerPool`, `FfAssetStore`,
   `AnimationPreloader`, `Battle`,
   `BattleSweep`, `AssetRuntime`, `Reclaimer`, the search, `GameSession` and
   `AdventureScreen`, of the screens and the images of `GameProgram`, of the ground and the
   order of painting of `AdventureMap`, of the builds of `ExtractionTool`, and of the two refinements,
   `ImplementsDuel` and `ImplementsJourney`.
3. Next proof: of `DrawnWhereItStands`, the start-up's account of the map and what is
   pointed at, from `SortedIsOrder` and `PicturesDiffer`.

## 9. Running it

```
tlc -workers 2 -config MCBattle.cfg MCBattle
tlapm PreloadProofs.tla
tlapm BattleProofs.tla
tlapm AssetProofs.tla
tlapm ReclaimerProofs.tla
tlapm RouteProofs.tla
tlapm MapProofs.tla
tlapm SessionProofs.tla
```

`SessionProofs` takes a quarter of an hour from nothing, the other modules of proofs a few
minutes each.

`runs` in `PROJECT.json` gives the module and configuration of every run, `map`
the source lines of every definition. TLC needs the community modules
(`FiniteSetsExt` and what it extends) on its path.
