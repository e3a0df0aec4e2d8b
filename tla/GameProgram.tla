----------------------------- MODULE GameProgram ------------------------------
(***************************************************************************)
(* The graphical adventure program from its first frame on: the main loop  *)
(* (Application::run), the stack of screens with its queued transitions    *)
(* (ScreenManager), the loading screen that prepares everything the        *)
(* adventure screen needs (AdventureStartupScreen), and the three screens  *)
(* the player can reach: the adventure screen, the stack information over  *)
(* it, and a battle, which loads its own images (BattleStartupSession).    *)
(*                                                                         *)
(* at says where in a frame the main thread is:                            *)
(*   "events"       process_events, between two events,                    *)
(*   "applyInput"   apply_pending_transition after an event,               *)
(*   "pump"         update, before the uploads of images asked for,        *)
(*   "update"       before the screens' update,                            *)
(*   "applyUpdate"  apply_pending_transition after it,                     *)
(*   "render"       before drawing and presenting,                         *)
(*   a wait for a batch of images (Waits), "over", or "crashed" when an    *)
(*   exception has reached the launcher.                                   *)
(* Every screen but the loading screen is modal, and no policy lets input  *)
(* or updates through, so both go to the top screen.  What happens on the  *)
(* map and in a battle is in modules AdventureScreen and BattlePlayer;     *)
(* here a movement begins and ends, and a battle loads, is ready, restarts *)
(* and closes.  The debug window and the command line are left out.        *)
(***************************************************************************)
EXTENDS RenderAssets

CONSTANTS
  (* sequences of keys: *)
  TerrainKeys,   (* the ground tiles, asked for and never collected          *)
  SelectKeys, RouteKeys,          (* the marks of AdventureVisualResources   *)
  InitialKeys, AnimationKeys,     (* what the map shows first and later      *)
  MaskKeys,                       (* the stacks one can point at             *)
  InfoKeys,                       (* the stack information                   *)
  IdleKeys, WalkKeys,             (* a stack standing and walking            *)
  BattleKeys,                     (* the plan of a battle, which may repeat  *)
  FaceKeys,                       (* the portraits a battle draws            *)
  MaxBegun       (* bound: how many movements, infos and battles       *)

(* A battle asks for images with a postprocessing of their own, which is a *)
(* part of the key (battle_startup_texture_warmup.cpp:25), and the marks   *)
(* are of another container than the stacks.                               *)
ASSUME KeysAssumption ==
  /\ \A s \in {TerrainKeys, SelectKeys, RouteKeys, InitialKeys, AnimationKeys, MaskKeys, InfoKeys,
               IdleKeys, WalkKeys, BattleKeys, FaceKeys} : s \in Seq(Keys)
  /\ ToSet(MaskKeys) \subseteq ToSet(InitialKeys) \cup ToSet(AnimationKeys)
  /\ ToSet(MaskKeys) \cap (ToSet(SelectKeys) \cup ToSet(RouteKeys)) = {}
  /\ ToSet(InitialKeys) \cap ToSet(AnimationKeys) = {}
  /\ \A s \in {TerrainKeys, SelectKeys, RouteKeys, InitialKeys, AnimationKeys, InfoKeys, IdleKeys,
               WalkKeys, FaceKeys} : ToSet(BattleKeys) \cap ToSet(s) = {}

VARIABLES
  at,
  screens,      (* the active screen, then the overlays                      *)
  transitions,  (* pending_transitions_                                      *)
  quit,         (* quit_requested_ or should_exit_                           *)
  phase,        (* of the loading screen                                     *)
  drawn,        (* rendered_once_                                            *)
  split,        (* asset_split_data_: its two preloads and the mask handles  *)
  waiting,      (* the handles the main thread waits for                     *)
  moving,       (* a movement is shown                                       *)
  battle,       (* [phase, stage, played, preload] of the battle screen      *)
  begun         (* how many movements, infos and battles so far              *)

programVars ==
  <<at, screens, transitions, quit, phase, drawn, split, waiting, moving, battle, begun>>
vars == <<assets, faults, programVars>>

Waits == {"selection", "route", "idle", "walk"}
Stopped == at \in {"over", "crashed"}
TopScreen == screens[Len(screens)]
NoSplit == [initial |-> NoPreload, animation |-> NoPreload, masks |-> << >>]
NoBattle == [phase |-> "None", stage |-> "None", played |-> FALSE, preload |-> NoPreload]
SetAssets(a) == assets' = a
Crash == at' = "crashed"
-----------------------------------------------------------------------------
(* ScreenManager.  A transition is applied when the handler that asked for *)
(* it is over.                                                             *)
(* Mutant: the transitions of an event wait for the end of the update.     *)
StayWithEvents == "events"
AfterEvent == "applyInput"

Ask(t) == transitions' = Append(transitions, t)

SwitchToAdventure ==
  /\ screens' = <<"Adventure">>
  /\ UNCHANGED <<assets, battle>>

(* on_enter of the two overlays.                                           *)
PushInfo ==
  /\ screens' = Append(screens, "StackInfo")
  /\ SetAssets(RequestTextures(assets, InfoKeys))
  /\ UNCHANGED battle

NewSession(b) == [b EXCEPT !.phase = "Loading", !.stage = "Bootstrap", !.preload = NoPreload]
PushBattle ==
  /\ screens' = Append(screens, "Battle")
  /\ battle' = NewSession(NoBattle)
  /\ UNCHANGED assets

(* pop_overlay: does nothing without an overlay.  A battle that still      *)
(* loads takes its preload along.                                          *)
Pop ==
  IF Len(screens) = 1 THEN UNCHANGED <<screens, assets, battle>>
  ELSE /\ screens' = Front(screens)
       /\ SetAssets(IF TopScreen = "Battle" THEN Cancel(assets, battle.preload) ELSE assets)
       /\ battle' = IF TopScreen = "Battle" THEN NoBattle ELSE battle

Apply(t) ==
  CASE t = "Adventure" -> SwitchToAdventure
    [] t = "StackInfo" -> PushInfo
    [] t = "Battle" -> PushBattle
    [] t = "Pop" -> Pop

ApplyTransition ==
  /\ at \in {"applyInput", "applyUpdate"} /\ transitions # << >>
  /\ Apply(Head(transitions))
  /\ transitions' = Tail(transitions)
  /\ UNCHANGED <<faults, at, quit, phase, drawn, split, waiting, moving, begun>>

NothingToApply ==
  /\ at \in {"applyInput", "applyUpdate"} /\ transitions = << >>
  /\ at' = IF at = "applyInput" THEN "events" ELSE "render"
  /\ UNCHANGED <<assets, faults, screens, transitions, quit, phase, drawn, split, waiting, moving,
                 battle, begun>>
-----------------------------------------------------------------------------
(* Events.  Those that change nothing are left out.                        *)
CloseWindow ==
  /\ at = "events" /\ ~quit
  /\ quit' = TRUE
  /\ UNCHANGED <<assets, faults, at, screens, transitions, phase, drawn, split, waiting, moving,
                 battle, begun>>

(* Escape: the adventure screen quits, also during a movement; an overlay  *)
(* asks to be closed.                                                      *)
Cancelled ==
  /\ at = "events" /\ TopScreen # "Startup"
  /\ IF TopScreen = "Adventure"
     THEN quit' = TRUE /\ UNCHANGED <<transitions, at>>
     ELSE Ask("Pop") /\ at' = AfterEvent /\ UNCHANGED quit
  /\ UNCHANGED <<assets, faults, screens, phase, drawn, split, waiting, moving, battle, begun>>

MapIsOnTop == at = "events" /\ TopScreen = "Adventure" /\ ~moving

Inspect ==
  /\ MapIsOnTop /\ begun < MaxBegun
  /\ Ask("StackInfo") /\ at' = AfterEvent
  /\ begun' = begun + 1
  /\ UNCHANGED <<assets, faults, screens, quit, phase, drawn, split, waiting, moving, battle>>

OpenDebugBattle ==
  /\ MapIsOnTop /\ begun < MaxBegun
  /\ Ask("Battle") /\ at' = AfterEvent
  /\ begun' = begun + 1
  /\ UNCHANGED <<assets, faults, screens, quit, phase, drawn, split, waiting, moving, battle>>

(* A click that confirms a movement asks for the images of the standing    *)
(* stack, and the thread waits (preload_adventure_movement_visual_plan).   *)
StartMovement ==
  /\ MapIsOnTop /\ begun < MaxBegun
  /\ SetAssets(RequestBatch(assets, IdleKeys).a)
  /\ waiting' = RequestBatch(assets, IdleKeys).handles
  /\ at' = "idle"
  /\ begun' = begun + 1
  /\ UNCHANGED <<faults, screens, transitions, quit, phase, drawn, split, moving, battle>>

(* R, once a scenario has been played: a new session for the old one.      *)
RestartScenario ==
  /\ at = "events" /\ TopScreen = "Battle" /\ battle.played /\ begun < MaxBegun
  /\ SetAssets(Cancel(assets, battle.preload))
  /\ battle' = NewSession(battle)
  /\ begun' = begun + 1
  /\ UNCHANGED <<faults, at, screens, transitions, quit, phase, drawn, split, waiting, moving>>
-----------------------------------------------------------------------------
(* What the main thread does when the images it waits for are there.       *)
(* upload_ready counts as failed what has no texture afterwards.           *)
(* Mutant: only an image that was not decoded counts.                      *)
AllDecoded(a, handles) == \A i \in DOMAIN handles : HasImage(a, handles[i])
AllUploaded(a, handles) == \A i \in DOMAIN handles : Cached(a, KeyOf(a, handles[i]))
WaitIsOver(wait) == at = wait /\ AllReady(assets, waiting)

RequestAndWait(a, keys, wait) ==
  /\ SetAssets(RequestTextures(a, keys))
  /\ waiting' = RequestUncached(a, keys).handles
  /\ at' = wait

SelectionIsThere ==
  /\ WaitIsOver("selection")
  /\ LET a == UploadReady(assets, waiting)
     IN  IF AllUploaded(a, waiting) THEN RequestAndWait(a, RouteKeys, "route")
         ELSE SetAssets(a) /\ Crash /\ UNCHANGED waiting
  /\ UNCHANGED <<faults, screens, transitions, quit, phase, drawn, split, moving, battle, begun>>

RouteIsThere ==
  /\ WaitIsOver("route")
  /\ LET a == UploadReady(assets, waiting)
     IN  /\ SetAssets(a)
         /\ IF AllUploaded(a, waiting) THEN phase' = "SplitAssets" /\ at' = "applyUpdate"
                                       ELSE Crash /\ UNCHANGED phase
  /\ waiting' = << >>
  /\ UNCHANGED <<faults, screens, transitions, quit, drawn, split, moving, battle, begun>>

(* The masks are built of the images of the standing stack, then these are *)
(* uploaded one by one.  After a failure the images collected so far that  *)
(* were not uploaded are given back.                                       *)
UploadIdle(a, handles) == UploadEach(a, handles, Automatic)

FirstOf(n, S) == n \in S /\ \A i \in S : n <= i
Undecoded == {i \in DOMAIN waiting : ~HasImage(assets, waiting[i])}
NoTextureFor ==
  {i \in DOMAIN waiting : ~Cached(UploadIdle(assets, waiting), KeyOf(assets, waiting[i]))}

DecodingFailed ==
  \E bad \in DOMAIN waiting :
    FirstOf(bad, Undecoded) /\ SetAssets(GiveBack(assets, {waiting[i] : i \in 1 .. bad - 1}))
UploadFailed ==
  \E bad \in DOMAIN waiting :
    /\ FirstOf(bad, NoTextureFor)
    /\ SetAssets(GiveBack(UploadIdle(assets, SubSeq(waiting, 1, bad)),
                          {waiting[i] : i \in bad + 1 .. Len(waiting)}))

IdleIsThere ==
  /\ WaitIsOver("idle")
  /\ IF Undecoded # {} THEN DecodingFailed /\ Crash /\ waiting' = << >>
     ELSE IF NoTextureFor # {} THEN UploadFailed /\ Crash /\ waiting' = << >>
     ELSE RequestAndWait(UploadIdle(assets, waiting), WalkKeys, "walk")
  /\ UNCHANGED <<faults, screens, transitions, quit, phase, drawn, split, moving, battle, begun>>

WalkIsThere ==
  /\ WaitIsOver("walk")
  /\ LET a == UploadReady(assets, waiting)
     IN  /\ SetAssets(a)
         /\ IF AllUploaded(a, waiting) THEN moving' = TRUE /\ at' = "applyInput"
                                       ELSE Crash /\ UNCHANGED moving
  /\ waiting' = << >>
  /\ UNCHANGED <<faults, screens, transitions, quit, phase, drawn, split, battle, begun>>
-----------------------------------------------------------------------------
(* The frame.                                                              *)
EndOfEvents ==
  /\ at = "events"
  /\ SetAssets(PumpCleanups(assets))
  /\ at' = "pump"
  /\ UNCHANGED <<faults, screens, transitions, quit, phase, drawn, split, waiting, moving, battle,
                 begun>>

Pump ==
  /\ at = "pump"
  /\ \E budget \in Budgets(assets.pending) : SetAssets(PumpUploads(assets, budget))
  /\ at' = "update"
  /\ UNCHANGED <<faults, screens, transitions, quit, phase, drawn, split, waiting, moving, battle,
                 begun>>

(* AdventureStartupScreen::advance_stage, one phase a frame.               *)
NextPhase ==
  [Bootstrap |-> "ParseScenario", ParseScenario |-> "LoadGameDataAndPortraits"]

JustAdvances ==
  /\ phase \in DOMAIN NextPhase
  /\ phase' = NextPhase[phase]
  /\ at' = "applyUpdate" /\ UNCHANGED <<assets, split, waiting, transitions>>

LoadGameDataAndPortraits ==
  /\ phase = "LoadGameDataAndPortraits"
  /\ phase' = IF faults.scenario THEN "Failed" ELSE "PrepareAdventureMap"
  /\ at' = "applyUpdate" /\ UNCHANGED <<assets, split, waiting, transitions>>

PrepareAdventureMap ==
  /\ phase = "PrepareAdventureMap"
  /\ SetAssets(RequestBatch(assets, TerrainKeys).a)
  /\ phase' = "BuildVisualResources"
  /\ at' = "applyUpdate" /\ UNCHANGED <<split, waiting, transitions>>

BuildVisualResources ==
  /\ phase = "BuildVisualResources"
  /\ RequestAndWait(assets, SelectKeys, "selection")
  /\ UNCHANGED <<phase, split, transitions>>

SplitAssets ==
  /\ phase = "SplitAssets"
  /\ LET initial == BeginPreload(assets, InitialKeys)
         animation == BeginPreload(initial, AnimationKeys)
         all == RequestBatch(animation, MaskKeys)
     IN  /\ SetAssets(all.a)
         /\ split' = [initial |-> BegunPreload(assets, InitialKeys),
                      animation |-> BegunPreload(initial, AnimationKeys),
                      masks |-> all.handles]
  /\ phase' = "UploadInitialAssets"
  /\ at' = "applyUpdate" /\ UNCHANGED <<waiting, transitions>>

(* One call of advance; a complete preload is finished, and its batch will *)
(* be activated after the frame is shown.  part is "initial" or            *)
(* "animation".                                                            *)
(* Mutant: the batch is forgotten.                                         *)
FinishUnarmed(a, p) == a
Finish(a, p) == Arm(a, p.batch)

UploadSplit(part, next) ==
  /\ \E budget \in Budgets(split[part].pending) :
       LET done == Advance(assets, split[part], budget)
       IN  IF ~Complete(done.p)
           THEN /\ SetAssets(done.a) /\ split' = [split EXCEPT ![part] = done.p]
                /\ at' = "applyUpdate" /\ UNCHANGED phase
           ELSE IF done.p.failed
           THEN /\ SetAssets(done.a) /\ split' = [split EXCEPT ![part] = done.p]
                /\ Crash /\ UNCHANGED phase
           ELSE /\ SetAssets(Finish(done.a, done.p)) /\ split' = [split EXCEPT ![part] = NoPreload]
                /\ phase' = next /\ at' = "applyUpdate"
  /\ UNCHANGED <<waiting, transitions>>

UploadInitialAssets ==
  phase = "UploadInitialAssets" /\ UploadSplit("initial", "UploadAnimationAssets")
UploadAnimationAssets ==
  phase = "UploadAnimationAssets" /\ UploadSplit("animation", "BuildInteractionMasks")

(* Polls; never waits.                                                     *)
BuildInteractionMasks ==
  /\ phase = "BuildInteractionMasks"
  /\ IF ~AllReady(assets, split.masks)
     THEN at' = "applyUpdate" /\ UNCHANGED <<phase, split>>
     ELSE IF \E i \in DOMAIN split.masks : ~HasImage(assets, split.masks[i])
     THEN Crash /\ UNCHANGED <<phase, split>>
     ELSE /\ phase' = "Finalize" /\ at' = "applyUpdate"
          /\ split' = [split EXCEPT !.masks = << >>]
  /\ UNCHANGED <<assets, waiting, transitions>>

Finalize ==
  /\ phase = "Finalize"
  /\ IF split # NoSplit THEN Crash /\ UNCHANGED <<phase, transitions>>
     ELSE phase' = "Running" /\ at' = "applyUpdate" /\ Ask("Adventure")
  /\ UNCHANGED <<assets, split, waiting>>

AdvanceStage ==
  \/ JustAdvances \/ LoadGameDataAndPortraits \/ PrepareAdventureMap \/ BuildVisualResources
  \/ SplitAssets \/ UploadInitialAssets \/ UploadAnimationAssets \/ BuildInteractionMasks
  \/ Finalize

UpdateStartup ==
  /\ at = "update" /\ TopScreen = "Startup"
  /\ IF drawn /\ phase \notin {"Running", "Failed"} THEN AdvanceStage
     ELSE at' = "applyUpdate" /\ UNCHANGED <<assets, phase, split, waiting, transitions>>
  /\ UNCHANGED <<faults, screens, quit, drawn, moving, battle, begun>>

(* The movement on the map ends in some frame.                             *)
UpdateMap ==
  /\ at = "update" /\ TopScreen \in {"Adventure", "StackInfo"}
  /\ moving' \in {moving} \cup (IF TopScreen = "Adventure" THEN {FALSE} ELSE {})
  /\ at' = "applyUpdate"
  /\ UNCHANGED <<assets, faults, screens, transitions, quit, phase, drawn, split, waiting, battle,
                 begun>>
-----------------------------------------------------------------------------
(* BattleStartupSession::advance, one stage a frame.                       *)
NextStage ==
  [Bootstrap |-> "DiscoverBackgrounds", DiscoverBackgrounds |-> "BuildWarmupPlan",
   BuildWarmupPlan |-> "SubmitAssetPreparation"]

PrepareBattle ==
  /\ battle.stage \in DOMAIN NextStage
  /\ battle' = IF battle.stage = "Bootstrap" /\ faults.battle
               THEN [battle EXCEPT !.phase = "Failed", !.stage = "Failed"]
               ELSE [battle EXCEPT !.stage = NextStage[@]]
  /\ UNCHANGED assets

SubmitAssetPreparation ==
  /\ battle.stage = "SubmitAssetPreparation"
  /\ SetAssets(BeginPreload(assets, BattleKeys))
  /\ battle' = [battle EXCEPT !.stage = "UploadAssets",
                              !.preload = BegunPreload(assets, BattleKeys)]

UploadBattleAssets ==
  /\ battle.stage = "UploadAssets"
  /\ \E budget \in Budgets(battle.preload.pending) :
       LET done == Advance(assets, battle.preload, budget)
       IN  IF ~Complete(done.p)
           THEN SetAssets(done.a) /\ battle' = [battle EXCEPT !.preload = done.p]
           ELSE IF done.p.failed
           THEN SetAssets(done.a)
                /\ battle' = [battle EXCEPT !.preload = done.p,
                                            !.phase = "Failed", !.stage = "Failed"]
           ELSE SetAssets(Finish(done.a, done.p))
                /\ battle' = [battle EXCEPT !.preload = NoPreload, !.stage = "FinalizeScenario"]

FinalizeScenario ==
  /\ battle.stage = "FinalizeScenario"
  /\ battle' = [NoBattle EXCEPT !.phase = "Ready", !.played = TRUE]
  /\ UNCHANGED assets

UpdateBattle ==
  /\ at = "update" /\ TopScreen = "Battle"
  /\ IF battle.phase = "Loading"
     THEN \/ PrepareBattle \/ SubmitAssetPreparation \/ UploadBattleAssets \/ FinalizeScenario
     ELSE UNCHANGED <<assets, battle>>
  /\ at' = "applyUpdate"
  /\ UNCHANGED <<faults, screens, transitions, quit, phase, drawn, split, waiting, moving, begun>>

(* Drawing, presenting, and the loop's look at quit.  A battle that is     *)
(* ready draws the portraits it reads itself.                              *)
DrawFaces(a) ==
  IF TopScreen = "Battle" /\ battle.phase = "Ready" THEN GetRaw(a, FaceKeys) ELSE a

Render ==
  /\ at = "render"
  /\ drawn' = (drawn \/ TopScreen = "Startup")
  /\ SetAssets(OnFramePresented(DrawFaces(assets)))
  /\ at' = IF quit THEN "over" ELSE "events"
  /\ UNCHANGED <<faults, screens, transitions, quit, phase, split, waiting, moving, battle, begun>>
-----------------------------------------------------------------------------
Init ==
  /\ assets = AssetsAtStart /\ faults \in Faults
  /\ at = "events" /\ screens = <<"Startup">> /\ transitions = << >> /\ quit = FALSE
  /\ phase = "Bootstrap" /\ drawn = FALSE /\ split = NoSplit /\ waiting = << >>
  /\ moving = FALSE /\ battle = NoBattle
  /\ begun = 0

Worker == \E n \in DOMAIN assets.images : Decode(n) /\ UNCHANGED <<faults, programVars>>

Player ==
  CloseWindow \/ Cancelled \/ Inspect \/ OpenDebugBattle \/ StartMovement \/ RestartScenario

MainThread ==
  \/ ApplyTransition \/ NothingToApply
  \/ SelectionIsThere \/ RouteIsThere \/ IdleIsThere \/ WalkIsThere
  \/ EndOfEvents \/ Pump \/ UpdateStartup \/ UpdateMap \/ UpdateBattle \/ Render

Next == Player \/ MainThread \/ Worker

Spec == Init /\ [][Next]_vars

(* The main thread goes on, whatever the player does between two frames:   *)
(* this is WF_vars(MainThread) with ENABLED written as MainMoves, which    *)
(* TLC evaluates much faster.  And every image asked for is decoded at     *)
(* some time (RequestsAreAnswered of module AssetRuntime).             *)
MainMoves == ~Stopped /\ (at \in Waits => AllReady(assets, waiting))
MainFairness == []<>~MainMoves \/ []<><<MainThread>>_vars

FairSpec == Spec /\ MainFairness /\ WF_vars(Worker)
-----------------------------------------------------------------------------
StartupKeys == SelectKeys \o RouteKeys \o InitialKeys \o AnimationKeys
MovementKeys == IdleKeys \o WalkKeys
AllCached(keys) == \A k \in ToSet(keys) : Cached(assets, k)
Faulty(keys) == ToSet(keys) \cap (faults.undecodable \cup faults.unusable) # {}

(* What is on the screen has its images: the adventure screen follows the  *)
(* loading screen only when every image it counts on has a texture and     *)
(* both preloads are finished, a movement is shown only with the images of *)
(* its stack, and a battle is ready only with all of its plan, although    *)
(* the images come in any order, are shared by several requests and a      *)
(* cancelled session may let them go first.  And the program fails only    *)
(* for a file that is needed.                                              *)
ScreensAreLoaded ==
  /\ Head(screens) = "Adventure" => AllCached(StartupKeys) /\ split = NoSplit
  /\ moving => AllCached(MovementKeys)
  /\ battle.phase = "Ready" => AllCached(BattleKeys)
  /\ battle.phase = "Failed" => faults.battle \/ Faulty(BattleKeys)
  /\ phase = "Failed" => faults.scenario
  /\ at = "crashed" => Faulty(StartupKeys \o MovementKeys)

PreloadsAlive == {p \in {split.initial, split.animation, battle.preload} : Exists(p)}
Owed ==
  ToSet(assets.pending) \cup ToSet(split.masks) \cup ToSet(waiting)
    \cup (UNION {c.pending : c \in assets.cleanups})
    \cup (UNION {ToSet(p.pending) : p \in PreloadsAlive})

Kept(k) ==
  \/ k \in ToSet(TerrainKeys) \/ assets.entry[k] \in assets.refused
  \/ assets.texture[k] = Raw

(* An image in memory is either owed to somebody who will still upload it  *)
(* or give it back, or it is one of the three that the program keeps: a    *)
(* ground tile, an image no texture could be made of, and a portrait that  *)
(* a battle has read itself while its handle was pending.  No sealed batch *)
(* turns an image away, and a batch that is not active yet has an owner    *)
(* that will seal and activate it.                                         *)
ImagesAreReclaimed ==
  /\ \A k \in Keys : assets.entry[k] # 0 => KeyOf(assets, assets.entry[k]) = k
  /\ \A k \in Keys : Resident(assets, k) /\ ~Stopped => assets.entry[k] \in Owed \/ Kept(k)
  /\ assets.dropped = {}
  /\ \A b \in DOMAIN assets.batches :
       /\ assets.batches[b] = "open" =>
            \E owner \in PreloadsAlive \cup assets.cleanups : owner.batch = b
       /\ assets.batches[b] = "sealed" =>
            b \in assets.armed \/ \E p \in PreloadsAlive : p.batch = b /\ Complete(p)

(* A transition is applied before the next event is given to a screen, so  *)
(* two are never queued: no screen is opened over an overlay, a pop closes *)
(* the screen that asked for it, and a battle's session lives exactly as   *)
(* long as its screen.                                                     *)
OverlaysAreSound ==
  /\ screens \in {<<"Startup">>, <<"Adventure">>}
                   \cup {<<"Adventure", overlay>> : overlay \in {"StackInfo", "Battle"}}
  /\ Len(transitions) <= 1
  /\ transitions = <<"Pop">> => Len(screens) = 2
  /\ battle # NoBattle <=> TopScreen = "Battle"

NothingLeft ==
  /\ assets.pending = << >> /\ assets.cleanups = {}
  /\ \A b \in DOMAIN assets.batches : assets.batches[b] = "active"

(* Loading comes to an end: the loading screen gives way or reports its    *)
(* failure, a battle is ready or has failed, and every image asked for and *)
(* every batch is dealt with in the end, also those of sessions that were  *)
(* closed or restarted while they loaded.                                  *)
LoadingEnds ==
  /\ <>(phase = "Failed" \/ Stopped \/ Head(screens) = "Adventure")
  /\ battle.phase = "Loading" ~> battle.phase # "Loading" \/ Stopped
  /\ <>[](Stopped \/ battle.phase = "Failed" \/ NothingLeft)
=============================================================================
