---------------------------- MODULE BattlePlayer ----------------------------
(***************************************************************************)
(* The battle screen playing a scenario: the presenter, which turns steps  *)
(* of visual events into animations (battle_presenter.cpp), the scenario   *)
(* player that submits one step after the other                            *)
(* (battle_scenario_executor.cpp), the runtime that creates and retires    *)
(* units (battle_scenario_runtime.cpp), and the screen with its keys,      *)
(* pause and restart (battle_screen.cpp).                                  *)
(*                                                                         *)
(* Everything happens inside Frame, one update of the screen, or Press,    *)
(* one key between two frames; the calls nest, so a frame is computed on   *)
(* the record w of all that the calls change:                              *)
(*   w.f   the film (module BattleFilm),                                   *)
(*   w.p   the presenter: selected actor and target, the units it knows,   *)
(*         the active step with the state of each of its envelopes,        *)
(*   w.pl  the player: status, number of the step, whether it is submitted *)
(*   w.rt  the runtime: alias -> unit, retired aliases, slot -> unit.      *)
(*                                                                         *)
(* A scenario has setup, a sequence of units to create, and steps.  A step *)
(* has envelopes: an event, whether it is optional, and the number of the  *)
(* envelope (0: none) and the cue it waits for.                            *)
(***************************************************************************)
EXTENDS BattleFilm

CONSTANTS Scenarios,  \* the scenarios a battle screen may be given
          Deltas,     \* how many ticks a frame may last
          MaxKeys,    \* bound: keys pressed
          MaxRestarts \* bound: restarts

VARIABLES scenario, film, presenter, player, runtime,
          phase,      \* of the screen: "Loading", "Ready", "Failed", "Closed"
          paused,     \* visual_paused_
          keys,       \* history: keys pressed that reached the presenter
          restarts    \* bound counter

vars == <<scenario, film, presenter, player, runtime, phase, paused, keys, restarts>>
world == [f |-> film, p |-> presenter, pl |-> player, rt |-> runtime]

-----------------------------------------------------------------------------
(* The presenter.                                                          *)

NoStep == [complete |-> "All", envs |-> <<>>]

NewPresenter == [actor |-> NoUnit, target |-> NoUnit, units |-> {}, active |-> FALSE,
                 step |-> NoStep, states |-> <<>>, failed |-> FALSE, complete |-> FALSE,
                 nextAttack |-> 1]

\* Events that count as shown even when there is no animation for them.
Commandless(ev) ==
    ev.e \in {"ActorSelected", "TargetSelected", "TargetDamaged", "AttackImpactCue"}

SetGivenHp(f, u, hp) == IF hp = NoHp THEN f ELSE SetHp(f, u, hp)

ApplyEventState(w, ev) ==
    CASE ev.e = "ActorSelected"  -> [w EXCEPT !.p.actor = ev.unit]
      [] ev.e = "TargetSelected" -> [w EXCEPT !.p.target = ev.unit]
      [] ev.e \in {"TargetDamaged", "SourceHealed", "UnitRevived"} ->
           [w EXCEPT !.f = SetGivenHp(@, ev.unit, ev.hp)]
      [] ev.e = "LifeDrained" ->
           [w EXCEPT !.f = SetGivenHp(SetGivenHp(@, ev.unit, ev.hp), ev.source, ev.sourceHp)]
      [] ev.e \in {"TargetKilled", "UnitKilled"} -> [w EXCEPT !.f = SetHp(@, ev.unit, 0)]
      [] OTHER -> w

\* With no step active, the impact of an attack damages its one target, or the selected one.
ImpactOutcome(w, cue) ==
    LET unit == IF Len(cue.targets) = 1 THEN cue.targets[1] ELSE w.p.target
    IN  IF unit = NoUnit THEN <<>>
        ELSE <<[e |-> "TargetDamaged", source |-> cue.source, unit |-> unit, hp |-> NoHp]>>

\* Mutant: only an envelope right behind the attack it waits for is started.
ReadyAtNext(p, cue) ==
    SelectSeq([i \in DOMAIN p.step.envs |-> i], LAMBDA i :
        /\ p.states[i] = "Waiting"
        /\ p.step.envs[i].after = i - 1
        /\ p.step.envs[i - 1].event.e = "AttackStarted"
        /\ p.step.envs[i - 1].event.attack = cue.attack)

\* The envelopes waiting for the impact of the attack the cue is of.
ReadyAt(p, cue) ==
    SelectSeq([i \in DOMAIN p.step.envs |-> i], LAMBDA i :
        LET env == p.step.envs[i]
            at  == p.step.envs[env.after].event
        IN  /\ p.states[i] = "Waiting"
            /\ env.after # 0
            /\ env.cue = "impact"
            /\ at.e = "AttackStarted"
            /\ at.attack = cue.attack)

EngineStep(w, delta) == [w EXCEPT !.f = EngineUpdate(@, delta)]

RECURSIVE StartEnvelopes(_, _), ProcessEmitted(_)

FireStepCue(w, ev) ==
    IF ~ w.p.active \/ ev.e # "AttackImpactCue" THEN w ELSE StartEnvelopes(w, ReadyAt(w.p, ev))

\* The state of an envelope whose event is submitted.
StateOf(env, started) ==
    IF started \/ Commandless(env.event) THEN "Started"
    ELSE IF env.optional THEN "Skipped" ELSE "Failed"

Submit(w, ready, events) ==
    LET started == StartedOf(w.f, events)
        states  == [k \in DOMAIN ready |-> StateOf(w.p.step.envs[ready[k]], started[k])]
    IN  [w EXCEPT
           !.f = SubmitBatch(@, events),
           !.p.states = [i \in DOMAIN @ |-> IF i \in ToSet(ready)
                                            THEN states[CHOOSE k \in DOMAIN ready : ready[k] = i]
                                            ELSE @[i]],
           !.p.failed = @ \/ "Failed" \in ToSet(states)]

StartEnvelopes(w, indexes) ==
    LET ready  == SelectSeq(indexes, LAMBDA i : w.p.states[i] = "Waiting")
        events == [k \in DOMAIN ready |-> w.p.step.envs[ready[k]].event]
    IN  IF ready = <<>> THEN w
        ELSE ProcessEmitted(Submit(FoldLeft(ApplyEventState, w, events), ready, events))

\* Emitted cues start waiting envelopes, which may emit in turn.
Answer(w, cue) ==
    IF w.p.active THEN w ELSE [w EXCEPT !.f.queue = @ \o ImpactOutcome(w, cue)]

ProcessEmitted(w) ==
    IF w.f.said = <<>> THEN w
    ELSE ProcessEmitted(EngineStep(
            FoldLeft(LAMBDA v, cue : Answer(FireStepCue(v, cue), cue),
                     [w EXCEPT !.f.said = <<>>], w.f.said), 0))

CompleteAtOnce(w) == [w EXCEPT !.p.complete = ~ w.p.failed /\ w.p.step.complete = "Immediate"]

SubmitVisualStep(w, step) ==
    LET numbers == [i \in DOMAIN step.envs |-> i]
        fresh   == [w EXCEPT !.p.active = TRUE, !.p.step = step, !.p.failed = FALSE,
                             !.p.complete = FALSE, !.p.states = [i \in DOMAIN numbers |-> "Waiting"]]
    IN  CompleteAtOnce(StartEnvelopes(fresh, SelectSeq(numbers, LAMBDA i : step.envs[i].after = 0)))

FinishVisualStep(w) ==
    [w EXCEPT !.p.active = FALSE, !.p.step = NoStep, !.p.complete = TRUE,
              !.p.states = [i \in DOMAIN @ |-> IF @[i] = "Started" THEN "Completed" ELSE @[i]]]

\* Envelopes that still wait do not keep a step from being complete.
VisualStepComplete(w) ==
    /\ ~ w.p.failed
    /\ \/ w.p.complete
       \/ w.p.active /\ w.p.step.complete = "All" /\ ~ Busy(w.f)

Queued(w, ev) == [w EXCEPT !.f.queue = Append(@, ev)]

SubmitVisualEvent(w, ev) ==
    ProcessEmitted(EngineStep(Queued(FireStepCue(ApplyEventState(w, ev), ev), ev), 0))

PresenterUpdate(w, delta) == ProcessEmitted(EngineStep(w, delta))

OnUnitCreated(p, u) ==
    [p EXCEPT !.units = @ \cup {u},
              !.actor = IF p.units = {} \/ @ = NoUnit THEN u ELSE @,
              !.target = IF p.units = {} THEN u ELSE @]

\* Mutant: the presenter forgets the unit, but not that it is selected.
OnUnitRetreatedStillChosen(p, u) == [p EXCEPT !.units = @ \ {u}]

OnUnitRetreated(p, u) ==
    LET rest  == p.units \ {u}
        front == IF rest = {} THEN NoUnit ELSE Least(rest)
    IN  [p EXCEPT !.units = rest,
                  !.actor = IF @ = u THEN front ELSE @, !.target = IF @ = u THEN front ELSE @]

-----------------------------------------------------------------------------
(* The runtime.  A slot is <<side, lane, depth>>; a large unit stands in   *)
(* the centre of a lane and takes its front and back too.                  *)

NewRuntime == [alias |-> <<>>, gone |-> {}, at |-> <<>>]

Footprint(coord) ==
    IF coord[3] = "Center" THEN {<<coord[1], coord[2], d>> : d \in {"Front", "Center", "Back"}}
    ELSE {coord}

CanCreate(w, ev) ==
    /\ ev.alias \notin DOMAIN w.rt.alias
    /\ ev.hp \in 0 .. MaxHp
    /\ Look[ev.kind].large <=> ev.coord[3] = "Center"
    /\ Footprint(ev.coord) \cap DOMAIN w.rt.at = {}

ApplyUnitCreated(w, ev) ==
    LET u  == w.f.nextUnit
        at == Footprint(ev.coord)
    IN  [w EXCEPT
          !.f = AddUnit(@, ev.kind, ev.coord, ev.hp),
          !.p = OnUnitCreated(@, u),
          !.rt = [alias |-> [a \in DOMAIN @.alias \cup {ev.alias} |->
                                IF a = ev.alias THEN u ELSE @.alias[a]],
                  gone  |-> @.gone \ {ev.alias},
                  at    |-> [c \in DOMAIN @.at \cup at |-> IF c \in at THEN u ELSE @.at[c]]]]

ApplyUnitRetreated(w, ev) ==
    LET u  == w.rt.alias[ev.alias]
        at == Footprint(w.f.units[u].coord)
    IN  [w EXCEPT
          !.f = RemoveUnit(@, u),
          !.p = OnUnitRetreated(@, u),
          !.rt = [alias |-> [a \in DOMAIN @.alias \ {ev.alias} |-> @.alias[a]],
                  gone  |-> @.gone \cup {ev.alias},
                  at    |-> [c \in DOMAIN @.at \ at |-> @.at[c]]]]

-----------------------------------------------------------------------------
(* The player.                                                             *)

Lifecycle(env) == env.event.e \in {"UnitCreated", "UnitRetreated"}

NoAlias == ""

Named(ev) == {ev[k] : k \in DOMAIN ev \cap {"unit", "prev", "source"}}
                \cup (IF "targets" \in DOMAIN ev THEN ToSet(ev.targets) ELSE {})

\* An event resolves if its names are those of present units and its HP are possible.
Resolves(w, ev) ==
    /\ Named(ev) \ (IF ev.e = "BattleEffectStarted" THEN {NoAlias} ELSE {})
          \subseteq DOMAIN w.rt.alias
    /\ \A k \in DOMAIN ev \cap {"hp", "sourceHp"} :
          ev[k] \in {NoHp} \cup (IF ev.e = "UnitRevived" THEN 1 ELSE 0) .. MaxHp

UnitOf(w, name) == IF name = NoAlias THEN NoUnit ELSE w.rt.alias[name]

Resolve(w, ev) ==
    [k \in DOMAIN ev |->
        IF k \in {"unit", "prev", "source"} THEN UnitOf(w, ev[k])
        ELSE IF k = "targets" THEN [i \in DOMAIN ev.targets |-> UnitOf(w, ev.targets[i])]
        ELSE ev[k]]

Throw(w)   == [w EXCEPT !.pl.status = "Threw"]
Advance(w) == [w EXCEPT !.pl.step = @ + 1, !.pl.submitted = FALSE]

\* Creates and retires units, one after the other; retiring asks for an idle presenter.
ExecuteLifecycle(v, env) ==
    IF v.pl.status = "Threw" THEN v
    ELSE IF env.event.e = "UnitCreated"
    THEN IF env.after = 0 /\ CanCreate(v, env.event) THEN ApplyUnitCreated(v, env.event)
         ELSE Throw(v)
    ELSE IF /\ env.after = 0
            /\ ~ v.p.active /\ ~ Busy(v.f)
            /\ env.event.alias \in DOMAIN v.rt.alias
         THEN ApplyUnitRetreated(v, env.event)
         ELSE Throw(v)

AdvanceUnlessThrown(w) == IF w.pl.status = "Threw" THEN w ELSE Advance(w)

\* What the player makes of a step it has submitted.
Submitted(w) ==
    IF w.p.failed THEN Throw(w)
    ELSE IF w.p.complete THEN Advance(FinishVisualStep(w))
    ELSE [w EXCEPT !.pl.submitted = TRUE]

StartStep(w, step) ==
    LET kinds    == {Lifecycle(step.envs[i]) : i \in DOMAIN step.envs}
        resolved == [step EXCEPT !.envs = [i \in DOMAIN @ |->
                        [@[i] EXCEPT !.event = Resolve(w, @)]]]
    IN  IF kinds = {TRUE, FALSE} THEN Throw(w)
        ELSE IF kinds = {TRUE} THEN AdvanceUnlessThrown(FoldLeft(ExecuteLifecycle, w, step.envs))
        ELSE IF \E i \in DOMAIN step.envs : ~ Resolves(w, step.envs[i].event) THEN Throw(w)
        ELSE Submitted(SubmitVisualStep(w, resolved))

PlayerUpdate(w) ==
    IF w.pl.status # "Playing" THEN w
    ELSE IF w.pl.step > Len(scenario.steps) THEN [w EXCEPT !.pl.status = "Completed"]
    ELSE IF ~ w.pl.submitted THEN StartStep(w, scenario.steps[w.pl.step])
    ELSE IF w.p.failed THEN Throw(w)
    ELSE IF VisualStepComplete(w) THEN Advance(FinishVisualStep(w))
    ELSE w

-----------------------------------------------------------------------------
(* The screen.                                                             *)

\* A scenario is loaded into an empty scene; a unit that cannot be created fails the start.
Setup(scn) ==
    LET w0 == [f |-> EmptyFilm, p |-> NewPresenter, rt |-> NewRuntime,
               pl |-> [status |-> "Playing", step |-> 1, submitted |-> FALSE]]
    IN  FoldLeft(LAMBDA w, ev : IF w.pl.status # "Threw" /\ CanCreate(w, ev)
                                THEN ApplyUnitCreated(w, ev) ELSE Throw(w), w0, scn.setup)

SetWorld(w) == film' = w.f /\ presenter' = w.p /\ player' = w.pl /\ runtime' = w.rt

Init ==
    /\ scenario \in Scenarios
    /\ film = EmptyFilm /\ presenter = NewPresenter /\ runtime = NewRuntime
    /\ player = [status |-> "None", step |-> 1, submitted |-> FALSE]
    /\ phase = "Loading"
    /\ paused = FALSE /\ keys = {} /\ restarts = 0

\* The start-up stages end: the film is replaced as a whole, or the screen shows the failure.
Start ==
    /\ phase = "Loading"
    /\ IF Setup(scenario).pl.status = "Threw"
       THEN phase' = "Failed" /\ UNCHANGED <<film, presenter, player, runtime>>
       ELSE phase' = "Ready" /\ SetWorld(Setup(scenario))
    /\ UNCHANGED <<scenario, paused, keys, restarts>>

\* An upload of the start-up fails.
StartFails ==
    /\ phase = "Loading"
    /\ phase' = "Failed"
    /\ UNCHANGED <<scenario, film, presenter, player, runtime, paused, keys, restarts>>

\* A player that throws ends the program before the scene is updated.
UpdateScene(w, delta) ==
    IF w.pl.status = "Threw" THEN w ELSE [w EXCEPT !.f = SceneUpdate(@, delta)]

\* Presenter, player and scene; the player is not asked in a frame that lasts no time.
NextFrame(w, delta) ==
    UpdateScene(IF delta > 0 THEN PlayerUpdate(PresenterUpdate(w, delta))
                             ELSE PresenterUpdate(w, delta), delta)

\* One update of a ready screen; a frame of a paused one lasts no time.
Frame(ticks) ==
    /\ phase = "Ready"
    /\ player.status # "Threw"
    /\ \E w \in {NextFrame(world, IF paused THEN 0 ELSE ticks)} : SetWorld(w)
    /\ UNCHANGED <<scenario, phase, paused, keys, restarts>>

Running == phase \notin {"Closed"} /\ player.status # "Threw"

Alive(w, u) == InScene(w.f, u) /\ w.f.units[u].life = "Alive"

\* Space: the selected actor attacks the selected target, if nothing is going on.
TriggerAttack(w) ==
    IF ~ Alive(w, w.p.actor) \/ ~ Alive(w, w.p.target) \/ Busy(w.f) THEN w
    ELSE SubmitVisualEvent([w EXCEPT !.p.nextAttack = @ + 1],
            [e |-> "AttackStarted", attack |-> w.p.nextAttack, source |-> w.p.actor,
             targets |-> <<w.p.target>>])

\* 1 to 4: a clip of the selected actor's profile is put on its base track.
PreviewRole(w, clip) ==
    IF ~ Alive(w, w.p.actor) \/ clip \notin {"idle"} \cup Look[w.f.units[w.p.actor].kind].clips
    THEN w
    ELSE [w EXCEPT !.f = [ReplaceClip(@, w.p.actor, clip, clip = "idle") EXCEPT
            !.clash = @ \/ \E i \in DOMAIN w.f.line : w.p.actor \in BaseOf(w.f.line[i])]]

\* 5 and 6: an effect of the selected actor.
TriggerCast(w, heff) ==
    IF ~ Alive(w, w.p.actor) THEN w
    ELSE SubmitVisualEvent(w, [e |-> "CastEffectStarted", unit |-> w.p.actor, heff |-> heff])

Key(w, key) ==
    CASE key = "Space" -> TriggerAttack(w)
      [] key \in {"idle", "hit", "death", "attack"} -> PreviewRole(w, key)
      [] key = "Heff" -> TriggerCast(w, TRUE)
      [] key = "Tuch" -> TriggerCast(w, FALSE)

Press(key) ==
    /\ Running
    /\ Cardinality(keys) < MaxKeys /\ key \notin keys
    /\ keys' = keys \cup {key}
    /\ SetWorld(Key(world, key))
    /\ UNCHANGED <<scenario, phase, paused, restarts>>

TogglePause ==
    /\ Running
    /\ paused' = ~ paused
    /\ UNCHANGED <<scenario, film, presenter, player, runtime, phase, keys, restarts>>

\* The old film stays, without frames, until the new one is loaded.
Restart ==
    /\ Running
    /\ player.status # "None"
    /\ restarts < MaxRestarts
    /\ restarts' = restarts + 1
    /\ phase' = "Loading"
    /\ UNCHANGED <<scenario, film, presenter, player, runtime, paused, keys>>

Quit ==
    /\ Running
    /\ phase' = "Closed"
    /\ UNCHANGED <<scenario, film, presenter, player, runtime, paused, keys, restarts>>

Next ==
    \/ Start
    \/ StartFails
    \/ \E ticks \in Deltas : Frame(ticks)
    \/ \E key \in {"Space", "idle", "hit", "death", "attack", "Heff", "Tuch"} : Press(key)
    \/ TogglePause
    \/ Restart
    \/ Quit

\* Some frame, or the start, changes the state: ENABLED <<...>>_vars, written as a predicate.
FrameMoves ==
    \/ phase = "Loading"
    \/ /\ phase = "Ready"
       /\ player.status # "Threw"
       /\ \E ticks \in Deltas : NextFrame(world, IF paused THEN 0 ELSE ticks) # world

\* The application updates the screen on top of its stack in every pass of its loop: this is
\* WF_vars(Start \/ \E ticks \in Deltas : Frame(ticks)), with ENABLED replaced by FrameMoves,
\* which TLC evaluates much faster.
FrameFairness ==
    []<> ~ FrameMoves \/ []<> <<Start \/ \E ticks \in Deltas : Frame(ticks)>>_vars

Spec == Init /\ [][Next]_vars /\ FrameFairness

-----------------------------------------------------------------------------
(* Properties.                                                             *)

Previews == {"idle", "hit", "death", "attack"}

\* A film at rest shows what the battle is in: a living unit stands there in full with its
\* idle clip, a dead one is hidden, has no HP and lies as its body, unless the body's track id
\* went to a unit created in the middle of the film, and no other effect is left over.
\* Scripts run beside each other, share tracks with id numbers and are cut off by frames.
RestIsConsistent ==
    phase = "Ready" /\ player.status # "Threw" /\ ~ Busy(film) /\ ~ film.clash
    /\ keys \cap Previews = {} =>
      \A u \in DOMAIN film.units :
        LET x     == film.units[u]
            mayBe == {EffectId(u, slot) : slot \in {"actor", "target"}
                        \cup (IF x.life = "Alive" THEN {} ELSE {"body"})
                        \cup (IF x.life = "Reviving" THEN {"revive"} ELSE {})}
            body  == EffectId(u, "body")
        IN  /\ x.life \in {"Alive", "Dead", "Reviving"}
            /\ LiveEffects(film, u) \subseteq mayBe
            /\ x.life = "Alive" =>
                 x.base.shown /\ x.base.alpha = 2 /\ x.base.clip = "idle" /\ x.base.loop
            /\ x.life = "Dead" =>
                 /\ ~ x.base.shown
                 /\ x.hp = 0
                 /\ Look[x.kind].corpse =>
                      \/ body \in LiveEffects(film, u)
                      \/ \E v \in DOMAIN film.units : film.units[v].base.id = body

\* Scene, presenter and runtime keep their own books of the units; created, retired and created
\* again under the same name, every unit is in all of them or in none: the presenter selects
\* among the units of the scene, and every slot of the index is one a unit stands on.
BooksAgree ==
    LET units == DOMAIN film.units
        chosen(u) == IF units = {} THEN u = NoUnit ELSE u \in units
    IN  phase = "Ready" =>
          /\ presenter.units = units
          /\ {runtime.alias[a] : a \in DOMAIN runtime.alias} = units
          /\ Cardinality(DOMAIN runtime.alias) = Cardinality(units)
          /\ DOMAIN runtime.alias \cap runtime.gone = {}
          /\ chosen(presenter.actor) /\ chosen(presenter.target)
          /\ \A u \in units : {c \in DOMAIN runtime.at : runtime.at[c] = u}
                                = Footprint(film.units[u].coord)
          /\ \A c \in DOMAIN runtime.at : runtime.at[c] \in units

\* Playing a scenario throws, which ends the program, for the scenario's own faults only,
\* or when a key was pressed: an attack started with Space keeps a unit from retreating.
SoundScenariosPlay == player.status = "Threw" => ~ scenario.sound \/ keys # {}

\* The three together: what is shown at rest is the battle, the books agree, and it plays.
FilmIsInOrder == RestIsConsistent /\ BooksAgree /\ SoundScenariosPlay

\* A step whose animations have ended has run every envelope that waited for the impact of an
\* attack it showed: completion looks at the engine alone, not at the envelopes that wait.
EnvelopesRun ==
    [][player.submitted /\ player'.step = player.step + 1 =>
         LET envs == scenario.steps[player.step].envs
         IN  \A i \in DOMAIN envs :
               (/\ envs[i].after # 0 /\ envs[i].cue = "impact"
                /\ envs[envs[i].after].event.e = "AttackStarted"
                /\ presenter'.states[envs[i].after] = "Completed")
               => presenter'.states[i] # "Waiting"]_vars

\* A film that is shown ends, with nothing left to be animated, unless it is paused or left,
\* the scenario is at fault, or two scripts met on the base track of one unit.
FilmEnds ==
    phase = "Ready" /\ ~ paused ~>
      \/ player.status = "Completed" /\ ~ Busy(film)
      \/ player.status = "Threw"
      \/ film.clash
      \/ paused
      \/ phase # "Ready"
=============================================================================
