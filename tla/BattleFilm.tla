----------------------------- MODULE BattleFilm -----------------------------
(***************************************************************************)
(* The animation side of a battle film: the scene with its units and       *)
(* visual tracks (battle_scene.cpp), the command scripts a visual event    *)
(* is turned into (battle_animation_scripts.cpp), the timeline that runs   *)
(* them (command_timeline.cpp) and the engine that queues events           *)
(* (battle_animation_engine.cpp).  All of it is sequential code called by  *)
(* the presenter, so a film is one value and an operation a function of    *)
(* it; BattlePlayer holds the state and the actions.                       *)
(*                                                                         *)
(* A film f has                                                            *)
(*   f.units    unit instance id -> unit (the units in the scene),         *)
(*   f.nextUnit, f.nextTrack   the counters the scene draws ids from,      *)
(*   f.line     the timeline: one sequence of commands left per script,    *)
(*   f.queue    events waiting for an idle timeline,                       *)
(*   f.said     events the scripts have emitted,                           *)
(*   f.clash    history: two scripts met on the base track of one unit,    *)
(*              or a script waits for a base track that is not shown.      *)
(*                                                                         *)
(* Time is counted in ticks: the durations of clips and fades are given    *)
(* by Ticks.  A playing sequence is the ticks it has left.                 *)
(***************************************************************************)
EXTENDS Integers, Sequences, FiniteSets, SequencesExt

CONSTANTS Look,   \* unit type -> what its visual profile has
          Ticks,  \* durations of the clips, effects and fades
          MaxHp   \* the maximum HP of every unit

NoUnit == 0
NoHp   == -1

Least(S)      == CHOOSE x \in S : \A y \in S : x <= y
Smaller(a, b) == IF a <= b THEN a ELSE b
Larger(a, b)  == IF a >= b THEN a ELSE b

-----------------------------------------------------------------------------
(* The scene.                                                              *)

Slot == [actor |-> 1, target |-> 2, death |-> 3, body |-> 4, revive |-> 5, cast |-> 6,
         source |-> 9, team |-> 10, damage |-> 11, overlay |-> 12, shared |-> 13]

\* Effect tracks carry the number of their effect, base tracks a drawn one: one id space.
EffectId(u, slot) == u * 16 + Slot[slot]

EmptyFilm == [units |-> <<>>, nextUnit |-> 1, nextTrack |-> 1, line |-> <<>>,
              queue |-> <<>>, said |-> <<>>, clash |-> FALSE]

InScene(f, u) == u \in DOMAIN f.units

TrackExists(f, id) ==
    \E u \in DOMAIN f.units : \/ f.units[u].base.id = id
                              \/ \E x \in f.units[u].fx : x.id = id

\* The live effect tracks of a unit: those not marked for removal.
LiveEffects(f, u) == {x.id : x \in {y \in f.units[u].fx : ~ y.gone}}

AddUnit(f, kind, coord, hp) ==
    LET unit == [kind |-> kind, coord |-> coord, hp |-> hp, life |-> "Alive", fx |-> {},
                 base |-> [id |-> f.nextTrack, clip |-> "idle", left |-> 0, loop |-> TRUE,
                           shown |-> TRUE, alpha |-> 2]]
    IN  [f EXCEPT !.units = [u \in DOMAIN f.units \cup {f.nextUnit} |->
                                IF u = f.nextUnit THEN unit ELSE f.units[u]],
                  !.nextUnit = @ + 1, !.nextTrack = @ + 1]

RemoveUnit(f, u) == [f EXCEPT !.units = [v \in DOMAIN f.units \ {u} |-> f.units[v]]]

\* A track cannot be added when any track, even one marked for removal, has its id.
AddEffect(f, u, id, left) ==
    IF ~ InScene(f, u) \/ TrackExists(f, id) THEN f
    ELSE [f EXCEPT !.units[u].fx = @ \cup {[id |-> id, left |-> left, gone |-> FALSE]},
                   !.nextTrack = Larger(@, id + 1)]

RemoveEffect(f, id) ==
    [f EXCEPT !.units = [u \in DOMAIN f.units |->
        [f.units[u] EXCEPT !.fx = {IF x.id = id THEN [x EXCEPT !.gone = TRUE] ELSE x : x \in @}]]]

ReplaceClip(f, u, clip, loop) ==
    IF ~ InScene(f, u) THEN f
    ELSE [f EXCEPT !.units[u].base.clip = clip,
                   !.units[u].base.left = IF loop THEN 0 ELSE Ticks[clip],
                   !.units[u].base.loop = loop]

SetHp(f, u, hp) ==
    IF ~ InScene(f, u) THEN f
    ELSE [f EXCEPT !.units[u].hp = Larger(0, Smaller(hp, MaxHp))]

\* Players of shown tracks advance; tracks marked for removal are erased.
SceneUpdate(f, delta) ==
    [f EXCEPT !.units = [u \in DOMAIN f.units |->
        [f.units[u] EXCEPT
            !.base.left = IF f.units[u].base.shown THEN Larger(0, @ - delta) ELSE @,
            !.fx = {[x EXCEPT !.left = Larger(0, @ - delta)] : x \in {y \in @ : ~ y.gone}}]]]

-----------------------------------------------------------------------------
(* Commands and the timeline.  A command in progress is the command with   *)
(* the time it has left; Do returns the film, the command, whether it is   *)
(* completed and the time it has not used.                                 *)

Play(u, clip, loop) == [c |-> "Play", u |-> u, clip |-> clip, loop |-> loop]
Wait(t)             == [c |-> "Wait", left |-> t]
Emit(ev)            == [c |-> "Emit", ev |-> ev]
WaitBase(u)         == [c |-> "WaitBase", u |-> u]
WaitEffect(u, id)   == [c |-> "WaitEffect", u |-> u, id |-> id]
Show(u, shown)      == [c |-> "Show", u |-> u, shown |-> shown]
SetAlpha(u, a)      == [c |-> "SetAlpha", u |-> u, alpha |-> a]
Tween(u, a, b, t)   == [c |-> "Tween", u |-> u, from |-> a, to |-> b, left |-> t, all |-> t]
Spawn(u, id, t)     == [c |-> "Spawn", u |-> u, id |-> id, left |-> t]
Despawn(id)         == [c |-> "Despawn", id |-> id]
SetLife(u, life)    == [c |-> "SetLife", u |-> u, life |-> life]

\* What a command changes at once.
Apply(f, c) ==
    CASE c.c = "Play"    -> ReplaceClip(f, c.u, c.clip, c.loop)
      [] c.c = "Emit"    -> [f EXCEPT !.said = Append(@, c.ev)]
      [] c.c = "Spawn"   -> AddEffect(f, c.u, c.id, c.left)
      [] c.c = "Despawn" -> RemoveEffect(f, c.id)
      [] c.c = "Show" /\ InScene(f, c.u)     -> [f EXCEPT !.units[c.u].base.shown = c.shown]
      [] c.c = "SetAlpha" /\ InScene(f, c.u) -> [f EXCEPT !.units[c.u].base.alpha = c.alpha]
      [] c.c = "SetLife" /\ InScene(f, c.u)  -> [f EXCEPT !.units[c.u].life = c.life]
      [] OTHER -> f

\* A command that waits for a track is completed when the track is done, or is not there.
TrackDone(f, c) ==
    \/ ~ InScene(f, c.u)
    \/ /\ c.c = "WaitBase"
       /\ ~ f.units[c.u].base.loop /\ f.units[c.u].base.left = 0
    \/ /\ c.c = "WaitEffect"
       /\ \A x \in f.units[c.u].fx : x.id = c.id => x.gone \/ x.left = 0

\* The alpha of a tween: its ends, or something in between.
TweenAlpha(c, left) == IF left = 0 THEN c.to ELSE IF left = c.all THEN c.from ELSE 1

Do(f, c, delta) ==
    IF c.c \in {"WaitBase", "WaitEffect"}
    THEN [f |-> f, c |-> c, done |-> TrackDone(f, c), unused |-> delta]
    ELSE IF c.c \in {"Wait", "Tween"}
    THEN LET left == Larger(0, c.left - delta)
         IN  [f |-> IF c.c = "Wait" THEN f ELSE Apply(f, SetAlpha(c.u, TweenAlpha(c, left))),
              c |-> [c EXCEPT !.left = left], done |-> left = 0,
              unused |-> delta - (c.left - left)]
    ELSE [f |-> Apply(f, c), c |-> c, done |-> TRUE, unused |-> delta]

\* Runs the commands of one script until one is not completed; r is what the first one did.
RECURSIVE RunScript(_, _, _), GoOn(_, _)
GoOn(r, rest) ==
    IF r.done THEN RunScript(r.f, rest, r.unused) ELSE [f |-> r.f, script |-> <<r.c>> \o rest]

RunScript(f, script, delta) ==
    IF script = <<>> THEN [f |-> f, script |-> script]
    ELSE GoOn(Do(f, Head(script), delta), Tail(script))

Keep(r) == IF r.script = <<>> THEN r.f ELSE [r.f EXCEPT !.line = Append(@, r.script)]

TimelineUpdate(f, delta) ==
    FoldLeft(LAMBDA g, script : Keep(RunScript(g, script, delta)), [f EXCEPT !.line = <<>>], f.line)

-----------------------------------------------------------------------------
(* Scripts.  A script is a set of command sequences that run beside each   *)
(* other (a parallel node at the top of the timeline); none means that     *)
(* the event cannot be shown.                                              *)

None == <<>>

Selection(ev, slot) ==
    <<(IF ev.prev = NoUnit THEN <<>> ELSE <<Despawn(EffectId(ev.prev, slot))>>)
       \o <<Spawn(ev.unit, EffectId(ev.unit, slot), 0)>>>>

ToIdle(u) == <<WaitBase(u), Play(u, "idle", TRUE)>>

Cue(ev) == [e |-> "AttackImpactCue", attack |-> ev.attack, source |-> ev.source,
            targets |-> ev.targets]

\* Mutant: the clip of an attack is played as a loop, like the idle clip.
AttackLooping(look, ev) ==
    IF "attack" \notin look.clips THEN None
    ELSE <<<<Play(ev.source, "attack", TRUE), Wait(Ticks.attack \div 2), Emit(Cue(ev))>>
           \o ToIdle(ev.source)>>

Attack(look, ev) ==
    IF "attack" \notin look.clips THEN None
    ELSE <<<<Play(ev.source, "attack", FALSE), Wait(Ticks.attack \div 2), Emit(Cue(ev))>>
           \o ToIdle(ev.source)>>

Hit(look, u) ==
    IF "hit" \in look.clips THEN <<<<Play(u, "hit", FALSE)>> \o ToIdle(u)>>
    ELSE <<<<Play(u, "idle", TRUE)>>>>

\* A track that is spawned, waited for and removed again.
TimedEffect(u, id) == <<Spawn(u, id, Ticks.fx), WaitEffect(u, id), Despawn(id)>>

Corpse(look, u) == IF look.corpse THEN <<Spawn(u, EffectId(u, "body"), 0)>> ELSE <<>>

\* With a death pose the body replaces the unit at its end, without one the unit fades out.
Dying(look, u) ==
    IF look.stil # "None"
    THEN <<Play(u, "stil", FALSE),
           IF look.stil = "Moving" THEN WaitBase(u) ELSE Wait(Ticks.fade),
           Show(u, FALSE)>> \o Corpse(look, u) \o <<SetLife(u, "Dead")>>
    ELSE <<SetLife(u, "FadingOut"), Tween(u, 2, 0, Ticks.fade), SetLife(u, "Dead"),
           SetAlpha(u, 2), Show(u, FALSE)>> \o Corpse(look, u)

Kill(look, u) ==
    IF look.deathFx THEN <<TimedEffect(u, EffectId(u, "death")), Dying(look, u)>>
    ELSE <<Dying(look, u)>>

ReviveStarted(look, u) ==
    IF ~ look.reviveFx THEN None
    ELSE <<<<SetLife(u, "Reviving"), Spawn(u, EffectId(u, "revive"), 0)>>>>

\* Mutant: a revived unit is shown, but its body stays.
RevivedBesideBody(u) ==
    <<<<Wait(Ticks.reviveDelay), Despawn(EffectId(u, "revive")), Show(u, TRUE), SetAlpha(u, 0),
        Play(u, "idle", TRUE), Tween(u, 0, 2, Ticks.reviveFade), SetLife(u, "Alive")>>>>

Revived(u) ==
    <<<<Wait(Ticks.reviveDelay), Despawn(EffectId(u, "revive")), Despawn(EffectId(u, "body")),
        Show(u, TRUE), SetAlpha(u, 0), Play(u, "idle", TRUE),
        Tween(u, 0, 2, Ticks.reviveFade), SetLife(u, "Alive")>>>>

Cast(look, ev) ==
    IF IF ev.heff THEN look.heff ELSE look.tuch
    THEN <<TimedEffect(ev.unit, EffectId(ev.unit, "cast"))>> ELSE None

\* Effects of an attack: at the source, at the target, or over the other team.
BattleEffect(f, look, ev) ==
    LET clip == IF ev.heff THEN look.heff ELSE look.tuch
        at(u, slot) == <<TimedEffect(u, EffectId(u, slot))>>
        hits == (clip \/ "target" \in look.overlays) /\ InScene(f, ev.unit)
    IN  CASE ev.role = "SourceCastFx" /\ clip -> at(ev.source, "source")
          [] ev.role = "TargetDamageFx" /\ hits -> at(ev.unit, "damage")
          [] ev.role = "TeamOverlayFx" /\ clip /\ ev.targets # <<>> -> at(ev.source, "team")
          [] ev.role = "SourceAttackOverlayFx" /\ "source" \in look.overlays ->
               at(ev.source, "overlay")
          [] ev.role = "TeamAttackOverlayFx" /\ "team" \in look.overlays ->
               at(ev.source, "shared")
          [] OTHER -> None

\* The unit an event is shown on.
Subject(ev) == IF ev.e \in {"AttackStarted", "BattleEffectStarted"} THEN ev.source ELSE ev.unit

\* Missed, resisted, drained and healed have no script: there is no clip for them.
Script(f, ev) ==
    IF ev.e \in {"AttackImpactCue", "TargetDamaged", "TargetMissed", "TargetResisted",
                 "LifeDrained", "SourceHealed"}
       \/ ~ InScene(f, Subject(ev))
    THEN None
    ELSE LET u    == Subject(ev)
             look == Look[f.units[u].kind]
         IN  CASE ev.e = "ActorSelected"       -> Selection(ev, "actor")
               [] ev.e = "TargetSelected"      -> Selection(ev, "target")
               [] ev.e = "AttackStarted"       -> Attack(look, ev)
               [] ev.e = "UnitHitReceived"     -> Hit(look, u)
               [] ev.e \in {"TargetKilled", "UnitKilled"} -> Kill(look, u)
               [] ev.e = "UnitReviveStarted"   -> ReviveStarted(look, u)
               [] ev.e = "UnitRevived"         -> Revived(u)
               [] ev.e = "CastEffectStarted"   -> Cast(look, ev)
               [] ev.e = "BattleEffectStarted" -> BattleEffect(f, look, ev)

-----------------------------------------------------------------------------
(* The engine.                                                             *)

Effect(role, heff, source, unit) ==
    [e |-> "BattleEffectStarted", role |-> role, heff |-> heff, source |-> source,
     unit |-> unit, targets |-> <<>>]

\* An attack and the damage it does bring the effects of the source's profile along.
Expand(f, ev) ==
    IF ev.e \notin {"AttackStarted", "TargetDamaged"} \/ ~ InScene(f, ev.source) THEN <<ev>>
    ELSE LET look   == Look[f.units[ev.source].kind]
             with(cond, role, heff, u) ==
                 IF cond THEN <<Effect(role, heff, ev.source, u)>> ELSE <<>>
         IN  <<ev>> \o
             IF ev.e = "AttackStarted"
             THEN IF look.override
                  THEN with("source" \in look.overlays, "SourceAttackOverlayFx", FALSE, NoUnit)
                       \o with("team" \in look.overlays, "TeamAttackOverlayFx", FALSE, NoUnit)
                  ELSE with(look.tuch, "SourceCastFx", FALSE, NoUnit)
             ELSE IF look.override
                  THEN with("target" \in look.overlays, "TargetDamageFx", FALSE, ev.unit)
                  ELSE with(look.heff, "TargetDamageFx", TRUE, ev.unit)

\* The scripts of an event and of what it expands to.
Scripts(f, ev) == FlattenSeq([i \in DOMAIN Expand(f, ev) |-> Script(f, Expand(f, ev)[i])])

\* The units whose base track a script plays, waits for, hides or fades; and waits for.
BaseOf(script)   == {script[i].u : i \in {j \in DOMAIN script :
                        script[j].c \in {"Play", "WaitBase", "Show", "Tween"}}}
WaitsFor(script) == {script[i].u : i \in {j \in DOMAIN script : script[j].c = "WaitBase"}}

Clashes(f, script, others) ==
    \/ \E i \in DOMAIN others : BaseOf(others[i]) \cap BaseOf(script) # {}
    \/ \E u \in WaitsFor(script) : ~ f.units[u].base.shown

Enqueue(f, scripts) ==
    [f EXCEPT !.line = @ \o scripts,
              !.clash = @ \/ \E i \in DOMAIN scripts :
                                Clashes(f, scripts[i], f.line \o SubSeq(scripts, 1, i - 1))]

EnqueueAll(f, evs) == FoldLeft(LAMBDA g, ev : Enqueue(g, Scripts(g, ev)), f, evs)

SubmitBatch(f, evs) == TimelineUpdate(EnqueueAll(f, evs), 0)

\* Which events of a batch can be shown: those that have a script of their own.
StartedOf(f, evs) == [i \in DOMAIN evs |-> Script(f, evs[i]) # None]

\* Queued events are taken while the timeline is idle; one without a script is dropped.
RECURSIVE TakeQueued(_, _), ShowQueued(_, _, _)
ShowQueued(f, scripts, delta) ==
    IF scripts = <<>> THEN TakeQueued(f, delta)
    ELSE TakeQueued(TimelineUpdate(Enqueue(f, scripts), delta), 0)

TakeQueued(f, delta) ==
    IF f.line # <<>> \/ f.queue = <<>> THEN f
    ELSE ShowQueued([f EXCEPT !.queue = Tail(@)], Scripts(f, Head(f.queue)), delta)

EngineUpdate(f, delta) ==
    IF f.line # <<>> THEN TakeQueued(TimelineUpdate(f, delta), 0) ELSE TakeQueued(f, delta)

Busy(f) == f.line # <<>> \/ f.queue # <<>>
=============================================================================
