------------------------------ MODULE MCBattlePlayer ------------------------------
(* Scenarios and unit types small enough for TLC to play every film to its end. *)
EXTENDS BattlePlayer

MCMaxHp  == 3
MCDeltas == {1, 3}
MCTicks  == [attack |-> 2, hit |-> 1, stil |-> 2, death |-> 1, fx |-> 2, fade |-> 1,
             reviveDelay |-> 1, reviveFade |-> 2]

\* A fighter with everything, a caster with effects of its own, a large beast with little.
MCLook ==
    [fighter |-> [large |-> FALSE, clips |-> {"attack", "hit", "death"}, tuch |-> TRUE,
                  heff |-> TRUE, override |-> FALSE, overlays |-> {}, stil |-> "Moving",
                  corpse |-> TRUE, deathFx |-> TRUE, reviveFx |-> TRUE],
     caster  |-> [large |-> FALSE, clips |-> {"attack"}, tuch |-> FALSE, heff |-> FALSE,
                  override |-> TRUE, overlays |-> {"source", "team", "target"},
                  stil |-> "None", corpse |-> TRUE, deathFx |-> FALSE, reviveFx |-> TRUE],
     beast   |-> [large |-> TRUE, clips |-> {"hit"}, tuch |-> TRUE, heff |-> FALSE,
                  override |-> FALSE, overlays |-> {}, stil |-> "Still", corpse |-> FALSE,
                  deathFx |-> TRUE, reviveFx |-> FALSE]]

Create(alias, kind, side, depth, hp) ==
    [e |-> "UnitCreated", alias |-> alias, kind |-> kind, coord |-> <<side, 1, depth>>, hp |-> hp]
Retreat(alias)       == [e |-> "UnitRetreated", alias |-> alias]
On(e, u)             == [e |-> e, unit |-> u]
WithHp(e, u, hp)     == [e |-> e, unit |-> u, hp |-> hp]
Select(e, prev, u)   == [e |-> e, prev |-> prev, unit |-> u]
Damaged(s, u, hp)    == [e |-> "TargetDamaged", source |-> s, unit |-> u, hp |-> hp]
Strike(n, s, us)     == [e |-> "AttackStarted", attack |-> n, source |-> s, targets |-> us]
Drained(s, u)        == [e |-> "LifeDrained", source |-> s, unit |-> u, hp |-> 1, sourceHp |-> 3]
Shine(role, s, u)    == [e |-> "BattleEffectStarted", role |-> role, heff |-> FALSE,
                         source |-> s, unit |-> u, targets |-> <<s>>]

Now(ev)      == [event |-> ev, optional |-> FALSE, after |-> 0, cue |-> "start"]
Maybe(ev)    == [Now(ev) EXCEPT !.optional = TRUE]
At(i, env)   == [env EXCEPT !.after = i, !.cue = "impact"]
Step(envs)   == [complete |-> "All", envs |-> envs]
AtOnce(envs) == [complete |-> "Immediate", envs |-> envs]

Pair == <<Create("a", "fighter", "A", "Front", 3), Create("d", "fighter", "D", "Front", 3)>>
Foes == <<Create("a", "caster", "A", "Back", 2), Create("d", "beast", "D", "Center", 3)>>

\* Hit, killed and brought back.
Duel == [sound |-> TRUE, setup |-> Pair, steps |-> <<
    AtOnce(<<Now(Select("ActorSelected", "a", "a")), Now(Select("TargetSelected", "d", "d"))>>),
    Step(<<Now(Strike(1, "a", <<"d">>)), At(1, Now(Damaged("a", "d", 2))),
           At(1, Now(On("UnitHitReceived", "d")))>>),
    Step(<<Now(Strike(2, "a", <<"d">>)), At(1, Now(On("TargetKilled", "d"))),
           At(1, Maybe(On("TargetMissed", "d")))>>),
    Step(<<Now(On("UnitReviveStarted", "d"))>>),
    Step(<<Now(WithHp("UnitRevived", "d", 1))>>)>>]

\* Three units are summoned in the middle of the film; the last takes the number of a body.
Summoned == [sound |-> TRUE, setup |-> Pair, steps |-> <<
    AtOnce(<<Now(Select("ActorSelected", "a", "a"))>>),
    AtOnce(<<Now(Create("s", "caster", "A", "Back", 1)), Now(Create("t", "caster", "D", "Back", 1))>>),
    AtOnce(<<Now(Create("u", "beast", "E", "Center", 1))>>),
    Step(<<Now(On("UnitKilled", "a"))>>)>>]

\* A shot at two, one dies, retreats and comes back as another; the shooter dies last.
Volley == [sound |-> TRUE, setup |-> Foes, steps |-> <<
    AtOnce(<<Now(Select("TargetSelected", "d", "a"))>>),
    AtOnce(<<Now(Create("s", "fighter", "A", "Front", 1))>>),
    Step(<<Now(Strike(1, "a", <<"s", "d">>)), At(1, Now(Damaged("a", "s", 0))),
           At(1, Now(On("UnitHitReceived", "d"))), At(1, Now(On("UnitKilled", "s")))>>),
    AtOnce(<<Now(Retreat("s"))>>),
    AtOnce(<<Now(Create("s", "caster", "A", "Front", 2)), Now(Retreat("d"))>>),
    Step(<<Maybe(Drained("s", "a")), Now(On("UnitKilled", "a"))>>)>>]

\* An optional attack that cannot be shown, effects on their own, and everybody leaves.
Effects == [sound |-> TRUE, setup |-> Foes, steps |-> <<
    Step(<<Maybe(Strike(1, "d", <<"a">>)), At(1, Now(Damaged("d", "a", 1))),
           Now([e |-> "CastEffectStarted", unit |-> "d", heff |-> FALSE]),
           Now(Shine("TeamOverlayFx", "d", NoAlias)), Now(On("UnitHitReceived", "a"))>>),
    Step(<<Now(On("UnitKilled", "d"))>>),
    AtOnce(<<Now(Retreat("a")), Now(Retreat("d"))>>),
    AtOnce(<<Now(Create("d", "fighter", "D", "Front", 1))>>)>>]

\* Hit and killed at the same impact.
Clashing == [sound |-> TRUE, setup |-> Pair, steps |-> <<
    Step(<<Now(Strike(1, "a", <<"d">>)), At(1, Now(On("UnitHitReceived", "d"))),
           At(1, Now(On("TargetKilled", "d")))>>)>>]

\* A miss that must be shown; a retreat while an attack goes on; lives mixed with visuals.
Missed    == [sound |-> FALSE, setup |-> Pair, steps |-> <<
    Step(<<Now(Strike(1, "a", <<"d">>)), At(1, Now(On("TargetMissed", "d")))>>)>>]
Hurried   == [sound |-> FALSE, setup |-> Pair, steps |-> <<
    AtOnce(<<Now(Strike(1, "a", <<"d">>)), At(1, Now(On("UnitKilled", "d")))>>),
    AtOnce(<<Now(Retreat("d"))>>)>>]
Mixed     == [sound |-> FALSE, setup |-> Pair, steps |-> <<
    Step(<<Now(On("UnitHitReceived", "d")), Now(Retreat("d"))>>)>>]
Unnamed   == [sound |-> FALSE, setup |-> Pair, steps |-> <<
    AtOnce(<<Now(Retreat("a"))>>), Step(<<Now(On("UnitHitReceived", "a"))>>)>>]

\* Two units on one slot: the screen never gets ready.
Crowded   == [sound |-> TRUE, steps |-> <<>>, setup |->
    <<Create("a", "fighter", "A", "Front", 3), Create("b", "beast", "A", "Center", 3)>>]

MCScenarios ==
    {Duel, Summoned, Volley, Effects, Clashing, Missed, Hurried, Mixed, Unnamed, Crowded}
=============================================================================
