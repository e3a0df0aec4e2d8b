-------------------------------- MODULE Duel ---------------------------------
(***************************************************************************)
(* What the battle rules promise to whoever drives a battle, with no HP,   *)
(* attack classes, formations or turn vectors: fighters of two sides are   *)
(* activated one after the other; an activation takes lives on the other   *)
(* side or returns lives to its own, never both; a frozen fighter forfeits *)
(* the activation and thaws; nobody is activated twice in a round, and the *)
(* battle is over exactly when a side has nobody left, won by the side     *)
(* that acted last.                                                        *)
(*                                                                         *)
(* A fighter is a pair whose first component is its side, 1 or 2.          *)
(***************************************************************************)
EXTENDS Naturals

CONSTANT Nobody    (* the actor of a battle that was over before it began   *)

VARIABLES
  fighters,   (* everybody, dead or alive; never changes                     *)
  before,     (* the pairs <<u, v>> such that u acts before v                *)
  living,     (* the fighters alive                                          *)
  frozen,     (* the living fighters that will forfeit their next activation *)
  actor,      (* whose activation it is                                      *)
  pending,    (* who is still to be looked at in this round                  *)
  rounds,
  victor      (* the side that won, 0 for none                               *)

vars == <<fighters, before, living, frozen, actor, pending, rounds, victor>>

Survivors(s) == {u \in living : u[1] = s}
Over == Survivors(1) = {} \/ Survivors(2) = {}

IsFirst(u, S) == u \in S /\ \A v \in S \ {u} : <<u, v>> \in before

Init ==
  /\ living \subseteq fighters
  /\ frozen = {}
  /\ IF Over
     THEN /\ actor = Nobody /\ pending = {} /\ rounds = 0
          /\ victor = IF Survivors(1) # {} THEN 1 ELSE IF Survivors(2) # {} THEN 2 ELSE 0
     ELSE /\ IsFirst(actor, living) /\ pending = living \ {actor}
          /\ rounds = 1 /\ victor = 0

Enemy(u) == u[1] # actor[1]

Forfeit ==
  /\ actor \in frozen
  /\ frozen' = frozen \ {actor}
  /\ living' = living

Strike ==     \* against the other side: it may lose lives and be frozen
  /\ actor \notin frozen
  /\ living' \subseteq living
  /\ \A u \in living \ living' : Enemy(u)
  /\ frozen' \subseteq living'
  /\ \A u \in frozen' \ frozen : Enemy(u)
  /\ frozen \ frozen' \subseteq living \ living'

Aid ==        \* for the own side: lives may come back and frozen ones thaw
  /\ actor \notin frozen
  /\ living \subseteq living'
  /\ living' \subseteq fighters
  /\ \A u \in living' \ living : ~Enemy(u)
  /\ frozen' \subseteq frozen
  /\ \A u \in frozen \ frozen' : ~Enemy(u)

PassOn ==     \* to the next one due, or to the next round
  IF pending \cap living' # {}
  THEN /\ IsFirst(actor', pending \cap living')
       /\ pending' = {u \in pending : <<actor', u>> \in before}
       /\ rounds' = rounds
  ELSE /\ IsFirst(actor', living')
       /\ pending' = living' \ {actor'}
       /\ rounds' = rounds + 1

Activation ==
  /\ ~Over
  /\ Forfeit \/ Strike \/ Aid
  /\ IF Over' THEN victor' = actor[1] /\ UNCHANGED <<actor, pending, rounds>>
              ELSE victor' = 0 /\ PassOn
  /\ UNCHANGED <<fighters, before>>

Spec == Init /\ [][Activation]_vars
=============================================================================
