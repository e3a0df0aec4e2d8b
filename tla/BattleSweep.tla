----------------------------- MODULE BattleSweep -----------------------------
(***************************************************************************)
(* The program opendis2-dev-battle: it reads a scenario, lists the stacks  *)
(* that can fight (build_stack_catalog), lets every one of them fight      *)
(* every other in both orders (generate_directed_pairs), each battle from  *)
(* the values of the scenario, and writes a summary (run_sweep).  Its exit *)
(* code says whether every battle came to an end.                          *)
(*                                                                         *)
(* The steps of one battle are those of run_one_battle, below.  File       *)
(* names, log texts and descriptors are left out.  What can fail around a  *)
(* battle is a choice: the scenario may not load, a stack may refer to a   *)
(* unit or a type that does not exist, and writing the log may throw.      *)
(***************************************************************************)
EXTENDS Battle, SequencesExt
-----------------------------------------------------------------------------
(***************************************************************************)
(* run_one_battle of opendis2_battle_sweep: it plays one battle to its end *)
(* by asking the rules for every outcome the current actor can produce and *)
(* picking one of them, and classifies how the battle ended.               *)
(*                                                                         *)
(* One iteration of its loop is one step.  MaxRounds of module Battle is   *)
(* SimulatorConfig::max_rounds and MaxActions is max_actions.  The random  *)
(* policy may pick any of the outcomes.                                    *)
(***************************************************************************)
CONSTANT MaxActions
ASSUME MaxActionsAssumption == MaxActions \in Nat

VARIABLES
  result,    (* "Running" until the status of the BattleRunResult is set     *)
  applied    (* actions_applied                                              *)

simVars == <<vars, result, applied>>

Results == {"Running", "Finished", "AbortedNoValidActions", "AbortedActionLimit",
            "AbortedRoundLimit", "AbortedRuleException"}
-----------------------------------------------------------------------------
(* valid_action_outcomes carries out every action it offers, so it throws   *)
(* as soon as one of them does.                                             *)
MustSkip == units[CurrentActor].skips > 0
NothingOffered == ~MustSkip /\ OfferedTargets = {}
OutcomesThrow ==
  \/ EnumeratorThrows
  \/ \E t \in OfferedTargets : Throws(CurrentActor, t)

Running == result = "Running" /\ InProgress
WithinLimits == applied < MaxActions /\ round <= MaxRounds

End(r) == result' = r /\ UNCHANGED <<vars, applied>>

Finish == result = "Running" /\ ~InProgress /\ End("Finished")

ActionLimitReached == Running /\ applied >= MaxActions /\ End("AbortedActionLimit")

RoundLimitReached ==
  Running /\ applied < MaxActions /\ round > MaxRounds /\ End("AbortedRoundLimit")

RuleException == Running /\ WithinLimits /\ OutcomesThrow /\ End("AbortedRuleException")

(* Mutant: the loop tries again.                                           *)
NoValidActionsRetried ==
  Running /\ WithinLimits /\ ~OutcomesThrow /\ NothingOffered /\ UNCHANGED simVars

NoValidActions ==
  Running /\ WithinLimits /\ ~OutcomesThrow /\ NothingOffered /\ End("AbortedNoValidActions")

Play ==
  /\ Running /\ WithinLimits /\ ~OutcomesThrow
  /\ IF MustSkip THEN DoSkip(CurrentActor)
                 ELSE \E t \in OfferedTargets : DoAttack(CurrentActor, t)
  /\ applied' = applied + 1
  /\ UNCHANGED result

SimNext ==
  \/ Finish \/ ActionLimitReached \/ RoundLimitReached
  \/ RuleException \/ NoValidActions \/ Play
-----------------------------------------------------------------------------
(* The result, the action counter and the limits agree with the state the   *)
(* battle stopped in.                                                       *)
SimTypeOK ==
  /\ result \in Results
  /\ applied \in 0..MaxActions
  /\ round <= MaxRounds + 1
  /\ result = "Finished" => ~InProgress
  /\ result \notin {"Running", "Finished"} => InProgress

(* The rank a side fights from, the rows a fighter holds in it, and a melee *)
(* fighter in an edge row whose opponents are all in the other edge row.    *)
FightingRank(s) == IF \E w \in AliveOf(units, s) : Stands(w, "Front") THEN "Front" ELSE "Back"

RowsHeld(u) ==
  {RowOf(c) : c \in {k \in Cell : /\ RankOf(k) = FightingRank(u[1])
                                  /\ roster.cells[u[1]][k] = u[2]}}

OutOfReach(u) ==
  \E r \in {0, 2} :
    /\ RowsHeld(u) = {r}
    /\ \A v \in AliveOf(units, Opposite(u[1])) : RowsHeld(v) \subseteq {2 - r}

(* "no valid actions for live current actor" has one of three reasons: an   *)
(* attack the rules do not support, a healer of the dead without dead       *)
(* comrades, or a melee fighter whose active-rank opponents all stand in    *)
(* rows it does not reach.                                                  *)
StuckIsExplained ==
  result = "AbortedNoValidActions" =>
    LET u == CurrentActor
        classes == {roster.primary[u].class, roster.secondary[u].class} \ {"None"}
    IN  /\ units[u].skips = 0
        /\ \/ ~BundleSupported(u)
           \/ classes = {"Revive"} /\ \A v \in Members : v[1] = u[1] => units[v].alive
           \/ BundleReach(u) = "Adjacent" /\ OutOfReach(u)

(* A rule exception has one of two reasons: a melee fighter behind its own  *)
(* living front rank, or a roster that breaks the assumptions of the        *)
(* healing effects.                                                         *)
ExceptionIsExplained ==
  result = "AbortedRuleException" =>
    \/ ~SoundRoster
    \/ /\ BundleReach(CurrentActor) = "Adjacent"
       /\ ~Stands(CurrentActor, "Front")
       /\ FightingRank(CurrentActor[1]) = "Front"
-----------------------------------------------------------------------------

CONSTANT Worlds   (* the scenarios: their stacks, and what fails with them   *)

(* The world builder gives every stack an identifier of its own.           *)
ASSUME WorldsAssumption ==
  \A w \in Worlds :
    /\ w.stacks \in Seq(Range(w.stacks))
    /\ w.loads \in BOOLEAN
    /\ \A s \in Range(w.stacks) : s.id \in Int
    /\ \A i, j \in DOMAIN w.stacks : w.stacks[i].id = w.stacks[j].id => i = j

VARIABLES
  world,     (* the scenario being swept                                     *)
  stage,     (* where run_sweep is: "Load", "Pair", "Battle", "Ended"        *)
  entries,   (* summary.entries                                              *)
  counts,    (* summary: one counter per status                              *)
  total,     (* summary.total                                                *)
  wins,      (* summary.party1_wins, summary.party2_wins                     *)
  exit       (* the exit code of main, NoExit before                         *)

summary == <<entries, counts, total, wins>>
sweepVars == <<simVars, world, stage, summary, exit>>

NoExit == -1
Statuses == Results \cup {"AbortedBootstrapFailure", "AbortedLogFailure"}
-----------------------------------------------------------------------------
(***************************************************************************)
(* The catalogue and the pairs.                                            *)
(***************************************************************************)
(* A stack that stands on the map and has a living member the world knows. *)
HasAliveMember(s) == \E k \in s.members \ s.unknown : s.hp[k] > 0
Eligible(s) == ~s.inside /\ HasAliveMember(s)

Fighters == {s \in Range(world.stacks) : Eligible(s)}

(* Each fighter once, by identifier.                                       *)
Catalog ==
  CHOOSE c \in [1 .. Cardinality(Fighters) -> Fighters] :
    \A i, j \in DOMAIN c : i < j => c[i].id < c[j].id

(* The pairs in the order of the two nested loops, as places in the        *)
(* catalogue: each stack meets the other n - 1 in turn.                    *)
PairCount(n) == n * (n - 1)

Pairs ==
  LET n == Cardinality(Fighters)
  IN  [i \in 1 .. PairCount(n) |->
         LET a == (i - 1) \div (n - 1) + 1
             k == ((i - 1) % (n - 1)) + 1
         IN  <<a, IF k < a THEN k ELSE k + 1>>]

Sequence == Len(entries) + 1
First == Catalog[Pairs[Sequence][1]]
Second == Catalog[Pairs[Sequence][2]]
-----------------------------------------------------------------------------
(***************************************************************************)
(* bootstrap_battle: the two stacks become the two sides.                  *)
(***************************************************************************)
BothSides(a, b, f(_, _)) ==
  [u \in ({1} \X a.members) \cup ({2} \X b.members) |-> f(IF u[1] = 1 THEN a ELSE b, u[2])]

RosterOf(a, b) ==
  [members |-> ({1} \X a.members) \cup ({2} \X b.members),
   cells |-> <<a.cells, b.cells>>,
   maxHp |-> BothSides(a, b, LAMBDA s, k : s.maxHp[k]),
   startHp |-> BothSides(a, b, LAMBDA s, k : s.hp[k]),
   primary |-> BothSides(a, b, LAMBDA s, k : s.primary[k]),
   secondary |-> BothSides(a, b, LAMBDA s, k : s.secondary[k]),
   leader |-> <<<<1, a.leader>>, <<2, b.leader>>>>]

(* A member the world does not know, a type the game data do not know, or  *)
(* a formation validate_battle_state refuses.                              *)
BootstrapThrows(a, b) ==
  \/ \E s \in {a, b} : s.unknown # {} \/ s.untyped # {}
  \/ ~ValidRoster(RosterOf(a, b))

(* The rosters are those of the battles the sweep can start.               *)
ASSUME RostersOfWorlds ==
  \A w \in Worlds : \A a, b \in Range(w.stacks) :
    Eligible(a) /\ Eligible(b) /\ a # b /\ ~BootstrapThrows(a, b) => RosterOf(a, b) \in Rosters

NewBattle(r) ==
  /\ roster' = r
  /\ units' = Bootstrapped(r)
  /\ leaderAlive' = [s \in Side |-> r.leader[s] \in Alive(units)']
  /\ status' = StatusOf(units)'
  /\ winner' = WinnerOf(units)'
  /\ turn' = 1
  /\ IF status' = "InProgress"
     THEN round' = 1 /\ turnOrder' = BuildTurnOrder(Alive(units))'
     ELSE round' = 0 /\ turnOrder' = <<>>
  /\ result' = "Running" /\ applied' = 0
-----------------------------------------------------------------------------
NoBattle ==
  /\ roster = [members |-> {}] /\ units = <<>> /\ leaderAlive = <<FALSE, FALSE>>
  /\ status = "Finished" /\ winner = NoSide /\ round = 0 /\ turnOrder = <<>> /\ turn = 1
  /\ result = "Running" /\ applied = 0

SweepInit ==
  /\ NoBattle
  /\ world \in Worlds
  /\ stage = "Load" /\ exit = NoExit
  /\ entries = <<>> /\ counts = [s \in Statuses \ {"Running"} |-> 0] /\ total = 0
  /\ wins = [s \in Side |-> 0]

(* The file, the parser and the game data come before the first battle; an *)
(* exception of theirs ends the program.                                   *)
Load ==
  /\ stage = "Load"
  /\ IF world.loads THEN stage' = "Pair" /\ UNCHANGED exit
                    ELSE stage' = "Ended" /\ exit' = 1
  /\ UNCHANGED <<simVars, world, summary>>

Entry(s, victor, rounds, actions) ==
  [pair |-> <<First.id, Second.id>>, status |-> s,
   winner |-> victor, rounds |-> rounds, actions |-> actions]

(* The common end of the loop body.                                        *)
Report(e) ==
  /\ entries' = Append(entries, e)
  /\ total' = total + 1
  /\ counts' = [counts EXCEPT ![e.status] = @ + 1]
  /\ wins' = IF e.status # "Finished" \/ e.winner = NoSide THEN wins
             ELSE [wins EXCEPT ![e.winner] = @ + 1]
  /\ stage' = "Pair"
  /\ UNCHANGED <<world, exit>>

PairIsNext == stage = "Pair" /\ Sequence <= Len(Pairs)

(* Mutant: the early continue forgets its counter as well as the total.    *)
BootstrapFailureUncounted ==
  /\ PairIsNext /\ BootstrapThrows(First, Second)
  /\ entries' = Append(entries, Entry("AbortedBootstrapFailure", NoSide, 0, 0))
  /\ UNCHANGED <<simVars, world, stage, counts, total, wins, exit>>

(* The early continue: it is entered and counted, not added to the total.  *)
BootstrapFailure ==
  /\ PairIsNext /\ BootstrapThrows(First, Second)
  /\ entries' = Append(entries, Entry("AbortedBootstrapFailure", NoSide, 0, 0))
  /\ counts' = [counts EXCEPT !["AbortedBootstrapFailure"] = @ + 1]
  /\ UNCHANGED <<simVars, world, stage, total, wins, exit>>

(* What throws before the battle begins, outside the bootstrap.            *)
LogFailure ==
  /\ PairIsNext /\ world.logsFail
  /\ Report(Entry("AbortedLogFailure", NoSide, 0, 0))
  /\ UNCHANGED simVars

StartBattle ==
  /\ PairIsNext /\ ~BootstrapThrows(First, Second)
  /\ NewBattle(RosterOf(First, Second))
  /\ stage' = "Battle"
  /\ UNCHANGED <<world, summary, exit>>

Fight ==
  /\ stage = "Battle" /\ SimNext
  /\ UNCHANGED <<world, stage, summary, exit>>

(* The result run_one_battle returns; its handlers of exceptions leave the *)
(* round and the actions at zero.                                          *)
BattleReturns ==
  /\ stage = "Battle" /\ result # "Running"
  /\ Report(IF result = "AbortedRuleException" THEN Entry(result, NoSide, 0, 0)
            ELSE Entry(result, winner, round, applied))
  /\ UNCHANGED simVars

(* main: zero when no counter of an abort was raised.                      *)
ExitCode == IF \A s \in DOMAIN counts \ {"Finished"} : counts[s] = 0 THEN 0 ELSE 2

WriteSummary ==
  /\ stage = "Pair" /\ Sequence > Len(Pairs)
  /\ stage' = "Ended" /\ exit' = ExitCode
  /\ UNCHANGED <<simVars, world, summary>>

SweepNext ==
  \/ Load \/ BootstrapFailure \/ LogFailure \/ StartBattle
  \/ Fight \/ BattleReturns \/ WriteSummary

(* One thread that computes: it never stops by itself.                     *)
SweepSpec == SweepInit /\ [][SweepNext]_sweepVars /\ WF_sweepVars(SweepNext)
-----------------------------------------------------------------------------
(* The type invariant of the simulator and the sweep.                      *)
SweepTypeOK ==
  /\ stage = "Battle" => SimTypeOK /\ roster = RosterOf(First, Second)
  /\ stage \in {"Load", "Pair", "Battle", "Ended"}
  /\ exit \in {NoExit, 0, 1, 2}
  /\ counts \in [Statuses \ {"Running"} -> Nat] /\ total \in Nat /\ wins \in [Side -> Nat]

(* The two bad ends of a battle are explained by the stacks and the        *)
(* formation: no valid actions (battle_simulator.cpp:95) and an exception  *)
(* of the rules (:138).                                                    *)
BadEndsAreExplained ==
  SweepTypeOK /\ (stage = "Battle" => StuckIsExplained /\ ExceptionIsExplained)

CountOf(s) == Cardinality({i \in DOMAIN entries : entries[i].status = s})

(* Among stacks that have a living member every finished battle is won by  *)
(* somebody after at least one action: no attack wipes out both sides, and *)
(* no battle is over before it begins (stack_catalog.cpp:25-38,            *)
(* sweep_runner.cpp:334).                                                  *)
FinishedMeansWon ==
  \A i \in DOMAIN entries :
    entries[i].status = "Finished" => entries[i].winner \in Side /\ entries[i].actions > 0

(* Every fighter of the catalogue against every other one.                 *)
Meetings ==
  {<<a.id, b.id>> : a, b \in Range(Catalog)} \ {<<a.id, a.id>> : a \in Range(Catalog)}

(* The summary tells the truth about its entries at every moment: each     *)
(* counter counts its status, the total is everything but the bootstrap    *)
(* failures, whose continue skips it (sweep_runner.cpp:287), the wins are  *)
(* those of the entries, and the program ends with 0 exactly when every    *)
(* directed pair of fighters was fought to its end.                        *)
SummaryAddsUp ==
  /\ FinishedMeansWon
  /\ \A s \in DOMAIN counts : counts[s] = CountOf(s)
  /\ total = Len(entries) - CountOf("AbortedBootstrapFailure")
  /\ \A p \in Side : wins[p] = Cardinality({i \in DOMAIN entries : entries[i].winner = p})
  /\ stage = "Ended" /\ exit # 1 =>
       /\ {entries[i].pair : i \in DOMAIN entries} = Meetings
       /\ Len(entries) = PairCount(Len(Catalog))
  /\ exit = 0 <=> stage = "Ended" /\ world.loads /\ \A i \in DOMAIN entries : entries[i].status = "Finished"

(* The sweep ends whatever the units are: the limits stop a battle that    *)
(* nobody can win (battle_simulator.cpp:75-91).                            *)
SweepEnds == <>(stage = "Ended")
=============================================================================
