---------------------------- MODULE ExtractionTool ----------------------------
(***************************************************************************)
(* run_main of src/src/cli/main.cpp: a process of the tool runs the one    *)
(* command it was called with, and what the command throws ends it with 1. *)
(* The commands that are modelled are sg-inspect (ScenarioInspection) and  *)
(* those that make and read runtime assets (PackageBuilder).               *)
(***************************************************************************)
EXTENDS ScenarioInspection

CONSTANTS Games, Inspections, SheetCapacity, MaxFaults, MaxRuns

ASSUME MaxFaultsAssumption == MaxFaults \in Nat

VARIABLES command,      (* the command of the process                        *)
          game, staging, destination, builder, answer, faults, runs
packageVars == <<game, staging, destination, builder, answer, faults, runs>>

Builder == INSTANCE PackageBuilder

NoRequest ==
  [readable |-> FALSE, file |-> Nothing, root |-> NoDirectory, options |-> {}, writable |-> {},
   cut |-> {}]
NoGame == [isDirectory |-> FALSE, files |-> <<>>, only |-> {}]

ToolInit ==
  \/ /\ command = "sg-inspect"
     /\ InspectionInit
     /\ game = NoGame /\ Builder!Fresh
  \/ /\ command = "runtime assets"
     /\ Builder!Init
     /\ request = NoRequest /\ Fresh

InspectScenario == command = "sg-inspect" /\ InspectionNext /\ UNCHANGED <<command, packageVars>>
HandlePackage == command = "runtime assets" /\ Builder!Next /\ UNCHANGED <<command, inspectionVars>>
ToolNext == InspectScenario \/ HandlePackage
ToolSpec == ToolInit /\ [][ToolNext]_<<command, inspectionVars, packageVars>>
-----------------------------------------------------------------------------
(* A destination that was published can be opened, every asset in it is    *)
(* what the game has under its name, and what the game lists is there or   *)
(* was complained about: PackageBuilder says what that means.              *)
PackagesAreRight == Builder!PackagesAreRight

(* Failed builds remove their staging directory and never expose a partial *)
(* destination, and what is there is never replaced (package_layout.md:52).*)
BuildIsAllOrNothing == Builder!BuildIsAllOrNothing
=============================================================================
