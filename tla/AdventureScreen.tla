-------------------------- MODULE AdventureScreen ---------------------------
(***************************************************************************)
(* The adventure screen around a GameSession: clicks become commands       *)
(* (AdventureMovementClickController), a movement that starts becomes a    *)
(* film of segments, and the frames play the film                          *)
(* (AdventureMovementPresentationController::update), committing one step  *)
(* of the session whenever a segment has been shown for its full time, and *)
(* settling the actor on the map after the last.                           *)
(*                                                                         *)
(* update runs its whole loop within one frame; here each round of the     *)
(* loop is a step, and remaining > 0 keeps everything else out until the   *)
(* loop is over.  An exception ends the program: fault names the check     *)
(* that threw.  Time is counted in units of which a segment has            *)
(* SegmentDuration (400 ms in the code); animation frames, textures and    *)
(* hit testing are left out: a click names a stack, a cell, or nothing.    *)
(*                                                                         *)
(* A session may also be driven by commands alone, without a screen; front *)
(* says which of the two a behaviour is about.                             *)
(***************************************************************************)
EXTENDS GameSession

CONSTANTS
  SegmentDuration,  (* AdventureMovementPresentationPolicy                  *)
  Deltas            (* bound: the time a frame may bring                    *)

ASSUME ScreenAssumption ==
  SegmentDuration \in Nat \ {0} /\ Deltas \subseteq Nat \ {0} /\ Deltas # {}

VARIABLES
  film,       (* plan_: the segments to show, NoFilm when inactive          *)
  segment,    (* segment_index_, counted from 1                             *)
  elapsed,    (* elapsed_ms_ of that segment                                *)
  remaining,  (* remaining_delta of the running update, 0 between updates   *)
  fault,      (* the check that threw, "None" while the program runs        *)
  front       (* who drives the session, "screen" or "commands": fixed      *)

filmVars == <<film, segment, elapsed, remaining, fault, front>>
screenVars == <<sessionVars, filmVars>>

NoFilm == [stack |-> NoStack, segments |-> << >>]
FilmOf(e) ==
  [stack |-> e.stack,
   segments |-> [i \in DOMAIN e.route.steps |->
                   [from |-> PreviousCell(e.route.start, e.route.steps, i),
                    to |-> e.route.steps[i].cell]]]

ScreenInit ==
  /\ SessionInit
  /\ front \in {"screen", "commands"}
  /\ film = NoFilm /\ segment = 1 /\ elapsed = 0 /\ remaining = 0 /\ fault = "None"

Between == front = "screen" /\ remaining = 0 /\ fault = "None"

(***************************************************************************)
(* A click: the stack under the pointer wins over the cell; a second click *)
(* on the planned destination confirms.  MovementStarted begins the film.  *)
(***************************************************************************)
ClickStack(s) == IF mode = "Moving" THEN RejectBusy ELSE Select(s)
ClickCell(c) ==
  /\ selected # NoStack
  /\ IF mode = "Moving" THEN RejectBusy
     ELSE IF mode = "RoutePlanned" /\ planned.route.destination = c THEN Confirm
     ELSE Plan(c)

Click ==
  /\ Between
  /\ (\E s \in OnMap : ClickStack(s)) \/ (\E c \in Cells : ClickCell(c))
  /\ IF reply'.event = "MovementStarted"
     THEN film' = FilmOf(execution') /\ segment' = 1 /\ elapsed' = 0
     ELSE UNCHANGED <<film, segment, elapsed>>
  /\ UNCHANGED <<remaining, fault, front>>

DebugPanel ==
  /\ Between
  /\ IF mode = "Moving" THEN RejectBusy ELSE DebugReset \/ DebugFree
  /\ UNCHANGED filmVars

-----------------------------------------------------------------------------
(* A frame while a film plays; a frame without one changes nothing.        *)
Frame(delta) ==
  /\ Between /\ film # NoFilm
  /\ remaining' = delta
  /\ UNCHANGED <<sessionVars, film, segment, elapsed, fault, front>>

Left == SegmentDuration - elapsed
(* Mutant: a frame shows at most one segment.                              *)
NothingCarried == 0

Carried == remaining - Left

(* Mutant: the part of a segment a frame shows is not kept for the next.   *)
ShowPartForgetting ==
  /\ fault = "None" /\ remaining \in 1 .. Left - 1
  /\ elapsed' = 0 /\ remaining' = 0
  /\ UNCHANGED <<sessionVars, film, segment, fault, front>>

(* The time left does not finish the segment.                              *)
ShowPart ==
  /\ fault = "None" /\ remaining \in 1 .. Left - 1
  /\ elapsed' = elapsed + remaining
  /\ remaining' = 0
  /\ UNCHANGED <<sessionVars, film, segment, fault, front>>

(* The event a committed step carries, as the checks of update read it.    *)
Shown == film.segments[segment]
CommitMatches ==
  /\ reply'.event \in {"StepCommitted", "MovementCompleted"}
  /\ execution.stack = film.stack
  /\ execution.next = segment
  /\ stacks[film.stack].position = Shown.from /\ stacks'[film.stack].position = Shown.to

(* Mutant: the clock is reset, the plan is not.                            *)
StopClock == segment' = 1 /\ elapsed' = 0 /\ remaining' = 0 /\ UNCHANGED film

StopFilm == film' = NoFilm /\ segment' = 1 /\ elapsed' = 0 /\ remaining' = 0

(* The screen's part after the last segment: the actor becomes part of the *)
(* map where the session says its stack is.                                *)
Settle(cell) ==
  /\ StopFilm
  /\ fault' = IF film.stack \in OnMap /\ stacks'[film.stack].position = cell
              THEN fault ELSE "settlement mismatch"

(* A segment shown in full commits its step of the session, then checks    *)
(* that the session did what the film shows.                               *)
CommitSegment ==
  /\ fault = "None" /\ remaining >= Left
  /\ AdvanceStep /\ UNCHANGED front
  /\ IF reply'.event = "Interrupted"
     THEN IF segment = 1 THEN StopFilm /\ UNCHANGED fault
          ELSE Settle(film.segments[segment - 1].to)
     ELSE IF ~CommitMatches THEN StopFilm /\ fault' = "commit mismatch"
     ELSE IF segment = Len(film.segments) THEN Settle(Shown.to)
     ELSE /\ segment' = segment + 1 /\ elapsed' = 0
          /\ remaining' = Carried
          /\ UNCHANGED <<film, fault>>

(* Any command of the session, in any order.                               *)
Command == front = "commands" /\ SessionNext /\ UNCHANGED filmVars

ScreenNext ==
  \/ Command
  \/ Click
  \/ DebugPanel
  \/ \E delta \in Deltas : Frame(delta)
  \/ ShowPart
  \/ CommitSegment

(* Frames keep coming while the window is open, and an update that has     *)
(* begun runs to its end.                                                  *)
Frames == (\E delta \in Deltas : Frame(delta)) \/ ShowPart \/ CommitSegment
ScreenSpec == ScreenInit /\ [][ScreenNext]_screenVars /\ WF_screenVars(Frames)

-----------------------------------------------------------------------------
(* Type invariant of AdventureMovementPresentationController: in           *)
(* particular a segment is never shown beyond its time                     *)
(* (adventure_movement_presentation_controller.cpp:178-186).               *)
ScreenTypeOK ==
  /\ film # NoFilm => film.stack \in OnMap /\ segment \in DOMAIN film.segments
  /\ elapsed \in 0 .. SegmentDuration - 1
  /\ remaining \in Nat

(* The film and the session agree: a film plays exactly while a stack      *)
(* moves, shows that stack, and its next segments are the steps left; the  *)
(* actor leaves from where the stack is.  It is what every check of update *)
(* relies on (adventure_movement_presentation_controller.cpp:236-257).     *)
FilmShowsTheMovement ==
  /\ ScreenTypeOK
  /\ fault = "None" /\ front = "screen" =>
       /\ film # NoFilm <=> mode = "Moving"
       /\ mode = "Moving" =>
            /\ film = FilmOf(execution) /\ segment = execution.next
            /\ stacks[film.stack].position = Shown.from

(* None of the checks of update and of the settlement throws               *)
(* (adventure_movement_presentation_controller.cpp:230-257,                *)
(* adventure_screen.cpp:349-363).                                          *)
NothingThrows == fault = "None"

(* The film and the session stay together, so no check ever fails.         *)
FilmAndSessionAgree == FilmShowsTheMovement /\ NothingThrows

(* However the frames cut the time, a step is committed only after its     *)
(* segment was shown in full, and no time of an update is lost before the  *)
(* last segment: progress in steps is time divided by the duration         *)
(* (adventure_movement_presentation_controller.cpp:176-188).               *)
TimeIsKept ==
  [][film # NoFilm /\ film' # NoFilm /\ remaining > 0 =>
       SegmentDuration * segment + elapsed + remaining
         = SegmentDuration * segment' + elapsed' + remaining']_screenVars

(* A confirmed movement comes to its end: the stack stands still again and *)
(* the player has the controls back.                                       *)
MovementEnds ==
  (front = "screen" /\ mode = "Moving") ~> (mode = "StackSelected" /\ film = NoFilm)
=============================================================================
