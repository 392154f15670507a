------------------------------ MODULE Detection ------------------------------
(***************************************************************************)
(* How problems come to be known: the world service (internal/world), the  *)
(* detectors that walk the grid (internal/detector), and the map that the  *)
(* coordinator keeps (cmd/coordinator, internal/coordinator).              *)
(*                                                                         *)
(* A detector's walk is one goroutine; each find starts two more, one that *)
(* tells the coordinator and one that announces a task to the leader.      *)
(* Handlers of the world and of the coordinator are single critical        *)
(* sections.  What leader and bots do with a task is TaskAssignment; here  *)
(* an announced task is carried out some time, or never.                   *)
(***************************************************************************)
EXTENDS Integers

CONSTANTS
  Detector,   \* the detectors
  Width,      \* size of the grid
  Height,
  Steps,      \* iterations of the loop of WalkMQTT, 1000 in the code
  Stoppable,  \* detectors that may be stopped, or die
  Failing,    \* whether requests to the world and publications may fail
  Prompt,     \* whether publications end within the pause between two steps
  MaxPlaced   \* bound: how many problems people put on the grid

ASSUME GridAssumption == Width \in Nat \ {0} /\ Height \in Nat \ {0}
ASSUME WalkAssumption == Steps \in Nat \ {0} /\ MaxPlaced \in Nat
ASSUME FailureAssumption == Failing \in BOOLEAN /\ Prompt \in BOOLEAN

VARIABLES
  problems,  \* State.Problems of the world service
  placed,    \* how many problems were placed
  known,     \* State.KnownProblems of the coordinator
  cleanups,  \* DELETE requests of the coordinator under way
  stage,     \* where the loop of a detector is
  pos,       \* its position
  forward,   \* whether it is on its way down
  steps,     \* the loop variable
  reported,  \* the places it has reported
  event,     \* what became of the report of a find to the coordinator
  task       \* what became of the task made of a find

world == <<problems, placed>>
coordinator == <<known, cleanups>>
walk == <<stage, pos, forward, steps, reported>>
vars == <<world, coordinator, walk, event, task>>

-----------------------------------------------------------------------------
\* Places, and the tasks named after a detector and a place.  A place holds at
\* most one problem; of which type is not modelled.
Cell == (0 .. Width - 1) \X (0 .. Height - 1)
Find == Detector \X Cell

\* The requests the world service answers under its lock.
HandleProblemAt(c) == c \in problems
HandleProblemDelete(c) == problems' = problems \ {c} /\ UNCHANGED placed

\* A DELETE that fails is only logged, by bots and by the coordinator.
DeleteProblem(c) == HandleProblemDelete(c) \/ (Failing /\ UNCHANGED world)

\* A failed request finds nothing.
CheckForProblem(c, found) == found = HandleProblemAt(c) \/ (Failing /\ ~found)

Walking(d) == stage[d] \in {"look", "move"}
Even(n) == n % 2 = 0

\* A variant of Step with a bug: the way up ends a row too early.
StepSkipsTop(x, y, down) ==
  LET right == Even(y) = down
      edge == x = IF right THEN Width - 1 ELSE 0
      last == y = IF down THEN Height - 1 ELSE 1
  IN  IF ~edge THEN <<IF right THEN x + 1 ELSE x - 1, y, down>>
      ELSE IF ~last THEN <<x, IF down THEN y + 1 ELSE y - 1, down>>
      ELSE <<x, y, ~down>>

\* Another one: the width itself is taken for the last column.
StepBeyond(x, y, down) ==
  IF Even(y) = down
    THEN IF x < Width THEN <<x + 1, y, down>> ELSE <<x, y, ~down>>
    ELSE IF x > 0 THEN <<x - 1, y, down>> ELSE <<x, y, ~down>>

\* The zigzag: <<x, y, whether the way is down>> after one step from there.
Step(x, y, down) ==
  LET right == Even(y) = down
      edge == x = IF right THEN Width - 1 ELSE 0
      last == y = IF down THEN Height - 1 ELSE 0
  IN  IF ~edge THEN <<IF right THEN x + 1 ELSE x - 1, y, down>>
      ELSE IF ~last THEN <<x, IF down THEN y + 1 ELSE y - 1, down>>
      ELSE <<x, y, ~down>>

\* Goroutines that d's process takes with it when it ends.
Abandoned(what, d) ==
  [f \in Find |-> IF f[1] = d /\ what[f] = "sending" THEN "lost" ELSE what[f]]

-----------------------------------------------------------------------------
(***************************************************************************)
(* Variants with a bug, to be put in the place of a definition below.      *)
(***************************************************************************)
\* Look: places that were reported are not remembered.
LookForgets(d) ==
  /\ stage[d] = "look"
  /\ \E found \in BOOLEAN :
       /\ CheckForProblem(pos[d], found)
       /\ IF found
            THEN /\ task' = [task EXCEPT ![<<d, pos[d]>>] = "sending"]
                 /\ event' = [event EXCEPT ![<<d, pos[d]>>] = "sending"]
            ELSE UNCHANGED <<task, event>>
  /\ stage' = [stage EXCEPT ![d] = "move"]
  /\ UNCHANGED <<world, coordinator, pos, forward, steps, reported>>

\* ReportCompletion: nothing is done about a task the coordinator has not made.
ReportKeepsMap(f) ==
  /\ task[f] = "repaired"
  /\ \/ \E c \in Cell : /\ task' = [task EXCEPT ![f] = IF c = f[2] THEN "over" ELSE "misnamed"]
                       /\ cleanups' = cleanups \cup {c}
     \/ Failing /\ task' = [task EXCEPT ![f] = "unreported"] /\ UNCHANGED cleanups
  /\ UNCHANGED <<world, known, walk, event>>

-----------------------------------------------------------------------------
Init ==
  /\ problems = {} /\ placed = 0
  /\ known = {} /\ cleanups = {}
  /\ stage = [d \in Detector |-> "boot"]
  /\ pos = [d \in Detector |-> <<0, 0>>]
  /\ forward = [d \in Detector |-> TRUE]
  /\ steps = [d \in Detector |-> 0]
  /\ reported = [d \in Detector |-> {}]
  /\ event = [f \in Find |-> "none"]
  /\ task = [f \in Find |-> "none"]

\* handleProblemUpsert: a place that has a problem keeps it.
Place(c) ==
  /\ c \notin problems
  /\ placed < MaxPlaced
  /\ problems' = problems \cup {c}
  /\ placed' = placed + 1
  /\ UNCHANGED <<coordinator, walk, event, task>>

\* The coordinator puts a new detector anywhere on the grid.
Register(d) ==
  /\ stage[d] = "boot"
  /\ \E start \in Cell : pos' = [pos EXCEPT ![d] = start]
  /\ stage' = [stage EXCEPT ![d] = "look"]
  /\ UNCHANGED <<world, coordinator, forward, steps, reported, event, task>>

(***************************************************************************)
(* WalkMQTT.                                                               *)
(***************************************************************************)
Look(d) ==
  /\ stage[d] = "look"
  /\ \E found \in BOOLEAN :
       /\ CheckForProblem(pos[d], found)
       /\ IF found /\ pos[d] \notin reported[d]
            THEN /\ reported' = [reported EXCEPT ![d] = @ \cup {pos[d]}]
                 /\ task' = [task EXCEPT ![<<d, pos[d]>>] = "sending"]
                 /\ event' = [event EXCEPT ![<<d, pos[d]>>] = "sending"]
            ELSE UNCHANGED <<reported, task, event>>
  /\ stage' = [stage EXCEPT ![d] = "move"]
  /\ UNCHANGED <<world, coordinator, pos, forward, steps>>

\* After half a second: long enough for the goroutines of the last step, when
\* they are prompt.
Settled(d) == Prompt => \A c \in Cell : "sending" \notin {task[<<d, c>>], event[<<d, c>>]}

Move(d) ==
  /\ stage[d] = "move"
  /\ Settled(d)
  /\ LET next == Step(pos[d][1], pos[d][2], forward[d])
     IN  /\ pos' = [pos EXCEPT ![d] = <<next[1], next[2]>>]
         /\ forward' = [forward EXCEPT ![d] = next[3]]
  /\ steps' = [steps EXCEPT ![d] = @ + 1]
  /\ stage' = [stage EXCEPT ![d] = IF steps[d] + 1 < Steps THEN "look" ELSE "done"]
  /\ UNCHANGED <<world, coordinator, reported, event, task>>

\* A signal ends the loop; a crash is a signal with the end right behind it.
Stop(d) ==
  /\ d \in Stoppable
  /\ Walking(d)
  /\ stage' = [stage EXCEPT ![d] = "done"]
  /\ UNCHANGED <<world, coordinator, pos, forward, steps, reported, event, task>>

Exit(d) ==
  /\ stage[d] = "done"
  /\ stage' = [stage EXCEPT ![d] = "exited"]
  /\ event' = Abandoned(event, d)
  /\ task' = Abandoned(task, d)
  /\ UNCHANGED <<world, coordinator, pos, forward, steps, reported>>

\* PublishNewTask reaches the leader, or fails, which only logs.
Announce(f) ==
  /\ task[f] = "sending"
  /\ \/ task' = [task EXCEPT ![f] = "announced"]
     \/ Failing /\ task' = [task EXCEPT ![f] = "lost"]
  /\ UNCHANGED <<world, coordinator, walk, event>>

(***************************************************************************)
(* The coordinator's map.                                                  *)
(***************************************************************************)
\* PublishEvent and handleEventMessage, which keeps what it knows.
HandleEvent(f) ==
  /\ event[f] = "sending"
  /\ \/ known' = known \cup {f[2]} /\ event' = [event EXCEPT ![f] = "over"]
     \/ Failing /\ event' = [event EXCEPT ![f] = "lost"] /\ UNCHANGED known
  /\ UNCHANGED <<world, cleanups, walk, task>>

\* A bot has carried out the task, which takes more than a second, and deletes
\* the problem itself ...
Repair(f) ==
  /\ task[f] = "announced"
  /\ Prompt => event[f] # "sending"
  /\ task' = [task EXCEPT ![f] = "repaired"]
  /\ DeleteProblem(f[2])
  /\ UNCHANGED <<coordinator, walk, event>>

\* ... and reports to the coordinator, once; a failure is only logged.  The bot has
\* been idle since before its last publications and names the place where it is by
\* now, maybe on its next walk: that one is taken off the map and deleted once more.
ReportCompletion(f) ==
  /\ task[f] = "repaired"
  /\ \/ \E c \in Cell : /\ task' = [task EXCEPT ![f] = IF c = f[2] THEN "over" ELSE "misnamed"]
                       /\ known' = known \ {c}
                       /\ cleanups' = cleanups \cup {c}
     \/ Failing /\ task' = [task EXCEPT ![f] = "unreported"] /\ UNCHANGED coordinator
  /\ UNCHANGED <<world, walk, event>>

DeleteProblemFromWorld(c) ==
  /\ c \in cleanups
  /\ cleanups' = cleanups \ {c}
  /\ DeleteProblem(c)
  /\ UNCHANGED <<known, walk, event, task>>

DetectorStep(d) == Register(d) \/ Look(d) \/ Move(d) \/ Exit(d)

FindStep(f) == Announce(f) \/ HandleEvent(f) \/ ReportCompletion(f)

Next == \/ \E d \in Detector : DetectorStep(d) \/ Stop(d)
        \/ \E f \in Find : FindStep(f) \/ Repair(f)
        \/ \E c \in Cell : Place(c) \/ DeleteProblemFromWorld(c)

Spec == Init /\ [][Next]_vars

\* Loops and goroutines go on, and what a bot reports is dealt with.  Nothing is
\* said of bots: a task may never be carried out.
Progress ==
  /\ \A d \in Detector : WF_vars(DetectorStep(d))
  /\ \A f \in Find : WF_vars(Announce(f)) /\ WF_vars(HandleEvent(f)) /\ WF_vars(ReportCompletion(f))
  /\ \A c \in Cell : WF_vars(DeleteProblemFromWorld(c))

FairSpec == Spec /\ Progress

-----------------------------------------------------------------------------
(***************************************************************************)
(* Properties.                                                             *)
(***************************************************************************)
\* Maps, requests and walks keep their types; no detector leaves the grid.
TypeOK ==
  /\ problems \subseteq Cell /\ known \subseteq Cell /\ cleanups \subseteq Cell
  /\ placed \in Nat
  /\ stage \in [Detector -> {"boot", "look", "move", "done", "exited"}]
  /\ pos \in [Detector -> Cell]
  /\ forward \in [Detector -> BOOLEAN]
  /\ steps \in [Detector -> Nat]
  /\ reported \in [Detector -> SUBSET Cell]
  /\ event \in [Find -> {"none", "sending", "over", "lost"}]
  /\ task \in [Find -> {"none", "sending", "announced", "repaired", "over", "misnamed",
                       "unreported", "lost"}]

\* No task is announced a second time: the leader keeps no record of tasks that
\* are done and would send a bot again.
AnnouncedOnce ==
  [][\A f \in Find : task[f] \notin {"none", "sending"} => task'[f] \notin {"none", "sending"}]_vars

\* The places numbered along the way down, and on along the way up.
Round == 2 * Width * Height
Turn(x, y, down) ==
  LET n == y * Width + IF Even(y) THEN x ELSE Width - 1 - x
  IN  IF down THEN n ELSE Round - 1 - n

\* The zigzag leaves no place out, at the corners and edges of any grid: wherever it
\* begins, each step leads to the place whose turn is next, and every place has one
\* turn on the way down and one on the way up.
EveryPlaceInTurn ==
  [][\A d \in Detector : steps'[d] # steps[d] =>
       Turn(pos'[d][1], pos'[d][2], forward'[d]) =
         (Turn(pos[d][1], pos[d][2], forward[d]) + 1) % Round]_vars

\* d has not reported c and has enough of its walk left to go round once.
Watching(d, c) ==
  /\ d \notin Stoppable
  /\ Walking(d)
  /\ c \notin reported[d]
  /\ steps[d] + Round <= Steps

\* Wherever a detector stands and whichever way it goes, a problem that stays
\* where it is gets announced by it within 2 * Width * Height further steps, if no
\* request or publication fails: a place is marked as reported before it is
\* announced, and when that fails nobody tries again.  Of the 1000 steps on the grid
\* of 20 by 20 the bound leaves the first 200 for problems to appear in; of those
\* that appear later nothing is said.
EveryProblemIsFound ==
  \A d \in Detector : \A c \in Cell :
    c \in problems /\ Watching(d, c)
      ~> \/ c \notin problems
         \/ task[<<d, c>>] \notin {"none", "sending", "lost"}

\* The coordinator takes a place off its map only when a bot reports it, and shows it
\* for good otherwise.  A mark where there is no problem has a task whose
\* report is yet to come; or there is one of three reasons why it stays: the task
\* was never announced, or the report was lost, or it named another place.  There is no fourth,
\* where publications are prompt, although several detectors find one problem and
\* tell of it when it has been repaired already, and although wrong reports and
\* failed deletions leave the map, the world and the tasks with different views.
MarksAreExplained ==
  \A c \in known \ problems :
    \E d \in Detector :
      \/ task[<<d, c>>] \in {"sending", "announced", "repaired"}
      \/ task[<<d, c>>] \in {"lost", "unreported", "misnamed"}
=============================================================================
