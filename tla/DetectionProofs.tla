--------------------------- MODULE DetectionProofs ---------------------------
(***************************************************************************)
(* Theorems about Detection, for any number of detectors, any grid, and    *)
(* any length of their walks.                                              *)
(***************************************************************************)
EXTENDS Detection, TLAPS

\* A step of the zigzag stays on the grid.
LEMMA StepStaysInGrid ==
  ASSUME NEW x \in 0 .. Width - 1, NEW y \in 0 .. Height - 1, NEW down \in BOOLEAN
  PROVE  /\ Step(x, y, down)[1] \in 0 .. Width - 1
         /\ Step(x, y, down)[2] \in 0 .. Height - 1
         /\ Step(x, y, down)[3] \in BOOLEAN
<1> DEFINE right == Even(y) = down
           edge == x = IF right THEN Width - 1 ELSE 0
           last == y = IF down THEN Height - 1 ELSE 0
<1>1. Width \in Nat /\ Height \in Nat
  BY GridAssumption
<1>2. CASE ~edge
  <2>1. Step(x, y, down) = <<IF right THEN x + 1 ELSE x - 1, y, down>>
    BY <1>2 DEF Step
  <2> QED
    BY <1>1, <1>2, <2>1
<1>3. CASE edge /\ ~last
  <2>1. Step(x, y, down) = <<x, IF down THEN y + 1 ELSE y - 1, down>>
    BY <1>3 DEF Step
  <2> QED
    BY <1>1, <1>3, <2>1
<1>4. CASE edge /\ last
  <2>1. Step(x, y, down) = <<x, y, ~down>>
    BY <1>4 DEF Step
  <2> QED
    BY <2>1
<1> QED
  BY <1>2, <1>3, <1>4

\* What ends with a process is a result all the same.
LEMMA AbandonedResult ==
  ASSUME NEW R, "lost" \in R, NEW what \in [Find -> R], NEW d \in Detector
  PROVE  Abandoned(what, d) \in [Find -> R]
BY DEF Abandoned

-----------------------------------------------------------------------------
(***************************************************************************)
(* Types; no detector leaves the grid.                                     *)
(***************************************************************************)
Stages == {"none", "sending", "announced", "repaired", "over", "misnamed", "unreported", "lost"}

LEMMA InitTypeOK == Init => TypeOK
<1>1. <<0, 0>> \in Cell
  BY GridAssumption DEF Cell
<1> QED
  BY <1>1 DEF Init, TypeOK

LEMMA NextTypeOK == TypeOK /\ [Next]_vars => TypeOK'
<1> SUFFICES ASSUME TypeOK, [Next]_vars PROVE TypeOK'
  OBVIOUS
<1> USE DEF TypeOK, Stages, world, coordinator, walk
<1>1. ASSUME NEW d \in Detector, Register(d) PROVE TypeOK'
  BY <1>1 DEF Register
<1>2. ASSUME NEW d \in Detector, Look(d) PROVE TypeOK'
  <2>1. pos[d] \in Cell /\ <<d, pos[d]>> \in Find
    BY DEF Find
  <2>2. reported' \in [Detector -> SUBSET Cell]
    BY <1>2, <2>1 DEF Look
  <2>3. /\ event' \in [Find -> {"none", "sending", "over", "lost"}]
        /\ task' \in [Find -> Stages]
    BY <1>2, <2>1 DEF Look
  <2> QED
    BY <1>2, <2>2, <2>3 DEF Look
<1>3. ASSUME NEW d \in Detector, Move(d) PROVE TypeOK'
  <2> DEFINE next == Step(pos[d][1], pos[d][2], forward[d])
  <2>1. pos[d][1] \in 0 .. Width - 1 /\ pos[d][2] \in 0 .. Height - 1
    BY DEF Cell
  <2>2. <<next[1], next[2]>> \in Cell /\ next[3] \in BOOLEAN
    BY <2>1, StepStaysInGrid DEF Cell
  <2>3. pos' \in [Detector -> Cell] /\ forward' \in [Detector -> BOOLEAN]
    <3> HIDE DEF next
    <3>1. /\ pos' = [pos EXCEPT ![d] = <<next[1], next[2]>>]
          /\ forward' = [forward EXCEPT ![d] = next[3]]
      BY <1>3 DEF Move, next
    <3> QED
      BY <2>2, <3>1
  <2>4. stage' \in [Detector -> {"boot", "look", "move", "done", "exited"}]
    BY <1>3 DEF Move
  <2>5. steps' \in [Detector -> Nat]
    BY <1>3 DEF Move
  <2> QED
    BY <1>3, <2>3, <2>4, <2>5 DEF Move
<1>4. ASSUME NEW d \in Detector, Stop(d) PROVE TypeOK'
  BY <1>4 DEF Stop
<1>5. ASSUME NEW d \in Detector, Exit(d) PROVE TypeOK'
  <2>1. /\ event' \in [Find -> {"none", "sending", "over", "lost"}]
        /\ task' \in [Find -> Stages]
    BY <1>5, AbandonedResult DEF Exit
  <2> QED
    BY <1>5, <2>1 DEF Exit
<1>6. ASSUME NEW f \in Find, Announce(f) PROVE TypeOK'
  BY <1>6 DEF Announce
<1>7. ASSUME NEW f \in Find, HandleEvent(f) PROVE TypeOK'
  BY <1>7 DEF HandleEvent, Find
<1>8. ASSUME NEW f \in Find, Repair(f) PROVE TypeOK'
  BY <1>8 DEF Repair, DeleteProblem, HandleProblemDelete
<1>9. ASSUME NEW f \in Find, ReportCompletion(f) PROVE TypeOK'
  <2>1. known' \subseteq Cell /\ cleanups' \subseteq Cell
    BY <1>9 DEF ReportCompletion
  <2>2. task' \in [Find -> Stages]
    BY <1>9 DEF ReportCompletion
  <2> QED
    BY <1>9, <2>1, <2>2 DEF ReportCompletion
<1>10. ASSUME NEW c \in Cell, Place(c) PROVE TypeOK'
  BY <1>10 DEF Place
<1>11. ASSUME NEW c \in Cell, DeleteProblemFromWorld(c) PROVE TypeOK'
  BY <1>11 DEF DeleteProblemFromWorld, DeleteProblem, HandleProblemDelete
<1>12. CASE UNCHANGED vars
  BY <1>12 DEF vars
<1> QED
  BY <1>1, <1>2, <1>3, <1>4, <1>5, <1>6, <1>7, <1>8, <1>9, <1>10, <1>11, <1>12
  DEF Next, DetectorStep, FindStep

\* The maps and walks keep their types whatever is placed, lost or stopped; in
\* particular the zigzag of WalkMQTT stays on every grid.
THEOREM DetectionTyping == Spec => []TypeOK
<1>1. TypeOK /\ [Next]_vars => TypeOK'
  BY NextTypeOK
<1> QED
  BY <1>1, InitTypeOK, PTL DEF Spec

-----------------------------------------------------------------------------
(***************************************************************************)
(* A task is announced once: what a detector has made a task of is in its  *)
(* reported places, and these are never looked at again.                   *)
(***************************************************************************)
TasksAreReported == \A d \in Detector : \A c \in Cell : task[<<d, c>>] # "none" => c \in reported[d]

LEMMA NextTasksAreReported ==
  ASSUME TypeOK, TasksAreReported, [Next]_vars
  PROVE  TasksAreReported'
<1> SUFFICES ASSUME NEW d \in Detector, NEW c \in Cell, task'[<<d, c>>] # "none"
             PROVE  c \in reported'[d]
  BY DEF TasksAreReported
<1> USE DEF TypeOK, TasksAreReported
<1>1. <<d, c>> \in Find
  BY DEF Find
<1>2. CASE task[<<d, c>>] = "none"
  <2>1. \E e \in Detector : Look(e) /\ task' # task
    <3>1. ASSUME NEW e \in Detector, Exit(e) PROVE FALSE
      BY <1>1, <1>2, <3>1 DEF Exit, Abandoned
    <3>2. ASSUME NEW f \in Find, Announce(f) \/ Repair(f) \/ ReportCompletion(f) PROVE FALSE
      BY <1>1, <1>2, <3>2 DEF Announce, Repair, ReportCompletion
    <3>3. task' # task
      BY <1>2
    <3> QED
      BY <3>1, <3>2, <3>3 DEF Next, DetectorStep, FindStep, Register, Move, Stop,
         HandleEvent, Place, DeleteProblemFromWorld, vars
  <2>2. PICK e \in Detector : Look(e) /\ task' # task
    BY <2>1
  <2>3. /\ task' = [task EXCEPT ![<<e, pos[e]>>] = "sending"]
        /\ reported' = [reported EXCEPT ![e] = @ \cup {pos[e]}]
    BY <2>2 DEF Look
  <2>4. <<d, c>> = <<e, pos[e]>>
    BY <1>1, <1>2, <2>3
  <2> QED
    BY <2>3, <2>4
<1>3. CASE task[<<d, c>>] # "none"
  <2>1. c \in reported[d]
    BY <1>3
  <2>2. ASSUME NEW e \in Detector, Look(e) PROVE c \in reported'[d]
    BY <2>1, <2>2 DEF Look
  <2>3. CASE UNCHANGED reported
    BY <2>1, <2>3
  <2> QED
    BY <2>2, <2>3 DEF Next, DetectorStep, FindStep, Register, Move, Stop, Exit,
       Announce, HandleEvent, Repair, ReportCompletion, Place, DeleteProblemFromWorld,
       vars, walk
<1> QED
  BY <1>2, <1>3

LEMMA StepAnnouncesOnce ==
  ASSUME TypeOK, TasksAreReported, Next, NEW f \in Find,
         task[f] \notin {"none", "sending"}
  PROVE  task'[f] \notin {"none", "sending"}
<1> USE DEF TypeOK
<1>1. ASSUME NEW d \in Detector, Look(d) PROVE task'[f] = task[f]
  <2>1. CASE task' = task
    BY <2>1
  <2>2. CASE task' # task
    <3>1. pos[d] \notin reported[d] /\ task' = [task EXCEPT ![<<d, pos[d]>>] = "sending"]
      BY <1>1, <2>2 DEF Look
    <3>2. task[<<d, pos[d]>>] = "none"
      BY <3>1 DEF TasksAreReported
    <3> QED
      BY <3>1, <3>2
  <2> QED
    BY <2>1, <2>2
<1>2. ASSUME NEW d \in Detector, Exit(d) PROVE task'[f] = task[f]
  BY <1>2 DEF Exit, Abandoned
<1>3. ASSUME NEW g \in Find, Announce(g) \/ Repair(g) \/ ReportCompletion(g)
      PROVE  task'[f] \notin {"none", "sending"}
  BY <1>3 DEF Announce, Repair, ReportCompletion
<1>4. CASE UNCHANGED task
  BY <1>4
<1> QED
  BY <1>1, <1>2, <1>3, <1>4 DEF Next, DetectorStep, FindStep, Register, Move, Stop,
     HandleEvent, Place, DeleteProblemFromWorld

\* However many detectors walk, are stopped or fail to publish, none announces a
\* task a second time, as TaskAssignment takes for granted.
THEOREM TasksAreAnnouncedOnce == Spec => AnnouncedOnce
<1> DEFINE Once == \A f \in Find : task[f] \notin {"none", "sending"}
                                     => task'[f] \notin {"none", "sending"}
<1>1. Init => TasksAreReported
  BY DEF Init, TasksAreReported, Find
<1>2. TypeOK /\ TasksAreReported /\ [Next]_vars => TasksAreReported'
  BY NextTasksAreReported
<1>3. TypeOK /\ TasksAreReported /\ [Next]_vars => [Once]_vars
  <2> SUFFICES ASSUME TypeOK, TasksAreReported, Next PROVE Once
    OBVIOUS
  <2> QED
    BY StepAnnouncesOnce
<1>4. AnnouncedOnce <=> [][Once]_vars
  BY PTL DEF AnnouncedOnce
<1> HIDE DEF Once
<1> QED
  BY <1>1, <1>2, <1>3, <1>4, DetectionTyping, PTL DEF Spec

-----------------------------------------------------------------------------
(***************************************************************************)
(* Where publications are prompt, the map shows what is yet to be reported *)
(* or was not: never announced, or not reported, or not by its name.       *)
(***************************************************************************)
Pending(f) == task[f] \in {"sending", "announced", "repaired"}
Amiss(f) == task[f] \in {"lost", "unreported", "misnamed"}

\* Nothing is reported while the coordinator is still being told of the find, or the
\* event would put on the map what the report has cleared.
ToldInTime ==
  /\ \A f \in Find : event[f] = "sending" => task[f] \in {"sending", "announced", "lost"}
  /\ \A c \in known : \E d \in Detector : Pending(<<d, c>>) \/ Amiss(<<d, c>>)

\* A report of its place ends what is pending; no other step does, unless it goes
\* amiss, and that is for good.
LEMMA PendingKept ==
  ASSUME TypeOK, [Next]_vars, NEW f \in Find, Pending(f) \/ Amiss(f),
         f[2] \in known', f[2] \in known
  PROVE  (Pending(f) \/ Amiss(f))'
<1> USE DEF TypeOK, Pending, Amiss
<1>1. ASSUME NEW d \in Detector, Look(d) PROVE (Pending(f) \/ Amiss(f))'
  <2>1. \/ task' = task
        \/ task' = [task EXCEPT ![<<d, pos[d]>>] = "sending"]
    BY <1>1 DEF Look
  <2> QED
    BY <2>1
<1>2. ASSUME NEW d \in Detector, Exit(d) PROVE (Pending(f) \/ Amiss(f))'
  BY <1>2 DEF Exit, Abandoned
<1>3. ASSUME NEW g \in Find, Announce(g) \/ Repair(g) PROVE (Pending(f) \/ Amiss(f))'
  BY <1>3 DEF Announce, Repair
<1>4. ASSUME NEW g \in Find, ReportCompletion(g) PROVE (Pending(f) \/ Amiss(f))'
  <2>1. CASE \E c \in Cell : /\ task' = [task EXCEPT ![g] = IF c = g[2] THEN "over" ELSE "misnamed"]
                             /\ known' = known \ {c}
    BY <2>1
  <2>2. CASE task' = [task EXCEPT ![g] = "unreported"]
    BY <2>2
  <2> QED
    BY <1>4, <2>1, <2>2 DEF ReportCompletion
<1>5. CASE UNCHANGED task
  BY <1>5
<1> QED
  BY <1>1, <1>2, <1>3, <1>4, <1>5 DEF Next, DetectorStep, FindStep, Register, Move, Stop,
     HandleEvent, Place, DeleteProblemFromWorld, vars

LEMMA NextToldInTime ==
  ASSUME Prompt, TypeOK, ToldInTime, [Next]_vars
  PROVE  ToldInTime'
<1> USE DEF TypeOK
<1>1. ASSUME NEW f \in Find, event'[f] = "sending"
      PROVE  task'[f] \in {"sending", "announced", "lost"}
  <2>1. ASSUME NEW d \in Detector, Look(d)
        PROVE  task'[f] \in {"sending", "announced", "lost"}
    <3>1. \/ event' = event /\ task' = task
          \/ /\ event' = [event EXCEPT ![<<d, pos[d]>>] = "sending"]
             /\ task' = [task EXCEPT ![<<d, pos[d]>>] = "sending"]
      BY <2>1 DEF Look
    <3> QED
      BY <1>1, <3>1 DEF ToldInTime
  <2>2. ASSUME NEW d \in Detector, Exit(d)
        PROVE  task'[f] \in {"sending", "announced", "lost"}
    BY <1>1, <2>2 DEF Exit, Abandoned, ToldInTime
  <2>3. ASSUME NEW g \in Find, FindStep(g) \/ Repair(g)
        PROVE  task'[f] \in {"sending", "announced", "lost"}
    BY <1>1, <2>3 DEF FindStep, Announce, HandleEvent, ReportCompletion, Repair, ToldInTime
  <2>4. CASE UNCHANGED <<event, task>>
    BY <1>1, <2>4 DEF ToldInTime
  <2> QED
    BY <2>1, <2>2, <2>3, <2>4 DEF Next, DetectorStep, Register, Move, Stop, Place,
       DeleteProblemFromWorld, vars
<1>2. ASSUME NEW c \in known' PROVE \E d \in Detector : (Pending(<<d, c>>) \/ Amiss(<<d, c>>))'
  <2>1. CASE c \in known
    <3>1. PICK d \in Detector : Pending(<<d, c>>) \/ Amiss(<<d, c>>)
      BY <2>1 DEF ToldInTime
    <3>2. <<d, c>> \in Find /\ <<d, c>>[2] = c
      BY <2>1 DEF Find
    <3> QED
      BY <1>2, <2>1, <3>1, <3>2, PendingKept
  <2>2. CASE c \notin known
    <3>1. PICK f \in Find : HandleEvent(f) /\ event[f] = "sending" /\ f[2] = c
      BY <1>2, <2>2 DEF Next, DetectorStep, FindStep, Register, Look, Move, Stop, Exit, Announce,
         HandleEvent, Repair, ReportCompletion, Place, DeleteProblemFromWorld, vars, coordinator
    <3>2. (Pending(f) \/ Amiss(f))'
      BY <3>1 DEF ToldInTime, Pending, Amiss, HandleEvent
    <3>3. f[1] \in Detector /\ f = <<f[1], c>>
      BY <3>1 DEF Find
    <3> QED
      BY <3>2, <3>3
  <2> QED
    BY <2>1, <2>2
<1> QED
  BY <1>1, <1>2 DEF ToldInTime

\* If publications are prompt, every mark of the coordinator where there is no problem
\* is about to be cleared, or its task was never announced, or the report of it was
\* lost or named another place, however many detectors found it and whatever failed.
THEOREM MarksHaveReasons == ASSUME Prompt PROVE Spec => []MarksAreExplained
<1>1. Init => ToldInTime
  BY DEF Init, ToldInTime
<1>2. TypeOK /\ ToldInTime /\ [Next]_vars => ToldInTime'
  BY NextToldInTime
<1>3. ToldInTime => MarksAreExplained
  BY DEF ToldInTime, MarksAreExplained, Pending, Amiss
<1> QED
  BY <1>1, <1>2, <1>3, DetectionTyping, PTL DEF Spec

-----------------------------------------------------------------------------
(***************************************************************************)
(* The zigzag goes round all places.                                       *)
(***************************************************************************)
\* A row further down has all its numbers behind those of the row above.
LEMMA RowsApart ==
  ASSUME NEW y \in Nat, NEW z \in Nat, y < z
  PROVE  y * Width + Width <= z * Width
<1>1. Width \in Nat
  BY GridAssumption
<1>2. PICK k \in Nat : z = y + 1 + k
  <2>1. z - y - 1 \in Nat /\ z = y + 1 + (z - y - 1)
    OBVIOUS
  <2> QED
    BY <2>1
<1>3. z * Width = y * Width + Width + k * Width
  BY <1>1, <1>2
<1>4. k * Width \in Nat /\ y * Width \in Nat
  BY <1>1
<1> QED
  BY <1>1, <1>3, <1>4

\* The next row in either direction.
LEMMA NextRow ==
  ASSUME NEW y \in Nat
  PROVE  /\ y * Width \in Nat
         /\ (y + 1) * Width = y * Width + Width
         /\ (y - 1) * Width = y * Width - Width
BY GridAssumption

\* Rows are even and odd in turn.
LEMMA EvenAndOdd ==
  ASSUME NEW y \in Nat
  PROVE  /\ Even(y + 1) = ~Even(y)
         /\ y > 0 => Even(y - 1) = ~Even(y)
         /\ Even(0)
BY DEF Even

\* Along a row, and its number among the places.
Along(x, y) == IF Even(y) THEN x ELSE Width - 1 - x
Number(x, y) == y * Width + Along(x, y)

LEMMA NumberInRow ==
  ASSUME NEW x \in 0 .. Width - 1, NEW y \in 0 .. Height - 1
  PROVE  /\ Along(x, y) \in 0 .. Width - 1
         /\ y * Width \in Nat
         /\ Number(x, y) \in 0 .. Width * Height - 1
<1>1. Width \in Nat \ {0} /\ Height \in Nat \ {0}
  BY GridAssumption
<1>2. Along(x, y) \in 0 .. Width - 1
  BY <1>1 DEF Along
<1>3. y \in Nat /\ Height \in Nat /\ y < Height
  BY <1>1
<1>4. y * Width + Width <= Height * Width /\ y * Width \in Nat
  BY <1>3, RowsApart, NextRow
<1>5. Height * Width = Width * Height
  BY <1>1
<1> QED
  BY <1>1, <1>2, <1>4, <1>5 DEF Number

\* The turn after the last is the first.
LEMMA NextTurn ==
  ASSUME NEW r \in Nat \ {0}, NEW n \in 0 .. r - 1
  PROVE  (n + 1) % r = IF n + 1 = r THEN 0 ELSE n + 1
<1>1. CASE n + 1 = r
  BY <1>1
<1>2. CASE n + 1 # r
  BY <1>2
<1> QED
  BY <1>1, <1>2

\* On the way down a step leads to the next number, until the last place is reached.
LEMMA StepDown ==
  ASSUME NEW x \in 0 .. Width - 1, NEW y \in 0 .. Height - 1,
         NEW down \in BOOLEAN, NEW next, next = Step(x, y, down)
  PROVE  down => \/ next[3] = down /\ Number(next[1], next[2]) = Number(x, y) + 1
                 \/ /\ next[3] = ~down /\ Number(next[1], next[2]) = Number(x, y)
                    /\ Number(x, y) = Width * Height - 1
<1> DEFINE edge == x = IF Even(y) THEN Width - 1 ELSE 0
<1>1. Width \in Nat \ {0} /\ Height \in Nat \ {0} /\ Even(y) \in BOOLEAN
  BY GridAssumption DEF Even
<1>2. /\ y * Width \in Nat /\ Along(x, y) \in Int
      /\ Number(x, y) = y * Width + Along(x, y)
  BY <1>1, NumberInRow DEF Number
<1>3. CASE down /\ ~edge
  <2> DEFINE u == IF Even(y) THEN x + 1 ELSE x - 1
  <2>1. next = <<u, y, down>>
    BY <1>1, <1>3 DEF Step
  <2>2. Along(u, y) = Along(x, y) + 1
    BY <1>1 DEF Along
  <2> HIDE DEF u
  <2>3. next[1] = u /\ next[2] = y /\ next[3] = down
    BY <2>1
  <2>4. Number(next[1], next[2]) = y * Width + Along(u, y)
    BY <2>3 DEF Number
  <2>5. Number(next[1], next[2]) = Number(x, y) + 1
    BY <1>2, <2>2, <2>4
  <2> QED
    BY <2>3, <2>5, Zenon
<1>4. CASE down /\ edge /\ y # Height - 1
  <2>1. next = <<x, y + 1, down>>
    BY <1>1, <1>4 DEF Step
  <2>2. Along(x, y) = Width - 1 /\ Along(x, y + 1) = 0
    BY <1>1, <1>4, EvenAndOdd DEF Along
  <2>3. (y + 1) * Width = y * Width + Width
    BY NextRow
  <2>4. next[1] = x /\ next[2] = y + 1 /\ next[3] = down
    BY <2>1
  <2>5. Number(next[1], next[2]) = (y + 1) * Width + Along(x, y + 1)
    BY <2>4 DEF Number
  <2>6. Number(next[1], next[2]) = Number(x, y) + 1
    BY <1>1, <1>2, <2>2, <2>3, <2>5
  <2> QED
    BY <2>4, <2>6, Zenon
<1>5. CASE down /\ edge /\ y = Height - 1
  <2>1. next = <<x, y, ~down>>
    BY <1>1, <1>5 DEF Step
  <2>2. Along(x, y) = Width - 1
    BY <1>1, <1>5 DEF Along
  <2>3. y * Width = Width * Height - Width
    BY <1>1, <1>5
  <2>4. next[1] = x /\ next[2] = y /\ next[3] = ~down
    BY <2>1
  <2>5. /\ Number(next[1], next[2]) = Number(x, y)
        /\ Number(x, y) = Width * Height - 1
    BY <1>1, <1>2, <2>2, <2>3, <2>4
  <2> QED
    BY <2>4, <2>5, Zenon
<1> QED
  BY <1>3, <1>4, <1>5

\* On the way up it leads to the one before, until the first place is reached.
LEMMA StepUp ==
  ASSUME NEW x \in 0 .. Width - 1, NEW y \in 0 .. Height - 1,
         NEW down \in BOOLEAN, ~down, NEW next, next = Step(x, y, down)
  PROVE  \/ next[3] = down /\ Number(next[1], next[2]) = Number(x, y) - 1
         \/ /\ next[3] = ~down /\ Number(next[1], next[2]) = Number(x, y)
            /\ Number(x, y) = 0
<1> DEFINE edge == x = IF Even(y) THEN 0 ELSE Width - 1
<1>1. Width \in Nat \ {0} /\ Height \in Nat \ {0} /\ Even(y) \in BOOLEAN
  BY GridAssumption DEF Even
<1>2. /\ y * Width \in Nat /\ Along(x, y) \in Int
      /\ Number(x, y) = y * Width + Along(x, y)
  BY <1>1, NumberInRow DEF Number
<1>3. CASE ~edge
  <2> DEFINE u == IF Even(y) THEN x - 1 ELSE x + 1
  <2>1. next = <<u, y, down>>
    BY <1>1, <1>3 DEF Step
  <2>2. Along(u, y) = Along(x, y) - 1
    BY <1>1 DEF Along
  <2> HIDE DEF u
  <2>3. next[1] = u /\ next[2] = y /\ next[3] = down
    BY <2>1
  <2>4. Number(next[1], next[2]) = y * Width + Along(u, y)
    BY <2>3 DEF Number
  <2> QED
    BY <1>2, <2>2, <2>3, <2>4
<1>4. CASE edge /\ y # 0
  <2>1. next = <<x, y - 1, down>>
    BY <1>1, <1>4 DEF Step
  <2>2. Along(x, y) = 0 /\ Along(x, y - 1) = Width - 1
    BY <1>1, <1>4, EvenAndOdd DEF Along
  <2>3. (y - 1) * Width = y * Width - Width
    BY NextRow
  <2>4. next[1] = x /\ next[2] = y - 1 /\ next[3] = down
    BY <2>1
  <2>5. Number(next[1], next[2]) = (y - 1) * Width + Along(x, y - 1)
    BY <2>4 DEF Number
  <2> QED
    BY <1>1, <1>2, <2>2, <2>3, <2>4, <2>5
<1>5. CASE edge /\ y = 0
  <2>1. next = <<x, y, ~down>>
    BY <1>1, <1>5 DEF Step
  <2>2. Along(x, y) = 0
    BY <1>1, <1>5 DEF Along
  <2>3. y * Width = 0
    BY <1>1, <1>5
  <2>4. next[1] = x /\ next[2] = y /\ next[3] = ~down
    BY <2>1
  <2> QED
    BY <1>1, <1>2, <2>2, <2>3, <2>4
<1> QED
  BY <1>3, <1>4, <1>5

\* Either way, to the place whose turn is next.
LEMMA StepTakesTurn ==
  ASSUME NEW x \in 0 .. Width - 1, NEW y \in 0 .. Height - 1, NEW down \in BOOLEAN
  PROVE  Turn(Step(x, y, down)[1], Step(x, y, down)[2], Step(x, y, down)[3]) =
           (Turn(x, y, down) + 1) % Round
<1> DEFINE last == Width * Height - 1
           next == Step(x, y, down)
           m == Number(next[1], next[2])
           turn == Turn(x, y, down)
<1>1. last \in Nat /\ Round = 2 * last + 2
  BY GridAssumption DEF Round
<1>2. Number(x, y) \in 0 .. last /\ m \in 0 .. last
  BY NumberInRow, StepStaysInGrid
<1>3. /\ turn = IF down THEN Number(x, y) ELSE Round - 1 - Number(x, y)
      /\ Turn(next[1], next[2], next[3]) = IF next[3] THEN m ELSE Round - 1 - m
  BY DEF Turn, Number, Along
<1>r. Round \in Nat \ {0}
  BY <1>1
<1>4. CASE down
  <2>1. \/ next[3] = down /\ m = Number(x, y) + 1
        \/ next[3] = ~down /\ m = Number(x, y) /\ m = last
    BY <1>4, StepDown
  <2> HIDE DEF last, next, m, turn
  <2>a. \/ next[3] /\ m = Number(x, y) + 1
        \/ ~next[3] /\ m = Number(x, y) /\ m = last
    BY <1>4, <2>1, Zenon
  <2>2. Turn(next[1], next[2], next[3]) = Number(x, y) + 1
    BY <1>1, <1>2, <1>3, <2>a
  <2>3. turn = Number(x, y) /\ turn \in 0 .. Round - 1 /\ turn + 1 # Round
    BY <1>1, <1>2, <1>3, <1>4
  <2>4. (turn + 1) % Round = turn + 1
    BY <1>r, <2>3, NextTurn
  <2> QED
    BY <2>2, <2>3, <2>4 DEF next, turn
<1>5. CASE ~down
  <2>1. \/ next[3] = down /\ m = Number(x, y) - 1
        \/ next[3] = ~down /\ m = Number(x, y) /\ m = 0
    BY <1>5, StepUp
  <2> HIDE DEF last, next, m, turn
  <2>2. CASE next[3] = down /\ m = Number(x, y) - 1
    <3>1. Turn(next[1], next[2], next[3]) = Round - Number(x, y)
      BY <1>1, <1>2, <1>3, <1>5, <2>2
    <3>2. /\ turn = Round - 1 - Number(x, y)
          /\ turn \in 0 .. Round - 1 /\ turn + 1 # Round
      BY <1>1, <1>2, <1>3, <1>5, <2>2
    <3>3. (turn + 1) % Round = turn + 1
      BY <1>r, <3>2, NextTurn
    <3>4. Turn(next[1], next[2], next[3]) = (turn + 1) % Round
      BY <1>1, <1>2, <3>1, <3>2, <3>3
    <3> QED
      BY <3>4 DEF next, turn
  <2>3. CASE next[3] = ~down /\ m = Number(x, y) /\ m = 0
    <3>1. Turn(next[1], next[2], next[3]) = 0
      BY <1>3, <1>5, <2>3
    <3>2. turn \in 0 .. Round - 1 /\ turn + 1 = Round
      BY <1>1, <1>2, <1>3, <1>5, <2>3
    <3>3. (turn + 1) % Round = 0
      BY <1>r, <3>2, NextTurn
    <3> QED
      BY <3>1, <3>3 DEF next, turn
  <2> QED
    BY <2>1, <2>2, <2>3
<1> QED
  BY <1>4, <1>5

\* No two places have the same number, so that no two have the same turn.
LEMMA NumbersAreUnique ==
  ASSUME NEW c \in Cell, NEW e \in Cell, Number(c[1], c[2]) = Number(e[1], e[2])
  PROVE  c = e
<1>1. /\ c = <<c[1], c[2]>> /\ c[1] \in 0 .. Width - 1 /\ c[2] \in 0 .. Height - 1
      /\ e = <<e[1], e[2]>> /\ e[1] \in 0 .. Width - 1 /\ e[2] \in 0 .. Height - 1
      /\ Width \in Nat /\ Height \in Nat
  BY GridAssumption DEF Cell
<1>2. /\ Along(c[1], c[2]) \in 0 .. Width - 1 /\ c[2] * Width \in Nat
      /\ Along(e[1], e[2]) \in 0 .. Width - 1 /\ e[2] * Width \in Nat
  BY <1>1, NumberInRow
<1>3. c[2] * Width + Along(c[1], c[2]) = e[2] * Width + Along(e[1], e[2])
  BY DEF Number
<1>4. ~(c[2] < e[2])
  <2>1. c[2] < e[2] => c[2] * Width + Width <= e[2] * Width
    BY <1>1, RowsApart
  <2> QED
    BY <1>1, <1>2, <1>3, <2>1
<1>5. ~(e[2] < c[2])
  <2>1. e[2] < c[2] => e[2] * Width + Width <= c[2] * Width
    BY <1>1, RowsApart
  <2> QED
    BY <1>1, <1>2, <1>3, <2>1
<1>6. c[2] = e[2]
  BY <1>1, <1>4, <1>5
<1>7. Along(c[1], c[2]) = Along(e[1], e[2])
  BY <1>2, <1>3, <1>6
<1>8. c[1] = e[1]
  BY <1>1, <1>6, <1>7 DEF Along
<1> QED
  BY <1>1, <1>6, <1>8

\* A detector that is at one place when it is another's turn is at both.
LEMMA TurnsAreUnique ==
  ASSUME NEW c \in Cell, NEW e \in Cell, NEW down \in BOOLEAN,
         Turn(c[1], c[2], down) = Turn(e[1], e[2], down)
  PROVE  c = e
<1>1. /\ c[1] \in 0 .. Width - 1 /\ c[2] \in 0 .. Height - 1
      /\ e[1] \in 0 .. Width - 1 /\ e[2] \in 0 .. Height - 1
  BY DEF Cell
<1>2. Number(c[1], c[2]) \in Int /\ Number(e[1], e[2]) \in Int
  BY <1>1, NumberInRow, GridAssumption
<1>3. Round \in Nat
  BY GridAssumption DEF Round
<1>4. Number(c[1], c[2]) = Number(e[1], e[2])
  BY <1>2, <1>3 DEF Turn, Number, Along
<1> QED
  BY <1>4, NumbersAreUnique

LEMMA NextPlaceInTurn ==
  ASSUME TypeOK, [Next]_vars, NEW d \in Detector, steps'[d] # steps[d]
  PROVE  Turn(pos'[d][1], pos'[d][2], forward'[d]) =
           (Turn(pos[d][1], pos[d][2], forward[d]) + 1) % Round
<1>1. Move(d)
  <2>1. ASSUME NEW e \in Detector, Move(e) PROVE e = d
    BY <2>1 DEF Move, TypeOK
  <2>2. UNCHANGED steps \/ \E e \in Detector : Move(e)
    BY DEF Next, DetectorStep, FindStep, Register, Look, Stop, Exit, Announce, HandleEvent,
       Repair, ReportCompletion, Place, DeleteProblemFromWorld, vars, walk
  <2> QED
    BY <2>1, <2>2
<1> DEFINE next == Step(pos[d][1], pos[d][2], forward[d])
<1>2. pos[d][1] \in 0 .. Width - 1 /\ pos[d][2] \in 0 .. Height - 1 /\ forward[d] \in BOOLEAN
  BY DEF TypeOK, Cell
<1>3. Turn(next[1], next[2], next[3]) = (Turn(pos[d][1], pos[d][2], forward[d]) + 1) % Round
  BY <1>2, StepTakesTurn
<1>4. pos'[d] = <<next[1], next[2]>> /\ forward'[d] = next[3]
  <2>1. /\ pos' = [pos EXCEPT ![d] = <<next[1], next[2]>>]
        /\ forward' = [forward EXCEPT ![d] = next[3]]
    BY <1>1 DEF Move
  <2> HIDE DEF next
  <2> QED
    BY <2>1 DEF TypeOK
<1> HIDE DEF next
<1> QED
  BY <1>3, <1>4

\* On every grid the walk is a tour of all places, in both directions: each step leads
\* to the place whose turn is next, and (TurnsAreUnique) no turn belongs to two places.
THEOREM ZigzagLeavesNothingOut == Spec => EveryPlaceInTurn
<1>1. TypeOK /\ [Next]_vars =>
        [\A d \in Detector : steps'[d] # steps[d] =>
           Turn(pos'[d][1], pos'[d][2], forward'[d]) =
             (Turn(pos[d][1], pos[d][2], forward[d]) + 1) % Round]_vars
  BY NextPlaceInTurn
<1> QED
  BY <1>1, DetectionTyping, PTL DEF Spec, EveryPlaceInTurn
=============================================================================
