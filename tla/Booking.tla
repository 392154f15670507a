------------------------------- MODULE Booking -------------------------------
(***************************************************************************)
(* What the coordinator's dispatcher promises about the tasks it gives     *)
(* away, although calls, executions and reports get lost: a task is given  *)
(* to one robot and once.  From then on all work on it is that robot's,    *)
(* and the task is done by some of this work and leaves none behind.       *)
(***************************************************************************)
CONSTANTS Task, Worker, NoBot

VARIABLES
  owner,  \* the robot a task was given to
  work,   \* <<t, w>>: robot w has been told, executes or reports t
  done    \* the tasks that are completed

Init == owner = [t \in Task |-> NoBot] /\ work = {} /\ done = {}

Give(t, w) ==
  /\ owner[t] = NoBot
  /\ owner' = [owner EXCEPT ![t] = w]
  /\ work' = work \cup {<<t, w>>}
  /\ done' = done

\* A call fails, an execution or a report is lost; nobody starts it again.
Lose ==
  /\ work' \subseteq work
  /\ UNCHANGED <<owner, done>>

Finish(t) ==
  /\ <<t, owner[t]>> \in work
  /\ work' = work \ {<<t, owner[t]>>}
  /\ done' = done \cup {t}
  /\ owner' = owner

Next == \/ Lose
        \/ \E t \in Task : Finish(t) \/ \E w \in Worker : Give(t, w)

Spec == Init /\ [][Next]_<<owner, work, done>>
=============================================================================
