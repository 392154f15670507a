-------------------------- MODULE MCTaskAssignment --------------------------
(***************************************************************************)
(* Small instances of TaskAssignment.                                      *)
(***************************************************************************)
EXTENDS TaskAssignment, TLC

Anyone == [t \in Task |-> Worker]

\* One place for all, where walking is not what the run is about.
AllHere == [t \in Task |-> <<0, 0>>]

\* A place each, as far as a row goes.
Apart == CHOOSE f \in [Task -> Cell] : \A t, u \in Task : f[t] = f[u] => t = u

\* Safety only: workers are interchangeable, and tasks that are in one place.
Symmetry == Permutations(Worker) \cup Permutations(Task)
WorkerSymmetry == Permutations(Worker)

Fallen == {w \in Worker : life[w] # "up"}

\* The first leader has been alone from the start.
Alone ==
  /\ offices = 0
  /\ \A l \in Candidate : office[l] = IF l \in First THEN "leader" ELSE "crashed"

\* All is at the first cell: the bots, and the tasks that have been announced.
OnePlace == /\ \A w \in Worker : pos[w] = <<0, 0>>
            /\ \A t \in Task \ unseen : Target[t] = <<0, 0>>

\* One upset in a behaviour.  Either one bot is killed while there is one leader and
\* one place, with one time limit that passes too early; or there are two
\* candidates that take and leave office, until all tasks are announced.
OneUpset ==
  /\ unseen = Task => \A w \in Worker : pos[w] = <<0, 0>>
  /\ lates <= Cardinality(Fallen)
  /\ \/ /\ Alone /\ Cardinality(Fallen) <= 1
        /\ Fallen # {} => OnePlace /\ \A l \in Candidate : Len(inbox[l]) <= 2
     \/ /\ \A l \in Candidate \ First : office[l] # "crashed"
        /\ Fallen = {} /\ unseen # {}
=============================================================================
