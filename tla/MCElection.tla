----------------------------- MODULE MCElection -----------------------------
(***************************************************************************)
(* Small instances of Election.                                            *)
(***************************************************************************)
EXTENDS Election, Functions

\* RobotIDs as the coordinator hands them out.
Pair == {1, 2}
Trio == {1, 2, 3}

\* What bounds the elections of a pair: each bot stands once, or the one that is
\* outvoted twice.
OnceEach == [b \in Pair |-> 1]
TwiceOnce == [b \in Pair |-> IF b = 1 THEN 2 ELSE 1]

\* Of three bots the one in the middle stands twice: bot 3 answers it, and bot 1
\* makes it start a second election before it wakes from the first.
MiddleTwice == <<1, 2, 0>>

\* One election at a time starts beside the loop of StartElectionLoop.
OneSpawn == {"a"}

\* State constraints that keep these instances within reach: few messages wait at a
\* time, and three bots are all there before the first election.
FewWaiting == /\ \A b \in Bot : Len(inbox[b]) <= 2
              /\ FoldFunction(LAMBDA queue, n : n + Len(queue), 0, inbox) <= 3

Crowd == /\ FewWaiting
         /\ (\E b \in Bot : term[b] > 0) => \A b \in Bot : link[b] # "boot"
=============================================================================
