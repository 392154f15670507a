--------------------------- MODULE DetectionHistory ---------------------------
(***************************************************************************)
(* Detection with a history variable: for how many of a detector's steps a *)
(* problem has been where it is.  It adds nothing to what may happen; with *)
(* it, that every problem is found in time can be said of single states.   *)
(***************************************************************************)
EXTENDS Detection

VARIABLE age  \* age[d][c]: the steps d has taken since a problem was placed at c

\* A step of d makes the problems older that were there before and are there still.
Aged(d, c) == IF c \notin problems \cap problems' THEN 0
              ELSE age[d][c] + (steps'[d] - steps[d])

HistoryInit == Init /\ age = [d \in Detector |-> [c \in Cell |-> 0]]

HistoryNext == Next /\ age' = [d \in Detector |-> [c \in Cell |-> Aged(d, c)]]

HistorySpec == HistoryInit /\ [][HistoryNext]_<<vars, age>>

\* With the fairness of FairSpec.
HistoryFairSpec == HistorySpec /\ Progress

\* Where requests are answered, a problem that has been somewhere for a whole round of
\* a detector's walk has been reported by it: at every corner and edge, wherever the
\* walk began and whichever way it went when the problem came.
FoundWithinARound ==
  \A d \in Detector : \A c \in problems : c \notin reported[d] => age[d][c] < Round
=============================================================================
