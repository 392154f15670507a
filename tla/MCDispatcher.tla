----------------------------- MODULE MCDispatcher -----------------------------
(***************************************************************************)
(* Small instances of Dispatcher.                                          *)
(***************************************************************************)
EXTENDS Dispatcher, TLC, FiniteSets

Anyone == [t \in Task |-> Worker]

\* One problem is at one end of the row, all others are at the other.
Ends == LET one == CHOOSE t \in Own : TRUE
        IN  [t \in Task |-> IF t = one THEN <<0, 0>> ELSE <<Width - 1, 0>>]

\* Safety only: bots are alike, and tasks that are in one place.
Symmetry == Permutations(Worker) \cup
            {p \in Permutations(Own) : \A t \in Own : Target[p[t]] = Target[t]}

\* One bot at a time has metadata on its way.  Where a bot is killed there is but one,
\* one task and one request at a time.
Calm == /\ Cardinality({w \in Worker : snaps[w] # {}}) <= 1
        /\ \/ \A w \in Worker : life[w] = "up"
           \/ /\ Cardinality({w \in Worker : life[w] # "up"}) = 1
              /\ Cardinality({t \in Own : ledger[t] # "none"}) <= 1
              /\ Cardinality(reports) + Cardinality(cleanups) + Cardinality(calls) <= 1
=============================================================================
