--------------------------- MODULE LeadershipProofs ---------------------------
(***************************************************************************)
(* What Leadership promises, for any set of bots.                          *)
(***************************************************************************)
EXTENDS Leadership, TLAPS

\* Every step keeps rivals aware of each other.
LEMMA NextNoSilentRivals ==
  NoSilentRivals /\ [Next]_<<office, owed>> => NoSilentRivals'
<1> SUFFICES ASSUME NoSilentRivals, [Next]_<<office, owed>>,
                    NEW c \in office', NEW d \in office', c # d
             PROVE  <<c, d>> \in owed' \/ <<d, c>> \in owed'
  BY DEF NoSilentRivals
<1>h. c \in office /\ d \in office => <<c, d>> \in owed \/ <<d, c>> \in owed
  BY DEF NoSilentRivals
<1>1. ASSUME NEW b \in Bot, Take(b) PROVE <<c, d>> \in owed' \/ <<d, c>> \in owed'
  BY <1>1, <1>h DEF Take
<1>2. ASSUME NEW b \in Bot, Learn(b) PROVE <<c, d>> \in owed' \/ <<d, c>> \in owed'
  BY <1>2, <1>h DEF Learn
<1>3. ASSUME NEW b \in Bot, Leave(b) PROVE <<c, d>> \in owed' \/ <<d, c>> \in owed'
  BY <1>3, <1>h DEF Leave
<1>4. CASE UNCHANGED <<office, owed>>
  BY <1>4, <1>h
<1> QED
  BY <1>1, <1>2, <1>3, <1>4 DEF Next

\* Of two bots in office at least one is still owed the news of the other: whatever
\* implements Leadership has no silent split brain.
THEOREM RivalsAreNeverSilent == Spec => []NoSilentRivals
<1>1. Init => NoSilentRivals
  BY DEF Init, NoSilentRivals
<1> QED
  BY <1>1, NextNoSilentRivals, PTL DEF Spec
=============================================================================
