------------------------ MODULE DetectionHistoryProofs ------------------------
(***************************************************************************)
(* No problem is missed: the proof that on a grid of any size, with any    *)
(* number of detectors, whatever is where for a whole round of a walk gets *)
(* reported.  Liveness says that it is reported in the end; this says when *)
(* at the latest, and needs no fairness.                                   *)
(***************************************************************************)
EXTENDS DetectionHistory, DetectionProofs

\* The age is a history variable: what Detection does with it, it does without it.
LEMMA HistoryImplementsDetection == HistorySpec => Spec
<1>1. HistoryInit => Init
  BY DEF HistoryInit
<1>2. [HistoryNext]_<<vars, age>> => [Next]_vars
  BY DEF HistoryNext
<1> QED
  BY <1>1, <1>2, PTL DEF HistorySpec, Spec

-----------------------------------------------------------------------------
(***************************************************************************)
(* Turns.                                                                  *)
(***************************************************************************)
\* The first half of the turns is on the way down, the second half on the way up.
LEMMA TurnsInRound ==
  ASSUME NEW c \in Cell, NEW down \in BOOLEAN
  PROVE  /\ Turn(c[1], c[2], down) \in 0 .. Round - 1
         /\ Turn(c[1], c[2], down) < Width * Height <=> down
         /\ Round \in Nat \ {0}
<1>1. c[1] \in 0 .. Width - 1 /\ c[2] \in 0 .. Height - 1
  BY DEF Cell
<1>2. Number(c[1], c[2]) \in 0 .. Width * Height - 1
  BY <1>1, NumberInRow
<1>3. Turn(c[1], c[2], down) = IF down THEN Number(c[1], c[2]) ELSE Round - 1 - Number(c[1], c[2])
  BY DEF Turn, Number, Along
<1>4. Width * Height \in Nat \ {0} /\ Round = 2 * (Width * Height)
  BY GridAssumption DEF Round
<1>5. CASE down
  <2>1. Turn(c[1], c[2], down) = Number(c[1], c[2])
    BY <1>3, <1>5
  <2>2. /\ Turn(c[1], c[2], down) \in 0 .. Round - 1
        /\ Turn(c[1], c[2], down) < Width * Height
        /\ Round \in Nat \ {0}
    BY <1>2, <1>4, <2>1
  <2> QED
    BY <1>5, <2>2, Zenon
<1>6. CASE ~down
  <2>1. Turn(c[1], c[2], down) = Round - 1 - Number(c[1], c[2])
    BY <1>3, <1>6
  <2>2. /\ Turn(c[1], c[2], down) \in 0 .. Round - 1
        /\ ~(Turn(c[1], c[2], down) < Width * Height)
        /\ Round \in Nat \ {0}
    BY <1>2, <1>4, <2>1
  <2> QED
    BY <1>6, <2>2, Zenon
<1> QED
  BY <1>5, <1>6

\* A turn belongs to one place, whichever way a detector goes.
LEMMA TurnsBelongToOne ==
  ASSUME NEW c \in Cell, NEW e \in Cell, NEW down \in BOOLEAN, NEW back \in BOOLEAN,
         Turn(c[1], c[2], down) = Turn(e[1], e[2], back)
  PROVE  c = e
<1>1. (Turn(c[1], c[2], down) < Width * Height <=> down)
      /\ (Turn(e[1], e[2], back) < Width * Height <=> back)
  BY TurnsInRound
<1>2. down <=> back
  BY <1>1, Zenon
<1>3. CASE down /\ back
  <2>1. Turn(c[1], c[2], TRUE) = Turn(e[1], e[2], TRUE)
    BY <1>3
  <2> QED
    BY <2>1, TurnsAreUnique
<1>4. CASE ~down /\ ~back
  <2>1. Turn(c[1], c[2], FALSE) = Turn(e[1], e[2], FALSE)
    BY <1>4
  <2> QED
    BY <2>1, TurnsAreUnique
<1> QED
  BY <1>2, <1>3, <1>4, Zenon

\* How many steps ago d was, or would have been, at c on its way down, or up.
TurnOf(d) == Turn(pos[d][1], pos[d][2], forward[d])
Since(now, then) == IF then <= now THEN now - then ELSE now - then + Round
Behind(d, c, down) == Since(TurnOf(d), Turn(c[1], c[2], down))

\* With the next step of the walk it is one more, or the turn has come again.
LEMMA SinceGrows ==
  ASSUME NEW now \in 0 .. Round - 1, NEW then \in 0 .. Round - 1, Round \in Nat \ {0}
  PROVE  /\ Since(now, then) \in 0 .. Round - 1
         /\ Since(now, then) = 0 <=> now = then
         /\ Since((now + 1) % Round, then) = IF Since(now, then) = Round - 1 THEN 0
                                             ELSE Since(now, then) + 1
<1>1. (now + 1) % Round = IF now + 1 = Round THEN 0 ELSE now + 1
  BY NextTurn
<1> QED
  BY <1>1 DEF Since

-----------------------------------------------------------------------------
(***************************************************************************)
(* The invariant.                                                          *)
(***************************************************************************)
AgeTyped == age \in [Detector -> [Cell -> Nat]]

\* No walk has begun in which a problem could have been missed.
YoungAtBoot == \A d \in Detector : stage[d] = "boot" => \A c \in Cell : age[d][c] = 0

\* What d has not reported was placed after d was last at that place: since then d has
\* taken as many steps as it has got away from there.  When d is there again and has
\* not looked yet, that is a whole round.
Limit(d, c, down) ==
  IF stage[d] # "move" /\ Behind(d, c, down) = 0 THEN Round ELSE Behind(d, c, down)

PlacedSince ==
  \A d \in Detector : \A c \in problems \ reported[d] : \A down \in BOOLEAN :
    age[d][c] <= Limit(d, c, down)

LEMMA BehindInRound ==
  ASSUME TypeOK, NEW d \in Detector, NEW c \in Cell, NEW down \in BOOLEAN
  PROVE  /\ Behind(d, c, down) \in 0 .. Round - 1
         /\ Behind(d, c, down) = 0 => c = pos[d]
         /\ TurnOf(d) \in 0 .. Round - 1 /\ Turn(c[1], c[2], down) \in 0 .. Round - 1
         /\ Round \in Nat \ {0}
<1>1. pos[d] \in Cell /\ forward[d] \in BOOLEAN
  BY DEF TypeOK
<1>2. /\ TurnOf(d) \in 0 .. Round - 1 /\ Turn(c[1], c[2], down) \in 0 .. Round - 1
      /\ Round \in Nat \ {0}
  BY <1>1, TurnsInRound DEF TurnOf
<1>3. Behind(d, c, down) = 0 => TurnOf(d) = Turn(c[1], c[2], down)
  BY <1>2, SinceGrows DEF Behind
<1> QED
  BY <1>1, <1>2, <1>3, SinceGrows, TurnsBelongToOne DEF Behind, TurnOf

\* What a step does to one detector.
Same(d) == /\ stage'[d] = stage[d] /\ pos'[d] = pos[d] /\ forward'[d] = forward[d]
           /\ steps'[d] = steps[d] /\ reported'[d] = reported[d]

LEMMA OneDetectorSteps ==
  ASSUME TypeOK, [Next]_vars, NEW d \in Detector
  PROVE  Register(d) \/ Look(d) \/ Move(d) \/ Stop(d) \/ Exit(d) \/ Same(d)
<1>1. ASSUME NEW e \in Detector, e # d, Register(e) \/ Look(e) \/ Move(e) \/ Stop(e) \/ Exit(e)
      PROVE  Same(d)
  BY <1>1 DEF Register, Look, Move, Stop, Exit, Same, TypeOK
<1>2. ASSUME NEW f \in Find, FindStep(f) \/ Repair(f) PROVE Same(d)
  BY <1>2 DEF FindStep, Announce, HandleEvent, ReportCompletion, Repair, walk, Same
<1>3. ASSUME NEW c \in Cell, Place(c) \/ DeleteProblemFromWorld(c) PROVE Same(d)
  BY <1>3 DEF Place, DeleteProblemFromWorld, walk, Same
<1>4. CASE UNCHANGED vars
  BY <1>4 DEF vars, walk, Same
<1> QED
  BY <1>1, <1>2, <1>3, <1>4 DEF Next, DetectorStep

\* The steps a detector takes are what problems grow older by.
LEMMA StepsGrow ==
  ASSUME TypeOK, [Next]_vars, NEW d \in Detector
  PROVE  steps'[d] = steps[d] \/ (Move(d) /\ steps'[d] = steps[d] + 1)
<1>1. CASE Move(d)
  BY <1>1 DEF Move, TypeOK
<1>2. CASE Register(d) \/ Look(d) \/ Stop(d) \/ Exit(d) \/ Same(d)
  BY <1>2 DEF Register, Look, Stop, Exit, Same
<1> QED
  BY <1>1, <1>2, OneDetectorSteps

LEMMA Ages ==
  ASSUME TypeOK, AgeTyped, [HistoryNext]_<<vars, age>>, NEW d \in Detector, NEW c \in Cell
  PROVE  /\ age'[d][c] \in Nat
         /\ \/ age'[d][c] = 0
            \/ /\ age'[d][c] = age[d][c] + (steps'[d] - steps[d])
               /\ c \in problems \/ problems' = problems
<1>1. [Next]_vars
  BY DEF HistoryNext
<1>2. steps[d] \in Nat /\ steps'[d] - steps[d] \in {0, 1} /\ age[d][c] \in Nat
  BY <1>1, StepsGrow DEF TypeOK, AgeTyped
<1>3. CASE HistoryNext
  <2>1. age'[d][c] = Aged(d, c)
    BY <1>3 DEF HistoryNext
  <2> QED
    BY <1>2, <2>1 DEF Aged
<1>4. CASE UNCHANGED <<vars, age>>
  <2>1. UNCHANGED <<steps, problems, age>>
    BY <1>4 DEF vars, world, walk
  <2> QED
    BY <1>2, <2>1
<1> QED
  BY <1>3, <1>4

LEMMA AgesKept ==
  ASSUME TypeOK, AgeTyped, YoungAtBoot, [HistoryNext]_<<vars, age>>
  PROVE  AgeTyped' /\ YoungAtBoot'
<1>1. [Next]_vars
  BY DEF HistoryNext
<1>2. AgeTyped'
  <2>1. CASE HistoryNext
    <3>1. age' = [d \in Detector |-> [c \in Cell |-> Aged(d, c)]]
      BY <2>1 DEF HistoryNext
    <3>2. \A d \in Detector, c \in Cell : Aged(d, c) \in Nat
      BY <3>1, Ages
    <3> QED
      BY <3>1, <3>2 DEF AgeTyped
  <2>2. CASE UNCHANGED <<vars, age>>
    BY <2>2 DEF AgeTyped
  <2> QED
    BY <2>1, <2>2
<1>3. ASSUME NEW d \in Detector, stage'[d] = "boot", NEW c \in Cell PROVE age'[d][c] = 0
  <2>1. Same(d)
    BY <1>1, <1>3, OneDetectorSteps DEF Register, Look, Move, Stop, Exit, TypeOK
  <2>2. steps'[d] = steps[d] /\ age[d][c] = 0 /\ steps[d] \in Nat
    BY <1>3, <2>1 DEF Same, YoungAtBoot, TypeOK
  <2> QED
    BY <2>2, Ages
<1> QED
  BY <1>2, <1>3 DEF YoungAtBoot

\* A look at a place leaves no problem there unreported.
LEMMA LookMissesNothing ==
  ASSUME TypeOK, ~Failing, NEW d \in Detector, Look(d), pos[d] \in problems
  PROVE  pos[d] \in reported'[d]
<1>1. PICK found \in BOOLEAN :
        /\ CheckForProblem(pos[d], found)
        /\ IF found /\ pos[d] \notin reported[d]
             THEN reported' = [reported EXCEPT ![d] = @ \cup {pos[d]}]
             ELSE UNCHANGED reported
  BY DEF Look
<1>2. found
  BY <1>1 DEF CheckForProblem, HandleProblemAt
<1> QED
  BY <1>1, <1>2 DEF TypeOK

\* One step of the whole, seen from one detector and one place.
LEMMA PlacedSinceKept ==
  ASSUME ~Failing, TypeOK, TypeOK', AgeTyped, YoungAtBoot, PlacedSince,
         [HistoryNext]_<<vars, age>>
  PROVE  PlacedSince'
<1>n. [Next]_vars
  BY DEF HistoryNext
<1> SUFFICES ASSUME NEW d \in Detector, NEW c \in problems', c \notin reported'[d],
                    NEW down \in BOOLEAN
             PROVE  age'[d][c] <= Limit(d, c, down)'
  BY DEF PlacedSince
<1>c. c \in Cell
  BY DEF TypeOK
<1>b. /\ Behind(d, c, down) \in 0 .. Round - 1 /\ Behind(d, c, down)' \in 0 .. Round - 1
      /\ Round \in Nat \ {0}
  <2>1. Behind(d, c, down)' \in 0 .. Round - 1
    <3>1. pos'[d] \in Cell /\ forward'[d] \in BOOLEAN
      BY DEF TypeOK
    <3>2. /\ TurnOf(d)' \in 0 .. Round - 1 /\ Turn(c[1], c[2], down) \in 0 .. Round - 1
          /\ Round \in Nat \ {0}
      BY <1>c, <3>1, TurnsInRound DEF TurnOf
    <3> QED
      BY <3>2, SinceGrows DEF Behind
  <2> QED
    BY <1>c, <2>1, BehindInRound
<1>l. Limit(d, c, down) \in 0 .. Round /\ Limit(d, c, down)' \in 0 .. Round
  BY <1>b DEF Limit
<1>a. /\ age'[d][c] \in Nat
      /\ \/ age'[d][c] = 0
         \/ /\ age'[d][c] = age[d][c] + (steps'[d] - steps[d])
            /\ c \in problems
  BY <1>c, Ages
<1>0. CASE age'[d][c] = 0
  BY <1>0, <1>l
<1>o. ASSUME age'[d][c] # 0
      PROVE  /\ age'[d][c] = age[d][c] + (steps'[d] - steps[d])
             /\ c \in problems /\ age[d][c] \in Nat /\ steps[d] \in Nat
  BY <1>a, <1>o, <1>c DEF AgeTyped, TypeOK
<1>p. ASSUME age'[d][c] # 0, c \notin reported[d] PROVE age[d][c] <= Limit(d, c, down)
  BY <1>o, <1>p DEF PlacedSince
<1>1. CASE Register(d)
  <2>1. stage[d] = "boot" /\ UNCHANGED steps
    BY <1>1 DEF Register
  <2>2. age[d][c] = 0
    BY <1>c, <2>1 DEF YoungAtBoot
  <2> QED
    BY <1>0, <1>o, <2>1, <2>2
<1>2. CASE Look(d)
  <2>1. UNCHANGED <<problems, steps, pos, forward>> /\ stage[d] = "look" /\ stage'[d] = "move"
    BY <1>2 DEF Look, world, TypeOK
  <2>2. c # pos[d] /\ c \notin reported[d]
    <3>1. c # pos[d]
      BY <1>2, <2>1, LookMissesNothing
    <3>2. reported[d] \subseteq reported'[d]
      BY <1>2 DEF Look, TypeOK
    <3> QED
      BY <3>1, <3>2
  <2>3. Behind(d, c, down)' = Behind(d, c, down) /\ Behind(d, c, down) # 0
    BY <1>c, <2>1, <2>2, BehindInRound DEF Behind, TurnOf
  <2>4. Limit(d, c, down)' = Limit(d, c, down)
    BY <2>1, <2>3 DEF Limit
  <2>5. CASE age'[d][c] # 0
    BY <1>o, <1>p, <2>1, <2>2, <2>4, <2>5
  <2> QED
    BY <1>0, <2>5
<1>3. CASE Move(d)
  <2>1. /\ stage[d] = "move" /\ stage'[d] # "move" /\ steps'[d] = steps[d] + 1
        /\ reported'[d] = reported[d]
    BY <1>3 DEF Move, TypeOK
  <2>2. TurnOf(d)' = (TurnOf(d) + 1) % Round
    <3>1. steps'[d] # steps[d]
      BY <2>1 DEF TypeOK
    <3> QED
      BY <1>n, <3>1, NextPlaceInTurn DEF TurnOf
  <2>3. Behind(d, c, down)' = IF Behind(d, c, down) = Round - 1 THEN 0
                              ELSE Behind(d, c, down) + 1
    BY <1>c, <2>2, BehindInRound, SinceGrows DEF Behind
  <2>4. Limit(d, c, down)' = Behind(d, c, down) + 1 /\ Limit(d, c, down) = Behind(d, c, down)
    BY <1>b, <2>1, <2>3 DEF Limit
  <2>5. CASE age'[d][c] # 0
    BY <1>o, <1>p, <1>b, <2>1, <2>4, <2>5
  <2> QED
    BY <1>0, <2>5
<1>4. CASE Stop(d) \/ Exit(d) \/ Same(d)
  <2>1. /\ pos'[d] = pos[d] /\ forward'[d] = forward[d] /\ steps'[d] = steps[d]
        /\ reported'[d] = reported[d]
        /\ stage'[d] = "move" => stage[d] = "move"
    BY <1>4 DEF Stop, Exit, Same, TypeOK
  <2>2. Behind(d, c, down)' = Behind(d, c, down)
    BY <2>1 DEF Behind, TurnOf
  <2>3. Limit(d, c, down) <= Limit(d, c, down)'
    BY <1>b, <2>1, <2>2 DEF Limit
  <2>4. CASE age'[d][c] # 0
    BY <1>o, <1>p, <1>l, <2>1, <2>3, <2>4
  <2> QED
    BY <1>0, <2>4
<1> QED
  BY <1>n, <1>1, <1>2, <1>3, <1>4, OneDetectorSteps

\* Every place has two turns, so that a detector cannot be at both.
LEMMA PlacedSinceSuffices == TypeOK /\ AgeTyped /\ PlacedSince => FoundWithinARound
<1> SUFFICES ASSUME TypeOK, AgeTyped, PlacedSince, NEW d \in Detector,
                    NEW c \in problems, c \notin reported[d]
             PROVE  age[d][c] < Round
  BY DEF FoundWithinARound
<1>1. c \in Cell /\ age[d][c] \in Nat
  BY DEF TypeOK, AgeTyped
<1>2. PICK down \in BOOLEAN : Turn(c[1], c[2], down) # TurnOf(d)
  <2>1. Turn(c[1], c[2], TRUE) < Width * Height /\ ~(Turn(c[1], c[2], FALSE) < Width * Height)
    <3>1. Turn(c[1], c[2], TRUE) < Width * Height <=> TRUE
      BY <1>1, TurnsInRound
    <3>2. Turn(c[1], c[2], FALSE) < Width * Height <=> FALSE
      BY <1>1, TurnsInRound
    <3> QED
      BY <3>1, <3>2, Zenon
  <2>2. Turn(c[1], c[2], TRUE) # Turn(c[1], c[2], FALSE)
    BY <2>1, Zenon
  <2> QED
    BY <2>2
<1>3. /\ TurnOf(d) \in 0 .. Round - 1 /\ Turn(c[1], c[2], down) \in 0 .. Round - 1
      /\ Behind(d, c, down) \in 0 .. Round - 1 /\ Round \in Nat \ {0}
  BY <1>1, BehindInRound
<1>4. Behind(d, c, down) # 0
  BY <1>2, <1>3, SinceGrows DEF Behind
<1>5. age[d][c] <= Behind(d, c, down)
  BY <1>4 DEF PlacedSince, Limit
<1> QED
  BY <1>1, <1>3, <1>5

\* Where requests are answered, on every grid and for every number of detectors and
\* steps: what is somewhere for a whole round of a walk was reported on the way.
THEOREM NothingIsMissed == ASSUME ~Failing PROVE HistorySpec => []FoundWithinARound
<1> DEFINE IInv == AgeTyped /\ YoungAtBoot /\ PlacedSince
<1>1. HistoryInit => IInv
  BY DEF HistoryInit, Init, AgeTyped, YoungAtBoot, PlacedSince
<1>2. TypeOK /\ TypeOK' /\ IInv /\ [HistoryNext]_<<vars, age>> => IInv'
  BY AgesKept, PlacedSinceKept
<1>3. TypeOK /\ IInv => FoundWithinARound
  BY PlacedSinceSuffices
<1>4. HistorySpec => []TypeOK
  BY HistoryImplementsDetection, DetectionTyping, PTL
<1> HIDE DEF IInv
<1> QED
  BY <1>1, <1>2, <1>3, <1>4, PTL DEF HistorySpec
=============================================================================
