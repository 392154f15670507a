SPECIFICATION Spec
CONSTANTS
  Detector = {d1,d2}
  d1 = d1
  d2 = d2
  Width = 2
  Height = 2
  Steps = 3
  Stoppable = {d1}
  Failing = TRUE
  Prompt = TRUE
  MaxPlaced = 1
CHECK_DEADLOCK FALSE
INVARIANTS
  TypeOK
  MarksAreExplained
PROPERTIES
  AnnouncedOnce
  EveryPlaceInTurn
