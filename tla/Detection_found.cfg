SPECIFICATION HistoryFairSpec
CONSTANTS
  Detector = {d1}
  d1 = d1
  Width = 3
  Height = 3
  Steps = 20
  Stoppable = {}
  Failing = FALSE
  Prompt = TRUE
  MaxPlaced = 1
CHECK_DEADLOCK FALSE
INVARIANTS
  FoundWithinARound
PROPERTIES
  EveryProblemIsFound
  EveryPlaceInTurn
