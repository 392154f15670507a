SPECIFICATION TimedSpec
CONSTANTS
  Bot <- Pair
  Spawn <- OneSpawn
  MaxTerm <- TwiceOnce
  MaxInbox = 0
  Crashable = {2}
  Killable = {}
  Droppable = {}
CHECK_DEADLOCK FALSE
PROPERTIES
  SurvivorsElect
