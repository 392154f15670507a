SPECIFICATION TimedSpec
CONSTANTS
  Bot <- Pair
  Spawn <- OneSpawn
  MaxTerm <- OnceEach
  MaxInbox = 1
  Crashable = {}
  Killable = {}
  Droppable = {}
CHECK_DEADLOCK FALSE
PROPERTIES
  FirstLeader
  SplitBrainHeals
  DeposedFallSilent
