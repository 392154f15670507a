SPECIFICATION Spec
CONSTANTS
  Bot <- Pair
  Spawn <- OneSpawn
  MaxTerm <- OnceEach
  MaxInbox = 1
  Crashable = {1}
  Killable = {2}
  Droppable = {1}
CHECK_DEADLOCK FALSE
CONSTRAINT FewWaiting
INVARIANTS
  TypeOK
  NoSilentSplitBrain
  LeaderKnowsItself
  NoOrphanedElection
  OnlyHigherBotsOutvote
PROPERTIES
  RivalriesAreSettled
