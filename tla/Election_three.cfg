SPECIFICATION Spec
CONSTANTS
  Bot <- Trio
  Spawn <- OneSpawn
  MaxTerm <- MiddleTwice
  MaxInbox = 0
  Crashable = {}
  Killable = {}
  Droppable = {}
CHECK_DEADLOCK FALSE
CONSTRAINT Crowd
INVARIANTS
  NoOrphanedElection
  TermsAreReached
PROPERTIES
  RivalriesAreSettled
