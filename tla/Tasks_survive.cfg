SPECIFICATION FairSpec
CONSTANTS
  Width = 1
  Height = 1
  Target <- AllHere
  Worker = {w1, w2}
  Task = {t1}
  Candidate = {l1}
  w1 = w1
  w2 = w2
  t1 = t1
  l1 = l1
  NoBot = NoBot
  NoTask = NoTask
  First = {l1}
  CanDo <- Anyone
  Known = {w1, w2}
  Killable = {}
  Crashable = {w1}
  Unaware = {w1}
  Mortal = {}
  Deposable = {}
  WorldFails = FALSE
  MaxLate = 0
  MaxOffices = 0
  MaxTries = 1
  MaxInbox = 1
CHECK_DEADLOCK FALSE
PROPERTIES
  EverythingRepaired
  AssignmentsEnd
  KnownCatchesUp
