SPECIFICATION Spec
CONSTANTS
  Width = 2
  Height = 1
  Target <- Apart
  Worker = {w1, w2}
  Task = {t1, t2}
  Candidate = {l1}
  w1 = w1
  w2 = w2
  t1 = t1
  t2 = t2
  l1 = l1
  NoBot = NoBot
  NoTask = NoTask
  First = {l1}
  CanDo <- Anyone
  Known = {w1, w2}
  Killable = {}
  Crashable = {w1, w2}
  Unaware = {}
  Mortal = {}
  Deposable = {}
  WorldFails = FALSE
  MaxLate = 0
  MaxOffices = 0
  MaxTries = 1
  MaxInbox = 0
CHECK_DEADLOCK FALSE
SYMMETRY WorkerSymmetry
INVARIANTS
  LeaderKnowsAll
