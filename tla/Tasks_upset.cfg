SPECIFICATION Spec
CONSTANTS
  Width = 2
  Height = 1
  Target <- Apart
  Worker = {w1, w2}
  Task = {t1, t2}
  Candidate = {l1, l2}
  w1 = w1
  w2 = w2
  t1 = t1
  t2 = t2
  l1 = l1
  l2 = l2
  NoBot = NoBot
  NoTask = NoTask
  First = {l1}
  CanDo <- Anyone
  Known = {w1, w2}
  Killable = {w1, w2}
  Crashable = {}
  Unaware = {}
  Mortal = {l1, l2}
  Deposable = {l1}
  WorldFails = FALSE
  MaxLate = 1
  MaxOffices = 2
  MaxTries = 1
  MaxInbox = 0
CHECK_DEADLOCK FALSE
SYMMETRY WorkerSymmetry
CONSTRAINT OneUpset
INVARIANTS
  TypeOK
  CompletedIsRepaired
PROPERTIES
  BooksStaySound
