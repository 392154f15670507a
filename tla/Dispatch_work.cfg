SPECIFICATION Spec
CONSTANTS
  Width = 2
  Height = 1
  Target <- Ends
  Worker = {w1, w2}
  Task = {t1, t2, t3}
  w1 = w1
  w2 = w2
  t1 = t1
  t2 = t2
  t3 = t3
  NoBot = NoBot
  CanDo <- Anyone
  Foreign = {}
  Killable = {w1, w2}
  Crashable = {}
  Unaware = {}
  WorldFails = FALSE
CHECK_DEADLOCK FALSE
SYMMETRY Symmetry
CONSTRAINT Calm
INVARIANTS
  TypeOK
  WorkIsBooked
  BusyWithOneTask
  DoneIsRepaired
PROPERTIES
  GivenOnce
  EveryStepNearer
