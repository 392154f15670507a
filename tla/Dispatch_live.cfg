SPECIFICATION FairSpec
CONSTANTS
  Width = 2
  Height = 1
  Target <- Ends
  Worker = {w1}
  Task = {t1, t2}
  w1 = w1
  t1 = t1
  t2 = t2
  NoBot = NoBot
  CanDo <- Anyone
  Foreign = {t2}
  Killable = {}
  Crashable = {w1}
  Unaware = {}
  WorldFails = TRUE
CHECK_DEADLOCK FALSE
PROPERTIES
  ExecutionsEnd
  RobotsComeBack
