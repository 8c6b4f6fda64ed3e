SPECIFICATION FairSpec
CONSTANTS
  ReSign = ReSign
  DviceStatus = DviceStatus
  RMQ = RMQ
  ChooseProgram = ChooseProgram
  NumWorkers = 4
  Worker <- MCWorker
  Rank <- MCRank
  TimerWoken <- MCTimerWoken
  Notifies <- MCNotifies
  OneShot <- MCOneShot
INVARIANTS
  StrandInv
  NoStrandedWorker
PROPERTIES
  ExitReachesEveryWorker
CHECK_DEADLOCK FALSE
