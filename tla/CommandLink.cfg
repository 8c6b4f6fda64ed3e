SPECIFICATION FairSpec
CONSTANTS
  OfflineTime = 2
  MaxSent = 2
  MaxChecks = 1
INVARIANTS
  TypeOK
  NewestHandled
  WatchdogMeansSilence
  WatchedOnceSignedIn
PROPERTIES
  CutOffRestarts
  SignInRetried
CHECK_DEADLOCK FALSE
