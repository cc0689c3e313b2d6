SPECIFICATION MCSpec
CHECK_DEADLOCK FALSE
CONSTANTS
  Here = Here
  There = There
  MaxTaps = 2
  MaxSessions = 2
  MaxShots = 2
  MaxFaults = 1
  Background = {2}
  MaxTasks = 2
INVARIANTS
  TakenOnce
  SignedPhotosHeld
  ReadingOfPhotos
  DeadReportFresh
