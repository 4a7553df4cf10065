SPECIFICATION Spec
CONSTANTS
  Proc = {"p1", "p2"}
  Drive = {"fd0", "fd1"}
  NCyls = 2
  NHeads = 1
  NSec = 2
  Retries = 1
  Requests <- MCRequests
  MaxReads = 2
  MaxSignals = 1
  DiskAnswers = TRUE
  Null = Null
CHECK_DEADLOCK FALSE
INVARIANTS CacheHoldsDisk MotorRunsWhileWaiting
PROPERTY ReadsEnd
