\* The kernel core: all eight traps; safety, wake-up and round-robin liveness
\* (no symmetry, since the liveness property is checked in the same run)
CONSTANTS
  PCB_SIZE      <- MC_PCB_SIZE
  INIT_PRIORITY <- MC_LiveINIT_PRIORITY
  WORD          <- MC_WORD
  SEM_CAP       <- MC_SEM_CAP
  SemIdIn       <- MC_SemIdInBad
  AmountIn      <- MC_AmountIn
  InitIn        <- MC_InitIn
  PriorityIn    <- MC_LivePriorityIn
  StackIds      <- MC_StackIds
  Traps         <- MC_AllTraps
  MallocMayFail = FALSE
  NULL = NULL
  s1 = s1
  s2 = s2
  s3 = s3
SPECIFICATION Spec
CONSTRAINT RunningIsExecuting
INVARIANT TypeOK SoleExecuting StacksExclusive
PROPERTY WakeCorrect ReadyEventuallyRuns
