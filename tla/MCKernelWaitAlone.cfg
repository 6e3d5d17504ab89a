\* sem_wait with no other runnable process resumes its blocked caller
CONSTANTS
  PCB_SIZE      <- MC_PCB_SIZE
  INIT_PRIORITY <- MC_INIT_PRIORITY
  WORD          <- MC_WORD
  SEM_CAP       <- MC_SEM_CAP
  SemIdIn       <- MC_SemIdIn
  AmountIn      <- MC_AmountIn
  InitIn        <- MC_InitIn
  PriorityIn    <- MC_PriorityIn
  StackIds      <- MC_StackIds
  Traps         <- MC_WaitTraps
  MallocMayFail = FALSE
  NULL = NULL
  s1 = s1
  s2 = s2
  s3 = s3
SPECIFICATION Spec
INVARIANT CurrentIsExecuting
