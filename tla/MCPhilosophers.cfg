\* philosophers.c on the round-robin kernel: forks, circular wait, starvation
CONSTANTS
  PHIL_COUNT    <- MC_PHIL_COUNT
  PCB_SIZE      <- MC_PCB_SIZE
  INIT_PRIORITY <- MC_INIT_PRIORITY
  WORD          <- MC_WORD
  SEM_CAP       <- MC_SEM_CAP
  SemIdIn       <- MC_SemIdIn
  AmountIn      = {1}
  InitIn        = {1}
  PriorityIn    = {}
  Traps         = {}
  StackIds      <- MC_StackIds
  MallocMayFail = FALSE
  NULL = NULL
  s1 = s1
  s2 = s2
  s3 = s3
  s4 = s4
SPECIFICATION PSpec
INVARIANT PTypeOK ForkConservation NotAllBlocked
PROPERTY EveryoneEats
