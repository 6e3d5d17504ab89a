\* Closing one end of a pipe
CONSTANTS
  PCB_SIZE      <- MC_PCB_SIZE
  INIT_PRIORITY <- MC_INIT_PRIORITY
  WORD          <- MC_WORD
  SEM_CAP       <- MC_SEM_CAP
  SemIdIn       = {}
  AmountIn      = {}
  InitIn        = {}
  PriorityIn    = {}
  StackIds      <- MC_StackIds
  Traps         <- MC_PipeCloseTraps
  MallocMayFail = FALSE
  FdMallocMayFail = FALSE
  NFD           <- MC_NFD
  NFT           <- MC_NFT
  FdteIds       <- MC_FdteIds
  FdIn          <- MC_FdIn
  NULL = NULL
  UART = UART
  s1 = s1
  s2 = s2
  b1 = b1
  b2 = b2
  b3 = b3
SPECIFICATION DSpec
INVARIANT NoDanglingReference
