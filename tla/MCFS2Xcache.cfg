\* a root spanning two dblocks: unlink through a stale xcache
CONSTANTS
  NBLOCKS = 9
  DEF_IREG_LEN = 4
  DEF_DREG_LEN = 2
  ENTRIES = 4
  UNLINK_MOD = 4
  NREG = 2
  MaxInodes = 5
  CreatePaths <- MC_FlatPaths
  RmPaths <- MC_FlatPaths
  Junk = Junk
SPECIFICATION FsSpec
INVARIANT LinkedOnce
