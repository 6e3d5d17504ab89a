\* one-block namespace: creates and removes until the disk is full
CONSTANTS
  NBLOCKS = 7
  DEF_IREG_LEN = 4
  DEF_DREG_LEN = 2
  ENTRIES = 8
  UNLINK_MOD = 8
  NREG = 2
  MaxInodes = 5
  CreatePaths <- MC_TreeSlashPaths
  RmPaths <- MC_TreePaths
  Junk = Junk
SPECIFICATION FsSpec
INVARIANT FsTypeOK DirEntriesValid LinkedOnce DirLinksIntact
