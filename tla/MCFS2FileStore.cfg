\* one descriptor, two byte values: do the file calls implement FileStore?
CONSTANTS
  NBLOCKS = 7
  DEF_IREG_LEN = 3
  DEF_DREG_LEN = 3
  ENTRIES = 2
  UNLINK_MOD = 2
  NREG = 2
  MaxInodes = 3
  CreatePaths <- MC_FilePaths
  RmPaths <- MC_NoPaths
  Junk = Junk
  DEF_FREG_LEN = 1
  Bytes = {a, b}
  FDS = {f1}
  FilePaths <- MC_FilePaths
  MaxWrite = 3
  Closed = Closed
SPECIFICATION FileSpec
PROPERTY ImplementsFileStore
