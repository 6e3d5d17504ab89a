\* two descriptors on one file, writes of up to 3 bytes in 2-byte blocks
CONSTANTS
  NBLOCKS = 7
  DEF_IREG_LEN = 3
  DEF_DREG_LEN = 3
  ENTRIES = 2
  UNLINK_MOD = 2
  NREG = 2
  MaxInodes = 3
  CreatePaths <- MC_FilePaths
  RmPaths <- MC_NoPaths
  Junk = Junk
  DEF_FREG_LEN = 1
  Bytes = {a}
  FDS = {f1, f2}
  FilePaths <- MC_FilePaths
  MaxWrite = 3
  Closed = Closed
SYMMETRY MC_FdSymmetry
SPECIFICATION FileSpec
INVARIANT FileTypeOK EofCovered ReadsWrittenBytes
