------------------------------ MODULE MCFS2File ------------------------------
EXTENDS FS2File, TLC

P == <<"p">>
Q == <<"q">>

\* One file path, for open, MKFILE, MKDIR and RM
MC_FilePaths == {<<P>>}
MC_NoPaths == {}

\* Descriptors are interchangeable
MC_FdSymmetry == Permutations(FDS)
==============================================================================
