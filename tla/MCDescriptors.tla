---------------------------- MODULE MCDescriptors ----------------------------
(***************************************************************************)
(* Descriptors with two PCB slots, a local table of five descriptors (the *)
(* three standard ones and room for both ends of a pipe) and a global      *)
(* table of six slots (the three UART entries and three more), so that a  *)
(* pipe and a file, or a pipe after a leaked slot, can both be tried and   *)
(* the scans can fail.                                                    *)
(***************************************************************************)
EXTENDS Descriptors, TLC

CONSTANTS s1, s2, b1, b2, b3

MC_PCB_SIZE      == 2
MC_INIT_PRIORITY == 1
MC_WORD          == 4
MC_SEM_CAP       == 2
MC_StackIds      == {s1, s2}
MC_FdteIds       == {b1, b2, b3}
MC_NFD           == 5
MC_NFT           == 6
MC_FdIn          == {1, 3, 4}
MC_FileTraps     == {"yield", "fork", "exit", "kill", "open", "close", "fd_swap"}
MC_PipeTraps     == {"yield", "fork", "exit", "open", "close", "fd_swap", "pipe"}
MC_PipeCloseTraps == {"pipe", "close"}
MC_KillTraps     == {"fork", "kill", "open"}
MC_OpenTraps     == {"open"}
MC_COUNT_CAP     == 3          \* bound on any open_count the runs explore
MC_Symmetry      == Permutations(MC_StackIds) \cup Permutations(MC_FdteIds)

(***************************************************************************)
(* Exploration bound of the passing runs: a state is expanded while the   *)
(* kernel core is sound (CurrentIsExecuting, see MCKernel) and no occupied *)
(* PCB holds a descriptor to a released entry.  A state that breaks the    *)
(* second is reached by closing a pipe end and is the finding of the       *)
(* pipe_close_dangles run; what follows it reads freed memory.             *)
(***************************************************************************)
(***************************************************************************)
(* Exploration bound of the file run: the kernel core is sound, and no     *)
(* entry's open_count exceeds MC_COUNT_CAP.  A kill leaves the counts of   *)
(* the killed process's entries raised for good (kill_leaks_refcount), so  *)
(* fork and kill in a loop raise them without bound.                       *)
(***************************************************************************)
RunningIsExecuting ==
  /\ CurrentIsExecuting
  /\ \A b \in FdteIds : fdte[b].open_count <= MC_COUNT_CAP

DescriptorsSound == CurrentIsExecuting /\ NoDanglingReference
=============================================================================
