------------------------------ MODULE MCKernel ------------------------------
(***************************************************************************)
(* Kernel with three PCB slots, stacks as model values, and the semaphore *)
(* ids, amounts and priorities below.  Three slots are enough for a       *)
(* parent, a child and a grandchild, for a full table (fork returns -1),  *)
(* and for a circular scan that wraps past slot 0.                        *)
(***************************************************************************)
EXTENDS Kernel, TLC

CONSTANTS s1, s2, s3           \* heap blocks for stacks

MC_PCB_SIZE      == 3
MC_INIT_PRIORITY == 5          \* hilevel_handler_rst: new_user_proc(.., 5)
MC_WORD          == 4          \* uint32_t arithmetic, with 2 bits
MC_SEM_CAP       == 2
MC_SemIdIn       == {0}
MC_SemIdInBad    == {0, 3}     \* 3 >= PCB_SIZE: sem_wait exits the caller
MC_AmountIn      == {1, 2}
MC_InitIn        == {0, 1}
MC_PriorityIn    == {0, 1}
MC_StackIds      == {s1, s2, s3}
MC_AllTraps      == {"yield", "fork", "exit", "kill", "nice",
                     "sem_init", "sem_post", "sem_wait"}
\* A shorter quantum and one priority for the kernel_core run, which checks
\* liveness and so cannot use symmetry
MC_LiveINIT_PRIORITY == 2
MC_LivePriorityIn    == {0}
\* Trap sets of the violation runs: the programs that reach each anomaly
MC_WaitTraps     == {"fork", "exit", "sem_post", "sem_wait"}
MC_KillTraps     == {"fork", "kill", "exit"}
MC_ForkTraps     == {"fork", "exit"}
MC_SemTraps      == {"yield", "fork", "sem_init", "sem_post", "sem_wait"}

(***************************************************************************)
(* Exploration bound for the passing runs (used as their CONSTRAINT): a   *)
(* state is expanded only while CurrentIsExecuting holds.  The states cut *)
(* off are those in which the kernel has just resumed a caller that       *)
(* exited, was killed or blocked with no other process runnable; each is  *)
(* shown by a violation run, and what follows one is outside what the     *)
(* code means to do.                                                      *)
(***************************************************************************)
RunningIsExecuting == CurrentIsExecuting
=============================================================================
