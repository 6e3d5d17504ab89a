--------------------------- MODULE MCPhilosophers ---------------------------
(***************************************************************************)
(* Three philosophers, so that one of them (the last) takes its right fork *)
(* first and the other two their left; four PCB slots, one for the        *)
(* spawner, and a stack for each process.  The spawner's base priority is  *)
(* 1 (the shell launches it with 5), which keeps the quantum at two ticks; *)
(* the order of dispatch, not the length of the quantum, is what the      *)
(* properties depend on.                                                  *)
(***************************************************************************)
EXTENDS Philosophers, TLC

CONSTANTS s1, s2, s3, s4       \* heap blocks for stacks

MC_PHIL_COUNT    == 3
MC_PCB_SIZE      == 4
MC_INIT_PRIORITY == 1
MC_WORD          == 4
MC_SEM_CAP       == 2
MC_SemIdIn       == 0 .. MC_PHIL_COUNT - 1
MC_StackIds      == {s1, s2, s3, s4}
=============================================================================
