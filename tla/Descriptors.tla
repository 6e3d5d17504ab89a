---------------------------- MODULE Descriptors ----------------------------
(***************************************************************************)
(* The descriptor tables of src/kernel/hilevel.c composed with the kernel *)
(* core: each PCB's local table fdt[], the global table openft[] of        *)
(* pointers to heap-allocated fdte_t entries, and the pipe slots pipes[].  *)
(* The traps open, close, fd_swap and pipe are actions of their own; fork  *)
(* and exit are the Kernel actions conjoined with their descriptor loops.  *)
(* Entries live in heap blocks (model values): free() returns a block to   *)
(* the allocator while openft may still point at it, and a later malloc    *)
(* may hand the same block out again.                                      *)
(***************************************************************************)
EXTENDS Kernel, SequencesExt

CONSTANTS
  NFD,        \* slots of a local fdt (32 in pcb_t)
  NFT,        \* slots of openft (64)
  FdteIds,    \* heap blocks an fdte_t can occupy (model values)
  FdIn,       \* descriptors passed to close and fd_swap
  FdMallocMayFail, \* whether malloc of an fdte_t or a pipe_t may return NULL
  UART        \* what openft[0..2] hold: the UART entries made by init_fs

ASSUME /\ NFD \in Nat /\ NFD >= 3 /\ NFT \in Nat /\ NFT >= 3
       /\ FdIn \subseteq 0 .. NFD - 1 /\ FdMallocMayFail \in BOOLEAN
       /\ UART \notin FdteIds /\ NULL \notin FdteIds

Fds   == 0 .. NFD - 1
Slots == 0 .. NFT - 1
StdSlots == 0 .. 2                 \* STDIN, STDOUT, STDERR

VARIABLES
  fdt,      \* fdt[p][fd]: index into openft, or -1
  openft,   \* openft[s]: an fdte_t block, UART, or NULL
  fdte,     \* the contents of every block, live or freed
  fheap,    \* the fdte_t blocks currently allocated
  pipes     \* the indices i with pipes[i] != NULL

dvars == <<fdt, openft, fdte, fheap, pipes>>

\* fdte_t: open_count, type, cursor (for a pipe end, its sibling's slot) and
\* id (for a pipe end, its pipes[] index; a file's path is not modelled).
\* A block malloc'd and never filled holds "FT_UNINIT".
Fdte == [open_count : Nat, type : {"FT_PIPE", "FT_FILE", "FT_UNINIT"},
         cursor : Slots, id : Pids \cup {0}]
Uninit == [open_count |-> 0, type |-> "FT_UNINIT", cursor |-> 0, id |-> 0]

\* The first index of S in lo .. cap - 1, or cap: the code's while-scans
FirstFrom(S, lo, cap) ==
  LET c == {k \in S : lo <= k /\ k < cap} IN IF c = {} THEN cap ELSE Min(c)

FreeFds(row) == {fd \in Fds : row[fd] = -1}
NullSlots    == {s \in Slots : openft[s] = NULL}
FreeBlocks   == FdteIds \ fheap

\* Bug variant: do_close without the open_count test, releasing at once
CloseEffect_NoCount(st, fd) ==
  LET i == st.row[fd]  b == st.ft[i]  st1 == [st EXCEPT !.row[fd] = -1]  e == st.blk[b] IN
  CASE i = -1                                  -> st
    [] b \in {UART, NULL} \/ b \notin st.heap  -> st1
    [] e.type = "FT_PIPE" -> [st1 EXCEPT !.blk[b].open_count = 0, !.heap = @ \ {st.ft[e.cursor]}]
    [] OTHER              -> [st1 EXCEPT !.blk[b].open_count = 0, !.heap = @ \ {b}, !.ft[i] = NULL]

\* Bug variant: a pipe end at zero frees its own block, not its sibling's
CloseEffect_FreeOwn(st, fd) ==
  LET i == st.row[fd]  b == st.ft[i]  st1 == [st EXCEPT !.row[fd] = -1]  e == st.blk[b] IN
  CASE i = -1                                  -> st
    [] b \in {UART, NULL} \/ b \notin st.heap  -> st1
    [] e.open_count > 1  -> [st1 EXCEPT !.blk[b].open_count = @ - 1]
    [] e.type = "FT_PIPE" -> [st1 EXCEPT !.blk[b].open_count = 0, !.heap = @ \ {b}]
    [] OTHER              -> [st1 EXCEPT !.blk[b].open_count = 0, !.heap = @ \ {b}, !.ft[i] = NULL]

(***************************************************************************)
(* do_close(fd) of the current process, as a function of the descriptor    *)
(* state st = [ft, blk, heap, row] so that do_exit's loop can fold it.      *)
(* The count is decremented through openft[i]; at zero a pipe end frees    *)
(* its sibling's block (openft[cursor]) and neither frees nor clears its   *)
(* own; a file frees its block and clears the slot.  UART entries are      *)
(* never freed and their open_count is never initialised, so it is not     *)
(* kept.  A decrement through a pointer to a freed block reads the         *)
(* allocator's link word, a heap address, as the count: it stays positive *)
(* and do_close returns true.                                              *)
(***************************************************************************)
CloseEffect(st, fd) ==
  LET i  == st.row[fd]
      b  == st.ft[i]
      st1 == [st EXCEPT !.row[fd] = -1]
      e  == st.blk[b]
  IN
  CASE i = -1                                  -> st
    [] b \in {UART, NULL} \/ b \notin st.heap  -> st1
    [] e.open_count > 1  -> [st1 EXCEPT !.blk[b].open_count = @ - 1]
    [] e.type = "FT_PIPE" -> [st1 EXCEPT !.blk[b].open_count = 0,
                                         !.heap = @ \ {st.ft[e.cursor]}]
    [] OTHER              -> [st1 EXCEPT !.blk[b].open_count = 0,
                                         !.heap = @ \ {b}, !.ft[i] = NULL]

DState == [ft |-> openft, blk |-> fdte, heap |-> fheap, row |-> fdt[current]]

\* Commit a descriptor state computed for the current process
SetDState(st) ==
  /\ openft' = st.ft
  /\ fdte'   = st.blk
  /\ fheap'  = st.heap
  /\ fdt'    = [fdt EXCEPT ![current] = st.row]

\* Bug variant: the loop stops one descriptor short (i < 31)
ForkBumped_ShortLoop ==
  LET row == fdt[current]
      bump(b) == Cardinality({fd \in 0 .. NFD - 2 : row[fd] # -1 /\ openft[row[fd]] = b})
  IN  [b \in FdteIds |-> [fdte[b] EXCEPT !.open_count = @ + bump(b)]]

\* Bug variant: open_count-- typed for open_count++
ForkBumped_Dec ==
  LET row == fdt[current]
      bump(b) == Cardinality({fd \in Fds : row[fd] # -1 /\ openft[row[fd]] = b})
  IN  [b \in FdteIds |-> [fdte[b] EXCEPT !.open_count = @ - bump(b)]]

\* do_fork's loop: open_count++ through openft for every inherited descriptor
ForkBumped ==
  LET row == fdt[current]
      bump(b) == Cardinality({fd \in Fds : row[fd] # -1 /\ openft[row[fd]] = b})
  IN  [b \in FdteIds |-> [fdte[b] EXCEPT !.open_count = @ + bump(b)]]
-----------------------------------------------------------------------------
DInit ==
  /\ Init
  /\ fdt = [p \in Pids |-> IF p = 0
                            THEN [fd \in Fds |-> IF fd \in StdSlots THEN fd ELSE -1]
                            ELSE [fd \in Fds |-> 0]]     \* zeroed pcb[]
  /\ openft = [s \in Slots |-> IF s \in StdSlots THEN UART ELSE NULL]
  /\ fdte = [b \in FdteIds |-> Uninit]
  /\ fheap = {}
  /\ pipes = {}

\* SVC 3 with its descriptor effects: the memcpy of the parent copies fdt
\* into the child slot; only a fork that got its stack runs the loop.
DFork ==
  LET child == FreeSlot IN
  /\ Fork
  /\ fdt' = IF child = PCB_SIZE THEN fdt ELSE [fdt EXCEPT ![child] = fdt[current]]
  /\ fdte' = IF heap' # heap THEN ForkBumped ELSE fdte
  /\ UNCHANGED <<openft, fheap, pipes>>

\* SVC 4 with do_exit's loop: do_close(i) for every fd of the exiting process
DExit ==
  /\ Exit
  /\ SetDState(FoldLeft(CloseEffect, DState, [k \in 1 .. NFD |-> k - 1]))
  /\ UNCHANGED pipes

\* SVC 6: do_kill touches no descriptor
DKill(pid) ==
  /\ Kill(pid)
  /\ UNCHANGED dvars

\* SVC 0xB, open: a free local fd, then do_open: a NULL slot of openft, a
\* malloc'd entry stored there at once, then the filesystem lookup or
\* create, which may fail (ok = FALSE) and return -1 with the entry left in
\* place.  A file's path and the mode from flags are not modelled.
Open ==
  LET i == FirstFrom(FreeFds(fdt[current]), 0, NFD)
      g == FirstFrom(NullSlots, 0, NFT)
  IN
  /\ ~halted
  /\ \/ /\ i = NFD \/ g = NFT \/ FreeBlocks = {} \/ FdMallocMayFail
        /\ UNCHANGED dvars                 \* returns -1 with nothing kept
     \/ /\ i < NFD /\ g < NFT
        /\ \E b \in FreeBlocks, ok \in BOOLEAN :
             /\ fheap'  = fheap \cup {b}
             /\ openft' = [openft EXCEPT ![g] = b]
             /\ IF ok
                THEN /\ fdte' = [fdte EXCEPT ![b] = [open_count |-> 1, type |-> "FT_FILE",
                                                     cursor |-> 0, id |-> 0]]
                     /\ fdt'  = [fdt EXCEPT ![current][i] = g]
                ELSE /\ fdte' = [fdte EXCEPT ![b] = Uninit]
                     /\ UNCHANGED fdt
        /\ UNCHANGED pipes
  /\ UNCHANGED vars

\* SVC 0xC, do_close(fd) of the current process
Close(fd) ==
  /\ ~halted
  /\ SetDState(CloseEffect(DState, fd))
  /\ UNCHANGED <<pipes, vars>>

\* SVC 0xD, fd_swap(fd1, fd2), valid or not
FdSwap(fd1, fd2) ==
  /\ ~halted
  /\ fdt' = [fdt EXCEPT ![current][fd1] = fdt[current][fd2],
                        ![current][fd2] = fdt[current][fd1]]
  /\ UNCHANGED <<openft, fdte, fheap, pipes, vars>>

(***************************************************************************)
(* SVC 0xE, do_pipe: two free local fds r < w, the first NULL pipes[]      *)
(* slot, two NULL openft slots rg < wg, then three mallocs in turn, each   *)
(* of which may fail and return false with what the earlier ones got kept.  *)
(* The trap discards the result.                                           *)
(***************************************************************************)
DoPipe ==
  LET row == fdt[current]
      r   == FirstFrom(FreeFds(row), 0, NFD)
      w   == FirstFrom(FreeFds(row), r + 1, NFD)
      pi  == FirstFrom(Pids \ pipes, 0, PCB_SIZE)
      rg  == FirstFrom(NullSlots, 0, NFT)
      wg  == FirstFrom(NullSlots, rg + 1, NFT)
      found == w < NFD /\ pi < PCB_SIZE /\ rg < NFT /\ wg < NFT
  IN
  /\ ~halted
  /\ \/ /\ ~found \/ FdMallocMayFail        \* a scan fails or malloc(pipe_t) does
        /\ UNCHANGED dvars
     \/ /\ found /\ FdMallocMayFail          \* pipes[pi] kept, malloc(rend) fails
        /\ pipes' = pipes \cup {pi}
        /\ UNCHANGED <<fdt, openft, fdte, fheap>>
     \/ /\ found /\ FdMallocMayFail          \* rend kept, malloc(wend) fails
        /\ \E rb \in FreeBlocks :
             /\ fheap' = fheap \cup {rb}
             /\ fdte'  = [fdte EXCEPT ![rb] = Uninit]
        /\ pipes' = pipes \cup {pi}
        /\ UNCHANGED <<fdt, openft>>
     \/ /\ found
        /\ \E rb, wb \in FreeBlocks :
             /\ rb # wb
             /\ fheap'  = fheap \cup {rb, wb}
             /\ fdte'   = [fdte EXCEPT
                             ![rb] = [open_count |-> 1, type |-> "FT_PIPE", cursor |-> wg, id |-> pi],
                             ![wb] = [open_count |-> 1, type |-> "FT_PIPE", cursor |-> rg, id |-> pi]]
             /\ openft' = [openft EXCEPT ![rg] = rb, ![wg] = wb]
        /\ fdt'   = [fdt EXCEPT ![current][r] = rg, ![current][w] = wg]
        /\ pipes' = pipes \cup {pi}
  /\ UNCHANGED vars

\* The kernel's own steps that leave every descriptor alone.  nice and the
\* semaphore traps are left to Kernel; of them only sem_wait on an invalid
\* id reaches do_exit's loop, and that path is not composed here.
KernelStep ==
  /\ \/ Tick
     \/ Halt
     \/ "yield" \in Traps /\ Yield
  /\ UNCHANGED dvars

DNext ==
  \/ KernelStep
  \/ "fork"    \in Traps /\ DFork
  \/ "exit"    \in Traps /\ DExit
  \/ "kill"    \in Traps /\ \E pid \in Pids : DKill(pid)
  \/ "open"    \in Traps /\ Open
  \/ "close"   \in Traps /\ \E fd \in FdIn : Close(fd)
  \/ "fd_swap" \in Traps /\ \E fd1, fd2 \in FdIn : FdSwap(fd1, fd2)
  \/ "pipe"    \in Traps /\ DoPipe

allvars == <<vars, dvars>>

DSpec == DInit /\ [][DNext]_allvars /\ WF_allvars(Tick /\ UNCHANGED dvars)
-----------------------------------------------------------------------------
DTypeOK ==
  /\ fdt \in [Pids -> [Fds -> Slots \cup {-1}]]
  /\ openft \in [Slots -> FdteIds \cup {UART, NULL}]
  /\ fdte \in [FdteIds -> Fdte]
  /\ fheap \subseteq FdteIds
  /\ pipes \subseteq Pids

DynSlots == Slots \ StdSlots

\* The local descriptors of occupied PCBs that refer to openft[s]
Refs(s) == {<<p, fd>> \in Allocated \X Fds : fdt[p][fd] = s}

LiveEntry(s) == openft[s] \in fheap /\ fdte[openft[s]].type # "FT_UNINIT"

\* The local descriptors of occupied PCBs that reach block b through openft
Holders(b) ==
  {<<p, fd>> \in Allocated \X Fds : fdt[p][fd] \in DynSlots /\ openft[fdt[p][fd]] = b}

(***************************************************************************)
(* Spec 3: an entry's open_count is the number of local descriptors that  *)
(* refer to it.  do_fork's loop, do_close's decrement and do_exit's loop   *)
(* go through the openft pointer, so the count belongs to the block, and   *)
(* must stay in step with its holders across every interleaving.          *)
(***************************************************************************)
RefCountExact ==
  \A b \in fheap : fdte[b].type # "FT_UNINIT" => fdte[b].open_count = Cardinality(Holders(b))

(***************************************************************************)
(* Spec 3 and 9: no entry is referenced after release.  Every descriptor  *)
(* an occupied PCB holds names a slot of openft whose block is allocated   *)
(* and filled (do_close, do_exit, do_open).                               *)
(***************************************************************************)
NoDanglingReference ==
  \A p \in Allocated, fd \in Fds :
    fdt[p][fd] \in DynSlots => LiveEntry(fdt[p][fd])

(***************************************************************************)
(* The two ends of a pipe stay linked while either is open: each names    *)
(* the other's slot in cursor, with the same pipes[] index, which is what  *)
(* do_close follows to free the counterpart.                               *)
(***************************************************************************)
PipeEndsLinked ==
  \A s \in DynSlots :
    (LiveEntry(s) /\ fdte[openft[s]].type = "FT_PIPE" /\ fdte[openft[s]].open_count > 0)
    => LET e == fdte[openft[s]] IN
       /\ LiveEntry(e.cursor)
       /\ fdte[openft[e.cursor]].type = "FT_PIPE"
       /\ fdte[openft[e.cursor]].cursor = s
       /\ fdte[openft[e.cursor]].id = e.id

(***************************************************************************)
(* Spec 3: an entry is destroyed by the last closing descriptor.  A slot  *)
(* of openft that no descriptor of an occupied PCB refers to is NULL       *)
(* again, so the table does not fill up with orphans (do_open, do_close).  *)
(***************************************************************************)
NoOrphanEntry ==
  \A s \in DynSlots : openft[s] # NULL => Refs(s) # {}
====
