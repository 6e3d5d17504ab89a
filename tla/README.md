# TLA+ models of the Archive-CC-OS kernel

This directory models the process, scheduling, synchronisation and descriptor
core of the kernel in `src/kernel/hilevel.c`, the pipe ring buffer of
`src/kernel/pipe.c`, and the namespace and file contents of the CWFS2
filesystem in `src/kernel/fs2.c`, and the dining philosophers program of
`src/user/philosophers.c` run on that kernel, so that the TLC model checker
can check them. It
holds TLA+ modules, the TLC configurations that check them, and `PROJECT.json`.
`PROJECT.json` lists:

- the components;
- the runs and their mutants;
- the map from every modelled definition to its source lines;
- the findings;
- the hazards.

## 1. The system

The kernel runs on a single ARM core. Each interrupt or trap handler runs to
completion, because the core masks IRQs on exception entry and the handlers
never unmask them. So one step of every model is one whole handler.

| Part | State (source) | Operations |
|---|---|---|
| PCB table | `pcb[PCB_SIZE]` (status, base_priority, waiting, stack, fdt[32], wd, ctx); the occupancy bitmap `pcballoc` (uint32); `current` | `new_pcb_entry`, `new_user_proc`, `do_fork`, `do_exit`, `do_kill`, nice, `do_exec` |
| Round-robin scheduler (`SCHEDULE_AGES` false) | `current_runtime` | `schedule` (timer IRQ), `next`, `context_switch`, yield |
| Aging scheduler (compiled out) | `pcb[].age` | `schedule`, `aged_priority` |
| Semaphore table | `sem[PCB_SIZE]` (uint32) | `do_sem_post`, `do_sem_wait`, the traps sem_init, sem_post, sem_wait |
| Global descriptor table | `openft[64]` of `fdte_t` {open_count, type, mode, id, cursor}; each PCB's `fdt[32]` | `init_fs`, `do_open`, `do_close`, fd_swap, `do_pipe`; fork increments open_count; exit closes every descriptor |
| Pipes | `pipes[PCB_SIZE]` of ring buffers (`pipe.c`) | `pipe_reset`, `can_read`, `pipe_read`, `pipe_write`, reached through `do_read` and `do_write` |
| Dispatcher | — | `hilevel_handler_svc` (traps 0x00-0x18), `hilevel_handler_irq`, `hilevel_handler_rst` |
| Filesystem (CWFS2) | `vol`: the hblock, the iblock, dblock and general purpose caches with their addresses (`fs2.c`) | `fs2_format_volume`, `fs2_find_file`, `fs2_create`, `fs2_rm`, `fs2_ls`, `fs2_read`, `fs2_write`, reached through the MKFILE, MKDIR, RM, LS traps and `do_open`, `do_read`, `do_write` |
| UART, timer, GIC | PL011 and SP804 drivers | external collaborators (spec 1) |
| User programs | the shell, tools, semtest and philosophers (`src/user`) | the `svc` wrappers of `xlibc.c` |

User programs reach the kernel only through the `svc` wrappers in
`src/user/xlibc.c`.

### How the parts interact

- **Timer interrupt.** The timer calls `schedule()`. Once `current_runtime`
  reaches the running process's `base_priority`, `schedule()` calls `next()`.
- **How `next()` picks a process.** `next()` scans the bitmap circularly from
  `current+1` for a Created or Ready process and calls `context_switch()`.
  When it finds none, it returns to the same context.
- **Traps that call `next()`.** yield, exit, and a sem_wait that blocks.
- **Semaphores.** `do_sem_post` wakes at most one Waiting process, making it
  Ready.
- **Teardown.**
  - `do_exit` frees the stack, closes every descriptor and clears the
    process's bit. It halts when the bitmap reads zero.
  - `do_kill` clears a bit and frees a stack. It touches nothing else.
- **Fork.** `do_fork` copies the parent's PCB and stack, and increments the
  open_count of every inherited descriptor.

### What is hard

The hard parts are sequences of traps by several processes, interleaved with
timer ticks. These sequences reach states that no single handler's tests
reach. The examples below are hazards listed in `PROJECT.json`:

- blocking when nobody else can run;
- killing oneself;
- a fork that fails after it has claimed the slot;
- uint32 wrap-around in sem_init;
- the circular wake-up scan;
- whether every runnable process is eventually run;
- descriptor reference counts across fork, close and kill;
- pipe slots that are never reclaimed;
- the pipe loops' uninitialised counter;
- filesystem caches trusted after the block they hold was rewritten, and
  lookups, unlinks and creates whose index arithmetic is off at a boundary;
- philosophers that could all hold one fork and wait for the next, or be
  passed over for ever;
- file writes that span blocks, stop part-way on a full disk, or go through
  a descriptor whose cursor another descriptor's write, or an RM and MKFILE
  of the path, has made stale.

### What makes each part correct

These properties come from spec sections 3, 4 and 8:

- exactly one PCB is Executing, and `current` is that PCB;
- a stack is owned by exactly one occupied slot;
- only a Created or Ready process is dispatched;
- a waiter is woken only by a post that covers its request, it is the first
  such waiter in the scan, and the counter is credited exactly the surplus;
- every runnable process is eventually run;
- each descriptor entry's open_count equals the number of local descriptors
  that refer to it;
- a pipe is a FIFO of bounded capacity (spec 4.4);
- in the filesystem, each created inode is linked from exactly one directory
  slot, a directory's counted entries are written ones, a directory keeps its
  `.` and `..` entries, and `fs2_create` returns true only for a file that can
  then be found (its header comment);
- each fork of the philosophers is one unit, held by at most one of them,
  they never all wait at once, and each eats again and again;
- a file is a sequence of bytes: a read returns what the writes before it
  stored at those positions, and a file's eof never passes its blocks.

## 2. Modules

### `Kernel.tla`

`Kernel.tla` models the PCB table, the round-robin scheduler, the semaphores and
the process and semaphore traps.

**State.**

| Variable | Models |
|---|---|
| `pcb` | status, base_priority, waiting record and stack of each slot |
| `pcballoc` | the bitmap, as its two's-complement value (see below) |
| `current` | `current` |
| `current_runtime` | `current_runtime` |
| `sem` | `sem[]`, modulo `WORD` |
| `heap` | the stack blocks that malloc has handed out and that have not been freed |
| `halted` | `halt()` was entered |

The bitmap is kept in `-2^PCB_SIZE .. 2^PCB_SIZE-1`. The code only ever reads
its low `PCB_SIZE` bits and whether it is zero. A subtraction that borrows is
kept exactly as far as those reads can tell (`Borrow`).

**Actions.** There is one action per handler, and each includes the `next()`
call its trap makes:

| Action | Code |
|---|---|
| `Tick` | `schedule` |
| `Yield` | yield |
| `Fork` | `do_fork`; the disjuncts are table full, malloc failure and success |
| `Exit` | `do_exit` followed by `next(TERMINATED)`, or `halt` |
| `Kill` | `do_kill` |
| `Nice` | nice |
| `SemInit` | sem_init |
| `SemPost` | sem_post (via `DoSemPost`, which models `do_sem_post`) |
| `SemWait` | `do_sem_wait` followed by `next(WAITING)`; an invalid id is covered too |
| `Halt` | the `while(1)` spin of `halt()` |

`Trap` lets the current process issue any trap in the `Traps` constant, with
any argument from the input sets. That is the most general user program.
`Init` is `hilevel_handler_rst`: process 0 with priority `INIT_PRIORITY` and
one stack.

**Data that is abstracted.**

- Contexts, working directories and descriptors are left out of this module.
- A stack is a model value.
- malloc returns any free block, or NULL when none is free or when
  `MallocMayFail` is set.
- The code reads `sem[sem_id]` out of bounds when sem_wait is given an invalid
  id. The model treats that read as a nondeterministic choice.
- `do_sem_post` frees a waiter's record but leaves the pointer dangling. The
  model clears it instead. This is sound because the record is read only while
  the process is Waiting, and every path into Waiting writes a fresh record.

### `MCKernel.tla`

`MCKernel.tla` instantiates `Kernel` for TLC:

| Constant | Value | Why |
|---|---|---|
| `PCB_SIZE` | 3 | parent, child and grandchild; a full table; a scan that wraps past 0 |
| `INIT_PRIORITY` | 2 (5 in the code; 5 in the violation runs) | a quantum of three ticks keeps the liveness run small; the quantum's length does not change which process next() picks |
| `WORD` | 4 | 2-bit words, so wrap-around is reachable |
| `SEM_CAP` | 2 | sem_post is explored only while the counter is below 2 |
| semaphore ids | {0, 3} in kernel_core, {0} in the violation runs | 3 is an invalid id |
| amounts | {1, 2} | — |
| init values | {0, 1} | — |
| priorities | {0} in kernel_core, {0, 1} in the violation runs | — |
| stacks | three model values | kernel_core checks liveness, so it uses no symmetry |

The violation runs use only the traps each anomaly needs.

`RunningIsExecuting` is the state constraint of the passing runs. It is the
invariant `CurrentIsExecuting`: a state is expanded only while the trapped
context belongs to an allocated, Executing process, or the machine has halted.
A state it cuts off is one in which the code has already broken spec 3, because
the kernel resumed a caller that was exited, killed or blocked. Each way of
getting there is shown by a violation run. What follows such a state is
corruption: phantom slots, double frees. Exploring it would only repeat the
finding. TLC still generates and checks the cut-off states themselves, so
every action and every disjunct fires.

### `Descriptors.tla`

`Descriptors.tla` extends `Kernel` with the global descriptor table and each
process's local table. It also extends the fork, exit and kill actions with
what those handlers do to descriptors.

**State**, in addition to Kernel's:

| Variable | Models |
|---|---|
| `fdt` | `pcb[p].fdt[]`: an `openft` index, or -1 |
| `openft` | `openft[]`: a heap block, `UART`, or `NULL` |
| `fdte` | the contents of each `fdte_t` block: open_count, type, cursor and id. The contents are kept after a free, as the memory still holds them. |
| `fheap` | the `fdte_t` blocks currently allocated |
| `pipes` | the indices of `pipes[]` that are non-NULL. A `pipe_t` is not a block of `fheap`: it is never freed, and its buffer is the subject of `Pipe` |

**Actions.**

| Action | Code |
|---|---|
| `Open` | `do_open` together with the svc wrapper. The disjuncts are: no free local or global slot, or the malloc fails; or the entry is stored and the filesystem call succeeds or fails. |
| `Close` | svc close, via `CloseEffect` (`do_close`) |
| `FdSwap` | svc fd_swap |
| `DoPipe` | `do_pipe`: scan failure, then each malloc failing in turn, then success with the two ends linked through `cursor` |
| `DFork` | `Fork`, plus copying `fdt` and the open_count loop (`ForkBumped`) |
| `DExit` | `Exit`, plus closing every descriptor: `do_close` folded over 0..NFD-1 |
| `DKill` | `Kill`; the code closes nothing |
| `KernelStep` | tick, halt and yield, which leave descriptors alone |

`NFD` and `NFT` stand for the sizes 32 and 64. Filesystem success is a
nondeterministic boolean. Blocks are model values under symmetry. A descriptor
that refers through a freed block reads what the block holds after the
free. Its type, cursor and id are the stale contents. Its first word, the
open_count, now holds the allocator's link word, a heap address. So a
decrement through it leaves the count positive, and `do_close` returns true
(`CloseEffect`). `FdMallocMayFail` lets the descriptor mallocs
fail independently of the stack malloc, so that the pipe run can explore
failed pipes without also reaching the fork finding.

### `MCDescriptors.tla`

| Constant | Value | Why |
|---|---|---|
| `PCB_SIZE` | 2 | parent and child: enough to share an entry through fork |
| `NFD` / `NFT` | 5 / 6 | three UART descriptors plus two free local slots, and three free global slots |
| blocks | three model values | one pipe (a pipe_t block and two ends), or three files |
| `FdIn` | {1, 3, 4} | a standard descriptor and the two dynamic slots |

There are two state constraints:

- `DescriptorsSound` (pipe run) extends `CurrentIsExecuting` with
  `NoDanglingReference`. States past the first dangling descriptor, which the
  violation run `pipe_close_dangles` shows, are checked but not expanded.
- The file run's `RunningIsExecuting` caps every open_count at 3. Fork
  followed by kill grows a count without bound, because kill never closes
  anything; the cap lets the run terminate with every other path explored.

### `Pipe.tla` and `PipeQueue.tla`

`Pipe` models one `pipe_t` (`pipe.c`, `pipe.h`).

- **State.** `buffer`, `reader`, `writer` and `full` are the struct's fields.
  `ret` is the count the last call returned and `out` what the last read
  handed its caller.
- **Actions.** `PipeWrite(in, i0)` and `PipeRead(n, i0)` are whole calls of
  `pipe_write` and `pipe_read`. Each loop is a RECURSIVE operator
  (`WriteLoop`, `ReadLoop`) over a record of the loop's variables.
- **The loop counter.** `int i;` is never initialised. Its start value `i0`
  is taken from the constant `CounterInit`. Bytes outside the caller's buffer,
  and the contents of a fresh `pipe_t`, are the model value `Junk`.
- **Refinement.** `PipeQueue` is the abstract specification from spec 4.4: a
  bounded FIFO `q` with partial, non-blocking `QWrite` and `QRead`. `Pipe`
  instantiates it with `q <- Contents`. `Contents` is the bytes from `reader`
  onwards, `PIPE_SIZE` of them when `full` and `(writer - reader) %
  PIPE_SIZE` otherwise. `ImplementsPipeQueue` is `Queue!QSpec`, checked as a
  PROPERTY.
- **`MCPipe.tla`.** `PIPE_SIZE` 3, bytes {1, 2}, transfers of up to 4 bytes,
  so writes overrun the ring and reads drain past empty. `CounterInit` is {0}
  in the pass run and {-1, 0, 1} in the violation run.

### `FS2.tla`

`FS2` models the namespace of a CWFS2 volume: directories and files created
and removed, for one boot after `init_fs` formats a blank disk.

- **One state for cache and disk.**
  - With at most 32 inodes, every inode lives in iblock 0, which stays in the
    iblock cache.
  - Every dblock the code changes is saved before another is loaded, so the
    dcache always equals the block it names.
  - With disk I/O succeeding, one copy of each block is therefore enough:
    `inode` is the cached iblock and `dblk[b]` block `b` read as directory
    entries.
  - The one cache that can disagree with the disk is the general purpose
    block, which `fs2_unlink` reads through. It is its own variable, `xc`.
- **Format.** On a blank disk `vol` is a zeroed global, so `icindex` is 0 and
  no iregion is ever allocated: the root's dregion is block 1 (`FsInit`).
- **Actions.**
  - `Create(ft, path)` is `fs2_create`, with `fs2_find_file`,
    `fs2_create_file`, `fs2_init_inode`, `fs2_add_dir_entry` and
    `fs2_find_free_region` as operators composed over a volume record `Vol`.
  - `Rm(path)` is `fs2_rm` with `fs2_unlink`.
  - Every guard, early return and outcome of the C is kept, including:
    - the lookup's prefix match and its stop before the last block;
    - the one-character-parent test `split == path`;
    - the overwritten outcome of `fs2_add_dir_entry`;
    - the `k % 32` compare and the region walk of `fs2_unlink`;
    - the zeroing of `reg_start` before unlinking.
- **Paths.** A name is a sequence of characters. A path is a sequence of names,
  and a trailing `/` is a last, empty, name. `n` and `i` of
  `fs2_add_dir_entry` are never initialised; they are taken as 0.

`MCFS2.tla` gives the names and path sets. The constants are scaled as follows:

| Constant | Real | Model | Why |
|---|---|---|---|
| `ENTRIES` | 128 | 8 (pass), 4 or 2 (violations) | 8 keeps every directory of the pass run in one block; 4 and 2 make directories span blocks and regions with few files |
| `UNLINK_MOD` | 32 | `ENTRIES` (pass), 1 (a reproduction in section 3) | in the real code slots below 32 are compared correctly; the pass run stays in that regime, and 4:1 is the real ratio |
| `DEF_DREG_LEN`, `DEF_IREG_LEN` | 2, 4 | 2, 4 (1 in the two region runs) | the values `init_fs` passes |
| `NREG` | 23 | 2 or 3 | enough for a directory to grow a second region and then be full |
| `NBLOCKS` | 100 | 6 to 9 | the disk fills after two or three directories, so `FS2_DISK_FULL` happens |
| `MaxInodes` | - | 5 | root and four creates: enough to remove, recreate and remove again |

### `FS2File.tla` and `FileStore.tla`

`FS2File` extends `FS2` with the contents of files: `fs2_read`,
`fs2_write`, `fs2_grow_file`, `finish_write` and `fs2_isftype`, reached
through the `FT_FILE` branches of `do_open`, `do_read`, `do_write` and
`do_close`. The namespace actions of `FS2` stay in its next-state relation,
so MKFILE and MKDIR of a file's path interleave with its reads and writes.

- **Blocks.** A block has `ENTRIES` cells. Directory code reads a cell as an
  entry and file code as a byte, so `FS2_BLOCK_SZ` is `ENTRIES` (`BLOCK_SZ`).
  Byte values are the constant `Bytes`. A block no one wrote holds `Junk`.
- **The general purpose cache.** File blocks are loaded and saved through
  `xc`, the cache `fs2_unlink` also uses (`fs2_load_gp_c`,
  `fs2_save_gp_c`). A dry load changes only the address, so the cell data
  of the previous block stays in the cache and is saved with the new one.
- **Descriptors.** `fde[f]` is an `openft` entry of type `FT_FILE` opened
  `FM_RW`. It holds the path it was opened with and a cursor, and every call
  looks the path up again, as the code does with `fde->id`. `Open` with the
  create flag calls `Create(FILE, p)` when no file is there. The per-process
  `fdt`, modes and reference counts are the business of `Descriptors`.
- **Actions.** `Write(f, in)` is `do_write` with the whole `fs2_write`:
  - the first, partial, block is read, patched and saved;
  - full blocks follow (`WriteFull`);
  - the last partial block is filled from the start of `in`, as line 737
    does;
  - a missing block is grown, and a full disk or inode ends the write
    through `finish_write`, or with 0 at the first block.
  `Read(f, k)` is `do_read` with the whole `fs2_read`, including the last
  block that is loaded without checking `find_blk`'s 0. `io` records each
  call's result and bytes.
- **Refinement.** `FileStore` is what the calls promise a user program: a
  map from paths to byte sequences, and descriptors with cursors. A write
  stores a prefix of its bytes at the cursor, and the file ends after them
  (`fs2_write`: "Always updates EOF"). A write that stores nothing may leave
  the file as it was. A read returns the bytes from the cursor. `FS2File`
  maps `files` to `Content` of the file each path names, `cur` to `fde` and
  `last` to `io`. `ImplementsFileStore` is `Store!SSpec`.
- **Bounds** (`MCFS2File.cfg`):
  - two-cell blocks and writes of up to 3 bytes, so one write covers step 1,
    step 2 and step 3;
  - `NBLOCKS` 7, with the root's three blocks: a file of two regions fills
    the disk, and `FS2_DISK_FULL` and `FS2_FILE_FULL` both happen;
  - `DEF_DREG_LEN` 3, so that the root's entries do not fall in the one
    block the lookup never searches;
  - `DEF_IREG_LEN` 3, which enters only the format-argument check, because
    no iregion is ever allocated;
  - two descriptors, interchangeable under symmetry.
  The pass run uses one byte value. Its properties tell written bytes from
  `Junk` and directory entries, not one byte from another. The refinement
  run uses two byte values and one descriptor.

### `Philosophers.tla` and `MCPhilosophers.tla`

`Philosophers` runs the program of `src/user/philosophers.c` on the kernel.
It EXTENDS `Kernel` and adds one variable, `prog`. For each PCB slot, `prog`
holds the program running there (spawner, philosopher or none), the
philosopher's index and its place in the program. Each program step is one
trap, issued through the `svc` wrappers of `xlibc.c` by the process that is
current and Executing. The step is the `Kernel` action for that trap
(`SemInit`, `Fork`, `Yield`, `SemWait`, `SemPost`), so the semaphores and
the scheduler are exactly those of the kernel model.

- `SpawnInit`, `SpawnFork` and `SpawnYield` are the three loops of
  `phil_spawner`: `sem_init(i, 1)` for each fork, one `fork()` per
  philosopher, then yield. The child of a fork, in the slot that
  `new_pcb_entry` gave it, starts `phil_thinker(i)`.
- `WaitFirst`, `WaitSecond`, `PostFirst` and `PostSecond` are the four traps
  of `phil_thinker`'s loop. `FIRST_FORK` and `SECOND_FORK` are the two macros
  of the source, so the last philosopher takes its right fork first.
- A `sem_wait` that blocks moves the place on anyway, as the real process
  sits just after its `svc`. When a post wakes it and `next()` dispatches it,
  it holds the fork.
- The pipe, close, fd_swap, printn, read and write calls are left out. They
  touch only descriptor tables and pipe buffers, never block, and never
  reach the semaphores or the scheduler. `eat()` is computation.
- The spawner is the boot process, in slot 0. The shell that launches it in
  the real system only waits for keyboard input, and it is left out.

The fairness is `WF_vars(Tick)` and, for each slot, strong fairness of its
program step. The step is enabled only while the process is current, and
ticks take that away. After `next()` zeroes `current_runtime`, a dispatched
process runs for at least one timer interval of thousands of instructions
before `schedule()` can preempt it. So a process that is dispatched again
and again does issue its next trap.

`MCPhilosophers` uses:

- three philosophers, so that two reach left first and one right first;
- four PCB slots and four stacks, so that every fork succeeds, as 16
  philosophers, the spawner and the shell do in 32 slots;
- base priority 1 for the spawner, inherited by the philosophers, so the
  quantum is two ticks.

## 3. Runs

| Run | cfg | Expect | What it checks |
|---|---|---|---|
| kernel_core | `MCKernel.cfg` | pass | `TypeOK`, `SoleExecuting`, `StacksExclusive` and `WakeCorrect`, with all eight traps and an invalid semaphore id, and `ReadyEventuallyRuns`: every runnable process is eventually current, unless it is killed first. No symmetry, since symmetry is unsound for liveness. About 811k distinct states in under two minutes. |
| wait_alone | `MCKernelWaitAlone.cfg` | violation | `CurrentIsExecuting`: the boot process, alone, calls sem_wait(0,1) on a zero counter. `next()` finds no other runnable process and returns to the Waiting caller. |
| kill_self_then_exit | `MCKernelKillExit.cfg` | violation | `OnlyRunnableSelected`: fork twice, kill(0) by process 0, kill(1), then exit. The exit borrows into bit 1, and `next()` dispatches the killed slot 1, whose stack is freed. |
| descriptors_pipe | `MCDescriptorsPipe.cfg` | pass | `RefCountExact` (the open_count of each allocated entry equals the number of descriptors, across all processes, whose slot points at it) and `PipeEndsLinked` (the live end of a pipe points at a live sibling that points back). Covers pipe, open, close, fd_swap, fork and exit with failing mallocs. About 480k states. |
| descriptors_file | `MCDescriptorsFile.cfg` | pass | `DTypeOK` and `NoDanglingReference` (no occupied PCB holds a descriptor whose entry has been freed). Covers files shared by fork and released by close, exit and kill. About 1.5M states. |
| pipe_close_dangles | `MCDescriptorsPipeClose.cfg` | violation | `NoDanglingReference`: pipe, then close(read end). The count reaches 0, and `do_close` frees the write end's entry, which the caller still holds (hilevel.c:354). |
| pipe_refinement | `MCPipe.cfg` | pass | `PipeTypeOK` and `ImplementsPipeQueue`: with the counter at 0, `pipe_write` and `pipe_read` implement the bounded FIFO under the mapping `Contents`, wrap-around and the full ring included. 2,507 states. |
| fs2_namespace | `MCFS2.cfg` | pass | `FsTypeOK`, `DirEntriesValid` (counted entries are written entries of created inodes, within the directory's regions), `LinkedOnce` (no inode is linked from two slots) and `DirLinksIntact` (`.`, `..`, `iparent` and the parent's link agree). Creates and removes under `p`, `pq`, `p/q`, `pq/q`, and a create of `p/`, until the disk is full. About 28k states. |
| fs2_unlink_stale_xcache | `MCFS2Xcache.cfg` | violation | `LinkedOnce`: create p, r, q; rm p; create p; rm r. The second unlink takes the last entry from the stale xcache, so q is linked twice and the new p is lost (fs2.c:481). |
| fs2_file_io | `MCFS2File.cfg` | pass | `FileTypeOK`, `EofCovered` (a linked file's eof is within the blocks of its regions) and `ReadsWrittenBytes` (a read returns only bytes a write stored: never `Junk`, a directory entry, or the stale tail of a dry load). Two descriptors open, read, write and close `p`, interleaved with MKFILE and MKDIR of `p`, until the disk is full. About 20k states. |
| fs2_write_last_block | `MCFS2FileStore.cfg` | violation | `ImplementsFileStore`: open p, then write `a a b` at cursor 0. Step 3 of `fs2_write` fills the second block from `in` instead of `in + wcount`, so the file reads `a a a` (fs2.c:737). With that one argument corrected, TLC finds the refinement holds with writes of up to 2 bytes. |
| philosophers | `MCPhilosophers.cfg` | pass | `ForkConservation`: once `sem_init(f, 1)` has run, the counter of fork f plus the philosophers holding it is always 1. `NotAllBlocked`: once all are forked, the philosophers are never all blocked in sem_wait. `EveryoneEats`: each philosopher holds both forks again and again. Being at the meal's place while still blocked on the second fork does not count. Also `PTypeOK`. 10,544 distinct states. |

**Further disagreements, not among the runs.** The project keeps twelve
runs, so these are recorded as hazards in `PROJECT.json` rather than as runs.
Each is reproduced by copying the named cfg, making the change given,
deleting its SYMMETRY, CONSTRAINT, INVARIANT and PROPERTY lines, and checking
the one property named; TLC finds each violated:

| Shows | Start from | Change | Property |
|---|---|---|---|
| a fork whose stack malloc fails leaves the child slot an Executing copy of the parent (hilevel.c:470) | `MCKernel.cfg` | `Traps <- MC_ForkTraps`, `MallocMayFail = TRUE` | `SoleExecuting` |
| sem_init(0,1); sem_wait(0,2); sem_init(0,0) by the other process: the wrapped post of 0-1 wakes the waiter (hilevel.c:755) | `MCKernel.cfg` | `Traps <- MC_SemTraps` | `WakeByIntendedPost` |
| kill of a process holding a file leaves the entry's open_count counting it (hilevel.c:513) | `MCDescriptorsFile.cfg` | `Traps <- MC_KillTraps` | `RefCountExact` |
| an open whose lookup fails leaves its entry in `openft` (hilevel.c:324) | `MCDescriptorsFile.cfg` | `Traps <- MC_OpenTraps` | `NoOrphanEntry` |
| with the pipe loop counter starting at 1, a one-byte write stores nothing and returns 1 (pipe.c:23) | `MCPipe.cfg` | `CounterInit <- MC_CounterAny` | `ImplementsPipeQueue` |
| after create pq, p resolves to pq (fs2.c:225) | `MCFS2.cfg` | `CreatePaths`, `RmPaths <- MC_TreePaths` | `ResolvesExactly` |
| a file placed in the only block of a directory's last region cannot be found (fs2.c:220) | `MCFS2Xcache.cfg` | `ENTRIES = 2`, `UNLINK_MOD = 2`, `DEF_DREG_LEN = 1`, `NREG = 3`, `NBLOCKS = 7` | `CreateReportsTruth` |
| a create into a directory with no region left returns true for an unlinked inode (fs2.c:371) | the same, with `NREG = 2`, `NBLOCKS = 6` | | `CreateLinksNewInode` |
| rm p/ unlinks p's own `.` entry and returns true (fs2.c:517) | `MCFS2.cfg` | `CreatePaths`, `RmPaths <- MC_DotPaths` | `DirLinksIntact` |
| create p/q with no p returns true and makes q in the root (fs2.c:772) | `MCFS2.cfg` | `CreatePaths <- MC_TreePaths` | `CreateReportsTruth` (PROPERTY) |
| with 4 entries per block and the compare at `k % 1` (the real 128:32 ratio), rm of a directory that is not the last inode fails after zeroing its regions (fs2.c:471, 519) | `MCFS2.cfg` | `CreatePaths <- MC_TreePaths`, `ENTRIES = 4`, `UNLINK_MOD = 1` | `RmFailureHarmless` (PROPERTY) |
| open p, write 2 bytes, RM p, MKFILE p, write 1 byte: the stale cursor 2 puts eof at 3 in a file of one block, and a read through a fresh descriptor returns `Junk` (hilevel.c:384, fs2.c:638) | `MCFS2File.cfg` | `RmPaths <- MC_FilePaths` | `EofCovered`, or `ReadsWrittenBytes` |

`WakeCorrect` accepts the wrapped amounts that sem_init can post. It checks
that the scan and the credit are right for whatever amount was posted. The
woken process must also be the first waiter the post could serve in the
scan from `current + 1` (`FirstInScan`). A scan that picked the last
eligible waiter instead breaks it.
`WakeByIntendedPost` refuses those wrapped amounts. That is spec 4.3's claim,
and it is the one that fails.

**Fairness.** `WF_vars(Tick)` is the only fairness assumption of `Kernel`;
`Philosophers` adds strong fairness of each process's program step, as argued
in section 2. `Pipe`, `FS2` and `FS2File` are sequences of calls with no liveness property. The timer
interrupt is configured in `init_timer` and is masked only by `halt()`. No
trap is assumed to happen, so the liveness result does not depend on the user
programs yielding.

**Mutants.** Every property of a passing run is broken by a plausible bug in
the mapped code, listed in `PROJECT.json`:

| Property | Mutant |
|---|---|
| `TypeOK` | the counter arithmetic without the uint32 wrap |
| `SoleExecuting` | `context_switch` not marking the outgoing process |
| `StacksExclusive` | fork taking any block |
| `WakeCorrect` | the scan ignoring the requested amount |
| `ReadyEventuallyRuns` | a scan that does not wrap around |
| `RefCountExact` | fork's increment loop stopping one descriptor short |
| `PipeEndsLinked` | close of a pipe end freeing its own entry |
| `DTypeOK` | fork decrementing instead of incrementing |
| `NoDanglingReference` | close freeing the entry without testing the count |
| `PipeTypeOK` | the writer index advanced without the modulo |
| `ImplementsPipeQueue` | the write loop never setting `full`, so it laps the reader |
| `FsTypeOK` | `fs2_find_free_region` without the disk-full test |
| `DirEntriesValid` | `fs2_add_dir_entry` writing one slot past the one it counts |
| `LinkedOnce` | `fs2_unlink` filling the hole but not decrementing eof |
| `DirLinksIntact` | `fs2_create_file` writing `..` with the new inode's own index |
| `FileTypeOK` | `fs2_find_free_region` without the disk-full test, reached by `fs2_grow_file` |
| `EofCovered` | `fs2_write` sizing a new region without rounding up the partial block |
| `ReadsWrittenBytes` | `fs2_load_gp_c` reading the dry flag the wrong way round |
| `PTypeOK` | the sem_init loop of `phil_spawner` running one semaphore too far |
| `ForkConservation` | `phil_thinker` posting its first fork twice instead of both forks |
| `NotAllBlocked` | every philosopher taking the left fork first |
| `EveryoneEats` | a `next()` scan that does not wrap around |

The bug variants are defined in each module just before the definition each
one replaces.

## 4. Not modelled, and why

- The filesystem is an external collaborator by spec 1. `Descriptors`' `Open`
  takes its answer as a boolean; `FS2` and `FS2File` model the filesystem on
  its own, with the file descriptors reduced to a path and a cursor.
  `fs2_ls`, `fs2_block_dump` and `fs2_outcome_str` only print. `fs2_chmod`
  has an empty body, so permissions never change; the permission tests of
  `fs2_read` and `fs2_write` are dead code as well, since `fperm & FS2_U_READ
  == 0` parses as `fperm & 0`. `fs.c` and `fs.h` are an older filesystem
  that nothing calls.
- Writes of 0 bytes are left out. At a block boundary past the regions,
  such a write grows a region of length 0 starting at `next_block`. On a
  full disk that block lies past the volume, and what the disk driver does
  with it is outside the model. The hazard is listed in `PROJECT.json`.
- `FS2` covers one boot. Disk reads and writes are assumed to succeed, and a
  reboot is not modelled, though `fs2_save_iblock_c` writes the inodes to
  block 0, where the hblock then overwrites them (a hazard in `PROJECT.json`).
- UART, timer and GIC setup are device I/O. The timer is modelled only as
  `Tick`.
- `do_exec`, `do_cd` and the filesystem passthroughs change only register
  context, working-directory strings or the filesystem.
- `_sbrk` and malloc's internals are not modelled. malloc is a choice of a free
  block or NULL.
- The aging scheduler is compiled out: `SCHEDULE_AGES` is false in
  `hilevel.h`, so `aged_priority`, the aging `schedule()` and even the `age`
  field of `pcb_t` are not in the kernel that is built. A model of it would
  check a program that does not exist.
- `do_read` and `do_write` are not composed with `Pipe`. The philosophers'
  pipes never block, so leaving them out of `Philosophers` changes nothing
  that its properties tell apart.
- `semtest.c` is the same pattern as the philosophers with a single mutex,
  and is covered by the same `Kernel` actions, so it is not modelled on its
  own. `sh.c`, `tools.c` and `strformat.c` parse and print text. They pass
  paths and pids to the traps, and the modules take those from small input
  sets.
- Two launches of `phil` (or `phil` and `sem`) share the semaphores by id.
  The second `sem_init(i, 1)` on a fork that is held posts 1 and creates a
  second unit. The model runs one spawner; the hazard is listed.
- The Descriptors runs leave out nice and the semaphore traps, since they
  touch no descriptor. The one exception is sem_wait on an invalid id, which
  reaches `do_exit`; it is checked in Kernel only.
