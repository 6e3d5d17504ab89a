---------------------------- MODULE Philosophers ----------------------------
(***************************************************************************)
(* The dining philosophers program of src/user/philosophers.c run on the  *)
(* kernel of Kernel.tla.  phil_spawner initialises one semaphore per fork  *)
(* as a mutex, forks one process per philosopher and then loops reading   *)
(* their pipes and yielding; each phil_thinker waits for its first fork,  *)
(* then its second, eats, and posts both.  The last philosopher takes its *)
(* right fork first, which is meant to rule out the circular wait.        *)
(*                                                                         *)
(* Each program step is one trap, taken by the process that is current    *)
(* and Executing, with the kernel action of Kernel.tla for that trap.  A  *)
(* sem_wait that blocks leaves the process after its svc: when a post     *)
(* wakes it and next() dispatches it, it goes on holding the fork.  The   *)
(* pipe, close, fd_swap, printn, read and write calls only touch the      *)
(* descriptor tables and pipe buffers, never block and never reach the    *)
(* semaphores or the scheduler, so they are left out; eat() is a loop of  *)
(* is_prime calls with no effect on kernel state.                         *)
(***************************************************************************)
EXTENDS Kernel

CONSTANTS PHIL_COUNT   \* 16 in philosophers.c

ASSUME /\ PHIL_COUNT \in Nat \ {0, 1}
       /\ PCB_SIZE > PHIL_COUNT                 \* every fork finds a slot
       /\ Cardinality(StackIds) > PHIL_COUNT    \* ... and a stack
       /\ ~MallocMayFail
       /\ 0 .. PHIL_COUNT - 1 \subseteq SemIdIn /\ 1 \in AmountIn

VARIABLES
  prog   \* prog[p]: the program running in slot p and its place in it

allvars == <<vars, prog>>

Phils == 0 .. PHIL_COUNT - 1

\* phil_thinker(left_fork): the fork to the right, and which one comes first
right_fork(i) == IF i = PHIL_COUNT - 1 THEN 0 ELSE i + 1
left_first(i) == i < right_fork(i)

\* Bug variant: every philosopher reaches for the left fork first
FIRST_FORK_LeftAlways(i) == i

FIRST_FORK(i)  == IF left_first(i) THEN i ELSE right_fork(i)
SECOND_FORK(i) == IF left_first(i) THEN right_fork(i) ELSE i

\* Places in the programs: the spawner initialises the semaphores ("init"),
\* forks the philosophers ("fork"), then reads and yields ("loop"); a
\* philosopher is before its first sem_wait ("first"), before its second
\* ("second"), eating before its first post ("eat"), or before its second
\* post ("put").  A slot that runs no program is "none".
Spawner(pc, i) == [role |-> "spawner", pc |-> pc, i |-> i]
Thinker(pc, i) == [role |-> "phil", pc |-> pc, i |-> i]
Idle           == [role |-> "none", pc |-> "none", i |-> 0]

PInit ==
  /\ Init
  /\ prog = [p \in Pids |-> IF p = 0 THEN Spawner("init", 0) ELSE Idle]

\* The process in slot p is the one the CPU runs: it can issue its next trap
Running(p) == ~halted /\ current = p /\ pcb[p].status = STATUS_EXECUTING

\* Bug variant: the loop runs one semaphore past the last philosopher
SpawnInit_OffByOne(p) ==
  LET i == prog[p].i IN
  /\ Running(p) /\ prog[p].role = "spawner" /\ prog[p].pc = "init"
  /\ SemInit(i, 1)
  /\ prog' = [prog EXCEPT ![p] = IF i = PHIL_COUNT THEN Spawner("fork", 0)
                                                ELSE Spawner("init", i + 1)]

\* phil_spawner's first loop: sem_init(i, 1).  Nothing has posted before, so
\* sem[i] is 0 and the post of 1 - 0 is made.
SpawnInit(p) ==
  LET i == prog[p].i IN
  /\ Running(p) /\ prog[p].role = "spawner" /\ prog[p].pc = "init"
  /\ SemInit(i, 1)
  /\ prog' = [prog EXCEPT ![p] = IF i + 1 = PHIL_COUNT THEN Spawner("fork", 0)
                                                    ELSE Spawner("init", i + 1)]

\* phil_spawner's second loop: fork(); the child, in the slot new_pcb_entry
\* gave it, runs phil_thinker(i)
SpawnFork(p) ==
  LET i == prog[p].i IN
  /\ Running(p) /\ prog[p].role = "spawner" /\ prog[p].pc = "fork"
  /\ Fork
  /\ heap' # heap             \* the fork succeeds (see the ASSUME)
  /\ prog' = [prog EXCEPT ![FreeSlot] = Thinker("first", i),
                          ![p] = IF i + 1 = PHIL_COUNT THEN Spawner("loop", 0)
                                                       ELSE Spawner("fork", i + 1)]

\* phil_spawner's last loop: the reads and the write, then yield()
SpawnYield(p) ==
  /\ Running(p) /\ prog[p].role = "spawner" /\ prog[p].pc = "loop"
  /\ Yield
  /\ UNCHANGED prog

\* One step of phil_thinker: the trap at place pc, then place to
Think(p, pc, to, trap) ==
  /\ Running(p) /\ prog[p].role = "phil" /\ prog[p].pc = pc
  /\ trap
  /\ prog' = [prog EXCEPT ![p].pc = to]

\* Bug variant: the second post puts down the first fork again
PostSecond_Repeat(p) == Think(p, "put", "first", SemPost(FIRST_FORK(prog[p].i), 1))

WaitFirst(p)  == Think(p, "first",  "second", SemWait(FIRST_FORK(prog[p].i), 1))
WaitSecond(p) == Think(p, "second", "eat",    SemWait(SECOND_FORK(prog[p].i), 1))
PostFirst(p)  == Think(p, "eat",    "put",    SemPost(FIRST_FORK(prog[p].i), 1))
PostSecond(p) == Think(p, "put",    "first",  SemPost(SECOND_FORK(prog[p].i), 1))

\* What process p can do next: its program's trap
Step(p) ==
  \/ SpawnInit(p) \/ SpawnFork(p) \/ SpawnYield(p)
  \/ WaitFirst(p) \/ WaitSecond(p) \/ PostFirst(p) \/ PostSecond(p)

PNext ==
  \/ Tick /\ UNCHANGED prog
  \/ \E p \in Pids : Step(p)

(***************************************************************************)
(* Fairness: the timer interrupt keeps coming (as in Kernel), and a       *)
(* process that is dispatched again and again issues its next trap: after  *)
(* next() zeroes current_runtime it runs for at least one timer interval, *)
(* thousands of instructions, before schedule() can preempt it.  Its step *)
(* is enabled only while it is current, so the fairness is strong.        *)
(***************************************************************************)
PSpec == PInit /\ [][PNext]_allvars /\ WF_vars(Tick)
           /\ \A p \in Pids : SF_allvars(Step(p))
-----------------------------------------------------------------------------
PTypeOK ==
  /\ TypeOK
  /\ prog \in [Pids -> {Idle} \cup [role : {"spawner"}, pc : {"init", "fork", "loop"}, i : Phils]
                              \cup [role : {"phil"}, pc : {"first", "second", "eat", "put"}, i : Phils]]

\* Philosopher process p has fork f: its place is past the sem_wait for f
\* and it is not still blocked in that sem_wait
Holds(p, f) ==
  LET i == prog[p].i IN
  /\ prog[p].role = "phil"
  /\ \/ f = FIRST_FORK(i)  /\ prog[p].pc \in {"second", "eat"}
     \/ f = SECOND_FORK(i) /\ prog[p].pc \in {"eat", "put"}
  /\ ~(pcb[p].status = STATUS_WAITING /\ pcb[p].waiting.sem_id = f)

\* sem_init(f, 1) has been made
Initialised(f) == ~(prog[0].pc = "init" /\ prog[0].i <= f)

(***************************************************************************)
(* Each fork is one unit: once sem_init(f, 1) has run, the counter of f   *)
(* plus the number of philosophers holding f is exactly 1.  It rests on   *)
(* do_sem_post handing the unit straight to a woken waiter (crediting     *)
(* x - y, here 0) and on do_sem_wait taking it only when it is there; a   *)
(* post that also credited the woken waiter's unit, or woke one that was  *)
(* not waiting for f, would put two philosophers on one fork.            *)
(***************************************************************************)
ForkConservation ==
  \A f \in Phils :
    Initialised(f) => sem[f] + Cardinality({p \in Pids : Holds(p, f)}) = 1

(***************************************************************************)
(* No circular wait (the comment on FIRST_FORK): once all philosophers    *)
(* are forked, they are never all blocked in sem_wait at the same time.   *)
(* With every philosopher reaching left first, each can hold its left     *)
(* fork and wait for its right one.                                       *)
(***************************************************************************)
NotAllBlocked ==
  prog[0].pc = "loop" =>
    \E p \in Pids : prog[p].role = "phil" /\ pcb[p].status # STATUS_WAITING

(***************************************************************************)
(* Every philosopher eats again and again: under round-robin scheduling   *)
(* and the kernel's hand-over of a posted fork to its waiter, no          *)
(* philosopher starves.  Eating is holding both forks, which excludes a   *)
(* philosopher whose place is "eat" but who is still blocked in the       *)
(* sem_wait for its second fork.                                          *)
(***************************************************************************)
Eating(p) == Holds(p, FIRST_FORK(prog[p].i)) /\ Holds(p, SECOND_FORK(prog[p].i))

EveryoneEats ==
  \A i \in Phils : []<>(\E p \in Pids : prog[p].role = "phil" /\ prog[p].i = i /\ Eating(p))
=============================================================================
