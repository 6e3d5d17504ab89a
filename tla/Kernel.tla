------------------------------- MODULE Kernel -------------------------------
(***************************************************************************)
(* The process, scheduling and semaphore core of src/kernel/hilevel.c:    *)
(* the PCB table with its occupancy bitmap pcballoc, the round-robin      *)
(* scheduler run by the timer interrupt (SCHEDULE_AGES is false), and the *)
(* trap handlers yield, fork, exit, kill, nice, sem_init, sem_post and    *)
(* sem_wait.  The kernel runs on one core and every handler runs to       *)
(* completion, so one step of this specification is one whole handler.   *)
(* The trap is issued by whichever process is current, with any argument *)
(* from the small input sets: the most general user program.            *)
(***************************************************************************)
EXTENDS Integers, FiniteSets, FiniteSetsExt

CONSTANTS
  PCB_SIZE,       \* slots of pcb[] and of sem[] (0x20 in hilevel.h)
  INIT_PRIORITY,  \* base_priority of the boot process (hilevel_handler_rst)
  WORD,           \* modulus of the uint32_t arithmetic on sem[] (2^w, w small)
  SEM_CAP,        \* bound: sem_post is explored only while sem[id] < SEM_CAP
  SemIdIn,        \* semaphore ids a trap may pass (>= PCB_SIZE is invalid)
  AmountIn,       \* amounts passed to sem_post and sem_wait
  InitIn,         \* values passed to sem_init
  PriorityIn,     \* priorities passed to nice
  Traps,          \* the traps the user programs issue (names as in Next)
  MallocMayFail,  \* whether malloc of a child stack may return NULL
  StackIds,       \* heap blocks a stack_area_t can occupy (model values)
  NULL            \* the null pointer (waiting record, stack)

ASSUME /\ PCB_SIZE \in Nat \ {0, 1}
       /\ INIT_PRIORITY \in Nat
       /\ WORD \in Nat /\ SEM_CAP < WORD
       /\ SemIdIn \subseteq Nat /\ AmountIn \subseteq 0 .. WORD - 1
       /\ InitIn \subseteq Nat /\ PriorityIn \subseteq Nat
       /\ MallocMayFail \in BOOLEAN
       /\ NULL \notin StackIds

Pids == 0 .. PCB_SIZE - 1

\* status_t, in the order of its declaration (process_can_run compares <)
STATUS_CREATED    == 0
STATUS_READY      == 1
STATUS_EXECUTING  == 2
STATUS_WAITING    == 3
STATUS_TERMINATED == 4

VARIABLES
  pcb,              \* pcb[PCB_SIZE]: status, base_priority, waiting, stack
  pcballoc,         \* the uint32_t bitmap, as its two's-complement value
  current,          \* pid of the process the trapped context belongs to
  current_runtime,  \* ticks since the last call of next()
  sem,              \* sem[PCB_SIZE], uint32_t counters
  heap,             \* stack blocks currently allocated by malloc
  halted            \* halt() has been entered: interrupts off, spinning

vars == <<pcb, pcballoc, current, current_runtime, sem, heap, halted>>

WaitRec == [sem_id : SemIdIn, x : AmountIn]
PCB     == [status : 0 .. 4, base_priority : {-1, 0, INIT_PRIORITY} \cup PriorityIn,
            waiting : WaitRec \cup {NULL}, stack : StackIds \cup {NULL}]

\* Bit i of the bitmap: (pcballoc >> i) & 1
Bit(v, i) == (v \div (2 ^ i)) % 2

process_exists(i) == Bit(pcballoc, i) = 1

\* pcballoc is kept in -2^PCB_SIZE .. 2^PCB_SIZE - 1: the low PCB_SIZE bits
\* and whether any of bits PCB_SIZE..31 is set, which is all the code reads
\* (process_exists, !pcballoc).  A subtraction that borrows out of bit
\* PCB_SIZE leaves the high bits nonzero; they reach zero again only after
\* 2^(32 - PCB_SIZE) such borrows, which the model does not reach.
Borrow(v) == IF v < -(2 ^ PCB_SIZE) THEN v + 2 ^ PCB_SIZE ELSE v

Allocated == {i \in Pids : process_exists(i)}

\* process_can_run over a bitmap and a table that a handler has already changed
CanRun(ba, tbl, i) == Bit(ba, i) = 1 /\ tbl[i].status < STATUS_EXECUTING

\* Bug variant: a scan that stops at the end of the table instead of wrapping
NextPick_NoWrap(ba, tbl) ==
  LET later == {k \in 1 .. PCB_SIZE - 1 : current + k < PCB_SIZE
                                        /\ CanRun(ba, tbl, current + k)}
  IN  IF later = {} THEN current ELSE current + Min(later)

\* The pid next() settles on: the first runnable pid after current, in circular
\* order, or current itself when there is none (it is never tested itself).
NextPick(ba, tbl) ==
  LET later == {k \in 1 .. PCB_SIZE - 1 : CanRun(ba, tbl, (current + k) % PCB_SIZE)}
  IN  IF later = {} THEN current ELSE (current + Min(later)) % PCB_SIZE

\* Bug variant: context_switch that never marks the outgoing process
SchedNext_KeepStatus(ba, tbl, curStat) ==
  LET i == NextPick(ba, tbl) IN
  /\ pcb' = IF i = current THEN tbl ELSE [tbl EXCEPT ![i].status = STATUS_EXECUTING]
  /\ current' = i

\* next(ctx, cur_stat), with context_switch: the outgoing process gets
\* cur_stat, the incoming one becomes Executing and current.  next() also
\* zeroes current_runtime, which its callers set.
SchedNext(ba, tbl, curStat) ==
  LET i == NextPick(ba, tbl) IN
  /\ pcb' = IF i = current THEN tbl
            ELSE [tbl EXCEPT ![current].status = curStat,
                             ![i].status       = STATUS_EXECUTING]
  /\ current' = i

\* new_pcb_entry: the lowest slot whose bit is clear, PCB_SIZE when none
FreeSlot ==
  IF Allocated = Pids THEN PCB_SIZE ELSE Min(Pids \ Allocated)

\* do_exit, up to its halt check: the table, bitmap and heap it leaves
ExitPcb   == [pcb EXCEPT ![current].status = STATUS_TERMINATED,
                         ![current].base_priority = -1]
ExitAlloc == Borrow(pcballoc - 2 ^ current)  \* pcballoc -= (1 << current)
ExitHeap  == heap \ {pcb[current].stack}

\* Bug variant: the scan ignores the amount the waiter asked for
Eligible_AnyAmount(id, x, i) ==
  /\ process_exists(i)
  /\ pcb[i].status = STATUS_WAITING
  /\ pcb[i].waiting.sem_id = id

\* do_sem_post's scan: the first waiter after current that the post can serve
Eligible(id, x, i) ==
  /\ process_exists(i)
  /\ pcb[i].status = STATUS_WAITING
  /\ pcb[i].waiting.sem_id = id
  /\ pcb[i].waiting.x <= x
PostScan(id, x) == {k \in 1 .. PCB_SIZE - 1 : Eligible(id, x, (current + k) % PCB_SIZE)}

-----------------------------------------------------------------------------
Init ==   \* hilevel_handler_rst: new_user_proc(INIT_PROGRAM, 5), context_switch
  \E s0 \in StackIds :
  /\ pcb = [p \in Pids |->
              IF p = 0
              THEN [status |-> STATUS_EXECUTING, base_priority |-> INIT_PRIORITY,
                    waiting |-> NULL, stack |-> s0]
              ELSE [status |-> STATUS_CREATED, base_priority |-> 0,
                    waiting |-> NULL, stack |-> NULL]]   \* zeroed static array
  /\ pcballoc = 1
  /\ current = 0
  /\ current_runtime = 0
  /\ sem = [i \in Pids |-> 0]
  /\ heap = {s0}
  /\ halted = FALSE

\* Timer interrupt: schedule() of the round-robin build
Tick ==
  /\ ~halted
  /\ \/ /\ current_runtime >= pcb[current].base_priority
        /\ SchedNext(pcballoc, pcb, STATUS_READY)
        \* next() zeroes current_runtime; schedule() then increments it
        /\ current_runtime' = 1
     \/ /\ current_runtime < pcb[current].base_priority
        /\ current_runtime' = current_runtime + 1
        /\ UNCHANGED <<pcb, current>>
  /\ UNCHANGED <<pcballoc, sem, heap, halted>>

\* SVC 0, yield: next(ctx, STATUS_READY)
Yield ==
  /\ ~halted
  /\ SchedNext(pcballoc, pcb, STATUS_READY)
  /\ current_runtime' = 0
  /\ UNCHANGED <<pcballoc, sem, heap, halted>>

\* Bug variant: the child's stack taken from any block, allocated or not
Fork_AnyBlock ==
  LET child == FreeSlot IN
  /\ ~halted
  /\ child < PCB_SIZE
  /\ \E s \in StackIds :
       /\ pcb' = [pcb EXCEPT ![child] = [pcb[current] EXCEPT !.status = STATUS_CREATED,
                                                             !.stack  = s]]
       /\ heap' = heap \cup {s}
  /\ pcballoc' = pcballoc + 2 ^ child
  /\ UNCHANGED <<current, current_runtime, sem, halted>>

\* SVC 3, do_fork.  The child slot is claimed before the stack is allocated;
\* when malloc fails the slot keeps its bit and the memcpy of the parent.
Fork ==
  LET child == FreeSlot
      free  == StackIds \ heap
  IN
  /\ ~halted
  /\ \/ /\ child = PCB_SIZE               \* table full: r0 = -1 only
        /\ UNCHANGED vars
     \/ /\ child < PCB_SIZE
        /\ free = {} \/ MallocMayFail       \* malloc returns NULL: r0 = -2
        /\ pcballoc' = pcballoc + 2 ^ child
        /\ pcb' = [pcb EXCEPT ![child] = pcb[current]]
        /\ UNCHANGED <<current, current_runtime, sem, heap, halted>>
     \/ /\ child < PCB_SIZE
        /\ \E s \in free :                   \* malloc returns some free block
             /\ pcb' = [pcb EXCEPT ![child] = [pcb[current] EXCEPT !.status = STATUS_CREATED,
                                                                  !.stack  = s]]
             /\ heap' = heap \cup {s}
        /\ pcballoc' = pcballoc + 2 ^ child
        /\ UNCHANGED <<current, current_runtime, sem, halted>>

\* SVC 4: do_exit, which halts when the bitmap reads zero, then
\* next(ctx, STATUS_TERMINATED)
Exit ==
  /\ ~halted
  /\ heap' = ExitHeap
  /\ pcballoc' = ExitAlloc
  /\ \/ /\ ExitAlloc = 0
        /\ halted' = TRUE
        /\ pcb' = ExitPcb
        /\ UNCHANGED <<current, current_runtime>>
     \/ /\ ExitAlloc # 0
        /\ SchedNext(ExitAlloc, ExitPcb, STATUS_TERMINATED)
        /\ current_runtime' = 0
        /\ UNCHANGED halted
  /\ UNCHANGED sem

\* SVC 6, do_kill(pid) of an existing process: clears its bit and frees its
\* stack, touching neither its status nor anything it holds.  Any other pid
\* returns without effect (the bitmap is never zero while a process runs).
Kill(pid) ==
  /\ ~halted
  /\ process_exists(pid)
  /\ pcballoc' = pcballoc - 2 ^ pid
  /\ heap' = heap \ {pcb[pid].stack}
  /\ halted' = (pcballoc' = 0)
  /\ UNCHANGED <<pcb, current, current_runtime, sem>>

\* SVC 7, nice: any pid in range, allocated or not
Nice(pid, newp) ==
  /\ ~halted
  /\ pcb' = [pcb EXCEPT ![pid].base_priority = newp]
  /\ UNCHANGED <<pcballoc, current, current_runtime, sem, heap, halted>>

\* Bug variant: the counter arithmetic done without the uint32_t wrap
DoSemPost_NoWrap(id, x) ==
  /\ id < PCB_SIZE
  /\ x # 0
  /\ IF PostScan(id, x) = {}
     THEN /\ sem' = [sem EXCEPT ![id] = @ + x]
          /\ UNCHANGED pcb
     ELSE LET i == (current + Min(PostScan(id, x))) % PCB_SIZE IN
          /\ sem' = [sem EXCEPT ![id] = @ + x - pcb[i].waiting.x]
          /\ pcb' = [pcb EXCEPT ![i].status = STATUS_READY, ![i].waiting = NULL]
  /\ UNCHANGED <<pcballoc, current, current_runtime, heap, halted>>

\* do_sem_post(id, x) for a valid id and x # 0: wake the first eligible
\* waiter and credit x - y, or credit x when there is none.  The code frees
\* the waiter's record and leaves the pointer dangling; the model clears it,
\* since the record is read only in Waiting and every path into Waiting
\* (do_sem_wait) writes a fresh one first.
DoSemPost(id, x) ==
  /\ id < PCB_SIZE
  /\ x # 0
  /\ IF PostScan(id, x) = {}
     THEN /\ sem' = [sem EXCEPT ![id] = (@ + x) % WORD]
          /\ UNCHANGED pcb
     ELSE LET i == (current + Min(PostScan(id, x))) % PCB_SIZE IN
          /\ sem' = [sem EXCEPT ![id] = (@ + (x - pcb[i].waiting.x)) % WORD]
          /\ pcb' = [pcb EXCEPT ![i].status = STATUS_READY, ![i].waiting = NULL]
  /\ UNCHANGED <<pcballoc, current, current_runtime, heap, halted>>

\* SVC 8, sem_init: the guard tests init, not the id; the post is of
\* init - sem[id] in uint32_t arithmetic.
SemInit(id, init) ==
  /\ ~halted
  /\ init < PCB_SIZE
  /\ id < PCB_SIZE      \* else do_sem_post returns at once
  /\ DoSemPost(id, (init - sem[id]) % WORD)

\* SVC 9, sem_post, explored while the counter is below SEM_CAP
SemPost(id, x) ==
  /\ ~halted
  /\ id < PCB_SIZE => sem[id] < SEM_CAP
  /\ DoSemPost(id, x)

\* SVC 0xA, do_sem_wait then, if it returned false, next(ctx, STATUS_WAITING)
SemWait(id, x) ==
  LET blocked(tbl) == [tbl EXCEPT ![current].status  = STATUS_WAITING,
                                  ![current].waiting = [sem_id |-> id, x |-> x]]
  IN
  /\ ~halted
  /\ \/ /\ id < PCB_SIZE
        /\ sem[id] >= x
        /\ sem' = [sem EXCEPT ![id] = @ - x]
        /\ UNCHANGED <<pcb, pcballoc, current, current_runtime, heap, halted>>
     \/ /\ id < PCB_SIZE
        /\ sem[id] < x
        /\ SchedNext(pcballoc, blocked(pcb), STATUS_WAITING)
        /\ current_runtime' = 0
        /\ UNCHANGED <<pcballoc, sem, heap, halted>>
     \/ \* invalid id: do_exit(), which may halt, and no return after it
        /\ id >= PCB_SIZE
        /\ heap' = ExitHeap
        /\ pcballoc' = ExitAlloc
        /\ UNCHANGED sem      \* sem[id] -= x, if done, is outside sem[]
        /\ \/ /\ ExitAlloc = 0
              /\ halted' = TRUE
              /\ pcb' = ExitPcb
              /\ UNCHANGED <<current, current_runtime>>
           \/ \* sem[id] >= x read out of bounds: true, returns to the caller
              /\ ExitAlloc # 0
              /\ pcb' = ExitPcb
              /\ UNCHANGED <<current, current_runtime, halted>>
           \/ \* ... or false: the exited process is recorded as waiting
              /\ ExitAlloc # 0
              /\ SchedNext(ExitAlloc, blocked(ExitPcb), STATUS_WAITING)
              /\ current_runtime' = 0
              /\ UNCHANGED halted

\* halt(): interrupts disabled, while (1);
Halt ==
  /\ halted
  /\ UNCHANGED vars

\* hilevel_handler_svc: the current process traps with one of Traps
Trap ==
  \/ "yield" \in Traps /\ Yield
  \/ "fork"  \in Traps /\ Fork
  \/ "exit"  \in Traps /\ Exit
  \/ "kill"  \in Traps /\ \E pid \in Pids : Kill(pid)
  \/ "nice"  \in Traps /\ \E pid \in Pids, p \in PriorityIn : Nice(pid, p)
  \/ "sem_init" \in Traps /\ \E id \in SemIdIn, v \in InitIn : SemInit(id, v)
  \/ "sem_post" \in Traps /\ \E id \in SemIdIn, x \in AmountIn : SemPost(id, x)
  \/ "sem_wait" \in Traps /\ \E id \in SemIdIn, x \in AmountIn : SemWait(id, x)

Next ==
  \/ Tick
  \/ Trap
  \/ Halt

\* The timer interrupt is never masked outside halt(), so ticks keep coming.
Spec == Init /\ [][Next]_vars /\ WF_vars(Tick)
-----------------------------------------------------------------------------
TypeOK ==
  /\ pcb \in [Pids -> PCB]
  /\ pcballoc \in -(2 ^ PCB_SIZE) .. 2 ^ PCB_SIZE - 1
  /\ current \in Pids
  /\ current_runtime \in Nat
  /\ sem \in [Pids -> 0 .. WORD - 1]
  /\ heap \subseteq StackIds
  /\ halted \in BOOLEAN

\* A process is runnable in the sense of process_can_run
Runnable(p) == process_exists(p) /\ pcb[p].status < STATUS_EXECUTING

\* The amounts a step can pass to do_sem_post on id: a sem_post argument, or
\* the init - sem[id] difference that sem_init posts.
PostAmounts(id) == AmountIn \cup {(v - sem[id]) % WORD : v \in InitIn}

(***************************************************************************)
(* Wake-up correctness (spec 4.3 and 8, do_sem_post): a process blocked in *)
(* sem_wait(id, a) that is not running leaves Waiting only by being made   *)
(* Ready by a post of some x >= a on that id, which credits exactly x - a; *)
(* no waiter that the same post could serve comes before it in the scan   *)
(* from current + 1, and no other process changes status in that step.    *)
(***************************************************************************)
FirstInScan(p, id, x) ==
  \A k \in 1 .. ((p - current) % PCB_SIZE) - 1 : ~Eligible(id, x, (current + k) % PCB_SIZE)

WakeCorrect ==
  [][\A p \in Pids :
       (/\ p # current /\ process_exists(p)
        /\ pcb[p].status = STATUS_WAITING /\ pcb'[p].status # STATUS_WAITING)
       => LET w == pcb[p].waiting IN
          /\ pcb'[p].status = STATUS_READY
          /\ \E x \in PostAmounts(w.sem_id) :
                /\ w.x <= x
                /\ sem'[w.sem_id] = (sem[w.sem_id] + (x - w.x)) % WORD
                /\ FirstInScan(p, w.sem_id, x)
          /\ \A q \in Pids \ {p} : pcb'[q].status = pcb[q].status
    ]_vars

(***************************************************************************)
(* Only a runnable process is dispatched (spec 4.2: a Waiting process is   *)
(* never selected): whenever a PCB becomes Executing, it is the new        *)
(* current process and was allocated and Created or Ready before the step. *)
(* Covers next(), context_switch and the memcpy of do_fork.                *)
(***************************************************************************)
OnlyRunnableSelected ==
  [][\A p \in Pids :
       (pcb'[p].status = STATUS_EXECUTING /\ pcb[p].status # STATUS_EXECUTING)
       => p = current' /\ Runnable(p)
    ]_vars

(***************************************************************************)
(* Spec 3: exactly one PCB is Executing whenever any is occupied, and      *)
(* current refers to it.  Split in two: the trapped context belongs to an  *)
(* allocated, Executing process (next() must not resume a caller it has    *)
(* just blocked or exited) ...                                             *)
(***************************************************************************)
CurrentIsExecuting ==
  halted \/ (process_exists(current) /\ pcb[current].status = STATUS_EXECUTING)

(***************************************************************************)
(* ... and no other occupied slot is Executing: every path through next(), *)
(* context_switch and do_fork's memcpy of the parent must keep it.         *)
(***************************************************************************)
SoleExecuting ==
  \A p \in Allocated \ {current} : pcb[p].status # STATUS_EXECUTING

(***************************************************************************)
(* Spec 3 and 5: a stack is exclusively owned by its PCB.  Every occupied  *)
(* slot holds a block that malloc handed out and free has not taken back,  *)
(* and no two occupied slots hold the same block (do_fork, do_exit,        *)
(* do_kill).                                                               *)
(***************************************************************************)
StacksExclusive ==
  /\ \A p \in Allocated : pcb[p].stack \in heap
  /\ \A p, q \in Allocated : p # q => pcb[p].stack # pcb[q].stack

(***************************************************************************)
(* Spec 4.3: sem_init posts "the delta between the desired initial value   *)
(* and the counter's current value, so that any process already waiting   *)
(* is correctly woken".  A waiter is woken only by a post of some x >= a   *)
(* that a caller meant: a sem_post amount, or a sem_init to a value at     *)
(* least a above the counter; never by the uint32_t wrap of init - sem[id] *)
(* when sem_init lowers the counter.                                       *)
(***************************************************************************)
IntendedAmounts(id) ==
  AmountIn \cup {v - sem[id] : v \in {v \in InitIn : v >= sem[id]}}

WakeByIntendedPost ==
  [][\A p \in Pids :
       (/\ p # current /\ process_exists(p)
        /\ pcb[p].status = STATUS_WAITING /\ pcb'[p].status # STATUS_WAITING)
       => LET w == pcb[p].waiting IN
          \E x \in IntendedAmounts(w.sem_id) :
             /\ w.x <= x
             /\ sem'[w.sem_id] = sem[w.sem_id] + x - w.x
    ]_vars

(***************************************************************************)
(* Round-robin liveness (spec 8): a runnable process that is not running  *)
(* is eventually dispatched, unless it is killed first.  It rests on the   *)
(* timer interrupt alone: schedule() calls next() once current_runtime     *)
(* reaches the quantum, and next() scans circularly from current.          *)
(***************************************************************************)
ReadyEventuallyRuns ==
  \A p \in Pids :
    (Runnable(p) /\ p # current) ~> (p = current \/ ~process_exists(p))
=============================================================================
