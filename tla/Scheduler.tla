----------------------------- MODULE Scheduler -----------------------------
(***************************************************************************)
(* Processes and their tasks: how they are started, scheduled and ended.   *)
(* src/task/process.c, src/task/task.c, the handlers of src/idt/idt.c and  *)
(* src/isr80h/process.c, and the boot of src/kernel.c.                     *)
(*                                                                         *)
(* Interrupt gates clear the interrupt flag, and a system call begins with *)
(* cli: a handler runs to its end before another one starts, so each is    *)
(* one action.  Any task may be interrupted by the clock, make a system    *)
(* call or raise an exception between any two handlers.                    *)
(*                                                                         *)
(* Processes are numbered in the order they are loaded.  The memory of a   *)
(* struct process is never given back to the heap, so no two processes     *)
(* ever have the same address; the memory of a task is, and any kzalloc    *)
(* may be given it next: the block a task is allocated in is any free one, *)
(* and the blocks that hold other kernel objects come and go.              *)
(***************************************************************************)
EXTENDS TaskRing

CONSTANTS MaxLoads,             \* how many processes are ever loaded: each
                                \* one leaks its struct process, so that the
                                \* heap bounds their number
          BENOS_MAX_PROCESSES   \* entries of the process table

ASSUME SchedulerAssumption == /\ MaxLoads \in Nat
                              /\ MaxLoads >= 2
                              /\ BENOS_MAX_PROCESSES \in Nat \ {0}
                              /\ NULL \notin Addresses
                              /\ NULL \notin 1..MaxLoads

Processes == 1..MaxLoads
Slots     == 0..(BENOS_MAX_PROCESSES - 1)

VARIABLES ring,         \* task_head, task_tail, current_task and the tasks
          block,        \* what a heap block holds: "free", "task", "other"
          processes,    \* the process table
          id,           \* process->id of the processes loaded so far
          curr_process, \* the process the keyboard types into
          status,       \* "running"; "panic", the for (;;) of panic();
                        \* "nomem", task_free was called with NULL; "wild",
                        \* a dangling pointer of the task list was followed
          loaded,       \* the number of processes loaded so far
          alive,        \* the processes that have not been terminated
          damaged       \* an exit wrote through a prev pointer that was stale

vars == <<ring, block, processes, id, curr_process, status, loaded, alive,
          damaged>>

-----------------------------------------------------------------------------
(* The process table. *)

(* process_get_free_slot: -1 stands for -EISTKN. *)
process_get_free_slot ==
  LET free == {i \in Slots : processes[i] = NULL}
  IN  IF free = {} THEN -1 ELSE CHOOSE i \in free : \A j \in free : i <= j

(***************************************************************************)
(* The assignment that should enter the process in the table writes to     *)
(* process[process_slot], the caller's pointer, and not to                 *)
(* processes[process_slot]: the table is left as it is.                    *)
(***************************************************************************)
process_enter(table, slot, p) == table

-----------------------------------------------------------------------------
(* Starting. *)

(* What process_load_switch leaves when everything it allocates is there. *)
LoadedRing(r, t, p) == task_new(r, t, p)

(***************************************************************************)
(* The boot: kernel_main loads two processes and runs the first one.       *)
(***************************************************************************)
Init == \E s, t \in Addresses :
          /\ s # t
          /\ ring = task_switch(LoadedRing(LoadedRing(EmptyRing, s, 1), t, 2), s)
          /\ block = [a \in Addresses |-> IF a \in {s, t} THEN "task" ELSE "free"]
          /\ processes = [i \in Slots |-> NULL]
          /\ id = [p \in Processes |-> 0]
          /\ curr_process = 2
          /\ status = "running"
          /\ loaded = 2
          /\ alive = {1, 2}
          /\ damaged = FALSE

(* The process of the task that runs. *)
Running == ring.mem[ring.current].process

(***************************************************************************)
(* System calls 6 and 7: load a program, make it the current process and   *)
(* run it.                                                                 *)
(***************************************************************************)
isr80h_process_load_start ==
  LET p    == loaded + 1
      slot == process_get_free_slot
  IN  /\ status = "running"
      /\ p \in Processes
      /\ slot >= 0
      /\ processes[slot] = NULL
      /\ \E t \in Addresses :
           /\ block[t] = "free"
           /\ block' = [block EXCEPT ![t] = "task"]
           /\ ring' = task_switch(LoadedRing(ring, t, p), t)
      /\ processes' = process_enter(processes, slot, p)
      /\ id' = [id EXCEPT ![p] = slot]
      /\ curr_process' = p
      /\ loaded' = p
      /\ alive' = alive \cup {p}
      /\ UNCHANGED <<status, damaged>>

(***************************************************************************)
(* The load fails before it gets to the task: no slot, or no memory for    *)
(* the process, the program or the stack.  The caller runs on.             *)
(***************************************************************************)
isr80h_process_load_fails == /\ status = "running"
                             /\ UNCHANGED vars

(***************************************************************************)
(* No memory for the task: task_new calls task_free(NULL), which frees     *)
(* whatever address 0 points to, and process_load_for_slot does not see    *)
(* the error that task_new returns.                                        *)
(***************************************************************************)
isr80h_process_load_no_task ==
  /\ status = "running"
  /\ loaded + 1 \in Processes
  /\ process_get_free_slot >= 0
  /\ status' = "nomem"
  /\ UNCHANGED <<ring, block, processes, id, curr_process, loaded, alive,
                 damaged>>

-----------------------------------------------------------------------------
(* Scheduling. *)

(* task_next: the list of a task that is no longer one leads anywhere, and *)
(* such a task has no registers to return to.                              *)
task_next(r, b) ==
  LET t == task_get_next(r)
  IN  IF b[r.current] # "task" THEN [ring |-> r, status |-> "wild"]
      ELSE IF t = NULL THEN [ring |-> r, status |-> "panic"]
      ELSE [ring   |-> task_switch(r, t),
            status |-> IF b[t] = "task" THEN "running" ELSE "wild"]

idt_clock == LET next == task_next(ring, block)
             IN  /\ status = "running"
                 /\ ring' = next.ring
                 /\ status' = next.status
                 /\ UNCHANGED <<block, processes, id, curr_process, loaded,
                                alive, damaged>>

-----------------------------------------------------------------------------
(* Ending. *)

(***************************************************************************)
(* Is the write through prev, in task_list_remove, one that the list does  *)
(* not expect?  The write to a free block when the head is removed is the  *)
(* one that does no harm.                                                  *)
(***************************************************************************)
StrayWrite(t) ==
  LET p == ring.mem[t].prev
  IN  /\ p # NULL
      /\ block[p] # "task" \/ ring.mem[p].next # t
      /\ ~(t = ring.head /\ block[p] = "free")

(* A variant of process_unlink that does not look for another process. *)
UnlinkLeavesNone(table, p) ==
  [processes    |-> [table EXCEPT ![id[p]] = NULL],
   curr_process |-> IF curr_process = p THEN NULL ELSE curr_process,
   panic        |-> FALSE]

(***************************************************************************)
(* process_unlink.  When the process is the current one,                   *)
(* process_switch_to_any takes the first one the table has, and panics     *)
(* when it has none.                                                       *)
(***************************************************************************)
process_unlink(table, p) ==
  LET left   == [table EXCEPT ![id[p]] = NULL]
      listed == {i \in Slots : left[i] # NULL}
      any    == left[CHOOSE i \in listed : \A j \in listed : i <= j]
  IN  [processes    |-> left,
       curr_process |-> IF curr_process = p /\ listed # {}
                        THEN any
                        ELSE curr_process,
       panic        |-> curr_process = p /\ listed = {}]

(***************************************************************************)
(* System call 9 and the handler of the exceptions: terminate the process  *)
(* of the running task, then run the next one.                             *)
(***************************************************************************)
isr80h_command9_exit ==
  LET t        == ring.current
      p        == Running
      removed  == task_list_remove(ring, t)
      freed    == [block EXCEPT ![t] = "free"]
      unlinked == process_unlink(processes, p)
      next     == task_next(removed, freed)
      overrun  == /\ ring.mem[t].prev # NULL
                  /\ block[ring.mem[t].prev] = "other"
  IN  /\ status = "running"
      /\ block' = freed
      /\ processes' = unlinked.processes
      /\ curr_process' = unlinked.curr_process
      /\ alive' = alive \ {p}
      /\ damaged' = (damaged \/ StrayWrite(t))
      /\ IF unlinked.panic
         THEN ring' = removed /\ status' = "panic"
         ELSE /\ ring' = next.ring
              /\ status' = IF overrun THEN "wild" ELSE next.status
      /\ UNCHANGED <<id, loaded>>

-----------------------------------------------------------------------------
(* Every other kzalloc and kfree of the kernel. *)

OtherAlloc(a) == /\ status = "running"
                 /\ block[a] = "free"
                 /\ block' = [block EXCEPT ![a] = "other"]
                 /\ UNCHANGED <<ring, processes, id, curr_process, status,
                                loaded, alive, damaged>>

OtherFree(a) == /\ status = "running"
                /\ block[a] = "other"
                /\ block' = [block EXCEPT ![a] = "free"]
                /\ UNCHANGED <<ring, processes, id, curr_process, status,
                               loaded, alive, damaged>>

Next == \/ isr80h_process_load_start
        \/ isr80h_process_load_fails
        \/ isr80h_process_load_no_task
        \/ idt_clock
        \/ isr80h_command9_exit
        \/ \E a \in Addresses : OtherAlloc(a) \/ OtherFree(a)

Spec == Init /\ [][Next]_vars

(* The timer keeps interrupting: tasks run with interrupts enabled. *)
FairSpec == Spec /\ WF_vars(idt_clock)

-----------------------------------------------------------------------------
(* Properties. *)

TypeOK == /\ ring \in Ring(Processes)
          /\ block \in [Addresses -> {"free", "task", "other"}]
          /\ processes \in [Slots -> Processes \cup {NULL}]
          /\ id \in [Processes -> Slots]
          /\ curr_process \in Processes
          /\ status \in {"running", "panic", "nomem", "wild"}
          /\ loaded \in Processes
          /\ alive \subseteq 1..loaded
          /\ damaged \in BOOLEAN

Successors(p) == {q \in alive : q > p}
First(S)      == CHOOSE p \in S : \A q \in S : p <= q
Last(S)       == CHOOSE p \in S : \A q \in S : q <= p

TaskOf(p) == CHOOSE t \in Addresses :
               block[t] = "task" /\ ring.mem[t].process = p

(***************************************************************************)
(* The list of tasks is what the scheduler needs it to be, as long as no   *)
(* exit wrote through a stale prev pointer: the tasks are those of the     *)
(* processes that live, each process has one, the list from task_head to   *)
(* task_tail has them in the order they were loaded, and one of them runs  *)
(* (task_new, task_list_remove, task_next).                                *)
(***************************************************************************)
ListSound ==
  status = "running" /\ ~damaged =>
    /\ \A t \in Addresses : block[t] = "task" => ring.mem[t].process \in alive
    /\ \A p \in alive : \E t \in Addresses :
         /\ block[t] = "task"
         /\ ring.mem[t].process = p
         /\ \A u \in Addresses \ {t} :
              block[u] = "task" => ring.mem[u].process # p
         /\ ring.mem[t].next = IF Successors(p) = {}
                               THEN NULL
                               ELSE TaskOf(First(Successors(p)))
    /\ ring.head = TaskOf(First(alive))
    /\ block[ring.current] = "task"

(***************************************************************************)
(* Whatever happens to the list, keys are typed into a process that lives: *)
(* the one that was loaded last, whose task is the tail of the list        *)
(* (process_switch, process_unlink).                                       *)
(***************************************************************************)
KeyboardGoesToNewest ==
  status = "running" =>
    /\ curr_process = loaded
    /\ loaded \in alive
    /\ block[ring.tail] = "task"
    /\ ring.mem[ring.tail].process = loaded

(***************************************************************************)
(* Only a stale prev pointer leads the kernel astray.  One exit leaves the *)
(* stale pointer, and another one is needed for the harm                   *)
(* (task_list_remove).                                                     *)
(***************************************************************************)
OnlyStalePointersHarm ==
  /\ status = "wild" => damaged
  /\ damaged => \E p, q \in 1..loaded : p # q /\ {p, q} \cap alive = {}

(***************************************************************************)
(* No process starves: a process that lives runs again and again, until it *)
(* ends or the system stops, unless the list was damaged (idt_clock).      *)
(***************************************************************************)
EveryoneRuns ==
  \A p \in Processes :
    p \in alive ~> \/ status # "running"
                   \/ damaged
                   \/ p \notin alive
                   \/ Running = p

-----------------------------------------------------------------------------
(* What the comments of the source say. *)

(***************************************************************************)
(* process.c:153, before the panic of process_switch_to_any: "no processes *)
(* left".                                                                  *)
(***************************************************************************)
NoProcessesLeft == status = "panic" => alive = {}

=============================================================================
