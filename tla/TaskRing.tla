------------------------------ MODULE TaskRing ------------------------------
(***************************************************************************)
(* The list of tasks: src/task/task.c.                                     *)
(*                                                                         *)
(* A task lives in a block of the kernel heap.  The list is doubly linked, *)
(* from task_head to task_tail, and the scheduler treats it as a ring:     *)
(* after the last task comes the head.  Freeing a task leaves what the     *)
(* block held in place, and that is what a pointer to it finds there until *)
(* the block is allocated anew.                                            *)
(*                                                                         *)
(* A ring is a record of the three pointers and of the contents of the     *)
(* blocks, so that the operators can be composed the way the calls are.    *)
(***************************************************************************)
EXTENDS Integers

CONSTANTS Addresses, \* the heap blocks that tasks are allocated in
          NULL       \* no task; no process

(* The fields of struct task that concern the list. *)
Task(processes) == [next    : Addresses \cup {NULL},
                    prev    : Addresses \cup {NULL},
                    process : processes \cup {NULL}]

Ring(processes) == [mem     : [Addresses -> Task(processes)],
                    head    : Addresses \cup {NULL},
                    tail    : Addresses \cup {NULL},
                    current : Addresses \cup {NULL}]

NoTask == [next |-> NULL, prev |-> NULL, process |-> NULL]

EmptyRing == [mem     |-> [t \in Addresses |-> NoTask],
              head    |-> NULL,
              tail    |-> NULL,
              current |-> NULL]

-----------------------------------------------------------------------------

(* A variant that does not come back to the head. *)
NextWithoutWrap(ring) ==
  IF ring.mem[ring.current].next = NULL
  THEN ring.current
  ELSE ring.mem[ring.current].next

task_get_next(ring) ==
  IF ring.mem[ring.current].next = NULL
  THEN ring.head
  ELSE ring.mem[ring.current].next

(* A variant that forgets to advance task_tail. *)
NewBehindOldTail(ring, t, process) ==
  LET zeroed == [ring EXCEPT !.mem[t] = [NoTask EXCEPT !.process = process]]
  IN  IF ring.head = NULL
      THEN [zeroed EXCEPT !.head = t, !.tail = t, !.current = t]
      ELSE [zeroed EXCEPT !.mem[ring.tail].next = t,
                          !.mem[t].prev = ring.tail]

(* task_new, once the task is allocated at t and task_init has succeeded. *)
task_new(ring, t, process) ==
  LET zeroed == [ring EXCEPT !.mem[t] = [NoTask EXCEPT !.process = process]]
  IN  IF ring.head = NULL
      THEN [zeroed EXCEPT !.head = t, !.tail = t, !.current = t]
      ELSE [zeroed EXCEPT !.mem[ring.tail].next = t,
                          !.mem[t].prev = ring.tail,
                          !.tail = t]

(* A variant that leaves task_head alone. *)
RemoveKeepsHead(ring, t) ==
  LET p        == ring.mem[t].prev
      unlinked == IF p = NULL
                  THEN ring
                  ELSE [ring EXCEPT !.mem[p].next = ring.mem[t].next]
      behind   == IF t = unlinked.tail
                  THEN [unlinked EXCEPT !.tail = unlinked.mem[t].prev]
                  ELSE unlinked
  IN  IF t = behind.current
      THEN [behind EXCEPT !.current = task_get_next(behind)]
      ELSE behind

(* A variant that leaves current_task alone. *)
RemoveKeepsCurrent(ring, t) ==
  LET p        == ring.mem[t].prev
      unlinked == IF p = NULL
                  THEN ring
                  ELSE [ring EXCEPT !.mem[p].next = ring.mem[t].next]
      ahead    == IF t = unlinked.head
                  THEN [unlinked EXCEPT !.head = unlinked.mem[t].next]
                  ELSE unlinked
  IN  IF t = ahead.tail
      THEN [ahead EXCEPT !.tail = ahead.mem[t].prev]
      ELSE ahead

(***************************************************************************)
(* task_list_remove, assignment by assignment.  It unlinks the task from   *)
(* its predecessor, and leaves the successor's prev as it is.              *)
(***************************************************************************)
task_list_remove(ring, t) ==
  LET p        == ring.mem[t].prev
      unlinked == IF p = NULL
                  THEN ring
                  ELSE [ring EXCEPT !.mem[p].next = ring.mem[t].next]
      ahead    == IF t = unlinked.head
                  THEN [unlinked EXCEPT !.head = unlinked.mem[t].next]
                  ELSE unlinked
      behind   == IF t = ahead.tail
                  THEN [ahead EXCEPT !.tail = ahead.mem[t].prev]
                  ELSE ahead
  IN  IF t = behind.current
      THEN [behind EXCEPT !.current = task_get_next(behind)]
      ELSE behind

(* task_switch: the page directory of the task is that of the task. *)
task_switch(ring, t) == [ring EXCEPT !.current = t]

=============================================================================
