-------------------------- MODULE SchedulerProofs --------------------------
(***************************************************************************)
(* Theorems about processes and their tasks (modules TaskRing and          *)
(* Scheduler), for every number of processes, every size of the process    *)
(* table and every set of heap blocks.                                     *)
(*                                                                         *)
(* The invariant has two parts. Linked holds until the system stops,       *)
(* whatever was written through a stale prev pointer. InOrder, that the    *)
(* list has the tasks in the order they were loaded, holds until then.     *)
(***************************************************************************)
EXTENDS Scheduler, TLAPS

-----------------------------------------------------------------------------
(* What the operators of TaskRing return, field by field. *)

(* task_new of a list that has a tail: the new task is linked behind it.   *)
LEMMA NewTask ==
  ASSUME NEW P, NEW r \in Ring(P), r.head # NULL, NULL \notin Addresses,
         NEW t \in Addresses, r.tail \in Addresses, t # r.tail, NEW p \in P
  PROVE  LET n == task_new(r, t, p)
         IN  /\ n \in Ring(P)
             /\ n.head = r.head /\ n.tail = t /\ n.current = r.current
             /\ n.mem[t] = [next |-> NULL, prev |-> r.tail, process |-> p]
             /\ n.mem[r.tail] = [r.mem[r.tail] EXCEPT !.next = t]
             /\ \A a \in Addresses \ {t, r.tail} : n.mem[a] = r.mem[a]
<1> DEFINE m0 == [r.mem EXCEPT ![t] = [NoTask EXCEPT !.process = p]]
           m1 == [m0 EXCEPT ![r.tail].next = t]
           m2 == [m1 EXCEPT ![t].prev = r.tail]
<1>1. r.mem \in [Addresses -> Task(P)]
  BY DEF Ring
<1>2. m0 \in [Addresses -> Task(P)]
  BY <1>1 DEF Task, NoTask
<1>3. m1 \in [Addresses -> Task(P)]
  BY <1>2 DEF Task
<1>4. m2 \in [Addresses -> Task(P)]
  BY <1>3 DEF Task
<1>5. task_new(r, t, p) = [mem |-> m2, head |-> r.head, tail |-> t,
                           current |-> r.current]
  BY DEF task_new, Ring
<1>6. m2[t] = [next |-> NULL, prev |-> r.tail, process |-> p]
  BY <1>1, <1>2, <1>3 DEF Task, NoTask
<1>7. m2[r.tail] = [r.mem[r.tail] EXCEPT !.next = t]
  BY <1>1, <1>2, <1>3 DEF Task
<1>8. \A a \in Addresses \ {t, r.tail} : m2[a] = r.mem[a]
  BY <1>1
<1> HIDE DEF m0, m1, m2
<1> QED
  BY <1>4, <1>5, <1>6, <1>7, <1>8 DEF Ring

(* task_list_remove of the current task leaves a list of the right type;   *)
(* when another task follows, that one runs next, and what is written is   *)
(* the next pointer where prev points to, and task_head.                   *)
LEMMA RemovedTask ==
  ASSUME NEW P, NEW r \in Ring(P), NULL \notin Addresses,
         NEW t \in Addresses, t = r.current
  PROVE  LET n == task_list_remove(r, t)
             x == r.mem[t].next
         IN  /\ n \in Ring(P)
             /\ t # r.tail /\ x # NULL =>
                  /\ n.tail = r.tail
                  /\ n.current = x
                  /\ n.head = IF t = r.head THEN x ELSE r.head
                  /\ \A a \in Addresses :
                       /\ n.mem[a].prev = r.mem[a].prev
                       /\ n.mem[a].process = r.mem[a].process
                       /\ n.mem[a].next = IF a = r.mem[t].prev
                                          THEN x ELSE r.mem[a].next
<1> DEFINE p == r.mem[t].prev
           x == r.mem[t].next
           u == IF p = NULL THEN r ELSE [r EXCEPT !.mem[p].next = x]
           v == IF t = u.head THEN [u EXCEPT !.head = u.mem[t].next] ELSE u
           w == IF t = v.tail THEN [v EXCEPT !.tail = v.mem[t].prev] ELSE v
           n == IF t = w.current
                THEN [w EXCEPT !.current = task_get_next(w)]
                ELSE w
<1>1. task_list_remove(r, t) = n
  BY Zenon DEF task_list_remove
<1>2. /\ r.mem \in [Addresses -> Task(P)]
      /\ p \in Addresses \cup {NULL}
      /\ x \in Addresses \cup {NULL}
  BY DEF Ring, Task
<1>3. /\ u \in Ring(P)
      /\ u.head = r.head /\ u.tail = r.tail /\ u.current = r.current
      /\ \A a \in Addresses :
           /\ u.mem[a].prev = r.mem[a].prev
           /\ u.mem[a].process = r.mem[a].process
           /\ u.mem[a].next = IF a = p THEN x ELSE r.mem[a].next
  <2>1. CASE p = NULL
    BY <1>2, <2>1
  <2>2. CASE p # NULL
    <3> DEFINE m == [r.mem EXCEPT ![p].next = x]
    <3>1. /\ m \in [Addresses -> Task(P)]
          /\ \A a \in Addresses :
               /\ m[a].prev = r.mem[a].prev
               /\ m[a].process = r.mem[a].process
               /\ m[a].next = IF a = p THEN x ELSE r.mem[a].next
      BY <1>2, <2>2 DEF Task
    <3>2. u = [r EXCEPT !.mem = m]
      BY <2>2
    <3> HIDE DEF p, x, u, m
    <3> QED
      BY <3>1, <3>2 DEF Ring
  <2> QED
    BY <2>1, <2>2
<1>4. u.mem[t].next = x
  BY <1>3
<1> HIDE DEF u
<1>5. /\ v \in Ring(P)
      /\ v.mem = u.mem /\ v.tail = u.tail /\ v.current = u.current
      /\ v.head = IF t = u.head THEN x ELSE u.head
  BY <1>2, <1>3, <1>4 DEF Ring
<1> HIDE DEF v
<1>6. /\ w \in Ring(P)
      /\ w.mem = v.mem /\ w.head = v.head /\ w.current = v.current
      /\ t # v.tail => w.tail = v.tail
  <2>1. v.mem[t].prev \in Addresses \cup {NULL}
    BY <1>5 DEF Ring, Task
  <2> QED
    BY <1>5, <2>1 DEF Ring
<1> HIDE DEF w
<1>7. w.current = t
  BY <1>3, <1>5, <1>6
<1>8. /\ task_get_next(w) = IF x = NULL THEN w.head ELSE x
      /\ task_get_next(w) \in Addresses \cup {NULL}
  BY <1>2, <1>4, <1>5, <1>6, <1>7 DEF task_get_next, Ring
<1>9. /\ n \in Ring(P)
      /\ n.mem = w.mem /\ n.head = w.head /\ n.tail = w.tail
      /\ n.current = task_get_next(w)
  BY <1>6, <1>7, <1>8 DEF Ring
<1> HIDE DEF n
<1> QED
  BY <1>1, <1>3, <1>5, <1>6, <1>8, <1>9

-----------------------------------------------------------------------------
(* The invariant. *)

TasksOf(b) == {a \in Addresses : b[a] = "task"}

(* The fields of the task in block a. *)
NextOf(r, a)    == r.mem[a].next
PrevOf(r, a)    == r.mem[a].prev
ProcessOf(r, a) == r.mem[a].process

(***************************************************************************)
(* What holds of the blocks that are tasks whatever an exit wrote: each    *)
(* living process has one, the tail is the task of the process loaded      *)
(* last, only the tail ends the list, and prev is the block of the task    *)
(* that was the tail when the task was made.                               *)
(***************************************************************************)
Linked(r, b, living, last) ==
  /\ r.head \in Addresses
  /\ r.tail \in TasksOf(b)
  /\ ProcessOf(r, r.tail) = last
  /\ \A a \in TasksOf(b) : ProcessOf(r, a) \in living
  /\ \A p \in living : \E a \in TasksOf(b) : ProcessOf(r, a) = p
  /\ \A a, c \in TasksOf(b) : ProcessOf(r, a) = ProcessOf(r, c) => a = c
  /\ \A a \in TasksOf(b) : NextOf(r, a) = NULL => a = r.tail
  /\ \A a \in TasksOf(b) : PrevOf(r, a) = NULL <=> ProcessOf(r, a) = 1
  /\ \A a, c \in TasksOf(b) :
       ProcessOf(r, a) = ProcessOf(r, c) + 1 => PrevOf(r, a) = c

(* n is the task behind a in the list: no process was loaded between them. *)
Follows(r, b, living, a, n) ==
  /\ n \in TasksOf(b)
  /\ ProcessOf(r, a) < ProcessOf(r, n)
  /\ \A p \in living : p <= ProcessOf(r, a) \/ ProcessOf(r, n) <= p

(* The list has the tasks in the order their processes were loaded. *)
InOrder(r, b, living) ==
  /\ NextOf(r, r.tail) = NULL
  /\ r.head \in TasksOf(b)
  /\ \A p \in living : ProcessOf(r, r.head) <= p
  /\ \A a \in TasksOf(b) \ {r.tail} : Follows(r, b, living, a, NextOf(r, a))

SchedulerInv ==
  /\ TypeOK
  /\ processes = [i \in Slots |-> NULL]
  /\ status = "running" => /\ Linked(ring, block, alive, loaded)
                           /\ curr_process = loaded
                           /\ ring.current \in TasksOf(block)
  /\ status = "running" /\ ~damaged => InOrder(ring, block, alive)
  /\ OnlyStalePointersHarm

(* Tasks have fields of the right types. *)
LEMMA FieldTypes ==
  ASSUME NEW P, NEW r \in Ring(P), NEW a \in Addresses
  PROVE  /\ NextOf(r, a) \in Addresses \cup {NULL}
         /\ PrevOf(r, a) \in Addresses \cup {NULL}
         /\ ProcessOf(r, a) \in P \cup {NULL}
BY DEF Ring, Task, NextOf, PrevOf, ProcessOf

(* task_switch changes nothing but current_task. *)
LEMMA SwitchKeepsList ==
  ASSUME NEW P, NEW r \in Ring(P), NEW t \in Addresses \cup {NULL},
         NEW b, NEW living, NEW last
  PROVE  LET n == task_switch(r, t)
         IN  /\ n \in Ring(P)
             /\ n.mem = r.mem /\ n.head = r.head /\ n.tail = r.tail
             /\ n.current = t
             /\ Linked(r, b, living, last) => Linked(n, b, living, last)
             /\ InOrder(r, b, living) => InOrder(n, b, living)
<1> DEFINE n == task_switch(r, t)
<1>1. /\ n \in Ring(P)
      /\ n.mem = r.mem /\ n.head = r.head /\ n.tail = r.tail
      /\ n.current = t
  BY DEF task_switch, Ring
<1> HIDE DEF n
<1>2. \A a : /\ NextOf(n, a) = NextOf(r, a)
             /\ PrevOf(n, a) = PrevOf(r, a)
             /\ ProcessOf(n, a) = ProcessOf(r, a)
  BY <1>1 DEF NextOf, PrevOf, ProcessOf
<1>3. Linked(r, b, living, last) => Linked(n, b, living, last)
  BY <1>1, <1>2 DEF Linked
<1>4. InOrder(r, b, living) => InOrder(n, b, living)
  BY <1>1, <1>2 DEF InOrder, Follows
<1> QED
  BY <1>1, <1>3, <1>4 DEF n

(* task_new behind a list with its tasks in order, in a block that was     *)
(* free, is such a list again.                                             *)
LEMMA NewTaskLinked ==
  ASSUME NULL \notin Addresses, NULL \notin 1..MaxLoads,
         NEW r \in Ring(Processes),
         NEW b \in [Addresses -> {"free", "task", "other"}],
         NEW last \in Nat \ {0}, last + 1 \in Processes,
         NEW living \in SUBSET (1..last),
         Linked(r, b, living, last),
         NEW t \in Addresses, b[t] = "free"
  PROVE  LET n  == task_new(r, t, last + 1)
             nb == [b EXCEPT ![t] = "task"]
             nl == living \cup {last + 1}
         IN  /\ n \in Ring(Processes)
             /\ t \in TasksOf(nb)
             /\ Linked(n, nb, nl, last + 1)
             /\ InOrder(r, b, living) => InOrder(n, nb, nl)
<1> DEFINE n  == task_new(r, t, last + 1)
           nb == [b EXCEPT ![t] = "task"]
           nl == living \cup {last + 1}
<1>1. /\ r.tail \in Addresses /\ t # r.tail /\ r.head # NULL
      /\ r.tail \in TasksOf(b)
  BY DEF Linked, TasksOf
<1>2. /\ n \in Ring(Processes)
      /\ n.head = r.head /\ n.tail = t
      /\ n.mem[t] = [next |-> NULL, prev |-> r.tail, process |-> last + 1]
      /\ n.mem[r.tail] = [r.mem[r.tail] EXCEPT !.next = t]
      /\ \A a \in Addresses \ {t, r.tail} : n.mem[a] = r.mem[a]
  BY <1>1, NewTask
<1>3. TasksOf(nb) = TasksOf(b) \cup {t} /\ t \notin TasksOf(b)
  BY DEF TasksOf
<1>4. /\ r.mem[r.tail] \in Task(Processes)
      /\ TasksOf(b) \subseteq Addresses
  BY <1>1 DEF Ring, TasksOf
<1> HIDE DEF n, nb, nl
<1>5. /\ NextOf(n, t) = NULL /\ PrevOf(n, t) = r.tail
      /\ ProcessOf(n, t) = last + 1
  BY <1>2 DEF NextOf, PrevOf, ProcessOf
<1>6. ASSUME NEW a \in TasksOf(b)
      PROVE  /\ ProcessOf(n, a) = ProcessOf(r, a)
             /\ PrevOf(n, a) = PrevOf(r, a)
             /\ NextOf(n, a) = IF a = r.tail THEN t ELSE NextOf(r, a)
  <2>1. CASE a = r.tail
    BY <1>2, <1>4, <2>1 DEF Task, NextOf, PrevOf, ProcessOf
  <2>2. CASE a # r.tail
    <3>1. n.mem[a] = r.mem[a]
      BY <1>2, <1>3, <1>4, <2>2
    <3> QED
      BY <2>2, <3>1 DEF NextOf, PrevOf, ProcessOf
  <2> QED
    BY <2>1, <2>2
<1>7. \A a \in TasksOf(b) : /\ ProcessOf(r, a) \in living
                            /\ ProcessOf(r, a) \in Nat
                            /\ ProcessOf(r, a) <= last
  <2>1. \A p \in living : p \in Nat /\ p <= last
    OBVIOUS
  <2> QED
    BY <2>1 DEF Linked
<1>8. Linked(n, nb, nl, last + 1)
  <2>1. /\ n.head \in Addresses /\ n.tail \in TasksOf(nb)
        /\ ProcessOf(n, n.tail) = last + 1
    BY <1>2, <1>3, <1>5 DEF Linked
  <2>2. \A a \in TasksOf(nb) : ProcessOf(n, a) \in nl
    BY <1>3, <1>5, <1>6, <1>7 DEF nl
  <2>3. \A p \in nl : \E a \in TasksOf(nb) : ProcessOf(n, a) = p
    BY <1>3, <1>5, <1>6 DEF Linked, nl
  <2>4. \A a, c \in TasksOf(nb) : ProcessOf(n, a) = ProcessOf(n, c) => a = c
    <3>1. \A a \in TasksOf(b) : ProcessOf(n, a) # last + 1
      BY <1>6, <1>7
    <3> QED
      BY <1>3, <1>5, <1>6, <3>1 DEF Linked
  <2>5. \A a \in TasksOf(nb) : NextOf(n, a) = NULL => a = n.tail
    BY <1>2, <1>3, <1>6 DEF Linked
  <2>6. \A a \in TasksOf(nb) : PrevOf(n, a) = NULL <=> ProcessOf(n, a) = 1
    BY <1>1, <1>3, <1>5, <1>6 DEF Linked
  <2>7. \A a, c \in TasksOf(nb) :
          ProcessOf(n, a) = ProcessOf(n, c) + 1 => PrevOf(n, a) = c
    <3>1. ASSUME NEW c \in TasksOf(b), last + 1 = ProcessOf(r, c) + 1
          PROVE  c = r.tail
      <4>1. ProcessOf(r, c) = last
        BY <1>7, <3>1
      <4> QED
        BY <1>1, <4>1 DEF Linked
    <3>2. \A a \in TasksOf(b) : ProcessOf(n, a) # last + 1 + 1
      BY <1>6, <1>7
    <3>3. last + 1 # last + 1 + 1
      OBVIOUS
    <3> QED
      BY <1>3, <1>5, <1>6, <3>1, <3>2, <3>3 DEF Linked
  <2> QED
    BY <2>1, <2>2, <2>3, <2>4, <2>5, <2>6, <2>7 DEF Linked
<1>9. ASSUME InOrder(r, b, living)
      PROVE  InOrder(n, nb, nl)
  <2>1. NextOf(n, n.tail) = NULL
    BY <1>2, <1>5
  <2>2. n.head \in TasksOf(nb)
    BY <1>2, <1>3, <1>9 DEF InOrder
  <2>3. \A p \in nl : ProcessOf(n, n.head) <= p
    <3>1. r.head \in TasksOf(b)
      BY <1>9 DEF InOrder
    <3>2. ProcessOf(n, n.head) <= last + 1
      BY <1>2, <1>6, <1>7, <3>1
    <3> QED
      BY <1>2, <1>6, <1>9, <3>1, <3>2 DEF InOrder, nl
  <2>4. ASSUME NEW a \in TasksOf(nb) \ {n.tail}
        PROVE  Follows(n, nb, nl, a, NextOf(n, a))
    <3>1. a \in TasksOf(b)
      BY <1>2, <1>3
    <3>2. CASE a = r.tail
      <4>1. NextOf(n, a) = t /\ ProcessOf(n, a) = last
        BY <1>1, <1>6, <3>1, <3>2 DEF Linked
      <4>2. last < last + 1 /\ \A p \in nl : p <= last \/ last + 1 <= p
        BY DEF nl
      <4> QED
        BY <1>3, <1>5, <4>1, <4>2 DEF Follows
    <3>3. CASE a # r.tail
      <4>1. Follows(r, b, living, a, NextOf(r, a))
        BY <1>9, <3>1, <3>3 DEF InOrder
      <4>2. /\ NextOf(n, a) = NextOf(r, a)
            /\ NextOf(r, a) \in TasksOf(b)
            /\ ProcessOf(n, NextOf(r, a)) = ProcessOf(r, NextOf(r, a))
            /\ ProcessOf(n, a) = ProcessOf(r, a)
        BY <1>6, <3>1, <3>3, <4>1 DEF Follows
      <4>3. ProcessOf(r, NextOf(r, a)) <= last + 1
        BY <1>7, <4>2
      <4> QED
        BY <1>3, <4>1, <4>2, <4>3 DEF Follows, nl
    <3> QED
      BY <3>2, <3>3
  <2> QED
    BY <2>1, <2>2, <2>3, <2>4 DEF InOrder
<1>10. t \in TasksOf(nb)
  BY <1>3
<1> QED
  BY <1>2, <1>8, <1>9, <1>10 DEF n, nb, nl

(* The write through prev is the one the list expects, or harms nobody.    *)
Harmless(r, b, t) ==
  \/ PrevOf(r, t) = NULL
  \/ PrevOf(r, t) \in TasksOf(b) /\ NextOf(r, PrevOf(r, t)) = t
  \/ t = r.head /\ b[PrevOf(r, t)] = "free"

(***************************************************************************)
(* task_list_remove of the running task, which is not the tail, and the    *)
(* free of its block: the tasks that are left are linked as before, and in *)
(* order when they were and the write was harmless.                        *)
(***************************************************************************)
LEMMA RemovedTaskLinked ==
  ASSUME NULL \notin Addresses, NULL \notin 1..MaxLoads,
         NEW r \in Ring(Processes),
         NEW b \in [Addresses -> {"free", "task", "other"}],
         NEW last \in Nat \ {0},
         NEW living \in SUBSET (1..last),
         Linked(r, b, living, last),
         NEW t \in TasksOf(b), t = r.current, ProcessOf(r, t) # last
  PROVE  LET n  == task_list_remove(r, t)
             nb == [b EXCEPT ![t] = "free"]
             nl == living \ {ProcessOf(r, t)}
         IN  /\ n \in Ring(Processes)
             /\ n.current \in Addresses
             /\ Linked(n, nb, nl, last)
             /\ InOrder(r, b, living) /\ Harmless(r, b, t) =>
                  InOrder(n, nb, nl) /\ n.current \in TasksOf(nb)
<1> DEFINE n  == task_list_remove(r, t)
           nb == [b EXCEPT ![t] = "free"]
           nl == living \ {ProcessOf(r, t)}
           x  == NextOf(r, t)
<1>1. t \in Addresses /\ t # r.tail /\ x # NULL /\ x \in Addresses
  <2>1. t \in Addresses /\ t # r.tail
    BY DEF TasksOf, Linked
  <2> QED
    BY <2>1, FieldTypes DEF Linked
<1>2. /\ n \in Ring(Processes)
      /\ n.tail = r.tail
      /\ n.current = x
      /\ n.head = IF t = r.head THEN x ELSE r.head
      /\ \A a \in Addresses :
           /\ PrevOf(n, a) = PrevOf(r, a)
           /\ ProcessOf(n, a) = ProcessOf(r, a)
           /\ NextOf(n, a) = IF a = PrevOf(r, t) THEN x ELSE NextOf(r, a)
  BY <1>1, RemovedTask DEF NextOf, PrevOf, ProcessOf
<1>3. TasksOf(nb) = TasksOf(b) \ {t} /\ TasksOf(b) \subseteq Addresses
  BY DEF TasksOf
<1> HIDE DEF n, nb, x
<1>4. \A a \in TasksOf(b) : /\ ProcessOf(r, a) \in living
                            /\ ProcessOf(r, a) \in Nat
                            /\ ProcessOf(r, a) <= last
  <2>1. \A p \in living : p \in Nat /\ p <= last
    OBVIOUS
  <2> QED
    BY <2>1 DEF Linked
<1>5. Linked(n, nb, nl, last)
  <2>1. n.head \in Addresses
    BY <1>1, <1>2 DEF Linked
  <2>2. n.tail \in TasksOf(nb) /\ ProcessOf(n, n.tail) = last
    BY <1>1, <1>2, <1>3 DEF Linked
  <2>3. \A a \in TasksOf(nb) : ProcessOf(n, a) \in nl
    BY <1>2, <1>3, <1>4 DEF Linked
  <2>4. \A p \in nl : \E a \in TasksOf(nb) : ProcessOf(n, a) = p
    BY <1>2, <1>3 DEF Linked
  <2>5. \A a, c \in TasksOf(nb) : ProcessOf(n, a) = ProcessOf(n, c) => a = c
    BY <1>2, <1>3 DEF Linked
  <2>6. \A a \in TasksOf(nb) : NextOf(n, a) = NULL => a = n.tail
    BY <1>1, <1>2, <1>3 DEF Linked
  <2>7. \A a \in TasksOf(nb) : PrevOf(n, a) = NULL <=> ProcessOf(n, a) = 1
    BY <1>2, <1>3 DEF Linked
  <2>8. \A a, c \in TasksOf(nb) :
          ProcessOf(n, a) = ProcessOf(n, c) + 1 => PrevOf(n, a) = c
    BY <1>2, <1>3 DEF Linked
  <2> QED
    BY <2>1, <2>2, <2>3, <2>4, <2>5, <2>6, <2>7, <2>8 DEF Linked
<1>6. ASSUME InOrder(r, b, living), Harmless(r, b, t)
      PROVE  InOrder(n, nb, nl) /\ x \in TasksOf(nb)
  <2>1. /\ Follows(r, b, living, t, x)
        /\ \A a \in TasksOf(b) \ {r.tail} :
             Follows(r, b, living, a, NextOf(r, a))
    BY <1>1, <1>6 DEF InOrder, x
  <2>2. x \in TasksOf(nb)
    BY <1>3, <1>4, <2>1 DEF Follows
  (* Only the task that t follows can point to it. *)
  <2>3. ASSUME NEW a \in TasksOf(b), NEW c \in TasksOf(b),
               NextOf(r, a) = t, NextOf(r, c) = t,
               a # r.tail, c # r.tail
        PROVE  a = c
    <3>1. /\ Follows(r, b, living, a, t)
          /\ Follows(r, b, living, c, t)
      BY <2>1, <2>3
    <3>2. ProcessOf(r, a) = ProcessOf(r, c)
      BY <1>4, <3>1 DEF Follows
    <3> QED
      BY <3>2 DEF Linked
  <2>4. NextOf(r, r.tail) = NULL /\ NULL # t /\ r.tail \in Addresses
    BY <1>1, <1>3, <1>6 DEF InOrder, Linked
  (* Whoever pointed to t points to the task behind it now. *)
  <2>5. ASSUME NEW a \in TasksOf(nb), NextOf(r, a) = t
        PROVE  a = PrevOf(r, t)
    <3>1. /\ a \in TasksOf(b) /\ a # r.tail
          /\ ProcessOf(r, a) \in living /\ ProcessOf(r, a) < ProcessOf(r, t)
      BY <1>3, <1>4, <2>1, <2>4, <2>5 DEF Follows
    <3>2. t # r.head
      BY <1>4, <1>6, <3>1 DEF InOrder
    <3>3. PrevOf(r, t) # NULL
      <4>1. ProcessOf(r, t) # 1
        BY <1>4, <3>1
      <4> QED
        BY <4>1 DEF Linked
    <3>4. PrevOf(r, t) \in TasksOf(b) /\ NextOf(r, PrevOf(r, t)) = t
      BY <1>6, <3>2, <3>3 DEF Harmless
    <3> QED
      BY <2>3, <2>4, <2>5, <3>1, <3>4
  <2>6. NextOf(n, n.tail) = NULL
    <3>1. r.tail # PrevOf(r, t)
      <4>1. CASE PrevOf(r, t) = NULL
        BY <2>4, <4>1
      <4>2. CASE PrevOf(r, t) \in TasksOf(b) /\ NextOf(r, PrevOf(r, t)) = t
        BY <2>4, <4>2
      <4>3. CASE t = r.head /\ b[PrevOf(r, t)] = "free"
        BY <4>3 DEF Linked, TasksOf
      <4> QED
        BY <1>6, <4>1, <4>2, <4>3 DEF Harmless
    <3> QED
      BY <1>2, <2>4, <3>1
  <2>7. n.head \in TasksOf(nb)
    BY <1>2, <1>3, <1>6, <2>2 DEF InOrder
  <2>8. \A p \in nl : ProcessOf(n, n.head) <= p
    <3>1. CASE t = r.head
      <4>1. \A p \in nl : ProcessOf(r, t) <= p /\ p # ProcessOf(r, t)
        BY <1>6, <3>1 DEF InOrder
      <4>2. \A p \in nl : ProcessOf(r, x) <= p
        BY <1>4, <2>1, <4>1 DEF Follows
      <4> QED
        BY <1>1, <1>2, <3>1, <4>2
    <3>2. CASE t # r.head
      BY <1>2, <1>6, <3>2 DEF InOrder, Linked
    <3> QED
      BY <3>1, <3>2
  <2>9. ASSUME NEW a \in TasksOf(nb) \ {n.tail}
        PROVE  Follows(n, nb, nl, a, NextOf(n, a))
    <3>1. /\ a \in TasksOf(b) /\ a # t /\ a # r.tail
          /\ ProcessOf(n, a) = ProcessOf(r, a)
          /\ ProcessOf(n, x) = ProcessOf(r, x)
      BY <1>1, <1>2, <1>3
    <3>2. Follows(r, b, living, a, NextOf(r, a))
      BY <2>1, <3>1
    <3>3. CASE a = PrevOf(r, t)
      <4>1. NextOf(n, a) = x /\ NextOf(r, a) = t
        BY <1>2, <1>3, <1>6, <3>1, <3>3 DEF Harmless, TasksOf
      <4>2. Follows(r, b, living, a, t) /\ Follows(r, b, living, t, x)
        BY <2>1, <3>2, <4>1
      <4> QED
        BY <1>4, <2>2, <3>1, <4>1, <4>2 DEF Follows
    <3>4. CASE a # PrevOf(r, t)
      <4>1. NextOf(n, a) = NextOf(r, a) /\ NextOf(r, a) # t
        BY <1>2, <1>3, <2>5, <3>1, <3>4
      <4>2. /\ NextOf(r, a) \in TasksOf(nb)
            /\ ProcessOf(n, NextOf(r, a)) = ProcessOf(r, NextOf(r, a))
        BY <1>2, <1>3, <3>2, <4>1 DEF Follows
      <4> QED
        BY <3>1, <3>2, <4>1, <4>2 DEF Follows
    <3> QED
      BY <3>3, <3>4
  <2> QED
    BY <2>2, <2>6, <2>7, <2>8, <2>9 DEF InOrder
<1> QED
  BY <1>1, <1>2, <1>5, <1>6 DEF n, nb

(* task_next: the task that runs next is one, when the list is in order;   *)
(* otherwise what is no task is noticed as "wild".                         *)
LEMMA TaskNext ==
  ASSUME NULL \notin Addresses,
         NEW r \in Ring(Processes), r.current \in Addresses,
         NEW b \in [Addresses -> {"free", "task", "other"}],
         NEW living, NEW last, Linked(r, b, living, last)
  PROVE  LET next == task_next(r, b)
         IN  /\ next.ring \in Ring(Processes)
             /\ next.status \in {"running", "wild"}
             /\ Linked(next.ring, b, living, last)
             /\ next.status = "running" => next.ring.current \in TasksOf(b)
             /\ InOrder(r, b, living) => InOrder(next.ring, b, living)
             /\ InOrder(r, b, living) /\ r.current \in TasksOf(b) =>
                  next.status = "running"
<1> DEFINE t == task_get_next(r)
<1>1. t = IF NextOf(r, r.current) = NULL THEN r.head ELSE NextOf(r, r.current)
  BY DEF task_get_next, NextOf
<1>2. t \in Addresses
  BY <1>1, FieldTypes DEF Linked
<1>3. InOrder(r, b, living) /\ r.current \in TasksOf(b) => t \in TasksOf(b)
  <2> SUFFICES ASSUME InOrder(r, b, living), r.current \in TasksOf(b)
               PROVE  t \in TasksOf(b)
    OBVIOUS
  <2>1. CASE NextOf(r, r.current) = NULL
    BY <1>1, <2>1 DEF InOrder
  <2>2. CASE NextOf(r, r.current) # NULL
    BY <1>1, <2>2 DEF InOrder, Follows
  <2> QED
    BY <2>1, <2>2
<1> HIDE DEF t
<1>4. task_next(r, b) =
        IF b[r.current] # "task" THEN [ring |-> r, status |-> "wild"]
        ELSE IF t = NULL THEN [ring |-> r, status |-> "panic"]
        ELSE [ring   |-> task_switch(r, t),
              status |-> IF b[t] = "task" THEN "running" ELSE "wild"]
  BY Zenon DEF task_next, t
<1>5. CASE b[r.current] # "task"
  BY <1>4, <1>5 DEF TasksOf
<1>6. CASE b[r.current] = "task"
  <2>1. task_next(r, b) = [ring |-> task_switch(r, t), status |->
                             IF b[t] = "task" THEN "running" ELSE "wild"]
    BY <1>2, <1>4, <1>6
  <2>2. /\ task_switch(r, t) \in Ring(Processes)
        /\ task_switch(r, t).current = t
        /\ Linked(task_switch(r, t), b, living, last)
        /\ InOrder(r, b, living) => InOrder(task_switch(r, t), b, living)
    BY <1>2, SwitchKeepsList
  <2> QED
    BY <1>2, <1>3, <2>1, <2>2 DEF TasksOf
<1> QED
  BY <1>5, <1>6

-----------------------------------------------------------------------------
(* The boot, and the steps. *)

(* The list with the first task. *)
LEMMA FirstTask ==
  ASSUME NULL \notin Addresses, 1 \in Processes, NEW s \in Addresses
  PROVE  LET n == task_new(EmptyRing, s, 1)
             b == [a \in Addresses |-> IF a = s THEN "task" ELSE "free"]
         IN  /\ n \in Ring(Processes)
             /\ Linked(n, b, {1}, 1)
             /\ InOrder(n, b, {1})
<1> DEFINE n == task_new(EmptyRing, s, 1)
           b == [a \in Addresses |-> IF a = s THEN "task" ELSE "free"]
           m == [EmptyRing.mem EXCEPT ![s] = [NoTask EXCEPT !.process = 1]]
<1>1. /\ m \in [Addresses -> Task(Processes)]
      /\ m[s].next = NULL /\ m[s].prev = NULL /\ m[s].process = 1
  BY DEF EmptyRing, NoTask, Task
<1>2. /\ n.mem = m /\ n.head = s /\ n.tail = s
      /\ n \in Ring(Processes)
  <2>1. n = [mem |-> m, head |-> s, tail |-> s, current |-> s]
    BY DEF task_new, EmptyRing
  <2> HIDE DEF m, n
  <2> QED
    BY <1>1, <2>1 DEF Ring
<1> HIDE DEF m, n
<1>3. /\ NextOf(n, s) = NULL /\ PrevOf(n, s) = NULL /\ ProcessOf(n, s) = 1
  BY <1>1, <1>2 DEF NextOf, PrevOf, ProcessOf
<1>4. TasksOf(b) = {s}
  BY DEF TasksOf
<1> HIDE DEF b
<1>5. Linked(n, b, {1}, 1)
  BY <1>2, <1>3, <1>4 DEF Linked
<1>6. InOrder(n, b, {1})
  BY <1>2, <1>3, <1>4 DEF InOrder
<1> QED
  BY <1>2, <1>5, <1>6 DEF n, b

(* The kernel has loaded the first process and runs it.                    *)
LEMMA SchedulerInit ==
  ASSUME Init
  PROVE  SchedulerInv
<1>1. /\ NULL \notin Addresses /\ NULL \notin 1..MaxLoads
      /\ 1 \in Processes /\ 2 \in Processes
      /\ 0 \in Slots
  <2>1. 1 \in Processes /\ 2 \in Processes
    BY SchedulerAssumption DEF Processes
  <2>2. 0 \in Slots
    BY SchedulerAssumption DEF Slots
  <2> QED
    BY <2>1, <2>2, SchedulerAssumption
<1>2. PICK s \in Addresses, t \in Addresses :
        /\ s # t
        /\ ring = task_switch(LoadedRing(LoadedRing(EmptyRing, s, 1), t, 2), s)
        /\ block = [a \in Addresses |-> IF a \in {s, t} THEN "task" ELSE "free"]
  BY Zenon DEF Init
<1> DEFINE r == task_new(EmptyRing, s, 1)
           b == [a \in Addresses |-> IF a = s THEN "task" ELSE "free"]
           n == task_new(r, t, 2)
<1>3. /\ r \in Ring(Processes)
      /\ Linked(r, b, {1}, 1)
      /\ InOrder(r, b, {1})
  BY <1>1, FirstTask
<1>4. ring = task_switch(n, s)
  BY <1>2, Zenon DEF LoadedRing
<1>5. /\ b \in [Addresses -> {"free", "task", "other"}]
      /\ b[t] = "free"
      /\ block = [b EXCEPT ![t] = "task"]
  BY <1>2
<1>6. /\ {1} \in SUBSET (1..1) /\ 1 \in Nat \ {0}
      /\ {1} \cup {1 + 1} = {1, 2} /\ 1 + 1 = 2
  OBVIOUS
<1> HIDE DEF r, b
<1>7. /\ n \in Ring(Processes)
      /\ Linked(n, block, {1, 2}, 2)
      /\ InOrder(n, block, {1, 2})
  <2>1. 1 + 1 \in Processes
    BY <1>1
  <2>2. /\ task_new(r, t, 1 + 1) \in Ring(Processes)
        /\ Linked(task_new(r, t, 1 + 1), block, {1} \cup {1 + 1}, 1 + 1)
        /\ InOrder(task_new(r, t, 1 + 1), block, {1} \cup {1 + 1})
    BY <1>1, <1>3, <1>5, <1>6, <2>1, NewTaskLinked, Zenon
  <2> QED
    BY <1>6, <2>2, Zenon
<1> HIDE DEF n
<1>8. /\ ring \in Ring(Processes)
      /\ ring.current = s
      /\ Linked(ring, block, {1, 2}, 2)
      /\ InOrder(ring, block, {1, 2})
  BY <1>4, <1>7, SwitchKeepsList
<1>9. s \in TasksOf(block) /\ block \in [Addresses -> {"free", "task", "other"}]
  BY <1>2 DEF TasksOf
<1>10. /\ processes = [i \in Slots |-> NULL]
       /\ id = [p \in Processes |-> 0]
       /\ curr_process = 2 /\ status = "running" /\ loaded = 2
       /\ alive = {1, 2} /\ damaged = FALSE
  BY Zenon DEF Init
<1>11. TypeOK
  <2>1. /\ processes \in [Slots -> Processes \cup {NULL}]
        /\ id \in [Processes -> Slots]
    BY <1>1, <1>10
  <2>2. alive \subseteq 1..loaded
    BY <1>10
  <2> QED
    BY <1>1, <1>8, <1>9, <1>10, <2>1, <2>2, Zenon DEF TypeOK
<1>12. OnlyStalePointersHarm
  BY <1>10 DEF OnlyStalePointersHarm
<1> QED
  BY <1>8, <1>9, <1>10, <1>11, <1>12 DEF SchedulerInv

(* While nothing is entered in the process table its first slot is free.   *)
LEMMA FreeSlot ==
  ASSUME SchedulerInv
  PROVE  process_get_free_slot \in Slots
<1>1. {i \in Slots : processes[i] = NULL} = Slots
  BY DEF SchedulerInv
<1>2. 0 \in Slots /\ \A j \in Slots : 0 <= j
  BY SchedulerAssumption DEF Slots
<1>3. process_get_free_slot = CHOOSE i \in Slots : \A j \in Slots : i <= j
  BY <1>1, <1>2, Zenon DEF process_get_free_slot
<1> QED
  BY <1>2, <1>3

(* A load puts a task at the end of the list and switches to it.           *)
LEMMA LoadPreserves ==
  ASSUME SchedulerInv, isr80h_process_load_start
  PROVE  SchedulerInv'
<1> DEFINE p == loaded + 1
<1>1. /\ status = "running" /\ status' = status
      /\ p \in Processes
      /\ id' = [id EXCEPT ![p] = process_get_free_slot]
      /\ processes' = processes
      /\ curr_process' = p /\ loaded' = p
      /\ alive' = alive \cup {p}
      /\ damaged' = damaged
  BY DEF isr80h_process_load_start, process_enter
<1>2. PICK t \in Addresses :
        /\ block[t] = "free"
        /\ block' = [block EXCEPT ![t] = "task"]
        /\ ring' = task_switch(LoadedRing(ring, t, p), t)
  BY Zenon DEF isr80h_process_load_start
<1>3. /\ NULL \notin Addresses /\ NULL \notin 1..MaxLoads
      /\ ring \in Ring(Processes)
      /\ block \in [Addresses -> {"free", "task", "other"}]
      /\ loaded \in Nat \ {0}
      /\ alive \in SUBSET (1..loaded)
      /\ Linked(ring, block, alive, loaded)
  BY <1>1, SchedulerAssumption DEF SchedulerInv, TypeOK, Processes
<1> DEFINE n == task_new(ring, t, p)
<1>4. /\ n \in Ring(Processes)
      /\ t \in TasksOf(block')
      /\ Linked(n, block', alive', loaded')
      /\ InOrder(ring, block, alive) => InOrder(n, block', alive')
  BY <1>1, <1>2, <1>3, NewTaskLinked
<1>5. ring' = task_switch(n, t)
  BY <1>2, Zenon DEF LoadedRing
<1> HIDE DEF n
<1>6. /\ ring' \in Ring(Processes)
      /\ ring'.current = t
      /\ Linked(ring', block', alive', loaded')
      /\ InOrder(ring, block, alive) => InOrder(ring', block', alive')
  BY <1>4, <1>5, SwitchKeepsList
<1>7. TypeOK'
  <2>1. block' \in [Addresses -> {"free", "task", "other"}]
    BY <1>2, <1>3
  <2>2. id' \in [Processes -> Slots]
    BY <1>1, FreeSlot DEF SchedulerInv, TypeOK
  <2>3. alive' \subseteq 1..p
    BY <1>1, <1>3
  <2> QED
    BY <1>1, <1>6, <2>1, <2>2, <2>3 DEF SchedulerInv, TypeOK
<1>8. OnlyStalePointersHarm'
  <2>1. p \notin 1..loaded /\ 1..loaded \subseteq 1..p
    BY <1>3
  <2> QED
    BY <1>1, <2>1 DEF SchedulerInv, OnlyStalePointersHarm
<1> QED
  BY <1>1, <1>4, <1>6, <1>7, <1>8 DEF SchedulerInv

(* The clock moves the current task along the list.                        *)
LEMMA ClockPreserves ==
  ASSUME SchedulerInv, idt_clock
  PROVE  SchedulerInv'
<1>1. /\ status = "running"
      /\ ring' = task_next(ring, block).ring
      /\ status' = task_next(ring, block).status
      /\ UNCHANGED <<block, processes, id, curr_process, loaded, alive,
                     damaged>>
  BY DEF idt_clock
<1>2. /\ NULL \notin Addresses
      /\ ring \in Ring(Processes) /\ ring.current \in Addresses
      /\ ring.current \in TasksOf(block)
      /\ block \in [Addresses -> {"free", "task", "other"}]
      /\ Linked(ring, block, alive, loaded)
  BY <1>1, SchedulerAssumption DEF SchedulerInv, TypeOK, TasksOf
<1>3. /\ ring' \in Ring(Processes)
      /\ status' \in {"running", "wild"}
      /\ Linked(ring', block, alive, loaded)
      /\ status' = "running" => ring'.current \in TasksOf(block)
      /\ InOrder(ring, block, alive) =>
           InOrder(ring', block, alive) /\ status' = "running"
  BY <1>1, <1>2, TaskNext
<1>4. TypeOK'
  BY <1>1, <1>3 DEF SchedulerInv, TypeOK
<1>5. OnlyStalePointersHarm'
  BY <1>1, <1>3 DEF SchedulerInv, OnlyStalePointersHarm
<1>6. Linked(ring, block, alive, loaded)'
  BY <1>1, <1>3
<1>7. status' = "running" /\ ~damaged' => InOrder(ring, block, alive)'
  BY <1>1, <1>3 DEF SchedulerInv
<1> QED
  BY <1>1, <1>3, <1>4, <1>5, <1>6, <1>7 DEF SchedulerInv

(* The table has no other process that process_unlink could switch to.     *)
LEMMA UnlinkFindsNone ==
  ASSUME SchedulerInv, NEW p
  PROVE  /\ process_unlink(processes, p).processes = processes
         /\ process_unlink(processes, p).curr_process = curr_process
         /\ process_unlink(processes, p).panic = (curr_process = p)
<1> DEFINE left   == [processes EXCEPT ![id[p]] = NULL]
           listed == {i \in Slots : left[i] # NULL}
           any    == left[CHOOSE i \in listed : \A j \in listed : i <= j]
<1>1. left = processes /\ listed = {}
  BY DEF SchedulerInv
<1>2. process_unlink(processes, p) =
        [processes    |-> left,
         curr_process |-> IF curr_process = p /\ listed # {}
                          THEN any ELSE curr_process,
         panic        |-> curr_process = p /\ listed = {}]
  BY Zenon DEF process_unlink
<1> HIDE DEF left, listed, any
<1> QED
  BY <1>1, <1>2

(***************************************************************************)
(* The list is in order and the running task has a prev pointer that is    *)
(* stale: the process loaded before its own has ended already.             *)
(***************************************************************************)
LEMMA StrayNeedsEarlierExit ==
  ASSUME SchedulerInv, status = "running", ~damaged, StrayWrite(ring.current)
  PROVE  LET p == Running
         IN  /\ p \in alive
             /\ p - 1 \in 1..loaded
             /\ p - 1 \notin alive
<1> DEFINE t == ring.current
           p == ProcessOf(ring, t)
<1>1. /\ ring \in Ring(Processes)
      /\ loaded \in Nat /\ alive \subseteq 1..loaded
      /\ Linked(ring, block, alive, loaded)
      /\ InOrder(ring, block, alive)
      /\ t \in TasksOf(block)
  BY DEF SchedulerInv, TypeOK, Processes
<1>2. /\ PrevOf(ring, t) # NULL
      /\ \/ block[PrevOf(ring, t)] # "task"
         \/ NextOf(ring, PrevOf(ring, t)) # t
  BY Zenon DEF StrayWrite, PrevOf, NextOf
<1> HIDE DEF t
<1>3. p \in alive /\ p # 1
  BY <1>1, <1>2 DEF Linked
<1>4. /\ p \in Nat /\ p - 1 \in 1..loaded /\ p \in 1..loaded
      /\ \A q \in alive : q \in Nat
  <2> HIDE DEF p
  <2>1. p \in 1..loaded
    BY <1>1, <1>3
  <2>2. p \in Nat /\ p - 1 \in 1..loaded
    BY <1>1, <1>3, <2>1
  <2> QED
    BY <1>1, <2>1, <2>2
<1>5. ASSUME p - 1 \in alive
      PROVE  FALSE
  <2>1. PICK c \in TasksOf(block) : ProcessOf(ring, c) = p - 1
    BY <1>1, <1>5 DEF Linked
  <2>2. p = ProcessOf(ring, c) + 1 /\ ProcessOf(ring, c) # loaded
    BY <1>1, <1>4, <2>1
  <2>3. PrevOf(ring, t) = c /\ c # ring.tail
    BY <1>1, <2>2 DEF Linked
  <2>4. block[c] = "task"
    BY <2>1 DEF TasksOf
  <2>5. Follows(ring, block, alive, c, NextOf(ring, c))
    BY <1>1, <2>1, <2>3 DEF InOrder
  <2>6. /\ NextOf(ring, c) \in TasksOf(block)
        /\ ProcessOf(ring, NextOf(ring, c)) \in alive
        /\ p - 1 < ProcessOf(ring, NextOf(ring, c))
        /\ ProcessOf(ring, NextOf(ring, c)) <= p
    <3> HIDE DEF p
    <3>1. ~(p <= p - 1)
      BY <1>4
    <3>2. ProcessOf(ring, NextOf(ring, c)) \in alive
      BY <1>1, <2>5 DEF Follows, Linked
    <3> QED
      BY <1>3, <2>1, <2>5, <3>1, <3>2 DEF Follows
  <2>7. ProcessOf(ring, NextOf(ring, c)) = p
    <3> HIDE DEF p
    <3>1. ProcessOf(ring, NextOf(ring, c)) \in Nat
      BY <1>4, <2>6
    <3> QED
      BY <1>4, <2>6, <3>1
  <2>8. NextOf(ring, c) = t
    BY <1>1, <2>6, <2>7 DEF Linked
  <2> QED
    BY <1>2, <2>3, <2>4, <2>8
<1>6. Running = p
  BY DEF Running, ProcessOf, t
<1> QED
  BY <1>3, <1>4, <1>5, <1>6

(* An exit takes a task out of the list, soundly or not.                   *)
LEMMA ExitPreserves ==
  ASSUME SchedulerInv, isr80h_command9_exit
  PROVE  SchedulerInv'
<1> DEFINE t       == ring.current
           p       == ProcessOf(ring, t)
           removed == task_list_remove(ring, t)
           freed   == [block EXCEPT ![t] = "free"]
           next    == task_next(removed, freed)
           overrun == PrevOf(ring, t) # NULL /\ block[PrevOf(ring, t)] = "other"
<1>1. /\ status = "running"
      /\ block' = freed
      /\ processes' = process_unlink(processes, p).processes
      /\ curr_process' = process_unlink(processes, p).curr_process
      /\ alive' = alive \ {p}
      /\ damaged' = (damaged \/ StrayWrite(t))
      /\ IF process_unlink(processes, p).panic
         THEN ring' = removed /\ status' = "panic"
         ELSE /\ ring' = next.ring
              /\ status' = IF overrun THEN "wild" ELSE next.status
      /\ UNCHANGED <<id, loaded>>
  BY Zenon DEF isr80h_command9_exit, Running, ProcessOf, PrevOf
<1>2. /\ NULL \notin Addresses /\ NULL \notin 1..MaxLoads
      /\ ring \in Ring(Processes)
      /\ block \in [Addresses -> {"free", "task", "other"}]
      /\ loaded \in Nat \ {0}
      /\ alive \in SUBSET (1..loaded)
      /\ Linked(ring, block, alive, loaded)
      /\ curr_process = loaded
      /\ t \in TasksOf(block) /\ t \in Addresses
      /\ p \in alive
  BY <1>1, SchedulerAssumption
     DEF SchedulerInv, TypeOK, Processes, TasksOf, Linked
<1>3. /\ processes' = processes
      /\ curr_process' = curr_process
      /\ IF p = loaded
         THEN ring' = removed /\ status' = "panic"
         ELSE /\ ring' = next.ring
              /\ status' = IF overrun THEN "wild" ELSE next.status
  BY <1>1, <1>2, UnlinkFindsNone
<1>4. removed \in Ring(Processes)
  BY <1>2, RemovedTask
<1>5. freed \in [Addresses -> {"free", "task", "other"}]
  BY <1>2
<1>6. damaged' \in BOOLEAN
  BY <1>1 DEF StrayWrite, SchedulerInv, TypeOK
<1> HIDE DEF removed, freed, next
<1>7. p # loaded =>
        /\ removed.current \in Addresses
        /\ Linked(removed, freed, alive', loaded)
        /\ InOrder(ring, block, alive) /\ Harmless(ring, block, t) =>
             /\ InOrder(removed, freed, alive')
             /\ removed.current \in TasksOf(freed)
  BY <1>1, <1>2, RemovedTaskLinked DEF removed, freed
<1>8. p # loaded =>
        /\ next.ring \in Ring(Processes)
        /\ next.status \in {"running", "wild"}
        /\ Linked(next.ring, freed, alive', loaded)
        /\ next.status = "running" => next.ring.current \in TasksOf(freed)
        /\ InOrder(ring, block, alive) /\ Harmless(ring, block, t) =>
             InOrder(next.ring, freed, alive') /\ next.status = "running"
  BY <1>2, <1>4, <1>5, <1>7, TaskNext DEF next
<1>9. ~damaged' =>
        InOrder(ring, block, alive) /\ Harmless(ring, block, t) /\ ~overrun
  <2> SUFFICES ASSUME ~damaged'
               PROVE  /\ InOrder(ring, block, alive)
                      /\ Harmless(ring, block, t) /\ ~overrun
    OBVIOUS
  <2>1. ~damaged /\ ~StrayWrite(t)
    BY <1>1
  <2>2. InOrder(ring, block, alive)
    BY <1>1, <2>1 DEF SchedulerInv
  <2>3. \/ PrevOf(ring, t) = NULL
        \/ block[PrevOf(ring, t)] = "task" /\ NextOf(ring, PrevOf(ring, t)) = t
        \/ t = ring.head /\ block[PrevOf(ring, t)] = "free"
    BY <2>1, Zenon DEF StrayWrite, PrevOf, NextOf
  <2>4. PrevOf(ring, t) \in Addresses \cup {NULL}
    BY <1>2, FieldTypes
  <2>5. Harmless(ring, block, t)
    BY <2>3, <2>4 DEF Harmless, TasksOf
  <2>6. ~overrun
    BY <2>3
  <2> QED
    BY <2>2, <2>5, <2>6
<1>10. ring' \in Ring(Processes) /\ status' \in {"running", "panic", "wild"}
  BY <1>3, <1>4, <1>8
<1>11. TypeOK'
  BY <1>1, <1>3, <1>5, <1>6, <1>10 DEF SchedulerInv, TypeOK
<1>12. status' = "running" =>
         /\ Linked(ring', block', alive', loaded')
         /\ curr_process' = loaded'
         /\ ring'.current \in TasksOf(block')
  BY <1>1, <1>2, <1>3, <1>8
<1>13. status' = "running" /\ ~damaged' => InOrder(ring', block', alive')
  BY <1>1, <1>3, <1>8, <1>9
<1>14. status' = "wild" => damaged'
  BY <1>3, <1>8, <1>9
<1>15. damaged' => \E q, s \in 1..loaded' : q # s /\ {q, s} \cap alive' = {}
  <2>1. CASE damaged
    BY <1>1, <2>1 DEF SchedulerInv, OnlyStalePointersHarm
  <2>2. CASE ~damaged /\ StrayWrite(t)
    <3>1. p - 1 \in 1..loaded /\ p - 1 \notin alive
      BY <1>1, <2>2, StrayNeedsEarlierExit, Zenon DEF Running, ProcessOf
    <3>2. p \in 1..loaded /\ p - 1 # p
      <4> HIDE DEF p
      <4> QED
        BY <1>2
    <3>3. {p, p - 1} \cap alive' = {}
      BY <1>1, <3>1
    <3> QED
      BY <1>1, <3>1, <3>2, <3>3
  <2> QED
    BY <1>1, <2>1, <2>2
<1>16. OnlyStalePointersHarm'
  BY <1>14, <1>15 DEF OnlyStalePointersHarm
<1> QED
  BY <1>1, <1>3, <1>11, <1>12, <1>13, <1>16 DEF SchedulerInv

(***************************************************************************)
(* In every reachable state the blocks that are tasks are linked and, as   *)
(* long as no exit wrote through a stale prev pointer, in order; what goes *)
(* wrong after such a write is accounted for (task_new, task_list_remove,  *)
(* task_next, process_unlink).                                             *)
(***************************************************************************)
THEOREM SchedulerInvariant == Spec => []SchedulerInv
<1>1. Init => SchedulerInv
  BY SchedulerInit
<1>2. SchedulerInv /\ [Next]_vars => SchedulerInv'
  <2> SUFFICES ASSUME SchedulerInv, [Next]_vars
               PROVE  SchedulerInv'
    OBVIOUS
  <2>1. CASE UNCHANGED vars \/ isr80h_process_load_fails
    <3>1. UNCHANGED vars
      BY <2>1 DEF isr80h_process_load_fails
    <3> QED
      BY <3>1, Zenon DEF vars, SchedulerInv, TypeOK, OnlyStalePointersHarm
  <2>2. CASE isr80h_process_load_start
    BY <2>2, LoadPreserves
  <2>3. CASE isr80h_process_load_no_task
    BY <2>3 DEF isr80h_process_load_no_task, SchedulerInv, TypeOK,
                OnlyStalePointersHarm
  <2>4. CASE idt_clock
    BY <2>4, ClockPreserves
  <2>5. CASE isr80h_command9_exit
    BY <2>5, ExitPreserves
  <2>6. ASSUME NEW a \in Addresses, OtherAlloc(a) \/ OtherFree(a)
        PROVE  SchedulerInv'
    <3>1. /\ TasksOf(block') = TasksOf(block)
          /\ block' \in [Addresses -> {"free", "task", "other"}]
          /\ UNCHANGED <<ring, processes, id, curr_process, status, loaded,
                         alive, damaged>>
      BY <2>6 DEF OtherAlloc, OtherFree, TasksOf, SchedulerInv, TypeOK
    <3>2. /\ Linked(ring, block, alive, loaded)
               => Linked(ring, block', alive, loaded)
          /\ InOrder(ring, block, alive) => InOrder(ring, block', alive)
      BY <3>1 DEF Linked, InOrder, Follows
    <3> QED
      BY <3>1, <3>2 DEF SchedulerInv, TypeOK, OnlyStalePointersHarm
  <2> QED
    BY <2>1, <2>2, <2>3, <2>4, <2>5, <2>6 DEF Next
<1> QED
  BY <1>1, <1>2, PTL DEF Spec

-----------------------------------------------------------------------------
(* What it says. *)

(* The task list, the process table and the current process have their     *)
(* types, a list that an exit damaged included (task.c, process.c).        *)
THEOREM SchedulerTypeCorrect == Spec => []TypeOK
BY SchedulerInvariant, PTL DEF SchedulerInv

(* Whatever happens to the list, keys are typed into a process that lives, *)
(* the one loaded last, whose task is the tail (process_switch,            *)
(* process_unlink, task_list_remove).                                      *)
THEOREM KeyboardFollowsLoads == Spec => []KeyboardGoesToNewest
<1>1. SchedulerInv => KeyboardGoesToNewest
  BY DEF SchedulerInv, KeyboardGoesToNewest, Linked, TasksOf, ProcessOf
<1> QED
  BY <1>1, SchedulerInvariant, PTL

(* Only a write through a stale prev pointer leads the kernel astray, and  *)
(* it takes two exits (task_list_remove, task_next).                       *)
THEOREM HarmNeedsTwoExits == Spec => []OnlyStalePointersHarm
BY SchedulerInvariant, PTL DEF SchedulerInv

(* A linked list in order is what the scheduler expects of the task list.  *)
LEMMA LinkedIsSound ==
  ASSUME SchedulerInv
  PROVE  ListSound
<1> SUFFICES ASSUME status = "running", ~damaged
             PROVE  /\ \A t \in Addresses :
                         block[t] = "task" => ring.mem[t].process \in alive
                    /\ \A p \in alive : \E t \in Addresses :
                         /\ block[t] = "task"
                         /\ ring.mem[t].process = p
                         /\ \A u \in Addresses \ {t} :
                              block[u] = "task" => ring.mem[u].process # p
                         /\ ring.mem[t].next =
                              IF Successors(p) = {}
                              THEN NULL
                              ELSE TaskOf(First(Successors(p)))
                    /\ ring.head = TaskOf(First(alive))
                    /\ block[ring.current] = "task"
  BY DEF ListSound
<1>1. /\ loaded \in Nat /\ alive \subseteq 1..loaded
      /\ Linked(ring, block, alive, loaded)
      /\ InOrder(ring, block, alive)
      /\ ring.current \in TasksOf(block)
  BY DEF SchedulerInv, TypeOK, Processes
<1>2. \A p \in alive : p \in Nat /\ p <= loaded
  BY <1>1
<1>3. ASSUME NEW a \in TasksOf(block)
      PROVE  TaskOf(ProcessOf(ring, a)) = a
  <2>1. a \in Addresses /\ block[a] = "task"
    BY DEF TasksOf
  <2>2. \A c \in Addresses :
          block[c] = "task" /\ ProcessOf(ring, c) = ProcessOf(ring, a) <=> c = a
    BY <1>1, <2>1 DEF Linked, TasksOf
  <2> QED
    BY <2>1, <2>2 DEF TaskOf, ProcessOf
<1>4. ASSUME NEW S, NEW m \in S, S \subseteq alive, \A q \in S : m <= q
      PROVE  First(S) = m
  <2>1. ASSUME NEW k \in S, \A q \in S : k <= q
        PROVE  k = m
    BY <1>2, <1>4, <2>1
  <2> QED
    BY <1>4, <2>1, Zenon DEF First
<1>5. ASSUME NEW p \in alive
      PROVE  \E t \in Addresses :
               /\ block[t] = "task"
               /\ ring.mem[t].process = p
               /\ \A u \in Addresses \ {t} :
                    block[u] = "task" => ring.mem[u].process # p
               /\ ring.mem[t].next = IF Successors(p) = {}
                                     THEN NULL
                                     ELSE TaskOf(First(Successors(p)))
  <2>1. PICK t \in TasksOf(block) : ProcessOf(ring, t) = p
    BY <1>1 DEF Linked
  <2>2. \A u \in TasksOf(block) : ProcessOf(ring, u) = p => u = t
    BY <1>1, <2>1 DEF Linked
  <2>3. NextOf(ring, t) = IF Successors(p) = {}
                          THEN NULL
                          ELSE TaskOf(First(Successors(p)))
    <3>1. CASE t = ring.tail
      <4>1. p = loaded
        BY <1>1, <2>1, <3>1 DEF Linked
      <4>2. Successors(p) = {}
        BY <1>2, <4>1 DEF Successors
      <4> QED
        BY <1>1, <3>1, <4>2 DEF InOrder
    <3>2. CASE t # ring.tail
      <4> DEFINE n == NextOf(ring, t)
                 q == ProcessOf(ring, n)
      <4>1. /\ n \in TasksOf(block)
            /\ p < q
            /\ \A s \in alive : s <= p \/ q <= s
        BY <1>1, <2>1, <3>2 DEF InOrder, Follows
      <4>2. q \in alive
        BY <1>1, <4>1 DEF Linked
      <4> HIDE DEF q
      <4>3. q \in Successors(p) /\ Successors(p) \subseteq alive
        BY <4>1, <4>2 DEF Successors
      <4>4. \A s \in Successors(p) : q <= s
        BY <1>2, <4>1 DEF Successors
      <4>5. First(Successors(p)) = q
        BY <1>4, <4>3, <4>4
      <4>6. TaskOf(q) = n
        BY <1>3, <4>1 DEF q
      <4> QED
        BY <4>3, <4>5, <4>6
    <3> QED
      BY <3>1, <3>2
  <2> QED
    BY <2>1, <2>2, <2>3 DEF TasksOf, ProcessOf, NextOf
<1>6. ring.head = TaskOf(First(alive))
  <2>1. /\ ring.head \in TasksOf(block)
        /\ ProcessOf(ring, ring.head) \in alive
        /\ \A p \in alive : ProcessOf(ring, ring.head) <= p
    BY <1>1 DEF InOrder, Linked
  <2>2. First(alive) = ProcessOf(ring, ring.head)
    BY <1>4, <2>1
  <2> QED
    BY <1>3, <2>1, <2>2
<1>7. \A t \in Addresses : block[t] = "task" => ring.mem[t].process \in alive
  BY <1>1 DEF Linked, TasksOf, ProcessOf
<1>8. block[ring.current] = "task"
  BY <1>1 DEF TasksOf
<1> QED
  BY <1>5, <1>6, <1>7, <1>8

(* The task list is what the scheduler needs it to be until an exit writes *)
(* through a stale prev pointer: one task for each process that lives, in  *)
(* the order they were loaded, and one of them runs.                       *)
THEOREM TaskListSound == Spec => []ListSound
BY LinkedIsSound, SchedulerInvariant, PTL

=============================================================================
