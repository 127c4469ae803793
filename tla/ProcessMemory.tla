--------------------------- MODULE ProcessMemory ---------------------------
(***************************************************************************)
(* The memory of a process: src/task/process.c and the system calls of     *)
(* src/isr80h/process.c and src/isr80h/heap.c, over the block table of     *)
(* module HeapTable.                                                       *)
(*                                                                         *)
(* A process has a struct process, the two allocations of its ELF file, a  *)
(* stack, a task with a page directory, and what it mallocs.  Its page     *)
(* directory lets it read all of the memory and write what was mapped      *)
(* writable: the segment of its program, its stack and its allocations.    *)
(*                                                                         *)
(* Every system call runs to its end before another one begins, and any    *)
(* process may make the next one: the order in which tasks run is the      *)
(* business of module Scheduler.  The table of processes is not modelled   *)
(* here, because it is always empty (see Scheduler!process_enter).         *)
(***************************************************************************)
EXTENDS HeapTable, SequencesExt

CONSTANTS
  MaxLoads,                      \* processes ever loaded
  MaxArgs,                       \* arguments of a command line, at least
                                 \* the one of kernel_main
  MaxOthers,                     \* blocks the kernel holds for other purposes
  Programs,                      \* the ELF files: size of the file, offset in
                                 \* it and size in memory of the writable
                                 \* segment, in bytes
  Sizes,                         \* the sizes programs ask malloc for
  SizeofProcess,                 \* sizeof(struct process)
  DirectoryBlocks,               \* kzallocs of one paging_new_4gb: 1026
  BENOS_USER_PROGRAM_STACK_SIZE,
  BENOS_MAX_PROGRAM_ALLOCATIONS

ASSUME ProcessAssumption ==
  /\ MaxLoads \in Nat \ {0, 1}
  /\ MaxArgs \in Nat \ {0}
  /\ MaxOthers \in Nat
  /\ Programs \subseteq [size : Nat \ {0}, offset : Nat, memsz : Nat]
  /\ Sizes \subseteq Nat
  /\ {SizeofProcess, DirectoryBlocks, BENOS_USER_PROGRAM_STACK_SIZE,
      BENOS_MAX_PROGRAM_ALLOCATIONS} \subseteq Nat \ {0}

(* What a kzalloc of the last block of the pool clears, and the end of the *)
(* pages that are mapped for it, are addresses that do not wrap around.    *)
Fits(size) ==
  BENOS_HEAD_ADDRESS + BENOS_HEAP_BLOCK_SIZE * (Total + 1) + size <= WordSize

(* Here an address is a natural number: sizes are such that it stays below *)
(* WordSize. A program that asks for more, or an ELF file that says so, is *)
(* not modelled.                                                           *)
ASSUME AddressesAssumption ==
  \A size \in Sizes \cup {f.size : f \in Programs}
             \cup {SizeofProcess, BENOS_USER_PROGRAM_STACK_SIZE, 4 * MaxArgs,
                  BENOS_HEAP_BLOCK_SIZE} : Fits(size)

Processes == 1..MaxLoads
Slots     == 0..(BENOS_MAX_PROGRAM_ALLOCATIONS - 1)

VARIABLES entries,      \* kernel_heap_table.entries
          process,      \* the struct process of every process loaded
          loaded,       \* how many processes were loaded
          alive,        \* those that have not been terminated
          curr_process, \* the process the keyboard types into
          others,       \* addresses of the kernel's other allocations
          lost,         \* pieces nothing refers to any more
          status        \* "running"; "panic", the for (;;) of panic(); "wild",
                        \* a NULL pointer was used as if it were an object

vars == <<entries, process, loaded, alive, curr_process, others, lost, status>>

-----------------------------------------------------------------------------
(* The heap.  An allocation of a single block is one of BlockSize bytes. *)

BlockSize == BENOS_HEAP_BLOCK_SIZE

(***************************************************************************)
(* kfree(NULL) clears a byte of low memory, 4096 before the table: the     *)
(* table stays as it is.                                                   *)
(***************************************************************************)
kfree(table, addr) == IF addr = NULL THEN table ELSE heap_free(table, addr)

(* The addresses of kzallocs of these sizes, one after the other. *)
kzallocAll(table, sizes) ==
  LET done[i \in 0..Len(sizes)] ==
        IF i = 0
        THEN [table |-> table, addrs |-> <<>>]
        ELSE LET before == done[i - 1]
                 new    == heap_malloc(before.table, sizes[i])
             IN  [table |-> new.table, addrs |-> Append(before.addrs, new.addr)]
  IN  done[Len(sizes)]

kfreeAll(table, addrs) ==
  LET done[i \in 0..Len(addrs)] ==
        IF i = 0 THEN table ELSE kfree(done[i - 1], addrs[i])
  IN  done[Len(addrs)]

BlocksOf(addr, size) ==
  LET b == heap_address_to_block(addr) IN b..(b + TotalBlocks(size) - 1)

-----------------------------------------------------------------------------
(* Paging: the blocks each part of a page directory maps writable. *)

PAGING_PAGE_SIZE == 4096

Regions == {"program", "stack", "heap"}
NoPages == [r \in Regions |-> {}]

paging_align_to_lower_page(addr) == addr - (addr % PAGING_PAGE_SIZE)

paging_align_address(addr) ==
  IF addr % PAGING_PAGE_SIZE = 0
  THEN addr
  ELSE addr + PAGING_PAGE_SIZE - (addr % PAGING_PAGE_SIZE)

(***************************************************************************)
(* Map the pages from phys up to end, writable or (flags 0) not at all.    *)
(* The heap is mapped at its own addresses, so that an unmapping undoes    *)
(* the mapping of the same range.                                          *)
(***************************************************************************)
paging_map_to(pages, region, phys, end, writable) ==
  LET range == heap_address_to_block(phys)..(heap_address_to_block(end) - 1)
      ok    == /\ phys % PAGING_PAGE_SIZE = 0
               /\ end % PAGING_PAGE_SIZE = 0
               /\ end > phys
  IN  [ok    |-> ok,
       pages |-> [pages EXCEPT ![region] = IF ~ok THEN @
                                           ELSE IF writable THEN @ \cup range
                                                            ELSE @ \ range]]

(* The sizes that paging_new_4gb allocates. *)
paging_new_4gb == [i \in 1..DirectoryBlocks |-> BlockSize]

-----------------------------------------------------------------------------
(* malloc and free of a process *)

NoAllocation == [ptr |-> NULL, size |-> 0]

(* The first slot that holds ptr, -1 if there is none. *)
SlotOf(p, ptr) ==
  LET holds == {i \in Slots : p.allocations[i].ptr = ptr}
  IN  IF holds = {} THEN -1 ELSE CHOOSE i \in holds : \A j \in holds : i <= j

(* A variant that takes the last slot even when it is in use. *)
LastSlot(p) == IF SlotOf(p, NULL) < 0
               THEN BENOS_MAX_PROGRAM_ALLOCATIONS - 1
               ELSE SlotOf(p, NULL)

process_find_free_alloc_index(p) == SlotOf(p, NULL)

process_malloc(table, p, size) ==
  LET new == heap_malloc(table, size)
      i   == process_find_free_alloc_index(p)
      map == paging_map_to(p.pages, "heap", new.addr,
                           paging_align_address(new.addr + size), TRUE)
  IN  IF new.addr # NULL /\ i >= 0 /\ map.ok
      THEN [table   |-> new.table,
            process |-> [p EXCEPT !.allocations[i] = [ptr  |-> new.addr,
                                                      size |-> size],
                                  !.pages = map.pages],
            ptr     |-> new.addr]
      ELSE [table |-> kfree(new.table, new.addr), process |-> p, ptr |-> NULL]

(* A variant of process_free that leaves the pages mapped. *)
FreeStaysMapped(table, p, ptr) ==
  LET i == SlotOf(p, ptr)
  IN  IF i >= 0 /\ ptr # NULL
      THEN [table   |-> kfree(table, ptr),
            process |-> [p EXCEPT !.allocations[i] = NoAllocation]]
      ELSE [table |-> table, process |-> p]

(***************************************************************************)
(* A pointer the process did not malloc is ignored.  NULL is what an empty *)
(* slot holds: its 0 bytes cannot be unmapped, and nothing is freed.       *)
(***************************************************************************)
process_free(table, p, ptr) ==
  LET i     == SlotOf(p, ptr)
      size  == p.allocations[i].size
      unmap == paging_map_to(p.pages, "heap", ptr,
                             paging_align_address(ptr + size), FALSE)
  IN  IF i >= 0 /\ unmap.ok
      THEN [table   |-> kfree(table, ptr),
            process |-> [p EXCEPT
                           !.allocations = [j \in Slots |->
                                              IF @[j].ptr = ptr
                                              THEN NoAllocation
                                              ELSE @[j]],
                           !.pages = unmap.pages]]
      ELSE [table |-> table, process |-> p]

process_terminate_allocations(table, p) ==
  LET done[i \in 0..BENOS_MAX_PROGRAM_ALLOCATIONS] ==
        IF i = 0
        THEN [table |-> table, process |-> p]
        ELSE LET before == done[i - 1]
             IN  process_free(before.table, before.process,
                              before.process.allocations[i - 1].ptr)
  IN  done[BENOS_MAX_PROGRAM_ALLOCATIONS]

(***************************************************************************)
(* The array of argument pointers, then a string for each argument.  When  *)
(* one cannot be had, those already there stay with the process, and it    *)
(* has no arguments.                                                       *)
(***************************************************************************)
process_inject_args(table, p, argc) ==
  LET argv == process_malloc(table, p, 4 * argc)
      strings[i \in 0..argc] ==
        IF i = 0
        THEN [table |-> argv.table, process |-> argv.process,
              ptr |-> argv.ptr, args |-> <<>>]
        ELSE LET before == strings[i - 1]
                 arg    == process_malloc(before.table, before.process, 512)
             IN  IF before.ptr = NULL
                 THEN before
                 ELSE [table |-> arg.table, process |-> arg.process,
                       ptr |-> arg.ptr, args |-> Append(before.args, arg.ptr)]
      last == strings[argc]
  IN  [table   |-> last.table,
       process |-> IF argc = 0 \/ last.ptr = NULL
                   THEN last.process
                   ELSE [last.process EXCEPT !.argc = argc,
                                             !.argv = argv.ptr,
                                             !.args = last.args]]

-----------------------------------------------------------------------------
(* Loading *)

(* struct elf_file and the contents of the file. *)
elf_load(f) == <<BlockSize, f.size>>

task_new == <<BlockSize>> \o paging_new_4gb

process_map_memory(f, mem, stack) ==
  LET phys    == mem + f.offset
      program == paging_map_to(NoPages, "program",
                               paging_align_to_lower_page(phys),
                               paging_align_address(phys + f.memsz), TRUE)
  IN  paging_map_to(program.pages, "stack", stack,
                    paging_align_address(stack + BENOS_USER_PROGRAM_STACK_SIZE),
                    TRUE).pages

(***************************************************************************)
(* The sizes that process_load_for_slot allocates, in its order: the       *)
(* struct process, the ELF file, the stack and the task.                   *)
(***************************************************************************)
process_load_for_slot(f) == <<SizeofProcess>> \o elf_load(f)
                              \o <<BENOS_USER_PROGRAM_STACK_SIZE>> \o task_new

(* A process that was given these addresses. *)
LoadedProcess(f, addrs) ==
  [struct      |-> addrs[1],
   image       |-> f,
   file        |-> addrs[2],
   mem         |-> addrs[3],
   stack       |-> addrs[4],
   task        |-> addrs[5],
   dir         |-> SubSeq(addrs, 6, Len(addrs)),
   allocations |-> [i \in Slots |-> NoAllocation],
   pages       |-> process_map_memory(f, addrs[3], addrs[4]),
   argc        |-> 0,
   argv        |-> NULL,
   args        |-> <<>>]

NoProcess == [struct |-> NULL]

(***************************************************************************)
(* A load with an argument count of 0 injects none.  What                  *)
(* process_inject_args returns is not looked at.                           *)
(***************************************************************************)
Load(table, f, argc) ==
  LET new == kzallocAll(table, process_load_for_slot(f))
  IN  IF NULL \in Range(new.addrs)
      THEN [table |-> table, process |-> NoProcess]
      ELSE LET p == LoadedProcess(f, new.addrs)
           IN  IF argc = 0
               THEN [table |-> new.table, process |-> p]
               ELSE process_inject_args(new.table, p, argc)

(* A piece of memory: what it is, of which process, where and how long. *)
Piece(what, p, addr, size) ==
  [what |-> <<what, 0>>, of |-> p, addr |-> addr, size |-> size]

(* One of several of the same kind. *)
NthPiece(what, i, p, addr, size) ==
  [what |-> <<what, i>>, of |-> p, addr |-> addr, size |-> size]

-----------------------------------------------------------------------------
(* The boot and the system calls *)

(* kernel_main loads the same program twice, with an argument each. *)
Boot(f) ==
  LET kernel == kzallocAll(EmptyTable, [i \in 1..MaxOthers |-> BlockSize])
  IN  \E one \in {Load(kernel.table, f, 1)} :
      \E two \in {Load(one.table, f, 1)} :
        /\ NULL \notin Range(kernel.addrs)
        /\ NoProcess \notin {one.process, two.process}
        /\ entries = two.table
        /\ process = [p \in Processes |-> CASE p = 1 -> one.process
                                            [] p = 2 -> two.process
                                            [] OTHER -> NoProcess]
        /\ others = Range(kernel.addrs)

Init == /\ \E f \in Programs : Boot(f)
        /\ loaded = 2
        /\ alive = {1, 2}
        /\ curr_process = 2
        /\ lost = {}
        /\ status = "running"

(* System calls 6 (no arguments) and 7. *)
isr80h_process_load_start(f, argc) ==
  /\ status = "running"
  /\ loaded + 1 \in Processes
  /\ \E new \in {Load(entries, f, argc)} :
       /\ new.process # NoProcess
       /\ entries' = new.table
       /\ process' = [process EXCEPT ![loaded + 1] = new.process]
  /\ loaded' = loaded + 1
  /\ alive' = alive \cup {loaded'}
  /\ curr_process' = loaded'
  /\ UNCHANGED <<others, lost, status>>

(* No memory for the struct process.  What the error path frees is NULL,   *)
(* which clears a byte 4096 below the block table that nothing reads.      *)
LoadWithoutProcess == /\ status = "running"
                      /\ heap_malloc(entries, SizeofProcess).addr = NULL
                      /\ UNCHANGED vars

(***************************************************************************)
(* No memory for the stack: the struct process is freed, and the ELF file, *)
(* to which only it refers, is not.                                        *)
(***************************************************************************)
LoadWithoutStack(f) ==
  /\ status = "running"
  /\ loaded + 1 \in Processes
  /\ \E new \in {kzallocAll(entries, SubSeq(process_load_for_slot(f), 1, 4))} :
       /\ NULL \notin {new.addrs[1], new.addrs[2], new.addrs[3]}
       /\ new.addrs[4] = NULL
       /\ entries' = kfree(new.table, new.addrs[1])
       /\ lost' = lost \cup {Piece("file", loaded + 1, new.addrs[2], BlockSize),
                             Piece("mem", loaded + 1, new.addrs[3], f.size)}
  /\ loaded' = loaded + 1
  /\ UNCHANGED <<process, alive, curr_process, others, status>>

(***************************************************************************)
(* No memory for the ELF file, the task or its page directory: neither of  *)
(* the three is noticed by those who use what is not there.                *)
(***************************************************************************)
LoadGoesWild(f) ==
  /\ status = "running"
  /\ loaded + 1 \in Processes
  /\ \E new \in {kzallocAll(entries, process_load_for_slot(f)).addrs} :
       /\ new[1] # NULL
       /\ \/ NULL \in {new[2], new[3]}
          \/ new[4] # NULL /\ \E i \in 5..Len(new) : new[i] = NULL
  /\ status' = "wild"
  /\ UNCHANGED <<entries, process, loaded, alive, curr_process, others, lost>>

(***************************************************************************)
(* There is no such file, or it is not an ELF file: elf_load returns 0 all *)
(* the same, and the program that is not there is used.                    *)
(***************************************************************************)
LoadWithoutFile ==
  /\ status = "running"
  /\ loaded + 1 \in Processes
  /\ heap_malloc(entries, SizeofProcess).addr # NULL
  /\ status' = "wild"
  /\ UNCHANGED <<entries, process, loaded, alive, curr_process, others, lost>>

isr80h_command4_malloc(p, size) ==
  LET new == process_malloc(entries, process[p], size)
  IN  /\ status = "running"
      /\ p \in alive
      /\ entries' = new.table
      /\ process' = [process EXCEPT ![p] = new.process]
      /\ UNCHANGED <<loaded, alive, curr_process, others, lost, status>>

isr80h_command5_free(p, ptr) ==
  LET new == process_free(entries, process[p], ptr)
  IN  /\ status = "running"
      /\ p \in alive
      /\ entries' = new.table
      /\ process' = [process EXCEPT ![p] = new.process]
      /\ UNCHANGED <<loaded, alive, curr_process, others, lost, status>>

(* A variant of process_terminate that forgets the stack. *)
TerminateKeepsStack(table, p) ==
  LET done == process_terminate_allocations(table, p)
  IN  kfreeAll(done.table, <<p.mem, p.file>> \o p.dir \o <<p.task>>)

(* The struct process itself is not freed. *)
process_terminate(table, p) ==
  LET done == process_terminate_allocations(table, p)
  IN  kfreeAll(done.table, <<p.mem, p.file, p.stack>> \o p.dir \o <<p.task>>)

(***************************************************************************)
(* System call 9 and the handler of the exceptions.  When the process was  *)
(* the current one, process_switch_to_any finds no other one and panics.   *)
(***************************************************************************)
isr80h_command9_exit(p) ==
  /\ status = "running"
  /\ p \in alive
  /\ entries' = process_terminate(entries, process[p])
  /\ process' = [process EXCEPT ![p] = NoProcess]
  /\ alive' = alive \ {p}
  /\ lost' = lost \cup {Piece("struct", p, process[p].struct, SizeofProcess)}
  /\ status' = IF curr_process = p THEN "panic" ELSE "running"
  /\ UNCHANGED <<loaded, curr_process, others>>

(* What the kernel allocates for a while: files, paths, sectors. *)
KernelAlloc == LET new == heap_malloc(entries, BlockSize)
               IN  /\ status = "running"
                   /\ Cardinality(others) < MaxOthers
                   /\ new.addr # NULL
                   /\ entries' = new.table
                   /\ others' = others \cup {new.addr}
                   /\ UNCHANGED <<process, loaded, alive, curr_process, lost,
                                  status>>

KernelFree(addr) == /\ status = "running"
                    /\ addr \in others
                    /\ entries' = kfree(entries, addr)
                    /\ others' = others \ {addr}
                    /\ UNCHANGED <<process, loaded, alive, curr_process, lost,
                                   status>>

(* The pointers a program may pass to free: its own, and anybody's. *)
Pointers ==
  {NULL} \cup UNION {{process[q].allocations[i].ptr : i \in Slots} : q \in alive}

Next == \/ \E f \in Programs :
             \/ \E argc \in 0..MaxArgs : isr80h_process_load_start(f, argc)
             \/ LoadWithoutStack(f)
             \/ LoadGoesWild(f)
        \/ LoadWithoutProcess
        \/ LoadWithoutFile
        \/ \E p \in alive :
             \/ \E size \in Sizes : isr80h_command4_malloc(p, size)
             \/ \E ptr \in Pointers : isr80h_command5_free(p, ptr)
             \/ isr80h_command9_exit(p)
        \/ KernelAlloc
        \/ \E addr \in others : KernelFree(addr)

Spec == Init /\ [][Next]_vars

-----------------------------------------------------------------------------
(* Properties *)

Running == status = "running"

(* The pieces of process p, whose struct process is q: those that it can   *)
(* write, and those that the kernel has for it.                            *)
SlotPieces(p, q) ==
  {NthPiece("slot", i, p, q.allocations[i].ptr, q.allocations[i].size)
     : i \in {j \in Slots : q.allocations[j].ptr # NULL}}

UserPieces(p, q) ==
  {Piece("mem", p, q.mem, q.image.size),
   Piece("stack", p, q.stack, BENOS_USER_PROGRAM_STACK_SIZE)}
    \cup SlotPieces(p, q)

KernelPieces(p, q) ==
  {Piece("struct", p, q.struct, SizeofProcess),
   Piece("file", p, q.file, BlockSize),
   Piece("task", p, q.task, BlockSize)}
    \cup {NthPiece("dir", i, p, q.dir[i], BlockSize) : i \in DOMAIN q.dir}

OtherPieces == {Piece("other", 0, addr, BlockSize) : addr \in others}

Pieces == OtherPieces \cup lost
            \cup UNION {UserPieces(p, process[p]) \cup KernelPieces(p, process[p])
                          : p \in alive}

Extent(piece) == BlocksOf(piece.addr, piece.size)
Cover(pieces) == UNION {Extent(piece) : piece \in pieces}

Writable(q) == UNION {q.pages[r] : r \in Regions}

TypeOK == /\ entries \in [Blocks -> Entry]
          /\ loaded \in Processes
          /\ alive \subseteq 1..loaded
          /\ curr_process \in 1..loaded
          /\ status \in {"running", "panic", "wild"}
          /\ \A p \in alive :
               process[p].allocations \in [Slots -> [ptr : Nat, size : Nat]]

(***************************************************************************)
(* The heap and those who use it agree: a block is marked taken if and     *)
(* only if it belongs to something that lives or to something that was     *)
(* lost, and no block belongs to two things.  What is lost is the struct   *)
(* process of each process that ended and the ELF file of each load that   *)
(* found no room for the stack (process_malloc, process_free,              *)
(* process_terminate, process_load_for_slot).                              *)
(***************************************************************************)
MemoryAccounted ==
  LET pieces == Pieces
  IN  /\ {b \in Blocks : entries[b].taken} = Cover(pieces) \cap Blocks
      /\ \A one, other \in pieces :
           one # other => Extent(one) \cap Extent(other) = {}

(* The writable segment lies in the file, as the loader takes for granted. *)
SegmentsFit == \A f \in Programs : f.offset + f.memsz <= f.size

(***************************************************************************)
(* A process can write its program, its stack and exactly what it has      *)
(* malloced and not freed, and nothing that belongs to the kernel or to    *)
(* another process, even when a block changed hands since it was mapped    *)
(* (process_map_memory, process_malloc, process_free).                     *)
(***************************************************************************)
WritesItsOwn ==
  Running => \A p \in alive :
               LET own == UserPieces(p, process[p])
               IN  /\ process[p].pages["heap"] = Cover(SlotPieces(p, process[p]))
                   /\ Writable(process[p]) \subseteq Cover(own)
                   /\ Writable(process[p]) \cap Cover(Pieces \ own) = {}

(***************************************************************************)
(* A process starts with all of its arguments or with none: if it has any, *)
(* the array and each string are allocations of its own, all different,    *)
(* and it can write them (process_inject_args).                            *)
(***************************************************************************)
ArgumentsComplete ==
  [][\A p \in alive' \ alive :
       LET q == process'[p]
       IN  q.argc > 0 =>
             /\ Len(q.args) = q.argc
             /\ \A i, j \in 1..q.argc : q.args[i] = q.args[j] => i = j
             /\ \A i \in 1..q.argc : q.args[i] # q.argv
             /\ \A addr \in {q.argv} \cup {q.args[i] : i \in 1..q.argc} :
                  /\ \E s \in Slots : q.allocations[s].ptr = addr
                  /\ heap_address_to_block(addr) \in q.pages["heap"]]_vars

=============================================================================
