# benOS in TLA+

benOS is a 32-bit x86 hobby kernel: a block-based heap, paging, user processes
with round-robin scheduling, a keyboard, a read-only FAT16 file system, an ELF
loader and eleven system calls. This directory holds TLA+ modules translated
from its C sources, TLC configurations that check them on small instances, and
proofs checked by TLAPS. Paths below are relative to the repository, so that
`src/task/process.c` is the C file of the kernel.

## 1. Inventory

| Component | State | Operations | Used by |
|---|---|---|---|
| kernel heap (`src/memory/heap`) | one entry byte per block | kmalloc, kzalloc, kfree | everything |
| paging (`src/memory/paging`) | 1024 page tables per directory | new, free, map, switch | tasks, processes |
| tasks (`src/task/task.c`) | doubly linked list, `current_task`, saved registers | new, free, next, switch, save, return | processes, interrupts |
| processes (`src/task/process.c`) | process table, current process, allocations, arguments | load, terminate, malloc, free, inject arguments | system calls, `kernel_main` |
| keyboard (`src/keyboard`) | ring buffer per process, caps lock | push (interrupt 0x21), pop (system call 2) | programs |
| interrupts (`src/idt`) | callback and command tables | dispatch, clock, exceptions | hardware |
| system calls (`src/isr80h`) | none of their own | commands 0 to 9 | programs |
| ELF loader (`src/loader`) | image of the file | load, close, segment addresses | processes |
| terminal (`src/kernel.c`) | cursor, video memory | writechar, backspace, print | kernel, system calls 1 and 3 |
| files (`src/fs/file.c`) | descriptor table | open, close, read, seek, stat | ELF loader |
| FAT16 (`src/fs/fat/fat16.c`) | root directory, streams | resolve, open, read, seek | files |
| path parser (`src/fs/pparser.c`) | none | parse | files |
| disk, streamer (`src/disk`) | stream position | seek, read | FAT16 |
| context switch (`src/task/task.asm`, `src/idt/idt.asm`) | kernel stack, struct registers | enter, save, resume, return | interrupts, system calls |
| segments, TSS, boot | written once | - | boot |
| user library (`programs/stdlib`) | strtok position | readline, strtok, command line parser | shell |
| shell (`programs/shell`) | the line, the arguments | prompt, read, run | user |

**How they interact.** A key press, a clock tick, an exception or `int 0x80`
enters the kernel through a gate that clears the interrupt flag (system calls
start with `cli` besides). The handler runs to its end and returns to a task
with interrupts enabled. So a handler is atomic with respect to the others, and
the interleaving that matters is the order of whole handlers: any task can be
preempted between two of its system calls, the process that runs is in general
not the one that has the keyboard, and every kzalloc competes for the blocks
that were freed before. The heap, the task list and the current process are
shared by all handlers.

**What is hard.** Long mixes of mallocs and frees; pointers that outlive what
they point to (the task list has one); operations that fail half-way and what
they leave behind; two notions of the current process; rings, tables and the
heap when they are full; arithmetic at 0 and at the end of a buffer.
`PROJECT.json` lists each hazard at its line, with the properties that cover it.

**What makes each component correct.**
- heap: no two allocations share a block, the table and its flags describe
  exactly what is allocated, a free frees what the malloc took;
- tasks: the list contains the live tasks, each once, in load order; nobody
  starves; the scheduler never runs a task that was freed;
- processes: every block has one owner, what a process owned comes back when it
  ends, a process writes only to what it owns, arguments are complete;
- keyboard: a key is read once, in order, by the process it was typed to;
- terminal: what was printed is what is on the screen;
- shell: the line that is run is the line that is seen, and its words reach the
  program;
- ELF loader and paging: each byte of a segment is where the file says, and a
  program can write its file and its stack and nothing else;
- files: a path leads to its file, reading follows the cluster chain, positions
  stay in the file, what is opened can be closed;
- context switch: a task resumes with the registers it was stopped with, as a
  program and in its own memory; a system call reads the memory of its caller.

## 2. Modules

| Module | Models | Builds on |
|---|---|---|
| `Allocator` | abstract: a set of disjoint regions that are acquired and released | - |
| `HeapTable` | `heap.c`: operators on a block table | - |
| `Heap` | `kheap.c`: users malloc and free in any order; implements `Allocator` | `HeapTable` |
| `HeapScan` | the loops of `heap.c`, step by step, on every table | `HeapTable` |
| `TaskRing` | operators on the task list of `task.c` | - |
| `Scheduler` | load, clock, exit and exceptions; process table, focus | `TaskRing` |
| `ProcessMemory` | what a load, malloc, free and exit do to the heap and to page directories | `HeapTable` |
| `KeyQueue` | abstract: a queue of keys per process | - |
| `Keyboard` | scan codes, ring buffers, focus, getkey; implements `KeyQueue` | `KeyQueue` |
| `ContextSwitch` | interrupts, system calls, saving and resuming of tasks, `copy_string_from_task` | - |
| `ElfImage` | program headers of an ELF file, page tables, the mapping of a process | - |
| `Terminal` | cursor and screen of `kernel.c`: operators and the actions `print` and `putchar` | - |
| `Shell` | the shell, readline, strtok and the command line parser, on the terminal | `Terminal` |
| `FatRead` | one `fat16_read` on the bytes of a disk: members, chunks, cluster chain, sectors | - |
| `FileSystem` | fopen step by step, fread, fseek, fstat, fclose: paths, directories, descriptors, memory | - |

Theorems about `Heap`, `HeapScan`, `Scheduler`, `ProcessMemory`, `Keyboard`,
`ContextSwitch`, `FatRead` and `FileSystem` are in `HeapProofs`,
`HeapScanProofs`, `SchedulerProofs`, `ProcessMemoryProofs`, `KeyboardProofs`,
`ContextSwitchProofs`, `FatReadProofs` and `FileSystemProofs`, each of which
extends the module it is about and TLAPS.

`MC*` modules instantiate them for TLC; each `.cfg` belongs to one run of
`PROJECT.json`.

Two modules abstract from what others model. `Scheduler` and `FileSystem` have
one block per object and no sizes; `Heap` and `ProcessMemory` have sizes.
`FileSystem` takes directories as sequences of entries and leaves the bytes of
files to `FatRead`. What a directory gives behind its first cluster is any
entries of the disk, or an error, or a hang (`Contents`, `find_dir`,
`find_dir_hangs`): the walk that `FatRead` models in detail goes wrong there.

### Heap
`entries` is `kernel_heap_table.entries` with the three flag bits of a byte as
booleans. `held` is what a pointer variable of the kernel holds. Addresses are
the machine's (`0x01000000 + 4096 * block`); `WordSize` stands for 2^32, where
the rounding of a size wraps, and is smaller in the runs because TLC's integers
have 32 bits: 65536, or 2^25 where addresses are to fit (`process_memory`). `heap_get_start_block` is written as what the scan finds: the
lowest run that is long enough, or else the free run at the end of the table,
however short. `HeapScan` has the loop itself: its initial states are every
table of five entries with every request, and its runs compare what the loops
of `heap_get_start_block`, `heap_mark_blocks_taken` and `heap_mark_blocks_free`
leave with the definitions that the other modules use.

### Scheduler
`ring` holds `task_head`, `task_tail`, `current_task` and the memory of the
tasks; `block` says whether a block holds a task, something else, or nothing.
A freed task keeps its fields until its block is given to another object, as it
does in the code. `process_enter` is the assignment of process.c:471, which
writes to `process[process_slot]` instead of `processes[process_slot]`: with
the caller's variable in place of the table, the table stays empty. Following a
pointer to something that is not a task ends the behaviour in the status
`"wild"`; the endless loop of `panic` is the status `"panic"`; a failed
`task_new`, which frees NULL, is `"nomem"`. The status is where the model stops,
because what such a system does next is not in its source. `alive`, `loaded`
and `damaged` are history for the properties.

### ProcessMemory
The struct process, the two blocks of the ELF file, the stack, the task and its
page directory are separate allocations of `HeapTable`, made in the order of
`process_load_for_slot`, and each failure is an action of its own: no struct
process (a clean -ENOMEM), no stack (the ELF file is lost), no ELF file, task or
page directory, and a file that is missing or not ELF (address 0 is used as an
object: `"wild"`). A page directory is the set of blocks it maps writable in
each of three virtual ranges: program, stack, and heap, which is mapped at its
own addresses. Every page is readable by every process (`task_init` asks for
that), so that only write access is modelled, and of a program only its
writable segment. Allocations that the file system makes and frees during a
load are represented by `others`, blocks that come and go; three of them per
load (the parsed path) are never freed by the code.
The task order of `Scheduler` is abstracted: any live process makes the next
system call. A loop over allocations (of a page directory, of the slots of a
process, of the arguments) is a function from the number of its rounds to what
they leave. Addresses are numbers: `AddressesAssumption` keeps what a program
may ask for below the point where an address wraps.

### Keyboard
`head` and `tail` of the ring are the unbounded ints of the source, the index
is taken modulo the size on use, `curr_process` is whose ring a key goes to and
`running` whose ring getkey reads. The byte behind the scan table, reachable by
the off-by-one of classic.c:45, is any of `AfterSet`.

### ContextSwitch
A value in a register is a record of where it comes from: a task, a register and
a version, the kernel, a selector, a result. A program gives all its registers
new values at any step, so that a register that is swapped, lost or out of date
cannot go unnoticed. `InterruptFrame` and `RegistersStruct` are the two structs,
one from fields to words of the stack and one from words to fields, in their
order in the headers; `Pushed` is the stack as
the processor and `pushad` leave it, `task_save_state` copies by name, and
`task_return` reads by byte offset, as the assembly does: an order that differs
between the four is an error that the model has. An error code that some
exceptions push shifts the frame; those tasks are never resumed.
The kernel runs with interrupts disabled, so that there is one entry at a time,
but a handler is several steps: entry, save, command or callback, return. The
copy of a string has the mapping, the copy and the restoring of the entry apart.
Which task is next is any of those that live: `Scheduler` says which. Of the
commands there is what concerns registers and memory. `in_service` is the
interrupt controller, which is silent until the end of interrupt (external).
`idt_zero`, the gate of the divide error, is a C function that ends with `ret`:
what the processor does next is `"wild"`. `stopped` is history.

### ElfImage
One file is loaded: the validation and the bounds of its program headers, then
`process_map_memory` header by header. The page tables are functions from
directory and table indexes to entries, an address is a number below the product
of their sizes, and all sums are modulo that, as they are modulo 2^32 in the
code. What the file asks for (`Footprint`, `Alone`, `InFile`) is defined on byte
addresses, without page tables. `process_map_binary` is called for every file,
with a size of 0 and a pointer that was set through a union: that nothing is
mapped by it is a result, not an assumption. The memory is that of
`ProcessMemory`, whose load this refines: there a segment is the set of blocks
it makes writable.

### Terminal and Shell
`Terminal` has two `uint16_t` and the cells of the screen, and next to them
`page`, the reference: a page as one line of cells with a cursor. `ordinary`
says that nothing was printed yet that is known to lead the terminal astray.
`Shell` is the one process whose own steps are modelled. What it does between
two system calls is private and one step. Arrays are functions on their indexes
and pointers into them are indexes, so that strtok writes its terminators into
the copy of the line and `sp` outlives the call, as it does in the code. The
keys come from anywhere (`Keyboard` says which), and other processes print in
between. `cut` and `stale` are history: an argument found no memory in this
line, or in the one before.

### FatRead
The geometry is that of a struct fat_header, and the state the local variables
of `fat16_read`, `fat16_read_internal_from_stream`,
`fat16_get_cluster_for_offset` and `diskstreamer_read`: `FollowChain` is an
iteration of the walk along the chain, which starts again at the first cluster
for every chunk, `SeekChunk` positions the stream, `ReadSector` is a level of
the streamer's recursion over sectors. `FatEntryPosition` has the product of fat16.c:347,
modulo 2^32. A disk never answers for a sector that it does not have and
`disk_read_sector` polls without a limit: `"hang"`. One request per behaviour
is enough, since a read keeps nothing but the position of streams that the next
one sets again.

### FileSystem
`heap` maps a block to the object in it, and a step of fopen is one iteration
of one of its loops, with the allocations of that iteration in the order of the
code: the root of the parsed path, each part, the descriptor of the file
system, the search of a directory entry by entry, the item that is found, the
descriptor of the table. kzalloc takes the first free block, so that freed
blocks come back as something else. The other calls are one step each.
`call` holds the variables of fopen and of what it calls; `call.found` survives
the rest of the search, as fat16.c:529 does not break out of its loop.
`find_dir` is `fat16_load_fat_dir` with both of its failures: without memory for
the entries (fat16.c:491), and when they cannot be read (fat16.c:497), it frees
the directory and returns it. The second needs no shortage: a directory with
more than `ClusterEntries` entries makes `fat16_read_internal` follow the chain
of fat16.c:347, which leads to an error (`"not read"`), to a sector that does
not exist, or to some other cluster (`"long directory"`), and the model takes
each of the three. The array of an empty directory is `kzalloc(0)`, an address
in the free end of the heap that nobody reserves: the directory has it as
`stray`, and freeing it is harmless only while nobody else has come to own it
(`FreesStray`). Where
the code uses NULL or freed memory as an object the behaviour ends with
pc = `"wild"`. Two things are collapsed: a parsed path, once fopen has returned,
is only blocks that stay taken (kind `"path"`), and all error codes are -1.
`mishaps` is history for the properties. `fat16_resolve` is the mount at boot,
with what it leaves allocated whether it succeeds or not.
`Named` is the reference for the search: what a path names, by its slashes and
the entries of the directories, without blocks or loops.

## 3. Runs

| Run | Bounds | What it shows |
|---|---|---|
| `heap` | 8 blocks, 5 pointers, sizes of 1, 1, 2 and 3 blocks | types; no overlap; table exact; implements `Allocator` |
| `heap_scan` | every table of 5 entries, every request | the loops compute what `HeapTable` defines; free undoes malloc; they end |
| `scheduler` | 4 blocks, 6 loads, table of 2 | the list is sound while no stale pointer was written through; keys go to the newest process; nothing else leads astray; under fairness of the clock each live process runs again |
| `process_memory` | 22 blocks, 3 loads, 2 slots, up to 2 arguments, sizes of 0 and 2 blocks | one owner per block; pages written are owned; all arguments or none |
| `keyboard` | see `MCKeyboard` | buffers sound; implements `KeyQueue` until an overrun |
| `context_switch` | 2 tasks at a time, any number in all, 2 versions, 2 pages | each task goes on with its own registers, memory and rights; system calls read the memory of their caller |
| `elf_image` | pages of 2 bytes, 4 by 4 entries, files of 2 pages with 2 headers | segments and stack are in place; nothing else can be written |
| `shell` | screen of 4 x 6, lines of 4, words of 2, 7 keys, 3 lines, 3 arguments in all | the screen shows what was printed; the line run is the line seen; its words reach system call 7 |
| `fat_read` | sectors of 4 bytes, clusters of 2 sectors, 18 disks, up to 3 members of up to 24 bytes | reads that stay in the first cluster are right; a buffer gets what was asked for and no more; a read ends or hangs |
| `file_system` | 25 blocks, 2 descriptors, 4 opens, 11 paths, 4 volumes, 1 entry in a cluster | what is opened is what the path names; table and objects sound; only parsed paths leak; nothing but a failed allocation, a failed read of a directory or a missing directory leads astray; fopen returns |

Why the bounds are enough: the heap run has room for a hole of every relevant
length between two allocations, for a run that ends with the table and for a
table that is full. Three tasks are needed for a stale `prev`, two exits for
the harm; six loads give all orders of these.
In `process_memory` the third load does not fit unless something ended or was
freed, so that every failure of a load is reached, and a block of an ended or
freeing process is given to another one; with two slots the injection of two
arguments fails half-way. The
keyboard's buffer is smaller than the number of keys, so that the indexes wrap
and overrun. In `fat_read` a chunk starts at the beginning, inside and at the
last byte of a cluster and ends before, at and after the end of one and of a
sector, and the word that is wrongly read as a table entry takes a value of
every sort. In `file_system` the second descriptor is the last of the table, one
open more finds the table full, and four opens with their lost paths take all 25
blocks, so that an allocation fails wherever one can (that of the file system's
descriptor cannot, as the parser has just freed a block). The directory below
the root has one entry, or a second one that is behind its only cluster, or one
behind a deleted entry, or none, so that a directory is loaded whole, is read
with other entries at its end, fails to be read while memory lasts, makes the
disk hang, and has no array. One excuse of `OnlyMishapsHarm` is beyond the
bounds (about half a million states as they are): that the unreserved array of
an *open* empty directory was given to another object (`StrayTaken`) takes a
fifth open and a third descriptor, as the addresses below it have to be used up
first. The theorem covers it.
In `context_switch` a third task would add names only: what a task can lose, it
loses to one other, and numbers are used again after an exit. The two pages can
belong to the caller, to the other task or to nobody when a string is copied. In
`elf_image` the headers begin and end on and off a page, in one table or across
two, take no byte, some, or more than the file has, overlap one another or the
stack, and the mapping of the first may be refused. The seven keys of `shell`
make a full line, an erased one or three words. Memory may be gone at any
argument: when it is in the first line, the second is read with a stale `sp` and
the third must be right again. The screen holds three short lines and is left by
longer ones.

`CHECK_DEADLOCK FALSE` is given where the system really stops: after a panic or
a wild pointer, when a disk does not answer, when the one call that is modelled
has returned (`HeapScan`, `FatRead`, `ElfImage`), and in `Shell` when the bound on
the lines or keys is reached.

**Fairness.** `LoopsEnd`, `ReadEnds` and `FopenReturns` say that loops end: weak
fairness of their steps, since the kernel runs with interrupts disabled until it
returns. No fairness is assumed of who calls it, or of the disk.
`EveryoneRuns` needs weak fairness of `idt_clock`.
Tasks are entered with the interrupt flag set (`task_return` ors 0x200 into the
flags) and no handler waits for anything, so that the timer interrupts again and
again. Nothing is assumed of programs: a process may never exit.

### Disagreements with comments and notes
Each is a run that TLC finds violated:
- `scheduler_panic`: "no processes left" while processes live (process.c:153).
- `fat_chain`: a read past the first cluster of a file does not return the file,
  because the position of a table entry is a product where it should be a sum
  (fat16.c:347, against the comment at fat16.c:363). `BufferExact` and
  `FirstClusterReads` hold all the same.

Seen, but without a run of its own:
- A request is granted from a free run at the end of the pool that is too short
  (heap.c:88; quicknotes.md:72: "we also need to find an entry with a free block
  next to it"). It reaches past the pool, and `LoopsMatchDefinitions` and
  `HeapNoOverlap` hold all the same.
- A .bss longer than the rest of the file makes what lies behind the file
  writable (process.c:351; quicknotes.md:90: "never writing over eachother"), and
  it is not zeroed: the condition `InFile` of `WritesFileAndStack`.
- A task that lost its turn is resumed with the flags of the kernel (task.asm:24;
  task.h:32: "registers of the task when the task isn't running"): the exception
  `flags` of `ResumesAsStopped`.
- A divide error enters the kernel without a frame and returns with `ret`
  (idt.c:75), the exception of `UserRunsAsUser`.
- The result of process_map_elf is overwritten (process.c:372), and headers of
  any type are mapped: the conditions of `ImageIsTheFile`.
- When there is no memory to copy the string, system call 1 prints an
  uninitialised buffer (io.c:10): `Garbage` in `ReadsCallersMemory`.
- After a backspace on an empty line the prompt is erased and the line holds the
  backspace (benos.c:69); after 1024 arguments the shell can run no program any
  more, as it frees none (benos.c:18), and the line after the one that was cut
  short is read from where strtok was left: the conditions of `LineIsWhatIsSeen`
  and `WordsReachTheSystem`.
- malloc(0) returns a block that is not reserved (quicknotes.md:55: an
  address from malloc is at least 4096 bytes in size).
- `prev` of a task is not "previous task in linked list" (task.h:41) after the
  one before it ended, and through it `current_task` can become a task that was
  freed (task.c:13); `OnlyStalePointersHarm` and `ListSound` say when.
- getkey returns 0 after an overrun, as if nothing were waiting
  (keyboard.c:78); hence the condition in `ImplementsKeyQueue`.
- A backspace at the start of a line leaves the cursor in column 65535, and
  nothing scrolls (kernel.c:39, 54): the condition `ordinary` of
  `ShowsWhatWasPrinted`.
- fopen returns 0 on failure where a comment says that it returns a positive
  number (file.c:161); fread does not advance the position and does not look at
  whether it reads a directory; the last descriptor is taken for an invalid one
  (file.c:77), so that what it opens can never be closed; SEEK_CUR checks the
  distance and not where it leads (`PositionInFile`).
- "0:/d//x" opens d. A deleted entry hides the last entry of its directory,
  since the count leaves it out and the search does not (fat16.c:175). A file
  in the middle of a path, and a full table, lose what was opened. No parsed
  path is ever freed, so that some 8500 opens, at three blocks each, exhaust the
  heap.
- A cluster chain of FAT16 ends with 0xFFF8 to 0xFFFF; the code compares with
  0xFF8 and 0xFFF (fat16.c:372), the marks of FAT12, and takes the others for
  clusters. A chunk that crosses the end of a cluster goes on in the next one on
  the disk, not in the chain.

## 4. Proofs

Eight components have theorems, for every value of the constants that the
assumptions in the modules admit: the inductive invariant of each, the safety
invariants that the runs check, as `Spec => []Inv`, the action properties
`ResumesAsStopped`, `ArgumentsComplete` and `OpensWhatIsNamed`, and that `Heap`
implements `Allocator` and `Keyboard` implements `KeyQueue`.

| Module | Theorems | Assumptions |
|---|---|---|
| `HeapProofs` | `HeapInvariant`, `HeapTypeCorrect`, `HeapNoOverlap`, `HeapTableExact`, `HeapImplementsAllocator` | `PositiveRequests` |
| `HeapScanProofs` | `LoopInvariant`, `LoopsCompute`, `FreeIsInverse` | `ScanAssumption`: tables of entries the heap writes |
| `SchedulerProofs` | `SchedulerInvariant`, `SchedulerTypeCorrect`, `KeyboardFollowsLoads`, `HarmNeedsTwoExits`, `TaskListSound` | `SchedulerAssumption`: two processes or more, NULL is no address |
| `ProcessMemoryProofs` | `MemoryInvariant`, `MemoryTypes`, `EveryBlockAccounted`, `ProcessesWriteTheirOwn`, `ArgumentsAreComplete` | `ProcessAssumption`: programs are not empty, the boot loads two processes with an argument each; `AddressesAssumption`: no address wraps; `ProcessesWriteTheirOwn` also `SegmentsFit`: a segment lies in its file |
| `KeyboardProofs` | `KeyboardInvariant`, `KeyboardTypeCorrect`, `KeyboardBufferSound`, `KeyboardImplementsKeyQueue` | `KeyboardAssumption`: characters are bytes |
| `ContextSwitchProofs` | `SwitchInvariant`, `SwitchTypeCorrect`, `ProgramsAreConfined`, `CallersAreRead`, `ProgramsResume` | `ContextSwitchAssumption`: tasks are numbered from 1 |
| `FatReadProofs` | `ReadInvariant`, `ReadTypeCorrect`, `ReadBufferExact`, `ReadsWithoutTable` | `GeometryAssumption`, `RequestsAssumption`: whole sectors of bytes; nothing of size 0 is read, which fread refuses; `ReadsWithoutTable` also `SoundVolume`: the root directory fills its sectors, the disk goes on behind its last cluster, no position wraps |
| `FileSystemProofs` | `FilesInvariant`, `FilesTypeCorrect`, `DescriptorsSound`, `PositionsInFile`, `GoesWildOnlyUnfound`, `PathsAloneLeak`, `OnlyTheUnfoundGoesWild`, `OpensTheNamed` | `FileSystemAssumption`: a heap of six blocks for the boot, an entry or more in a cluster; `VolumesAssumption`: entries of directories lead to directories; the last three also `UniqueNames`, and `OpensTheNamed` also `DeletedUnnamed` |

All of them are modest: TLC evaluates each in a passing run.
`PositiveRequests` says that every size rounds to at least one block. Sizes of
0, and those that wrap to 0, do not, and the theorems about `Heap` are false for
them: such a malloc returns a block without taking it. `HeapScan` has these
sizes, and its theorems hold for them.

### The arguments

*Heap.* `HeapInv` is `TypeOK /\ WellPlaced /\ NoOverlap /\ TableExact`.
No part is inductive alone. That a malloc overlaps nothing needs `TableExact`,
since the scan only sees the table. That a free clears the blocks of its
allocation and no others needs the flags, since `heap_mark_blocks_free` follows
the has-next chain; and that the chain describes an allocation needs
`NoOverlap`, or another allocation could have overwritten the flags. The lemmas
`StartBlock` and `MarkTypes` state what the scan and the marking return,
`KmallocEffect` and `KfreeEffect` what the two actions do to the table and to
the handles, and `KmallocPreserves` and `KfreePreserves` take the conjuncts of
the invariant one by one. A short run at the end of the pool makes no exception:
an allocation that reaches past the pool has the last entry taken, and so is
alone there. For the refinement, `RegionEnds` and `RegionsOfHandles` show that
the regions of the table are exactly the extents of the handles, cut off at the
end of the pool; then a malloc is an `Acquire` and a free a `Release`.

*Heap scan.* `LoopInv` is a loop invariant with a part for each loop: `ScanInv`
(no run that begins before the one that is being counted is long enough, and the
counted one begins behind a taken block), `MarkInv` (the blocks up to `i` are as
`heap_mark_blocks_taken` says, the others as before) and `FreeInv` (the blocks
up to `i` were a chain and are free). `FirstFit`, `TrailingRun` and `NoRun`
recognise the result of `heap_get_start_block` at the three ends of the scan. So
the definitions that the other modules use stand for the loops on tables of
every length and not only of five entries.

*Scheduler.* The invariant has two halves. `Linked` holds until the system
stops, whatever was written: every live process has one task, the tail is that
of the last load, no other task has a `next` that is NULL, and the `prev` of a
task is that of the process loaded just before, if that one still lives.
`InOrder`, that the list has the live tasks in the order of their loads, holds
until a stale `prev` was written through (`damaged`). One exit makes a pointer
stale, a later one writes through it: that this takes two exits is
`StrayNeedsEarlierExit`. `NewTaskLinked` and `RemovedTaskLinked` are about
`TaskRing` alone.

*Process memory.* `MemoryInv` has one notion at its centre: `Exact(table,
pieces)`, the table is that of a heap with these pieces of memory, each of which
begins and ends where the flags say, apart from all the others. `HeapExact` says
it of all the pieces there are: of each live process its program, stack, slots,
struct process, ELF file, task and page directory, what the kernel holds, and
what is lost. `AllSound` is about one process: its slots are empty or hold a
size that is not 0, and the pages mapped for the heap are the blocks of its
slots and no others. The first needs the second, since a free unmaps and frees
by the size in the slot, and the second the first: when a block is unmapped, no
other slot may have it. That `process_malloc` of 0 bytes never returns a block
that was not taken (`heap_malloc` does) is because its pages cannot be mapped,
`RequestBlocks`.
The lemmas go from one allocation (`MallocTakes`, `FreeReturns`, `EmptyRequest`)
to a row of them (`AllocAll`, `FreeAll`), to `process_malloc` and `process_free`
with their pages (`ProcessMalloc`, `ProcessFree`), to a whole load
(`LoadSucceeds`, `LoadLeavesFile`: what a load without room for the stack does
not give back) and a whole exit (`ProcessTerminate`). The loops are functions of
the number of rounds, and what they do is shown by induction on that number
(`InductionTo`, from the least element of a set of counterexamples). An exit
frees the blocks of a page directory one by one and is right because
`TerminateAddresses` shows that it names each piece of the process once, but for
the struct process. `ArgumentsComplete` is about the last state of the loop in
`process_inject_args`: as each string is an allocation more, its address is
different from those before (`OneMoreString`).

*Keyboard.* `KeyboardInv` is `TypeOK /\ BufferSound`, which is
inductive as it stands. What is behind it is arithmetic: `SlotsDiffer`, that
positions less than a buffer apart have different slots, so that a push writes
on an empty slot unless the ring is full (`TailSlotTaken`). A first attempt
failed since `Characters` lacked what the lower-casing makes of the bytes behind
the scan table (classic.c:45): the definition was wrong, as TLC's instance has
no such byte. For the refinement, a push is a `Push` of the abstract queue and a
pop a `Pop` as long as the process was not overrun.

*Context switch.* `SwitchInv` says for every point of the kernel whose registers
are where: for a task that does not run, in its struct registers; for the one
that has entered, on the kernel stack in the order of the pushes, and after
`task_save_state` in both (`TasksInv`, `CpuInv`, `FrameInv`). `MemoryInv` says
what a program can write: the pages it owns and, until the copy is over, the page
that a copy of its string opens; `BufferInv` what the buffer of a copy holds. The lemmas
`SaveIsPacked` and `ReturnLoads` put the four orders of the registers together:
what was pushed, saved by name and loaded by offset is what it was.

*Reads of files.* `ReadInv` accounts for every byte: what has been written, what
the stream has yet to deliver for the chunk, and what the member still lacks add
up to the members read. Nothing is said of the clusters, so that it holds on
every disk, with any table and any chain. The sector arithmetic is
`SectorOnDisk`: the rest of a sector that has begun is on the disk.

What a read returns is `RunInv`: as long as no chunk starts behind the first
cluster, the table is not looked up, and what has been written is one run of
bytes of the disk, from where the request starts. `RequestIsRun` says that these
are the bytes of the file: the chain of clusters (`ChainExists`,
`ChainOfRequest`) begins with the first cluster and, when the last member
reaches into a second one, goes on with its neighbour on the disk. The
hypotheses in `SoundVolume` are conditions of the code. `fat16_get_root_dir`
rounds the size of the root directory down where the volume begins its data on
the next sector (`DataIsFound`); a chunk that ends with a sector has the stream
look for one more; and positions have 32 bits. The instance satisfies them
(`VolumeAssumption` in MCFatRead).

*Files.* An object is freed by following pointers, from a slot of
`file_descriptors` to its descriptor, the descriptor of the file system, the
item, the entry or directory, and the array of a directory. `FilesInv` says who
owns what along them: `SlotsInv` and `CallInv` (an open file and the call of
fopen have a descriptor and an item to themselves), `DirsInv` (so has a
directory its array), and `ItemsInv`: an item that will be freed has what it
points to to itself, until an allocation or the read of a directory fails
(`Intact`). That pointer alone can dangle, since fat16_load_fat_dir frees a
directory that it then returns in these two cases, the second of which can meet
any directory longer than a cluster while there is plenty of memory: the other
parts hold all the same. An empty directory has no array of its own, so nothing
is claimed of the address it has for one; when that address has become
somebody's (`StrayTaken`), to free the directory frees what is not its own, and
`OnlyMishapsHarm` has this as an excuse of its own. `call.dir` is the odd
one: it is the directory of `call.curr` during a search, and after it points to
what was freed, which nobody looks at before it is set again. `PathInv` keeps
the parsed path, and `PositionInv` also says that nobody has moved the position
of a file that is being opened. The lemmas `FileStays`, `ItemsStay`, `DirsStay`
and `PositionsStay` say what survives a step that leaves some blocks alone;
`FreeingStays` is the one that makes fclose and the walk safe: with an item go
its own blocks only. `GoesWildOnlyUnfound` is the part of `OnlyMishapsHarm` that
needs no reference to what the path names, and no hypothesis: it leaves the two
failures, the taken array, and a call that did not find what it looked for.

That nothing is lost but paths is the converse: not that what is owned is
allocated, but that what is allocated is owned. `NothingLost` accounts for
every block by its kind (`Accounted`): a file descriptor is in the table, a
descriptor of the file system behind it or in the call, an item behind that or
in the call, and what is behind an item belongs to one. A step replaces some
blocks (`Replaced`), and `UsedStays` says once what it must show: who loses a
block passes on, or frees, what it led to. Every failure of fopen has to be
looked at: between a part that was not found and the end of the call nothing
but the descriptor is held. The theorem has a hypothesis, `UniqueNames`: when
fat16_find_item_in_dir finds an entry it goes on (fat16.c:529 does not leave
the loop), and a second entry of the same name would take the place of the
first item, which nobody frees then. A directory longer than a cluster can have
such a second entry whatever the volume, as its end is that of another: `DirsInv`
says that none was loaded while `mishaps` is empty. So `Passed` carries through the search
that what was found has the name looked for and lies behind (`FoundOnce`), and
`Texts` that this name is still there. The files of a FAT16 directory have
different names, but the code does not see to it, and its array of items also
has deleted entries, whose names could be the same; such a name starts with
the byte 0xE5, so no path that a program would write finds one. The instance
satisfies the hypothesis (`NamesAssumption` in MCFileSystem).

*What a path names.* `OnlyMishapsHarm` and `OpensWhatIsNamed` compare the search
with a definition that knows nothing of it: `Names` cuts the path at its slashes
up to the first empty name, and `EntryOf` looks up one name after the other
among the entries that are not deleted. `SearchInv` relates the two at every
step:
- *The parsed path.* While the parser runs (`Parsed`), the list in memory is
  that of the names between the slashes before its position, and none of them
  was empty; what is left of the path begins behind that slash. The k-th slash
  is the one with k - 1 before it (`Rank`), so that the next name is the one
  that `PartLength` measures. When the parser stops the list is all of them
  (`Whole`), which only the first empty name or the end of the path does.
- *The search for a name.* `Reached` is the sequence of entries that the names
  lead to. While fat16_find_item_in_dir runs (`Seeking`), it is in the directory
  that the names before lead to. What it has found is the entry of that name;
  as long as it has found nothing, no entry behind it has that name. It counts
  the entries that are not deleted and looks at as many from the first on, so it
  sees them all only where none is deleted (`AllAreCounted`): in a volume with
  deleted entries, that nothing was found proves nothing.
- *The way from one to the next.* Between two searches (`Walking`) the item in
  `call.curr` is for the entry reached so far (`Represents`), or it is NULL and
  there is no such entry. At the end the item is for the entry that the path
  names, which is what fopen stores behind the descriptor. Where that entry is a
  directory it is no longer than a cluster (`Fits`), so that what was loaded are
  its entries.

All of this holds as long as no allocation of the call failed, the call loaded
no directory longer than a cluster (`call.astray` otherwise), and no deleted
entry can be taken for another (`Trusted`). The statements say nothing of what
is opened below or as a longer directory, and they cannot: an entry behind the
first cluster is not found, or another is found in its place, and the directory
itself opens as one that may have been freed. The condition on deleted entries
is the second hypothesis, `DeletedUnnamed`: fat16_find_item_in_dir compares the
name of a deleted entry like any other, and a path with the byte 0xE5 in it
could find one. Without it `OpensWhatIsNamed` would be false, whereas
`OnlyMishapsHarm` excuses deleted entries.

### What is only model-checked
- Liveness under fairness: `EveryoneRuns`, `LoopsEnd`, `ReadEnds`,
  `FopenReturns`. The prover does not handle fairness.
- `Terminal` and `ElfImage`, whose operators are folds over characters and
  program headers, and `Shell`, which works on the terminal.

## 5. What is not modelled, and why
- Segments and the task state segment: constants written once at boot. With the
  selectors they define, `ContextSwitch` takes for granted that the processor
  changes to the kernel stack at 0x600000. It does so with the page directory
  of the program, so that a program of more than 2 MB would have its own pages
  there: this is not considered.
- The rest of the user library (printf, itoa, the wrappers of the system calls)
  and `blank.c`, which prints and loops: no state.
- Section headers and string tables of ELF files, which nothing reads.
- The bytes of directories and of the boot sector (`FileSystem` has entries, and
  a root directory without a terminating entry, which is read past its buffer
  at fat16.c:164, has no counterpart), and the helpers on strings and memory
  other than those for file names.
- Errors that the disk itself reports: `disk_read_sector` does not look for any
  and cannot fail. The errors of the kernel's own walk along the chain of
  clusters are modelled where files (`FatRead`) and directories (`FileSystem`)
  are read; the sectors of the mount and of the count of a directory's entries
  are read without that walk.
- Descriptor tables, the boot sector, ports: written once or pure I/O.
- The flat binary format: `elf_load` always returns 0, so the code that would
  load one (process.c:327) is never reached.
- What happens after address 0 or a dangling pointer was used as an object.
- Concurrency inside a handler: there is none, the interrupt flag is clear.

## 6. Plan
Done, in this order: heap and its proofs, tasks and scheduling, keyboard,
process memory, terminal, reads of files, file system, context switch, ELF image
and page tables, shell and user library. Next, the most valuable first:

1. A composition of `Scheduler` and `Keyboard` with one current process between
   them, in place of the any task and any process that each has of the other.
2. Directories as bytes in `FatRead`, for the root directory that is read past
   its end.
3. printf and itoa, as operators against the digits of a number.

Theorems to prove next: type correctness of `Shell`; `WritesFileAndStack` of
`ElfImage`, for one header, then for a list of them.
