--------------------------- MODULE ContextSwitch ---------------------------
(***************************************************************************)
(* From a program into the kernel and back: src/idt/idt.asm and idt.c,     *)
(* src/task/task.asm and the part of task.c that saves a task, reads its   *)
(* memory and resumes it, and the system calls of src/isr80h as far as     *)
(* they choose how the program goes on.                                    *)
(*                                                                         *)
(* The kernel runs with interrupts disabled on a stack of its own, so that *)
(* there is one way in at a time. A value in a register says whose it is   *)
(* and of which register, and a program gives all its registers new values *)
(* at each step: a value that is lost, swapped or out of date shows.       *)
(* Which task is next is the subject of module Scheduler, here any.        *)
(***************************************************************************)
EXTENDS Integers, Sequences, Functions

CONSTANTS Tasks,    \* the numbers of the tasks there can be at a time
          Versions, \* of the values of a program
          Pages     \* the heap blocks that are handed out a page at a time

ASSUME ContextSwitchAssumption == /\ Tasks \subseteq Nat
                                  /\ 1 \in Tasks

-----------------------------------------------------------------------------
(* Values and registers *)

(* struct interrupt_frame: which word of the kernel stack a field is. *)
InterruptFrame ==
  [edi |-> 1, esi |-> 2, ebp |-> 3, reserved |-> 4, ebx |-> 5, edx |-> 6,
   ecx |-> 7, eax |-> 8, ip |-> 9, cs |-> 10, flags |-> 11, esp |-> 12,
   ss |-> 13]

(* struct registers, in the order of the fields *)
RegistersStruct == <<"edi", "esi", "ebp", "ebx", "edx", "ecx", "eax",
                     "ip", "cs", "flags", "esp", "ss">>
Names == Range(RegistersStruct)

Value(what, t, register, version) == <<what, t, register, version>>

KernelValue(register) == Value("kernel", 0, register, 0)
USER_CODE_SEGMENT == Value("selector", 0, "user code", 0)
USER_DATA_SEGMENT == Value("selector", 0, "user data", 0)
KERNEL_DATA_SELECTOR == Value("selector", 0, "kernel data", 0)
Result(n) == Value("result", 0, "eax", n)
Command(c) == Value("command", 0, c, 0)

(* The interrupt flag is bit 0x200 of the flags. *)
CliFlags == KernelValue("flags with interrupts disabled")
OrInterrupts(flags) == [flags EXCEPT ![3] = "flags"]
Enabled(flags) == flags[3] = "flags"

(* A program has the selectors of programs and sets the other registers. *)
ProgramRegisters(what, t, version) ==
  [r \in Names |-> CASE r = "cs" -> USER_CODE_SEGMENT
                     [] r = "ss" -> USER_DATA_SEGMENT
                     [] OTHER    -> Value(what, t, r, version)]

SetByUser == [t \in Tasks |-> [version \in Versions |->
                ProgramRegisters("task", t, version)]]

(* task_init, the fields of struct registers by name *)
FreshRegisters == [t \in Tasks |-> ProgramRegisters("new", t, 0)]

task_init(t) ==
  [n \in DOMAIN RegistersStruct |-> FreshRegisters[t][RegistersStruct[n]]]

(* What a program finds at an address, in the page directory dir. *)
StackItem(dir, esp) == <<"argument", dir, esp>>
StringAt(dir, addr) == <<"string", dir, addr>>
Garbage == <<"uninitialised">>

Nothing == <<"nothing">>
NoPage == -1
KernelDir == 0

Commands == {"print", "putchar", "malloc", "free", "load", "system",
             "exit", "other"}

VARIABLES
  pc,
  cpu,          \* registers, ds to gs in segs, page directory in cr3
  kstack,       \* the struct interrupt_frame on the kernel stack
  vector,       \* the interrupt: its kind, or "0x80"
  registers,    \* struct registers of each task, as a sequence
  current_task,
  live,         \* the tasks of the list
  owned,        \* the pages a process has allocated
  writable,     \* the pages of Pages its directory lets it write
  tmp,          \* the buffer of copy_string_from_task,
  old_entry,    \* what the directory said of it,
  buf,          \* and what it returned
  in_service,   \* the interrupt controller waits for the end of interrupt
  stopped       \* history: a task's registers when it last left off

vars == <<pc, cpu, kstack, vector, registers, current_task, live, owned,
          writable, tmp, old_entry, buf, in_service, stopped>>

memory == <<live, owned, writable>>
buffer == <<tmp, old_entry, buf>>

-----------------------------------------------------------------------------
(* The steps of the kernel's routines *)

kernel_page(c) == [c EXCEPT !.segs = KERNEL_DATA_SELECTOR, !.cr3 = KernelDir]

task_page(c, t) == [c EXCEPT !.segs = USER_DATA_SEGMENT, !.cr3 = t]

Field(frame, name) == frame[InterruptFrame[name]]

(* Variants: a struct without the field reserved; one register forgotten.  *)
SaveWithoutReserved(t, frame) == SubSeq(frame, 1, Len(RegistersStruct))

SaveAllButEsi(t, frame) ==
  [n \in DOMAIN RegistersStruct |->
     IF RegistersStruct[n] = "esi" THEN registers[t][n]
                                   ELSE Field(frame, RegistersStruct[n])]

task_save_state(t, frame) ==
  [n \in DOMAIN RegistersStruct |-> Field(frame, RegistersStruct[n])]

(* The word at a byte offset of a struct registers. *)
At(regs, offset) == regs[(offset \div 4) + 1]

(***************************************************************************)
(* task_return and restore_general_purpose_registers, by offset, on the    *)
(* processor c. The flags are those of the kernel, with interrupts on.     *)
(***************************************************************************)
task_return(c, regs) ==
  [regs |-> [edi |-> At(regs, 0), esi |-> At(regs, 4), ebp |-> At(regs, 8),
             ebx |-> At(regs, 12), edx |-> At(regs, 16), ecx |-> At(regs, 20),
             eax |-> At(regs, 24), ip |-> At(regs, 28), cs |-> At(regs, 32),
             flags |-> OrInterrupts(c.regs["flags"]),
             esp |-> At(regs, 40), ss |-> At(regs, 44)],
   segs |-> At(regs, 44),
   cr3  |-> c.cr3]

task_switch(c, t) == [c EXCEPT !.cr3 = t]

(* What stopped says is used up when a task goes on, or is no more. *)
GoesOn(t) == stopped' = [u \in Tasks |-> IF u \in live' \ {t}
                                        THEN stopped[u]
                                        ELSE FreshRegisters[u]]

(* task_switch and task_return, to a task whose registers are regs *)
Resume(t, regs) == /\ GoesOn(t)
                   /\ current_task' = t
                   /\ cpu' = task_return(task_switch(cpu, t), regs)
                   /\ kstack' = <<>>
                   /\ vector' = "none"
                   /\ pc' = "user"

task_next(tasks) == \E t \in tasks : Resume(t, registers[t])

(* Variant: the page directory of the task is not loaded. *)
StackItemOfKernel(c, t) == StackItem(c.cr3, At(registers[t], 40))

task_get_stack_item(c, t) ==
  StackItem(task_page(c, t).cr3, At(registers[t], 40))

-----------------------------------------------------------------------------

(* task_run_first_ever_task: the kernel jumps into the first task. *)
Init ==
  /\ live = {1}
  /\ current_task = 1
  /\ registers = [t \in Tasks |-> task_init(t)]
  /\ cpu = task_return([regs |-> [r \in Names |-> IF r = "flags" THEN CliFlags
                                                  ELSE KernelValue(r)],
                        segs |-> KERNEL_DATA_SELECTOR, cr3 |-> 1],
                       task_init(1))
  /\ stopped = FreshRegisters
  /\ kstack = <<>>
  /\ vector = "none"
  /\ owned = [t \in Tasks |-> {}]
  /\ writable = [t \in Tasks |-> {}]
  /\ tmp = NoPage /\ old_entry = FALSE /\ buf = Nothing
  /\ in_service = FALSE
  /\ pc = "user"

-----------------------------------------------------------------------------
(* The program and the processor *)

UserStep == /\ pc = "user"
            /\ \E v \in Versions :
                 cpu' = [cpu EXCEPT !.regs = SetByUser[current_task][v]]
            /\ UNCHANGED <<pc, kstack, vector, registers, current_task, memory,
                           buffer, in_service, stopped>>

(* What the processor and pushad push; some exceptions push an error code. *)
Pushed(r, code) ==
  <<r["edi"], r["esi"], r["ebp"], KernelValue("esp"), r["ebx"], r["edx"],
    r["ecx"], r["eax"]>> \o code
    \o <<r["ip"], r["cs"], r["flags"], r["esp"], r["ss"]>>

(* In through the gate of a vector, which disables interrupts. *)
Enter(kind, regs, code) ==
  /\ pc = "user"
  /\ vector' = kind
  /\ kstack' = Pushed(regs, code)
  /\ stopped' = [stopped EXCEPT ![current_task] = regs]
  /\ cpu' = [cpu EXCEPT !.regs = [r \in Names |->
                          IF r = "flags" THEN CliFlags ELSE KernelValue(r)]]
  /\ pc' = "entered"
  /\ buf' = Nothing
  /\ UNCHANGED <<registers, current_task, memory, tmp, old_entry>>

(* A device interrupts; it does not again before the end of interrupt. *)
DeviceInterrupts(kind) == /\ Enabled(cpu.regs["flags"])
                          /\ ~in_service
                          /\ Enter(kind, cpu.regs, <<>>)
                          /\ in_service' = TRUE

(* An exception of the program, with or without an error code. *)
Exception(code) == /\ Enter("exception", cpu.regs, code)
                   /\ UNCHANGED in_service

DivideError == /\ Enter("divide error", cpu.regs, <<>>)
               /\ UNCHANGED in_service

(* int 0x80 with a command in eax, and any other vector by int. *)
SystemCall(c) == /\ Enter("0x80", [cpu.regs EXCEPT !["eax"] = Command(c)], <<>>)
                 /\ UNCHANGED in_service

SoftwareInterrupt(kind) == /\ Enter(kind, cpu.regs, <<>>)
                           /\ UNCHANGED in_service

-----------------------------------------------------------------------------
(* interrupt_handler *)

HasCallback(kind) == kind \in {"clock", "keyboard", "exception"}

interrupt_handler ==
  /\ pc = "entered"
  /\ vector \in {"clock", "keyboard", "exception", "unused"}
  /\ cpu' = kernel_page(cpu)
  /\ IF HasCallback(vector)
     THEN /\ registers' = [registers EXCEPT ![current_task] =
                             task_save_state(current_task, kstack)]
          /\ pc' = "callback"
     ELSE /\ UNCHANGED registers
          /\ pc' = "leave"
  /\ UNCHANGED <<kstack, vector, current_task, memory, buffer,
                 in_service, stopped>>

(* Variant: no end of interrupt before the switch. *)
ClockWithoutEnd == /\ pc = "callback"
                   /\ vector = "clock"
                   /\ UNCHANGED <<registers, memory, buffer, in_service>>
                   /\ task_next(live)

(* outb(0x20, 0x20) and task_next: interrupt_handler is not returned to.   *)
idt_clock == /\ pc = "callback"
             /\ vector = "clock"
             /\ in_service' = FALSE
             /\ UNCHANGED <<registers, memory, buffer>>
             /\ task_next(live)

(* The release of a key returns early, before task_page. *)
classic_keyboard_handle_interrupt ==
  /\ pc = "callback"
  /\ vector = "keyboard"
  /\ cpu' \in {kernel_page(cpu), task_page(kernel_page(cpu), current_task)}
  /\ pc' = "leave"
  /\ UNCHANGED <<kstack, vector, registers, current_task, memory, buffer,
                 in_service, stopped>>

(***************************************************************************)
(* process_terminate of the current process, what concerns its task: the   *)
(* struct is freed, and a later task of the same number begins with        *)
(* task_init.                                                              *)
(***************************************************************************)
Terminated(t) == /\ live' = live \ {t}
                 /\ registers' = [registers EXCEPT ![t] = task_init(t)]
                 /\ owned' = [owned EXCEPT ![t] = {}]
                 /\ writable' = [writable EXCEPT ![t] = {}]

(* It is called by the handler of the exceptions and by system call 9.     *)
Ends == \/ pc = "callback" /\ vector = "exception"
        \/ pc = "command" /\ Field(kstack, "eax") = Command("exit")

(* idt_handle_exception and isr80h_command9_exit *)
TerminateAndNext == /\ Ends
                    /\ Terminated(current_task)
                    /\ task_next(live')
                    /\ UNCHANGED <<buffer, in_service>>

(***************************************************************************)
(* No task is left, or process_switch_to_any finds no process: module      *)
(* Scheduler says when. The kernel stops.                                  *)
(***************************************************************************)
TerminateAndPanic == /\ Ends
                     /\ Terminated(current_task)
                     /\ pc' = "panic"
                     /\ UNCHANGED <<cpu, kstack, vector, current_task, buffer,
                                    in_service, stopped>>

(* The end of interrupt_handler *)
interrupt_handler_end == /\ pc = "leave"
                         /\ cpu' = task_page(cpu, current_task)
                         /\ in_service' = FALSE
                         /\ pc' = "iret"
                         /\ UNCHANGED <<kstack, vector, registers, current_task,
                                        memory, buffer, stopped>>

(***************************************************************************)
(* The gate of vector 0 is the C function idt_zero. It ends with ret,      *)
(* which takes the ip of the program off the stack and goes on there with  *)
(* the rights of the kernel and the rest of the frame: this is not         *)
(* followed any further.                                                   *)
(***************************************************************************)
idt_zero == /\ pc = "entered"
            /\ vector = "divide error"
            /\ pc' = "wild"
            /\ UNCHANGED <<cpu, kstack, vector, registers, current_task, memory,
                           buffer, in_service, stopped>>

-----------------------------------------------------------------------------
(* System calls *)

isr80h_handler ==
  /\ pc = "entered"
  /\ vector = "0x80"
  /\ cpu' = kernel_page(cpu)
  /\ registers' = [registers EXCEPT ![current_task] =
                     task_save_state(current_task, kstack)]
  /\ pc' = "command"
  /\ UNCHANGED <<kstack, vector, current_task, memory, buffer,
                 in_service, stopped>>

Calls(c) == pc = "command" /\ Field(kstack, "eax") = Command(c)

(* A command returns res, in eax as C functions do. *)
Returns(res) == /\ cpu' = [cpu EXCEPT !.regs["eax"] = res]
                /\ pc' = "return"
                /\ UNCHANGED <<kstack, vector, registers, current_task,
                               in_service, stopped>>

Free == Pages \ ({tmp} \cup UNION Range(owned))

isr80h_command3_putchar == /\ Calls("putchar")
                           /\ buf' = task_get_stack_item(cpu, current_task)
                           /\ Returns(Result(0))
                           /\ UNCHANGED <<memory, tmp, old_entry>>

isr80h_command4_malloc ==
  /\ Calls("malloc")
  /\ \/ /\ Returns(Result(0))
        /\ UNCHANGED memory
     \/ /\ Returns(Result(1))
        /\ \E page \in Free :
             /\ owned' = [owned EXCEPT ![current_task] = @ \cup {page}]
             /\ writable' = [writable EXCEPT ![current_task] = @ \cup {page}]
        /\ UNCHANGED live
  /\ UNCHANGED buffer

isr80h_command5_free ==
  /\ Calls("free")
  /\ Returns(Result(0))
  /\ \E pages \in {{}} \cup {{page} : page \in owned[current_task]} :
       /\ owned' = [owned EXCEPT ![current_task] = @ \ pages]
       /\ writable' = [writable EXCEPT ![current_task] = @ \ pages]
  /\ UNCHANGED <<live, buffer>>

(* Commands 2, a key or 0, and 8, and the numbers without a command *)
isr80h_other_command == /\ Calls("other")
                        /\ \E n \in {0, 1} : Returns(Result(n))
                        /\ UNCHANGED <<memory, buffer>>

(* Commands 1 and 6 copy a string of the program. *)
CallsWithString == Calls("print") \/ Calls("load")

(***************************************************************************)
(* copy_string_from_task without memory: print shows whatever is in its    *)
(* buffer, and command 6 returns 0.                                        *)
(***************************************************************************)
CopyWithoutMemory == /\ CallsWithString
                     /\ buf' = Garbage
                     /\ Returns(Result(0))
                     /\ UNCHANGED <<memory, tmp, old_entry>>

(* The buffer is mapped in the directory of the task, which is loaded.     *)
CopyBegin ==
  /\ CallsWithString
  /\ \E page \in Free :
       /\ tmp' = page
       /\ old_entry' = (page \in writable[current_task])
       /\ writable' = [writable EXCEPT ![current_task] = @ \cup {page}]
  /\ cpu' = task_switch(cpu, current_task)
  /\ pc' = "copy"
  /\ UNCHANGED <<kstack, vector, registers, current_task, live, owned, buf,
                 in_service, stopped>>

(* strncpy(tmp, virt, max) and kernel_page *)
CopyString ==
  /\ pc = "copy"
  /\ buf' = StringAt(cpu.cr3, task_get_stack_item(cpu, current_task))
  /\ cpu' = kernel_page(cpu)
  /\ pc' = "copied"
  /\ UNCHANGED <<kstack, vector, registers, current_task, memory, tmp,
                 old_entry, in_service, stopped>>

(* The old entry is put back, the buffer freed, and the command goes on.   *)
CopyEnd ==
  /\ pc = "copied"
  /\ writable' = IF old_entry
                 THEN writable
                 ELSE [writable EXCEPT ![current_task] = @ \ {tmp}]
  /\ tmp' = NoPage
  /\ cpu' = [cpu EXCEPT !.regs["eax"] = Result(0)]
  /\ pc' = IF Field(kstack, "eax") = Command("print") THEN "return" ELSE "load"
  /\ UNCHANGED <<kstack, vector, registers, current_task, live, owned,
                 old_entry, buf, in_service, stopped>>

(* Command 7 reads the words where they are, at their physical address.    *)
isr80h_command7_invoke_system_command ==
  /\ Calls("system")
  /\ buf' = StringAt(current_task, task_get_stack_item(cpu, current_task))
  /\ pc' = "load"
  /\ UNCHANGED <<cpu, kstack, vector, registers, current_task, memory, tmp,
                 old_entry, in_service, stopped>>

(* Commands 6 and 7: the new program runs, with pages for its arguments,   *)
(* and the caller stays where it is until its turn comes.                  *)
LoadAndSwitch ==
  /\ pc = "load"
  /\ \E t \in Tasks \ live : \E pages \in SUBSET Free :
       /\ live' = live \cup {t}
       /\ registers' = [registers EXCEPT ![t] = task_init(t)]
       /\ owned' = [owned EXCEPT ![t] = pages]
       /\ writable' = [writable EXCEPT ![t] = pages]
       /\ Resume(t, task_init(t))
  /\ UNCHANGED <<buffer, in_service>>

(* Command 6 returns 0 all the same, command 7 an error. *)
LoadFails == /\ pc = "load"
             /\ Returns(Result(IF Field(kstack, "eax") = Command("load")
                               THEN 0 ELSE 1))
             /\ UNCHANGED <<memory, buffer>>

isr80h_handler_end == /\ pc = "return"
                      /\ cpu' = task_page(cpu, current_task)
                      /\ pc' = "iret"
                      /\ UNCHANGED <<kstack, vector, registers, current_task,
                                     memory, buffer, in_service,
                                     stopped>>

(* popad and iret; isr80h_wrapper keeps its result in tmp_res meanwhile. *)
iret ==
  /\ pc = "iret"
  /\ cpu' = [cpu EXCEPT !.regs = [r \in Names |->
               IF r = "eax" /\ vector = "0x80" THEN cpu.regs["eax"]
                                               ELSE Field(kstack, r)]]
  /\ kstack' = <<>>
  /\ vector' = "none"
  /\ pc' = "user"
  /\ UNCHANGED <<registers, current_task, memory, buffer, in_service>>
  /\ GoesOn(current_task)

Next ==
  \/ UserStep
  \/ \E kind \in {"clock", "keyboard", "unused"} :
       DeviceInterrupts(kind) \/ SoftwareInterrupt(kind)
  \/ \E code \in {<<>>, <<Value("error code", 0, "", 0)>>} : Exception(code)
  \/ DivideError
  \/ \E c \in Commands : SystemCall(c)
  \/ interrupt_handler
  \/ idt_clock
  \/ classic_keyboard_handle_interrupt
  \/ TerminateAndNext
  \/ TerminateAndPanic
  \/ interrupt_handler_end
  \/ idt_zero
  \/ isr80h_handler
  \/ isr80h_command3_putchar
  \/ isr80h_command4_malloc
  \/ isr80h_command5_free
  \/ isr80h_other_command
  \/ CopyWithoutMemory
  \/ CopyBegin
  \/ CopyString
  \/ CopyEnd
  \/ isr80h_command7_invoke_system_command
  \/ LoadAndSwitch
  \/ LoadFails
  \/ isr80h_handler_end
  \/ iret

Spec == Init /\ [][Next]_vars

-----------------------------------------------------------------------------
(* Properties *)

(* What register r may hold when a program runs or is stopped. *)
ValuesOf ==
  [r \in Names |->
     CASE r = "cs" -> {USER_CODE_SEGMENT}
       [] r = "ss" -> {USER_DATA_SEGMENT}
       [] OTHER -> {Value("task", t, r, v) : t \in Tasks, v \in Versions}
                     \cup {Value("new", t, r, 0) : t \in Tasks}
                     \cup (IF r = "flags" THEN {OrInterrupts(CliFlags)} ELSE {})
                     \cup (IF r = "eax" THEN {Command(c) : c \in Commands}
                              \cup {Result(n) : n \in {0, 1}} ELSE {})]

(* The task an exception ends: an error code may have shifted its frame. *)
Doomed == {t \in {current_task} : pc = "callback" /\ vector = "exception"}

(* No register is ever saved or loaded with the value of another one. *)
TypeOK ==
  /\ live \subseteq Tasks
  /\ current_task \in Tasks
  /\ \A t \in live \ Doomed : \A n \in DOMAIN RegistersStruct :
       registers[t][n] \in ValuesOf[RegistersStruct[n]]
  /\ pc = "user" => \A r \in Names : cpu.regs[r] \in ValuesOf[r]
  /\ \A t \in Tasks : owned[t] \subseteq Pages /\ writable[t] \subseteq Pages

(***************************************************************************)
(* A program goes on with the registers it had when it stopped, however    *)
(* many others ran in between, a new one with those of a new task, and     *)
(* after a system call that comes back eax is its result. Only its flags   *)
(* are not restored when it was another one's turn: task_return takes      *)
(* those of the kernel (task_save_state, task_return, iret and the macro   *)
(* interrupt of idt.asm).                                                  *)
(***************************************************************************)
ResumesAsStopped ==
  [][pc # "user" /\ pc' = "user" =>
       LET before == IF current_task' \in live
                     THEN stopped[current_task']
                     ELSE FreshRegisters[current_task']
       IN  \A r \in Names :
             cpu'.regs[r] = CASE r = "flags" /\ pc # "iret" -> cpu'.regs[r]
                              [] r = "eax" /\ pc = "iret" /\ vector = "0x80"
                                   -> cpu.regs["eax"]
                              [] OTHER -> before[r]]_vars

(***************************************************************************)
(* When a program runs, it is one that lives, with the segments of a       *)
(* program, its own page directory and interrupts enabled, no device waits *)
(* for the end of an interrupt, and no program can write a page it does    *)
(* not own, not even the one a string was copied through. Nothing but a    *)
(* divide error leads out of this (kernel_page, task_page, task_next,      *)
(* copy_string_from_task, idt_clock, interrupt_handler, idt_zero).         *)
(***************************************************************************)
UserRunsAsUser ==
  /\ pc = "user" =>
       /\ current_task \in live
       /\ cpu.regs["cs"] = USER_CODE_SEGMENT
       /\ cpu.segs = USER_DATA_SEGMENT
       /\ cpu.cr3 = current_task
       /\ Enabled(cpu.regs["flags"])
       /\ ~in_service
       /\ \A t \in live : writable[t] = owned[t]
  /\ pc = "wild" => vector = "divide error"

(***************************************************************************)
(* What a system call reads of its caller is what the caller's own page    *)
(* directory and stack pointer lead to, as they were when it called - or,  *)
(* when there is no memory for the copy, nothing of anybody's              *)
(* (task_get_stack_item, copy_string_from_task, task_virt_addr_to_phys).   *)
(***************************************************************************)
ReadsCallersMemory ==
  pc \in {"return", "load"} /\ buf \notin {Nothing, Garbage} =>
    LET argument == StackItem(current_task, stopped[current_task]["esp"])
    IN  buf = IF Field(kstack, "eax") = Command("putchar")
              THEN argument
              ELSE StringAt(current_task, argument)

=============================================================================
