------------------------- MODULE ContextSwitchProofs -------------------------
(***************************************************************************)
(* Theorems about the way from a program into the kernel and back (module  *)
(* ContextSwitch): with any number of tasks and whatever values programs   *)
(* put into their registers, each goes on as it stopped, and the kernel    *)
(* reads the memory of the one that called.                                *)
(*                                                                         *)
(* The first part is what the structures of registers have in common: a    *)
(* register saved from the kernel stack and loaded from struct registers   *)
(* is the register it was. The second is the inductive invariant, which    *)
(* says for every point of the kernel whose registers are where.           *)
(***************************************************************************)
EXTENDS ContextSwitch, SequenceTheorems, TLAPS

-----------------------------------------------------------------------------
(* Registers in structures. *)

NamesSet == {"edi", "esi", "ebp", "ebx", "edx", "ecx", "eax", "ip", "cs",
             "flags", "esp", "ss"}

(* The struct registers of a program whose registers are f. *)
Packed(f) == <<f["edi"], f["esi"], f["ebp"], f["ebx"], f["edx"], f["ecx"],
               f["eax"], f["ip"], f["cs"], f["flags"], f["esp"], f["ss"]>>

(* Twelve registers have a field in struct registers.                      *)
LEMMA NamesAre == Names = NamesSet
BY DEF Names, Range, RegistersStruct, NamesSet

(* The fields of a struct registers, by number.                            *)
LEMMA RegistersAre ==
  /\ DOMAIN RegistersStruct = 1..12
  /\ \A f, k : k \in 1..12 => Packed(f)[k] = f[RegistersStruct[k]]
  /\ \A f : DOMAIN Packed(f) = 1..12
  /\ \A k \in 1..12 : RegistersStruct[k] \in Names
<1>1. DOMAIN RegistersStruct = 1..12
  BY DEF RegistersStruct
<1>2. ASSUME NEW f, NEW k \in 1..12
      PROVE  Packed(f)[k] = f[RegistersStruct[k]]
  BY DEF Packed, RegistersStruct
<1>3. \A f : DOMAIN Packed(f) = 1..12
  BY DEF Packed
<1>4. \A k \in 1..12 : RegistersStruct[k] \in Names
  BY NamesAre DEF RegistersStruct, NamesSet
<1> QED
  BY <1>1, <1>2, <1>3, <1>4

(* What is saved by name is the struct.                                    *)
LEMMA SavedByName ==
  ASSUME NEW f
  PROVE  [k \in DOMAIN RegistersStruct |-> f[RegistersStruct[k]]] = Packed(f)
BY RegistersAre DEF Packed, RegistersStruct

(* The interrupt frame, when there is no error code in it.                 *)
LEMMA FrameIs ==
  ASSUME NEW f, NEW frame, frame = Pushed(f, <<>>)
  PROVE  /\ frame[1] = f["edi"]
         /\ frame[2] = f["esi"]
         /\ frame[3] = f["ebp"]
         /\ frame[5] = f["ebx"]
         /\ frame[6] = f["edx"]
         /\ frame[7] = f["ecx"]
         /\ frame[8] = f["eax"]
         /\ frame[9] = f["ip"]
         /\ frame[10] = f["cs"]
         /\ frame[11] = f["flags"]
         /\ frame[12] = f["esp"]
         /\ frame[13] = f["ss"]
BY DEF Pushed

(* Every register is found in it where struct interrupt_frame says.        *)
LEMMA FieldOfFrame ==
  ASSUME NEW f, NEW r \in Names
  PROVE  Field(Pushed(f, <<>>), r) = f[r]
<1>1. r \in NamesSet
  BY NamesAre
<1>2. PICK frame : frame = Pushed(f, <<>>)
  OBVIOUS
<1>3. frame[InterruptFrame[r]] = f[r]
  BY <1>1, <1>2, FrameIs DEF InterruptFrame, NamesSet
<1> QED
  BY <1>2, <1>3, Zenon DEF Field

(* task_save_state saves the registers of the interrupted program.         *)
LEMMA SaveIsPacked ==
  ASSUME NEW t, NEW f
  PROVE  task_save_state(t, Pushed(f, <<>>)) = Packed(f)
<1>1. \A k \in 1..12 : Field(Pushed(f, <<>>), RegistersStruct[k])
                         = f[RegistersStruct[k]]
  BY RegistersAre, FieldOfFrame
<1>2. task_save_state(t, Pushed(f, <<>>))
        = [k \in DOMAIN RegistersStruct |-> f[RegistersStruct[k]]]
  BY <1>1, RegistersAre DEF task_save_state
<1> QED
  BY <1>2, SavedByName

(* A new task has the struct of the registers of a new program.            *)
LEMMA InitIsPacked ==
  ASSUME NEW t
  PROVE  task_init(t) = Packed(FreshRegisters[t])
BY SavedByName DEF task_init

(* task_return loads every register but the flags from its own field.      *)
LEMMA ReturnLoads ==
  ASSUME NEW c, NEW f
  PROVE  LET d == task_return(c, Packed(f))
         IN  /\ d.regs = [r \in Names |-> IF r = "flags"
                                          THEN OrInterrupts(c.regs["flags"])
                                          ELSE f[r]]
             /\ d.segs = f["ss"]
             /\ d.cr3 = c.cr3
<1>1. /\ At(Packed(f), 0) = f["edi"]
      /\ At(Packed(f), 4) = f["esi"]
      /\ At(Packed(f), 8) = f["ebp"]
      /\ At(Packed(f), 12) = f["ebx"]
      /\ At(Packed(f), 16) = f["edx"]
      /\ At(Packed(f), 20) = f["ecx"]
      /\ At(Packed(f), 24) = f["eax"]
      /\ At(Packed(f), 28) = f["ip"]
      /\ At(Packed(f), 32) = f["cs"]
      /\ At(Packed(f), 40) = f["esp"]
      /\ At(Packed(f), 44) = f["ss"]
  BY DEF At, Packed
<1>2. task_return(c, Packed(f)).regs =
        [edi |-> f["edi"], esi |-> f["esi"], ebp |-> f["ebp"],
         ebx |-> f["ebx"], edx |-> f["edx"], ecx |-> f["ecx"],
         eax |-> f["eax"], ip |-> f["ip"], cs |-> f["cs"],
         flags |-> OrInterrupts(c.regs["flags"]),
         esp |-> f["esp"], ss |-> f["ss"]]
  BY <1>1 DEF task_return
<1>3. task_return(c, Packed(f)).regs =
        [r \in NamesSet |-> IF r = "flags" THEN OrInterrupts(c.regs["flags"])
                                           ELSE f[r]]
  BY <1>2 DEF NamesSet
<1> QED
  BY <1>1, <1>3, NamesAre DEF task_return

-----------------------------------------------------------------------------
(* The invariant. *)

IsRegisters(f) == /\ f = [r \in Names |-> f[r]]
                  /\ \A r \in Names : f[r] \in ValuesOf[r]

IsStruct(s) == \A k \in 1..12 : s[k] \in ValuesOf[RegistersStruct[k]]

IsCpu(c) == /\ c = [regs |-> c.regs, segs |-> c.segs, cr3 |-> c.cr3]
            /\ c.regs = [r \in Names |-> c.regs[r]]

(* The task's registers are saved as they were when it stopped. *)
Saved(t) == registers[t] = Packed(stopped[t])

SystemCallPoints == {"command", "copy", "copied", "load", "return"}
KernelPoints == SystemCallPoints \cup {"entered", "callback", "leave", "iret"}

(* The tasks that are not running are saved. *)
TasksInv ==
  /\ live \subseteq Tasks
  /\ current_task \in Tasks
  /\ registers = [t \in Tasks |-> registers[t]]
  /\ stopped = [t \in Tasks |-> stopped[t]]
  /\ \A t \in Tasks : IsRegisters(stopped[t])
  /\ \A t \in live \ {current_task} : Saved(t)
  /\ current_task \in live \ Doomed => IsStruct(registers[current_task])

(* The processor: whose registers, segments and page directory it has. *)
CpuInv ==
  /\ IsCpu(cpu)
  /\ pc = "user" => IsRegisters(cpu.regs)
  /\ pc \in {"user", "iret"} => /\ cpu.segs = USER_DATA_SEGMENT
                                /\ cpu.cr3 = current_task
  /\ pc = "copy" => cpu.cr3 = current_task
  /\ pc \in KernelPoints => cpu.regs["flags"] = CliFlags
  /\ pc = "return" \/ (pc = "iret" /\ vector = "0x80")
       => cpu.regs["eax"] \in {Result(0), Result(1)}

(* Where the kernel is, what brought it there and what the program that it *)
(* was brought from had in its registers.                                  *)
FrameInv ==
  /\ pc \in {"user", "wild", "panic"} \cup KernelPoints
  /\ pc \in {"user"} \cup KernelPoints => current_task \in live
  /\ pc \in KernelPoints /\ vector # "exception" =>
       kstack = Pushed(stopped[current_task], <<>>)
  /\ pc \in SystemCallPoints => vector = "0x80"
  /\ pc = "callback" => vector \in {"clock", "keyboard", "exception"}
  /\ pc = "leave" => vector \in {"keyboard", "unused"}
  /\ pc = "iret" => vector \in {"keyboard", "unused", "0x80"}
  /\ pc = "wild" => vector = "divide error"
  /\ \/ pc \in SystemCallPoints
     \/ pc = "callback" /\ vector # "exception"
     => Saved(current_task)
  /\ in_service => /\ pc \in {"entered", "callback", "leave"}
                   /\ vector \in {"clock", "keyboard", "unused"}

(* A program can write the pages it owns, and while a string is copied the *)
(* page of the copy.                                                       *)
MemoryInv ==
  /\ owned \in [Tasks -> SUBSET Pages]
  /\ writable \in [Tasks -> SUBSET Pages]
  /\ pc \notin {"copy", "copied"} \/ old_entry => writable = owned
  /\ pc \in {"copy", "copied"} /\ ~old_entry =>
       /\ tmp \notin owned[current_task]
       /\ writable = [owned EXCEPT ![current_task] = @ \cup {tmp}]

(* The word on top of the stack of the program that called. *)
Argument == StackItem(current_task, stopped[current_task]["esp"])

(* What a system call has read. *)
BufferInv ==
  /\ pc \in {"entered", "command", "copy"} => buf = Nothing
  /\ pc \in {"copy", "copied"} => Field(kstack, "eax") # Command("putchar")
  /\ pc = "copied" => buf = StringAt(current_task, Argument)
  /\ pc \in {"return", "load"} =>
       \/ buf \in {Nothing, Garbage}
       \/ buf = IF Field(kstack, "eax") = Command("putchar")
                THEN Argument
                ELSE StringAt(current_task, Argument)

SwitchInv == TasksInv /\ CpuInv /\ FrameInv /\ MemoryInv /\ BufferInv

-----------------------------------------------------------------------------
(* The values of registers. *)

(* The selectors are those of programs, and interrupts are enabled.        *)
LEMMA ValuesAre ==
  /\ \A v \in ValuesOf["cs"] : v = USER_CODE_SEGMENT
  /\ \A v \in ValuesOf["ss"] : v = USER_DATA_SEGMENT
  /\ \A v \in ValuesOf["flags"] : Enabled(v)
<1>1. "cs" \in Names /\ "ss" \in Names /\ "flags" \in Names
  BY NamesAre DEF NamesSet
<1>2. /\ ValuesOf["cs"] = {USER_CODE_SEGMENT}
      /\ ValuesOf["ss"] = {USER_DATA_SEGMENT}
  BY <1>1 DEF ValuesOf
<1>3. ValuesOf["flags"] = {Value("task", t, "flags", v) :
                             t \in Tasks, v \in Versions}
                            \cup {Value("new", t, "flags", 0) : t \in Tasks}
                            \cup {OrInterrupts(CliFlags)}
  BY <1>1 DEF ValuesOf
<1>4. \A what, t, v : Enabled(Value(what, t, "flags", v))
  BY DEF Enabled, Value
<1>5. Enabled(OrInterrupts(CliFlags))
  BY DEF Enabled, OrInterrupts, CliFlags, KernelValue, Value
<1>6. \A v \in ValuesOf["flags"] : Enabled(v)
  BY <1>3, <1>4, <1>5
<1> QED
  BY <1>2, <1>6

(* What is put into registers is of the values of the register.            *)
LEMMA ValuesHave ==
  /\ OrInterrupts(CliFlags) \in ValuesOf["flags"]
  /\ \A c \in Commands : Command(c) \in ValuesOf["eax"]
  /\ \A k \in {0, 1} : Result(k) \in ValuesOf["eax"]
<1>1. "eax" \in Names /\ "flags" \in Names
  BY NamesAre DEF NamesSet
<1>2. OrInterrupts(CliFlags) \in ValuesOf["flags"]
  BY <1>1 DEF ValuesOf
<1>3. ASSUME NEW c \in Commands
      PROVE  Command(c) \in ValuesOf["eax"]
  BY <1>1 DEF ValuesOf
<1>4. ASSUME NEW k \in {0, 1}
      PROVE  Result(k) \in ValuesOf["eax"]
  BY <1>1 DEF ValuesOf
<1> QED
  BY <1>2, <1>3, <1>4

(* The registers a program sets, and those of a new program.               *)
LEMMA ProgramHasRegisters ==
  ASSUME NEW what, NEW t \in Tasks, NEW version,
         \/ what = "new" /\ version = 0
         \/ what = "task" /\ version \in Versions
  PROVE  IsRegisters(ProgramRegisters(what, t, version))
<1> DEFINE f == ProgramRegisters(what, t, version)
<1>1. ASSUME NEW r \in Names
      PROVE  f[r] \in ValuesOf[r]
  <2>1. CASE r = "cs" \/ r = "ss"
    BY <2>1 DEF ProgramRegisters, ValuesOf
  <2>2. CASE r # "cs" /\ r # "ss"
    <3>1. f[r] = Value(what, t, r, version)
      BY <2>2 DEF ProgramRegisters
    <3>2. \A w : w \in {Value("task", u, r, v) : u \in Tasks, v \in Versions}
                          \cup {Value("new", u, r, 0) : u \in Tasks}
                   => w \in ValuesOf[r]
      BY <2>2 DEF ValuesOf
    <3> QED
      BY <3>1, <3>2
  <2> QED
    BY <2>1, <2>2
<1>2. f = [r \in Names |-> f[r]]
  BY DEF ProgramRegisters
<1> QED
  BY <1>1, <1>2 DEF IsRegisters

(* Whatever task begins, it begins with values of the registers.           *)
LEMMA FreshHaveRegisters ==
  ASSUME NEW t \in Tasks
  PROVE  IsRegisters(FreshRegisters[t])
BY ProgramHasRegisters DEF FreshRegisters

(* The struct registers of a program has the values of its fields.         *)
LEMMA PackedIsStruct ==
  ASSUME NEW f, IsRegisters(f)
  PROVE  IsStruct(Packed(f))
BY RegistersAre DEF IsStruct, IsRegisters

(* The commands are different. *)
LEMMA CommandsDiffer ==
  ASSUME NEW c, NEW d, c # d
  PROVE  Command(c) # Command(d)
BY DEF Command, Value

-----------------------------------------------------------------------------
(* The processor. *)

(* kernel_page, task_page and task_switch leave the registers alone.       *)
LEMMA PagesKeepRegisters ==
  ASSUME NEW c, IsCpu(c), NEW t
  PROVE  /\ IsCpu(kernel_page(c)) /\ kernel_page(c).regs = c.regs
         /\ IsCpu(task_page(c, t)) /\ task_page(c, t).regs = c.regs
         /\ task_page(c, t).segs = USER_DATA_SEGMENT /\ task_page(c, t).cr3 = t
         /\ IsCpu(task_switch(c, t)) /\ task_switch(c, t).regs = c.regs
         /\ task_switch(c, t).cr3 = t
<1>1. PICK regs, segs, cr3 : c = [regs |-> regs, segs |-> segs, cr3 |-> cr3]
  BY DEF IsCpu
<1>2. regs = [r \in Names |-> regs[r]]
  BY <1>1 DEF IsCpu
<1>3. kernel_page(c) = [regs |-> regs, segs |-> KERNEL_DATA_SELECTOR,
                        cr3 |-> KernelDir]
  <2>1. PICK d : d = [c EXCEPT !.segs = KERNEL_DATA_SELECTOR]
    OBVIOUS
  <2>2. d = [regs |-> regs, segs |-> KERNEL_DATA_SELECTOR, cr3 |-> cr3]
    BY <1>1, <2>1
  <2>3. kernel_page(c) = [d EXCEPT !.cr3 = KernelDir]
    BY <1>1, <2>1 DEF kernel_page
  <2> QED
    BY <2>2, <2>3
<1>4. task_page(c, t) = [regs |-> regs, segs |-> USER_DATA_SEGMENT, cr3 |-> t]
  <2>1. PICK d : d = [c EXCEPT !.segs = USER_DATA_SEGMENT]
    OBVIOUS
  <2>2. d = [regs |-> regs, segs |-> USER_DATA_SEGMENT, cr3 |-> cr3]
    BY <1>1, <2>1
  <2>3. task_page(c, t) = [d EXCEPT !.cr3 = t]
    BY <1>1, <2>1 DEF task_page
  <2> QED
    BY <2>2, <2>3
<1>5. task_switch(c, t) = [regs |-> regs, segs |-> segs, cr3 |-> t]
  BY <1>1 DEF task_switch
<1> QED
  BY <1>1, <1>2, <1>3, <1>4, <1>5 DEF IsCpu

(* Other registers on the same processor.                                  *)
LEMMA RegistersSet ==
  ASSUME NEW c, IsCpu(c), NEW f, f = [r \in Names |-> f[r]]
  PROVE  LET d == [c EXCEPT !.regs = f]
         IN  IsCpu(d) /\ d.regs = f /\ d.segs = c.segs /\ d.cr3 = c.cr3
<1>1. PICK regs, segs, cr3 : c = [regs |-> regs, segs |-> segs, cr3 |-> cr3]
  BY DEF IsCpu
<1>2. [c EXCEPT !.regs = f] = [regs |-> f, segs |-> segs, cr3 |-> cr3]
  BY <1>1
<1> QED
  BY <1>1, <1>2 DEF IsCpu

(* The result of a system call in eax.                                     *)
LEMMA ResultSet ==
  ASSUME NEW c, IsCpu(c), NEW res
  PROVE  LET d == [c EXCEPT !.regs["eax"] = res]
         IN  /\ IsCpu(d) /\ d.segs = c.segs /\ d.cr3 = c.cr3
             /\ d.regs["eax"] = res /\ d.regs["flags"] = c.regs["flags"]
<1>1. PICK regs, segs, cr3 : c = [regs |-> regs, segs |-> segs, cr3 |-> cr3]
  BY DEF IsCpu
<1>2. regs = [r \in Names |-> regs[r]]
  BY <1>1 DEF IsCpu
<1>3. [c EXCEPT !.regs["eax"] = res]
        = [regs |-> [regs EXCEPT !["eax"] = res], segs |-> segs, cr3 |-> cr3]
  BY <1>1
<1>4. PICK f : f = [regs EXCEPT !["eax"] = res]
  OBVIOUS
<1>5. /\ f = [r \in Names |-> f[r]]
      /\ f["eax"] = res /\ f["flags"] = regs["flags"]
  BY <1>2, <1>4, NamesAre DEF NamesSet
<1>6. [c EXCEPT !.regs["eax"] = res] = [regs |-> f, segs |-> segs, cr3 |-> cr3]
  BY <1>3, <1>4
<1> QED
  BY <1>1, <1>5, <1>6 DEF IsCpu

(* task_return loads the registers of a program.                           *)
LEMMA ReturnsToProgram ==
  ASSUME NEW c, NEW f, IsRegisters(f), c.regs["flags"] = CliFlags
  PROVE  LET d == task_return(c, Packed(f))
         IN  /\ IsCpu(d)
             /\ IsRegisters(d.regs)
             /\ \A r \in Names : r # "flags" => d.regs[r] = f[r]
             /\ d.segs = USER_DATA_SEGMENT
             /\ d.cr3 = c.cr3
<1>1. PICK d : d = task_return(c, Packed(f))
  OBVIOUS
<1>2. /\ d.regs = [r \in Names |-> IF r = "flags"
                                   THEN OrInterrupts(c.regs["flags"])
                                   ELSE f[r]]
      /\ d.segs = f["ss"] /\ d.cr3 = c.cr3
  BY <1>1, ReturnLoads
<1>3. d = [regs |-> d.regs, segs |-> d.segs, cr3 |-> d.cr3]
  BY <1>1 DEF task_return
<1>4. f["ss"] = USER_DATA_SEGMENT
  BY NamesAre, ValuesAre DEF IsRegisters, NamesSet
<1>5. \A r \in Names : d.regs[r] \in ValuesOf[r]
  BY <1>2, ValuesHave DEF IsRegisters
<1>6. d.regs = [r \in Names |-> d.regs[r]]
  BY <1>2
<1> QED
  BY <1>1, <1>2, <1>3, <1>4, <1>5, <1>6 DEF IsCpu, IsRegisters

-----------------------------------------------------------------------------
(* The program, and the ways into the kernel. *)

(* The registers of the kernel, which has disabled interrupts. *)
LEMMA KernelRegisters ==
  ASSUME NEW f, f = [r \in Names |-> IF r = "flags" THEN CliFlags
                                                   ELSE KernelValue(r)]
  PROVE  f = [r \in Names |-> f[r]] /\ f["flags"] = CliFlags
BY NamesAre DEF NamesSet

(* A step of a program changes its registers and nothing else.             *)
LEMMA UserStepPreserves ==
  ASSUME SwitchInv, UserStep
  PROVE  SwitchInv'
<1>1. PICK v \in Versions :
        cpu' = [cpu EXCEPT !.regs = SetByUser[current_task][v]]
  BY DEF UserStep
<1>2. /\ pc = "user"
      /\ UNCHANGED <<pc, kstack, vector, registers, current_task, live, owned,
                     writable, tmp, old_entry, buf, in_service, stopped>>
  BY DEF UserStep, memory, buffer
<1>3. PICK f : f = SetByUser[current_task][v]
  OBVIOUS
<1>4. IsRegisters(f)
  BY <1>3, ProgramHasRegisters DEF SetByUser, SwitchInv, TasksInv
<1>5. IsCpu(cpu') /\ cpu'.regs = f /\ cpu'.segs = cpu.segs /\ cpu'.cr3 = cpu.cr3
  <2>1. f = [r \in Names |-> f[r]]
    BY <1>4 DEF IsRegisters
  <2>2. cpu' = [cpu EXCEPT !.regs = f]
    BY <1>1, <1>3
  <2> QED
    BY <2>1, <2>2, RegistersSet DEF SwitchInv, CpuInv
<1>6. CpuInv'
  BY <1>2, <1>4, <1>5
     DEF SwitchInv, CpuInv, KernelPoints, SystemCallPoints
<1>7. TasksInv' /\ FrameInv' /\ MemoryInv' /\ BufferInv'
  BY <1>2
     DEF SwitchInv, TasksInv, Doomed, Saved, FrameInv, MemoryInv, BufferInv,
         Argument
<1> QED
  BY <1>6, <1>7 DEF SwitchInv

(* The frame on the kernel stack is of the registers the program had.      *)
LEMMA EnterPreserves ==
  ASSUME SwitchInv, NEW kind, NEW f, NEW code, Enter(kind, f, code),
         IsRegisters(f),
         kind # "exception" => code = <<>>,
         in_service' => kind \in {"clock", "keyboard", "unused"}
  PROVE  SwitchInv'
<1>1. /\ pc = "user" /\ pc' = "entered" /\ vector' = kind
      /\ kstack' = Pushed(f, code)
      /\ stopped' = [stopped EXCEPT ![current_task] = f]
      /\ buf' = Nothing
      /\ UNCHANGED <<registers, current_task, live, owned, writable, tmp,
                     old_entry>>
  BY DEF Enter, memory
<1>2. /\ live \subseteq Tasks /\ current_task \in Tasks /\ current_task \in live
      /\ registers = [t \in Tasks |-> registers[t]]
      /\ stopped = [t \in Tasks |-> stopped[t]]
      /\ \A t \in Tasks : IsRegisters(stopped[t])
      /\ \A t \in live \ {current_task} : registers[t] = Packed(stopped[t])
      /\ IsStruct(registers[current_task])
      /\ IsCpu(cpu)
  BY <1>1 DEF SwitchInv, TasksInv, CpuInv, FrameInv, Saved, Doomed
<1>3. IsCpu(cpu') /\ cpu'.regs["flags"] = CliFlags
  <2>1. PICK g : g = [r \in Names |-> IF r = "flags" THEN CliFlags
                                                    ELSE KernelValue(r)]
    OBVIOUS
  <2>2. cpu' = [cpu EXCEPT !.regs = g]
    BY <2>1 DEF Enter
  <2>3. g = [r \in Names |-> g[r]] /\ g["flags"] = CliFlags
    BY <2>1, KernelRegisters
  <2> QED
    BY <1>2, <2>2, <2>3, RegistersSet
<1>4. /\ stopped' = [t \in Tasks |-> stopped'[t]]
      /\ stopped'[current_task] = f
      /\ \A t \in Tasks : t # current_task => stopped'[t] = stopped[t]
  BY <1>1, <1>2
<1>5. TasksInv'
  <2>1. \A t \in Tasks : IsRegisters(stopped'[t])
    BY <1>2, <1>4
  <2> QED
    BY <1>1, <1>2, <1>4, <2>1 DEF TasksInv, Saved
<1>6. CpuInv'
  BY <1>1, <1>3 DEF CpuInv
<1>7. FrameInv'
  BY <1>1, <1>2, <1>4 DEF FrameInv, KernelPoints, SystemCallPoints
<1>8. MemoryInv'
  BY <1>1 DEF SwitchInv, MemoryInv
<1>9. BufferInv'
  BY <1>1 DEF BufferInv
<1> QED
  BY <1>5, <1>6, <1>7, <1>8, <1>9 DEF SwitchInv

(* All five ways into the kernel are of this kind.                         *)
LEMMA WaysInPreserve ==
  ASSUME SwitchInv,
         \/ \E kind \in {"clock", "keyboard", "unused"} :
              DeviceInterrupts(kind) \/ SoftwareInterrupt(kind)
         \/ \E code \in {<<>>, <<Value("error code", 0, "", 0)>>} :
              Exception(code)
         \/ DivideError
         \/ \E c \in Commands : SystemCall(c)
  PROVE  SwitchInv'
<1>1. pc = "user" => IsRegisters(cpu.regs) /\ ~in_service
  BY DEF SwitchInv, CpuInv, FrameInv
<1>2. ASSUME NEW kind \in {"clock", "keyboard", "unused"},
             DeviceInterrupts(kind) \/ SoftwareInterrupt(kind)
      PROVE  SwitchInv'
  <2>1. Enter(kind, cpu.regs, <<>>) /\ pc = "user"
    BY <1>2 DEF DeviceInterrupts, SoftwareInterrupt, Enter
  <2> QED
    BY <1>1, <1>2, <2>1, EnterPreserves
<1>3. ASSUME NEW code, Exception(code)
      PROVE  SwitchInv'
  <2>1. /\ Enter("exception", cpu.regs, code) /\ pc = "user"
        /\ in_service' = in_service
    BY <1>3 DEF Exception, Enter
  <2> QED
    BY <1>1, <2>1, EnterPreserves
<1>4. CASE DivideError
  <2>1. /\ Enter("divide error", cpu.regs, <<>>) /\ pc = "user"
        /\ in_service' = in_service
    BY <1>4 DEF DivideError, Enter
  <2> QED
    BY <1>1, <2>1, EnterPreserves
<1>5. ASSUME NEW c \in Commands, SystemCall(c)
      PROVE  SwitchInv'
  <2>1. PICK f : f = [cpu.regs EXCEPT !["eax"] = Command(c)]
    OBVIOUS
  <2>2. Enter("0x80", f, <<>>) /\ pc = "user" /\ in_service' = in_service
    BY <1>5, <2>1 DEF SystemCall, Enter
  <2>3. IsRegisters(f)
    <3>1. IsRegisters(cpu.regs)
      BY <1>1, <2>2
    <3>2. f = [r \in Names |-> f[r]]
      BY <2>1, <3>1 DEF IsRegisters
    <3>3. \A r \in Names : f[r] \in ValuesOf[r]
      BY <2>1, <3>1, ValuesHave DEF IsRegisters
    <3> QED
      BY <3>2, <3>3 DEF IsRegisters
  <2> QED
    BY <1>1, <2>2, <2>3, EnterPreserves
<1> QED
  BY <1>2, <1>3, <1>4, <1>5

-----------------------------------------------------------------------------
(* The ways back to a program by task_next and task_switch. *)

(* A task that is resumed runs with the registers f, and those of the      *)
(* others stay where they are.                                             *)
LEMMA ResumePreserves ==
  ASSUME SwitchInv, pc \in KernelPoints, NEW t \in live', NEW f,
         Resume(t, Packed(f)), IsRegisters(f),
         live' \subseteq Tasks,
         registers' = [u \in Tasks |-> registers'[u]],
         \A u \in live' \ {t} : registers'[u] = Packed(stopped[u]),
         IsStruct(registers'[t]),
         owned' \in [Tasks -> SUBSET Pages], writable' = owned',
         ~in_service'
  PROVE  /\ SwitchInv'
         /\ current_task' = t
         /\ \A r \in Names : r # "flags" => cpu'.regs[r] = f[r]
<1>1. /\ stopped' = [u \in Tasks |-> IF u \in live' \ {t}
                                     THEN stopped[u]
                                     ELSE FreshRegisters[u]]
      /\ current_task' = t
      /\ cpu' = task_return(task_switch(cpu, t), Packed(f))
      /\ pc' = "user"
  BY DEF Resume, GoesOn
<1>2. t \in Tasks
  OBVIOUS
<1>3. /\ IsCpu(cpu') /\ IsRegisters(cpu'.regs)
      /\ \A r \in Names : r # "flags" => cpu'.regs[r] = f[r]
      /\ cpu'.segs = USER_DATA_SEGMENT /\ cpu'.cr3 = t
  <2>1. IsCpu(cpu) /\ cpu.regs["flags"] = CliFlags
    BY DEF SwitchInv, CpuInv
  <2>2. PICK c : c = task_switch(cpu, t)
    OBVIOUS
  <2>3. c.regs["flags"] = CliFlags /\ c.cr3 = t
    BY <2>1, <2>2, PagesKeepRegisters
  <2>4. cpu' = task_return(c, Packed(f))
    BY <1>1, <2>2
  <2> QED
    BY <2>3, <2>4, ReturnsToProgram
<1>4. TasksInv'
  <2>1. \A u \in Tasks : IsRegisters(stopped'[u])
    BY <1>1, FreshHaveRegisters DEF SwitchInv, TasksInv
  <2>2. \A u \in live' \ {t} : registers'[u] = Packed(stopped'[u])
    BY <1>1
  <2>3. stopped' = [u \in Tasks |-> stopped'[u]]
    BY <1>1
  <2> QED
    BY <1>1, <1>2, <2>1, <2>2, <2>3 DEF TasksInv, Saved
<1>5. CpuInv'
  BY <1>1, <1>3 DEF CpuInv, KernelPoints, SystemCallPoints
<1>6. FrameInv'
  BY <1>1 DEF FrameInv, KernelPoints, SystemCallPoints
<1>7. MemoryInv'
  BY <1>1 DEF MemoryInv
<1>8. BufferInv'
  BY <1>1 DEF BufferInv
<1> QED
  BY <1>1, <1>3, <1>4, <1>5, <1>6, <1>7, <1>8 DEF SwitchInv

(* Every task of the list is saved when the clock interrupts.              *)
LEMMA ClockPreserves ==
  ASSUME SwitchInv, idt_clock
  PROVE  /\ SwitchInv'
         /\ current_task' \in live
         /\ \A r \in Names : r # "flags" =>
              cpu'.regs[r] = stopped[current_task'][r]
<1>1. /\ pc = "callback" /\ vector = "clock" /\ in_service' = FALSE
      /\ UNCHANGED <<registers, live, owned, writable>>
  BY DEF idt_clock, memory
<1>2. PICK t \in live : Resume(t, registers[t])
  BY DEF idt_clock, task_next
<1>3. /\ live \subseteq Tasks
      /\ registers = [u \in Tasks |-> registers[u]]
      /\ \A u \in Tasks : IsRegisters(stopped[u])
      /\ \A u \in live : registers[u] = Packed(stopped[u])
      /\ owned \in [Tasks -> SUBSET Pages] /\ writable = owned
  BY <1>1 DEF SwitchInv, TasksInv, FrameInv, MemoryInv, Saved
<1>4. pc \in KernelPoints
  BY <1>1 DEF KernelPoints
<1>5. PICK f : f = stopped[t]
  OBVIOUS
<1>6. /\ IsRegisters(f) /\ IsStruct(registers'[t]) /\ Resume(t, Packed(f))
  BY <1>1, <1>2, <1>3, <1>5, PackedIsStruct
<1>7. /\ t \in live' /\ live' \subseteq Tasks
      /\ registers' = [u \in Tasks |-> registers'[u]]
      /\ \A u \in live' \ {t} : registers'[u] = Packed(stopped[u])
      /\ owned' \in [Tasks -> SUBSET Pages] /\ writable' = owned'
      /\ ~in_service'
  BY <1>1, <1>3
<1> QED
  BY <1>4, <1>5, <1>6, <1>7, ResumePreserves

(* What the end of the current process leaves of the others.               *)
LEMMA TerminatedFacts ==
  ASSUME SwitchInv, Ends, Terminated(current_task)
  PROVE  /\ pc \in KernelPoints /\ ~in_service
         /\ live' = live \ {current_task}
         /\ live' \subseteq Tasks
         /\ registers' = [u \in Tasks |-> registers'[u]]
         /\ \A u \in live' : /\ IsRegisters(stopped[u])
                             /\ registers[u] = Packed(stopped[u])
                             /\ registers'[u] = Packed(stopped[u])
         /\ owned' \in [Tasks -> SUBSET Pages] /\ writable' = owned'
<1>1. /\ live' = live \ {current_task}
      /\ registers' = [registers EXCEPT ![current_task]
                                          = task_init(current_task)]
      /\ owned' = [owned EXCEPT ![current_task] = {}]
      /\ writable' = [writable EXCEPT ![current_task] = {}]
  BY DEF Terminated
<1>2. (pc = "callback" /\ vector = "exception") \/ pc = "command"
  BY DEF Ends
<1>3. /\ live \subseteq Tasks
      /\ registers = [u \in Tasks |-> registers[u]]
      /\ \A u \in Tasks : IsRegisters(stopped[u])
      /\ \A u \in live \ {current_task} : registers[u] = Packed(stopped[u])
      /\ owned \in [Tasks -> SUBSET Pages] /\ writable = owned
      /\ ~in_service
  BY <1>2 DEF SwitchInv, TasksInv, FrameInv, MemoryInv, Saved
<1>4. pc \in KernelPoints
  BY <1>2 DEF KernelPoints, SystemCallPoints
<1>5. /\ registers' = [u \in Tasks |-> registers'[u]]
      /\ \A u \in live' : registers'[u] = registers[u]
  BY <1>1, <1>3
<1>6. owned' \in [Tasks -> SUBSET Pages] /\ writable' = owned'
  BY <1>1, <1>3
<1> QED
  BY <1>1, <1>3, <1>4, <1>5, <1>6

(* The tasks that remain are saved, and one of them goes on.               *)
LEMMA TerminateAndNextPreserves ==
  ASSUME SwitchInv, TerminateAndNext
  PROVE  /\ SwitchInv'
         /\ current_task' \in live
         /\ \A r \in Names : r # "flags" =>
              cpu'.regs[r] = stopped[current_task'][r]
<1>1. Ends /\ Terminated(current_task) /\ in_service' = in_service
  BY DEF TerminateAndNext
<1>2. PICK t \in live' : Resume(t, registers[t])
  BY DEF TerminateAndNext, task_next
<1>3. /\ pc \in KernelPoints /\ ~in_service'
      /\ live' = live \ {current_task}
      /\ live' \subseteq Tasks
      /\ registers' = [u \in Tasks |-> registers'[u]]
      /\ \A u \in live' : /\ IsRegisters(stopped[u])
                          /\ registers[u] = Packed(stopped[u])
                          /\ registers'[u] = Packed(stopped[u])
      /\ owned' \in [Tasks -> SUBSET Pages] /\ writable' = owned'
  BY <1>1, TerminatedFacts
<1>4. PICK f : f = stopped[t]
  OBVIOUS
<1>5. IsRegisters(f) /\ IsStruct(registers'[t]) /\ Resume(t, Packed(f))
  BY <1>2, <1>3, <1>4, PackedIsStruct
<1> QED
  BY <1>3, <1>4, <1>5, ResumePreserves

(* Nobody goes on when none is found.                                      *)
LEMMA TerminateAndPanicPreserves ==
  ASSUME SwitchInv, TerminateAndPanic
  PROVE  SwitchInv'
<1>1. /\ Ends /\ Terminated(current_task) /\ pc' = "panic"
      /\ UNCHANGED <<cpu, kstack, vector, current_task, in_service, stopped>>
  BY DEF TerminateAndPanic
<1>2. /\ ~in_service
      /\ live' = live \ {current_task}
      /\ live' \subseteq Tasks
      /\ registers' = [u \in Tasks |-> registers'[u]]
      /\ \A u \in live' : registers'[u] = Packed(stopped[u])
      /\ owned' \in [Tasks -> SUBSET Pages] /\ writable' = owned'
  BY <1>1, TerminatedFacts
<1>3. TasksInv'
  BY <1>1, <1>2 DEF SwitchInv, TasksInv, Saved
<1>4. CpuInv'
  BY <1>1 DEF SwitchInv, CpuInv, KernelPoints, SystemCallPoints
<1>5. FrameInv'
  BY <1>1, <1>2 DEF FrameInv, KernelPoints, SystemCallPoints
<1>6. MemoryInv' /\ BufferInv'
  BY <1>1, <1>2 DEF MemoryInv, BufferInv
<1> QED
  BY <1>3, <1>4, <1>5, <1>6 DEF SwitchInv

(* A program that loads another is saved, and the new one begins.          *)
LEMMA LoadAndSwitchPreserves ==
  ASSUME SwitchInv, LoadAndSwitch
  PROVE  /\ SwitchInv'
         /\ current_task' \in Tasks \ live
         /\ \A r \in Names : r # "flags" =>
              cpu'.regs[r] = FreshRegisters[current_task'][r]
<1>1. pc = "load" /\ in_service' = in_service
  BY DEF LoadAndSwitch
<1>2. PICK t \in Tasks \ live, pages \in SUBSET Free :
        /\ live' = live \cup {t}
        /\ registers' = [registers EXCEPT ![t] = task_init(t)]
        /\ owned' = [owned EXCEPT ![t] = pages]
        /\ writable' = [writable EXCEPT ![t] = pages]
        /\ Resume(t, task_init(t))
  BY DEF LoadAndSwitch
<1>3. /\ live \subseteq Tasks
      /\ registers = [u \in Tasks |-> registers[u]]
      /\ \A u \in live : registers[u] = Packed(stopped[u])
      /\ owned \in [Tasks -> SUBSET Pages] /\ writable = owned
      /\ ~in_service /\ pc \in KernelPoints
  BY <1>1 DEF SwitchInv, TasksInv, FrameInv, MemoryInv, Saved, KernelPoints,
              SystemCallPoints
<1>4. PICK f : f = FreshRegisters[t]
  OBVIOUS
<1>5. task_init(t) = Packed(f) /\ IsRegisters(f)
  BY <1>4, InitIsPacked, FreshHaveRegisters
<1>6. pages \subseteq Pages
  BY DEF Free
<1>7. /\ t \in live' /\ live' \subseteq Tasks
      /\ registers' = [u \in Tasks |-> registers'[u]]
      /\ registers'[t] = task_init(t)
      /\ \A u \in live' \ {t} : registers'[u] = Packed(stopped[u])
      /\ ~in_service'
  BY <1>1, <1>2, <1>3
<1>8. owned' \in [Tasks -> SUBSET Pages] /\ writable' = owned'
  BY <1>2, <1>3, <1>6
<1>9. IsStruct(registers'[t]) /\ Resume(t, Packed(f))
  BY <1>2, <1>5, <1>7, PackedIsStruct
<1> QED
  BY <1>2, <1>3, <1>4, <1>5, <1>7, <1>8, <1>9, ResumePreserves

-----------------------------------------------------------------------------
(* The handlers. *)

(* What is saved from a frame without an error code is what was stopped.   *)
LEMMA SavePreserves ==
  ASSUME SwitchInv, pc = "entered",
         \/ vector = "exception" /\ pc' = "callback"
         \/ vector \in {"clock", "keyboard"} /\ pc' = "callback"
         \/ vector = "0x80" /\ pc' = "command",
         cpu' = kernel_page(cpu),
         registers' = [registers EXCEPT ![current_task] =
                         task_save_state(current_task, kstack)],
         UNCHANGED <<kstack, vector, current_task, live, owned, writable, tmp,
                     old_entry, buf, in_service, stopped>>
  PROVE  SwitchInv'
<1>1. /\ live \subseteq Tasks /\ current_task \in Tasks /\ current_task \in live
      /\ registers = [t \in Tasks |-> registers[t]]
      /\ stopped = [t \in Tasks |-> stopped[t]]
      /\ \A t \in Tasks : IsRegisters(stopped[t])
      /\ \A t \in live \ {current_task} : registers[t] = Packed(stopped[t])
      /\ vector # "exception" => kstack = Pushed(stopped[current_task], <<>>)
      /\ in_service => vector \in {"clock", "keyboard", "unused"}
      /\ writable = owned /\ buf = Nothing
      /\ IsCpu(cpu) /\ cpu.regs["flags"] = CliFlags
  BY DEF SwitchInv, TasksInv, CpuInv, FrameInv, MemoryInv, BufferInv, Saved,
         KernelPoints
<1>2. /\ registers' = [t \in Tasks |-> registers'[t]]
      /\ \A t \in live \ {current_task} : registers'[t] = Packed(stopped[t])
      /\ registers'[current_task] = task_save_state(current_task, kstack)
  BY <1>1
<1>3. vector # "exception" =>
        registers'[current_task] = Packed(stopped[current_task])
  BY <1>1, <1>2, SaveIsPacked
<1>4. TasksInv'
  <2>1. vector # "exception" => IsStruct(registers'[current_task])
    BY <1>1, <1>3, PackedIsStruct
  <2> QED
    BY <1>1, <1>2, <2>1 DEF TasksInv, Saved, Doomed
<1>5. CpuInv'
  BY <1>1, PagesKeepRegisters DEF CpuInv
<1>6. FrameInv'
  BY <1>1, <1>3 DEF FrameInv, Saved, KernelPoints, SystemCallPoints
<1>7. MemoryInv'
  BY <1>1 DEF SwitchInv, MemoryInv
<1>8. BufferInv'
  BY <1>1 DEF BufferInv
<1> QED
  BY <1>4, <1>5, <1>6, <1>7, <1>8 DEF SwitchInv

(* interrupt_handler with a callback, and isr80h_handler, save the task.   *)
LEMMA HandlersPreserve ==
  ASSUME SwitchInv, interrupt_handler \/ isr80h_handler
  PROVE  SwitchInv'
<1>1. CASE interrupt_handler /\ HasCallback(vector)
  BY <1>1, SavePreserves DEF interrupt_handler, HasCallback, memory, buffer
<1>2. CASE interrupt_handler /\ ~HasCallback(vector)
  <2>1. /\ pc = "entered" /\ vector = "unused" /\ pc' = "leave"
        /\ cpu' = kernel_page(cpu)
        /\ UNCHANGED <<registers, kstack, vector, current_task, live, owned,
                       writable, tmp, old_entry, buf, in_service, stopped>>
    BY <1>2 DEF interrupt_handler, HasCallback, memory, buffer
  <2>2. IsCpu(cpu) /\ cpu.regs["flags"] = CliFlags
    BY <2>1 DEF SwitchInv, CpuInv, KernelPoints
  <2>3. TasksInv'
    BY <2>1 DEF SwitchInv, TasksInv, Saved, Doomed
  <2>4. CpuInv'
    BY <2>1, <2>2, PagesKeepRegisters DEF CpuInv
  <2>5. FrameInv'
    BY <2>1 DEF SwitchInv, FrameInv, KernelPoints, SystemCallPoints
  <2>6. MemoryInv' /\ BufferInv'
    BY <2>1 DEF SwitchInv, MemoryInv, BufferInv
  <2> QED
    BY <2>3, <2>4, <2>5, <2>6 DEF SwitchInv
<1>3. CASE isr80h_handler
  BY <1>3, SavePreserves DEF isr80h_handler, memory, buffer
<1> QED
  BY <1>1, <1>2, <1>3

(* The keyboard handler leaves everything where the interrupt found it.    *)
LEMMA KeyboardHandlerPreserves ==
  ASSUME SwitchInv, classic_keyboard_handle_interrupt
  PROVE  SwitchInv'
<1>1. /\ pc = "callback" /\ vector = "keyboard" /\ pc' = "leave"
      /\ UNCHANGED <<kstack, vector, registers, current_task, live, owned,
                     writable, tmp, old_entry, buf, in_service, stopped>>
  BY DEF classic_keyboard_handle_interrupt, memory, buffer
<1>2. IsCpu(cpu) /\ cpu.regs["flags"] = CliFlags
  BY <1>1 DEF SwitchInv, CpuInv, KernelPoints
<1>3. IsCpu(cpu') /\ cpu'.regs = cpu.regs
  BY <1>2, PagesKeepRegisters DEF classic_keyboard_handle_interrupt
<1>4. TasksInv'
  BY <1>1 DEF SwitchInv, TasksInv, Saved, Doomed
<1>5. CpuInv'
  BY <1>1, <1>2, <1>3 DEF CpuInv
<1>6. FrameInv'
  BY <1>1 DEF SwitchInv, FrameInv, KernelPoints, SystemCallPoints
<1>7. MemoryInv' /\ BufferInv'
  BY <1>1 DEF SwitchInv, MemoryInv, BufferInv
<1> QED
  BY <1>4, <1>5, <1>6, <1>7 DEF SwitchInv

(* task_page at the end of both handlers.                                  *)
LEMMA HandlerEndsPreserve ==
  ASSUME SwitchInv, interrupt_handler_end \/ isr80h_handler_end
  PROVE  SwitchInv'
<1>1. /\ pc \in {"leave", "return"} /\ pc' = "iret"
      /\ cpu' = task_page(cpu, current_task)
      /\ UNCHANGED <<kstack, vector, registers, current_task, live, owned,
                     writable, tmp, old_entry, buf, stopped>>
      /\ pc = "leave" => in_service' = FALSE
      /\ pc = "return" => in_service' = in_service
  BY DEF interrupt_handler_end, isr80h_handler_end, memory, buffer
<1>2. /\ IsCpu(cpu) /\ cpu.regs["flags"] = CliFlags
      /\ pc = "return" => cpu.regs["eax"] \in {Result(0), Result(1)}
      /\ pc = "leave" => vector \in {"keyboard", "unused"}
  BY <1>1 DEF SwitchInv, CpuInv, FrameInv, KernelPoints, SystemCallPoints
<1>3. TasksInv'
  BY <1>1 DEF SwitchInv, TasksInv, Saved, Doomed
<1>4. CpuInv'
  BY <1>1, <1>2, PagesKeepRegisters DEF CpuInv
<1>5. FrameInv'
  <2>1. /\ current_task \in live /\ ~in_service'
        /\ vector \in {"keyboard", "unused", "0x80"}
        /\ kstack = Pushed(stopped[current_task], <<>>)
    <3>1. CASE pc = "leave"
      BY <1>1, <3>1 DEF SwitchInv, FrameInv, KernelPoints, SystemCallPoints
    <3>2. CASE pc = "return"
      BY <1>1, <3>2 DEF SwitchInv, FrameInv, KernelPoints, SystemCallPoints
    <3> QED
      BY <1>1, <3>1, <3>2
  <2> QED
    BY <1>1, <2>1 DEF FrameInv, KernelPoints, SystemCallPoints
<1>6. MemoryInv' /\ BufferInv'
  BY <1>1 DEF SwitchInv, MemoryInv, BufferInv
<1> QED
  BY <1>3, <1>4, <1>5, <1>6 DEF SwitchInv

(* The gate of the divide error.                                           *)
LEMMA IdtZeroPreserves ==
  ASSUME SwitchInv, idt_zero
  PROVE  SwitchInv'
<1>1. /\ pc = "entered" /\ vector = "divide error" /\ pc' = "wild"
      /\ UNCHANGED <<cpu, kstack, vector, registers, current_task, live, owned,
                     writable, tmp, old_entry, buf, in_service, stopped>>
  BY DEF idt_zero, memory, buffer
<1>2. TasksInv' /\ CpuInv'
  BY <1>1 DEF SwitchInv, TasksInv, CpuInv, Saved, Doomed, KernelPoints,
              SystemCallPoints
<1>3. FrameInv' /\ MemoryInv' /\ BufferInv'
  BY <1>1 DEF SwitchInv, FrameInv, MemoryInv, BufferInv, KernelPoints,
              SystemCallPoints
<1> QED
  BY <1>2, <1>3 DEF SwitchInv

(* iret goes on with what was stopped, and with the result of the call.    *)
LEMMA IretPreserves ==
  ASSUME SwitchInv, iret
  PROVE  /\ SwitchInv'
         /\ current_task' = current_task /\ current_task \in live
         /\ \A r \in Names :
              cpu'.regs[r] = IF r = "eax" /\ vector = "0x80"
                             THEN cpu.regs["eax"]
                             ELSE stopped[current_task][r]
<1>1. /\ pc = "iret" /\ pc' = "user"
      /\ UNCHANGED <<registers, current_task, live, owned, writable, tmp,
                     old_entry, buf, in_service>>
      /\ stopped' = [u \in Tasks |-> IF u \in live' \ {current_task}
                                     THEN stopped[u]
                                     ELSE FreshRegisters[u]]
  BY DEF iret, GoesOn, memory, buffer
<1>2. /\ current_task \in live /\ current_task \in Tasks /\ live \subseteq Tasks
      /\ vector \in {"keyboard", "unused", "0x80"}
      /\ kstack = Pushed(stopped[current_task], <<>>)
      /\ \A t \in Tasks : IsRegisters(stopped[t])
      /\ vector = "0x80" => cpu.regs["eax"] \in {Result(0), Result(1)}
      /\ IsCpu(cpu) /\ cpu.segs = USER_DATA_SEGMENT /\ cpu.cr3 = current_task
      /\ ~in_service
  BY <1>1 DEF SwitchInv, TasksInv, CpuInv, FrameInv, KernelPoints
<1>3. PICK f : f = [r \in Names |->
                      IF r = "eax" /\ vector = "0x80"
                      THEN cpu.regs["eax"]
                      ELSE Field(kstack, r)]
  OBVIOUS
<1>4. \A r \in Names : f[r] = IF r = "eax" /\ vector = "0x80"
                              THEN cpu.regs["eax"]
                              ELSE stopped[current_task][r]
  BY <1>2, <1>3, FieldOfFrame
<1>5. IsRegisters(f)
  <2>1. f = [r \in Names |-> f[r]]
    BY <1>3
  <2>2. \A r \in Names : f[r] \in ValuesOf[r]
    BY <1>2, <1>4, ValuesHave DEF IsRegisters
  <2> QED
    BY <2>1, <2>2 DEF IsRegisters
<1>6. /\ IsCpu(cpu') /\ cpu'.regs = f /\ cpu'.segs = cpu.segs
      /\ cpu'.cr3 = cpu.cr3
  <2>1. cpu' = [cpu EXCEPT !.regs = f]
    BY <1>3 DEF iret
  <2>2. f = [r \in Names |-> f[r]]
    BY <1>3
  <2> QED
    BY <1>2, <2>1, <2>2, RegistersSet
<1>7. TasksInv'
  <2>1. \A u \in Tasks : IsRegisters(stopped'[u])
    BY <1>1, <1>2, FreshHaveRegisters
  <2>2. \A u \in live' \ {current_task} : registers'[u] = Packed(stopped'[u])
    BY <1>1, <1>2 DEF SwitchInv, TasksInv, Saved
  <2>3. stopped' = [u \in Tasks |-> stopped'[u]]
    BY <1>1
  <2> QED
    BY <1>1, <1>2, <2>1, <2>2, <2>3 DEF SwitchInv, TasksInv, Saved, Doomed
<1>8. CpuInv'
  BY <1>1, <1>2, <1>5, <1>6 DEF CpuInv, KernelPoints, SystemCallPoints
<1>9. FrameInv'
  BY <1>1, <1>2 DEF FrameInv, KernelPoints, SystemCallPoints
<1>10. MemoryInv' /\ BufferInv'
  BY <1>1 DEF SwitchInv, MemoryInv, BufferInv
<1> QED
  BY <1>1, <1>2, <1>4, <1>6, <1>7, <1>8, <1>9, <1>10 DEF SwitchInv

-----------------------------------------------------------------------------
(* The system calls. *)

(* What the parts of the invariant say where a command is carried out.     *)
LEMMA CommandFacts ==
  ASSUME SwitchInv, pc \in SystemCallPoints
  PROVE  /\ pc \in KernelPoints /\ vector = "0x80" /\ ~in_service
         /\ current_task \in live /\ current_task \in Tasks
         /\ kstack = Pushed(stopped[current_task], <<>>)
         /\ Field(kstack, "eax") = stopped[current_task]["eax"]
         /\ Saved(current_task)
         /\ IsStruct(registers[current_task])
         /\ IsCpu(cpu) /\ cpu.regs["flags"] = CliFlags
<1>1. pc \in KernelPoints
  BY DEF KernelPoints
<1>2. /\ vector = "0x80" /\ ~in_service /\ current_task \in live
      /\ kstack = Pushed(stopped[current_task], <<>>)
      /\ Saved(current_task)
      /\ IsCpu(cpu) /\ cpu.regs["flags"] = CliFlags
  BY <1>1 DEF SwitchInv, FrameInv, CpuInv, SystemCallPoints
<1>3. current_task \in Tasks /\ IsStruct(registers[current_task])
  BY <1>2 DEF SwitchInv, TasksInv, Doomed
<1>4. Field(kstack, "eax") = stopped[current_task]["eax"]
  BY <1>2, FieldOfFrame, NamesAre DEF NamesSet
<1> QED
  BY <1>1, <1>2, <1>3, <1>4

(* The commands leave what was saved where it is: what is left to show is  *)
(* where the kernel goes on, and what it did to memory and the buffer.     *)
LEMMA StillInCommand ==
  ASSUME SwitchInv, pc \in SystemCallPoints, pc' \in SystemCallPoints,
         UNCHANGED <<kstack, vector, registers, current_task, live, in_service,
                     stopped>>
  PROVE  TasksInv' /\ FrameInv'
<1>1. TasksInv'
  BY CommandFacts DEF SwitchInv, TasksInv, Saved, Doomed
<1>2. pc' \in KernelPoints
  BY DEF KernelPoints
<1>3. FrameInv'
  BY <1>2, CommandFacts DEF FrameInv, Saved, KernelPoints, SystemCallPoints
<1> QED
  BY <1>1, <1>3

(* A command that returns.                                                 *)
LEMMA ReturnsPreserves ==
  ASSUME SwitchInv, pc \in SystemCallPoints, NEW res \in {Result(0), Result(1)},
         Returns(res), live' = live,
         MemoryInv',
         \/ buf' \in {Nothing, Garbage}
         \/ buf' = IF Field(kstack, "eax") = Command("putchar")
                   THEN Argument
                   ELSE StringAt(current_task, Argument)
  PROVE  SwitchInv'
<1>1. /\ cpu' = [cpu EXCEPT !.regs["eax"] = res] /\ pc' = "return"
      /\ UNCHANGED <<kstack, vector, registers, current_task, in_service,
                     stopped>>
  BY DEF Returns
<1>2. TasksInv' /\ FrameInv'
  <2>1. pc' \in SystemCallPoints
    BY <1>1 DEF SystemCallPoints
  <2> QED
    BY <1>1, <2>1, StillInCommand
<1>3. /\ IsCpu(cpu') /\ cpu'.regs["eax"] = res
      /\ cpu'.regs["flags"] = CliFlags
  <2>1. IsCpu(cpu) /\ cpu.regs["flags"] = CliFlags
    BY CommandFacts
  <2>2. PICK d : d = [cpu EXCEPT !.regs["eax"] = res]
    OBVIOUS
  <2>3. IsCpu(d) /\ d.regs["eax"] = res /\ d.regs["flags"] = CliFlags
    BY <2>1, <2>2, ResultSet
  <2>4. cpu' = d
    BY <1>1, <2>2
  <2> QED
    BY <2>3, <2>4
<1>4. CpuInv'
  BY <1>1, <1>3 DEF CpuInv
<1>5. BufferInv'
  BY <1>1 DEF BufferInv, Argument
<1> QED
  BY <1>2, <1>4, <1>5 DEF SwitchInv

(* The first argument of a call is on the stack of the caller.             *)
LEMMA ArgumentIs ==
  ASSUME SwitchInv, pc \in SystemCallPoints
  PROVE  task_get_stack_item(cpu, current_task) = Argument
<1>1. /\ registers[current_task] = Packed(stopped[current_task])
      /\ IsCpu(cpu)
  BY CommandFacts DEF Saved
<1>2. task_page(cpu, current_task).cr3 = current_task
  BY <1>1, PagesKeepRegisters
<1>3. At(registers[current_task], 40) = stopped[current_task]["esp"]
  BY <1>1 DEF At, Packed
<1> QED
  BY <1>2, <1>3 DEF task_get_stack_item, Argument

(* The commands that return at once: putchar, malloc, free and the others. *)
LEMMA CommandsPreserve ==
  ASSUME SwitchInv,
         \/ isr80h_command3_putchar \/ isr80h_command4_malloc
         \/ isr80h_command5_free \/ isr80h_other_command
         \/ CopyWithoutMemory
  PROVE  SwitchInv'
<1>1. pc = "command" /\ pc \in SystemCallPoints
  BY DEF isr80h_command3_putchar, isr80h_command4_malloc, isr80h_command5_free,
         isr80h_other_command, CopyWithoutMemory, CallsWithString, Calls,
         SystemCallPoints
<1>2. /\ owned \in [Tasks -> SUBSET Pages] /\ writable = owned
      /\ buf = Nothing
  BY <1>1 DEF SwitchInv, MemoryInv, BufferInv
<1>3. \A res : Returns(res) => pc' = "return" /\ current_task' = current_task
  BY DEF Returns
<1>4. CASE isr80h_command3_putchar
  <2>1. /\ Returns(Result(0)) /\ live' = live /\ owned' = owned
        /\ writable' = writable
        /\ buf' = task_get_stack_item(cpu, current_task)
        /\ Field(kstack, "eax") = Command("putchar")
    BY <1>4 DEF isr80h_command3_putchar, Calls, memory
  <2>2. MemoryInv'
    BY <1>2, <1>3, <2>1 DEF MemoryInv
  <2> QED
    BY <1>1, <2>1, <2>2, ArgumentIs, ReturnsPreserves
<1>5. CASE isr80h_command4_malloc
  <2>1. PICK res \in {Result(0), Result(1)} : Returns(res)
    BY <1>5 DEF isr80h_command4_malloc
  <2>2. /\ buf' = buf /\ live' = live
        /\ \/ owned' = owned /\ writable' = writable
           \/ \E page \in Pages :
                /\ owned' = [owned EXCEPT ![current_task] = @ \cup {page}]
                /\ writable' = [writable EXCEPT ![current_task] = @ \cup {page}]
    BY <1>5 DEF isr80h_command4_malloc, memory, buffer, Free
  <2>3. owned' \in [Tasks -> SUBSET Pages] /\ writable' = owned'
    BY <1>2, <2>2
  <2>4. MemoryInv'
    BY <1>3, <2>1, <2>3 DEF MemoryInv
  <2> QED
    BY <1>1, <1>2, <2>1, <2>2, <2>4, ReturnsPreserves
<1>6. CASE isr80h_command5_free
  <2>1. /\ Returns(Result(0)) /\ buf' = buf /\ live' = live
        /\ \E pages :
             /\ owned' = [owned EXCEPT ![current_task] = @ \ pages]
             /\ writable' = [writable EXCEPT ![current_task] = @ \ pages]
    BY <1>6 DEF isr80h_command5_free, buffer
  <2>2. owned' \in [Tasks -> SUBSET Pages] /\ writable' = owned'
    BY <1>2, <2>1
  <2>3. MemoryInv'
    BY <1>3, <2>1, <2>2 DEF MemoryInv
  <2> QED
    BY <1>1, <1>2, <2>1, <2>3, ReturnsPreserves
<1>7. CASE isr80h_other_command
  <2>1. PICK res \in {Result(0), Result(1)} : Returns(res)
    BY <1>7 DEF isr80h_other_command
  <2>2. /\ buf' = buf /\ live' = live /\ owned' = owned
        /\ writable' = writable
    BY <1>7 DEF isr80h_other_command, memory, buffer
  <2>3. MemoryInv'
    BY <1>2, <1>3, <2>1, <2>2 DEF MemoryInv
  <2> QED
    BY <1>1, <1>2, <2>1, <2>2, <2>3, ReturnsPreserves
<1>8. CASE CopyWithoutMemory
  <2>1. /\ Returns(Result(0)) /\ buf' = Garbage /\ live' = live
        /\ owned' = owned /\ writable' = writable
    BY <1>8 DEF CopyWithoutMemory, memory
  <2>2. MemoryInv'
    BY <1>2, <1>3, <2>1 DEF MemoryInv
  <2> QED
    BY <1>1, <2>1, <2>2, ReturnsPreserves
<1> QED
  BY <1>4, <1>5, <1>6, <1>7, <1>8

(* A command that could not load a program returns as well.                *)
LEMMA LoadFailsPreserves ==
  ASSUME SwitchInv, LoadFails
  PROVE  SwitchInv'
<1>1. pc = "load" /\ pc \in SystemCallPoints
  BY DEF LoadFails, SystemCallPoints
<1>2. PICK res \in {Result(0), Result(1)} : Returns(res)
  BY DEF LoadFails
<1>3. /\ buf' = buf /\ live' = live /\ owned' = owned /\ writable' = writable
      /\ pc' = "return"
  BY <1>2 DEF LoadFails, memory, buffer, Returns
<1>4. MemoryInv'
  BY <1>1, <1>3 DEF SwitchInv, MemoryInv
<1>5. \/ buf' \in {Nothing, Garbage}
      \/ buf' = IF Field(kstack, "eax") = Command("putchar")
                THEN Argument
                ELSE StringAt(current_task, Argument)
  BY <1>1, <1>3 DEF SwitchInv, BufferInv
<1> QED
  BY <1>1, <1>2, <1>3, <1>4, <1>5, ReturnsPreserves

-----------------------------------------------------------------------------
(* The copy of a string. *)

(* Commands that copy a string are not putchar.                            *)
LEMMA StringCallsDiffer ==
  Calls("print") \/ Calls("load") \/ Calls("system") =>
    Field(kstack, "eax") # Command("putchar")
BY CommandsDiffer DEF Calls

(* The page of the copy is written into the directory of the caller.       *)
LEMMA CopyBeginPreserves ==
  ASSUME SwitchInv, CopyBegin
  PROVE  SwitchInv'
<1>1. /\ pc = "command" /\ pc' = "copy"
      /\ cpu' = task_switch(cpu, current_task)
      /\ UNCHANGED <<kstack, vector, registers, current_task, live, owned, buf,
                     in_service, stopped>>
      /\ Field(kstack, "eax") # Command("putchar")
  BY StringCallsDiffer DEF CopyBegin, CallsWithString, Calls
<1>2. PICK page \in Free :
        /\ tmp' = page
        /\ old_entry' = (page \in writable[current_task])
        /\ writable' = [writable EXCEPT ![current_task] = @ \cup {page}]
  BY DEF CopyBegin
<1>3. pc \in SystemCallPoints /\ pc' \in SystemCallPoints
  BY <1>1 DEF SystemCallPoints
<1>4. /\ owned \in [Tasks -> SUBSET Pages] /\ writable = owned
      /\ buf = Nothing /\ page \in Pages
  BY <1>1, <1>2 DEF SwitchInv, MemoryInv, BufferInv, Free
<1>5. CpuInv'
  BY <1>1, <1>3, CommandFacts, PagesKeepRegisters DEF CpuInv
<1>6. MemoryInv'
  <2>1. current_task \in Tasks
    BY <1>3, CommandFacts
  <2>2. writable' \in [Tasks -> SUBSET Pages]
    BY <1>2, <1>4
  <2>3. writable' = [owned' EXCEPT ![current_task'] = @ \cup {tmp'}]
    BY <1>1, <1>2, <1>4
  <2>4. CASE page \in writable[current_task]
    <3>1. writable' = owned'
      BY <1>1, <1>2, <1>4, <2>1, <2>4
    <3> QED
      BY <1>1, <1>2, <1>4, <2>2, <2>4, <3>1 DEF MemoryInv
  <2>5. CASE page \notin writable[current_task]
    <3>1. tmp' \notin owned'[current_task'] /\ ~old_entry'
      BY <1>1, <1>2, <1>4, <2>5
    <3> QED
      BY <1>1, <1>4, <2>2, <2>3, <3>1 DEF MemoryInv
  <2> QED
    BY <2>4, <2>5
<1>7. BufferInv'
  BY <1>1, <1>4 DEF BufferInv
<1> QED
  BY <1>1, <1>3, <1>5, <1>6, <1>7, StillInCommand DEF SwitchInv

(* The string is read in the directory of the caller.                      *)
LEMMA CopyStringPreserves ==
  ASSUME SwitchInv, CopyString
  PROVE  SwitchInv'
<1>1. /\ pc = "copy" /\ pc' = "copied"
      /\ buf' = StringAt(cpu.cr3, task_get_stack_item(cpu, current_task))
      /\ cpu' = kernel_page(cpu)
      /\ UNCHANGED <<kstack, vector, registers, current_task, live, owned,
                     writable, tmp, old_entry, in_service, stopped>>
  BY DEF CopyString, memory
<1>2. pc \in SystemCallPoints /\ pc' \in SystemCallPoints
  BY <1>1 DEF SystemCallPoints
<1>3. cpu.cr3 = current_task /\ Field(kstack, "eax") # Command("putchar")
  BY <1>1 DEF SwitchInv, CpuInv, BufferInv
<1>4. CpuInv'
  BY <1>1, <1>2, CommandFacts, PagesKeepRegisters DEF CpuInv
<1>5. MemoryInv'
  BY <1>1 DEF SwitchInv, MemoryInv
<1>6. BufferInv'
  BY <1>1, <1>2, <1>3, ArgumentIs DEF BufferInv, Argument
<1> QED
  BY <1>1, <1>2, <1>4, <1>5, <1>6, StillInCommand DEF SwitchInv

(* The page of the copy is taken out again.                                *)
LEMMA CopyEndPreserves ==
  ASSUME SwitchInv, CopyEnd
  PROVE  SwitchInv'
<1>1. /\ pc = "copied" /\ pc' \in {"return", "load"}
      /\ writable' = IF old_entry
                     THEN writable
                     ELSE [writable EXCEPT ![current_task] = @ \ {tmp}]
      /\ cpu' = [cpu EXCEPT !.regs["eax"] = Result(0)]
      /\ UNCHANGED <<kstack, vector, registers, current_task, live, owned,
                     old_entry, buf, in_service, stopped>>
  BY DEF CopyEnd
<1>2. pc \in SystemCallPoints /\ pc' \in SystemCallPoints
  BY <1>1 DEF SystemCallPoints
<1>3. CpuInv'
  BY <1>1, <1>2, CommandFacts, ResultSet, ZenonT(60) DEF CpuInv
<1>4. MemoryInv'
  <2>1. owned \in [Tasks -> SUBSET Pages]
    BY DEF SwitchInv, MemoryInv
  <2>2. writable' = owned
    <3>1. CASE old_entry
      BY <1>1, <3>1 DEF SwitchInv, MemoryInv
    <3>2. CASE ~old_entry
      <4>1. /\ tmp \notin owned[current_task]
            /\ writable = [owned EXCEPT ![current_task] = @ \cup {tmp}]
            /\ current_task \in Tasks
        BY <1>1, <1>2, <3>2, CommandFacts DEF SwitchInv, MemoryInv
      <4>2. writable' = [writable EXCEPT ![current_task] = @ \ {tmp}]
        BY <1>1, <3>2
      <4>3. (owned[current_task] \cup {tmp}) \ {tmp} = owned[current_task]
        BY <4>1
      <4> QED
        BY <2>1, <4>1, <4>2, <4>3
    <3> QED
      BY <3>1, <3>2
  <2> QED
    BY <1>1, <2>1, <2>2 DEF MemoryInv
<1>5. BufferInv'
  BY <1>1 DEF SwitchInv, BufferInv, Argument
<1> QED
  BY <1>1, <1>2, <1>3, <1>4, <1>5, StillInCommand DEF SwitchInv

(* Command 7 reads the words of the caller in the caller's directory.      *)
LEMMA InvokeSystemPreserves ==
  ASSUME SwitchInv, isr80h_command7_invoke_system_command
  PROVE  SwitchInv'
<1>1. /\ pc = "command" /\ pc' = "load"
      /\ buf' = StringAt(current_task, task_get_stack_item(cpu, current_task))
      /\ Field(kstack, "eax") # Command("putchar")
      /\ UNCHANGED <<cpu, kstack, vector, registers, current_task, live, owned,
                     writable, tmp, old_entry, in_service, stopped>>
  BY StringCallsDiffer
     DEF isr80h_command7_invoke_system_command, Calls, memory
<1>2. pc \in SystemCallPoints /\ pc' \in SystemCallPoints
  BY <1>1 DEF SystemCallPoints
<1>3. CpuInv'
  BY <1>1, <1>2, CommandFacts DEF CpuInv
<1>4. MemoryInv'
  BY <1>1 DEF SwitchInv, MemoryInv
<1>5. BufferInv'
  BY <1>1, <1>2, ArgumentIs DEF BufferInv, Argument
<1> QED
  BY <1>1, <1>2, <1>3, <1>4, <1>5, StillInCommand DEF SwitchInv

-----------------------------------------------------------------------------
(* The theorems. *)

(* The kernel jumps into its first task as task_return does.               *)
LEMMA SwitchInit == Init => SwitchInv
<1> SUFFICES ASSUME Init
             PROVE  SwitchInv
  OBVIOUS
<1>1. /\ live = {1} /\ current_task = 1 /\ 1 \in Tasks
      /\ registers = [t \in Tasks |-> task_init(t)]
      /\ stopped = FreshRegisters
      /\ pc = "user" /\ buf = Nothing /\ in_service = FALSE
      /\ owned = [t \in Tasks |-> {}] /\ writable = [t \in Tasks |-> {}]
  BY ContextSwitchAssumption DEF Init
<1>2. PICK f : f = FreshRegisters[1]
  OBVIOUS
<1>3. IsRegisters(f) /\ registers[1] = Packed(f)
  BY <1>1, <1>2, FreshHaveRegisters, InitIsPacked
<1>4. PICK c : c = [regs |-> [r \in Names |-> IF r = "flags" THEN CliFlags
                                              ELSE KernelValue(r)],
                   segs |-> KERNEL_DATA_SELECTOR, cr3 |-> 1]
  OBVIOUS
<1>5. c.regs["flags"] = CliFlags /\ c.cr3 = 1
  BY <1>4, NamesAre DEF NamesSet
<1>6. cpu = task_return(c, Packed(f))
  BY <1>1, <1>2, <1>4, InitIsPacked DEF Init
<1>7. /\ IsCpu(cpu) /\ IsRegisters(cpu.regs)
      /\ cpu.segs = USER_DATA_SEGMENT /\ cpu.cr3 = 1
  BY <1>3, <1>5, <1>6, ReturnsToProgram
<1>8. TasksInv
  <2>1. \A t \in Tasks : IsRegisters(stopped[t])
    BY <1>1, FreshHaveRegisters
  <2>2. IsStruct(registers[1])
    BY <1>3, PackedIsStruct
  <2>3. /\ registers = [t \in Tasks |-> registers[t]]
        /\ stopped = [t \in Tasks |-> stopped[t]]
    BY <1>1 DEF FreshRegisters
  <2> QED
    BY <1>1, <2>1, <2>2, <2>3 DEF TasksInv
<1>9. CpuInv
  BY <1>1, <1>7 DEF CpuInv, KernelPoints, SystemCallPoints
<1>10. FrameInv
  BY <1>1 DEF FrameInv, KernelPoints, SystemCallPoints
<1>11. MemoryInv /\ BufferInv
  BY <1>1 DEF MemoryInv, BufferInv
<1> QED
  BY <1>8, <1>9, <1>10, <1>11 DEF SwitchInv

(* Whatever programs do and however often the kernel switches between      *)
(* them, the registers of each are where the invariant says.               *)
THEOREM SwitchInvariant == Spec => []SwitchInv
<1>1. Init => SwitchInv
  BY SwitchInit
<1>2. SwitchInv /\ [Next]_vars => SwitchInv'
  <2> SUFFICES ASSUME SwitchInv, [Next]_vars
               PROVE  SwitchInv'
    OBVIOUS
  <2>1. CASE UserStep
    BY <2>1, UserStepPreserves
  <2>2. CASE \/ \E kind \in {"clock", "keyboard", "unused"} :
                  DeviceInterrupts(kind) \/ SoftwareInterrupt(kind)
             \/ \E code \in {<<>>, <<Value("error code", 0, "", 0)>>} :
                  Exception(code)
             \/ DivideError
             \/ \E c \in Commands : SystemCall(c)
    BY <2>2, WaysInPreserve
  <2>3. CASE interrupt_handler \/ isr80h_handler
    BY <2>3, HandlersPreserve
  <2>4. CASE idt_clock
    BY <2>4, ClockPreserves
  <2>5. CASE classic_keyboard_handle_interrupt
    BY <2>5, KeyboardHandlerPreserves
  <2>6. CASE TerminateAndNext
    BY <2>6, TerminateAndNextPreserves
  <2>7. CASE TerminateAndPanic
    BY <2>7, TerminateAndPanicPreserves
  <2>8. CASE interrupt_handler_end \/ isr80h_handler_end
    BY <2>8, HandlerEndsPreserve
  <2>9. CASE idt_zero
    BY <2>9, IdtZeroPreserves
  <2>10. CASE \/ isr80h_command3_putchar \/ isr80h_command4_malloc
              \/ isr80h_command5_free \/ isr80h_other_command
              \/ CopyWithoutMemory
    BY <2>10, CommandsPreserve
  <2>11. CASE CopyBegin
    BY <2>11, CopyBeginPreserves
  <2>12. CASE CopyString
    BY <2>12, CopyStringPreserves
  <2>13. CASE CopyEnd
    BY <2>13, CopyEndPreserves
  <2>14. CASE isr80h_command7_invoke_system_command
    BY <2>14, InvokeSystemPreserves
  <2>15. CASE LoadAndSwitch
    BY <2>15, LoadAndSwitchPreserves
  <2>16. CASE LoadFails
    BY <2>16, LoadFailsPreserves
  <2>17. CASE iret
    BY <2>17, IretPreserves
  <2>18. CASE UNCHANGED vars
    <3>1. UNCHANGED <<pc, cpu, kstack, vector, registers, current_task, live,
                      owned, writable, tmp, old_entry, buf, in_service,
                      stopped>>
      BY <2>18 DEF vars
    <3>2. TasksInv'
      BY <3>1 DEF SwitchInv, TasksInv, Saved, Doomed
    <3>3. CpuInv'
      BY <3>1 DEF SwitchInv, CpuInv
    <3>4. FrameInv'
      BY <3>1 DEF SwitchInv, FrameInv, Saved
    <3>5. MemoryInv'
      BY <3>1 DEF SwitchInv, MemoryInv
    <3>6. BufferInv'
      BY <3>1 DEF SwitchInv, BufferInv, Argument
    <3> QED
      BY <3>2, <3>3, <3>4, <3>5, <3>6 DEF SwitchInv
  <2> QED
    BY <2>1, <2>2, <2>3, <2>4, <2>5, <2>6, <2>7, <2>8, <2>9, <2>10, <2>11,
       <2>12, <2>13, <2>14, <2>15, <2>16, <2>17, <2>18 DEF Next
<1> QED
  BY <1>1, <1>2, PTL DEF Spec

(* The struct registers of a task holds in every field a value of that     *)
(* register, also after the kernel has saved and loaded it by offset.      *)
THEOREM SwitchTypeCorrect == Spec => []TypeOK
<1>1. SwitchInv => TypeOK
  <2> SUFFICES ASSUME SwitchInv
               PROVE  TypeOK
    OBVIOUS
  <2>1. /\ live \subseteq Tasks /\ current_task \in Tasks
        /\ \A t \in Tasks : IsRegisters(stopped[t])
        /\ \A t \in live \ {current_task} : registers[t] = Packed(stopped[t])
        /\ current_task \in live \ Doomed => IsStruct(registers[current_task])
    BY DEF SwitchInv, TasksInv, Saved
  <2>2. ASSUME NEW t \in live \ Doomed
        PROVE  IsStruct(registers[t])
    BY <2>1, PackedIsStruct
  <2>3. \A t \in live \ Doomed : \A n \in DOMAIN RegistersStruct :
          registers[t][n] \in ValuesOf[RegistersStruct[n]]
    BY <2>2, RegistersAre DEF IsStruct
  <2>4. pc = "user" => \A r \in Names : cpu.regs[r] \in ValuesOf[r]
    BY DEF SwitchInv, CpuInv, IsRegisters
  <2>5. \A t \in Tasks : owned[t] \subseteq Pages /\ writable[t] \subseteq Pages
    BY DEF SwitchInv, MemoryInv
  <2> QED
    BY <2>1, <2>3, <2>4, <2>5 DEF TypeOK
<1> QED
  BY <1>1, SwitchInvariant, PTL

(* A program always runs as a program: with the segments and the page      *)
(* directory that are its own, interrupts enabled, and without a page of   *)
(* the kernel left open to it by a copied string.                          *)
THEOREM ProgramsAreConfined == Spec => []UserRunsAsUser
<1>1. SwitchInv => UserRunsAsUser
  <2> SUFFICES ASSUME SwitchInv
               PROVE  UserRunsAsUser
    OBVIOUS
  <2>1. pc = "wild" => vector = "divide error"
    BY DEF SwitchInv, FrameInv
  <2>2. ASSUME pc = "user"
        PROVE  /\ current_task \in live /\ ~in_service
               /\ cpu.segs = USER_DATA_SEGMENT /\ cpu.cr3 = current_task
               /\ IsRegisters(cpu.regs)
               /\ writable = owned
    BY <2>2 DEF SwitchInv, FrameInv, CpuInv, MemoryInv
  <2>3. ASSUME pc = "user"
        PROVE  cpu.regs["cs"] = USER_CODE_SEGMENT /\ Enabled(cpu.regs["flags"])
    BY <2>2, <2>3, ValuesAre, NamesAre DEF IsRegisters, NamesSet
  <2> QED
    BY <2>1, <2>2, <2>3 DEF UserRunsAsUser
<1> QED
  BY <1>1, SwitchInvariant, PTL

(* A system call reads the memory of the program that made it.             *)
THEOREM CallersAreRead == Spec => []ReadsCallersMemory
<1>1. SwitchInv => ReadsCallersMemory
  BY DEF SwitchInv, BufferInv, ReadsCallersMemory, Argument
<1> QED
  BY <1>1, SwitchInvariant, PTL

(* Each program goes on with the registers it stopped with: no step of the *)
(* kernel hands a program the registers of another or forgets one.         *)
THEOREM ProgramsResume == Spec => ResumesAsStopped
<1> DEFINE before == IF current_task' \in live
                     THEN stopped[current_task']
                     ELSE FreshRegisters[current_task']
           Resumed == \A r \in Names :
             cpu'.regs[r] = CASE r = "flags" /\ pc # "iret" -> cpu'.regs[r]
                              [] r = "eax" /\ pc = "iret" /\ vector = "0x80"
                                   -> cpu.regs["eax"]
                              [] OTHER -> before[r]
<1>1. SwitchInv /\ [Next]_vars => [pc # "user" /\ pc' = "user" => Resumed]_vars
  <2> SUFFICES ASSUME SwitchInv, Next, pc # "user", pc' = "user"
               PROVE  Resumed
    OBVIOUS
  <2>1. idt_clock \/ TerminateAndNext \/ LoadAndSwitch \/ iret
    BY DEF Next, UserStep, DeviceInterrupts, SoftwareInterrupt, Exception,
           DivideError, SystemCall, Enter, interrupt_handler,
           classic_keyboard_handle_interrupt, TerminateAndPanic,
           interrupt_handler_end, idt_zero, isr80h_handler,
           isr80h_command3_putchar, isr80h_command4_malloc,
           isr80h_command5_free, isr80h_other_command, CopyWithoutMemory,
           CopyBegin, CopyString, CopyEnd,
           isr80h_command7_invoke_system_command, LoadFails,
           isr80h_handler_end, Returns
  <2>2. CASE idt_clock
    <3>1. pc # "iret"
      BY <2>2 DEF idt_clock
    <3>2. /\ current_task' \in live
          /\ \A r \in Names : r # "flags" =>
               cpu'.regs[r] = stopped[current_task'][r]
      BY <2>2, ClockPreserves
    <3> QED
      BY <3>1, <3>2
  <2>3. CASE TerminateAndNext
    <3>1. pc # "iret"
      BY <2>3 DEF TerminateAndNext, Ends
    <3>2. /\ current_task' \in live
          /\ \A r \in Names : r # "flags" =>
               cpu'.regs[r] = stopped[current_task'][r]
      BY <2>3, TerminateAndNextPreserves
    <3> QED
      BY <3>1, <3>2
  <2>4. CASE LoadAndSwitch
    <3>1. pc # "iret"
      BY <2>4 DEF LoadAndSwitch
    <3>2. /\ current_task' \notin live
          /\ \A r \in Names : r # "flags" =>
               cpu'.regs[r] = FreshRegisters[current_task'][r]
      BY <2>4, LoadAndSwitchPreserves
    <3> QED
      BY <3>1, <3>2
  <2>5. CASE iret
    <3>1. pc = "iret"
      BY <2>5 DEF iret
    <3>2. /\ current_task' = current_task /\ current_task \in live
          /\ \A r \in Names :
               cpu'.regs[r] = IF r = "eax" /\ vector = "0x80"
                              THEN cpu.regs["eax"]
                              ELSE stopped[current_task][r]
      BY <2>5, IretPreserves
    <3> QED
      BY <3>1, <3>2
  <2> QED
    BY <2>1, <2>2, <2>3, <2>4, <2>5
<1> QED
  BY <1>1, SwitchInvariant, PTL DEF Spec, ResumesAsStopped

=============================================================================
