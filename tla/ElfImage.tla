------------------------------ MODULE ElfImage ------------------------------
(***************************************************************************)
(* From the headers of an ELF file to the page directory of its process:   *)
(* src/loader/formats/elfloader.c, process_map_memory of                   *)
(* src/task/process.c and the page tables of src/memory/paging/paging.c.   *)
(*                                                                         *)
(* The file is in memory and the stack is allocated: what module           *)
(* ProcessMemory says about the blocks is not repeated here. An address is *)
(* a number below the size of the address space, as many bytes as the page *)
(* tables have entries for, and is computed modulo that size.              *)
(***************************************************************************)
EXTENDS Integers, SequencesExt

CONSTANTS
  PAGING_PAGE_SIZE,
  PAGING_TOTAL_ENTRIES_PER_TABLE,
  BENOS_PROGRAM_VIRTUAL_ADDRESS,
  BENOS_PROGRAM_VIRTUAL_STACK_ADDRESS_END,
  BENOS_USER_PROGRAM_STACK_SIZE,
  ElfFile,   \* where the struct elf_file is,
  ElfMem,    \*       the contents of the file,
  FileSize,  \*       as many bytes,
  Stack,     \*       and the stack of the process
  Files      \* the headers files may have

ASSUME ElfImageAssumption ==
  /\ PAGING_PAGE_SIZE \in Nat \ {0}
  /\ PAGING_TOTAL_ENTRIES_PER_TABLE \in Nat \ {0}
  /\ \A addr \in {ElfFile, ElfMem, Stack} : addr % PAGING_PAGE_SIZE = 0

VARIABLES
  file,       \* the file that is loaded
  pc, i,
  base, end,  \* the base and end addresses in the struct elf_file
  directory   \* the page tables of the task, one per directory entry

vars == <<file, pc, i, base, end, directory>>

-----------------------------------------------------------------------------
(* Addresses *)

TableSpan == PAGING_TOTAL_ENTRIES_PER_TABLE * PAGING_PAGE_SIZE
Indexes == 0..(PAGING_TOTAL_ENTRIES_PER_TABLE - 1)
Word(n) == n % (PAGING_TOTAL_ENTRIES_PER_TABLE * TableSpan)

IsAligned(addr) == addr % PAGING_PAGE_SIZE = 0

(* Variant: an aligned address moves on as well. *)
AlwaysNextPage(addr) ==
  Word(addr + PAGING_PAGE_SIZE - (addr % PAGING_PAGE_SIZE))

paging_align_address(addr) ==
  IF IsAligned(addr)
  THEN addr
  ELSE Word(addr + PAGING_PAGE_SIZE - (addr % PAGING_PAGE_SIZE))

paging_align_to_lower_page(addr) == addr - (addr % PAGING_PAGE_SIZE)

-----------------------------------------------------------------------------
(* Page tables *)

Present == "PAGING_IS_PRESENT"
User == "PAGING_ACCESS_FROM_ALL"
Writable == "PAGING_IS_WRITABLE"

PageEntry(addr, flags) == [addr |-> addr, flags |-> flags]

(* Where paging_get_indexes finds an aligned address. *)
DirIndex(addr) == addr \div TableSpan
TableIndex(addr) == (addr % TableSpan) \div PAGING_PAGE_SIZE

paging_new_4gb(flags) ==
  [d \in Indexes |-> [t \in Indexes |->
     PageEntry(d * TableSpan + t * PAGING_PAGE_SIZE, flags)]]

paging_set(dir, virt, entry) ==
  [dir EXCEPT ![DirIndex(virt)][TableIndex(virt)] = entry]

paging_get(dir, virt) == dir[DirIndex(virt)][TableIndex(virt)]

paging_get_phys_addr(dir, virt) ==
  LET page == paging_align_to_lower_page(virt)
  IN  Word(paging_get(dir, page).addr + (virt - page))

(* Variant: every page is mapped to the first one. *)
MapOnePage(dir, virt, phys, count, flags) ==
  FoldLeft(LAMBDA d, n : paging_set(d, Word(virt + n * PAGING_PAGE_SIZE),
                                    PageEntry(phys, flags)),
           dir, [n \in 1..count |-> n - 1])

paging_map_range(dir, virt, phys, count, flags) ==
  FoldLeft(LAMBDA d, n : paging_set(d, Word(virt + n * PAGING_PAGE_SIZE),
                                    PageEntry(Word(phys + n * PAGING_PAGE_SIZE),
                                              flags)),
           dir, [n \in 1..count |-> n - 1])

(* Is the request one that paging_map_to refuses? *)
Refuses(virt, phys, phys_end) == \/ ~IsAligned(virt)
                                 \/ ~IsAligned(phys)
                                 \/ ~IsAligned(phys_end)
                                 \/ phys_end <= phys

paging_map_to(dir, virt, phys, phys_end, flags) ==
  IF Refuses(virt, phys, phys_end)
  THEN dir
  ELSE paging_map_range(dir, virt, phys,
                        (phys_end - phys) \div PAGING_PAGE_SIZE, flags)

-----------------------------------------------------------------------------
(* The ELF file *)

elf_phdr_phys_address(phdr) == Word(ElfMem + phdr.p_offset)

elf_valid_class(header) == header.class \in {"ELFCLASSNONE", "ELFCLASS32"}

elf_valid_encoding(header) == header.data \in {"ELFDATANONE", "ELFDATA2LSB"}

elf_validate_loaded(header) == /\ header.signature
                               /\ elf_valid_class(header)
                               /\ elf_valid_encoding(header)
                               /\ header.e_phoff # 0

NoAddress == [virt |-> 0, phys |-> 0]

LowerBase(phdr) ==
  IF base.virt >= phdr.p_vaddr \/ base.virt = 0
  THEN [virt |-> phdr.p_vaddr, phys |-> elf_phdr_phys_address(phdr)]
  ELSE base

HigherEnd(phdr) ==
  LET virt_end == Word(phdr.p_vaddr + phdr.p_filesz)
  IN  IF end.virt <= virt_end \/ end.virt = 0
      THEN [virt |-> virt_end,
            phys |-> Word(elf_phdr_phys_address(phdr) + phdr.p_filesz)]
      ELSE end

(* Where process_map_elf maps a header, whatever its type. *)
PhysStart(phdr) == paging_align_to_lower_page(elf_phdr_phys_address(phdr))
PhysEnd(phdr) ==
  paging_align_address(Word(elf_phdr_phys_address(phdr) + phdr.p_memsz))
VirtStart(phdr) == paging_align_to_lower_page(phdr.p_vaddr)

HeaderFlags(phdr) == {Present, User} \cup (IF phdr.PF_W THEN {Writable} ELSE {})

-----------------------------------------------------------------------------
(* The load *)

Init == /\ file \in Files
        /\ pc = "validate"
        /\ i = 1
        /\ base = NoAddress
        /\ end = NoAddress
        /\ directory = paging_new_4gb({Present, User})

(***************************************************************************)
(* elf_load returns 0 for a file it refuses, and the struct elf_file that  *)
(* was not handed out is used: nothing is known from there on.             *)
(***************************************************************************)
elf_process_loaded == /\ pc = "validate"
                      /\ pc' = IF elf_validate_loaded(file.header)
                               THEN "headers" ELSE "wild"
                      /\ UNCHANGED <<file, i, base, end, directory>>

elf_process_pheader == /\ pc = "headers"
                       /\ i <= Len(file.phdrs)
                       /\ i' = i + 1
                       /\ IF file.phdrs[i].p_type = "PT_LOAD"
                          THEN /\ base' = LowerBase(file.phdrs[i])
                               /\ end' = HigherEnd(file.phdrs[i])
                          ELSE UNCHANGED <<base, end>>
                       /\ UNCHANGED <<file, pc, directory>>

elf_process_pheaders_end == /\ pc = "headers"
                            /\ i > Len(file.phdrs)
                            /\ pc' = "map"
                            /\ i' = 1
                            /\ UNCHANGED <<file, base, end, directory>>

(* One header of process_map_elf: one that is refused is the last.         *)
process_map_elf ==
  /\ pc = "map"
  /\ i <= Len(file.phdrs)
  /\ LET phdr == file.phdrs[i]
     IN  /\ directory' = paging_map_to(directory, VirtStart(phdr),
                                       PhysStart(phdr), PhysEnd(phdr),
                                       HeaderFlags(phdr))
         /\ pc' = IF Refuses(VirtStart(phdr), PhysStart(phdr), PhysEnd(phdr))
                  THEN "binary" ELSE "map"
  /\ i' = i + 1
  /\ UNCHANGED <<file, base, end>>

process_map_elf_end == /\ pc = "map"
                       /\ i > Len(file.phdrs)
                       /\ pc' = "binary"
                       /\ UNCHANGED <<file, i, base, end, directory>>

(***************************************************************************)
(* process_map_binary is called for every file, and its 0 takes the place  *)
(* of what process_map_elf returned. process->ptr is the struct elf_file   *)
(* and process->size is 0.                                                 *)
(***************************************************************************)
process_map_binary ==
  /\ pc = "binary"
  /\ directory' = paging_map_to(directory, BENOS_PROGRAM_VIRTUAL_ADDRESS,
                                ElfFile, paging_align_address(ElfFile),
                                {Present, User, Writable})
  /\ pc' = "stack"
  /\ UNCHANGED <<file, i, base, end>>

StackEnd == paging_align_address(Word(Stack + BENOS_USER_PROGRAM_STACK_SIZE))

process_map_stack ==
  /\ pc = "stack"
  /\ directory' = paging_map_to(directory,
                                BENOS_PROGRAM_VIRTUAL_STACK_ADDRESS_END,
                                Stack, StackEnd, {Present, User, Writable})
  /\ pc' = "loaded"
  /\ UNCHANGED <<file, i, base, end>>

Next == \/ elf_process_loaded
        \/ elf_process_pheader
        \/ elf_process_pheaders_end
        \/ process_map_elf
        \/ process_map_elf_end
        \/ process_map_binary
        \/ process_map_stack

Spec == Init /\ [][Next]_vars

-----------------------------------------------------------------------------
(* What the file asks for *)

Headers == DOMAIN file.phdrs
Phdr(k) == file.phdrs[k]
IsLoad(k) == Phdr(k).p_type = "PT_LOAD"

(* The offset of a header is its address up to whole pages. *)
Congruent(k) == Phdr(k).p_vaddr % PAGING_PAGE_SIZE
                  = Phdr(k).p_offset % PAGING_PAGE_SIZE

(* It ends the mapping: no bytes at the start of a page of the file. *)
Empty(k) == Phdr(k).p_memsz = 0 /\ IsAligned(Phdr(k).p_offset)

(* The virtual pages of count bytes from addr on. *)
PagesOf(addr, count) ==
  (addr \div PAGING_PAGE_SIZE)
    ..((addr + count + PAGING_PAGE_SIZE - 1) \div PAGING_PAGE_SIZE - 1)

(* A header whose offset is not congruent can take a page more. *)
Footprint(k) == PagesOf(Phdr(k).p_vaddr,
                        Phdr(k).p_memsz
                          + (IF Congruent(k) THEN 0 ELSE PAGING_PAGE_SIZE))

StackPages == PagesOf(BENOS_PROGRAM_VIRTUAL_STACK_ADDRESS_END,
                      BENOS_USER_PROGRAM_STACK_SIZE)

(* The header has its pages for itself. *)
Alone(k) == /\ Footprint(k) \cap StackPages = {}
            /\ \A j \in Headers \ {k} : Footprint(j) \cap Footprint(k) = {}

(* The memory the segment needs is part of the file. *)
InFile(k) == Phdr(k).p_offset + Phdr(k).p_memsz
               <= paging_align_address(FileSize)

-----------------------------------------------------------------------------
(* Properties *)

Starts == {Phdr(k).p_vaddr : k \in {n \in Headers : IsLoad(n)}}
Ends == {Phdr(k).p_vaddr + Phdr(k).p_filesz : k \in {n \in Headers : IsLoad(n)}}

(* The bounds the struct elf_file keeps of the segments are exact. *)
BoundsExact == Starts # {} => base.virt = Min(Starts) /\ end.virt = Max(Ends)

(* The entry the processor uses for an address. *)
EntryOf(addr) == paging_get(directory, paging_align_to_lower_page(addr))

(* A segment is read, and written if it may be, where the file says. *)
SegmentInPlace(k) ==
  \A d \in 0..(Phdr(k).p_filesz - 1) :
    /\ paging_get_phys_addr(directory, Phdr(k).p_vaddr + d)
         = ElfMem + Phdr(k).p_offset + d
    /\ EntryOf(Phdr(k).p_vaddr + d).flags = HeaderFlags(Phdr(k))

(***************************************************************************)
(* When the load is done, each byte of each segment is where the file says *)
(* it should be, with the rights it should have, and the stack is at its   *)
(* place - if the segment is congruent to its offset, has its pages for    *)
(* itself, and no header before it is an empty one, which ends the mapping *)
(* without anybody noticing (elf_process_pheaders, process_map_memory,     *)
(* paging_map_to, paging_set and paging_get).                              *)
(***************************************************************************)
ImageIsTheFile ==
  pc = "loaded" =>
    /\ BoundsExact
    /\ \A k \in Headers :
         IsLoad(k) /\ Congruent(k) /\ Alone(k) /\ (\A j \in 1..k : ~Empty(j))
           => SegmentInPlace(k)
    /\ \A n \in 0..(BENOS_USER_PROGRAM_STACK_SIZE - 1) :
         paging_get_phys_addr(directory,
                              BENOS_PROGRAM_VIRTUAL_STACK_ADDRESS_END + n)
           = Stack + n

(* The physical addresses of an entry the program may write through. *)
WritableAddrs ==
  {directory[d][t].addr : <<d, t>> \in
     {<<x, y>> \in Indexes \X Indexes : Writable \in directory[x][y].flags}}

(***************************************************************************)
(* The program can write pages of its file and its stack and no others: in *)
(* particular not the struct elf_file that process_map_binary is called    *)
(* with. Only a segment that asks for more memory than the file holds, for *)
(* a .bss, makes what lies behind the file writable, and leaves it as it   *)
(* is (process_map_elf, process_map_binary, paging_map_to).                *)
(***************************************************************************)
WritesFileAndStack ==
  (\A k \in Headers : InFile(k)) =>
    \A addr \in WritableAddrs :
      \/ addr \in ElfMem..(ElfMem + FileSize - 1)
      \/ addr \in Stack..(Stack + BENOS_USER_PROGRAM_STACK_SIZE - 1)

=============================================================================
