-------------------------------- MODULE Heap --------------------------------
(***************************************************************************)
(* The kernel heap as its users see it: kmalloc and kfree of               *)
(* src/memory/heap/kheap.c over the block table of module HeapTable.       *)
(*                                                                         *)
(* Its users are the pointer variables of the kernel that own memory.  A   *)
(* user asks for a size, keeps the address it is given, and frees that     *)
(* address at most once: what the kernel does with a pointer after it      *)
(* freed it is the business of the modules that model those users.         *)
(***************************************************************************)
EXTENDS HeapTable

CONSTANTS Handles, \* the pointer variables of the kernel that own memory
          Sizes    \* the sizes, in bytes, they ask for

ASSUME SizesAssumption == Sizes \subseteq Nat

VARIABLES entries, \* kernel_heap_table.entries
          held     \* what each handle points at: an address and, for the
                   \* properties, the number of blocks asked for

vars == <<entries, held>>

NoMemory == [addr |-> NULL, blocks |-> 0]

-----------------------------------------------------------------------------

kheap_init == /\ entries = EmptyTable
              /\ held = [h \in Handles |-> NoMemory]

kmalloc(h, size) ==
  LET new == heap_malloc(entries, size)
  IN  /\ held[h] = NoMemory
      /\ new.addr # NULL
      /\ entries' = new.table
      /\ held' = [held EXCEPT ![h] = [addr   |-> new.addr,
                                      blocks |-> TotalBlocks(size)]]

(* The call that returns NULL: nothing changes. *)
kmallocFails(h, size) ==
  /\ held[h] = NoMemory
  /\ heap_malloc(entries, size).addr = NULL
  /\ UNCHANGED vars

kfree(h) == /\ held[h] # NoMemory
            /\ entries' = heap_free(entries, held[h].addr)
            /\ held' = [held EXCEPT ![h] = NoMemory]

Next == \E h \in Handles :
          \/ \E size \in Sizes : kmalloc(h, size) \/ kmallocFails(h, size)
          \/ kfree(h)

Spec == kheap_init /\ [][Next]_vars

-----------------------------------------------------------------------------
(* Properties. *)

TypeOK == /\ entries \in [Blocks -> Entry]
          /\ held \in [Handles -> [addr : Nat, blocks : Nat]]

Live(h) == held[h] # NoMemory

(* The blocks a handle owns: those past the end of the table included. *)
FirstBlock(h) == heap_address_to_block(held[h].addr)
LastBlock(h)  == FirstBlock(h) + held[h].blocks - 1
Extent(h)     == FirstBlock(h)..LastBlock(h)

(***************************************************************************)
(* Every address kmalloc returned is the address of a block of the pool,   *)
(* and at least one block was marked taken for it.                         *)
(***************************************************************************)
WellPlaced == \A h \in Handles : Live(h) =>
                /\ held[h].blocks >= 1
                /\ \E s \in Blocks : held[h].addr = heap_block_to_address(s)

(***************************************************************************)
(* No block belongs to two allocations, whatever the order of the mallocs  *)
(* and frees (heap_get_start_block, heap_mark_blocks_free).                *)
(***************************************************************************)
NoOverlap == \A g, h \in Handles :
               g # h /\ Live(g) /\ Live(h) => Extent(g) \cap Extent(h) = {}

(***************************************************************************)
(* The table says exactly what is allocated: no block of a live allocation *)
(* is marked free, no block stays taken after its allocation was freed,    *)
(* and the flags delimit the allocations, so that a free which follows the *)
(* has-next chain ends where the allocation ends.                          *)
(***************************************************************************)
TableExact ==
  /\ \A b \in Blocks : entries[b] # HEAP_BLOCK_TABLE_ENTRY_FREE
                         => \E h \in Handles : Live(h) /\ b \in Extent(h)
  /\ \A h \in Handles : Live(h) =>
       \A b \in Blocks \cap Extent(h) :
         /\ entries[b].taken
         /\ entries[b].first <=> b = FirstBlock(h)
         /\ entries[b].next <=> b # LastBlock(h)

(* The inductive invariant of module HeapProofs. *)
HeapInv == TypeOK /\ WellPlaced /\ NoOverlap /\ TableExact

(***************************************************************************)
(* A request for at least one block, which all requests are but those of   *)
(* size 0 and those so near 2^32 that heap_align_value_to_upper wraps to 0.*)
(***************************************************************************)
PositiveRequests == \A size \in Sizes : TotalBlocks(size) >= 1

(***************************************************************************)
(* The heap implements module Allocator.  The regions are read off the     *)
(* table, not off the handles: a region begins at a block with the first   *)
(* flag and ends where the has-next chain, or the table, ends.             *)
(***************************************************************************)
TableRegions ==
  {r \in Blocks \X Blocks :
     /\ r[1] <= r[2]
     /\ entries[r[1]].first
     /\ \A b \in r[1]..(r[2] - 1) : entries[b].next
     /\ entries[r[2]].next => r[2] = Total - 1}

Abstract == INSTANCE Allocator WITH Units <- Blocks, regions <- TableRegions

ImplementsAllocator == Abstract!Spec

=============================================================================
