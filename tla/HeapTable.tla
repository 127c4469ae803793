----------------------------- MODULE HeapTable -----------------------------
(***************************************************************************)
(* The block table of the kernel heap: src/memory/heap/heap.c.             *)
(*                                                                         *)
(* The data pool is cut into blocks of BENOS_HEAP_BLOCK_SIZE bytes.  One   *)
(* byte per block, the entry table, says whether the block is taken,       *)
(* whether it is the first of an allocation and whether the allocation     *)
(* goes on in the next block.  malloc is a first-fit scan of the table;    *)
(* free follows the has-next chain from the block of the address it is     *)
(* given.                                                                  *)
(*                                                                         *)
(* Every operator takes the table as a parameter: module Heap runs them on *)
(* the table of the kernel heap, module HeapScan compares the scan with    *)
(* the loop of the source.                                                 *)
(***************************************************************************)
EXTENDS Integers

CONSTANTS Total,   \* table->total, the number of blocks of the pool
          WordSize \* 2^32 on the machine: where a size_t wraps around

ASSUME TableAssumption == /\ Total \in Nat \ {0}
                          /\ WordSize \in Nat \ {0}

-----------------------------------------------------------------------------
(* config.h, status.h *)

BENOS_HEAP_BLOCK_SIZE == 4096
BENOS_HEAD_ADDRESS    == 16777216
ENOMEM                == 3

NULL == 0

(***************************************************************************)
(* An entry byte, as its three meaningful bits: HEAP_BLOCK_TABLE_ENTRY_    *)
(* TAKEN, HEAP_BLOCK_IS_FIRST and HEAP_BLOCK_HAS_NEXT.                     *)
(***************************************************************************)
Entry == [taken : BOOLEAN, first : BOOLEAN, next : BOOLEAN]

HEAP_BLOCK_TABLE_ENTRY_FREE ==
  [taken |-> FALSE, first |-> FALSE, next |-> FALSE]

Blocks == 0..(Total - 1)

(* What heap_create leaves behind. *)
EmptyTable == [b \in Blocks |-> HEAP_BLOCK_TABLE_ENTRY_FREE]

-----------------------------------------------------------------------------
(* Address and size arithmetic. *)

heap_block_to_address(block) ==
  BENOS_HEAD_ADDRESS + block * BENOS_HEAP_BLOCK_SIZE

heap_address_to_block(addr) ==
  (addr - BENOS_HEAD_ADDRESS) \div BENOS_HEAP_BLOCK_SIZE

heap_align_value_to_upper(val) ==
  IF val % BENOS_HEAP_BLOCK_SIZE = 0
  THEN val
  ELSE (val - (val % BENOS_HEAP_BLOCK_SIZE) + BENOS_HEAP_BLOCK_SIZE) % WordSize

(* The number of blocks heap_malloc asks heap_malloc_blocks for. *)
TotalBlocks(size) ==
  heap_align_value_to_upper(size) \div BENOS_HEAP_BLOCK_SIZE

-----------------------------------------------------------------------------
(* The first-fit scan. *)

FreeRun(table, s, n) ==
  /\ s + n <= Total
  /\ \A i \in s..(s + n - 1) : ~table[i].taken

(* The free blocks at the end of the table, as far back as they go. *)
IsTrailingRun(table, s) ==
  /\ \A i \in s..(Total - 1) : ~table[i].taken
  /\ s = 0 \/ table[s - 1].taken

(* A variant of the scan that does not reset its count at a taken block. *)
ScanWithoutReset(table, n) ==
  IF \E s \in Blocks : ~table[s].taken
  THEN CHOOSE s \in Blocks : /\ ~table[s].taken
                             /\ \A r \in 0..(s - 1) : table[r].taken
  ELSE -ENOMEM

(***************************************************************************)
(* The scan keeps in bs where the current free run began and stops when    *)
(* that run is n blocks long.  When it reaches the end of the table first, *)
(* bs is still set if the table ends in a free run, however short, and bs  *)
(* is what is returned.  n = 0 never equals the block count, so such a     *)
(* scan always reaches the end.  Module HeapScan has the loop itself.      *)
(***************************************************************************)
heap_get_start_block(table, n) ==
  LET fits == {s \in Blocks : n > 0 /\ FreeRun(table, s, n)}
  IN  IF fits # {}
      THEN CHOOSE s \in fits : \A r \in fits : s <= r
      ELSE IF table[Total - 1].taken
           THEN -ENOMEM
           ELSE CHOOSE s \in Blocks : IsTrailingRun(table, s)

(* A variant whose loop tests i # end_block where the source tests         *)
(* i # end_block - 1: the last block keeps the has-next flag.              *)
MarkLastHasNext(table, s, n) ==
  [i \in Blocks |->
     IF i \in s..(s + n - 1)
     THEN [taken |-> TRUE, first |-> i = s, next |-> n > 1]
     ELSE table[i]]

(* Entries past the end of the table are memory this module does not model. *)
heap_mark_blocks_taken(table, s, n) ==
  [i \in Blocks |->
     IF i \in s..(s + n - 1)
     THEN [taken |-> TRUE, first |-> i = s, next |-> i # s + n - 1]
     ELSE table[i]]

(* Variants of the free loop: one goes on through any taken block, one    *)
(* runs to table->total inclusive.                                         *)
FreeWhileTaken(table, s) ==
  [i \in Blocks |->
     IF s <= i /\ \A j \in s..i : table[j].taken
     THEN HEAP_BLOCK_TABLE_ENTRY_FREE
     ELSE table[i]]

FreePastTheEnd(table, s) ==
  [i \in 0..Total |->
     IF i = Total \/ (s <= i /\ \A j \in s..(i - 1) : table[j].next)
     THEN HEAP_BLOCK_TABLE_ENTRY_FREE
     ELSE table[i]]

heap_mark_blocks_free(table, s) ==
  [i \in Blocks |->
     IF s <= i /\ \A j \in s..(i - 1) : table[j].next
     THEN HEAP_BLOCK_TABLE_ENTRY_FREE
     ELSE table[i]]

-----------------------------------------------------------------------------
(* The interface: an address, NULL when there is none, and the new table. *)

heap_malloc_blocks(table, n) ==
  LET s == heap_get_start_block(table, n)
  IN  IF s < 0
      THEN [addr |-> NULL, table |-> table]
      ELSE [addr  |-> heap_block_to_address(s),
            table |-> heap_mark_blocks_taken(table, s, n)]

heap_malloc(table, size) == heap_malloc_blocks(table, TotalBlocks(size))

heap_free(table, addr) ==
  heap_mark_blocks_free(table, heap_address_to_block(addr))

=============================================================================
