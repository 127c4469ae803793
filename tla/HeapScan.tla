------------------------------ MODULE HeapScan ------------------------------
(***************************************************************************)
(* The three loops of src/memory/heap/heap.c, one iteration per step, on   *)
(* every entry table: the scan of heap_get_start_block, the loop of        *)
(* heap_mark_blocks_taken over what the scan found, and the loop of        *)
(* heap_mark_blocks_free over what was marked.                             *)
(*                                                                         *)
(* Module HeapTable defines the results of these loops without the loops;  *)
(* the properties below say that the loops compute those results.          *)
(***************************************************************************)
EXTENDS HeapTable

CONSTANT Tables \* the entry tables the loops start from

(* The bytes that the loops write. *)
WrittenEntries == {HEAP_BLOCK_TABLE_ENTRY_FREE}
                    \cup [taken : {TRUE}, first : BOOLEAN, next : BOOLEAN]

ASSUME ScanAssumption == Tables \subseteq [Blocks -> WrittenEntries]

VARIABLES before, \* the table when heap_malloc_blocks is called
          n,      \* its argument total_blocks
          table,  \* the table the loops work on
          i,      \* the loop variable
          bc, bs, \* block count and block start of the scan
          entry,  \* the byte heap_mark_blocks_taken writes next
          pc

vars == <<before, n, table, i, bc, bs, entry, pc>>

-----------------------------------------------------------------------------

Init == /\ before \in Tables
        /\ n \in 0..(Total + 1)
        /\ table = before
        /\ i = 0
        /\ bc = 0
        /\ bs = -1
        /\ entry = HEAP_BLOCK_TABLE_ENTRY_FREE
        /\ pc = "scan"

(* What heap_mark_blocks_taken writes first. *)
FirstEntry == [taken |-> TRUE, first |-> TRUE, next |-> n > 1]

(* The loop of heap_get_start_block. *)

(* Variants: the run's start is kept at a taken block; `continue' without  *)
(* the i++ of the for loop.                                                *)
ScanTakenKeepsStart == /\ pc = "scan"
                       /\ i < Total
                       /\ table[i].taken
                       /\ bc' = 0
                       /\ i' = i + 1
                       /\ UNCHANGED <<before, n, table, bs, entry, pc>>

ScanTakenStays == /\ pc = "scan"
                  /\ i < Total
                  /\ table[i].taken
                  /\ bc' = 0
                  /\ bs' = -1
                  /\ UNCHANGED <<before, n, table, i, entry, pc>>

ScanTaken == /\ pc = "scan"
             /\ i < Total
             /\ table[i].taken
             /\ bc' = 0
             /\ bs' = -1
             /\ i' = i + 1
             /\ UNCHANGED <<before, n, table, entry, pc>>

ScanFree == /\ pc = "scan"
            /\ i < Total
            /\ ~table[i].taken
            /\ bs' = IF bs = -1 THEN i ELSE bs
            /\ bc' = bc + 1
            /\ IF bc' = n
               THEN /\ pc' = "mark"
                    /\ i' = bs'
                    /\ entry' = FirstEntry
               ELSE /\ i' = i + 1
                    /\ UNCHANGED <<pc, entry>>
            /\ UNCHANGED <<before, n, table>>

ScanEnd == /\ pc = "scan"
           /\ i = Total
           /\ IF bs = -1
              THEN pc' = "nomem" /\ UNCHANGED <<i, entry>>
              ELSE /\ pc' = "mark"
                   /\ i' = bs
                   /\ entry' = FirstEntry
           /\ UNCHANGED <<before, n, table, bc, bs>>

(* The loop of heap_mark_blocks_taken; a write past the table is not kept. *)

Mark == LET end_block == bs + n - 1
        IN  /\ pc = "mark"
            /\ i <= end_block
            /\ table' = IF i \in Blocks
                        THEN [table EXCEPT ![i] = entry]
                        ELSE table
            /\ entry' = [taken |-> TRUE, first |-> FALSE,
                         next  |-> i # end_block - 1]
            /\ i' = i + 1
            /\ UNCHANGED <<before, n, bc, bs, pc>>

MarkEnd == /\ pc = "mark"
           /\ i > bs + n - 1
           /\ pc' = "free"
           /\ i' = bs
           /\ UNCHANGED <<before, n, table, bc, bs, entry>>

(* The loop of heap_mark_blocks_free. *)

(* A variant that leaves the loop before it clears the last entry. *)
FreeBreaksFirst == /\ pc = "free"
                   /\ i < Total
                   /\ IF table[i].next
                      THEN /\ table' = [table EXCEPT
                                          ![i] = HEAP_BLOCK_TABLE_ENTRY_FREE]
                           /\ i' = i + 1
                           /\ UNCHANGED pc
                      ELSE pc' = "freed" /\ UNCHANGED <<i, table>>
                   /\ UNCHANGED <<before, n, bc, bs, entry>>

Free == /\ pc = "free"
        /\ i < Total
        /\ table' = [table EXCEPT ![i] = HEAP_BLOCK_TABLE_ENTRY_FREE]
        /\ IF table[i].next
           THEN i' = i + 1 /\ UNCHANGED pc
           ELSE pc' = "freed" /\ UNCHANGED i
        /\ UNCHANGED <<before, n, bc, bs, entry>>

FreeEnd == /\ pc = "free"
           /\ i = Total
           /\ pc' = "freed"
           /\ UNCHANGED <<before, n, table, i, bc, bs, entry>>

Next == ScanTaken \/ ScanFree \/ ScanEnd \/ Mark \/ MarkEnd \/ Free \/ FreeEnd

Spec == Init /\ [][Next]_vars /\ WF_vars(Next)

-----------------------------------------------------------------------------
(* Properties. *)

(***************************************************************************)
(* The loops compute what HeapTable defines without them.                  *)
(* heap_get_start_block is a first fit, the short run at the end of the    *)
(* table included, and heap_mark_blocks_taken flags the run it found.      *)
(***************************************************************************)
LoopsMatchDefinitions ==
  /\ pc \in {"mark", "free", "freed"} => bs = heap_get_start_block(before, n)
  /\ pc = "nomem" => heap_get_start_block(before, n) = -ENOMEM
  /\ pc = "free" /\ i = bs => table = heap_mark_blocks_taken(before, bs, n)

(***************************************************************************)
(* heap_mark_blocks_free undoes heap_mark_blocks_taken: when the blocks of *)
(* a malloc of one block or more are freed, the table is what it was       *)
(* before the malloc.  A free also does what HeapTable says.               *)
(***************************************************************************)
FreeUndoesMalloc ==
  pc = "freed" =>
    /\ table = heap_mark_blocks_free(heap_mark_blocks_taken(before, bs, n), bs)
    /\ n > 0 => table = before

(* Every call ends: no scan, mark or free loops for ever. *)
LoopsEnd == <>(pc \in {"freed", "nomem"})

=============================================================================
