----------------------------- MODULE HeapProofs -----------------------------
(***************************************************************************)
(* Theorems about the kernel heap (modules HeapTable and Heap), for every  *)
(* size of the pool, every set of pointer variables and every set of       *)
(* requests that ask for at least one block.                               *)
(***************************************************************************)
EXTENDS Heap, TLAPS, WellFoundedInduction

-----------------------------------------------------------------------------
(* Lemmas about the operators of HeapTable. *)

(* A non-empty set of natural numbers has a least element. *)
LEMMA LeastElement ==
  ASSUME NEW S, S \subseteq Nat, S # {}
  PROVE  \E m \in S : \A k \in S : m <= k
<1>1. PICK m \in S : \A k \in S : <<k, m>> \notin OpToRel(<, Nat)
  BY WFMin, NatLessThanWellFounded, Zenon
<1>2. \A k \in S : ~(k < m)
  BY <1>1, Zenon DEF OpToRel
<1> QED
  BY <1>2, SMT

(* heap_address_to_block undoes heap_block_to_address. *)
LEMMA AddressRoundTrip ==
  ASSUME NEW b \in Blocks
  PROVE  /\ heap_block_to_address(b) \in Nat
         /\ heap_block_to_address(b) # NULL
         /\ heap_address_to_block(heap_block_to_address(b)) = b
BY TableAssumption
   DEF Blocks, heap_block_to_address, heap_address_to_block,
       BENOS_HEAD_ADDRESS, BENOS_HEAP_BLOCK_SIZE, NULL

(* The number of blocks of a request is a natural number. *)
LEMMA TotalBlocksType ==
  ASSUME NEW size \in Nat
  PROVE  TotalBlocks(size) \in Nat
<1>1. heap_align_value_to_upper(size) \in Nat
  BY TableAssumption
     DEF heap_align_value_to_upper, BENOS_HEAP_BLOCK_SIZE
<1> QED
  BY <1>1 DEF TotalBlocks, BENOS_HEAP_BLOCK_SIZE

(***************************************************************************)
(* What the first-fit scan returns is -ENOMEM, or a block from which n     *)
(* blocks on, as far as the table goes, are free.                          *)
(***************************************************************************)
LEMMA StartBlock ==
  ASSUME NEW table \in [Blocks -> Entry], NEW n \in Nat \ {0}
  PROVE  \/ heap_get_start_block(table, n) = -ENOMEM
         \/ /\ heap_get_start_block(table, n) \in Blocks
            /\ \A i \in Blocks : heap_get_start_block(table, n) <= i
                                 /\ i <= heap_get_start_block(table, n) + n - 1
                                   => ~table[i].taken
<1> DEFINE fits == {s \in Blocks : n > 0 /\ FreeRun(table, s, n)}
           start == heap_get_start_block(table, n)
<1> USE TableAssumption
<1>1. CASE fits # {}
  <2>1. \E s \in fits : \A r \in fits : s <= r
    <3>1. fits \subseteq Nat
      BY DEF Blocks
    <3> QED
      BY <1>1, <3>1, LeastElement
  <2>2. start = CHOOSE s \in fits : \A r \in fits : s <= r
    BY <1>1, Zenon DEF heap_get_start_block
  <2>3. start \in fits
    BY <2>1, <2>2, Zenon
  <2> QED
    BY <2>3 DEF FreeRun, Blocks
<1>2. CASE fits = {} /\ table[Total - 1].taken
  BY <1>2, Zenon DEF heap_get_start_block
<1>3. CASE fits = {} /\ ~table[Total - 1].taken
  <2> DEFINE T == {s \in Blocks : \A i \in s..(Total - 1) : ~table[i].taken}
  <2>1. Total - 1 \in T
    BY <1>3 DEF Blocks
  <2>2. PICK s \in T : \A r \in T : s <= r
    <3>1. T \subseteq Blocks
      OBVIOUS
    <3>2. Blocks \subseteq Nat
      BY DEF Blocks
    <3>3. T # {}
      BY <2>1, Zenon
    <3> HIDE DEF T
    <3> QED
      BY <3>1, <3>2, <3>3, LeastElement
  <2>3. s = 0 \/ table[s - 1].taken
    <3>1. SUFFICES ASSUME s # 0, ~table[s - 1].taken
                   PROVE  FALSE
      BY Zenon
    <3>2. s - 1 \in T
      BY <3>1 DEF Blocks
    <3> QED
      BY <2>2, <3>2 DEF Blocks
  <2>4. \E r \in Blocks : IsTrailingRun(table, r)
    BY <2>3, Zenon DEF IsTrailingRun
  <2>5. start = CHOOSE r \in Blocks : IsTrailingRun(table, r)
    BY <1>3, Zenon DEF heap_get_start_block
  <2>6. start \in Blocks /\ IsTrailingRun(table, start)
    BY <2>4, <2>5, Zenon
  <2> QED
    BY <2>6 DEF IsTrailingRun, Blocks
<1> QED
  BY <1>1, <1>2, <1>3

(* The flags of a taken entry. *)
LEMMA EntryFields ==
  ASSUME NEW x \in BOOLEAN, NEW y \in BOOLEAN
  PROVE  /\ [taken |-> TRUE, first |-> x, next |-> y].taken
         /\ [taken |-> TRUE, first |-> x, next |-> y].first <=> x
         /\ [taken |-> TRUE, first |-> x, next |-> y].next <=> y
OBVIOUS

(* Marking blocks taken or free leaves a table of entries. *)
LEMMA MarkTypes ==
  ASSUME NEW table \in [Blocks -> Entry], NEW s \in Int
  PROVE  /\ \A n \in Nat : heap_mark_blocks_taken(table, s, n) \in [Blocks -> Entry]
         /\ heap_mark_blocks_free(table, s) \in [Blocks -> Entry]
BY DEF heap_mark_blocks_taken, heap_mark_blocks_free, Entry,
       HEAP_BLOCK_TABLE_ENTRY_FREE

-----------------------------------------------------------------------------
(* What the actions of Heap do to the table and to the handles. *)

(* Under the invariant a live handle points at a block of the pool. *)
LEMMA LiveHandles ==
  ASSUME HeapInv, NEW h \in Handles, Live(h)
  PROVE  /\ FirstBlock(h) \in Blocks
         /\ LastBlock(h) \in Int
         /\ FirstBlock(h) <= LastBlock(h)
         /\ held[h].addr = heap_block_to_address(FirstBlock(h))
<1>1. PICK s \in Blocks : held[h].addr = heap_block_to_address(s)
  BY DEF HeapInv, WellPlaced
<1>2. FirstBlock(h) = s
  BY <1>1, AddressRoundTrip DEF FirstBlock
<1>3. held[h].blocks \in Nat /\ held[h].blocks >= 1
  BY DEF HeapInv, WellPlaced, TypeOK
<1> QED
  BY <1>1, <1>2, <1>3 DEF LastBlock, Blocks

(* kmalloc takes a run of free blocks and gives its address to the handle. *)
LEMMA KmallocEffect ==
  ASSUME HeapInv, PositiveRequests,
         NEW h \in Handles, NEW size \in Sizes, kmalloc(h, size)
  PROVE  \E s \in Blocks, n \in Nat \ {0} :
           /\ ~Live(h)
           /\ \A i \in Blocks : s <= i /\ i <= s + n - 1 => ~entries[i].taken
           /\ entries' = heap_mark_blocks_taken(entries, s, n)
           /\ held' = [held EXCEPT ![h] = [addr   |-> heap_block_to_address(s),
                                           blocks |-> n]]
<1> DEFINE n == TotalBlocks(size)
           s == heap_get_start_block(entries, n)
<1>1. n \in Nat \ {0}
  <2>1. n \in Nat
    BY TotalBlocksType, SizesAssumption
  <2>2. n >= 1
    BY DEF PositiveRequests
  <2> QED
    BY <2>1, <2>2
<1>2. heap_malloc(entries, size).addr # NULL
  BY DEF kmalloc
<1>3. heap_malloc(entries, size) =
        IF s < 0 THEN [addr |-> NULL, table |-> entries]
        ELSE [addr  |-> heap_block_to_address(s),
              table |-> heap_mark_blocks_taken(entries, s, n)]
  BY DEF heap_malloc, heap_malloc_blocks
<1> HIDE DEF n, s
<1>4. ~(s < 0)
  BY <1>2, <1>3
<1>5. s # -ENOMEM
  BY <1>4 DEF ENOMEM
<1>6. /\ s \in Blocks
      /\ \A i \in Blocks : s <= i /\ i <= s + n - 1 => ~entries[i].taken
  BY <1>1, <1>5, StartBlock DEF HeapInv, TypeOK, s
<1>7. /\ heap_malloc(entries, size).addr = heap_block_to_address(s)
      /\ heap_malloc(entries, size).table = heap_mark_blocks_taken(entries, s, n)
  BY <1>3, <1>4
<1>8. /\ ~Live(h)
      /\ entries' = heap_mark_blocks_taken(entries, s, n)
      /\ held' = [held EXCEPT ![h] = [addr   |-> heap_block_to_address(s),
                                      blocks |-> n]]
  BY <1>7 DEF kmalloc, Live, n
<1> QED
  BY <1>1, <1>6, <1>8

(* kfree frees exactly the blocks of the allocation. *)
LEMMA KfreeEffect ==
  ASSUME HeapInv, NEW h \in Handles, kfree(h)
  PROVE  /\ Live(h)
         /\ entries' = [b \in Blocks |-> IF b \in Extent(h)
                                         THEN HEAP_BLOCK_TABLE_ENTRY_FREE
                                         ELSE entries[b]]
         /\ held' = [held EXCEPT ![h] = NoMemory]
<1> DEFINE f == FirstBlock(h)
<1>1. /\ Live(h)
      /\ entries' = heap_mark_blocks_free(entries, f)
      /\ held' = [held EXCEPT ![h] = NoMemory]
  BY DEF kfree, Live, heap_free, FirstBlock
<1>2. /\ f \in Blocks
      /\ LastBlock(h) \in Int
      /\ f <= LastBlock(h)
  BY <1>1, LiveHandles
<1>3. \A b \in Blocks \cap Extent(h) : entries[b].next <=> b # LastBlock(h)
  BY <1>1, Zenon DEF HeapInv, TableExact
<1>4. \A b \in Blocks :
        (f <= b /\ \A j \in f..(b - 1) : entries[j].next) <=> b \in Extent(h)
  <2> TAKE b \in Blocks
  <2>1. ASSUME f <= b, \A j \in f..(b - 1) : entries[j].next
        PROVE  b \in Extent(h)
    <3>1. SUFFICES ASSUME b > LastBlock(h)
                   PROVE  FALSE
      BY <1>2, <2>1 DEF Extent, Blocks
    <3>2. LastBlock(h) \in Blocks \cap Extent(h) /\ LastBlock(h) \in f..(b - 1)
      BY <1>2, <3>1, TableAssumption DEF Extent, Blocks
    <3> QED
      BY <1>3, <2>1, <3>2
  <2>2. ASSUME b \in Extent(h)
        PROVE  f <= b /\ \A j \in f..(b - 1) : entries[j].next
    <3>1. f <= b /\ b <= LastBlock(h)
      BY <1>2, <2>2 DEF Extent, Blocks
    <3>2. \A j \in f..(b - 1) : j \in Blocks \cap Extent(h) /\ j # LastBlock(h)
      BY <1>2, <3>1, TableAssumption DEF Extent, Blocks
    <3> QED
      BY <1>3, <3>1, <3>2
  <2> QED
    BY <2>1, <2>2
<1>5. heap_mark_blocks_free(entries, f)
        = [b \in Blocks |-> IF b \in Extent(h)
                            THEN HEAP_BLOCK_TABLE_ENTRY_FREE
                            ELSE entries[b]]
  BY <1>4, Zenon DEF heap_mark_blocks_free
<1> QED
  BY <1>1, <1>5

-----------------------------------------------------------------------------
(* The inductive invariant. *)

LEMMA InitHolds == kheap_init => HeapInv
<1> SUFFICES ASSUME kheap_init
             PROVE  HeapInv
  OBVIOUS
<1>1. \A h \in Handles : ~Live(h)
  BY DEF kheap_init, Live
<1>2. \A b \in Blocks : entries[b] = HEAP_BLOCK_TABLE_ENTRY_FREE
  BY DEF kheap_init, EmptyTable
<1>3. TypeOK
  BY DEF kheap_init, EmptyTable, TypeOK, Entry, HEAP_BLOCK_TABLE_ENTRY_FREE,
         NoMemory, NULL
<1>4. WellPlaced /\ NoOverlap
  BY <1>1, Zenon DEF WellPlaced, NoOverlap
<1>5. TableExact
  BY <1>1, <1>2 DEF TableExact, HEAP_BLOCK_TABLE_ENTRY_FREE
<1> QED
  BY <1>3, <1>4, <1>5 DEF HeapInv

LEMMA KmallocPreserves ==
  ASSUME HeapInv, PositiveRequests,
         NEW h \in Handles, NEW size \in Sizes, kmalloc(h, size)
  PROVE  HeapInv'
<1>1. PICK s \in Blocks, n \in Nat \ {0} :
        /\ ~Live(h)
        /\ \A i \in Blocks : s <= i /\ i <= s + n - 1 => ~entries[i].taken
        /\ entries' = heap_mark_blocks_taken(entries, s, n)
        /\ held' = [held EXCEPT ![h] = [addr   |-> heap_block_to_address(s),
                                        blocks |-> n]]
  BY KmallocEffect
<1>2. /\ held'[h] = [addr |-> heap_block_to_address(s), blocks |-> n]
      /\ \A g \in Handles : g # h => held'[g] = held[g]
  BY <1>1 DEF HeapInv, TypeOK
<1>3. /\ Live(h)'
      /\ FirstBlock(h)' = s
      /\ LastBlock(h)' = s + n - 1
  BY <1>2, AddressRoundTrip DEF Live, NoMemory, FirstBlock, LastBlock, NULL
<1>4. \A g \in Handles : g # h => /\ Live(g)' <=> Live(g)
                                  /\ FirstBlock(g)' = FirstBlock(g)
                                  /\ LastBlock(g)' = LastBlock(g)
                                  /\ Extent(g)' = Extent(g)
  BY <1>2, Zenon DEF Live, FirstBlock, LastBlock, Extent
<1>5. \A g \in Handles : g # h /\ Live(g) =>
        \A b \in Int : b \in Extent(g) => ~(s <= b /\ b <= s + n - 1)
  <2> SUFFICES ASSUME NEW g \in Handles, g # h, Live(g),
                      NEW b \in Int, b \in Extent(g), s <= b, b <= s + n - 1
               PROVE  FALSE
    OBVIOUS
  <2>1. FirstBlock(g) \in Blocks /\ LastBlock(g) \in Int
    BY LiveHandles
  <2> DEFINE c == IF b <= Total - 1 THEN b ELSE Total - 1
  <2>2. c \in Blocks \cap Extent(g) /\ s <= c /\ c <= s + n - 1
    BY <2>1, TableAssumption DEF Extent, Blocks
  <2> HIDE DEF c
  <2>3. entries[c].taken
    BY <2>2, Zenon DEF HeapInv, TableExact
  <2> QED
    BY <1>1, <2>2, <2>3
<1>6. TypeOK'
  <2>1. entries' \in [Blocks -> Entry]
    BY <1>1, MarkTypes DEF HeapInv, TypeOK, Blocks
  <2>2. held' \in [Handles -> [addr : Nat, blocks : Nat]]
    BY <1>1, AddressRoundTrip DEF HeapInv, TypeOK
  <2> QED
    BY <2>1, <2>2 DEF TypeOK
<1>7. WellPlaced'
  <2> SUFFICES ASSUME NEW g \in Handles, Live(g)'
               PROVE  /\ held'[g].blocks >= 1
                      /\ \E r \in Blocks : held'[g].addr = heap_block_to_address(r)
    BY Zenon DEF WellPlaced
  <2>1. CASE g = h
    BY <1>2, <2>1
  <2>2. CASE g # h
    BY <1>2, <1>4, <2>2 DEF HeapInv, WellPlaced
  <2> QED
    BY <2>1, <2>2
<1>8. NoOverlap'
  <2> SUFFICES ASSUME NEW f \in Handles, NEW g \in Handles, f # g,
                      Live(f)', Live(g)', NEW b, b \in Extent(f)', b \in Extent(g)'
               PROVE  FALSE
    BY Zenon DEF NoOverlap
  <2>1. CASE f # h /\ g # h
    <3>1. Extent(f) \cap Extent(g) = {}
      BY <1>4, <2>1, Zenon DEF HeapInv, NoOverlap
    <3>2. b \in Extent(f) /\ b \in Extent(g)
      BY <1>4, <2>1, Zenon
    <3> QED
      BY <3>1, <3>2
  <2>2. ASSUME NEW k \in Handles, k # h, Live(k)', b \in Extent(k)', b \in Extent(h)'
        PROVE  FALSE
    BY <1>3, <1>4, <1>5, <2>2 DEF Extent, Blocks
  <2> QED
    BY <2>1, <2>2
<1>9. TableExact'
  <2>1. \A b \in Blocks :
          entries'[b] = IF s <= b /\ b <= s + n - 1
                        THEN [taken |-> TRUE, first |-> b = s,
                              next |-> b # s + n - 1]
                        ELSE entries[b]
    BY <1>1 DEF heap_mark_blocks_taken, Blocks
  <2>2. ASSUME NEW b \in Blocks, entries'[b] # HEAP_BLOCK_TABLE_ENTRY_FREE
        PROVE  \E g \in Handles : Live(g)' /\ b \in Extent(g)'
    <3>1. CASE s <= b /\ b <= s + n - 1
      BY <1>3, <3>1 DEF Extent, Blocks
    <3>2. CASE ~(s <= b /\ b <= s + n - 1)
      <4>1. entries[b] # HEAP_BLOCK_TABLE_ENTRY_FREE
        BY <2>1, <2>2, <3>2
      <4>2. PICK g \in Handles : Live(g) /\ b \in Extent(g)
        BY <4>1 DEF HeapInv, TableExact
      <4>3. g # h
        BY <1>1, <4>2
      <4> QED
        BY <1>4, <4>2, <4>3
    <3> QED
      BY <3>1, <3>2
  <2>3. ASSUME NEW g \in Handles, Live(g)', NEW b \in Blocks \cap Extent(g)'
        PROVE  /\ entries'[b].taken
               /\ entries'[b].first <=> b = FirstBlock(g)'
               /\ entries'[b].next <=> b # LastBlock(g)'
    <3>1. CASE g = h
      <4>1. s <= b /\ b <= s + n - 1
        BY <1>3, <3>1 DEF Extent, Blocks
      <4>2. entries'[b] = [taken |-> TRUE, first |-> b = s, next |-> b # s + n - 1]
        BY <2>1, <4>1
      <4>3. /\ entries'[b].taken
            /\ entries'[b].first <=> b = s
            /\ entries'[b].next <=> b # s + n - 1
        BY <4>2, EntryFields, Zenon
      <4> QED
        BY <1>3, <3>1, <4>3, Zenon
    <3>2. CASE g # h
      <4>1. ~(s <= b /\ b <= s + n - 1)
        BY <1>4, <1>5, <2>3, <3>2 DEF Blocks
      <4>2. entries'[b] = entries[b]
        BY <2>1, <4>1
      <4>3. /\ entries[b].taken
            /\ entries[b].first <=> b = FirstBlock(g)
            /\ entries[b].next <=> b # LastBlock(g)
        <5>1. Live(g) /\ b \in Blocks /\ b \in Extent(g)
          BY <1>4, <2>3, <3>2
        <5> QED
          BY <5>1 DEF HeapInv, TableExact
      <4> QED
        BY <1>4, <3>2, <4>2, <4>3, Zenon
    <3> QED
      BY <3>1, <3>2
  <2> QED
    BY <2>2, <2>3, Zenon DEF TableExact
<1> QED
  BY <1>6, <1>7, <1>8, <1>9 DEF HeapInv

LEMMA KfreePreserves ==
  ASSUME HeapInv, NEW h \in Handles, kfree(h)
  PROVE  HeapInv'
<1>1. /\ Live(h)
      /\ entries' = [b \in Blocks |-> IF b \in Extent(h)
                                      THEN HEAP_BLOCK_TABLE_ENTRY_FREE
                                      ELSE entries[b]]
      /\ held' = [held EXCEPT ![h] = NoMemory]
  BY KfreeEffect
<1>2. /\ ~Live(h)'
      /\ \A g \in Handles : g # h => held'[g] = held[g]
  BY <1>1 DEF HeapInv, TypeOK, Live
<1>3. \A g \in Handles : g # h => /\ Live(g)' <=> Live(g)
                                  /\ FirstBlock(g)' = FirstBlock(g)
                                  /\ LastBlock(g)' = LastBlock(g)
                                  /\ Extent(g)' = Extent(g)
  BY <1>2, Zenon DEF Live, FirstBlock, LastBlock, Extent
<1>4. TypeOK'
  BY <1>1 DEF HeapInv, TypeOK, Entry, HEAP_BLOCK_TABLE_ENTRY_FREE, NoMemory, NULL
<1>5. WellPlaced'
  BY <1>2, <1>3, Zenon DEF HeapInv, WellPlaced
<1>6. NoOverlap'
  BY <1>2, <1>3, Zenon DEF HeapInv, NoOverlap
<1>7. TableExact'
  <2>1. ASSUME NEW b \in Blocks, entries'[b] # HEAP_BLOCK_TABLE_ENTRY_FREE
        PROVE  \E g \in Handles : Live(g)' /\ b \in Extent(g)'
    <3>1. b \notin Extent(h) /\ entries[b] # HEAP_BLOCK_TABLE_ENTRY_FREE
      BY <1>1, <2>1
    <3>2. PICK g \in Handles : Live(g) /\ b \in Extent(g)
      BY <3>1 DEF HeapInv, TableExact
    <3> QED
      BY <1>3, <3>1, <3>2
  <2>2. ASSUME NEW g \in Handles, Live(g)', NEW b \in Blocks \cap Extent(g)'
        PROVE  /\ entries'[b].taken
               /\ entries'[b].first <=> b = FirstBlock(g)'
               /\ entries'[b].next <=> b # LastBlock(g)'
    <3>1. g # h
      BY <1>2, <2>2
    <3>2. Live(g) /\ b \in Extent(g) /\ b \notin Extent(h)
      BY <1>1, <1>3, <2>2, <3>1 DEF HeapInv, NoOverlap
    <3>3. entries'[b] = entries[b]
      BY <1>1, <3>2
    <3>4. /\ entries[b].taken
          /\ entries[b].first <=> b = FirstBlock(g)
          /\ entries[b].next <=> b # LastBlock(g)
      BY <3>2 DEF HeapInv, TableExact
    <3> QED
      BY <1>3, <3>1, <3>3, <3>4, Zenon
  <2> QED
    BY <2>1, <2>2, Zenon DEF TableExact
<1> QED
  BY <1>4, <1>5, <1>6, <1>7 DEF HeapInv

LEMMA NextPreserves ==
  ASSUME HeapInv, PositiveRequests, [Next]_vars
  PROVE  HeapInv'
<1>1. CASE UNCHANGED vars
  BY <1>1, ZenonT(60)
     DEF vars, HeapInv, TypeOK, WellPlaced, NoOverlap, TableExact,
         Live, FirstBlock, LastBlock, Extent
<1>2. ASSUME NEW h \in Handles, NEW size \in Sizes, kmalloc(h, size)
      PROVE  HeapInv'
  BY <1>2, KmallocPreserves
<1>3. ASSUME NEW h \in Handles, NEW size \in Sizes, kmallocFails(h, size)
      PROVE  HeapInv'
  BY <1>1, <1>3 DEF kmallocFails
<1>4. ASSUME NEW h \in Handles, kfree(h)
      PROVE  HeapInv'
  BY <1>4, KfreePreserves
<1> QED
  BY <1>1, <1>2, <1>3, <1>4, Zenon DEF Next

(***************************************************************************)
(* The invariant of the heap: the table has one well-formed entry per      *)
(* block, every address kmalloc returned is one of a block of the pool, no *)
(* two live allocations share a block, and the table says exactly what is  *)
(* allocated.                                                              *)
(***************************************************************************)
THEOREM HeapInvariant ==
  ASSUME PositiveRequests
  PROVE  Spec => []HeapInv
<1>1. HeapInv /\ [Next]_vars => HeapInv'
  BY NextPreserves
<1> QED
  BY <1>1, InitHolds, PTL DEF Spec

(***************************************************************************)
(* The table has one entry per block and every handle points at an address *)
(* (kmalloc, kfree).                                                       *)
(***************************************************************************)
THEOREM HeapTypeCorrect ==
  ASSUME PositiveRequests
  PROVE  Spec => []TypeOK
<1>1. HeapInv => TypeOK
  BY DEF HeapInv
<1> QED
  BY <1>1, HeapInvariant, PTL

(***************************************************************************)
(* No block of memory ever belongs to two allocations: not even when the   *)
(* first-fit scan returns the run at the end of the pool that is too short *)
(* for the request (heap_get_start_block).                                 *)
(***************************************************************************)
THEOREM HeapNoOverlap ==
  ASSUME PositiveRequests
  PROVE  Spec => []NoOverlap
<1>1. HeapInv => NoOverlap
  BY DEF HeapInv
<1> QED
  BY <1>1, HeapInvariant, PTL

(***************************************************************************)
(* The entry table says exactly what is allocated: no block of a live      *)
(* allocation is marked free and no block leaks (heap_mark_blocks_taken,   *)
(* heap_mark_blocks_free).                                                 *)
(***************************************************************************)
THEOREM HeapTableExact ==
  ASSUME PositiveRequests
  PROVE  Spec => []TableExact
<1>1. HeapInv => TableExact
  BY DEF HeapInv
<1> QED
  BY <1>1, HeapInvariant, PTL

-----------------------------------------------------------------------------
(* The heap implements module Allocator. *)

(* The region of a handle: its extent, cut off at the end of the pool. *)
RegionEnd(h) == IF LastBlock(h) <= Total - 1 THEN LastBlock(h) ELSE Total - 1
RegionOf(h)  == <<FirstBlock(h), RegionEnd(h)>>

LEMMA RegionEnds ==
  ASSUME HeapInv, NEW h \in Handles, Live(h)
  PROVE  /\ FirstBlock(h) \in Blocks
         /\ RegionEnd(h) \in Blocks
         /\ FirstBlock(h) <= RegionEnd(h)
         /\ \A b \in Blocks : b \in Extent(h)
                                <=> FirstBlock(h) <= b /\ b <= RegionEnd(h)
<1>1. /\ FirstBlock(h) \in Blocks
      /\ LastBlock(h) \in Int
      /\ FirstBlock(h) <= LastBlock(h)
  BY LiveHandles
<1> QED
  BY <1>1, TableAssumption DEF RegionEnd, Extent, Blocks

(* The regions read off the table are the regions of the live handles. *)
RegionsExact == \A r : r \in TableRegions
                         <=> \E h \in Handles : Live(h) /\ r = RegionOf(h)

LEMMA RegionsOfHandles == HeapInv => RegionsExact
<1> SUFFICES ASSUME HeapInv
             PROVE  \A r : r \in TableRegions
                             <=> \E h \in Handles : Live(h) /\ r = RegionOf(h)
  BY Zenon DEF RegionsExact
<1>1. ASSUME NEW r \in TableRegions
      PROVE  \E h \in Handles : Live(h) /\ r = RegionOf(h)
  <2>1. /\ r \in Blocks \X Blocks
        /\ r[1] <= r[2]
        /\ entries[r[1]].first
        /\ \A b \in r[1]..(r[2] - 1) : entries[b].next
        /\ entries[r[2]].next => r[2] = Total - 1
    BY Zenon DEF TableRegions
  <2>2. r[1] \in Blocks /\ r[2] \in Blocks /\ r = <<r[1], r[2]>>
    BY <2>1
  <2>3. entries[r[1]] # HEAP_BLOCK_TABLE_ENTRY_FREE
    BY <2>1 DEF HEAP_BLOCK_TABLE_ENTRY_FREE
  <2>4. PICK h \in Handles : Live(h) /\ r[1] \in Extent(h)
    BY <2>2, <2>3 DEF HeapInv, TableExact
  <2>5. \A b \in Blocks : b \in Extent(h) =>
          /\ entries[b].first <=> b = FirstBlock(h)
          /\ entries[b].next <=> b # LastBlock(h)
    BY <2>4 DEF HeapInv, TableExact
  <2>6. r[1] = FirstBlock(h)
    BY <2>1, <2>2, <2>4, <2>5
  <2>7. /\ FirstBlock(h) \in Blocks
        /\ LastBlock(h) \in Int
        /\ FirstBlock(h) <= LastBlock(h)
    BY <2>4, LiveHandles
  <2>8. r[2] <= LastBlock(h)
    <3>1. SUFFICES ASSUME LastBlock(h) < r[2]
                   PROVE  FALSE
      BY <2>2, <2>7 DEF Blocks
    <3>2. /\ LastBlock(h) \in Blocks
          /\ LastBlock(h) \in Extent(h)
          /\ LastBlock(h) \in r[1]..(r[2] - 1)
      BY <2>2, <2>6, <2>7, <3>1, TableAssumption DEF Blocks, Extent
    <3> QED
      BY <2>1, <2>5, <3>2
  <2>9. r[2] = RegionEnd(h)
    <3>1. r[2] \in Extent(h)
      BY <2>1, <2>2, <2>6, <2>7, <2>8 DEF Extent, Blocks
    <3>2. r[2] = LastBlock(h) \/ r[2] = Total - 1
      BY <2>1, <2>2, <2>5, <3>1
    <3> QED
      BY <2>2, <2>7, <2>8, <3>2, TableAssumption DEF RegionEnd, Blocks
  <2> QED
    BY <2>2, <2>4, <2>6, <2>9 DEF RegionOf
<1>2. ASSUME NEW h \in Handles, Live(h)
      PROVE  RegionOf(h) \in TableRegions
  <2>1. /\ FirstBlock(h) \in Blocks
        /\ RegionEnd(h) \in Blocks
        /\ FirstBlock(h) <= RegionEnd(h)
        /\ \A b \in Blocks : b \in Extent(h)
                               <=> FirstBlock(h) <= b /\ b <= RegionEnd(h)
    BY <1>2, RegionEnds
  <2>2. \A b \in Blocks : b \in Extent(h) =>
          /\ entries[b].first <=> b = FirstBlock(h)
          /\ entries[b].next <=> b # LastBlock(h)
    BY <1>2 DEF HeapInv, TableExact
  <2>3. entries[FirstBlock(h)].first
    BY <2>1, <2>2 DEF Blocks
  <2>4. LastBlock(h) \in Int
    BY <1>2, LiveHandles
  <2>5. \A b \in FirstBlock(h)..(RegionEnd(h) - 1) : entries[b].next
    <3>1. SUFFICES ASSUME NEW b \in FirstBlock(h)..(RegionEnd(h) - 1)
                   PROVE  entries[b].next
      OBVIOUS
    <3>2. b \in Blocks /\ FirstBlock(h) <= b /\ b <= RegionEnd(h)
      BY <2>1, TableAssumption DEF Blocks
    <3>3. b \in Extent(h) /\ b # LastBlock(h)
      BY <2>1, <2>4, <3>2, TableAssumption DEF RegionEnd, Blocks
    <3> QED
      BY <2>2, <3>2, <3>3
  <2>6. entries[RegionEnd(h)].next => RegionEnd(h) = Total - 1
    <3>1. RegionEnd(h) \in Extent(h)
      BY <2>1 DEF Blocks
    <3>2. entries[RegionEnd(h)].next => RegionEnd(h) # LastBlock(h)
      BY <2>1, <2>2, <3>1
    <3> QED
      BY <3>2 DEF RegionEnd
  <2> QED
    BY <2>1, <2>3, <2>5, <2>6 DEF RegionOf, TableRegions
<1> QED
  BY <1>1, <1>2

(* They are regions of the abstract pool, and apart from one another. *)
RegionsApart ==
  /\ \A h \in Handles : Live(h) => RegionOf(h) \in Abstract!Region
  /\ \A g, h \in Handles : g # h /\ Live(g) /\ Live(h)
                             => Abstract!Disjoint(RegionOf(g), RegionOf(h))

LEMMA RegionsAreApart == HeapInv => RegionsApart
<1> SUFFICES ASSUME HeapInv
             PROVE  RegionsApart
  OBVIOUS
<1>1. ASSUME NEW h \in Handles, Live(h)
      PROVE  RegionOf(h) \in Abstract!Region
  BY <1>1, RegionEnds DEF RegionOf, Abstract!Region
<1>2. ASSUME NEW g \in Handles, NEW h \in Handles, g # h, Live(g), Live(h)
      PROVE  RegionEnd(g) < FirstBlock(h) \/ RegionEnd(h) < FirstBlock(g)
  <2>1. Extent(g) \cap Extent(h) = {}
    BY <1>2, Zenon DEF HeapInv, NoOverlap
  <2>2. /\ FirstBlock(g) \in Blocks
        /\ RegionEnd(g) \in Blocks
        /\ FirstBlock(g) <= RegionEnd(g)
        /\ \A b \in Blocks : b \in Extent(g)
                               <=> FirstBlock(g) <= b /\ b <= RegionEnd(g)
    BY <1>2, RegionEnds
  <2>3. /\ FirstBlock(h) \in Blocks
        /\ RegionEnd(h) \in Blocks
        /\ FirstBlock(h) <= RegionEnd(h)
        /\ \A b \in Blocks : b \in Extent(h)
                               <=> FirstBlock(h) <= b /\ b <= RegionEnd(h)
    BY <1>2, RegionEnds
  <2>4. \A b \in Blocks : ~(/\ FirstBlock(g) <= b /\ b <= RegionEnd(g)
                            /\ FirstBlock(h) <= b /\ b <= RegionEnd(h))
    BY <2>1, <2>2, <2>3
  <2> QED
    BY <2>2, <2>3, <2>4 DEF Blocks
<1> QED
  BY <1>1, <1>2 DEF RegionsApart, RegionOf, Abstract!Disjoint

(* kmalloc acquires the region of its handle. *)
LEMMA KmallocAcquires ==
  ASSUME HeapInv, HeapInv', PositiveRequests,
         NEW h \in Handles, NEW size \in Sizes, kmalloc(h, size)
  PROVE  Abstract!Next
<1> DEFINE r == RegionOf(h)'
<1>1. ~Live(h)
  BY DEF kmalloc, Live
<1>2. /\ \A g \in Handles : g # h => held'[g] = held[g]
      /\ Live(h)'
  BY KmallocEffect, AddressRoundTrip
     DEF HeapInv, TypeOK, Live, NoMemory, NULL
<1>3. \A g \in Handles : g # h => /\ Live(g)' <=> Live(g)
                                  /\ RegionOf(g)' = RegionOf(g)
  BY <1>2, Zenon DEF Live, RegionOf, RegionEnd, FirstBlock, LastBlock
<1>4. RegionsExact /\ RegionsExact' /\ RegionsApart'
  BY RegionsOfHandles, RegionsAreApart, PTL
<1>5. \A q : q \in TableRegions <=> \E g \in Handles : Live(g) /\ q = RegionOf(g)
  BY <1>4, Zenon DEF RegionsExact
<1>6. \A q : q \in TableRegions' <=> \E g \in Handles : Live(g)' /\ q = RegionOf(g)'
  BY <1>4, Zenon DEF RegionsExact
<1>7. r \in Abstract!Region
  BY <1>2, <1>4, Zenon DEF RegionsApart
<1>8. \A q \in TableRegions : Abstract!Disjoint(r, q)
  <2> SUFFICES ASSUME NEW q \in TableRegions
               PROVE  Abstract!Disjoint(r, q)
    OBVIOUS
  <2>1. PICK g \in Handles : Live(g) /\ q = RegionOf(g)
    BY <1>5
  <2>2. g # h /\ Live(g)' /\ q = RegionOf(g)'
    BY <1>1, <1>3, <2>1
  <2> QED
    BY <1>2, <1>4, <2>2 DEF RegionsApart, Abstract!Disjoint
<1>9. TableRegions' = TableRegions \cup {r}
  <2> HIDE DEF r
  <2>1. \A q : q \in TableRegions' <=> q \in TableRegions \/ q = r
    BY <1>1, <1>2, <1>3, <1>5, <1>6, Zenon DEF r
  <2> QED
    BY <2>1
<1> QED
  BY <1>7, <1>8, <1>9, Zenon DEF Abstract!Next, Abstract!Acquire

(* kfree releases the region of its handle. *)
LEMMA KfreeReleases ==
  ASSUME HeapInv, HeapInv', NEW h \in Handles, kfree(h)
  PROVE  Abstract!Next
<1> DEFINE r == RegionOf(h)
<1>1. Live(h)
  BY DEF kfree, Live
<1>2. /\ \A g \in Handles : g # h => held'[g] = held[g]
      /\ ~Live(h)'
  BY DEF kfree, HeapInv, TypeOK, Live
<1>3. \A g \in Handles : g # h => /\ Live(g)' <=> Live(g)
                                  /\ RegionOf(g)' = RegionOf(g)
  BY <1>2, Zenon DEF Live, RegionOf, RegionEnd, FirstBlock, LastBlock
<1>4. RegionsExact /\ RegionsExact' /\ RegionsApart
  BY RegionsOfHandles, RegionsAreApart, PTL
<1>5. \A q : q \in TableRegions <=> \E g \in Handles : Live(g) /\ q = RegionOf(g)
  BY <1>4, Zenon DEF RegionsExact
<1>6. \A q : q \in TableRegions' <=> \E g \in Handles : Live(g)' /\ q = RegionOf(g)'
  BY <1>4, Zenon DEF RegionsExact
<1>7. r \in Abstract!Region /\ r \in TableRegions
  BY <1>1, <1>4, <1>5, Zenon DEF RegionsApart
<1>8. \A g \in Handles : g # h /\ Live(g) => RegionOf(g) # r
  <2> SUFFICES ASSUME NEW g \in Handles, g # h, Live(g), RegionOf(g) = RegionOf(h)
               PROVE  FALSE
    OBVIOUS
  <2>1. Abstract!Disjoint(RegionOf(g), RegionOf(g))
    BY <1>1, <1>4 DEF RegionsApart
  <2>2. RegionOf(g)[1] = FirstBlock(g) /\ RegionOf(g)[2] = RegionEnd(g)
    BY DEF RegionOf
  <2>3. RegionEnd(g) < FirstBlock(g)
    BY <2>1, <2>2 DEF Abstract!Disjoint
  <2>4. /\ FirstBlock(g) \in Blocks
        /\ RegionEnd(g) \in Blocks
        /\ FirstBlock(g) <= RegionEnd(g)
    BY RegionEnds
  <2> QED
    BY <2>3, <2>4 DEF Blocks
<1>9. TableRegions' = TableRegions \ {r}
  <2> HIDE DEF r
  <2>1. ASSUME NEW q \in TableRegions'
        PROVE  q \in TableRegions /\ q # r
    <3>1. PICK g \in Handles : Live(g)' /\ q = RegionOf(g)'
      BY <1>6, <2>1, Zenon
    <3>2. g # h /\ Live(g) /\ q = RegionOf(g)
      BY <1>2, <1>3, <3>1, Zenon
    <3> QED
      BY <1>5, <1>8, <3>2, Zenon DEF r
  <2>2. ASSUME NEW q \in TableRegions, q # r
        PROVE  q \in TableRegions'
    <3>1. PICK g \in Handles : Live(g) /\ q = RegionOf(g)
      BY <1>5, <2>2, Zenon
    <3>2. g # h /\ Live(g)' /\ q = RegionOf(g)'
      BY <1>3, <2>2, <3>1, Zenon DEF r
    <3> QED
      BY <1>6, <3>2, Zenon
  <2> QED
    BY <2>1, <2>2
<1> QED
  BY <1>7, <1>9, Zenon DEF Abstract!Next, Abstract!Release

(***************************************************************************)
(* The kernel heap implements the abstract allocator: read through the     *)
(* flags of the entry table, every kmalloc acquires one region apart from  *)
(* all live ones and every kfree releases exactly one region.              *)
(***************************************************************************)
THEOREM HeapImplementsAllocator ==
  ASSUME PositiveRequests
  PROVE  Spec => ImplementsAllocator
<1>1. kheap_init => Abstract!Init
  <2> SUFFICES ASSUME kheap_init
               PROVE  TableRegions = {}
    BY DEF Abstract!Init
  <2>1. HeapInv /\ \A h \in Handles : ~Live(h)
    BY InitHolds DEF kheap_init, Live
  <2>2. \A r : r \notin TableRegions
    BY <2>1, RegionsOfHandles, Zenon DEF RegionsExact
  <2> QED
    BY <2>2
<1>2. HeapInv /\ HeapInv' /\ [Next]_vars => [Abstract!Next]_TableRegions
  <2> SUFFICES ASSUME HeapInv, HeapInv', [Next]_vars
               PROVE  Abstract!Next \/ UNCHANGED TableRegions
    OBVIOUS
  <2>1. CASE UNCHANGED vars
    BY <2>1, Zenon DEF vars, TableRegions
  <2>2. ASSUME NEW h \in Handles, NEW size \in Sizes, kmalloc(h, size)
        PROVE  Abstract!Next
    BY <2>2, KmallocAcquires
  <2>3. ASSUME NEW h \in Handles, NEW size \in Sizes, kmallocFails(h, size)
        PROVE  UNCHANGED TableRegions
    BY <2>3, Zenon DEF kmallocFails, vars, TableRegions
  <2>4. ASSUME NEW h \in Handles, kfree(h)
        PROVE  Abstract!Next
    BY <2>4, KfreeReleases
  <2> QED
    BY <2>1, <2>2, <2>3, <2>4, Zenon DEF Next
<1> QED
  BY <1>1, <1>2, HeapInvariant, PTL DEF Spec, ImplementsAllocator, Abstract!Spec

=============================================================================
