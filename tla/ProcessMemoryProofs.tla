-------------------------- MODULE ProcessMemoryProofs --------------------------
(***************************************************************************)
(* Theorems about the memory of processes (module ProcessMemory), for      *)
(* every size of the pool and of a page directory, every number of         *)
(* processes, arguments and allocation slots, and every set of programs    *)
(* and of sizes that they ask for.                                         *)
(***************************************************************************)
EXTENDS ProcessMemory, SequenceTheorems, WellFoundedInduction, TLAPS

-----------------------------------------------------------------------------
(* Numbers *)

(* A non-empty set of natural numbers has a least element. *)
LEMMA LeastElement ==
  ASSUME NEW S, S \subseteq Nat, S # {}
  PROVE  \E m \in S : \A k \in S : m <= k
<1>1. PICK m \in S : \A k \in S : <<k, m>> \notin OpToRel(<, Nat)
  BY WFMin, NatLessThanWellFounded, Zenon
<1>2. \A k \in S : ~(k < m)
  BY <1>1, Zenon DEF OpToRel
<1> QED
  BY <1>2, SMT

(* Induction up to a bound, for a set instead of a predicate. *)
LEMMA InductionTo ==
  ASSUME NEW N \in Nat, NEW T,
         0 \in T,
         \A n \in 1..N : n - 1 \in T => n \in T
  PROVE  \A n \in 0..N : n \in T
<1> DEFINE S == {n \in 0..N : n \notin T}
<1>1. SUFFICES ASSUME S # {}
               PROVE  FALSE
  OBVIOUS
<1>2. PICK m \in S : \A k \in S : m <= k
  <2>1. S \subseteq Nat
    OBVIOUS
  <2> HIDE DEF S
  <2> QED
    BY <1>1, <2>1, LeastElement
<1>3. m \in 1..N /\ m - 1 \notin S
  BY <1>2
<1> QED
  BY <1>2, <1>3

-----------------------------------------------------------------------------
(* Addresses and sizes *)

(* heap_address_to_block undoes heap_block_to_address, and the address of  *)
(* a block is that of a page.                                              *)
LEMMA AddressRoundTrip ==
  ASSUME NEW b \in Blocks
  PROVE  /\ heap_block_to_address(b) \in Nat
         /\ heap_block_to_address(b) # NULL
         /\ heap_block_to_address(b) % PAGING_PAGE_SIZE = 0
         /\ heap_address_to_block(heap_block_to_address(b)) = b
BY TableAssumption
   DEF Blocks, heap_block_to_address, heap_address_to_block,
       BENOS_HEAD_ADDRESS, BENOS_HEAP_BLOCK_SIZE, NULL, PAGING_PAGE_SIZE

(***************************************************************************)
(* A request that fits gets at least one block when it is for at least one *)
(* byte, and the pages that are mapped for it are exactly its blocks.      *)
(***************************************************************************)
LEMMA RequestBlocks ==
  ASSUME NEW size \in Nat, Fits(size)
  PROVE  /\ TotalBlocks(size) \in Nat
         /\ size # 0 => TotalBlocks(size) >= 1
         /\ size = 0 => TotalBlocks(size) = 0
         /\ \A s \in Blocks :
              LET end == paging_align_address(heap_block_to_address(s) + size)
              IN  /\ end % PAGING_PAGE_SIZE = 0
                  /\ end > heap_block_to_address(s) <=> size # 0
                  /\ heap_address_to_block(end) = s + TotalBlocks(size)
<1> DEFINE q == size \div 4096
           r == size % 4096
<1>1. /\ q \in Nat
      /\ r \in 0..4095
      /\ size = 4096 * q + r
  OBVIOUS
<1>2. WordSize \in Nat /\ 16777216 + 4096 * (Total + 1) + size <= WordSize
      /\ Total \in Nat
  BY TableAssumption DEF Fits, BENOS_HEAD_ADDRESS, BENOS_HEAP_BLOCK_SIZE
<1> HIDE DEF q, r
<1>3. heap_align_value_to_upper(size) = IF r = 0 THEN 4096 * q
                                                 ELSE 4096 * (q + 1)
  <2>1. CASE r = 0
    BY <1>1, <2>1 DEF heap_align_value_to_upper, BENOS_HEAP_BLOCK_SIZE, r
  <2>2. CASE r # 0
    <3>1. heap_align_value_to_upper(size) = (4096 * (q + 1)) % WordSize
      BY <1>1, <2>2 DEF heap_align_value_to_upper, BENOS_HEAP_BLOCK_SIZE, r
    <3>2. 4096 * (q + 1) < WordSize /\ 4096 * (q + 1) \in Nat
      BY <1>1, <1>2
    <3> QED
      BY <1>2, <2>2, <3>1, <3>2
  <2> QED
    BY <2>1, <2>2
<1>4. TotalBlocks(size) = IF r = 0 THEN q ELSE q + 1
  BY <1>1, <1>3 DEF TotalBlocks, BENOS_HEAP_BLOCK_SIZE
<1>5. ASSUME NEW s \in Blocks
      PROVE  paging_align_address(heap_block_to_address(s) + size)
               = heap_block_to_address(s + TotalBlocks(size))
  <2>1. s \in Nat
    BY DEF Blocks
  <2>2. heap_block_to_address(s) + size = 4096 * (4096 + s + q) + r
    BY <1>1, <2>1 DEF heap_block_to_address, BENOS_HEAD_ADDRESS,
                      BENOS_HEAP_BLOCK_SIZE
  <2>3. (heap_block_to_address(s) + size) % 4096 = r
    BY <1>1, <2>1, <2>2
  <2>4. paging_align_address(heap_block_to_address(s) + size)
          = 4096 * (4096 + s + (IF r = 0 THEN q ELSE q + 1))
    BY <1>1, <2>1, <2>2, <2>3 DEF paging_align_address, PAGING_PAGE_SIZE
  <2> QED
    BY <1>1, <1>4, <2>1, <2>4 DEF heap_block_to_address, BENOS_HEAD_ADDRESS,
                      BENOS_HEAP_BLOCK_SIZE
<1>6. /\ TotalBlocks(size) \in Nat
      /\ size # 0 => TotalBlocks(size) >= 1
      /\ size = 0 => TotalBlocks(size) = 0
  BY <1>1, <1>4
<1>7. ASSUME NEW n \in Nat
      PROVE  /\ heap_block_to_address(n) % PAGING_PAGE_SIZE = 0
             /\ heap_address_to_block(heap_block_to_address(n)) = n
  BY DEF heap_block_to_address, heap_address_to_block, BENOS_HEAD_ADDRESS,
         BENOS_HEAP_BLOCK_SIZE, PAGING_PAGE_SIZE
<1>8. ASSUME NEW s \in Blocks
      PROVE  heap_block_to_address(s + TotalBlocks(size))
               > heap_block_to_address(s) <=> size # 0
  BY <1>6 DEF heap_block_to_address, BENOS_HEAD_ADDRESS,
              BENOS_HEAP_BLOCK_SIZE, Blocks
<1>9. \A s \in Blocks : s + TotalBlocks(size) \in Nat
  BY <1>6 DEF Blocks
<1> QED
  BY <1>5, <1>6, <1>7, <1>8, <1>9

-----------------------------------------------------------------------------
(* The block table *)

(***************************************************************************)
(* What the first-fit scan returns is -ENOMEM, or a block from which n     *)
(* blocks on, as far as the table goes, are free.                          *)
(***************************************************************************)
LEMMA StartBlock ==
  ASSUME NEW table \in [Blocks -> Entry], NEW n \in Nat \ {0}
  PROVE  \/ heap_get_start_block(table, n) = -ENOMEM
         \/ /\ heap_get_start_block(table, n) \in Blocks
            /\ \A i \in Blocks : heap_get_start_block(table, n) <= i
                                 /\ i <= heap_get_start_block(table, n) + n - 1
                                   => ~table[i].taken
<1> DEFINE fits == {s \in Blocks : n > 0 /\ FreeRun(table, s, n)}
           start == heap_get_start_block(table, n)
<1> USE TableAssumption
<1>1. CASE fits # {}
  <2>1. \E s \in fits : \A r \in fits : s <= r
    <3>1. fits \subseteq Nat
      BY DEF Blocks
    <3> QED
      BY <1>1, <3>1, LeastElement
  <2>2. start = CHOOSE s \in fits : \A r \in fits : s <= r
    BY <1>1, Zenon DEF heap_get_start_block
  <2>3. start \in fits
    BY <2>1, <2>2, Zenon
  <2> QED
    BY <2>3 DEF FreeRun, Blocks
<1>2. CASE fits = {} /\ table[Total - 1].taken
  BY <1>2, Zenon DEF heap_get_start_block
<1>3. CASE fits = {} /\ ~table[Total - 1].taken
  <2> DEFINE T == {s \in Blocks : \A i \in s..(Total - 1) : ~table[i].taken}
  <2>1. Total - 1 \in T
    BY <1>3 DEF Blocks
  <2>2. PICK s \in T : \A r \in T : s <= r
    <3>1. T \subseteq Blocks
      OBVIOUS
    <3>2. Blocks \subseteq Nat
      BY DEF Blocks
    <3>3. T # {}
      BY <2>1, Zenon
    <3> HIDE DEF T
    <3> QED
      BY <3>1, <3>2, <3>3, LeastElement
  <2>3. s = 0 \/ table[s - 1].taken
    <3>1. SUFFICES ASSUME s # 0, ~table[s - 1].taken
                   PROVE  FALSE
      BY Zenon
    <3>2. s - 1 \in T
      BY <3>1 DEF Blocks
    <3> QED
      BY <2>2, <3>2 DEF Blocks
  <2>4. \E r \in Blocks : IsTrailingRun(table, r)
    BY <2>3, Zenon DEF IsTrailingRun
  <2>5. start = CHOOSE r \in Blocks : IsTrailingRun(table, r)
    BY <1>3, Zenon DEF heap_get_start_block
  <2>6. start \in Blocks /\ IsTrailingRun(table, start)
    BY <2>4, <2>5, Zenon
  <2> QED
    BY <2>6 DEF IsTrailingRun, Blocks
<1> QED
  BY <1>1, <1>2, <1>3

(* Where a piece begins and ends. *)
FirstBlock(x) == heap_address_to_block(x.addr)
LastBlock(x)  == FirstBlock(x) + TotalBlocks(x.size) - 1

(* A piece begins with a block of the pool, and has one. *)
Placed(x) == /\ \E s \in Blocks : x.addr = heap_block_to_address(s)
             /\ TotalBlocks(x.size) \in Nat \ {0}

(* The flags of the entries say where a piece begins and ends. *)
Marked(table, x) ==
  \A b \in Blocks : b \in Extent(x) =>
    /\ table[b].taken
    /\ table[b].first <=> b = FirstBlock(x)
    /\ table[b].next <=> b # LastBlock(x)

Apart(x, y) == Extent(x) \cap Extent(y) = {}

(***************************************************************************)
(* The table is exactly that of a heap with these pieces: the heap of      *)
(* module HeapProofs, but for pieces in place of handles.                  *)
(***************************************************************************)
Exact(table, pieces) ==
  /\ table \in [Blocks -> Entry]
  /\ \A x \in pieces : Placed(x) /\ Marked(table, x)
  /\ \A x, y \in pieces : x # y => Apart(x, y)
  /\ \A b \in Blocks : table[b] # HEAP_BLOCK_TABLE_ENTRY_FREE
                         => \E x \in pieces : b \in Extent(x)

(* The blocks of a piece. *)
LEMMA PlacedExtent ==
  ASSUME NEW x, Placed(x)
  PROVE  /\ FirstBlock(x) \in Blocks
         /\ FirstBlock(x) \in Nat
         /\ LastBlock(x) \in Nat
         /\ FirstBlock(x) <= LastBlock(x)
         /\ Extent(x) = FirstBlock(x)..LastBlock(x)
         /\ FirstBlock(x) \in Extent(x)
         /\ x.addr = heap_block_to_address(FirstBlock(x))
         /\ x.addr # NULL
         /\ x.addr \in Nat
<1>1. PICK s \in Blocks : x.addr = heap_block_to_address(s)
  BY DEF Placed
<1>2. FirstBlock(x) = s /\ x.addr # NULL /\ x.addr \in Nat
  BY <1>1, AddressRoundTrip DEF FirstBlock
<1>3. TotalBlocks(x.size) \in Nat /\ TotalBlocks(x.size) >= 1 /\ s \in Nat
  BY DEF Placed, Blocks
<1>4. Extent(x) = FirstBlock(x)..LastBlock(x)
  BY DEF Extent, BlocksOf, FirstBlock, LastBlock
<1> QED
  BY <1>1, <1>2, <1>3, <1>4 DEF LastBlock

(* Pieces that are apart begin at different addresses. *)
LEMMA ApartAddresses ==
  ASSUME NEW x, NEW y, Placed(x), Placed(y), Apart(x, y)
  PROVE  x.addr # y.addr
<1>1. FirstBlock(x) \in Extent(x) /\ FirstBlock(y) \in Extent(y)
  BY PlacedExtent
<1> QED
  BY <1>1, Zenon DEF Apart, FirstBlock

(* Marking blocks taken or free leaves a table of entries. *)
LEMMA MarkTypes ==
  ASSUME NEW table \in [Blocks -> Entry], NEW s \in Int
  PROVE  /\ \A n \in Nat : heap_mark_blocks_taken(table, s, n) \in [Blocks -> Entry]
         /\ heap_mark_blocks_free(table, s) \in [Blocks -> Entry]
BY DEF heap_mark_blocks_taken, heap_mark_blocks_free, Entry,
       HEAP_BLOCK_TABLE_ENTRY_FREE

(* An allocation that fails leaves the table as it is. *)
LEMMA MallocFails ==
  ASSUME NEW table, NEW size, heap_malloc(table, size).addr = NULL,
         heap_get_start_block(table, TotalBlocks(size)) < 0
           \/ heap_get_start_block(table, TotalBlocks(size)) \in Blocks
  PROVE  heap_malloc(table, size).table = table
<1> DEFINE s == heap_get_start_block(table, TotalBlocks(size))
<1>1. CASE s < 0
  BY <1>1 DEF heap_malloc, heap_malloc_blocks
<1>2. CASE ~(s < 0)
  <2>1. heap_malloc(table, size).addr = heap_block_to_address(s)
    BY <1>2 DEF heap_malloc, heap_malloc_blocks
  <2> QED
    BY <1>2, <2>1, AddressRoundTrip
<1> QED
  BY <1>1, <1>2


(* The entries of a run that was marked taken. *)
LEMMA TakenEntries ==
  ASSUME NEW table \in [Blocks -> Entry], NEW s \in Int, NEW n \in Nat,
         NEW b \in Blocks
  PROVE  LET e == heap_mark_blocks_taken(table, s, n)[b]
         IN  /\ b \in s..(s + n - 1) => /\ e.taken
                                        /\ e.first <=> b = s
                                        /\ e.next <=> b # s + n - 1
             /\ b \notin s..(s + n - 1) => e = table[b]
BY DEF heap_mark_blocks_taken

(* An entry that is not free is taken, so that a run that is not taken is  *)
(* apart from all the pieces.                                              *)
LEMMA NotTakenApart ==
  ASSUME NEW table, NEW pieces, Exact(table, pieces),
         NEW x, Placed(x),
         \A i \in Blocks : i \in Extent(x) => ~table[i].taken
  PROVE  \A y \in pieces : Apart(x, y)
<1> SUFFICES ASSUME NEW y \in pieces, NEW b \in Extent(x) \cap Extent(y)
             PROVE  FALSE
  BY DEF Apart
<1>1. Placed(y) /\ Marked(table, y)
  BY DEF Exact
<1>2. CASE b \in Blocks
  BY <1>1, <1>2, Zenon DEF Marked
<1>3. CASE b \notin Blocks
  <2>1. /\ FirstBlock(x) \in Blocks /\ Extent(x) = FirstBlock(x)..LastBlock(x)
        /\ LastBlock(x) \in Nat
    BY PlacedExtent
  <2>2. /\ FirstBlock(y) \in Blocks /\ Extent(y) = FirstBlock(y)..LastBlock(y)
        /\ LastBlock(y) \in Nat
    BY <1>1, PlacedExtent
  <2>3. Total - 1 \in Blocks /\ Total - 1 \in Extent(x) /\ Total - 1 \in Extent(y)
    BY <1>3, <2>1, <2>2, TableAssumption DEF Blocks
  <2> QED
    BY <1>1, <2>3, Zenon DEF Marked
<1> QED
  BY <1>2, <1>3

(* An allocation adds a piece that is apart from all the others. *)
LEMMA MallocTakes ==
  ASSUME NEW table, NEW pieces, Exact(table, pieces),
         NEW size, TotalBlocks(size) \in Nat \ {0},
         heap_malloc(table, size).addr # NULL,
         NEW x, x.addr = heap_malloc(table, size).addr, x.size = size
  PROVE  /\ Exact(heap_malloc(table, size).table, pieces \cup {x})
         /\ Placed(x)
         /\ \A y \in pieces : Apart(x, y) /\ x # y
<1> DEFINE n == TotalBlocks(size)
           s == heap_get_start_block(table, n)
           new == heap_mark_blocks_taken(table, s, n)
<1>1. table \in [Blocks -> Entry]
  BY DEF Exact
<1>2. ~(s < 0)
  <2>1. CASE s < 0
    <3>1. heap_malloc(table, size).addr = NULL
      BY <2>1 DEF heap_malloc, heap_malloc_blocks
    <3> QED
      BY <3>1
  <2> QED
    BY <2>1
<1>3. /\ heap_malloc(table, size).addr = heap_block_to_address(s)
      /\ heap_malloc(table, size).table = new
  BY <1>2 DEF heap_malloc, heap_malloc_blocks
<1>4. /\ s \in Blocks
      /\ \A i \in Blocks : s <= i /\ i <= s + n - 1 => ~table[i].taken
  <2>1. s # -ENOMEM
    BY <1>2 DEF ENOMEM
  <2> HIDE DEF s
  <2> QED
    BY <1>1, <2>1, StartBlock DEF s
<1>5. Placed(x)
  BY <1>3, <1>4, Zenon DEF Placed
<1>6. FirstBlock(x) = s /\ LastBlock(x) = s + n - 1
  BY <1>3, <1>4, AddressRoundTrip DEF FirstBlock, LastBlock
<1>7. Extent(x) = s..(s + n - 1) /\ s \in Nat /\ n \in Nat
  BY <1>4, <1>5, <1>6, PlacedExtent DEF Blocks
<1> HIDE DEF n, s
<1>8. \A y \in pieces : Apart(x, y)
  <2>1. \A i \in Blocks : i \in Extent(x) => ~table[i].taken
    BY <1>4, <1>7 DEF Blocks
  <2> QED
    BY <1>5, <2>1, NotTakenApart
<1>9. \A y \in pieces : x # y
  <2>1. FirstBlock(x) \in Extent(x)
    BY <1>5, PlacedExtent
  <2> QED
    BY <1>8, <2>1, Zenon DEF Apart
<1>10. new \in [Blocks -> Entry]
  BY <1>1, <1>7, MarkTypes
<1>11. Marked(new, x)
  BY <1>1, <1>6, <1>7, TakenEntries DEF Marked
<1>12. ASSUME NEW y \in pieces
       PROVE  Placed(y) /\ Marked(new, y)
  <2>1. Placed(y) /\ Marked(table, y)
    BY DEF Exact
  <2>2. \A b \in Blocks : b \in Extent(y) => new[b] = table[b]
    <3> TAKE b \in Blocks
    <3>1. b \in Extent(y) => b \notin s..(s + n - 1)
      BY <1>7, <1>8, Zenon DEF Apart
    <3> HIDE DEF new
    <3> QED
      BY <1>1, <1>7, <3>1, TakenEntries DEF new
  <2> HIDE DEF new
  <2> QED
    BY <2>1, <2>2, Zenon DEF Marked
<1>13. ASSUME NEW y \in pieces \cup {x}, NEW z \in pieces \cup {x}, y # z
       PROVE  Apart(y, z)
  <2>1. CASE y \in pieces /\ z \in pieces
    BY <1>13, <2>1, Zenon DEF Exact
  <2>2. CASE y = x
    BY <1>8, <1>13, <2>2
  <2>3. CASE z = x
    <3>1. Apart(x, y)
      BY <1>8, <1>13, <2>3
    <3> QED
      BY <2>3, <3>1 DEF Apart
  <2> QED
    BY <2>1, <2>2, <2>3
<1>14. ASSUME NEW b \in Blocks, new[b] # HEAP_BLOCK_TABLE_ENTRY_FREE
       PROVE  \E y \in pieces \cup {x} : b \in Extent(y)
  <2>1. CASE b \in s..(s + n - 1)
    BY <1>7, <2>1
  <2>2. CASE b \notin s..(s + n - 1)
    <3>1. new[b] = table[b]
      BY <1>1, <1>7, <2>2, TakenEntries
    <3>2. table[b] # HEAP_BLOCK_TABLE_ENTRY_FREE
      BY <1>14, <3>1
    <3> QED
      BY <3>2, Zenon DEF Exact
  <2> QED
    BY <2>1, <2>2
<1>15. Exact(new, pieces \cup {x})
  <2>1. \A y \in pieces \cup {x} : Placed(y) /\ Marked(new, y)
    BY <1>5, <1>11, <1>12
  <2> HIDE DEF new
  <2> QED
    BY <1>10, <1>13, <1>14, <2>1, Zenon DEF Exact
<1> QED
  BY <1>3, <1>5, <1>8, <1>9, <1>15

(* The entries after a free of a piece are those that were free, and its own. *)
LEMMA FreeReturns ==
  ASSUME NEW table, NEW pieces, Exact(table, pieces), NEW x \in pieces
  PROVE  Exact(kfree(table, x.addr), pieces \ {x})
<1> DEFINE f == FirstBlock(x)
           l == LastBlock(x)
           new == heap_mark_blocks_free(table, f)
<1>1. Placed(x) /\ Marked(table, x) /\ table \in [Blocks -> Entry]
  BY DEF Exact
<1>2. /\ f \in Blocks /\ f \in Nat
      /\ l \in Nat
      /\ f <= l
      /\ Extent(x) = f..l
      /\ x.addr # NULL
  BY <1>1, PlacedExtent
<1>3. kfree(table, x.addr) = new
  BY <1>2 DEF kfree, heap_free, FirstBlock
<1>4. \A b \in Blocks : b \in f..l => (table[b].next <=> b # l)
  BY <1>1, <1>2, Zenon DEF Marked
<1> HIDE DEF f, l
<1>5. ASSUME NEW b \in Blocks
      PROVE  (f <= b /\ \A j \in f..(b - 1) : table[j].next) <=> b \in Extent(x)
  <2>1. ASSUME f <= b, \A j \in f..(b - 1) : table[j].next, b > l
        PROVE  FALSE
    <3>1. l \in Blocks /\ l \in f..l /\ l \in f..(b - 1)
      BY <1>2, <2>1, TableAssumption DEF Blocks
    <3> QED
      BY <1>4, <2>1, <3>1
  <2>2. ASSUME b \in f..l
        PROVE  f <= b /\ \A j \in f..(b - 1) : table[j].next
    <3>1. \A j \in f..(b - 1) : j \in Blocks /\ j \in f..l /\ j # l
      BY <1>2, <2>2, TableAssumption DEF Blocks
    <3> QED
      BY <1>2, <1>4, <2>2, <3>1
  <2>3. b \in Int
    BY DEF Blocks
  <2> QED
    BY <1>2, <2>1, <2>2, <2>3
<1>6. \A b \in Blocks : new[b] = IF b \in Extent(x)
                                 THEN HEAP_BLOCK_TABLE_ENTRY_FREE
                                 ELSE table[b]
  BY <1>5, Zenon DEF heap_mark_blocks_free
<1>7. new \in [Blocks -> Entry]
  BY <1>1, <1>2, MarkTypes
<1> HIDE DEF new
<1>8. ASSUME NEW y \in pieces \ {x}
      PROVE  Placed(y) /\ Marked(new, y)
  <2>1. Placed(y) /\ Marked(table, y) /\ Apart(x, y)
    BY <1>8, Zenon DEF Exact
  <2>2. \A b \in Blocks : b \in Extent(y) => new[b] = table[b]
    BY <1>6, <2>1, Zenon DEF Apart
  <2> QED
    BY <2>1, <2>2, Zenon DEF Marked
<1>9. ASSUME NEW b \in Blocks, new[b] # HEAP_BLOCK_TABLE_ENTRY_FREE
      PROVE  \E y \in pieces \ {x} : b \in Extent(y)
  <2>1. b \notin Extent(x) /\ table[b] # HEAP_BLOCK_TABLE_ENTRY_FREE
    BY <1>6, <1>9, Zenon
  <2>2. PICK y \in pieces : b \in Extent(y)
    BY <2>1, Zenon DEF Exact
  <2> QED
    BY <2>1, <2>2
<1>10. \A y, z \in pieces \ {x} : y # z => Apart(y, z)
  BY Zenon DEF Exact
<1>11. Exact(new, pieces \ {x})
  BY <1>7, <1>8, <1>9, <1>10, Zenon DEF Exact
<1> QED
  BY <1>3, <1>11

(***************************************************************************)
(* A request of 0 bytes is given the address of a free block; when it is   *)
(* freed again nothing has changed.                                        *)
(***************************************************************************)
LEMMA EmptyRequest ==
  ASSUME NEW table, NEW pieces, Exact(table, pieces),
         NEW size, TotalBlocks(size) = 0
  PROVE  LET new == heap_malloc(table, size)
         IN  /\ new.table = table
             /\ kfree(table, new.addr) = table
             /\ \/ new.addr = NULL
                \/ \E s \in Blocks : new.addr = heap_block_to_address(s)
<1> DEFINE s == heap_get_start_block(table, 0)
           new == heap_malloc(table, size)
<1>1. table \in [Blocks -> Entry]
  BY DEF Exact
<1>2. \/ s = -ENOMEM
      \/ s \in Blocks /\ ~table[s].taken
  <2> DEFINE fits == {r \in Blocks : 0 > 0 /\ FreeRun(table, r, 0)}
  <2>1. fits = {}
    OBVIOUS
  <2>2. s = IF table[Total - 1].taken
            THEN -ENOMEM
            ELSE CHOOSE r \in Blocks : IsTrailingRun(table, r)
    BY <2>1, Zenon DEF heap_get_start_block
  <2>3. CASE table[Total - 1].taken
    BY <2>2, <2>3
  <2>4. CASE ~table[Total - 1].taken
    <3> DEFINE T == {r \in Blocks : \A i \in r..(Total - 1) : ~table[i].taken}
    <3>1. Total - 1 \in T
      BY <2>4, TableAssumption DEF Blocks
    <3>2. PICK r \in T : \A q \in T : r <= q
      <4>1. T \subseteq Nat
        BY DEF Blocks
      <4>2. T # {}
        BY <3>1, Zenon
      <4> HIDE DEF T
      <4> QED
        BY <4>1, <4>2, LeastElement
    <3>3. r = 0 \/ table[r - 1].taken
      <4>1. SUFFICES ASSUME r # 0, ~table[r - 1].taken
                     PROVE  FALSE
        BY Zenon
      <4>2. r - 1 \in T
        BY <4>1, TableAssumption DEF Blocks
      <4> QED
        BY <3>2, <4>2 DEF Blocks
    <3>4. \E q \in Blocks : IsTrailingRun(table, q)
      BY <3>3, Zenon DEF IsTrailingRun
    <3>5. s \in Blocks /\ IsTrailingRun(table, s)
      <4>1. s = CHOOSE q \in Blocks : IsTrailingRun(table, q)
        BY <2>2, <2>4, Zenon
      <4> QED
        BY <3>4, <4>1, Zenon
    <3> QED
      BY <3>5, TableAssumption DEF IsTrailingRun, Blocks
  <2> QED
    BY <2>3, <2>4
<1>3. new = IF s < 0 THEN [addr |-> NULL, table |-> table]
            ELSE [addr  |-> heap_block_to_address(s),
                  table |-> heap_mark_blocks_taken(table, s, 0)]
  BY DEF heap_malloc, heap_malloc_blocks
<1> HIDE DEF s
<1>4. CASE s = -ENOMEM
  <2>1. new = [addr |-> NULL, table |-> table]
    BY <1>3, <1>4 DEF ENOMEM
  <2> QED
    BY <2>1 DEF kfree
<1>5. CASE s \in Blocks /\ ~table[s].taken
  <2>1. s \in Nat /\ ~(s < 0)
    BY <1>5 DEF Blocks
  <2>2. /\ new.addr = heap_block_to_address(s)
        /\ new.table = heap_mark_blocks_taken(table, s, 0)
    BY <1>3, <2>1
  <2>3. heap_mark_blocks_taken(table, s, 0) = table
    BY <1>1, <2>1 DEF heap_mark_blocks_taken
  <2>4. table[s] = HEAP_BLOCK_TABLE_ENTRY_FREE
    BY <1>5, Zenon DEF Exact, Marked
  <2>5. kfree(table, new.addr) = heap_mark_blocks_free(table, s)
    BY <1>5, <2>2, AddressRoundTrip DEF kfree, heap_free
  <2>6. ~table[s].next
    BY <2>4 DEF HEAP_BLOCK_TABLE_ENTRY_FREE
  <2>7. heap_mark_blocks_free(table, s) = table
    <3>1. \A b \in Blocks : (s <= b /\ \A j \in s..(b - 1) : table[j].next) => b = s
      BY <2>1, <2>6 DEF Blocks
    <3>2. \A b \in Blocks : heap_mark_blocks_free(table, s)[b] = table[b]
      BY <2>4, <3>1, Zenon DEF heap_mark_blocks_free
    <3>3. heap_mark_blocks_free(table, s) \in [Blocks -> Entry]
      BY <1>1, <2>1, MarkTypes
    <3> QED
      BY <1>1, <3>2, <3>3
  <2> QED
    BY <1>5, <2>2, <2>3, <2>5, <2>7
<1> QED
  BY <1>2, <1>4, <1>5


(* What an allocation returns is NULL or an address, and with NULL nothing *)
(* has changed.                                                            *)
LEMMA MallocReturns ==
  ASSUME NEW table, NEW pieces, Exact(table, pieces),
         NEW size, TotalBlocks(size) \in Nat
  PROVE  LET new == heap_malloc(table, size)
         IN  /\ new.addr \in Nat
             /\ new.addr = NULL => new.table = table
<1> DEFINE s == heap_get_start_block(table, TotalBlocks(size))
           new == heap_malloc(table, size)
<1>1. CASE TotalBlocks(size) = 0
  <2>1. new.table = table
    BY <1>1, EmptyRequest
  <2>2. new.addr \in Nat
    <3>1. \/ new.addr = NULL
          \/ \E b \in Blocks : new.addr = heap_block_to_address(b)
      BY <1>1, EmptyRequest
    <3> HIDE DEF new
    <3> QED
      BY <3>1, AddressRoundTrip DEF NULL
  <2> QED
    BY <2>1, <2>2
<1>2. CASE TotalBlocks(size) # 0
  <2>1. table \in [Blocks -> Entry]
    BY DEF Exact
  <2>2. s = -ENOMEM \/ s \in Blocks
    BY <1>2, <2>1, StartBlock
  <2>3. s < 0 \/ s \in Blocks
    BY <2>2 DEF ENOMEM
  <2>4. new.addr = NULL => new.table = table
    BY <2>3, MallocFails
  <2>5. new = IF s < 0 THEN [addr |-> NULL, table |-> table]
              ELSE [addr  |-> heap_block_to_address(s),
                    table |-> heap_mark_blocks_taken(table, s, TotalBlocks(size))]
    BY DEF heap_malloc, heap_malloc_blocks
  <2> HIDE DEF s, new
  <2>6. new.addr \in Nat
    <3>1. CASE s < 0
      BY <2>5, <3>1 DEF NULL
    <3>2. CASE ~(s < 0)
      BY <2>3, <2>5, <3>2, AddressRoundTrip
    <3> QED
      BY <3>1, <3>2
  <2> QED
    BY <2>4, <2>6 DEF new
<1> QED
  BY <1>1, <1>2

-----------------------------------------------------------------------------
(* Several allocations, and several frees, one after the other *)

(* The loop of kzallocAll, as a function of how often it ran. *)
OneMore(before, size) ==
  LET new == heap_malloc(before.table, size)
  IN  [table |-> new.table, addrs |-> Append(before.addrs, new.addr)]

(* Done is that function. *)
IsAllocLoop(done, table, sizes) ==
  done = [i \in 0..Len(sizes) |->
            IF i = 0 THEN [table |-> table, addrs |-> <<>>]
                     ELSE OneMore(done[i - 1], sizes[i])]

LEMMA AllocLoop ==
  ASSUME NEW table, NEW sizes, Len(sizes) \in Nat
  PROVE  \E done : /\ IsAllocLoop(done, table, sizes)
                   /\ kzallocAll(table, sizes) = done[Len(sizes)]
<1> DEFINE base == [table |-> table, addrs |-> <<>>]
           N == Len(sizes)
           Is(f, n) == f = [i \in 0..n |-> IF i = 0 THEN base
                                           ELSE OneMore(f[i - 1], sizes[i])]
           T == {n \in 0..N : \E f : Is(f, n)}
<1> HIDE DEF base, Is
<1>1. 0 \in T
  <2>1. Is([i \in 0..0 |-> base], 0)
    BY DEF Is
  <2>2. 0 \in 0..N
    OBVIOUS
  <2> QED
    BY <2>1, <2>2, Zenon
<1>2. ASSUME NEW n \in 1..N, n - 1 \in T
      PROVE  n \in T
  <2>1. PICK f : Is(f, n - 1)
    BY <1>2
  <2> DEFINE g == [i \in 0..n |-> IF i = n THEN OneMore(f[n - 1], sizes[n])
                                           ELSE f[i]]
  <2>2. \A i \in 0..(n - 1) : f[i] = IF i = 0 THEN base
                                     ELSE OneMore(f[i - 1], sizes[i])
    BY <2>1, Zenon DEF Is
  <2>3. \A i \in 0..n : g[i] = IF i = 0 THEN base
                               ELSE OneMore(g[i - 1], sizes[i])
    <3> TAKE i \in 0..n
    <3>1. CASE i = n
      <4>1. g[i] = OneMore(f[n - 1], sizes[n]) /\ g[n - 1] = f[n - 1] /\ i # 0
        BY <3>1
      <4> QED
        BY <3>1, <4>1, Zenon
    <3>2. CASE i # n
      <4>1. i \in 0..(n - 1) /\ g[i] = f[i] /\ (i # 0 => g[i - 1] = f[i - 1])
        BY <3>2
      <4> QED
        BY <2>2, <4>1, Zenon
    <3> QED
      BY <3>1, <3>2
  <2>4. Is(g, n)
    <3>1. g = [i \in 0..n |-> g[i]]
      BY Zenon
    <3> HIDE DEF g
    <3> QED
      BY <2>3, <3>1, Zenon DEF Is
  <2>5. n \in 0..N
    OBVIOUS
  <2> HIDE DEF g
  <2> QED
    BY <2>4, <2>5, Zenon
<1>3. N \in T
  <2>1. N \in Nat /\ N \in 0..N
    OBVIOUS
  <2> HIDE DEF T, N
  <2> QED
    BY <1>1, <1>2, <2>1, InductionTo
<1>4. \E f : IsAllocLoop(f, table, sizes)
  BY <1>3, Zenon DEF IsAllocLoop, base, Is
<1>5. kzallocAll(table, sizes) =
        (CHOOSE f : IsAllocLoop(f, table, sizes))[Len(sizes)]
  BY Zenon DEF kzallocAll, IsAllocLoop, OneMore
<1> QED
  BY <1>4, <1>5, Zenon


(* The requests of a sequence are for at least one block each. *)
Requests(sizes) ==
  /\ sizes \in Seq(Nat)
  /\ \A i \in 1..Len(sizes) : TotalBlocks(sizes[i]) \in Nat \ {0}

(* The address that round i of the loop appends. *)
Address(done, sizes, i) == heap_malloc(done[i - 1].table, sizes[i]).addr

(* What the rounds of the loop do. *)
Rounds(done, table, sizes) ==
  /\ done[0].table = table
  /\ done[0].addrs = <<>>
  /\ \A i \in 1..Len(sizes) :
       /\ done[i].table = heap_malloc(done[i - 1].table, sizes[i]).table
       /\ done[i].addrs = Append(done[i - 1].addrs, Address(done, sizes, i))

LEMMA OneRound ==
  ASSUME NEW table, NEW sizes, Len(sizes) \in Nat,
         NEW done, IsAllocLoop(done, table, sizes)
  PROVE  Rounds(done, table, sizes)
<1>1. \A i \in 0..Len(sizes) :
        done[i] = IF i = 0 THEN [table |-> table, addrs |-> <<>>]
                           ELSE OneMore(done[i - 1], sizes[i])
  BY Zenon DEF IsAllocLoop
<1>2. done[0] = [table |-> table, addrs |-> <<>>]
  BY <1>1
<1>3. ASSUME NEW i \in 1..Len(sizes)
      PROVE  done[i] = OneMore(done[i - 1], sizes[i])
  BY <1>1
<1>4. ASSUME NEW i \in 1..Len(sizes)
      PROVE  /\ done[i].table = heap_malloc(done[i - 1].table, sizes[i]).table
             /\ done[i].addrs = Append(done[i - 1].addrs, Address(done, sizes, i))
  <2>1. done[i] = OneMore(done[i - 1], sizes[i])
    BY <1>3
  <2> QED
    BY <2>1 DEF OneMore, Address
<1> QED
  BY <1>2, <1>4 DEF Rounds

(* After every round the table is that of some heap, and the addresses are *)
(* those of the rounds.                                                    *)
LEMMA RoundAddresses ==
  ASSUME NEW table, NEW pieces, Exact(table, pieces),
         NEW sizes, Requests(sizes),
         NEW done, IsAllocLoop(done, table, sizes)
  PROVE  \A n \in 0..Len(sizes) :
           /\ \E some : Exact(done[n].table, some)
           /\ done[n].addrs \in Seq(Nat)
           /\ Len(done[n].addrs) = n
           /\ \A i \in 1..n : done[n].addrs[i] = Address(done, sizes, i)
<1> DEFINE P(n) == /\ \E some : Exact(done[n].table, some)
                   /\ done[n].addrs \in Seq(Nat)
                   /\ Len(done[n].addrs) = n
                   /\ \A i \in 1..n : done[n].addrs[i] = Address(done, sizes, i)
           T == {n \in 0..Len(sizes) : P(n)}
<1>1. Len(sizes) \in Nat
  BY DEF Requests
<1>5. Rounds(done, table, sizes)
  BY <1>1, OneRound
<1>2. 0 \in T
  <2>1. done[0].table = table /\ done[0].addrs = <<>>
    BY <1>5 DEF Rounds
  <2>2. /\ done[0].addrs \in Seq(Nat)
        /\ Len(done[0].addrs) = 0
        /\ \A i \in 1..0 : done[0].addrs[i] = Address(done, sizes, i)
    BY <2>1
  <2>3. \E some : Exact(done[0].table, some)
    BY <2>1
  <2> QED
    BY <1>1, <2>2, <2>3
<1>3. ASSUME NEW n \in 1..Len(sizes), n - 1 \in T
      PROVE  n \in T
  <2> DEFINE a == Address(done, sizes, n)
             old == done[n - 1]
  <2>1. P(n - 1)
    BY <1>3
  <2>2. PICK some : Exact(old.table, some)
    BY <2>1
  <2>3. /\ done[n].table = heap_malloc(old.table, sizes[n]).table
        /\ done[n].addrs = Append(old.addrs, a)
    BY <1>5 DEF Rounds
  <2>4. TotalBlocks(sizes[n]) \in Nat \ {0}
    BY DEF Requests
  <2>5. /\ a \in Nat
        /\ a = NULL => heap_malloc(old.table, sizes[n]).table = old.table
    BY <2>2, <2>4, MallocReturns DEF Address
  <2>6. \E more : Exact(done[n].table, more)
    <3>1. CASE a = NULL
      BY <2>2, <2>3, <2>5, <3>1
    <3>2. CASE a # NULL
      <4> DEFINE x == [addr |-> a, size |-> sizes[n]]
      <4>1. x.addr = heap_malloc(old.table, sizes[n]).addr /\ x.size = sizes[n]
        BY DEF Address
      <4> HIDE DEF x
      <4>2. Exact(heap_malloc(old.table, sizes[n]).table, some \cup {x})
        BY <2>2, <2>4, <3>2, <4>1, MallocTakes DEF Address
      <4> QED
        BY <2>3, <4>2
    <3> QED
      BY <3>1, <3>2
  <2> HIDE DEF a, old
  <2>7. /\ old.addrs \in Seq(Nat)
        /\ Len(old.addrs) = n - 1
        /\ \A i \in 1..(n - 1) : old.addrs[i] = Address(done, sizes, i)
    BY <2>1 DEF old
  <2>8. done[n].addrs \in Seq(Nat) /\ Len(done[n].addrs) = n
    BY <2>3, <2>5, <2>7
  <2>9. \A i \in 1..n : done[n].addrs[i] = Address(done, sizes, i)
    <3> TAKE i \in 1..n
    <3>1. CASE i = n
      BY <2>3, <2>5, <2>7, <3>1 DEF a
    <3>2. CASE i # n
      BY <2>3, <2>5, <2>7, <3>2
    <3> QED
      BY <3>1, <3>2
  <2> QED
    BY <2>6, <2>8, <2>9
<1>4. \A n \in 0..Len(sizes) : n \in T
  <2> HIDE DEF T
  <2> QED
    BY <1>1, <1>2, <1>3, InductionTo
<1> QED
  BY <1>4


(* Those of the pieces x[1], x[2] ... that there was memory for. *)
Got(x, n) == {i \in 1..n : x[i].addr # NULL}

(* Pieces x[1], x[2] ... are what was asked for, and what was returned. *)
Answers(x, sizes, all) ==
  \A i \in 1..Len(sizes) : x[i].addr = all.addrs[i] /\ x[i].size = sizes[i]

Allocated(pieces, sizes, x, all) ==
  /\ all.addrs \in Seq(Nat)
  /\ Len(all.addrs) = Len(sizes)
  /\ Exact(all.table, pieces \cup {x[i] : i \in Got(x, Len(sizes))})
  /\ \A i \in Got(x, Len(sizes)) : x[i] \notin pieces
  /\ \A i, j \in Got(x, Len(sizes)) : i # j => x[i] # x[j]

(***************************************************************************)
(* Allocations one after the other add a piece for each that succeeds, all *)
(* of them new and different.                                              *)
(***************************************************************************)
LEMMA AllocAll ==
  ASSUME NEW table, NEW pieces, Exact(table, pieces),
         NEW sizes, Requests(sizes),
         NEW x, Answers(x, sizes, kzallocAll(table, sizes))
  PROVE  Allocated(pieces, sizes, x, kzallocAll(table, sizes))
<1> DEFINE N == Len(sizes)
<1>1. N \in Nat
  BY DEF Requests
<1>2. PICK done : /\ IsAllocLoop(done, table, sizes)
                  /\ kzallocAll(table, sizes) = done[N]
  BY <1>1, AllocLoop
<1>3. \A n \in 0..N :
        /\ done[n].addrs \in Seq(Nat)
        /\ Len(done[n].addrs) = n
        /\ \A i \in 1..n : done[n].addrs[i] = Address(done, sizes, i)
  BY <1>2, RoundAddresses
<1>4. \A i \in 1..N : x[i].addr = Address(done, sizes, i) /\ x[i].size = sizes[i]
  BY <1>1, <1>2, <1>3 DEF Answers
<1>5. Rounds(done, table, sizes)
  BY <1>1, <1>2, OneRound
<1> DEFINE All(n) == pieces \cup {x[i] : i \in Got(x, n)}
           P(n) == /\ Exact(done[n].table, All(n))
                   /\ \A i \in Got(x, n) : x[i] \notin pieces
                   /\ \A i, j \in Got(x, n) : i # j => x[i] # x[j]
           T == {n \in 0..N : P(n)}
<1> HIDE DEF N
<1>6. 0 \in T
  <2>1. Got(x, 0) = {}
    BY DEF Got
  <2>2. All(0) = pieces
    BY <2>1
  <2>3. done[0].table = table
    BY <1>5 DEF Rounds
  <2> HIDE DEF All
  <2>4. P(0)
    BY <2>1, <2>2, <2>3
  <2> QED
    BY <1>1, <2>4
<1>7. ASSUME NEW n \in 1..N, n - 1 \in T
      PROVE  n \in T
  <2>1. P(n - 1)
    BY <1>7
  <2>2. n \in Nat /\ n \in 0..N
    OBVIOUS
  <2>3. Got(x, n) = IF x[n].addr = NULL THEN Got(x, n - 1)
                                        ELSE Got(x, n - 1) \cup {n}
    BY <2>2 DEF Got
  <2>4. /\ x[n].addr = heap_malloc(done[n - 1].table, sizes[n]).addr
        /\ x[n].size = sizes[n]
        /\ done[n].table = heap_malloc(done[n - 1].table, sizes[n]).table
    BY <1>4, <1>5 DEF Rounds, Address, N
  <2>5. TotalBlocks(sizes[n]) \in Nat \ {0}
    BY DEF Requests, N
  <2>6. CASE x[n].addr = NULL
    <3>1. Got(x, n) = Got(x, n - 1)
      BY <2>3, <2>6
    <3>2. done[n].table = done[n - 1].table
      BY <2>1, <2>4, <2>5, <2>6, MallocReturns
    <3>3. P(n)
      BY <2>1, <3>1, <3>2, Zenon
    <3> QED
      BY <2>2, <3>3, Zenon
  <2>7. CASE x[n].addr # NULL
    <3>1. Got(x, n) = Got(x, n - 1) \cup {n}
      BY <2>3, <2>7
    <3>2. /\ Exact(done[n].table, All(n - 1) \cup {x[n]})
          /\ \A y \in All(n - 1) : x[n] # y
      <4> DEFINE old == done[n - 1].table
                 before == All(n - 1)
                 y == x[n]
                 size == sizes[n]
      <4>1. Exact(old, before)
        BY <2>1
      <4>2. /\ heap_malloc(old, size).addr # NULL
            /\ y.addr = heap_malloc(old, size).addr
            /\ y.size = size
            /\ done[n].table = heap_malloc(old, size).table
            /\ TotalBlocks(size) \in Nat \ {0}
        BY <2>4, <2>5, <2>7
      <4> HIDE DEF old, before, y, size
      <4>3. Exact(heap_malloc(old, size).table, before \cup {y})
        BY ONLY <4>1, <4>2, MallocTakes
      <4>4. \A z \in before : y # z
        BY ONLY <4>1, <4>2, MallocTakes
      <4> QED
        BY <4>2, <4>3, <4>4 DEF before, y
    <3>3. All(n - 1) \cup {x[n]} = All(n)
      BY <3>1
    <3>4. \A i \in Got(x, n) : x[i] \notin pieces
      BY <2>1, <3>1, <3>2
    <3>5. \A i, j \in Got(x, n) : i # j => x[i] # x[j]
      BY <2>1, <3>1, <3>2
    <3>6. P(n)
      BY <3>2, <3>3, <3>4, <3>5, Zenon
    <3> QED
      BY <2>2, <3>6, Zenon
  <2> QED
    BY <2>6, <2>7
<1>8. N \in T
  <2>1. N \in 0..N
    BY <1>1
  <2> HIDE DEF T
  <2> QED
    BY <1>1, <1>6, <1>7, <2>1, InductionTo
<1>9. P(N)
  BY <1>8
<1>10. N \in 0..N
  BY <1>1
<1> QED
  BY <1>2, <1>3, <1>9, <1>10, Zenon DEF N, Allocated


(* The loop of kfreeAll. *)
IsFreeLoop(done, table, addrs) ==
  done = [i \in 0..Len(addrs) |->
            IF i = 0 THEN table ELSE kfree(done[i - 1], addrs[i])]

LEMMA FreeLoop ==
  ASSUME NEW table, NEW addrs, Len(addrs) \in Nat
  PROVE  \E done : /\ IsFreeLoop(done, table, addrs)
                   /\ kfreeAll(table, addrs) = done[Len(addrs)]
<1> DEFINE N == Len(addrs)
           Is(f, n) == f = [i \in 0..n |-> IF i = 0 THEN table
                                           ELSE kfree(f[i - 1], addrs[i])]
           T == {n \in 0..N : \E f : Is(f, n)}
<1> HIDE DEF Is
<1>1. 0 \in T
  <2>1. Is([i \in 0..0 |-> table], 0)
    BY DEF Is
  <2>2. 0 \in 0..N
    OBVIOUS
  <2> QED
    BY <2>1, <2>2, Zenon
<1>2. ASSUME NEW n \in 1..N, n - 1 \in T
      PROVE  n \in T
  <2>1. PICK f : Is(f, n - 1)
    BY <1>2
  <2> DEFINE g == [i \in 0..n |-> IF i = n THEN kfree(f[n - 1], addrs[n])
                                           ELSE f[i]]
  <2>2. \A i \in 0..(n - 1) : f[i] = IF i = 0 THEN table
                                     ELSE kfree(f[i - 1], addrs[i])
    BY <2>1, Zenon DEF Is
  <2>3. \A i \in 0..n : g[i] = IF i = 0 THEN table
                               ELSE kfree(g[i - 1], addrs[i])
    <3> TAKE i \in 0..n
    <3>1. CASE i = n
      <4>1. g[i] = kfree(f[n - 1], addrs[n]) /\ g[n - 1] = f[n - 1] /\ i # 0
        BY <3>1
      <4> QED
        BY <3>1, <4>1, Zenon
    <3>2. CASE i # n
      <4>1. i \in 0..(n - 1) /\ g[i] = f[i] /\ (i # 0 => g[i - 1] = f[i - 1])
        BY <3>2
      <4> QED
        BY <2>2, <4>1, Zenon
    <3> QED
      BY <3>1, <3>2
  <2>4. Is(g, n)
    <3>1. g = [i \in 0..n |-> g[i]]
      BY Zenon
    <3> HIDE DEF g
    <3> QED
      BY <2>3, <3>1, Zenon DEF Is
  <2>5. n \in 0..N
    OBVIOUS
  <2> HIDE DEF g
  <2> QED
    BY <2>4, <2>5, Zenon
<1>3. N \in T
  <2>1. N \in Nat /\ N \in 0..N
    OBVIOUS
  <2> HIDE DEF T, N
  <2> QED
    BY <1>1, <1>2, <2>1, InductionTo
<1>4. \E f : IsFreeLoop(f, table, addrs)
  BY <1>3, Zenon DEF IsFreeLoop, Is
<1>5. kfreeAll(table, addrs) =
        (CHOOSE f : IsFreeLoop(f, table, addrs))[Len(addrs)]
  BY Zenon DEF kfreeAll, IsFreeLoop
<1> QED
  BY <1>4, <1>5, Zenon

(* Frees of the addresses of different pieces leave the other ones. *)
LEMMA FreeAll ==
  ASSUME NEW table, NEW pieces, Exact(table, pieces),
         NEW addrs, Len(addrs) \in Nat,
         NEW x,
         \A i \in 1..Len(addrs) : x[i] \in pieces /\ x[i].addr = addrs[i],
         \A i, j \in 1..Len(addrs) : i # j => x[i] # x[j]
  PROVE  Exact(kfreeAll(table, addrs),
               pieces \ {x[i] : i \in 1..Len(addrs)})
<1> DEFINE N == Len(addrs)
<1>1. PICK done : /\ IsFreeLoop(done, table, addrs)
                  /\ kfreeAll(table, addrs) = done[N]
  BY FreeLoop
<1>2. \A i \in 0..N : done[i] = IF i = 0 THEN table
                                ELSE kfree(done[i - 1], addrs[i])
  BY <1>1, Zenon DEF IsFreeLoop
<1> DEFINE Rest(n) == pieces \ {x[i] : i \in 1..n}
           T == {n \in 0..N : Exact(done[n], Rest(n))}
<1> HIDE DEF N
<1>6. N \in Nat
  BY DEF N
<1>3. 0 \in T
  <2>1. done[0] = table /\ Rest(0) = pieces
    BY <1>2, <1>6
  <2> HIDE DEF Rest
  <2> QED
    BY <1>6, <2>1
<1>4. ASSUME NEW n \in 1..N, n - 1 \in T
      PROVE  n \in T
  <2> DEFINE old == done[n - 1]
             before == Rest(n - 1)
             y == x[n]
  <2>1. Exact(old, before)
    BY <1>4
  <2>2. done[n] = kfree(old, y.addr)
    <3>1. n \in 0..N /\ n # 0
      OBVIOUS
    <3> QED
      BY <1>2, <3>1 DEF N
  <2>3. y \in before
    BY DEF N
  <2>4. Rest(n) = before \ {y}
    OBVIOUS
  <2> HIDE DEF old, before, y, Rest
  <2>5. Exact(kfree(old, y.addr), before \ {y})
    BY ONLY <2>1, <2>3, FreeReturns
  <2>6. Exact(done[n], Rest(n))
    BY <2>2, <2>4, <2>5, Zenon
  <2>7. n \in 0..N
    BY <1>6
  <2> QED
    BY <2>6, <2>7, Zenon
<1>5. N \in T
  <2>1. N \in 0..N
    BY <1>6
  <2> HIDE DEF T
  <2> QED
    BY <1>6, <1>3, <1>4, <2>1, InductionTo
<1> QED
  BY <1>1, <1>5 DEF N


-----------------------------------------------------------------------------
(* A process: what is in its struct process *)

Allocation == [ptr : Nat, size : Nat]

ProcessType ==
  [struct : Nat, image : Programs, file : Nat, mem : Nat, stack : Nat,
   task : Nat, dir : Seq(Nat), allocations : [Slots -> Allocation],
   pages : [Regions -> SUBSET Int], argc : Nat, argv : Nat, args : Seq(Nat)]

(* A slot is empty, or holds an allocation of at least one byte. *)
SlotSound(slot) == IF slot.ptr = NULL
                   THEN slot.size = 0
                   ELSE slot.size # 0 /\ Fits(slot.size)

(* The pages are those of the allocations, and of the program and the stack. *)
PagesSound(p, q) ==
  /\ q.pages["heap"] = Cover(SlotPieces(p, q))
  /\ q.pages["stack"] \subseteq BlocksOf(q.stack, BENOS_USER_PROGRAM_STACK_SIZE)
  /\ SegmentsFit => q.pages["program"] \subseteq BlocksOf(q.mem, q.image.size)

ProcessSound(p, q) == /\ q \in ProcessType
                      /\ \A i \in Slots : SlotSound(q.allocations[i])
                      /\ PagesSound(p, q)

(* All that belongs to a process. *)
OwnPieces(p, q) == UserPieces(p, q) \cup KernelPieces(p, q)

(* The piece of a slot. *)
SlotPiece(p, q, i) ==
  NthPiece("slot", i, p, q.allocations[i].ptr, q.allocations[i].size)

(* The fields of a piece; pieces of different names are different. *)
LEMMA PieceFields ==
  ASSUME NEW what, NEW i, NEW p, NEW a, NEW n
  PROVE  /\ NthPiece(what, i, p, a, n).addr = a
         /\ NthPiece(what, i, p, a, n).size = n
         /\ NthPiece(what, i, p, a, n).of = p
         /\ NthPiece(what, i, p, a, n).what[1] = what
         /\ NthPiece(what, i, p, a, n).what[2] = i
         /\ Piece(what, p, a, n).addr = a
         /\ Piece(what, p, a, n).size = n
         /\ Piece(what, p, a, n).of = p
         /\ Piece(what, p, a, n).what[1] = what
BY DEF NthPiece, Piece

LEMMA SlotPieceFields ==
  ASSUME NEW p, NEW q, NEW i
  PROVE  /\ SlotPiece(p, q, i).addr = q.allocations[i].ptr
         /\ SlotPiece(p, q, i).size = q.allocations[i].size
         /\ SlotPiece(p, q, i).of = p
         /\ SlotPiece(p, q, i).what[1] = "slot"
         /\ SlotPiece(p, q, i).what[2] = i
BY PieceFields DEF SlotPiece

(* What a search of the slots returns. *)
LEMMA SlotFound ==
  ASSUME NEW q, NEW ptr
  PROVE  \/ SlotOf(q, ptr) = -1 /\ \A i \in Slots : q.allocations[i].ptr # ptr
         \/ /\ SlotOf(q, ptr) \in Slots
            /\ SlotOf(q, ptr) >= 0
            /\ q.allocations[SlotOf(q, ptr)].ptr = ptr
<1> DEFINE holds == {i \in Slots : q.allocations[i].ptr = ptr}
<1>1. CASE holds = {}
  BY <1>1, Zenon DEF SlotOf
<1>2. CASE holds # {}
  <2>1. holds \subseteq Nat
    BY ProcessAssumption DEF Slots
  <2>2. \E i \in holds : \A j \in holds : i <= j
    <3> HIDE DEF holds
    <3> QED
      BY <1>2, <2>1, LeastElement
  <2>3. SlotOf(q, ptr) = CHOOSE i \in holds : \A j \in holds : i <= j
    BY <1>2, Zenon DEF SlotOf
  <2>4. SlotOf(q, ptr) \in holds
    BY <2>2, <2>3, Zenon
  <2>5. SlotOf(q, ptr) >= 0
    <3>1. SlotOf(q, ptr) \in Nat
      BY <2>1, <2>4, Zenon
    <3> QED
      BY <3>1
  <2> QED
    BY <2>4, <2>5, Zenon
<1> QED
  BY <1>1, <1>2

(***************************************************************************)
(* The pages of a piece of the heap are its blocks; nothing can be mapped  *)
(* or unmapped for 0 bytes.                                                *)
(***************************************************************************)
LEMMA PageRange ==
  ASSUME NEW addr, NEW size \in Nat, Fits(size),
         \E s \in Blocks : addr = heap_block_to_address(s)
  PROVE  LET end == paging_align_address(addr + size)
         IN  /\ addr % PAGING_PAGE_SIZE = 0
             /\ end % PAGING_PAGE_SIZE = 0
             /\ end > addr <=> size # 0
             /\ heap_address_to_block(addr)..(heap_address_to_block(end) - 1)
                  = BlocksOf(addr, size)
<1>1. PICK s \in Blocks : addr = heap_block_to_address(s)
  OBVIOUS
<1>2. /\ addr % PAGING_PAGE_SIZE = 0
      /\ heap_address_to_block(addr) = s
  BY <1>1, AddressRoundTrip
<1> DEFINE end == paging_align_address(addr + size)
<1>3. /\ end % PAGING_PAGE_SIZE = 0
      /\ end > addr <=> size # 0
      /\ heap_address_to_block(end) = s + TotalBlocks(size)
      /\ TotalBlocks(size) \in Nat
  BY <1>1, RequestBlocks
<1> HIDE DEF end
<1>4. heap_address_to_block(addr)..(heap_address_to_block(end) - 1)
        = BlocksOf(addr, size)
  BY <1>2, <1>3 DEF BlocksOf, Blocks
<1> QED
  BY <1>2, <1>3, <1>4 DEF end

LEMMA MapsHeap ==
  ASSUME NEW addr, NEW size \in Nat, Fits(size),
         \E s \in Blocks : addr = heap_block_to_address(s),
         NEW pages
  PROVE  LET map == paging_map_to(pages, "heap", addr,
                                  paging_align_address(addr + size), TRUE)
         IN  /\ map.ok <=> size # 0
             /\ size # 0 => map.pages =
                  [pages EXCEPT !["heap"] = @ \cup BlocksOf(addr, size)]
<1> DEFINE end == paging_align_address(addr + size)
           map == paging_map_to(pages, "heap", addr, end, TRUE)
<1>1. /\ addr % PAGING_PAGE_SIZE = 0
      /\ end % PAGING_PAGE_SIZE = 0
      /\ end > addr <=> size # 0
      /\ heap_address_to_block(addr)..(heap_address_to_block(end) - 1)
           = BlocksOf(addr, size)
  BY PageRange
<1> HIDE DEF end
<1>2. CASE size # 0
  <2>1. /\ map.ok
        /\ map.pages = [pages EXCEPT !["heap"] = @ \cup BlocksOf(addr, size)]
    BY <1>1, <1>2 DEF paging_map_to
  <2> QED
    BY <1>2, <2>1 DEF end
<1>3. CASE size = 0
  <2>1. ~map.ok
    BY <1>1, <1>3 DEF paging_map_to
  <2> QED
    BY <1>3, <2>1 DEF end
<1> QED
  BY <1>2, <1>3

LEMMA UnmapsHeap ==
  ASSUME NEW addr, NEW size \in Nat, Fits(size),
         \E s \in Blocks : addr = heap_block_to_address(s),
         NEW pages, size # 0
  PROVE  LET map == paging_map_to(pages, "heap", addr,
                                  paging_align_address(addr + size), FALSE)
         IN  /\ map.ok
             /\ map.pages = [pages EXCEPT !["heap"] = @ \ BlocksOf(addr, size)]
<1> DEFINE end == paging_align_address(addr + size)
<1>1. /\ addr % PAGING_PAGE_SIZE = 0
      /\ end % PAGING_PAGE_SIZE = 0
      /\ end > addr
      /\ heap_address_to_block(addr)..(heap_address_to_block(end) - 1)
           = BlocksOf(addr, size)
  BY PageRange
<1> HIDE DEF end
<1>2. LET map == paging_map_to(pages, "heap", addr, end, FALSE)
      IN  /\ map.ok
          /\ map.pages = [pages EXCEPT !["heap"] = @ \ BlocksOf(addr, size)]
  BY <1>1 DEF paging_map_to
<1> QED
  BY <1>2 DEF end

(* Nothing can be mapped or unmapped for the 0 bytes at NULL. *)
LEMMA NullPages ==
  ASSUME NEW pages
  PROVE  ~paging_map_to(pages, "heap", NULL, paging_align_address(NULL + 0),
                        FALSE).ok
<1>1. paging_align_address(NULL + 0) = 0
  BY DEF paging_align_address, NULL, PAGING_PAGE_SIZE
<1> QED
  BY <1>1 DEF paging_map_to, NULL

(* Only allocations and pages, or arguments, differ. *)
SameParts(q, r) ==
  /\ r.struct = q.struct /\ r.image = q.image /\ r.file = q.file
  /\ r.mem = q.mem /\ r.stack = q.stack /\ r.task = q.task /\ r.dir = q.dir

(* The pieces of a process that are not those of its slots. *)
FixedPieces(p, q) ==
  {Piece("mem", p, q.mem, q.image.size),
   Piece("stack", p, q.stack, BENOS_USER_PROGRAM_STACK_SIZE)}
    \cup KernelPieces(p, q)

LEMMA OwnParts ==
  ASSUME NEW p, NEW q
  PROVE  /\ OwnPieces(p, q) = FixedPieces(p, q) \cup SlotPieces(p, q)
         /\ \A x \in FixedPieces(p, q) : \A i : x # SlotPiece(p, q, i)
         /\ \A x \in OwnPieces(p, q) : x.of = p
         /\ \A i \in Slots : q.allocations[i].ptr # NULL
                               => SlotPiece(p, q, i) \in OwnPieces(p, q)
         /\ SlotPieces(p, q) = {SlotPiece(p, q, i)
                : i \in {j \in Slots : q.allocations[j].ptr # NULL}}
<1>1. OwnPieces(p, q) = FixedPieces(p, q) \cup SlotPieces(p, q)
  BY Zenon DEF OwnPieces, FixedPieces, UserPieces
<1>2. SlotPieces(p, q) = {SlotPiece(p, q, i)
                : i \in {j \in Slots : q.allocations[j].ptr # NULL}}
  BY Zenon DEF SlotPieces, SlotPiece
<1>3. \A x \in FixedPieces(p, q) : x.of = p /\ x.what[1] # "slot"
  <2> SUFFICES ASSUME NEW x \in FixedPieces(p, q)
               PROVE  x.of = p /\ x.what[1] # "slot"
    BY Zenon
  <2>1. CASE \E i \in DOMAIN q.dir : x = NthPiece("dir", i, p, q.dir[i], BlockSize)
    BY <2>1, PieceFields
  <2>2. CASE x = Piece("mem", p, q.mem, q.image.size)
    BY <2>2, PieceFields
  <2>3. CASE x = Piece("stack", p, q.stack, BENOS_USER_PROGRAM_STACK_SIZE)
    BY <2>3, PieceFields
  <2>4. CASE x = Piece("struct", p, q.struct, SizeofProcess)
    BY <2>4, PieceFields
  <2>5. CASE x = Piece("file", p, q.file, BlockSize)
    BY <2>5, PieceFields
  <2>6. CASE x = Piece("task", p, q.task, BlockSize)
    BY <2>6, PieceFields
  <2> QED
    BY <2>1, <2>2, <2>3, <2>4, <2>5, <2>6, Zenon DEF FixedPieces, KernelPieces
<1>4. ASSUME NEW x \in FixedPieces(p, q), NEW i
      PROVE  x # SlotPiece(p, q, i)
  <2>1. SlotPiece(p, q, i).what[1] = "slot"
    BY SlotPieceFields
  <2>2. x.what[1] # "slot"
    BY <1>3, Zenon
  <2> QED
    BY <2>1, <2>2, Zenon
<1>5. \A x \in SlotPieces(p, q) : x.of = p
  <2> SUFFICES ASSUME NEW x \in SlotPieces(p, q)
               PROVE  x.of = p
    BY Zenon
  <2>1. PICK i \in Slots : x = SlotPiece(p, q, i)
    BY <1>2
  <2> QED
    BY <2>1, SlotPieceFields
<1>6. \A i \in Slots : q.allocations[i].ptr # NULL
                          => SlotPiece(p, q, i) \in OwnPieces(p, q)
  BY <1>1, <1>2
<1>7. \A x \in OwnPieces(p, q) : x.of = p
  BY <1>1, <1>3, <1>5, Zenon
<1> QED
  BY <1>1, <1>2, <1>4, <1>6, <1>7, Zenon

LEMMA SameFixed ==
  ASSUME NEW p, NEW q, NEW r, SameParts(q, r)
  PROVE  FixedPieces(p, r) = FixedPieces(p, q)
BY Zenon DEF SameParts, FixedPieces, KernelPieces

(* Process r has an allocation in slot i, which is empty in process q. *)
Fuller(r, q, i) ==
  /\ SameParts(q, r)
  /\ q.allocations[i].ptr = NULL
  /\ r.allocations[i].ptr # NULL
  /\ \A j \in Slots \ {i} : r.allocations[j] = q.allocations[j]

(* A slot that is filled adds its piece to those of the process. *)
LEMMA SlotFilled ==
  ASSUME NEW p, NEW q, NEW r, NEW i \in Slots, Fuller(r, q, i)
  PROVE  /\ SlotPieces(p, r) = SlotPieces(p, q) \cup {SlotPiece(p, r, i)}
         /\ OwnPieces(p, r) = OwnPieces(p, q) \cup {SlotPiece(p, r, i)}
<1>1. \A j \in Slots \ {i} : SlotPiece(p, r, j) = SlotPiece(p, q, j)
  BY Zenon DEF SlotPiece, Fuller
<1>2. SlotPieces(p, r) = SlotPieces(p, q) \cup {SlotPiece(p, r, i)}
  <2>1. SlotPieces(p, r) = {SlotPiece(p, r, j)
                : j \in {k \in Slots : r.allocations[k].ptr # NULL}}
    BY OwnParts, Zenon
  <2>2. SlotPieces(p, q) = {SlotPiece(p, q, j)
                : j \in {k \in Slots : q.allocations[k].ptr # NULL}}
    BY OwnParts, Zenon
  <2>3. {k \in Slots : r.allocations[k].ptr # NULL}
          = {k \in Slots : q.allocations[k].ptr # NULL} \cup {i}
    BY DEF Fuller
  <2>4. i \notin {k \in Slots : q.allocations[k].ptr # NULL}
    BY DEF Fuller
  <2> QED
    BY <1>1, <2>1, <2>2, <2>3, <2>4
<1>3. FixedPieces(p, r) = FixedPieces(p, q)
  BY SameFixed DEF Fuller
<1> QED
  BY <1>2, <1>3, OwnParts

(* A slot that is emptied takes its piece away. *)
TakesAway(p, q, r, x) == /\ SlotPieces(p, r) = SlotPieces(p, q) \ {x}
                         /\ OwnPieces(p, r) = OwnPieces(p, q) \ {x}

LEMMA SlotEmptied ==
  ASSUME NEW p, NEW q, NEW r, NEW i \in Slots, Fuller(q, r, i)
  PROVE  TakesAway(p, q, r, SlotPiece(p, q, i))
<1>1. \A j \in Slots \ {i} : SlotPiece(p, r, j) = SlotPiece(p, q, j)
  BY Zenon DEF SlotPiece, Fuller
<1>2. ASSUME NEW j \in Slots \ {i}
      PROVE  SlotPiece(p, q, j) # SlotPiece(p, q, i)
  <2>1. SlotPiece(p, q, j).what[2] = j /\ SlotPiece(p, q, i).what[2] = i
    BY SlotPieceFields
  <2>2. i # j
    OBVIOUS
  <2> QED
    BY <2>1, <2>2, Zenon
<1>3. SlotPieces(p, r) = SlotPieces(p, q) \ {SlotPiece(p, q, i)}
  <2>1. SlotPieces(p, r) = {SlotPiece(p, r, j)
                : j \in {k \in Slots : r.allocations[k].ptr # NULL}}
    BY OwnParts, Zenon
  <2>2. SlotPieces(p, q) = {SlotPiece(p, q, j)
                : j \in {k \in Slots : q.allocations[k].ptr # NULL}}
    BY OwnParts, Zenon
  <2>3. {k \in Slots : r.allocations[k].ptr # NULL}
          = {k \in Slots : q.allocations[k].ptr # NULL} \ {i}
    BY DEF Fuller
  <2> QED
    BY <1>1, <1>2, <2>1, <2>2, <2>3
<1>4. FixedPieces(p, r) = FixedPieces(p, q)
  <2>1. SameParts(q, r)
    BY DEF Fuller, SameParts
  <2> QED
    BY <2>1, SameFixed
<1>5. SlotPiece(p, q, i) \notin FixedPieces(p, q)
  <2>1. \A x \in FixedPieces(p, q) : \A j : x # SlotPiece(p, q, j)
    BY OwnParts, Zenon
  <2> QED
    BY <2>1, Zenon
<1>6. /\ OwnPieces(p, r) = FixedPieces(p, r) \cup SlotPieces(p, r)
      /\ OwnPieces(p, q) = FixedPieces(p, q) \cup SlotPieces(p, q)
  BY OwnParts, Zenon
<1> QED
  BY <1>3, <1>4, <1>5, <1>6 DEF TakesAway


(* The arguments are the same, too. *)
SameArgs(q, r) == r.argc = q.argc /\ r.argv = q.argv /\ r.args = q.args

(* A process of which the allocations and the pages are replaced. *)
LEMMA Replaced ==
  ASSUME NEW q \in ProcessType,
         NEW allocations \in [Slots -> Allocation],
         NEW pages \in [Regions -> SUBSET Int],
         NEW r, r = [q EXCEPT !.allocations = allocations, !.pages = pages]
  PROVE  /\ r \in ProcessType
         /\ SameParts(q, r)
         /\ SameArgs(q, r)
         /\ r.allocations = allocations
         /\ r.pages = pages
BY DEF ProcessType, SameParts, SameArgs

IsReplaced(r, q, i, slot, pages) ==
  r = [q EXCEPT !.allocations[i] = slot, !.pages = pages]

LEMMA ReplacedSlot ==
  ASSUME NEW q \in ProcessType,
         NEW i \in Slots, NEW slot \in Allocation,
         NEW pages \in [Regions -> SUBSET Int],
         NEW r, IsReplaced(r, q, i, slot, pages)
  PROVE  /\ r \in ProcessType
         /\ SameParts(q, r)
         /\ SameArgs(q, r)
         /\ r.allocations \in [Slots -> Allocation]
         /\ r.allocations[i] = slot
         /\ \A j \in Slots \ {i} : r.allocations[j] = q.allocations[j]
         /\ r.pages = pages
<1>1. q.allocations \in [Slots -> Allocation]
  BY DEF ProcessType
<1> DEFINE new == [q.allocations EXCEPT ![i] = slot]
<1>2. /\ new \in [Slots -> Allocation]
      /\ new[i] = slot
      /\ \A j \in Slots \ {i} : new[j] = q.allocations[j]
  BY <1>1
<1>3. r = [q EXCEPT !.allocations = new, !.pages = pages]
  BY DEF ProcessType, IsReplaced
<1> HIDE DEF new
<1>4. /\ r \in ProcessType
      /\ SameParts(q, r)
      /\ SameArgs(q, r)
      /\ r.allocations = new
      /\ r.pages = pages
  BY <1>2, <1>3 DEF ProcessType, SameParts, SameArgs
<1> QED
  BY <1>2, <1>4


(* Pieces of others than process p. *)
Foreign(p, pieces) == \A x \in pieces : x.of # p

(* The heap is that of the process q and of the rest. *)
Holds(table, p, q, rest) == Exact(table, rest \cup OwnPieces(p, q))

(* The pieces of what a process has are somewhere in the pool, and those   *)
(* of its slots apart from each other.                                     *)
LEMMA HeldSlots ==
  ASSUME NEW table, NEW p, NEW q, NEW rest, Holds(table, p, q, rest)
  PROVE  /\ \A i \in Slots : q.allocations[i].ptr # NULL
              => Placed(SlotPiece(p, q, i))
         /\ \A i, j \in Slots :
              q.allocations[i].ptr # NULL /\ i # j
                => q.allocations[i].ptr # q.allocations[j].ptr
<1>1. ASSUME NEW i \in Slots, q.allocations[i].ptr # NULL
      PROVE  /\ SlotPiece(p, q, i) \in rest \cup OwnPieces(p, q)
             /\ Placed(SlotPiece(p, q, i))
  <2>1. SlotPiece(p, q, i) \in OwnPieces(p, q)
    BY <1>1, OwnParts, Zenon
  <2>2. SlotPiece(p, q, i) \in rest \cup OwnPieces(p, q)
    BY <2>1
  <2> QED
    BY <2>2, Zenon DEF Holds, Exact
<1>2. ASSUME NEW i \in Slots, NEW j \in Slots,
             q.allocations[i].ptr = q.allocations[j].ptr,
             q.allocations[i].ptr # NULL, i # j
      PROVE  FALSE
  <2>1. SlotPiece(p, q, i) # SlotPiece(p, q, j)
    <3>1. SlotPiece(p, q, j).what[2] = j /\ SlotPiece(p, q, i).what[2] = i
      BY SlotPieceFields
    <3> QED
      BY <1>2, <3>1, Zenon
  <2>2. Apart(SlotPiece(p, q, i), SlotPiece(p, q, j))
    BY <1>1, <1>2, <2>1, Zenon DEF Holds, Exact
  <2>3. SlotPiece(p, q, i).addr # SlotPiece(p, q, j).addr
    <3> DEFINE x == SlotPiece(p, q, i)
               y == SlotPiece(p, q, j)
    <3>1. Placed(x) /\ Placed(y) /\ Apart(x, y)
      BY <1>1, <1>2, <2>2
    <3> HIDE DEF x, y
    <3> QED
      BY <3>1, ApartAddresses DEF x, y
  <2>4. /\ SlotPiece(p, q, i).addr = q.allocations[i].ptr
        /\ SlotPiece(p, q, j).addr = q.allocations[j].ptr
    BY SlotPieceFields
  <2> QED
    BY <1>2, <2>3, <2>4, Zenon
<1> QED
  BY <1>1, <1>2, Zenon

(* What process_malloc promises of the process r it leaves behind. *)
Malloced(table, p, q, rest, size, new) ==
  /\ ProcessSound(p, new.process)
  /\ Holds(new.table, p, new.process, rest)
  /\ SameParts(q, new.process)
  /\ SameArgs(q, new.process)
  /\ new.ptr \in Nat
  /\ new.ptr = NULL => new.process = q
  /\ new.ptr # NULL =>
       \E i \in Slots :
         /\ q.allocations[i].ptr = NULL
         /\ new.process.allocations[i].ptr = new.ptr
         /\ \A j \in Slots \ {i} :
              /\ new.process.allocations[j] = q.allocations[j]
              /\ q.allocations[j].ptr # new.ptr

(* A slot is filled with a piece of the heap that is apart from the others. *)
LEMMA SlotTaken ==
  ASSUME NEW table, NEW p, NEW q, NEW rest,
         ProcessSound(p, q), Holds(table, p, q, rest),
         NEW size \in Nat, size # 0, Fits(size),
         NEW addr \in Nat, addr # NULL,
         NEW i \in Slots, q.allocations[i].ptr = NULL,
         NEW x, x = NthPiece("slot", i, p, addr, size),
         NEW after, Exact(after, (rest \cup OwnPieces(p, q)) \cup {x}),
         Placed(x), \A y \in rest \cup OwnPieces(p, q) : x # y /\ Apart(x, y),
         NEW pages,
         pages = [q.pages EXCEPT !["heap"] = @ \cup BlocksOf(addr, size)],
         NEW slot, slot = [ptr |-> addr, size |-> size],
         NEW r, IsReplaced(r, q, i, slot, pages),
         NEW res, res.table = after, res.process = r, res.ptr = addr
  PROVE  Malloced(table, p, q, rest, size, res)
<1>1. x.addr = addr /\ x.size = size
  BY PieceFields
<1>2. q \in ProcessType /\ q.pages \in [Regions -> SUBSET Int]
  BY DEF ProcessSound, ProcessType
<1>3. Extent(x) = BlocksOf(addr, size)
  BY <1>1, Zenon DEF Extent
<1>4. Extent(x) \subseteq Int
  <2>1. FirstBlock(x) \in Int /\ LastBlock(x) \in Int
        /\ Extent(x) = FirstBlock(x)..LastBlock(x)
    BY PlacedExtent DEF Blocks
  <2> QED
    BY <2>1
<1>5. /\ pages \in [Regions -> SUBSET Int]
      /\ pages["heap"] = q.pages["heap"] \cup Extent(x)
      /\ pages["stack"] = q.pages["stack"]
      /\ pages["program"] = q.pages["program"]
  BY <1>2, <1>3, <1>4 DEF Regions
<1>6. slot \in Allocation /\ slot.ptr = addr /\ slot.size = size
  BY DEF Allocation
<1>7. /\ r \in ProcessType
      /\ SameParts(q, r)
      /\ SameArgs(q, r)
      /\ r.allocations[i] = slot
      /\ \A j \in Slots \ {i} : r.allocations[j] = q.allocations[j]
      /\ r.pages = pages
  BY <1>2, <1>5, <1>6, ReplacedSlot
<1>8. r.allocations[i].ptr = addr /\ r.allocations[i].size = size
  BY <1>6, <1>7, Zenon
<1>9. SlotPiece(p, r, i) = x
  BY <1>8, Zenon DEF SlotPiece
<1>10. /\ SlotPieces(p, r) = SlotPieces(p, q) \cup {x}
       /\ OwnPieces(p, r) = OwnPieces(p, q) \cup {x}
  <2>1. Fuller(r, q, i)
    BY <1>7, <1>8 DEF Fuller
  <2>2. /\ SlotPieces(p, r) = SlotPieces(p, q) \cup {SlotPiece(p, r, i)}
        /\ OwnPieces(p, r) = OwnPieces(p, q) \cup {SlotPiece(p, r, i)}
    BY <2>1, SlotFilled
  <2> QED
    BY <1>9, <2>2, Zenon
<1>11. Holds(after, p, r, rest)
  <2>1. rest \cup OwnPieces(p, r) = (rest \cup OwnPieces(p, q)) \cup {x}
    BY <1>10
  <2> QED
    BY <2>1, Zenon DEF Holds
<1>12. \A j \in Slots : SlotSound(r.allocations[j])
  <2>1. SlotSound(r.allocations[i])
    BY <1>8 DEF SlotSound
  <2>2. \A j \in Slots \ {i} : SlotSound(r.allocations[j])
    BY <1>7, Zenon DEF ProcessSound
  <2> QED
    BY <2>1, <2>2
<1>13. PagesSound(p, r)
  <2>1. Cover(SlotPieces(p, r)) = Cover(SlotPieces(p, q)) \cup Extent(x)
    BY <1>10 DEF Cover
  <2>2. PagesSound(p, q)
    BY DEF ProcessSound
  <2> QED
    BY <1>5, <1>7, <2>1, <2>2, Zenon DEF PagesSound, SameParts
<1>14. \A j \in Slots \ {i} : q.allocations[j].ptr # addr
  <2> SUFFICES ASSUME NEW j \in Slots \ {i}, q.allocations[j].ptr = addr
               PROVE  FALSE
    BY Zenon
  <2> DEFINE y == SlotPiece(p, q, j)
  <2>1. y \in rest \cup OwnPieces(p, q)
    <3>1. y \in OwnPieces(p, q)
      BY OwnParts, Zenon
    <3> QED
      BY <3>1
  <2>2. Placed(y) /\ Apart(x, y)
    BY <2>1, Zenon DEF Exact, Holds
  <2>3. y.addr = addr
    BY SlotPieceFields
  <2> HIDE DEF y
  <2> QED
    BY <1>1, <2>2, <2>3, ApartAddresses
<1>15. ProcessSound(p, r)
  BY <1>7, <1>12, <1>13 DEF ProcessSound
<1> QED
  BY <1>7, <1>8, <1>11, <1>14, <1>15 DEF Malloced

LEMMA ProcessMalloc ==
  ASSUME NEW table, NEW p, NEW q, NEW rest,
         ProcessSound(p, q), Holds(table, p, q, rest),
         NEW size \in Nat, Fits(size)
  PROVE  Malloced(table, p, q, rest, size, process_malloc(table, q, size))
<1> DEFINE new == heap_malloc(table, size)
           i == process_find_free_alloc_index(q)
           map == paging_map_to(q.pages, "heap", new.addr,
                                paging_align_address(new.addr + size), TRUE)
           all == rest \cup OwnPieces(p, q)
           res == process_malloc(table, q, size)
           good == new.addr # NULL /\ i >= 0 /\ map.ok
<1>1. res = IF good
            THEN [table   |-> new.table,
                  process |-> [q EXCEPT !.allocations[i] = [ptr  |-> new.addr,
                                                            size |-> size],
                                        !.pages = map.pages],
                  ptr     |-> new.addr]
            ELSE [table |-> kfree(new.table, new.addr), process |-> q, ptr |-> NULL]
  BY Zenon DEF process_malloc
<1>2. Exact(table, all)
  BY DEF Holds
<1>3. TotalBlocks(size) \in Nat /\ (size # 0 => TotalBlocks(size) >= 1)
      /\ (size = 0 => TotalBlocks(size) = 0)
  BY RequestBlocks
<1>4. new.addr \in Nat /\ (new.addr = NULL => new.table = table)
  BY <1>2, <1>3, MallocReturns
<1>5. ASSUME ~good, kfree(new.table, new.addr) = table
      PROVE  Malloced(table, p, q, rest, size, res)
  <2>1. res = [table |-> table, process |-> q, ptr |-> NULL]
    BY <1>1, <1>5, Zenon
  <2>2. res.table = table /\ res.process = q /\ res.ptr = NULL
    BY <2>1
  <2> QED
    BY <2>2 DEF Malloced, SameParts, SameArgs, NULL
<1>6. CASE size = 0
  <2>1. /\ new.table = table
        /\ kfree(table, new.addr) = table
        /\ new.addr = NULL \/ \E s \in Blocks : new.addr = heap_block_to_address(s)
    BY <1>2, <1>3, <1>6, EmptyRequest
  <2>2. ~good
    <3>1. CASE new.addr = NULL
      BY <3>1
    <3>2. CASE \E s \in Blocks : new.addr = heap_block_to_address(s)
      <4>1. ~map.ok
        BY <1>6, <3>2, MapsHeap
      <4> QED
        BY <4>1
    <3> QED
      BY <2>1, <3>1, <3>2
  <2> HIDE DEF good, new
  <2> QED
    BY <1>5, <2>1, <2>2
<1>7. CASE size # 0 /\ new.addr = NULL
  <2>1. kfree(new.table, new.addr) = table
    BY <1>4, <1>7 DEF kfree
  <2> QED
    BY <1>5, <1>7, <2>1
<1>8. CASE size # 0 /\ new.addr # NULL /\ ~(i >= 0)
  <2> DEFINE x == NthPiece("slot", -1, p, new.addr, size)
  <2>1. x.addr = new.addr /\ x.size = size
    BY PieceFields
  <2>2. TotalBlocks(size) \in Nat \ {0}
    BY <1>3, <1>8
  <2> HIDE DEF x, all
  <2>3. Exact(new.table, all \cup {x}) /\ \A y \in all : x # y
    BY <1>2, <1>8, <2>1, <2>2, MallocTakes
  <2>4. Exact(kfree(new.table, x.addr), (all \cup {x}) \ {x})
    BY <2>3, FreeReturns
  <2>5. (all \cup {x}) \ {x} = all
    BY <2>3
  <2>6. Exact(kfree(new.table, new.addr), all)
    BY <2>1, <2>4, <2>5, Zenon
  <2>7. res.table = kfree(new.table, new.addr) /\ res.process = q /\ res.ptr = NULL
    BY <1>1, <1>8
  <2> QED
    BY <2>6, <2>7 DEF Malloced, SameParts, SameArgs, NULL, Holds, all
<1>9. CASE size # 0 /\ new.addr # NULL /\ i >= 0
  <2> DEFINE x == NthPiece("slot", i, p, new.addr, size)
             slot == [ptr |-> new.addr, size |-> size]
             r == res.process
  <2>1. i \in Slots /\ q.allocations[i].ptr = NULL
    BY <1>9, SlotFound DEF process_find_free_alloc_index
  <2>2. x.addr = new.addr /\ x.size = size
    BY PieceFields
  <2>3. TotalBlocks(size) \in Nat \ {0}
    BY <1>3, <1>9
  <2>4. /\ Exact(new.table, all \cup {x})
        /\ Placed(x)
        /\ \A y \in all : x # y /\ Apart(x, y)
    <3> HIDE DEF x, all
    <3> QED
      BY <1>2, <1>9, <2>2, <2>3, MallocTakes
  <2>5. \E s \in Blocks : new.addr = heap_block_to_address(s)
    BY <2>2, <2>4, Zenon DEF Placed
  <2>6. /\ map.ok
        /\ map.pages = [q.pages EXCEPT !["heap"] = @ \cup BlocksOf(new.addr, size)]
    <3> DEFINE addr == new.addr
               pages == q.pages
    <3> HIDE DEF addr, pages
    <3>1. \E s \in Blocks : addr = heap_block_to_address(s)
      BY <2>5 DEF addr
    <3>2. LET m == paging_map_to(pages, "heap", addr,
                                 paging_align_address(addr + size), TRUE)
          IN  /\ m.ok
              /\ m.pages = [pages EXCEPT !["heap"] = @ \cup BlocksOf(addr, size)]
      BY <1>9, <3>1, MapsHeap
    <3> QED
      BY <3>2, Zenon DEF addr, pages
  <2>7. /\ IsReplaced(r, q, i, slot, map.pages)
        /\ res.table = new.table
        /\ res.ptr = new.addr
    BY <1>1, <1>9, <2>6 DEF IsReplaced
  <2> DEFINE addr == new.addr
             pages == map.pages
             after == new.table
  <2>8. /\ addr \in Nat /\ addr # NULL
        /\ x = NthPiece("slot", i, p, addr, size)
        /\ Exact(after, (rest \cup OwnPieces(p, q)) \cup {x})
        /\ \A y \in rest \cup OwnPieces(p, q) : x # y /\ Apart(x, y)
        /\ pages = [q.pages EXCEPT !["heap"] = @ \cup BlocksOf(addr, size)]
        /\ slot = [ptr |-> addr, size |-> size]
        /\ IsReplaced(r, q, i, slot, pages)
        /\ res.table = after /\ res.process = r /\ res.ptr = addr
    BY <1>4, <1>9, <2>4, <2>6, <2>7, Zenon
  <2> HIDE DEF new, map, r, x, i, addr, pages, after, slot, res, all
  <2>9. Malloced(table, p, q, rest, size, res)
    BY <1>9, <2>1, <2>4, <2>8, SlotTaken
  <2> QED
    BY <2>9 DEF res
<1> QED
  BY <1>6, <1>7, <1>8, <1>9


(* What process_free promises of the process it leaves behind. *)
Freed(p, q, rest, ptr, new) ==
  /\ ProcessSound(p, new.process)
  /\ Holds(new.table, p, new.process, rest)
  /\ SameParts(q, new.process)
  /\ SameArgs(q, new.process)
  /\ \A j \in Slots :
       new.process.allocations[j] = IF q.allocations[j].ptr = ptr
                                    THEN NoAllocation
                                    ELSE q.allocations[j]

(* The blocks of what is left when a piece is taken away. *)
LEMMA CoverWithout ==
  ASSUME NEW S, NEW x \in S,
         \A y \in S : y # x => Extent(y) \cap Extent(x) = {}
  PROVE  Cover(S \ {x}) = Cover(S) \ Extent(x)
<1>1. ASSUME NEW b \in Cover(S \ {x})
      PROVE  b \in Cover(S) /\ b \notin Extent(x)
  <2>1. PICK y \in S \ {x} : b \in Extent(y)
    BY Zenon DEF Cover
  <2> QED
    BY <2>1 DEF Cover
<1>2. ASSUME NEW b \in Cover(S), b \notin Extent(x)
      PROVE  b \in Cover(S \ {x})
  <2>1. PICK y \in S : b \in Extent(y)
    BY Zenon DEF Cover
  <2>2. y # x
    BY <1>2, <2>1, Zenon
  <2> QED
    BY <2>1, <2>2 DEF Cover
<1> QED
  BY <1>1, <1>2

(* The process r that process_free leaves behind, when slot i holds ptr. *)
Releases(q, ptr, i, size, slots, pages, r) ==
  /\ q.allocations[i].ptr = ptr
  /\ q.allocations[i].size = size
  /\ slots = [j \in Slots |-> IF q.allocations[j].ptr = ptr
                              THEN NoAllocation
                              ELSE q.allocations[j]]
  /\ pages = [q.pages EXCEPT !["heap"] = @ \ BlocksOf(ptr, size)]
  /\ r = [q EXCEPT !.allocations = slots, !.pages = pages]

(* The slot that holds ptr is emptied, and its piece freed. *)
LEMMA SlotReleased ==
  ASSUME NEW table, NEW p, NEW q, NEW rest,
         ProcessSound(p, q), Holds(table, p, q, rest), Foreign(p, rest),
         NEW ptr, ptr # NULL, NEW i \in Slots,
         NEW size, NEW slots, NEW pages, NEW r,
         Releases(q, ptr, i, size, slots, pages, r),
         NEW res, res.table = kfree(table, ptr), res.process = r
  PROVE  Freed(p, q, rest, ptr, res)
<1>0. /\ q.allocations[i].ptr = ptr
      /\ q.allocations[i].size = size
      /\ slots = [j \in Slots |-> IF q.allocations[j].ptr = ptr
                                  THEN NoAllocation
                                  ELSE q.allocations[j]]
      /\ pages = [q.pages EXCEPT !["heap"] = @ \ BlocksOf(ptr, size)]
      /\ r = [q EXCEPT !.allocations = slots, !.pages = pages]
  BY Zenon DEF Releases
<1>1. PICK x : x = SlotPiece(p, q, i)
  BY Zenon
<1>2. x.addr = ptr /\ x.size = size /\ x.of = p
  BY <1>0, <1>1, SlotPieceFields
<1>3. /\ q \in ProcessType
      /\ q.pages \in [Regions -> SUBSET Int]
      /\ q.allocations \in [Slots -> Allocation]
  BY DEF ProcessSound, ProcessType
<1>4. Extent(x) = BlocksOf(ptr, size)
  BY <1>2, Zenon DEF Extent
<1>5. /\ pages \in [Regions -> SUBSET Int]
      /\ pages["heap"] = q.pages["heap"] \ Extent(x)
      /\ pages["stack"] = q.pages["stack"]
      /\ pages["program"] = q.pages["program"]
  BY <1>0, <1>3, <1>4 DEF Regions
<1>6. slots \in [Slots -> Allocation]
  BY <1>0, <1>3 DEF Allocation, NoAllocation, NULL
<1>7. /\ r \in ProcessType
      /\ SameParts(q, r)
      /\ SameArgs(q, r)
      /\ r.allocations = slots
      /\ r.pages = pages
  BY <1>0, <1>3, <1>5, <1>6 DEF ProcessType, SameParts, SameArgs
<1>8. \A j \in Slots : r.allocations[j] = IF q.allocations[j].ptr = ptr
                                          THEN NoAllocation
                                          ELSE q.allocations[j]
  BY <1>0, <1>7
<1>9. \A j \in Slots \ {i} : q.allocations[j].ptr # ptr
  BY <1>0, HeldSlots
<1>10. Fuller(q, r, i)
  <2>1. r.allocations[i].ptr = NULL
    BY <1>0, <1>8 DEF NoAllocation
  <2>2. \A j \in Slots \ {i} : q.allocations[j] = r.allocations[j]
    BY <1>8, <1>9
  <2>3. SameParts(r, q)
    BY <1>7 DEF SameParts
  <2> QED
    BY <1>0, <2>1, <2>2, <2>3 DEF Fuller
<1>11. /\ SlotPieces(p, r) = SlotPieces(p, q) \ {x}
       /\ OwnPieces(p, r) = OwnPieces(p, q) \ {x}
  <2>1. TakesAway(p, q, r, SlotPiece(p, q, i))
    BY <1>10, SlotEmptied, Zenon
  <2> QED
    BY <1>1, <2>1, Zenon DEF TakesAway
<1>12. x \in OwnPieces(p, q) /\ x \in SlotPieces(p, q) /\ x \notin rest
  <2>1. x \in OwnPieces(p, q)
    BY <1>0, <1>1, OwnParts, Zenon
  <2>2. x \in SlotPieces(p, q)
    BY <1>0, <1>1, OwnParts
  <2>3. x \notin rest
    BY <1>2, Zenon DEF Foreign
  <2> QED
    BY <2>1, <2>2, <2>3
<1>13. Holds(kfree(table, ptr), p, r, rest)
  <2>1. rest \cup OwnPieces(p, r) = (rest \cup OwnPieces(p, q)) \ {x}
    BY <1>11, <1>12
  <2> DEFINE all == rest \cup OwnPieces(p, q)
  <2>2. x \in all /\ Exact(table, all)
    BY <1>12 DEF Holds
  <2> HIDE DEF all
  <2>3. Exact(kfree(table, x.addr), all \ {x})
    BY <2>2, FreeReturns
  <2> QED
    BY <1>2, <2>1, <2>3, Zenon DEF Holds, all
<1>14. \A j \in Slots : SlotSound(r.allocations[j])
  <2> SUFFICES ASSUME NEW j \in Slots
               PROVE  SlotSound(r.allocations[j])
    BY Zenon
  <2>1. SlotSound(NoAllocation)
    BY DEF SlotSound, NoAllocation
  <2>2. SlotSound(q.allocations[j])
    BY Zenon DEF ProcessSound
  <2> QED
    BY <1>8, <2>1, <2>2
<1>15. PagesSound(p, r)
  <2>1. Cover(SlotPieces(p, r)) = Cover(SlotPieces(p, q)) \ Extent(x)
    <3>1. \A y \in SlotPieces(p, q) : y # x => Extent(y) \cap Extent(x) = {}
      <4> TAKE y \in SlotPieces(p, q)
      <4>1. y \in rest \cup OwnPieces(p, q) /\ x \in rest \cup OwnPieces(p, q)
        BY <1>12, OwnParts
      <4> QED
        BY <4>1, Zenon DEF Holds, Exact, Apart
    <3>2. Cover(SlotPieces(p, q) \ {x}) = Cover(SlotPieces(p, q)) \ Extent(x)
      BY <1>12, <3>1, CoverWithout
    <3> QED
      BY <1>11, <3>2, Zenon
  <2>2. PagesSound(p, q)
    BY DEF ProcessSound
  <2> QED
    BY <1>5, <1>7, <2>1, <2>2, Zenon DEF PagesSound, SameParts
<1>16. ProcessSound(p, r)
  BY <1>7, <1>14, <1>15 DEF ProcessSound
<1> QED
  BY <1>7, <1>8, <1>13, <1>16, Zenon DEF Freed

LEMMA ProcessFree ==
  ASSUME NEW table, NEW p, NEW q, NEW rest,
         ProcessSound(p, q), Holds(table, p, q, rest), Foreign(p, rest),
         NEW ptr
  PROVE  Freed(p, q, rest, ptr, process_free(table, q, ptr))
<1> DEFINE i == SlotOf(q, ptr)
           size == q.allocations[i].size
           unmap == paging_map_to(q.pages, "heap", ptr,
                                  paging_align_address(ptr + size), FALSE)
           slots == [j \in Slots |-> IF q.allocations[j].ptr = ptr
                                     THEN NoAllocation
                                     ELSE q.allocations[j]]
           res == process_free(table, q, ptr)
<1>1. res = IF i >= 0 /\ unmap.ok
            THEN [table   |-> kfree(table, ptr),
                  process |-> [q EXCEPT !.allocations = slots,
                                        !.pages = unmap.pages]]
            ELSE [table |-> table, process |-> q]
  BY DEF process_free
<1>2. q.allocations \in [Slots -> Allocation]
  BY DEF ProcessSound, ProcessType
<1>3. ASSUME ~(i >= 0 /\ unmap.ok),
             \A j \in Slots : q.allocations[j].ptr = ptr
                                => q.allocations[j] = NoAllocation
      PROVE  Freed(p, q, rest, ptr, res)
  <2> HIDE DEF res, i, unmap, slots
  <2>1. res.table = table /\ res.process = q
    BY <1>1, <1>3
  <2> QED
    BY <1>3, <2>1 DEF Freed, SameParts, SameArgs
<1>4. CASE i = -1 /\ \A j \in Slots : q.allocations[j].ptr # ptr
  <2> HIDE DEF unmap
  <2> QED
    BY <1>3, <1>4
<1>5. CASE i \in Slots /\ q.allocations[i].ptr = ptr /\ ptr = NULL
  <2>1. size = 0
    BY <1>5 DEF ProcessSound, SlotSound
  <2>2. ~unmap.ok
    BY <1>5, <2>1, NullPages
  <2>3. ASSUME NEW j \in Slots, q.allocations[j].ptr = ptr
        PROVE  q.allocations[j] = NoAllocation
    <3>1. q.allocations[j].size = 0
      BY <1>5, <2>3 DEF ProcessSound, SlotSound
    <3>2. q.allocations[j] \in Allocation
      BY <1>2
    <3> QED
      BY <1>5, <2>3, <3>1, <3>2 DEF Allocation, NoAllocation
  <2> HIDE DEF unmap
  <2> QED
    BY <1>3, <2>2, <2>3
<1>6. CASE /\ i \in Slots /\ i >= 0
           /\ q.allocations[i].ptr = ptr /\ ptr # NULL
  <2>1. size \in Nat /\ size # 0 /\ Fits(size)
    <3>1. SlotSound(q.allocations[i]) /\ q.allocations[i] \in Allocation
      BY <1>2, <1>6 DEF ProcessSound
    <3> QED
      BY <1>6, <3>1 DEF SlotSound, Allocation
  <2>2. \E s \in Blocks : ptr = heap_block_to_address(s)
    <3>1. Placed(SlotPiece(p, q, i))
      BY <1>6, HeldSlots
    <3>2. SlotPiece(p, q, i).addr = ptr
      BY <1>6, SlotPieceFields
    <3> QED
      BY <3>1, <3>2, Zenon DEF Placed
  <2> DEFINE n == size
             pages == unmap.pages
             r == res.process
             old == q.pages
             s == slots
             k == i
  <2>3. unmap.ok /\ pages = [q.pages EXCEPT !["heap"] = @ \ BlocksOf(ptr, size)]
    <3>0. n \in Nat /\ n # 0 /\ Fits(n)
      BY <2>1
    <3> HIDE DEF n, old
    <3>1. LET map == paging_map_to(old, "heap", ptr,
                                   paging_align_address(ptr + n), FALSE)
          IN  /\ map.ok
              /\ map.pages = [old EXCEPT !["heap"] = @ \ BlocksOf(ptr, n)]
      BY <2>2, <3>0, UnmapsHeap
    <3> QED
      BY <3>1, Zenon DEF n, old
  <2>4. /\ r = [q EXCEPT !.allocations = slots, !.pages = pages]
        /\ res.table = kfree(table, ptr)
    <3> HIDE DEF slots, unmap, i
    <3> QED
      BY <1>1, <1>6, <2>3
  <2>5. /\ k \in Slots
        /\ Releases(q, ptr, k, n, s, pages, r)
        /\ res.table = kfree(table, ptr) /\ res.process = r
    BY <1>6, <2>3, <2>4, Zenon DEF Releases
  <2> HIDE DEF n, pages, r, old, s, k, res
  <2>6. Freed(p, q, rest, ptr, res)
    BY <1>6, <2>5, SlotReleased
  <2> QED
    BY <2>6 DEF res
<1> QED
  BY <1>4, <1>5, <1>6, SlotFound, Zenon


(* The loop of process_terminate_allocations. *)
NextSlot(before, i) ==
  process_free(before.table, before.process,
               before.process.allocations[i - 1].ptr)

IsSlotLoop(done, table, q) ==
  done = [i \in 0..BENOS_MAX_PROGRAM_ALLOCATIONS |->
            IF i = 0 THEN [table |-> table, process |-> q]
                     ELSE NextSlot(done[i - 1], i)]

LEMMA SlotLoop ==
  ASSUME NEW table, NEW q
  PROVE  \E done : /\ IsSlotLoop(done, table, q)
                   /\ process_terminate_allocations(table, q)
                        = done[BENOS_MAX_PROGRAM_ALLOCATIONS]
<1> DEFINE base == [table |-> table, process |-> q]
           N == BENOS_MAX_PROGRAM_ALLOCATIONS
           Is(f, n) == f = [i \in 0..n |-> IF i = 0 THEN base
                                           ELSE NextSlot(f[i - 1], i)]
           T == {n \in 0..N : \E f : Is(f, n)}
<1>0. N \in Nat
  BY ProcessAssumption
<1> HIDE DEF base, Is
<1>1. 0 \in T
  <2>1. Is([i \in 0..0 |-> base], 0)
    BY DEF Is
  <2>2. 0 \in 0..N
    BY <1>0
  <2> QED
    BY <2>1, <2>2, Zenon
<1>2. ASSUME NEW n \in 1..N, n - 1 \in T
      PROVE  n \in T
  <2>1. PICK f : Is(f, n - 1)
    BY <1>2
  <2> DEFINE g == [i \in 0..n |-> IF i = n THEN NextSlot(f[n - 1], n)
                                           ELSE f[i]]
  <2>2. \A i \in 0..(n - 1) : f[i] = IF i = 0 THEN base
                                     ELSE NextSlot(f[i - 1], i)
    BY <2>1, Zenon DEF Is
  <2>3. \A i \in 0..n : g[i] = IF i = 0 THEN base ELSE NextSlot(g[i - 1], i)
    <3> TAKE i \in 0..n
    <3>1. CASE i = n
      <4>1. g[i] = NextSlot(f[n - 1], n) /\ g[n - 1] = f[n - 1] /\ i # 0
        BY <1>0, <3>1
      <4> QED
        BY <3>1, <4>1, Zenon
    <3>2. CASE i # n
      <4>1. i \in 0..(n - 1) /\ g[i] = f[i] /\ (i # 0 => g[i - 1] = f[i - 1])
        BY <1>0, <3>2
      <4> QED
        BY <2>2, <4>1, Zenon
    <3> QED
      BY <3>1, <3>2
  <2>4. Is(g, n)
    <3>1. g = [i \in 0..n |-> g[i]]
      BY Zenon
    <3> HIDE DEF g
    <3> QED
      BY <2>3, <3>1, Zenon DEF Is
  <2>5. n \in 0..N
    BY <1>0
  <2> HIDE DEF g
  <2> QED
    BY <2>4, <2>5, Zenon
<1>3. N \in T
  <2>1. N \in 0..N
    BY <1>0
  <2> HIDE DEF T, N
  <2> QED
    BY <1>0, <1>1, <1>2, <2>1, InductionTo
<1>4. \E f : IsSlotLoop(f, table, q)
  BY <1>3, Zenon DEF IsSlotLoop, base, Is
<1>5. process_terminate_allocations(table, q) =
        (CHOOSE f : IsSlotLoop(f, table, q))[N]
  BY Zenon DEF process_terminate_allocations, IsSlotLoop, NextSlot
<1> QED
  BY <1>4, <1>5, Zenon

(* A process whose slots below n are empty. *)
EmptyBelow(n, p, q, rest, new) ==
  /\ ProcessSound(p, new.process)
  /\ Holds(new.table, p, new.process, rest)
  /\ SameParts(q, new.process)
  /\ \A j \in Slots : j < n => new.process.allocations[j].ptr = NULL

LEMMA SlotsEmptied ==
  ASSUME NEW table, NEW p, NEW q, NEW rest,
         ProcessSound(p, q), Holds(table, p, q, rest), Foreign(p, rest)
  PROVE  EmptyBelow(BENOS_MAX_PROGRAM_ALLOCATIONS, p, q, rest,
                    process_terminate_allocations(table, q))
<1> DEFINE N == BENOS_MAX_PROGRAM_ALLOCATIONS
<1>0. N \in Nat
  BY ProcessAssumption
<1>1. PICK done : /\ IsSlotLoop(done, table, q)
                  /\ process_terminate_allocations(table, q) = done[N]
  BY SlotLoop
<1>2. \A i \in 0..N : done[i] = IF i = 0 THEN [table |-> table, process |-> q]
                                ELSE NextSlot(done[i - 1], i)
  BY <1>1, Zenon DEF IsSlotLoop
<1> DEFINE T == {n \in 0..N : EmptyBelow(n, p, q, rest, done[n])}
<1>3. 0 \in T
  <2>1. done[0].table = table /\ done[0].process = q
    BY <1>0, <1>2
  <2>2. \A j \in Slots : ~(j < 0)
    BY <1>0 DEF Slots
  <2>3. EmptyBelow(0, p, q, rest, done[0])
    BY <2>1, <2>2, Zenon DEF EmptyBelow, SameParts
  <2> QED
    BY <1>0, <2>3
<1>4. ASSUME NEW n \in 1..N, n - 1 \in T
      PROVE  n \in T
  <2>1. PICK before : before = done[n - 1]
    BY Zenon
  <2>2. EmptyBelow(n - 1, p, q, rest, before)
    BY <1>4, <2>1
  <2>3. PICK ptr : ptr = before.process.allocations[n - 1].ptr
    BY Zenon
  <2>4. done[n] = process_free(before.table, before.process, ptr)
    <3>1. done[n] = NextSlot(done[n - 1], n)
      BY <1>0, <1>2
    <3> QED
      BY <2>1, <2>3, <3>1, Zenon DEF NextSlot
  <2>5. Freed(p, before.process, rest, ptr, done[n])
    <3> DEFINE b == before.process
               t == before.table
    <3>1. ProcessSound(p, b) /\ Holds(t, p, b, rest)
      BY <2>2 DEF EmptyBelow
    <3> HIDE DEF b, t
    <3>2. Freed(p, b, rest, ptr, process_free(t, b, ptr))
      BY <3>1, ProcessFree
    <3> QED
      BY <2>4, <3>2, Zenon DEF b, t
  <2>6. ASSUME NEW j \in Slots, j < n
        PROVE  done[n].process.allocations[j].ptr = NULL
    <3>1. done[n].process.allocations[j]
            = IF before.process.allocations[j].ptr = ptr
              THEN NoAllocation
              ELSE before.process.allocations[j]
      BY <2>5, Zenon DEF Freed
    <3>2. NoAllocation.ptr = NULL
      BY DEF NoAllocation
    <3>3. CASE j = n - 1
      BY <2>3, <3>1, <3>2, <3>3, Zenon
    <3>4. CASE j < n - 1
      <4>1. before.process.allocations[j].ptr = NULL
        BY <2>2, <3>4, Zenon DEF EmptyBelow
      <4> QED
        BY <3>1, <3>2, <4>1
    <3>5. j = n - 1 \/ j < n - 1
      BY <1>0, <2>6 DEF Slots
    <3> QED
      BY <3>3, <3>4, <3>5, Zenon
  <2>7. SameParts(q, done[n].process)
    <3>1. SameParts(q, before.process) /\ SameParts(before.process, done[n].process)
      BY <2>2, <2>5 DEF EmptyBelow, Freed
    <3> QED
      BY <3>1 DEF SameParts
  <2>8. EmptyBelow(n, p, q, rest, done[n])
    BY <2>5, <2>6, <2>7, Zenon DEF Freed, EmptyBelow
  <2> QED
    BY <1>0, <2>8
<1>5. N \in T
  <2>1. N \in 0..N
    BY <1>0
  <2> HIDE DEF T, N
  <2> QED
    BY <1>0, <1>3, <1>4, <2>1, InductionTo
<1> QED
  BY <1>1, <1>5


(* Sequences of addresses one after the other. *)
Joined(s, t, st) ==
  /\ st \in Seq(Nat)
  /\ Len(st) = Len(s) + Len(t)
  /\ \A i \in 1..(Len(s) + Len(t)) :
       st[i] = IF i <= Len(s) THEN s[i] ELSE t[i - Len(s)]

LEMMA JoinedAddresses ==
  ASSUME NEW s \in Seq(Nat), NEW t \in Seq(Nat)
  PROVE  Joined(s, t, s \o t)
BY ConcatProperties, Zenon DEF Joined

(* The struct process of a process, that nobody frees. *)
StructPiece(p, q) == Piece("struct", p, q.struct, SizeofProcess)

(* What process_terminate frees besides the slots, in its order. *)
TerminateOrder(q) == <<q.mem, q.file, q.stack>> \o q.dir \o <<q.task>>

FreedPiece(p, q, i) ==
  CASE i = 1 -> Piece("mem", p, q.mem, q.image.size)
    [] i = 2 -> Piece("file", p, q.file, BlockSize)
    [] i = 3 -> Piece("stack", p, q.stack, BENOS_USER_PROGRAM_STACK_SIZE)
    [] i = Len(q.dir) + 4 -> Piece("task", p, q.task, BlockSize)
    [] OTHER -> NthPiece("dir", i - 3, p, q.dir[i - 3], BlockSize)

LEMMA TerminateAddresses ==
  ASSUME NEW p, NEW q \in ProcessType
  PROVE  /\ Len(TerminateOrder(q)) = Len(q.dir) + 4
         /\ Len(q.dir) \in Nat
         /\ \A i \in 1..(Len(q.dir) + 4) :
              FreedPiece(p, q, i).addr = TerminateOrder(q)[i]
<1> DEFINE n == Len(q.dir)
<1>1. q.dir \in Seq(Nat) /\ n \in Nat /\ DOMAIN q.dir = 1..n
  BY DEF ProcessType
<1>2. q.mem \in Nat /\ q.file \in Nat /\ q.stack \in Nat /\ q.task \in Nat
  BY DEF ProcessType
<1> DEFINE head == <<q.mem, q.file, q.stack>>
           front == head \o q.dir
<1>3. head \in Seq(Nat) /\ Len(head) = 3
      /\ head[1] = q.mem /\ head[2] = q.file /\ head[3] = q.stack
  BY <1>2
<1> HIDE DEF head
<1>4. /\ front \in Seq(Nat) /\ Len(front) = n + 3
      /\ \A i \in 1..3 : front[i] = head[i]
      /\ \A i \in 4..(n + 3) : front[i] = q.dir[i - 3]
  <2> DEFINE d == q.dir
  <2>1. d \in Seq(Nat) /\ Len(d) \in Nat /\ d = q.dir /\ n = Len(d)
    BY <1>1
  <2> HIDE DEF d
  <2>2. /\ head \o d \in Seq(Nat)
        /\ Len(head \o d) = 3 + Len(d)
        /\ \A i \in 1..(3 + Len(d)) :
             (head \o d)[i] = IF i <= 3 THEN head[i] ELSE d[i - 3]
    <3>1. Joined(head, d, head \o d)
      BY <1>3, <2>1, JoinedAddresses
    <3> QED
      BY <1>3, <3>1, Zenon DEF Joined
  <2>3. /\ head \o d \in Seq(Nat) /\ Len(head \o d) = Len(d) + 3
        /\ \A i \in 1..3 : (head \o d)[i] = head[i]
        /\ \A i \in 4..(Len(d) + 3) : (head \o d)[i] = d[i - 3]
    BY <2>1, <2>2, SMTT(60)
  <2> QED
    BY <2>1, <2>3, Zenon
<1>5. TerminateOrder(q) = front \o <<q.task>>
  BY Zenon DEF TerminateOrder, head
<1> HIDE DEF front
<1>6. /\ Len(TerminateOrder(q)) = n + 4
      /\ \A i \in 1..(n + 3) : TerminateOrder(q)[i] = front[i]
      /\ TerminateOrder(q)[n + 4] = q.task
  BY <1>1, <1>2, <1>4, <1>5, SMTT(60)
<1>7. ASSUME NEW i \in 1..(n + 4)
      PROVE  FreedPiece(p, q, i).addr = TerminateOrder(q)[i]
  <2>1. CASE i \in 1..3
    <3>1. TerminateOrder(q)[i] = head[i]
      <4>1. i \in 1..(n + 3)
        BY <1>1, <2>1
      <4> QED
        BY <1>4, <1>6, <2>1, <4>1, Zenon
    <3>2. i # n + 4 /\ (i = 1 \/ i = 2 \/ i = 3)
      BY <1>1, <2>1
    <3>3. CASE i = 1
      BY <1>3, <3>1, <3>3, PieceFields DEF FreedPiece
    <3>4. CASE i = 2
      <4>1. FreedPiece(p, q, i) = Piece("file", p, q.file, BlockSize)
        BY <3>2, <3>4 DEF FreedPiece
      <4> QED
        BY <1>3, <3>1, <3>4, <4>1, PieceFields
    <3>5. CASE i = 3
      <4>1. FreedPiece(p, q, i)
              = Piece("stack", p, q.stack, BENOS_USER_PROGRAM_STACK_SIZE)
        BY <3>2, <3>5 DEF FreedPiece
      <4> QED
        BY <1>3, <3>1, <3>5, <4>1, PieceFields
    <3> QED
      BY <3>2, <3>3, <3>4, <3>5
  <2>2. CASE i \in 4..(n + 3)
    <3>1. FreedPiece(p, q, i) = NthPiece("dir", i - 3, p, q.dir[i - 3], BlockSize)
      BY <1>1, <2>2 DEF FreedPiece
    <3>2. TerminateOrder(q)[i] = q.dir[i - 3]
      BY <1>1, <1>4, <1>6, <2>2
    <3> QED
      BY <3>1, <3>2, PieceFields
  <2>3. CASE i = n + 4
    <3>1. FreedPiece(p, q, i) = Piece("task", p, q.task, BlockSize)
      BY <1>1, <2>3 DEF FreedPiece
    <3> QED
      BY <1>6, <2>3, <3>1, PieceFields
  <2> QED
    BY <1>1, <2>1, <2>2, <2>3
<1> QED
  BY <1>1, <1>6, <1>7

LEMMA TerminatePieces ==
  ASSUME NEW p, NEW q \in ProcessType
  PROVE  /\ {FreedPiece(p, q, i) : i \in 1..(Len(q.dir) + 4)}
              = FixedPieces(p, q) \ {StructPiece(p, q)}
         /\ StructPiece(p, q) \in FixedPieces(p, q)
         /\ \A i, j \in 1..(Len(q.dir) + 4) :
              i # j => FreedPiece(p, q, i) # FreedPiece(p, q, j)
<1> DEFINE n == Len(q.dir)
           mem == Piece("mem", p, q.mem, q.image.size)
           file == Piece("file", p, q.file, BlockSize)
           stack == Piece("stack", p, q.stack, BENOS_USER_PROGRAM_STACK_SIZE)
           task == Piece("task", p, q.task, BlockSize)
           struct == StructPiece(p, q)
           dir(i) == NthPiece("dir", i, p, q.dir[i], BlockSize)
           x(i) == FreedPiece(p, q, i)
<1>1. n \in Nat /\ DOMAIN q.dir = 1..n
  BY DEF ProcessType
<1>2. FixedPieces(p, q) = {mem, stack, struct, file, task} \cup {dir(i) : i \in 1..n}
  BY <1>1 DEF FixedPieces, KernelPieces, StructPiece
<1>3. /\ mem.what[1] = "mem" /\ file.what[1] = "file" /\ stack.what[1] = "stack"
      /\ task.what[1] = "task" /\ struct.what[1] = "struct"
      /\ \A i : dir(i).what[1] = "dir" /\ dir(i).what[2] = i
  <2>1. mem.what[1] = "mem" /\ file.what[1] = "file" /\ stack.what[1] = "stack"
    BY DEF Piece
  <2>2. task.what[1] = "task" /\ struct.what[1] = "struct"
    BY PieceFields DEF StructPiece
  <2>3. ASSUME NEW i
        PROVE  dir(i).what[1] = "dir" /\ dir(i).what[2] = i
    BY PieceFields
  <2> QED
    BY <2>1, <2>2, <2>3, Zenon
<1>4. /\ x(1) = mem /\ x(2) = file /\ x(3) = stack /\ x(n + 4) = task
      /\ \A i \in 4..(n + 3) : x(i) = dir(i - 3)
  BY <1>1 DEF FreedPiece
<1> HIDE DEF mem, file, stack, task, struct, dir, x, n
<1>5. \A i \in 1..(n + 4) : i \in {1, 2, 3, n + 4} \/ i \in 4..(n + 3)
  BY <1>1
<1>6. {x(i) : i \in 1..(n + 4)} = {mem, file, stack, task} \cup {dir(i) : i \in 1..n}
  <2>1. \A i \in 1..n : dir(i) = x(i + 3) /\ i + 3 \in 1..(n + 4)
    BY <1>1, <1>4
  <2>2. 1 \in 1..(n + 4) /\ 2 \in 1..(n + 4) /\ 3 \in 1..(n + 4) /\ n + 4 \in 1..(n + 4)
    BY <1>1
  <2>3. \A i \in 4..(n + 3) : i - 3 \in 1..n
    BY <1>1
  <2> QED
    BY <1>4, <1>5, <2>1, <2>2, <2>3
<1>7. struct \notin {mem, file, stack, task} \cup {dir(i) : i \in 1..n}
  BY <1>3
<1>8. ASSUME NEW i \in 1..(n + 4), NEW j \in 1..(n + 4), i # j, x(i) = x(j)
      PROVE  FALSE
  <2>1. \A k \in 4..(n + 3) : x(k).what[1] = "dir" /\ x(k).what[2] = k - 3
    BY <1>3, <1>4
  <2>2. /\ x(1).what[1] = "mem" /\ x(2).what[1] = "file" /\ x(3).what[1] = "stack"
        /\ x(n + 4).what[1] = "task"
    BY <1>3, <1>4
  <2>3. CASE i \in 4..(n + 3) /\ j \in 4..(n + 3)
    <3>1. i - 3 = j - 3
      BY <1>8, <2>1, <2>3
    <3> QED
      BY <1>1, <1>8, <2>3, <3>1
  <2>4. CASE i \in {1, 2, 3, n + 4} /\ j \in 4..(n + 3)
    BY <1>8, <2>1, <2>2, <2>4
  <2>5. CASE j \in {1, 2, 3, n + 4} /\ i \in 4..(n + 3)
    BY <1>8, <2>1, <2>2, <2>5
  <2>6. CASE i \in {1, 2, 3, n + 4} /\ j \in {1, 2, 3, n + 4}
    BY <1>8, <2>2, <2>6
  <2> QED
    BY <1>5, <2>3, <2>4, <2>5, <2>6
<1>9. {x(i) : i \in 1..(n + 4)} = FixedPieces(p, q) \ {struct}
  BY <1>2, <1>6, <1>7
<1>10. struct \in FixedPieces(p, q)
  BY <1>2
<1> QED
  BY <1>8, <1>9, <1>10 DEF n, x, struct


(* What process_terminate leaves of a process is its struct process. *)
LEMMA ProcessTerminate ==
  ASSUME NEW table, NEW p, NEW q, NEW rest,
         ProcessSound(p, q), Holds(table, p, q, rest), Foreign(p, rest)
  PROVE  Exact(process_terminate(table, q), rest \cup {StructPiece(p, q)})
<1>1. PICK done : done = process_terminate_allocations(table, q)
  BY Zenon
<1>2. EmptyBelow(BENOS_MAX_PROGRAM_ALLOCATIONS, p, q, rest, done)
  BY <1>1, SlotsEmptied, Zenon
<1>3. PICK r : r = done.process
  BY Zenon
<1>4. SlotPieces(p, r) = {}
  <2>1. \A j \in Slots : j < BENOS_MAX_PROGRAM_ALLOCATIONS
    BY ProcessAssumption DEF Slots
  <2>2. \A j \in Slots : r.allocations[j].ptr = NULL
    BY <1>2, <1>3, <2>1, Zenon DEF EmptyBelow
  <2> QED
    BY <2>2 DEF SlotPieces
<1>5. FixedPieces(p, r) = FixedPieces(p, q)
  <2>1. SameParts(q, r)
    BY <1>2, <1>3, Zenon DEF EmptyBelow
  <2> QED
    BY <2>1, SameFixed
<1>6. Exact(done.table, rest \cup FixedPieces(p, q))
  <2>1. OwnPieces(p, r) = FixedPieces(p, r) \cup SlotPieces(p, r)
    BY OwnParts, Zenon
  <2>2. OwnPieces(p, r) = FixedPieces(p, q)
    BY <1>4, <1>5, <2>1
  <2> QED
    BY <1>2, <1>3, <2>2, Zenon DEF EmptyBelow, Holds
<1>7. process_terminate(table, q) = kfreeAll(done.table, TerminateOrder(q))
  BY <1>1, Zenon DEF process_terminate, TerminateOrder
<1>8. q \in ProcessType
  BY DEF ProcessSound
<1> DEFINE n == Len(q.dir)
           addrs == TerminateOrder(q)
           own == FixedPieces(p, q)
           struct == StructPiece(p, q)
           x == [i \in 1..(n + 4) |-> FreedPiece(p, q, i)]
           all == rest \cup own
<1>9. /\ Len(addrs) = n + 4 /\ n \in Nat
      /\ \A i \in 1..(n + 4) : x[i].addr = addrs[i]
  BY <1>8, TerminateAddresses
<1>10. /\ {x[i] : i \in 1..(n + 4)} = own \ {struct}
       /\ struct \in own
       /\ \A i, j \in 1..(n + 4) : i # j => x[i] # x[j]
  BY <1>8, TerminatePieces
<1>11. \A y \in own : y \notin rest
  <2>1. \A y \in OwnPieces(p, q) : y.of = p
    BY OwnParts, Zenon
  <2>2. own \subseteq OwnPieces(p, q)
    BY OwnParts
  <2> QED
    BY <2>1, <2>2, Zenon DEF Foreign
<1> HIDE DEF n, addrs, own, struct, x
<1>12. Exact(kfreeAll(done.table, addrs), all \ {x[i] : i \in 1..(n + 4)})
  <2>1. \A i \in 1..(n + 4) : x[i] \in all /\ x[i].addr = addrs[i]
    BY <1>9, <1>10
  <2>2. Exact(done.table, all)
    BY <1>6 DEF own
  <2> DEFINE t == done.table
  <2>3. Len(addrs) \in Nat
    BY <1>9
  <2>4. Exact(t, all)
    BY <2>2
  <2> HIDE DEF all, t
  <2>5. Exact(kfreeAll(t, addrs), all \ {x[i] : i \in 1..Len(addrs)})
    BY <1>9, <1>10, <2>1, <2>3, <2>4, FreeAll
  <2> QED
    BY <1>9, <2>5, Zenon DEF t
<1>13. all \ {x[i] : i \in 1..(n + 4)} = rest \cup {struct}
  BY <1>10, <1>11
<1> QED
  BY <1>7, <1>12, <1>13, Zenon DEF struct, addrs


-----------------------------------------------------------------------------
(* The arguments of a process *)

(* The loop of process_inject_args. *)
NoString(argv) == [table |-> argv.table, process |-> argv.process,
                   ptr |-> argv.ptr, args |-> <<>>]

NextString(before) ==
  LET arg == process_malloc(before.table, before.process, 512)
  IN  IF before.ptr = NULL
      THEN before
      ELSE [table |-> arg.table, process |-> arg.process,
            ptr |-> arg.ptr, args |-> Append(before.args, arg.ptr)]

IsStringLoop(done, argv, argc) ==
  done = [i \in 0..argc |-> IF i = 0 THEN NoString(argv)
                                     ELSE NextString(done[i - 1])]

(* What process_inject_args makes of the last round. *)
WithStrings(last, argv, argc) ==
  [table   |-> last.table,
   process |-> IF argc = 0 \/ last.ptr = NULL
               THEN last.process
               ELSE [last.process EXCEPT !.argc = argc,
                                         !.argv = argv.ptr,
                                         !.args = last.args]]

LEMMA StringLoop ==
  ASSUME NEW table, NEW q, NEW argc \in Nat, NEW argv,
         argv = process_malloc(table, q, 4 * argc)
  PROVE  \E done : /\ IsStringLoop(done, argv, argc)
                   /\ process_inject_args(table, q, argc)
                        = WithStrings(done[argc], argv, argc)
<1> DEFINE base == NoString(argv)
           Is(f, n) == f = [i \in 0..n |-> IF i = 0 THEN base
                                           ELSE NextString(f[i - 1])]
           T == {n \in 0..argc : \E f : Is(f, n)}
<1> HIDE DEF base, Is
<1>1. 0 \in T
  <2>1. Is([i \in 0..0 |-> base], 0)
    BY DEF Is
  <2>2. 0 \in 0..argc
    OBVIOUS
  <2> QED
    BY <2>1, <2>2, Zenon
<1>2. ASSUME NEW n \in 1..argc, n - 1 \in T
      PROVE  n \in T
  <2>1. PICK f : Is(f, n - 1)
    BY <1>2
  <2> DEFINE g == [i \in 0..n |-> IF i = n THEN NextString(f[n - 1]) ELSE f[i]]
  <2>2. \A i \in 0..(n - 1) : f[i] = IF i = 0 THEN base
                                     ELSE NextString(f[i - 1])
    BY <2>1, Zenon DEF Is
  <2>3. \A i \in 0..n : g[i] = IF i = 0 THEN base ELSE NextString(g[i - 1])
    <3> TAKE i \in 0..n
    <3>1. CASE i = n
      <4>1. g[i] = NextString(f[n - 1]) /\ g[n - 1] = f[n - 1] /\ i # 0
        BY <3>1
      <4> QED
        BY <3>1, <4>1, Zenon
    <3>2. CASE i # n
      <4>1. i \in 0..(n - 1) /\ g[i] = f[i] /\ (i # 0 => g[i - 1] = f[i - 1])
        BY <3>2
      <4> QED
        BY <2>2, <4>1, Zenon
    <3> QED
      BY <3>1, <3>2
  <2>4. Is(g, n)
    <3>1. g = [i \in 0..n |-> g[i]]
      BY Zenon
    <3> HIDE DEF g
    <3> QED
      BY <2>3, <3>1, Zenon DEF Is
  <2>5. n \in 0..argc
    OBVIOUS
  <2> HIDE DEF g
  <2> QED
    BY <2>4, <2>5, Zenon
<1>3. argc \in T
  <2>1. argc \in 0..argc
    OBVIOUS
  <2> HIDE DEF T
  <2> QED
    BY <1>1, <1>2, <2>1, InductionTo
<1>4. \E f : IsStringLoop(f, argv, argc)
  BY <1>3, Zenon DEF IsStringLoop, base, Is
<1>5. process_inject_args(table, q, argc) =
        WithStrings((CHOOSE f : IsStringLoop(f, argv, argc))[argc], argv, argc)
  <2> DEFINE first == process_malloc(table, q, 4 * argc)
  <2>1. process_inject_args(table, q, argc) =
          WithStrings((CHOOSE f : IsStringLoop(f, first, argc))[argc], first, argc)
    BY Zenon DEF process_inject_args, IsStringLoop, NoString, NextString, WithStrings
  <2> QED
    BY <2>1, Zenon
<1> QED
  BY <1>4, <1>5, Zenon

(* An address that a process holds. *)
HasSlot(q, addr) == addr # NULL /\ \E s \in Slots : q.allocations[s].ptr = addr

(* The addresses in args are all different, not that of the array, and all *)
(* held.                                                                   *)
ArgsHeld(q, argv, args) ==
  /\ \A i, j \in 1..Len(args) : args[i] = args[j] => i = j
  /\ \A i \in 1..Len(args) : args[i] # argv /\ HasSlot(q, args[i])
  /\ HasSlot(q, argv)

(* After n rounds of the loop. *)
Strings(n, p, q, rest, argv, at) ==
  /\ ProcessSound(p, at.process)
  /\ Holds(at.table, p, at.process, rest)
  /\ SameParts(q, at.process)
  /\ SameArgs(q, at.process)
  /\ at.ptr # NULL => /\ at.args \in Seq(Nat)
                      /\ Len(at.args) = n
                      /\ ArgsHeld(at.process, argv.ptr, at.args)
                      /\ argv.ptr \in Nat

(* One more string is another address. *)
LEMMA OneMoreString ==
  ASSUME NEW table, NEW p, NEW q, NEW rest, NEW size, NEW new,
         Malloced(table, p, q, rest, size, new), new.ptr # NULL,
         NEW argv, NEW args \in Seq(Nat), ArgsHeld(q, argv, args)
  PROVE  ArgsHeld(new.process, argv, Append(args, new.ptr))
<1> DEFINE r == new.process
           more == Append(args, new.ptr)
           n == Len(args)
<1>1. PICK s \in Slots :
        /\ q.allocations[s].ptr = NULL
        /\ r.allocations[s].ptr = new.ptr
        /\ \A j \in Slots \ {s} : /\ r.allocations[j] = q.allocations[j]
                                  /\ q.allocations[j].ptr # new.ptr
  BY DEF Malloced
<1>2. ASSUME NEW addr, HasSlot(q, addr)
      PROVE  HasSlot(r, addr) /\ addr # new.ptr
  <2>1. PICK j \in Slots : q.allocations[j].ptr = addr /\ addr # NULL
    BY <1>2 DEF HasSlot
  <2>2. j \in Slots \ {s}
    BY <1>1, <2>1
  <2> QED
    BY <1>1, <2>1, <2>2 DEF HasSlot
<1>3. HasSlot(r, new.ptr)
  BY <1>1 DEF HasSlot
<1>4. /\ n \in Nat /\ Len(more) = n + 1
      /\ \A i \in 1..n : more[i] = args[i]
      /\ more[n + 1] = new.ptr
  BY DEF Malloced
<1>5. /\ \A i, j \in 1..n : args[i] = args[j] => i = j
      /\ \A i \in 1..n : args[i] # argv /\ HasSlot(q, args[i])
      /\ HasSlot(q, argv)
  BY Zenon DEF ArgsHeld
<1>6. \A i \in 1..(n + 1) : i \in 1..n \/ i = n + 1
  BY <1>4
<1> HIDE DEF r, more, n
<1>7. \A i, j \in 1..(n + 1) : more[i] = more[j] => i = j
  <2> SUFFICES ASSUME NEW i \in 1..(n + 1), NEW j \in 1..(n + 1),
                      more[i] = more[j]
               PROVE  i = j
    BY Zenon
  <2>1. CASE i \in 1..n /\ j \in 1..n
    BY <1>4, <1>5, <2>1, Zenon
  <2>2. CASE i \in 1..n /\ j = n + 1
    BY <1>2, <1>4, <1>5, <2>2, Zenon
  <2>3. CASE i = n + 1 /\ j \in 1..n
    BY <1>2, <1>4, <1>5, <2>3, Zenon
  <2> QED
    BY <1>6, <2>1, <2>2, <2>3, Zenon
<1>8. \A i \in 1..(n + 1) : more[i] # argv /\ HasSlot(r, more[i])
  <2> SUFFICES ASSUME NEW i \in 1..(n + 1)
               PROVE  more[i] # argv /\ HasSlot(r, more[i])
    BY Zenon
  <2>1. CASE i \in 1..n
    BY <1>2, <1>4, <1>5, <2>1, Zenon
  <2>2. CASE i = n + 1
    BY <1>2, <1>3, <1>4, <1>5, <2>2, Zenon
  <2> QED
    BY <1>6, <2>1, <2>2, Zenon
<1> QED
  BY <1>2, <1>4, <1>5, <1>7, <1>8, Zenon DEF ArgsHeld, r, more

(* The sizes that the kernel asks for fit, and smaller ones, too. *)
LEMMA FittingSizes ==
  /\ \A size \in Sizes : Fits(size) /\ size \in Nat
  /\ \A f \in Programs : Fits(f.size) /\ f.size \in Nat \ {0}
  /\ Fits(SizeofProcess) /\ SizeofProcess \in Nat \ {0}
  /\ Fits(BENOS_USER_PROGRAM_STACK_SIZE)
  /\ BENOS_USER_PROGRAM_STACK_SIZE \in Nat \ {0}
  /\ Fits(BlockSize) /\ BlockSize \in Nat \ {0}
  /\ Fits(512)
  /\ \A argc \in 0..MaxArgs : Fits(4 * argc) /\ 4 * argc \in Nat
<1>1. \A size \in Sizes : Fits(size) /\ size \in Nat
  BY AddressesAssumption, ProcessAssumption
<1>2. \A f \in Programs : Fits(f.size) /\ f.size \in Nat \ {0}
  BY AddressesAssumption, ProcessAssumption
<1>3. /\ Fits(SizeofProcess)
      /\ Fits(BENOS_USER_PROGRAM_STACK_SIZE)
      /\ Fits(BENOS_HEAP_BLOCK_SIZE)
      /\ Fits(4 * MaxArgs)
  BY AddressesAssumption
<1>4. /\ SizeofProcess \in Nat \ {0}
      /\ BENOS_USER_PROGRAM_STACK_SIZE \in Nat \ {0}
  BY ProcessAssumption
<1>5. BlockSize \in Nat \ {0} /\ Fits(BlockSize)
  BY <1>3 DEF BlockSize, BENOS_HEAP_BLOCK_SIZE
<1>6. ASSUME NEW n \in Nat, NEW m \in Nat, m <= n, Fits(n)
      PROVE  Fits(m)
  <2>1. PICK k \in Int : k = BENOS_HEAD_ADDRESS + BENOS_HEAP_BLOCK_SIZE * (Total + 1)
    BY TableAssumption DEF BENOS_HEAD_ADDRESS, BENOS_HEAP_BLOCK_SIZE
  <2>2. k + n <= WordSize
    BY <1>6, <2>1, Zenon DEF Fits
  <2>3. k + m <= WordSize
    BY <1>6, <2>2, TableAssumption
  <2> QED
    BY <2>1, <2>3, Zenon DEF Fits
<1>7. Fits(512)
  <2>1. 512 <= BENOS_HEAP_BLOCK_SIZE /\ BENOS_HEAP_BLOCK_SIZE \in Nat
    BY DEF BENOS_HEAP_BLOCK_SIZE
  <2> QED
    BY <1>3, <1>6, <2>1
<1>8. \A argc \in 0..MaxArgs : Fits(4 * argc) /\ 4 * argc \in Nat
  <2> TAKE argc \in 0..MaxArgs
  <2>1. 4 * argc \in Nat /\ 4 * MaxArgs \in Nat /\ 4 * argc <= 4 * MaxArgs
    BY ProcessAssumption
  <2> QED
    BY <1>3, <1>6, <2>1
<1> QED
  BY <1>1, <1>2, <1>3, <1>4, <1>5, <1>7, <1>8, Zenon

LEMMA StringRounds ==
  ASSUME NEW table, NEW p, NEW q, NEW rest,
         ProcessSound(p, q), Holds(table, p, q, rest),
         NEW argc \in 0..MaxArgs, NEW argv,
         argv = process_malloc(table, q, 4 * argc),
         NEW done, IsStringLoop(done, argv, argc)
  PROVE  Strings(argc, p, q, rest, argv, done[argc])
<1>1. argc \in Nat
  BY ProcessAssumption
<1>2. \A i \in 0..argc : done[i] = IF i = 0 THEN NoString(argv)
                                   ELSE NextString(done[i - 1])
  BY Zenon DEF IsStringLoop
<1> DEFINE T == {n \in 0..argc : Strings(n, p, q, rest, argv, done[n])}
<1>3. Malloced(table, p, q, rest, 4 * argc, argv)
  <2>1. 4 * argc \in Nat /\ Fits(4 * argc)
    BY FittingSizes
  <2> DEFINE size == 4 * argc
  <2> HIDE DEF size
  <2>2. Malloced(table, p, q, rest, size, process_malloc(table, q, size))
    BY <2>1, ProcessMalloc DEF size
  <2> QED
    BY <2>2, Zenon DEF size
<1>4. 0 \in T
  <2>1. done[0] = NoString(argv)
    BY <1>1, <1>2
  <2>2. PICK at : at = done[0]
    BY Zenon
  <2>3. at.table = argv.table /\ at.process = argv.process
        /\ at.ptr = argv.ptr /\ at.args = <<>>
    BY <2>1, <2>2 DEF NoString
  <2>4. ASSUME at.ptr # NULL
        PROVE  ArgsHeld(at.process, argv.ptr, at.args)
    <3>1. HasSlot(at.process, argv.ptr)
      BY <1>3, <2>3, <2>4 DEF Malloced, HasSlot
    <3>2. Len(at.args) = 0 /\ \A i : i \notin 1..0
      BY <2>3
    <3> QED
      BY <3>1, <3>2 DEF ArgsHeld
  <2>5. at.args \in Seq(Nat) /\ Len(at.args) = 0
    BY <2>3
  <2>6. Strings(0, p, q, rest, argv, at)
    BY <1>3, <2>3, <2>4, <2>5, Zenon DEF Strings, Malloced
  <2> QED
    BY <1>1, <2>2, <2>6
<1>5. ASSUME NEW n \in 1..argc, n - 1 \in T
      PROVE  n \in T
  <2>1. PICK before : before = done[n - 1]
    BY Zenon
  <2>2. Strings(n - 1, p, q, rest, argv, before)
    BY <1>5, <2>1
  <2>3. PICK at : at = done[n]
    BY Zenon
  <2>4. at = NextString(before)
    <3>1. done[n] = NextString(done[n - 1])
      BY <1>1, <1>2
    <3> QED
      BY <2>1, <2>3, <3>1, Zenon
  <2>5. CASE before.ptr = NULL
    <3>1. at = before
      BY <2>4, <2>5, Zenon DEF NextString
    <3>2. Strings(n, p, q, rest, argv, at)
      BY <2>2, <2>5, <3>1, Zenon DEF Strings
    <3> QED
      BY <1>1, <2>3, <3>2
  <2>6. CASE before.ptr # NULL
    <3>1. PICK b, t, args, arg :
            /\ b = before.process /\ t = before.table /\ args = before.args
            /\ arg = process_malloc(t, b, 512)
      BY Zenon
    <3>2. ProcessSound(p, b) /\ Holds(t, p, b, rest)
      BY <2>2, <3>1, Zenon DEF Strings
    <3>3. Malloced(t, p, b, rest, 512, arg)
      <4>1. 512 \in Nat /\ Fits(512)
        BY FittingSizes
      <4> QED
        BY <3>1, <3>2, <4>1, ProcessMalloc
    <3>4. /\ at.table = arg.table /\ at.process = arg.process
          /\ at.ptr = arg.ptr /\ at.args = Append(args, arg.ptr)
      <4> DEFINE new == process_malloc(before.table, before.process, 512)
      <4>1. at = [table |-> new.table, process |-> new.process,
                  ptr |-> new.ptr, args |-> Append(before.args, new.ptr)]
        BY <2>4, <2>6 DEF NextString
      <4>2. new = arg
        BY <3>1, Zenon
      <4> HIDE DEF new
      <4> QED
        BY <3>1, <4>1, <4>2
    <3>5. /\ args \in Seq(Nat) /\ Len(args) = n - 1
          /\ ArgsHeld(b, argv.ptr, args) /\ argv.ptr \in Nat
      BY <2>2, <2>6, <3>1, Zenon DEF Strings
    <3>6. ASSUME at.ptr # NULL
          PROVE  /\ at.args \in Seq(Nat)
                 /\ Len(at.args) = n
                 /\ ArgsHeld(at.process, argv.ptr, at.args)
                 /\ argv.ptr \in Nat
      <4>1. ArgsHeld(arg.process, argv.ptr, Append(args, arg.ptr))
        BY <3>3, <3>4, <3>5, <3>6, OneMoreString
      <4>2. arg.ptr \in Nat
        BY <3>3, Zenon DEF Malloced
      <4>3. Append(args, arg.ptr) \in Seq(Nat) /\ Len(Append(args, arg.ptr)) = n
        BY <1>1, <3>5, <4>2
      <4> QED
        BY <3>4, <3>5, <4>1, <4>3, Zenon
    <3>7. SameParts(q, at.process) /\ SameArgs(q, at.process)
      <4>1. /\ SameParts(q, b) /\ SameParts(b, arg.process)
            /\ SameArgs(q, b) /\ SameArgs(b, arg.process)
        BY <2>2, <3>1, <3>3, Zenon DEF Strings, Malloced
      <4> QED
        BY <3>4, <4>1 DEF SameParts, SameArgs
    <3>8. ProcessSound(p, at.process) /\ Holds(at.table, p, at.process, rest)
      BY <3>3, <3>4, Zenon DEF Malloced
    <3>9. Strings(n, p, q, rest, argv, at)
      BY <3>6, <3>7, <3>8, Zenon DEF Strings
    <3> QED
      BY <1>1, <2>3, <3>9
  <2> QED
    BY <2>5, <2>6
<1>6. argc \in T
  <2>1. argc \in 0..argc
    BY <1>1
  <2> HIDE DEF T
  <2> QED
    BY <1>1, <1>4, <1>5, <2>1, InductionTo
<1> QED
  BY <1>6

(* A process of which only the arguments change. *)
LEMMA SameMemory ==
  ASSUME NEW p, NEW q, NEW r \in ProcessType, ProcessSound(p, q),
         SameParts(q, r), r.allocations = q.allocations, r.pages = q.pages
  PROVE  ProcessSound(p, r) /\ OwnPieces(p, r) = OwnPieces(p, q)
<1>1. SlotPieces(p, r) = SlotPieces(p, q)
  BY Zenon DEF SlotPieces
<1>2. FixedPieces(p, r) = FixedPieces(p, q)
  BY SameFixed
<1>3. OwnPieces(p, r) = OwnPieces(p, q)
  <2>1. /\ OwnPieces(p, r) = FixedPieces(p, r) \cup SlotPieces(p, r)
        /\ OwnPieces(p, q) = FixedPieces(p, q) \cup SlotPieces(p, q)
    BY OwnParts, Zenon
  <2> QED
    BY <1>1, <1>2, <2>1, Zenon
<1>4. PagesSound(p, r)
  BY <1>1, Zenon DEF ProcessSound, PagesSound, SameParts
<1> QED
  BY <1>3, <1>4, Zenon DEF ProcessSound

(* The arguments of a process are complete. *)
ArgsGood(q) == q.argc > 0 => /\ Len(q.args) = q.argc
                             /\ ArgsHeld(q, q.argv, q.args)

(* What process_inject_args promises. *)
Injected(p, q, rest, new) ==
  /\ ProcessSound(p, new.process)
  /\ Holds(new.table, p, new.process, rest)
  /\ SameParts(q, new.process)
  /\ ArgsGood(new.process)

LEMMA InjectArgs ==
  ASSUME NEW table, NEW p, NEW q, NEW rest,
         ProcessSound(p, q), Holds(table, p, q, rest), q.argc = 0,
         NEW argc \in 0..MaxArgs, argc # 0
  PROVE  Injected(p, q, rest, process_inject_args(table, q, argc))
<1>1. argc \in Nat
  BY ProcessAssumption
<1>2. PICK argv : argv = process_malloc(table, q, 4 * argc)
  BY Zenon
<1>3. PICK done : /\ IsStringLoop(done, argv, argc)
                  /\ process_inject_args(table, q, argc)
                       = WithStrings(done[argc], argv, argc)
  BY <1>1, <1>2, StringLoop
<1>4. PICK last : last = done[argc]
  BY Zenon
<1>5. Strings(argc, p, q, rest, argv, last)
  BY <1>2, <1>3, <1>4, StringRounds
<1>6. PICK new : new = WithStrings(last, argv, argc)
  BY Zenon
<1>7. CASE last.ptr = NULL
  <2>1. new.table = last.table /\ new.process = last.process
    BY <1>6, <1>7 DEF WithStrings
  <2>2. last.process.argc = 0
    BY <1>5, Zenon DEF Strings, SameArgs
  <2>3. ArgsGood(new.process)
    BY <2>1, <2>2 DEF ArgsGood
  <2>4. Injected(p, q, rest, new)
    BY <1>5, <2>1, <2>3, Zenon DEF Strings, Injected
  <2> QED
    BY <1>3, <1>4, <1>6, <2>4, Zenon
<1>8. CASE last.ptr # NULL
  <2>1. PICK b, args, addr : b = last.process /\ args = last.args /\ addr = argv.ptr
    BY Zenon
  <2>2. /\ args \in Seq(Nat) /\ Len(args) = argc /\ addr \in Nat
        /\ ArgsHeld(b, addr, args)
    BY <1>5, <1>8, <2>1, Zenon DEF Strings
  <2>3. ProcessSound(p, b) /\ b \in ProcessType
    BY <1>5, <2>1, Zenon DEF Strings, ProcessSound
  <2>4. PICK r : r = [b EXCEPT !.argc = argc, !.argv = addr, !.args = args]
    BY Zenon
  <2>5. new.table = last.table /\ new.process = r
    BY <1>6, <1>8, <2>1, <2>4 DEF WithStrings
  <2>6. /\ r \in ProcessType /\ SameParts(b, r)
        /\ r.allocations = b.allocations /\ r.pages = b.pages
        /\ r.argc = argc /\ r.argv = addr /\ r.args = args
    BY <1>1, <2>2, <2>3, <2>4 DEF ProcessType, SameParts
  <2>7. ProcessSound(p, r) /\ OwnPieces(p, r) = OwnPieces(p, b)
    BY <2>3, <2>6, SameMemory
  <2>8. Holds(new.table, p, r, rest)
    BY <1>5, <2>1, <2>5, <2>7, Zenon DEF Strings, Holds
  <2>9. ArgsGood(r)
    <3>1. ArgsHeld(r, addr, args)
      <4>1. ASSUME NEW a, HasSlot(b, a)
            PROVE  HasSlot(r, a)
        BY <2>6, <4>1 DEF HasSlot
      <4> QED
        BY <2>2, <4>1, Zenon DEF ArgsHeld
    <3> QED
      BY <2>2, <2>6, <3>1, Zenon DEF ArgsGood
  <2>10. SameParts(q, r)
    <3>1. SameParts(q, b)
      BY <1>5, <2>1, Zenon DEF Strings
    <3> QED
      BY <2>6, <3>1 DEF SameParts
  <2>11. Injected(p, q, rest, new)
    BY <2>5, <2>7, <2>8, <2>9, <2>10, Zenon DEF Injected
  <2> QED
    BY <1>3, <1>4, <1>6, <2>11, Zenon
<1> QED
  BY <1>7, <1>8


-----------------------------------------------------------------------------
(* Loading a process *)

(* What a load asks for. *)
IsLoadOrder(sizes, f) ==
  /\ sizes \in Seq(Nat)
  /\ Len(sizes) = 5 + DirectoryBlocks
  /\ sizes[1] = SizeofProcess
  /\ sizes[2] = BlockSize
  /\ sizes[3] = f.size
  /\ sizes[4] = BENOS_USER_PROGRAM_STACK_SIZE
  /\ \A i \in 5..(5 + DirectoryBlocks) : sizes[i] = BlockSize

LEMMA LoadOrder ==
  ASSUME NEW f \in Programs
  PROVE  /\ IsLoadOrder(process_load_for_slot(f), f)
         /\ DirectoryBlocks \in Nat \ {0}
<1>1. /\ SizeofProcess \in Nat /\ BlockSize \in Nat /\ f.size \in Nat
      /\ BENOS_USER_PROGRAM_STACK_SIZE \in Nat
      /\ DirectoryBlocks \in Nat \ {0}
  BY FittingSizes, ProcessAssumption
<1> DEFINE n == DirectoryBlocks
           block == BlockSize
           first == <<SizeofProcess>>
           file == <<block, f.size>>
           stack == <<BENOS_USER_PROGRAM_STACK_SIZE>>
           one == <<block>>
           dir == [i \in 1..n |-> block]
           two == first \o file
           three == two \o stack
           task == one \o dir
           all == three \o task
<1> HIDE DEF block
<1>2. block \in Nat
  BY <1>1 DEF block
<1>3. first \in Seq(Nat) /\ Len(first) = 1 /\ first[1] = SizeofProcess
  BY <1>1
<1>4. file \in Seq(Nat) /\ Len(file) = 2 /\ file[1] = block /\ file[2] = f.size
  BY <1>1, <1>2
<1>5. stack \in Seq(Nat) /\ Len(stack) = 1
      /\ stack[1] = BENOS_USER_PROGRAM_STACK_SIZE
  BY <1>1
<1>6. one \in Seq(Nat) /\ Len(one) = 1 /\ one[1] = block
  BY <1>2
<1>7. dir \in Seq(Nat) /\ Len(dir) = n /\ \A i \in 1..n : dir[i] = block
  BY <1>1, <1>2
<1>8. process_load_for_slot(f) = all
  BY Zenon DEF process_load_for_slot, elf_load, task_new, paging_new_4gb, block
<1> HIDE DEF first, file, stack, one, dir
<1>9. Joined(first, file, two)
  BY <1>3, <1>4, JoinedAddresses
<1> HIDE DEF two
<1>10. two \in Seq(Nat) /\ Len(two) = 3 /\ two[1] = SizeofProcess
       /\ two[2] = block /\ two[3] = f.size
  BY <1>3, <1>4, <1>9 DEF Joined
<1>11. Joined(two, stack, three)
  BY <1>5, <1>10, JoinedAddresses
<1> HIDE DEF three
<1>12. three \in Seq(Nat) /\ Len(three) = 4 /\ three[1] = SizeofProcess
       /\ three[2] = block /\ three[3] = f.size
       /\ three[4] = BENOS_USER_PROGRAM_STACK_SIZE
  BY <1>5, <1>10, <1>11 DEF Joined
<1>13. Joined(one, dir, task)
  BY <1>6, <1>7, JoinedAddresses
<1> HIDE DEF task
<1>14. task \in Seq(Nat) /\ Len(task) = n + 1
       /\ \A i \in 1..(n + 1) : task[i] = block
  BY <1>1, <1>6, <1>7, <1>13 DEF Joined
<1>15. Joined(three, task, all)
  BY <1>12, <1>14, JoinedAddresses
<1> HIDE DEF all
<1>16. /\ all \in Seq(Nat) /\ Len(all) = 5 + n
       /\ all[1] = SizeofProcess /\ all[2] = block /\ all[3] = f.size
       /\ all[4] = BENOS_USER_PROGRAM_STACK_SIZE
  BY <1>1, <1>12, <1>14, <1>15 DEF Joined
<1>17. \A i \in 5..(5 + n) : all[i] = block
  <2> TAKE i \in 5..(5 + n)
  <2>1. all[i] = task[i - 4]
    BY <1>1, <1>12, <1>14, <1>15 DEF Joined
  <2>2. i - 4 \in 1..(n + 1)
    BY <1>1
  <2> QED
    BY <1>14, <2>1, <2>2, Zenon
<1> QED
  BY <1>1, <1>8, <1>16, <1>17, Zenon DEF IsLoadOrder, block

(* Each of the requests is for at least a block. *)
LEMMA LoadRequests ==
  ASSUME NEW f \in Programs, NEW sizes, IsLoadOrder(sizes, f)
  PROVE  Requests(sizes)
<1>1. \A n \in Nat \ {0} : Fits(n) => TotalBlocks(n) \in Nat \ {0}
  <2> TAKE n \in Nat \ {0}
  <2> QED
    BY RequestBlocks
<1>2. ASSUME NEW i \in 1..Len(sizes)
      PROVE  sizes[i] \in Nat \ {0} /\ Fits(sizes[i])
  <2>1. DirectoryBlocks \in Nat
    BY ProcessAssumption
  <2>2. i \in 5..(5 + DirectoryBlocks) \/ i = 1 \/ i = 2 \/ i = 3 \/ i = 4
    BY <2>1 DEF IsLoadOrder
  <2>3. \/ sizes[i] = BlockSize
        \/ sizes[i] = SizeofProcess
        \/ sizes[i] = BENOS_USER_PROGRAM_STACK_SIZE
        \/ sizes[i] = f.size
    BY <2>2, Zenon DEF IsLoadOrder
  <2>4. f.size \in Nat \ {0} /\ Fits(f.size)
    BY FittingSizes, Zenon
  <2>5. /\ Fits(SizeofProcess) /\ SizeofProcess \in Nat \ {0}
        /\ Fits(BENOS_USER_PROGRAM_STACK_SIZE)
        /\ BENOS_USER_PROGRAM_STACK_SIZE \in Nat \ {0}
        /\ Fits(BlockSize) /\ BlockSize \in Nat \ {0}
    BY FittingSizes, Zenon
  <2> QED
    BY <2>3, <2>4, <2>5, Zenon
<1> QED
  BY <1>1, <1>2 DEF Requests, IsLoadOrder

(* The pieces of a load, in the order of the requests. *)
LoadPiece(f, p, addrs, i) ==
  CASE i = 1 -> Piece("struct", p, addrs[i], SizeofProcess)
    [] i = 2 -> Piece("file", p, addrs[i], BlockSize)
    [] i = 3 -> Piece("mem", p, addrs[i], f.size)
    [] i = 4 -> Piece("stack", p, addrs[i], BENOS_USER_PROGRAM_STACK_SIZE)
    [] i = 5 -> Piece("task", p, addrs[i], BlockSize)
    [] OTHER -> NthPiece("dir", i - 5, p, addrs[i], BlockSize)

LEMMA LoadPieces ==
  ASSUME NEW f \in Programs, NEW p, NEW addrs,
         NEW sizes, IsLoadOrder(sizes, f),
         NEW i \in 1..(5 + DirectoryBlocks)
  PROVE  /\ LoadPiece(f, p, addrs, i).addr = addrs[i]
         /\ LoadPiece(f, p, addrs, i).size = sizes[i]
         /\ LoadPiece(f, p, addrs, i).of = p
<1> DEFINE n == DirectoryBlocks
           a == addrs[i]
           x == LoadPiece(f, p, addrs, i)
<1>1. n \in Nat
  BY ProcessAssumption
<1>2. /\ i = 1 => x = Piece("struct", p, a, SizeofProcess)
      /\ i = 2 => x = Piece("file", p, a, BlockSize)
      /\ i = 3 => x = Piece("mem", p, a, f.size)
      /\ i = 4 => x = Piece("stack", p, a, BENOS_USER_PROGRAM_STACK_SIZE)
      /\ i = 5 => x = Piece("task", p, a, BlockSize)
      /\ i \in 6..(5 + n) => x = NthPiece("dir", i - 5, p, a, BlockSize)
  BY <1>1 DEF LoadPiece
<1>3. /\ i = 1 => sizes[i] = SizeofProcess
      /\ i = 2 => sizes[i] = BlockSize
      /\ i = 3 => sizes[i] = f.size
      /\ i = 4 => sizes[i] = BENOS_USER_PROGRAM_STACK_SIZE
      /\ i = 5 => sizes[i] = BlockSize
      /\ i \in 6..(5 + n) => sizes[i] = BlockSize
  BY <1>1 DEF IsLoadOrder
<1>4. i = 1 \/ i = 2 \/ i = 3 \/ i = 4 \/ i = 5 \/ i \in 6..(5 + n)
  BY <1>1
<1> HIDE DEF x, a, n
<1>5. CASE i = 1
  BY <1>2, <1>3, <1>5, PieceFields DEF x, a
<1>6. CASE i = 2
  BY <1>2, <1>3, <1>6, PieceFields DEF x, a
<1>7. CASE i = 3
  BY <1>2, <1>3, <1>7, PieceFields DEF x, a
<1>8. CASE i = 4
  BY <1>2, <1>3, <1>8, PieceFields DEF x, a
<1>9. CASE i = 5
  BY <1>2, <1>3, <1>9, PieceFields DEF x, a
<1>10. CASE i \in 6..(5 + n)
  BY <1>2, <1>3, <1>10, PieceFields DEF x, a
<1> QED
  BY <1>4, <1>5, <1>6, <1>7, <1>8, <1>9, <1>10

(* All that a process that was loaded has are these pieces. *)
LEMMA LoadedPieces ==
  ASSUME NEW f \in Programs, NEW p, NEW addrs \in Seq(Nat),
         Len(addrs) = 5 + DirectoryBlocks
  PROVE  /\ OwnPieces(p, LoadedProcess(f, addrs))
              = {LoadPiece(f, p, addrs, i) : i \in 1..(5 + DirectoryBlocks)}
         /\ SlotPieces(p, LoadedProcess(f, addrs)) = {}
<1> DEFINE n == DirectoryBlocks
           q == LoadedProcess(f, addrs)
           x(i) == LoadPiece(f, p, addrs, i)
           dir(i) == NthPiece("dir", i, p, addrs[i + 5], BlockSize)
<1>1. n \in Nat
  BY ProcessAssumption
<1>2. /\ q.struct = addrs[1] /\ q.file = addrs[2] /\ q.mem = addrs[3]
      /\ q.stack = addrs[4] /\ q.task = addrs[5] /\ q.image = f
      /\ q.dir = SubSeq(addrs, 6, Len(addrs))
      /\ q.allocations = [i \in Slots |-> NoAllocation]
  BY DEF LoadedProcess
<1>3. DOMAIN q.dir = 1..n /\ \A i \in 1..n : q.dir[i] = addrs[i + 5]
  BY <1>1, <1>2
<1>4. SlotPieces(p, q) = {}
  <2>1. \A i \in Slots : q.allocations[i].ptr = NULL
    BY <1>2 DEF NoAllocation
  <2> HIDE DEF q
  <2> QED
    BY <2>1 DEF SlotPieces
<1>5. OwnPieces(p, q) = FixedPieces(p, q)
  <2> HIDE DEF q
  <2>1. OwnPieces(p, q) = FixedPieces(p, q) \cup SlotPieces(p, q)
    BY OwnParts, Zenon
  <2> QED
    BY <1>4, <2>1
<1>6. /\ x(1) = Piece("struct", p, q.struct, SizeofProcess)
      /\ x(2) = Piece("file", p, q.file, BlockSize)
      /\ x(3) = Piece("mem", p, q.mem, q.image.size)
      /\ x(4) = Piece("stack", p, q.stack, BENOS_USER_PROGRAM_STACK_SIZE)
      /\ x(5) = Piece("task", p, q.task, BlockSize)
  <2> HIDE DEF q
  <2> QED
    BY <1>2 DEF LoadPiece
<1>7. \A i \in 6..(5 + n) : x(i) = dir(i - 5)
  <2> TAKE i \in 6..(5 + n)
  <2>0. i # 1 /\ i # 2 /\ i # 3 /\ i # 4 /\ i # 5
    BY <1>1
  <2>1. x(i) = NthPiece("dir", i - 5, p, addrs[i], BlockSize)
    BY <2>0, Zenon DEF LoadPiece
  <2>2. addrs[(i - 5) + 5] = addrs[i]
    BY <1>1
  <2> QED
    BY <2>1, <2>2, Zenon
<1>8. FixedPieces(p, q) = {x(1), x(2), x(3), x(4), x(5)} \cup {dir(i) : i \in 1..n}
  <2>1. {NthPiece("dir", i, p, q.dir[i], BlockSize) : i \in DOMAIN q.dir}
          = {dir(i) : i \in 1..n}
    <3> HIDE DEF q
    <3>1. \A i \in 1..n : NthPiece("dir", i, p, q.dir[i], BlockSize) = dir(i)
      BY <1>3, Zenon
    <3> HIDE DEF dir
    <3> QED
      BY <1>3, <3>1
  <2> HIDE DEF q, dir, x
  <2> QED
    BY <1>6, <2>1 DEF FixedPieces, KernelPieces
<1> HIDE DEF q, x, dir, n
<1>9. {x(i) : i \in 1..(5 + n)}
        = {x(1), x(2), x(3), x(4), x(5)} \cup {dir(i) : i \in 1..n}
  <2>1. \A i \in 1..n : dir(i) = x(i + 5) /\ i + 5 \in 1..(5 + n)
    BY <1>1, <1>7
  <2>2. /\ 1 \in 1..(5 + n) /\ 2 \in 1..(5 + n) /\ 3 \in 1..(5 + n)
        /\ 4 \in 1..(5 + n) /\ 5 \in 1..(5 + n)
    BY <1>1
  <2>3. \A i \in 6..(5 + n) : i - 5 \in 1..n
    BY <1>1
  <2>4. \A i \in 1..(5 + n) : i \in {1, 2, 3, 4, 5} \/ i \in 6..(5 + n)
    BY <1>1
  <2> QED
    BY <1>7, <2>1, <2>2, <2>3, <2>4
<1> QED
  BY <1>4, <1>5, <1>8, <1>9, Zenon DEF q, x, n

(* The pages of a part of a piece are some of its blocks. *)
LEMMA PartRange ==
  ASSUME NEW addr, \E s \in Blocks : addr = heap_block_to_address(s),
         NEW size \in Nat, Fits(size),
         NEW offset \in Nat, NEW memsz \in Nat, offset + memsz <= size
  PROVE  heap_address_to_block(paging_align_to_lower_page(addr + offset))..
           (heap_address_to_block(paging_align_address(addr + offset + memsz)) - 1)
             \subseteq BlocksOf(addr, size)
<1>1. addr \in Nat /\ addr % PAGING_PAGE_SIZE = 0
  <2>1. PICK s \in Blocks : addr = heap_block_to_address(s)
    OBVIOUS
  <2> QED
    BY <2>1, AddressRoundTrip
<1>2. \A a, b \in Int : /\ a <= b => heap_address_to_block(a) <= heap_address_to_block(b)
                        /\ heap_address_to_block(a) \in Int
  BY DEF heap_address_to_block, BENOS_HEAD_ADDRESS, BENOS_HEAP_BLOCK_SIZE
<1>3. \A a, b \in Nat : /\ a <= b => paging_align_address(a) <= paging_align_address(b)
                        /\ paging_align_address(a) \in Int
  BY DEF paging_align_address, PAGING_PAGE_SIZE
<1>4. \A o \in Nat : /\ addr <= paging_align_to_lower_page(addr + o)
                     /\ paging_align_to_lower_page(addr + o) \in Int
  BY <1>1 DEF paging_align_to_lower_page, PAGING_PAGE_SIZE
<1> DEFINE low == paging_align_to_lower_page(addr + offset)
           high == paging_align_address(addr + offset + memsz)
           end == paging_align_address(addr + size)
           first == heap_address_to_block(addr)
<1>5. addr <= low /\ low \in Int
  BY <1>4
<1>6. high <= end /\ high \in Int /\ end \in Int
  <2>1. addr + offset + memsz \in Nat /\ addr + size \in Nat
        /\ addr + offset + memsz <= addr + size
    BY <1>1
  <2> QED
    BY <1>3, <2>1
<1>7. BlocksOf(addr, size) = first..(heap_address_to_block(end) - 1)
  BY PageRange
<1> HIDE DEF low, high, end
<1>8. /\ first <= heap_address_to_block(low)
      /\ heap_address_to_block(high) <= heap_address_to_block(end)
      /\ first \in Int /\ heap_address_to_block(low) \in Int
      /\ heap_address_to_block(high) \in Int /\ heap_address_to_block(end) \in Int
  BY <1>1, <1>2, <1>5, <1>6
<1>9. heap_address_to_block(low)..(heap_address_to_block(high) - 1)
        \subseteq first..(heap_address_to_block(end) - 1)
  BY <1>8
<1> QED
  BY <1>7, <1>9, Zenon DEF low, high

(* The pages of a process that was loaded. *)
LEMMA LoadedPages ==
  ASSUME NEW f \in Programs, NEW mem, NEW stack,
         \E s \in Blocks : mem = heap_block_to_address(s),
         \E s \in Blocks : stack = heap_block_to_address(s),
         NEW pages, pages = process_map_memory(f, mem, stack)
  PROVE  /\ pages \in [Regions -> SUBSET Int]
         /\ pages["heap"] = {}
         /\ pages["stack"] \subseteq BlocksOf(stack, BENOS_USER_PROGRAM_STACK_SIZE)
         /\ SegmentsFit => pages["program"] \subseteq BlocksOf(mem, f.size)
<1> DEFINE phys == mem + f.offset
           low == paging_align_to_lower_page(phys)
           high == paging_align_address(phys + f.memsz)
           end == paging_align_address(stack + BENOS_USER_PROGRAM_STACK_SIZE)
           inner == heap_address_to_block(low)..(heap_address_to_block(high) - 1)
           outer == heap_address_to_block(stack)..(heap_address_to_block(end) - 1)
           one == paging_map_to(NoPages, "program", low, high, TRUE)
           two == paging_map_to(one.pages, "stack", stack, end, TRUE)
<1>1. pages = two.pages
  BY Zenon DEF process_map_memory
<1>2. f.offset \in Nat /\ f.memsz \in Nat /\ f.size \in Nat /\ Fits(f.size)
  BY FittingSizes, ProcessAssumption
<1>3. \A a, b : heap_address_to_block(a)..(heap_address_to_block(b) - 1) \subseteq Int
  OBVIOUS
<1>4. inner \subseteq Int /\ outer \subseteq Int
  BY <1>3, Zenon
<1>5. outer = BlocksOf(stack, BENOS_USER_PROGRAM_STACK_SIZE)
  BY FittingSizes, PageRange
<1>6. SegmentsFit => inner \subseteq BlocksOf(mem, f.size)
  <2> SUFFICES ASSUME SegmentsFit
               PROVE  inner \subseteq BlocksOf(mem, f.size)
    BY Zenon
  <2>1. f.offset + f.memsz <= f.size
    BY Zenon DEF SegmentsFit
  <2> DEFINE o == f.offset
             m == f.memsz
             n == f.size
  <2>2. o \in Nat /\ m \in Nat /\ n \in Nat /\ Fits(n) /\ o + m <= n
    BY <1>2, <2>1
  <2> HIDE DEF o, m, n
  <2>3. heap_address_to_block(paging_align_to_lower_page(mem + o))..
          (heap_address_to_block(paging_align_address(mem + o + m)) - 1)
            \subseteq BlocksOf(mem, n)
    BY <2>2, PartRange
  <2> QED
    BY <2>3, Zenon DEF o, m, n
<1>7. one.pages = [NoPages EXCEPT !["program"] = @ \cup inner] \/ one.pages = NoPages
  <2>1. one.pages = [NoPages EXCEPT !["program"] = IF ~one.ok THEN @ ELSE @ \cup inner]
    BY DEF paging_map_to
  <2>2. [NoPages EXCEPT !["program"] = @] = NoPages
    BY DEF NoPages, Regions
  <2> HIDE DEF one, inner
  <2> QED
    BY <2>1, <2>2
<1>8. two.pages = [one.pages EXCEPT !["stack"] = @ \cup outer]
      \/ two.pages = [one.pages EXCEPT !["stack"] = @]
  <2>1. two.pages = [one.pages EXCEPT !["stack"] = IF ~two.ok THEN @ ELSE @ \cup outer]
    BY DEF paging_map_to
  <2> HIDE DEF one, two, outer
  <2> QED
    BY <2>1
<1> DEFINE first == one.pages
<1> HIDE DEF one, two, inner, outer, first
<1>9. /\ first \in [Regions -> SUBSET Int]
      /\ first["heap"] = {} /\ first["stack"] = {}
      /\ first["program"] \subseteq inner
  BY <1>4, <1>7 DEF NoPages, Regions, first
<1>10. two.pages = [first EXCEPT !["stack"] = @ \cup outer]
       \/ two.pages = [first EXCEPT !["stack"] = @]
  BY <1>8, Zenon DEF first
<1>11. /\ pages \in [Regions -> SUBSET Int]
       /\ pages["heap"] = {} /\ pages["stack"] \subseteq outer
       /\ pages["program"] \subseteq inner
  BY <1>1, <1>4, <1>9, <1>10 DEF Regions
<1> QED
  BY <1>5, <1>6, <1>11

(* A process that was given addresses for all that it needs. *)
LEMMA FreshProcess ==
  ASSUME NEW table, NEW p, NEW rest, Exact(table, rest),
         NEW f \in Programs, NEW new,
         new = kzallocAll(table, process_load_for_slot(f)),
         NULL \notin Range(new.addrs)
  PROVE  /\ ProcessSound(p, LoadedProcess(f, new.addrs))
         /\ Holds(new.table, p, LoadedProcess(f, new.addrs), rest)
         /\ LoadedProcess(f, new.addrs).argc = 0
<1> DEFINE n == 5 + DirectoryBlocks
<1>1. PICK sizes : sizes = process_load_for_slot(f)
  BY Zenon
<1>2. IsLoadOrder(sizes, f) /\ DirectoryBlocks \in Nat \ {0}
  BY <1>1, LoadOrder
<1>3. Requests(sizes) /\ Len(sizes) = n /\ n \in Nat
  <2>1. Requests(sizes)
    BY <1>2, LoadRequests, Zenon
  <2>2. Len(sizes) = n
    BY <1>2, Zenon DEF IsLoadOrder
  <2>3. n \in Nat
    BY <1>2
  <2> QED
    BY <2>1, <2>2, <2>3, Zenon
<1>4. PICK addrs : addrs = new.addrs
  BY Zenon
<1>5. PICK x : x = [i \in 1..n |-> LoadPiece(f, p, addrs, i)]
  BY Zenon
<1>6. \A i \in 1..n : x[i] = LoadPiece(f, p, addrs, i)
  BY <1>5
<1>7. \A i \in 1..n : x[i].addr = addrs[i] /\ x[i].size = sizes[i]
  <2> TAKE i \in 1..n
  <2>1. x[i] = LoadPiece(f, p, addrs, i)
    BY <1>6, Zenon
  <2>2. /\ LoadPiece(f, p, addrs, i).addr = addrs[i]
        /\ LoadPiece(f, p, addrs, i).size = sizes[i]
    <3>1. i \in 1..(5 + DirectoryBlocks)
      OBVIOUS
    <3>2. IsLoadOrder(sizes, f)
      BY <1>2
    <3>3. f \in Programs
      OBVIOUS
    <3> QED
      BY ONLY <3>1, <3>2, <3>3, LoadPieces
  <2> QED
    BY <2>1, <2>2, Zenon
<1>8. PICK all : all = kzallocAll(table, sizes)
  BY Zenon
<1>9. all = new /\ all.addrs = addrs
  BY <1>1, <1>4, <1>8, Zenon
<1>10. /\ addrs \in Seq(Nat)
       /\ Len(addrs) = n
       /\ Exact(new.table, rest \cup {x[i] : i \in Got(x, n)})
  <2>1. Answers(x, sizes, all)
    BY <1>3, <1>7, <1>9, Zenon DEF Answers
  <2>2. Allocated(rest, sizes, x, all)
    BY <1>3, <1>8, <2>1, AllocAll, Zenon
  <2> QED
    BY <1>3, <1>9, <2>2, Zenon DEF Allocated
<1>11. \A i \in 1..n : addrs[i] # NULL
  <2>1. \A i \in 1..n : addrs[i] \in Range(addrs)
    BY <1>10 DEF Range
  <2> QED
    BY <1>4, <2>1, Zenon
<1>12. Got(x, n) = 1..n
  BY <1>7, <1>11 DEF Got
<1>13. PICK q : q = LoadedProcess(f, addrs)
  BY Zenon
<1>14. OwnPieces(p, q) = {x[i] : i \in 1..n} /\ SlotPieces(p, q) = {}
  <2>1. /\ OwnPieces(p, LoadedProcess(f, addrs))
             = {LoadPiece(f, p, addrs, i) : i \in 1..(5 + DirectoryBlocks)}
        /\ SlotPieces(p, LoadedProcess(f, addrs)) = {}
    BY <1>10, LoadedPieces
  <2>2. {LoadPiece(f, p, addrs, i) : i \in 1..n} = {x[i] : i \in 1..n}
    BY <1>6
  <2> QED
    BY <1>13, <2>1, <2>2, Zenon
<1>15. Exact(new.table, rest \cup OwnPieces(p, q))
  BY <1>10, <1>12, <1>14, Zenon
<1>16. /\ q.struct = addrs[1] /\ q.file = addrs[2] /\ q.mem = addrs[3]
       /\ q.stack = addrs[4] /\ q.task = addrs[5] /\ q.image = f
       /\ q.dir = SubSeq(addrs, 6, Len(addrs))
       /\ q.allocations = [i \in Slots |-> NoAllocation]
       /\ q.pages = process_map_memory(f, addrs[3], addrs[4])
       /\ q.argc = 0
  BY <1>13 DEF LoadedProcess
<1>17. /\ \E s \in Blocks : addrs[3] = heap_block_to_address(s)
       /\ \E s \in Blocks : addrs[4] = heap_block_to_address(s)
  <2>1. 3 \in 1..n /\ 4 \in 1..n
    BY <1>2
  <2>2. x[3] \in rest \cup OwnPieces(p, q) /\ x[4] \in rest \cup OwnPieces(p, q)
    BY <1>14, <2>1
  <2>3. Placed(x[3]) /\ Placed(x[4])
    BY <1>15, <2>2, Zenon DEF Exact
  <2>4. x[3].addr = addrs[3] /\ x[4].addr = addrs[4]
    BY <1>7, <2>1
  <2> QED
    BY <2>3, <2>4, Zenon DEF Placed
<1>18. /\ q.pages \in [Regions -> SUBSET Int]
       /\ q.pages["heap"] = {}
       /\ q.pages["stack"] \subseteq BlocksOf(q.stack, BENOS_USER_PROGRAM_STACK_SIZE)
       /\ SegmentsFit => q.pages["program"] \subseteq BlocksOf(q.mem, q.image.size)
  <2>1. PICK mem, stack, pages : /\ mem = addrs[3] /\ stack = addrs[4]
                                 /\ pages = process_map_memory(f, mem, stack)
    BY Zenon
  <2>2. /\ \E s \in Blocks : mem = heap_block_to_address(s)
        /\ \E s \in Blocks : stack = heap_block_to_address(s)
    BY <1>17, <2>1, Zenon
  <2>3. /\ pages \in [Regions -> SUBSET Int]
        /\ pages["heap"] = {}
        /\ pages["stack"] \subseteq BlocksOf(stack, BENOS_USER_PROGRAM_STACK_SIZE)
        /\ SegmentsFit => pages["program"] \subseteq BlocksOf(mem, f.size)
    BY <2>1, <2>2, LoadedPages
  <2>4. q.pages = pages /\ q.stack = stack /\ q.mem = mem /\ q.image = f
    BY <1>16, <2>1, Zenon
  <2> QED
    BY <2>3, <2>4, Zenon
<1>19. q \in ProcessType
  <2>1. \A i \in {1, 2, 3, 4, 5} : addrs[i] \in Nat
    BY <1>2, <1>10
  <2>2. SubSeq(addrs, 6, Len(addrs)) \in Seq(Nat)
    BY <1>2, <1>10
  <2>3. [i \in Slots |-> NoAllocation] \in [Slots -> Allocation]
    BY DEF Allocation, NoAllocation, NULL
  <2>4. q = [struct |-> q.struct, image |-> q.image, file |-> q.file,
             mem |-> q.mem, stack |-> q.stack, task |-> q.task, dir |-> q.dir,
             allocations |-> q.allocations, pages |-> q.pages,
             argc |-> q.argc, argv |-> NULL, args |-> <<>>]
    BY <1>13 DEF LoadedProcess
  <2>5. q.struct \in Nat /\ q.image \in Programs /\ q.file \in Nat /\ q.mem \in Nat
        /\ q.stack \in Nat /\ q.task \in Nat /\ q.dir \in Seq(Nat)
        /\ q.allocations \in [Slots -> Allocation]
        /\ q.pages \in [Regions -> SUBSET Int] /\ q.argc \in Nat
    BY <1>16, <1>18, <2>1, <2>2, <2>3
  <2>6. ASSUME NEW s \in Nat, NEW image \in Programs, NEW fi \in Nat, NEW m \in Nat,
               NEW st \in Nat, NEW t \in Nat, NEW d \in Seq(Nat),
               NEW a \in [Slots -> Allocation], NEW g \in [Regions -> SUBSET Int],
               NEW c \in Nat
        PROVE  [struct |-> s, image |-> image, file |-> fi, mem |-> m,
                stack |-> st, task |-> t, dir |-> d, allocations |-> a,
                pages |-> g, argc |-> c, argv |-> NULL, args |-> <<>>]
                  \in ProcessType
    BY DEF ProcessType, NULL
  <2>7. [struct |-> q.struct, image |-> q.image, file |-> q.file,
         mem |-> q.mem, stack |-> q.stack, task |-> q.task, dir |-> q.dir,
         allocations |-> q.allocations, pages |-> q.pages,
         argc |-> q.argc, argv |-> NULL, args |-> <<>>] \in ProcessType
    BY ONLY <2>5, <2>6, Zenon
  <2> QED
    BY <2>4, <2>7, Zenon
<1>20. ProcessSound(p, q)
  <2>1. \A i \in Slots : SlotSound(q.allocations[i])
    BY <1>16 DEF SlotSound, NoAllocation
  <2>2. PagesSound(p, q)
    BY <1>14, <1>18 DEF PagesSound, Cover
  <2> QED
    BY <1>19, <2>1, <2>2, Zenon DEF ProcessSound
<1> QED
  BY <1>4, <1>13, <1>15, <1>16, <1>20, Zenon DEF Holds

(* A load that returns a process has allocated just what belongs to it. *)
LEMMA LoadSucceeds ==
  ASSUME NEW table, NEW p, NEW rest, Exact(table, rest),
         NEW f \in Programs, NEW argc \in 0..MaxArgs, NEW new,
         new = Load(table, f, argc), new.process # NoProcess
  PROVE  /\ ProcessSound(p, new.process)
         /\ Holds(new.table, p, new.process, rest)
         /\ ArgsGood(new.process)
<1>1. PICK all : all = kzallocAll(table, process_load_for_slot(f))
  BY Zenon
<1>2. NULL \notin Range(all.addrs)
  <2>1. SUFFICES ASSUME NULL \in Range(all.addrs)
                 PROVE  FALSE
    BY Zenon
  <2>2. new = [table |-> table, process |-> NoProcess]
    BY <1>1, <2>1, Zenon DEF Load
  <2> QED
    BY <2>2
<1>3. PICK q : q = LoadedProcess(f, all.addrs)
  BY Zenon
<1>4. PICK t : t = all.table
  BY Zenon
<1>5. ProcessSound(p, q) /\ Holds(t, p, q, rest) /\ q.argc = 0
  BY <1>1, <1>2, <1>3, <1>4, FreshProcess
<1>6. new = IF argc = 0 THEN [table |-> t, process |-> q]
                        ELSE process_inject_args(t, q, argc)
  BY <1>1, <1>2, <1>3, <1>4, Zenon DEF Load
<1>7. CASE argc = 0
  <2>1. new.table = t /\ new.process = q
    BY <1>6, <1>7
  <2> QED
    BY <1>5, <2>1 DEF ArgsGood
<1>8. CASE argc # 0
  <2>1. Injected(p, q, rest, process_inject_args(t, q, argc))
    BY <1>5, <1>8, InjectArgs
  <2>2. new = process_inject_args(t, q, argc)
    BY <1>6, <1>8, Zenon
  <2> QED
    BY <2>1, <2>2, Zenon DEF Injected
<1> QED
  BY <1>7, <1>8

(* A load that finds no room for the stack leaves the ELF file. *)
LEMMA LoadLeavesFile ==
  ASSUME NEW table, NEW p, NEW rest, Exact(table, rest),
         NEW f \in Programs, NEW new,
         new = kzallocAll(table, SubSeq(process_load_for_slot(f), 1, 4)),
         NULL \notin {new.addrs[1], new.addrs[2], new.addrs[3]},
         new.addrs[4] = NULL
  PROVE  Exact(kfree(new.table, new.addrs[1]),
               rest \cup {Piece("file", p, new.addrs[2], BlockSize),
                          Piece("mem", p, new.addrs[3], f.size)})
<1>1. PICK sizes : sizes = process_load_for_slot(f)
  BY Zenon
<1>2. IsLoadOrder(sizes, f) /\ DirectoryBlocks \in Nat \ {0}
  BY <1>1, LoadOrder
<1>3. Requests(sizes) /\ Len(sizes) = 5 + DirectoryBlocks
  BY <1>2, LoadRequests DEF IsLoadOrder
<1>4. PICK four : four = SubSeq(sizes, 1, 4)
  BY Zenon
<1>5. /\ four \in Seq(Nat) /\ Len(four) = 4
      /\ \A i \in 1..4 : four[i] = sizes[i]
  BY <1>2, <1>3, <1>4 DEF Requests
<1>6. Requests(four)
  <2>1. \A i \in 1..4 : i \in 1..Len(sizes)
    BY <1>2, <1>3
  <2> QED
    BY <1>3, <1>5, <2>1, Zenon DEF Requests
<1>7. PICK addrs, t : addrs = new.addrs /\ t = new.table
  BY Zenon
<1>8. PICK x : x = [i \in 1..4 |-> LoadPiece(f, p, addrs, i)]
  BY Zenon
<1>9. \A i \in 1..4 : x[i] = LoadPiece(f, p, addrs, i)
  BY <1>8
<1>10. \A i \in 1..4 : x[i].addr = addrs[i] /\ x[i].size = four[i]
  <2>1. \A i \in 1..4 : i \in 1..(5 + DirectoryBlocks)
    BY <1>2
  <2>2. \A i \in 1..(5 + DirectoryBlocks) :
          /\ LoadPiece(f, p, addrs, i).addr = addrs[i]
          /\ LoadPiece(f, p, addrs, i).size = sizes[i]
    <3> TAKE i \in 1..(5 + DirectoryBlocks)
    <3> QED
      BY <1>2, LoadPieces
  <2> QED
    BY <1>5, <1>9, <2>1, <2>2, Zenon
<1>11. Allocated(rest, four, x, new)
  <2>1. new = kzallocAll(table, four)
    BY <1>1, <1>4, Zenon
  <2>2. Answers(x, four, new)
    BY <1>5, <1>7, <1>10, Zenon DEF Answers
  <2> QED
    BY <1>6, <2>1, <2>2, AllocAll, Zenon
<1>12. Got(x, 4) = {1, 2, 3}
  BY <1>7, <1>10 DEF Got
<1>13. PICK x1, x2, x3 : x1 = x[1] /\ x2 = x[2] /\ x3 = x[3]
  BY Zenon
<1>14. {x[i] : i \in Got(x, 4)} = {x1, x2, x3}
  BY <1>12, <1>13
<1>15. PICK pieces : pieces = rest \cup {x1, x2, x3}
  BY Zenon
<1>16. Exact(t, pieces)
  BY <1>5, <1>7, <1>11, <1>14, <1>15, Zenon DEF Allocated
<1>17. x1 \notin rest /\ x1 # x2 /\ x1 # x3
  BY <1>5, <1>11, <1>12, <1>13 DEF Allocated
<1>18. Exact(kfree(t, x1.addr), pieces \ {x1})
  <2>1. x1 \in pieces
    BY <1>15
  <2> QED
    BY <1>16, <2>1, FreeReturns
<1>19. pieces \ {x1} = rest \cup {x2, x3}
  BY <1>15, <1>17
<1>20. /\ x1.addr = addrs[1]
       /\ x2 = Piece("file", p, addrs[2], BlockSize)
       /\ x3 = Piece("mem", p, addrs[3], f.size)
  BY <1>9, <1>10, <1>13 DEF LoadPiece
<1> QED
  BY <1>7, <1>18, <1>19, <1>20, Zenon

-----------------------------------------------------------------------------
(* All the pieces there are *)

(* Pieces, for other values of the variables. *)
OtherPiece(addr) == Piece("other", 0, addr, BlockSize)

AllPieces(al, pr, oth, lo) ==
  {OtherPiece(addr) : addr \in oth} \cup lo
    \cup UNION {OwnPieces(p, pr[p]) : p \in al}

(* Those of one process, and the rest. *)
WithAndWithout(p, al, pr, oth, lo) ==
  AllPieces(al \cup {p}, pr, oth, lo)
    = AllPieces(al \ {p}, pr, oth, lo) \cup OwnPieces(p, pr[p])

LEMMA OneProcess ==
  ASSUME NEW al, NEW pr, NEW oth, NEW lo, NEW p
  PROVE  WithAndWithout(p, al, pr, oth, lo)
BY DEF AllPieces, WithAndWithout

(* Those of processes that stay as they are. *)
SamePieces(al, new, pr, oth, lo) ==
  AllPieces(al, new, oth, lo) = AllPieces(al, pr, oth, lo)

LEMMA SameProcesses ==
  ASSUME NEW al, NEW pr, NEW new, NEW oth, NEW lo,
         \A p \in al : new[p] = pr[p]
  PROVE  SamePieces(al, new, pr, oth, lo)
<1>1. \A p \in al : OwnPieces(p, new[p]) = OwnPieces(p, pr[p])
  BY Zenon
<1> HIDE DEF OwnPieces
<1>2. {OwnPieces(p, new[p]) : p \in al} = {OwnPieces(p, pr[p]) : p \in al}
  BY <1>1
<1> QED
  BY <1>2, Zenon DEF AllPieces, SamePieces

LEMMA OthersForeign ==
  ASSUME NEW al, NEW pr, NEW oth, NEW lo, NEW p, p \notin al, p # 0,
         \A x \in lo : x.of # p
  PROVE  Foreign(p, AllPieces(al, pr, oth, lo))
<1> SUFFICES ASSUME NEW x \in AllPieces(al, pr, oth, lo)
             PROVE  x.of # p
  BY Zenon DEF Foreign
<1>1. CASE x \in lo
  BY <1>1
<1>2. CASE \E addr \in oth : x = OtherPiece(addr)
  BY <1>2, PieceFields DEF OtherPiece
<1>3. CASE \E q \in al : x \in OwnPieces(q, pr[q])
  <2>1. PICK q \in al : x \in OwnPieces(q, pr[q])
    BY <1>3
  <2>2. x.of = q
    BY <2>1, OwnParts, Zenon
  <2> QED
    BY <2>2, Zenon
<1> QED
  BY <1>1, <1>2, <1>3 DEF AllPieces

LEMMA PiecesAre == Pieces = AllPieces(alive, process, others, lost)
<1>1. \A p : UserPieces(p, process[p]) \cup KernelPieces(p, process[p])
               = OwnPieces(p, process[p])
  BY Zenon DEF OwnPieces
<1>2. OtherPieces = {OtherPiece(addr) : addr \in others}
  BY Zenon DEF OtherPieces, OtherPiece
<1> QED
  BY <1>2, Zenon DEF Pieces, AllPieces, OwnPieces

-----------------------------------------------------------------------------
(***************************************************************************)
(* The inductive invariant: the table is that of a heap with all of the    *)
(* pieces, those who live are sound, and what is lost belonged to somebody *)
(* who does not live.                                                      *)
(***************************************************************************)
NumbersOK == /\ loaded \in Processes
             /\ alive \subseteq 1..loaded
             /\ curr_process \in 1..loaded
             /\ status \in {"running", "panic", "wild"}
             /\ process = [p \in Processes |-> process[p]]

AllSound == \A p \in alive : ProcessSound(p, process[p])

LostOfTheDead == \A x \in lost : x.of \in (1..loaded) \ alive

HeapExact == Exact(entries, AllPieces(alive, process, others, lost))

MemoryInv == NumbersOK /\ AllSound /\ LostOfTheDead /\ HeapExact

(* What is not of process p. *)
RestOf(p) == AllPieces(alive \ {p}, process, others, lost)

LEMMA AliveNumbers ==
  ASSUME NumbersOK
  PROVE  /\ alive \subseteq Processes
         /\ Processes \subseteq Nat \ {0}
         /\ loaded \in Nat
         /\ loaded + 1 \notin alive
         /\ 1..loaded \subseteq 1..(loaded + 1)
BY ProcessAssumption DEF NumbersOK, Processes

(* The heap is that of any one process and of the rest. *)
LEMMA OneAndRest ==
  ASSUME MemoryInv, NEW p \in alive
  PROVE  /\ ProcessSound(p, process[p])
         /\ Holds(entries, p, process[p], RestOf(p))
         /\ Foreign(p, RestOf(p))
<1>1. p # 0 /\ p \in alive
  BY AliveNumbers DEF MemoryInv
<1>2. \A x \in lost : x.of # p
  BY DEF MemoryInv, LostOfTheDead
<1>3. Foreign(p, RestOf(p))
  <2>1. p \notin alive \ {p}
    OBVIOUS
  <2> QED
    BY <1>1, <1>2, <2>1, OthersForeign DEF RestOf
<1>4. AllPieces(alive, process, others, lost)
        = RestOf(p) \cup OwnPieces(p, process[p])
  <2>1. alive \cup {p} = alive
    OBVIOUS
  <2>2. AllPieces(alive \cup {p}, process, others, lost)
          = RestOf(p) \cup OwnPieces(p, process[p])
    <3>1. WithAndWithout(p, alive, process, others, lost)
      BY OneProcess
    <3> QED
      BY <3>1, Zenon DEF RestOf, WithAndWithout
  <2> QED
    BY <2>1, <2>2, Zenon
<1> QED
  BY <1>3, <1>4, Zenon DEF MemoryInv, AllSound, HeapExact, Holds

(* A step in which the memory of one process changes. *)
LEMMA OneChanges ==
  ASSUME MemoryInv, NEW p \in alive, NEW q, NEW table,
         ProcessSound(p, q), Holds(table, p, q, RestOf(p)),
         entries' = table, process' = [process EXCEPT ![p] = q],
         UNCHANGED <<loaded, alive, curr_process, others, lost, status>>
  PROVE  MemoryInv'
<1>1. p \in Processes /\ process = [k \in Processes |-> process[k]]
  BY AliveNumbers DEF MemoryInv, NumbersOK
<1>2. /\ process' = [k \in Processes |-> process'[k]]
      /\ process'[p] = q
      /\ \A k \in alive \ {p} : process'[k] = process[k]
  BY <1>1, AliveNumbers DEF MemoryInv
<1>3. NumbersOK'
  BY <1>2 DEF MemoryInv, NumbersOK
<1>4. AllSound'
  <2> SUFFICES ASSUME NEW k \in alive
               PROVE  ProcessSound(k, process'[k])
    BY Zenon DEF AllSound
  <2>1. CASE k = p
    BY <1>2, <2>1, Zenon
  <2>2. CASE k # p
    <3>1. process'[k] = process[k]
      BY <1>2, <2>2
    <3> QED
      BY <3>1, Zenon DEF MemoryInv, AllSound
  <2> QED
    BY <2>1, <2>2
<1>5. LostOfTheDead'
  BY DEF MemoryInv, LostOfTheDead
<1>6. HeapExact'
  <2>1. alive \cup {p} = alive
    OBVIOUS
  <2>2. AllPieces(alive \cup {p}, process', others, lost)
          = AllPieces(alive \ {p}, process', others, lost) \cup OwnPieces(p, process'[p])
    <3>1. WithAndWithout(p, alive, process', others, lost)
      BY OneProcess
    <3> QED
      BY <3>1, Zenon DEF WithAndWithout
  <2>3. AllPieces(alive \ {p}, process', others, lost) = RestOf(p)
    <3>1. SamePieces(alive \ {p}, process', process, others, lost)
      BY <1>2, SameProcesses
    <3> QED
      BY <3>1, Zenon DEF RestOf, SamePieces
  <2>4. AllPieces(alive, process', others, lost) = RestOf(p) \cup OwnPieces(p, q)
    BY <1>2, <2>1, <2>2, <2>3, Zenon
  <2> QED
    BY <2>4, Zenon DEF HeapExact, Holds
<1> QED
  BY <1>3, <1>4, <1>5, <1>6 DEF MemoryInv

(* The system calls malloc and free. *)
LEMMA MallocKeeps ==
  ASSUME MemoryInv, NEW p \in alive, NEW size \in Sizes,
         isr80h_command4_malloc(p, size)
  PROVE  MemoryInv'
<1>1. /\ ProcessSound(p, process[p])
      /\ Holds(entries, p, process[p], RestOf(p))
  BY OneAndRest
<1>2. PICK q, t, rest, new : /\ q = process[p] /\ t = entries /\ rest = RestOf(p)
                             /\ new = process_malloc(t, q, size)
  BY Zenon
<1>3. Malloced(t, p, q, rest, size, new)
  <2>1. ProcessSound(p, q) /\ Holds(t, p, q, rest)
    BY <1>1, <1>2, Zenon
  <2>2. size \in Nat /\ Fits(size)
    BY FittingSizes
  <2> QED
    BY <1>2, <2>1, <2>2, ProcessMalloc
<1>4. PICK r, table : r = new.process /\ table = new.table
  BY Zenon
<1>5. ProcessSound(p, r) /\ Holds(table, p, r, RestOf(p))
  BY <1>2, <1>3, <1>4, Zenon DEF Malloced
<1>6. /\ entries' = table /\ process' = [process EXCEPT ![p] = r]
      /\ UNCHANGED <<loaded, alive, curr_process, others, lost, status>>
  BY <1>2, <1>4, Zenon DEF isr80h_command4_malloc
<1> QED
  BY <1>5, <1>6, OneChanges, Zenon

LEMMA FreeKeeps ==
  ASSUME MemoryInv, NEW p \in alive, NEW ptr, isr80h_command5_free(p, ptr)
  PROVE  MemoryInv'
<1>1. /\ ProcessSound(p, process[p])
      /\ Holds(entries, p, process[p], RestOf(p))
      /\ Foreign(p, RestOf(p))
  BY OneAndRest
<1>2. PICK q, t, rest, new : /\ q = process[p] /\ t = entries /\ rest = RestOf(p)
                             /\ new = process_free(t, q, ptr)
  BY Zenon
<1>3. Freed(p, q, rest, ptr, new)
  <2>1. ProcessSound(p, q) /\ Holds(t, p, q, rest) /\ Foreign(p, rest)
    BY <1>1, <1>2, Zenon
  <2> QED
    BY <1>2, <2>1, ProcessFree
<1>4. PICK r, table : r = new.process /\ table = new.table
  BY Zenon
<1>5. ProcessSound(p, r) /\ Holds(table, p, r, RestOf(p))
  BY <1>2, <1>3, <1>4, Zenon DEF Freed
<1>6. /\ entries' = table /\ process' = [process EXCEPT ![p] = r]
      /\ UNCHANGED <<loaded, alive, curr_process, others, lost, status>>
  BY <1>2, <1>4, Zenon DEF isr80h_command5_free
<1> QED
  BY <1>5, <1>6, OneChanges, Zenon

(* More of the kernel's own pieces, or of what is lost. *)
MoreLost(al, pr, oth, lo, more) ==
  AllPieces(al, pr, oth, lo \cup more) = AllPieces(al, pr, oth, lo) \cup more

LEMMA LosePieces ==
  ASSUME NEW al, NEW pr, NEW oth, NEW lo, NEW more
  PROVE  MoreLost(al, pr, oth, lo, more)
BY DEF AllPieces, MoreLost

MoreOthers(al, pr, oth, lo, addr) ==
  AllPieces(al, pr, oth \cup {addr}, lo)
    = AllPieces(al, pr, oth, lo) \cup {OtherPiece(addr)}

LEMMA OneMoreOther ==
  ASSUME NEW al, NEW pr, NEW oth, NEW lo, NEW addr
  PROVE  MoreOthers(al, pr, oth, lo, addr)
BY DEF AllPieces, MoreOthers

(* A process that exits leaves its struct process, and what others have. *)
LEMMA ExitKeeps ==
  ASSUME MemoryInv, NEW p \in alive, isr80h_command9_exit(p)
  PROVE  MemoryInv'
<1> DEFINE struct == StructPiece(p, process[p])
<1>1. /\ ProcessSound(p, process[p])
      /\ Holds(entries, p, process[p], RestOf(p))
      /\ Foreign(p, RestOf(p))
  BY OneAndRest
<1>2. Exact(process_terminate(entries, process[p]), RestOf(p) \cup {struct})
  <2>1. PICK q, t, rest : q = process[p] /\ t = entries /\ rest = RestOf(p)
    BY Zenon
  <2>2. ProcessSound(p, q) /\ Holds(t, p, q, rest) /\ Foreign(p, rest)
    BY <1>1, <2>1, Zenon
  <2>3. Exact(process_terminate(t, q), rest \cup {StructPiece(p, q)})
    BY <2>2, ProcessTerminate
  <2> QED
    BY <2>1, <2>3, Zenon
<1>3. /\ entries' = process_terminate(entries, process[p])
      /\ process' = [process EXCEPT ![p] = NoProcess]
      /\ alive' = alive \ {p}
      /\ lost' = lost \cup {struct}
      /\ status' \in {"running", "panic"}
      /\ UNCHANGED <<loaded, curr_process, others>>
  BY DEF isr80h_command9_exit, StructPiece
<1>4. struct.of = p
  BY PieceFields DEF StructPiece
<1> HIDE DEF struct
<1>5. /\ p \in Processes /\ process = [k \in Processes |-> process[k]]
      /\ p \in 1..loaded
  BY AliveNumbers DEF MemoryInv, NumbersOK
<1>6. /\ process' = [k \in Processes |-> process'[k]]
      /\ \A k \in alive \ {p} : process'[k] = process[k]
  BY <1>3, <1>5, AliveNumbers DEF MemoryInv
<1>7. NumbersOK'
  BY <1>3, <1>6 DEF MemoryInv, NumbersOK
<1>8. AllSound'
  <2> SUFFICES ASSUME NEW k \in alive'
               PROVE  ProcessSound(k, process'[k])
    BY Zenon DEF AllSound
  <2>1. k \in alive \ {p} /\ k \in alive
    BY <1>3
  <2>2. process'[k] = process[k]
    BY <1>6, <2>1
  <2> QED
    BY <2>1, <2>2, Zenon DEF MemoryInv, AllSound
<1>9. LostOfTheDead'
  BY <1>3, <1>4, <1>5 DEF MemoryInv, LostOfTheDead
<1>10. HeapExact'
  <2>1. SamePieces(alive \ {p}, process', process, others, lost)
    BY <1>6, SameProcesses
  <2>2. MoreLost(alive \ {p}, process', others, lost, {struct})
    BY LosePieces
  <2>3. AllPieces(alive', process', others', lost') = RestOf(p) \cup {struct}
    BY <1>3, <2>1, <2>2, Zenon DEF SamePieces, MoreLost, RestOf
  <2> QED
    BY <1>2, <1>3, <2>3, Zenon DEF HeapExact
<1> QED
  BY <1>7, <1>8, <1>9, <1>10 DEF MemoryInv

(* A step in which a process is added to those that live. *)
LEMMA OneIsAdded ==
  ASSUME MemoryInv, NEW n, n = loaded + 1, n \in Processes, NEW q, NEW table,
         ProcessSound(n, q),
         Holds(table, n, q, AllPieces(alive, process, others, lost)),
         entries' = table, process' = [process EXCEPT ![n] = q],
         loaded' = n, alive' = alive \cup {n}, curr_process' = n,
         UNCHANGED <<others, lost, status>>
  PROVE  MemoryInv'
<1>1. /\ n \notin alive /\ n \in 1..n /\ 1..loaded \subseteq 1..n
      /\ n \notin 1..loaded
  <2>1. loaded \in Nat
    BY AliveNumbers DEF MemoryInv
  <2> QED
    BY <2>1, AliveNumbers DEF MemoryInv
<1>2. process = [k \in Processes |-> process[k]] /\ alive \subseteq Processes
  BY AliveNumbers DEF MemoryInv, NumbersOK
<1>3. /\ process' = [k \in Processes |-> process'[k]]
      /\ process'[n] = q
      /\ \A k \in alive : process'[k] = process[k]
  BY <1>1, <1>2
<1>4. NumbersOK'
  BY <1>1, <1>3 DEF MemoryInv, NumbersOK
<1>5. AllSound'
  <2> SUFFICES ASSUME NEW k \in alive'
               PROVE  ProcessSound(k, process'[k])
    BY Zenon DEF AllSound
  <2>1. CASE k = n
    BY <1>3, <2>1, Zenon
  <2>2. CASE k # n
    <3>1. k \in alive
      BY <2>2
    <3>2. process'[k] = process[k]
      BY <1>3, <3>1
    <3> QED
      BY <3>1, <3>2, Zenon DEF MemoryInv, AllSound
  <2> QED
    BY <2>1, <2>2
<1>6. LostOfTheDead'
  <2> SUFFICES ASSUME NEW x \in lost
               PROVE  x.of \in (1..n) \ (alive \cup {n})
    BY Zenon DEF LostOfTheDead
  <2>1. x.of \in (1..loaded) \ alive
    BY DEF MemoryInv, LostOfTheDead
  <2> QED
    BY <1>1, <2>1
<1>7. HeapExact'
  <2>1. alive \ {n} = alive
    BY <1>1
  <2>2. WithAndWithout(n, alive, process', others, lost)
    BY OneProcess
  <2>3. SamePieces(alive, process', process, others, lost)
    BY <1>3, SameProcesses
  <2>4. AllPieces(alive', process', others, lost)
          = AllPieces(alive, process, others, lost) \cup OwnPieces(n, q)
    BY <1>3, <2>1, <2>2, <2>3, Zenon DEF WithAndWithout, SamePieces
  <2> QED
    BY <2>4, Zenon DEF HeapExact, Holds
<1> QED
  BY <1>4, <1>5, <1>6, <1>7 DEF MemoryInv

(* A load that succeeds leaves a process whose arguments are complete. *)
LEMMA LoadAdds ==
  ASSUME MemoryInv, NEW f \in Programs, NEW argc \in 0..MaxArgs,
         isr80h_process_load_start(f, argc)
  PROVE  /\ loaded' = loaded + 1
         /\ loaded + 1 \in Processes
         /\ alive' = alive \cup {loaded + 1}
         /\ curr_process' = loaded + 1
         /\ UNCHANGED <<others, lost, status>>
         /\ process' = [process EXCEPT ![loaded + 1] = process'[loaded + 1]]
         /\ ProcessSound(loaded + 1, process'[loaded + 1])
         /\ Holds(entries', loaded + 1, process'[loaded + 1],
                  AllPieces(alive, process, others, lost))
         /\ ArgsGood(process'[loaded + 1])
<1>1. PICK n : n = loaded + 1
  BY Zenon
<1>2. PICK new : /\ new = Load(entries, f, argc)
                 /\ new.process # NoProcess
                 /\ entries' = new.table
                 /\ process' = [process EXCEPT ![n] = new.process]
  BY <1>1, Zenon DEF isr80h_process_load_start
<1>3. /\ loaded' = n /\ n \in Processes /\ alive' = alive \cup {n}
      /\ curr_process' = n /\ UNCHANGED <<others, lost, status>>
  BY <1>1, Zenon DEF isr80h_process_load_start
<1>4. PICK t, rest, q, table : /\ t = entries
                               /\ rest = AllPieces(alive, process, others, lost)
                               /\ q = new.process /\ table = new.table
  BY Zenon
<1>5. ProcessSound(n, q) /\ Holds(table, n, q, rest) /\ ArgsGood(q)
  <2>1. Exact(t, rest)
    BY <1>4, Zenon DEF MemoryInv, HeapExact
  <2>2. new = Load(t, f, argc)
    BY <1>2, <1>4, Zenon
  <2>3. /\ ProcessSound(n, new.process)
        /\ Holds(new.table, n, new.process, rest)
        /\ ArgsGood(new.process)
    BY <1>2, <2>1, <2>2, LoadSucceeds
  <2> QED
    BY <1>4, <2>3, Zenon
<1>6. process'[n] = q
  <2>1. process = [k \in Processes |-> process[k]]
    BY DEF MemoryInv, NumbersOK
  <2> QED
    BY <1>2, <1>3, <1>4, <2>1
<1> QED
  BY <1>1, <1>2, <1>3, <1>4, <1>5, <1>6, Zenon

LEMMA LoadKeeps ==
  ASSUME MemoryInv, NEW f \in Programs, NEW argc \in 0..MaxArgs,
         isr80h_process_load_start(f, argc)
  PROVE  MemoryInv'
<1>1. PICK n, q, table : n = loaded + 1 /\ q = process'[n] /\ table = entries'
  BY Zenon
<1>2. /\ loaded' = n /\ n \in Processes /\ alive' = alive \cup {n}
      /\ curr_process' = n /\ UNCHANGED <<others, lost, status>>
      /\ process' = [process EXCEPT ![n] = q]
      /\ ProcessSound(n, q)
      /\ Holds(table, n, q, AllPieces(alive, process, others, lost))
  BY <1>1, LoadAdds, Zenon
<1> QED
  BY <1>1, <1>2, OneIsAdded, Zenon

(* Steps in which those who live, and what they have, stay the same. *)
LEMMA SameProcess ==
  ASSUME MemoryInv, NEW pieces, pieces = AllPieces(alive, process, others', lost'),
         Exact(entries', pieces),
         loaded' \in Processes, loaded <= loaded',
         \A x \in lost' \ lost : x.of \in (1..loaded') \ alive,
         UNCHANGED <<process, alive, curr_process, status>>
  PROVE  MemoryInv'
<1>1. loaded \in Nat /\ loaded' \in Nat
  BY AliveNumbers, ProcessAssumption DEF MemoryInv, Processes
<1>2. 1..loaded \subseteq 1..loaded'
  BY <1>1
<1>3. NumbersOK'
  BY <1>2 DEF MemoryInv, NumbersOK
<1>4. AllSound'
  BY Zenon DEF MemoryInv, AllSound
<1>5. LostOfTheDead'
  <2> SUFFICES ASSUME NEW x \in lost'
               PROVE  x.of \in (1..loaded') \ alive
    BY Zenon DEF LostOfTheDead
  <2>1. CASE x \in lost
    <3>1. x.of \in (1..loaded) \ alive
      BY <2>1, Zenon DEF MemoryInv, LostOfTheDead
    <3> QED
      BY <1>2, <3>1
  <2>2. CASE x \notin lost
    BY <2>2
  <2> QED
    BY <2>1, <2>2
<1>6. HeapExact'
  BY Zenon DEF HeapExact
<1> QED
  BY <1>3, <1>4, <1>5, <1>6 DEF MemoryInv

(* A load that finds no room for the stack leaves what it leaves. *)
LEMMA WithoutStackKeeps ==
  ASSUME MemoryInv, NEW f \in Programs, LoadWithoutStack(f)
  PROVE  MemoryInv'
<1>1. PICK n : n = loaded + 1
  BY Zenon
<1>2. PICK new :
        /\ new = kzallocAll(entries, SubSeq(process_load_for_slot(f), 1, 4))
        /\ NULL \notin {new.addrs[1], new.addrs[2], new.addrs[3]}
        /\ new.addrs[4] = NULL
        /\ entries' = kfree(new.table, new.addrs[1])
        /\ lost' = lost \cup {Piece("file", n, new.addrs[2], BlockSize),
                              Piece("mem", n, new.addrs[3], f.size)}
  BY <1>1, Zenon DEF LoadWithoutStack
<1>3. /\ loaded' = n /\ n \in Processes
      /\ UNCHANGED <<process, alive, curr_process, others, status>>
  BY <1>1, Zenon DEF LoadWithoutStack
<1>4. PICK t, rest, more :
        /\ t = entries /\ rest = AllPieces(alive, process, others, lost)
        /\ more = {Piece("file", n, new.addrs[2], BlockSize),
                   Piece("mem", n, new.addrs[3], f.size)}
  BY Zenon
<1>5. Exact(entries', rest \cup more)
  <2>1. Exact(t, rest)
    BY <1>4, Zenon DEF MemoryInv, HeapExact
  <2>2. new = kzallocAll(t, SubSeq(process_load_for_slot(f), 1, 4))
    BY <1>2, <1>4, Zenon
  <2>3. Exact(kfree(new.table, new.addrs[1]),
              rest \cup {Piece("file", n, new.addrs[2], BlockSize),
                         Piece("mem", n, new.addrs[3], f.size)})
    BY <1>2, <2>1, <2>2, LoadLeavesFile
  <2> QED
    BY <1>2, <1>4, <2>3, Zenon
<1>6. rest \cup more = AllPieces(alive, process, others', lost')
  <2>1. MoreLost(alive, process, others, lost, more)
    BY LosePieces
  <2> QED
    BY <1>2, <1>3, <1>4, <2>1, Zenon DEF MoreLost
<1>7. \A x \in more : x.of = n
  BY <1>4, PieceFields
<1>8. n \in 1..n /\ loaded <= n /\ n \notin alive
  BY <1>1, AliveNumbers DEF MemoryInv
<1>9. \A x \in lost' \ lost : x.of \in (1..loaded') \ alive
  <2>1. \A x \in lost' \ lost : x \in more
    BY <1>2, <1>4
  <2> QED
    BY <1>3, <1>7, <1>8, <2>1
<1> QED
  BY <1>3, <1>5, <1>6, <1>8, <1>9, SameProcess, Zenon

(* The kernel's own allocations. *)
LEMMA KernelAllocKeeps ==
  ASSUME MemoryInv, KernelAlloc
  PROVE  MemoryInv'
<1>1. PICK new : new = heap_malloc(entries, BlockSize)
  BY Zenon
<1>2. /\ new.addr # NULL /\ entries' = new.table
      /\ others' = others \cup {new.addr}
      /\ UNCHANGED <<process, loaded, alive, curr_process, lost, status>>
  BY <1>1, Zenon DEF KernelAlloc
<1>3. PICK t, rest, x : /\ t = entries
                        /\ rest = AllPieces(alive, process, others, lost)
                        /\ x = OtherPiece(new.addr)
  BY Zenon
<1>4. Exact(entries', rest \cup {x})
  <2>1. Exact(t, rest)
    BY <1>3, Zenon DEF MemoryInv, HeapExact
  <2>2. TotalBlocks(BlockSize) \in Nat \ {0}
    BY FittingSizes, RequestBlocks
  <2>3. x.addr = heap_malloc(t, BlockSize).addr /\ x.size = BlockSize
    BY <1>1, <1>3, PieceFields DEF OtherPiece
  <2>4. heap_malloc(t, BlockSize).addr # NULL
    BY <1>1, <1>2, <1>3, Zenon
  <2>5. Exact(heap_malloc(t, BlockSize).table, rest \cup {x})
    BY <2>1, <2>2, <2>3, <2>4, MallocTakes
  <2> QED
    BY <1>1, <1>2, <1>3, <2>5, Zenon
<1>5. rest \cup {x} = AllPieces(alive, process, others', lost')
  <2>1. MoreOthers(alive, process, others, lost, new.addr)
    BY OneMoreOther
  <2> QED
    BY <1>2, <1>3, <2>1, Zenon DEF MoreOthers
<1>6. loaded' \in Processes /\ loaded <= loaded' /\ lost' \ lost = {}
  BY <1>2, AliveNumbers DEF MemoryInv, NumbersOK
<1> QED
  BY <1>2, <1>4, <1>5, <1>6, SameProcess

LEMMA KernelFreeKeeps ==
  ASSUME MemoryInv, NEW addr \in others, KernelFree(addr)
  PROVE  MemoryInv'
<1>1. /\ entries' = kfree(entries, addr) /\ others' = others \ {addr}
      /\ UNCHANGED <<process, loaded, alive, curr_process, lost, status>>
  BY Zenon DEF KernelFree
<1>2. PICK t, all, x, rest :
        /\ t = entries
        /\ all = AllPieces(alive, process, others, lost)
        /\ x = OtherPiece(addr)
        /\ rest = AllPieces(alive, process, others', lost)
  BY Zenon
<1>3. all = rest \cup {x}
  <2>1. MoreOthers(alive, process, others', lost, addr)
    BY OneMoreOther
  <2>2. others' \cup {addr} = others
    BY <1>1
  <2> QED
    BY <1>2, <2>1, <2>2, Zenon DEF MoreOthers
<1>4. x \notin rest
  <2>1. x.of = 0 /\ x.addr = addr
    BY <1>2, PieceFields DEF OtherPiece
  <2>2. x \notin {OtherPiece(a) : a \in others'}
    <3> SUFFICES ASSUME NEW a \in others', x = OtherPiece(a)
                 PROVE  FALSE
      BY Zenon
    <3>1. x.addr = a
      BY PieceFields DEF OtherPiece
    <3> QED
      BY <1>1, <2>1, <3>1
  <2>3. x \notin lost
    <3> SUFFICES ASSUME x \in lost
                 PROVE  FALSE
      BY Zenon
    <3>1. x.of \in 1..loaded
      BY DEF MemoryInv, LostOfTheDead
    <3> QED
      BY <2>1, <3>1, AliveNumbers DEF MemoryInv
  <2>4. \A p \in alive : x \notin OwnPieces(p, process[p])
    <3> SUFFICES ASSUME NEW p \in alive, x \in OwnPieces(p, process[p])
                 PROVE  FALSE
      BY Zenon
    <3>1. x.of = p
      BY OwnParts, Zenon
    <3> QED
      BY <2>1, <3>1, AliveNumbers DEF MemoryInv
  <2> QED
    BY <1>2, <2>2, <2>3, <2>4 DEF AllPieces
<1>5. Exact(entries', rest)
  <2>1. Exact(t, all) /\ x \in all
    BY <1>2, <1>3 DEF MemoryInv, HeapExact
  <2>2. Exact(kfree(t, x.addr), all \ {x})
    BY <2>1, FreeReturns
  <2>3. x.addr = addr
    BY <1>2, PieceFields DEF OtherPiece
  <2>4. all \ {x} = rest
    BY <1>3, <1>4
  <2> QED
    BY <1>1, <1>2, <2>2, <2>3, <2>4, Zenon
<1>6. loaded' \in Processes /\ loaded <= loaded' /\ lost' \ lost = {}
  BY <1>1, AliveNumbers DEF MemoryInv, NumbersOK
<1> QED
  BY <1>1, <1>2, <1>5, <1>6, SameProcess

-----------------------------------------------------------------------------
(* The boot *)

(* What the kernel has allocated before it loads a process. *)
BootPieces(addrs) == {OtherPiece(addr) : addr \in Range(addrs)}

LEMMA KernelPiecesHeld ==
  ASSUME NEW kernel,
         kernel = kzallocAll(EmptyTable, [i \in 1..MaxOthers |-> BlockSize]),
         NULL \notin Range(kernel.addrs)
  PROVE  Exact(kernel.table, BootPieces(kernel.addrs))
<1>1. PICK sizes : sizes = [i \in 1..MaxOthers |-> BlockSize]
  BY Zenon
<1>2. BlockSize \in Nat /\ TotalBlocks(BlockSize) \in Nat \ {0}
  BY FittingSizes, RequestBlocks
<1>3. /\ sizes \in Seq(Nat) /\ Len(sizes) = MaxOthers
      /\ \A i \in 1..MaxOthers : sizes[i] = BlockSize
  <2>1. PICK size : size = BlockSize
    BY Zenon
  <2>2. sizes = [i \in 1..MaxOthers |-> size] /\ size \in Nat
    BY <1>1, <1>2, <2>1, Zenon
  <2>3. MaxOthers \in Nat
    BY ProcessAssumption
  <2> QED
    BY <2>1, <2>2, <2>3
<1>4. Requests(sizes)
  BY <1>2, <1>3, Zenon DEF Requests
<1>5. PICK addrs, t : addrs = kernel.addrs /\ t = kernel.table
  BY Zenon
<1>6. PICK x : x = [i \in 1..MaxOthers |-> OtherPiece(addrs[i])]
  BY Zenon
<1>7. \A i \in 1..MaxOthers : x[i] = OtherPiece(addrs[i])
  BY <1>6
<1>8. \A i \in 1..MaxOthers : x[i].addr = addrs[i] /\ x[i].size = BlockSize
  BY <1>7, PieceFields DEF OtherPiece
<1>9. Exact(EmptyTable, {})
  BY DEF Exact, EmptyTable, Entry, HEAP_BLOCK_TABLE_ENTRY_FREE
<1>10. Allocated({}, sizes, x, kernel)
  <2>1. kernel = kzallocAll(EmptyTable, sizes)
    BY <1>1, Zenon
  <2>2. Answers(x, sizes, kernel)
    BY <1>3, <1>5, <1>8, Zenon DEF Answers
  <2> QED
    BY <1>4, <1>9, <2>1, <2>2, AllocAll, Zenon
<1>11. addrs \in Seq(Nat) /\ Len(addrs) = MaxOthers
  BY <1>3, <1>5, <1>10, Zenon DEF Allocated
<1>12. Range(addrs) = {addrs[i] : i \in 1..MaxOthers}
  <2>1. DOMAIN addrs = 1..MaxOthers
    BY <1>11
  <2> QED
    BY <2>1, Zenon DEF Range
<1>13. Got(x, MaxOthers) = 1..MaxOthers
  BY <1>5, <1>8, <1>12 DEF Got
<1>14. {x[i] : i \in Got(x, MaxOthers)} = BootPieces(addrs)
  BY <1>7, <1>12, <1>13 DEF BootPieces
<1>15. PICK pieces : pieces = BootPieces(addrs)
  BY Zenon
<1>16. Exact(t, {} \cup pieces)
  BY <1>3, <1>5, <1>10, <1>14, <1>15, Zenon DEF Allocated
<1>17. {} \cup pieces = pieces
  OBVIOUS
<1> QED
  BY <1>5, <1>15, <1>16, <1>17, Zenon

(* The processes that the kernel loads at the boot. *)
TwoLoaded(pr, one, two) ==
  pr = [p \in Processes |-> CASE p = 1 -> one
                              [] p = 2 -> two
                              [] OTHER -> NoProcess]

LEMMA FirstProcesses ==
  ASSUME NEW pr, NEW one, NEW two, TwoLoaded(pr, one, two)
  PROVE  /\ pr = [p \in Processes |-> pr[p]]
         /\ pr[1] = one
         /\ pr[2] = two
         /\ {1, 2} \subseteq Processes
         /\ 2 \in Processes
<1>1. {1, 2} \subseteq Processes
  BY ProcessAssumption DEF Processes
<1>2. pr = [p \in Processes |-> pr[p]]
  BY DEF TwoLoaded
<1>3. \A p \in Processes : pr[p] = CASE p = 1 -> one
                                     [] p = 2 -> two
                                     [] OTHER -> NoProcess
  BY DEF TwoLoaded
<1>4. pr[1] = one /\ pr[2] = two
  BY <1>1, <1>3
<1> QED
  BY <1>1, <1>2, <1>4

(* The pieces of the boot, and of the two processes. *)
ThesePieces(addrs, pr) ==
  AllPieces({1, 2}, pr, Range(addrs), {})
    = (BootPieces(addrs) \cup OwnPieces(1, pr[1])) \cup OwnPieces(2, pr[2])

LEMMA FirstPieces ==
  ASSUME NEW addrs, NEW pr
  PROVE  ThesePieces(addrs, pr)
<1> HIDE DEF OwnPieces
<1> QED
  BY DEF ThesePieces, AllPieces, BootPieces

LEMMA BootHolds ==
  ASSUME NEW f \in Programs, Boot(f), loaded = 2, alive = {1, 2},
         curr_process = 2, lost = {}, status = "running"
  PROVE  MemoryInv
<1>1. PICK kernel, one, two :
        /\ kernel = kzallocAll(EmptyTable, [i \in 1..MaxOthers |-> BlockSize])
        /\ one = Load(kernel.table, f, 1)
        /\ two = Load(one.table, f, 1)
        /\ NULL \notin Range(kernel.addrs)
        /\ one.process # NoProcess
        /\ two.process # NoProcess
        /\ entries = two.table
        /\ TwoLoaded(process, one.process, two.process)
        /\ others = Range(kernel.addrs)
  <2>1. PICK kernel :
          /\ kernel = kzallocAll(EmptyTable, [i \in 1..MaxOthers |-> BlockSize])
          /\ \E one \in {Load(kernel.table, f, 1)} :
             \E two \in {Load(one.table, f, 1)} :
               /\ NULL \notin Range(kernel.addrs)
               /\ NoProcess \notin {one.process, two.process}
               /\ entries = two.table
               /\ TwoLoaded(process, one.process, two.process)
               /\ others = Range(kernel.addrs)
    BY Zenon DEF Boot, TwoLoaded
  <2>2. PICK one, two :
          /\ one = Load(kernel.table, f, 1)
          /\ two = Load(one.table, f, 1)
          /\ NULL \notin Range(kernel.addrs)
          /\ NoProcess \notin {one.process, two.process}
          /\ entries = two.table
          /\ TwoLoaded(process, one.process, two.process)
          /\ others = Range(kernel.addrs)
    BY <2>1, Zenon
  <2>3. one.process # NoProcess /\ two.process # NoProcess
    BY <2>2
  <2> QED
    BY <2>1, <2>2, <2>3, Zenon
<1>2. PICK addrs, q1, q2, t0, t1, t2 :
        /\ addrs = kernel.addrs
        /\ q1 = one.process /\ q2 = two.process
        /\ t0 = kernel.table /\ t1 = one.table /\ t2 = two.table
  BY Zenon
<1>3. PICK rest, more : /\ rest = BootPieces(addrs)
                        /\ more = rest \cup OwnPieces(1, q1)
  BY Zenon
<1>4. 1 \in 0..MaxArgs
  BY ProcessAssumption
<1>5. ProcessSound(1, q1) /\ Exact(t1, more)
  <2>1. Exact(t0, rest)
    BY <1>1, <1>2, <1>3, KernelPiecesHeld, Zenon
  <2>2. one = Load(t0, f, 1)
    BY <1>1, <1>2, Zenon
  <2>3. /\ ProcessSound(1, one.process)
        /\ Holds(one.table, 1, one.process, rest)
    BY <1>1, <1>4, <2>1, <2>2, LoadSucceeds
  <2> QED
    BY <1>2, <1>3, <2>3, Zenon DEF Holds
<1>6. ProcessSound(2, q2) /\ Exact(t2, more \cup OwnPieces(2, q2))
  <2>1. two = Load(t1, f, 1)
    BY <1>1, <1>2, Zenon
  <2>2. /\ ProcessSound(2, two.process)
        /\ Holds(two.table, 2, two.process, more)
    BY <1>1, <1>4, <1>5, <2>1, LoadSucceeds
  <2> QED
    BY <1>2, <2>2, Zenon DEF Holds
<1>7. /\ process = [p \in Processes |-> process[p]]
      /\ process[1] = q1 /\ process[2] = q2
      /\ {1, 2} \subseteq Processes /\ 2 \in Processes
  <2>1. TwoLoaded(process, q1, q2)
    BY <1>1, <1>2, Zenon
  <2> QED
    BY <2>1, FirstProcesses, Zenon
<1>8. NumbersOK
  BY <1>7 DEF NumbersOK
<1>9. AllSound
  <2>1. \A p \in alive : p = 1 \/ p = 2
    OBVIOUS
  <2> QED
    BY <1>5, <1>6, <1>7, <2>1, Zenon DEF AllSound
<1>10. LostOfTheDead
  BY DEF LostOfTheDead
<1>11. HeapExact
  <2>1. AllPieces(alive, process, others, lost) = more \cup OwnPieces(2, q2)
    <3>1. ThesePieces(addrs, process)
      BY FirstPieces
    <3>2. others = Range(addrs)
      BY <1>1, <1>2, Zenon
    <3> QED
      BY <1>3, <1>7, <3>1, <3>2, Zenon DEF ThesePieces
  <2> QED
    BY <1>1, <1>2, <1>6, <2>1, Zenon DEF HeapExact
<1> QED
  BY <1>8, <1>9, <1>10, <1>11 DEF MemoryInv

(* Nothing happens but that the kernel uses what is not there. *)
LEMMA WildKeeps ==
  ASSUME MemoryInv,
         \/ \E f \in Programs : LoadGoesWild(f)
         \/ LoadWithoutFile
  PROVE  MemoryInv'
<1>1. /\ status' = "wild"
      /\ UNCHANGED <<entries, process, loaded, alive, curr_process, others, lost>>
  BY Zenon DEF LoadGoesWild, LoadWithoutFile
<1>2. NumbersOK'
  BY <1>1 DEF MemoryInv, NumbersOK
<1> QED
  BY <1>1, <1>2, Zenon DEF MemoryInv, AllSound, LostOfTheDead, HeapExact

LEMMA NothingKeeps ==
  ASSUME MemoryInv, UNCHANGED vars
  PROVE  MemoryInv'
BY Zenon DEF MemoryInv, NumbersOK, AllSound, LostOfTheDead, HeapExact, vars

(***************************************************************************)
(* The invariant holds after the boot of kernel_main and is kept by every  *)
(* system call of src/isr80h/process.c and src/isr80h/heap.c and by what   *)
(* the kernel allocates in between: what each of them marks taken or free  *)
(* is exactly what somebody gets or gives back.                            *)
(***************************************************************************)
THEOREM MemoryInvariant == Spec => []MemoryInv
<1>1. Init => MemoryInv
  BY BootHolds DEF Init
<1>2. ASSUME MemoryInv, [Next]_vars
      PROVE  MemoryInv'
  <2>1. ASSUME NEW f \in Programs, NEW argc \in 0..MaxArgs,
               isr80h_process_load_start(f, argc)
        PROVE  MemoryInv'
    BY <1>2, <2>1, LoadKeeps
  <2>2. ASSUME NEW f \in Programs, LoadWithoutStack(f)
        PROVE  MemoryInv'
    BY <1>2, <2>2, WithoutStackKeeps
  <2>3. ASSUME NEW f \in Programs, LoadGoesWild(f)
        PROVE  MemoryInv'
    BY <1>2, <2>3, WildKeeps, Zenon
  <2>4. CASE LoadWithoutProcess
    BY <1>2, <2>4, NothingKeeps, Zenon DEF LoadWithoutProcess
  <2>5. CASE LoadWithoutFile
    BY <1>2, <2>5, WildKeeps, Zenon
  <2>6. ASSUME NEW p \in alive, NEW size \in Sizes,
               isr80h_command4_malloc(p, size)
        PROVE  MemoryInv'
    BY <1>2, <2>6, MallocKeeps
  <2>7. ASSUME NEW p \in alive, NEW ptr \in Pointers,
               isr80h_command5_free(p, ptr)
        PROVE  MemoryInv'
    BY <1>2, <2>7, FreeKeeps
  <2>8. ASSUME NEW p \in alive, isr80h_command9_exit(p)
        PROVE  MemoryInv'
    BY <1>2, <2>8, ExitKeeps
  <2>9. CASE KernelAlloc
    BY <1>2, <2>9, KernelAllocKeeps
  <2>10. ASSUME NEW addr \in others, KernelFree(addr)
         PROVE  MemoryInv'
    BY <1>2, <2>10, KernelFreeKeeps
  <2>11. CASE UNCHANGED vars
    BY <1>2, <2>11, NothingKeeps
  <2> QED
    BY <1>2, <2>1, <2>2, <2>3, <2>4, <2>5, <2>6, <2>7, <2>8, <2>9, <2>10,
       <2>11, Zenon DEF Next
<1> QED
  BY <1>1, <1>2, PTL DEF Spec

-----------------------------------------------------------------------------
(* What the invariant says of the properties of module ProcessMemory *)

LEMMA InvTypeOK == MemoryInv => TypeOK
<1> SUFFICES ASSUME MemoryInv
             PROVE  TypeOK
  OBVIOUS
<1>1. entries \in [Blocks -> Entry]
  BY Zenon DEF MemoryInv, HeapExact, Exact
<1>2. \A p \in alive :
        process[p].allocations \in [Slots -> [ptr : Nat, size : Nat]]
  <2> SUFFICES ASSUME NEW p \in alive
               PROVE  process[p].allocations \in [Slots -> [ptr : Nat, size : Nat]]
    OBVIOUS
  <2>1. PICK q : q = process[p]
    BY Zenon
  <2>2. q \in ProcessType
    BY <2>1, Zenon DEF MemoryInv, AllSound, ProcessSound
  <2>3. q.allocations \in [Slots -> [ptr : Nat, size : Nat]]
    BY <2>2 DEF ProcessType, Allocation
  <2> QED
    BY <2>1, <2>3, Zenon
<1> QED
  BY <1>1, <1>2, Zenon DEF MemoryInv, NumbersOK, TypeOK

LEMMA InvAccounted == MemoryInv => MemoryAccounted
<1> SUFFICES ASSUME MemoryInv
             PROVE  MemoryAccounted
  OBVIOUS
<1>1. PICK t, all : t = entries /\ all = Pieces
  BY Zenon
<1>2. Exact(t, all)
  BY <1>1, PiecesAre, Zenon DEF MemoryInv, HeapExact
<1>3. \A x, y \in all : x # y => Extent(x) \cap Extent(y) = {}
  BY <1>2, Zenon DEF Exact, Apart
<1>4. \A b \in Blocks : t[b].taken <=> \E x \in all : b \in Extent(x)
  <2> SUFFICES ASSUME NEW b \in Blocks
               PROVE  t[b].taken <=> \E x \in all : b \in Extent(x)
    BY Zenon
  <2>1. ASSUME t[b].taken
        PROVE  \E x \in all : b \in Extent(x)
    <3>1. t[b] # HEAP_BLOCK_TABLE_ENTRY_FREE
      BY <2>1 DEF HEAP_BLOCK_TABLE_ENTRY_FREE
    <3> QED
      BY <1>2, <3>1, Zenon DEF Exact
  <2>2. ASSUME NEW x \in all, b \in Extent(x)
        PROVE  t[b].taken
    BY <1>2, <2>2, Zenon DEF Exact, Marked
  <2> QED
    BY <2>1, <2>2, Zenon
<1>5. {b \in Blocks : t[b].taken} = Cover(all) \cap Blocks
  <2> HIDE DEF Blocks
  <2> QED
    BY <1>4 DEF Cover
<1> QED
  BY <1>1, <1>3, <1>5, Zenon DEF MemoryAccounted

(* The extents of a subset of pieces that are all apart.                   *)
LEMMA ApartCovers ==
  ASSUME NEW all, \A x, y \in all : x # y => Apart(x, y), NEW own \in SUBSET all
  PROVE  Cover(own) \cap Cover(all \ own) = {}
<1> SUFFICES ASSUME NEW b \in Cover(own), b \in Cover(all \ own)
             PROVE  FALSE
  OBVIOUS
<1>1. PICK x \in own : b \in Extent(x)
  BY DEF Cover
<1>2. PICK y \in all \ own : b \in Extent(y)
  BY DEF Cover
<1> QED
  BY <1>1, <1>2 DEF Apart

LEMMA InvWrites == SegmentsFit /\ MemoryInv => WritesItsOwn
<1> SUFFICES ASSUME SegmentsFit, MemoryInv, NEW p \in alive
             PROVE  LET own == UserPieces(p, process[p])
                    IN  /\ process[p].pages["heap"] = Cover(SlotPieces(p, process[p]))
                        /\ Writable(process[p]) \subseteq Cover(own)
                        /\ Writable(process[p]) \cap Cover(Pieces \ own) = {}
  BY Zenon DEF WritesItsOwn
<1>1. PICK q, all, own : q = process[p] /\ all = Pieces /\ own = UserPieces(p, q)
  BY Zenon
<1>2. PagesSound(p, q)
  BY <1>1, Zenon DEF MemoryInv, AllSound, ProcessSound
<1>3. own \subseteq all
  <2>1. UserPieces(p, process[p]) \subseteq Pieces
    BY ZenonT(60) DEF Pieces
  <2> QED
    BY <1>1, <2>1, Zenon
<1>4. \A x, y \in all : x # y => Apart(x, y)
  BY <1>1, PiecesAre, Zenon DEF MemoryInv, HeapExact, Exact
<1>5. Writable(q) \subseteq Cover(own)
  <2>1. PICK mem, stack : /\ mem = Piece("mem", p, q.mem, q.image.size)
                          /\ stack = Piece("stack", p, q.stack,
                                           BENOS_USER_PROGRAM_STACK_SIZE)
    BY Zenon
  <2>2. own = {mem, stack} \cup SlotPieces(p, q)
    BY <1>1, <2>1, Zenon DEF UserPieces
  <2>3. /\ q.pages["heap"] \subseteq Cover(own)
    BY <1>2, <2>2 DEF PagesSound, Cover
  <2>4. Extent(mem) \subseteq Cover(own) /\ Extent(stack) \subseteq Cover(own)
    BY <2>2 DEF Cover
  <2>5. /\ Extent(mem) = BlocksOf(q.mem, q.image.size)
        /\ Extent(stack) = BlocksOf(q.stack, BENOS_USER_PROGRAM_STACK_SIZE)
    <3>1. /\ mem.addr = q.mem /\ mem.size = q.image.size
          /\ stack.addr = q.stack /\ stack.size = BENOS_USER_PROGRAM_STACK_SIZE
      BY <2>1, PieceFields
    <3> QED
      BY <3>1, Zenon DEF Extent
  <2>6. /\ q.pages["program"] \subseteq Cover(own)
        /\ q.pages["stack"] \subseteq Cover(own)
    BY <1>2, <2>4, <2>5 DEF PagesSound
  <2>7. \A r \in Regions : q.pages[r] \subseteq Cover(own)
    BY <2>3, <2>6 DEF Regions
  <2> QED
    BY <2>7 DEF Writable
<1>6. Cover(own) \cap Cover(all \ own) = {}
  BY <1>3, <1>4, ApartCovers
<1>7. Writable(q) \cap Cover(all \ own) = {}
  BY <1>5, <1>6
<1>8. q.pages["heap"] = Cover(SlotPieces(p, q))
  BY <1>2, Zenon DEF PagesSound
<1> QED
  BY <1>1, <1>5, <1>7, <1>8, Zenon

(* What ArgumentsComplete says of a process. *)
Complete(q) ==
  q.argc > 0 =>
    /\ Len(q.args) = q.argc
    /\ \A i, j \in 1..q.argc : q.args[i] = q.args[j] => i = j
    /\ \A i \in 1..q.argc : q.args[i] # q.argv
    /\ \A addr \in {q.argv} \cup {q.args[i] : i \in 1..q.argc} :
         /\ \E s \in Slots : q.allocations[s].ptr = addr
         /\ heap_address_to_block(addr) \in q.pages["heap"]

(* A process can write the first block of what it holds. *)
LEMMA HeldIsWritable ==
  ASSUME NEW table, NEW p, NEW q, NEW rest, Holds(table, p, q, rest),
         PagesSound(p, q), NEW addr, HasSlot(q, addr)
  PROVE  /\ \E s \in Slots : q.allocations[s].ptr = addr
         /\ heap_address_to_block(addr) \in q.pages["heap"]
<1>1. PICK s \in Slots : q.allocations[s].ptr = addr
  BY Zenon DEF HasSlot
<1>2. q.allocations[s].ptr # NULL
  BY <1>1, Zenon DEF HasSlot
<1>3. PICK x : x = SlotPiece(p, q, s)
  BY Zenon
<1>4. Placed(x)
  BY <1>2, <1>3, HeldSlots, Zenon
<1>5. x \in SlotPieces(p, q)
  BY <1>2, <1>3, OwnParts
<1>6. FirstBlock(x) \in Extent(x)
  BY <1>4, PlacedExtent
<1>7. x.addr = addr
  <2>1. x.addr = q.allocations[s].ptr
    BY <1>3, SlotPieceFields
  <2> QED
    BY <1>1, <2>1, Zenon
<1>8. heap_address_to_block(addr) \in Cover(SlotPieces(p, q))
  BY <1>5, <1>6, <1>7 DEF Cover, FirstBlock
<1> QED
  BY <1>1, <1>8, Zenon DEF PagesSound

LEMMA GoodIsComplete ==
  ASSUME NEW table, NEW p, NEW q, NEW rest, Holds(table, p, q, rest),
         ProcessSound(p, q), ArgsGood(q)
  PROVE  Complete(q)
<1> SUFFICES ASSUME q.argc > 0
             PROVE  /\ Len(q.args) = q.argc
                    /\ \A i, j \in 1..q.argc : q.args[i] = q.args[j] => i = j
                    /\ \A i \in 1..q.argc : q.args[i] # q.argv
                    /\ \A addr \in {q.argv} \cup {q.args[i] : i \in 1..q.argc} :
                         /\ \E s \in Slots : q.allocations[s].ptr = addr
                         /\ heap_address_to_block(addr) \in q.pages["heap"]
  BY Zenon DEF Complete
<1>1. Len(q.args) = q.argc /\ ArgsHeld(q, q.argv, q.args)
  BY Zenon DEF ArgsGood
<1>2. \A addr \in {q.argv} \cup {q.args[i] : i \in 1..q.argc} : HasSlot(q, addr)
  BY <1>1 DEF ArgsHeld
<1>3. \A addr \in {q.argv} \cup {q.args[i] : i \in 1..q.argc} :
        /\ \E s \in Slots : q.allocations[s].ptr = addr
        /\ heap_address_to_block(addr) \in q.pages["heap"]
  <2> TAKE addr \in {q.argv} \cup {q.args[i] : i \in 1..q.argc}
  <2>1. HasSlot(q, addr)
    BY <1>2
  <2>2. PagesSound(p, q)
    BY Zenon DEF ProcessSound
  <2> QED
    BY <2>1, <2>2, HeldIsWritable
<1> QED
  BY <1>1, <1>3, Zenon DEF ArgsHeld

(* Only a load makes a process live. *)
LEMMA OnlyLoadsAdd ==
  ASSUME MemoryInv, [Next]_vars, NEW p \in alive' \ alive
  PROVE  \E f \in Programs : \E argc \in 0..MaxArgs :
           isr80h_process_load_start(f, argc)
<1> SUFFICES ASSUME ~\E f \in Programs : \E argc \in 0..MaxArgs :
                       isr80h_process_load_start(f, argc)
             PROVE  alive' \subseteq alive
  BY Zenon
<1>1. ASSUME NEW f \in Programs, LoadWithoutStack(f)
      PROVE  alive' \subseteq alive
  BY <1>1, Zenon DEF LoadWithoutStack
<1>2. ASSUME NEW f \in Programs, LoadGoesWild(f)
      PROVE  alive' \subseteq alive
  BY <1>2, Zenon DEF LoadGoesWild
<1>3. CASE LoadWithoutProcess
  BY <1>3, Zenon DEF LoadWithoutProcess, vars
<1>4. CASE LoadWithoutFile
  BY <1>4, Zenon DEF LoadWithoutFile
<1>5. ASSUME NEW q \in alive, NEW size \in Sizes,
             isr80h_command4_malloc(q, size)
      PROVE  alive' \subseteq alive
  BY <1>5, Zenon DEF isr80h_command4_malloc
<1>6. ASSUME NEW q \in alive, NEW ptr \in Pointers, isr80h_command5_free(q, ptr)
      PROVE  alive' \subseteq alive
  BY <1>6, Zenon DEF isr80h_command5_free
<1>7. ASSUME NEW q \in alive, isr80h_command9_exit(q)
      PROVE  alive' \subseteq alive
  BY <1>7, Zenon DEF isr80h_command9_exit
<1>8. CASE KernelAlloc
  BY <1>8, Zenon DEF KernelAlloc
<1>9. ASSUME NEW addr \in others, KernelFree(addr)
      PROVE  alive' \subseteq alive
  BY <1>9, Zenon DEF KernelFree
<1>10. CASE UNCHANGED vars
  BY <1>10, Zenon DEF vars
<1> QED
  BY <1>1, <1>2, <1>3, <1>4, <1>5, <1>6, <1>7, <1>8, <1>9, <1>10, Zenon DEF Next

LEMMA NewAreComplete ==
  ASSUME MemoryInv, [Next]_vars, NEW p \in alive' \ alive
  PROVE  Complete(process'[p])
<1>1. PICK f \in Programs, argc \in 0..MaxArgs :
        isr80h_process_load_start(f, argc)
  BY OnlyLoadsAdd
<1>2. /\ alive' = alive \cup {loaded + 1}
      /\ ProcessSound(loaded + 1, process'[loaded + 1])
      /\ Holds(entries', loaded + 1, process'[loaded + 1],
               AllPieces(alive, process, others, lost))
      /\ ArgsGood(process'[loaded + 1])
  BY <1>1, LoadAdds, Zenon
<1>3. p = loaded + 1
  BY <1>2
<1>4. PICK q, table, rest : /\ q = process'[p] /\ table = entries'
                            /\ rest = AllPieces(alive, process, others, lost)
  BY Zenon
<1>5. ProcessSound(p, q) /\ Holds(table, p, q, rest) /\ ArgsGood(q)
  BY <1>2, <1>3, <1>4, Zenon
<1>6. Complete(q)
  BY <1>5, GoodIsComplete
<1> QED
  BY <1>4, <1>6, Zenon

-----------------------------------------------------------------------------
(* The theorems *)

(***************************************************************************)
(* The variables have their types: every entry of the table is one, and    *)
(* the slots of every process that lives hold addresses and sizes          *)
(* (process_malloc, process_free, process_load_for_slot).                  *)
(***************************************************************************)
THEOREM MemoryTypes == Spec => []TypeOK
BY MemoryInvariant, InvTypeOK, PTL

(***************************************************************************)
(* A block of the heap is marked taken if and only if it belongs to        *)
(* something that lives or to something that process_terminate or          *)
(* process_load_for_slot has lost, and no block belongs to two things.     *)
(***************************************************************************)
THEOREM EveryBlockAccounted == Spec => []MemoryAccounted
BY MemoryInvariant, InvAccounted, PTL

(***************************************************************************)
(* With ELF files whose writable segment lies in the file, a process can   *)
(* write its program, its stack and exactly what it has malloced and not   *)
(* freed, and nothing of the kernel or of another process                  *)
(* (process_map_memory, process_malloc, process_free).                     *)
(***************************************************************************)
THEOREM ProcessesWriteTheirOwn ==
  ASSUME SegmentsFit
  PROVE  Spec => []WritesItsOwn
<1>1. MemoryInv => WritesItsOwn
  BY InvWrites
<1> QED
  BY <1>1, MemoryInvariant, PTL

(***************************************************************************)
(* A process starts with all of its arguments, each of them an allocation  *)
(* of its own that it can write, or with none (process_inject_args).       *)
(***************************************************************************)
THEOREM ArgumentsAreComplete == Spec => ArgumentsComplete
<1>1. MemoryInv /\ [Next]_vars
        => [\A p \in alive' \ alive :
              LET q == process'[p]
              IN  q.argc > 0 =>
                    /\ Len(q.args) = q.argc
                    /\ \A i, j \in 1..q.argc : q.args[i] = q.args[j] => i = j
                    /\ \A i \in 1..q.argc : q.args[i] # q.argv
                    /\ \A addr \in {q.argv} \cup {q.args[i] : i \in 1..q.argc} :
                         /\ \E s \in Slots : q.allocations[s].ptr = addr
                         /\ heap_address_to_block(addr) \in q.pages["heap"]]_vars
  BY NewAreComplete, Zenon DEF Complete
<1> QED
  BY <1>1, MemoryInvariant, PTL DEF Spec, ArgumentsComplete

=============================================================================
