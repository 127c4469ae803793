--------------------------- MODULE HeapScanProofs ---------------------------
(***************************************************************************)
(* Theorems about the loops of heap.c (module HeapScan): on every entry    *)
(* table, of whatever size, and for every number of blocks they compute    *)
(* what HeapTable says without loops.                                      *)
(*                                                                         *)
(* The proof is one loop invariant, with a part for each of the loops.     *)
(***************************************************************************)
EXTENDS HeapScan, TLAPS

-----------------------------------------------------------------------------
(* The result of heap_get_start_block, recognised when it is found. *)

(* The first run that is long enough is the one that is returned.          *)
LEMMA FirstFit ==
  ASSUME NEW t, NEW m \in Nat \ {0}, NEW s \in Blocks, FreeRun(t, s, m),
         \A r \in 0..(s - 1) : ~FreeRun(t, r, m)
  PROVE  heap_get_start_block(t, m) = s
<1> DEFINE fits == {r \in Blocks : m > 0 /\ FreeRun(t, r, m)}
<1>1. s \in fits /\ \A r \in fits : s <= r
  BY TableAssumption DEF Blocks
<1>2. \A q \in fits : (\A r \in fits : q <= r) => q = s
  BY <1>1, TableAssumption DEF Blocks
<1>3. heap_get_start_block(t, m) = CHOOSE q \in fits : \A r \in fits : q <= r
  BY <1>1, Zenon DEF heap_get_start_block
<1> HIDE DEF fits
<1> QED
  BY <1>1, <1>2, <1>3

(* Without one, the free run at the end of the table is returned.          *)
LEMMA TrailingRun ==
  ASSUME NEW t, NEW m \in Nat, NEW s \in Blocks, IsTrailingRun(t, s),
         \A r \in Blocks : m > 0 => ~FreeRun(t, r, m)
  PROVE  heap_get_start_block(t, m) = s
<1>1. {r \in Blocks : m > 0 /\ FreeRun(t, r, m)} = {}
  OBVIOUS
<1>2. ~t[Total - 1].taken
  <2>1. Total - 1 \in s..(Total - 1)
    BY TableAssumption DEF Blocks
  <2> QED
    BY <2>1 DEF IsTrailingRun
<1>3. heap_get_start_block(t, m) = CHOOSE q \in Blocks : IsTrailingRun(t, q)
  BY <1>1, <1>2, Zenon DEF heap_get_start_block
<1>4. ASSUME NEW q \in Blocks, IsTrailingRun(t, q)
      PROVE  q = s
  <2>1. CASE q < s
    <3>1. s - 1 \in q..(Total - 1) /\ s # 0
      BY <2>1, TableAssumption DEF Blocks
    <3> QED
      BY <1>4, <3>1 DEF IsTrailingRun
  <2>2. CASE s < q
    <3>1. q - 1 \in s..(Total - 1) /\ q # 0
      BY <2>2, TableAssumption DEF Blocks
    <3> QED
      BY <1>4, <3>1 DEF IsTrailingRun
  <2> QED
    BY <2>1, <2>2, TableAssumption DEF Blocks
<1> QED
  BY <1>3, <1>4

(* A table that ends with a taken block and has no run is too full.        *)
LEMMA NoRun ==
  ASSUME NEW t, NEW m \in Nat, t[Total - 1].taken,
         \A r \in Blocks : m > 0 => ~FreeRun(t, r, m)
  PROVE  heap_get_start_block(t, m) = -ENOMEM
<1>1. {r \in Blocks : m > 0 /\ FreeRun(t, r, m)} = {}
  OBVIOUS
<1> QED
  BY <1>1, Zenon DEF heap_get_start_block

-----------------------------------------------------------------------------
(* The invariant of the loops. *)

(* The free blocks from bs on that the scan is counting. *)
Counting == /\ bs \in Blocks
            /\ bs < i
            /\ bc = i - bs
            /\ \A k \in bs..(i - 1) : ~before[k].taken
            /\ bs = 0 \/ before[bs - 1].taken
            /\ n > 0 => bc < n

NotCounting == /\ bs = -1
               /\ bc = 0
               /\ i = 0 \/ before[i - 1].taken

ScanInv == /\ i \in 0..Total
           /\ table = before
           /\ Counting \/ NotCounting
           /\ \A r \in 0..(i - 1) :
                n > 0 /\ (bs = -1 \/ r < bs) => ~FreeRun(before, r, n)

(* What the scan has found. *)
Found == /\ bs \in Blocks
         /\ bs = heap_get_start_block(before, n)
         /\ \A k \in Blocks : k \in bs..(bs + n - 1) => ~before[k].taken

Marked == heap_mark_blocks_taken(before, bs, n)

MarkInv == /\ Found
           /\ i \in bs..(bs + n)
           /\ table = [b \in Blocks |-> IF b < i THEN Marked[b] ELSE before[b]]
           /\ i < bs + n => entry = [taken |-> TRUE, first |-> i = bs,
                                     next  |-> i # bs + n - 1]

FreeInv == /\ Found
           /\ i \in bs..Total
           /\ \A k \in bs..(i - 1) : Marked[k].next
           /\ table = [b \in Blocks |-> IF bs <= b /\ b < i
                                        THEN HEAP_BLOCK_TABLE_ENTRY_FREE
                                        ELSE Marked[b]]

LoopInv == /\ before \in [Blocks -> WrittenEntries]
           /\ n \in Nat
           /\ pc \in {"scan", "nomem", "mark", "free", "freed"}
           /\ pc = "scan" => ScanInv
           /\ pc = "nomem" => heap_get_start_block(before, n) = -ENOMEM
           /\ pc = "mark" => MarkInv
           /\ pc = "free" => FreeInv
           /\ pc = "freed" => Found /\ table = heap_mark_blocks_free(Marked, bs)

-----------------------------------------------------------------------------
(* The loop of heap_get_start_block. *)

(* The first byte written is the byte of the first block of the run.       *)
LEMMA FirstEntryIs ==
  ASSUME NEW s \in Nat, n \in Nat, s < s + n
  PROVE  FirstEntry = [taken |-> TRUE, first |-> s = s, next |-> s # s + n - 1]
<1>1. (n > 1) = (s # s + n - 1)
  OBVIOUS
<1>2. TRUE = (s = s)
  OBVIOUS
<1> QED
  BY <1>1, <1>2, Zenon DEF FirstEntry

(* Stepping over a taken block keeps the loop invariant.                   *)
LEMMA ScanTakenPreserves ==
  ASSUME LoopInv, ScanTaken
  PROVE  LoopInv'
<1>1. /\ pc = "scan" /\ pc' = "scan" /\ i < Total /\ table[i].taken
      /\ i' = i + 1 /\ bc' = 0 /\ bs' = -1
      /\ before' = before /\ n' = n /\ table' = table
  BY DEF ScanTaken
<1>2. /\ i \in 0..Total /\ table = before /\ n \in Nat
      /\ Counting \/ NotCounting
      /\ \A r \in 0..(i - 1) :
           n > 0 /\ (bs = -1 \/ r < bs) => ~FreeRun(before, r, n)
  BY <1>1 DEF LoopInv, ScanInv
<1>3. ASSUME NEW r \in 0..i, n > 0
      PROVE  ~FreeRun(before, r, n)
  <2>1. CASE r < i /\ (bs = -1 \/ r < bs)
    BY <1>2, <1>3, <2>1, TableAssumption
  <2>2. CASE r = i \/ (bs # -1 /\ bs <= r)
    <3>1. i \in r..(r + n - 1)
      BY <1>2, <1>3, <2>2, TableAssumption DEF Counting, NotCounting, Blocks
    <3> QED
      BY <1>1, <1>2, <3>1 DEF FreeRun
  <2> QED
    BY <1>2, <1>3, <2>1, <2>2, TableAssumption DEF Counting, NotCounting, Blocks
<1>4. /\ i + 1 \in 0..Total /\ (i + 1) - 1 = i
  BY <1>1, <1>2, TableAssumption
<1>5. NotCounting'
  BY <1>1, <1>2, <1>4 DEF NotCounting
<1>6. ScanInv'
  BY <1>1, <1>2, <1>3, <1>4, <1>5 DEF ScanInv
<1> QED
  BY <1>1, <1>6 DEF LoopInv

(* So does counting a free block, whether or not it completes the run.     *)
LEMMA ScanFreePreserves ==
  ASSUME LoopInv, ScanFree
  PROVE  LoopInv'
<1>1. /\ pc = "scan" /\ i < Total /\ ~table[i].taken
      /\ bs' = IF bs = -1 THEN i ELSE bs
      /\ bc' = bc + 1
      /\ before' = before /\ n' = n /\ table' = table
  BY DEF ScanFree
<1>2. /\ i \in 0..Total /\ table = before /\ n \in Nat
      /\ Counting \/ NotCounting
      /\ \A r \in 0..(i - 1) :
           n > 0 /\ (bs = -1 \/ r < bs) => ~FreeRun(before, r, n)
  BY <1>1 DEF LoopInv, ScanInv
(* bs' is where the run that ends at i begins. *)
<1>3. /\ bs' \in Blocks /\ bs' <= i
      /\ bc' = i + 1 - bs'
      /\ \A k \in bs'..i : ~before[k].taken
      /\ bs' = 0 \/ before[bs' - 1].taken
      /\ \A r \in 0..(bs' - 1) : n > 0 => ~FreeRun(before, r, n)
      /\ n > 0 => bc' <= n
  <2>1. CASE NotCounting
    <3>1. bs = -1 /\ bc = 0 /\ (i = 0 \/ before[i - 1].taken)
      BY <2>1 DEF NotCounting
    <3>2. bs' = i /\ bc' = 1 /\ i \in Blocks
      BY <1>1, <1>2, <3>1, TableAssumption DEF Blocks
    <3> QED
      BY <1>1, <1>2, <3>1, <3>2
  <2>2. CASE Counting
    <3>1. /\ bs \in Blocks /\ bs < i /\ bc = i - bs
          /\ \A k \in bs..(i - 1) : ~before[k].taken
          /\ bs = 0 \/ before[bs - 1].taken
          /\ n > 0 => bc < n
      BY <2>2 DEF Counting
    <3>2. bs' = bs /\ bs # -1 /\ bs \in Nat /\ i \in Nat
      BY <1>1, <1>2, <3>1, TableAssumption DEF Blocks
    <3>3. \A k \in bs..i : ~before[k].taken
      BY <1>1, <1>2, <3>1, <3>2
    <3>4. bc + 1 = i + 1 - bs /\ (n > 0 => bc + 1 <= n)
      BY <1>2, <3>1, <3>2
    <3>5. \A r \in 0..(bs - 1) : n > 0 => ~FreeRun(before, r, n)
      BY <1>2, <3>1, <3>2
    <3> QED
      BY <1>1, <3>1, <3>2, <3>3, <3>4, <3>5
  <2> QED
    BY <1>2, <2>1, <2>2
<1>4. PICK s \in Blocks : s = bs'
  BY <1>3
<1>5. /\ s \in Nat /\ s \in Int /\ s < Total /\ s # -1 /\ i \in Int /\ s <= i
      /\ s = 0 \/ before[s - 1].taken
      /\ \A k \in s..i : ~before[k].taken
      /\ \A r \in 0..(s - 1) : n > 0 => ~FreeRun(before, r, n)
  <2>1. s <= i
    BY <1>3, <1>4
  <2>2. s \in Nat /\ s \in Int /\ s < Total /\ s # -1 /\ i \in Int
    BY <1>2, TableAssumption DEF Blocks
  <2>3. /\ s = 0 \/ before[s - 1].taken
        /\ \A k \in s..i : ~before[k].taken
        /\ \A r \in 0..(s - 1) : n > 0 => ~FreeRun(before, r, n)
    BY <1>3, <1>4, Zenon
  <2> QED
    BY <2>1, <2>2, <2>3
<1>6. bc' = i + 1 - s /\ (n > 0 => bc' <= n)
  BY <1>3, <1>4
<1>7. CASE bc' = n
  <2>1. pc' = "mark" /\ i' = s /\ entry' = FirstEntry
    BY <1>4, <1>7 DEF ScanFree
  <2>2. n \in Nat \ {0} /\ s + n - 1 = i /\ s + n <= Total
    <3>1. n = i + 1 - s
      BY <1>6, <1>7
    <3> QED
      BY <1>1, <1>2, <1>5, <3>1, TableAssumption
  <2>3. \A k \in s..(s + n - 1) : ~before[k].taken
    BY <1>5, <2>2
  <2>4. FreeRun(before, s, n)
    BY <2>2, <2>3 DEF FreeRun
  <2>5. s = heap_get_start_block(before, n)
    BY <1>5, <2>2, <2>4, FirstFit
  <2>6. Found'
    BY <1>1, <1>4, <2>3, <2>5 DEF Found
  <2>7. MarkInv'
    <3>1. s \in s..(s + n)
      BY <1>2, <1>5
    <3>2. entry' = [taken |-> TRUE, first |-> s = s, next |-> s # s + n - 1]
      <4>1. s < s + n
        BY <1>5, <2>2
      <4> QED
        BY <1>2, <1>5, <2>1, <4>1, FirstEntryIs
    <3>3. before = [b \in Blocks |-> IF b < s THEN Marked'[b] ELSE before[b]]
      <4>1. \A b \in Blocks : b < s => Marked'[b] = before[b]
        BY <1>1, <1>4, <1>5 DEF Marked, heap_mark_blocks_taken, Blocks
      <4> QED
        BY <1>1, <4>1 DEF LoopInv
    <3>4. table' = before
      BY <1>1, <1>2
    <3> QED
      BY <1>1, <1>4, <2>1, <2>6, <3>1, <3>2, <3>3, <3>4, Zenon DEF MarkInv
  <2> QED
    BY <1>1, <2>1, <2>7 DEF LoopInv
<1>8. CASE bc' # n
  <2>1. pc' = "scan" /\ i' = i + 1
    BY <1>1, <1>8 DEF ScanFree
  <2>2. /\ i + 1 \in 0..Total /\ (i + 1) - 1 = i /\ s < i + 1
        /\ n > 0 => bc' < n
    <3>1. bc' \in Int
      BY <1>5, <1>6
    <3> QED
      BY <1>1, <1>2, <1>5, <1>6, <1>8, <3>1, TableAssumption
  <2>3. Counting'
    <3>1. bc' = (i + 1) - s /\ \A k \in s..((i + 1) - 1) : ~before[k].taken
      BY <1>5, <1>6, <2>2
    <3>2. bs' \in Blocks /\ bs' < i' /\ bc' = i' - bs'
      BY <1>4, <2>1, <2>2, <3>1
    <3>3. \A k \in bs'..(i' - 1) : ~before'[k].taken
      BY <1>1, <1>4, <2>1, <3>1, Zenon
    <3>4. bs' = 0 \/ before'[bs' - 1].taken
      BY <1>1, <1>4, <1>5, Zenon
    <3>5. n' > 0 => bc' < n'
      BY <1>1, <2>2, Zenon
    <3> QED
      BY <3>2, <3>3, <3>4, <3>5 DEF Counting
  <2>4. ASSUME NEW r \in 0..i, n > 0, s = -1 \/ r < s
        PROVE  ~FreeRun(before, r, n)
    <3>1. r \in 0..(s - 1)
      BY <1>5, <2>4
    <3> QED
      BY <1>5, <2>4, <3>1
  <2>5. ScanInv'
    BY <1>1, <1>2, <1>4, <2>1, <2>2, <2>3, <2>4 DEF ScanInv
  <2> QED
    BY <1>1, <2>1, <2>5 DEF LoopInv
<1> QED
  BY <1>7, <1>8

(* So does the end of the scan.                                            *)
LEMMA ScanEndPreserves ==
  ASSUME LoopInv, ScanEnd
  PROVE  LoopInv'
<1>1. /\ pc = "scan" /\ i = Total /\ UNCHANGED <<before, n, table, bc, bs>>
  BY DEF ScanEnd
<1>2. /\ i \in 0..Total /\ table = before /\ n \in Nat
      /\ Counting \/ NotCounting
      /\ \A r \in 0..(i - 1) :
           n > 0 /\ (bs = -1 \/ r < bs) => ~FreeRun(before, r, n)
  BY <1>1 DEF LoopInv, ScanInv
<1>3. CASE NotCounting
  <2>1. bs = -1 /\ pc' = "nomem" /\ before[Total - 1].taken
    BY <1>1, <1>3, TableAssumption DEF NotCounting, ScanEnd
  <2>2. \A r \in Blocks : n > 0 => ~FreeRun(before, r, n)
    BY <1>1, <1>2, <2>1 DEF Blocks
  <2>3. heap_get_start_block(before, n) = -ENOMEM
    BY <1>2, <2>1, <2>2, NoRun
  <2> QED
    BY <1>1, <2>1, <2>3 DEF LoopInv
<1>4. CASE Counting
  <2>1. /\ bs \in Blocks /\ bs \in Nat /\ bs # -1
        /\ \A k \in bs..(Total - 1) : ~before[k].taken
        /\ bs = 0 \/ before[bs - 1].taken
        /\ n > 0 => Total - bs < n
    BY <1>1, <1>4 DEF Counting, Blocks
  <2>2. pc' = "mark" /\ i' = bs /\ entry' = FirstEntry
    BY <2>1 DEF ScanEnd
  <2>3. IsTrailingRun(before, bs)
    BY <2>1 DEF IsTrailingRun
  <2>4. ASSUME NEW r \in Blocks, n > 0
        PROVE  ~FreeRun(before, r, n)
    <3>1. CASE r < bs
      BY <1>1, <1>2, <2>4, <3>1 DEF Blocks
    <3>2. CASE bs <= r
      <4>1. ~(r + n <= Total)
        BY <1>2, <2>1, <2>4, <3>2, TableAssumption DEF Blocks
      <4> QED
        BY <4>1 DEF FreeRun
    <3> QED
      BY <2>1, <3>1, <3>2 DEF Blocks
  <2>5. bs = heap_get_start_block(before, n)
    BY <1>2, <2>1, <2>3, <2>4, TrailingRun
  <2>6. Found
    <3>1. \A k \in Blocks : k \in bs..(bs + n - 1) => k \in bs..(Total - 1)
      BY <1>2, <2>1, TableAssumption DEF Blocks
    <3> QED
      BY <2>1, <2>5, <3>1 DEF Found
  <2>7. Found'
    BY <1>1, <2>6 DEF Found
  <2>8. MarkInv'
    <3>1. bs \in bs..(bs + n)
      BY <1>2, <2>1
    <3>2. bs < bs + n => entry' = [taken |-> TRUE, first |-> bs = bs,
                                   next  |-> bs # bs + n - 1]
      <4> SUFFICES ASSUME bs < bs + n
                   PROVE  entry' = [taken |-> TRUE, first |-> bs = bs,
                                    next  |-> bs # bs + n - 1]
        OBVIOUS
      <4> QED
        BY <1>2, <2>1, <2>2, FirstEntryIs
    <3>3. before = [b \in Blocks |-> IF b < bs THEN Marked[b] ELSE before[b]]
      <4>1. \A b \in Blocks : b < bs => Marked[b] = before[b]
        BY <2>1 DEF Marked, heap_mark_blocks_taken, Blocks
      <4> QED
        BY <1>1, <4>1 DEF LoopInv
    <3>4. table' = before /\ Marked' = Marked
      BY <1>1, <1>2 DEF Marked
    <3> QED
      BY <1>1, <2>2, <2>7, <3>1, <3>2, <3>3, <3>4, Zenon DEF MarkInv
  <2> QED
    BY <1>1, <2>2, <2>8 DEF LoopInv
<1> QED
  BY <1>2, <1>3, <1>4

-----------------------------------------------------------------------------
(* The loop of heap_mark_blocks_taken. *)

(* Writing one byte of the run keeps the loop invariant.                   *)
LEMMA MarkPreserves ==
  ASSUME LoopInv, Mark
  PROVE  LoopInv'
<1>1. /\ pc = "mark" /\ i <= bs + n - 1
      /\ table' = IF i \in Blocks THEN [table EXCEPT ![i] = entry] ELSE table
      /\ entry' = [taken |-> TRUE, first |-> FALSE,
                   next  |-> i # (bs + n - 1) - 1]
      /\ i' = i + 1
      /\ before' = before /\ n' = n /\ bs' = bs /\ pc' = pc
  BY DEF Mark
<1>2. /\ Found /\ n \in Nat
      /\ i \in bs..(bs + n)
      /\ table = [b \in Blocks |-> IF b < i THEN Marked[b] ELSE before[b]]
      /\ i < bs + n => entry = [taken |-> TRUE, first |-> i = bs,
                                next  |-> i # bs + n - 1]
  BY <1>1 DEF LoopInv, MarkInv
<1>3. bs \in Int /\ bs \in Nat /\ i \in Int
  BY <1>2, TableAssumption DEF Found, Blocks
<1>4. Found' /\ Marked' = Marked
  BY <1>1, <1>2 DEF Found, Marked
<1>5. i + 1 \in bs..(bs + n) /\ i < bs + n /\ i \in bs..(bs + n - 1)
  BY <1>1, <1>2, <1>3
<1>6. table' = [b \in Blocks |-> IF b < i + 1 THEN Marked[b] ELSE before[b]]
  <2>1. i \in Blocks => Marked[i] = entry
    BY <1>2, <1>5, Zenon DEF Marked, heap_mark_blocks_taken
  <2>2. \A b \in Blocks : b # i => (b < i <=> b < i + 1)
    BY <1>3, TableAssumption DEF Blocks
  <2>3. i < i + 1 /\ DOMAIN table = Blocks
    BY <1>2, <1>3
  <2> QED
    BY <1>1, <1>2, <2>1, <2>2, <2>3
<1>7. entry' = [taken |-> TRUE, first |-> i + 1 = bs,
                next  |-> i + 1 # bs + n - 1]
  <2>1. FALSE = (i + 1 = bs)
    BY <1>2, <1>3
  <2>2. (i # (bs + n - 1) - 1) = (i + 1 # bs + n - 1)
    BY <1>2, <1>3
  <2> QED
    BY <1>1, <2>1, <2>2, Zenon
<1>8. MarkInv'
  BY <1>1, <1>4, <1>5, <1>6, <1>7, Zenon DEF MarkInv
<1> QED
  BY <1>1, <1>8 DEF LoopInv

(* So does the end of that loop: the whole run is marked.                  *)
LEMMA MarkEndPreserves ==
  ASSUME LoopInv, MarkEnd
  PROVE  LoopInv'
<1>1. /\ pc = "mark" /\ i > bs + n - 1 /\ pc' = "free" /\ i' = bs
      /\ UNCHANGED <<before, n, table, bs>>
  BY DEF MarkEnd
<1>2. /\ Found /\ n \in Nat
      /\ i \in bs..(bs + n)
      /\ table = [b \in Blocks |-> IF b < i THEN Marked[b] ELSE before[b]]
  BY <1>1 DEF LoopInv, MarkInv
<1>3. bs \in Nat /\ bs \in bs..Total /\ i = bs + n
  BY <1>1, <1>2, TableAssumption DEF Found, Blocks
<1>4. Found' /\ Marked' = Marked
  BY <1>1, <1>2 DEF Found, Marked
<1>5. \A b \in Blocks : ~(b < i) => before[b] = Marked[b]
  <2>1. \A b \in Blocks : ~(b < i) => b \notin bs..(bs + n - 1)
    BY <1>2, <1>3, TableAssumption DEF Blocks
  <2> QED
    BY <2>1 DEF Marked, heap_mark_blocks_taken
<1>6. table = [b \in Blocks |-> IF bs <= b /\ b < bs
                                THEN HEAP_BLOCK_TABLE_ENTRY_FREE
                                ELSE Marked[b]]
  <2>1. \A b \in Blocks : ~(bs <= b /\ b < bs)
    BY <1>3, TableAssumption DEF Blocks
  <2> QED
    BY <1>2, <1>5, <2>1
<1>7. \A k \in bs..(bs - 1) : Marked[k].next
  BY <1>3
<1>8. FreeInv'
  BY <1>1, <1>3, <1>4, <1>6, <1>7, Zenon DEF FreeInv
<1> QED
  BY <1>1, <1>8 DEF LoopInv

-----------------------------------------------------------------------------
(* The loop of heap_mark_blocks_free. *)

(* What the loop has cleared when it stops after block i.                  *)
LEMMA ClearedIsFreed ==
  ASSUME Found, NEW j \in Int, NEW t,
         \A k \in bs..(j - 1) : Marked[k].next,
         j = Total \/ ~Marked[j].next,
         bs <= j, j <= Total,
         t = [b \in Blocks |-> IF bs <= b /\ b <= j
                               THEN HEAP_BLOCK_TABLE_ENTRY_FREE
                               ELSE Marked[b]]
  PROVE  t = heap_mark_blocks_free(Marked, bs)
<1>1. bs \in Nat
  BY TableAssumption DEF Found, Blocks
<1>2. ASSUME NEW b \in Blocks
      PROVE  (bs <= b /\ b <= j)
               <=> (bs <= b /\ \A k \in bs..(b - 1) : Marked[k].next)
  <2>1. b \in Int /\ b < Total
    BY TableAssumption DEF Blocks
  <2>2. b <= j => \A k \in bs..(b - 1) : k \in bs..(j - 1)
    BY <1>1, <2>1
  <2>3. ~(b <= j) => j \in bs..(b - 1) /\ j # Total
    BY <1>1, <2>1, TableAssumption
  <2> QED
    BY <2>2, <2>3
<1> QED
  BY <1>2 DEF heap_mark_blocks_free

(* Clearing one block keeps the loop invariant.                            *)
LEMMA FreePreserves ==
  ASSUME LoopInv, Free
  PROVE  LoopInv'
<1>1. /\ pc = "free" /\ i < Total
      /\ table' = [table EXCEPT ![i] = HEAP_BLOCK_TABLE_ENTRY_FREE]
      /\ UNCHANGED <<before, n, bs>>
  BY DEF Free
<1>2. /\ Found
      /\ i \in bs..Total
      /\ \A k \in bs..(i - 1) : Marked[k].next
      /\ table = [b \in Blocks |-> IF bs <= b /\ b < i
                                   THEN HEAP_BLOCK_TABLE_ENTRY_FREE
                                   ELSE Marked[b]]
  BY <1>1 DEF LoopInv, FreeInv
<1>3. /\ bs \in Nat /\ i \in Int /\ i \in Nat /\ i \in Blocks
      /\ bs <= i /\ ~(i < i)
  BY <1>1, <1>2, TableAssumption DEF Found, Blocks
<1>4. Found' /\ Marked' = Marked
  BY <1>1, <1>2 DEF Found, Marked
<1>5. table[i].next = Marked[i].next
  BY <1>2, <1>3, Zenon
<1>6. table' = [b \in Blocks |-> IF bs <= b /\ b <= i
                                 THEN HEAP_BLOCK_TABLE_ENTRY_FREE
                                 ELSE Marked[b]]
  <2>1. \A b \in Blocks : b # i => (b < i <=> b <= i)
    BY <1>3, TableAssumption DEF Blocks
  <2>2. bs <= i /\ i <= i
    BY <1>3
  <2> QED
    BY <1>1, <1>2, <1>3, <2>1, <2>2
<1>7. CASE table[i].next
  <2>1. i' = i + 1 /\ pc' = "free"
    BY <1>1, <1>7 DEF Free
  <2>2. i + 1 \in bs..Total /\ bs..((i + 1) - 1) = bs..i
    BY <1>1, <1>2, <1>3, TableAssumption
  <2>3. \A k \in bs..i : Marked[k].next
    <3>1. \A k \in bs..i : k = i \/ k \in bs..(i - 1)
      BY <1>3
    <3> QED
      BY <1>2, <1>5, <1>7, <3>1
  <2>4. table' = [b \in Blocks |-> IF bs <= b /\ b < i + 1
                                   THEN HEAP_BLOCK_TABLE_ENTRY_FREE
                                   ELSE Marked[b]]
    <3>1. \A b \in Blocks : b < i + 1 <=> b <= i
      BY <1>3, TableAssumption DEF Blocks
    <3> QED
      BY <1>6, <3>1
  <2>5. FreeInv'
    BY <1>1, <1>4, <2>1, <2>2, <2>3, <2>4, Zenon DEF FreeInv
  <2> QED
    BY <1>1, <2>1, <2>5 DEF LoopInv
<1>8. CASE ~table[i].next
  <2>1. pc' = "freed"
    BY <1>1, <1>8 DEF Free
  <2>2. table' = heap_mark_blocks_free(Marked, bs)
    <3>1. i <= Total
      BY <1>1, <1>3, TableAssumption
    <3> HIDE DEF Marked
    <3> QED
      BY <1>2, <1>3, <1>5, <1>6, <1>8, <3>1, ClearedIsFreed
  <2> QED
    BY <1>1, <1>4, <2>1, <2>2 DEF LoopInv
<1> QED
  BY <1>7, <1>8

(* So does running into the end of the table.                              *)
LEMMA FreeEndPreserves ==
  ASSUME LoopInv, FreeEnd
  PROVE  LoopInv'
<1>1. /\ pc = "free" /\ i = Total /\ pc' = "freed"
      /\ UNCHANGED <<before, n, table, bs>>
  BY DEF FreeEnd
<1>2. /\ Found
      /\ i \in bs..Total
      /\ \A k \in bs..(i - 1) : Marked[k].next
      /\ table = [b \in Blocks |-> IF bs <= b /\ b < i
                                   THEN HEAP_BLOCK_TABLE_ENTRY_FREE
                                   ELSE Marked[b]]
  BY <1>1 DEF LoopInv, FreeInv
<1>3. bs \in Nat /\ i \in Int /\ bs <= i /\ i <= Total
  BY <1>1, <1>2, TableAssumption DEF Found, Blocks
<1>4. Found' /\ Marked' = Marked
  BY <1>1, <1>2 DEF Found, Marked
<1>5. table = [b \in Blocks |-> IF bs <= b /\ b <= i
                                THEN HEAP_BLOCK_TABLE_ENTRY_FREE
                                ELSE Marked[b]]
  <2>1. \A b \in Blocks : b < i <=> b <= i
    BY <1>1, TableAssumption DEF Blocks
  <2> QED
    BY <1>2, <2>1
<1>6. table = heap_mark_blocks_free(Marked, bs)
  BY <1>1, <1>2, <1>3, <1>5, ClearedIsFreed
<1> QED
  BY <1>1, <1>4, <1>6 DEF LoopInv

-----------------------------------------------------------------------------
(* The theorems. *)

(***************************************************************************)
(* In every state of every run of the loops, what they have read and       *)
(* written so far is a part of what HeapTable says they compute.           *)
(***************************************************************************)
THEOREM LoopInvariant == Spec => []LoopInv
<1>1. Init => LoopInv
  <2> SUFFICES ASSUME Init
               PROVE  LoopInv
    OBVIOUS
  <2>1. /\ before \in [Blocks -> WrittenEntries] /\ n \in Nat
        /\ table = before /\ i = 0 /\ bc = 0 /\ bs = -1 /\ pc = "scan"
    BY ScanAssumption, TableAssumption DEF Init
  <2>2. ScanInv
    BY <2>1, TableAssumption DEF ScanInv, NotCounting
  <2> QED
    BY <2>1, <2>2 DEF LoopInv
<1>2. LoopInv /\ [Next]_vars => LoopInv'
  <2> SUFFICES ASSUME LoopInv, [Next]_vars
               PROVE  LoopInv'
    OBVIOUS
  <2>1. CASE UNCHANGED vars
    BY <2>1 DEF vars, LoopInv, ScanInv, Counting, NotCounting, MarkInv, FreeInv,
                Found, Marked
  <2>2. CASE Next
    BY <2>2, ScanTakenPreserves, ScanFreePreserves, ScanEndPreserves,
       MarkPreserves, MarkEndPreserves, FreePreserves, FreeEndPreserves DEF Next
  <2> QED
    BY <2>1, <2>2
<1> QED
  BY <1>1, <1>2, PTL DEF Spec

(***************************************************************************)
(* heap_get_start_block returns the first run that is long enough, the     *)
(* short run at the end of the table, or -ENOMEM; heap_mark_blocks_taken   *)
(* flags that run and nothing else.                                        *)
(***************************************************************************)
THEOREM LoopsCompute == Spec => []LoopsMatchDefinitions
<1>1. LoopInv => LoopsMatchDefinitions
  <2> SUFFICES ASSUME LoopInv
               PROVE  LoopsMatchDefinitions
    OBVIOUS
  <2>1. pc \in {"mark", "free", "freed"} => Found
    BY DEF LoopInv, MarkInv, FreeInv
  <2>2. ASSUME pc = "free", i = bs
        PROVE  table = Marked
    <3>1. Found /\ table = [b \in Blocks |-> IF bs <= b /\ b < bs
                                             THEN HEAP_BLOCK_TABLE_ENTRY_FREE
                                             ELSE Marked[b]]
      BY <2>2 DEF LoopInv, FreeInv
    <3>2. \A b \in Blocks : ~(bs <= b /\ b < bs)
      BY <3>1, TableAssumption DEF Found, Blocks
    <3>3. Marked = [b \in Blocks |-> Marked[b]]
      BY DEF Marked, heap_mark_blocks_taken
    <3> QED
      BY <3>1, <3>2, <3>3
  <2> QED
    BY <2>1, <2>2 DEF LoopsMatchDefinitions, LoopInv, Found, Marked
<1> QED
  BY <1>1, LoopInvariant, PTL

(***************************************************************************)
(* heap_mark_blocks_free gives back exactly the blocks that                *)
(* heap_mark_blocks_taken marked: with one block or more, the table is the *)
(* table before the malloc.                                                *)
(***************************************************************************)
THEOREM FreeIsInverse == Spec => []FreeUndoesMalloc
<1>1. ASSUME LoopInv, Found, n > 0
      PROVE  heap_mark_blocks_free(Marked, bs) = before
  <2>1. /\ n \in Nat /\ bs \in Nat /\ bs < Total
        /\ before \in [Blocks -> WrittenEntries]
        /\ \A k \in Blocks : k \in bs..(bs + n - 1) => ~before[k].taken
    BY <1>1, TableAssumption DEF LoopInv, Found, Blocks
  <2>2. ASSUME NEW b \in Blocks
        PROVE  heap_mark_blocks_free(Marked, bs)[b] = before[b]
    <3>1. b \in Nat /\ b < Total
      BY TableAssumption DEF Blocks
    <3>2. CASE b \in bs..(bs + n - 1)
      <4>1. ASSUME NEW j \in bs..(b - 1)
            PROVE  Marked[j].next
        <5>1. j \in Blocks /\ j \in bs..(bs + n - 1) /\ j # bs + n - 1
          BY <2>1, <3>1, <3>2, TableAssumption DEF Blocks
        <5> QED
          BY <5>1, Zenon DEF Marked, heap_mark_blocks_taken
      <4>2. bs <= b
        BY <2>1, <3>1, <3>2
      <4>3. heap_mark_blocks_free(Marked, bs)[b] = HEAP_BLOCK_TABLE_ENTRY_FREE
        BY <4>1, <4>2, Zenon DEF heap_mark_blocks_free
      <4>4. before[b] \in WrittenEntries /\ ~before[b].taken
        BY <2>1, <3>2
      <4> QED
        BY <4>3, <4>4 DEF WrittenEntries
    <3>3. CASE b \notin bs..(bs + n - 1)
      <4>1. Marked[b] = before[b]
        BY <3>3, Zenon DEF Marked, heap_mark_blocks_taken
      <4>2. ~(bs <= b /\ \A j \in bs..(b - 1) : Marked[j].next)
        <5>1. CASE b < bs
          BY <2>1, <3>1, <5>1
        <5>2. CASE b >= bs
          <6>1. /\ bs + n - 1 \in Blocks /\ bs + n - 1 \in bs..(b - 1)
                /\ bs + n - 1 \in bs..(bs + n - 1)
            BY <1>1, <2>1, <3>1, <3>3, <5>2, TableAssumption DEF Blocks
          <6>2. ~Marked[bs + n - 1].next
            BY <6>1, Zenon DEF Marked, heap_mark_blocks_taken
          <6> QED
            BY <6>1, <6>2
        <5> QED
          BY <2>1, <3>1, <5>1, <5>2
      <4> QED
        BY <4>1, <4>2, Zenon DEF heap_mark_blocks_free
    <3> QED
      BY <3>2, <3>3
  <2> QED
    BY <2>1, <2>2 DEF heap_mark_blocks_free
<1>2. LoopInv => FreeUndoesMalloc
  BY <1>1 DEF LoopInv, FreeUndoesMalloc, Marked
<1> QED
  BY <1>2, LoopInvariant, PTL

=============================================================================
