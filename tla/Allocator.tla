----------------------------- MODULE Allocator -----------------------------
(***************************************************************************)
(* What a block allocator promises, whatever its data structures are: the  *)
(* units of a pool are handed out in regions, a region handed out overlaps *)
(* no other live region, and giving a region back makes exactly that       *)
(* region free.                                                            *)
(*                                                                         *)
(* The kernel heap (module Heap) is shown to implement this specification. *)
(***************************************************************************)
EXTENDS Integers

CONSTANT Units   \* the allocation units of the pool, a set of integers

VARIABLE regions \* the live regions, each a pair <<first unit, last unit>>

Region == {r \in Units \X Units : r[1] <= r[2]}

Disjoint(r, s) == r[2] < s[1] \/ s[2] < r[1]

-----------------------------------------------------------------------------

Init == regions = {}

Acquire(r) == /\ \A s \in regions : Disjoint(r, s)
              /\ regions' = regions \cup {r}

Release(r) == /\ r \in regions
              /\ regions' = regions \ {r}

Next == \E r \in Region : Acquire(r) \/ Release(r)

Spec == Init /\ [][Next]_regions

=============================================================================
