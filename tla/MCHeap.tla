------------------------------- MODULE MCHeap -------------------------------
(***************************************************************************)
(* Instance of module Heap for TLC.  The handles are interchangeable, and  *)
(* no property checked with the symmetry is a liveness property.           *)
(***************************************************************************)
EXTENDS Heap, TLC

HandleSymmetry == Permutations(Handles)

=============================================================================
