-------------------------- MODULE MCContextSwitch --------------------------
(***************************************************************************)
(* An instance of module ContextSwitch for TLC.                            *)
(***************************************************************************)
EXTENDS ContextSwitch, TLC

Symmetry == Permutations(Pages)

=============================================================================
