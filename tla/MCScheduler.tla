---------------------------- MODULE MCScheduler ----------------------------
(***************************************************************************)
(* Instance of module Scheduler for TLC.  The heap blocks of the tasks are *)
(* interchangeable; the run that checks liveness goes without the symmetry.*)
(***************************************************************************)
EXTENDS Scheduler, TLC

AddressSymmetry == Permutations(Addresses)

=============================================================================
