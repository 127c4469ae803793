--------------------------- MODULE MCProcessMemory ---------------------------
(***************************************************************************)
(* Instance of module ProcessMemory for TLC.                               *)
(***************************************************************************)
EXTENDS ProcessMemory

(* The segment ends inside the last block of the file, as it does when the *)
(* sections that are not loaded follow it.                                 *)
FittingPrograms == {[size |-> 8192, offset |-> 4096, memsz |-> 100]}

ASSUME SegmentsAssumption == SegmentsFit

=============================================================================
