----------------------------- MODULE MCHeapScan -----------------------------
(***************************************************************************)
(* Instance of module HeapScan for TLC: every table whose entries are      *)
(* bytes the code writes, consistent with one another or not.              *)
(***************************************************************************)
EXTENDS HeapScan

AllTables == [Blocks -> WrittenEntries]

=============================================================================
