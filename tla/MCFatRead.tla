------------------------------ MODULE MCFatRead ------------------------------
(***************************************************************************)
(* Instance of module FatRead for TLC: sectors of four bytes, clusters of  *)
(* two sectors, a file of two or three clusters that are consecutive or    *)
(* not.  As on the disk of the Makefile, the position that is computed for *)
(* the table entry of a cluster lies in the data.                          *)
(***************************************************************************)
EXTENDS FatRead

Chains == {<<3, 4, 65535, 0>>, <<4, 65535, 3, 0>>, <<3, 65535, 0, 0>>}

(* What stands at the start of a cluster and may be taken for an entry. *)
Words == {0, 2, 3, 4, 4087, 65535}

(* Clusters 2 to 5 begin at bytes 32, 40, 48 and 56; every other byte of   *)
(* the data holds its position.                                            *)
Disk(chain, word) ==
  [p \in 0..(DiskSize - 1) |->
     CASE p \in 12..19 ->
            LET entry == chain[(p - 12) \div 2 + 1]
            IN  IF p % 2 = 0 THEN entry % 256 ELSE entry \div 256
       [] p \in {32, 40, 48} -> word % 256
       [] p \in {33, 41, 49} -> word \div 256
       [] OTHER -> p]

SmallDisks == {Disk(chain, word) : chain \in Chains, word \in Words}

SmallRequests == [first : {2}, pos : {0, 3, 7, 8, 17},
                  size : {1, 4, 5, 8, 9, 24}, nmemb : 1..3]

ASSUME VolumeAssumption == SoundVolume

=============================================================================
