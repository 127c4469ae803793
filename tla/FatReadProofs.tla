---------------------------- MODULE FatReadProofs ----------------------------
(***************************************************************************)
(* Theorems about fat16_read (module FatRead): on every disk, whatever its *)
(* bytes and its geometry, and for every request, each variable stays in   *)
(* its range and the buffer of the caller gets exactly the bytes that were *)
(* asked for, which are those of the file as long as no entry of the table *)
(* is needed to find them.                                                 *)
(*                                                                         *)
(* The inductive invariant accounts for every byte: what has been written, *)
(* what the stream still has to deliver for the chunk and what the member  *)
(* still lacks add up to the members that are read.                        *)
(***************************************************************************)
EXTENDS FatRead, SequenceTheorems, WellFoundedInduction, TLAPS

-----------------------------------------------------------------------------
(* The invariant. *)

(* The bytes of the members before the current one, and of this one up to  *)
(* the current chunk.                                                      *)
BytesBefore == n * req.size + (req.size - total)

Ranges == /\ disk \in Disks
          /\ req \in Requests
          /\ n \in 0..req.nmemb
          /\ offset \in req.pos..(req.pos + req.size * req.nmemb)
          /\ total \in 1..req.size
          /\ cluster \in UInt16
          /\ ahead \in Nat
          /\ pos \in 0..(WordSize + size_of_cluster_bytes)
          /\ want \in 0..size_of_cluster_bytes
          /\ out \in Seq(0..255)
          /\ res \in {0, -EIO, req.nmemb}
          /\ pc \in {"chain", "stream", "next", "hang", "done"}

(* While a member is read. *)
Reading == /\ n < req.nmemb
           /\ offset = req.pos + BytesBefore
           /\ res = 0

Accounted ==
  /\ pc = "chain"  => Reading /\ Len(out) = BytesBefore
  /\ pc = "stream" => /\ Reading
                      /\ Len(out) + want = BytesBefore + ChunkSize
                      /\ pos + want < WordSize + size_of_cluster_bytes
  /\ pc = "next"   => Reading /\ Len(out) = BytesBefore + ChunkSize
  /\ pc = "hang"   => res = 0 /\ Len(out) <= req.size * req.nmemb
  /\ pc = "done"   => /\ Len(out) <= req.size * req.nmemb
                      /\ res = req.nmemb => Len(out) = req.size * req.nmemb

ReadInv == Ranges /\ Accounted

-----------------------------------------------------------------------------
(* Arithmetic. *)

(* A member that is begun fits in the buffer.                              *)
LEMMA MembersFit ==
  ASSUME NEW k \in Nat, NEW m \in Nat, NEW s \in Nat, k < m
  PROVE  /\ k * s \in Nat /\ s * m \in Nat
         /\ k * s + s <= s * m
         /\ (k + 1) * s = k * s + s
         /\ k + 1 = m => k * s + s = s * m
<1>1. PICK d \in Nat : m = k + 1 + d
  <2>1. m - k - 1 \in Nat /\ m = k + 1 + (m - k - 1)
    OBVIOUS
  <2> QED
    BY <2>1
<1>2. d * s \in Nat /\ k * s \in Nat /\ s * m \in Nat
  OBVIOUS
<1>3. s * (k + 1 + d) = k * s + s + d * s
  OBVIOUS
<1>4. (k + 1) * s = k * s + s /\ s * (k + 1) = k * s + s
  OBVIOUS
<1>5. k + 1 = m => s * m = s * (k + 1)
  OBVIOUS
<1> QED
  BY <1>1, <1>2, <1>3, <1>4, <1>5

(* The rest of a sector is on the disk when the sector has begun.          *)
LEMMA SectorOnDisk ==
  ASSUME NEW p \in Nat, NEW size \in Nat, NEW sector \in Nat \ {0},
         p < size, size % sector = 0
  PROVE  p % sector \in 0..(sector - 1) /\ p + (sector - (p % sector)) <= size
<1> DEFINE q == p \div sector
           e == size \div sector
<1>1. /\ q \in Nat /\ e \in Nat
      /\ p % sector \in 0..(sector - 1)
      /\ p = sector * q + (p % sector)
      /\ size = sector * e
  OBVIOUS
<1>2. q < e
  <2>1. CASE e <= q
    <3>1. PICK d \in Nat : q = e + d
      <4>1. q - e \in Nat /\ q = e + (q - e)
        BY <1>1, <2>1
      <4> QED
        BY <4>1
    <3>2. sector * (e + d) = sector * e + sector * d /\ sector * d \in Nat
      BY <1>1
    <3>3. sector * q >= sector * e
      BY <1>1, <3>1, <3>2
    <3> QED
      BY <1>1, <3>3
  <2> QED
    BY <1>1, <2>1
<1>3. PICK d \in Nat : e = q + 1 + d
  <2>1. e - q - 1 \in Nat /\ e = q + 1 + (e - q - 1)
    BY <1>1, <1>2
  <2> QED
    BY <2>1
<1>4. /\ sector * (q + 1 + d) = sector * q + sector + sector * d
      /\ sector * d \in Nat /\ sector * q \in Nat
  BY <1>1
<1>5. size = sector * q + sector + sector * d
  BY <1>1, <1>3, <1>4
<1> HIDE DEF q, e
<1>6. ASSUME NEW r \in Int, p = sector * q + r
      PROVE  p + (sector - r) <= size
  BY <1>4, <1>5, <1>6
<1> QED
  BY <1>1, <1>6

(* The constants, as the proofs use them. *)
LEMMA Constants ==
  /\ SectorSize \in Nat \ {0} /\ SectorsPerCluster \in Nat \ {0}
  /\ ReservedSectors \in Nat /\ SectorsPerFat \in Nat
  /\ FatCopies \in Nat /\ RootDirEntries \in Nat /\ ItemSize \in Nat
  /\ WordSize \in Nat \ {0} /\ DiskSize \in Nat
  /\ size_of_cluster_bytes \in Nat \ {0}
<1>1. /\ SectorSize \in Nat \ {0} /\ SectorsPerCluster \in Nat \ {0}
      /\ ReservedSectors \in Nat /\ SectorsPerFat \in Nat
      /\ FatCopies \in Nat /\ RootDirEntries \in Nat /\ ItemSize \in Nat
      /\ WordSize \in Nat \ {0} /\ DiskSize \in Nat
  BY GeometryAssumption
<1>2. size_of_cluster_bytes \in Nat \ {0}
  <2>1. ASSUME NEW x \in Nat \ {0}, NEW y \in Nat \ {0}
        PROVE  x * y \in Nat \ {0}
    OBVIOUS
  <2> QED
    BY <1>1, <2>1 DEF size_of_cluster_bytes
<1> QED
  BY <1>1, <1>2

(* A request, as the proofs use it. *)
LEMMA RequestFields ==
  ASSUME req \in Requests
  PROVE  /\ req.first \in UInt16 /\ req.pos \in Nat
         /\ req.size \in Nat /\ req.size # 0
         /\ req.nmemb \in Nat /\ req.nmemb # 0
<1>1. req \in [first : UInt16, pos : Nat,
               size : Nat \ {0}, nmemb : Nat \ {0}]
  BY RequestsAssumption, Zenon
<1>2. /\ req.first \in UInt16 /\ req.pos \in Nat
      /\ req.size \in Nat \ {0} /\ req.nmemb \in Nat \ {0}
  BY <1>1, Zenon
<1> QED
  BY <1>2

(* An entry of the table is two bytes.                                     *)
LEMMA EntryIsWord ==
  ASSUME disk \in Disks, NEW p, CanRead(p, 2)
  PROVE  Word16(p) \in UInt16
<1>1. disk \in [0..(DiskSize - 1) -> 0..255]
  BY GeometryAssumption
<1>2. p \in 0..(DiskSize - 1) /\ p + 1 \in 0..(DiskSize - 1)
  BY Constants DEF CanRead, OnDisk
<1>3. disk[p] \in 0..255 /\ disk[p + 1] \in 0..255
  BY <1>1, <1>2
<1>4. /\ disk[p] \in Int /\ 0 <= disk[p] /\ disk[p] <= 255
      /\ disk[p + 1] \in Int /\ 0 <= disk[p + 1] /\ disk[p + 1] <= 255
  BY <1>3
<1>5. ASSUME NEW low \in Int, 0 <= low, low <= 255,
             NEW high \in Int, 0 <= high, high <= 255
      PROVE  low + 256 * high \in UInt16
  <2> DEFINE word == low + 256 * high
  <2>1. word \in Int /\ 0 <= word /\ word <= MaxUInt16 /\ MaxUInt16 \in Int
    BY <1>5 DEF MaxUInt16
  <2> HIDE DEF word
  <2> QED
    BY <2>1 DEF UInt16, word
<1> QED
  BY <1>4, <1>5 DEF Word16

(* A chunk is not empty, and it is within the member and a cluster.        *)
LEMMA ChunkFits ==
  ASSUME total \in Nat, total # 0
  PROVE  /\ ChunkSize \in 1..size_of_cluster_bytes
         /\ ChunkSize <= total
BY Constants DEF ChunkSize

(* The bytes before a chunk and the chunk fit in the caller's buffer.      *)
LEMMA BytesFit ==
  ASSUME req \in Requests, n \in Nat, n < req.nmemb, total \in 1..req.size
  PROVE  /\ BytesBefore \in Nat /\ ChunkSize \in Nat
         /\ req.size * req.nmemb \in Nat
         /\ BytesBefore + ChunkSize <= req.size * req.nmemb
         /\ total = ChunkSize =>
              BytesBefore + ChunkSize = n * req.size + req.size
<1>1. req.size \in Nat /\ req.nmemb \in Nat
  BY RequestFields, Zenon
<1>2. /\ n * req.size \in Nat /\ req.size * req.nmemb \in Nat
      /\ n * req.size + req.size <= req.size * req.nmemb
  BY <1>1, MembersFit
<1>3. total \in Nat /\ total # 0 /\ total <= req.size
  BY <1>1
<1>4. ChunkSize \in Nat /\ ChunkSize <= total
  BY <1>3, ChunkFits, Constants
<1> QED
  BY <1>1, <1>2, <1>3, <1>4 DEF BytesBefore

(* What diskstreamer_read takes from one sector.                           *)
LEMMA DeliveredFits ==
  ASSUME pos \in Nat, want \in Nat, OnDisk(pos)
  PROVE  /\ Delivered \in 0..want
         /\ pos + Delivered <= DiskSize
         /\ ~Overflow => Delivered = want
<1>1. pos < DiskSize
  BY Constants DEF OnDisk
<1>2. /\ pos % SectorSize \in 0..(SectorSize - 1)
      /\ pos + (SectorSize - (pos % SectorSize)) <= DiskSize
  BY <1>1, Constants, GeometryAssumption, SectorOnDisk
<1> QED
  BY <1>2, Constants DEF Delivered, Overflow

(* What it writes to the buffer is bytes of the disk.                      *)
LEMMA DeliversBytes ==
  ASSUME NEW Byte, disk \in [0..(DiskSize - 1) -> Byte], out \in Seq(Byte),
         pos \in Nat, want \in Nat, OnDisk(pos)
  PROVE  /\ out \o [k \in 1..Delivered |-> disk[pos + k - 1]] \in Seq(Byte)
         /\ Len(out \o [k \in 1..Delivered |-> disk[pos + k - 1]])
              = Len(out) + Delivered
<1> DEFINE d == Delivered
           bytes == [k \in 1..d |-> disk[pos + k - 1]]
<1>1. d \in Nat /\ pos + d <= DiskSize
  BY DeliveredFits
<1> HIDE DEF d
<1>2. \A k \in 1..d : pos + k - 1 \in 0..(DiskSize - 1)
  BY <1>1, Constants
<1>3. bytes \in [1..d -> Byte]
  BY <1>2
<1>4. bytes \in Seq(Byte) /\ Len(bytes) = d
  <2>1. DOMAIN bytes = 1..d
    OBVIOUS
  <2> HIDE DEF bytes
  <2>2. bytes \in Seq(Byte)
    BY <1>1, <1>3, SeqDef
  <2> QED
    BY <1>1, <2>1, <2>2, LenProperties
<1> HIDE DEF bytes
<1>5. out \o bytes \in Seq(Byte) /\ Len(out \o bytes) = Len(out) + d
  BY <1>4, ConcatProperties
<1> QED
  BY <1>5 DEF bytes, d

-----------------------------------------------------------------------------
(* The cluster chain. *)

(* What every step may use of the state it starts from. *)
LEMMA StateFacts ==
  ASSUME ReadInv
  PROVE  /\ req \in Requests /\ disk \in Disks
         /\ n \in Nat /\ n <= req.nmemb /\ total \in 1..req.size
         /\ total \in Nat /\ total # 0
         /\ want \in Nat /\ pos \in Nat /\ offset \in Nat
         /\ Len(out) \in Nat
<1>1. /\ req \in Requests /\ disk \in Disks
      /\ n \in 0..req.nmemb /\ total \in 1..req.size
      /\ want \in 0..size_of_cluster_bytes
      /\ pos \in 0..(WordSize + size_of_cluster_bytes)
      /\ offset \in req.pos..(req.pos + req.size * req.nmemb)
      /\ out \in Seq(0..255)
  BY DEF ReadInv, Ranges
<1>2. req.size \in Nat /\ req.nmemb \in Nat /\ req.pos \in Nat
  BY <1>1, RequestFields
<1>3. req.size * req.nmemb \in Nat
  BY <1>2
<1>4. Len(out) \in Nat
  BY <1>1, LenProperties
<1> QED
  BY <1>1, <1>2, <1>3, <1>4, Constants

(* The buffer holds no more than was asked for while a member is read.     *)
LEMMA BufferBound ==
  ASSUME ReadInv, pc \in {"chain", "stream", "next"}
  PROVE  Len(out) <= req.size * req.nmemb
<1>1. /\ n < req.nmemb
      /\ \/ Len(out) = BytesBefore
         \/ Len(out) + want = BytesBefore + ChunkSize
         \/ Len(out) = BytesBefore + ChunkSize
  BY DEF ReadInv, Accounted, Reading
<1>2. /\ BytesBefore \in Nat /\ ChunkSize \in Nat
      /\ req.size * req.nmemb \in Nat
      /\ BytesBefore + ChunkSize <= req.size * req.nmemb
  BY <1>1, StateFacts, BytesFit
<1>3. want \in Nat /\ Len(out) \in Nat
  BY StateFacts
<1> QED
  BY <1>1, <1>2, <1>3

(* The steps that follow the chain leave everything that is counted alone. *)
LEMMA ChainPreserves ==
  ASSUME ReadInv, FollowChain \/ ChainEnds \/ ChainHangs
  PROVE  ReadInv'
<1>1. /\ pc = "chain" /\ ahead > 0
      /\ disk' = disk /\ req' = req /\ n' = n /\ offset' = offset
      /\ total' = total /\ pos' = pos /\ want' = want /\ out' = out
  BY DEF FollowChain, ChainEnds, ChainHangs
<1>2. Ranges /\ Reading /\ Len(out) = BytesBefore
  BY <1>1 DEF ReadInv, Accounted
<1>3. Len(out) <= req.size * req.nmemb
  BY <1>1, BufferBound
<1>4. req \in Requests /\ disk \in Disks
  BY StateFacts
<1>5. CASE FollowChain
  <2>1. /\ CanRead(FatEntryPosition(cluster), 2)
        /\ cluster' = Word16(FatEntryPosition(cluster))
        /\ ahead' = ahead - 1 /\ pc' = "chain" /\ res' = res
    BY <1>1, <1>5 DEF FollowChain
  <2>2. cluster' \in UInt16
    BY <1>4, <2>1, EntryIsWord
  <2>3. ahead' \in Nat
    BY <1>1, <1>2, <2>1 DEF Ranges
  <2>4. Ranges'
    BY <1>1, <1>2, <2>1, <2>2, <2>3 DEF Ranges, size_of_cluster_bytes
  <2>5. Accounted'
    BY <1>1, <1>2, <2>1 DEF Accounted, Reading, BytesBefore
  <2> QED
    BY <2>4, <2>5 DEF ReadInv
<1>6. CASE ChainEnds
  <2>1. res' = -EIO /\ pc' = "done" /\ cluster' = cluster /\ ahead' = ahead
    BY <1>6 DEF ChainEnds
  <2>2. req.nmemb # -EIO
    BY <1>4, RequestFields DEF EIO
  <2>3. Ranges'
    BY <1>1, <1>2, <2>1 DEF Ranges, size_of_cluster_bytes
  <2>4. Accounted'
    BY <1>1, <1>3, <2>1, <2>2 DEF Accounted
  <2> QED
    BY <2>3, <2>4 DEF ReadInv
<1>7. CASE ChainHangs
  <2>1. pc' = "hang" /\ cluster' = cluster /\ ahead' = ahead /\ res' = res
    BY <1>7 DEF ChainHangs
  <2>2. Ranges'
    BY <1>1, <1>2, <2>1 DEF Ranges, size_of_cluster_bytes
  <2>3. Accounted'
    BY <1>1, <1>2, <1>3, <2>1 DEF Accounted, Reading
  <2> QED
    BY <2>2, <2>3 DEF ReadInv
<1> QED
  BY <1>5, <1>6, <1>7

-----------------------------------------------------------------------------
(* The stream. *)

(* A chunk is about to be delivered.                                       *)
LEMMA SeekPreserves ==
  ASSUME ReadInv, SeekChunk
  PROVE  ReadInv'
<1>1. /\ pc = "chain" /\ want' = ChunkSize /\ pc' = "stream"
      /\ pos' = (fat16_cluster_to_sector(cluster) * SectorSize
                   + (offset % size_of_cluster_bytes)) % WordSize
      /\ disk' = disk /\ req' = req /\ n' = n /\ offset' = offset
      /\ total' = total /\ cluster' = cluster /\ ahead' = ahead
      /\ out' = out /\ res' = res
  BY DEF SeekChunk
<1>2. Ranges /\ Reading /\ Len(out) = BytesBefore
  BY <1>1 DEF ReadInv, Accounted
<1>3. pos' \in 0..(WordSize - 1)
  <2>1. cluster \in Int
    BY <1>2, SMTT(60) DEF Ranges, UInt16, MaxUInt16
  <2>2. ending_sector_pos \in Int
    <3>1. FatCopies * SectorsPerFat \in Int /\ RootDirEntries * ItemSize \in Int
      BY Constants
    <3>2. (RootDirEntries * ItemSize) \div SectorSize \in Int
      BY <3>1, Constants
    <3> QED
      BY <3>1, <3>2, Constants DEF ending_sector_pos
  <2>3. fat16_cluster_to_sector(cluster) \in Int
    <3>1. (cluster - 2) * SectorsPerCluster \in Int
      BY <2>1, Constants
    <3> QED
      BY <2>2, <3>1 DEF fat16_cluster_to_sector
  <2>4. fat16_cluster_to_sector(cluster) * SectorSize \in Int
    BY <2>3, Constants
  <2>5. offset % size_of_cluster_bytes \in Int
    BY StateFacts, Constants
  <2> QED
    BY <1>1, <2>4, <2>5, Constants
<1>4. ChunkSize \in Nat /\ ChunkSize <= size_of_cluster_bytes
  BY StateFacts, ChunkFits, Constants
<1>5. /\ pos' \in 0..(WordSize + size_of_cluster_bytes)
      /\ want' \in 0..size_of_cluster_bytes
      /\ pos' + want' < WordSize + size_of_cluster_bytes
  BY <1>1, <1>3, <1>4, Constants
<1>6. Ranges'
  BY <1>1, <1>2, <1>5 DEF Ranges, size_of_cluster_bytes
<1>7. /\ Reading' /\ BytesBefore' = BytesBefore /\ ChunkSize' = ChunkSize
      /\ size_of_cluster_bytes' = size_of_cluster_bytes
  BY <1>1, <1>2
     DEF Reading, BytesBefore, ChunkSize, size_of_cluster_bytes
<1>8. Accounted'
  BY <1>1, <1>2, <1>5, <1>7 DEF Accounted
<1> QED
  BY <1>6, <1>8 DEF ReadInv

(* What one sector delivers moves from want to the buffer.                 *)
LEMMA ReadSectorPreserves ==
  ASSUME ReadInv, ReadSector
  PROVE  ReadInv'
<1>1. /\ pc = "stream" /\ OnDisk(pos)
      /\ out' = out \o [k \in 1..Delivered |-> disk[pos + k - 1]]
      /\ pos' = pos + Delivered /\ want' = want - Delivered
      /\ pc' = IF Overflow THEN "stream" ELSE "next"
      /\ disk' = disk /\ req' = req /\ n' = n /\ offset' = offset
      /\ total' = total /\ cluster' = cluster /\ ahead' = ahead /\ res' = res
  BY DEF ReadSector
<1>2. /\ Ranges /\ Reading
      /\ Len(out) + want = BytesBefore + ChunkSize
      /\ pos + want < WordSize + size_of_cluster_bytes
  BY <1>1 DEF ReadInv, Accounted
<1>3. pos \in Nat /\ want \in Nat /\ Len(out) \in Nat
  BY StateFacts
<1>4. Delivered \in 0..want /\ (~Overflow => Delivered = want)
  BY <1>1, <1>3, DeliveredFits
<1>5. /\ out' \in Seq(0..255) /\ Len(out') = Len(out) + Delivered
  <2>1. disk \in [0..(DiskSize - 1) -> 0..255] /\ out \in Seq(0..255)
    BY <1>2, GeometryAssumption DEF Ranges
  <2> QED
    BY <1>1, <1>3, <2>1, DeliversBytes
<1>6. BytesBefore \in Nat /\ ChunkSize \in Nat
  BY <1>2, StateFacts, BytesFit DEF Reading
<1>7. /\ Len(out') + want' = BytesBefore + ChunkSize
      /\ pos' + want' < WordSize + size_of_cluster_bytes
      /\ ~Overflow => Len(out') = BytesBefore + ChunkSize
  <2>1. PICK d \in 0..want : d = Delivered
    BY <1>4
  <2>2. pos' = pos + d /\ want' = want - d /\ Len(out') = Len(out) + d
    BY <1>1, <1>5, <2>1
  <2>3. ~Overflow => d = want
    BY <1>4, <2>1
  <2> QED
    BY <1>2, <1>3, <1>6, <2>2, <2>3, Constants
<1>8. /\ want' \in 0..size_of_cluster_bytes
      /\ pos' \in 0..(WordSize + size_of_cluster_bytes)
  <2>1. want <= size_of_cluster_bytes
    BY <1>2, Constants DEF Ranges
  <2>2. PICK d \in 0..want : d = Delivered
    BY <1>4
  <2>3. pos' = pos + d /\ want' = want - d
    BY <1>1, <2>2
  <2> QED
    BY <1>2, <1>3, <2>1, <2>3, Constants
<1>9. Ranges'
  BY <1>1, <1>2, <1>5, <1>8 DEF Ranges, size_of_cluster_bytes
<1>10. /\ Reading' /\ BytesBefore' = BytesBefore /\ ChunkSize' = ChunkSize
       /\ size_of_cluster_bytes' = size_of_cluster_bytes
  BY <1>1, <1>2
     DEF Reading, BytesBefore, ChunkSize, size_of_cluster_bytes
<1>11. Accounted'
  BY <1>1, <1>7, <1>10 DEF Accounted
<1> QED
  BY <1>9, <1>11 DEF ReadInv

(* A disk that does not answer leaves what was written.                    *)
LEMMA ReadHangsPreserves ==
  ASSUME ReadInv, ReadHangs
  PROVE  ReadInv'
<1>1. /\ pc = "stream" /\ pc' = "hang"
      /\ disk' = disk /\ req' = req /\ n' = n /\ offset' = offset
      /\ total' = total /\ cluster' = cluster /\ ahead' = ahead
      /\ pos' = pos /\ want' = want /\ out' = out /\ res' = res
  BY DEF ReadHangs
<1>2. Ranges /\ res = 0 /\ Len(out) <= req.size * req.nmemb
  BY <1>1, BufferBound DEF ReadInv, Accounted, Reading
<1>3. Ranges'
  BY <1>1, <1>2 DEF Ranges, size_of_cluster_bytes
<1> QED
  BY <1>1, <1>2, <1>3 DEF ReadInv, Accounted

-----------------------------------------------------------------------------
(* The chunks and the members. *)

(* Where a chunk starts again with the first cluster of the file.          *)
LEMMA EnterChunkFacts ==
  ASSUME ReadInv, EnterChunk, offset' \in Nat
  PROVE  cluster' \in UInt16 /\ ahead' \in Nat /\ pc' = "chain"
<1>1. req \in Requests
  BY StateFacts
<1>2. cluster' = req.first /\ ahead' = offset' \div size_of_cluster_bytes
      /\ pc' = "chain"
  BY DEF EnterChunk
<1>3. offset' \div size_of_cluster_bytes \in Nat
  <2>1. ASSUME NEW x \in Nat, NEW y \in Nat \ {0}
        PROVE  x \div y \in Nat
    OBVIOUS
  <2> QED
    BY <2>1, Constants
<1> QED
  BY <1>1, <1>2, <1>3, RequestFields

(* The rest of a member is read as a member that begins where it begins.   *)
LEMMA NextChunkPreserves ==
  ASSUME ReadInv, NextChunk
  PROVE  ReadInv'
<1>1. /\ pc = "next" /\ total > ChunkSize
      /\ offset' = offset + ChunkSize /\ total' = total - ChunkSize
      /\ EnterChunk
      /\ disk' = disk /\ req' = req /\ n' = n /\ pos' = pos
      /\ want' = want /\ out' = out /\ res' = res
  BY DEF NextChunk
<1>2. Ranges /\ Reading /\ Len(out) = BytesBefore + ChunkSize
  BY <1>1 DEF ReadInv, Accounted
<1>3. /\ req \in Requests /\ n \in Nat /\ n < req.nmemb
      /\ total \in Nat /\ total # 0 /\ total \in 1..req.size
      /\ offset \in Nat
      /\ req.pos \in Nat /\ req.size \in Nat
  BY <1>2, StateFacts, RequestFields DEF Reading
<1>4. /\ ChunkSize \in Nat /\ ChunkSize # 0
      /\ BytesBefore \in Nat /\ req.size * req.nmemb \in Nat
      /\ BytesBefore + ChunkSize <= req.size * req.nmemb
  BY <1>3, ChunkFits, BytesFit, Constants
<1>5. PICK c \in Nat : c = ChunkSize
  BY <1>4
<1>6. total' = total - c /\ total' \in 1..req.size
  BY <1>1, <1>3, <1>4, <1>5
<1>7. BytesBefore' = BytesBefore + c
  <2>1. n * req.size \in Nat
    BY <1>3
  <2>2. /\ BytesBefore = n * req.size + (req.size - total)
        /\ BytesBefore' = n * req.size + (req.size - (total - c))
    BY <1>1, <1>6 DEF BytesBefore
  <2> QED
    BY <1>3, <2>1, <2>2
<1>8. /\ offset' = req.pos + BytesBefore'
      /\ offset' \in req.pos..(req.pos + req.size * req.nmemb)
      /\ offset' \in Nat
  <2>1. offset' = offset + c /\ offset = req.pos + BytesBefore
    BY <1>1, <1>2, <1>5 DEF Reading
  <2>2. BytesBefore + c <= req.size * req.nmemb
    BY <1>4, <1>5
  <2> QED
    BY <1>3, <1>4, <1>7, <2>1, <2>2
<1>9. cluster' \in UInt16 /\ ahead' \in Nat /\ pc' = "chain"
  BY <1>1, <1>8, EnterChunkFacts
<1>10. Ranges'
  BY <1>1, <1>2, <1>6, <1>8, <1>9 DEF Ranges, size_of_cluster_bytes
<1>11. Reading' /\ Len(out') = BytesBefore'
  BY <1>1, <1>2, <1>5, <1>7, <1>8 DEF Reading
<1> QED
  BY <1>9, <1>10, <1>11 DEF ReadInv, Accounted

(* The next member begins behind this one, in the file and in the buffer.  *)
LEMMA NextMemberPreserves ==
  ASSUME ReadInv, NextMember
  PROVE  ReadInv'
<1>1. /\ pc = "next" /\ total = ChunkSize /\ n + 1 < req.nmemb
      /\ n' = n + 1 /\ offset' = req.pos + n' * req.size
      /\ total' = req.size
      /\ EnterChunk
      /\ disk' = disk /\ req' = req /\ pos' = pos
      /\ want' = want /\ out' = out /\ res' = res
  BY DEF NextMember
<1>2. Ranges /\ Reading /\ Len(out) = BytesBefore + ChunkSize
  BY <1>1 DEF ReadInv, Accounted
<1>3. /\ req \in Requests /\ n \in Nat /\ n < req.nmemb
      /\ total \in 1..req.size
      /\ req.pos \in Nat /\ req.size \in Nat /\ req.size # 0
      /\ req.nmemb \in Nat
  BY <1>2, StateFacts, RequestFields DEF Reading
<1>4. /\ BytesBefore + ChunkSize = n * req.size + req.size
      /\ (n + 1) * req.size = n * req.size + req.size
      /\ (n + 1) * req.size \in Nat /\ req.size * req.nmemb \in Nat
      /\ (n + 1) * req.size <= req.size * req.nmemb
  <2>1. BytesBefore + ChunkSize = n * req.size + req.size
    BY <1>1, <1>3, BytesFit
  <2>2. /\ n * req.size \in Nat /\ req.size * req.nmemb \in Nat
        /\ n * req.size + req.size <= req.size * req.nmemb
        /\ (n + 1) * req.size = n * req.size + req.size
    BY <1>3, MembersFit
  <2> QED
    BY <1>3, <2>1, <2>2
<1>5. BytesBefore' = (n + 1) * req.size
  <2>1. BytesBefore' = (n + 1) * req.size + (req.size - req.size)
    BY <1>1 DEF BytesBefore
  <2> QED
    BY <1>3, <1>4, <2>1
<1>6. /\ offset' = req.pos + BytesBefore'
      /\ offset' \in req.pos..(req.pos + req.size * req.nmemb)
      /\ offset' \in Nat
  <2>1. offset' = req.pos + (n + 1) * req.size
    BY <1>1
  <2> QED
    BY <1>3, <1>4, <1>5, <2>1
<1>7. cluster' \in UInt16 /\ ahead' \in Nat /\ pc' = "chain"
  BY <1>1, <1>6, EnterChunkFacts
<1>8. n' \in 0..req.nmemb /\ n' < req.nmemb /\ total' \in 1..req.size
  BY <1>1, <1>3
<1>9. Ranges'
  BY <1>1, <1>2, <1>6, <1>7, <1>8 DEF Ranges, size_of_cluster_bytes
<1>10. Reading' /\ Len(out') = BytesBefore'
  BY <1>1, <1>2, <1>4, <1>5, <1>6, <1>8 DEF Reading
<1> QED
  BY <1>7, <1>9, <1>10 DEF ReadInv, Accounted

(* After the last member the buffer is full.                               *)
LEMMA FinishPreserves ==
  ASSUME ReadInv, Finish
  PROVE  ReadInv'
<1>1. /\ pc = "next" /\ total = ChunkSize /\ n + 1 >= req.nmemb
      /\ n' = n + 1 /\ res' = req.nmemb /\ pc' = "done"
      /\ disk' = disk /\ req' = req /\ offset' = offset /\ total' = total
      /\ cluster' = cluster /\ ahead' = ahead /\ pos' = pos
      /\ want' = want /\ out' = out
  BY DEF Finish
<1>2. Ranges /\ Reading /\ Len(out) = BytesBefore + ChunkSize
  BY <1>1 DEF ReadInv, Accounted
<1>3. /\ req \in Requests /\ n \in Nat /\ n < req.nmemb
      /\ total \in 1..req.size
      /\ req.size \in Nat /\ req.nmemb \in Nat
  BY <1>2, StateFacts, RequestFields DEF Reading
<1>4. n + 1 = req.nmemb /\ n' \in 0..req.nmemb
  BY <1>1, <1>3
<1>5. Len(out) = req.size * req.nmemb /\ req.size * req.nmemb \in Nat
  <2>1. BytesBefore + ChunkSize = n * req.size + req.size
    BY <1>1, <1>3, BytesFit
  <2>2. /\ req.size * req.nmemb \in Nat
        /\ n * req.size + req.size = req.size * req.nmemb
    BY <1>3, <1>4, MembersFit
  <2> QED
    BY <1>2, <2>1, <2>2
<1>6. Ranges'
  BY <1>1, <1>2, <1>4 DEF Ranges, size_of_cluster_bytes
<1>7. Len(out') <= req'.size * req'.nmemb /\ Len(out') = req'.size * req'.nmemb
  BY <1>1, <1>5
<1> QED
  BY <1>1, <1>6, <1>7 DEF ReadInv, Accounted

(* A read begins with an empty buffer.                                     *)
LEMMA ReadInit == Init => ReadInv
<1> SUFFICES ASSUME Init
             PROVE  ReadInv
  OBVIOUS
<1>1. /\ disk \in Disks /\ req \in Requests
      /\ n = 0 /\ offset = req.pos /\ total = req.size
      /\ cluster = req.first /\ ahead = req.pos \div size_of_cluster_bytes
      /\ pos = 0 /\ want = 0 /\ out = <<>> /\ res = 0 /\ pc = "chain"
  BY DEF Init
<1>2. /\ req.first \in UInt16 /\ req.pos \in Nat
      /\ req.size \in Nat /\ req.size # 0
      /\ req.nmemb \in Nat /\ req.nmemb # 0
  BY <1>1, RequestFields
<1>3. out \in Seq(0..255) /\ Len(out) = 0
  BY <1>1, EmptySeq
<1>4. ahead \in Nat
  BY <1>1, <1>2, Constants
<1>5. /\ offset \in req.pos..(req.pos + req.size * req.nmemb)
      /\ 0 * req.size = 0
  <2>1. req.size * req.nmemb \in Nat
    BY <1>2
  <2> QED
    BY <1>1, <1>2, <2>1
<1>6. BytesBefore = 0
  BY <1>1, <1>2, <1>5 DEF BytesBefore
<1>7. n \in 0..req.nmemb /\ n < req.nmemb /\ total \in 1..req.size
  BY <1>1, <1>2
<1>8. /\ pos \in 0..(WordSize + size_of_cluster_bytes)
      /\ want \in 0..size_of_cluster_bytes
  BY <1>1, Constants
<1>9. Ranges
  BY <1>1, <1>2, <1>3, <1>4, <1>5, <1>7, <1>8 DEF Ranges
<1>10. Reading
  BY <1>1, <1>2, <1>6, <1>7 DEF Reading
<1> QED
  BY <1>1, <1>3, <1>6, <1>9, <1>10 DEF ReadInv, Accounted

-----------------------------------------------------------------------------
(* The theorems. *)

(***************************************************************************)
(* At every step of a read the bytes in the buffer, those the stream still *)
(* delivers and those the member still lacks add up to the request.        *)
(***************************************************************************)
THEOREM ReadInvariant == Spec => []ReadInv
<1>1. ReadInv /\ [Next]_vars => ReadInv'
  <2> SUFFICES ASSUME ReadInv, [Next]_vars
               PROVE  ReadInv'
    OBVIOUS
  <2>1. CASE UNCHANGED vars
    BY <2>1 DEF vars, ReadInv, Ranges, Accounted, Reading, BytesBefore,
                ChunkSize, size_of_cluster_bytes
  <2>2. CASE Next
    BY <2>2, ChainPreserves, SeekPreserves, ReadSectorPreserves,
       ReadHangsPreserves, NextChunkPreserves, NextMemberPreserves,
       FinishPreserves DEF Next
  <2> QED
    BY <2>1, <2>2
<1> QED
  BY <1>1, ReadInit, PTL DEF Spec

(***************************************************************************)
(* The variables of fat16_read_internal_from_stream and of                 *)
(* diskstreamer_read stay in their ranges on every disk: an offset never   *)
(* leaves the request, a chunk never exceeds a cluster, and what is copied *)
(* is bytes of the disk.                                                   *)
(***************************************************************************)
THEOREM ReadTypeCorrect == Spec => []TypeOK
<1>1. ReadInv => TypeOK
  <2> SUFFICES ASSUME ReadInv
               PROVE  TypeOK
    OBVIOUS
  <2>1. total \in 0..req.size
    BY StateFacts, RequestFields
  <2> QED
    BY <2>1 DEF ReadInv, Ranges, TypeOK
<1> QED
  BY <1>1, ReadInvariant, PTL

(***************************************************************************)
(* fat16_read never writes past the buffer of fread's caller, and when it  *)
(* reports success it has written every byte that was asked for, on every  *)
(* disk and for every size and number of members.                          *)
(***************************************************************************)
THEOREM ReadBufferExact == Spec => []BufferExact
<1>1. ReadInv => BufferExact
  BY BufferBound DEF ReadInv, Ranges, Accounted, BufferExact
<1> QED
  BY <1>1, ReadInvariant, PTL

-----------------------------------------------------------------------------
(* Reads that stay where the first cluster leads. *)

(* A non-empty set of natural numbers has a least element. *)
LEMMA LeastElement ==
  ASSUME NEW S, S \subseteq Nat, S # {}
  PROVE  \E m \in S : \A k \in S : m <= k
<1>1. PICK m \in S : \A k \in S : <<k, m>> \notin OpToRel(<, Nat)
  BY WFMin, NatLessThanWellFounded, Zenon
<1>2. \A k \in S : ~(k < m)
  BY <1>1, Zenon DEF OpToRel
<1> QED
  BY <1>2, SMT

(* Induction up to a bound, for a set instead of a predicate. *)
LEMMA InductionTo ==
  ASSUME NEW N \in Nat, NEW T,
         0 \in T,
         \A i \in 1..N : i - 1 \in T => i \in T
  PROVE  \A i \in 0..N : i \in T
<1> DEFINE S == {i \in 0..N : i \notin T}
<1>1. SUFFICES ASSUME S # {}
               PROVE  FALSE
  OBVIOUS
<1>2. PICK m \in S : \A k \in S : m <= k
  <2>1. S \subseteq Nat
    OBVIOUS
  <2> HIDE DEF S
  <2> QED
    BY <1>1, <2>1, LeastElement
<1>3. m \in 1..N /\ m - 1 \notin S
  BY <1>2
<1> QED
  BY <1>2, <1>3

(* The cluster that comes after c, and the function Chain. *)
After(c) == IF c \in DataClusters THEN FatEntry(c) ELSE c

LastIndex == (req.pos + req.size * req.nmemb) \div size_of_cluster_bytes

IsChain(f) ==
  f = [k \in 0..LastIndex |-> IF k = 0 THEN req.first ELSE After(f[k - 1])]

LEMMA ChainExists ==
  ASSUME LastIndex \in Nat
  PROVE  IsChain(Chain)
<1> DEFINE N == LastIndex
           Is(f, i) == f = [k \in 0..i |-> IF k = 0 THEN req.first
                                           ELSE After(f[k - 1])]
           T == {i \in 0..N : \E f : Is(f, i)}
<1> HIDE DEF Is, N
<1>1. 0 \in T
  <2>1. Is([k \in 0..0 |-> req.first], 0)
    BY DEF Is
  <2>2. 0 \in 0..N
    BY DEF N
  <2> QED
    BY <2>1, <2>2, Zenon
<1>2. ASSUME NEW i \in 1..N, i - 1 \in T
      PROVE  i \in T
  <2>1. PICK f : Is(f, i - 1)
    BY <1>2
  <2> DEFINE g == [k \in 0..i |-> IF k = i THEN After(f[i - 1]) ELSE f[k]]
  <2>2. \A k \in 0..(i - 1) : f[k] = IF k = 0 THEN req.first ELSE After(f[k - 1])
    BY <2>1, Zenon DEF Is
  <2>3. \A k \in 0..i : g[k] = IF k = 0 THEN req.first ELSE After(g[k - 1])
    <3> TAKE k \in 0..i
    <3>1. CASE k = i
      <4>1. g[k] = After(f[i - 1]) /\ g[i - 1] = f[i - 1] /\ k # 0
        BY <3>1 DEF N
      <4> QED
        BY <3>1, <4>1, Zenon
    <3>2. CASE k # i
      <4>1. k \in 0..(i - 1) /\ g[k] = f[k] /\ (k # 0 => g[k - 1] = f[k - 1])
        BY <3>2 DEF N
      <4> QED
        BY <2>2, <4>1, Zenon
    <3> QED
      BY <3>1, <3>2
  <2>4. Is(g, i)
    <3>1. g = [k \in 0..i |-> g[k]]
      BY Zenon
    <3> HIDE DEF g
    <3> QED
      BY <2>3, <3>1, Zenon DEF Is
  <2>5. i \in 0..N
    BY DEF N
  <2> HIDE DEF g
  <2> QED
    BY <2>4, <2>5, Zenon
<1>3. N \in T
  <2>1. N \in Nat /\ N \in 0..N
    BY DEF N
  <2> HIDE DEF T
  <2> QED
    BY <1>1, <1>2, <2>1, InductionTo
<1>4. \E f : IsChain(f)
  BY <1>3, Zenon DEF IsChain, Is, N
<1>5. Chain = CHOOSE f : IsChain(f)
  BY Zenon DEF Chain, IsChain, After, LastIndex
<1> QED
  BY <1>4, <1>5, Zenon

(* Clusters follow each other on the disk. *)
LEMMA ClusterStarts ==
  ASSUME NEW c \in Nat, c >= 2
  PROVE  /\ ClusterStart(c) \in Nat
         /\ ClusterStart(c + 1) = ClusterStart(c) + size_of_cluster_bytes
<1>1. FirstDataSector \in Nat
  <2>1. FatCopies * SectorsPerFat \in Nat /\ RootDirEntries * ItemSize \in Nat
    BY Constants
  <2>2. ASSUME NEW x \in Nat
        PROVE  (x + SectorSize - 1) \div SectorSize \in Nat
    <3>1. x + SectorSize - 1 \in Nat
      BY Constants
    <3> QED
      BY <3>1, Constants
  <2> QED
    BY <2>1, <2>2, Constants DEF FirstDataSector
<1>2. ASSUME NEW f \in Nat, NEW d \in Nat, NEW spc \in Nat, NEW ss \in Nat
      PROVE  /\ (f + d * spc) * ss \in Nat
             /\ (f + (d + 1) * spc) * ss = (f + d * spc) * ss + spc * ss
  <2>1. (d + 1) * spc = d * spc + spc /\ d * spc \in Nat
    OBVIOUS
  <2> QED
    BY <2>1
<1>3. c - 2 \in Nat /\ (c + 1) - 2 = (c - 2) + 1
  OBVIOUS
<1>4. /\ SectorsPerCluster \in Nat /\ SectorSize \in Nat
  BY Constants
<1>5. /\ (FirstDataSector + (c - 2) * SectorsPerCluster) * SectorSize \in Nat
      /\ (FirstDataSector + ((c - 2) + 1) * SectorsPerCluster) * SectorSize
           = (FirstDataSector + (c - 2) * SectorsPerCluster) * SectorSize
               + SectorsPerCluster * SectorSize
  BY <1>1, <1>2, <1>3, <1>4
<1> QED
  BY <1>3, <1>5, Zenon DEF ClusterStart, size_of_cluster_bytes

(* Where the root directory fills its sectors the code finds the data. *)
LEMMA DataIsFound ==
  ASSUME SoundVolume, NEW c \in Nat
  PROVE  fat16_cluster_to_sector(c) * SectorSize = ClusterStart(c)
<1>1. PICK d \in Nat : RootDirEntries * ItemSize = SectorSize * d
  <2>1. RootDirEntries * ItemSize \in Nat /\ (RootDirEntries * ItemSize) % SectorSize = 0
    BY Constants DEF SoundVolume
  <2>2. ASSUME NEW x \in Nat, x % SectorSize = 0
        PROVE  x = SectorSize * (x \div SectorSize) /\ x \div SectorSize \in Nat
    BY <2>2, Constants
  <2> QED
    BY <2>1, <2>2
<1>2. ASSUME NEW s \in Nat \ {0}
      PROVE  (s * d) \div s = d /\ (s * d + s - 1) \div s = d
  <2>1. s * d \in Nat
    BY <1>2
  <2>2. /\ s * d = s * d + 0 /\ 0 \in 0..(s - 1)
        /\ s * d + s - 1 = s * d + (s - 1) /\ s - 1 \in 0..(s - 1)
    BY <1>2, <2>1
  <2> QED
    BY <1>2, <2>1, <2>2
<1>3. /\ (RootDirEntries * ItemSize) \div SectorSize = d
      /\ (RootDirEntries * ItemSize + SectorSize - 1) \div SectorSize = d
  BY <1>1, <1>2, Constants
<1>4. ending_sector_pos = FirstDataSector
  BY <1>3, Zenon DEF ending_sector_pos, FirstDataSector
<1> QED
  BY <1>4, Zenon DEF fat16_cluster_to_sector, ClusterStart

(* What the chain and its clusters have to do with the bytes of a request. *)
Size == req.size * req.nmemb
Base == ClusterStart(req.first) + req.pos

FirstOnly ==
  /\ StartsInFirstCluster
  /\ AllInFile
  /\ Contiguous \/ \A o \in Requested : o < size_of_cluster_bytes

(* The numbers of a request all of whose chunks start in the first cluster. *)
LEMMA RequestNumbers ==
  ASSUME req \in Requests, StartsInFirstCluster
  PROVE  /\ Size \in Nat \ {0}
         /\ req.pos \in Nat
         /\ req.pos < size_of_cluster_bytes
         /\ req.size \in Nat \ {0}
         /\ req.size <= size_of_cluster_bytes
         /\ req.pos + Size < 2 * size_of_cluster_bytes
         /\ \A k \in Nat : k < req.nmemb
              => /\ k * req.size \in Nat
                 /\ req.pos + k * req.size < size_of_cluster_bytes
<1>1. /\ req.pos \in Nat /\ req.size \in Nat /\ req.size # 0
      /\ req.nmemb \in Nat /\ req.nmemb # 0
  BY RequestFields
<1>2. PICK last \in Nat : last = req.nmemb - 1
  BY <1>1
<1>3. /\ req.size <= size_of_cluster_bytes
      /\ req.pos + last * req.size < size_of_cluster_bytes
  BY <1>2 DEF StartsInFirstCluster
<1>4. /\ last * req.size \in Nat /\ Size \in Nat
      /\ Size = last * req.size + req.size
  BY <1>1, <1>2, MembersFit DEF Size
<1>5. ASSUME NEW k \in Nat, k < req.nmemb
      PROVE  k * req.size \in Nat /\ k * req.size <= last * req.size
  <2>1. PICK d \in Nat : last = k + d
    <3>1. last - k \in Nat /\ last = k + (last - k)
      BY <1>1, <1>2, <1>5
    <3> QED
      BY <3>1
  <2>2. /\ (k + d) * req.size = k * req.size + d * req.size
        /\ k * req.size \in Nat /\ d * req.size \in Nat
    BY <1>1
  <2> QED
    BY <2>1, <2>2
<1>6. size_of_cluster_bytes \in Nat
  BY Constants
<1>7. ASSUME NEW k \in Nat, k < req.nmemb
      PROVE  k * req.size \in Nat /\ req.pos + k * req.size < size_of_cluster_bytes
  BY <1>1, <1>3, <1>4, <1>5, <1>6, <1>7
<1> QED
  BY <1>1, <1>3, <1>4, <1>6, <1>7

(* The position of byte o of a file whose chain is f, if it has it. *)
PositionIn(f, o) ==
  ClusterStart(f[o \div size_of_cluster_bytes]) + (o % size_of_cluster_bytes)

LEMMA FirstOrSecond ==
  ASSUME NEW o \in Nat, o < 2 * size_of_cluster_bytes
  PROVE  IF o < size_of_cluster_bytes
         THEN /\ o \div size_of_cluster_bytes = 0
              /\ o % size_of_cluster_bytes = o
         ELSE /\ o \div size_of_cluster_bytes = 1
              /\ o % size_of_cluster_bytes = o - size_of_cluster_bytes
<1>1. ASSUME NEW s \in Nat \ {0}, o < 2 * s
      PROVE  IF o < s THEN o \div s = 0 /\ o % s = o
                      ELSE o \div s = 1 /\ o % s = o - s
  <2>1. CASE o < s
    BY <1>1, <2>1
  <2>2. CASE ~(o < s)
    <3>1. o = s * 1 + (o - s) /\ o - s \in 0..(s - 1)
      BY <1>1, <2>2
    <3> QED
      BY <1>1, <2>2, <3>1
  <2> QED
    BY <2>1, <2>2
<1> QED
  BY <1>1, Constants

(* The chain of such a request begins with the first cluster, and goes on  *)
(* with the one behind it if the request does.                             *)
LEMMA ChainOfRequest ==
  ASSUME SoundVolume, req \in Requests, FirstOnly
  PROVE  /\ req.first \in DataClusters
         /\ Chain[0] = req.first
         /\ \A o \in Requested : o >= size_of_cluster_bytes
              => Chain[1] = req.first + 1 /\ req.first + 1 \in DataClusters
<1>1. /\ Size \in Nat \ {0} /\ req.pos \in Nat
      /\ req.pos < size_of_cluster_bytes
      /\ req.pos + Size < 2 * size_of_cluster_bytes
      /\ size_of_cluster_bytes \in Nat \ {0}
  BY RequestNumbers, Constants DEF FirstOnly
<1>2. Requested = req.pos .. (req.pos + Size - 1)
  BY Zenon DEF Requested, Size
<1>3. /\ LastIndex \in Nat
      /\ req.pos + Size >= size_of_cluster_bytes => 1 <= LastIndex
  <2>1. ASSUME NEW x \in Nat, NEW s \in Nat \ {0}
        PROVE  x \div s \in Nat /\ (x >= s => 1 <= x \div s)
    OBVIOUS
  <2>2. req.pos + Size \in Nat
    BY <1>1
  <2>3. LastIndex = (req.pos + Size) \div size_of_cluster_bytes
    BY Zenon DEF LastIndex, Size
  <2> QED
    BY <1>1, <2>1, <2>2, <2>3
<1>4. IsChain(Chain)
  BY <1>3, ChainExists
<1>5. DOMAIN Chain = 0..LastIndex /\ Chain[0] = req.first
  <2>1. PICK f : f = Chain
    BY Zenon
  <2>2. f = [k \in 0..LastIndex |-> IF k = 0 THEN req.first ELSE After(f[k - 1])]
    BY <1>4, <2>1, Zenon DEF IsChain
  <2>3. DOMAIN f = 0..LastIndex
    BY <2>2, Zenon
  <2>4. 0 \in 0..LastIndex
    BY <1>3
  <2>5. f[0] = req.first
    BY <2>2, <2>4
  <2> QED
    BY <2>1, <2>3, <2>5, Zenon
<1>6. req.first \in DataClusters
  <2>1. req.pos \in Requested /\ req.pos < 2 * size_of_cluster_bytes
    BY <1>1, <1>2
  <2>2. req.pos \div size_of_cluster_bytes = 0
    BY <1>1, <2>1, FirstOrSecond
  <2> QED
    BY <1>5, <2>1, <2>2, Zenon DEF FirstOnly, AllInFile
<1>7. ASSUME NEW o \in Requested, o >= size_of_cluster_bytes
      PROVE  Chain[1] = req.first + 1 /\ req.first + 1 \in DataClusters
  <2>1. /\ o \in Nat /\ o < 2 * size_of_cluster_bytes
        /\ o < req.pos + Size /\ ~(o < size_of_cluster_bytes)
    BY <1>1, <1>2, <1>7
  <2>2. o \div size_of_cluster_bytes = 1
    BY <2>1, FirstOrSecond
  <2>3. Chain[1] \in DataClusters
    BY <2>2, Zenon DEF FirstOnly, AllInFile
  <2>4. 1 \in DOMAIN Chain \ {0} /\ 1 - 1 = 0
    BY <1>1, <1>3, <1>5, <1>7, <2>1
  <2>5. Contiguous
    BY <2>1, Zenon DEF FirstOnly
  <2>6. Chain[1] = Chain[1 - 1] + 1
    BY <2>3, <2>4, <2>5, Zenon DEF Contiguous
  <2> QED
    BY <1>5, <2>3, <2>4, <2>6, Zenon
<1> QED
  BY <1>5, <1>6, <1>7, Zenon

(* So its bytes are one behind the other on the disk, and a sector follows. *)
LEMMA RequestIsRun ==
  ASSUME SoundVolume, req \in Requests, FirstOnly
  PROVE  /\ Base \in Nat
         /\ Base + Size < DiskSize
         /\ FileBytes = [k \in 1..Size |-> disk[Base + k - 1]]
         /\ req.first \in Nat
<1>1. /\ Size \in Nat \ {0} /\ req.pos \in Nat
      /\ req.pos < size_of_cluster_bytes
      /\ req.pos + Size < 2 * size_of_cluster_bytes
      /\ size_of_cluster_bytes \in Nat \ {0} /\ DiskSize \in Nat
  BY RequestNumbers, Constants DEF FirstOnly
<1>2. Requested = req.pos .. (req.pos + Size - 1)
  BY Zenon DEF Requested, Size
<1>3. PICK first, chain, cs :
        first = req.first /\ chain = Chain /\ cs = size_of_cluster_bytes
  BY Zenon
<1>4. /\ first \in DataClusters /\ chain[0] = first
      /\ \A o \in Requested : o >= cs
              => chain[1] = first + 1 /\ first + 1 \in DataClusters
  BY <1>3, ChainOfRequest, Zenon
<1>5. first \in Nat /\ first >= 2 /\ ClusterStart(first + 1) < DiskSize
  BY <1>4 DEF DataClusters, SoundVolume
<1>6. PICK start : start = ClusterStart(first)
  BY Zenon
<1>7. start \in Nat /\ ClusterStart(first + 1) = start + cs
  BY <1>3, <1>5, <1>6, ClusterStarts
<1>8. Base = start + req.pos
  BY <1>3, <1>6, Zenon DEF Base
<1>9. \A o \in Requested : PositionIn(chain, o) = start + o
  <2> TAKE o \in Requested
  <2>1. o \in Nat /\ o < 2 * cs /\ cs \in Nat
    BY <1>1, <1>2, <1>3
  <2>2. IF o < cs THEN o \div cs = 0 /\ o % cs = o
                  ELSE o \div cs = 1 /\ o % cs = o - cs
    BY <1>3, <2>1, FirstOrSecond
  <2>3. PositionIn(chain, o) = ClusterStart(chain[o \div cs]) + (o % cs)
    BY <1>3, Zenon DEF PositionIn
  <2>4. CASE o < cs
    BY <1>4, <1>6, <2>2, <2>3, <2>4
  <2>5. CASE ~(o < cs)
    <3>1. chain[1] = first + 1 /\ o \div cs = 1 /\ o % cs = o - cs
      BY <1>4, <2>1, <2>2, <2>5
    <3>2. PositionIn(chain, o) = (start + cs) + (o - cs)
      BY <1>7, <2>3, <3>1, Zenon
    <3> QED
      BY <1>7, <2>1, <3>2
  <2> QED
    BY <2>4, <2>5
<1>10. Base + Size < DiskSize
  <2>1. CASE req.pos + Size <= cs
    BY <1>1, <1>3, <1>5, <1>7, <1>8, <2>1
  <2>2. CASE req.pos + Size > cs
    <3>1. PICK o \in Requested : o >= cs
      <4>1. req.pos + Size - 1 \in Requested /\ req.pos + Size - 1 >= cs
        BY <1>1, <1>2, <1>3, <2>2
      <4> QED
        BY <4>1
    <3>2. first + 1 \in DataClusters
      BY <1>4, <3>1
    <3>3. ClusterStart((first + 1) + 1) < DiskSize
      BY <3>2, Zenon DEF SoundVolume
    <3>4. ClusterStart((first + 1) + 1) = ClusterStart(first + 1) + cs
      <4>1. first + 1 \in Nat /\ first + 1 >= 2
        BY <1>5
      <4> QED
        BY <1>3, <4>1, ClusterStarts
    <3> QED
      BY <1>1, <1>3, <1>7, <1>8, <3>3, <3>4
  <2> QED
    BY <1>1, <1>3, <2>1, <2>2
<1>11. FileBytes = [k \in 1..Size |-> disk[Base + k - 1]]
  <2>1. \A k \in 1..Size : PositionIn(chain, req.pos + k - 1) = Base + k - 1
    <3> TAKE k \in 1..Size
    <3>1. req.pos + k - 1 \in Requested /\ start + (req.pos + k - 1) = Base + k - 1
      BY <1>1, <1>2, <1>7, <1>8, SMTT(60)
    <3> QED
      BY <1>9, <3>1
  <2>2. FileBytes = [k \in 1..Size |-> disk[PositionIn(chain, req.pos + k - 1)]]
    BY <1>3, Zenon DEF FileBytes, PositionIn, Size
  <2> HIDE DEF Base, PositionIn, Size
  <2> QED
    BY <2>1, <2>2
<1>12. Base \in Nat /\ req.first \in Nat
  BY <1>1, <1>3, <1>5, <1>7, <1>8
<1> QED
  BY <1>10, <1>11, <1>12, Zenon

(***************************************************************************)
(* The invariant of such a request: no table entry is looked up, and what  *)
(* has been written is the bytes of the run as far as it goes.             *)
(***************************************************************************)
Copied == \A k \in 1..Len(out) : out[k] = disk[Base + k - 1]

RunInv ==
  FirstOnly => /\ total = req.size
               /\ Copied
               /\ pc = "chain" => ahead = 0 /\ cluster = req.first
               /\ pc = "stream" => pos = Base + Len(out)
               /\ pc # "hang"
               /\ pc = "done" => res = req.nmemb

(* What is said of the request and of the disk stays as it is. *)
LEMMA SameRequest ==
  ASSUME UNCHANGED <<disk, req>>
  PROVE  /\ FirstOnly' <=> FirstOnly
         /\ Base' = Base
<1>1. disk' = disk /\ req' = req
  OBVIOUS
<1>2. Base' = Base
  BY <1>1, Zenon DEF Base, ClusterStart, FirstDataSector
<1>3. Chain' = Chain
  BY <1>1, ZenonT(60) DEF Chain, FatEntry, Word16
<1>4. FirstOnly' <=> FirstOnly
  BY <1>1, <1>3, Zenon
     DEF FirstOnly, StartsInFirstCluster, AllInFile, Contiguous, Requested
<1> QED
  BY <1>2, <1>4

(* What a state of such a request has, while a member is read. *)
LEMMA RunFacts ==
  ASSUME SoundVolume, ReadInv, RunInv, FirstOnly, pc \in {"chain", "stream", "next"}
  PROVE  /\ total = ChunkSize
         /\ Copied
         /\ n \in Nat /\ n < req.nmemb
         /\ BytesBefore = n * req.size
         /\ BytesBefore \in Nat
         /\ offset = req.pos + BytesBefore
         /\ offset \in Nat
         /\ offset < size_of_cluster_bytes
         /\ Len(out) \in Nat
         /\ Base + Len(out) \in Nat
         /\ Base + Len(out) < DiskSize
<1>1. /\ req \in Requests /\ n \in Nat /\ Len(out) \in Nat
  BY StateFacts
<1>2. /\ req.size \in Nat \ {0} /\ req.size <= size_of_cluster_bytes
      /\ Size \in Nat \ {0} /\ req.pos \in Nat
      /\ \A k \in Nat : k < req.nmemb
              => /\ k * req.size \in Nat
                 /\ req.pos + k * req.size < size_of_cluster_bytes
  BY <1>1, RequestNumbers DEF FirstOnly
<1>3. total = req.size /\ Copied
  BY Zenon DEF RunInv
<1>4. total = ChunkSize
  BY <1>2, <1>3, Constants DEF ChunkSize
<1>5. n < req.nmemb /\ offset = req.pos + BytesBefore
  BY DEF ReadInv, Accounted, Reading
<1>6. n * req.size \in Nat /\ req.pos + n * req.size < size_of_cluster_bytes
  BY <1>1, <1>2, <1>5
<1>7. BytesBefore = n * req.size
  BY <1>2, <1>3, <1>6 DEF BytesBefore
<1>8. Len(out) <= Size
  BY BufferBound DEF Size
<1>9. Base \in Nat /\ Base + Size < DiskSize /\ DiskSize \in Nat
  BY <1>1, RequestIsRun, Constants
<1>10. Base + Len(out) \in Nat /\ Base + Len(out) < DiskSize
  BY <1>1, <1>2, <1>8, <1>9
<1>11. offset \in Nat /\ offset < size_of_cluster_bytes
  BY <1>2, <1>5, <1>6, <1>7
<1> QED
  BY <1>1, <1>3, <1>4, <1>5, <1>6, <1>7, <1>10, <1>11

(* The steps of RunInv, from what stays and what changes. *)
LEMMA SeekRuns ==
  ASSUME SoundVolume, ReadInv, RunInv, FirstOnly, SeekChunk
  PROVE  pos' = Base + Len(out')
<1>1. /\ pc = "chain" /\ out' = out
      /\ pos' = (fat16_cluster_to_sector(cluster) * SectorSize
                   + (offset % size_of_cluster_bytes)) % WordSize
  BY Zenon DEF SeekChunk
<1>2. cluster = req.first /\ req \in Requests
  BY <1>1, StateFacts DEF RunInv
<1>3. /\ BytesBefore \in Nat /\ offset = req.pos + BytesBefore /\ offset \in Nat
      /\ offset < size_of_cluster_bytes
      /\ Base + Len(out) \in Nat /\ Base + Len(out) < DiskSize
  BY <1>1, RunFacts
<1>4. Len(out) = BytesBefore
  BY <1>1, Zenon DEF ReadInv, Accounted
<1> DEFINE Small(x, s) == x \in Nat /\ s \in Nat \ {0} /\ x < s
<1>5. ASSUME NEW x, NEW s, Small(x, s)
      PROVE  x % s = x
  <2>1. x \in Nat /\ s \in Nat \ {0} /\ x < s
    BY <1>5
  <2> QED
    BY ONLY <2>1
<1>6. offset % size_of_cluster_bytes = offset
  <2>1. Small(offset, size_of_cluster_bytes)
    BY <1>3, Constants
  <2> HIDE DEF Small
  <2> QED
    BY <1>5, <2>1
<1>7. req.first \in Nat
  BY <1>2, RequestIsRun
<1>8. fat16_cluster_to_sector(cluster) * SectorSize = ClusterStart(req.first)
  BY <1>2, <1>7, DataIsFound
<1>9. ClusterStart(req.first) + offset = Base + Len(out)
  <2>1. req.first >= 2 /\ req.pos \in Nat
    <3>1. req.first \in DataClusters
      BY <1>2, ChainOfRequest
    <3> QED
      BY <1>2, <3>1, RequestFields DEF DataClusters
  <2>2. ClusterStart(req.first) \in Nat
    BY <1>7, <2>1, ClusterStarts
  <2> QED
    BY <1>3, <1>4, <2>1, <2>2 DEF Base
<1>10. pos' = (Base + Len(out)) % WordSize
  BY <1>1, <1>6, <1>8, <1>9, Zenon
<1>11. Base + Len(out) < WordSize
  BY <1>3, Constants DEF SoundVolume
<1>12. (Base + Len(out)) % WordSize = Base + Len(out)
  <2>1. Small(Base + Len(out), WordSize)
    BY <1>3, <1>11, Constants
  <2> HIDE DEF Small
  <2> QED
    BY <1>5, <2>1
<1> QED
  BY <1>1, <1>10, <1>12, Zenon

LEMMA ReadRuns ==
  ASSUME SoundVolume, ReadInv, RunInv, FirstOnly, ReadSector
  PROVE  Copied' /\ pos' = Base + Len(out')
<1>1. /\ pc = "stream" /\ OnDisk(pos) /\ pos' = pos + Delivered
      /\ out' = out \o [k \in 1..Delivered |-> disk[pos + k - 1]]
      /\ UNCHANGED <<disk, req>>
  BY Zenon DEF ReadSector
<1>2. pos = Base + Len(out) /\ Copied
  BY <1>1, Zenon DEF RunInv
<1>3. PICK d : d = Delivered
  BY Zenon
<1>4. d \in Nat
  BY <1>1, <1>3, StateFacts, DeliveredFits
<1>5. Len(out) \in Nat /\ Base \in Nat
  BY StateFacts, RequestIsRun
<1>6. out' \in Seq(0..255) /\ Len(out') = Len(out) + d
  <2>1. disk \in [0..(DiskSize - 1) -> 0..255] /\ out \in Seq(0..255)
    BY StateFacts, GeometryAssumption DEF ReadInv, Ranges
  <2> QED
    BY <1>1, <1>3, <2>1, StateFacts, DeliversBytes
<1>7. pos' = Base + Len(out')
  BY <1>1, <1>2, <1>3, <1>4, <1>5, <1>6
<1>8. \A k \in 1..Len(out') : out'[k] = disk[Base + k - 1]
  <2> TAKE k \in 1..Len(out')
  <2>1. PICK bytes : bytes = [i \in 1..d |-> disk[pos + i - 1]]
    BY Zenon
  <2>2. out' = out \o bytes
    BY <1>1, <1>3, <2>1, Zenon
  <2>3. bytes \in Seq(0..255) /\ Len(bytes) = d
    <3>1. \A i \in 1..d : disk[pos + i - 1] \in 0..255
      <4> TAKE i \in 1..d
      <4>1. pos + Delivered <= DiskSize
        BY <1>1, StateFacts, DeliveredFits
      <4>2. disk \in [0..(DiskSize - 1) -> 0..255]
        BY StateFacts, GeometryAssumption
      <4>3. pos + i - 1 \in 0..(DiskSize - 1)
        BY <1>3, <1>4, <4>1, StateFacts, Constants
      <4> QED
        BY <4>2, <4>3
    <3>2. bytes \in [1..d -> 0..255]
      BY <2>1, <3>1
    <3> QED
      BY <1>4, <3>2, SeqDef, LenProperties
  <2>4. out \in Seq(0..255)
    BY DEF ReadInv, Ranges
  <2>5. CASE k <= Len(out)
    <3>1. out'[k] = out[k]
      BY <1>5, <2>2, <2>3, <2>4, <2>5, ConcatProperties
    <3>2. k \in 1..Len(out)
      BY <1>5, <1>6, <2>5
    <3> QED
      BY <1>2, <3>1, <3>2 DEF Copied
  <2>6. CASE ~(k <= Len(out))
    <3>1. k - Len(out) \in 1..d
      BY <1>4, <1>5, <1>6, <2>6
    <3>2. out'[k] = bytes[k - Len(out)]
      BY <1>5, <1>6, <2>2, <2>3, <2>4, <2>6, ConcatProperties
    <3>3. bytes[k - Len(out)] = disk[pos + (k - Len(out)) - 1]
      BY <2>1, <3>1
    <3>4. pos + (k - Len(out)) - 1 = Base + k - 1
      BY <1>2, <1>5, <1>6
    <3> QED
      BY <3>2, <3>3, <3>4
  <2> QED
    BY <2>5, <2>6
<1>9. Copied'
  <2>1. disk' = disk /\ Base' = Base
    BY <1>1, SameRequest
  <2> QED
    BY <1>8, <2>1, Zenon DEF Copied
<1> QED
  BY <1>7, <1>9

(* What has to be shown of a step. *)
LEMMA RunStep ==
  ASSUME UNCHANGED <<disk, req>>,
         FirstOnly => /\ total' = req.size
                      /\ Copied'
                      /\ pc' = "chain" => ahead' = 0 /\ cluster' = req.first
                      /\ pc' = "stream" => pos' = Base + Len(out')
                      /\ pc' # "hang"
                      /\ pc' = "done" => res' = req.nmemb
  PROVE  RunInv'
<1>1. Base' = Base /\ (FirstOnly' <=> FirstOnly) /\ req' = req
  BY SameRequest
<1> QED
  BY <1>1, Zenon DEF RunInv

LEMMA SameOut ==
  ASSUME UNCHANGED <<disk, req, out>>, Copied
  PROVE  Copied'
<1>1. Base' = Base /\ disk' = disk /\ out' = out
  BY SameRequest
<1> QED
  BY <1>1, Zenon DEF Copied

(* The walk along the chain ends where it begins. *)
LEMMA ChainRuns ==
  ASSUME SoundVolume, ReadInv, RunInv,
         FollowChain \/ ChainEnds \/ ChainHangs \/ NextChunk
  PROVE  RunInv'
<1>1. UNCHANGED <<disk, req>>
  BY Zenon DEF FollowChain, ChainEnds, ChainHangs, NextChunk
<1>2. ~FirstOnly
  <2> SUFFICES ASSUME FirstOnly
               PROVE  FALSE
    OBVIOUS
  <2>1. CASE NextChunk
    <3>1. pc = "next" /\ total > ChunkSize
      BY <2>1, Zenon DEF NextChunk
    <3>2. total = ChunkSize /\ total \in Nat
      BY <3>1, RunFacts, StateFacts
    <3> QED
      BY <3>1, <3>2
  <2>2. CASE FollowChain \/ ChainEnds \/ ChainHangs
    <3>1. pc = "chain" /\ ahead > 0
      BY <2>2, Zenon DEF FollowChain, ChainEnds, ChainHangs
    <3>2. ahead = 0
      BY <3>1, Zenon DEF RunInv
    <3> QED
      BY <3>1, <3>2
  <2> QED
    BY <2>1, <2>2
<1> QED
  BY <1>1, <1>2, RunStep

LEMMA SeekKeepsRun ==
  ASSUME SoundVolume, ReadInv, RunInv, SeekChunk
  PROVE  RunInv'
<1>1. /\ UNCHANGED <<disk, req, out, total>> /\ pc' = "stream"
  BY Zenon DEF SeekChunk
<1>2. ASSUME FirstOnly
      PROVE  total' = req.size /\ Copied' /\ pos' = Base + Len(out')
  <2>1. total = req.size /\ Copied
    BY <1>2, Zenon DEF RunInv
  <2>2. Copied'
    BY <1>1, <2>1, SameOut
  <2> QED
    BY <1>1, <1>2, <2>1, <2>2, SeekRuns
<1> QED
  BY <1>1, <1>2, RunStep

LEMMA ReadKeepsRun ==
  ASSUME SoundVolume, ReadInv, RunInv, ReadSector
  PROVE  RunInv'
<1>1. UNCHANGED <<disk, req, total>> /\ pc' \in {"stream", "next"}
  BY DEF ReadSector
<1>2. ASSUME FirstOnly
      PROVE  total' = req.size /\ Copied' /\ pos' = Base + Len(out')
  <2>1. total = req.size
    BY <1>2, Zenon DEF RunInv
  <2> QED
    BY <1>1, <1>2, <2>1, ReadRuns
<1> QED
  BY <1>1, <1>2, RunStep

(* The disk has what is asked for. *)
LEMMA HangsKeepsRun ==
  ASSUME SoundVolume, ReadInv, RunInv, ReadHangs
  PROVE  RunInv'
<1>1. UNCHANGED <<disk, req>> /\ pc = "stream" /\ ~OnDisk(pos)
  BY Zenon DEF ReadHangs
<1>2. ~FirstOnly
  <2> SUFFICES ASSUME FirstOnly
               PROVE  FALSE
    OBVIOUS
  <2>1. pos = Base + Len(out)
    BY <1>1, Zenon DEF RunInv
  <2>2. Base + Len(out) \in Nat /\ Base + Len(out) < DiskSize
    BY <1>1, RunFacts
  <2>3. pos \in Nat /\ pos < DiskSize
    BY <2>1, <2>2, Zenon
  <2> QED
    BY <1>1, <2>3, Constants DEF OnDisk
<1> QED
  BY <1>1, <1>2, RunStep

(* The next member begins in the first cluster. *)
LEMMA MemberKeepsRun ==
  ASSUME SoundVolume, ReadInv, RunInv, NextMember
  PROVE  RunInv'
<1>1. /\ UNCHANGED <<disk, req, out>> /\ total' = req.size
      /\ pc' = "chain" /\ cluster' = req.first
      /\ ahead' = offset' \div size_of_cluster_bytes
      /\ n' = n + 1 /\ n + 1 < req.nmemb
      /\ offset' = req.pos + n' * req.size
  BY Zenon DEF NextMember, EnterChunk
<1>2. ASSUME FirstOnly
      PROVE  Copied' /\ ahead' = 0
  <2>1. Copied'
    BY <1>1, <1>2, SameOut, Zenon DEF RunInv
  <2>2. req \in Requests /\ n + 1 \in Nat
    BY StateFacts
  <2>3. /\ (n + 1) * req.size \in Nat /\ req.pos \in Nat
        /\ req.pos + (n + 1) * req.size < size_of_cluster_bytes
    BY <1>1, <1>2, <2>2, RequestNumbers DEF FirstOnly
  <2>4. offset' \in Nat /\ offset' < size_of_cluster_bytes
    BY <1>1, <2>3
  <2>5. offset' < 2 * size_of_cluster_bytes
    BY <2>4, Constants
  <2>6. offset' \div size_of_cluster_bytes = 0
    BY <2>4, <2>5, FirstOrSecond
  <2> QED
    BY <1>1, <2>1, <2>6
<1> QED
  BY <1>1, <1>2, RunStep

LEMMA FinishKeepsRun ==
  ASSUME RunInv, Finish
  PROVE  RunInv'
<1>1. UNCHANGED <<disk, req, out, total>> /\ pc' = "done" /\ res' = req.nmemb
  BY Zenon DEF Finish
<1>2. ASSUME FirstOnly
      PROVE  total' = req.size /\ Copied'
  <2>1. total = req.size /\ Copied
    BY <1>2, Zenon DEF RunInv
  <2> QED
    BY <1>1, <2>1, SameOut
<1> QED
  BY <1>1, <1>2, RunStep

LEMMA RunInit == Init => RunInv
<1> SUFFICES ASSUME Init, FirstOnly
             PROVE  RunInv
  BY Zenon DEF RunInv
<1>1. /\ req \in Requests /\ total = req.size /\ cluster = req.first
      /\ ahead = req.pos \div size_of_cluster_bytes
      /\ out = <<>> /\ pc = "chain"
  BY DEF Init
<1>2. req.pos \in Nat /\ req.pos < size_of_cluster_bytes
  BY <1>1, RequestNumbers DEF FirstOnly
<1>3. req.pos < 2 * size_of_cluster_bytes
  BY <1>2, Constants
<1>4. ahead = 0
  BY <1>1, <1>2, <1>3, FirstOrSecond
<1>5. Copied
  BY <1>1 DEF Copied
<1> QED
  BY <1>1, <1>4, <1>5 DEF RunInv

(* When such a request is done its buffer has the bytes of the file. *)
LEMMA RunReads == SoundVolume /\ ReadInv /\ RunInv => FirstClusterReads
<1> SUFFICES ASSUME SoundVolume, ReadInv, RunInv, FirstOnly,
                    pc \in {"done", "hang"}
             PROVE  pc = "done" /\ res = req.nmemb /\ out = FileBytes
  BY Zenon DEF FirstClusterReads, FirstOnly
<1>1. pc = "done" /\ res = req.nmemb /\ Copied
  BY DEF RunInv
<1>2. Len(out) = Size /\ out \in Seq(0..255)
  BY <1>1 DEF ReadInv, Ranges, Accounted, Size
<1>3. req \in Requests
  BY StateFacts
<1>4. FileBytes = [k \in 1..Size |-> disk[Base + k - 1]]
  BY <1>3, RequestIsRun
<1>5. out = [k \in 1..Len(out) |-> out[k]]
  BY <1>2, LenProperties
<1>6. \A k \in 1..Len(out) : out[k] = disk[Base + k - 1]
  BY <1>1, Zenon DEF Copied
<1>7. out = FileBytes
  <2> HIDE DEF Size, Base
  <2>1. [k \in 1..Len(out) |-> out[k]] = [k \in 1..Len(out) |-> disk[Base + k - 1]]
    BY <1>6
  <2> QED
    BY <1>2, <1>4, <1>5, <2>1, Zenon
<1> QED
  BY <1>1, <1>7

(***************************************************************************)
(* fat16_read is right where no table entry is needed: a request whose     *)
(* chunks all start in the first cluster of a file, and that stays in it   *)
(* or is for a file in consecutive clusters, never hangs and returns the   *)
(* bytes of the file.  That is so for every disk and every geometry whose  *)
(* root directory fills its sectors, whose disk goes on behind the last    *)
(* cluster, and whose positions do not wrap around (SoundVolume).          *)
(***************************************************************************)
THEOREM ReadsWithoutTable ==
  ASSUME SoundVolume
  PROVE  Spec => []FirstClusterReads
<1>1. ReadInv /\ RunInv /\ [Next]_vars => RunInv'
  <2> SUFFICES ASSUME ReadInv, RunInv, [Next]_vars
               PROVE  RunInv'
    OBVIOUS
  <2>1. CASE UNCHANGED vars
    <3>1. UNCHANGED <<disk, req, out, total, ahead, cluster, pos, pc, res>>
      BY <2>1, Zenon DEF vars
    <3>2. FirstOnly => Copied'
      BY <3>1, SameOut, Zenon DEF RunInv
    <3> QED
      BY <3>1, <3>2, RunStep, Zenon DEF RunInv
  <2>2. CASE Next
    BY <2>2, ChainRuns, SeekKeepsRun, ReadKeepsRun, HangsKeepsRun,
       MemberKeepsRun, FinishKeepsRun DEF Next
  <2> QED
    BY <2>1, <2>2
<1>2. ReadInv /\ RunInv => FirstClusterReads
  BY RunReads
<1> QED
  BY <1>1, <1>2, RunInit, ReadInvariant, PTL DEF Spec

=============================================================================
