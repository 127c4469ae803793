------------------------------- MODULE FatRead -------------------------------
(***************************************************************************)
(* fat16_read of src/fs/fat/fat16.c on the bytes of a disk: the loop over  *)
(* the members, the recursion over the chunks of a member, the walk along  *)
(* the cluster chain, and the recursion of diskstreamer_read over the      *)
(* sectors of a chunk (src/disk/streamer.c).  One iteration is one step.   *)
(*                                                                         *)
(* The functions are called with interrupts disabled and one at a time, so *)
(* that one request per behaviour shows everything they do.  A disk never  *)
(* answers a request for a sector it does not have, and disk_read_sector   *)
(* polls for the answer without a limit: that is pc = "hang".              *)
(***************************************************************************)
EXTENDS Integers, Sequences

CONSTANTS SectorSize,        \* BENOS_SECTOR_SIZE
          SectorsPerCluster, ReservedSectors, FatCopies, SectorsPerFat,
          RootDirEntries,    \* the fields of struct fat_header
          ItemSize,          \* sizeof(struct fat_dir_item)
          WordSize,          \* 2^32, where positions wrap
          DiskSize,          \* in bytes
          Disks,             \* the disks to read
          Requests           \* [first, pos, size, nmemb]: first cluster and
                             \* position of the file, arguments of fread

(* The numbers of clusters and the entries of the table are uint16_t. *)
MaxUInt16 == 65535
UInt16 == 0..MaxUInt16

ASSUME GeometryAssumption ==
  /\ {SectorSize, SectorsPerCluster, ReservedSectors, SectorsPerFat, WordSize}
       \subseteq Nat \ {0}
  /\ {FatCopies, RootDirEntries, ItemSize, DiskSize} \subseteq Nat
  /\ DiskSize % SectorSize = 0
  /\ Disks \subseteq [0..(DiskSize - 1) -> 0..255]

(* fread refuses a size or a number of members that is 0 (fs/file.c:217).  *)
ASSUME RequestsAssumption ==
  Requests \subseteq [first : UInt16, pos : Nat,
                      size : Nat \ {0}, nmemb : Nat \ {0}]

VARIABLES disk, req,
          n,       \* members read
          offset,  \* of the chunk in the file
          total,   \* bytes of the member still to read
          cluster, ahead, \* cluster_to_use, and how many entries to follow
          pos,     \* position of cluster_read_stream
          want,    \* bytes the stream must still deliver for the chunk
          out,     \* what has been written to the caller's buffer
          res, pc

vars == <<disk, req, n, offset, total, cluster, ahead, pos, want, out, res, pc>>

-----------------------------------------------------------------------------

EIO == 1

size_of_cluster_bytes == SectorsPerCluster * SectorSize

(* ending_sector_pos of fat16_get_root_dir, where the data is taken to     *)
(* begin: the size of the root directory is rounded down.                  *)
ending_sector_pos == FatCopies * SectorsPerFat + ReservedSectors
                       + (RootDirEntries * ItemSize) \div SectorSize

fat16_cluster_to_sector(c) == ending_sector_pos + (c - 2) * SectorsPerCluster

OnDisk(p) == p \in 0..(DiskSize - 1)

(* diskstreamer_read reads a further sector, for 0 bytes, when a read ends *)
(* with a sector.                                                          *)
CanRead(p, len) == OnDisk(p) /\ OnDisk(p + len)

Word16(p) == disk[p] + 256 * disk[p + 1]

(* Where fat16_get_fat_entry looks for the entry of a cluster: the start   *)
(* of the table times the offset of the entry.                             *)
FatEntryPosition(c) == ((ReservedSectors * SectorSize) * (c * 2)) % WordSize

(* The entries that fat16_get_cluster_for_offset refuses to follow: end of *)
(* file, bad sector, reserved, unused.                                     *)
NotACluster == {4088, 4095, 4087, 4080, 4086, 0}

ChunkSize == IF total > size_of_cluster_bytes THEN size_of_cluster_bytes
                                              ELSE total

-----------------------------------------------------------------------------

Init == /\ disk \in Disks
        /\ req \in Requests
        /\ n = 0
        /\ offset = req.pos
        /\ total = req.size
        /\ cluster = req.first
        /\ ahead = req.pos \div size_of_cluster_bytes
        /\ pos = 0
        /\ want = 0
        /\ out = <<>>
        /\ res = 0
        /\ pc = "chain"

(* fat16_read_internal_from_stream is entered: the walk starts again at    *)
(* the first cluster of the file.                                          *)
EnterChunk == /\ cluster' = req.first
              /\ ahead' = offset' \div size_of_cluster_bytes
              /\ pc' = "chain"

(* The loop of fat16_get_cluster_for_offset. *)
FollowChain ==
  /\ pc = "chain"
  /\ ahead > 0
  /\ CanRead(FatEntryPosition(cluster), 2)
  /\ Word16(FatEntryPosition(cluster)) \notin NotACluster
  /\ cluster' = Word16(FatEntryPosition(cluster))
  /\ ahead' = ahead - 1
  /\ UNCHANGED <<disk, req, n, offset, total, pos, want, out, res, pc>>

ChainEnds ==
  /\ pc = "chain"
  /\ ahead > 0
  /\ CanRead(FatEntryPosition(cluster), 2)
  /\ Word16(FatEntryPosition(cluster)) \in NotACluster
  /\ res' = -EIO
  /\ pc' = "done"
  /\ UNCHANGED <<disk, req, n, offset, total, cluster, ahead, pos, want, out>>

ChainHangs ==
  /\ pc = "chain"
  /\ ahead > 0
  /\ ~CanRead(FatEntryPosition(cluster), 2)
  /\ pc' = "hang"
  /\ UNCHANGED <<disk, req, n, offset, total, cluster, ahead, pos, want, out,
                 res>>

(* The stream is positioned in the cluster.  A variant that forgets the    *)
(* offset in it.                                                           *)
SeekClusterStart ==
  /\ pc = "chain"
  /\ ahead = 0
  /\ pos' = (fat16_cluster_to_sector(cluster) * SectorSize) % WordSize
  /\ want' = ChunkSize
  /\ pc' = "stream"
  /\ UNCHANGED <<disk, req, n, offset, total, cluster, ahead, out, res>>

SeekChunk ==
  /\ pc = "chain"
  /\ ahead = 0
  /\ pos' = (fat16_cluster_to_sector(cluster) * SectorSize
               + (offset % size_of_cluster_bytes)) % WordSize
  /\ want' = ChunkSize
  /\ pc' = "stream"
  /\ UNCHANGED <<disk, req, n, offset, total, cluster, ahead, out, res>>

(* One call of diskstreamer_read: what is wanted of one sector.            *)
Overflow == (pos % SectorSize) + want >= SectorSize

Delivered == IF Overflow THEN SectorSize - (pos % SectorSize) ELSE want

(* A variant that asks the next sector for everything again. *)
ReadSectorAgain ==
  /\ pc = "stream"
  /\ OnDisk(pos)
  /\ out' = out \o [k \in 1..Delivered |-> disk[pos + k - 1]]
  /\ pos' = pos + Delivered
  /\ IF Overflow THEN UNCHANGED <<want, pc>>
                 ELSE want' = 0 /\ pc' = "next"
  /\ UNCHANGED <<disk, req, n, offset, total, cluster, ahead, res>>

ReadSector ==
  /\ pc = "stream"
  /\ OnDisk(pos)
  /\ out' = out \o [k \in 1..Delivered |-> disk[pos + k - 1]]
  /\ pos' = pos + Delivered
  /\ want' = want - Delivered
  /\ pc' = IF Overflow THEN "stream" ELSE "next"
  /\ UNCHANGED <<disk, req, n, offset, total, cluster, ahead, res>>

ReadHangs ==
  /\ pc = "stream"
  /\ ~OnDisk(pos)
  /\ pc' = "hang"
  /\ UNCHANGED <<disk, req, n, offset, total, cluster, ahead, pos, want, out,
                 res>>

(* After a chunk: the rest of the member is read by the recursive call.    *)
(* A variant with the test total >= 0.                                     *)
NextChunkAlways ==
  /\ pc = "next"
  /\ offset' = offset + ChunkSize
  /\ total' = total - ChunkSize
  /\ EnterChunk
  /\ UNCHANGED <<disk, req, n, pos, want, out, res>>

NextChunk ==
  /\ pc = "next"
  /\ total > ChunkSize
  /\ offset' = offset + ChunkSize
  /\ total' = total - ChunkSize
  /\ EnterChunk
  /\ UNCHANGED <<disk, req, n, pos, want, out, res>>

(* The loop of fat16_read.  A variant that reads a member too many.        *)
NextMemberOneMore ==
  /\ pc = "next"
  /\ total = ChunkSize
  /\ n < req.nmemb
  /\ n' = n + 1
  /\ offset' = req.pos + n' * req.size
  /\ total' = req.size
  /\ EnterChunk
  /\ UNCHANGED <<disk, req, pos, want, out, res>>

NextMember ==
  /\ pc = "next"
  /\ total = ChunkSize
  /\ n + 1 < req.nmemb
  /\ n' = n + 1
  /\ offset' = req.pos + n' * req.size
  /\ total' = req.size
  /\ EnterChunk
  /\ UNCHANGED <<disk, req, pos, want, out, res>>

Finish ==
  /\ pc = "next"
  /\ total = ChunkSize
  /\ n + 1 >= req.nmemb
  /\ n' = n + 1
  /\ res' = req.nmemb
  /\ pc' = "done"
  /\ UNCHANGED <<disk, req, offset, total, cluster, ahead, pos, want, out>>

Next == \/ FollowChain \/ ChainEnds \/ ChainHangs
        \/ SeekChunk \/ ReadSector \/ ReadHangs
        \/ NextChunk \/ NextMember \/ Finish

Spec == Init /\ [][Next]_vars /\ WF_vars(Next)

-----------------------------------------------------------------------------
(* What a FAT16 volume says: the table begins after the reserved sectors,  *)
(* the data after the whole root directory, and an entry that is not the   *)
(* number of a cluster of the disk ends the file.                          *)

FirstDataSector == FatCopies * SectorsPerFat + ReservedSectors
                     + (RootDirEntries * ItemSize + SectorSize - 1)
                         \div SectorSize

ClusterStart(c) ==
  (FirstDataSector + (c - 2) * SectorsPerCluster) * SectorSize

DataClusters == {c \in 2..((SectorsPerFat * SectorSize) \div 2 - 1) :
                   ClusterStart(c + 1) <= DiskSize}

(* What is taken for granted of the volume: positions do not wrap around,  *)
(* the root directory fills its sectors, so that rounding its size down    *)
(* makes no difference, and the disk does not end with a cluster, behind   *)
(* which a read that ends there would look for one more sector.            *)
SoundVolume == /\ DiskSize <= WordSize
               /\ (RootDirEntries * ItemSize) % SectorSize = 0
               /\ \A c \in DataClusters : ClusterStart(c + 1) < DiskSize

FatEntry(c) == Word16(ReservedSectors * SectorSize + 2 * c)

(* The clusters of the requested file, as far as the request reaches. *)
Chain == LET last == (req.pos + req.size * req.nmemb) \div size_of_cluster_bytes
             f[k \in 0..last] ==
               IF k = 0 THEN req.first
               ELSE IF f[k - 1] \in DataClusters THEN FatEntry(f[k - 1])
               ELSE f[k - 1]
         IN  f

Requested == req.pos .. (req.pos + req.size * req.nmemb - 1)

AllInFile ==
  \A o \in Requested : Chain[o \div size_of_cluster_bytes] \in DataClusters

FileBytes == [k \in 1..(req.size * req.nmemb) |->
                disk[ClusterStart(Chain[(req.pos + k - 1)
                                          \div size_of_cluster_bytes])
                       + ((req.pos + k - 1) % size_of_cluster_bytes)]]

Contiguous ==
  \A k \in DOMAIN Chain \ {0} :
    Chain[k] \in DataClusters => Chain[k] = Chain[k - 1] + 1

(* Every chunk of the request starts in the first cluster of the file. *)
StartsInFirstCluster ==
  /\ req.size <= size_of_cluster_bytes
  /\ req.pos + (req.nmemb - 1) * req.size < size_of_cluster_bytes

-----------------------------------------------------------------------------
(* Properties. *)

(***************************************************************************)
(* Types: a request has as many members read as it asked for at most, and  *)
(* a chunk is never longer than a cluster.                                 *)
(***************************************************************************)
TypeOK == /\ disk \in Disks
          /\ req \in Requests
          /\ n \in 0..req.nmemb
          /\ offset \in req.pos..(req.pos + req.size * req.nmemb)
          /\ total \in 0..req.size
          /\ cluster \in UInt16
          /\ ahead \in Nat
          /\ pos \in 0..(WordSize + size_of_cluster_bytes)
          /\ want \in 0..size_of_cluster_bytes
          /\ out \in Seq(0..255)
          /\ res \in {0, -EIO, req.nmemb}
          /\ pc \in {"chain", "stream", "next", "hang", "done"}

(***************************************************************************)
(* Where no table entry is needed fat16_read is right: a request whose     *)
(* chunks all start in the first cluster, and that stays in it or is for a *)
(* file in consecutive clusters, returns the bytes of the file, across     *)
(* sectors, cluster ends and members, and never hangs.  These are the      *)
(* files the kernel loads.                                                 *)
(***************************************************************************)
FirstClusterReads ==
  /\ pc \in {"done", "hang"}
  /\ StartsInFirstCluster
  /\ AllInFile
  /\ Contiguous \/ \A o \in Requested : o < size_of_cluster_bytes
  => pc = "done" /\ res = req.nmemb /\ out = FileBytes

(***************************************************************************)
(* Whatever the volume holds, fread never writes past the buffer of its    *)
(* caller, and when it reports that all members were read it has written   *)
(* all of them: no byte is skipped or written twice where chunks, sectors  *)
(* and members meet.                                                       *)
(***************************************************************************)
BufferExact ==
  /\ Len(out) <= req.size * req.nmemb
  /\ pc = "done" /\ res = req.nmemb => Len(out) = req.size * req.nmemb

(* The recursions and loops of a read end, or the disk does not answer. *)
ReadEnds == <>(pc \in {"done", "hang"})

(***************************************************************************)
(* What fat16.c:363 says of fat16_get_cluster_for_offset, that it gets the *)
(* correct cluster based on the starting cluster and the offset, would     *)
(* give every read the bytes of the file.  The entry of a cluster is       *)
(* looked up at the wrong place.                                           *)
(***************************************************************************)
ReadsTheFile ==
  pc \in {"done", "hang"} /\ AllInFile => pc = "done" /\ out = FileBytes

=============================================================================
