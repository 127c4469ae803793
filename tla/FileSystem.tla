----------------------------- MODULE FileSystem -----------------------------
(***************************************************************************)
(* fopen, fread, fseek, fstat and fclose of src/fs/file.c, with the path   *)
(* parser (src/fs/pparser.c) and the search through directories of         *)
(* src/fs/fat/fat16.c.  What is read of a file is in module FatRead; here  *)
(* a directory is the sequence of its entries.                             *)
(*                                                                         *)
(* fopen is a long call that allocates in many places: a step is one       *)
(* iteration of one of its loops.  The heap is the set of its blocks, each *)
(* object has a block of its own, and an allocation takes the first free   *)
(* one.  Where the code uses address 0 or memory it has freed as an        *)
(* object, what happens next is not in its source: pc = "wild".            *)
(***************************************************************************)
EXTENDS Integers, Sequences, SequencesExt

CONSTANTS Memory,      \* number of blocks of the heap
          BENOS_MAX_FILE_DESCRIPTORS,
          BENOS_MAX_PATH,
          LowerOf,     \* the lower-case letter of an upper-case one
          Root,        \* the first cluster of a directory stands for it;
          Volumes,     \* [directory -> sequence of entries], from its first
                       \* sector on and up to the first empty entry
          ClusterEntries, \* entries in a cluster
          Opens,       \* the [path, mode] that fopen is called with
          Offsets,
          MaxOpens,    \* bound on the calls of fopen that allocate
          MaxPos       \* bound on the position in a file

ASSUME FileSystemAssumption ==
  /\ Memory \in Nat /\ Memory >= 6
  /\ BENOS_MAX_FILE_DESCRIPTORS \in Nat \ {0}
  /\ Offsets \subseteq Nat
  /\ MaxOpens \in Nat
  /\ ClusterEntries \in Nat \ {0}
  /\ \A o \in Opens : o.path \in Seq(STRING)

(* Sizes are uint32_t, and the cluster of an entry for a directory is that *)
(* of a directory.                                                         *)
ASSUME VolumesAssumption ==
  \A v \in Volumes :
    /\ Root \in DOMAIN v
    /\ \A d \in DOMAIN v :
         /\ Len(v[d]) \in Nat /\ DOMAIN v[d] = 1..Len(v[d])
         /\ \A k \in DOMAIN v[d] :
              /\ v[d][k].file_size \in Nat
              /\ v[d][k].dir => v[d][k].first \in DOMAIN v

VARIABLES dirs,     \* what is on the disk
          mounted,  \* disk.filesystem is not NULL
          heap,     \* [block -> object]
          file_descriptors,
          call,     \* the variables of a call of fopen
          opens,    \* calls of fopen so far
          pc,
          result,   \* of the last call; -1 is any of its error codes
          mishaps   \* history: what went wrong so far

vars == <<dirs, mounted, heap, file_descriptors, call, opens, pc, result,
          mishaps>>

-----------------------------------------------------------------------------
(* Memory.  A pointer is a block number, and 0 is NULL.                    *)

Blocks == 1..Memory

Free == [kind |-> "free"]

Is(h, p, kind) == p # 0 /\ h[p].kind = kind

(* The block that kzalloc returns when those in taken have just been given *)
(* out by the same step; when it returns NULL so does every later call.    *)
kzalloc(taken) ==
  LET free == {b \in Blocks \ taken : heap[b] = Free}
  IN  IF free = {} THEN 0 ELSE CHOOSE b \in free : \A c \in free : b <= c

(* An array of n entries.  kzalloc(0) reserves nothing: it returns the     *)
(* first block of the free ones at the end of the heap, or NULL.           *)
kzalloc_items(n, taken) ==
  LET end == {b \in Blocks : \A c \in b..Memory : c \notin taken /\ heap[c] = Free}
  IN  IF n # 0 THEN kzalloc(taken)
      ELSE IF end = {} THEN 0 ELSE CHOOSE b \in end : \A c \in end : b <= c

(* The heap when the pointer p points to this object. *)
Put(h, p, object) == [b \in Blocks |-> IF b = p THEN object ELSE h[b]]

kfree(h, ps) == [b \in Blocks |-> IF b \in ps THEN Free ELSE h[b]]

(* Entries of directories. *)

DELETED == "0xE5"

tolower(c) == IF c \in DOMAIN LowerOf THEN LowerOf[c] ELSE c

istrncmp_equal(s, t) ==
  Len(s) = Len(t) /\ \A i \in DOMAIN s : tolower(s[i]) = tolower(t[i])

fat16_to_proper_string(s) ==
  SubSeq(s, 1, CHOOSE k \in 0..Len(s) : /\ \A i \in 1..k : s[i] # " "
                                        /\ k = Len(s) \/ s[k + 1] = " ")

fat16_get_full_relative_filename(entry) ==
  fat16_to_proper_string(entry.fname)
    \o IF Head(entry.ext) = " " THEN <<>>
       ELSE <<".">> \o fat16_to_proper_string(entry.ext)

(* The count of entries leaves out the deleted ones; the search does not.  *)
(* A variant counts one less.                                              *)
TotalOneLess(d) ==
  Cardinality({k \in DOMAIN dirs[d] : Head(dirs[d][k].fname) # DELETED}) - 1

fat16_get_total_items_for_dir(d) ==
  Cardinality({k \in DOMAIN dirs[d] : Head(dirs[d][k].fname) # DELETED})

(* Objects of an open file, and what fat16_fat_item_free frees: nothing it *)
(* can free without using NULL or freed memory makes it go wild.           *)

IsItem(h, item, type) == Is(h, item, "item") /\ h[item].type = type

Loaded(h, item) == Is(h, item, "item") /\ Is(h, h[item].ref, h[item].type)

CanFree(h, item) ==
  \/ Loaded(h, item)
  \/ IsItem(h, item, "dir") /\ h[item].ref = 0

(* A variant that frees the structure and not the array in it. *)
ItemBlocksWithoutArray(h, item) == {item, h[item].ref}

ItemBlocks(h, item) ==
  LET ref == h[item].ref
  IN  {item, ref} \cup IF Is(h, ref, "dir") THEN {h[ref].items} \ {0} ELSE {}

(* The array of an empty directory is memory that was not reserved, at     *)
(* stray: to free it is harmless unless somebody else has it by then.      *)
FreesStray(h, item, own) ==
  /\ Is(h, h[item].ref, "dir")
  /\ h[h[item].ref].stray \notin {0} \cup own
  /\ h[h[h[item].ref].stray] # Free

-----------------------------------------------------------------------------

(* A parsed path when nothing points to it any more: its blocks stay       *)
(* allocated.                                                              *)
LosePath(h) ==
  [b \in Blocks |-> IF h[b].kind \in {"root", "name", "part"}
                    THEN [kind |-> "path"] ELSE h[b]]

NoCall == [path |-> <<>>, rest |-> <<>>, mode |-> "r", root |-> 0, part |-> 0,
           desc |-> 0, curr |-> 0, dir |-> 0, i |-> 0, found |-> 0,
           astray |-> FALSE]

Init == /\ dirs \in Volumes
        /\ mounted = FALSE
        /\ heap = [b \in Blocks |-> Free]
        /\ file_descriptors = [fd \in 1..BENOS_MAX_FILE_DESCRIPTORS |-> 0]
        /\ call = NoCall
        /\ opens = 0
        /\ pc = "boot"
        /\ result = 0
        /\ mishaps = {}

(* At boot, with fat16_init_private and fat16_get_root_dir: three streams, *)
(* one for the header that is closed again, and the root directory.  When  *)
(* the disk has no FAT16 signature only the private structure is freed.    *)
fat16_resolve ==
  /\ pc = "boot"
  /\ mounted' \in BOOLEAN
  /\ heap' = [b \in Blocks |->
                CASE b \in 2..4           -> [kind |-> "stream"]
                  [] b = 1 /\ mounted'    -> [kind |-> "private"]
                  [] b = 6 /\ mounted'    -> [kind |-> "root_dir"]
                  [] OTHER                -> heap[b]]
  /\ pc' = "idle"
  /\ UNCHANGED <<dirs, file_descriptors, call, opens, result, mishaps>>

Return(h, r) == /\ heap' = LosePath(h)
                /\ call' = NoCall
                /\ result' = r
                /\ pc' = "idle"

(* NULL, freed memory or that of another is used as an object: by a call   *)
(* after one of the mishaps, or because an allocation has just failed.  Or *)
(* the disk is asked for a sector that it does not have and never answers. *)
GoWild(whys) == /\ pc' = "wild"
                /\ mishaps' = mishaps \cup whys
                /\ UNCHANGED <<heap, file_descriptors, call, result>>

-----------------------------------------------------------------------------
(* fopen, up to the parsed path. *)

pathparser_path_valid_format(path) ==
  /\ Len(path) >= 3
  /\ path[1] \in {"0", "1", "2", "3", "4", "5", "6", "7", "8", "9"}
  /\ path[2] = ":"
  /\ path[3] = "/"

fopen(o) ==
  /\ pc = "idle"
  /\ Len(o.path) <= BENOS_MAX_PATH
  /\ pathparser_path_valid_format(o.path)
  /\ call' = [NoCall EXCEPT !.path = o.path, !.mode = o.mode,
                            !.rest = SubSeq(o.path, 4, Len(o.path))]
  /\ opens < MaxOpens
  /\ opens' = opens + 1
  /\ pc' = "root"
  /\ UNCHANGED <<dirs, mounted, heap, file_descriptors, result, mishaps>>

fopen_bad_path(o) ==
  /\ pc = "idle"
  /\ \/ Len(o.path) > BENOS_MAX_PATH
     \/ ~pathparser_path_valid_format(o.path)
  /\ Return(heap, 0)
  /\ UNCHANGED <<dirs, mounted, opens, file_descriptors, mishaps>>

pathparser_create_root ==
  /\ pc = "root"
  /\ \E root \in {kzalloc({})} :
       IF root = 0 THEN GoWild({"no memory"})
       ELSE /\ heap' = Put(heap, root, [kind |-> "root", first |-> 0])
            /\ call' = [call EXCEPT !.root = root]
            /\ pc' = "parts"
            /\ UNCHANGED <<file_descriptors, result, mishaps>>
  /\ UNCHANGED <<dirs, mounted, opens>>

(* How many characters pathparser_get_path_part takes. *)
PartLength == CHOOSE k \in 0..Len(call.rest) :
                /\ \A i \in 1..k : call.rest[i] # "/"
                /\ k = Len(call.rest) \/ call.rest[k + 1] = "/"

Link(h, part) == IF call.part = 0 THEN [h EXCEPT ![call.root].first = part]
                                  ELSE [h EXCEPT ![call.part].next = part]

pathparser_parse_path_part ==
  /\ pc = "parts"
  /\ PartLength > 0
  /\ \E name \in {kzalloc({})} : \E part \in {kzalloc({name})} :
       IF part = 0 THEN GoWild({"no memory"})
       ELSE /\ heap' =
                 Link(Put(Put(heap, name,
                              [kind |-> "name",
                               text |-> SubSeq(call.rest, 1, PartLength)]),
                          part, [kind |-> "part", name |-> name, next |-> 0]),
                      part)
            /\ call' = [call EXCEPT
                          !.part = part,
                          !.rest = SubSeq(@, PartLength + 2, Len(@))]
            /\ UNCHANGED <<file_descriptors, pc, result, mishaps>>
  /\ UNCHANGED <<dirs, mounted, opens>>

(* The empty part that ends the path, at its end or at a double slash: its *)
(* name is allocated and freed again.                                      *)
pathparser_parse_end ==
  /\ pc = "parts"
  /\ PartLength = 0
  /\ IF kzalloc({}) = 0 THEN GoWild({"no memory"})
     ELSE /\ pc' = "opening"
          /\ UNCHANGED <<heap, file_descriptors, call, result, mishaps>>
  /\ UNCHANGED <<dirs, mounted, opens>>

-----------------------------------------------------------------------------
(* fopen, from the parsed path to the directory entry. *)

Openable == /\ heap[call.root].first # 0
            /\ call.path[1] = "0"
            /\ mounted
            /\ call.mode = "r"

fopen_refused ==
  /\ pc = "opening"
  /\ ~Openable
  /\ Return(heap, 0)
  /\ UNCHANGED <<dirs, mounted, opens, file_descriptors, mishaps>>

(* The beginning of fat16_open and of fat16_get_dir_entry. *)
fat16_open ==
  /\ pc = "opening"
  /\ Openable
  /\ \E desc \in {kzalloc({})} :
       IF desc = 0
       THEN /\ Return(heap, 0)
            /\ mishaps' = mishaps \cup {"no memory"}
       ELSE /\ heap' = Put(heap, desc, [kind |-> "descriptor", item |-> 0,
                                        pos |-> 0, relative |-> FALSE])
            /\ call' = [call EXCEPT !.desc = desc, !.i = 1,
                                    !.part = heap[call.root].first]
            /\ pc' = "find"
            /\ UNCHANGED <<result, mishaps>>
  /\ UNCHANGED <<dirs, mounted, opens, file_descriptors>>

(* The loop of fat16_find_item_in_dir; call.dir = 0 is the root directory. *)

Searched == IF call.dir = 0 THEN Root ELSE heap[call.dir].id

Entry == IF call.dir = 0 THEN dirs[Root][call.i]
         ELSE heap[call.dir].entries[call.i]

Searching == pc = "find" /\ call.i <= fat16_get_total_items_for_dir(Searched)

Matches == istrncmp_equal(fat16_get_full_relative_filename(Entry),
                          heap[heap[call.part].name].text)

(* A variant that goes on without the i++ of the for loop. *)
find_no_match_again ==
  /\ Searching
  /\ ~Matches
  /\ UNCHANGED vars

find_no_match ==
  /\ Searching
  /\ ~Matches
  /\ call' = [call EXCEPT !.i = @ + 1]
  /\ UNCHANGED <<dirs, mounted, opens, heap, file_descriptors, pc, result,
                 mishaps>>

NoMemory(pointers) == IF 0 \in pointers THEN {"no memory"} ELSE {}

(* A call goes astray when an allocation of its search fails or it loads a *)
(* directory longer than a cluster.                                        *)
Found(item, whys) ==
  /\ call' = [call EXCEPT !.i = @ + 1, !.found = item,
                          !.astray = @ \/ whys # {}]
  /\ mishaps' = mishaps \cup whys

(* fat16_new_fat_item_for_dir_item of a file: a clone of the entry. *)
find_file ==
  /\ Searching
  /\ Matches
  /\ ~Entry.dir
  /\ \E item \in {kzalloc({})} : \E clone \in {kzalloc({item})} :
       /\ heap' = Put(Put(heap, item, [kind |-> "item", type |-> "file",
                                       ref |-> clone]),
                      clone, [kind |-> "file", entry |-> Entry])
       /\ Found(item, NoMemory({item, clone}))
  /\ UNCHANGED <<dirs, mounted, opens, file_descriptors, pc, result>>

(* What fat16_read makes of a directory.  Behind its first cluster it      *)
(* follows what it takes for the table (module FatRead) and reads some     *)
(* other cluster, or fails, or asks for a sector that is not there.        *)
IsLong(d) == fat16_get_total_items_for_dir(d) > ClusterEntries

Stored == UNION {{dirs[d][k] : k \in DOMAIN dirs[d]} : d \in DOMAIN dirs}

Contents(d) ==
  {entries \in [1..fat16_get_total_items_for_dir(d) -> Stored] :
     \A k \in DOMAIN entries :
       k <= ClusterEntries => entries[k] = dirs[d][k]}

LoadedDir(d, items, entries) ==
  LET empty == fat16_get_total_items_for_dir(d) = 0
  IN  [kind |-> "dir", id |-> d, entries |-> entries,
       items |-> IF empty THEN 0 ELSE items,
       stray |-> IF empty THEN items ELSE 0]

(* fat16_load_fat_dir: when there is no memory for the entries or they     *)
(* cannot be read the directory is freed, and returned all the same.       *)
find_dir ==
  /\ Searching
  /\ Matches
  /\ Entry.dir
  /\ \E item \in {kzalloc({})} : \E dir \in {kzalloc({item})} :
       \E items \in {kzalloc_items(fat16_get_total_items_for_dir(Entry.first),
                                   {item, dir})} :
         \E kept \in {items} \cup IF IsLong(Entry.first) THEN {0} ELSE {} :
           \E loaded \in {LoadedDir(Entry.first, kept, entries) :
                            entries \in Contents(Entry.first)} :
             /\ heap' = Put(Put(Put(heap, item, [kind |-> "item",
                                                 type |-> "dir",
                                                 ref |-> dir]),
                                loaded.items, [kind |-> "items"]),
                            dir, IF kept = 0 THEN Free ELSE loaded)
             /\ Found(item,
                      NoMemory({item, dir, items})
                        \cup (IF kept # items THEN {"not read"} ELSE {})
                        \cup IF IsLong(Entry.first) THEN {"long directory"}
                              ELSE {})
  /\ UNCHANGED <<dirs, mounted, opens, file_descriptors, pc, result>>

find_dir_hangs ==
  /\ Searching
  /\ Matches
  /\ Entry.dir
  /\ IsLong(Entry.first)
  /\ \E item \in {kzalloc({})} : \E dir \in {kzalloc({item})} :
       kzalloc({item, dir}) # 0
  /\ GoWild({"not read"})
  /\ UNCHANGED <<dirs, mounted, opens>>

OpenFails == Return(kfree(heap, {call.desc}), 0)

(* The search is over: in fat16_get_dir_entry the result takes the place   *)
(* of the directory it was found in, which is freed.  There is a variant   *)
(* that frees the new item.                                                *)
find_end_root ==
  /\ pc = "find"
  /\ call.i > fat16_get_total_items_for_dir(Searched)
  /\ call.dir = 0
  /\ IF call.found = 0
     THEN OpenFails
     ELSE /\ pc' = "walk"
          /\ call' = [call EXCEPT !.curr = call.found]
          /\ UNCHANGED <<heap, result>>
  /\ UNCHANGED <<dirs, mounted, opens, file_descriptors, mishaps>>

find_end_dir_frees_found ==
  /\ pc = "find"
  /\ call.i > fat16_get_total_items_for_dir(Searched)
  /\ call.dir # 0
  /\ heap' = IF call.found = 0 THEN heap
             ELSE kfree(heap, ItemBlocks(heap, call.found))
  /\ pc' = "walk"
  /\ call' = [call EXCEPT !.curr = call.found]
  /\ UNCHANGED <<dirs, mounted, opens, file_descriptors, result, mishaps>>

find_end_dir ==
  /\ pc = "find"
  /\ call.i > fat16_get_total_items_for_dir(Searched)
  /\ call.dir # 0
  /\ IF CanFree(heap, call.curr) /\ ~FreesStray(heap, call.curr, {})
     THEN /\ heap' = kfree(heap, ItemBlocks(heap, call.curr))
          /\ pc' = "walk"
          /\ call' = [call EXCEPT !.curr = call.found]
          /\ UNCHANGED <<file_descriptors, result, mishaps>>
     ELSE GoWild({})
  /\ UNCHANGED <<dirs, mounted, opens>>

(* The loop of fat16_get_dir_entry over the parts of the path. *)
NextPart == heap[call.part].next

walk_done ==
  /\ pc = "walk"
  /\ NextPart = 0
  /\ IF call.curr = 0
     THEN OpenFails
     ELSE /\ heap' = [heap EXCEPT ![call.desc].item = call.curr]
          /\ pc' = "descriptor"
          /\ UNCHANGED <<call, result>>
  /\ UNCHANGED <<dirs, mounted, opens, file_descriptors, mishaps>>

(* The type of an item that was not found is read through NULL.  What is   *)
(* there is not the type of a directory, or the search goes astray.        *)
walk_null ==
  /\ pc = "walk"
  /\ NextPart # 0
  /\ call.curr = 0
  /\ \/ OpenFails /\ UNCHANGED <<file_descriptors, mishaps>>
     \/ GoWild({})
  /\ UNCHANGED <<dirs, mounted, opens>>

(* A file in the middle of a path: the pointer to it is overwritten. *)
walk_through_file ==
  /\ pc = "walk"
  /\ NextPart # 0
  /\ IsItem(heap, call.curr, "file")
  /\ OpenFails
  /\ mishaps' = mishaps \cup {"through a file"}
  /\ UNCHANGED <<dirs, mounted, opens, file_descriptors>>

walk_into_dir ==
  /\ pc = "walk"
  /\ NextPart # 0
  /\ call.curr # 0
  /\ ~IsItem(heap, call.curr, "file")
  /\ IF Loaded(heap, call.curr)
     THEN /\ pc' = "find"
          /\ call' = [call EXCEPT !.part = NextPart, !.i = 1, !.found = 0,
                                  !.dir = heap[call.curr].ref]
          /\ UNCHANGED <<heap, file_descriptors, result, mishaps>>
     ELSE GoWild({})
  /\ UNCHANGED <<dirs, mounted, opens>>

(* file_new_descriptor and the rest of fopen.  When the table is full what *)
(* the file system has opened is lost.                                     *)
FreeSlots ==
  {fd \in 1..BENOS_MAX_FILE_DESCRIPTORS : file_descriptors[fd] = 0}

(* A variant that returns the number of the next slot.                     *)
file_new_descriptor_next ==
  /\ pc = "descriptor"
  /\ FreeSlots # {}
  /\ \E fd \in FreeSlots : \E desc \in {kzalloc({})} :
       /\ \A s \in FreeSlots : fd <= s
       /\ IF desc = 0 THEN GoWild({"no memory"})
          ELSE /\ Return(Put(heap, desc, [kind |-> "open", index |-> fd,
                                          private_data |-> call.desc]), fd + 1)
               /\ file_descriptors' = [file_descriptors EXCEPT ![fd] = desc]
               /\ UNCHANGED mishaps
  /\ UNCHANGED <<dirs, mounted, opens>>

file_new_descriptor ==
  /\ pc = "descriptor"
  /\ FreeSlots # {}
  /\ \E fd \in FreeSlots : \E desc \in {kzalloc({})} :
       /\ \A s \in FreeSlots : fd <= s
       /\ IF desc = 0 THEN GoWild({"no memory"})
          ELSE /\ Return(Put(heap, desc, [kind |-> "open", index |-> fd,
                                          private_data |-> call.desc]), fd)
               /\ file_descriptors' = [file_descriptors EXCEPT ![fd] = desc]
               /\ UNCHANGED mishaps
  /\ UNCHANGED <<dirs, mounted, opens>>

file_table_full ==
  /\ pc = "descriptor"
  /\ FreeSlots = {}
  /\ mishaps' = mishaps \cup {"table full"}
  /\ Return(heap, 0)
  /\ UNCHANGED <<dirs, mounted, opens, file_descriptors>>

-----------------------------------------------------------------------------
(* Calls on open files. *)

FileNumbers == 0..(BENOS_MAX_FILE_DESCRIPTORS + 1)

Error == -1

(* The last descriptor is taken for an invalid one. *)
file_get_descriptor(fd) ==
  IF fd <= 0 \/ fd >= BENOS_MAX_FILE_DESCRIPTORS THEN 0
  ELSE file_descriptors[fd]

PrivateOf(fd) == heap[file_get_descriptor(fd)].private_data
ItemOf(fd)    == heap[PrivateOf(fd)].item

not_open(fd) ==
  /\ pc = "idle"
  /\ file_get_descriptor(fd) = 0
  /\ result' = Error
  /\ UNCHANGED <<dirs, mounted, opens, heap, file_descriptors, call, pc,
                 mishaps>>

(* fread does not look at the type: what it reads of a directory is not    *)
(* defined.  The position in the file does not move.                       *)
fread(fd) ==
  /\ pc = "idle"
  /\ file_get_descriptor(fd) # 0
  /\ IF Loaded(heap, ItemOf(fd))
     THEN /\ result' \in {0, Error}
          /\ UNCHANGED <<heap, file_descriptors, call, pc, mishaps>>
     ELSE GoWild({})
  /\ UNCHANGED <<dirs, mounted, opens>>

fstat(fd) ==
  /\ pc = "idle"
  /\ file_get_descriptor(fd) # 0
  /\ IF IsItem(heap, ItemOf(fd), "dir") \/ Loaded(heap, ItemOf(fd))
     THEN /\ result' = IF IsItem(heap, ItemOf(fd), "dir") THEN Error ELSE 0
          /\ UNCHANGED <<heap, file_descriptors, call, pc, mishaps>>
     ELSE GoWild({})
  /\ UNCHANGED <<dirs, mounted, opens>>

(* A variant without the check of the offset. *)
SeekResultUnchecked(fd, offset, whence) ==
  IF IsItem(heap, ItemOf(fd), "dir") \/ whence = "SEEK_END" THEN Error ELSE 0

(* A negative offset is a very large one and refused like it.              *)
SeekResult(fd, offset, whence) ==
  IF \/ IsItem(heap, ItemOf(fd), "dir")
     \/ offset >= heap[heap[ItemOf(fd)].ref].entry.file_size
     \/ whence = "SEEK_END"
  THEN Error ELSE 0

fseek(fd, offset, whence) ==
  /\ pc = "idle"
  /\ file_get_descriptor(fd) # 0
  /\ heap[PrivateOf(fd)].pos + offset <= MaxPos
  /\ IF IsItem(heap, ItemOf(fd), "dir") \/ Loaded(heap, ItemOf(fd))
     THEN /\ result' = SeekResult(fd, offset, whence)
          /\ heap' = IF result' # 0 THEN heap
                     ELSE IF whence = "SEEK_SET"
                     THEN [heap EXCEPT ![PrivateOf(fd)].pos = offset,
                                       ![PrivateOf(fd)].relative = FALSE]
                     ELSE [heap EXCEPT ![PrivateOf(fd)].pos = @ + offset,
                                       ![PrivateOf(fd)].relative = TRUE]
          /\ UNCHANGED <<file_descriptors, call, pc, mishaps>>
     ELSE GoWild({})
  /\ UNCHANGED <<dirs, mounted, opens>>

(* The stray array may be the descriptor of file.c: it is freed twice.     *)
fclose(fd) ==
  /\ pc = "idle"
  /\ file_get_descriptor(fd) # 0
  /\ IF /\ CanFree(heap, ItemOf(fd))
        /\ ~FreesStray(heap, ItemOf(fd), {file_get_descriptor(fd)})
     THEN /\ heap' = kfree(heap,
                         ItemBlocks(heap, ItemOf(fd))
                           \cup {PrivateOf(fd), file_get_descriptor(fd)})
          /\ file_descriptors' =
               [file_descriptors EXCEPT
                  ![heap[file_get_descriptor(fd)].index] = 0]
          /\ result' = 0
          /\ UNCHANGED <<call, pc, mishaps>>
     ELSE GoWild({})
  /\ UNCHANGED <<dirs, mounted, opens>>

-----------------------------------------------------------------------------

(* The steps of a call of fopen. *)
FopenStep ==
  \/ pathparser_create_root \/ pathparser_parse_path_part
  \/ pathparser_parse_end \/ fopen_refused \/ fat16_open
  \/ find_no_match \/ find_file \/ find_dir \/ find_dir_hangs
  \/ find_end_root \/ find_end_dir
  \/ walk_done \/ walk_null \/ walk_through_file \/ walk_into_dir
  \/ file_new_descriptor \/ file_table_full

Next == \/ fat16_resolve
        \/ \E o \in Opens : fopen(o) \/ fopen_bad_path(o)
        \/ FopenStep
        \/ \E fd \in FileNumbers :
             \/ not_open(fd)
             \/ fread(fd)
             \/ fstat(fd)
             \/ \E offset \in Offsets,
                   whence \in {"SEEK_SET", "SEEK_CUR", "SEEK_END"} :
                  fseek(fd, offset, whence)
             \/ fclose(fd)

Spec == Init /\ [][Next]_vars /\ WF_vars(FopenStep)

-----------------------------------------------------------------------------
(* What a path names, without reference to the search: the names between   *)
(* the slashes, up to the first empty one, as the parser takes them; each  *)
(* is looked up among the entries that are not deleted.                    *)

Slashes(path) == {3, Len(path) + 1} \cup {k \in 3..Len(path) : path[k] = "/"}

(* The position of the k-th of them. *)
Slash(path, k) ==
  CHOOSE p \in Slashes(path) :
    Cardinality({q \in Slashes(path) : q < p}) = k - 1

Names(path) ==
  LET names == [k \in 1..(Cardinality(Slashes(path)) - 1) |->
                  SubSeq(path, Slash(path, k) + 1, Slash(path, k + 1) - 1)]
      empty == {k \in DOMAIN names : names[k] = <<>>}
  IN  IF empty = {} THEN names
      ELSE SubSeq(names, 1, (CHOOSE k \in empty : \A l \in empty : k <= l) - 1)

NoEntry == [dir |-> FALSE, first |-> 0]
RootEntry == [dir |-> TRUE, first |-> Root]

Child(entries, name) ==
  LET here == {k \in DOMAIN entries :
                 /\ Head(entries[k].fname) # DELETED
                 /\ istrncmp_equal(
                      fat16_get_full_relative_filename(entries[k]), name)}
  IN  IF here = {} THEN NoEntry ELSE entries[CHOOSE k \in here : TRUE]

EntryOf(volume, names) ==
  LET at[k \in 0..Len(names)] ==
        IF k = 0 THEN RootEntry
        ELSE IF at[k - 1].dir THEN Child(volume[at[k - 1].first], names[k])
        ELSE NoEntry
  IN  at[Len(names)]

Named(path) ==
  IF Names(path) = <<>> THEN NoEntry ELSE EntryOf(dirs, Names(path))

(* Whether what the path says its entry is in exists.                      *)
ParentExists(path) ==
  Names(path) = <<>> \/ EntryOf(dirs, Front(Names(path))) # NoEntry

AnyDeleted ==
  \E d \in DOMAIN dirs :
    \E k \in DOMAIN dirs[d] : Head(dirs[d][k].fname) = DELETED

(* The objects of an open file. *)
ObjectsOf(fd) ==
  LET desc == file_descriptors[fd]
      private == heap[desc].private_data
      item == heap[private].item
  IN  {desc, private} \cup ItemBlocks(heap, item)

OpenFiles == {fd \in DOMAIN file_descriptors : file_descriptors[fd] # 0}

(* No item can have been left with a directory that was freed, or without  *)
(* what it is for: no allocation and no read of a directory has failed.    *)
Failures == {"no memory", "not read"}

Intact == mishaps \cap Failures = {}

(* The unreserved array of an empty directory has come to be the memory of *)
(* something else.                                                         *)
StrayTaken ==
  \E b \in Blocks : /\ Is(heap, b, "dir") /\ heap[b].stray # 0
                    /\ heap[heap[b].stray] # Free

-----------------------------------------------------------------------------
(* Properties. *)

(***************************************************************************)
(* Types: every block holds an object of the code, descriptors and calls   *)
(* point to blocks or are NULL.                                            *)
(***************************************************************************)
TypeOK ==
  /\ dirs \in Volumes
  /\ mounted \in BOOLEAN
  /\ \A b \in Blocks :
       heap[b].kind \in {"free", "stream", "private", "root_dir", "root",
                         "name", "part", "path", "descriptor", "item", "file",
                         "dir", "items", "open"}
  /\ file_descriptors \in [1..BENOS_MAX_FILE_DESCRIPTORS -> 0..Memory]
  /\ opens \in 0..MaxOpens
  /\ call.path \in {o.path : o \in Opens} \cup {<<>>}
  /\ \A p \in {call.root, call.part, call.desc, call.curr, call.dir,
               call.found} : p \in 0..Memory
  /\ pc \in {"boot", "idle", "root", "parts", "opening", "find", "walk",
             "descriptor", "wild"}
  /\ result \in {Error} \cup 0..BENOS_MAX_FILE_DESCRIPTORS
  /\ mishaps \subseteq {"no memory", "not read", "long directory",
                        "through a file", "table full"}

(***************************************************************************)
(* Until an allocation fails or a directory cannot be read, the descriptor *)
(* table and the objects behind it are sound: the object of a slot knows   *)
(* its slot, so that fclose empties the right one, nothing behind an open  *)
(* file was freed, and no object belongs to two open files or to an open   *)
(* file and the call of fopen that runs.                                   *)
(***************************************************************************)
TableSound ==
  Intact =>
    \A fd \in OpenFiles :
      /\ Is(heap, file_descriptors[fd], "open")
      /\ heap[file_descriptors[fd]].index = fd
      /\ Is(heap, heap[file_descriptors[fd]].private_data, "descriptor")
      /\ Loaded(heap, heap[heap[file_descriptors[fd]].private_data].item)
      /\ \A other \in OpenFiles \ {fd} :
           ObjectsOf(fd) \cap ObjectsOf(other) = {}
      /\ {call.root, call.part, call.desc, call.curr, call.dir, call.found}
           \cap ObjectsOf(fd) = {}

(* The names of the entries of a directory, deleted ones included, are all *)
(* different: of two that are the same the search would find both and lose *)
(* the first item, as fat16.c:529 does not leave the loop.                 *)
UniqueNames ==
  \A v \in Volumes : \A d \in DOMAIN v : \A k, l \in DOMAIN v[d] :
    LET s == fat16_get_full_relative_filename(v[d][k])
        t == fat16_get_full_relative_filename(v[d][l])
    IN  k # l => \/ Len(s) # Len(t)
                 \/ \E i \in DOMAIN s \cap DOMAIN t :
                      tolower(s[i]) # tolower(t[i])

(* No part of a path that is opened is the name of a deleted entry, which  *)
(* begins with a character that no key sends: the search compares the      *)
(* names of deleted entries like all others.                               *)
DeletedUnnamed ==
  \A v \in Volumes, o \in Opens : \A d \in DOMAIN v : \A k \in DOMAIN v[d] :
    Head(v[d][k].fname) = DELETED =>
      \A i, j \in 1..Len(o.path) :
        ~istrncmp_equal(fat16_get_full_relative_filename(v[d][k]),
                        SubSeq(o.path, i, j))

(***************************************************************************)
(* What fopen allocates for its path is never freed, but it loses nothing  *)
(* else: between two calls every other object belongs to an open file,     *)
(* unless a path led through a file, the table was full, there was no      *)
(* memory, or a directory longer than a cluster was loaded, whose end is   *)
(* that of another and can have a name twice.                              *)
(***************************************************************************)
OnlyPathsLeak ==
  pc = "idle" /\ mishaps = {} =>
    \A b \in Blocks : \/ heap[b].kind \in {"free", "path"}
                      \/ heap[b].kind \in {"private", "stream", "root_dir"}
                      \/ \E fd \in OpenFiles : b \in ObjectsOf(fd)

(***************************************************************************)
(* NULL, freed memory or that of another is used only when memory ran out  *)
(* or a directory could not be read before, when fopen looks for something *)
(* below what the disk does not have (or has behind deleted entries or in  *)
(* a directory longer than a cluster), or where an open empty directory is *)
(* closed whose array was never reserved: no order of calls, no descriptor *)
(* and no other path leads astray.                                         *)
(***************************************************************************)
OnlyMishapsHarm ==
  pc = "wild" => \/ ~Intact
                 \/ StrayTaken
                 \/ /\ call # NoCall
                    /\ call.astray \/ AnyDeleted \/ ~ParentExists(call.path)

(***************************************************************************)
(* fopen opens what the path names, and only that: when it succeeds the    *)
(* descriptor is for the named entry, and it does not fail for an entry    *)
(* that exists on a mounted volume unless memory or descriptors ran out or *)
(* a directory has deleted entries, which the count of its entries leaves  *)
(* out.  Neither is promised when an allocation of the search failed or    *)
(* the path led to or through a directory longer than a cluster.           *)
(***************************************************************************)
IsOpenFor(fd, entry) ==
  \E desc \in {file_descriptors[slot] : slot \in {fd} \cap OpenFiles} :
    \E item \in {heap[heap[desc].private_data].item} :
      /\ Loaded(heap, item)
      /\ IsItem(heap, item, IF entry.dir THEN "dir" ELSE "file")
      /\ IF entry.dir THEN heap[heap[item].ref].id = entry.first
                      ELSE heap[heap[item].ref].entry = entry

OpensWhatIsNamed ==
  [][pc \notin {"boot", "idle"} /\ pc' = "idle" =>
       \E named \in {Named(call.path)} :
         IF result' > 0
         THEN call.astray \/ IsOpenFor(result, named)'
         ELSE \/ named = NoEntry
              \/ ~mounted
              \/ call.mode # "r"
              \/ call.path[1] # "0"
              \/ call.astray \/ kzalloc({}) = 0
              \/ FreeSlots = {}
              \/ AnyDeleted]_vars

(***************************************************************************)
(* Without relative seeks the position of an open file is inside the file. *)
(* SEEK_CUR checks the distance and not where it leads.                    *)
(***************************************************************************)
PositionInFile ==
  Intact =>
    \A fd \in OpenFiles :
      LET private == heap[file_descriptors[fd]].private_data
          item    == heap[private].item
      IN  \/ heap[private].relative
          \/ heap[private].pos = 0
          \/ /\ IsItem(heap, item, "file") /\ Loaded(heap, item)
             /\ heap[private].pos < heap[heap[item].ref].entry.file_size

(* Every call of fopen returns: its loops over parts and entries end. *)
FopenReturns == pc \notin {"boot", "idle"} ~> pc \in {"idle", "wild"}

=============================================================================
