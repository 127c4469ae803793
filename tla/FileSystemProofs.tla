-------------------------- MODULE FileSystemProofs --------------------------
(***************************************************************************)
(* Theorems about open files (module FileSystem), for every size of the    *)
(* heap and of the descriptor table, every volume and every path.          *)
(*                                                                         *)
(* An object of the file system is freed by following pointers: from a     *)
(* descriptor to the descriptor of the file system, to the item, to the    *)
(* entry or directory and to the entries of that. The invariant says who   *)
(* owns what along these pointers. Only the last but one can dangle, and   *)
(* only after an allocation or the read of a directory has failed; and the *)
(* array of an empty directory, which was never reserved.                  *)
(*                                                                         *)
(* What fopen finds is compared with what the path says: the parsed path   *)
(* is the list of the names between the slashes, and the item reached is   *)
(* the entry that these names lead to.                                     *)
(***************************************************************************)
EXTENDS FileSystem, FiniteSetTheorems, SequenceTheorems,
        WellFoundedInduction, TLAPS

-----------------------------------------------------------------------------
(* The invariant. *)

Slots    == 1..BENOS_MAX_FILE_DESCRIPTORS
Pointers == 0..Memory

Kinds == {"free", "stream", "private", "root_dir", "root", "name", "part",
          "path", "descriptor", "item", "file", "dir", "items", "open"}

Mishaps == {"no memory", "not read", "long directory", "through a file",
            "table full"}

(* An entry of a directory in d. *)
IsEntry(e, d) == e.file_size \in Nat /\ (e.dir => e.first \in DOMAIN d)

(* How many entries of a directory are counted. *)
Counted(d, id) == Cardinality({k \in DOMAIN d[id] : Head(d[id][k].fname) # DELETED})

(* A directory that was loaded: of its first cluster it has what is there. *)
IsDirectory(o, d) ==
  /\ o.id \in DOMAIN d /\ o.items \in Pointers
  /\ \A k \in 1..Counted(d, o.id) : IsEntry(o.entries[k], d)
  /\ \A k \in 1..Counted(d, o.id) :
       k <= ClusterEntries => o.entries[k] = d[o.id][k]

(* Every object has the fields of its kind, and a directory is one of d. *)
IsObject(o, d) ==
  /\ "kind" \in DOMAIN o /\ o.kind \in Kinds
  /\ o.kind = "free" => o = Free
  /\ o.kind = "root" => /\ o = [kind |-> "root", first |-> o.first]
                        /\ o.first \in Pointers
  /\ o.kind = "part" => /\ o = [kind |-> "part", name |-> o.name,
                                next |-> o.next]
                        /\ o.next \in Pointers
  /\ o.kind = "descriptor" => /\ o = [kind |-> "descriptor", item |-> o.item,
                                      pos |-> o.pos, relative |-> o.relative]
                              /\ o.item \in Pointers
  /\ o.kind = "item" => o.type \in {"file", "dir"} /\ o.ref \in Pointers
  /\ o.kind = "file" => o.entry.file_size \in Nat
  /\ o.kind = "dir" => IsDirectory(o, d)
  /\ o.kind = "open" => o.index \in Slots /\ o.private_data \in Blocks

CallFields == {"path", "rest", "mode", "root", "part", "desc", "curr", "dir",
               "i", "found", "astray"}

TypesInv ==
  /\ dirs \in Volumes
  /\ mounted \in BOOLEAN
  /\ heap = [b \in Blocks |-> heap[b]]
  /\ \A b \in Blocks : IsObject(heap[b], dirs)
  /\ file_descriptors \in [Slots -> Pointers]
  /\ call = [f \in CallFields |-> call[f]]
  /\ call.path \in {o.path : o \in Opens} \cup {<<>>}
  /\ call.i \in Nat
  /\ \A f \in {"root", "part", "desc", "curr", "dir", "found"} :
       call[f] \in Pointers
  /\ opens \in 0..MaxOpens
  /\ pc \in {"boot", "idle", "root", "parts", "opening", "find", "walk",
             "descriptor", "wild"}
  /\ result \in {Error} \cup 0..BENOS_MAX_FILE_DESCRIPTORS
  /\ mishaps \subseteq Mishaps

IsNullOr(h, p, kind) == p = 0 \/ Is(h, p, kind)

(* The parsed path: nothing but the call of fopen points to it. *)
PathInv ==
  /\ IsNullOr(heap, call.root, "root")
  /\ IsNullOr(heap, call.part, "part")
  /\ pc \in {"parts", "opening", "find", "walk", "descriptor"} => call.root # 0
  /\ pc \in {"find", "walk"} => call.part # 0
  /\ \A b \in Blocks :
       /\ heap[b].kind = "root" => IsNullOr(heap, heap[b].first, "part")
       /\ heap[b].kind = "part" => IsNullOr(heap, heap[b].next, "part")

(* What is behind a descriptor. *)
Private(fd) == heap[file_descriptors[fd]].private_data
Item(fd)    == heap[Private(fd)].item

(* An open file has a descriptor of each sort and an item to itself. *)
SlotsInv ==
  /\ \A fd \in OpenFiles : /\ Is(heap, file_descriptors[fd], "open")
                           /\ heap[file_descriptors[fd]].index = fd
                           /\ Is(heap, Private(fd), "descriptor")
                           /\ Is(heap, Item(fd), "item")
  /\ \A fd, other \in OpenFiles :
       fd # other => Private(fd) # Private(other) /\ Item(fd) # Item(other)

(* So has the call of fopen, and its items are not those of open files. *)
CallInv ==
  /\ pc = "boot" => /\ OpenFiles = {}
                    /\ \A b \in Blocks : heap[b] = Free
  /\ pc \in {"boot", "idle"} => call = NoCall
  /\ pc \in {"root", "parts", "opening"} =>
       call.desc = 0 /\ call.curr = 0 /\ call.dir = 0 /\ call.found = 0
  /\ pc \in {"find", "walk", "descriptor"} => call.desc # 0
  /\ pc = "find" => /\ call.i > 0
                    /\ IF call.dir = 0
                       THEN call.curr = 0
                       ELSE /\ call.curr # 0
                            /\ call.curr # call.found
                            /\ Is(heap, call.dir, "dir")
                            /\ heap[call.curr].ref = call.dir
  /\ pc \in {"walk", "descriptor"} => /\ call.curr = call.found
                                      /\ call.dir = 0 \/ heap[call.dir] = Free
  /\ pc = "descriptor" => call.curr # 0 /\ heap[call.desc].item = call.curr
  /\ IsNullOr(heap, call.desc, "descriptor")
  /\ IsNullOr(heap, call.curr, "item")
  /\ IsNullOr(heap, call.found, "item")
  /\ \A fd \in OpenFiles : /\ Private(fd) # call.desc
                           /\ Item(fd) \notin {call.curr, call.found}

NoneLong == "long directory" \notin mishaps

(* A directory has the array of its entries to itself, unless it is empty, *)
(* and is no longer than a cluster until one that is has been loaded.      *)
DirsInv ==
  /\ \A b \in Blocks :
       heap[b].kind = "dir" => IsNullOr(heap, heap[b].items, "items")
  /\ \A b, c \in Blocks :
       heap[b].kind = "dir" /\ heap[c].kind = "dir" /\ b # c =>
         heap[b].items # heap[c].items \/ heap[b].items = 0
  /\ NoneLong =>
       \A b \in Blocks :
         heap[b].kind = "dir" => Counted(dirs, heap[b].id) <= ClusterEntries

(* The items that will be freed. *)
Held == {Item(fd) : fd \in OpenFiles} \cup ({call.curr, call.found} \ {0})

(* No two items of H point to the same object. *)
Apart(h, H) == \A x, y \in H : x # y => h[x].ref # h[y].ref

(* The directory of an item that is being freed is empty, and its array is *)
(* the memory of something else.                                           *)
StrayUsed ==
  /\ StrayTaken
  /\ call = NoCall \/ (call.curr # 0 /\ heap[call.curr].ref = call.dir)

(* Until an allocation fails or a directory cannot be read each of them    *)
(* has what it points to to itself.                                        *)
ItemsInv ==
  Intact =>
    /\ \A x \in Held : Loaded(heap, x)
    /\ Apart(heap, Held)
    /\ pc = "wild" => \/ StrayUsed
                      \/ /\ call # NoCall /\ call.curr = 0
                         /\ call.dir = 0 \/ heap[call.dir] = Free

(* What PositionInFile says of one descriptor and its item. *)
PositionSound(h, private, item) ==
  \/ h[private].relative
  \/ h[private].pos = 0
  \/ /\ IsItem(h, item, "file") /\ Loaded(h, item)
     /\ h[private].pos < h[h[item].ref].entry.file_size

(* Nobody has moved the position of a file that is being opened. *)
PositionInv ==
  /\ PositionInFile
  /\ call.desc # 0 => heap[call.desc].pos = 0

FilesInv == /\ TypesInv
            /\ PathInv
            /\ SlotsInv
            /\ CallInv
            /\ DirsInv
            /\ ItemsInv
            /\ PositionInv

-----------------------------------------------------------------------------
(* The heap. *)

(* A non-empty set of natural numbers has a least element. *)
LEMMA LeastElement ==
  ASSUME NEW S, S \subseteq Nat, S # {}
  PROVE  \E m \in S : \A k \in S : m <= k
<1>1. PICK m \in S : \A k \in S : <<k, m>> \notin OpToRel(<, Nat)
  BY WFMin, NatLessThanWellFounded, Zenon
<1>2. \A k \in S : ~(k < m)
  BY <1>1, Zenon DEF OpToRel
<1> QED
  BY <1>2, SMT

(* A pointer is NULL or a block. *)
LEMMA PointersAre ==
  /\ 0 \notin Blocks /\ Blocks \subseteq Nat
  /\ \A p : p \in Pointers <=> p = 0 \/ p \in Blocks
BY FileSystemAssumption DEF Blocks, Pointers

(* Success and the numbers of slots are results. *)
LEMMA CodesAre ==
  /\ 0 \in 0..BENOS_MAX_FILE_DESCRIPTORS
  /\ \A fd \in Slots : fd \in 0..BENOS_MAX_FILE_DESCRIPTORS /\ fd # 0
  /\ 0 \notin Slots
BY FileSystemAssumption DEF Slots

(* kzalloc returns NULL or a free block that it has not just given out.    *)
LEMMA KzallocReturns ==
  ASSUME NEW taken
  PROVE  \/ kzalloc(taken) = 0
         \/ /\ kzalloc(taken) \in Blocks \ taken
            /\ heap[kzalloc(taken)] = Free
<1> DEFINE free == {b \in Blocks \ taken : heap[b] = Free}
<1>1. CASE free = {}
  BY <1>1 DEF kzalloc
<1>2. CASE free # {}
  <2>1. PICK m \in free : \A c \in free : m <= c
    BY <1>2, LeastElement, PointersAre
  <2>2. kzalloc(taken) = CHOOSE b \in free : \A c \in free : b <= c
    BY <1>2 DEF kzalloc
  <2>3. kzalloc(taken) \in free
    BY <2>1, <2>2
  <2> QED
    BY <2>3
<1> QED
  BY <1>1, <1>2

(* So does the allocation of an array, whatever its length.                *)
LEMMA KzallocItemsReturns ==
  ASSUME NEW n, NEW taken
  PROVE  \/ kzalloc_items(n, taken) = 0
         \/ /\ kzalloc_items(n, taken) \in Blocks \ taken
            /\ heap[kzalloc_items(n, taken)] = Free
<1> DEFINE end == {b \in Blocks : \A c \in b..Memory :
                                     c \notin taken /\ heap[c] = Free}
<1>1. CASE n # 0
  BY <1>1, KzallocReturns DEF kzalloc_items
<1>2. CASE n = 0 /\ end = {}
  BY <1>2 DEF kzalloc_items
<1>3. CASE n = 0 /\ end # {}
  <2>1. PICK m \in end : \A c \in end : m <= c
    BY <1>3, LeastElement, PointersAre
  <2>2. kzalloc_items(n, taken) = CHOOSE b \in end : \A c \in end : b <= c
    BY <1>3 DEF kzalloc_items
  <2>3. kzalloc_items(n, taken) \in end
    BY <2>1, <2>2
  <2>4. \A b \in Blocks : b \in b..Memory
    BY FileSystemAssumption DEF Blocks
  <2> QED
    BY <2>3, <2>4
<1> QED
  BY <1>1, <1>2, <1>3

(* Put changes one block. *)
LEMMA PutChanges ==
  ASSUME NEW h, NEW p, NEW object
  PROVE  LET g == Put(h, p, object)
         IN  /\ g = [b \in Blocks |-> g[b]]
             /\ \A b \in Blocks : b # p => g[b] = h[b]
             /\ p \in Blocks => g[p] = object
BY DEF Put

(* kfree frees the blocks of a set. *)
LEMMA KfreeChanges ==
  ASSUME NEW h, NEW ps
  PROVE  LET g == kfree(h, ps)
         IN  /\ g = [b \in Blocks |-> g[b]]
             /\ \A b \in Blocks : b \notin ps => g[b] = h[b]
             /\ \A b \in Blocks : b \in ps => g[b] = Free
BY DEF kfree

(* LosePath leaves nothing of a path but blocks that are taken. *)
LEMMA LosePathChanges ==
  ASSUME NEW h
  PROVE  LET g == LosePath(h)
         IN  /\ g = [b \in Blocks |-> g[b]]
             /\ \A b \in Blocks : h[b].kind \notin {"root", "name", "part"} =>
                                   g[b] = h[b]
             /\ \A b \in Blocks : h[b].kind \in {"root", "name", "part"} =>
                                   g[b] = [kind |-> "path"]
BY DEF LosePath

(* The kinds that the heap has apart from those of the file system.        *)
LEMMA FreeIsObject ==
  ASSUME NEW d
  PROVE  /\ IsObject(Free, d)
         /\ IsObject([kind |-> "path"], d)
         /\ IsObject([kind |-> "items"], d)
         /\ IsObject([kind |-> "stream"], d)
         /\ IsObject([kind |-> "private"], d)
         /\ IsObject([kind |-> "root_dir"], d)
         /\ Free.kind = "free"
BY DEF IsObject, Free, Kinds

(* A call that is not there points nowhere. *)
LEMMA NoCallIs ==
  /\ NoCall = [f \in CallFields |-> NoCall[f]]
  /\ NoCall.path = <<>> /\ NoCall.root = 0 /\ NoCall.part = 0
  /\ NoCall.desc = 0 /\ NoCall.curr = 0 /\ NoCall.dir = 0
  /\ NoCall.found = 0 /\ NoCall.i = 0
BY DEF NoCall, CallFields

(* It has the types of one. *)
LEMMA NoCallTypes ==
  /\ NoCall.path \in {o.path : o \in Opens} \cup {<<>>}
  /\ NoCall.i \in Nat
  /\ \A f \in {"root", "part", "desc", "curr", "dir", "found"} :
       NoCall[f] \in Pointers
<1>1. 0 \in Pointers
  BY PointersAre
<1>2. \A f \in {"root", "part", "desc", "curr", "dir", "found"} :
        NoCall[f] = 0
  BY DEF NoCall
<1> QED
  BY <1>1, <1>2, NoCallIs

-----------------------------------------------------------------------------
(* What a step leaves alone. *)

FileKinds == {"open", "descriptor", "item", "file", "dir", "items"}

(* The blocks outside X that hold objects of files stay as they are. *)
Untouched(X) == /\ heap' = [b \in Blocks |-> heap'[b]]
                /\ \A b \in Blocks \ X :
                     heap[b].kind \in FileKinds => heap'[b] = heap[b]

(* Items of H, and what they point to, are none of the blocks in X. *)
Spared(H, X) == /\ H \subseteq Held
                /\ \A x \in H : x \notin X /\ heap[x].ref \notin X

(* The objects of an open file. *)
LEMMA OpenFileIs ==
  ASSUME FilesInv, NEW fd \in OpenFiles
  PROVE  /\ fd \in Slots /\ file_descriptors[fd] \in Blocks
         /\ heap[file_descriptors[fd]].kind = "open"
         /\ heap[file_descriptors[fd]].index = fd
         /\ Private(fd) \in Blocks /\ heap[Private(fd)].kind = "descriptor"
         /\ Item(fd) \in Blocks /\ heap[Item(fd)].kind = "item"
<1>1. /\ Is(heap, file_descriptors[fd], "open")
      /\ heap[file_descriptors[fd]].index = fd
      /\ Is(heap, Private(fd), "descriptor")
      /\ Is(heap, Item(fd), "item")
  BY DEF FilesInv, SlotsInv
<1>2. file_descriptors \in [Slots -> Pointers]
  BY DEF FilesInv, TypesInv
<1>3. fd \in Slots /\ file_descriptors[fd] # 0
  BY <1>2 DEF OpenFiles
<1>4. file_descriptors[fd] \in Blocks
  BY <1>2, <1>3, PointersAre
<1>5. Private(fd) \in Blocks
  BY <1>1, <1>4 DEF FilesInv, TypesInv, IsObject, Is, Private
<1>6. Item(fd) \in Blocks
  BY <1>1, <1>5, PointersAre DEF FilesInv, TypesInv, IsObject, Is, Item
<1> QED
  BY <1>1, <1>3, <1>4, <1>5, <1>6 DEF Is

(* What a call of fopen points to. *)
LEMMA CallPointers ==
  ASSUME FilesInv
  PROVE  /\ call.root \in Pointers /\ call.part \in Pointers
         /\ call.desc \in Pointers /\ call.curr \in Pointers
         /\ call.dir \in Pointers /\ call.found \in Pointers
<1>1. \A f \in {"root", "part", "desc", "curr", "dir", "found"} :
        call[f] \in Pointers
  BY DEF FilesInv, TypesInv
<1>2. /\ call["root"] \in Pointers /\ call["part"] \in Pointers
      /\ call["desc"] \in Pointers /\ call["curr"] \in Pointers
      /\ call["dir"] \in Pointers /\ call["found"] \in Pointers
  BY <1>1, Zenon
<1> QED
  BY <1>2

(* Where a step loses an allocation or the read of a directory. *)
LEMMA FailuresAre ==
  /\ "no memory" \in Failures /\ "not read" \in Failures
  /\ Failures \subseteq Mishaps
  /\ mishaps \subseteq mishaps' /\ ~Intact => ~Intact'
  /\ "no memory" \in mishaps' => ~Intact'
  /\ "not read" \in mishaps' => ~Intact'
BY DEF Failures, Mishaps, Intact

(* A call that uses memory that it did not get. *)
LEMMA FailureShows ==
  ASSUME NEW why \in Failures, GoWild({why})
  PROVE  ~Intact'
BY DEF GoWild, Intact

(* The array of an empty directory that is not its own any more. *)
LEMMA StrayIs ==
  ASSUME NEW item, NEW own, FreesStray(heap, item, own),
         heap[item].ref \in Blocks
  PROVE  StrayTaken
BY DEF FreesStray, StrayTaken

(* Parsed paths stay sound when their objects stay, a new root is empty,   *)
(* and nothing else becomes a part.                                        *)
LEMMA PathStays ==
  ASSUME FilesInv,
         \A b \in Blocks :
           /\ heap[b].kind \in {"root", "part"} => heap'[b] = heap[b]
           /\ heap'[b].kind = "part" => heap'[b] = heap[b]
           /\ heap'[b].kind = "root" => heap'[b] = heap[b] \/ heap'[b].first = 0
  PROVE  /\ IsNullOr(heap', call.root, "root")
         /\ IsNullOr(heap', call.part, "part")
         /\ \A b \in Blocks :
              /\ heap'[b].kind = "root" => IsNullOr(heap', heap'[b].first, "part")
              /\ heap'[b].kind = "part" => IsNullOr(heap', heap'[b].next, "part")
<1>1. ASSUME NEW p \in Pointers, NEW kind \in {"root", "part"},
             IsNullOr(heap, p, kind)
      PROVE  IsNullOr(heap', p, kind)
  BY <1>1, PointersAre DEF IsNullOr, Is
<1>2. /\ IsNullOr(heap', call.root, "root")
      /\ IsNullOr(heap', call.part, "part")
  BY <1>1, CallPointers DEF FilesInv, PathInv
<1>3. ASSUME NEW b \in Blocks, heap'[b].kind = "root"
      PROVE  IsNullOr(heap', heap'[b].first, "part")
  <2>1. CASE heap'[b].first = 0
    BY <2>1 DEF IsNullOr
  <2>2. CASE heap'[b] = heap[b]
    <3>1. heap[b].first \in Pointers /\ IsNullOr(heap, heap[b].first, "part")
      BY <1>3, <2>2 DEF FilesInv, TypesInv, PathInv, IsObject
    <3> QED
      BY <1>1, <2>2, <3>1
  <2> QED
    BY <1>3, <2>1, <2>2
<1>4. ASSUME NEW b \in Blocks, heap'[b].kind = "part"
      PROVE  IsNullOr(heap', heap'[b].next, "part")
  <2>1. heap'[b] = heap[b]
    BY <1>4
  <2>2. heap[b].next \in Pointers /\ IsNullOr(heap, heap[b].next, "part")
    BY <1>4, <2>1 DEF FilesInv, TypesInv, PathInv, IsObject
  <2> QED
    BY <1>1, <2>1, <2>2
<1> QED
  BY <1>2, <1>3, <1>4

(* The items of open files and of the call of fopen. *)
LEMMA HeldIs ==
  ASSUME FilesInv, NEW x \in Held
  PROVE  /\ x \in Blocks /\ heap[x].kind = "item"
         /\ heap[x].type \in {"file", "dir"} /\ heap[x].ref \in Pointers
         /\ Intact =>
              /\ heap[x].ref \in Blocks
              /\ heap[heap[x].ref].kind = heap[x].type
<1>1. x \in Blocks /\ heap[x].kind = "item"
  <2>1. CASE x \in {call.curr, call.found}
    <3>1. x # 0
      BY OpenFileIs, PointersAre DEF Held
    <3>2. call.curr \in Pointers /\ call.found \in Pointers
      BY CallPointers
    <3> QED
      BY <2>1, <3>1, <3>2, PointersAre DEF FilesInv, CallInv, IsNullOr, Is
  <2>2. CASE x \notin {call.curr, call.found}
    BY <2>2, OpenFileIs DEF Held
  <2> QED
    BY <2>1, <2>2
<1>2. heap[x].type \in {"file", "dir"} /\ heap[x].ref \in Pointers
  BY <1>1 DEF FilesInv, TypesInv, IsObject
<1>3. ASSUME Intact
      PROVE  /\ heap[x].ref \in Blocks
             /\ heap[heap[x].ref].kind = heap[x].type
  <2>1. Loaded(heap, x)
    BY <1>3 DEF FilesInv, ItemsInv
  <2> QED
    BY <1>2, <2>1, PointersAre DEF Loaded, Is
<1> QED
  BY <1>1, <1>2, <1>3

(* An open file stays what it is when its objects do.                      *)
LEMMA FileStays ==
  ASSUME FilesInv, NEW fd \in OpenFiles,
         file_descriptors'[fd] = file_descriptors[fd],
         NEW X, Untouched(X),
         {file_descriptors[fd], Private(fd), Item(fd)} \cap X = {}
  PROVE  /\ Is(heap', file_descriptors'[fd], "open")
         /\ heap'[file_descriptors'[fd]].index = fd
         /\ Is(heap', Private(fd)', "descriptor")
         /\ Is(heap', Item(fd)', "item")
         /\ Private(fd)' = Private(fd) /\ Item(fd)' = Item(fd)
         /\ heap'[Private(fd)] = heap[Private(fd)]
         /\ heap'[Item(fd)] = heap[Item(fd)]
<1>1. /\ Is(heap, file_descriptors[fd], "open")
      /\ heap[file_descriptors[fd]].index = fd
      /\ Is(heap, Private(fd), "descriptor")
      /\ Is(heap, Item(fd), "item")
  BY DEF FilesInv, SlotsInv
<1>2. /\ file_descriptors[fd] \in Blocks
      /\ Private(fd) \in Blocks /\ Item(fd) \in Blocks
  BY OpenFileIs
<1>3. /\ heap'[file_descriptors[fd]] = heap[file_descriptors[fd]]
      /\ heap'[Private(fd)] = heap[Private(fd)]
      /\ heap'[Item(fd)] = heap[Item(fd)]
  BY <1>1, <1>2 DEF Untouched, FileKinds, Is
<1>4. Private(fd)' = Private(fd)
  BY <1>3 DEF Private
<1>5. Item(fd)' = Item(fd)
  BY <1>3, <1>4 DEF Item
<1> QED
  BY <1>1, <1>3, <1>4, <1>5 DEF Is

(* So do all of them when no file is opened or closed. *)
LEMMA OpenFilesStay ==
  ASSUME FilesInv, file_descriptors' = file_descriptors,
         NEW X, Untouched(X),
         \A fd \in OpenFiles :
           {file_descriptors[fd], Private(fd), Item(fd)} \cap X = {}
  PROVE  /\ SlotsInv'
         /\ OpenFiles' = OpenFiles
         /\ \A fd \in OpenFiles :
              /\ Private(fd)' = Private(fd) /\ Item(fd)' = Item(fd)
              /\ heap'[Private(fd)] = heap[Private(fd)]
              /\ heap'[Item(fd)] = heap[Item(fd)]
<1>1. OpenFiles' = OpenFiles
  BY DEF OpenFiles
<1>2. ASSUME NEW fd \in OpenFiles
      PROVE  /\ Is(heap', file_descriptors'[fd], "open")
             /\ heap'[file_descriptors'[fd]].index = fd
             /\ Is(heap', Private(fd)', "descriptor")
             /\ Is(heap', Item(fd)', "item")
             /\ Private(fd)' = Private(fd) /\ Item(fd)' = Item(fd)
             /\ heap'[Private(fd)] = heap[Private(fd)]
             /\ heap'[Item(fd)] = heap[Item(fd)]
  BY FileStays
<1>3. SlotsInv'
  <2>1. \A fd, other \in OpenFiles :
          fd # other =>
            Private(fd)' # Private(other)' /\ Item(fd)' # Item(other)'
    BY <1>2 DEF FilesInv, SlotsInv
  <2> QED
    BY <1>1, <1>2, <2>1 DEF SlotsInv
<1> QED
  BY <1>1, <1>2, <1>3

(* A directory is sound when neither it nor its array was touched.         *)
LEMMA DirsStay ==
  ASSUME FilesInv, NEW X, Untouched(X), dirs' = dirs, mishaps \subseteq mishaps',
         \A b \in Blocks :
           heap'[b].kind = "dir" =>
             heap'[b] = heap[b] /\ heap[b].items \notin X \ {0}
  PROVE  DirsInv'
<1>1. ASSUME NEW b \in Blocks, heap'[b].kind = "dir"
      PROVE  IsNullOr(heap', heap'[b].items, "items")
  <2>1. /\ heap'[b] = heap[b] /\ heap[b].items \notin X \ {0}
        /\ heap[b].kind = "dir"
    BY <1>1
  <2>2. heap[b].items \in Pointers /\ IsNullOr(heap, heap[b].items, "items")
    BY <2>1 DEF FilesInv, TypesInv, DirsInv, IsObject, IsDirectory
  <2>3. CASE heap[b].items = 0
    BY <2>1, <2>3 DEF IsNullOr
  <2>4. CASE heap[b].items # 0
    <3>1. heap'[heap[b].items] = heap[heap[b].items]
      BY <2>1, <2>2, <2>4, PointersAre
         DEF Untouched, FileKinds, Is, IsNullOr
    <3> QED
      BY <2>1, <2>2, <3>1 DEF Is, IsNullOr
  <2> QED
    BY <2>3, <2>4
<1>2. ASSUME NEW b \in Blocks, NEW c \in Blocks, b # c,
             heap'[b].kind = "dir", heap'[c].kind = "dir"
      PROVE  heap'[b].items # heap'[c].items \/ heap'[b].items = 0
  BY <1>2 DEF FilesInv, DirsInv
<1>3. ASSUME NoneLong', NEW b \in Blocks, heap'[b].kind = "dir"
      PROVE  Counted(dirs', heap'[b].id) <= ClusterEntries
  <2>1. NoneLong
    BY <1>3 DEF NoneLong
  <2> QED
    BY <1>3, <2>1 DEF FilesInv, DirsInv
<1> QED
  BY <1>1, <1>2, <1>3 DEF DirsInv

(* Items that were not touched, and what they point to.                    *)
LEMMA ItemsStay ==
  ASSUME FilesInv, Intact, NEW X, Untouched(X),
         NEW H, Spared(H, X)
  PROVE  /\ \A x \in H : /\ x \in Blocks /\ heap[x].ref \in Blocks
                         /\ heap'[x] = heap[x]
                         /\ heap'[heap[x].ref] = heap[heap[x].ref]
                         /\ Loaded(heap', x)
         /\ Apart(heap', H)
<1>1. ASSUME NEW x \in H
      PROVE  /\ x \in Blocks /\ heap[x].ref \in Blocks
             /\ heap'[x] = heap[x]
             /\ heap'[heap[x].ref] = heap[heap[x].ref]
             /\ Loaded(heap', x)
  <2>0. x \in Held /\ x \notin X /\ heap[x].ref \notin X
    BY <1>1 DEF Spared
  <2>1. Loaded(heap, x)
    BY <2>0 DEF FilesInv, ItemsInv
  <2>2. /\ x \in Blocks /\ heap[x].kind = "item"
        /\ heap[x].type \in {"file", "dir"}
        /\ heap[x].ref \in Blocks /\ heap[heap[x].ref].kind = heap[x].type
    BY <2>0, HeldIs
  <2>3. heap'[x] = heap[x]
    BY <2>0, <2>2 DEF Untouched, FileKinds
  <2>4. heap'[heap[x].ref] = heap[heap[x].ref]
    BY <2>0, <2>2 DEF Untouched, FileKinds
  <2>5. Loaded(heap', x)
    BY <2>1, <2>3, <2>4 DEF Loaded, Is
  <2> QED
    BY <2>2, <2>3, <2>4, <2>5
<1>2. \A x, y \in H : x # y => heap[x].ref # heap[y].ref
  BY DEF FilesInv, ItemsInv, Spared, Apart
<1> QED
  BY <1>1, <1>2 DEF Apart

(* So does the position in an open file. *)
LEMMA PositionStays ==
  ASSUME FilesInv, NEW fd \in OpenFiles,
         file_descriptors'[fd] = file_descriptors[fd],
         NEW X, Untouched(X), Intact,
         {file_descriptors[fd], Private(fd), Item(fd)} \cap X = {},
         heap[Item(fd)].ref \notin X
  PROVE  PositionSound(heap', Private(fd)', Item(fd)')
<1>1. /\ Private(fd)' = Private(fd) /\ Item(fd)' = Item(fd)
      /\ heap'[Private(fd)] = heap[Private(fd)]
      /\ heap'[Item(fd)] = heap[Item(fd)]
  BY FileStays
<1>2. /\ heap'[heap[Item(fd)].ref] = heap[heap[Item(fd)].ref]
      /\ Loaded(heap', Item(fd))
  <2>1. PICK H : H = {Item(fd)}
    OBVIOUS
  <2>2. Spared(H, X)
    BY <2>1 DEF Held, Spared
  <2>3. \A x \in H : /\ heap'[heap[x].ref] = heap[heap[x].ref]
                     /\ Loaded(heap', x)
    BY <2>2, ItemsStay
  <2> QED
    BY <2>1, <2>3
<1>3. PositionSound(heap, Private(fd), Item(fd))
  BY DEF FilesInv, PositionInv, PositionInFile, PositionSound, Private, Item
<1> QED
  BY <1>1, <1>2, <1>3 DEF PositionSound, IsItem, Is

(* So do all of them when no file is opened or closed. *)
LEMMA PositionsStay ==
  ASSUME FilesInv, file_descriptors' = file_descriptors,
         NEW X, Untouched(X),
         ~Intact => ~Intact',
         \A fd \in OpenFiles :
           {file_descriptors[fd], Private(fd), Item(fd)} \cap X = {},
         Intact =>
           \A fd \in OpenFiles : heap[Item(fd)].ref \notin X
  PROVE  PositionInFile'
<1> SUFFICES ASSUME Intact', NEW fd \in OpenFiles'
             PROVE  PositionSound(heap', Private(fd)', Item(fd)')
  BY DEF PositionInFile, PositionSound, Private, Item
<1>1. fd \in OpenFiles /\ Intact
  BY DEF OpenFiles
<1> QED
  BY <1>1, PositionStays

(* A step that leaves the heap alone. *)
LEMMA SameHeap ==
  ASSUME FilesInv, heap' = heap, file_descriptors' = file_descriptors,
         dirs' = dirs, mishaps \subseteq mishaps'
  PROVE  /\ SlotsInv' /\ DirsInv' /\ PositionInFile'
         /\ OpenFiles' = OpenFiles
         /\ \A fd \in OpenFiles : Private(fd)' = Private(fd)
                                  /\ Item(fd)' = Item(fd)
<1>1. Untouched({})
  BY DEF Untouched, FilesInv, TypesInv
<1>2. DirsInv'
  BY <1>1, DirsStay
<1>3. /\ SlotsInv' /\ OpenFiles' = OpenFiles
      /\ \A fd \in OpenFiles : Private(fd)' = Private(fd)
                               /\ Item(fd)' = Item(fd)
  BY <1>1, OpenFilesStay
<1>4. PositionInFile'
  BY <1>1, PositionsStay, FailuresAre
<1> QED
  BY <1>2, <1>3, <1>4

(* Memory that is used after it was freed, or NULL.                        *)
LEMMA WildPreserves ==
  ASSUME FilesInv, NEW whys, whys \subseteq Mishaps, GoWild(whys),
         UNCHANGED <<dirs, mounted, opens>>, pc # "boot",
         Intact' => \/ StrayUsed
                    \/ /\ call # NoCall /\ call.curr = 0
                       /\ call.dir = 0 \/ heap[call.dir] = Free
  PROVE  FilesInv'
<1>1. /\ pc' = "wild" /\ mishaps' = mishaps \cup whys
      /\ UNCHANGED <<heap, file_descriptors, call, result>>
  BY DEF GoWild
<1>2. /\ SlotsInv' /\ DirsInv' /\ PositionInFile'
      /\ OpenFiles' = OpenFiles
      /\ \A fd \in OpenFiles : Private(fd)' = Private(fd)
                               /\ Item(fd)' = Item(fd)
  BY <1>1, SameHeap, FailuresAre
<1>3. TypesInv'
  BY <1>1 DEF FilesInv, TypesInv
<1>4. PathInv'
  BY <1>1 DEF FilesInv, PathInv, IsNullOr
<1>5. CallInv'
  BY <1>1, <1>2 DEF FilesInv, CallInv, IsNullOr
<1>6. ItemsInv'
  <2>1. Held' = Held
    BY <1>1, <1>2 DEF Held
  <2>2. StrayUsed' = StrayUsed
    BY <1>1 DEF StrayUsed, StrayTaken
  <2>3. Intact' => Intact
    BY <1>1, FailuresAre
  <2> QED
    BY <1>1, <2>1, <2>2, <2>3 DEF FilesInv, ItemsInv
<1>7. PositionInv'
  BY <1>1, <1>2 DEF FilesInv, PositionInv
<1> QED
  BY <1>2, <1>3, <1>4, <1>5, <1>6, <1>7 DEF FilesInv

(* A call of fopen that fails: what is left of it is its path, and perhaps *)
(* an item that is lost.                                                   *)
LEMMA FailPreserves ==
  ASSUME FilesInv, NEW h, h \in {heap, kfree(heap, {call.desc})}, Return(h, 0),
         UNCHANGED <<dirs, mounted, file_descriptors>>, opens' \in 0..MaxOpens,
         mishaps' \subseteq Mishaps, mishaps \subseteq mishaps'
  PROVE  FilesInv'
<1>1. /\ heap' = LosePath(h) /\ call' = NoCall /\ result' = 0 /\ pc' = "idle"
  BY DEF Return
<1>0. PICK X : X = {call.desc} \ {0}
  OBVIOUS
<1>2. /\ heap' = [b \in Blocks |-> heap'[b]]
      /\ \A b \in Blocks : \/ heap'[b] = heap[b]
                           \/ b \in X /\ heap'[b] = Free
                           \/ /\ heap[b].kind \in {"root", "name", "part"}
                              /\ heap'[b] = [kind |-> "path"]
      /\ \A b \in Blocks : heap'[b].kind \notin {"root", "name", "part"}
  <2>1. \A b \in Blocks : h[b] = heap[b] \/ (b \in X /\ h[b] = Free)
    <3>1. CASE h = heap
      BY <3>1
    <3>2. CASE h = kfree(heap, {call.desc})
      <4>1. \A b \in Blocks : IF b = call.desc THEN h[b] = Free
                                               ELSE h[b] = heap[b]
        BY <3>2 DEF kfree
      <4> QED
        BY <1>0, <4>1, PointersAre
    <3> QED
      BY <3>1, <3>2
  <2>2. /\ heap' = [b \in Blocks |-> heap'[b]]
        /\ \A b \in Blocks : h[b].kind \notin {"root", "name", "part"} =>
                                   heap'[b] = h[b]
        /\ \A b \in Blocks : h[b].kind \in {"root", "name", "part"} =>
                                   heap'[b] = [kind |-> "path"]
    BY <1>1, LosePathChanges
  <2>3. Free.kind = "free"
    BY FreeIsObject
  <2>4. [kind |-> "path"].kind = "path"
    OBVIOUS
  <2> QED
    BY <2>1, <2>2, <2>3, <2>4
<1>3. Untouched(X)
  BY <1>2 DEF Untouched, FileKinds
<1>4. \A x \in X : Is(heap, x, "descriptor")
  BY <1>0 DEF FilesInv, CallInv, IsNullOr
<1>5. ASSUME NEW fd \in OpenFiles
      PROVE  {file_descriptors[fd], Private(fd), Item(fd)} \cap X = {}
  <2>1. Private(fd) # call.desc
    BY DEF FilesInv, CallInv
  <2>2. /\ heap[file_descriptors[fd]].kind = "open"
        /\ heap[Item(fd)].kind = "item"
    BY OpenFileIs
  <2> QED
    BY <1>0, <1>4, <2>1, <2>2 DEF Is
<1>6. /\ SlotsInv' /\ OpenFiles' = OpenFiles
      /\ \A fd \in OpenFiles : Private(fd)' = Private(fd)
                               /\ Item(fd)' = Item(fd)
  BY <1>3, <1>5, OpenFilesStay
<1>7. DirsInv'
  <2>1. ASSUME NEW b \in Blocks, heap'[b].kind = "dir"
        PROVE  heap'[b] = heap[b] /\ heap[b].items \notin X \ {0}
    <3>1. heap'[b] = heap[b]
      <4>1. [kind |-> "path"].kind = "path"
        OBVIOUS
      <4>2. heap'[b] # Free /\ heap'[b] # [kind |-> "path"]
        BY <2>1, <4>1, FreeIsObject
      <4> QED
        BY <1>2, <4>2
    <3>2. IsNullOr(heap, heap[b].items, "items")
      BY <2>1, <3>1 DEF FilesInv, DirsInv
    <3> QED
      BY <1>4, <3>1, <3>2 DEF Is, IsNullOr
  <2> QED
    BY <1>3, <2>1, DirsStay
<1>8. Held' = {Item(fd) : fd \in OpenFiles} /\ Held' \subseteq Held
  BY <1>1, <1>6, NoCallIs DEF Held
<1>9. ASSUME Intact, NEW x \in Held'
      PROVE  x \notin X /\ heap[x].ref \notin X
  BY <1>4, <1>8, <1>9, HeldIs DEF Is
<1>10. PositionInFile'
  BY <1>3, <1>5, <1>8, <1>9, PositionsStay, FailuresAre
<1>11. TypesInv'
  <2>1. ASSUME NEW b \in Blocks
        PROVE  IsObject(heap'[b], dirs')
    BY <1>2, FreeIsObject DEF FilesInv, TypesInv
  <2>2. call' = [f \in CallFields |-> call'[f]]
    BY <1>1, NoCallIs
  <2>3. /\ call'.path \in {o.path : o \in Opens} \cup {<<>>}
        /\ call'.i \in Nat
        /\ \A f \in {"root", "part", "desc", "curr", "dir", "found"} :
             call'[f] \in Pointers
    BY <1>1, NoCallTypes
  <2>4. result' \in {Error} \cup 0..BENOS_MAX_FILE_DESCRIPTORS
    BY <1>1, CodesAre
  <2> QED
    BY <1>1, <1>2, <2>1, <2>2, <2>3, <2>4 DEF FilesInv, TypesInv
<1>12. PathInv'
  BY <1>1, <1>2, NoCallIs DEF PathInv, IsNullOr
<1>13. CallInv'
  <2>1. ASSUME NEW fd \in OpenFiles
        PROVE  Private(fd) # 0 /\ Item(fd) # 0
    <3>1. Private(fd) \in Blocks /\ Item(fd) \in Blocks
      BY OpenFileIs
    <3> QED
      BY <3>1, PointersAre
  <2> QED
    BY <1>1, <1>6, <2>1, NoCallIs DEF CallInv, IsNullOr
<1>14. ItemsInv'
  <2> SUFFICES ASSUME Intact'
               PROVE  /\ \A x \in Held' : Loaded(heap', x)
                      /\ Apart(heap', Held')
    BY <1>1 DEF ItemsInv
  <2>1. Intact
    BY FailuresAre
  <2>a. PICK H : H = {Item(fd) : fd \in OpenFiles}
    OBVIOUS
  <2>2. Spared(H, X)
    BY <1>8, <1>9, <2>1, <2>a DEF Spared
  <2>3. \A x \in H : Loaded(heap', x)
    BY <1>3, <2>1, <2>2, ItemsStay
  <2>4. Apart(heap', H)
    BY <1>3, <2>1, <2>2, ItemsStay
  <2> QED
    BY <1>8, <2>3, <2>4, <2>a
<1>15. PositionInv'
  BY <1>1, <1>10, NoCallIs DEF PositionInv
<1> QED
  BY <1>6, <1>7, <1>11, <1>12, <1>13, <1>14, <1>15 DEF FilesInv

(* A step of a call of fopen that at most writes to its own descriptor.    *)
LEMMA Steady ==
  ASSUME FilesInv, Untouched({call.desc}), UNCHANGED <<dirs, file_descriptors>>,
         mishaps \subseteq mishaps',
         \A b \in Blocks : heap'[b].kind = "dir" => heap'[b] = heap[b],
         {call'.curr, call'.found} \subseteq {call.curr, call.found, 0},
         pc' # "wild"
  PROVE  /\ SlotsInv' /\ DirsInv' /\ ItemsInv' /\ PositionInFile'
         /\ OpenFiles' = OpenFiles
         /\ \A fd \in OpenFiles : Private(fd)' = Private(fd)
                                  /\ Item(fd)' = Item(fd)
<1>0. PICK X : X = {call.desc}
  OBVIOUS
<1>1. Untouched(X)
  BY <1>0
<1>2. \A x \in X : x = 0 \/ heap[x].kind = "descriptor"
  BY <1>0 DEF FilesInv, CallInv, IsNullOr, Is
<1>3. ASSUME NEW fd \in OpenFiles
      PROVE  {file_descriptors[fd], Private(fd), Item(fd)} \cap X = {}
  <2>1. Private(fd) # call.desc
    BY DEF FilesInv, CallInv
  <2>2. /\ heap[file_descriptors[fd]].kind = "open"
        /\ heap[Item(fd)].kind = "item"
        /\ file_descriptors[fd] \in Blocks /\ Item(fd) \in Blocks
    BY OpenFileIs
  <2> QED
    BY <1>0, <1>2, <2>1, <2>2, PointersAre
<1>4. /\ SlotsInv' /\ OpenFiles' = OpenFiles
      /\ \A fd \in OpenFiles : Private(fd)' = Private(fd)
                               /\ Item(fd)' = Item(fd)
  BY <1>1, <1>3, OpenFilesStay
<1>5. DirsInv'
  <2>1. ASSUME NEW b \in Blocks, heap'[b].kind = "dir"
        PROVE  heap'[b] = heap[b] /\ heap[b].items \notin X \ {0}
    <3>1. heap'[b] = heap[b]
      BY <2>1
    <3>2. IsNullOr(heap, heap[b].items, "items")
      BY <2>1, <3>1 DEF FilesInv, DirsInv
    <3> QED
      BY <1>2, <3>1, <3>2 DEF Is, IsNullOr
  <2> QED
    BY <1>1, <2>1, DirsStay
<1>6. Held' \subseteq Held
  BY <1>4 DEF Held
<1>7. ASSUME Intact, NEW x \in Held
      PROVE  x \notin X /\ heap[x].ref \notin X
  <2>1. /\ x \in Blocks /\ heap[x].kind = "item"
        /\ heap[x].ref \in Blocks
        /\ heap[heap[x].ref].kind \in {"file", "dir"}
    BY <1>7, HeldIs
  <2> QED
    BY <1>2, <2>1, PointersAre
<1>8. PositionInFile'
  <2>1. \A fd \in OpenFiles : Item(fd) \in Held
    BY DEF Held
  <2> QED
    BY <1>1, <1>3, <1>7, <2>1, PositionsStay, FailuresAre
<1>9. ItemsInv'
  <2> SUFFICES ASSUME Intact'
               PROVE  /\ \A x \in Held' : Loaded(heap', x)
                      /\ Apart(heap', Held')
    BY DEF ItemsInv
  <2>1. PICK H : H = Held'
    OBVIOUS
  <2>2. Spared(H, X) /\ Intact
    BY <1>6, <1>7, <2>1, FailuresAre DEF Spared
  <2>3. \A x \in H : Loaded(heap', x)
    BY <1>1, <2>2, ItemsStay
  <2>4. Apart(heap', H)
    BY <1>1, <2>2, ItemsStay
  <2> QED
    BY <2>1, <2>3, <2>4
<1> QED
  BY <1>4, <1>5, <1>8, <1>9

-----------------------------------------------------------------------------
(* The steps of fopen up to the parsed path. *)

(* A call of fopen begins with nothing. *)
LEMMA FopenPreserves ==
  ASSUME FilesInv, NEW o \in Opens, fopen(o)
  PROVE  FilesInv'
<1>1. /\ pc = "idle" /\ pc' = "root"
      /\ UNCHANGED <<dirs, mounted, heap, file_descriptors, result, mishaps>>
      /\ call' = [NoCall EXCEPT !.path = o.path, !.mode = o.mode,
                                !.rest = SubSeq(o.path, 4, Len(o.path))]
  BY DEF fopen
<1>2. call = NoCall
  BY <1>1 DEF FilesInv, CallInv
<1>3. /\ call' = [f \in CallFields |-> call'[f]]
      /\ call'.path = o.path /\ call'.root = 0 /\ call'.part = 0
      /\ call'.desc = 0 /\ call'.curr = 0 /\ call'.dir = 0
      /\ call'.found = 0 /\ call'.i = 0
  BY <1>1 DEF NoCall, CallFields
<1>4. /\ SlotsInv' /\ DirsInv' /\ ItemsInv' /\ PositionInFile'
      /\ OpenFiles' = OpenFiles
      /\ \A fd \in OpenFiles : Private(fd)' = Private(fd)
                               /\ Item(fd)' = Item(fd)
  <2>1. Untouched({call.desc})
    BY <1>1 DEF Untouched, FilesInv, TypesInv
  <2> QED
    BY <1>1, <1>3, <2>1, Steady, FailuresAre
<1>5. TypesInv'
  <2>1. 0 \in Pointers
    BY PointersAre
  <2>2. \A f \in {"root", "part", "desc", "curr", "dir", "found"} :
          call'[f] \in Pointers
    BY <1>3, <2>1
  <2>3. opens' \in 0..MaxOpens
    <3>1. opens \in 0..MaxOpens /\ opens < MaxOpens /\ opens' = opens + 1
      BY DEF fopen, FilesInv, TypesInv
    <3> QED
      BY <3>1, FileSystemAssumption
  <2>4. /\ call'.path \in {q.path : q \in Opens} \cup {<<>>}
        /\ call'.i \in Nat
    BY <1>3
  <2> QED
    BY <1>1, <1>3, <2>2, <2>3, <2>4 DEF FilesInv, TypesInv
<1>6. PathInv'
  BY <1>1, <1>3 DEF FilesInv, PathInv, IsNullOr
<1>7. CallInv'
  BY <1>1, <1>2, <1>3, <1>4, NoCallIs DEF FilesInv, CallInv, IsNullOr
<1>8. PositionInv'
  BY <1>3, <1>4 DEF PositionInv
<1> QED
  BY <1>4, <1>5, <1>6, <1>7, <1>8 DEF FilesInv

(* A call that fails at once does nothing but lose its path. *)
LEMMA RefusalsPreserve ==
  ASSUME FilesInv,
         \/ \E o \in Opens : fopen_bad_path(o)
         \/ fopen_refused \/ file_table_full
  PROVE  FilesInv'
<1>1. /\ Return(heap, 0)
      /\ UNCHANGED <<dirs, mounted, opens, file_descriptors>>
      /\ mishaps' = mishaps \/ mishaps' = mishaps \cup {"table full"}
  BY DEF fopen_bad_path, fopen_refused, file_table_full
<1>2. /\ opens' \in 0..MaxOpens
      /\ mishaps' \subseteq Mishaps /\ mishaps \subseteq mishaps'
  <2>1. mishaps \subseteq Mishaps /\ "table full" \in Mishaps
    BY DEF FilesInv, TypesInv, Mishaps
  <2> QED
    BY <1>1, <2>1, FailuresAre DEF FilesInv, TypesInv
<1> QED
  BY <1>1, <1>2, FailPreserves

(* The root of a path goes into a block that was free. *)
LEMMA CreateRootPreserves ==
  ASSUME FilesInv, pathparser_create_root
  PROVE  FilesInv'
<1>1. PICK root \in {kzalloc({})} :
        IF root = 0 THEN GoWild({"no memory"})
        ELSE /\ heap' = Put(heap, root, [kind |-> "root", first |-> 0])
             /\ call' = [call EXCEPT !.root = root]
             /\ pc' = "parts"
             /\ UNCHANGED <<file_descriptors, result, mishaps>>
  BY DEF pathparser_create_root
<1>2. pc = "root" /\ UNCHANGED <<dirs, mounted, opens>>
  BY DEF pathparser_create_root
<1>3. CASE root = 0
  <2>1. GoWild({"no memory"})
    BY <1>1, <1>3
  <2>2. ~Intact'
    BY <2>1, FailuresAre, FailureShows DEF GoWild
  <2> QED
    BY <1>2, <2>1, <2>2, WildPreserves, FailuresAre
<1>4. CASE root # 0
  <2>1. /\ heap' = Put(heap, root, [kind |-> "root", first |-> 0])
        /\ call' = [call EXCEPT !.root = root]
        /\ pc' = "parts"
        /\ UNCHANGED <<file_descriptors, result, mishaps>>
    BY <1>1, <1>4
  <2>2. root \in Blocks /\ heap[root] = Free
    BY <1>4, KzallocReturns
  <2>3. /\ heap' = [b \in Blocks |-> heap'[b]]
        /\ \A b \in Blocks : b # root => heap'[b] = heap[b]
        /\ heap'[root] = [kind |-> "root", first |-> 0]
    BY <2>1, <2>2, PutChanges
  <2>4. Free.kind = "free"
    BY FreeIsObject
  <2>5. /\ call' = [f \in CallFields |-> call'[f]]
        /\ call'.root = root
        /\ \A f \in CallFields \ {"root"} : call'[f] = call[f]
    BY <2>1 DEF FilesInv, TypesInv, CallFields
  <2>6. /\ call'.path = call.path /\ call'.i = call.i
        /\ call'.part = call.part /\ call'.desc = call.desc
        /\ call'.curr = call.curr /\ call'.dir = call.dir
        /\ call'.found = call.found
    BY <2>5 DEF CallFields
  <2>7. Untouched({call.desc})
    BY <2>2, <2>3, <2>4 DEF Untouched, FileKinds
  <2>8. \A b \in Blocks : heap'[b].kind = "dir" => heap'[b] = heap[b]
    BY <2>3
  <2>9. /\ SlotsInv' /\ DirsInv' /\ ItemsInv' /\ PositionInFile'
        /\ OpenFiles' = OpenFiles
        /\ \A fd \in OpenFiles : Private(fd)' = Private(fd)
                                 /\ Item(fd)' = Item(fd)
    BY <1>2, <2>1, <2>6, <2>7, <2>8, Steady, FailuresAre
  <2>10. TypesInv'
    <3>1. IsObject(heap'[root], dirs)
      BY <2>3, PointersAre DEF IsObject, Kinds
    <3>2. \A b \in Blocks : IsObject(heap'[b], dirs')
      BY <1>2, <2>3, <3>1 DEF FilesInv, TypesInv
    <3>3. \A f \in {"root", "part", "desc", "curr", "dir", "found"} :
            call'[f] \in Pointers
      BY <2>2, <2>5, PointersAre DEF FilesInv, TypesInv, CallFields
    <3> QED
      BY <1>2, <2>1, <2>3, <2>5, <2>6, <3>2, <3>3 DEF FilesInv, TypesInv
  <2>11. PathInv'
    <3>1. /\ IsNullOr(heap', call.part, "part")
          /\ \A b \in Blocks :
               /\ heap'[b].kind = "root" => IsNullOr(heap', heap'[b].first, "part")
               /\ heap'[b].kind = "part" => IsNullOr(heap', heap'[b].next, "part")
      BY <2>2, <2>3, <2>4, PathStays
    <3> QED
      BY <2>1, <2>2, <2>3, <2>6, <3>1, PointersAre DEF PathInv, IsNullOr, Is
  <2>12. CallInv'
    BY <1>2, <2>1, <2>6, <2>9 DEF FilesInv, CallInv, IsNullOr
  <2>13. PositionInv'
    BY <1>2, <2>6, <2>9 DEF FilesInv, CallInv, PositionInv
  <2> QED
    BY <2>9, <2>10, <2>11, <2>12, <2>13 DEF FilesInv
<1> QED
  BY <1>3, <1>4

(* The heap after a part was appended to the path in call. *)
Appended(name, part, text) ==
  Link(Put(Put(heap, name, [kind |-> "name", text |-> text]),
           part, [kind |-> "part", name |-> name, next |-> 0]),
       part)

(* The part before it, or the root, points to the new one. *)
LEMMA PartAppended ==
  ASSUME FilesInv, pc = "parts",
         NEW name, name = 0 \/ (name \in Blocks /\ heap[name] = Free),
         NEW part \in Blocks, part # name, heap[part] = Free,
         NEW text,
         heap' = Appended(name, part, text)
  PROVE  /\ heap' = [b \in Blocks |-> heap'[b]]
         /\ heap'[part] = [kind |-> "part", name |-> name, next |-> 0]
         /\ \A b \in Blocks \ {part} :
              \/ b # name /\ heap'[b] = heap[b]
              \/ b = name /\ heap'[b] = [kind |-> "name", text |-> text]
              \/ /\ b = call.root /\ heap[b].kind = "root"
                 /\ heap'[b] = [kind |-> "root", first |-> part]
              \/ /\ b = call.part /\ heap[b].kind = "part"
                 /\ heap'[b] = [kind |-> "part", name |-> heap[b].name,
                                next |-> part]
<1>0. Free.kind = "free"
  BY FreeIsObject
<1>1. PICK g : g = Put(Put(heap, name, [kind |-> "name", text |-> text]),
                       part, [kind |-> "part", name |-> name, next |-> 0])
  OBVIOUS
<1>2. /\ g = [b \in Blocks |-> g[b]]
      /\ g[part] = [kind |-> "part", name |-> name, next |-> 0]
      /\ \A b \in Blocks \ {part, name} : g[b] = heap[b]
      /\ name # 0 => g[name] = [kind |-> "name", text |-> text]
  BY <1>1 DEF Put
<1>3. heap' = Link(g, part)
  BY <1>1 DEF Appended
<1>4. CASE call.part = 0
  <2>1. /\ call.root \in Blocks /\ heap[call.root].kind = "root"
        /\ heap[call.root] = [kind |-> "root", first |-> heap[call.root].first]
    <3>1. call.root # 0 /\ IsNullOr(heap, call.root, "root")
      BY DEF FilesInv, PathInv
    <3>2. call.root \in Blocks /\ heap[call.root].kind = "root"
      BY <3>1, CallPointers, PointersAre DEF IsNullOr, Is
    <3> QED
      BY <3>2 DEF FilesInv, TypesInv, IsObject
  <2>2. g[call.root] = heap[call.root]
    BY <1>0, <1>2, <2>1, PointersAre
  <2>3. heap' = [g EXCEPT ![call.root].first = part]
    BY <1>3, <1>4 DEF Link
  <2>4. /\ heap' = [b \in Blocks |-> heap'[b]]
        /\ \A b \in Blocks \ {call.root} : heap'[b] = g[b]
        /\ heap'[call.root] = [g[call.root] EXCEPT !.first = part]
    BY <1>2, <2>1, <2>3
  <2>5. heap'[call.root] = [kind |-> "root", first |-> part]
    BY <2>1, <2>2, <2>4
  <2>6. call.root # part
    BY <1>0, <2>1
  <2>7. \A b \in Blocks \ {part, call.root} :
          \/ b # name /\ heap'[b] = heap[b]
          \/ b = name /\ heap'[b] = [kind |-> "name", text |-> text]
    BY <1>2, <2>4, PointersAre
  <2> QED
    BY <1>2, <2>1, <2>4, <2>5, <2>6, <2>7
<1>5. CASE call.part # 0
  <2>1. /\ call.part \in Blocks /\ heap[call.part].kind = "part"
        /\ heap[call.part] = [kind |-> "part", name |-> heap[call.part].name,
                              next |-> heap[call.part].next]
    <3>1. IsNullOr(heap, call.part, "part")
      BY DEF FilesInv, PathInv
    <3>2. call.part \in Blocks /\ heap[call.part].kind = "part"
      BY <1>5, <3>1, CallPointers, PointersAre DEF IsNullOr, Is
    <3> QED
      BY <3>2 DEF FilesInv, TypesInv, IsObject
  <2>2. g[call.part] = heap[call.part]
    BY <1>0, <1>2, <2>1, PointersAre
  <2>3. heap' = [g EXCEPT ![call.part].next = part]
    BY <1>3, <1>5 DEF Link
  <2>4. /\ heap' = [b \in Blocks |-> heap'[b]]
        /\ \A b \in Blocks \ {call.part} : heap'[b] = g[b]
        /\ heap'[call.part] = [g[call.part] EXCEPT !.next = part]
    BY <1>2, <2>1, <2>3
  <2>5. heap'[call.part] = [kind |-> "part", name |-> heap[call.part].name,
                            next |-> part]
    BY <2>1, <2>2, <2>4
  <2>6. call.part # part
    BY <1>0, <2>1
  <2>7. \A b \in Blocks \ {part, call.part} :
          \/ b # name /\ heap'[b] = heap[b]
          \/ b = name /\ heap'[b] = [kind |-> "name", text |-> text]
    BY <1>2, <2>4, PointersAre
  <2> QED
    BY <1>2, <2>1, <2>4, <2>5, <2>6, <2>7
<1> QED
  BY <1>4, <1>5

(* A part of the path is appended to those before it. *)
LEMMA ParsePartPreserves ==
  ASSUME FilesInv, pathparser_parse_path_part
  PROVE  FilesInv'
<1>0. pc = "parts" /\ UNCHANGED <<dirs, mounted, opens>>
  BY DEF pathparser_parse_path_part
<1>n. PICK name \in {kzalloc({})} : \E part \in {kzalloc({name})} :
        IF part = 0 THEN GoWild({"no memory"})
        ELSE /\ heap' =
                  Link(Put(Put(heap, name,
                               [kind |-> "name",
                                text |-> SubSeq(call.rest, 1, PartLength)]),
                           part, [kind |-> "part", name |-> name, next |-> 0]),
                       part)
             /\ call' = [call EXCEPT
                           !.part = part,
                           !.rest = SubSeq(@, PartLength + 2, Len(@))]
             /\ UNCHANGED <<file_descriptors, pc, result, mishaps>>
  BY DEF pathparser_parse_path_part
<1>1. PICK part \in {kzalloc({name})} :
        IF part = 0 THEN GoWild({"no memory"})
        ELSE /\ heap' =
                  Link(Put(Put(heap, name,
                               [kind |-> "name",
                                text |-> SubSeq(call.rest, 1, PartLength)]),
                           part, [kind |-> "part", name |-> name, next |-> 0]),
                       part)
             /\ call' = [call EXCEPT
                           !.part = part,
                           !.rest = SubSeq(@, PartLength + 2, Len(@))]
             /\ UNCHANGED <<file_descriptors, pc, result, mishaps>>
  BY <1>n
<1>2. CASE part = 0
  <2>1. GoWild({"no memory"})
    BY <1>1, <1>2
  <2>2. ~Intact'
    BY <2>1, FailuresAre, FailureShows DEF GoWild
  <2> QED
    BY <1>0, <2>1, <2>2, WildPreserves, FailuresAre
<1>3. CASE part # 0
  <2>0. PICK text : text = SubSeq(call.rest, 1, PartLength)
    OBVIOUS
  <2>1. /\ heap' = Appended(name, part, text)
        /\ call' = [call EXCEPT !.part = part,
                                !.rest = SubSeq(@, PartLength + 2, Len(@))]
        /\ UNCHANGED <<file_descriptors, pc, result, mishaps>>
    BY <1>1, <1>3, <2>0 DEF Appended
  <2>2. /\ name = 0 \/ (name \in Blocks /\ heap[name] = Free)
        /\ part \in Blocks /\ part # name /\ heap[part] = Free
    BY <1>3, KzallocReturns
  <2>3. /\ heap' = [b \in Blocks |-> heap'[b]]
        /\ heap'[part] = [kind |-> "part", name |-> name, next |-> 0]
        /\ \A b \in Blocks \ {part} :
             \/ heap'[b] = heap[b]
             \/ b = name /\ heap'[b] = [kind |-> "name", text |-> text]
             \/ /\ b = call.root /\ heap[b].kind = "root"
                /\ heap'[b] = [kind |-> "root", first |-> part]
             \/ /\ b = call.part /\ heap[b].kind = "part"
                /\ heap'[b] = [kind |-> "part", name |-> heap[b].name,
                               next |-> part]
    BY <1>0, <2>1, <2>2, PartAppended
  <2>4. Free.kind = "free"
    BY FreeIsObject
  <2>5. /\ call' = [f \in CallFields |-> call'[f]]
        /\ call'.part = part
        /\ \A f \in CallFields \ {"part", "rest"} : call'[f] = call[f]
    BY <2>1 DEF FilesInv, TypesInv, CallFields
  <2>6. /\ call'.path = call.path /\ call'.i = call.i
        /\ call'.root = call.root /\ call'.desc = call.desc
        /\ call'.curr = call.curr /\ call'.dir = call.dir
        /\ call'.found = call.found
    BY <2>5 DEF CallFields
  <2>7. \A b \in Blocks :
          heap[b].kind \in FileKinds \/ heap'[b].kind \in FileKinds =>
            heap'[b] = heap[b]
    BY <2>2, <2>3, <2>4, PointersAre DEF FileKinds
  <2>8. /\ Untouched({call.desc})
        /\ \A b \in Blocks : heap'[b].kind = "dir" => heap'[b] = heap[b]
    BY <2>3, <2>7 DEF Untouched, FileKinds
  <2>9. /\ SlotsInv' /\ DirsInv' /\ ItemsInv' /\ PositionInFile'
        /\ OpenFiles' = OpenFiles
        /\ \A fd \in OpenFiles : Private(fd)' = Private(fd)
                                 /\ Item(fd)' = Item(fd)
    BY <1>0, <2>1, <2>6, <2>8, Steady, FailuresAre
  <2>10. TypesInv'
    <3>0. part \in Pointers /\ 0 \in Pointers
      BY <2>2, PointersAre
    <3>1. IsObject(heap'[part], dirs)
      BY <2>3, <3>0 DEF IsObject, Kinds
    <3>2. ASSUME NEW b \in Blocks \ {part}
          PROVE  IsObject(heap'[b], dirs)
      <4>1. IsObject(heap[b], dirs)
        BY DEF FilesInv, TypesInv
      <4>2. IsObject([kind |-> "name", text |-> text], dirs)
        BY DEF IsObject, Kinds
      <4>3. IsObject([kind |-> "root", first |-> part], dirs)
        BY <3>0 DEF IsObject, Kinds
      <4>4. \A n : IsObject([kind |-> "part", name |-> n, next |-> part], dirs)
        BY <3>0 DEF IsObject, Kinds
      <4> QED
        BY <2>3, <4>1, <4>2, <4>3, <4>4
    <3>3. \A b \in Blocks : IsObject(heap'[b], dirs')
      BY <1>0, <3>1, <3>2
    <3>4. \A f \in {"root", "part", "desc", "curr", "dir", "found"} :
            call'[f] \in Pointers
      BY <3>0, <2>5 DEF FilesInv, TypesInv, CallFields
    <3> QED
      BY <1>0, <2>1, <2>3, <2>5, <2>6, <3>3, <3>4 DEF FilesInv, TypesInv
  <2>11. PathInv'
    <3>1. \A b \in Blocks : /\ heap[b].kind = "root" => heap'[b].kind = "root"
                            /\ heap[b].kind = "part" => heap'[b].kind = "part"
      BY <2>2, <2>3, <2>4, PointersAre
    <3>2. heap'[part].kind = "part"
      BY <2>3
    <3>3. ASSUME NEW p \in Pointers, IsNullOr(heap, p, "part")
          PROVE  IsNullOr(heap', p, "part")
      BY <3>1, <3>3, PointersAre DEF IsNullOr, Is
    <3>4. IsNullOr(heap', part, "part")
      BY <3>2 DEF IsNullOr, Is
    <3>5. IsNullOr(heap', call.root, "root")
      BY <3>1, CallPointers, PointersAre DEF FilesInv, PathInv, IsNullOr, Is
    <3>6. ASSUME NEW b \in Blocks, heap'[b].kind = "root"
          PROVE  IsNullOr(heap', heap'[b].first, "part")
      <4>1. CASE heap'[b] = heap[b]
        <5>1. /\ heap[b].first \in Pointers
              /\ IsNullOr(heap, heap[b].first, "part")
          BY <3>6, <4>1 DEF FilesInv, TypesInv, PathInv, IsObject
        <5> QED
          BY <3>3, <4>1, <5>1
      <4>2. CASE heap'[b] = [kind |-> "root", first |-> part]
        BY <3>4, <4>2
      <4> QED
        BY <2>3, <3>6, <4>1, <4>2
    <3>7. ASSUME NEW b \in Blocks, heap'[b].kind = "part"
          PROVE  IsNullOr(heap', heap'[b].next, "part")
      <4>1. CASE heap'[b] = heap[b]
        <5>1. /\ heap[b].next \in Pointers
              /\ IsNullOr(heap, heap[b].next, "part")
          BY <3>7, <4>1 DEF FilesInv, TypesInv, PathInv, IsObject
        <5> QED
          BY <3>3, <4>1, <5>1
      <4>2. CASE heap'[b].next \in {0, part}
        BY <3>4, <4>2 DEF IsNullOr
      <4> QED
        BY <2>3, <3>7, <4>1, <4>2
    <3> QED
      BY <1>0, <2>1, <2>5, <2>6, <3>4, <3>5, <3>6, <3>7
         DEF FilesInv, PathInv
  <2>12. CallInv'
    BY <1>0, <2>1, <2>6, <2>9 DEF FilesInv, CallInv, IsNullOr
  <2>13. PositionInv'
    BY <1>0, <2>6, <2>9 DEF FilesInv, CallInv, PositionInv
  <2> QED
    BY <2>9, <2>10, <2>11, <2>12, <2>13 DEF FilesInv
<1> QED
  BY <1>2, <1>3

(* The end of the path. *)
LEMMA ParseEndPreserves ==
  ASSUME FilesInv, pathparser_parse_end
  PROVE  FilesInv'
<1>0. pc = "parts" /\ UNCHANGED <<dirs, mounted, opens>>
  BY DEF pathparser_parse_end
<1>1. CASE GoWild({"no memory"})
  <2>1. ~Intact'
    BY <1>1, FailuresAre, FailureShows DEF GoWild
  <2> QED
    BY <1>0, <1>1, <2>1, WildPreserves, FailuresAre
<1>2. CASE /\ pc' = "opening"
           /\ UNCHANGED <<heap, file_descriptors, call, result, mishaps>>
  <2>1. Untouched({call.desc})
    BY <1>2 DEF Untouched, FilesInv, TypesInv
  <2>2. /\ SlotsInv' /\ DirsInv' /\ ItemsInv' /\ PositionInFile'
        /\ OpenFiles' = OpenFiles
        /\ \A fd \in OpenFiles : Private(fd)' = Private(fd)
                                 /\ Item(fd)' = Item(fd)
    BY <1>0, <1>2, <2>1, Steady, FailuresAre
  <2>3. TypesInv'
    BY <1>0, <1>2 DEF FilesInv, TypesInv
  <2>4. PathInv'
    BY <1>0, <1>2 DEF FilesInv, PathInv
  <2>5. CallInv'
    BY <1>0, <1>2, <2>2 DEF FilesInv, CallInv, IsNullOr
  <2>6. PositionInv'
    BY <1>2, <2>2 DEF FilesInv, PositionInv
  <2> QED
    BY <2>2, <2>3, <2>4, <2>5, <2>6 DEF FilesInv
<1> QED
  BY <1>1, <1>2 DEF pathparser_parse_end

(* At boot nothing is open yet. *)
LEMMA ResolvePreserves ==
  ASSUME FilesInv, fat16_resolve
  PROVE  FilesInv'
<1>1. /\ pc = "boot" /\ pc' = "idle" /\ mounted' \in BOOLEAN
      /\ UNCHANGED <<dirs, file_descriptors, call, opens, result, mishaps>>
      /\ heap' = [b \in Blocks |-> heap'[b]]
      /\ \A b \in Blocks : \/ heap'[b] = [kind |-> "stream"]
                           \/ heap'[b] = [kind |-> "private"]
                           \/ heap'[b] = [kind |-> "root_dir"]
                           \/ heap'[b] = heap[b]
  BY DEF fat16_resolve
<1>2. OpenFiles = {} /\ call = NoCall /\ \A b \in Blocks : heap[b] = Free
  BY <1>1 DEF FilesInv, CallInv
<1>3. \A b \in Blocks :
        heap'[b].kind \in {"free", "stream", "private", "root_dir"}
  <2>1. ASSUME NEW b \in Blocks
        PROVE  heap'[b].kind \in {"free", "stream", "private", "root_dir"}
    <3>1. CASE heap'[b] = heap[b]
      BY <1>2, <3>1, FreeIsObject
    <3>2. CASE heap'[b] # heap[b]
      BY <1>1, <3>2
    <3> QED
      BY <3>1, <3>2
  <2> QED
    BY <2>1
<1>4. Untouched({call.desc})
  BY <1>1, <1>2, FreeIsObject DEF Untouched, FileKinds
<1>5. /\ SlotsInv' /\ DirsInv' /\ ItemsInv' /\ PositionInFile'
      /\ OpenFiles' = OpenFiles
      /\ \A fd \in OpenFiles : Private(fd)' = Private(fd)
                               /\ Item(fd)' = Item(fd)
  BY <1>1, <1>3, <1>4, Steady, FailuresAre
<1>6. TypesInv'
  <2>1. \A b \in Blocks : IsObject(heap'[b], dirs')
    BY <1>1, FreeIsObject DEF FilesInv, TypesInv
  <2> QED
    BY <1>1, <2>1 DEF FilesInv, TypesInv
<1>7. PathInv'
  BY <1>1, <1>2, <1>3, NoCallIs DEF PathInv, IsNullOr
<1>8. CallInv'
  BY <1>1, <1>2, <1>5, NoCallIs DEF CallInv, IsNullOr
<1>9. PositionInv'
  BY <1>1, <1>2, <1>5, NoCallIs DEF PositionInv
<1> QED
  BY <1>5, <1>6, <1>7, <1>8, <1>9 DEF FilesInv

-----------------------------------------------------------------------------
(* The search. *)

(* The descriptor of the file system goes into a block that was free.      *)
LEMMA OpenPreserves ==
  ASSUME FilesInv, fat16_open
  PROVE  FilesInv'
<1>0. pc = "opening" /\ Openable
      /\ UNCHANGED <<dirs, mounted, opens, file_descriptors>>
  BY DEF fat16_open
<1>1. PICK desc \in {kzalloc({})} :
        IF desc = 0
        THEN /\ Return(heap, 0)
             /\ mishaps' = mishaps \cup {"no memory"}
        ELSE /\ heap' = Put(heap, desc, [kind |-> "descriptor", item |-> 0,
                                         pos |-> 0, relative |-> FALSE])
             /\ call' = [call EXCEPT !.desc = desc, !.i = 1,
                                     !.part = heap[call.root].first]
             /\ pc' = "find"
             /\ UNCHANGED <<result, mishaps>>
  BY DEF fat16_open
<1>2. CASE desc = 0
  <2>1. Return(heap, 0) /\ mishaps' = mishaps \cup {"no memory"}
    BY <1>1, <1>2
  <2>2. /\ opens' \in 0..MaxOpens
        /\ mishaps' \subseteq Mishaps
        /\ ~Intact => ~Intact'
    BY <1>0, <2>1, FailuresAre DEF FilesInv, TypesInv
  <2> QED
    BY <1>0, <2>1, <2>2, FailPreserves
<1>3. CASE desc # 0
  <2>1. /\ heap' = Put(heap, desc, [kind |-> "descriptor", item |-> 0,
                                    pos |-> 0, relative |-> FALSE])
        /\ call' = [call EXCEPT !.desc = desc, !.i = 1,
                                !.part = heap[call.root].first]
        /\ pc' = "find"
        /\ UNCHANGED <<result, mishaps>>
    BY <1>1, <1>3
  <2>2. desc \in Blocks /\ heap[desc] = Free
    BY <1>3, KzallocReturns
  <2>3. /\ heap' = [b \in Blocks |-> heap'[b]]
        /\ \A b \in Blocks : b # desc => heap'[b] = heap[b]
        /\ heap'[desc] = [kind |-> "descriptor", item |-> 0,
                          pos |-> 0, relative |-> FALSE]
    BY <2>1, <2>2, PutChanges
  <2>4. Free.kind = "free"
    BY FreeIsObject
  <2>5. /\ call' = [f \in CallFields |-> call'[f]]
        /\ call'.desc = desc /\ call'.i = 1
        /\ call'.part = heap[call.root].first
        /\ \A f \in CallFields \ {"part", "i", "desc"} : call'[f] = call[f]
    BY <2>1 DEF FilesInv, TypesInv, CallFields
  <2>6. /\ call'.path = call.path /\ call'.root = call.root
        /\ call'.curr = call.curr /\ call'.dir = call.dir
        /\ call'.found = call.found
    BY <2>5 DEF CallFields
  <2>7. /\ call.desc = 0 /\ call.curr = 0 /\ call.dir = 0 /\ call.found = 0
        /\ call.root \in Blocks /\ heap[call.root].kind = "root"
        /\ heap[call.root].first # 0 /\ heap[call.root].first \in Pointers
        /\ IsNullOr(heap, heap[call.root].first, "part")
    <3>1. call.desc = 0 /\ call.curr = 0 /\ call.dir = 0 /\ call.found = 0
      BY <1>0 DEF FilesInv, CallInv
    <3>2. call.root \in Blocks /\ heap[call.root].kind = "root"
      BY <1>0, CallPointers, PointersAre DEF FilesInv, PathInv, IsNullOr, Is
    <3> QED
      BY <1>0, <3>1, <3>2
         DEF Openable, FilesInv, TypesInv, PathInv, IsObject
  <2>8. /\ Untouched({call.desc})
        /\ \A b \in Blocks : heap'[b].kind = "dir" => heap'[b] = heap[b]
    BY <2>2, <2>3, <2>4 DEF Untouched, FileKinds
  <2>9. /\ SlotsInv' /\ DirsInv' /\ ItemsInv' /\ PositionInFile'
        /\ OpenFiles' = OpenFiles
        /\ \A fd \in OpenFiles : Private(fd)' = Private(fd)
                                 /\ Item(fd)' = Item(fd)
    BY <1>0, <2>1, <2>6, <2>8, Steady, FailuresAre
  <2>10. TypesInv'
    <3>1. IsObject(heap'[desc], dirs)
      BY <2>3, PointersAre DEF IsObject, Kinds
    <3>2. \A b \in Blocks : IsObject(heap'[b], dirs')
      BY <1>0, <2>3, <3>1 DEF FilesInv, TypesInv
    <3>3. \A f \in {"root", "part", "desc", "curr", "dir", "found"} :
            call'[f] \in Pointers
      BY <2>2, <2>5, <2>7, PointersAre DEF FilesInv, TypesInv, CallFields
    <3>4. call'.path \in {o.path : o \in Opens} \cup {<<>>} /\ call'.i \in Nat
      <4>1. call.path \in {o.path : o \in Opens} \cup {<<>>}
        BY DEF FilesInv, TypesInv
      <4>2. call'.path = call.path /\ call'.i \in Nat
        BY <2>5, <2>6
      <4> QED
        BY <4>1, <4>2
    <3> QED
      BY <1>0, <2>1, <2>3, <2>5, <3>2, <3>3, <3>4 DEF FilesInv, TypesInv
  <2>11. PathInv'
    <3>1. /\ IsNullOr(heap', call.root, "root")
          /\ \A b \in Blocks :
               /\ heap'[b].kind = "root" =>
                    IsNullOr(heap', heap'[b].first, "part")
               /\ heap'[b].kind = "part" =>
                    IsNullOr(heap', heap'[b].next, "part")
      BY <2>2, <2>3, <2>4, PathStays
    <3>2. heap'[call.root] = heap[call.root]
      BY <2>2, <2>3, <2>4, <2>7
    <3>3. IsNullOr(heap', call'.part, "part") /\ call'.part # 0
      BY <2>5, <2>7, <3>1, <3>2
    <3> QED
      BY <2>1, <2>6, <2>7, <3>1, <3>3, PointersAre DEF PathInv
  <2>12. CallInv'
    <3>1. ASSUME NEW fd \in OpenFiles
          PROVE  Private(fd) # desc /\ Item(fd) # 0
      <4>1. /\ Private(fd) \in Blocks /\ heap[Private(fd)].kind = "descriptor"
            /\ Item(fd) \in Blocks
        BY OpenFileIs
      <4> QED
        BY <2>2, <2>4, <4>1, PointersAre
    <3>2. IsNullOr(heap', desc, "descriptor")
      BY <2>3 DEF IsNullOr, Is
    <3> QED
      BY <2>1, <2>2, <2>5, <2>6, <2>7, <2>9, <3>1, <3>2, PointersAre
         DEF CallInv, IsNullOr
  <2>13. PositionInv'
    BY <2>3, <2>5, <2>9 DEF PositionInv
  <2> QED
    BY <2>9, <2>10, <2>11, <2>12, <2>13 DEF FilesInv
<1> QED
  BY <1>2, <1>3

(* The entries that are counted are in the directory. *)
LEMMA CountedIs ==
  ASSUME dirs \in Volumes, NEW d \in DOMAIN dirs
  PROVE  /\ fat16_get_total_items_for_dir(d) = Counted(dirs, d)
         /\ Counted(dirs, d) \in Nat
         /\ 1..Counted(dirs, d) \subseteq DOMAIN dirs[d]
         /\ \A k \in DOMAIN dirs[d] : IsEntry(dirs[d][k], dirs)
<1>1. /\ Len(dirs[d]) \in Nat /\ DOMAIN dirs[d] = 1..Len(dirs[d])
      /\ \A k \in DOMAIN dirs[d] : IsEntry(dirs[d][k], dirs)
  BY VolumesAssumption DEF IsEntry
<1>2. PICK n \in Nat : n = Len(dirs[d])
  BY <1>1
<1>3. PICK S : S = {k \in DOMAIN dirs[d] : Head(dirs[d][k].fname) # DELETED}
  OBVIOUS
<1>4. S \subseteq 1..n
  BY <1>1, <1>2, <1>3
<1>5. IsFiniteSet(1..n) /\ Cardinality(1..n) = n
  <2>1. n \in Int /\ n >= 0
    OBVIOUS
  <2> QED
    BY ONLY <2>1, FS_Interval
<1>6. Cardinality(S) <= n /\ Cardinality(S) \in Nat
  BY <1>4, <1>5, FS_Subset, FS_CardinalityType
<1>7. fat16_get_total_items_for_dir(d) = Cardinality(S)
  BY <1>3 DEF fat16_get_total_items_for_dir
<1>8. Counted(dirs, d) = Cardinality(S)
  BY <1>3 DEF Counted
<1>9. 1..Cardinality(S) \subseteq 1..n
  BY <1>2, <1>6
<1> QED
  BY <1>1, <1>2, <1>6, <1>7, <1>8, <1>9

(* The entry that the search looks at. *)
LEMMA EntryIs ==
  ASSUME FilesInv, Searching
  PROVE  /\ Searched \in DOMAIN dirs /\ call.i \in DOMAIN dirs[Searched]
         /\ Entry.file_size \in Nat
         /\ Entry.dir => Entry.first \in DOMAIN dirs
         /\ call.i \in 1..Counted(dirs, Searched)
         /\ call.dir = 0 \/ call.i <= ClusterEntries =>
              Entry = dirs[Searched][call.i]
<1>1. /\ dirs \in Volumes /\ call.i \in Nat /\ call.i > 0
      /\ call.i <= fat16_get_total_items_for_dir(Searched)
  BY DEF Searching, FilesInv, TypesInv, CallInv
<1>2. CASE call.dir = 0
  <2>1. Searched = Root /\ Entry = dirs[Root][call.i]
    BY <1>2 DEF Searched, Entry
  <2>2. Searched \in DOMAIN dirs
    BY <1>1, <2>1, VolumesAssumption
  <2>3. /\ call.i \in 1..Counted(dirs, Searched)
        /\ call.i \in DOMAIN dirs[Searched]
    BY <1>1, <2>2, CountedIs
  <2>4. IsEntry(Entry, dirs)
    BY <1>1, <2>1, <2>2, <2>3, CountedIs
  <2> QED
    BY <2>1, <2>2, <2>3, <2>4 DEF IsEntry
<1>3. CASE call.dir # 0
  <2>1. PICK dir \in Blocks : dir = call.dir /\ heap[dir].kind = "dir"
    BY <1>3, CallPointers, PointersAre
       DEF Searching, FilesInv, CallInv, Is
  <2>2. Searched = heap[dir].id /\ Entry = heap[dir].entries[call.i]
    BY <1>3, <2>1 DEF Searched, Entry
  <2>3. IsDirectory(heap[dir], dirs)
    BY <2>1 DEF FilesInv, TypesInv, IsObject
  <2>4. Searched \in DOMAIN dirs
    BY <2>2, <2>3 DEF IsDirectory
  <2>5. /\ call.i \in 1..Counted(dirs, Searched)
        /\ call.i \in DOMAIN dirs[Searched]
    BY <1>1, <2>4, CountedIs
  <2>6. /\ IsEntry(Entry, dirs)
        /\ call.i <= ClusterEntries => Entry = dirs[Searched][call.i]
    BY <2>2, <2>3, <2>5 DEF IsDirectory
  <2> QED
    BY <1>3, <2>4, <2>5, <2>6 DEF IsEntry
<1> QED
  BY <1>2, <1>3

(* The search goes on. *)
LEMMA NoMatchPreserves ==
  ASSUME FilesInv, find_no_match
  PROVE  FilesInv'
<1>1. /\ pc = "find" /\ call' = [call EXCEPT !.i = @ + 1]
      /\ UNCHANGED <<dirs, mounted, opens, heap, file_descriptors, pc, result,
                     mishaps>>
  BY DEF find_no_match, Searching
<1>2. /\ call' = [f \in CallFields |-> call'[f]]
      /\ call'.i = call.i + 1
      /\ \A f \in CallFields \ {"i"} : call'[f] = call[f]
  BY <1>1 DEF FilesInv, TypesInv, CallFields
<1>3. /\ call'.path = call.path /\ call'.root = call.root
      /\ call'.part = call.part /\ call'.desc = call.desc
      /\ call'.curr = call.curr /\ call'.dir = call.dir
      /\ call'.found = call.found
  BY <1>2 DEF CallFields
<1>4. call'.i \in Nat /\ call'.i > 0
  <2>1. call.i \in Nat
    BY DEF FilesInv, TypesInv
  <2> QED
    BY <1>2, <2>1
<1>5. Untouched({call.desc})
  BY <1>1 DEF Untouched, FilesInv, TypesInv
<1>6. /\ SlotsInv' /\ DirsInv' /\ ItemsInv' /\ PositionInFile'
      /\ OpenFiles' = OpenFiles
      /\ \A fd \in OpenFiles : Private(fd)' = Private(fd)
                               /\ Item(fd)' = Item(fd)
  BY <1>1, <1>3, <1>5, Steady, FailuresAre
<1>7. TypesInv'
  <2>1. \A f \in {"root", "part", "desc", "curr", "dir", "found"} :
          call'[f] \in Pointers
    BY <1>2 DEF FilesInv, TypesInv, CallFields
  <2> QED
    BY <1>1, <1>2, <1>3, <1>4, <2>1 DEF FilesInv, TypesInv
<1>8. PathInv'
  BY <1>1, <1>3 DEF FilesInv, PathInv
<1>9. CallInv'
  BY <1>1, <1>3, <1>4, <1>6 DEF FilesInv, CallInv, IsNullOr
<1>10. PositionInv'
  BY <1>1, <1>3, <1>6 DEF FilesInv, PositionInv
<1> QED
  BY <1>6, <1>7, <1>8, <1>9, <1>10 DEF FilesInv

(* What was found becomes an item of its own, in blocks that were free.    *)
FoundStep(item) ==
  /\ Searching /\ Untouched({})
  /\ UNCHANGED <<dirs, mounted, opens, file_descriptors, pc, result>>
  /\ mishaps \subseteq mishaps' /\ mishaps' \subseteq Mishaps
  /\ DirsInv'
  /\ \A b \in Blocks : IsObject(heap'[b], dirs)
  /\ \A b \in Blocks :
       /\ heap[b].kind \in {"root", "part"} => heap'[b] = heap[b]
       /\ heap'[b].kind \in {"root", "part"} => heap'[b] = heap[b]
  /\ item = 0 \/ (/\ item \in Blocks /\ heap[item] = Free
                  /\ heap'[item].kind = "item")
  /\ Intact' =>
       /\ item # 0 /\ Loaded(heap', item)
       /\ heap'[item].ref \in Blocks /\ heap[heap'[item].ref] = Free
  /\ call' = [call EXCEPT !.i = @ + 1, !.found = item, !.astray = call'.astray]

(* Nothing else that the file system holds is disturbed. *)
LEMMA FoundPreserves ==
  ASSUME FilesInv, NEW item, FoundStep(item)
  PROVE  FilesInv'
<1>0. Free.kind = "free"
  BY FreeIsObject
<1>a. /\ call' = [f \in CallFields |-> call'[f]]
      /\ call'.i = call.i + 1 /\ call'.found = item
      /\ \A f \in CallFields \ {"i", "found", "astray"} : call'[f] = call[f]
  BY DEF FoundStep, FilesInv, TypesInv, CallFields
<1>b. /\ Untouched({})
      /\ UNCHANGED <<dirs, mounted, opens, file_descriptors, pc, result>>
      /\ item = 0 \/ (/\ item \in Blocks /\ heap[item] = Free
                      /\ heap'[item].kind = "item")
  BY DEF FoundStep
<1>1. /\ call'.path = call.path /\ call'.root = call.root
      /\ call'.part = call.part /\ call'.desc = call.desc
      /\ call'.curr = call.curr /\ call'.dir = call.dir
  BY <1>a DEF CallFields
<1>2. pc = "find" /\ call'.i \in Nat /\ call'.i > 0 /\ pc' = "find"
  <2>1. call.i \in Nat
    BY DEF FilesInv, TypesInv
  <2>2. pc = "find" /\ pc' = pc
    BY <1>b DEF FoundStep, Searching
  <2> QED
    BY <1>a, <2>1, <2>2
<1>3. ~Intact => ~Intact'
  BY FailuresAre DEF FoundStep
<1>4. /\ SlotsInv' /\ OpenFiles' = OpenFiles
      /\ \A fd \in OpenFiles : Private(fd)' = Private(fd)
                               /\ Item(fd)' = Item(fd)
  BY <1>b, OpenFilesStay
<1>5. PositionInFile'
  BY <1>b, <1>3, PositionsStay
<1>6. TypesInv'
  <2>1. item \in Pointers
    BY <1>b, PointersAre
  <2>2. \A f \in {"root", "part", "desc", "curr", "dir", "found"} :
          call'[f] \in Pointers
    BY <1>a, <2>1 DEF FilesInv, TypesInv, CallFields
  <2>3. /\ heap' = [b \in Blocks |-> heap'[b]]
        /\ \A b \in Blocks : IsObject(heap'[b], dirs)
    BY DEF FoundStep, Untouched
  <2>4. mishaps' \subseteq Mishaps
    BY DEF FoundStep, FilesInv, TypesInv
  <2> QED
    BY <1>a, <1>b, <1>1, <1>2, <2>2, <2>3, <2>4 DEF FilesInv, TypesInv
<1>7. PathInv'
  <2>1. /\ IsNullOr(heap', call.root, "root")
        /\ IsNullOr(heap', call.part, "part")
        /\ \A b \in Blocks :
             /\ heap'[b].kind = "root" => IsNullOr(heap', heap'[b].first, "part")
             /\ heap'[b].kind = "part" => IsNullOr(heap', heap'[b].next, "part")
    BY PathStays DEF FoundStep
  <2> QED
    BY <1>1, <1>2, <2>1 DEF FilesInv, PathInv
<1>8. CallInv'
  <2>1. /\ IsNullOr(heap', call.desc, "descriptor")
        /\ IsNullOr(heap', call.curr, "item")
        /\ IsNullOr(heap', item, "item")
    BY <1>b, CallPointers, PointersAre
       DEF FilesInv, CallInv, IsNullOr, Is, Untouched, FileKinds
  <2>2. call.curr = 0 \/ call.curr # item
    BY <1>0, <1>b, CallPointers, PointersAre DEF FilesInv, CallInv, IsNullOr, Is
  <2>3. ASSUME call.dir # 0
        PROVE  /\ call.curr # 0 /\ Is(heap', call.dir, "dir")
               /\ heap'[call.curr].ref = call.dir
    <3>1. /\ call.curr # 0 /\ Is(heap, call.dir, "dir")
          /\ Is(heap, call.curr, "item") /\ heap[call.curr].ref = call.dir
      BY <1>2, <2>3 DEF FilesInv, CallInv, IsNullOr
    <3>2. call.curr \in Blocks /\ call.dir \in Blocks
      BY <3>1, <2>3, CallPointers, PointersAre
    <3> QED
      BY <1>b, <3>1, <3>2 DEF Untouched, FileKinds, Is
  <2>4. ASSUME NEW fd \in OpenFiles
        PROVE  Private(fd) # call.desc /\ Item(fd) \notin {call.curr, item}
    <3>1. Private(fd) # call.desc /\ Item(fd) # call.curr
      BY DEF FilesInv, CallInv
    <3>2. Item(fd) \in Blocks /\ heap[Item(fd)].kind = "item"
      BY OpenFileIs
    <3> QED
      BY <1>0, <1>b, <3>1, <3>2, PointersAre
  <2>5. call.dir = 0 => call.curr = 0
    BY <1>2 DEF FilesInv, CallInv
  <2>6. call.desc # 0
    BY <1>2 DEF FilesInv, CallInv
  <2> QED
    BY <1>a, <1>1, <1>2, <1>4, <2>1, <2>2, <2>3, <2>4, <2>5, <2>6
       DEF CallInv, IsNullOr
<1>9. ItemsInv'
  <2> SUFFICES ASSUME Intact'
               PROVE  /\ \A x \in Held' : Loaded(heap', x)
                      /\ Apart(heap', Held')
    BY <1>2 DEF ItemsInv
  <2>1. Intact
    BY <1>3
  <2>2. Held' \subseteq Held \cup {item}
    <3>1. {Item(fd)' : fd \in OpenFiles'} = {Item(fd) : fd \in OpenFiles}
      BY <1>4
    <3>2. call'.curr = call.curr /\ call'.found = item
      BY <1>a, <1>1
    <3> QED
      BY <3>1, <3>2 DEF Held
  <2>3. Spared(Held, {})
    BY DEF Spared
  <2>4. PICK H : H = Held
    OBVIOUS
  <2>5. \A x \in H : /\ heap'[x] = heap[x] /\ Loaded(heap', x)
                     /\ heap[x].ref \in Blocks
                     /\ heap'[heap[x].ref] = heap[heap[x].ref]
    BY <1>b, <2>1, <2>3, <2>4, ItemsStay
  <2>6. Apart(heap', H)
    BY <1>b, <2>1, <2>3, <2>4, ItemsStay
  <2>7. \A x \in H : heap[heap[x].ref].kind \in {"file", "dir"}
    BY <2>1, <2>4, HeldIs
  <2>8. \A x \in H : heap'[x].ref # heap'[item].ref
    <3>1. heap[heap'[item].ref] = Free
      BY DEF FoundStep
    <3>2. heap[heap'[item].ref].kind = "free"
      BY <1>0, <3>1
    <3> QED
      BY <2>5, <2>7, <3>2
  <2> QED
    <3>1. Loaded(heap', item)
      BY DEF FoundStep
    <3> QED
      BY <2>2, <2>4, <2>5, <2>6, <2>8, <3>1 DEF Apart
<1>10. PositionInv'
  <2>1. call.desc # 0 => heap'[call.desc] = heap[call.desc]
    BY <1>b, CallPointers, PointersAre
       DEF FilesInv, CallInv, IsNullOr, Is, Untouched, FileKinds
  <2> QED
    BY <1>1, <1>5, <2>1 DEF FilesInv, PositionInv
<1>11. DirsInv'
  BY DEF FoundStep
<1> QED
  BY <1>4, <1>6, <1>7, <1>8, <1>9, <1>10, <1>11 DEF FilesInv

(* What is noted of it. *)
LEMMA FoundIs ==
  ASSUME FilesInv, NEW item, NEW whys \in SUBSET Mishaps, Found(item, whys)
  PROVE  /\ mishaps \subseteq mishaps' /\ mishaps' \subseteq Mishaps
         /\ whys \subseteq mishaps'
         /\ call' = [call EXCEPT !.i = @ + 1, !.found = item,
                                 !.astray = call'.astray]
         /\ call'.astray <=> call.astray \/ whys # {}
         /\ "no memory" \in whys \/ "not read" \in whys => ~Intact'
<1>1. /\ call' = [call EXCEPT !.i = @ + 1, !.found = item,
                              !.astray = @ \/ whys # {}]
      /\ mishaps' = mishaps \cup whys
  BY DEF Found
<1>2. call = [f \in CallFields |-> call[f]] /\ mishaps \subseteq Mishaps
  BY DEF FilesInv, TypesInv
<1>3. call'.astray = (call.astray \/ whys # {})
  BY <1>1, <1>2 DEF CallFields
<1>4. call' = [call EXCEPT !.i = @ + 1, !.found = item,
                           !.astray = call'.astray]
  BY <1>1, <1>3
<1> QED
  BY <1>1, <1>2, <1>3, <1>4, FailuresAre

(* A file: the item and its clone of the entry. *)
LEMMA FindFilePreserves ==
  ASSUME FilesInv, find_file
  PROVE  FilesInv'
<1>0. /\ Searching
      /\ UNCHANGED <<dirs, mounted, opens, file_descriptors, pc, result>>
  BY DEF find_file
<1>1. PICK item \in {kzalloc({})} : \E clone \in {kzalloc({item})} :
        /\ heap' = Put(Put(heap, item, [kind |-> "item", type |-> "file",
                                        ref |-> clone]),
                       clone, [kind |-> "file", entry |-> Entry])
        /\ Found(item, NoMemory({item, clone}))
  BY DEF find_file
<1>2. PICK clone \in {kzalloc({item})} :
        /\ heap' = Put(Put(heap, item, [kind |-> "item", type |-> "file",
                                        ref |-> clone]),
                       clone, [kind |-> "file", entry |-> Entry])
        /\ Found(item, NoMemory({item, clone}))
  BY <1>1
<1>3. /\ item = 0 \/ (item \in Blocks /\ heap[item] = Free)
      /\ clone = 0 \/ (/\ clone \in Blocks /\ clone # item
                       /\ heap[clone] = Free)
  BY KzallocReturns
<1>4. /\ heap' = [b \in Blocks |-> heap'[b]]
      /\ \A b \in Blocks \ {item, clone} : heap'[b] = heap[b]
      /\ item # 0 => heap'[item] = [kind |-> "item", type |-> "file",
                                    ref |-> clone]
      /\ clone # 0 => heap'[clone] = [kind |-> "file", entry |-> Entry]
  BY <1>2, <1>3 DEF Put
<1>5. Free.kind = "free"
  BY FreeIsObject
<1>6. Entry.file_size \in Nat
  BY <1>0, EntryIs
<1>7. \A b \in Blocks : IsObject(heap'[b], dirs)
  <2>1. IsObject([kind |-> "item", type |-> "file", ref |-> clone], dirs)
    BY <1>3, PointersAre DEF IsObject, Kinds
  <2>2. IsObject([kind |-> "file", entry |-> Entry], dirs)
    BY <1>6 DEF IsObject, Kinds
  <2>3. \A b \in Blocks : IsObject(heap[b], dirs)
    BY DEF FilesInv, TypesInv
  <2> QED
    BY <1>3, <1>4, <2>1, <2>2, <2>3, PointersAre
<1>a. ASSUME NEW b \in Blocks
      PROVE  \/ heap'[b] = heap[b]
             \/ heap[b].kind = "free" /\ heap'[b].kind \in {"item", "file"}
  BY <1>3, <1>4, <1>5, PointersAre
<1>8. Untouched({})
  BY <1>4, <1>a DEF Untouched, FileKinds
<1>9. \A b \in Blocks :
        /\ heap[b].kind \in {"root", "part"} => heap'[b] = heap[b]
        /\ heap'[b].kind \in {"root", "part", "dir"} => heap'[b] = heap[b]
  BY <1>a
<1>b. mishaps \subseteq mishaps'
  BY <1>2 DEF Found
<1>10. DirsInv'
  BY <1>0, <1>8, <1>9, <1>b, DirsStay
<1>11. /\ mishaps \subseteq mishaps' /\ mishaps' \subseteq Mishaps
       /\ call' = [call EXCEPT !.i = @ + 1, !.found = item,
                               !.astray = call'.astray]
       /\ Intact' => item # 0 /\ clone # 0
  <2>1. PICK whys : whys = NoMemory({item, clone})
    OBVIOUS
  <2>2. whys \subseteq Mishaps
    BY <2>1, FailuresAre DEF NoMemory
  <2>3. item = 0 \/ clone = 0 => "no memory" \in whys
    BY <2>1 DEF NoMemory
  <2>4. Found(item, whys)
    BY <1>2, <2>1
  <2> QED
    BY <2>2, <2>3, <2>4, FoundIs
<1>12. item = 0 \/ (/\ item \in Blocks /\ heap[item] = Free
                    /\ heap'[item].kind = "item")
  BY <1>3, <1>4
<1>13. Intact' =>
         /\ item # 0 /\ Loaded(heap', item)
         /\ heap'[item].ref \in Blocks /\ heap[heap'[item].ref] = Free
  <2>1. ASSUME item # 0, clone # 0
        PROVE  /\ heap'[item].kind = "item" /\ heap'[item].type = "file"
               /\ heap'[item].ref = clone /\ heap'[clone].kind = "file"
               /\ clone \in Blocks /\ heap[clone] = Free
    BY <1>3, <1>4, <2>1
  <2> QED
    BY <1>11, <2>1 DEF Loaded, Is
<1>14. FoundStep(item)
  BY <1>0, <1>7, <1>8, <1>9, <1>10, <1>11, <1>12, <1>13 DEF FoundStep
<1> QED
  BY <1>14, FoundPreserves

(* A directory: the item, the directory and the array of its entries, the  *)
(* last two in blocks, or nowhere when they were freed, could not be had   *)
(* or, the array, were never reserved.                                     *)
IsLoaded(o, id, items) ==
  /\ "kind" \in DOMAIN o /\ o.kind = "dir" /\ o.id = id /\ o.items = items
  /\ IsDirectory(o, dirs)

DirMade(item, dir, items, object, whys) ==
  /\ item = 0 \/ (item \in Blocks /\ heap[item] = Free)
  /\ dir = 0 \/ (dir \in Blocks /\ dir # item /\ heap[dir] = Free)
  /\ items = 0 \/ (/\ items \in Blocks /\ items \notin {item, dir}
                   /\ heap[items] = Free)
  /\ heap' = [b \in Blocks |-> heap'[b]]
  /\ \A b \in Blocks \ {item, dir, items} : heap'[b] = heap[b]
  /\ item # 0 => heap'[item] = [kind |-> "item", type |-> "dir", ref |-> dir]
  /\ items # 0 => heap'[items] = [kind |-> "items"]
  /\ dir # 0 => heap'[dir] = object
  /\ \/ object = Free /\ items = 0
     \/ IsLoaded(object, Entry.first, items)
  /\ whys \in SUBSET Mishaps /\ Found(item, whys)
  /\ item = 0 \/ dir = 0 \/ object = Free =>
       "no memory" \in whys \/ "not read" \in whys
  /\ IsLong(Entry.first) => "long directory" \in whys

(* What is loaded of a directory is made of entries.                       *)
LEMMA LoadedIs ==
  ASSUME dirs \in Volumes, NEW d \in DOMAIN dirs, NEW kept \in Pointers,
         NEW entries \in Contents(d), NEW o, o = LoadedDir(d, kept, entries)
  PROVE  /\ o.items \in {0, kept} /\ IsLoaded(o, d, o.items)
         /\ o.entries = entries
<1>1. /\ "kind" \in DOMAIN o /\ o.kind = "dir"
      /\ o.id = d /\ o.entries = entries
      /\ o.items \in {0, kept}
  BY DEF LoadedDir
<1>2. PICK n \in Nat : n = Counted(dirs, d)
  BY CountedIs
<1>3. fat16_get_total_items_for_dir(d) = n
  BY <1>2, CountedIs
<1>4. /\ entries \in [1..n -> Stored]
      /\ \A k \in 1..n : k <= ClusterEntries => entries[k] = dirs[d][k]
  BY <1>3 DEF Contents
<1>5. \A e \in Stored : IsEntry(e, dirs)
  <2>1. ASSUME NEW e \in Stored
        PROVE  IsEntry(e, dirs)
    <3>1. PICK c \in DOMAIN dirs : e \in {dirs[c][k] : k \in DOMAIN dirs[c]}
      BY DEF Stored
    <3>2. PICK k \in DOMAIN dirs[c] : e = dirs[c][k]
      BY <3>1
    <3> QED
      BY <3>2, CountedIs
  <2> QED
    BY <2>1
<1>6. \A k \in 1..n : IsEntry(o.entries[k], dirs)
  BY <1>1, <1>4, <1>5
<1>7. o.items \in Pointers
  BY <1>1, PointersAre
<1>8. IsDirectory(o, dirs)
  BY <1>1, <1>2, <1>4, <1>6, <1>7, Zenon DEF IsDirectory
<1> QED
  BY <1>1, <1>8 DEF IsLoaded

LEMMA DirIsMade ==
  ASSUME FilesInv, find_dir
  PROVE  \E item, dir, items, object, whys :
           DirMade(item, dir, items, object, whys)
<1> DEFINE Whys(item, dir, items, kept) ==
             NoMemory({item, dir, items})
               \cup (IF kept # items THEN {"not read"} ELSE {})
               \cup IF IsLong(Entry.first) THEN {"long directory"} ELSE {}
           Made(item, dir, items, kept, loaded) ==
             /\ heap' = Put(Put(Put(heap, item, [kind |-> "item",
                                                 type |-> "dir",
                                                 ref |-> dir]),
                                loaded.items, [kind |-> "items"]),
                            dir, IF kept = 0 THEN Free ELSE loaded)
             /\ Found(item, Whys(item, dir, items, kept))
<1>1. PICK item \in {kzalloc({})} : \E dir \in {kzalloc({item})} :
        \E items \in {kzalloc_items(fat16_get_total_items_for_dir(Entry.first),
                                    {item, dir})} :
          \E kept \in {items} \cup IF IsLong(Entry.first) THEN {0} ELSE {} :
            \E loaded \in {LoadedDir(Entry.first, kept, entries) :
                             entries \in Contents(Entry.first)} :
              Made(item, dir, items, kept, loaded)
  BY Zenon DEF find_dir
<1>2. PICK dir \in {kzalloc({item})} :
        \E items \in {kzalloc_items(fat16_get_total_items_for_dir(Entry.first),
                                    {item, dir})} :
          \E kept \in {items} \cup IF IsLong(Entry.first) THEN {0} ELSE {} :
            \E loaded \in {LoadedDir(Entry.first, kept, entries) :
                             entries \in Contents(Entry.first)} :
              Made(item, dir, items, kept, loaded)
  BY <1>1, Zenon
<1>3. PICK items \in
               {kzalloc_items(fat16_get_total_items_for_dir(Entry.first),
                              {item, dir})} :
        \E kept \in {items} \cup IF IsLong(Entry.first) THEN {0} ELSE {} :
          \E loaded \in {LoadedDir(Entry.first, kept, entries) :
                           entries \in Contents(Entry.first)} :
            Made(item, dir, items, kept, loaded)
  BY <1>2, Zenon
<1>4. PICK kept \in {items} \cup IF IsLong(Entry.first) THEN {0} ELSE {} :
        \E loaded \in {LoadedDir(Entry.first, kept, entries) :
                         entries \in Contents(Entry.first)} :
          Made(item, dir, items, kept, loaded)
  BY <1>3, Zenon
<1>5. PICK loaded \in {LoadedDir(Entry.first, kept, entries) :
                         entries \in Contents(Entry.first)} :
        Made(item, dir, items, kept, loaded)
  BY <1>4, Zenon
<1>6. PICK entries \in Contents(Entry.first) :
        loaded = LoadedDir(Entry.first, kept, entries)
  BY <1>5
<1>7. /\ item = 0 \/ (item \in Blocks /\ heap[item] = Free)
      /\ dir = 0 \/ (dir \in Blocks /\ dir # item /\ heap[dir] = Free)
      /\ items = 0 \/ (/\ items \in Blocks /\ items \notin {item, dir}
                       /\ heap[items] = Free)
  BY KzallocReturns, KzallocItemsReturns
<1>8. kept \in {0, items}
  BY <1>4
<1>9. Entry.first \in DOMAIN dirs /\ dirs \in Volumes
  BY EntryIs DEF find_dir, FilesInv, TypesInv
<1>10. /\ loaded.items \in {0, kept}
       /\ IsLoaded(loaded, Entry.first, loaded.items)
  BY <1>6, <1>7, <1>8, <1>9, LoadedIs, PointersAre
<1>11. PICK array, object : /\ array = loaded.items
                            /\ object = IF kept = 0 THEN Free ELSE loaded
  OBVIOUS
<1>12. array = 0 \/ (/\ array \in Blocks /\ array \notin {item, dir}
                     /\ heap[array] = Free)
  BY <1>7, <1>8, <1>10, <1>11
<1>13. \/ object = Free /\ array = 0
       \/ IsLoaded(object, Entry.first, array)
  BY <1>10, <1>11
<1>14. heap' = Put(Put(Put(heap, item, [kind |-> "item", type |-> "dir",
                                        ref |-> dir]),
                       array, [kind |-> "items"]),
                   dir, object)
  BY <1>5, <1>11, Zenon
<1>15. /\ heap' = [b \in Blocks |-> heap'[b]]
       /\ \A b \in Blocks \ {item, dir, array} : heap'[b] = heap[b]
       /\ item # 0 => heap'[item] = [kind |-> "item", type |-> "dir",
                                     ref |-> dir]
       /\ array # 0 => heap'[array] = [kind |-> "items"]
       /\ dir # 0 => heap'[dir] = object
  BY <1>7, <1>12, <1>14 DEF Put
<1>16. PICK whys : whys = Whys(item, dir, items, kept)
  OBVIOUS
<1>17. Found(item, whys)
  BY <1>5, <1>16, Zenon
<1>18. whys \in SUBSET Mishaps
  <2>1. NoMemory({item, dir, items}) \subseteq Mishaps
    BY FailuresAre DEF NoMemory
  <2>2. "not read" \in Mishaps /\ "long directory" \in Mishaps
    BY DEF Mishaps
  <2> QED
    BY <1>16, <2>1, <2>2
<1>19. IsLong(Entry.first) => "long directory" \in whys
  BY <1>16
<1>20. item = 0 \/ dir = 0 \/ object = Free =>
         "no memory" \in whys \/ "not read" \in whys
  <2>1. item = 0 \/ dir = 0 \/ items = 0 => "no memory" \in whys
    BY <1>16 DEF NoMemory
  <2>2. kept # items => "not read" \in whys
    BY <1>16
  <2>3. object = Free => kept = 0
    <3>1. Free.kind = "free" /\ loaded.kind = "dir"
      BY <1>10, FreeIsObject DEF IsLoaded
    <3> QED
      BY <1>11, <3>1
  <2> QED
    BY <2>1, <2>2, <2>3
<1>21. DirMade(item, dir, array, object, whys)
  BY <1>7, <1>12, <1>13, <1>15, <1>17, <1>18, <1>19, <1>20, Zenon
     DEF DirMade
<1> QED
  BY <1>21, Zenon

LEMMA FindDirPreserves ==
  ASSUME FilesInv, find_dir
  PROVE  FilesInv'
<1>0. /\ Searching /\ Entry.dir
      /\ UNCHANGED <<dirs, mounted, opens, file_descriptors, pc, result>>
  BY DEF find_dir
<1>1. PICK item, dir, items, object, whys :
        DirMade(item, dir, items, object, whys)
  BY DirIsMade, Zenon
<1>2. /\ item = 0 \/ (item \in Blocks /\ heap[item] = Free)
      /\ dir = 0 \/ (dir \in Blocks /\ dir # item /\ heap[dir] = Free)
      /\ items = 0 \/ (/\ items \in Blocks /\ items \notin {item, dir}
                       /\ heap[items] = Free)
      /\ heap' = [b \in Blocks |-> heap'[b]]
      /\ \A b \in Blocks \ {item, dir, items} : heap'[b] = heap[b]
      /\ item # 0 => heap'[item] = [kind |-> "item", type |-> "dir",
                                    ref |-> dir]
      /\ items # 0 => heap'[items] = [kind |-> "items"]
      /\ dir # 0 => heap'[dir] = object
  BY <1>1, Zenon DEF DirMade
<1>3. /\ \/ object = Free /\ items = 0
         \/ /\ "kind" \in DOMAIN object /\ object.kind = "dir"
            /\ object.items = items /\ IsDirectory(object, dirs)
      /\ whys \in SUBSET Mishaps /\ Found(item, whys)
      /\ item = 0 \/ dir = 0 \/ object = Free =>
           "no memory" \in whys \/ "not read" \in whys
  BY <1>1, Zenon DEF DirMade, IsLoaded
<1>4. Free.kind = "free"
  BY FreeIsObject
<1>5. /\ mishaps \subseteq mishaps' /\ mishaps' \subseteq Mishaps
      /\ call' = [call EXCEPT !.i = @ + 1, !.found = item,
                              !.astray = call'.astray]
      /\ "no memory" \in whys \/ "not read" \in whys => ~Intact'
      /\ whys \subseteq mishaps'
  BY <1>3, FoundIs
<1>6. Intact' => item # 0 /\ dir # 0 /\ object.kind = "dir"
  BY <1>3, <1>5
<1>7. \A b \in Blocks : IsObject(heap'[b], dirs)
  <2>1. IsObject([kind |-> "item", type |-> "dir", ref |-> dir], dirs)
    BY <1>2, PointersAre DEF IsObject, Kinds
  <2>2. IsObject([kind |-> "items"], dirs) /\ IsObject(Free, dirs)
    BY FreeIsObject
  <2>3. IsObject(object, dirs)
    <3>1. CASE object = Free
      BY <2>2, <3>1
    <3>2. CASE /\ "kind" \in DOMAIN object /\ object.kind = "dir"
               /\ IsDirectory(object, dirs)
      BY <3>2 DEF IsObject, Kinds
    <3> QED
      BY <1>3, <3>1, <3>2
  <2>4. \A b \in Blocks : IsObject(heap[b], dirs)
    BY DEF FilesInv, TypesInv
  <2> QED
    BY <1>2, <2>1, <2>2, <2>3, <2>4, PointersAre
<1>8. \A b \in Blocks :
        \/ heap'[b] = heap[b]
        \/ heap[b] = Free /\ heap'[b].kind \in {"free", "item", "items"}
        \/ /\ heap[b] = Free /\ b = dir
           /\ heap'[b].kind = "dir" /\ heap'[b].items = items
  <2>1. ASSUME NEW b \in {item, dir, items}, b # 0
        PROVE  /\ heap[b] = Free
               /\ \/ heap'[b].kind \in {"free", "item", "items"}
                  \/ /\ b = dir
                     /\ heap'[b].kind = "dir" /\ heap'[b].items = items
    <3>1. CASE b = item
      BY <1>2, <2>1, <3>1
    <3>2. CASE b = items
      BY <1>2, <2>1, <3>2
    <3>3. CASE b = dir
      <4>1. heap'[b] = object /\ heap[b] = Free
        BY <1>2, <2>1, <3>3
      <4> QED
        BY <1>3, <1>4, <3>3, <4>1
    <3> QED
      BY <2>1, <3>1, <3>2, <3>3
  <2> QED
    BY <1>2, <2>1, PointersAre
<1>9. Untouched({})
  BY <1>2, <1>4, <1>8 DEF Untouched, FileKinds
<1>10. \A b \in Blocks :
         /\ heap[b].kind \in {"root", "part"} => heap'[b] = heap[b]
         /\ heap'[b].kind \in {"root", "part"} => heap'[b] = heap[b]
  BY <1>4, <1>8
<1>11. DirsInv'
  <2>1. ASSUME NEW b \in Blocks, heap'[b].kind = "dir"
        PROVE  \/ /\ heap[b] = heap'[b]
                  /\ \/ heap[b].items = 0
                     \/ /\ heap[b].items \in Blocks
                        /\ heap[heap[b].items].kind = "items"
                        /\ heap'[heap[b].items].kind = "items"
               \/ b = dir /\ heap'[b].items = items
    <3>1. CASE heap'[b] = heap[b]
      <4>1. \/ heap[b].items = 0
            \/ /\ heap[b].items \in Blocks
               /\ heap[heap[b].items].kind = "items"
        BY <2>1, <3>1, PointersAre
           DEF FilesInv, TypesInv, DirsInv, IsObject, IsDirectory, IsNullOr, Is
      <4> QED
        BY <1>9, <3>1, <4>1 DEF Untouched, FileKinds
    <3>2. CASE heap'[b] # heap[b]
      BY <1>8, <2>1, <3>2
    <3> QED
      BY <3>1, <3>2
  <2>2. items # 0 => /\ items \in Blocks /\ heap'[items].kind = "items"
                     /\ heap[items].kind = "free"
    BY <1>2, <1>4
  <2>3. ASSUME NEW b \in Blocks, heap'[b].kind = "dir"
        PROVE  IsNullOr(heap', heap'[b].items, "items")
    BY <2>1, <2>2, <2>3, PointersAre DEF Is, IsNullOr
  <2>4. ASSUME NEW b \in Blocks, NEW c \in Blocks, b # c,
               heap'[b].kind = "dir", heap'[c].kind = "dir"
        PROVE  heap'[b].items # heap'[c].items \/ heap'[b].items = 0
    <3>1. CASE heap'[b] = heap[b] /\ heap'[c] = heap[c]
      BY <2>4, <3>1 DEF FilesInv, DirsInv
    <3>2. CASE heap'[b] # heap[b]
      BY <2>1, <2>2, <2>4, <3>2
    <3>3. CASE heap'[c] # heap[c]
      BY <2>1, <2>2, <2>4, <3>3
    <3> QED
      BY <3>1, <3>2, <3>3
  <2>5. ASSUME NoneLong', NEW b \in Blocks, heap'[b].kind = "dir"
        PROVE  Counted(dirs', heap'[b].id) <= ClusterEntries
    <3>0. NoneLong
      BY <1>5, <2>5 DEF NoneLong
    <3>1. CASE heap'[b] = heap[b]
      BY <1>0, <2>5, <3>0, <3>1 DEF FilesInv, DirsInv
    <3>2. CASE heap'[b] # heap[b]
      <4>1. b = dir /\ dir # 0 /\ heap'[b] = object
        BY <1>2, <1>8, <2>5, <3>2, PointersAre
      <4>2. IsLoaded(object, Entry.first, items) /\ Entry.first \in DOMAIN dirs
        BY <1>0, <1>1, <1>4, <2>5, <4>1, EntryIs DEF DirMade
      <4>3. ~IsLong(Entry.first)
        BY <1>1, <1>5, <2>5 DEF DirMade, NoneLong
      <4>4. Counted(dirs, Entry.first) <= ClusterEntries
        BY <4>2, <4>3, CountedIs, FileSystemAssumption
           DEF IsLong, FilesInv, TypesInv
      <4> QED
        BY <1>0, <4>1, <4>2, <4>4 DEF IsLoaded
    <3> QED
      BY <3>1, <3>2
  <2> QED
    BY <2>3, <2>4, <2>5 DEF DirsInv
<1>12. item = 0 \/ (/\ item \in Blocks /\ heap[item] = Free
                    /\ heap'[item].kind = "item")
  BY <1>2
<1>13. Intact' =>
         /\ item # 0 /\ Loaded(heap', item)
         /\ heap'[item].ref \in Blocks /\ heap[heap'[item].ref] = Free
  <2>1. ASSUME item # 0, dir # 0, object.kind = "dir"
        PROVE  /\ heap'[item].kind = "item" /\ heap'[item].type = "dir"
               /\ heap'[item].ref = dir /\ heap'[dir].kind = "dir"
               /\ dir \in Blocks /\ heap[dir] = Free
    BY <1>2, <2>1
  <2> QED
    BY <1>6, <2>1 DEF Loaded, Is
<1>14. FoundStep(item)
  BY <1>0, <1>5, <1>7, <1>9, <1>10, <1>11, <1>12, <1>13 DEF FoundStep
<1> QED
  BY <1>14, FoundPreserves

(* A read that never ends. *)
LEMMA FindDirHangsPreserves ==
  ASSUME FilesInv, find_dir_hangs
  PROVE  FilesInv'
<1>1. /\ GoWild({"not read"}) /\ pc = "find"
      /\ UNCHANGED <<dirs, mounted, opens>>
  BY DEF find_dir_hangs, Searching
<1>2. ~Intact' /\ {"not read"} \subseteq Mishaps
  BY <1>1, FailureShows, FailuresAre
<1> QED
  BY <1>1, <1>2, WildPreserves

-----------------------------------------------------------------------------
(* What is freed with an item. *)

(* Nothing is freed with an item but what it points to and, of a           *)
(* directory, the array of its entries.                                    *)
LEMMA ItemBlocksAre ==
  ASSUME FilesInv, NEW x \in Held, CanFree(heap, x)
  PROVE  /\ x \in ItemBlocks(heap, x) /\ heap[x].ref \in ItemBlocks(heap, x)
         /\ \A b \in ItemBlocks(heap, x) :
              \/ b = 0 \/ b = x
              \/ /\ b = heap[x].ref /\ b \in Blocks
                 /\ heap[b].kind \in {"file", "dir"}
              \/ /\ heap[x].ref \in Blocks /\ heap[heap[x].ref].kind = "dir"
                 /\ b = heap[heap[x].ref].items /\ b \in Blocks
                 /\ heap[b].kind = "items"
<1>1. x \in Blocks /\ heap[x].type \in {"file", "dir"}
  BY HeldIs
<1>2. PICK ref : ref = heap[x].ref
  OBVIOUS
<1>3. ref = 0 \/ (ref \in Blocks /\ heap[ref].kind \in {"file", "dir"})
  BY <1>1, <1>2, HeldIs, PointersAre DEF CanFree, Loaded, Is
<1>4. ItemBlocks(heap, x) =
        {x, ref} \cup IF Is(heap, ref, "dir") THEN {heap[ref].items} \ {0}
                     ELSE {}
  BY <1>2 DEF ItemBlocks
<1>5. CASE Is(heap, ref, "dir")
  <2>1. ref \in Blocks /\ heap[ref].kind = "dir"
    BY <1>3, <1>5 DEF Is
  <2>2. \/ heap[ref].items = 0
        \/ /\ heap[ref].items \in Blocks
           /\ heap[heap[ref].items].kind = "items"
    BY <2>1, PointersAre
       DEF FilesInv, TypesInv, DirsInv, IsObject, IsDirectory, IsNullOr, Is
  <2>3. ItemBlocks(heap, x) = {x, ref} \cup ({heap[ref].items} \ {0})
    BY <1>4, <1>5
  <2> QED
    BY <1>2, <2>1, <2>2, <2>3
<1>6. CASE ~Is(heap, ref, "dir")
  <2>1. ItemBlocks(heap, x) = {x, ref}
    BY <1>4, <1>6
  <2> QED
    BY <1>2, <1>3, <2>1
<1> QED
  BY <1>5, <1>6

(* When an item is freed, alone or with the descriptors of its file, every *)
(* other item keeps what it points to.                                     *)
LEMMA FreeingStays ==
  ASSUME FilesInv, NEW x \in Held, CanFree(heap, x),
         NEW X, ItemBlocks(heap, x) \subseteq X,
         \A b \in X : \/ b \in ItemBlocks(heap, x)
                      \/ heap[b].kind \in {"open", "descriptor"},
         heap' = kfree(heap, X), UNCHANGED <<dirs, mishaps>>
  PROVE  /\ Untouched(X) /\ DirsInv'
         /\ \A b \in Blocks :
              /\ b \in X => heap'[b] = Free
              /\ b \notin X => heap'[b] = heap[b]
         /\ \A b \in Blocks \cap X : heap[b].kind \in FileKinds
         /\ Intact => Spared(Held \ {x}, X)
         /\ \A y \in Held \ {x} : y \notin X
<1>1. /\ heap' = [b \in Blocks |-> heap'[b]]
      /\ \A b \in Blocks : /\ b \in X => heap'[b] = Free
                           /\ b \notin X => heap'[b] = heap[b]
  BY DEF kfree
<1>2. Untouched(X)
  BY <1>1 DEF Untouched
<1>3. PICK B : B = ItemBlocks(heap, x)
  OBVIOUS
<1>4. /\ x \in B /\ heap[x].ref \in B /\ B \subseteq X
      /\ \A b \in X : b \in B \/ heap[b].kind \in {"open", "descriptor"}
      /\ \A b \in B :
           \/ b = 0 \/ b = x
           \/ /\ b = heap[x].ref /\ b \in Blocks
              /\ heap[b].kind \in {"file", "dir"}
           \/ /\ heap[x].ref \in Blocks /\ heap[heap[x].ref].kind = "dir"
              /\ b = heap[heap[x].ref].items /\ b \in Blocks
              /\ heap[b].kind = "items"
  BY <1>3, ItemBlocksAre
<1>5. x \in Blocks /\ heap[x].kind = "item"
  BY HeldIs
<1>6. Free.kind = "free"
  BY FreeIsObject
<1>7. ASSUME NEW b \in Blocks \cap X
      PROVE  heap[b].kind \in FileKinds
  BY <1>4, <1>5, PointersAre DEF FileKinds
<1>8. DirsInv'
  <2>1. ASSUME NEW b \in Blocks, heap'[b].kind = "dir"
        PROVE  heap'[b] = heap[b] /\ heap[b].items \notin X \ {0}
    <3>1. heap'[b] = heap[b] /\ b \notin X
      BY <1>1, <1>6, <2>1
    <3>2. \/ heap[b].items = 0
          \/ /\ heap[b].items \in Blocks
             /\ heap[heap[b].items].kind = "items"
      BY <2>1, <3>1, PointersAre
         DEF FilesInv, TypesInv, DirsInv, IsObject, IsDirectory, IsNullOr, Is
    <3>3. ASSUME heap[b].items \in B, heap[b].items # 0
          PROVE  FALSE
      <4>1. /\ heap[x].ref \in Blocks /\ heap[heap[x].ref].kind = "dir"
            /\ heap[b].items = heap[heap[x].ref].items
        BY <1>4, <1>5, <3>2, <3>3, PointersAre
      <4>2. heap[b].kind = "dir" /\ b # heap[x].ref
        BY <1>4, <2>1, <3>1
      <4> QED
        BY <3>3, <4>1, <4>2 DEF FilesInv, DirsInv
    <3> QED
      BY <1>4, <3>1, <3>2, <3>3
  <2> QED
    BY <1>2, <2>1, DirsStay
<1>9. ASSUME NEW y \in Held \ {x}
      PROVE  y \notin X
  <2>1. y \in Blocks /\ heap[y].kind = "item"
    BY HeldIs
  <2> QED
    BY <1>4, <2>1, PointersAre
<1>10. ASSUME Intact, NEW y \in Held \ {x}
       PROVE  heap[y].ref \notin X
  <2>1. /\ heap[y].ref \in Blocks
        /\ heap[heap[y].ref].kind \in {"file", "dir"}
    BY <1>10, HeldIs
  <2>2. heap[y].ref # heap[x].ref
    BY <1>10 DEF FilesInv, ItemsInv, Apart
  <2> QED
    BY <1>4, <1>5, <2>1, <2>2, PointersAre
<1> QED
  BY <1>1, <1>2, <1>7, <1>8, <1>9, <1>10 DEF Spared

-----------------------------------------------------------------------------
(* The end of the search. *)

(* An item that is used and is not what it was for: one that was found is  *)
(* so only after an allocation or the read of a directory has failed.      *)
LEMMA MissingItemPreserves ==
  ASSUME FilesInv, NEW x \in Held, ~Loaded(heap, x), GoWild({}),
         UNCHANGED <<dirs, mounted, opens>>, pc # "boot"
  PROVE  FilesInv'
<1>1. ~Intact
  BY DEF FilesInv, ItemsInv
<1>2. ~Intact'
  BY <1>1, FailuresAre DEF GoWild
<1> QED
  BY <1>2, FailuresAre, WildPreserves

(* An array that was never reserved is freed when another has its memory.  *)
LEMMA StrayHeld ==
  ASSUME FilesInv, Intact, NEW x \in Held, NEW own,
         FreesStray(heap, x, own)
  PROVE  StrayTaken
BY HeldIs, StrayIs

LEMMA StrayPreserves ==
  ASSUME FilesInv, NEW x \in Held, NEW own, FreesStray(heap, x, own),
         GoWild({}), UNCHANGED <<dirs, mounted, opens>>, pc # "boot",
         call = NoCall \/ (call.curr # 0 /\ heap[call.curr].ref = call.dir)
  PROVE  FilesInv'
<1>1. Intact' => Intact
  BY FailuresAre DEF GoWild
<1>2. Intact' => StrayUsed
  BY <1>1, StrayHeld DEF StrayUsed
<1> QED
  BY <1>2, FailuresAre, WildPreserves

(* Nothing was found, or the item becomes the current one. *)
LEMMA EndRootPreserves ==
  ASSUME FilesInv, find_end_root
  PROVE  FilesInv'
<1>0. /\ pc = "find" /\ call.dir = 0
      /\ UNCHANGED <<dirs, mounted, opens, file_descriptors, mishaps>>
  BY DEF find_end_root
<1>1. CASE call.found = 0
  <2>1. Return(kfree(heap, {call.desc}), 0)
    BY <1>1 DEF find_end_root, OpenFails
  <2>2. /\ opens' \in 0..MaxOpens
        /\ mishaps' \subseteq Mishaps
    BY <1>0 DEF FilesInv, TypesInv
  <2> QED
    BY <1>0, <2>1, <2>2, FailPreserves, FailuresAre
<1>2. CASE call.found # 0
  <2>1. /\ pc' = "walk" /\ call' = [call EXCEPT !.curr = call.found]
        /\ UNCHANGED <<heap, result>>
    BY <1>2 DEF find_end_root
  <2>2. /\ call' = [f \in CallFields |-> call'[f]]
        /\ call'.curr = call.found
        /\ \A f \in CallFields \ {"curr"} : call'[f] = call[f]
    BY <2>1 DEF FilesInv, TypesInv, CallFields
  <2>3. /\ call'.path = call.path /\ call'.root = call.root
        /\ call'.part = call.part /\ call'.desc = call.desc
        /\ call'.dir = call.dir /\ call'.found = call.found
        /\ call'.i = call.i
    BY <2>2 DEF CallFields
  <2>4. Untouched({call.desc})
    BY <2>1 DEF Untouched, FilesInv, TypesInv
  <2>5. /\ SlotsInv' /\ DirsInv' /\ ItemsInv' /\ PositionInFile'
        /\ OpenFiles' = OpenFiles
        /\ \A fd \in OpenFiles : Private(fd)' = Private(fd)
                                 /\ Item(fd)' = Item(fd)
    BY <1>0, <2>1, <2>2, <2>3, <2>4, Steady, FailuresAre
  <2>6. TypesInv'
    <3>1. \A f \in {"root", "part", "desc", "curr", "dir", "found"} :
            call'[f] \in Pointers
      BY <2>2, CallPointers DEF FilesInv, TypesInv, CallFields
    <3> QED
      BY <1>0, <2>1, <2>2, <2>3, <3>1 DEF FilesInv, TypesInv
  <2>7. PathInv'
    BY <1>0, <2>1, <2>3 DEF FilesInv, PathInv
  <2>8. CallInv'
    BY <1>0, <2>1, <2>2, <2>3, <2>5 DEF FilesInv, CallInv, IsNullOr
  <2>9. PositionInv'
    BY <2>1, <2>3, <2>5 DEF FilesInv, PositionInv
  <2> QED
    BY <2>5, <2>6, <2>7, <2>8, <2>9 DEF FilesInv
<1> QED
  BY <1>1, <1>2

(* The directory that was searched is freed: nobody else had it, and what  *)
(* was found in it is a copy.                                              *)
LEMMA EndDirPreserves ==
  ASSUME FilesInv, find_end_dir
  PROVE  FilesInv'
<1>0. pc = "find" /\ call.dir # 0 /\ UNCHANGED <<dirs, mounted, opens>>
  BY DEF find_end_dir
<1>1. /\ call.curr # 0 /\ call.curr # call.found
      /\ Is(heap, call.dir, "dir") /\ heap[call.curr].ref = call.dir
      /\ call.desc # 0
  BY <1>0 DEF FilesInv, CallInv
<1>2. call.curr \in Held
  BY <1>1 DEF Held
<1>3. CASE ~(CanFree(heap, call.curr) /\ ~FreesStray(heap, call.curr, {}))
  <2>1. GoWild({})
    BY <1>3 DEF find_end_dir
  <2>2. CASE ~CanFree(heap, call.curr)
    <3>1. ~Loaded(heap, call.curr)
      BY <2>2 DEF CanFree
    <3> QED
      BY <1>0, <1>2, <2>1, <3>1, MissingItemPreserves
  <2>3. CASE FreesStray(heap, call.curr, {})
    BY <1>0, <1>1, <1>2, <2>1, <2>3, StrayPreserves
  <2> QED
    BY <1>3, <2>2, <2>3
<1>4. CASE CanFree(heap, call.curr) /\ ~FreesStray(heap, call.curr, {})
  <2>1. /\ heap' = kfree(heap, ItemBlocks(heap, call.curr))
        /\ pc' = "walk"
        /\ call' = [call EXCEPT !.curr = call.found]
        /\ UNCHANGED <<file_descriptors, result, mishaps>>
    BY <1>4 DEF find_end_dir
  <2>2. PICK curr, X : curr = call.curr /\ X = ItemBlocks(heap, call.curr)
    OBVIOUS
  <2>3. /\ curr \in Held /\ CanFree(heap, curr)
        /\ ItemBlocks(heap, curr) = X /\ heap' = kfree(heap, X)
    BY <1>2, <1>4, <2>1, <2>2
  <2>4. /\ Untouched(X) /\ DirsInv'
        /\ \A b \in Blocks : /\ b \in X => heap'[b] = Free
                             /\ b \notin X => heap'[b] = heap[b]
        /\ \A b \in Blocks \cap X : heap[b].kind \in FileKinds
        /\ Intact => Spared(Held \ {curr}, X)
        /\ \A y \in Held \ {curr} : y \notin X
    BY <1>0, <2>1, <2>3, FreeingStays
  <2>5. /\ call.dir \in X
        /\ \A b \in X :
             b = 0 \/ heap[b].kind \in {"item", "file", "dir", "items"}
    <3>1. /\ heap[curr].ref \in X
          /\ \A b \in X :
               \/ b = 0 \/ b = curr
               \/ /\ b = heap[curr].ref /\ b \in Blocks
                  /\ heap[b].kind \in {"file", "dir"}
               \/ /\ heap[curr].ref \in Blocks
                  /\ heap[heap[curr].ref].kind = "dir"
                  /\ b = heap[heap[curr].ref].items /\ b \in Blocks
                  /\ heap[b].kind = "items"
      BY <2>3, ItemBlocksAre
    <3>2. heap[curr].kind = "item"
      BY <2>3, HeldIs
    <3> QED
      BY <1>1, <2>2, <3>1, <3>2
  <2>6. /\ call' = [f \in CallFields |-> call'[f]]
        /\ call'.curr = call.found
        /\ \A f \in CallFields \ {"curr"} : call'[f] = call[f]
    BY <2>1 DEF FilesInv, TypesInv, CallFields
  <2>7. /\ call'.path = call.path /\ call'.root = call.root
        /\ call'.part = call.part /\ call'.desc = call.desc
        /\ call'.dir = call.dir /\ call'.found = call.found
        /\ call'.i = call.i
    BY <2>6 DEF CallFields
  <2>8. ASSUME NEW fd \in OpenFiles
        PROVE  /\ {file_descriptors[fd], Private(fd), Item(fd)} \cap X = {}
               /\ Item(fd) \in Held \ {curr}
               /\ Intact => heap[Item(fd)].ref \notin X
    <3>1. Item(fd) \in Held /\ Item(fd) # curr
      BY <2>2 DEF Held, FilesInv, CallInv
    <3>2. /\ file_descriptors[fd] \in Blocks /\ Private(fd) \in Blocks
          /\ heap[file_descriptors[fd]].kind = "open"
          /\ heap[Private(fd)].kind = "descriptor"
      BY OpenFileIs
    <3> QED
      BY <2>4, <2>5, <3>1, <3>2, PointersAre, ZenonT(60) DEF Spared
  <2>9. /\ SlotsInv' /\ OpenFiles' = OpenFiles
        /\ \A fd \in OpenFiles : Private(fd)' = Private(fd)
                                 /\ Item(fd)' = Item(fd)
    BY <2>1, <2>4, <2>8, OpenFilesStay
  <2>10. PositionInFile'
    BY <2>1, <2>4, <2>8, PositionsStay, FailuresAre
  <2>11. Held' \subseteq Held \ {curr}
    <3>1. {Item(fd)' : fd \in OpenFiles'} = {Item(fd) : fd \in OpenFiles}
      BY <2>9
    <3>2. call.found # curr
      BY <1>1, <2>2
    <3> QED
      BY <2>6, <2>7, <2>8, <3>1, <3>2 DEF Held
  <2>12. ItemsInv'
    <3> SUFFICES ASSUME Intact'
                 PROVE  /\ \A x \in Held' : Loaded(heap', x)
                        /\ Apart(heap', Held')
      BY <2>1 DEF ItemsInv
    <3>1. Intact
      BY <2>1, FailuresAre
    <3>2. PICK H : H = Held'
      OBVIOUS
    <3>3. Spared(H, X)
      BY <2>4, <2>11, <3>1, <3>2 DEF Spared
    <3>4. \A x \in H : Loaded(heap', x)
      BY <2>4, <3>1, <3>3, ItemsStay
    <3>5. Apart(heap', H)
      BY <2>4, <3>1, <3>3, ItemsStay
    <3> QED
      BY <3>2, <3>4, <3>5
  <2>13. TypesInv'
    <3>1. \A f \in {"root", "part", "desc", "curr", "dir", "found"} :
            call'[f] \in Pointers
      BY <2>6, CallPointers DEF FilesInv, TypesInv, CallFields
    <3>2. heap' = [b \in Blocks |-> heap'[b]]
      BY <2>4 DEF Untouched
    <3>3. \A b \in Blocks : IsObject(heap'[b], dirs)
      BY <2>4, FreeIsObject DEF FilesInv, TypesInv
    <3> QED
      BY <1>0, <2>1, <2>6, <2>7, <3>1, <3>2, <3>3 DEF FilesInv, TypesInv
  <2>14. PathInv'
    <3>1. \A b \in Blocks :
            /\ heap[b].kind \in {"root", "part"} => heap'[b] = heap[b]
            /\ heap'[b].kind \in {"root", "part"} => heap'[b] = heap[b]
      BY <2>4, FreeIsObject DEF FileKinds
    <3>2. /\ IsNullOr(heap', call.root, "root")
          /\ IsNullOr(heap', call.part, "part")
          /\ \A b \in Blocks :
               /\ heap'[b].kind = "root" =>
                    IsNullOr(heap', heap'[b].first, "part")
               /\ heap'[b].kind = "part" =>
                    IsNullOr(heap', heap'[b].next, "part")
      BY <3>1, PathStays
    <3> QED
      BY <1>0, <2>1, <2>7, <3>2 DEF FilesInv, PathInv
  <2>15. call.desc \in Blocks /\ heap'[call.desc] = heap[call.desc]
    <3>1. call.desc \in Blocks /\ heap[call.desc].kind = "descriptor"
      BY <1>1, CallPointers, PointersAre DEF FilesInv, CallInv, IsNullOr, Is
    <3> QED
      BY <2>4, <2>5, <3>1, PointersAre
  <2>16. IsNullOr(heap', call.found, "item")
    <3>1. CASE call.found = 0
      BY <3>1 DEF IsNullOr
    <3>2. CASE call.found # 0
      <4>1. call.found \in Held \ {curr}
        BY <1>1, <2>2, <3>2 DEF Held
      <4>2. call.found \in Blocks /\ heap[call.found].kind = "item"
        BY <4>1, HeldIs
      <4> QED
        BY <2>4, <3>2, <4>1, <4>2 DEF IsNullOr, Is
    <3> QED
      BY <3>1, <3>2
  <2>17. CallInv'
    <3>1. heap'[call.dir] = Free
      <4>1. call.dir \in Blocks
        BY <1>0, CallPointers, PointersAre
      <4> QED
        BY <2>4, <2>5, <4>1
    <3>2. IsNullOr(heap', call.desc, "descriptor")
      BY <2>15 DEF FilesInv, CallInv, IsNullOr, Is
    <3>3. \A fd \in OpenFiles : /\ Private(fd) # call.desc
                                /\ Item(fd) # call.found
      BY DEF FilesInv, CallInv
    <3> QED
      BY <1>1, <2>1, <2>6, <2>7, <2>9, <2>16, <3>1, <3>2, <3>3
         DEF CallInv
  <2>18. PositionInv'
    BY <2>7, <2>10, <2>15 DEF FilesInv, PositionInv
  <2> QED
    BY <2>4, <2>9, <2>12, <2>13, <2>14, <2>17, <2>18 DEF FilesInv
<1> QED
  BY <1>3, <1>4

-----------------------------------------------------------------------------
(* From part to part. *)

(* The item that was found is the one that is opened. *)
LEMMA WalkDonePreserves ==
  ASSUME FilesInv, walk_done
  PROVE  FilesInv'
<1>0. /\ pc = "walk"
      /\ UNCHANGED <<dirs, mounted, opens, file_descriptors, mishaps>>
  BY DEF walk_done
<1>1. CASE call.curr = 0
  <2>1. Return(kfree(heap, {call.desc}), 0)
    BY <1>1 DEF walk_done, OpenFails
  <2>2. /\ opens' \in 0..MaxOpens
        /\ mishaps' \subseteq Mishaps
    BY <1>0 DEF FilesInv, TypesInv
  <2> QED
    BY <1>0, <2>1, <2>2, FailPreserves, FailuresAre
<1>2. CASE call.curr # 0
  <2>1. /\ heap' = [heap EXCEPT ![call.desc].item = call.curr]
        /\ pc' = "descriptor" /\ UNCHANGED <<call, result>>
    BY <1>2 DEF walk_done
  <2>2. /\ call.desc \in Blocks /\ heap[call.desc].kind = "descriptor"
        /\ heap[call.desc].pos = 0
    <3>1. call.desc # 0 /\ IsNullOr(heap, call.desc, "descriptor")
      BY <1>0 DEF FilesInv, CallInv
    <3> QED
      BY <3>1, CallPointers, PointersAre
         DEF FilesInv, PositionInv, IsNullOr, Is
  <2>3. PICK d : d = heap[call.desc]
    OBVIOUS
  <2>4. d = [kind |-> "descriptor", item |-> d.item, pos |-> d.pos,
             relative |-> d.relative]
    BY <2>2, <2>3 DEF FilesInv, TypesInv, IsObject
  <2>5. /\ heap' = [b \in Blocks |-> heap'[b]]
        /\ \A b \in Blocks : b # call.desc => heap'[b] = heap[b]
        /\ heap'[call.desc] = [d EXCEPT !.item = call.curr]
    BY <2>1, <2>2, <2>3 DEF FilesInv, TypesInv
  <2>6. heap'[call.desc] = [kind |-> "descriptor", item |-> call.curr,
                            pos |-> d.pos, relative |-> d.relative]
    BY <2>4, <2>5
  <2>7. /\ Untouched({call.desc})
        /\ \A b \in Blocks : heap'[b].kind = "dir" => heap'[b] = heap[b]
    BY <2>5, <2>6 DEF Untouched
  <2>8. /\ SlotsInv' /\ DirsInv' /\ ItemsInv' /\ PositionInFile'
        /\ OpenFiles' = OpenFiles
        /\ \A fd \in OpenFiles : Private(fd)' = Private(fd)
                                 /\ Item(fd)' = Item(fd)
    BY <1>0, <2>1, <2>7, Steady, FailuresAre
  <2>9. TypesInv'
    <3>1. IsObject(heap'[call.desc], dirs)
      BY <2>6, CallPointers DEF IsObject, Kinds
    <3>2. \A b \in Blocks : IsObject(heap'[b], dirs')
      BY <1>0, <2>5, <3>1 DEF FilesInv, TypesInv
    <3> QED
      BY <1>0, <2>1, <2>5, <3>2 DEF FilesInv, TypesInv
  <2>10. PathInv'
    <3>1. \A b \in Blocks :
            /\ heap[b].kind \in {"root", "part"} => heap'[b] = heap[b]
            /\ heap'[b].kind \in {"root", "part"} => heap'[b] = heap[b]
      BY <2>2, <2>5, <2>6
    <3>2. /\ IsNullOr(heap', call.root, "root")
          /\ IsNullOr(heap', call.part, "part")
          /\ \A b \in Blocks :
               /\ heap'[b].kind = "root" =>
                    IsNullOr(heap', heap'[b].first, "part")
               /\ heap'[b].kind = "part" =>
                    IsNullOr(heap', heap'[b].next, "part")
      BY <3>1, PathStays
    <3> QED
      BY <1>0, <2>1, <3>2 DEF FilesInv, PathInv
  <2>11. CallInv'
    <3>1. /\ IsNullOr(heap', call.desc, "descriptor")
          /\ heap'[call.desc].item = call.curr
      BY <2>6 DEF IsNullOr, Is
    <3>2. /\ IsNullOr(heap', call.curr, "item")
          /\ IsNullOr(heap', call.found, "item")
          /\ call.dir = 0 \/ heap'[call.dir] = Free
          /\ call.curr = call.found
      <4>1. /\ IsNullOr(heap, call.curr, "item")
            /\ call.curr = call.found
            /\ call.dir = 0 \/ heap[call.dir] = Free
        BY <1>0 DEF FilesInv, CallInv
      <4> QED
        BY <2>2, <2>5, <4>1, CallPointers, PointersAre, FreeIsObject
           DEF IsNullOr, Is
    <3>3. \A fd \in OpenFiles : /\ Private(fd) # call.desc
                                /\ Item(fd) \notin {call.curr, call.found}
      BY DEF FilesInv, CallInv
    <3> QED
      BY <1>2, <2>1, <2>2, <2>8, <3>1, <3>2, <3>3, PointersAre DEF CallInv
  <2>12. PositionInv'
    BY <2>1, <2>2, <2>3, <2>6, <2>8 DEF PositionInv
  <2> QED
    BY <2>8, <2>9, <2>10, <2>11, <2>12 DEF FilesInv
<1> QED
  BY <1>1, <1>2

(* An item that was not found is used as if it had been. *)
LEMMA WalkNullPreserves ==
  ASSUME FilesInv, walk_null
  PROVE  FilesInv'
<1>0. /\ pc = "walk" /\ call.curr = 0 /\ UNCHANGED <<dirs, mounted, opens>>
  BY DEF walk_null
<1>1. CASE OpenFails /\ UNCHANGED <<file_descriptors, mishaps>>
  <2>1. Return(kfree(heap, {call.desc}), 0)
    BY <1>1 DEF OpenFails
  <2>2. /\ opens' \in 0..MaxOpens
        /\ mishaps' \subseteq Mishaps
    BY <1>0, <1>1 DEF FilesInv, TypesInv
  <2> QED
    BY <1>0, <1>1, <2>1, <2>2, FailPreserves, FailuresAre
<1>2. CASE GoWild({})
  <2>1. call.desc # 0 /\ (call.dir = 0 \/ heap[call.dir] = Free)
    BY <1>0 DEF FilesInv, CallInv
  <2>2. call # NoCall
    BY <2>1, NoCallIs
  <2> QED
    BY <1>0, <1>2, <2>1, <2>2, WildPreserves
<1> QED
  BY <1>1, <1>2 DEF walk_null

(* The item of a file in the middle of a path is lost. *)
LEMMA WalkThroughFilePreserves ==
  ASSUME FilesInv, walk_through_file
  PROVE  FilesInv'
<1>1. /\ Return(kfree(heap, {call.desc}), 0)
      /\ mishaps' = mishaps \cup {"through a file"}
      /\ UNCHANGED <<dirs, mounted, opens, file_descriptors>>
  BY DEF walk_through_file, OpenFails
<1>2. /\ opens' \in 0..MaxOpens
      /\ mishaps' \subseteq Mishaps /\ mishaps \subseteq mishaps'
  <2>1. mishaps \subseteq Mishaps /\ "through a file" \in Mishaps
    BY DEF FilesInv, TypesInv, Mishaps
  <2> QED
    BY <1>1, <2>1, FailuresAre DEF FilesInv, TypesInv
<1> QED
  BY <1>1, <1>2, FailPreserves

(* The search goes on in the directory that was found. *)
LEMMA WalkIntoDirPreserves ==
  ASSUME FilesInv, walk_into_dir
  PROVE  FilesInv'
<1>0. /\ pc = "walk" /\ call.curr # 0 /\ NextPart # 0
      /\ ~IsItem(heap, call.curr, "file")
      /\ UNCHANGED <<dirs, mounted, opens>>
  BY DEF walk_into_dir
<1>1. call.curr \in Held
  BY <1>0 DEF Held
<1>2. CASE ~Loaded(heap, call.curr)
  <2>1. GoWild({})
    BY <1>2 DEF walk_into_dir
  <2> QED
    BY <1>0, <1>1, <1>2, <2>1, MissingItemPreserves
<1>3. CASE Loaded(heap, call.curr)
  <2>1. /\ pc' = "find"
        /\ call' = [call EXCEPT !.part = NextPart, !.i = 1, !.found = 0,
                                !.dir = heap[call.curr].ref]
        /\ UNCHANGED <<heap, file_descriptors, result, mishaps>>
    BY <1>3 DEF walk_into_dir
  <2>2. /\ call' = [f \in CallFields |-> call'[f]]
        /\ call'.part = NextPart /\ call'.i = 1 /\ call'.found = 0
        /\ call'.dir = heap[call.curr].ref
        /\ \A f \in CallFields \ {"part", "i", "found", "dir"} :
             call'[f] = call[f]
    BY <2>1 DEF FilesInv, TypesInv, CallFields
  <2>3. /\ call'.path = call.path /\ call'.root = call.root
        /\ call'.desc = call.desc /\ call'.curr = call.curr
    BY <2>2 DEF CallFields
  <2>4. /\ call.curr \in Blocks /\ heap[call.curr].ref \in Blocks
        /\ Is(heap, heap[call.curr].ref, "dir")
    <3>1. /\ call.curr \in Blocks
          /\ heap[call.curr].type \in {"file", "dir"}
          /\ heap[call.curr].ref \in Pointers
      BY <1>1, HeldIs
    <3>2. heap[call.curr].type = "dir"
      BY <1>0, <1>3, <3>1 DEF IsItem, Loaded
    <3> QED
      BY <1>3, <3>1, <3>2, PointersAre DEF Loaded, Is
  <2>5. NextPart \in Pointers /\ IsNullOr(heap, NextPart, "part")
    <3>1. call.part \in Blocks /\ heap[call.part].kind = "part"
      BY <1>0, CallPointers, PointersAre DEF FilesInv, PathInv, IsNullOr, Is
    <3> QED
      BY <3>1 DEF NextPart, FilesInv, TypesInv, PathInv, IsObject
  <2>6. Untouched({call.desc})
    BY <2>1 DEF Untouched, FilesInv, TypesInv
  <2>7. /\ SlotsInv' /\ DirsInv' /\ ItemsInv' /\ PositionInFile'
        /\ OpenFiles' = OpenFiles
        /\ \A fd \in OpenFiles : Private(fd)' = Private(fd)
                                 /\ Item(fd)' = Item(fd)
    BY <1>0, <2>1, <2>2, <2>3, <2>6, Steady, FailuresAre
  <2>8. TypesInv'
    <3>1. \A f \in {"root", "part", "desc", "curr", "dir", "found"} :
            call'[f] \in Pointers
      BY <2>2, <2>4, <2>5, PointersAre DEF FilesInv, TypesInv, CallFields
    <3>2. call'.i \in Nat
      BY <2>2
    <3> QED
      BY <1>0, <2>1, <2>2, <2>3, <3>1, <3>2 DEF FilesInv, TypesInv
  <2>9. PathInv'
    BY <1>0, <2>1, <2>2, <2>3, <2>5 DEF FilesInv, PathInv
  <2>10. CallInv'
    <3>1. \A fd \in OpenFiles : /\ Private(fd) # call.desc
                                /\ Item(fd) # call.curr /\ Item(fd) # 0
      <4>1. \A fd \in OpenFiles : Private(fd) # call.desc
                                  /\ Item(fd) # call.curr
        BY DEF FilesInv, CallInv
      <4>2. ASSUME NEW fd \in OpenFiles
            PROVE  Item(fd) # 0
        <5>1. Item(fd) \in Blocks
          BY OpenFileIs
        <5> QED
          BY <5>1, PointersAre
      <4> QED
        BY <4>1, <4>2
    <3>2. /\ IsNullOr(heap, call.desc, "descriptor") /\ call.desc # 0
          /\ IsNullOr(heap, call.curr, "item")
      BY <1>0 DEF FilesInv, CallInv
    <3> QED
      BY <1>0, <2>1, <2>2, <2>3, <2>4, <2>7, <3>1, <3>2, PointersAre
         DEF CallInv, IsNullOr
  <2>11. PositionInv'
    BY <2>1, <2>3, <2>7 DEF FilesInv, PositionInv
  <2> QED
    BY <2>7, <2>8, <2>9, <2>10, <2>11 DEF FilesInv
<1> QED
  BY <1>2, <1>3

-----------------------------------------------------------------------------
(* A file is opened. *)

(* The first free slot takes what the call of fopen has opened. *)
LEMMA NewDescriptorPreserves ==
  ASSUME FilesInv, file_new_descriptor
  PROVE  FilesInv'
<1>0. pc = "descriptor" /\ UNCHANGED <<dirs, mounted, opens>>
  BY DEF file_new_descriptor
<1>1. PICK fd \in FreeSlots, desc \in {kzalloc({})} :
        IF desc = 0 THEN GoWild({"no memory"})
        ELSE /\ Return(Put(heap, desc, [kind |-> "open", index |-> fd,
                                        private_data |-> call.desc]), fd)
             /\ file_descriptors' = [file_descriptors EXCEPT ![fd] = desc]
             /\ UNCHANGED mishaps
  BY DEF file_new_descriptor
<1>2. CASE desc = 0
  <2>1. GoWild({"no memory"})
    BY <1>1, <1>2
  <2>2. ~Intact'
    BY <2>1, FailureShows, FailuresAre DEF GoWild
  <2> QED
    BY <1>0, <2>1, <2>2, WildPreserves, FailuresAre
<1>3. CASE desc # 0
  <2>1. PICK g : g = Put(heap, desc, [kind |-> "open", index |-> fd,
                                      private_data |-> call.desc])
    OBVIOUS
  <2>2. /\ heap' = LosePath(g) /\ call' = NoCall /\ result' = fd
        /\ pc' = "idle" /\ UNCHANGED mishaps
        /\ file_descriptors' = [file_descriptors EXCEPT ![fd] = desc]
    BY <1>1, <1>3, <2>1 DEF Return
  <2>3. desc \in Blocks /\ heap[desc] = Free
    BY <1>3, KzallocReturns
  <2>4. Free.kind = "free" /\ [kind |-> "path"].kind = "path"
    BY FreeIsObject
  <2>5. /\ heap' = [b \in Blocks |-> heap'[b]]
        /\ heap'[desc] = [kind |-> "open", index |-> fd,
                          private_data |-> call.desc]
        /\ \A b \in Blocks \ {desc} :
             \/ heap'[b] = heap[b]
             \/ /\ heap[b].kind \in {"root", "name", "part"}
                /\ heap'[b] = [kind |-> "path"]
        /\ \A b \in Blocks : heap'[b].kind \notin {"root", "name", "part"}
    <3>1. /\ \A b \in Blocks : b # desc => g[b] = heap[b]
          /\ g[desc] = [kind |-> "open", index |-> fd,
                        private_data |-> call.desc]
      BY <2>1, <2>3, PutChanges
    <3>2. /\ heap' = [b \in Blocks |-> heap'[b]]
          /\ \A b \in Blocks : g[b].kind \notin {"root", "name", "part"} =>
                                 heap'[b] = g[b]
          /\ \A b \in Blocks : g[b].kind \in {"root", "name", "part"} =>
                                 heap'[b] = [kind |-> "path"]
      BY <2>2, LosePathChanges
    <3>3. g[desc].kind = "open"
      BY <3>1
    <3> QED
      BY <2>3, <2>4, <3>1, <3>2, <3>3
  <2>6. Untouched({})
    BY <2>3, <2>4, <2>5 DEF Untouched, FileKinds
  <2>7. /\ fd \in Slots /\ fd \notin OpenFiles
        /\ file_descriptors'[fd] = desc
        /\ \A other \in OpenFiles :
             file_descriptors'[other] = file_descriptors[other]
        /\ OpenFiles' = OpenFiles \cup {fd}
    <3>1. file_descriptors \in [Slots -> Pointers] /\ fd \in Slots
      BY DEF FilesInv, TypesInv, FreeSlots, Slots
    <3>2. fd \notin OpenFiles
      BY DEF FreeSlots, OpenFiles
    <3>3. /\ file_descriptors'[fd] = desc
          /\ DOMAIN file_descriptors' = Slots
          /\ \A s \in Slots \ {fd} : file_descriptors'[s] = file_descriptors[s]
      BY <2>2, <3>1
    <3>4. OpenFiles' = OpenFiles \cup {fd}
      BY <1>3, <3>1, <3>3 DEF OpenFiles
    <3>5. OpenFiles \subseteq Slots
      BY <3>1 DEF OpenFiles
    <3> QED
      BY <3>1, <3>2, <3>3, <3>4, <3>5
  <2>8. ASSUME NEW other \in OpenFiles
        PROVE  /\ Is(heap', file_descriptors'[other], "open")
               /\ heap'[file_descriptors'[other]].index = other
               /\ Is(heap', Private(other)', "descriptor")
               /\ Is(heap', Item(other)', "item")
               /\ Private(other)' = Private(other)
               /\ Item(other)' = Item(other)
    BY <2>6, <2>7, FileStays
  <2>9. /\ call.desc # 0 /\ call.curr # 0 /\ call.curr = call.found
        /\ heap[call.desc].item = call.curr
        /\ call.desc \in Blocks /\ heap[call.desc].kind = "descriptor"
        /\ call.curr \in Blocks /\ heap[call.curr].kind = "item"
        /\ heap[call.desc].pos = 0
    <3>1. /\ call.desc # 0 /\ call.curr # 0 /\ call.curr = call.found
          /\ heap[call.desc].item = call.curr
          /\ IsNullOr(heap, call.desc, "descriptor")
          /\ IsNullOr(heap, call.curr, "item")
          /\ heap[call.desc].pos = 0
      BY <1>0 DEF FilesInv, CallInv, PositionInv
    <3> QED
      BY <3>1, CallPointers, PointersAre DEF IsNullOr, Is
  <2>10. /\ heap'[call.desc] = heap[call.desc]
         /\ heap'[call.curr] = heap[call.curr]
    BY <2>6, <2>9 DEF Untouched, FileKinds
  <2>11. /\ Private(fd)' = call.desc /\ Item(fd)' = call.curr
         /\ Is(heap', file_descriptors'[fd], "open")
         /\ heap'[file_descriptors'[fd]].index = fd
         /\ Is(heap', Private(fd)', "descriptor")
         /\ Is(heap', Item(fd)', "item")
    <3>1. Private(fd)' = call.desc
      BY <2>5, <2>7 DEF Private
    <3>2. Item(fd)' = call.curr
      BY <2>9, <2>10, <3>1 DEF Item
    <3> QED
      BY <1>3, <2>5, <2>7, <2>9, <2>10, <3>1, <3>2 DEF Is
  <2>12. SlotsInv'
    <3>1. ASSUME NEW o \in OpenFiles', NEW other \in OpenFiles', o # other
          PROVE  /\ Private(o)' # Private(other)'
                 /\ Item(o)' # Item(other)'
      <4>1. \A f \in OpenFiles : /\ Private(f) # call.desc
                                 /\ Item(f) # call.curr
        BY DEF FilesInv, CallInv
      <4>2. CASE o \in OpenFiles /\ other \in OpenFiles
        BY <2>8, <3>1, <4>2 DEF FilesInv, SlotsInv
      <4>3. CASE o = fd
        BY <2>7, <2>8, <2>11, <3>1, <4>1, <4>3
      <4>4. CASE other = fd
        BY <2>7, <2>8, <2>11, <3>1, <4>1, <4>4
      <4> QED
        BY <2>7, <4>2, <4>3, <4>4
    <3> QED
      BY <2>7, <2>8, <2>11, <3>1 DEF SlotsInv
  <2>13. \A b \in Blocks : heap'[b].kind = "dir" => heap'[b] = heap[b]
    BY <2>4, <2>5
  <2>14. DirsInv'
    BY <1>0, <2>2, <2>6, <2>13, DirsStay
  <2>15. Held' \subseteq Held
    <3>1. call'.curr = 0 /\ call'.found = 0
      BY <2>2, NoCallIs
    <3>2. Held' = {Item(f)' : f \in OpenFiles'}
      BY <3>1 DEF Held
    <3>3. {Item(f)' : f \in OpenFiles'} =
            {Item(f) : f \in OpenFiles} \cup {call.curr}
      BY <2>7, <2>8, <2>11
    <3> QED
      BY <2>9, <3>2, <3>3 DEF Held
  <2>16. ItemsInv'
    <3> SUFFICES ASSUME Intact'
                 PROVE  /\ \A x \in Held' : Loaded(heap', x)
                        /\ Apart(heap', Held')
      BY <2>2 DEF ItemsInv
    <3>1. Intact
      BY <2>2, FailuresAre
    <3>2. PICK H : H = Held'
      OBVIOUS
    <3>3. Spared(H, {})
      BY <2>15, <3>2 DEF Spared
    <3>4. \A x \in H : Loaded(heap', x)
      BY <2>6, <3>1, <3>3, ItemsStay
    <3>5. Apart(heap', H)
      BY <2>6, <3>1, <3>3, ItemsStay
    <3> QED
      BY <3>2, <3>4, <3>5
  <2>17. PositionInv'
    <3>1. ASSUME Intact', NEW o \in OpenFiles'
          PROVE  PositionSound(heap', Private(o)', Item(o)')
      <4>1. CASE o = fd
        BY <2>9, <2>10, <2>11, <4>1 DEF PositionSound
      <4>2. CASE o # fd
        <5>1. o \in OpenFiles /\ Intact
          BY <2>2, <2>7, <3>1, <4>2, FailuresAre
        <5>2. file_descriptors'[o] = file_descriptors[o]
          BY <2>7, <5>1
        <5> QED
          BY <2>6, <5>1, <5>2, PositionStays
      <4> QED
        BY <4>1, <4>2
    <3>2. PositionInFile'
      BY <3>1 DEF PositionInFile, PositionSound, Private, Item
    <3> QED
      BY <2>2, <3>2, NoCallIs DEF PositionInv
  <2>18. TypesInv'
    <3>1. IsObject(heap'[desc], dirs)
      BY <2>5, <2>7, <2>9 DEF IsObject, Kinds
    <3>2. \A b \in Blocks : IsObject(heap'[b], dirs')
      BY <1>0, <2>5, <3>1, FreeIsObject DEF FilesInv, TypesInv
    <3>3. file_descriptors' \in [Slots -> Pointers]
      <4>1. file_descriptors \in [Slots -> Pointers] /\ desc \in Pointers
        BY <2>3, PointersAre DEF FilesInv, TypesInv
      <4> QED
        BY <2>2, <4>1
    <3>4. result' \in {Error} \cup 0..BENOS_MAX_FILE_DESCRIPTORS
      BY <2>2, <2>7, CodesAre
    <3>5. /\ call' = [f \in CallFields |-> call'[f]]
          /\ call'.path \in {o.path : o \in Opens} \cup {<<>>}
          /\ call'.i \in Nat
          /\ \A f \in {"root", "part", "desc", "curr", "dir", "found"} :
               call'[f] \in Pointers
      BY <2>2, NoCallIs, NoCallTypes
    <3> QED
      BY <1>0, <2>2, <2>5, <3>2, <3>3, <3>4, <3>5 DEF FilesInv, TypesInv
  <2>19. PathInv'
    BY <2>2, <2>5, NoCallIs DEF PathInv, IsNullOr
  <2>20. CallInv'
    <3>1. ASSUME NEW o \in OpenFiles'
          PROVE  Private(o)' # 0 /\ Item(o)' # 0
      BY <2>7, <2>8, <2>11 DEF Is
    <3> QED
      BY <2>2, <3>1, NoCallIs DEF CallInv, IsNullOr
  <2> QED
    BY <2>12, <2>14, <2>16, <2>17, <2>18, <2>19, <2>20 DEF FilesInv
<1> QED
  BY <1>2, <1>3

-----------------------------------------------------------------------------
(* Calls on open files. *)

(* A call that only answers. *)
LEMMA AnswersPreserve ==
  ASSUME FilesInv, pc = "idle", result' \in {0, Error},
         UNCHANGED <<dirs, mounted, opens, heap, file_descriptors, call, pc,
                     mishaps>>
  PROVE  FilesInv'
<1>1. Untouched({call.desc})
  BY DEF Untouched, FilesInv, TypesInv
<1>2. /\ SlotsInv' /\ DirsInv' /\ ItemsInv' /\ PositionInFile'
      /\ OpenFiles' = OpenFiles
      /\ \A fd \in OpenFiles : Private(fd)' = Private(fd)
                               /\ Item(fd)' = Item(fd)
  BY <1>1, Steady, FailuresAre
<1>3. TypesInv'
  <2>1. result' \in {Error} \cup 0..BENOS_MAX_FILE_DESCRIPTORS
    BY CodesAre
  <2> QED
    BY <2>1 DEF FilesInv, TypesInv
<1>4. PathInv'
  BY DEF FilesInv, PathInv
<1>5. CallInv'
  BY <1>2 DEF FilesInv, CallInv
<1>6. PositionInv'
  BY <1>2 DEF FilesInv, PositionInv
<1> QED
  BY <1>2, <1>3, <1>4, <1>5, <1>6 DEF FilesInv

(* A file number that is accepted is that of an open file. *)
LEMMA GivenFileIs ==
  ASSUME FilesInv, NEW fd \in FileNumbers, file_get_descriptor(fd) # 0
  PROVE  /\ fd \in OpenFiles
         /\ file_get_descriptor(fd) = file_descriptors[fd]
         /\ PrivateOf(fd) = Private(fd) /\ ItemOf(fd) = Item(fd)
         /\ Item(fd) \in Held
<1>1. /\ fd \in Int /\ fd > 0 /\ fd < BENOS_MAX_FILE_DESCRIPTORS
      /\ file_get_descriptor(fd) = file_descriptors[fd]
  BY FileSystemAssumption DEF FileNumbers, file_get_descriptor
<1>2. fd \in Slots
  BY <1>1, FileSystemAssumption DEF Slots
<1>3. fd \in OpenFiles
  BY <1>1, <1>2 DEF OpenFiles, FilesInv, TypesInv
<1>4. PrivateOf(fd) = Private(fd)
  BY <1>1 DEF PrivateOf, Private
<1>5. ItemOf(fd) = Item(fd)
  BY <1>4 DEF ItemOf, Item
<1> QED
  BY <1>1, <1>3, <1>4, <1>5 DEF Held

(* Reading moves nothing. *)
LEMMA ReadPreserves ==
  ASSUME FilesInv, NEW fd \in FileNumbers, not_open(fd) \/ fread(fd) \/ fstat(fd)
  PROVE  FilesInv'
<1>1. CASE not_open(fd)
  BY <1>1, AnswersPreserve DEF not_open
<1>2. CASE fread(fd)
  <2>1. /\ pc = "idle" /\ UNCHANGED <<dirs, mounted, opens>>
        /\ ItemOf(fd) \in Held
    BY <1>2, GivenFileIs DEF fread
  <2>2. CASE Loaded(heap, ItemOf(fd))
    BY <1>2, <2>1, <2>2, AnswersPreserve DEF fread
  <2>3. CASE ~Loaded(heap, ItemOf(fd))
    BY <1>2, <2>1, <2>3, MissingItemPreserves DEF fread
  <2> QED
    BY <2>2, <2>3
<1>3. CASE fstat(fd)
  <2>1. /\ pc = "idle" /\ UNCHANGED <<dirs, mounted, opens>>
        /\ ItemOf(fd) \in Held
    BY <1>3, GivenFileIs DEF fstat
  <2>2. CASE IsItem(heap, ItemOf(fd), "dir") \/ Loaded(heap, ItemOf(fd))
    BY <1>3, <2>1, <2>2, AnswersPreserve DEF fstat
  <2>3. CASE ~(IsItem(heap, ItemOf(fd), "dir") \/ Loaded(heap, ItemOf(fd)))
    BY <1>3, <2>1, <2>3, MissingItemPreserves DEF fstat
  <2> QED
    BY <2>2, <2>3
<1> QED
  BY <1>1, <1>2, <1>3

(* The heap when the position of a descriptor is set. *)
Positioned(h, p, pos, r) == [h EXCEPT ![p].pos = pos, ![p].relative = r]

(* Nothing else of the descriptor changes. *)
LEMMA PositionSet ==
  ASSUME NEW h, h = [b \in Blocks |-> h[b]], NEW p \in Blocks,
         h[p] = [kind |-> "descriptor", item |-> h[p].item,
                 pos |-> h[p].pos, relative |-> h[p].relative],
         NEW pos, NEW r
  PROVE  Positioned(h, p, pos, r) =
           [h EXCEPT ![p] = [kind |-> "descriptor", item |-> h[p].item,
                             pos |-> pos, relative |-> r]]
<1>1. PICK f : f = [h EXCEPT ![p].pos = pos]
  OBVIOUS
<1>g. PICK g : g = Positioned(h, p, pos, r)
  OBVIOUS
<1>2. g = [f EXCEPT ![p].relative = r]
  BY <1>1, <1>g DEF Positioned
<1>3. /\ f = [b \in Blocks |-> f[b]]
      /\ \A b \in Blocks \ {p} : f[b] = h[b]
      /\ f[p] = [h[p] EXCEPT !.pos = pos]
  BY <1>1
<1>4. f[p] = [kind |-> "descriptor", item |-> h[p].item,
              pos |-> pos, relative |-> h[p].relative]
  BY <1>3
<1>5. /\ g = [b \in Blocks |-> g[b]]
      /\ \A b \in Blocks \ {p} : g[b] = h[b]
      /\ g[p] = [f[p] EXCEPT !.relative = r]
  BY <1>2, <1>3
<1>6. g[p] = [kind |-> "descriptor", item |-> h[p].item,
              pos |-> pos, relative |-> r]
  BY <1>4, <1>5
<1> QED
  BY <1>5, <1>6, <1>g

(* A seek moves the position of its file, and no other. *)
LEMMA SeekPreserves ==
  ASSUME FilesInv, NEW fd \in FileNumbers, NEW offset \in Offsets,
         NEW whence \in {"SEEK_SET", "SEEK_CUR", "SEEK_END"},
         fseek(fd, offset, whence)
  PROVE  FilesInv'
<1>1. /\ pc = "idle" /\ UNCHANGED <<dirs, mounted, opens>>
      /\ fd \in OpenFiles /\ PrivateOf(fd) = Private(fd)
      /\ ItemOf(fd) = Item(fd) /\ Item(fd) \in Held
  BY GivenFileIs DEF fseek
<1>2. CASE ~(IsItem(heap, Item(fd), "dir") \/ Loaded(heap, Item(fd)))
  <2>1. GoWild({})
    BY <1>1, <1>2 DEF fseek
  <2> QED
    BY <1>1, <1>2, <2>1, MissingItemPreserves
<1>3. CASE IsItem(heap, Item(fd), "dir") \/ Loaded(heap, Item(fd))
  <2>1. /\ result' = SeekResult(fd, offset, whence)
        /\ heap' = IF result' # 0 THEN heap
                   ELSE IF whence = "SEEK_SET"
                   THEN [heap EXCEPT ![Private(fd)].pos = offset,
                                     ![Private(fd)].relative = FALSE]
                   ELSE [heap EXCEPT ![Private(fd)].pos = @ + offset,
                                     ![Private(fd)].relative = TRUE]
        /\ UNCHANGED <<file_descriptors, call, pc, mishaps>>
    BY <1>1, <1>3 DEF fseek
  <2>2. result' \in {0, Error}
    BY <2>1 DEF SeekResult
  <2>3. CASE result' # 0
    BY <1>1, <2>1, <2>2, <2>3, AnswersPreserve
  <2>4. CASE result' = 0
    <3>1. /\ ~IsItem(heap, Item(fd), "dir") /\ whence # "SEEK_END"
          /\ ~(offset >= heap[heap[Item(fd)].ref].entry.file_size)
      BY <1>1, <2>1, <2>4 DEF SeekResult, Error
    <3>2. Loaded(heap, Item(fd))
      BY <1>3, <3>1
    <3>3. PICK p : p = Private(fd)
      OBVIOUS
    <3>4. PICK d : d = heap[p]
      OBVIOUS
    <3>5. /\ p \in Blocks /\ heap[p].kind = "descriptor"
          /\ d = [kind |-> "descriptor", item |-> d.item, pos |-> d.pos,
                  relative |-> d.relative]
          /\ d.item \in Pointers
      BY <1>1, <3>3, <3>4, OpenFileIs, ZenonT(60) DEF FilesInv, TypesInv, IsObject
    <3>6. PICK pos, relative :
            /\ heap' = [heap EXCEPT ![p] =
                          [kind |-> "descriptor", item |-> d.item,
                           pos |-> pos, relative |-> relative]]
            /\ relative = TRUE \/ pos = offset
      <4>1. CASE whence = "SEEK_SET"
        <5>0. PICK r : r = FALSE
          OBVIOUS
        <5>1. heap' = [heap EXCEPT ![p].pos = offset, ![p].relative = r]
          BY <2>1, <2>4, <3>3, <4>1, <5>0
        <5>2. heap' = [heap EXCEPT ![p] =
                         [kind |-> "descriptor", item |-> d.item,
                          pos |-> offset, relative |-> r]]
          <6>1. PICK pos : pos = offset
            OBVIOUS
          <6>2. heap' = [heap EXCEPT ![p].pos = pos, ![p].relative = r]
            BY <3>4, <5>1, <6>1
          <6>a. heap' = Positioned(heap, p, pos, r)
            BY <6>2 DEF Positioned
          <6>3. heap = [b \in Blocks |-> heap[b]]
            BY DEF FilesInv, TypesInv
          <6>4. /\ heap[p] = [kind |-> "descriptor", item |-> heap[p].item,
                             pos |-> heap[p].pos,
                             relative |-> heap[p].relative]
                /\ p \in Blocks
            BY <3>4, <3>5
          <6>5. heap' = [heap EXCEPT ![p] =
                           [kind |-> "descriptor", item |-> heap[p].item,
                            pos |-> pos, relative |-> r]]
            BY <6>a, <6>3, <6>4, PositionSet
          <6> QED
            BY <3>4, <6>1, <6>5
        <5> QED
          BY <5>0, <5>2
      <4>2. CASE whence # "SEEK_SET"
        <5>0. PICK r : r = TRUE
          OBVIOUS
        <5>1. heap' = [heap EXCEPT ![p].pos = @ + offset, ![p].relative = r]
          BY <2>1, <2>4, <3>3, <4>2, <5>0
        <5>2. heap' = [heap EXCEPT ![p] =
                         [kind |-> "descriptor", item |-> d.item,
                          pos |-> d.pos + offset, relative |-> r]]
          <6>1. PICK pos : pos = d.pos + offset
            OBVIOUS
          <6>2. heap' = [heap EXCEPT ![p].pos = pos, ![p].relative = r]
            BY <3>4, <5>1, <6>1
          <6>a. heap' = Positioned(heap, p, pos, r)
            BY <6>2 DEF Positioned
          <6>3. heap = [b \in Blocks |-> heap[b]]
            BY DEF FilesInv, TypesInv
          <6>4. /\ heap[p] = [kind |-> "descriptor", item |-> heap[p].item,
                             pos |-> heap[p].pos,
                             relative |-> heap[p].relative]
                /\ p \in Blocks
            BY <3>4, <3>5
          <6>5. heap' = [heap EXCEPT ![p] =
                           [kind |-> "descriptor", item |-> heap[p].item,
                            pos |-> pos, relative |-> r]]
            BY <6>a, <6>3, <6>4, PositionSet
          <6> QED
            BY <3>4, <6>1, <6>5
        <5> QED
          BY <5>0, <5>2
      <4> QED
        BY <4>1, <4>2
    <3>7. /\ heap' = [b \in Blocks |-> heap'[b]]
          /\ \A b \in Blocks \ {p} : heap'[b] = heap[b]
          /\ heap'[p] = [kind |-> "descriptor", item |-> d.item,
                         pos |-> pos, relative |-> relative]
      BY <3>5, <3>6 DEF FilesInv, TypesInv
    <3>a. heap'[p].relative = TRUE \/ heap'[p].pos = offset
      <4>1. heap'[p].pos = pos
        BY <3>7
      <4>2. heap'[p].relative = relative
        BY <3>7
      <4> QED
        BY <3>6, <4>1, <4>2
    <3>b. heap[heap[Item(fd)].ref].entry.file_size \in Nat =>
            offset < heap[heap[Item(fd)].ref].entry.file_size
      <4>1. offset \in Nat
        BY FileSystemAssumption
      <4>2. \A n \in Nat : ~(offset >= n) => offset < n
        BY <4>1
      <4> QED
        BY <3>1, <4>2
    <3>8. call = NoCall /\ call' = NoCall /\ pc' = "idle"
      BY <1>1, <2>1 DEF FilesInv, CallInv
    <3>9. Untouched({p})
      BY <3>7 DEF Untouched
    <3>10. ASSUME NEW o \in OpenFiles
           PROVE  /\ o \in OpenFiles' /\ file_descriptors[o] \in Blocks \ {p}
                  /\ Item(o) \in Blocks \ {p}
                  /\ file_descriptors'[o] = file_descriptors[o]
                  /\ o # fd => Private(o) # p
                  /\ Private(o) \in Blocks
                  /\ heap[file_descriptors[o]].kind = "open"
                  /\ heap[file_descriptors[o]].index = o
                  /\ heap[Private(o)].kind = "descriptor"
                  /\ heap[Item(o)].kind = "item"
      <4>1. /\ file_descriptors[o] \in Blocks /\ Item(o) \in Blocks
            /\ Private(o) \in Blocks
            /\ heap[file_descriptors[o]].kind = "open"
            /\ heap[file_descriptors[o]].index = o
            /\ heap[Private(o)].kind = "descriptor"
            /\ heap[Item(o)].kind = "item"
        BY OpenFileIs
      <4>2. o # fd => Private(o) # p
        BY <1>1, <3>3 DEF FilesInv, SlotsInv
      <4> QED
        BY <2>1, <3>5, <4>1, <4>2 DEF OpenFiles
    <3>11. OpenFiles' = OpenFiles
      BY <2>1 DEF OpenFiles
    <3>12. ASSUME NEW o \in OpenFiles
           PROVE  /\ Private(o)' = Private(o) /\ Item(o)' = Item(o)
                  /\ heap'[file_descriptors'[o]] = heap[file_descriptors[o]]
                  /\ heap'[Item(o)] = heap[Item(o)]
                  /\ heap'[Private(o)].kind = "descriptor"
      <4>1. /\ heap'[file_descriptors'[o]] = heap[file_descriptors[o]]
            /\ heap'[Item(o)] = heap[Item(o)]
        BY <3>7, <3>10
      <4>2. Private(o)' = Private(o)
        BY <4>1 DEF Private
      <4>3. /\ heap'[Private(o)].item = heap[Private(o)].item
            /\ heap'[Private(o)].kind = "descriptor"
        <5>1. CASE Private(o) = p
          BY <3>4, <3>7, <5>1
        <5>2. CASE Private(o) # p
          BY <3>7, <3>10, <5>2
        <5> QED
          BY <5>1, <5>2
      <4>4. Item(o)' = Item(o)
        BY <4>2, <4>3 DEF Item
      <4> QED
        BY <4>1, <4>2, <4>3, <4>4
    <3>13. SlotsInv'
      <4>1. ASSUME NEW o \in OpenFiles
            PROVE  /\ Is(heap', file_descriptors'[o], "open")
                   /\ heap'[file_descriptors'[o]].index = o
                   /\ Is(heap', Private(o)', "descriptor")
                   /\ Is(heap', Item(o)', "item")
        BY <3>10, <3>12, PointersAre DEF Is
      <4>2. \A o, other \in OpenFiles :
              o # other => Private(o)' # Private(other)'
                           /\ Item(o)' # Item(other)'
        BY <3>12 DEF FilesInv, SlotsInv
      <4> QED
        BY <3>11, <4>1, <4>2 DEF SlotsInv
    <3>14. DirsInv'
      <4>1. ASSUME NEW b \in Blocks, heap'[b].kind = "dir"
            PROVE  heap'[b] = heap[b] /\ heap[b].items \notin {p}
        <5>1. heap'[b] = heap[b]
          BY <3>7, <4>1
        <5>2. heap[b].items = 0 \/ heap[heap[b].items].kind = "items"
          BY <4>1, <5>1 DEF FilesInv, DirsInv, IsNullOr, Is
        <5> QED
          BY <3>5, <5>1, <5>2, PointersAre
      <4> QED
        BY <1>1, <2>1, <3>9, <4>1, DirsStay
    <3>15. Held' = Held /\ \A x \in Held : x # p
      <4>1. {Item(o)' : o \in OpenFiles'} = {Item(o) : o \in OpenFiles}
        BY <3>11, <3>12
      <4>2. ASSUME NEW x \in Held
            PROVE  x # p
        <5>1. heap[x].kind = "item"
          BY HeldIs
        <5> QED
          BY <3>5, <5>1
      <4> QED
        BY <2>1, <4>1, <4>2 DEF Held
    <3>16. Intact => Spared(Held, {p})
      <4>1. ASSUME Intact, NEW x \in Held
            PROVE  heap[x].ref # p
        <5>1. heap[heap[x].ref].kind \in {"file", "dir"}
          BY <4>1, HeldIs
        <5> QED
          BY <3>5, <5>1
      <4> QED
        BY <3>15, <4>1 DEF Spared
    <3>17. ItemsInv'
      <4> SUFFICES ASSUME Intact'
                   PROVE  /\ \A x \in Held' : Loaded(heap', x)
                          /\ Apart(heap', Held')
        BY <3>8 DEF ItemsInv
      <4>1. Intact
        BY <2>1, FailuresAre
      <4>2. PICK H : H = Held'
        OBVIOUS
      <4>3. Spared(H, {p})
        BY <3>15, <3>16, <4>1, <4>2
      <4>4. \A x \in H : Loaded(heap', x)
        BY <3>9, <4>1, <4>3, ItemsStay
      <4>5. Apart(heap', H)
        BY <3>9, <4>1, <4>3, ItemsStay
      <4> QED
        BY <4>2, <4>4, <4>5
    <3>18. PositionInFile'
      <4> SUFFICES ASSUME Intact', NEW o \in OpenFiles
                   PROVE  PositionSound(heap', Private(o)', Item(o)')
        BY <3>11 DEF PositionInFile, PositionSound, Private, Item
      <4>1. Intact
        BY <2>1, FailuresAre
      <4>2. CASE o # fd
        <5>1. heap[Item(o)].ref \notin {p}
          BY <3>16, <4>1 DEF Spared, Held
        <5>2. {file_descriptors[o], Private(o), Item(o)} \cap {p} = {}
          <6>1. /\ file_descriptors[o] # p /\ Private(o) # p
                /\ Item(o) # p
            BY <3>10, <4>2
          <6> QED
            BY <6>1
        <5>3. file_descriptors'[o] = file_descriptors[o]
          BY <3>10
        <5> QED
          BY <3>9, <4>1, <5>1, <5>2, <5>3, PositionStays
      <4>3. CASE o = fd
        <5>1. Private(o)' = p /\ Item(o)' = Item(fd)
          BY <3>3, <3>12, <4>3
        <5>2. /\ Loaded(heap, Item(fd)) /\ Item(fd) # p
              /\ heap[Item(fd)].ref \in Blocks \ {p}
              /\ heap[Item(fd)].type = "file"
              /\ heap[Item(fd)].kind = "item" /\ Item(fd) \in Blocks
              /\ heap[heap[Item(fd)].ref].kind = "file"
          <6>1. /\ heap[Item(fd)].ref \in Blocks /\ Item(fd) \in Blocks
                /\ heap[heap[Item(fd)].ref].kind = heap[Item(fd)].type
                /\ heap[Item(fd)].type \in {"file", "dir"}
                /\ heap[Item(fd)].kind = "item"
            BY <1>1, <4>1, HeldIs
          <6>2. heap[Item(fd)].type = "file"
            BY <3>1, <6>1, PointersAre DEF IsItem, Is
          <6> QED
            BY <1>1, <3>2, <3>15, <3>16, <4>1, <6>1, <6>2 DEF Spared
        <5>3. /\ heap'[Item(fd)] = heap[Item(fd)]
              /\ heap'[heap[Item(fd)].ref] = heap[heap[Item(fd)].ref]
          BY <3>7, <5>2
        <5>4. heap[heap[Item(fd)].ref].entry.file_size \in Nat
          BY <5>2 DEF FilesInv, TypesInv, IsObject
        <5>5. offset < heap[heap[Item(fd)].ref].entry.file_size
          BY <3>b, <5>4
        <5>6. IsItem(heap', Item(fd), "file") /\ Loaded(heap', Item(fd))
          BY <5>2, <5>3, PointersAre DEF IsItem, Loaded, Is
        <5>7. heap'[p].relative = TRUE \/ heap'[p].pos = offset
          BY <3>a
        <5>8. heap'[p].pos = offset =>
                heap'[p].pos < heap'[heap'[Item(fd)].ref].entry.file_size
          BY <5>3, <5>5
        <5> QED
          BY <5>1, <5>6, <5>7, <5>8, Zenon DEF PositionSound
      <4> QED
        BY <4>2, <4>3
    <3>19. TypesInv'
      <4>1. IsObject(heap'[p], dirs)
        BY <3>5, <3>7 DEF IsObject, Kinds
      <4>2. \A b \in Blocks : IsObject(heap'[b], dirs')
        BY <1>1, <3>7, <4>1 DEF FilesInv, TypesInv
      <4>3. result' \in {Error} \cup 0..BENOS_MAX_FILE_DESCRIPTORS
        BY <2>2, CodesAre
      <4> QED
        BY <1>1, <2>1, <3>7, <4>2, <4>3 DEF FilesInv, TypesInv
    <3>20. PathInv'
      <4>1. \A b \in Blocks :
              /\ heap[b].kind \in {"root", "part"} => heap'[b] = heap[b]
              /\ heap'[b].kind \in {"root", "part"} => heap'[b] = heap[b]
        BY <3>5, <3>7
      <4>2. \A b \in Blocks :
              /\ heap'[b].kind = "root" =>
                   IsNullOr(heap', heap'[b].first, "part")
              /\ heap'[b].kind = "part" =>
                   IsNullOr(heap', heap'[b].next, "part")
        BY <4>1, PathStays
      <4> QED
        BY <3>8, <4>2, NoCallIs DEF PathInv, IsNullOr
    <3>21. CallInv'
      <4>1. ASSUME NEW o \in OpenFiles
            PROVE  Private(o)' # 0 /\ Item(o)' # 0
        BY <3>10, <3>12, PointersAre
      <4> QED
        BY <3>8, <3>11, <4>1, NoCallIs DEF CallInv, IsNullOr
    <3>22. PositionInv'
      BY <3>8, <3>18, NoCallIs DEF PositionInv
    <3> QED
      BY <3>13, <3>14, <3>17, <3>19, <3>20, <3>21, <3>22 DEF FilesInv
  <2> QED
    BY <2>3, <2>4
<1> QED
  BY <1>2, <1>3

(* A file that is closed takes its own objects with it and those of no     *)
(* other file.                                                             *)
LEMMA ClosePreserves ==
  ASSUME FilesInv, NEW fd \in FileNumbers, fclose(fd)
  PROVE  FilesInv'
<1>1. /\ pc = "idle" /\ UNCHANGED <<dirs, mounted, opens>>
      /\ fd \in OpenFiles /\ PrivateOf(fd) = Private(fd)
      /\ ItemOf(fd) = Item(fd) /\ Item(fd) \in Held
      /\ file_get_descriptor(fd) = file_descriptors[fd]
  BY GivenFileIs DEF fclose
<1>a. PICK own : own = {file_get_descriptor(fd)}
  OBVIOUS
<1>2. CASE ~(CanFree(heap, Item(fd)) /\ ~FreesStray(heap, Item(fd), own))
  <2>1. GoWild({})
    BY <1>1, <1>a, <1>2 DEF fclose
  <2>2. CASE ~CanFree(heap, Item(fd))
    <3>1. ~Loaded(heap, Item(fd))
      BY <2>2 DEF CanFree
    <3> QED
      BY <1>1, <2>1, <3>1, MissingItemPreserves
  <2>3. CASE FreesStray(heap, Item(fd), own)
    <3>1. call = NoCall
      BY <1>1 DEF FilesInv, CallInv
    <3> QED
      BY <1>1, <2>1, <2>3, <3>1, StrayPreserves
  <2> QED
    BY <1>2, <2>2, <2>3
<1>3. CASE CanFree(heap, Item(fd)) /\ ~FreesStray(heap, Item(fd), own)
  <2>0. PICK x, X : /\ x = Item(fd)
                    /\ X = ItemBlocks(heap, Item(fd))
                             \cup {Private(fd), file_descriptors[fd]}
    OBVIOUS
  <2>1. /\ heap' = kfree(heap, X)
        /\ file_descriptors' =
             [file_descriptors EXCEPT ![heap[file_descriptors[fd]].index] = 0]
        /\ result' = 0 /\ UNCHANGED <<call, pc, mishaps>>
    BY <1>1, <1>a, <1>3, <2>0 DEF fclose
  <2>2. /\ fd \in Slots
        /\ file_descriptors[fd] \in Blocks
        /\ heap[file_descriptors[fd]].kind = "open"
        /\ heap[file_descriptors[fd]].index = fd
        /\ Private(fd) \in Blocks /\ heap[Private(fd)].kind = "descriptor"
    BY <1>1, OpenFileIs
  <2>3. /\ x \in Held /\ CanFree(heap, x)
        /\ ItemBlocks(heap, x) \subseteq X
        /\ \A b \in X : \/ b \in ItemBlocks(heap, x)
                        \/ heap[b].kind \in {"open", "descriptor"}
    BY <1>1, <1>3, <2>0, <2>2
  <2>4. /\ Untouched(X) /\ DirsInv'
        /\ \A b \in Blocks : /\ b \in X => heap'[b] = Free
                             /\ b \notin X => heap'[b] = heap[b]
        /\ \A b \in Blocks \cap X : heap[b].kind \in FileKinds
        /\ Intact => Spared(Held \ {x}, X)
        /\ \A y \in Held \ {x} : y \notin X
    BY <1>1, <2>1, <2>3, FreeingStays
  <2>5. call = NoCall /\ call' = NoCall /\ pc' = "idle"
    BY <1>1, <2>1 DEF FilesInv, CallInv
  <2>6. /\ file_descriptors' \in [Slots -> Pointers]
        /\ \A s \in Slots \ {fd} : file_descriptors'[s] = file_descriptors[s]
        /\ OpenFiles' = OpenFiles \ {fd} /\ OpenFiles \subseteq Slots
    <3>1. file_descriptors \in [Slots -> Pointers] /\ 0 \in Pointers
      BY PointersAre DEF FilesInv, TypesInv
    <3>2. file_descriptors' = [file_descriptors EXCEPT ![fd] = 0]
      BY <2>1, <2>2
    <3>3. /\ file_descriptors' \in [Slots -> Pointers]
          /\ file_descriptors'[fd] = 0
          /\ \A s \in Slots \ {fd} : file_descriptors'[s] = file_descriptors[s]
      BY <2>2, <3>1, <3>2
    <3>4. OpenFiles' = OpenFiles \ {fd}
      BY <3>1, <3>3 DEF OpenFiles
    <3> QED
      BY <3>1, <3>3, <3>4 DEF OpenFiles
  <2>7. \A b \in X : \/ b = 0 \/ b = x
                     \/ b = Private(fd) \/ b = file_descriptors[fd]
                     \/ heap[b].kind \in {"file", "dir", "items"}
    <3>1. \A b \in ItemBlocks(heap, x) :
            \/ b = 0 \/ b = x
            \/ /\ b = heap[x].ref /\ b \in Blocks
               /\ heap[b].kind \in {"file", "dir"}
            \/ /\ heap[x].ref \in Blocks /\ heap[heap[x].ref].kind = "dir"
               /\ b = heap[heap[x].ref].items /\ b \in Blocks
               /\ heap[b].kind = "items"
      BY <2>3, ItemBlocksAre
    <3>2. \A b \in X : \/ b \in ItemBlocks(heap, x)
                       \/ b = Private(fd) \/ b = file_descriptors[fd]
      BY <2>0
    <3> QED
      BY <3>1, <3>2
  <2>8. ASSUME NEW o \in OpenFiles \ {fd}
        PROVE  /\ {file_descriptors[o], Private(o), Item(o)} \cap X = {}
               /\ Item(o) \in Held \ {x}
               /\ file_descriptors'[o] = file_descriptors[o]
    <3>1. /\ file_descriptors[o] \in Blocks
          /\ heap[file_descriptors[o]].kind = "open"
          /\ heap[file_descriptors[o]].index = o
          /\ Private(o) \in Blocks /\ heap[Private(o)].kind = "descriptor"
      BY OpenFileIs
    <3>2. Private(o) # Private(fd) /\ Item(o) # x
      BY <1>1, <2>0 DEF FilesInv, SlotsInv
    <3>3. heap[x].kind = "item"
      BY <2>3, HeldIs
    <3>4. file_descriptors[o] \notin X
      BY <2>2, <2>7, <3>1, <3>3, PointersAre
    <3>5. Private(o) \notin X
      BY <2>2, <2>7, <3>1, <3>2, <3>3, PointersAre
    <3>6. Item(o) \in Held \ {x}
      BY <3>2 DEF Held
    <3> QED
      BY <2>4, <2>6, <3>4, <3>5, <3>6
  <2>9. ASSUME NEW o \in OpenFiles \ {fd}
        PROVE  /\ Is(heap', file_descriptors'[o], "open")
               /\ heap'[file_descriptors'[o]].index = o
               /\ Is(heap', Private(o)', "descriptor")
               /\ Is(heap', Item(o)', "item")
               /\ Private(o)' = Private(o) /\ Item(o)' = Item(o)
    BY <2>4, <2>8, FileStays
  <2>10. SlotsInv'
    <3>1. \A o, other \in OpenFiles \ {fd} :
            o # other => Private(o)' # Private(other)'
                         /\ Item(o)' # Item(other)'
      BY <2>9 DEF FilesInv, SlotsInv
    <3> QED
      BY <2>6, <2>9, <3>1 DEF SlotsInv
  <2>11. Held' \subseteq Held \ {x}
    <3>1. call'.curr = 0 /\ call'.found = 0
      BY <2>5, NoCallIs
    <3>2. Held' = {Item(o)' : o \in OpenFiles'}
      BY <3>1 DEF Held
    <3>3. {Item(o)' : o \in OpenFiles'} = {Item(o) : o \in OpenFiles \ {fd}}
      BY <2>6, <2>9
    <3> QED
      BY <2>8, <3>2, <3>3
  <2>12. ItemsInv'
    <3> SUFFICES ASSUME Intact'
                 PROVE  /\ \A y \in Held' : Loaded(heap', y)
                        /\ Apart(heap', Held')
      BY <2>5 DEF ItemsInv
    <3>1. Intact
      BY <2>1, FailuresAre
    <3>2. PICK H : H = Held'
      OBVIOUS
    <3>3. Spared(H, X)
      BY <2>4, <2>11, <3>1, <3>2 DEF Spared
    <3>4. \A y \in H : Loaded(heap', y)
      BY <2>4, <3>1, <3>3, ItemsStay
    <3>5. Apart(heap', H)
      BY <2>4, <3>1, <3>3, ItemsStay
    <3> QED
      BY <3>2, <3>4, <3>5
  <2>13. PositionInFile'
    <3> SUFFICES ASSUME Intact', NEW o \in OpenFiles \ {fd}
                 PROVE  PositionSound(heap', Private(o)', Item(o)')
      BY <2>6 DEF PositionInFile, PositionSound, Private, Item
    <3>1. Intact
      BY <2>1, FailuresAre
    <3>2. heap[Item(o)].ref \notin X
      BY <2>4, <2>8, <3>1 DEF Spared
    <3> QED
      BY <2>4, <2>8, <3>1, <3>2, PositionStays
  <2>14. TypesInv'
    <3>1. heap' = [b \in Blocks |-> heap'[b]]
      BY <2>4 DEF Untouched
    <3>2. \A b \in Blocks : IsObject(heap'[b], dirs)
      BY <2>4, FreeIsObject DEF FilesInv, TypesInv
    <3>3. result' \in {Error} \cup 0..BENOS_MAX_FILE_DESCRIPTORS
      BY <2>1, CodesAre
    <3> QED
      BY <1>1, <2>1, <2>6, <3>1, <3>2, <3>3 DEF FilesInv, TypesInv
  <2>15. PathInv'
    <3>1. \A b \in Blocks :
            /\ heap[b].kind \in {"root", "part"} => heap'[b] = heap[b]
            /\ heap'[b].kind \in {"root", "part"} => heap'[b] = heap[b]
      BY <2>4, FreeIsObject DEF FileKinds
    <3>2. \A b \in Blocks :
            /\ heap'[b].kind = "root" =>
                 IsNullOr(heap', heap'[b].first, "part")
            /\ heap'[b].kind = "part" =>
                 IsNullOr(heap', heap'[b].next, "part")
      BY <3>1, PathStays
    <3> QED
      BY <2>5, <3>2, NoCallIs DEF PathInv, IsNullOr
  <2>16. CallInv'
    <3>1. ASSUME NEW o \in OpenFiles \ {fd}
          PROVE  Private(o)' # 0 /\ Item(o)' # 0
      BY <2>9 DEF Is
    <3> QED
      BY <2>5, <2>6, <3>1, NoCallIs DEF CallInv, IsNullOr
  <2>17. PositionInv'
    BY <2>5, <2>13, NoCallIs DEF PositionInv
  <2> QED
    BY <2>4, <2>10, <2>12, <2>14, <2>15, <2>16, <2>17 DEF FilesInv
<1> QED
  BY <1>2, <1>3

-----------------------------------------------------------------------------
(* The theorems. *)

(* At the start nothing is open and nothing allocated. *)
LEMMA InitFiles == Init => FilesInv
<1> SUFFICES ASSUME Init
             PROVE  FilesInv
  OBVIOUS
<1>1. /\ dirs \in Volumes /\ mounted = FALSE
      /\ heap = [b \in Blocks |-> Free]
      /\ file_descriptors = [fd \in Slots |-> 0]
      /\ call = NoCall /\ opens = 0 /\ pc = "boot" /\ result = 0
      /\ mishaps = {}
  BY DEF Init, Slots
<1>2. \A b \in Blocks : heap[b] = Free /\ heap[b].kind = "free"
  BY <1>1, FreeIsObject
<1>3. OpenFiles = {}
  BY <1>1 DEF OpenFiles
<1>4. Held = {}
  BY <1>1, <1>3, NoCallIs DEF Held
<1>5. TypesInv
  <2>1. heap = [b \in Blocks |-> heap[b]]
    BY <1>1
  <2>2. \A b \in Blocks : IsObject(heap[b], dirs)
    BY <1>2, FreeIsObject
  <2>3. file_descriptors \in [Slots -> Pointers]
    BY <1>1, PointersAre
  <2>4. 0 \in 0..MaxOpens
    BY FileSystemAssumption
  <2> QED
    BY <1>1, <2>1, <2>2, <2>3, <2>4, NoCallIs, NoCallTypes, CodesAre
       DEF TypesInv
<1>6. PathInv
  BY <1>1, <1>2, NoCallIs DEF PathInv, IsNullOr
<1>7. SlotsInv
  BY <1>3 DEF SlotsInv
<1>8. CallInv
  BY <1>1, <1>2, <1>3, NoCallIs DEF CallInv, IsNullOr
<1>9. DirsInv
  BY <1>2 DEF DirsInv
<1>10. ItemsInv
  BY <1>1, <1>4 DEF ItemsInv, Apart
<1>11. PositionInv
  BY <1>1, <1>3, NoCallIs DEF PositionInv, PositionInFile
<1> QED
  BY <1>5, <1>6, <1>7, <1>8, <1>9, <1>10, <1>11 DEF FilesInv

(* No step of the file system, in any order, breaks the invariant. *)
LEMMA StepsKeepFiles == FilesInv /\ [Next]_vars => FilesInv'
<1> SUFFICES ASSUME FilesInv, [Next]_vars
             PROVE  FilesInv'
  OBVIOUS
<1>1. CASE UNCHANGED vars
  <2>1. /\ dirs' = dirs /\ mounted' = mounted /\ heap' = heap
        /\ file_descriptors' = file_descriptors /\ call' = call
        /\ opens' = opens /\ pc' = pc /\ result' = result
        /\ mishaps' = mishaps
    BY <1>1 DEF vars
  <2>2. /\ SlotsInv' /\ DirsInv' /\ PositionInFile'
        /\ OpenFiles' = OpenFiles
        /\ \A fd \in OpenFiles : Private(fd)' = Private(fd)
                                 /\ Item(fd)' = Item(fd)
    BY <2>1, SameHeap, FailuresAre
  <2>3. TypesInv'
    BY <2>1 DEF FilesInv, TypesInv
  <2>4. PathInv'
    BY <2>1 DEF FilesInv, PathInv
  <2>5. CallInv'
    BY <2>1, <2>2 DEF FilesInv, CallInv
  <2>6. ItemsInv'
    <3>1. Held' = Held
      BY <2>1, <2>2 DEF Held
    <3>2. Intact' = Intact /\ StrayUsed' = StrayUsed
      BY <2>1 DEF Intact, StrayUsed, StrayTaken
    <3> QED
      BY <2>1, <3>1, <3>2 DEF FilesInv, ItemsInv
  <2>7. PositionInv'
    BY <2>1, <2>2 DEF FilesInv, PositionInv
  <2> QED
    BY <2>2, <2>3, <2>4, <2>5, <2>6, <2>7 DEF FilesInv
<1>2. CASE fat16_resolve
  BY <1>2, ResolvePreserves
<1>3. ASSUME NEW o \in Opens, fopen(o) \/ fopen_bad_path(o)
      PROVE  FilesInv'
  BY <1>3, FopenPreserves, RefusalsPreserve
<1>4. CASE FopenStep
  <2>1. CASE pathparser_create_root
    BY <2>1, CreateRootPreserves
  <2>2. CASE pathparser_parse_path_part
    BY <2>2, ParsePartPreserves
  <2>3. CASE pathparser_parse_end
    BY <2>3, ParseEndPreserves
  <2>4. CASE fopen_refused \/ file_table_full
    BY <2>4, RefusalsPreserve
  <2>5. CASE fat16_open
    BY <2>5, OpenPreserves
  <2>6. CASE find_no_match
    BY <2>6, NoMatchPreserves
  <2>7. CASE find_file
    BY <2>7, FindFilePreserves
  <2>8. CASE find_dir
    BY <2>8, FindDirPreserves
  <2>9. CASE find_end_root
    BY <2>9, EndRootPreserves
  <2>10. CASE find_end_dir
    BY <2>10, EndDirPreserves
  <2>11. CASE walk_done
    BY <2>11, WalkDonePreserves
  <2>12. CASE walk_null
    BY <2>12, WalkNullPreserves
  <2>13. CASE walk_through_file
    BY <2>13, WalkThroughFilePreserves
  <2>14. CASE walk_into_dir
    BY <2>14, WalkIntoDirPreserves
  <2>15. CASE file_new_descriptor
    BY <2>15, NewDescriptorPreserves
  <2>16. CASE find_dir_hangs
    BY <2>16, FindDirHangsPreserves
  <2> QED
    BY <1>4, <2>1, <2>2, <2>3, <2>4, <2>5, <2>6, <2>7, <2>8, <2>9, <2>10,
       <2>11, <2>12, <2>13, <2>14, <2>15, <2>16 DEF FopenStep
<1>5. ASSUME NEW fd \in FileNumbers, not_open(fd) \/ fread(fd) \/ fstat(fd)
      PROVE  FilesInv'
  BY <1>5, ReadPreserves
<1>6. ASSUME NEW fd \in FileNumbers, NEW offset \in Offsets,
             NEW whence \in {"SEEK_SET", "SEEK_CUR", "SEEK_END"},
             fseek(fd, offset, whence)
      PROVE  FilesInv'
  BY <1>6, SeekPreserves
<1>7. ASSUME NEW fd \in FileNumbers, fclose(fd)
      PROVE  FilesInv'
  BY <1>7, ClosePreserves
<1> QED
  BY <1>1, <1>2, <1>3, <1>4, <1>5, <1>6, <1>7 DEF Next
-----------------------------------------------------------------------------
(* What the invariant says about the table of open files. *)

(* As long as memory lasts and directories can be read, the objects of an  *)
(* open file are blocks, one of each sort: its kind says how a block is    *)
(* reached from the table.                                                 *)
LEMMA ObjectsAre ==
  ASSUME FilesInv, Intact,
         NEW fd \in OpenFiles, NEW b \in ObjectsOf(fd)
  PROVE  /\ b \in Blocks
         /\ \/ b = file_descriptors[fd] /\ heap[b].kind = "open"
            \/ b = Private(fd) /\ heap[b].kind = "descriptor"
            \/ b = Item(fd) /\ heap[b].kind = "item"
            \/ b = heap[Item(fd)].ref /\ heap[b].kind \in {"file", "dir"}
            \/ /\ heap[Item(fd)].ref \in Blocks
               /\ heap[heap[Item(fd)].ref].kind = "dir"
               /\ b = heap[heap[Item(fd)].ref].items
               /\ heap[b].kind = "items"
<1>1. Item(fd) \in Held
  BY DEF Held
<1>2. CanFree(heap, Item(fd)) /\ heap[Item(fd)].ref \in Blocks
  BY <1>1, HeldIs DEF FilesInv, ItemsInv, CanFree
<1>3. \/ b \in {file_descriptors[fd], Private(fd)}
      \/ b \in ItemBlocks(heap, Item(fd))
  BY DEF ObjectsOf, Private, Item
<1>4. CASE b \in {file_descriptors[fd], Private(fd)}
  <2>1. CASE b = file_descriptors[fd]
    BY <2>1, OpenFileIs, Zenon
  <2>2. CASE b = Private(fd)
    BY <2>2, OpenFileIs, Zenon
  <2> QED
    BY <1>4, <2>1, <2>2
<1>5. CASE b \in ItemBlocks(heap, Item(fd))
  <2>1. b # 0
    <3>1. Item(fd) \in Blocks
      BY OpenFileIs
    <3>2. \A c \in Blocks : c # 0
      BY PointersAre
    <3>3. CASE Is(heap, heap[Item(fd)].ref, "dir")
      BY <1>2, <1>5, <3>1, <3>2, <3>3 DEF ItemBlocks
    <3>4. CASE ~Is(heap, heap[Item(fd)].ref, "dir")
      BY <1>2, <1>5, <3>1, <3>2, <3>4 DEF ItemBlocks
    <3> QED
      BY <3>3, <3>4
  <2>2. \/ b = Item(fd)
        \/ /\ b = heap[Item(fd)].ref /\ b \in Blocks
           /\ heap[b].kind \in {"file", "dir"}
        \/ /\ heap[Item(fd)].ref \in Blocks
           /\ heap[heap[Item(fd)].ref].kind = "dir"
           /\ b = heap[heap[Item(fd)].ref].items /\ b \in Blocks
           /\ heap[b].kind = "items"
    BY <1>1, <1>2, <1>5, <2>1, ItemBlocksAre, Zenon
  <2>3. Item(fd) \in Blocks /\ heap[Item(fd)].kind = "item"
    BY OpenFileIs
  <2> QED
    BY <2>2, <2>3, Zenon
<1> QED
  BY <1>3, <1>4, <1>5

(* An object that is an item is that of the file. *)
LEMMA ItemsAre ==
  ASSUME FilesInv, Intact,
         NEW fd \in OpenFiles, NEW b \in ObjectsOf(fd),
         heap[b].kind = "item"
  PROVE  b = Item(fd)
BY ObjectsAre, ZenonT(60)

(* No object belongs to two open files. *)
LEMMA ObjectsDisjoint ==
  ASSUME FilesInv, Intact,
         NEW fd \in OpenFiles, NEW other \in OpenFiles, fd # other
  PROVE  ObjectsOf(fd) \cap ObjectsOf(other) = {}
<1> SUFFICES ASSUME NEW b \in ObjectsOf(fd), b \in ObjectsOf(other)
             PROVE  FALSE
  OBVIOUS
<1>1. CASE heap[b].kind = "open"
  <2>1. b = file_descriptors[fd] /\ b = file_descriptors[other]
    BY <1>1, ObjectsAre
  <2>2. heap[b].index = fd
    BY <2>1, OpenFileIs, Zenon
  <2>3. heap[b].index = other
    BY <2>1, OpenFileIs, Zenon
  <2> QED
    BY <2>2, <2>3
<1>2. CASE heap[b].kind = "descriptor"
  <2>1. b = Private(fd) /\ b = Private(other)
    BY <1>2, ObjectsAre
  <2> QED
    BY <2>1 DEF FilesInv, SlotsInv
<1>3. /\ Item(fd) \in Held /\ Item(other) \in Held
      /\ Item(fd) # Item(other)
  BY DEF Held, FilesInv, SlotsInv
<1>4. heap[Item(fd)].ref # heap[Item(other)].ref
  BY <1>3 DEF FilesInv, ItemsInv, Apart
<1>5. CASE heap[b].kind = "item"
  <2>1. b = Item(fd)
    BY <1>5, ItemsAre, Zenon
  <2>2. b = Item(other)
    BY <1>5, ItemsAre, Zenon
  <2> QED
    BY <2>1, <2>2, <1>3
<1>6. CASE heap[b].kind \in {"file", "dir"}
  <2>1. b = heap[Item(fd)].ref /\ b = heap[Item(other)].ref
    BY <1>6, ObjectsAre
  <2> QED
    BY <2>1, <1>4
<1>7. CASE heap[b].kind = "items"
  <2>1. PICK r, s : r = heap[Item(fd)].ref /\ s = heap[Item(other)].ref
    OBVIOUS
  <2>2. /\ r \in Blocks /\ heap[r].kind = "dir" /\ b = heap[r].items
        /\ s \in Blocks /\ heap[s].kind = "dir" /\ b = heap[s].items
    BY <1>7, <2>1, ObjectsAre
  <2>3. b # 0
    BY ObjectsAre, PointersAre
  <2> QED
    BY <1>4, <2>1, <2>2, <2>3 DEF FilesInv, DirsInv
<1> QED
  BY <1>1, <1>2, <1>5, <1>6, <1>7, ObjectsAre

(* Nor to an open file and the call of fopen that runs. *)
LEMMA CallDisjoint ==
  ASSUME FilesInv, Intact, NEW fd \in OpenFiles
  PROVE  {call.root, call.part, call.desc, call.curr, call.dir, call.found}
           \cap ObjectsOf(fd) = {}
<1> SUFFICES ASSUME NEW b \in ObjectsOf(fd)
             PROVE  b \notin {call.root, call.part, call.desc, call.curr,
                              call.dir, call.found}
  OBVIOUS
<1>1. b # 0 /\ heap[b].kind \notin {"root", "part", "free"}
  <2>1. /\ b \in Blocks
        /\ heap[b].kind \in {"open", "descriptor", "item", "file", "dir",
                            "items"}
    BY ObjectsAre
  <2> QED
    BY <2>1, PointersAre
<1>2. b # call.root /\ b # call.part
  BY <1>1 DEF FilesInv, PathInv, IsNullOr, Is
<1>3. b # call.desc
  <2>1. heap[b].kind = "descriptor" => b = Private(fd)
    BY ObjectsAre
  <2> QED
    BY <1>1, <2>1 DEF FilesInv, CallInv, IsNullOr, Is
<1>4. b # call.curr /\ b # call.found
  <2>1. heap[b].kind = "item" => b = Item(fd)
    BY ItemsAre
  <2>2. Item(fd) # call.curr /\ Item(fd) # call.found
    BY DEF FilesInv, CallInv
  <2>3. /\ call.curr = 0 \/ heap[call.curr].kind = "item"
        /\ call.found = 0 \/ heap[call.found].kind = "item"
    BY DEF FilesInv, CallInv, IsNullOr, Is
  <2>4. b # call.curr
    BY <1>1, <2>1, <2>2, <2>3, Zenon
  <2> QED
    BY <1>1, <2>1, <2>2, <2>3, <2>4, Zenon
<1>5. ASSUME b = call.dir PROVE FALSE
  <2>1. heap[b] # Free
    BY <1>1, FreeIsObject
  <2>2. pc \in {"boot", "idle", "root", "parts", "opening", "find", "walk",
                "descriptor", "wild"}
    BY DEF FilesInv, TypesInv
  <2>3. pc \in {"find", "wild"}
    BY <1>1, <1>5, <2>1, <2>2, NoCallIs DEF FilesInv, CallInv
  <2>4. call.curr # 0 /\ heap[call.curr].ref = b
    <3>1. CASE pc = "find"
      BY <1>1, <1>5, <3>1 DEF FilesInv, CallInv
    <3>2. CASE pc = "wild"
      BY <1>1, <1>5, <2>1, <3>2, NoCallIs DEF FilesInv, ItemsInv, StrayUsed
    <3> QED
      BY <2>3, <3>1, <3>2
  <2>6. /\ call.curr \in Held /\ Item(fd) \in Held
        /\ Item(fd) # call.curr
    BY <2>4 DEF Held, FilesInv, CallInv
  <2>7. heap[b].kind \in {"file", "dir"}
    BY <2>4, <2>6, HeldIs
  <2>8. b = heap[Item(fd)].ref
    BY <2>7, ObjectsAre
  <2> QED
    BY <2>4, <2>6, <2>8 DEF FilesInv, ItemsInv, Apart
<1> QED
  BY <1>2, <1>3, <1>4, <1>5

(* So the table is sound. *)
LEMMA InvTable == FilesInv => TableSound
<1> SUFFICES ASSUME FilesInv, Intact, NEW fd \in OpenFiles
             PROVE  /\ Is(heap, file_descriptors[fd], "open")
                    /\ heap[file_descriptors[fd]].index = fd
                    /\ Is(heap, Private(fd), "descriptor")
                    /\ Loaded(heap, Item(fd))
                    /\ \A other \in OpenFiles \ {fd} :
                         ObjectsOf(fd) \cap ObjectsOf(other) = {}
                    /\ {call.root, call.part, call.desc, call.curr, call.dir,
                        call.found} \cap ObjectsOf(fd) = {}
  BY Zenon DEF TableSound, Private, Item
<1>1. /\ Is(heap, file_descriptors[fd], "open")
      /\ heap[file_descriptors[fd]].index = fd
      /\ Is(heap, Private(fd), "descriptor")
  BY DEF FilesInv, SlotsInv
<1>2. Loaded(heap, Item(fd))
  BY DEF FilesInv, ItemsInv, Held
<1>3. \A other \in OpenFiles \ {fd} :
        ObjectsOf(fd) \cap ObjectsOf(other) = {}
  BY ObjectsDisjoint
<1> QED
  BY <1>1, <1>2, <1>3, CallDisjoint

(* And every variable has its type. *)
LEMMA InvTypes == FilesInv => TypeOK
<1> SUFFICES ASSUME FilesInv PROVE TypeOK
  OBVIOUS
<1>1. \A b \in Blocks : heap[b].kind \in Kinds
  BY DEF FilesInv, TypesInv, IsObject
<1>2. \A p \in {call.root, call.part, call.desc, call.curr, call.dir,
                call.found} : p \in 0..Memory
  BY CallPointers DEF Pointers
<1>3. file_descriptors \in [1..BENOS_MAX_FILE_DESCRIPTORS -> 0..Memory]
  BY DEF FilesInv, TypesInv, Slots, Pointers
<1> QED
  BY <1>1, <1>2, <1>3 DEF TypeOK, FilesInv, TypesInv, Kinds, Mishaps

-----------------------------------------------------------------------------
(* Theorems. *)

(***************************************************************************)
(* Who owns what: no order of calls of fopen, fread, fseek, fstat and      *)
(* fclose, whatever is found on the disk, whenever memory runs out or a    *)
(* directory cannot be read (fat16_load_fat_dir), breaks the ownership of  *)
(* the objects behind descriptors and paths, except that an item is left   *)
(* without what it is for by such a failure.                               *)
(***************************************************************************)
THEOREM FilesInvariant == Spec => []FilesInv
BY InitFiles, StepsKeepFiles, PTL DEF Spec

(***************************************************************************)
(* Every block of the heap holds an object of src/fs, and every pointer of *)
(* the table and of fopen is NULL or a block.                              *)
(***************************************************************************)
THEOREM FilesTypeCorrect == Spec => []TypeOK
BY FilesInvariant, InvTypes, PTL

(***************************************************************************)
(* Until an allocation or the read of a directory fails, each slot of      *)
(* file_descriptors leads to objects that have not been freed and that no  *)
(* other slot and no call leads to.                                        *)
(***************************************************************************)
THEOREM DescriptorsSound == Spec => []TableSound
BY FilesInvariant, InvTable, PTL

(***************************************************************************)
(* Without relative seeks (fat16_seek) the position is inside the file.    *)
(***************************************************************************)
THEOREM PositionsInFile == Spec => []PositionInFile
<1>1. FilesInv => PositionInFile
  BY DEF FilesInv, PositionInv
<1> QED
  BY <1>1, FilesInvariant, PTL

(***************************************************************************)
(* Until an allocation or the read of a directory fails, NULL, freed       *)
(* memory or that of another is used as an object only by a call of fopen  *)
(* that has not found what it looked for, and where an empty directory is  *)
(* freed when others have the memory that it never reserved: otherwise     *)
(* never by fread, fseek, fstat or fclose, and never by the search or by   *)
(* the release of a directory that was found.                              *)
(***************************************************************************)
OnlyMissingItemsHarm ==
  pc = "wild" => \/ ~Intact
                 \/ StrayTaken
                 \/ call # NoCall /\ call.curr = 0

(* It holds of every behaviour: walk_null, find_end_dir and fclose are the *)
(* only other ways there.                                                  *)
THEOREM GoesWildOnlyUnfound == Spec => []OnlyMissingItemsHarm
<1>1. FilesInv => OnlyMissingItemsHarm
  BY DEF FilesInv, ItemsInv, OnlyMissingItemsHarm, StrayUsed
<1> QED
  BY <1>1, FilesInvariant, PTL
-----------------------------------------------------------------------------
(* Nothing is lost but paths. *)

(* The blocks that descriptors of each sort are in.                        *)
Tables   == {file_descriptors[fd] : fd \in OpenFiles}
Privates == {Private(fd) : fd \in OpenFiles} \cup ({call.desc} \ {0})

(* An object of a file that is in the block b of the heap h is one of      *)
(* tables, privates or items, or one that an item of these leads to.        *)
InUse(h, b, tables, privates, items) ==
  /\ h[b].kind = "open" => b \in tables
  /\ h[b].kind = "descriptor" => b \in privates
  /\ h[b].kind = "item" => b \in items
  /\ h[b].kind \in {"file", "dir"} => \E x \in items : b = h[x].ref
  /\ h[b].kind = "items" => \E c \in Blocks : /\ h[c].kind = "dir"
                                              /\ b = h[c].items

Used(h, tables, privates, items) ==
  \A b \in Blocks : InUse(h, b, tables, privates, items)

(* Every object of a file has somebody who will free it. *)
Accounted == Used(heap, Tables, Privates, Held)

(* The parts of a path have their names. *)
Texts == \A b \in Blocks :
           heap[b].kind = "part" => /\ heap[b].name \in Blocks
                                    /\ heap[heap[b].name].kind = "name"

(* What a search has found, it has gone past. *)
Passed ==
  pc = "find" /\ call.found # 0 =>
    \E k \in DOMAIN dirs[Searched] :
      /\ k \in 1..(call.i - 1)
      /\ istrncmp_equal(fat16_get_full_relative_filename(dirs[Searched][k]),
                        heap[heap[call.part].name].text)

(* Between two calls there is no path.                                     *)
NoPath == pc = "idle" => \A b \in Blocks :
                           heap[b].kind \notin {"root", "name", "part"}

Kept == Accounted /\ Texts /\ Passed /\ NoPath

NothingLost == mishaps = {} /\ pc # "wild" => Kept

(* A block that both heaps have the same object in, or none of a file.     *)
LinksKept(h, g, b) ==
  /\ h[b].kind \in FileKinds \/ g[b].kind \in FileKinds =>
       g[b].kind = h[b].kind
  /\ h[b].kind = "item" => g[b].ref = h[b].ref
  /\ h[b].kind = "dir" => g[b].items = h[b].items

(* A step that frees or fills the blocks of X, and leaves nothing in use   *)
(* without the one that used it.                                           *)
Replaced(h, g, X, tables, privates, items, tables2, privates2, items2) ==
  /\ tables \ X \subseteq tables2
  /\ privates \ X \subseteq privates2
  /\ items \ X \subseteq items2
  /\ \A x \in items : /\ x \in Blocks /\ h[x].kind = "item"
                      /\ x \in X => h[x].ref \in X
  /\ \A c \in Blocks \cap X : h[c].kind = "dir" => h[c].items \in X \cup {0}
  /\ \A b \in Blocks \ X : LinksKept(h, g, b)
  /\ \A b \in Blocks \cap X : InUse(g, b, tables2, privates2, items2)

(* It leaves everything accounted for.                                     *)
LEMMA UsedStays ==
  ASSUME NEW h, NEW g, NEW X, NEW tables, NEW privates, NEW items,
         NEW tables2, NEW privates2, NEW items2,
         Used(h, tables, privates, items),
         Replaced(h, g, X, tables, privates, items,
                  tables2, privates2, items2)
  PROVE  Used(g, tables2, privates2, items2)
<1> SUFFICES ASSUME NEW b \in Blocks
             PROVE  InUse(g, b, tables2, privates2, items2)
  BY DEF Used
<1>1. CASE b \in X
  BY <1>1 DEF Replaced
<1>2. CASE b \notin X
  <2>1. LinksKept(h, g, b) /\ InUse(h, b, tables, privates, items)
    BY <1>2 DEF Replaced, Used
  <2>2. CASE g[b].kind = "open"
    <3>1. b \in tables
      BY <2>1, <2>2 DEF LinksKept, InUse, FileKinds
    <3> QED
      BY <1>2, <2>2, <3>1 DEF InUse, Replaced
  <2>3. CASE g[b].kind = "descriptor"
    <3>1. b \in privates
      BY <2>1, <2>3 DEF LinksKept, InUse, FileKinds
    <3> QED
      BY <1>2, <2>3, <3>1 DEF InUse, Replaced
  <2>4. CASE g[b].kind = "item"
    <3>1. b \in items
      BY <2>1, <2>4 DEF LinksKept, InUse, FileKinds
    <3> QED
      BY <1>2, <2>4, <3>1 DEF InUse, Replaced
  <2>5. CASE g[b].kind \in {"file", "dir"}
    <3>1. h[b].kind \in {"file", "dir"}
      BY <2>1, <2>5 DEF LinksKept, FileKinds
    <3>2. PICK x \in items : b = h[x].ref
      BY <2>1, <3>1 DEF InUse
    <3>3. x \in Blocks \ X /\ h[x].kind = "item" /\ x \in items2
      BY <1>2, <3>2 DEF Replaced
    <3>4. g[x].ref = b
      BY <3>2, <3>3 DEF Replaced, LinksKept
    <3> QED
      BY <2>5, <3>3, <3>4 DEF InUse
  <2>6. CASE g[b].kind = "items"
    <3>1. h[b].kind = "items"
      BY <2>1, <2>6 DEF LinksKept, FileKinds
    <3>2. PICK c \in Blocks : h[c].kind = "dir" /\ b = h[c].items
      BY <2>1, <3>1 DEF InUse
    <3>3. c \notin X
      BY <1>2, <3>2, PointersAre DEF Replaced
    <3>4. g[c].kind = "dir" /\ g[c].items = b
      BY <3>2, <3>3 DEF Replaced, LinksKept, FileKinds
    <3> QED
      BY <2>6, <3>4 DEF InUse
  <2> QED
    BY <2>2, <2>3, <2>4, <2>5, <2>6 DEF InUse
<1> QED
  BY <1>1, <1>2

(* Those that are freed are items.                                         *)
LEMMA HeldAre ==
  ASSUME FilesInv
  PROVE  \A x \in Held : x \in Blocks /\ heap[x].kind = "item"
BY HeldIs

(* A step that leaves all objects of files where they are, and who leads   *)
(* to them.                                                                *)
LEMMA LinksStay ==
  ASSUME FilesInv, Accounted,
         \A b \in Blocks : LinksKept(heap, heap', b),
         OpenFiles' = OpenFiles, file_descriptors' = file_descriptors,
         \A fd \in OpenFiles : Private(fd)' = Private(fd)
                               /\ Item(fd)' = Item(fd),
         call'.desc = call.desc,
         {call.curr, call.found} \subseteq {call'.curr, call'.found, 0}
  PROVE  Accounted'
<1>1. Tables' = Tables
  BY DEF Tables
<1>2. Privates' = Privates
  BY DEF Privates
<1>3. Held \subseteq Held'
  BY DEF Held
<1>4. Replaced(heap, heap', {}, Tables, Privates, Held,
               Tables', Privates', Held')
  BY <1>1, <1>2, <1>3, HeldAre DEF Replaced
<1> QED
  BY <1>4, UsedStays DEF Accounted

(* A path keeps its names when its objects stay.                          *)
LEMMA TextsStay ==
  ASSUME Kept, pc' = "idle" => pc = "idle",
         \A b \in Blocks :
           /\ heap[b].kind = "name" => heap'[b] = heap[b]
           /\ heap'[b].kind \in {"root", "name", "part"} =>
                heap'[b].kind = heap[b].kind
           /\ heap'[b].kind = "part" => heap'[b].name = heap[b].name
  PROVE  Texts' /\ NoPath'
<1>1. ASSUME NEW b \in Blocks, heap'[b].kind = "part"
      PROVE  heap'[b].name \in Blocks /\ heap'[heap'[b].name].kind = "name"
  BY <1>1 DEF Kept, Texts
<1>2. ASSUME pc' = "idle", NEW b \in Blocks
      PROVE  heap'[b].kind \notin {"root", "name", "part"}
  BY <1>2 DEF Kept, NoPath
<1> QED
  BY <1>1, <1>2 DEF Texts, NoPath

(* At the end of a call of fopen there is no path left.                    *)
LEMMA PathLost ==
  ASSUME NEW h, NEW r, Return(h, r)
  PROVE  Texts' /\ Passed' /\ NoPath'
<1>1. heap' = LosePath(h) /\ call' = NoCall /\ pc' = "idle"
  BY DEF Return
<1>2. \A b \in Blocks : heap'[b].kind \notin {"root", "name", "part"}
  BY <1>1, LosePathChanges
<1> QED
  BY <1>1, <1>2 DEF Texts, Passed, NoPath

(* A step that leaves the heap alone.                                      *)
LEMMA QuietKeeps ==
  ASSUME FilesInv, Kept, UNCHANGED <<heap, file_descriptors>>,
         call'.desc = call.desc,
         {call.curr, call.found} \subseteq {call'.curr, call'.found, 0},
         pc' = "idle" => pc = "idle", Passed'
  PROVE  Kept'
<1>1. /\ OpenFiles' = OpenFiles
      /\ \A fd \in OpenFiles : Private(fd)' = Private(fd)
                               /\ Item(fd)' = Item(fd)
  BY DEF OpenFiles, Private, Item
<1>2. \A b \in Blocks : LinksKept(heap, heap', b)
  BY DEF LinksKept
<1>3. Accounted'
  BY <1>1, <1>2, LinksStay DEF Kept
<1>4. Texts' /\ NoPath'
  BY TextsStay
<1> QED
  BY <1>3, <1>4 DEF Kept

(* A call of fopen that fails while it has no item.                        *)
LEMMA FailKeeps ==
  ASSUME FilesInv, Kept, call.curr = 0, call.found = 0,
         NEW h, h = kfree(heap, {call.desc}) \/ (h = heap /\ call.desc = 0),
         Return(h, 0), UNCHANGED file_descriptors
  PROVE  Kept'
<1>1. heap' = LosePath(h) /\ call' = NoCall
  BY DEF Return
<1>2. PICK X : X = {call.desc}
  OBVIOUS
<1>3. \A b \in Blocks : \/ h[b] = heap[b] /\ b \notin X
                        \/ h[b] = Free /\ b \in X
  <2>1. CASE h = heap /\ call.desc = 0
    BY <1>2, <2>1, PointersAre
  <2>2. CASE h = kfree(heap, {call.desc})
    BY <1>2, <2>2, KfreeChanges
  <2> QED
    BY <2>1, <2>2
<1>4. \A b \in Blocks :
        \/ heap'[b] = heap[b] /\ b \notin X
        \/ b \in X /\ heap'[b] = Free
        \/ /\ heap[b].kind \in {"root", "name", "part"} /\ b \notin X
           /\ heap'[b] = [kind |-> "path"]
  <2>1. \A b \in Blocks :
          /\ h[b].kind \notin {"root", "name", "part"} => heap'[b] = h[b]
          /\ h[b].kind \in {"root", "name", "part"} =>
               heap'[b] = [kind |-> "path"]
    BY <1>1, LosePathChanges
  <2> QED
    BY <1>3, <2>1, FreeIsObject
<1>5. Untouched(X)
  <2>1. heap' = [b \in Blocks |-> heap'[b]]
    BY <1>1, LosePathChanges
  <2> QED
    BY <1>4, <2>1 DEF Untouched, FileKinds
<1>6. \A x \in X : Is(heap, x, "descriptor") \/ x = 0
  BY <1>2 DEF FilesInv, CallInv, IsNullOr
<1>7. ASSUME NEW fd \in OpenFiles
      PROVE  {file_descriptors[fd], Private(fd), Item(fd)} \cap X = {}
  <2>1. Private(fd) # call.desc
    BY DEF FilesInv, CallInv
  <2>2. /\ heap[file_descriptors[fd]].kind = "open"
        /\ heap[Item(fd)].kind = "item"
        /\ file_descriptors[fd] \in Blocks /\ Item(fd) \in Blocks
    BY OpenFileIs
  <2> QED
    BY <1>2, <1>6, <2>1, <2>2, PointersAre DEF Is
<1>8. /\ OpenFiles' = OpenFiles
      /\ \A fd \in OpenFiles : Private(fd)' = Private(fd)
                               /\ Item(fd)' = Item(fd)
  BY <1>5, <1>7, OpenFilesStay
<1>9. Tables' = Tables
  BY <1>8 DEF Tables
<1>10. Privates \ X \subseteq Privates'
  BY <1>2, <1>8 DEF Privates
<1>11. Held \subseteq Held'
  BY <1>8 DEF Held
<1>12. \A b \in Blocks \ X : LinksKept(heap, heap', b)
  BY <1>4, FreeIsObject DEF LinksKept, FileKinds
<1>13. \A b \in Blocks \cap X : heap'[b] = Free /\ heap[b].kind = "descriptor"
  BY <1>4, <1>6, PointersAre DEF Is
<1>14. \A b \in Blocks \cap X : InUse(heap', b, Tables', Privates', Held')
  BY <1>13, FreeIsObject DEF InUse
<1>15. Replaced(heap, heap', X, Tables, Privates, Held,
                Tables', Privates', Held')
  BY <1>9, <1>10, <1>11, <1>12, <1>13, <1>14, HeldAre DEF Replaced
<1>16. Accounted'
  BY <1>15, UsedStays DEF Kept, Accounted
<1> QED
  BY <1>16, PathLost DEF Kept

(* At boot there are no files.                                             *)
LEMMA ResolveKeeps ==
  ASSUME FilesInv, fat16_resolve
  PROVE  Kept'
<1>1. /\ pc = "boot" /\ pc' = "idle"
      /\ \A b \in Blocks : \/ heap'[b] = [kind |-> "stream"]
                           \/ heap'[b] = [kind |-> "private"]
                           \/ heap'[b] = [kind |-> "root_dir"]
                           \/ heap'[b] = heap[b]
  BY DEF fat16_resolve
<1>2. \A b \in Blocks : heap[b] = Free
  BY <1>1 DEF FilesInv, CallInv
<1>3. ASSUME NEW b \in Blocks
      PROVE  heap'[b].kind \in {"free", "stream", "private", "root_dir"}
  <2>1. CASE heap'[b] = heap[b]
    BY <1>2, <2>1, FreeIsObject
  <2>2. CASE heap'[b] # heap[b]
    BY <1>1, <2>2
  <2> QED
    BY <2>1, <2>2
<1>4. Accounted'
  BY <1>3 DEF Accounted, Used, InUse
<1>5. Texts' /\ Passed' /\ NoPath'
  BY <1>1, <1>3 DEF Texts, Passed, NoPath
<1> QED
  BY <1>4, <1>5 DEF Kept

(* A call of fopen begins with nothing in its hands.                       *)
LEMMA FopenKeeps ==
  ASSUME FilesInv, Kept, NEW o \in Opens, fopen(o)
  PROVE  Kept'
<1>1. /\ pc = "idle" /\ pc' = "root" /\ UNCHANGED <<heap, file_descriptors>>
      /\ call' = [NoCall EXCEPT !.path = o.path, !.mode = o.mode,
                                !.rest = SubSeq(o.path, 4, Len(o.path))]
  BY DEF fopen
<1>2. call = NoCall
  BY <1>1 DEF FilesInv, CallInv
<1>3. call'.desc = call.desc /\ call.curr = 0 /\ call.found = 0
  BY <1>1, <1>2, NoCallIs DEF NoCall
<1>4. Passed'
  BY <1>1 DEF Passed
<1> QED
  BY <1>1, <1>3, <1>4, QuietKeeps

(* Paths that are refused at once, or when they are parsed.                *)
LEMMA RefusalsKeep ==
  ASSUME FilesInv, Kept, \/ \E o \in Opens : fopen_bad_path(o)
                         \/ fopen_refused
  PROVE  Kept'
<1>1. Return(heap, 0) /\ UNCHANGED file_descriptors /\ pc \in {"idle", "opening"}
  BY DEF fopen_bad_path, fopen_refused
<1>2. call.desc = 0 /\ call.curr = 0 /\ call.found = 0
  BY <1>1, NoCallIs DEF FilesInv, CallInv
<1> QED
  BY <1>1, <1>2, FailKeeps

(* The root of the path.                                                   *)
LEMMA CreateRootKeeps ==
  ASSUME FilesInv, Kept, pathparser_create_root, pc' # "wild"
  PROVE  Kept'
<1>1. PICK root \in {kzalloc({})} :
        IF root = 0 THEN GoWild({"no memory"})
        ELSE /\ heap' = Put(heap, root, [kind |-> "root", first |-> 0])
             /\ call' = [call EXCEPT !.root = root]
             /\ pc' = "parts"
             /\ UNCHANGED <<file_descriptors, result, mishaps>>
  BY DEF pathparser_create_root
<1>2. UNCHANGED dirs
  BY DEF pathparser_create_root
<1>3. /\ root # 0
      /\ heap' = Put(heap, root, [kind |-> "root", first |-> 0])
      /\ call' = [call EXCEPT !.root = root]
      /\ pc' = "parts"
      /\ UNCHANGED <<file_descriptors, mishaps>>
  BY <1>1 DEF GoWild
<1>4. root \in Blocks /\ heap[root] = Free
  BY <1>3, KzallocReturns
<1>5. /\ heap' = [b \in Blocks |-> heap'[b]]
      /\ \A b \in Blocks : b # root => heap'[b] = heap[b]
      /\ heap'[root] = [kind |-> "root", first |-> 0]
  BY <1>3, <1>4, PutChanges
<1>6. call'.desc = call.desc /\ call'.curr = call.curr /\ call'.found = call.found
  BY <1>3 DEF FilesInv, TypesInv, CallFields
<1>7. /\ Untouched({call.desc})
      /\ \A b \in Blocks : heap'[b].kind = "dir" => heap'[b] = heap[b]
  BY <1>4, <1>5, FreeIsObject DEF Untouched, FileKinds
<1>8. /\ OpenFiles' = OpenFiles
      /\ \A fd \in OpenFiles : Private(fd)' = Private(fd)
                               /\ Item(fd)' = Item(fd)
  BY <1>2, <1>3, <1>6, <1>7, Steady
<1>9. \A b \in Blocks : LinksKept(heap, heap', b)
  BY <1>4, <1>5, FreeIsObject DEF LinksKept, FileKinds
<1>10. Accounted'
  BY <1>3, <1>6, <1>8, <1>9, LinksStay DEF Kept
<1>11. Texts'
  BY <1>4, <1>5, FreeIsObject DEF Kept, Texts
<1>12. Passed' /\ NoPath'
  BY <1>3 DEF Passed, NoPath
<1> QED
  BY <1>10, <1>11, <1>12 DEF Kept

(* kzalloc returns NULL only when there is no free block.                  *)
LEMMA NullWhenFull ==
  ASSUME kzalloc({}) = 0, NEW b \in Blocks
  PROVE  heap[b] # Free
<1> DEFINE free == {c \in Blocks \ {} : heap[c] = Free}
<1> SUFFICES ASSUME free # {}
             PROVE  FALSE
  OBVIOUS
<1>1. PICK m \in free : \A c \in free : m <= c
  BY LeastElement, PointersAre
<1>2. kzalloc({}) = CHOOSE c \in free : \A d \in free : c <= d
  BY DEF kzalloc
<1>3. kzalloc({}) \in free
  BY <1>1, <1>2
<1> QED
  BY <1>3, PointersAre

(* A part of it.                                                           *)
LEMMA ParsePartKeeps ==
  ASSUME FilesInv, Kept, pathparser_parse_path_part, pc' # "wild"
  PROVE  Kept'
<1>0. pc = "parts" /\ UNCHANGED dirs
  BY DEF pathparser_parse_path_part
<1>n. PICK name \in {kzalloc({})} : \E part \in {kzalloc({name})} :
        IF part = 0 THEN GoWild({"no memory"})
        ELSE /\ heap' =
                  Link(Put(Put(heap, name,
                               [kind |-> "name",
                                text |-> SubSeq(call.rest, 1, PartLength)]),
                           part, [kind |-> "part", name |-> name, next |-> 0]),
                       part)
             /\ call' = [call EXCEPT
                           !.part = part,
                           !.rest = SubSeq(@, PartLength + 2, Len(@))]
             /\ UNCHANGED <<file_descriptors, pc, result, mishaps>>
  BY DEF pathparser_parse_path_part
<1>p. PICK part \in {kzalloc({name})} :
        IF part = 0 THEN GoWild({"no memory"})
        ELSE /\ heap' =
                  Link(Put(Put(heap, name,
                               [kind |-> "name",
                                text |-> SubSeq(call.rest, 1, PartLength)]),
                           part, [kind |-> "part", name |-> name, next |-> 0]),
                       part)
             /\ call' = [call EXCEPT
                           !.part = part,
                           !.rest = SubSeq(@, PartLength + 2, Len(@))]
             /\ UNCHANGED <<file_descriptors, pc, result, mishaps>>
  BY <1>n
<1>t. PICK text : text = SubSeq(call.rest, 1, PartLength)
  OBVIOUS
<1>1. /\ part # 0
      /\ heap' = Appended(name, part, text)
      /\ call' = [call EXCEPT !.part = part,
                              !.rest = SubSeq(@, PartLength + 2, Len(@))]
      /\ UNCHANGED <<file_descriptors, pc, mishaps>>
  BY <1>p, <1>t DEF Appended, GoWild
<1>2. part \in Blocks /\ part # name /\ heap[part] = Free
  BY <1>1, KzallocReturns
<1>3. name \in Blocks /\ heap[name] = Free
  <2>1. CASE name = 0
    BY <1>1, <1>2, <2>1, NullWhenFull
  <2>2. CASE name # 0
    BY <2>2, KzallocReturns
  <2> QED
    BY <2>1, <2>2
<1>a. name = 0 \/ (name \in Blocks /\ heap[name] = Free)
  BY <1>3
<1>4. /\ heap' = [b \in Blocks |-> heap'[b]]
      /\ heap'[part] = [kind |-> "part", name |-> name, next |-> 0]
      /\ \A b \in Blocks \ {part} :
           \/ b # name /\ heap'[b] = heap[b]
           \/ b = name /\ heap'[b] = [kind |-> "name", text |-> text]
           \/ /\ b = call.root /\ heap[b].kind = "root"
              /\ heap'[b] = [kind |-> "root", first |-> part]
           \/ /\ b = call.part /\ heap[b].kind = "part"
              /\ heap'[b] = [kind |-> "part", name |-> heap[b].name,
                             next |-> part]
  BY <1>0, <1>1, <1>2, <1>a, PartAppended
<1>5. call'.desc = call.desc /\ call'.curr = call.curr /\ call'.found = call.found
  BY <1>1 DEF FilesInv, TypesInv, CallFields
<1>6. \A b \in Blocks :
        /\ heap[b].kind \in FileKinds => heap'[b] = heap[b]
        /\ heap'[b].kind \in FileKinds => heap'[b] = heap[b]
        /\ heap[b].kind = "name" => heap'[b].kind = "name"
  BY <1>2, <1>3, <1>4, FreeIsObject DEF FileKinds
<1>7. /\ Untouched({call.desc})
      /\ \A b \in Blocks : heap'[b].kind = "dir" => heap'[b] = heap[b]
      /\ \A b \in Blocks : LinksKept(heap, heap', b)
  BY <1>4, <1>6 DEF Untouched, LinksKept, FileKinds
<1>8. /\ OpenFiles' = OpenFiles
      /\ \A fd \in OpenFiles : Private(fd)' = Private(fd)
                               /\ Item(fd)' = Item(fd)
  BY <1>0, <1>1, <1>5, <1>7, Steady
<1>9. Accounted'
  BY <1>1, <1>5, <1>7, <1>8, LinksStay DEF Kept
<1>10. heap'[name].kind = "name"
  BY <1>2, <1>3, <1>4, FreeIsObject
<1>11. Texts'
  <2>1. ASSUME NEW b \in Blocks, heap'[b].kind = "part"
        PROVE  heap'[b].name \in Blocks /\ heap'[heap'[b].name].kind = "name"
    <3>1. CASE b = part
      BY <1>3, <1>4, <1>10, <3>1
    <3>2. CASE b # part
      <4>1. heap[b].kind = "part" /\ heap'[b].name = heap[b].name
        BY <1>4, <2>1, <3>2
      <4> QED
        BY <1>6, <4>1 DEF Kept, Texts
    <3> QED
      BY <3>1, <3>2
  <2> QED
    BY <2>1 DEF Texts
<1>12. Passed' /\ NoPath'
  BY <1>0, <1>1 DEF Passed, NoPath
<1> QED
  BY <1>9, <1>11, <1>12 DEF Kept

(* The end of the path.                                                    *)
LEMMA ParseEndKeeps ==
  ASSUME FilesInv, Kept, pathparser_parse_end, pc' # "wild"
  PROVE  Kept'
<1>1. pc = "parts" /\ pc' = "opening" /\ UNCHANGED <<heap, file_descriptors, call>>
  BY DEF pathparser_parse_end, GoWild
<1>2. Passed'
  BY <1>1 DEF Passed
<1> QED
  BY <1>1, <1>2, QuietKeeps

(* The descriptor of the file system is the call's.                        *)
LEMMA OpenKeeps ==
  ASSUME FilesInv, Kept, fat16_open, mishaps' = {}
  PROVE  Kept'
<1>0. pc = "opening" /\ Openable /\ UNCHANGED <<dirs, file_descriptors>>
  BY DEF fat16_open
<1>1. PICK desc \in {kzalloc({})} :
        IF desc = 0
        THEN /\ Return(heap, 0)
             /\ mishaps' = mishaps \cup {"no memory"}
        ELSE /\ heap' = Put(heap, desc, [kind |-> "descriptor", item |-> 0,
                                         pos |-> 0, relative |-> FALSE])
             /\ call' = [call EXCEPT !.desc = desc, !.i = 1,
                                     !.part = heap[call.root].first]
             /\ pc' = "find"
             /\ UNCHANGED <<result, mishaps>>
  BY DEF fat16_open
<1>2. /\ desc # 0
      /\ heap' = Put(heap, desc, [kind |-> "descriptor", item |-> 0,
                                  pos |-> 0, relative |-> FALSE])
      /\ call' = [call EXCEPT !.desc = desc, !.i = 1,
                              !.part = heap[call.root].first]
      /\ pc' = "find"
      /\ UNCHANGED mishaps
  BY <1>1
<1>3. desc \in Blocks /\ heap[desc] = Free
  BY <1>2, KzallocReturns
<1>4. /\ heap' = [b \in Blocks |-> heap'[b]]
      /\ \A b \in Blocks : b # desc => heap'[b] = heap[b]
      /\ heap'[desc] = [kind |-> "descriptor", item |-> 0,
                        pos |-> 0, relative |-> FALSE]
  BY <1>2, <1>3, PutChanges
<1>5. /\ call'.desc = desc
      /\ call'.curr = call.curr /\ call'.found = call.found
  BY <1>2 DEF FilesInv, TypesInv, CallFields
<1>6. call.desc = 0 /\ call.found = 0
  BY <1>0 DEF FilesInv, CallInv
<1>7. /\ Untouched({call.desc})
      /\ \A b \in Blocks : heap'[b].kind = "dir" => heap'[b] = heap[b]
  BY <1>3, <1>4, FreeIsObject DEF Untouched, FileKinds
<1>8. /\ OpenFiles' = OpenFiles
      /\ \A fd \in OpenFiles : Private(fd)' = Private(fd)
                               /\ Item(fd)' = Item(fd)
  BY <1>0, <1>2, <1>5, <1>7, Steady
<1>9. PICK X : X = {desc}
  OBVIOUS
<1>10. Tables' = Tables
  BY <1>0, <1>8 DEF Tables
<1>11. Privates \subseteq Privates' /\ desc \in Privates'
  BY <1>2, <1>5, <1>6, <1>8 DEF Privates
<1>12. Held' = Held
  BY <1>5, <1>8 DEF Held
<1>13. \A b \in Blocks \ X : LinksKept(heap, heap', b)
  BY <1>4, <1>9 DEF LinksKept
<1>14. \A b \in Blocks \cap X :
         /\ heap[b].kind = "free"
         /\ InUse(heap', b, Tables', Privates', Held')
  BY <1>3, <1>4, <1>9, <1>11, FreeIsObject DEF InUse
<1>15. \A x \in Held : /\ x \in Blocks /\ heap[x].kind = "item"
                       /\ x \notin X
  BY <1>14, HeldAre
<1>16. Replaced(heap, heap', X, Tables, Privates, Held,
                Tables', Privates', Held')
  BY <1>10, <1>11, <1>12, <1>13, <1>14, <1>15 DEF Replaced
<1>17. Accounted'
  BY <1>16, UsedStays DEF Kept, Accounted
<1>18. Texts' /\ NoPath'
  BY <1>2, <1>3, <1>4, FreeIsObject, TextsStay
<1>19. Passed'
  BY <1>5, <1>6 DEF Passed
<1> QED
  BY <1>17, <1>18, <1>19 DEF Kept

(* The search goes past an entry.                                          *)
LEMMA NoMatchKeeps ==
  ASSUME FilesInv, Kept, find_no_match
  PROVE  Kept'
<1>1. /\ pc = "find" /\ call' = [call EXCEPT !.i = @ + 1]
      /\ UNCHANGED <<dirs, heap, file_descriptors, pc>>
  BY DEF find_no_match, Searching
<1>2. call.i \in Nat
  BY DEF FilesInv, TypesInv
<1>3. /\ call'.i = call.i + 1
      /\ \A f \in CallFields \ {"i"} : call'[f] = call[f]
  BY <1>1 DEF FilesInv, TypesInv, CallFields
<1>4. /\ call'.part = call.part /\ call'.desc = call.desc
      /\ call'.curr = call.curr /\ call'.dir = call.dir
      /\ call'.found = call.found
  BY <1>3 DEF CallFields
<1>5. Passed'
  <2>1. /\ Searched' = Searched /\ dirs' = dirs
        /\ heap'[heap'[call'.part].name].text = heap[heap[call.part].name].text
    BY <1>1, <1>4 DEF Searched
  <2>2. \A k : k \in 1..(call.i - 1) => k \in 1..(call'.i - 1)
    BY <1>2, <1>3
  <2>3. Passed
    BY DEF Kept
  <2>4. ASSUME call'.found # 0
        PROVE  \E k \in DOMAIN dirs'[Searched'] :
                 /\ k \in 1..(call'.i - 1)
                 /\ istrncmp_equal(
                      fat16_get_full_relative_filename(dirs'[Searched'][k]),
                      heap'[heap'[call'.part].name].text)
    BY <1>1, <1>4, <2>1, <2>2, <2>3, <2>4, Zenon DEF Passed
  <2> QED
    BY <2>4 DEF Passed
<1> QED
  BY <1>1, <1>4, <1>5, QuietKeeps

(* The search in the root directory ends.                                  *)
LEMMA EndRootKeeps ==
  ASSUME FilesInv, Kept, find_end_root
  PROVE  Kept'
<1>1. pc = "find" /\ call.curr = 0 /\ UNCHANGED file_descriptors
  BY DEF find_end_root, FilesInv, CallInv
<1>2. CASE call.found = 0
  <2>1. Return(kfree(heap, {call.desc}), 0)
    BY <1>2 DEF find_end_root, OpenFails
  <2> QED
    BY <1>1, <1>2, <2>1, FailKeeps
<1>3. CASE call.found # 0
  <2>1. /\ pc' = "walk" /\ call' = [call EXCEPT !.curr = call.found]
        /\ UNCHANGED heap
    BY <1>3 DEF find_end_root
  <2>2. /\ call'.curr = call.found /\ call'.desc = call.desc
        /\ call'.found = call.found
    BY <2>1 DEF FilesInv, TypesInv, CallFields
  <2>3. Passed'
    BY <2>1 DEF Passed
  <2> QED
    BY <1>1, <2>1, <2>2, <2>3, QuietKeeps
<1> QED
  BY <1>2, <1>3

(* The path ends, and the descriptor is given the item.                    *)
LEMMA WalkDoneKeeps ==
  ASSUME FilesInv, Kept, walk_done
  PROVE  Kept'
<1>0. /\ pc = "walk" /\ call.curr = call.found
      /\ UNCHANGED <<dirs, file_descriptors, mishaps>>
  BY DEF walk_done, FilesInv, CallInv
<1>1. CASE call.curr = 0
  <2>1. Return(kfree(heap, {call.desc}), 0)
    BY <1>1 DEF walk_done, OpenFails
  <2> QED
    BY <1>0, <1>1, <2>1, FailKeeps
<1>2. CASE call.curr # 0
  <2>1. /\ heap' = [heap EXCEPT ![call.desc].item = call.curr]
        /\ pc' = "descriptor" /\ UNCHANGED call
    BY <1>2 DEF walk_done
  <2>2. call.desc \in Blocks /\ heap[call.desc].kind = "descriptor"
    <3>1. call.desc # 0 /\ IsNullOr(heap, call.desc, "descriptor")
      BY <1>0 DEF FilesInv, CallInv
    <3> QED
      BY <3>1, CallPointers, PointersAre DEF IsNullOr, Is
  <2>3. PICK d : d = heap[call.desc]
    OBVIOUS
  <2>4. d = [kind |-> "descriptor", item |-> d.item, pos |-> d.pos,
             relative |-> d.relative]
    BY <2>2, <2>3 DEF FilesInv, TypesInv, IsObject
  <2>5. /\ heap' = [b \in Blocks |-> heap'[b]]
        /\ \A b \in Blocks : b # call.desc => heap'[b] = heap[b]
        /\ heap'[call.desc] = [d EXCEPT !.item = call.curr]
    BY <2>1, <2>2, <2>3 DEF FilesInv, TypesInv
  <2>6. heap'[call.desc].kind = "descriptor"
    BY <2>4, <2>5
  <2>7. /\ Untouched({call.desc})
        /\ \A b \in Blocks : heap'[b].kind = "dir" => heap'[b] = heap[b]
        /\ \A b \in Blocks : LinksKept(heap, heap', b)
    BY <2>2, <2>5, <2>6 DEF Untouched, LinksKept
  <2>8. /\ OpenFiles' = OpenFiles
        /\ \A fd \in OpenFiles : Private(fd)' = Private(fd)
                                 /\ Item(fd)' = Item(fd)
    BY <1>0, <2>1, <2>7, Steady
  <2>9. Accounted'
    BY <1>0, <2>1, <2>7, <2>8, LinksStay DEF Kept
  <2>10. Texts' /\ NoPath'
    BY <2>1, <2>2, <2>5, <2>6, TextsStay
  <2>11. Passed'
    BY <2>1 DEF Passed
  <2> QED
    BY <2>9, <2>10, <2>11 DEF Kept
<1> QED
  BY <1>1, <1>2

(* An item that was not found.                                             *)
LEMMA WalkNullKeeps ==
  ASSUME FilesInv, Kept, walk_null, pc' # "wild"
  PROVE  Kept'
<1>1. /\ Return(kfree(heap, {call.desc}), 0) /\ UNCHANGED file_descriptors
      /\ call.curr = 0 /\ pc = "walk"
  BY DEF walk_null, OpenFails, GoWild
<1>2. call.found = 0
  BY <1>1 DEF FilesInv, CallInv
<1> QED
  BY <1>1, <1>2, FailKeeps

(* The next search, for the next part.                                     *)
LEMMA WalkIntoDirKeeps ==
  ASSUME FilesInv, Kept, walk_into_dir, pc' # "wild"
  PROVE  Kept'
<1>1. /\ pc = "walk" /\ pc' = "find"
      /\ call' = [call EXCEPT !.part = NextPart, !.i = 1, !.found = 0,
                              !.dir = heap[call.curr].ref]
      /\ UNCHANGED <<heap, file_descriptors>>
  BY DEF walk_into_dir, GoWild
<1>2. call.curr = call.found
  BY <1>1 DEF FilesInv, CallInv
<1>3. call'.desc = call.desc /\ call'.curr = call.curr /\ call'.found = 0
  BY <1>1 DEF FilesInv, TypesInv, CallFields
<1>4. Passed'
  BY <1>3 DEF Passed
<1> QED
  BY <1>1, <1>2, <1>3, <1>4, QuietKeeps

(* Calls on open files that at most give an answer.                        *)
LEMMA ReadKeeps ==
  ASSUME FilesInv, Kept, NEW fd \in FileNumbers,
         not_open(fd) \/ fread(fd) \/ fstat(fd), pc' # "wild"
  PROVE  Kept'
<1>1. pc = "idle" /\ UNCHANGED <<heap, file_descriptors, call, pc>>
  BY DEF not_open, fread, fstat, GoWild
<1>2. Passed'
  BY <1>1 DEF Passed
<1> QED
  BY <1>1, <1>2, QuietKeeps

(* Until a directory longer than a cluster has been loaded the search sees *)
(* the entries that are on the disk.                                       *)
LEMMA SearchedIsThere ==
  ASSUME FilesInv, Searching, NoneLong
  PROVE  Entry = dirs[Searched][call.i]
<1>1. /\ call.i \in 1..Counted(dirs, Searched)
      /\ Counted(dirs, Searched) \in Nat
      /\ call.dir = 0 \/ call.i <= ClusterEntries =>
           Entry = dirs[Searched][call.i]
  BY EntryIs, CountedIs DEF FilesInv, TypesInv
<1>2. CASE call.dir # 0
  <2>1. /\ call.dir \in Blocks /\ heap[call.dir].kind = "dir"
        /\ Searched = heap[call.dir].id
    BY <1>2, CallPointers, PointersAre
       DEF Searching, Searched, FilesInv, CallInv, Is
  <2>2. Counted(dirs, Searched) <= ClusterEntries
    BY <2>1 DEF FilesInv, DirsInv
  <2> QED
    BY <1>1, <2>2, FileSystemAssumption
<1> QED
  BY <1>1, <1>2

(* The search finds nothing twice: what it had found before would have the *)
(* name of another entry.                                                  *)
LEMMA FoundOnce ==
  ASSUME FilesInv, Kept, UniqueNames, Searching, Matches, NoneLong
  PROVE  call.found = 0
<1> SUFFICES ASSUME call.found # 0
             PROVE  FALSE
  OBVIOUS
<1>1. /\ dirs \in Volumes /\ Searched \in DOMAIN dirs
      /\ call.i \in DOMAIN dirs[Searched] /\ call.i \in Nat
  BY EntryIs DEF FilesInv, TypesInv
<1>2. PICK d : d = Searched
  OBVIOUS
<1>3. PICK name : name = heap[heap[call.part].name].text
  OBVIOUS
<1>4. PICK k \in DOMAIN dirs[d] :
        /\ k \in 1..(call.i - 1)
        /\ istrncmp_equal(fat16_get_full_relative_filename(dirs[d][k]), name)
  BY <1>2, <1>3 DEF Searching, Kept, Passed
<1>5. k # call.i
  BY <1>1, <1>4
<1>6. PICK s : s = fat16_get_full_relative_filename(dirs[d][k])
  OBVIOUS
<1>7. PICK t : t = fat16_get_full_relative_filename(dirs[d][call.i])
  OBVIOUS
<1>8. istrncmp_equal(s, name) /\ istrncmp_equal(t, name)
  BY <1>2, <1>3, <1>4, <1>6, <1>7, SearchedIsThere DEF Matches
<1>9. \/ Len(s) # Len(t)
      \/ \E i \in DOMAIN s \cap DOMAIN t : tolower(s[i]) # tolower(t[i])
  BY <1>1, <1>2, <1>5, <1>6, <1>7 DEF UniqueNames
<1> QED
  BY <1>8, <1>9 DEF istrncmp_equal

(* The blocks of X are those of a new item.                                *)
NewItem(item, X) ==
  /\ item \in X
  /\ heap' = [b \in Blocks |-> heap'[b]]
  /\ \A b \in X : b \in Blocks /\ heap[b] = Free
  /\ \A b \in Blocks \ X : heap'[b] = heap[b]
  /\ \A b \in X :
       \/ b = item /\ heap'[b].kind = "item"
       \/ heap'[b].kind \in {"file", "dir"} /\ b = heap'[item].ref
       \/ /\ heap'[b].kind = "items"
          /\ \E c \in X : heap'[c].kind = "dir" /\ b = heap'[c].items

(* It is the call's.                                                       *)
LEMMA FoundKeeps ==
  ASSUME FilesInv, Kept, UniqueNames, Searching, Matches,
         NEW item, NEW X, NewItem(item, X),
         UNCHANGED <<dirs, file_descriptors, pc>>,
         NoneLong,
         call' = [call EXCEPT !.i = @ + 1, !.found = item,
                              !.astray = call'.astray]
  PROVE  Kept'
<1>1. call.found = 0
  BY FoundOnce
<1>2. /\ call'.i = call.i + 1 /\ call'.found = item
      /\ call'.part = call.part /\ call'.desc = call.desc
      /\ call'.curr = call.curr /\ call'.dir = call.dir
  BY DEF FilesInv, TypesInv, CallFields
<1>3. \A b \in X : b \in Blocks /\ b # 0 /\ heap[b].kind = "free"
  BY PointersAre, FreeIsObject DEF NewItem
<1>4. \A b \in Blocks \ X : heap'[b] = heap[b]
  BY DEF NewItem
<1>5. Untouched({})
  BY <1>3 DEF NewItem, Untouched, FileKinds
<1>6. PICK E : E = {}
  OBVIOUS
<1>7. \A fd \in OpenFiles :
        {file_descriptors[fd], Private(fd), Item(fd)} \cap E = {}
  BY <1>6
<1>8. /\ OpenFiles' = OpenFiles
      /\ \A fd \in OpenFiles : Private(fd)' = Private(fd)
                               /\ Item(fd)' = Item(fd)
  BY <1>5, <1>6, <1>7, OpenFilesStay
<1>9. Tables' = Tables /\ Privates' = Privates
  BY <1>2, <1>8 DEF Tables, Privates
<1>10. Held \subseteq Held' /\ item \in Held'
  <2>1. item # 0
    BY <1>3 DEF NewItem
  <2> QED
    BY <1>1, <1>2, <1>8, <2>1 DEF Held
<1>11. \A b \in Blocks \ X : LinksKept(heap, heap', b)
  BY <1>4 DEF LinksKept
<1>12. ASSUME NEW b \in X
       PROVE  InUse(heap', b, Tables', Privates', Held')
  <2>1. CASE b = item /\ heap'[b].kind = "item"
    BY <1>10, <2>1 DEF InUse
  <2>2. CASE heap'[b].kind \in {"file", "dir"} /\ b = heap'[item].ref
    BY <1>10, <2>2 DEF InUse
  <2>3. CASE /\ heap'[b].kind = "items"
             /\ \E c \in X : heap'[c].kind = "dir" /\ b = heap'[c].items
    <3>1. \E c \in Blocks : heap'[c].kind = "dir" /\ b = heap'[c].items
      BY <1>3, <2>3
    <3> QED
      BY <2>3, <3>1 DEF InUse
  <2> QED
    BY <2>1, <2>2, <2>3 DEF NewItem
<1>13. \A x \in Held : x \in Blocks /\ heap[x].kind = "item" /\ x \notin X
  BY <1>3, HeldAre
<1>14. Replaced(heap, heap', X, Tables, Privates, Held,
                Tables', Privates', Held')
  BY <1>3, <1>9, <1>10, <1>11, <1>12, <1>13 DEF Replaced
<1>15. Accounted'
  BY <1>14, UsedStays DEF Kept, Accounted
<1>16. Texts' /\ NoPath'
  <2>1. \A b \in X : heap'[b].kind \notin {"root", "name", "part"}
    BY DEF NewItem
  <2>2. \A b \in Blocks :
          /\ heap[b].kind = "name" => heap'[b] = heap[b]
          /\ heap'[b].kind \in {"root", "name", "part"} =>
               heap'[b].kind = heap[b].kind
          /\ heap'[b].kind = "part" => heap'[b].name = heap[b].name
    BY <1>3, <1>4, <2>1
  <2> QED
    BY <2>2, TextsStay
<1>17. Passed'
  <2>1. /\ pc = "find" /\ call.part \in Blocks /\ heap[call.part].kind = "part"
    BY CallPointers, PointersAre
       DEF Searching, FilesInv, PathInv, IsNullOr, Is
  <2>2. /\ heap[call.part].name \in Blocks
        /\ heap[heap[call.part].name].kind = "name"
    BY <2>1 DEF Kept, Texts
  <2>3. heap'[heap'[call'.part].name].text = heap[heap[call.part].name].text
    BY <1>2, <1>3, <1>4, <2>1, <2>2
  <2>4. Searched' = Searched
    <3>1. call.dir # 0 => call.dir \in Blocks /\ heap[call.dir].kind = "dir"
      BY <2>1, CallPointers, PointersAre DEF FilesInv, CallInv, Is
    <3> QED
      BY <1>2, <1>3, <1>4, <3>1 DEF Searched
  <2>5. /\ call.i \in DOMAIN dirs[Searched] /\ call.i \in 1..(call'.i - 1)
    <3>1. call.i \in Nat /\ call.i > 0
      <4>1. call.i \in Nat
        BY DEF FilesInv, TypesInv
      <4>2. call.i > 0
        BY <2>1 DEF FilesInv, CallInv
      <4> QED
        BY <4>1, <4>2
    <3>2. call.i \in 1..(call'.i - 1)
      BY <1>2, <3>1
    <3> QED
      BY <3>2, EntryIs
  <2>6. istrncmp_equal(
          fat16_get_full_relative_filename(dirs'[Searched'][call.i]),
          heap'[heap'[call'.part].name].text)
    BY <2>3, <2>4, SearchedIsThere DEF Matches
  <2> QED
    BY <2>4, <2>5, <2>6 DEF Passed
<1> QED
  BY <1>15, <1>16, <1>17 DEF Kept

(* A file.                                                                 *)
LEMMA FindFileKeeps ==
  ASSUME FilesInv, Kept, UniqueNames, find_file, mishaps' = {}
  PROVE  Kept'
<1>0. /\ Searching /\ Matches
      /\ UNCHANGED <<dirs, mounted, opens, file_descriptors, pc, result>>
  BY DEF find_file
<1>1. PICK item \in {kzalloc({})} : \E clone \in {kzalloc({item})} :
        /\ heap' = Put(Put(heap, item, [kind |-> "item", type |-> "file",
                                        ref |-> clone]),
                       clone, [kind |-> "file", entry |-> Entry])
        /\ Found(item, NoMemory({item, clone}))
  BY DEF find_file
<1>2. PICK clone \in {kzalloc({item})} :
        /\ heap' = Put(Put(heap, item, [kind |-> "item", type |-> "file",
                                        ref |-> clone]),
                       clone, [kind |-> "file", entry |-> Entry])
        /\ Found(item, NoMemory({item, clone}))
  BY <1>1
<1>3. item # 0 /\ clone # 0 /\ NoneLong
  BY <1>2 DEF Found, NoMemory, NoneLong
<1>4. /\ item \in Blocks /\ heap[item] = Free
      /\ clone \in Blocks /\ clone # item /\ heap[clone] = Free
  BY <1>3, KzallocReturns
<1>5. /\ heap' = [b \in Blocks |-> heap'[b]]
      /\ \A b \in Blocks \ {item, clone} : heap'[b] = heap[b]
      /\ heap'[item] = [kind |-> "item", type |-> "file", ref |-> clone]
      /\ heap'[clone] = [kind |-> "file", entry |-> Entry]
  BY <1>2, <1>4 DEF Put
<1>6. PICK X : X = {item, clone}
  OBVIOUS
<1>7. NewItem(item, X)
  BY <1>4, <1>5, <1>6 DEF NewItem
<1>8. call' = [call EXCEPT !.i = @ + 1, !.found = item, !.astray = call'.astray]
  BY <1>2 DEF Found, FilesInv, TypesInv, CallFields
<1> QED
  BY <1>0, <1>3, <1>7, <1>8, FoundKeeps

(* A directory.                                                            *)
LEMMA FindDirKeeps ==
  ASSUME FilesInv, Kept, UniqueNames, find_dir, mishaps' = {}
  PROVE  Kept'
<1>0. /\ Searching /\ Matches
      /\ UNCHANGED <<dirs, mounted, opens, file_descriptors, pc, result>>
  BY DEF find_dir
<1>1. PICK item, dir, items, object, whys :
        DirMade(item, dir, items, object, whys)
  BY DirIsMade, Zenon
<1>2. /\ item = 0 \/ (item \in Blocks /\ heap[item] = Free)
      /\ dir = 0 \/ (dir \in Blocks /\ dir # item /\ heap[dir] = Free)
      /\ items = 0 \/ (/\ items \in Blocks /\ items \notin {item, dir}
                       /\ heap[items] = Free)
      /\ heap' = [b \in Blocks |-> heap'[b]]
      /\ \A b \in Blocks \ {item, dir, items} : heap'[b] = heap[b]
      /\ item # 0 => heap'[item] = [kind |-> "item", type |-> "dir",
                                    ref |-> dir]
      /\ items # 0 => heap'[items] = [kind |-> "items"]
      /\ dir # 0 => heap'[dir] = object
  BY <1>1, Zenon DEF DirMade
<1>3. /\ object = Free \/ (object.kind = "dir" /\ object.items = items)
      /\ whys \in SUBSET Mishaps /\ Found(item, whys)
      /\ item = 0 \/ dir = 0 \/ object = Free =>
           "no memory" \in whys \/ "not read" \in whys
  BY <1>1, Zenon DEF DirMade, IsLoaded
<1>4. /\ mishaps \subseteq mishaps' /\ whys \subseteq mishaps'
      /\ call' = [call EXCEPT !.i = @ + 1, !.found = item,
                              !.astray = call'.astray]
  BY <1>3, FoundIs
<1>5. /\ item # 0 /\ dir # 0
      /\ object.kind = "dir" /\ object.items = items
  BY <1>3, <1>4
<1>6. PICK X : X = {item, dir} \cup ({items} \ {0})
  OBVIOUS
<1>7. NewItem(item, X)
  <2>1. \A b \in X : b \in Blocks /\ heap[b] = Free
    BY <1>2, <1>5, <1>6
  <2>2. /\ heap'[item].kind = "item" /\ heap'[item].ref = dir
        /\ heap'[dir].kind = "dir" /\ heap'[dir].items = items
        /\ items # 0 => heap'[items].kind = "items"
    BY <1>2, <1>5
  <2>3. ASSUME NEW b \in X
        PROVE  \/ b = item /\ heap'[b].kind = "item"
               \/ heap'[b].kind \in {"file", "dir"} /\ b = heap'[item].ref
               \/ /\ heap'[b].kind = "items"
                  /\ \E c \in X : heap'[c].kind = "dir" /\ b = heap'[c].items
    BY <1>6, <2>2
  <2>4. /\ heap' = [b \in Blocks |-> heap'[b]]
        /\ \A b \in Blocks \ X : heap'[b] = heap[b]
    BY <1>2, <1>6, PointersAre
  <2> QED
    BY <1>6, <2>1, <2>3, <2>4 DEF NewItem
<1>8. NoneLong
  BY <1>4 DEF NoneLong
<1> QED
  BY <1>0, <1>4, <1>7, <1>8, FoundKeeps

(* An item that is freed takes with it what only it led to.                *)
LEMMA FreeingKeeps ==
  ASSUME FilesInv, Kept, NEW x \in Held, CanFree(heap, x),
         NEW X, ItemBlocks(heap, x) \subseteq X,
         \A b \in X : \/ b \in ItemBlocks(heap, x)
                      \/ heap[b].kind \in {"open", "descriptor"},
         heap' = kfree(heap, X), UNCHANGED <<dirs, mishaps>>,
         Tables \ X \subseteq Tables', Privates \ X \subseteq Privates',
         Held \ X \subseteq Held', pc' = "idle" => pc = "idle"
  PROVE  Accounted' /\ Texts' /\ NoPath'
<1>1. /\ \A b \in Blocks : /\ b \in X => heap'[b] = Free
                           /\ b \notin X => heap'[b] = heap[b]
      /\ \A b \in Blocks \cap X : heap[b].kind \in FileKinds
      /\ \A y \in Held \ {x} : y \notin X
  BY FreeingStays
<1>2. /\ x \in ItemBlocks(heap, x) /\ heap[x].ref \in ItemBlocks(heap, x)
      /\ \A b \in ItemBlocks(heap, x) :
           \/ b = 0 \/ b = x
           \/ /\ b = heap[x].ref /\ b \in Blocks
              /\ heap[b].kind \in {"file", "dir"}
           \/ /\ heap[x].ref \in Blocks /\ heap[heap[x].ref].kind = "dir"
              /\ b = heap[heap[x].ref].items /\ b \in Blocks
              /\ heap[b].kind = "items"
  BY ItemBlocksAre
<1>3. \A y \in Held : /\ y \in Blocks /\ heap[y].kind = "item"
                      /\ y \in X => heap[y].ref \in X
  BY <1>1, <1>2, HeldAre
<1>4. ASSUME NEW c \in Blocks \cap X, heap[c].kind = "dir"
      PROVE  heap[c].items \in X \cup {0}
  <2>1. c = heap[x].ref /\ c # 0
    BY <1>2, <1>3, <1>4, PointersAre
  <2>2. heap[c].items \in ItemBlocks(heap, x) \cup {0}
    BY <1>4, <2>1 DEF ItemBlocks, Is
  <2> QED
    BY <2>2
<1>5. \A b \in Blocks \ X : LinksKept(heap, heap', b)
  BY <1>1 DEF LinksKept
<1>6. \A b \in Blocks \cap X : InUse(heap', b, Tables', Privates', Held')
  BY <1>1, FreeIsObject DEF InUse
<1>7. Replaced(heap, heap', X, Tables, Privates, Held,
               Tables', Privates', Held')
  BY <1>3, <1>4, <1>5, <1>6 DEF Replaced
<1>8. Accounted'
  BY <1>7, UsedStays DEF Kept, Accounted
<1>9. \A b \in Blocks :
        /\ heap[b].kind = "name" => heap'[b] = heap[b]
        /\ heap'[b].kind \in {"root", "name", "part"} =>
             heap'[b].kind = heap[b].kind
        /\ heap'[b].kind = "part" => heap'[b].name = heap[b].name
  BY <1>1, FreeIsObject DEF FileKinds
<1> QED
  BY <1>8, <1>9, TextsStay

(* The directory that was searched.                                        *)
LEMMA EndDirKeeps ==
  ASSUME FilesInv, Kept, find_end_dir, pc' # "wild"
  PROVE  Kept'
<1>0. pc = "find" /\ call.dir # 0
  BY DEF find_end_dir
<1>1. call.curr # 0 /\ call.curr # call.found
  BY <1>0 DEF FilesInv, CallInv
<1>2. /\ CanFree(heap, call.curr)
      /\ heap' = kfree(heap, ItemBlocks(heap, call.curr))
      /\ pc' = "walk"
      /\ call' = [call EXCEPT !.curr = call.found]
      /\ UNCHANGED <<dirs, mishaps, file_descriptors>>
  BY DEF find_end_dir, GoWild
<1>3. PICK x, X : x = call.curr /\ X = ItemBlocks(heap, call.curr)
  OBVIOUS
<1>4. /\ x \in Held /\ CanFree(heap, x)
      /\ ItemBlocks(heap, x) \subseteq X /\ X \subseteq ItemBlocks(heap, x)
      /\ heap' = kfree(heap, X)
  BY <1>1, <1>2, <1>3 DEF Held
<1>5. /\ Untouched(X)
      /\ \A y \in Held \ {x} : y \notin X
  BY <1>2, <1>4, FreeingStays
<1>6. \A b \in X : b = 0 \/ heap[b].kind \in {"item", "file", "dir", "items"}
  <2>1. \A b \in X :
          \/ b = 0 \/ b = x
          \/ /\ b = heap[x].ref /\ b \in Blocks
             /\ heap[b].kind \in {"file", "dir"}
          \/ /\ heap[x].ref \in Blocks /\ heap[heap[x].ref].kind = "dir"
             /\ b = heap[heap[x].ref].items /\ b \in Blocks
             /\ heap[b].kind = "items"
    BY <1>4, ItemBlocksAre
  <2> QED
    BY <1>4, <2>1, HeldAre
<1>7. ASSUME NEW fd \in OpenFiles
      PROVE  {file_descriptors[fd], Private(fd), Item(fd)} \cap X = {}
  <2>1. Item(fd) \in Held /\ Item(fd) # x
    BY <1>3 DEF Held, FilesInv, CallInv
  <2>2. /\ file_descriptors[fd] \in Blocks /\ Private(fd) \in Blocks
        /\ heap[file_descriptors[fd]].kind = "open"
        /\ heap[Private(fd)].kind = "descriptor"
    BY OpenFileIs
  <2> QED
    BY <1>5, <1>6, <2>1, <2>2, PointersAre
<1>8. /\ OpenFiles' = OpenFiles
      /\ \A fd \in OpenFiles : Private(fd)' = Private(fd)
                               /\ Item(fd)' = Item(fd)
  BY <1>2, <1>5, <1>7, OpenFilesStay
<1>9. /\ call'.curr = call.found /\ call'.desc = call.desc
      /\ call'.found = call.found
  BY <1>2 DEF FilesInv, TypesInv, CallFields
<1>10. Tables' = Tables /\ Privates' = Privates
  BY <1>2, <1>8, <1>9 DEF Tables, Privates
<1>11. Held \ X \subseteq Held'
  <2>1. x \in X
    BY <1>4, ItemBlocksAre
  <2> QED
    BY <1>3, <1>8, <1>9, <2>1 DEF Held
<1>12. Accounted' /\ Texts' /\ NoPath'
  BY <1>2, <1>4, <1>10, <1>11, FreeingKeeps
<1>13. Passed'
  BY <1>2 DEF Passed
<1> QED
  BY <1>12, <1>13 DEF Kept

(* fclose frees all that was behind the descriptor.                        *)
LEMMA CloseKeeps ==
  ASSUME FilesInv, Kept, NEW fd \in FileNumbers, fclose(fd), pc' # "wild"
  PROVE  Kept'
<1>1. /\ pc = "idle"
      /\ fd \in OpenFiles /\ PrivateOf(fd) = Private(fd)
      /\ ItemOf(fd) = Item(fd) /\ Item(fd) \in Held
      /\ file_get_descriptor(fd) = file_descriptors[fd]
  BY GivenFileIs DEF fclose
<1>2. PICK x, X : /\ x = Item(fd)
                  /\ X = ItemBlocks(heap, Item(fd))
                           \cup {Private(fd), file_descriptors[fd]}
  OBVIOUS
<1>3. /\ CanFree(heap, x)
      /\ heap' = kfree(heap, X)
      /\ file_descriptors' =
           [file_descriptors EXCEPT ![heap[file_descriptors[fd]].index] = 0]
      /\ UNCHANGED <<dirs, mishaps, call, pc>>
  BY <1>1, <1>2 DEF fclose, GoWild
<1>4. /\ fd \in Slots
      /\ file_descriptors[fd] \in Blocks
      /\ heap[file_descriptors[fd]].kind = "open"
      /\ heap[file_descriptors[fd]].index = fd
      /\ Private(fd) \in Blocks /\ heap[Private(fd)].kind = "descriptor"
  BY <1>1, OpenFileIs
<1>5. /\ x \in Held /\ ItemBlocks(heap, x) \subseteq X
      /\ {x, Private(fd), file_descriptors[fd]} \subseteq X
      /\ \A b \in X : \/ b \in ItemBlocks(heap, x)
                      \/ b = Private(fd) \/ b = file_descriptors[fd]
      /\ \A b \in X : \/ b \in ItemBlocks(heap, x)
                      \/ heap[b].kind \in {"open", "descriptor"}
  BY <1>1, <1>2, <1>3, <1>4, ItemBlocksAre
<1>6. /\ Untouched(X)
      /\ \A y \in Held \ {x} : y \notin X
  BY <1>3, <1>5, FreeingStays
<1>7. /\ \A s \in Slots \ {fd} : file_descriptors'[s] = file_descriptors[s]
      /\ OpenFiles' = OpenFiles \ {fd} /\ OpenFiles \subseteq Slots
  <2>1. file_descriptors \in [Slots -> Pointers] /\ 0 \in Pointers
    BY PointersAre DEF FilesInv, TypesInv
  <2>2. file_descriptors' = [file_descriptors EXCEPT ![fd] = 0]
    BY <1>3, <1>4
  <2>3. /\ file_descriptors' \in [Slots -> Pointers]
        /\ file_descriptors'[fd] = 0
        /\ \A s \in Slots \ {fd} : file_descriptors'[s] = file_descriptors[s]
    BY <1>4, <2>1, <2>2
  <2>4. OpenFiles' = OpenFiles \ {fd}
    BY <2>1, <2>3 DEF OpenFiles
  <2> QED
    BY <2>1, <2>3, <2>4 DEF OpenFiles
<1>8. \A b \in X : \/ b = 0 \/ b = x
                   \/ b = Private(fd) \/ b = file_descriptors[fd]
                   \/ heap[b].kind \in {"file", "dir", "items"}
  <2>1. \A b \in ItemBlocks(heap, x) :
          \/ b = 0 \/ b = x
          \/ /\ b = heap[x].ref /\ b \in Blocks
             /\ heap[b].kind \in {"file", "dir"}
          \/ /\ heap[x].ref \in Blocks /\ heap[heap[x].ref].kind = "dir"
             /\ b = heap[heap[x].ref].items /\ b \in Blocks
             /\ heap[b].kind = "items"
    BY <1>3, <1>5, ItemBlocksAre
  <2> QED
    BY <1>5, <2>1
<1>9. ASSUME NEW o \in OpenFiles \ {fd}
      PROVE  /\ {file_descriptors[o], Private(o), Item(o)} \cap X = {}
             /\ file_descriptors'[o] = file_descriptors[o]
  <2>1. /\ file_descriptors[o] \in Blocks
        /\ heap[file_descriptors[o]].kind = "open"
        /\ heap[file_descriptors[o]].index = o
        /\ Private(o) \in Blocks /\ heap[Private(o)].kind = "descriptor"
    BY OpenFileIs
  <2>2. Private(o) # Private(fd) /\ Item(o) # x
    BY <1>1, <1>2 DEF FilesInv, SlotsInv
  <2>3. heap[x].kind = "item"
    BY <1>5, HeldIs
  <2>4. file_descriptors[o] \notin X
    BY <1>4, <1>8, <2>1, <2>3, PointersAre
  <2>5. Private(o) \notin X
    BY <1>4, <1>8, <2>1, <2>2, <2>3, PointersAre
  <2>6. Item(o) \in Held \ {x}
    BY <2>2 DEF Held
  <2> QED
    BY <1>6, <1>7, <2>4, <2>5, <2>6
<1>10. \A o \in OpenFiles \ {fd} : /\ Private(o)' = Private(o)
                                   /\ Item(o)' = Item(o)
                                   /\ file_descriptors'[o] = file_descriptors[o]
  BY <1>6, <1>9, FileStays
<1>11. Tables \ X \subseteq Tables'
  BY <1>5, <1>7, <1>10 DEF Tables
<1>12. Privates \ X \subseteq Privates'
  BY <1>3, <1>5, <1>7, <1>10 DEF Privates
<1>13. Held \ X \subseteq Held'
  BY <1>2, <1>3, <1>5, <1>7, <1>10 DEF Held
<1>14. Accounted' /\ Texts' /\ NoPath'
  BY <1>1, <1>3, <1>5, <1>11, <1>12, <1>13, FreeingKeeps
<1>15. Passed'
  BY <1>1, <1>3 DEF Passed
<1> QED
  BY <1>14, <1>15 DEF Kept

(* The new open file takes over what the call of fopen held.               *)
LEMMA NewDescriptorKeeps ==
  ASSUME FilesInv, Kept, file_new_descriptor, pc' # "wild"
  PROVE  Kept'
<1>0. pc = "descriptor"
  BY DEF file_new_descriptor
<1>1. PICK fd \in FreeSlots, desc \in {kzalloc({})} :
        IF desc = 0 THEN GoWild({"no memory"})
        ELSE /\ Return(Put(heap, desc, [kind |-> "open", index |-> fd,
                                        private_data |-> call.desc]), fd)
             /\ file_descriptors' = [file_descriptors EXCEPT ![fd] = desc]
             /\ UNCHANGED mishaps
  BY DEF file_new_descriptor
<1>2. PICK g : g = Put(heap, desc, [kind |-> "open", index |-> fd,
                                    private_data |-> call.desc])
  OBVIOUS
<1>3. /\ desc # 0 /\ Return(g, fd)
      /\ file_descriptors' = [file_descriptors EXCEPT ![fd] = desc]
  BY <1>1, <1>2 DEF GoWild
<1>4. desc \in Blocks /\ heap[desc] = Free
  BY <1>3, KzallocReturns
<1>5. /\ heap' = [b \in Blocks |-> heap'[b]]
      /\ heap'[desc] = [kind |-> "open", index |-> fd,
                        private_data |-> call.desc]
      /\ \A b \in Blocks \ {desc} :
           \/ heap'[b] = heap[b]
           \/ /\ heap[b].kind \in {"root", "name", "part"}
              /\ heap'[b] = [kind |-> "path"]
  <2>1. /\ \A b \in Blocks : b # desc => g[b] = heap[b]
        /\ g[desc] = [kind |-> "open", index |-> fd,
                      private_data |-> call.desc]
    BY <1>2, <1>4, PutChanges
  <2>2. /\ heap' = [b \in Blocks |-> heap'[b]]
        /\ \A b \in Blocks : g[b].kind \notin {"root", "name", "part"} =>
                               heap'[b] = g[b]
        /\ \A b \in Blocks : g[b].kind \in {"root", "name", "part"} =>
                               heap'[b] = [kind |-> "path"]
    BY <1>3, LosePathChanges DEF Return
  <2>3. g[desc].kind = "open"
    BY <2>1
  <2> QED
    BY <1>4, <2>1, <2>2, <2>3
<1>6. Untouched({})
  BY <1>4, <1>5, FreeIsObject DEF Untouched, FileKinds
<1>7. /\ fd \in Slots /\ file_descriptors'[fd] = desc
      /\ \A other \in OpenFiles :
           file_descriptors'[other] = file_descriptors[other]
      /\ OpenFiles' = OpenFiles \cup {fd}
  <2>1. file_descriptors \in [Slots -> Pointers] /\ fd \in Slots
    BY DEF FilesInv, TypesInv, FreeSlots, Slots
  <2>2. fd \notin OpenFiles /\ OpenFiles \subseteq Slots
    BY <2>1 DEF FreeSlots, OpenFiles
  <2>3. /\ file_descriptors'[fd] = desc
        /\ DOMAIN file_descriptors' = Slots
        /\ \A s \in Slots \ {fd} : file_descriptors'[s] = file_descriptors[s]
    BY <1>3, <2>1
  <2>4. OpenFiles' = OpenFiles \cup {fd}
    BY <1>3, <2>1, <2>3 DEF OpenFiles
  <2> QED
    BY <2>1, <2>2, <2>3, <2>4
<1>8. \A o \in OpenFiles : Private(o)' = Private(o) /\ Item(o)' = Item(o)
  BY <1>6, <1>7, FileStays
<1>9. /\ call.curr = call.found /\ heap[call.desc].item = call.curr
      /\ call.desc \in Blocks /\ heap[call.desc].kind = "descriptor"
  <2>1. /\ call.desc # 0 /\ call.curr = call.found
        /\ heap[call.desc].item = call.curr
        /\ IsNullOr(heap, call.desc, "descriptor")
    BY <1>0 DEF FilesInv, CallInv
  <2> QED
    BY <2>1, CallPointers, PointersAre DEF IsNullOr, Is
<1>10. Private(fd)' = call.desc /\ Item(fd)' = call.curr
  <2>1. heap'[call.desc] = heap[call.desc]
    BY <1>6, <1>9 DEF Untouched, FileKinds
  <2>2. Private(fd)' = call.desc
    BY <1>5, <1>7 DEF Private
  <2> QED
    BY <1>9, <2>1, <2>2 DEF Item
<1>11. Tables \subseteq Tables' /\ desc \in Tables'
  BY <1>7 DEF Tables
<1>12. Privates \subseteq Privates'
  BY <1>7, <1>8, <1>10 DEF Privates
<1>13. Held \subseteq Held'
  BY <1>7, <1>8, <1>9, <1>10 DEF Held
<1>14. PICK X : X = {desc}
  OBVIOUS
<1>15. \A b \in Blocks \ X : LinksKept(heap, heap', b)
  <2>1. [kind |-> "path"].kind = "path"
    OBVIOUS
  <2> QED
    BY <1>5, <1>14, <2>1 DEF LinksKept, FileKinds
<1>16. \A b \in Blocks \cap X :
         /\ heap[b].kind = "free"
         /\ InUse(heap', b, Tables', Privates', Held')
  BY <1>4, <1>5, <1>11, <1>14, FreeIsObject DEF InUse
<1>17. \A x \in Held : x \in Blocks /\ heap[x].kind = "item" /\ x \notin X
  BY <1>4, <1>14, HeldAre, FreeIsObject
<1>18. Replaced(heap, heap', X, Tables, Privates, Held,
                Tables', Privates', Held')
  BY <1>11, <1>12, <1>13, <1>15, <1>16, <1>17 DEF Replaced
<1>19. Accounted'
  BY <1>18, UsedStays DEF Kept, Accounted
<1>20. Texts' /\ Passed' /\ NoPath'
  BY <1>3, PathLost
<1> QED
  BY <1>19, <1>20 DEF Kept

(* The position that a seek moves leads nowhere.                           *)
LEMMA SeekKeeps ==
  ASSUME FilesInv, Kept, NEW fd \in FileNumbers, NEW offset \in Offsets,
         NEW whence \in {"SEEK_SET", "SEEK_CUR", "SEEK_END"},
         fseek(fd, offset, whence), pc' # "wild"
  PROVE  Kept'
<1>1. /\ pc = "idle" /\ UNCHANGED <<file_descriptors, call, pc>>
      /\ fd \in OpenFiles /\ PrivateOf(fd) = Private(fd)
  BY GivenFileIs DEF fseek, GoWild
<1>2. Passed'
  BY <1>1 DEF Passed
<1>3. CASE heap' = heap
  BY <1>1, <1>2, <1>3, QuietKeeps
<1>4. CASE heap' # heap
  <2>1. PICK p : p = Private(fd)
    OBVIOUS
  <2>2. /\ p \in Blocks /\ heap[p].kind = "descriptor"
        /\ heap[p] = [kind |-> "descriptor", item |-> heap[p].item,
                      pos |-> heap[p].pos, relative |-> heap[p].relative]
    BY <1>1, <2>1, OpenFileIs DEF FilesInv, TypesInv, IsObject
  <2>3. heap = [b \in Blocks |-> heap[b]]
    BY DEF FilesInv, TypesInv
  <2>4. \/ heap' = [heap EXCEPT ![p].pos = offset, ![p].relative = FALSE]
        \/ heap' = [heap EXCEPT ![p].pos = @ + offset, ![p].relative = TRUE]
    BY <1>1, <1>4, <2>1 DEF fseek, GoWild
  <2>5. PICK pos, r : heap' = Positioned(heap, p, pos, r)
    <3>1. CASE heap' = [heap EXCEPT ![p].pos = offset, ![p].relative = FALSE]
      BY <3>1 DEF Positioned
    <3>2. CASE heap' = [heap EXCEPT ![p].pos = @ + offset,
                                    ![p].relative = TRUE]
      BY <3>2 DEF Positioned
    <3> QED
      BY <2>4, <3>1, <3>2
  <2>6. heap' = [heap EXCEPT ![p] =
                   [kind |-> "descriptor", item |-> heap[p].item,
                    pos |-> pos, relative |-> r]]
    BY <2>2, <2>3, <2>5, PositionSet
  <2>7. /\ heap'[p].kind = "descriptor" /\ heap'[p].item = heap[p].item
        /\ \A b \in Blocks : b # p => heap'[b] = heap[b]
    BY <2>2, <2>3, <2>6
  <2>8. OpenFiles' = OpenFiles
    BY <1>1 DEF OpenFiles
  <2>9. ASSUME NEW o \in OpenFiles
        PROVE  Private(o)' = Private(o) /\ Item(o)' = Item(o)
    <3>1. /\ file_descriptors[o] \in Blocks /\ file_descriptors[o] # p
          /\ Private(o) \in Blocks
      BY <2>2, OpenFileIs
    <3>2. Private(o)' = Private(o)
      BY <1>1, <2>7, <3>1 DEF Private
    <3>3. heap'[Private(o)].item = heap[Private(o)].item
      BY <2>7, <3>1
    <3> QED
      BY <3>2, <3>3 DEF Item
  <2>10. \A b \in Blocks : LinksKept(heap, heap', b)
    BY <2>2, <2>7 DEF LinksKept
  <2>11. Accounted'
    BY <1>1, <2>8, <2>9, <2>10, LinksStay DEF Kept
  <2>12. Texts' /\ NoPath'
    BY <1>1, <2>2, <2>7, TextsStay
  <2> QED
    BY <1>2, <2>11, <2>12 DEF Kept
<1> QED
  BY <1>3, <1>4

(* A mishap cannot be undone, nor can the use of memory that is not there. *)
LEMMA MishapsStay ==
  ASSUME [Next]_vars, mishaps' = {}, pc' # "wild"
  PROVE  mishaps = {} /\ pc # "wild"
<1>1. CASE UNCHANGED vars
  BY <1>1 DEF vars
<1>2. CASE fat16_resolve
  BY <1>2 DEF fat16_resolve
<1>3. ASSUME NEW o \in Opens, fopen(o) \/ fopen_bad_path(o)
      PROVE  mishaps = {} /\ pc # "wild"
  BY <1>3 DEF fopen, fopen_bad_path
<1>4. CASE FopenStep
  <2>1. CASE pathparser_create_root
    BY <2>1 DEF pathparser_create_root, GoWild
  <2>2. CASE pathparser_parse_path_part
    BY <2>2 DEF pathparser_parse_path_part, GoWild
  <2>3. CASE pathparser_parse_end \/ fopen_refused \/ file_table_full
    BY <2>3 DEF pathparser_parse_end, GoWild, fopen_refused, file_table_full
  <2>4. CASE fat16_open
    BY <2>4 DEF fat16_open
  <2>5. CASE find_no_match \/ find_file \/ find_dir
    BY <2>5 DEF find_no_match, find_file, find_dir, Found, Searching
  <2>9. CASE find_dir_hangs
    BY <2>9 DEF find_dir_hangs, GoWild
  <2>6. CASE find_end_root \/ find_end_dir
    BY <2>6 DEF find_end_root, find_end_dir, GoWild
  <2>7. CASE walk_done \/ walk_null \/ walk_through_file \/ walk_into_dir
    BY <2>7 DEF walk_done, walk_null, walk_through_file, walk_into_dir, GoWild
  <2>8. CASE file_new_descriptor
    BY <2>8 DEF file_new_descriptor, GoWild
  <2> QED
    BY <1>4, <2>1, <2>2, <2>3, <2>4, <2>5, <2>6, <2>7, <2>8, <2>9 DEF FopenStep
<1>5. ASSUME NEW fd \in FileNumbers, not_open(fd) \/ fread(fd) \/ fstat(fd)
      PROVE  mishaps = {} /\ pc # "wild"
  BY <1>5 DEF not_open, fread, fstat, GoWild
<1>6. ASSUME NEW fd \in FileNumbers, NEW offset \in Offsets,
             NEW whence \in {"SEEK_SET", "SEEK_CUR", "SEEK_END"},
             fseek(fd, offset, whence)
      PROVE  mishaps = {} /\ pc # "wild"
  BY <1>6 DEF fseek, GoWild
<1>7. ASSUME NEW fd \in FileNumbers, fclose(fd)
      PROVE  mishaps = {} /\ pc # "wild"
  BY <1>7 DEF fclose, GoWild
<1> QED
  BY <1>1, <1>2, <1>3, <1>4, <1>5, <1>6, <1>7 DEF Next

(* No step loses an object of a file.                                      *)
LEMMA StepsLoseNothing ==
  ASSUME UniqueNames, FilesInv, NothingLost, [Next]_vars
  PROVE  NothingLost'
<1> SUFFICES ASSUME mishaps' = {}, pc' # "wild"
             PROVE  Kept'
  BY DEF NothingLost
<1>0. Kept
  BY MishapsStay DEF NothingLost
<1>1. CASE UNCHANGED vars
  <2>1. UNCHANGED <<dirs, heap, file_descriptors, call, pc>>
    BY <1>1 DEF vars
  <2>2. Passed'
    BY <1>0, <2>1 DEF Kept, Passed, Searched
  <2> QED
    BY <1>0, <2>1, <2>2, QuietKeeps
<1>2. CASE fat16_resolve
  BY <1>2, ResolveKeeps
<1>3. ASSUME NEW o \in Opens, fopen(o) \/ fopen_bad_path(o)
      PROVE  Kept'
  BY <1>0, <1>3, FopenKeeps, RefusalsKeep
<1>4. CASE FopenStep
  <2>1. CASE pathparser_create_root
    BY <1>0, <2>1, CreateRootKeeps
  <2>2. CASE pathparser_parse_path_part
    BY <1>0, <2>2, ParsePartKeeps
  <2>3. CASE pathparser_parse_end
    BY <1>0, <2>3, ParseEndKeeps
  <2>4. CASE fopen_refused
    BY <1>0, <2>4, RefusalsKeep
  <2>5. CASE file_table_full \/ walk_through_file
    BY <2>5 DEF file_table_full, walk_through_file
  <2>6. CASE fat16_open
    BY <1>0, <2>6, OpenKeeps
  <2>7. CASE find_no_match
    BY <1>0, <2>7, NoMatchKeeps
  <2>8. CASE find_file
    BY <1>0, <2>8, FindFileKeeps
  <2>9. CASE find_dir
    BY <1>0, <2>9, FindDirKeeps
  <2>10. CASE find_end_root
    BY <1>0, <2>10, EndRootKeeps
  <2>11. CASE find_end_dir
    BY <1>0, <2>11, EndDirKeeps
  <2>12. CASE walk_done
    BY <1>0, <2>12, WalkDoneKeeps
  <2>13. CASE walk_null
    BY <1>0, <2>13, WalkNullKeeps
  <2>14. CASE walk_into_dir
    BY <1>0, <2>14, WalkIntoDirKeeps
  <2>15. CASE file_new_descriptor
    BY <1>0, <2>15, NewDescriptorKeeps
  <2>16. CASE find_dir_hangs
    BY <2>16 DEF find_dir_hangs, GoWild
  <2> QED
    BY <1>4, <2>1, <2>2, <2>3, <2>4, <2>5, <2>6, <2>7, <2>8, <2>9, <2>10,
       <2>11, <2>12, <2>13, <2>14, <2>15, <2>16 DEF FopenStep
<1>5. ASSUME NEW fd \in FileNumbers, not_open(fd) \/ fread(fd) \/ fstat(fd)
      PROVE  Kept'
  BY <1>0, <1>5, ReadKeeps
<1>6. ASSUME NEW fd \in FileNumbers, NEW offset \in Offsets,
             NEW whence \in {"SEEK_SET", "SEEK_CUR", "SEEK_END"},
             fseek(fd, offset, whence)
      PROVE  Kept'
  BY <1>0, <1>6, SeekKeeps
<1>7. ASSUME NEW fd \in FileNumbers, fclose(fd)
      PROVE  Kept'
  BY <1>0, <1>7, CloseKeeps
<1> QED
  BY <1>1, <1>2, <1>3, <1>4, <1>5, <1>6, <1>7 DEF Next

(* An empty heap has nothing to lose.                                      *)
LEMMA InitLosesNothing == Init => NothingLost
<1> SUFFICES ASSUME Init
             PROVE  Kept
  BY DEF NothingLost
<1>1. \A b \in Blocks : heap[b].kind = "free"
  BY FreeIsObject DEF Init
<1>2. pc = "boot"
  BY DEF Init
<1> QED
  BY <1>1, <1>2 DEF Kept, Accounted, Used, InUse, Texts, Passed, NoPath

(* Between two calls what is accounted for belongs to an open file.        *)
LEMMA InvLeak == FilesInv /\ NothingLost => OnlyPathsLeak
<1> SUFFICES ASSUME FilesInv, NothingLost, pc = "idle", mishaps = {},
                    NEW b \in Blocks
             PROVE  \/ heap[b].kind \in {"free", "path"}
                    \/ heap[b].kind \in {"private", "stream", "root_dir"}
                    \/ \E fd \in OpenFiles : b \in ObjectsOf(fd)
  BY DEF OnlyPathsLeak
<1>1. Kept
  BY DEF NothingLost
<1>2. call.desc = 0 /\ call.curr = 0 /\ call.found = 0
  BY NoCallIs DEF FilesInv, CallInv
<1>3. /\ Held = {Item(fd) : fd \in OpenFiles}
      /\ Privates = {Private(fd) : fd \in OpenFiles}
  BY <1>2 DEF Held, Privates
<1>4. \A fd \in OpenFiles : /\ file_descriptors[fd] \in ObjectsOf(fd)
                            /\ Private(fd) \in ObjectsOf(fd)
                            /\ ItemBlocks(heap, Item(fd)) \subseteq ObjectsOf(fd)
  BY DEF ObjectsOf, Private, Item
<1>5. \A x : x \in ItemBlocks(heap, x) /\ heap[x].ref \in ItemBlocks(heap, x)
  BY DEF ItemBlocks
<1>6. \A c \in Blocks : InUse(heap, c, Tables, Privates, Held)
  BY <1>1 DEF Kept, Accounted, Used
<1>7. CASE heap[b].kind = "open"
  <2>1. PICK fd \in OpenFiles : b = file_descriptors[fd]
    BY <1>6, <1>7 DEF InUse, Tables
  <2> QED
    BY <1>4, <2>1
<1>8. CASE heap[b].kind = "descriptor"
  <2>1. PICK fd \in OpenFiles : b = Private(fd)
    BY <1>3, <1>6, <1>8 DEF InUse
  <2> QED
    BY <1>4, <2>1
<1>9. CASE heap[b].kind = "item"
  <2>1. PICK fd \in OpenFiles : b = Item(fd)
    BY <1>3, <1>6, <1>9 DEF InUse
  <2> QED
    BY <1>4, <1>5, <2>1
<1>10. CASE heap[b].kind \in {"file", "dir"}
  <2>1. PICK fd \in OpenFiles : b = heap[Item(fd)].ref
    BY <1>3, <1>6, <1>10 DEF InUse
  <2> QED
    BY <1>4, <1>5, <2>1
<1>11. CASE heap[b].kind = "items"
  <2>1. PICK c \in Blocks : heap[c].kind = "dir" /\ b = heap[c].items
    BY <1>6, <1>11 DEF InUse
  <2>2. PICK fd \in OpenFiles : c = heap[Item(fd)].ref
    BY <1>3, <1>6, <2>1 DEF InUse
  <2>3. b \in ItemBlocks(heap, Item(fd))
    BY <2>1, <2>2, PointersAre DEF ItemBlocks, Is
  <2> QED
    BY <1>4, <2>3
<1>12. heap[b].kind \in Kinds \ {"root", "name", "part"}
  BY <1>1 DEF Kept, NoPath, FilesInv, TypesInv, IsObject
<1> QED
  BY <1>7, <1>8, <1>9, <1>10, <1>11, <1>12 DEF Kinds

(***************************************************************************)
(* When the names in a directory are different, fopen and fclose lose no   *)
(* block but those of paths, whatever the order of the calls: every other  *)
(* object can be reached from the descriptor table as soon as a call has   *)
(* returned, unless memory ran out, the table was full, a path led through *)
(* a file or a directory longer than a cluster was loaded.                 *)
(***************************************************************************)
THEOREM PathsAloneLeak == UniqueNames => (Spec => []OnlyPathsLeak)
<1> SUFFICES ASSUME UniqueNames
             PROVE  Spec => []OnlyPathsLeak
  OBVIOUS
<1>1. Init => FilesInv /\ NothingLost
  BY InitFiles, InitLosesNothing
<1>2. FilesInv /\ NothingLost /\ [Next]_vars => (FilesInv /\ NothingLost)'
  BY StepsKeepFiles, StepsLoseNothing
<1>3. FilesInv /\ NothingLost => OnlyPathsLeak
  BY InvLeak
<1> QED
  BY <1>1, <1>2, <1>3, PTL DEF Spec

-----------------------------------------------------------------------------
(* The names in a path. *)

IsPath(path) == path \in Seq(STRING) /\ Len(path) >= 3

(* The slashes before the position p, and how many there are.              *)
Before(path, p) == {q \in Slashes(path) : q < p}
Rank(path, p)   == Cardinality(Before(path, p))

LEMMA SlashesAre ==
  ASSUME NEW path, IsPath(path)
  PROVE  /\ Len(path) \in Nat /\ Len(path) >= 3
         /\ Slashes(path) \subseteq 3..(Len(path) + 1)
         /\ 3 \in Slashes(path) /\ Len(path) + 1 \in Slashes(path)
         /\ IsFiniteSet(Slashes(path))
         /\ \A p : IsFiniteSet(Before(path, p)) /\ Rank(path, p) \in Nat
<1>1. Len(path) \in Nat /\ Len(path) >= 3
  BY LenProperties, Zenon DEF IsPath
<1>2. /\ Slashes(path) \subseteq 3..(Len(path) + 1)
      /\ 3 \in Slashes(path) /\ Len(path) + 1 \in Slashes(path)
  BY <1>1 DEF Slashes
<1>3. IsFiniteSet(Slashes(path))
  <2>1. IsFiniteSet(3..(Len(path) + 1))
    BY <1>1, FS_Interval
  <2> QED
    BY <1>2, <2>1, FS_Subset
<1>4. ASSUME NEW p
      PROVE  IsFiniteSet(Before(path, p)) /\ Rank(path, p) \in Nat
  <2>1. Before(path, p) \in SUBSET Slashes(path)
    BY DEF Before
  <2>2. IsFiniteSet(Before(path, p))
    BY <1>3, <2>1, FS_Subset
  <2> QED
    BY <2>2, FS_CardinalityType DEF Rank
<1> QED
  BY <1>1, <1>2, <1>3, <1>4

LEMMA RankGrows ==
  ASSUME NEW path, IsPath(path), NEW p \in Slashes(path),
         NEW q \in Slashes(path), p < q
  PROVE  Rank(path, p) < Rank(path, q)
<1>0. p \in Nat /\ q \in Nat /\ Slashes(path) \subseteq Nat
  BY SlashesAre
<1>1. Before(path, p) \in SUBSET Before(path, q)
  BY <1>0 DEF Before
<1>2. p \in Before(path, q) /\ p \notin Before(path, p)
  BY <1>0 DEF Before
<1>3. IsFiniteSet(Before(path, q))
  BY SlashesAre
<1>4. /\ Rank(path, p) <= Rank(path, q)
      /\ Rank(path, q) = Rank(path, p) => Before(path, q) = Before(path, p)
  BY <1>1, <1>3, FS_Subset DEF Rank
<1>5. Rank(path, p) \in Nat /\ Rank(path, q) \in Nat
  BY SlashesAre
<1> QED
  BY <1>2, <1>4, <1>5

(* A slash is found by the number of those before it.                      *)
LEMMA SlashIs ==
  ASSUME NEW path, IsPath(path), NEW p \in Slashes(path)
  PROVE  Slash(path, Rank(path, p) + 1) = p
<1>0. Slashes(path) \subseteq Nat /\ \A q : Rank(path, q) \in Nat
  BY SlashesAre
<1>1. PICK r : r = Rank(path, p) /\ r \in Nat
  BY <1>0
<1>2. ASSUME NEW q \in Slashes(path), Rank(path, q) = r
      PROVE  q = p
  <2>1. ~(q < p) /\ ~(p < q)
    BY <1>0, <1>1, <1>2, RankGrows
  <2> QED
    BY <1>0, <2>1
<1>3. Slash(path, r + 1)
        = CHOOSE q \in Slashes(path) : Rank(path, q) = (r + 1) - 1
  BY Zenon DEF Slash, Rank, Before
<1>4. (r + 1) - 1 = r
  BY <1>1
<1>5. /\ Slash(path, r + 1) \in Slashes(path)
      /\ Rank(path, Slash(path, r + 1)) = r
  BY <1>1, <1>3, <1>4, Zenon
<1> QED
  BY <1>1, <1>2, <1>5, Zenon

LEMMA NextRank ==
  ASSUME NEW path, IsPath(path), NEW p \in Slashes(path),
         NEW q \in Slashes(path), p < q,
         \A r \in Slashes(path) : ~(p < r /\ r < q)
  PROVE  Rank(path, q) = Rank(path, p) + 1
<1>0. p \in Nat /\ q \in Nat /\ Slashes(path) \subseteq Nat
  BY SlashesAre
<1>1. Before(path, q) = Before(path, p) \cup {p}
  BY <1>0 DEF Before
<1>2. p \notin Before(path, p)
  BY <1>0 DEF Before
<1>3. IsFiniteSet(Before(path, p))
  BY SlashesAre
<1> QED
  BY <1>1, <1>2, <1>3, FS_AddElement DEF Rank

LEMMA FirstAndLast ==
  ASSUME NEW path, IsPath(path)
  PROVE  /\ Rank(path, 3) = 0
         /\ Cardinality(Slashes(path)) = Rank(path, Len(path) + 1) + 1
<1>0. Slashes(path) \subseteq 3..(Len(path) + 1) /\ Len(path) \in Nat
  BY SlashesAre
<1>1. Before(path, 3) = {}
  BY <1>0 DEF Before
<1>2. PICK l : l = Len(path) + 1 /\ l \in Slashes(path)
  BY SlashesAre
<1>3. Slashes(path) = Before(path, l) \cup {l} /\ l \notin Before(path, l)
  BY <1>0, <1>2 DEF Before
<1>4. IsFiniteSet(Before(path, l))
  BY SlashesAre
<1>5. Cardinality(Slashes(path)) = Rank(path, l) + 1
  <2>1. PICK B : B = Before(path, l)
    BY Zenon
  <2>2. Cardinality(B \cup {l}) = Cardinality(B) + 1
    BY <1>3, <1>4, <2>1, FS_AddElement
  <2> QED
    BY <1>3, <2>1, <2>2, Zenon DEF Rank
<1> QED
  BY <1>1, <1>2, <1>5, FS_EmptySet DEF Rank

NameAt(path, k) == SubSeq(path, Slash(path, k) + 1, Slash(path, k + 1) - 1)

(* The first n names are those of the path, if it ends with the n-th or an *)
(* empty one follows.                                                      *)
NamesEnd(path, n, p) == /\ p \in Slashes(path) /\ Rank(path, p) = n
                        /\ \A k \in 1..n : NameAt(path, k) # <<>>
                        /\ p = Len(path) + 1 \/ NameAt(path, n + 1) = <<>>

AreNames(names, path, n) == /\ Len(names) = n
                            /\ n = 0 => names = <<>>
                            /\ \A k \in 1..n : names[k] = NameAt(path, k)

LEMMA NamesAre ==
  ASSUME NEW path, IsPath(path), NEW n \in Nat, NEW p, NamesEnd(path, n, p)
  PROVE  AreNames(Names(path), path, n)
<1> DEFINE card == Cardinality(Slashes(path)) - 1
           names == [k \in 1..card |-> NameAt(path, k)]
           empty == {k \in DOMAIN names : names[k] = <<>>}
<1>1. Names(path) = IF empty = {} THEN names
                    ELSE SubSeq(names, 1, (CHOOSE k \in empty :
                                             \A l \in empty : k <= l) - 1)
  BY Zenon DEF Names, NameAt
<1>2. PICK l : l = Len(path) + 1 /\ l \in Slashes(path)
  BY SlashesAre
<1>3. card = Rank(path, l) /\ card \in Nat
  <2>1. Rank(path, l) \in Nat
    BY SlashesAre
  <2> QED
    BY <1>2, <2>1, FirstAndLast
<1>4. DOMAIN names = 1..card /\ \A k \in 1..card : names[k] = NameAt(path, k)
  OBVIOUS
<1> HIDE DEF card
<1>5. CASE p = l
  <2>1. n = card
    BY <1>3, <1>5, Zenon DEF NamesEnd
  <2>2. empty = {}
    BY <1>4, <2>1 DEF NamesEnd
  <2>3. Len(names) = n
    BY <1>3, <2>1
  <2>4. n = 0 => names = <<>>
    <3>1. n = 0 => 1..card = {}
      BY <2>1
    <3>2. names \in Seq({NameAt(path, k) : k \in 1..card})
      BY <1>3
    <3> HIDE DEF names
    <3> QED
      BY <2>3, <3>2, EmptySeq
  <2> HIDE DEF names, empty
  <2> QED
    BY <1>1, <1>4, <2>1, <2>2, <2>3, <2>4, Zenon DEF AreNames
<1>6. CASE p # l
  <2>1. p < l /\ n < card
    <3>1. Slashes(path) \subseteq 3..l /\ l \in Nat
      BY <1>2, SlashesAre
    <3>2. p < l
      BY <1>6, <3>1 DEF NamesEnd
    <3> QED
      BY <1>2, <1>3, <3>2, RankGrows DEF NamesEnd
  <2>2. n + 1 \in empty /\ \A k \in empty : n + 1 <= k
    <3>1. NameAt(path, n + 1) = <<>>
      BY <1>2, <1>6 DEF NamesEnd
    <3>2. n + 1 \in 1..card
      BY <1>3, <2>1
    <3>3. ASSUME NEW k \in empty
          PROVE  n + 1 <= k
      <4>1. k \in 1..card /\ NameAt(path, k) = <<>>
        BY <1>4
      <4>2. k \notin 1..n
        BY <4>1 DEF NamesEnd
      <4> QED
        BY <1>3, <4>1, <4>2
    <3> QED
      BY <1>4, <3>1, <3>2, <3>3
  <2>3. empty \subseteq Nat
    BY <1>3
  <2> HIDE DEF empty
  <2>4. (CHOOSE k \in empty : \A m \in empty : k <= m) = n + 1
    <3>1. PICK c : c = n + 1 /\ c \in empty
      BY <2>2
    <3>2. \A d \in empty : (\A m \in empty : d <= m) => d = c
      BY <2>2, <2>3, <3>1
    <3>3. \A m \in empty : c <= m
      BY <2>2, <3>1
    <3> QED
      BY <3>1, <3>2, <3>3, Zenon
  <2>5. Names(path) = SubSeq(names, 1, n)
    <3>1. (n + 1) - 1 = n /\ empty # {}
      BY <2>2
    <3> QED
      BY <1>1, <2>4, <3>1, Zenon
  <2>6. \A k \in 1..n : names[k] \in {names[i] : i \in 1..card}
    BY <1>3, <2>1
  <2> HIDE DEF names
  <2>7. /\ Len(SubSeq(names, 1, n)) = IF 1 <= n THEN n - 1 + 1 ELSE 0
        /\ \A k \in 1..(n - 1 + 1) : SubSeq(names, 1, n)[k] = names[1 + k - 1]
    BY <2>6, SubSeqProperties
  <2>8. Len(Names(path)) = n /\ \A k \in 1..n : Names(path)[k] = names[k]
    BY <2>5, <2>7
  <2>9. n = 0 => Names(path) = <<>>
    <3>1. n = 0 => SubSeq(names, 1, n) = <<>>
      BY SubSeqEmpty
    <3> QED
      BY <2>5, <3>1, Zenon
  <2> QED
    BY <1>3, <1>4, <2>1, <2>8, <2>9 DEF AreNames
<1> QED
  BY <1>5, <1>6

(* What is left of a path behind the position p, and what is cut from it.  *)
IsRest(rest, path, p, len) ==
  /\ Len(rest) = len - p
  /\ \A i \in 1..(len - p) : rest[i] = path[p + i]
  /\ \A a, b \in 0..(len - p) :
       SubSeq(rest, a + 1, b) = SubSeq(path, p + a + 1, p + b)

LEMMA RestIs ==
  ASSUME NEW path \in Seq(STRING), NEW p \in Nat, NEW len, len = Len(path),
         p <= len, NEW rest, rest = SubSeq(path, p + 1, len)
  PROVE  IsRest(rest, path, p, len)
<1>1. Len(path) \in Nat /\ \A i \in 1..Len(path) : path[i] \in STRING
  BY LenProperties, ElementOfSeq
<1>2. len \in Nat
  BY <1>1
<1>3. /\ Len(rest) = IF p + 1 <= len THEN len - (p + 1) + 1 ELSE 0
      /\ \A i \in 1..(len - (p + 1) + 1) : rest[i] = path[p + 1 + i - 1]
  <2>1. \A i \in (p + 1)..len : path[i] \in STRING
    BY <1>1, <1>2
  <2> QED
    BY <1>2, <2>1, SubSeqProperties
<1>4. Len(rest) = len - p /\ \A i \in 1..(len - p) : rest[i] = path[p + i]
  BY <1>2, <1>3
<1>5. ASSUME NEW c \in 0..(len - p), NEW b \in 0..(len - p)
      PROVE  SubSeq(rest, c + 1, b) = SubSeq(path, p + c + 1, p + b)
  <2>0. PICK a, d, e : a = c + 1 /\ d = p + c + 1 /\ e = p + b
    BY Zenon
  <2>1. PICK s, t : s = SubSeq(rest, a, b) /\ t = SubSeq(path, d, e)
    BY Zenon
  <2>2. /\ s \in Seq(STRING) /\ Len(s) = IF a <= b THEN b - a + 1 ELSE 0
        /\ \A i \in 1..(b - a + 1) : s[i] = rest[a + i - 1]
    <3>1. \A i \in a..b : rest[i] \in STRING
      BY <1>1, <1>2, <1>4, <1>5, <2>0
    <3>2. a \in Int /\ b \in Int
      BY <1>2, <2>0
    <3>3. /\ SubSeq(rest, a, b) \in Seq(STRING)
          /\ Len(SubSeq(rest, a, b)) = IF a <= b THEN b - a + 1 ELSE 0
          /\ \A i \in 1..(b - a + 1) : SubSeq(rest, a, b)[i] = rest[a + i - 1]
      BY ONLY <3>1, <3>2, SubSeqProperties
    <3> QED
      BY <2>1, <3>3, Zenon
  <2>3. /\ t \in Seq(STRING)
        /\ Len(t) = IF d <= e THEN e - d + 1 ELSE 0
        /\ \A i \in 1..(e - d + 1) : t[i] = path[d + i - 1]
    <3>1. \A i \in d..e : path[i] \in STRING
      BY <1>1, <1>2, <1>5, <2>0
    <3>2. d \in Int /\ e \in Int
      BY <1>2, <2>0
    <3> QED
      BY <2>1, <3>1, <3>2, SubSeqProperties
  <2>4. Len(s) = Len(t)
    BY <1>2, <2>0, <2>2, <2>3
  <2>5. ASSUME NEW i \in 1..Len(s)
        PROVE  s[i] = t[i]
    <3>1. i \in 1..(b - a + 1) /\ i \in 1..(e - d + 1)
      BY <1>2, <2>0, <2>2
    <3>2. s[i] = rest[a + i - 1] /\ t[i] = path[d + i - 1]
      BY <2>2, <2>3, <3>1
    <3>3. a + i - 1 \in 1..(len - p) /\ p + (a + i - 1) = d + i - 1
      BY <1>2, <1>5, <2>0, <3>1
    <3> QED
      BY <1>4, <3>2, <3>3
  <2>6. s = t
    BY <2>2, <2>3, <2>4, <2>5, SeqEqual
  <2> QED
    BY <2>0, <2>1, <2>6, Zenon
<1> QED
  BY <1>4, <1>5, Zenon DEF IsRest

(* The part that the parser takes ends before the next slash.              *)
PartIsName(path, p, q) ==
  /\ q \in Slashes(path) /\ p < q
  /\ \A r \in Slashes(path) : ~(p < r /\ r < q)
  /\ SubSeq(call.rest, 1, PartLength) = SubSeq(path, p + 1, q - 1)
  /\ SubSeq(call.rest, PartLength + 2, Len(call.rest))
       = SubSeq(path, q + 1, Len(path))
  /\ PartLength = q - p - 1

LEMMA PartIs ==
  ASSUME NEW path, IsPath(path), NEW p \in Slashes(path),
         call.rest = SubSeq(path, p + 1, Len(path))
  PROVE  /\ PartLength \in Nat
         /\ p = Len(path) + 1 => PartLength = 0
         /\ p # Len(path) + 1 => PartIsName(path, p, p + PartLength + 1)
<1>0. /\ Len(path) \in Nat /\ p \in 3..(Len(path) + 1) /\ path \in Seq(STRING)
  BY SlashesAre DEF IsPath
<1>a. PICK len \in Nat : len = Len(path)
  BY <1>0
<1>1. PICK rest : len = Len(path) /\ rest = call.rest
  BY <1>a
<1>2. Len(rest) = IF p = len + 1 THEN 0 ELSE len - p
  <2>1. CASE p = len + 1
    <3>1. rest = <<>>
      BY <1>0, <1>1, <2>1, SubSeqEmpty
    <3> QED
      BY <2>1, <3>1
  <2>2. CASE p # len + 1
    <3>1. p \in Nat /\ p <= len /\ rest = SubSeq(path, p + 1, len)
      BY <1>0, <1>1, <2>2
    <3>2. IsRest(rest, path, p, len)
      BY <1>0, <1>1, <3>1, RestIs, Zenon
    <3> QED
      BY <2>2, <3>2, Zenon DEF IsRest
  <2> QED
    BY <2>1, <2>2
<1> DEFINE ends == {k \in 0..Len(rest) : k = Len(rest) \/ rest[k + 1] = "/"}
           IsEnd(k) == /\ \A i \in 1..k : rest[i] # "/"
                       /\ k = Len(rest) \/ rest[k + 1] = "/"
<1>3. Len(rest) \in Nat
  BY <1>0, <1>1, <1>2
<1>4. \E k \in 0..Len(rest) : IsEnd(k)
  <2>1. Len(rest) \in ends /\ ends \subseteq Nat
    BY <1>3
  <2>2. PICK m \in ends : \A k \in ends : m <= k
    <3> HIDE DEF ends
    <3> QED
      BY <2>1, LeastElement
  <2>3. ASSUME NEW i \in 1..m, rest[i] = "/"
        PROVE  FALSE
    <3>1. i - 1 \in 0..Len(rest) /\ (i - 1) + 1 = i
      BY <1>3, <2>2
    <3>2. i - 1 \in ends
      BY <2>3, <3>1
    <3>3. m <= i - 1 /\ m \in Nat /\ i \in 1..m
      BY <2>1, <2>2, <2>3, <3>2, Zenon
    <3> QED
      BY <3>3
  <2> QED
    BY <2>2, <2>3
<1>5. PICK l : l = PartLength
  BY Zenon
<1>6. l \in 0..Len(rest) /\ IsEnd(l)
  <2>1. PartLength = CHOOSE k \in 0..Len(rest) : IsEnd(k)
    BY <1>1, Zenon DEF PartLength
  <2> HIDE DEF IsEnd
  <2> QED
    BY <1>4, <1>5, <2>1
<1>7. CASE p = len + 1
  BY <1>1, <1>2, <1>5, <1>6, <1>7
<1>8. CASE p # len + 1
  <2>1. PICK q : q = p + l + 1
    OBVIOUS
  <2>2. p \in 3..len /\ l \in 0..(len - p) /\ q \in (p + 1)..(len + 1)
    BY <1>0, <1>1, <1>2, <1>6, <1>8, <2>1
  <2>3. /\ \A i \in 1..(len - p) : rest[i] = path[p + i]
        /\ \A a, b \in 0..(len - p) :
             SubSeq(rest, a + 1, b) = SubSeq(path, p + a + 1, p + b)
    <3>1. p \in Nat /\ p <= len /\ rest = SubSeq(path, p + 1, len)
      BY <1>1, <2>2
    <3>2. IsRest(rest, path, p, len)
      BY <1>0, <1>1, <3>1, RestIs, Zenon
    <3> QED
      BY <3>2, Zenon DEF IsRest
  <2>4. q \in Slashes(path)
    <3>1. CASE l = len - p
      BY <1>1, <2>1, <2>2, <3>1 DEF Slashes
    <3>2. CASE l # len - p
      <4>1. rest[l + 1] = "/" /\ l + 1 \in 1..(len - p) /\ p + (l + 1) = q
        BY <1>2, <1>6, <1>8, <2>1, <2>2, <3>2
      <4>2. rest[l + 1] = path[p + (l + 1)]
        BY <2>3, <4>1
      <4>3. path[q] = "/"
        BY <4>1, <4>2
      <4>4. q \in 3..len
        BY <2>2, <4>1
      <4> QED
        BY <1>1, <4>3, <4>4 DEF Slashes
    <3> QED
      BY <3>1, <3>2
  <2>5. ASSUME NEW r \in Slashes(path), p < r, r < q
        PROVE  FALSE
    <3>1. path[r] = "/" /\ r \in Nat
      BY <1>1, <2>2, <2>5 DEF Slashes
    <3>2. r - p \in 1..l /\ r - p \in 1..(len - p) /\ p + (r - p) = r
      BY <2>1, <2>2, <2>5, <3>1
    <3> QED
      BY <1>6, <2>3, <3>1, <3>2
  <2>6. SubSeq(rest, 1, l) = SubSeq(path, p + 1, q - 1)
    <3>1. /\ p + l = q - 1 /\ 0 + 1 = 1 /\ p + 0 + 1 = p + 1
          /\ 0 \in 0..(len - p)
      BY <2>1, <2>2
    <3>2. SubSeq(rest, 0 + 1, l) = SubSeq(path, p + 0 + 1, p + l)
      BY <2>2, <2>3, <3>1, Zenon
    <3> QED
      BY <3>1, <3>2, Zenon
  <2>7. SubSeq(rest, l + 2, Len(rest)) = SubSeq(path, q + 1, len)
    <3>1. CASE l = len - p
      <4>1. l + 2 > Len(rest) /\ q + 1 > len /\ l + 2 \in Int /\ q + 1 \in Int
            /\ Len(rest) \in Int /\ len \in Int
        BY <1>2, <1>8, <2>1, <2>2, <3>1
      <4> QED
        BY <4>1, SubSeqEmpty
    <3>2. CASE l # len - p
      <4>1. /\ (l + 1) + 1 = l + 2 /\ p + (l + 1) + 1 = q + 1
            /\ Len(rest) = len - p /\ p + (len - p) = len
            /\ l + 1 \in 0..(len - p) /\ len - p \in 0..(len - p)
        BY <1>2, <1>8, <2>1, <2>2, <3>2
      <4>2. SubSeq(rest, (l + 1) + 1, len - p)
              = SubSeq(path, p + (l + 1) + 1, p + (len - p))
        BY <2>3, <4>1, Zenon
      <4> QED
        BY <4>1, <4>2, Zenon
    <3> QED
      BY <3>1, <3>2
  <2>8. PartIsName(path, p, q)
    BY <1>1, <1>5, <2>1, <2>2, <2>4, <2>5, <2>6, <2>7 DEF PartIsName
  <2> QED
    BY <1>1, <1>5, <1>8, <2>1, <2>2, <2>8
<1> QED
  BY <1>7, <1>8

-----------------------------------------------------------------------------
(* What a path leads to, name by name.                                     *)

(* Induction up to a bound, for a set instead of a predicate. *)
LEMMA InductionTo ==
  ASSUME NEW N \in Nat, NEW T,
         0 \in T,
         \A i \in 1..N : i - 1 \in T => i \in T
  PROVE  \A i \in 0..N : i \in T
<1> DEFINE S == {i \in 0..N : i \notin T}
<1>1. SUFFICES ASSUME S # {}
               PROVE  FALSE
  OBVIOUS
<1>2. PICK m \in S : \A k \in S : m <= k
  <2>1. S \subseteq Nat
    OBVIOUS
  <2> HIDE DEF S
  <2> QED
    BY <1>1, <2>1, LeastElement
<1>3. m \in 1..N /\ m - 1 \notin S
  BY <1>2
<1> QED
  BY <1>2, <1>3

(* The entry that the first k names of a path lead to.                     *)
Below(v, e, name) == IF e.dir THEN Child(v[e.first], name) ELSE NoEntry

IsWalk(v, f, names, n) ==
  f = [k \in 0..n |-> IF k = 0 THEN RootEntry
                      ELSE Below(v, f[k - 1], names[k])]

LEMMA WalkExists ==
  ASSUME NEW v, NEW names, NEW n \in Nat
  PROVE  \E f : IsWalk(v, f, names, n)
<1> DEFINE T == {i \in 0..n : \E f : IsWalk(v, f, names, i)}
<1>1. 0 \in T
  <2>1. IsWalk(v, [k \in 0..0 |-> RootEntry], names, 0)
    BY DEF IsWalk
  <2> QED
    BY <2>1
<1>2. ASSUME NEW i \in 1..n, i - 1 \in T
      PROVE  i \in T
  <2>1. PICK f : IsWalk(v, f, names, i - 1)
    BY <1>2
  <2> DEFINE g == [k \in 0..i |-> IF k = i THEN Below(v, f[i - 1], names[i])
                                  ELSE f[k]]
  <2>2. \A k \in 0..(i - 1) :
          f[k] = IF k = 0 THEN RootEntry ELSE Below(v, f[k - 1], names[k])
    BY <2>1, Zenon DEF IsWalk
  <2>3. \A k \in 0..i :
          g[k] = IF k = 0 THEN RootEntry ELSE Below(v, g[k - 1], names[k])
    <3> TAKE k \in 0..i
    <3>1. CASE k = i
      <4>1. g[k] = Below(v, f[i - 1], names[i]) /\ g[i - 1] = f[i - 1] /\ k # 0
        BY <3>1
      <4> QED
        BY <3>1, <4>1, Zenon
    <3>2. CASE k # i
      <4>1. k \in 0..(i - 1) /\ g[k] = f[k] /\ (k # 0 => g[k - 1] = f[k - 1])
        BY <3>2
      <4> QED
        BY <2>2, <4>1, Zenon
    <3> QED
      BY <3>1, <3>2
  <2>4. IsWalk(v, g, names, i)
    <3>1. g = [k \in 0..i |-> g[k]]
      BY Zenon
    <3> HIDE DEF g
    <3> QED
      BY <2>3, <3>1, Zenon DEF IsWalk
  <2> HIDE DEF g
  <2> QED
    BY <2>4
<1>3. n \in 0..n
  OBVIOUS
<1> HIDE DEF T
<1>4. n \in T
  BY <1>1, <1>2, <1>3, InductionTo
<1> QED
  BY <1>4 DEF T

(* Two walks along the same names do not part. *)
Agree(s, t, n) == \A k \in 1..n : s[k] = t[k]

LEMMA WalkUnique ==
  ASSUME NEW v, NEW names, NEW others, NEW n \in Nat, NEW m \in Nat, m <= n,
         Agree(names, others, m),
         NEW f, IsWalk(v, f, names, n), NEW g, IsWalk(v, g, others, m)
  PROVE  f[m] = g[m]
<1> DEFINE T == {k \in 0..m : f[k] = g[k]}
<1>1. /\ \A k \in 0..n : f[k] = IF k = 0 THEN RootEntry
                                ELSE Below(v, f[k - 1], names[k])
      /\ \A k \in 0..m : g[k] = IF k = 0 THEN RootEntry
                                ELSE Below(v, g[k - 1], others[k])
  BY Zenon DEF IsWalk
<1>2. 0 \in T
  BY <1>1
<1>3. ASSUME NEW i \in 1..m, i - 1 \in T
      PROVE  i \in T
  <2>1. i \in 0..n /\ i \in 0..m /\ i # 0
    OBVIOUS
  <2>2. /\ f[i] = Below(v, f[i - 1], names[i])
        /\ g[i] = Below(v, g[i - 1], others[i])
    BY <1>1, <2>1, Zenon
  <2>3. f[i - 1] = g[i - 1] /\ names[i] = others[i]
    BY <1>3 DEF Agree
  <2> QED
    BY <2>1, <2>2, <2>3, Zenon
<1>4. \A i \in 0..m : i \in T
  <2> HIDE DEF T
  <2> QED
    BY <1>2, <1>3, InductionTo
<1>5. m \in 0..m
  OBVIOUS
<1> QED
  BY <1>4, <1>5

LEMMA EntryOfIs ==
  ASSUME NEW v, NEW names, Len(names) \in Nat
  PROVE  \E f : /\ IsWalk(v, f, names, Len(names))
                /\ EntryOf(v, names) = f[Len(names)]
<1>1. PICK n : n = Len(names)
  BY Zenon
<1> DEFINE f == CHOOSE g : IsWalk(v, g, names, n)
<1>2. IsWalk(v, f, names, n)
  BY <1>1, WalkExists, Zenon
<1>3. EntryOf(v, names) = f[n]
  BY <1>1, Zenon DEF EntryOf, IsWalk, Below
<1> QED
  BY <1>1, <1>2, <1>3, Zenon

(* The entry that the first k names of the path of a call lead to. *)
Count(path) == Len(Names(path))

Reached(v, path) ==
  CHOOSE f : IsWalk(v, f, Names(path), Count(path))

LEMMA ReachedIs ==
  ASSUME NEW v, NEW path, Count(path) \in Nat
  PROVE  /\ Reached(v, path)[0] = RootEntry
         /\ \A k \in 1..Count(path) :
              Reached(v, path)[k]
                = Below(v, Reached(v, path)[k - 1], Names(path)[k])
         /\ EntryOf(v, Names(path)) = Reached(v, path)[Count(path)]
         /\ Count(path) # 0 => EntryOf(v, Front(Names(path)))
                                 = Reached(v, path)[Count(path) - 1]
<1>1. PICK names, n : names = Names(path) /\ n = Count(path)
  BY Zenon
<1>2. n \in Nat /\ n = Len(names)
  BY <1>1, Zenon DEF Count
<1>3. PICK f : f = Reached(v, path)
  BY Zenon
<1>4. IsWalk(v, f, names, n)
  BY <1>1, <1>2, <1>3, WalkExists, Zenon DEF Reached
<1>5. \A k \in 0..n : f[k] = IF k = 0 THEN RootEntry
                             ELSE Below(v, f[k - 1], names[k])
  BY <1>4, Zenon DEF IsWalk
<1>6. ASSUME NEW others, Len(others) \in Nat, Len(others) <= n,
             \A k \in 1..Len(others) : names[k] = others[k]
      PROVE  EntryOf(v, others) = f[Len(others)]
  <2>1. PICK g : /\ IsWalk(v, g, others, Len(others))
                 /\ EntryOf(v, others) = g[Len(others)]
    BY <1>6, EntryOfIs, Zenon
  <2>2. PICK m : m = Len(others)
    BY Zenon
  <2>3. f[m] = g[m]
    <3>1. m \in Nat /\ m <= n
      BY <1>6, <2>2, Zenon
    <3>2. Agree(names, others, m)
      BY <1>6, <2>2, Zenon DEF Agree
    <3>3. IsWalk(v, g, others, m)
      BY <2>1, <2>2, Zenon
    <3> QED
      BY ONLY <1>2, <1>4, <3>1, <3>2, <3>3, WalkUnique
  <2> QED
    BY <2>1, <2>2, <2>3, Zenon
<1>7. EntryOf(v, names) = f[n]
  <2>1. n <= n
    BY <1>2
  <2> QED
    BY <1>2, <1>6, <2>1, Zenon
<1>8. ASSUME n # 0
      PROVE  EntryOf(v, Front(names)) = f[n - 1]
  <2>1. PICK S : S = {names[i] : i \in 1..n}
    BY Zenon
  <2>2. \A i \in 1..(n - 1) : names[i] \in S
    BY <1>2, <2>1
  <2>3. 1 \in Int /\ n - 1 \in Int
    BY <1>2
  <2>4. /\ Len(SubSeq(names, 1, n - 1))
             = IF 1 <= n - 1 THEN (n - 1) - 1 + 1 ELSE 0
        /\ \A i \in 1..((n - 1) - 1 + 1) :
             SubSeq(names, 1, n - 1)[i] = names[1 + i - 1]
    BY ONLY <2>2, <2>3, SubSeqProperties
  <2>5. PICK others : others = SubSeq(names, 1, n - 1)
    BY Zenon
  <2>6. Len(others) = n - 1 /\ \A i \in 1..(n - 1) : names[i] = others[i]
    <3>1. Len(others) = n - 1
      BY <1>2, <1>8, <2>4, <2>5
    <3>2. ASSUME NEW i \in 1..(n - 1)
          PROVE  names[i] = others[i]
      <4>1. i \in 1..((n - 1) - 1 + 1) /\ 1 + i - 1 = i
        BY <1>2
      <4> QED
        BY <2>4, <2>5, <4>1, Zenon
    <3> QED
      BY <3>1, <3>2
  <2>7. n - 1 \in Nat /\ n - 1 <= n
    BY <1>2, <1>8
  <2>8. EntryOf(v, others) = f[n - 1]
    BY <1>6, <2>6, <2>7, Zenon
  <2>9. Front(names) = others
    BY <1>2, <2>5, Zenon DEF Front
  <2> QED
    BY <2>8, <2>9, Zenon
<1>9. 0 \in 0..n /\ \A k \in 1..n : k \in 0..n /\ k # 0
  BY <1>2
<1> QED
  BY <1>1, <1>3, <1>5, <1>7, <1>8, <1>9, Zenon

(* Below what is not there there is nothing. *)
LEMMA NothingBelow ==
  ASSUME NEW v, NEW path, Count(path) \in Nat, NEW k \in 0..Count(path),
         Reached(v, path)[k] = NoEntry
  PROVE  \A i \in 0..Count(path) : k <= i => Reached(v, path)[i] = NoEntry
<1> DEFINE T == {i \in 0..Count(path) :
                   k <= i => Reached(v, path)[i] = NoEntry}
<1>0. PICK n \in Nat : n = Count(path)
  BY Zenon
<1>1. 0 \in T
  BY <1>0
<1>2. ASSUME NEW i \in 1..n, i - 1 \in T
      PROVE  i \in T
  <2>1. CASE i = k
    BY <1>0, <2>1
  <2>2. CASE i < k
    BY <1>0, <2>2
  <2>3. CASE k < i
    <3>1. Reached(v, path)[i - 1] = NoEntry
      BY <1>0, <1>2, <2>3
    <3>2. Reached(v, path)[i]
            = Below(v, Reached(v, path)[i - 1], Names(path)[i])
      BY <1>0, ReachedIs, Zenon
    <3>3. NoEntry.dir = FALSE
      BY DEF NoEntry
    <3>4. Reached(v, path)[i] = NoEntry
      BY <3>1, <3>2, <3>3 DEF Below
    <3> QED
      BY <1>0, <3>4
  <2> QED
    BY <1>0, <2>1, <2>2, <2>3
<1> HIDE DEF T
<1>3. \A i \in 0..n : i \in T
  BY <1>1, <1>2, InductionTo
<1> QED
  BY <1>0, <1>3 DEF T

-----------------------------------------------------------------------------
(* The search for what a path names.                                       *)

(* The parts of a path that is being parsed, or is: ps are their blocks.   *)
IsCut(path, s) == \E i, j \in 1..Len(path) : s = SubSeq(path, i, j)

IsName(h, b, path, j) == /\ b \in Blocks
                         /\ h[b] = [kind |-> "name", text |-> NameAt(path, j)]
                         /\ IsCut(path, NameAt(path, j))

IsPart(h, b, next, path, j) == /\ h[b].kind = "part" /\ h[b].next = next
                               /\ IsName(h, h[b].name, path, j)

Listed(h, root, path, n, ps) ==
  /\ ps \in [1..n -> Blocks]
  /\ root \in Blocks /\ h[root].kind = "root"
  /\ h[root].first = IF n = 0 THEN 0 ELSE ps[1]
  /\ \A j \in 1..n : IsPart(h, ps[j], IF j = n THEN 0 ELSE ps[j + 1], path, j)

(* The parser has read n parts, up to the position p.                      *)
Parsed(h, c, n, ps, p) ==
  /\ n \in Nat /\ p \in Slashes(c.path) /\ Rank(c.path, p) = n
  /\ c.rest = SubSeq(c.path, p + 1, Len(c.path))
  /\ c.part = IF n = 0 THEN 0 ELSE ps[n]
  /\ Listed(h, c.root, c.path, n, ps)
  /\ \A k \in 1..n : NameAt(c.path, k) # <<>>

(* The parser has read it all.                                             *)
Whole(h, root, path, ps) ==
  /\ Count(path) \in Nat
  /\ AreNames(Names(path), path, Count(path))
  /\ Listed(h, root, path, Count(path), ps)

(* The item x is for the entry e.                                          *)
Represents(h, x, e) ==
  /\ x \in Blocks /\ h[x].kind = "item" /\ h[x].ref \in Blocks
  /\ h[x].type = IF e.dir THEN "dir" ELSE "file"
  /\ h[h[x].ref].kind = h[x].type
  /\ IF e.dir THEN h[h[x].ref].id = e.first ELSE h[h[x].ref].entry = e

HasDeleted(v) ==
  \E d \in DOMAIN v : \E k \in DOMAIN v[d] : Head(v[d][k].fname) = DELETED

(* A directory that is loaded whole is no longer than a cluster.           *)
Fits(v, e) == e.dir => Counted(v, e.first) <= ClusterEntries

(* The search for the j-th name, in the directory that the names before it *)
(* lead to.                                                                *)
Seeking(h, c, v, ps, j) ==
  LET above == Reached(v, c.path)[j - 1]
  IN  /\ c.part = ps[j] /\ above.dir
      /\ above.first = IF c.dir = 0 THEN Root ELSE h[c.dir].id
      /\ c.dir # 0 => Fits(v, above)
      /\ c.found # 0 => /\ Represents(h, c.found, Reached(v, c.path)[j])
                        /\ h[c.found].ref # c.dir
                        /\ Fits(v, Reached(v, c.path)[j])
      /\ c.found = 0 /\ ~HasDeleted(v) =>
           \A k \in 1..(c.i - 1) :
             ~istrncmp_equal(
                fat16_get_full_relative_filename(v[above.first][k]),
                NameAt(c.path, j))

(* The search for it is over.                                              *)
Walking(h, c, v, ps, j) ==
  /\ c.part = ps[j]
  /\ IF c.curr = 0 THEN ~HasDeleted(v) => Reached(v, c.path)[j] = NoEntry
     ELSE /\ Represents(h, c.curr, Reached(v, c.path)[j])
          /\ Fits(v, Reached(v, c.path)[j])

(* The search can be trusted: every allocation of this call succeeded, it  *)
(* loaded no directory longer than a cluster, and no deleted entry has a   *)
(* name that is looked for.                                                *)
Trusted == ~call.astray /\ (HasDeleted(dirs) => DeletedUnnamed)

SeekingInv(h, c, v, ps) ==
  \E j \in 1..Count(c.path) : Seeking(h, c, v, ps, j)
WalkingInv(h, c, v, ps) ==
  \E j \in 1..Count(c.path) : Walking(h, c, v, ps, j)

SearchInv ==
  /\ pc \notin {"boot", "idle", "wild"} =>
       IsPath(call.path) /\ \E o \in Opens : o.path = call.path
  /\ call.astray \in BOOLEAN
  /\ pc = "root" => /\ call.part = 0
                    /\ call.rest = SubSeq(call.path, 4, Len(call.path))
  /\ pc = "parts" => \E n, ps, p : Parsed(heap, call, n, ps, p)
  /\ pc \in {"opening", "find", "walk"} =>
       \E ps : /\ Whole(heap, call.root, call.path, ps)
               /\ pc = "find" /\ Trusted => SeekingInv(heap, call, dirs, ps)
               /\ pc = "walk" /\ Trusted => WalkingInv(heap, call, dirs, ps)
  /\ pc = "descriptor" /\ Trusted =>
       /\ Count(call.path) \in Nat \ {0}
       /\ Represents(heap, call.curr,
                     Reached(dirs, call.path)[Count(call.path)])
  /\ OnlyMishapsHarm

(* A call that has returned searches nothing.                              *)
LEMMA Returned ==
  ASSUME pc' \in {"boot", "idle"}, call' = NoCall
  PROVE  SearchInv'
<1>1. NoCall.astray = FALSE
  BY DEF NoCall
<1> QED
  BY <1>1 DEF SearchInv, OnlyMishapsHarm

(* Nor does one that has gone wild.                                        *)
LEMMA Wild ==
  ASSUME SearchInv, NEW whys, GoWild(whys), OnlyMishapsHarm'
  PROVE  SearchInv'
<1>1. /\ pc' = "wild" /\ mishaps' = mishaps \cup whys
      /\ UNCHANGED <<heap, file_descriptors, call, result>>
  BY DEF GoWild
<1> QED
  BY <1>1 DEF SearchInv

(* A failure may lead anywhere.                                            *)
LEMMA FailureSearches ==
  ASSUME SearchInv, NEW why \in Failures, GoWild({why})
  PROVE  SearchInv'
<1>1. OnlyMishapsHarm'
  BY FailureShows DEF OnlyMishapsHarm
<1> QED
  BY <1>1, Wild

(* Otherwise only what was not found leads astray, or an array that was    *)
(* never reserved.                                                         *)
LEMMA WildFinds ==
  ASSUME SearchInv, FilesInv', GoWild({}), call = NoCall \/ call.curr # 0
  PROVE  SearchInv'
<1>1. pc' = "wild" /\ call' = call
  BY DEF GoWild
<1>2. ~Intact' \/ StrayTaken'
  BY <1>1 DEF FilesInv, ItemsInv, StrayUsed
<1>3. OnlyMishapsHarm'
  BY <1>2 DEF OnlyMishapsHarm
<1> QED
  BY <1>3, Wild

(* The list of parts stays when its objects do. *)
PathKinds == {"root", "part", "name"}

PathSpared(h, g) == \A b \in Blocks : h[b].kind \in PathKinds => g[b] = h[b]

LEMMA NameStays ==
  ASSUME NEW h, NEW g, PathSpared(h, g), NEW b, NEW path, NEW j,
         IsName(h, b, path, j)
  PROVE  IsName(g, b, path, j)
<1>1. b \in Blocks /\ h[b].kind = "name"
  BY DEF IsName
<1>2. g[b] = h[b]
  BY <1>1 DEF PathSpared, PathKinds
<1> QED
  BY <1>2, Zenon DEF IsName

LEMMA ListedStays ==
  ASSUME NEW h, NEW g, PathSpared(h, g), NEW root, NEW path, NEW n \in Nat,
         NEW ps, Listed(h, root, path, n, ps)
  PROVE  Listed(g, root, path, n, ps)
<1>1. /\ ps \in [1..n -> Blocks] /\ root \in Blocks /\ h[root].kind = "root"
      /\ h[root].first = IF n = 0 THEN 0 ELSE ps[1]
  BY Zenon DEF Listed
<1>2. g[root] = h[root]
  BY <1>1 DEF PathSpared, PathKinds
<1>3. ASSUME NEW j \in 1..n
      PROVE  IsPart(g, ps[j], IF j = n THEN 0 ELSE ps[j + 1], path, j)
  <2>1. PICK next : next = IF j = n THEN 0 ELSE ps[j + 1]
    OBVIOUS
  <2>2. IsPart(h, ps[j], next, path, j)
    BY <2>1, Zenon DEF Listed
  <2>3. ps[j] \in Blocks
    BY <1>1
  <2>4. h[ps[j]].kind = "part"
    BY <2>2 DEF IsPart
  <2>5. g[ps[j]] = h[ps[j]]
    BY <2>3, <2>4 DEF PathSpared, PathKinds
  <2>6. IsName(g, h[ps[j]].name, path, j)
    BY <2>2, NameStays, Zenon DEF IsPart
  <2> QED
    BY <2>1, <2>2, <2>5, <2>6, Zenon DEF IsPart
<1> QED
  BY <1>1, <1>2, <1>3, Zenon DEF Listed

LEMMA WholeStays ==
  ASSUME NEW h, NEW g, PathSpared(h, g), NEW root, NEW path, NEW ps,
         Whole(h, root, path, ps)
  PROVE  Whole(g, root, path, ps)
BY ListedStays, Zenon DEF Whole

(* So does an item.                                                        *)
LEMMA RepresentsStays ==
  ASSUME NEW h, NEW g, NEW x, NEW e, Represents(h, x, e),
         g[x] = h[x], g[h[x].ref] = h[h[x].ref]
  PROVE  Represents(g, x, e)
BY DEF Represents

-----------------------------------------------------------------------------
(* The steps of fopen up to the parsed path. *)

LEMMA FopenSearches ==
  ASSUME FilesInv, SearchInv, NEW o \in Opens, fopen(o)
  PROVE  SearchInv'
<1>1. /\ pc' = "root" /\ UNCHANGED <<dirs, heap, mishaps>>
      /\ pathparser_path_valid_format(o.path)
      /\ call' = [NoCall EXCEPT !.path = o.path, !.mode = o.mode,
                                !.rest = SubSeq(o.path, 4, Len(o.path))]
  BY DEF fopen
<1>2. /\ call'.path = o.path /\ call'.part = 0 /\ call'.astray = FALSE
      /\ call'.rest = SubSeq(o.path, 4, Len(o.path))
  BY <1>1 DEF NoCall
<1>3. IsPath(o.path)
  BY <1>1, FileSystemAssumption DEF IsPath, pathparser_path_valid_format
<1> QED
  BY <1>1, <1>2, <1>3 DEF SearchInv, OnlyMishapsHarm

LEMMA CreateRootSearches ==
  ASSUME FilesInv, SearchInv, FilesInv', pathparser_create_root
  PROVE  SearchInv'
<1>1. PICK root \in {kzalloc({})} :
        IF root = 0 THEN GoWild({"no memory"})
        ELSE /\ heap' = Put(heap, root, [kind |-> "root", first |-> 0])
             /\ call' = [call EXCEPT !.root = root]
             /\ pc' = "parts"
             /\ UNCHANGED <<file_descriptors, result, mishaps>>
  BY DEF pathparser_create_root
<1>2. pc = "root" /\ UNCHANGED <<dirs, mounted, opens>>
  BY DEF pathparser_create_root
<1>3. CASE root = 0
  BY <1>1, <1>3, FailuresAre, FailureSearches
<1>4. CASE root # 0
  <2>1. /\ heap' = Put(heap, root, [kind |-> "root", first |-> 0])
        /\ call' = [call EXCEPT !.root = root]
        /\ pc' = "parts"
        /\ UNCHANGED <<file_descriptors, result, mishaps>>
    BY <1>1, <1>4
  <2>2. root \in Blocks
    BY <1>4, KzallocReturns
  <2>3. heap'[root] = [kind |-> "root", first |-> 0]
    BY <2>1, <2>2, PutChanges
  <2>4. /\ call'.root = root /\ call'.path = call.path
        /\ call'.part = call.part /\ call'.rest = call.rest
        /\ call'.astray = call.astray
    BY <2>1 DEF FilesInv, TypesInv, CallFields
  <2>5. /\ IsPath(call.path) /\ call.part = 0
        /\ \E o \in Opens : o.path = call.path
        /\ call.rest = SubSeq(call.path, 4, Len(call.path))
        /\ call.astray \in BOOLEAN
    BY <1>2 DEF SearchInv
  <2> DEFINE ps == [j \in 1..0 |-> root]
  <2>6. Listed(heap', root, call.path, 0, ps)
    BY <2>2, <2>3 DEF Listed
  <2>7. Parsed(heap', call', 0, ps, 3)
    <3>1. 3 \in Slashes(call.path) /\ Rank(call.path, 3) = 0
      BY <2>5, SlashesAre, FirstAndLast
    <3>2. 3 + 1 = 4 /\ 0 \in Nat /\ 1..0 = {}
      OBVIOUS
    <3> HIDE DEF ps
    <3>3. /\ call'.rest = SubSeq(call'.path, 3 + 1, Len(call'.path))
          /\ Listed(heap', call'.root, call'.path, 0, ps)
      BY <2>4, <2>5, <2>6, <3>2, Zenon
    <3>4. \A k \in 1..0 : NameAt(call'.path, k) # <<>>
      BY <3>2, Zenon
    <3> QED
      BY <2>4, <2>5, <3>1, <3>2, <3>3, <3>4, Zenon DEF Parsed
  <2> HIDE DEF ps
  <2>8. \E n, qs, p : Parsed(heap', call', n, qs, p)
    BY <2>7, Zenon
  <2> QED
    BY <2>1, <2>4, <2>5, <2>8 DEF SearchInv, OnlyMishapsHarm
<1> QED
  BY <1>3, <1>4

(* The part that is cut is the next name.                                  *)
LEMMA PartIsNext ==
  ASSUME NEW n, NEW ps, NEW p, IsPath(call.path),
         Parsed(heap, call, n, ps, p), PartLength > 0
  PROVE  \E q : /\ q \in Slashes(call.path) /\ Rank(call.path, q) = n + 1
                /\ SubSeq(call.rest, 1, PartLength) = NameAt(call.path, n + 1)
                /\ NameAt(call.path, n + 1) # <<>>
                /\ IsCut(call.path, NameAt(call.path, n + 1))
                /\ SubSeq(call.rest, PartLength + 2, Len(call.rest))
                     = SubSeq(call.path, q + 1, Len(call.path))
<1>1. PICK path, q : path = call.path /\ q = p + PartLength + 1
  BY Zenon
<1>2. /\ n \in Nat /\ p \in Slashes(path) /\ Rank(path, p) = n
      /\ call.rest = SubSeq(path, p + 1, Len(path)) /\ IsPath(path)
  BY <1>1, Zenon DEF Parsed
<1>3. PartLength \in Nat /\ PartIsName(path, p, q)
  <2>1. /\ PartLength \in Nat
        /\ p = Len(path) + 1 => PartLength = 0
        /\ p # Len(path) + 1 => PartIsName(path, p, p + PartLength + 1)
    BY <1>2, PartIs, Zenon
  <2>2. ~(0 > 0)
    OBVIOUS
  <2> QED
    BY <1>1, <2>1, <2>2, Zenon
<1>4. /\ q \in Slashes(path) /\ p < q
      /\ \A r \in Slashes(path) : ~(p < r /\ r < q)
      /\ SubSeq(call.rest, 1, PartLength) = SubSeq(path, p + 1, q - 1)
      /\ SubSeq(call.rest, PartLength + 2, Len(call.rest))
           = SubSeq(path, q + 1, Len(path))
  BY <1>3, Zenon DEF PartIsName
<1>5. Rank(path, q) = n + 1
  BY <1>2, <1>4, NextRank
<1>6. Slash(path, n + 1) = p /\ Slash(path, (n + 1) + 1) = q
  BY <1>2, <1>4, <1>5, SlashIs, Zenon
<1>7. NameAt(path, n + 1) = SubSeq(path, p + 1, q - 1)
  BY <1>6, Zenon DEF NameAt
<1>8. PICK i, j : i = p + 1 /\ j = q - 1
  BY Zenon
<1>9. i \in 1..Len(path) /\ j \in 1..Len(path) /\ i <= j /\ Len(path) \in Nat
  <2>1. Len(path) \in Nat /\ Slashes(path) \subseteq 3..(Len(path) + 1)
    BY <1>2, SlashesAre
  <2> QED
    BY <1>1, <1>2, <1>3, <1>4, <1>8, <2>1
<1>10. IsCut(path, SubSeq(path, i, j))
  BY <1>9, Zenon DEF IsCut
<1>11. SubSeq(path, i, j) # <<>>
  <2>1. \A k \in i..j : path[k] \in STRING
    <3>1. \A k \in 1..Len(path) : path[k] \in STRING
      BY <1>2, ElementOfSeq DEF IsPath
    <3> QED
      BY <1>9, <3>1
  <2>2. i \in Int /\ j \in Int
    BY <1>9
  <2>3. Len(SubSeq(path, i, j)) = IF i <= j THEN j - i + 1 ELSE 0
    BY ONLY <2>1, <2>2, SubSeqProperties
  <2>4. Len(SubSeq(path, i, j)) # 0
    BY <1>9, <2>3
  <2>5. Len(<<>>) = 0
    OBVIOUS
  <2> QED
    BY <2>4, <2>5, Zenon
<1> QED
  BY <1>1, <1>4, <1>5, <1>7, <1>8, <1>10, <1>11, Zenon

(* The list with one part more.                                            *)
ListedTo(h, root, path, n, part) ==
  \E qs : Listed(h, root, path, n, qs) /\ qs[n] = part

LEMMA ListedMore ==
  ASSUME FilesInv, pc = "parts",
         NEW n \in Nat, NEW ps, NEW path, Listed(heap, call.root, path, n, ps),
         call.part = IF n = 0 THEN 0 ELSE ps[n],
         NEW name \in Blocks, heap[name] = Free,
         NEW part \in Blocks, part # name, heap[part] = Free,
         heap' = Appended(name, part, NameAt(path, n + 1)),
         IsCut(path, NameAt(path, n + 1))
  PROVE  ListedTo(heap', call.root, path, n + 1, part)
<1>0. Free.kind = "free" /\ 0 \notin Blocks
  BY FreeIsObject, PointersAre
<1>1. /\ heap'[part] = [kind |-> "part", name |-> name, next |-> 0]
      /\ \A b \in Blocks \ {part} :
           \/ b # name /\ heap'[b] = heap[b]
           \/ b = name /\ heap'[b] = [kind |-> "name",
                                      text |-> NameAt(path, n + 1)]
           \/ /\ b = call.root /\ heap[b].kind = "root"
              /\ heap'[b] = [kind |-> "root", first |-> part]
           \/ /\ b = call.part /\ heap[b].kind = "part"
              /\ heap'[b] = [kind |-> "part", name |-> heap[b].name,
                             next |-> part]
  <2>1. PICK text : text = NameAt(path, n + 1)
    BY Zenon
  <2>2. heap' = Appended(name, part, text)
    BY <2>1
  <2>3. /\ heap'[part] = [kind |-> "part", name |-> name, next |-> 0]
        /\ \A b \in Blocks \ {part} :
             \/ b # name /\ heap'[b] = heap[b]
             \/ b = name /\ heap'[b] = [kind |-> "name", text |-> text]
             \/ /\ b = call.root /\ heap[b].kind = "root"
                /\ heap'[b] = [kind |-> "root", first |-> part]
             \/ /\ b = call.part /\ heap[b].kind = "part"
                /\ heap'[b] = [kind |-> "part", name |-> heap[b].name,
                               next |-> part]
    <3>1. /\ FilesInv /\ pc = "parts" /\ part \in Blocks /\ part # name
          /\ heap[part] = Free
          /\ name = 0 \/ (name \in Blocks /\ heap[name] = Free)
      OBVIOUS
    <3> QED
      BY ONLY <2>2, <3>1, PartAppended
  <2> QED
    BY <2>1, <2>3
<1>2. /\ ps \in [1..n -> Blocks]
      /\ call.root \in Blocks /\ heap[call.root].kind = "root"
      /\ heap[call.root].first = IF n = 0 THEN 0 ELSE ps[1]
      /\ \A j \in 1..n :
           IsPart(heap, ps[j], IF j = n THEN 0 ELSE ps[j + 1], path, j)
  BY Zenon DEF Listed
<1> DEFINE qs == [j \in 1..(n + 1) |-> IF j = n + 1 THEN part ELSE ps[j]]
<1>3. /\ qs \in [1..(n + 1) -> Blocks] /\ qs[n + 1] = part
      /\ \A j \in 1..n : qs[j] = ps[j] /\ ps[j] \in Blocks
  BY <1>2
<1>4. heap'[name] = [kind |-> "name", text |-> NameAt(path, n + 1)]
  BY <1>0, <1>1, <1>2
<1>5. IsName(heap', name, path, n + 1)
  BY <1>4, Zenon DEF IsName
<1>6. IsPart(heap', part, 0, path, n + 1)
  BY <1>1, <1>5 DEF IsPart
<1>7. ASSUME NEW b, NEW j, IsName(heap, b, path, j)
      PROVE  IsName(heap', b, path, j)
  <2>1. b \in Blocks /\ heap[b].kind = "name"
    BY <1>7 DEF IsName
  <2>2. heap'[b] = heap[b]
    BY <1>0, <1>1, <2>1
  <2> QED
    BY <1>7, <2>2, Zenon DEF IsName
<1>8. ASSUME NEW j \in 1..n
      PROVE  IsPart(heap', ps[j], qs[j + 1], path, j)
  <2>1. PICK b : b = ps[j]
    OBVIOUS
  <2>2. /\ b \in Blocks /\ heap[b].kind = "part"
        /\ heap[b].next = IF j = n THEN 0 ELSE ps[j + 1]
        /\ IsName(heap, heap[b].name, path, j)
    BY <1>2, <1>3, <2>1 DEF IsPart
  <2>3. CASE j = n
    <3>1. b = call.part /\ qs[j + 1] = part
      BY <1>3, <2>1, <2>3
    <3>2. CASE heap'[b] = heap[b]
      <4>1. heap'[call.part].next = part
        <5>1. call.part # 0 /\ call.part # part /\ call.part \in Blocks
          BY <1>0, <2>2, <3>1
        <5>2. heap' = Link(Put(Put(heap, name,
                        [kind |-> "name", text |-> NameAt(path, n + 1)]), part,
                        [kind |-> "part", name |-> name, next |-> 0]), part)
          BY Zenon DEF Appended
        <5>3. PICK g : g = Put(Put(heap, name,
                        [kind |-> "name", text |-> NameAt(path, n + 1)]), part,
                        [kind |-> "part", name |-> name, next |-> 0])
          BY Zenon
        <5>4. g[call.part] = heap[call.part] /\ g = [c \in Blocks |-> g[c]]
          BY <1>0, <2>2, <3>1, <5>1, <5>3 DEF Put
        <5>5. heap' = [g EXCEPT ![call.part].next = part]
          BY <5>1, <5>2, <5>3 DEF Link
        <5>6. heap'[call.part] = [g[call.part] EXCEPT !.next = part]
          BY <5>1, <5>4, <5>5
        <5>7. heap[b] = [kind |-> "part", name |-> heap[b].name,
                         next |-> heap[b].next]
          BY <2>2 DEF FilesInv, TypesInv, IsObject
        <5> QED
          BY <3>1, <5>4, <5>6, <5>7
      <4>2. heap[b].next = 0 /\ part # 0
        BY <1>0, <2>2, <2>3
      <4> QED
        BY <3>1, <3>2, <4>1, <4>2
    <3>3. CASE heap'[b] = [kind |-> "part", name |-> heap[b].name,
                           next |-> part]
      BY <1>7, <2>1, <2>2, <3>1, <3>3 DEF IsPart
    <3> QED
      BY <1>0, <1>1, <2>2, <3>2, <3>3
  <2>4. CASE j # n
    <3>1. qs[j + 1] = ps[j + 1] /\ ps[j + 1] \in Blocks /\ n # 0
      BY <1>2, <2>4
    <3>2. b # call.part
      <4>1. heap[ps[n]].next = 0
        BY <1>2, <3>1 DEF IsPart
      <4>2. heap[b].next # 0
        BY <1>0, <2>2, <2>4, <3>1
      <4> QED
        BY <3>1, <4>1, <4>2
    <3>3. heap'[b] = heap[b]
      BY <1>0, <1>1, <2>2, <3>2
    <3> QED
      BY <1>7, <2>1, <2>2, <2>4, <3>1, <3>3 DEF IsPart
  <2> QED
    BY <2>3, <2>4
<1>9. heap'[call.root].kind = "root" /\ heap'[call.root].first = qs[1]
  <2>1. CASE n = 0
    <3>1. qs[1] = part /\ call.part = 0
      BY <2>1
    <3>2. heap' = Link(Put(Put(heap, name,
                    [kind |-> "name", text |-> NameAt(path, n + 1)]), part,
                    [kind |-> "part", name |-> name, next |-> 0]), part)
      BY Zenon DEF Appended
    <3>3. PICK g : g = Put(Put(heap, name,
                    [kind |-> "name", text |-> NameAt(path, n + 1)]), part,
                    [kind |-> "part", name |-> name, next |-> 0])
      BY Zenon
    <3>4. g[call.root] = heap[call.root] /\ g = [c \in Blocks |-> g[c]]
      BY <1>0, <1>2, <3>3 DEF Put
    <3>5. heap' = [g EXCEPT ![call.root].first = part]
      BY <3>1, <3>2, <3>3 DEF Link
    <3>6. heap'[call.root] = [g[call.root] EXCEPT !.first = part]
      BY <1>2, <3>4, <3>5
    <3>7. heap[call.root] = [kind |-> "root",
                             first |-> heap[call.root].first]
      BY <1>2 DEF FilesInv, TypesInv, IsObject
    <3> QED
      BY <3>1, <3>4, <3>6, <3>7
  <2>2. CASE n # 0
    <3>1. qs[1] = ps[1] /\ ps[1] \in Blocks /\ n \in 1..n /\ 1 \in 1..n
      BY <1>2, <2>2
    <3>2. call.part \in Blocks
      BY <1>2, <2>2, <3>1
    <3>3. heap'[call.root] = heap[call.root]
      <4>2. heap' = Link(Put(Put(heap, name,
                      [kind |-> "name", text |-> NameAt(path, n + 1)]), part,
                      [kind |-> "part", name |-> name, next |-> 0]), part)
        BY Zenon DEF Appended
      <4>3. PICK g : g = Put(Put(heap, name,
                      [kind |-> "name", text |-> NameAt(path, n + 1)]), part,
                      [kind |-> "part", name |-> name, next |-> 0])
        BY Zenon
      <4>4. g[call.root] = heap[call.root] /\ g = [c \in Blocks |-> g[c]]
        BY <1>0, <1>2, <4>3 DEF Put
      <4>5. heap' = [g EXCEPT ![call.part].next = part]
        BY <1>0, <3>2, <4>2, <4>3 DEF Link
      <4>6. call.part # call.root
        <5>1. heap[ps[n]].kind = "part"
          BY <1>2, <3>1 DEF IsPart
        <5> QED
          BY <1>2, <2>2, <5>1
      <4> QED
        BY <1>2, <4>4, <4>5, <4>6
    <3> QED
      BY <1>2, <2>2, <3>1, <3>3
  <2> QED
    BY <2>1, <2>2
<1>10. ASSUME NEW j \in 1..(n + 1)
       PROVE  IsPart(heap', qs[j], IF j = n + 1 THEN 0 ELSE qs[j + 1], path, j)
  <2>1. CASE j = n + 1
    BY <1>3, <1>6, <2>1, Zenon
  <2>2. CASE j # n + 1
    <3>1. j \in 1..n
      BY <2>2
    <3> HIDE DEF qs
    <3> QED
      BY <1>3, <1>8, <2>2, <3>1, Zenon
  <2> QED
    BY <2>1, <2>2
<1> HIDE DEF qs
<1>11. Listed(heap', call.root, path, n + 1, qs)
  <2>1. n + 1 # 0
    OBVIOUS
  <2> QED
    BY <1>2, <1>3, <1>9, <1>10, <2>1, Zenon DEF Listed
<1> QED
  BY <1>3, <1>11, Zenon DEF ListedTo

LEMMA ParsePartSearches ==
  ASSUME FilesInv, SearchInv, FilesInv', pathparser_parse_path_part
  PROVE  SearchInv'
<1>0. /\ pc = "parts" /\ PartLength > 0 /\ UNCHANGED <<dirs, mounted, opens>>
  BY DEF pathparser_parse_path_part
<1> DEFINE Taken(name, part) ==
             IF part = 0 THEN GoWild({"no memory"})
             ELSE /\ heap' =
                       Link(Put(Put(heap, name,
                                    [kind |-> "name",
                                     text |-> SubSeq(call.rest, 1,
                                                     PartLength)]),
                                part, [kind |-> "part", name |-> name,
                                       next |-> 0]),
                            part)
                  /\ call' = [call EXCEPT
                                !.part = part,
                                !.rest = SubSeq(@, PartLength + 2, Len(@))]
                  /\ UNCHANGED <<file_descriptors, pc, result, mishaps>>
<1>1. PICK name \in {kzalloc({})} :
        \E part \in {kzalloc({name})} : Taken(name, part)
  BY DEF pathparser_parse_path_part
<1>2. PICK part \in {kzalloc({name})} : Taken(name, part)
  BY <1>1
<1>3. CASE part = 0
  BY <1>2, <1>3, FailuresAre, FailureSearches
<1>4. CASE part # 0
  <2>1. part \in Blocks /\ part # name /\ heap[part] = Free
    BY <1>4, KzallocReturns
  <2>2. name \in Blocks /\ heap[name] = Free
    <3>1. name # 0
      BY <2>1, NullWhenFull
    <3> QED
      BY <3>1, KzallocReturns
  <2>3. /\ IsPath(call.path) /\ \E o \in Opens : o.path = call.path
        /\ call.astray \in BOOLEAN
        /\ \E n, ps, p : Parsed(heap, call, n, ps, p)
    BY <1>0 DEF SearchInv
  <2>4. PICK n, ps, p : Parsed(heap, call, n, ps, p)
    BY <2>3, Zenon
  <2>5. PICK q : /\ q \in Slashes(call.path) /\ Rank(call.path, q) = n + 1
                 /\ SubSeq(call.rest, 1, PartLength) = NameAt(call.path, n + 1)
                 /\ NameAt(call.path, n + 1) # <<>>
                 /\ IsCut(call.path, NameAt(call.path, n + 1))
                 /\ SubSeq(call.rest, PartLength + 2, Len(call.rest))
                      = SubSeq(call.path, q + 1, Len(call.path))
    BY <1>0, <2>3, <2>4, PartIsNext
  <2>6. /\ heap' = Appended(name, part, NameAt(call.path, n + 1))
        /\ call' = [call EXCEPT !.part = part,
                                !.rest = SubSeq(call.path, q + 1,
                                                Len(call.path))]
        /\ UNCHANGED <<file_descriptors, pc, result, mishaps>>
    <3>1. /\ heap' = Appended(name, part, SubSeq(call.rest, 1, PartLength))
          /\ call' = [call EXCEPT
                        !.part = part,
                        !.rest = SubSeq(@, PartLength + 2, Len(@))]
          /\ UNCHANGED <<file_descriptors, pc, result, mishaps>>
      BY <1>2, <1>4, Zenon DEF Appended
    <3> QED
      BY <2>5, <3>1, Zenon
  <2>7. /\ call'.part = part /\ call'.path = call.path
        /\ call'.rest = SubSeq(call.path, q + 1, Len(call.path))
        /\ call'.root = call.root /\ call'.astray = call.astray
    BY <2>6 DEF FilesInv, TypesInv, CallFields
  <2>8. /\ n \in Nat /\ Listed(heap, call.root, call.path, n, ps)
        /\ call.part = IF n = 0 THEN 0 ELSE ps[n]
        /\ \A k \in 1..n : NameAt(call.path, k) # <<>>
    BY <2>4, Zenon DEF Parsed
  <2>9. PICK qs : /\ Listed(heap', call.root, call.path, n + 1, qs)
                  /\ qs[n + 1] = part
    <3>1. PICK path : path = call.path
      BY Zenon
    <3>2. ListedTo(heap', call.root, path, n + 1, part)
      <4>1. /\ Listed(heap, call.root, path, n, ps)
            /\ heap' = Appended(name, part, NameAt(path, n + 1))
            /\ IsCut(path, NameAt(path, n + 1))
        BY <2>5, <2>6, <2>8, <3>1, Zenon
      <4> QED
        BY <1>0, <2>1, <2>2, <2>8, <4>1, ListedMore, Zenon
    <3> QED
      BY <3>1, <3>2, Zenon DEF ListedTo
  <2>10. Parsed(heap', call', n + 1, qs, q)
    <3>1. /\ n + 1 \in Nat /\ n + 1 # 0
          /\ \A k \in 1..(n + 1) : k \in 1..n \/ k = n + 1
      BY <2>8
    <3>2. \A k \in 1..(n + 1) : NameAt(call.path, k) # <<>>
      BY <2>5, <2>8, <3>1, Zenon
    <3> QED
      BY <2>5, <2>7, <2>9, <3>1, <3>2, Zenon DEF Parsed
  <2>11. \E m, rs, r : Parsed(heap', call', m, rs, r)
    BY <2>10, Zenon
  <2> QED
    BY <1>0, <2>3, <2>6, <2>7, <2>11 DEF SearchInv, OnlyMishapsHarm
<1> QED
  BY <1>3, <1>4

LEMMA ParseEndSearches ==
  ASSUME FilesInv, SearchInv, FilesInv', pathparser_parse_end
  PROVE  SearchInv'
<1>0. /\ pc = "parts" /\ PartLength = 0 /\ UNCHANGED <<dirs, mounted, opens>>
  BY DEF pathparser_parse_end
<1>1. CASE kzalloc({}) = 0
  <2>1. GoWild({"no memory"})
    BY <1>1 DEF pathparser_parse_end
  <2> QED
    BY <2>1, FailuresAre, FailureSearches
<1>2. CASE kzalloc({}) # 0
  <2>1. /\ pc' = "opening"
        /\ UNCHANGED <<heap, file_descriptors, call, result, mishaps>>
    BY <1>2 DEF pathparser_parse_end
  <2>2. /\ IsPath(call.path) /\ \E o \in Opens : o.path = call.path
        /\ call.astray \in BOOLEAN
        /\ \E n, ps, p : Parsed(heap, call, n, ps, p)
    BY <1>0 DEF SearchInv
  <2>3. PICK n, ps, p : Parsed(heap, call, n, ps, p)
    BY <2>2, Zenon
  <2>4. PICK path : path = call.path
    BY Zenon
  <2>5. /\ n \in Nat /\ p \in Slashes(path) /\ Rank(path, p) = n
        /\ call.rest = SubSeq(path, p + 1, Len(path)) /\ IsPath(path)
        /\ Listed(heap, call.root, path, n, ps)
        /\ \A k \in 1..n : NameAt(path, k) # <<>>
    BY <2>2, <2>3, <2>4, Zenon DEF Parsed
  <2>6. NamesEnd(path, n, p)
    <3>1. CASE p = Len(path) + 1
      BY <2>5, <3>1, Zenon DEF NamesEnd
    <3>2. CASE p # Len(path) + 1
      <4>1. PartIsName(path, p, p + PartLength + 1)
        BY <2>5, <3>2, PartIs, Zenon
      <4>2. PICK q : q = p + PartLength + 1 /\ PartIsName(path, p, q)
        BY <4>1, Zenon
      <4>3. /\ q \in Slashes(path) /\ p < q
            /\ \A r \in Slashes(path) : ~(p < r /\ r < q)
        BY <4>2, Zenon DEF PartIsName
      <4>4. Rank(path, q) = n + 1
        BY <2>5, <4>3, NextRank
      <4>5. NameAt(path, n + 1) = SubSeq(path, p + 1, q - 1)
        BY <2>5, <4>3, <4>4, SlashIs, Zenon DEF NameAt
      <4>6. q - 1 < p + 1 /\ p + 1 \in Int /\ q - 1 \in Int
        <5>1. p \in Nat
          BY <2>5, SlashesAre
        <5> QED
          BY <1>0, <4>2, <5>1
      <4>7. SubSeq(path, p + 1, q - 1) = <<>>
        BY <4>6, SubSeqEmpty
      <4> QED
        BY <2>5, <4>5, <4>7, Zenon DEF NamesEnd
    <3> QED
      BY <3>1, <3>2
  <2>7. AreNames(Names(path), path, n)
    BY <2>5, <2>6, NamesAre, Zenon
  <2>8. Count(path) = n
    BY <2>7, Zenon DEF AreNames, Count
  <2>9. Whole(heap, call.root, path, ps)
    BY <2>5, <2>7, <2>8, Zenon DEF Whole
  <2>10. \E qs : Whole(heap', call'.root, call'.path, qs)
    BY <2>1, <2>4, <2>9, Zenon
  <2> QED
    BY <1>0, <2>1, <2>2, <2>10 DEF SearchInv, OnlyMishapsHarm
<1> QED
  BY <1>1, <1>2

-----------------------------------------------------------------------------
(* The steps of the search. *)

(* What comes into blocks that were free leaves the path alone.            *)
LEMMA FreshSpares ==
  ASSUME \A b \in Blocks : heap[b] # Free => heap'[b] = heap[b]
  PROVE  PathSpared(heap, heap')
<1>1. Free.kind = "free"
  BY FreeIsObject
<1> QED
  BY <1>1 DEF PathSpared, PathKinds

LEMMA OpenSearches ==
  ASSUME FilesInv, SearchInv, FilesInv', fat16_open
  PROVE  SearchInv'
<1>0. pc = "opening" /\ Openable /\ UNCHANGED <<dirs, file_descriptors>>
  BY DEF fat16_open
<1>1. PICK desc \in {kzalloc({})} :
        IF desc = 0
        THEN /\ Return(heap, 0)
             /\ mishaps' = mishaps \cup {"no memory"}
        ELSE /\ heap' = Put(heap, desc, [kind |-> "descriptor", item |-> 0,
                                         pos |-> 0, relative |-> FALSE])
             /\ call' = [call EXCEPT !.desc = desc, !.i = 1,
                                     !.part = heap[call.root].first]
             /\ pc' = "find"
             /\ UNCHANGED <<result, mishaps>>
  BY DEF fat16_open
<1>2. CASE desc = 0
  <2>1. pc' = "idle" /\ call' = NoCall
    BY <1>1, <1>2 DEF Return
  <2> QED
    BY <2>1, Returned
<1>3. CASE desc # 0
  <2>1. /\ heap' = Put(heap, desc, [kind |-> "descriptor", item |-> 0,
                                    pos |-> 0, relative |-> FALSE])
        /\ call' = [call EXCEPT !.desc = desc, !.i = 1,
                                !.part = heap[call.root].first]
        /\ pc' = "find"
        /\ UNCHANGED <<result, mishaps>>
    BY <1>1, <1>3
  <2>2. desc \in Blocks /\ heap[desc] = Free
    BY <1>3, KzallocReturns
  <2>3. \A b \in Blocks : b # desc => heap'[b] = heap[b]
    BY <2>1, <2>2, PutChanges
  <2>4. PathSpared(heap, heap')
    BY <2>2, <2>3, FreshSpares
  <2>5. /\ call'.part = heap[call.root].first /\ call'.path = call.path
        /\ call'.root = call.root /\ call'.astray = call.astray
        /\ call'.dir = call.dir /\ call'.found = call.found /\ call'.i = 1
    BY <2>1 DEF FilesInv, TypesInv, CallFields
  <2>6. /\ IsPath(call.path) /\ \E o \in Opens : o.path = call.path
        /\ call.astray \in BOOLEAN
        /\ \E ps : Whole(heap, call.root, call.path, ps)
    BY <1>0 DEF SearchInv
  <2>7. PICK ps : Whole(heap, call.root, call.path, ps)
    BY <2>6, Zenon
  <2>8. Whole(heap', call'.root, call'.path, ps)
    BY <2>4, <2>5, <2>7, WholeStays, Zenon
  <2>9. PICK path, n : path = call.path /\ n = Count(path)
    BY Zenon
  <2>10. n \in Nat /\ n # 0 /\ heap[call.root].first = ps[1]
    <3>1. n \in Nat /\ Listed(heap, call.root, path, n, ps)
      BY <2>7, <2>9, Zenon DEF Whole
    <3>2. heap[call.root].first = IF n = 0 THEN 0 ELSE ps[1]
      BY <3>1, Zenon DEF Listed
    <3> QED
      BY <1>0, <3>1, <3>2 DEF Openable
  <2>11. call.dir = 0 /\ call.found = 0
    BY <1>0 DEF FilesInv, CallInv
  <2>12. SeekingInv(heap', call', dirs', ps)
    <3>1. Reached(dirs, path)[0] = RootEntry
      BY <2>9, <2>10, ReachedIs
    <3>2. /\ 1 - 1 = 0 /\ 1 \in 1..n /\ 1..(call'.i - 1) = {}
      BY <2>5, <2>10
    <3>3. RootEntry.dir /\ RootEntry.first = Root
      BY DEF RootEntry
    <3>4. Seeking(heap', call', dirs, ps, 1)
      BY <2>5, <2>9, <2>10, <2>11, <3>1, <3>2, <3>3 DEF Seeking
    <3> QED
      BY <1>0, <2>5, <2>9, <3>2, <3>4, Zenon DEF SeekingInv
  <2>13. \E qs : /\ Whole(heap', call'.root, call'.path, qs)
                 /\ SeekingInv(heap', call', dirs', qs)
    BY <2>8, <2>12, Zenon
  <2> QED
    BY <2>1, <2>5, <2>6, <2>13 DEF SearchInv, OnlyMishapsHarm
<1> QED
  BY <1>2, <1>3

(* The only entry that is not deleted and has a name is its child.         *)
LEMMA ChildFound ==
  ASSUME UniqueNames, NEW v \in Volumes, NEW d \in DOMAIN v,
         NEW k \in DOMAIN v[d], Head(v[d][k].fname) # DELETED, NEW name,
         istrncmp_equal(fat16_get_full_relative_filename(v[d][k]), name)
  PROVE  Child(v[d], name) = v[d][k]
<1> DEFINE here == {l \in DOMAIN v[d] :
                      /\ Head(v[d][l].fname) # DELETED
                      /\ istrncmp_equal(
                           fat16_get_full_relative_filename(v[d][l]), name)}
<1>1. k \in here
  OBVIOUS
<1>2. ASSUME NEW l \in here
      PROVE  l = k
  <2>1. PICK s : s = fat16_get_full_relative_filename(v[d][k])
    BY Zenon
  <2>2. PICK t : t = fat16_get_full_relative_filename(v[d][l])
    BY Zenon
  <2>3. istrncmp_equal(s, name) /\ istrncmp_equal(t, name)
    BY <2>1, <2>2
  <2>4. k # l => \/ Len(s) # Len(t)
                 \/ \E i \in DOMAIN s \cap DOMAIN t :
                      tolower(s[i]) # tolower(t[i])
    BY <1>2, <2>1, <2>2 DEF UniqueNames
  <2> QED
    BY <2>3, <2>4 DEF istrncmp_equal
<1>3. Child(v[d], name) = IF here = {} THEN NoEntry
                          ELSE v[d][CHOOSE l \in here : TRUE]
  BY Zenon DEF Child
<1> HIDE DEF here
<1> QED
  BY <1>1, <1>2, <1>3

LEMMA ChildMissing ==
  ASSUME NEW v, NEW d, NEW name,
         \A k \in DOMAIN v[d] :
           ~istrncmp_equal(fat16_get_full_relative_filename(v[d][k]), name)
  PROVE  Child(v[d], name) = NoEntry
BY Zenon DEF Child

(* What the search compares.                                               *)
LEMMA SeekingIs ==
  ASSUME FilesInv, pc = "find", NEW ps, NEW j \in 1..Count(call.path),
         Whole(heap, call.root, call.path, ps),
         Seeking(heap, call, dirs, ps, j)
  PROVE  /\ Count(call.path) \in Nat
         /\ Searched = Reached(dirs, call.path)[j - 1].first
         /\ heap[heap[call.part].name].text = NameAt(call.path, j)
         /\ IsCut(call.path, NameAt(call.path, j))
         /\ Reached(dirs, call.path)[j]
              = Child(dirs[Searched], NameAt(call.path, j))
<1>1. PICK path, n : path = call.path /\ n = Count(path)
  BY Zenon
<1>2. /\ n \in Nat /\ AreNames(Names(path), path, n)
      /\ Listed(heap, call.root, path, n, ps)
  BY <1>1, Zenon DEF Whole
<1>3. /\ call.part = ps[j] /\ Reached(dirs, path)[j - 1].dir
      /\ Reached(dirs, path)[j - 1].first
           = IF call.dir = 0 THEN Root ELSE heap[call.dir].id
  BY <1>1 DEF Seeking
<1>4. Searched = Reached(dirs, path)[j - 1].first
  BY <1>3, Zenon DEF Searched
<1>5. IsPart(heap, ps[j], IF j = n THEN 0 ELSE ps[j + 1], path, j)
  BY <1>1, <1>2, Zenon DEF Listed
<1>6. IsName(heap, heap[call.part].name, path, j)
  BY <1>3, <1>5, Zenon DEF IsPart
<1>7. /\ heap[heap[call.part].name].text = NameAt(path, j)
      /\ IsCut(path, NameAt(path, j))
  BY <1>6 DEF IsName
<1>8. Reached(dirs, path)[j] = Child(dirs[Searched], NameAt(path, j))
  <2>1. Reached(dirs, path)[j]
          = Below(dirs, Reached(dirs, path)[j - 1], Names(path)[j])
    BY <1>1, <1>2, ReachedIs, ZenonT(60)
  <2>2. Names(path)[j] = NameAt(path, j)
    BY <1>1, <1>2, Zenon DEF AreNames
  <2> QED
    BY <1>3, <1>4, <2>1, <2>2, Zenon DEF Below
<1> QED
  BY <1>1, <1>2, <1>4, <1>7, <1>8, Zenon

(* The entry of a directory that fits is what the disk has there.          *)
LEMMA SeekingEntryIs ==
  ASSUME FilesInv, Searching, NEW ps, NEW j \in 1..Count(call.path),
         Whole(heap, call.root, call.path, ps),
         Seeking(heap, call, dirs, ps, j)
  PROVE  Entry = dirs[Searched][call.i]
<1>1. /\ call.i \in 1..Counted(dirs, Searched)
      /\ Counted(dirs, Searched) \in Nat
      /\ call.dir = 0 \/ call.i <= ClusterEntries =>
           Entry = dirs[Searched][call.i]
  BY EntryIs, CountedIs DEF FilesInv, TypesInv
<1>2. CASE call.dir # 0
  <2>1. PICK e : e = Reached(dirs, call.path)[j - 1]
    BY Zenon
  <2>2. Searched = e.first
    BY <2>1, SeekingIs, Zenon DEF Searching
  <2>3. e.dir /\ Fits(dirs, e)
    BY <1>2, <2>1, Zenon DEF Seeking
  <2>4. Counted(dirs, Searched) <= ClusterEntries
    BY <2>2, <2>3, Zenon DEF Fits
  <2> QED
    BY <1>1, <2>4, FileSystemAssumption
<1> QED
  BY <1>1, <1>2

LEMMA NoMatchSearches ==
  ASSUME FilesInv, SearchInv, FilesInv', find_no_match
  PROVE  SearchInv'
<1>1. /\ pc = "find" /\ pc' = "find" /\ ~Matches
      /\ call' = [call EXCEPT !.i = @ + 1]
      /\ UNCHANGED <<dirs, heap, mishaps>>
  BY DEF find_no_match, Searching
<1>2. /\ call'.path = call.path /\ call'.root = call.root
      /\ call'.part = call.part /\ call'.dir = call.dir
      /\ call'.found = call.found /\ call'.astray = call.astray
      /\ call'.i = call.i + 1 /\ call.i \in Nat
  BY <1>1 DEF FilesInv, TypesInv, CallFields
<1>3. /\ IsPath(call.path) /\ \E o \in Opens : o.path = call.path
      /\ call.astray \in BOOLEAN
      /\ \E ps : /\ Whole(heap, call.root, call.path, ps)
                 /\ Trusted => SeekingInv(heap, call, dirs, ps)
  BY <1>1 DEF SearchInv
<1>4. PICK ps : /\ Whole(heap, call.root, call.path, ps)
                /\ Trusted => SeekingInv(heap, call, dirs, ps)
  BY <1>3, Zenon
<1>5. ASSUME Trusted'
      PROVE  SeekingInv(heap', call', dirs', ps)
  <2>1. Trusted
    BY <1>1, <1>2, <1>5 DEF Trusted
  <2>2. PICK j \in 1..Count(call.path) : Seeking(heap, call, dirs, ps, j)
    BY <1>4, <2>1, Zenon DEF SeekingInv
  <2>3. /\ Searched = Reached(dirs, call.path)[j - 1].first
        /\ heap[heap[call.part].name].text = NameAt(call.path, j)
    BY <1>1, <1>4, <2>2, SeekingIs
  <2>4. PICK d, name : d = Searched /\ name = NameAt(call.path, j)
    BY Zenon
  <2>5. ~istrncmp_equal(
           fat16_get_full_relative_filename(dirs[d][call.i]), name)
    <3>1. Entry = dirs[d][call.i]
      BY <1>1, <1>4, <2>2, <2>4, SeekingEntryIs DEF find_no_match
    <3> QED
      BY <1>1, <2>3, <2>4, <3>1, Zenon DEF Matches
  <2>6. ASSUME call'.found = 0, ~HasDeleted(dirs), NEW k \in 1..(call'.i - 1)
        PROVE  ~istrncmp_equal(fat16_get_full_relative_filename(dirs[d][k]),
                               name)
    <3>1. CASE k = call.i
      BY <2>5, <3>1
    <3>2. CASE k # call.i
      <4>1. k \in 1..(call.i - 1)
        BY <1>2, <3>2
      <4> QED
        BY <1>2, <2>2, <2>3, <2>4, <2>6, <4>1, Zenon DEF Seeking
    <3> QED
      BY <3>1, <3>2
  <2>7. Seeking(heap, call', dirs, ps, j)
    BY <1>2, <2>2, <2>3, <2>4, <2>6, Zenon DEF Seeking
  <2> QED
    BY <1>1, <1>2, <2>7, Zenon DEF SeekingInv
<1>6. \E qs : /\ Whole(heap', call'.root, call'.path, qs)
              /\ Trusted' => SeekingInv(heap', call', dirs', qs)
  BY <1>1, <1>2, <1>4, <1>5, Zenon
<1> QED
  BY <1>1, <1>2, <1>3, <1>6 DEF SearchInv, OnlyMishapsHarm

(* What is found is what the path names so far.                            *)
FoundFor(item) ==
  /\ Searching /\ Matches /\ UNCHANGED <<dirs, pc>>
  /\ call' = [call EXCEPT !.i = @ + 1, !.found = item, !.astray = call'.astray]
  /\ call'.astray \in BOOLEAN
  /\ call.astray => call'.astray
  /\ \A b \in Blocks : heap[b] # Free => heap'[b] = heap[b]
  /\ ~call'.astray => /\ item # 0 /\ Represents(heap', item, Entry)
                     /\ heap[heap'[item].ref] = Free
                     /\ Fits(dirs, Entry)

LEMMA FoundSearches ==
  ASSUME FilesInv, SearchInv, UniqueNames, NEW item, FoundFor(item)
  PROVE  SearchInv'
<1>1. /\ Searching /\ Matches /\ dirs' = dirs /\ pc' = pc /\ pc = "find"
      /\ call' = [call EXCEPT !.i = @ + 1, !.found = item,
                              !.astray = call'.astray]
      /\ call'.astray \in BOOLEAN
      /\ call.astray => call'.astray
  BY DEF FoundFor, Searching
<1>2. /\ call'.path = call.path /\ call'.root = call.root
      /\ call'.part = call.part /\ call'.dir = call.dir
      /\ call'.found = item
  BY <1>1 DEF FilesInv, TypesInv, CallFields
<1>3. /\ IsPath(call.path) /\ \E o \in Opens : o.path = call.path
      /\ \E ps : /\ Whole(heap, call.root, call.path, ps)
                 /\ Trusted => SeekingInv(heap, call, dirs, ps)
  BY <1>1 DEF SearchInv
<1>4. PICK ps : /\ Whole(heap, call.root, call.path, ps)
                /\ Trusted => SeekingInv(heap, call, dirs, ps)
  BY <1>3, Zenon
<1>5. PathSpared(heap, heap')
  BY FreshSpares DEF FoundFor
<1>6. Whole(heap', call'.root, call'.path, ps)
  BY <1>2, <1>4, <1>5, WholeStays, Zenon
<1>7. ASSUME Trusted'
      PROVE  SeekingInv(heap', call', dirs', ps)
  <2>1. ~call'.astray /\ Trusted
    BY <1>1, <1>7 DEF Trusted
  <2>2. PICK j \in 1..Count(call.path) : Seeking(heap, call, dirs, ps, j)
    BY <1>4, <2>1, Zenon DEF SeekingInv
  <2>3. PICK d, name, k :
          /\ d = Searched /\ name = NameAt(call.path, j) /\ k = call.i
    BY Zenon
  <2>4. /\ d = Reached(dirs, call.path)[j - 1].first
        /\ heap[heap[call.part].name].text = name
        /\ IsCut(call.path, name)
        /\ Reached(dirs, call.path)[j] = Child(dirs[d], name)
    BY <1>1, <1>4, <2>2, <2>3, SeekingIs, Zenon
  <2>5. /\ dirs \in Volumes /\ d \in DOMAIN dirs /\ k \in DOMAIN dirs[d]
        /\ Entry = dirs[d][k]
    BY <1>1, <1>4, <2>2, <2>3, EntryIs, SeekingEntryIs DEF FilesInv, TypesInv
  <2>6. istrncmp_equal(fat16_get_full_relative_filename(dirs[d][k]), name)
    BY <1>1, <2>4, <2>5, Zenon DEF Matches
  <2>7. Head(dirs[d][k].fname) # DELETED
    <3>1. SUFFICES ASSUME Head(dirs[d][k].fname) = DELETED
                   PROVE  FALSE
      OBVIOUS
    <3>2. HasDeleted(dirs)
      BY <2>5, <3>1, Zenon DEF HasDeleted
    <3>3. DeletedUnnamed
      BY <2>1, <3>2, Zenon DEF Trusted
    <3>4. PICK o \in Opens : o.path = call.path
      BY <1>3
    <3>5. PICK a \in 1..Len(o.path), b \in 1..Len(o.path) :
            name = SubSeq(o.path, a, b)
      BY <2>4, <3>4, Zenon DEF IsCut
    <3>6. ~istrncmp_equal(fat16_get_full_relative_filename(dirs[d][k]),
                          SubSeq(o.path, a, b))
      BY <2>5, <3>1, <3>3, Zenon DEF DeletedUnnamed
    <3> QED
      BY <2>6, <3>5, <3>6, Zenon
  <2>8. Reached(dirs, call.path)[j] = Entry
    BY <2>4, <2>5, <2>6, <2>7, ChildFound, Zenon
  <2>9. /\ item # 0 /\ Represents(heap', item, Entry)
        /\ heap[heap'[item].ref] = Free /\ Fits(dirs, Entry)
        /\ \A b \in Blocks : heap[b] # Free => heap'[b] = heap[b]
    BY <2>1, Zenon DEF FoundFor
  <2>10. call.dir = 0 \/ (call.dir \in Blocks /\ heap[call.dir] # Free)
    <3>1. call.dir = 0 \/ Is(heap, call.dir, "dir")
      BY <1>1 DEF FilesInv, CallInv
    <3> QED
      BY <3>1, CallPointers, PointersAre, FreeIsObject DEF Is
  <2>11. heap'[item].ref # call.dir
    <3>1. heap'[item].ref \in Blocks
      BY <2>9 DEF Represents
    <3> QED
      BY <2>9, <2>10, <3>1, PointersAre
  <2>12. Seeking(heap', call', dirs, ps, j)
    <3>1. /\ call.part = ps[j] /\ Reached(dirs, call.path)[j - 1].dir
          /\ Reached(dirs, call.path)[j - 1].first
               = IF call.dir = 0 THEN Root ELSE heap[call.dir].id
          /\ call.dir # 0 => Fits(dirs, Reached(dirs, call.path)[j - 1])
      BY <2>2, Zenon DEF Seeking
    <3>2. call.dir # 0 => heap'[call.dir] = heap[call.dir]
      BY <2>9, <2>10
    <3>3. Reached(dirs, call.path)[j - 1].first
            = IF call'.dir = 0 THEN Root ELSE heap'[call'.dir].id
      BY <1>2, <3>1, <3>2
    <3> QED
      BY <1>2, <2>8, <2>9, <2>11, <3>1, <3>3, Zenon DEF Seeking
  <2> QED
    BY <1>1, <1>2, <2>12, Zenon DEF SeekingInv
<1>8. \E qs : /\ Whole(heap', call'.root, call'.path, qs)
              /\ Trusted' => SeekingInv(heap', call', dirs', qs)
  BY <1>6, <1>7, Zenon
<1> QED
  BY <1>1, <1>2, <1>3, <1>8 DEF SearchInv, OnlyMishapsHarm

(* Whether a call is astray is known.                                      *)
LEMMA AstrayIs ==
  ASSUME FilesInv, SearchInv, NEW item, NEW whys, Found(item, whys)
  PROVE  call'.astray \in BOOLEAN /\ (call.astray => call'.astray)
<1>1. call' = [call EXCEPT !.i = @ + 1, !.found = item,
                           !.astray = @ \/ whys # {}]
  BY DEF Found
<1>2. call'.astray = (call.astray \/ whys # {})
  BY <1>1 DEF FilesInv, TypesInv, CallFields
<1>3. call.astray \in BOOLEAN
  BY DEF SearchInv
<1> QED
  BY <1>2, <1>3

LEMMA FindFileSearches ==
  ASSUME FilesInv, SearchInv, UniqueNames, find_file
  PROVE  SearchInv'
<1>0. /\ Searching /\ Matches /\ ~Entry.dir
      /\ UNCHANGED <<dirs, mounted, opens, file_descriptors, pc, result>>
  BY DEF find_file
<1>1. PICK item \in {kzalloc({})} : \E clone \in {kzalloc({item})} :
        /\ heap' = Put(Put(heap, item, [kind |-> "item", type |-> "file",
                                        ref |-> clone]),
                       clone, [kind |-> "file", entry |-> Entry])
        /\ Found(item, NoMemory({item, clone}))
  BY DEF find_file
<1>2. PICK clone \in {kzalloc({item})} :
        /\ heap' = Put(Put(heap, item, [kind |-> "item", type |-> "file",
                                        ref |-> clone]),
                       clone, [kind |-> "file", entry |-> Entry])
        /\ Found(item, NoMemory({item, clone}))
  BY <1>1
<1>3. /\ item = 0 \/ (item \in Blocks /\ heap[item] = Free)
      /\ clone = 0 \/ (/\ clone \in Blocks /\ clone # item
                       /\ heap[clone] = Free)
  BY KzallocReturns
<1>4. /\ \A b \in Blocks \ {item, clone} : heap'[b] = heap[b]
      /\ item # 0 => heap'[item] = [kind |-> "item", type |-> "file",
                                    ref |-> clone]
      /\ clone # 0 => heap'[clone] = [kind |-> "file", entry |-> Entry]
  BY <1>2, <1>3 DEF Put
<1>5. PICK whys \in SUBSET Mishaps :
        /\ Found(item, whys)
        /\ whys = {} => item # 0 /\ clone # 0
  BY <1>2, FailuresAre DEF NoMemory
<1>6. /\ call' = [call EXCEPT !.i = @ + 1, !.found = item,
                              !.astray = call'.astray]
      /\ call'.astray <=> call.astray \/ whys # {}
  BY <1>5, FoundIs
<1>7. ASSUME ~call'.astray
      PROVE  /\ item # 0 /\ Represents(heap', item, Entry)
             /\ heap[heap'[item].ref] = Free /\ Fits(dirs, Entry)
  <2>1. item # 0 /\ clone # 0
    BY <1>5, <1>6, <1>7
  <2>2. /\ item \in Blocks /\ heap'[item].kind = "item"
        /\ heap'[item].type = "file" /\ heap'[item].ref = clone
        /\ clone \in Blocks /\ heap'[clone].kind = "file"
        /\ heap'[clone].entry = Entry /\ heap[clone] = Free
    BY <1>3, <1>4, <2>1
  <2> QED
    BY <1>0, <2>1, <2>2 DEF Represents, Fits
<1>8. \A b \in Blocks : heap[b] # Free => heap'[b] = heap[b]
  BY <1>3, <1>4, PointersAre
<1>9. call'.astray \in BOOLEAN /\ (call.astray => call'.astray)
  BY <1>5, <1>6, AstrayIs
<1>10. FoundFor(item)
  BY <1>0, <1>6, <1>7, <1>8, <1>9, Zenon DEF FoundFor
<1> QED
  BY <1>10, FoundSearches

LEMMA FindDirSearches ==
  ASSUME FilesInv, SearchInv, UniqueNames, find_dir
  PROVE  SearchInv'
<1>0. /\ Searching /\ Matches /\ Entry.dir
      /\ UNCHANGED <<dirs, mounted, opens, file_descriptors, pc, result>>
  BY DEF find_dir
<1>1. PICK item, dir, items, object, whys :
        DirMade(item, dir, items, object, whys)
  BY DirIsMade, Zenon
<1>2. /\ item = 0 \/ (item \in Blocks /\ heap[item] = Free)
      /\ dir = 0 \/ (dir \in Blocks /\ dir # item /\ heap[dir] = Free)
      /\ items = 0 \/ (/\ items \in Blocks /\ items \notin {item, dir}
                       /\ heap[items] = Free)
      /\ \A b \in Blocks \ {item, dir, items} : heap'[b] = heap[b]
      /\ item # 0 => heap'[item] = [kind |-> "item", type |-> "dir",
                                    ref |-> dir]
      /\ dir # 0 => heap'[dir] = object
  BY <1>1, Zenon DEF DirMade
<1>3. /\ object = Free \/ (object.kind = "dir" /\ object.id = Entry.first)
      /\ whys \in SUBSET Mishaps /\ Found(item, whys)
      /\ whys = {} => /\ item # 0 /\ dir # 0 /\ object # Free
                     /\ ~IsLong(Entry.first)
  BY <1>1, Zenon DEF DirMade, IsLoaded
<1>4. /\ call' = [call EXCEPT !.i = @ + 1, !.found = item,
                              !.astray = call'.astray]
      /\ call'.astray <=> call.astray \/ whys # {}
  BY <1>3, FoundIs
<1>5. ASSUME ~call'.astray
      PROVE  /\ item # 0 /\ Represents(heap', item, Entry)
             /\ heap[heap'[item].ref] = Free /\ Fits(dirs, Entry)
  <2>1. /\ item # 0 /\ dir # 0 /\ ~IsLong(Entry.first)
        /\ object.kind = "dir" /\ object.id = Entry.first
    BY <1>3, <1>4, <1>5
  <2>2. /\ item \in Blocks /\ heap'[item].kind = "item"
        /\ heap'[item].type = "dir" /\ heap'[item].ref = dir
        /\ dir \in Blocks /\ heap'[dir].kind = "dir"
        /\ heap'[dir].id = Entry.first /\ heap[dir] = Free
    BY <1>2, <2>1
  <2>3. Represents(heap', item, Entry)
    BY <1>0, <2>2 DEF Represents
  <2>4. Fits(dirs, Entry)
    <3>1. dirs \in Volumes /\ Entry.first \in DOMAIN dirs
      BY <1>0, EntryIs DEF FilesInv, TypesInv
    <3>2. PICK n \in Nat : /\ n = Counted(dirs, Entry.first)
                           /\ n = fat16_get_total_items_for_dir(Entry.first)
      BY <3>1, CountedIs
    <3>3. ~(n > ClusterEntries)
      BY <2>1, <3>2 DEF IsLong
    <3> QED
      BY <3>2, <3>3, FileSystemAssumption DEF Fits
  <2> QED
    BY <2>1, <2>2, <2>3, <2>4
<1>6. \A b \in Blocks : heap[b] # Free => heap'[b] = heap[b]
  BY <1>2, PointersAre
<1>7. call'.astray \in BOOLEAN /\ (call.astray => call'.astray)
  BY <1>3, <1>4, AstrayIs
<1>8. FoundFor(item)
  BY <1>0, <1>4, <1>5, <1>6, <1>7, Zenon DEF FoundFor
<1> QED
  BY <1>8, FoundSearches

(* Without deleted entries the count of a directory is that of them all.   *)
LEMMA AllAreCounted ==
  ASSUME FilesInv, NEW d \in DOMAIN dirs, ~HasDeleted(dirs)
  PROVE  /\ fat16_get_total_items_for_dir(d) = Len(dirs[d])
         /\ Len(dirs[d]) \in Nat /\ DOMAIN dirs[d] = 1..Len(dirs[d])
<1>1. dirs \in Volumes
  BY DEF FilesInv, TypesInv
<1>2. Len(dirs[d]) \in Nat /\ DOMAIN dirs[d] = 1..Len(dirs[d])
  BY <1>1, VolumesAssumption
<1>3. \A k \in DOMAIN dirs[d] : Head(dirs[d][k].fname) # DELETED
  BY Zenon DEF HasDeleted
<1>4. {k \in DOMAIN dirs[d] : Head(dirs[d][k].fname) # DELETED}
        = DOMAIN dirs[d]
  BY <1>3, Zenon
<1>5. PICK n \in Nat : n = Len(dirs[d])
  BY <1>2
<1>6. Cardinality(1..n) = n
  BY FS_Interval
<1> QED
  BY <1>2, <1>4, <1>5, <1>6, Zenon DEF fat16_get_total_items_for_dir

LEMMA SearchedIn ==
  ASSUME FilesInv, pc = "find"
  PROVE  Searched \in DOMAIN dirs
<1>1. CASE call.dir = 0
  <2>1. dirs \in Volumes
    BY DEF FilesInv, TypesInv
  <2> QED
    BY <1>1, <2>1, VolumesAssumption DEF Searched
<1>2. CASE call.dir # 0
  <2>1. Is(heap, call.dir, "dir")
    BY <1>2 DEF FilesInv, CallInv
  <2>2. call.dir \in Blocks /\ heap[call.dir].kind = "dir"
    BY <2>1, CallPointers, PointersAre DEF Is
  <2> QED
    BY <1>2, <2>2 DEF Searched, FilesInv, TypesInv, IsObject, IsDirectory
<1> QED
  BY <1>1, <1>2

(* What the search did not find is not there.                              *)
LEMMA NotFound ==
  ASSUME FilesInv, pc = "find", NEW ps, NEW j \in 1..Count(call.path),
         Whole(heap, call.root, call.path, ps),
         Seeking(heap, call, dirs, ps, j), ~HasDeleted(dirs),
         call.found = 0, call.i > fat16_get_total_items_for_dir(Searched)
  PROVE  Reached(dirs, call.path)[j] = NoEntry
<1>1. PICK d, name : d = Searched /\ name = NameAt(call.path, j)
  BY Zenon
<1>2. /\ d = Reached(dirs, call.path)[j - 1].first
      /\ Reached(dirs, call.path)[j] = Child(dirs[d], name)
  BY <1>1, SeekingIs, Zenon
<1>3. d \in DOMAIN dirs
  BY <1>1, SearchedIn
<1>4. PICK n \in Nat : /\ n = fat16_get_total_items_for_dir(d)
                       /\ DOMAIN dirs[d] = 1..n
  BY <1>3, AllAreCounted
<1>5. call.i > n /\ call.i \in Nat
  BY <1>1, <1>4 DEF FilesInv, TypesInv
<1>6. ASSUME NEW k \in 1..n
      PROVE  ~istrncmp_equal(
                fat16_get_full_relative_filename(dirs[d][k]), name)
  <2>1. k \in 1..(call.i - 1)
    BY <1>5
  <2> QED
    BY <1>1, <1>2, <2>1, Zenon DEF Seeking
<1> QED
  BY <1>2, <1>4, <1>6, ChildMissing, ZenonT(60)

(* The search hands over to the loop over the parts.                       *)
LEMMA SearchEnds ==
  ASSUME FilesInv, SearchInv, pc = "find", pc' = "walk",
         UNCHANGED <<dirs, mishaps>>,
         call' = [call EXCEPT !.curr = call.found],
         call.i > fat16_get_total_items_for_dir(Searched),
         PathSpared(heap, heap'),
         \A e : Represents(heap, call.found, e)
                  /\ heap[call.found].ref # call.dir
                => Represents(heap', call.found, e)
  PROVE  SearchInv'
<1>1. /\ call'.path = call.path /\ call'.root = call.root
      /\ call'.part = call.part /\ call'.astray = call.astray
      /\ call'.curr = call.found
  BY DEF FilesInv, TypesInv, CallFields
<1>2. /\ IsPath(call.path) /\ \E o \in Opens : o.path = call.path
      /\ call.astray \in BOOLEAN
      /\ \E ps : /\ Whole(heap, call.root, call.path, ps)
                 /\ Trusted => SeekingInv(heap, call, dirs, ps)
  BY DEF SearchInv
<1>3. PICK ps : /\ Whole(heap, call.root, call.path, ps)
                /\ Trusted => SeekingInv(heap, call, dirs, ps)
  BY <1>2, Zenon
<1>4. Whole(heap', call'.root, call'.path, ps)
  BY <1>1, <1>3, WholeStays, Zenon
<1>5. ASSUME Trusted'
      PROVE  WalkingInv(heap', call', dirs', ps)
  <2>1. Trusted
    BY <1>1, <1>5 DEF Trusted
  <2>2. PICK j \in 1..Count(call.path) : Seeking(heap, call, dirs, ps, j)
    BY <1>3, <2>1, Zenon DEF SeekingInv
  <2>3. call.part = ps[j]
    BY <2>2, Zenon DEF Seeking
  <2>4. CASE call.found = 0
    <3>1. ~HasDeleted(dirs) => Reached(dirs, call.path)[j] = NoEntry
      BY <1>3, <2>2, <2>4, NotFound
    <3>2. Walking(heap', call', dirs, ps, j)
      BY <1>1, <2>3, <2>4, <3>1, Zenon DEF Walking
    <3> QED
      BY <1>1, <3>2, Zenon DEF WalkingInv
  <2>5. CASE call.found # 0
    <3>1. /\ Represents(heap, call.found, Reached(dirs, call.path)[j])
          /\ heap[call.found].ref # call.dir
          /\ Fits(dirs, Reached(dirs, call.path)[j])
      BY <2>2, <2>5, Zenon DEF Seeking
    <3>2. /\ Represents(heap', call'.curr, Reached(dirs, call'.path)[j])
          /\ Fits(dirs, Reached(dirs, call'.path)[j])
      BY <1>1, <3>1, Zenon
    <3>3. Walking(heap', call', dirs, ps, j)
      BY <1>1, <2>3, <2>5, <3>2, Zenon DEF Walking
    <3> QED
      BY <1>1, <3>3, Zenon DEF WalkingInv
  <2> QED
    BY <2>4, <2>5
<1>6. \E qs : /\ Whole(heap', call'.root, call'.path, qs)
              /\ Trusted' => WalkingInv(heap', call', dirs', qs)
  BY <1>4, <1>5, Zenon
<1> QED
  BY <1>1, <1>2, <1>6 DEF SearchInv, OnlyMishapsHarm

LEMMA EndRootSearches ==
  ASSUME FilesInv, SearchInv, find_end_root
  PROVE  SearchInv'
<1>1. CASE call.found = 0
  <2>1. OpenFails
    BY <1>1 DEF find_end_root
  <2>2. pc' = "idle" /\ call' = NoCall
    BY <2>1 DEF OpenFails, Return
  <2> QED
    BY <2>2, Returned
<1>2. CASE call.found # 0
  <2>1. /\ pc = "find" /\ pc' = "walk"
        /\ call' = [call EXCEPT !.curr = call.found]
        /\ call.i > fat16_get_total_items_for_dir(Searched)
        /\ UNCHANGED <<dirs, heap, mishaps>>
    BY <1>2 DEF find_end_root
  <2>2. PathSpared(heap, heap')
    BY <2>1, Zenon DEF PathSpared
  <2> QED
    BY <2>1, <2>2, SearchEnds
<1> QED
  BY <1>1, <1>2

LEMMA EndDirSearches ==
  ASSUME FilesInv, SearchInv, FilesInv', find_end_dir
  PROVE  SearchInv'
<1>0. /\ pc = "find" /\ call.dir # 0 /\ UNCHANGED <<dirs, mounted, opens>>
      /\ call.i > fat16_get_total_items_for_dir(Searched)
  BY DEF find_end_dir
<1>1. /\ call.curr # 0 /\ call.curr # call.found
      /\ heap[call.curr].ref = call.dir
  BY <1>0 DEF FilesInv, CallInv
<1>2. CASE ~(CanFree(heap, call.curr) /\ ~FreesStray(heap, call.curr, {}))
  <2>1. GoWild({})
    BY <1>2 DEF find_end_dir
  <2> QED
    BY <1>1, <2>1, WildFinds
<1>3. CASE CanFree(heap, call.curr) /\ ~FreesStray(heap, call.curr, {})
  <2>1. /\ heap' = kfree(heap, ItemBlocks(heap, call.curr))
        /\ pc' = "walk"
        /\ call' = [call EXCEPT !.curr = call.found]
        /\ UNCHANGED <<file_descriptors, result, mishaps>>
    BY <1>3 DEF find_end_dir
  <2>2. PICK curr, X : curr = call.curr /\ X = ItemBlocks(heap, curr)
    BY Zenon
  <2>3. curr \in Held
    BY <1>1, <2>2 DEF Held
  <2>4. \A b \in Blocks : b \notin X => heap'[b] = heap[b]
    BY <2>1, <2>2, KfreeChanges
  <2>5. \A b \in X :
          \/ b = 0 \/ b = curr
          \/ /\ b = heap[curr].ref /\ b \in Blocks
             /\ heap[b].kind \in {"file", "dir"}
          \/ /\ heap[curr].ref \in Blocks
             /\ heap[heap[curr].ref].kind = "dir"
             /\ b = heap[heap[curr].ref].items /\ b \in Blocks
             /\ heap[b].kind = "items"
    BY <1>3, <2>2, <2>3, ItemBlocksAre
  <2>6. curr \in Blocks /\ heap[curr].kind = "item"
    BY <2>3, HeldIs
  <2>7. PathSpared(heap, heap')
    BY <2>4, <2>5, <2>6, PointersAre DEF PathSpared, PathKinds
  <2>8. ASSUME NEW e, Represents(heap, call.found, e),
               heap[call.found].ref # call.dir
        PROVE  Represents(heap', call.found, e)
    <3>1. /\ call.found \in Blocks /\ heap[call.found].kind = "item"
          /\ heap[call.found].ref \in Blocks
          /\ heap[heap[call.found].ref].kind \in {"file", "dir"}
      BY <2>8 DEF Represents
    <3>2. call.found \notin X
      BY <1>1, <2>2, <2>5, <3>1, PointersAre
    <3>3. heap[call.found].ref \notin X
      BY <1>1, <2>2, <2>5, <2>6, <2>8, <3>1, PointersAre
    <3> QED
      BY <2>4, <2>8, <3>1, <3>2, <3>3, RepresentsStays
  <2> QED
    BY <1>0, <2>1, <2>7, <2>8, SearchEnds
<1> QED
  BY <1>2, <1>3

(* The walk is over when there are no more parts.                          *)
LEMMA WalkingIs ==
  ASSUME FilesInv, NEW ps, NEW j \in 1..Count(call.path),
         Whole(heap, call.root, call.path, ps),
         Walking(heap, call, dirs, ps, j)
  PROVE  /\ Count(call.path) \in Nat
         /\ NextPart = 0 => j = Count(call.path)
         /\ NextPart # 0 => /\ j # Count(call.path) /\ NextPart = ps[j + 1]
                            /\ j + 1 \in 1..Count(call.path)
<1>1. PICK path, n : path = call.path /\ n = Count(path)
  BY Zenon
<1>2. n \in Nat /\ Listed(heap, call.root, path, n, ps)
  BY <1>1, Zenon DEF Whole
<1>3. ps \in [1..n -> Blocks]
  BY <1>2, Zenon DEF Listed
<1>4. PICK next : next = IF j = n THEN 0 ELSE ps[j + 1]
  OBVIOUS
<1>5. IsPart(heap, ps[j], next, path, j)
  BY <1>1, <1>2, <1>4, Zenon DEF Listed
<1>6. NextPart = next
  <2>1. call.part = ps[j]
    BY Zenon DEF Walking
  <2> QED
    BY <1>5, <2>1 DEF IsPart, NextPart
<1>7. j # n => j + 1 \in 1..n
  BY <1>1, <1>2
<1> QED
  BY <1>1, <1>2, <1>3, <1>4, <1>6, <1>7, PointersAre

LEMMA WalkDoneSearches ==
  ASSUME FilesInv, SearchInv, walk_done
  PROVE  SearchInv'
<1>0. pc = "walk" /\ NextPart = 0 /\ UNCHANGED <<dirs, mishaps>>
  BY DEF walk_done
<1>1. CASE call.curr = 0
  <2>1. OpenFails
    BY <1>1 DEF walk_done
  <2>2. pc' = "idle" /\ call' = NoCall
    BY <2>1 DEF OpenFails, Return
  <2> QED
    BY <2>2, Returned
<1>2. CASE call.curr # 0
  <2>1. /\ heap' = [heap EXCEPT ![call.desc].item = call.curr]
        /\ pc' = "descriptor" /\ call' = call
    BY <1>2 DEF walk_done
  <2>2. /\ IsPath(call.path) /\ \E o \in Opens : o.path = call.path
        /\ call.astray \in BOOLEAN
        /\ \E ps : /\ Whole(heap, call.root, call.path, ps)
                   /\ Trusted => WalkingInv(heap, call, dirs, ps)
    BY <1>0 DEF SearchInv
  <2>3. PICK ps : /\ Whole(heap, call.root, call.path, ps)
                  /\ Trusted => WalkingInv(heap, call, dirs, ps)
    BY <2>2, Zenon
  <2>4. ASSUME Trusted'
        PROVE  /\ Count(call.path) \in Nat \ {0}
               /\ Represents(heap', call.curr,
                             Reached(dirs, call.path)[Count(call.path)])
    <3>1. Trusted
      BY <1>0, <2>1, <2>4 DEF Trusted
    <3>2. PICK j \in 1..Count(call.path) : Walking(heap, call, dirs, ps, j)
      BY <2>3, <3>1, Zenon DEF WalkingInv
    <3>3. Count(call.path) \in Nat /\ j = Count(call.path)
      BY <1>0, <2>3, <3>2, WalkingIs
    <3>4. PICK e : e = Reached(dirs, call.path)[j]
      BY Zenon
    <3>5. Represents(heap, call.curr, e)
      BY <1>2, <3>2, <3>4, Zenon DEF Walking
    <3>6. /\ heap = [b \in Blocks |-> heap[b]]
          /\ call.desc \in Blocks /\ heap[call.desc].kind = "descriptor"
      BY <1>0, CallPointers, PointersAre
         DEF FilesInv, TypesInv, CallInv, IsNullOr, Is
    <3>7. /\ call.curr # call.desc /\ heap[call.curr].ref # call.desc
          /\ call.curr \in Blocks /\ heap[call.curr].ref \in Blocks
      BY <3>5, <3>6 DEF Represents
    <3>8. /\ heap'[call.curr] = heap[call.curr]
          /\ heap'[heap[call.curr].ref] = heap[heap[call.curr].ref]
      BY <2>1, <3>6, <3>7
    <3>9. Represents(heap', call.curr, e)
      BY <3>5, <3>8, RepresentsStays
    <3> QED
      BY <3>3, <3>4, <3>9
  <2> QED
    BY <1>0, <2>1, <2>2, <2>4 DEF SearchInv, OnlyMishapsHarm
<1> QED
  BY <1>1, <1>2

(* What is looked for below what was not found has nothing to be in.       *)
LEMMA WalkNullSearches ==
  ASSUME FilesInv, SearchInv, FilesInv', walk_null
  PROVE  SearchInv'
<1>0. /\ pc = "walk" /\ NextPart # 0 /\ call.curr = 0
      /\ UNCHANGED <<dirs, mounted, opens>>
      /\ \/ OpenFails
         \/ GoWild({})
  BY DEF walk_null
<1>1. CASE OpenFails
  <2>1. pc' = "idle" /\ call' = NoCall
    BY <1>1 DEF OpenFails, Return
  <2> QED
    BY <2>1, Returned
<1>2. CASE GoWild({})
  <2>1. /\ pc' = "wild" /\ mishaps' = mishaps /\ call' = call
    BY <1>2 DEF GoWild
  <2>2. /\ call.astray \in BOOLEAN
        /\ \E ps : /\ Whole(heap, call.root, call.path, ps)
                   /\ Trusted => WalkingInv(heap, call, dirs, ps)
    BY <1>0 DEF SearchInv
  <2>3. PICK ps : /\ Whole(heap, call.root, call.path, ps)
                  /\ Trusted => WalkingInv(heap, call, dirs, ps)
    BY <2>2, Zenon
  <2>4. ASSUME ~call.astray, ~AnyDeleted
        PROVE  ~ParentExists(call.path)
    <3>2. ~HasDeleted(dirs)
      BY <2>4, Zenon DEF AnyDeleted, HasDeleted
    <3>3. Trusted
      BY <2>2, <2>4, <3>2, Zenon DEF Trusted
    <3>4. PICK j \in 1..Count(call.path) : Walking(heap, call, dirs, ps, j)
      BY <2>3, <3>3, Zenon DEF WalkingInv
    <3>5. PICK path, n : path = call.path /\ n = Count(path)
      BY Zenon
    <3>6. /\ n \in Nat /\ j # n /\ j \in 1..n
      BY <1>0, <2>3, <3>4, <3>5, WalkingIs
    <3>7. Reached(dirs, path)[j] = NoEntry
      BY <1>0, <3>2, <3>4, <3>5, Zenon DEF Walking
    <3>8. n - 1 \in 0..n /\ j <= n - 1 /\ j \in 0..n /\ n # 0
      BY <3>6
    <3>9. Reached(dirs, path)[n - 1] = NoEntry
      <4>1. /\ Count(path) \in Nat /\ j \in 0..Count(path)
            /\ n - 1 \in 0..Count(path)
        BY <3>5, <3>6, <3>8
      <4>2. \A i \in 0..Count(path) :
              j <= i => Reached(dirs, path)[i] = NoEntry
        BY <3>7, <4>1, NothingBelow, Zenon
      <4> QED
        BY <3>8, <4>1, <4>2, Zenon
    <3>10. EntryOf(dirs, Front(Names(path))) = NoEntry
      BY <3>5, <3>6, <3>8, <3>9, ReachedIs, Zenon
    <3>11. Names(path) # <<>>
      <4>1. Len(<<>>) = 0
        OBVIOUS
      <4> QED
        BY <3>5, <3>8, <4>1, Zenon DEF Count
    <3> QED
      BY <3>5, <3>10, <3>11, Zenon DEF ParentExists
  <2>5. OnlyMishapsHarm'
    <3>1. /\ AnyDeleted' <=> AnyDeleted
          /\ ParentExists(call.path)' <=> ParentExists(call.path)
      BY <1>0, <2>1, Zenon DEF AnyDeleted, ParentExists
    <3>2. ~call'.astray /\ ~AnyDeleted' => ~ParentExists(call.path)'
      BY <2>1, <2>4, <3>1, Zenon
    <3>3. Intact' => call' # NoCall \/ StrayTaken'
      BY <2>1 DEF FilesInv, ItemsInv, StrayUsed
    <3> QED
      BY <3>2, <3>3, Zenon DEF OnlyMishapsHarm
  <2> QED
    BY <1>2, <2>5, Wild
<1> QED
  BY <1>0, <1>1, <1>2

LEMMA WalkIntoDirSearches ==
  ASSUME FilesInv, SearchInv, FilesInv', walk_into_dir
  PROVE  SearchInv'
<1>0. /\ pc = "walk" /\ call.curr # 0 /\ NextPart # 0
      /\ ~IsItem(heap, call.curr, "file")
      /\ UNCHANGED <<dirs, mounted, opens>>
  BY DEF walk_into_dir
<1>1. CASE ~Loaded(heap, call.curr)
  <2>1. GoWild({})
    BY <1>1 DEF walk_into_dir
  <2> QED
    BY <1>0, <2>1, WildFinds
<1>2. CASE Loaded(heap, call.curr)
  <2>1. /\ pc' = "find"
        /\ call' = [call EXCEPT !.part = NextPart, !.i = 1, !.found = 0,
                                !.dir = heap[call.curr].ref]
        /\ UNCHANGED <<heap, mishaps>>
    BY <1>2 DEF walk_into_dir
  <2>2. /\ call'.part = NextPart /\ call'.i = 1 /\ call'.found = 0
        /\ call'.dir = heap[call.curr].ref /\ call'.path = call.path
        /\ call'.root = call.root /\ call'.astray = call.astray
    BY <2>1 DEF FilesInv, TypesInv, CallFields
  <2>3. /\ IsPath(call.path) /\ \E o \in Opens : o.path = call.path
        /\ call.astray \in BOOLEAN
        /\ \E ps : /\ Whole(heap, call.root, call.path, ps)
                   /\ Trusted => WalkingInv(heap, call, dirs, ps)
    BY <1>0 DEF SearchInv
  <2>4. PICK ps : /\ Whole(heap, call.root, call.path, ps)
                  /\ Trusted => WalkingInv(heap, call, dirs, ps)
    BY <2>3, Zenon
  <2>5. ASSUME Trusted'
        PROVE  SeekingInv(heap', call', dirs', ps)
    <3>1. Trusted
      BY <1>0, <2>2, <2>5 DEF Trusted
    <3>2. PICK j \in 1..Count(call.path) : Walking(heap, call, dirs, ps, j)
      BY <2>4, <3>1, Zenon DEF WalkingInv
    <3>3. /\ NextPart = ps[j + 1] /\ j + 1 \in 1..Count(call.path)
          /\ (j + 1) - 1 = j
      BY <1>0, <2>4, <3>2, WalkingIs
    <3>4. PICK e : e = Reached(dirs, call.path)[j]
      BY Zenon
    <3>5. Represents(heap, call.curr, e) /\ Fits(dirs, e)
      BY <1>0, <3>2, <3>4, Zenon DEF Walking
    <3>6. /\ heap[call.curr].kind = "item" /\ heap[call.curr].ref \in Blocks
          /\ heap[call.curr].type = IF e.dir THEN "dir" ELSE "file"
          /\ IF e.dir THEN heap[heap[call.curr].ref].id = e.first
             ELSE heap[heap[call.curr].ref].entry = e
      BY <3>5, Zenon DEF Represents
    <3>7. heap[call.curr].type # "file"
      BY <1>0, <3>6 DEF IsItem, Is
    <3>8. e.dir /\ heap[heap[call.curr].ref].id = e.first
      BY <3>6, <3>7
    <3>9. call'.dir # 0 /\ heap'[call'.dir].id = e.first
      BY <2>1, <2>2, <3>6, <3>8, PointersAre
    <3>10. 1..(call'.i - 1) = {}
      BY <2>2
    <3>11. Seeking(heap', call', dirs, ps, j + 1)
      BY <2>2, <3>3, <3>4, <3>5, <3>8, <3>9, <3>10, Zenon DEF Seeking
    <3> QED
      BY <1>0, <2>2, <3>3, <3>11, Zenon DEF SeekingInv
  <2>6. \E qs : /\ Whole(heap', call'.root, call'.path, qs)
                /\ Trusted' => SeekingInv(heap', call', dirs', qs)
    BY <2>1, <2>2, <2>4, <2>5, Zenon
  <2> QED
    BY <2>1, <2>2, <2>3, <2>6 DEF SearchInv, OnlyMishapsHarm
<1> QED
  BY <1>1, <1>2

LEMMA NewDescriptorSearches ==
  ASSUME FilesInv, SearchInv, FilesInv', file_new_descriptor
  PROVE  SearchInv'
<1>1. PICK fd \in FreeSlots, desc \in {kzalloc({})} :
        IF desc = 0 THEN GoWild({"no memory"})
        ELSE Return(Put(heap, desc, [kind |-> "open", index |-> fd,
                                     private_data |-> call.desc]), fd)
  BY DEF file_new_descriptor
<1>2. CASE desc = 0
  BY <1>1, <1>2, FailuresAre, FailureSearches
<1>3. CASE desc # 0
  <2>1. pc' = "idle" /\ call' = NoCall
    BY <1>1, <1>3 DEF Return
  <2> QED
    BY <2>1, Returned
<1> QED
  BY <1>2, <1>3

(* Calls that return, and those on open files.                             *)
LEMMA ReturnsSearch ==
  ASSUME FilesInv, SearchInv, FilesInv',
         \/ fat16_resolve
         \/ \E o \in Opens : fopen_bad_path(o)
         \/ fopen_refused \/ walk_through_file \/ file_table_full
         \/ \E fd \in FileNumbers :
              \/ not_open(fd) \/ fread(fd) \/ fstat(fd) \/ fclose(fd)
              \/ \E offset \in Offsets,
                    whence \in {"SEEK_SET", "SEEK_CUR", "SEEK_END"} :
                   fseek(fd, offset, whence)
  PROVE  SearchInv'
<1>1. CASE fat16_resolve
  <2>1. call' = NoCall /\ pc' = "idle"
    BY <1>1 DEF fat16_resolve, FilesInv, CallInv
  <2> QED
    BY <2>1, Returned
<1>2. ASSUME NEW o \in Opens, fopen_bad_path(o)
      PROVE  SearchInv'
  BY <1>2, Returned DEF fopen_bad_path, Return
<1>3. CASE fopen_refused \/ walk_through_file \/ file_table_full
  <2>1. call' = NoCall /\ pc' = "idle"
    BY <1>3 DEF fopen_refused, walk_through_file, file_table_full,
                OpenFails, Return
  <2> QED
    BY <2>1, Returned
<1>4. ASSUME NEW fd \in FileNumbers,
             \/ not_open(fd) \/ fread(fd) \/ fstat(fd) \/ fclose(fd)
             \/ \E offset \in Offsets,
                   whence \in {"SEEK_SET", "SEEK_CUR", "SEEK_END"} :
                  fseek(fd, offset, whence)
      PROVE  SearchInv'
  <2>1. /\ pc = "idle"
        /\ (pc' = pc /\ call' = call) \/ GoWild({})
    BY <1>4 DEF not_open, fread, fstat, fclose, fseek
  <2>2. call = NoCall
    BY <2>1 DEF FilesInv, CallInv
  <2> QED
    BY <2>1, <2>2, Returned, WildFinds
<1> QED
  BY <1>1, <1>2, <1>3, <1>4

(* No step of the file system loses what it searches for.                  *)
LEMMA StepsKeepSearching ==
  ASSUME UniqueNames, FilesInv, SearchInv, [Next]_vars
  PROVE  SearchInv'
<1>0. FilesInv'
  BY StepsKeepFiles
<1>1. CASE UNCHANGED vars
  <2>1. /\ dirs' = dirs /\ heap' = heap /\ call' = call /\ pc' = pc
        /\ mishaps' = mishaps
    BY <1>1 DEF vars
  <2>2. Trusted' <=> Trusted
    BY <2>1 DEF Trusted
  <2>3. OnlyMishapsHarm' <=> OnlyMishapsHarm
    <3>1. /\ Intact' <=> Intact
          /\ StrayTaken' <=> StrayTaken
      BY <2>1 DEF Intact, StrayTaken, Is
    <3> QED
      BY <2>1, <3>1, Zenon DEF OnlyMishapsHarm, AnyDeleted, ParentExists
  <2> QED
    BY <2>1, <2>2, <2>3, Zenon DEF SearchInv
<1>2. ASSUME NEW o \in Opens, fopen(o)
      PROVE  SearchInv'
  BY <1>2, FopenSearches
<1>3. CASE FopenStep
  <2>1. CASE pathparser_create_root
    BY <1>0, <2>1, CreateRootSearches
  <2>2. CASE pathparser_parse_path_part
    BY <1>0, <2>2, ParsePartSearches
  <2>3. CASE pathparser_parse_end
    BY <1>0, <2>3, ParseEndSearches
  <2>4. CASE fopen_refused \/ walk_through_file \/ file_table_full
    BY <1>0, <2>4, ReturnsSearch
  <2>5. CASE fat16_open
    BY <1>0, <2>5, OpenSearches
  <2>6. CASE find_no_match
    BY <1>0, <2>6, NoMatchSearches
  <2>7. CASE find_file
    BY <2>7, FindFileSearches
  <2>8. CASE find_dir
    BY <2>8, FindDirSearches
  <2>9. CASE find_end_root
    BY <2>9, EndRootSearches
  <2>10. CASE find_end_dir
    BY <1>0, <2>10, EndDirSearches
  <2>11. CASE walk_done
    BY <2>11, WalkDoneSearches
  <2>12. CASE walk_null
    BY <1>0, <2>12, WalkNullSearches
  <2>13. CASE walk_into_dir
    BY <1>0, <2>13, WalkIntoDirSearches
  <2>14. CASE file_new_descriptor
    BY <1>0, <2>14, NewDescriptorSearches
  <2>15. CASE find_dir_hangs
    BY <2>15, FailuresAre, FailureSearches DEF find_dir_hangs
  <2> QED
    BY <1>3, <2>1, <2>2, <2>3, <2>4, <2>5, <2>6, <2>7, <2>8, <2>9, <2>10,
       <2>11, <2>12, <2>13, <2>14, <2>15 DEF FopenStep
<1>4. CASE \/ fat16_resolve
           \/ \E o \in Opens : fopen_bad_path(o)
           \/ \E fd \in FileNumbers :
                \/ not_open(fd) \/ fread(fd) \/ fstat(fd) \/ fclose(fd)
                \/ \E offset \in Offsets,
                      whence \in {"SEEK_SET", "SEEK_CUR", "SEEK_END"} :
                     fseek(fd, offset, whence)
  BY <1>0, <1>4, ReturnsSearch
<1> QED
  BY <1>1, <1>2, <1>3, <1>4 DEF Next

LEMMA InitSearches == Init => SearchInv
<1>1. NoCall.astray = FALSE
  BY DEF NoCall
<1> QED
  BY <1>1 DEF Init, SearchInv, OnlyMishapsHarm

(* Whatever is called in whatever order, nothing goes wild but after an    *)
(* allocation or the read of a directory has failed, by looking below what *)
(* the disk does not have or has in a directory longer than a cluster, or  *)
(* by the array of an empty directory: the search through the directories  *)
(* for the parts of a path follows what the path names, entry by entry.    *)
THEOREM OnlyTheUnfoundGoesWild == UniqueNames => (Spec => []OnlyMishapsHarm)
<1> SUFFICES ASSUME UniqueNames
             PROVE  Spec => []OnlyMishapsHarm
  OBVIOUS
<1>1. Init => SearchInv
  BY InitSearches
<1>2. FilesInv /\ SearchInv /\ [Next]_vars => SearchInv'
  BY StepsKeepSearching
<1>3. SearchInv => OnlyMishapsHarm
  BY DEF SearchInv
<1> QED
  BY <1>1, <1>2, <1>3, FilesInvariant, PTL DEF Spec

-----------------------------------------------------------------------------
(* What fopen opens.                                                       *)

(* The body of OpensWhatIsNamed, for what the path names. *)
Excused(named) ==
  \/ named = NoEntry
  \/ ~mounted
  \/ call.mode # "r"
  \/ call.path[1] # "0"
  \/ call.astray \/ kzalloc({}) = 0
  \/ FreeSlots = {}
  \/ AnyDeleted

Answered ==
  \E named \in {Named(call.path)} :
    IF result' > 0 THEN call.astray \/ IsOpenFor(result, named)'
    ELSE Excused(named)

LEMMA Fails ==
  ASSUME NEW h, Return(h, 0), Excused(Named(call.path))
  PROVE  Answered
<1>1. ~(result' > 0)
  BY DEF Return
<1> QED
  BY <1>1, Zenon DEF Answered

(* What a path names is what all its names lead to.                        *)
LEMMA NamedIs ==
  ASSUME NEW path, Count(path) \in Nat,
         AreNames(Names(path), path, Count(path))
  PROVE  /\ Count(path) = 0 => Named(path) = NoEntry
         /\ Count(path) # 0 => Named(path) = Reached(dirs, path)[Count(path)]
<1>1. Count(path) = 0 => Names(path) = <<>>
  BY Zenon DEF AreNames
<1>2. Count(path) # 0 => Names(path) # <<>>
  <2>1. Len(<<>>) = 0
    OBVIOUS
  <2> QED
    BY <2>1, Zenon DEF Count
<1>3. EntryOf(dirs, Names(path)) = Reached(dirs, path)[Count(path)]
  BY ReachedIs, Zenon
<1> QED
  BY <1>1, <1>2, <1>3, Zenon DEF Named

(* If one of its names leads to nothing, it names nothing.                 *)
LEMMA LeadsNowhere ==
  ASSUME NEW ps, Whole(heap, call.root, call.path, ps),
         NEW j \in 1..Count(call.path),
         Reached(dirs, call.path)[j] = NoEntry
  PROVE  Named(call.path) = NoEntry
<1>1. PICK path, n : path = call.path /\ n = Count(path)
  BY Zenon
<1>2. n \in Nat /\ AreNames(Names(path), path, n)
  BY <1>1, Zenon DEF Whole
<1>3. j \in 0..n /\ n \in 0..n /\ j <= n /\ n # 0
  BY <1>1, <1>2
<1>4. \A i \in 0..Count(path) : j <= i => Reached(dirs, path)[i] = NoEntry
  BY <1>1, <1>2, <1>3, NothingBelow, Zenon
<1>5. Reached(dirs, path)[n] = NoEntry
  BY <1>1, <1>3, <1>4, Zenon
<1> QED
  BY <1>1, <1>2, <1>3, <1>5, NamedIs, Zenon

LEMMA RefusesUnnamed ==
  ASSUME FilesInv, SearchInv, fopen_refused
  PROVE  Answered
<1>1. pc = "opening" /\ ~Openable /\ Return(heap, 0)
  BY DEF fopen_refused
<1>2. PICK ps : Whole(heap, call.root, call.path, ps)
  BY <1>1 DEF SearchInv
<1>3. PICK path, n : path = call.path /\ n = Count(path)
  BY Zenon
<1>4. /\ n \in Nat /\ AreNames(Names(path), path, n)
      /\ Listed(heap, call.root, path, n, ps)
  BY <1>2, <1>3, Zenon DEF Whole
<1>5. CASE heap[call.root].first = 0
  <2>1. /\ ps \in [1..n -> Blocks]
        /\ heap[call.root].first = IF n = 0 THEN 0 ELSE ps[1]
    BY <1>4, Zenon DEF Listed
  <2>2. n = 0
    BY <1>4, <1>5, <2>1, PointersAre
  <2>3. Named(call.path) = NoEntry
    BY <1>3, <1>4, <2>2, NamedIs, Zenon
  <2> QED
    BY <1>1, <2>3, Fails, Zenon DEF Excused
<1>6. CASE heap[call.root].first # 0
  BY <1>1, <1>6, Fails, Zenon DEF Openable, Excused
<1> QED
  BY <1>5, <1>6

(* A search that finds nothing, and one that cannot go on.                 *)
LEMMA SearchFails ==
  ASSUME FilesInv, SearchInv, NEW h, Return(h, 0),
         \/ /\ pc = "find" /\ call.found = 0
            /\ call.i > fat16_get_total_items_for_dir(Searched)
         \/ pc = "walk" /\ call.curr = 0
         \/ pc = "walk" /\ NextPart # 0 /\ IsItem(heap, call.curr, "file")
  PROVE  Answered
<1>1. CASE call.astray \/ AnyDeleted
  BY <1>1, Fails, Zenon DEF Excused
<1>2. CASE ~call.astray /\ ~AnyDeleted
  <2>1. Trusted /\ ~HasDeleted(dirs)
    BY <1>2, Zenon DEF Trusted, AnyDeleted, HasDeleted
  <2>2. \E ps : /\ Whole(heap, call.root, call.path, ps)
                /\ pc = "find" /\ Trusted => SeekingInv(heap, call, dirs, ps)
                /\ pc = "walk" /\ Trusted => WalkingInv(heap, call, dirs, ps)
    BY DEF SearchInv
  <2>3. PICK ps : /\ Whole(heap, call.root, call.path, ps)
                  /\ pc = "find" => SeekingInv(heap, call, dirs, ps)
                  /\ pc = "walk" => WalkingInv(heap, call, dirs, ps)
    BY <2>1, <2>2, Zenon
  <2>4. CASE /\ pc = "find" /\ call.found = 0
             /\ call.i > fat16_get_total_items_for_dir(Searched)
    <3>1. PICK j \in 1..Count(call.path) : Seeking(heap, call, dirs, ps, j)
      BY <2>3, <2>4, Zenon DEF SeekingInv
    <3>2. Reached(dirs, call.path)[j] = NoEntry
      BY <2>1, <2>3, <2>4, <3>1, NotFound
    <3>3. Named(call.path) = NoEntry
      BY <2>3, <3>2, LeadsNowhere, Zenon
    <3> QED
      BY <3>3, Fails, Zenon DEF Excused
  <2>5. CASE pc = "walk" /\ call.curr = 0
    <3>1. PICK j \in 1..Count(call.path) : Walking(heap, call, dirs, ps, j)
      BY <2>3, <2>5, Zenon DEF WalkingInv
    <3>2. Reached(dirs, call.path)[j] = NoEntry
      BY <2>1, <2>5, <3>1, Zenon DEF Walking
    <3>3. Named(call.path) = NoEntry
      BY <2>3, <3>2, LeadsNowhere, Zenon
    <3> QED
      BY <3>3, Fails, Zenon DEF Excused
  <2>6. CASE /\ pc = "walk" /\ NextPart # 0
             /\ IsItem(heap, call.curr, "file")
    <3>1. PICK j \in 1..Count(call.path) : Walking(heap, call, dirs, ps, j)
      BY <2>3, <2>6, Zenon DEF WalkingInv
    <3>2. /\ Count(call.path) \in Nat
          /\ j + 1 \in 1..Count(call.path) /\ (j + 1) - 1 = j
      BY <2>3, <2>6, <3>1, WalkingIs
    <3>3. call.curr # 0 /\ heap[call.curr].type = "file"
      BY <2>6 DEF IsItem, Is
    <3>4. PICK e : e = Reached(dirs, call.path)[j]
      BY Zenon
    <3>5. heap[call.curr].type = IF e.dir THEN "dir" ELSE "file"
      BY <3>1, <3>3, <3>4, Zenon DEF Walking, Represents
    <3>6. ~e.dir
      BY <3>3, <3>5
    <3>7. Reached(dirs, call.path)[j + 1]
            = Below(dirs, e, Names(call.path)[j + 1])
      <4>1. PICK k : k = j + 1
        BY Zenon
      <4>2. Reached(dirs, call.path)[k]
              = Below(dirs, Reached(dirs, call.path)[k - 1],
                      Names(call.path)[k])
        BY <3>2, <4>1, ReachedIs, ZenonT(60)
      <4>3. k - 1 = j
        BY <3>2, <4>1
      <4> QED
        BY <3>4, <4>1, <4>2, <4>3, Zenon
    <3>8. Reached(dirs, call.path)[j + 1] = NoEntry
      BY <3>6, <3>7, Zenon DEF Below
    <3>9. Named(call.path) = NoEntry
      BY <2>3, <3>2, <3>8, LeadsNowhere, Zenon
    <3> QED
      BY <3>9, Fails, Zenon DEF Excused
  <2> QED
    BY <2>4, <2>5, <2>6
<1> QED
  BY <1>1, <1>2

(* The new descriptor is for the item that the search ended with.          *)
LEMMA OpensTheFound ==
  ASSUME DeletedUnnamed, FilesInv, SearchInv, file_new_descriptor,
         pc' = "idle"
  PROVE  Answered
<1>0. pc = "descriptor" /\ UNCHANGED dirs
  BY DEF file_new_descriptor
<1>1. PICK fd \in FreeSlots, desc \in {kzalloc({})} :
        IF desc = 0 THEN GoWild({"no memory"})
        ELSE /\ Return(Put(heap, desc, [kind |-> "open", index |-> fd,
                                        private_data |-> call.desc]), fd)
             /\ file_descriptors' = [file_descriptors EXCEPT ![fd] = desc]
             /\ UNCHANGED mishaps
  BY DEF file_new_descriptor
<1>2. desc # 0
  BY <1>1 DEF GoWild
<1>3. PICK g : g = Put(heap, desc, [kind |-> "open", index |-> fd,
                                    private_data |-> call.desc])
  OBVIOUS
<1>4. /\ heap' = LosePath(g) /\ result' = fd
      /\ file_descriptors' = [file_descriptors EXCEPT ![fd] = desc]
  BY <1>1, <1>2, <1>3 DEF Return
<1>5. desc \in Blocks /\ heap[desc] = Free
  BY <1>2, KzallocReturns
<1>6. CASE call.astray
  <2>1. fd \in Nat /\ fd > 0
    BY FileSystemAssumption DEF FreeSlots
  <2>2. result' > 0
    BY <1>4, <2>1
  <2> QED
    BY <1>6, <2>2, Zenon DEF Answered
<1>7. CASE ~call.astray
  <2>1. Trusted
    BY <1>7 DEF Trusted
  <2>2. PICK path, n : path = call.path /\ n = Count(path)
    BY Zenon
  <2>3. /\ n \in Nat \ {0}
        /\ Represents(heap, call.curr, Reached(dirs, path)[n])
    BY <1>0, <2>1, <2>2, Zenon DEF SearchInv
  <2>4. PICK e : e = Reached(dirs, path)[n]
    BY Zenon
  <2>5. PICK x : x = call.curr
    BY Zenon
  <2>6. Named(path) = e
    <3>1. Names(path) # <<>>
      <4>1. Len(<<>>) = 0
        OBVIOUS
      <4> QED
        BY <2>2, <2>3, <4>1 DEF Count
    <3>2. EntryOf(dirs, Names(path)) = e
      BY <2>2, <2>3, <2>4, ReachedIs
    <3> QED
      BY <3>1, <3>2, Zenon DEF Named
  <2>7. Represents(heap, x, e)
    BY <2>3, <2>4, <2>5, Zenon
  <2>8. PICK ref : ref = heap[x].ref
    BY Zenon
  <2>9. /\ x \in Blocks /\ heap[x].kind = "item" /\ ref \in Blocks
        /\ heap[x].type = IF e.dir THEN "dir" ELSE "file"
        /\ heap[ref].kind = heap[x].type
        /\ IF e.dir THEN heap[ref].id = e.first ELSE heap[ref].entry = e
    BY <2>7, <2>8, Zenon DEF Represents
  <2>10. /\ call.desc \in Blocks /\ heap[call.desc].kind = "descriptor"
         /\ heap[call.desc].item = x
    BY <1>0, <2>5, CallPointers, PointersAre
       DEF FilesInv, CallInv, IsNullOr, Is
  <2>11. /\ \A b \in Blocks : heap[b].kind \in FileKinds => heap'[b] = heap[b]
         /\ heap'[desc] = [kind |-> "open", index |-> fd,
                           private_data |-> call.desc]
    <3>1. /\ \A b \in Blocks : b # desc => g[b] = heap[b]
          /\ g[desc] = [kind |-> "open", index |-> fd,
                        private_data |-> call.desc]
      BY <1>3, <1>5, PutChanges
    <3>2. \A b \in Blocks : g[b].kind \notin {"root", "name", "part"} =>
                              heap'[b] = g[b]
      BY <1>4, LosePathChanges
    <3>3. g[desc].kind = "open"
      BY <3>1
    <3>4. Free.kind = "free"
      BY FreeIsObject
    <3>5. heap'[desc] = g[desc]
      BY <1>5, <3>2, <3>3
    <3>6. ASSUME NEW b \in Blocks, heap[b].kind \in FileKinds
          PROVE  heap'[b] = heap[b]
      BY <1>5, <3>1, <3>2, <3>4, <3>6 DEF FileKinds
    <3> QED
      BY <3>1, <3>5, <3>6
  <2>12. heap[x].type \in {"file", "dir"}
    BY <2>9
  <2>13. /\ heap'[x] = heap[x] /\ heap'[ref] = heap[ref]
         /\ heap'[call.desc] = heap[call.desc]
    BY <2>9, <2>10, <2>11, <2>12 DEF FileKinds
  <2>14. /\ fd \in Slots /\ fd > 0
         /\ file_descriptors'[fd] = desc /\ fd \in OpenFiles'
    <3>1. fd \in Slots /\ fd > 0
      BY FileSystemAssumption DEF FreeSlots, Slots
    <3>2. /\ file_descriptors' \in [Slots -> Pointers]
          /\ file_descriptors'[fd] = desc
      BY <1>4, <1>5, <3>1, PointersAre DEF FilesInv, TypesInv
    <3> QED
      BY <1>2, <3>1, <3>2 DEF OpenFiles
  <2>15. heap'[heap'[desc].private_data].item = x
    BY <2>10, <2>11, <2>13
  <2>16. Loaded(heap', x)
    BY <2>8, <2>9, <2>13, PointersAre DEF Loaded, Is
  <2>17. IsItem(heap', x, IF e.dir THEN "dir" ELSE "file")
    BY <2>9, <2>13, PointersAre DEF IsItem, Is
  <2>18. IF e.dir THEN heap'[heap'[x].ref].id = e.first
                  ELSE heap'[heap'[x].ref].entry = e
    BY <2>8, <2>9, <2>13
  <2>19. IsOpenFor(fd, e)'
    <3>1. desc \in {file_descriptors'[slot] : slot \in {fd} \cap OpenFiles'}
      BY <2>14
    <3>2. x \in {heap'[heap'[desc].private_data].item}
      BY <2>15
    <3> QED
      BY <2>16, <2>17, <2>18, <3>1, <3>2, Zenon DEF IsOpenFor
  <2>20. IsOpenFor(result, e)'
    BY <1>4, <2>19, Zenon DEF IsOpenFor
  <2>21. e \in {Named(call.path)}
    BY <2>2, <2>6
  <2> QED
    BY <1>4, <2>14, <2>20, <2>21, Zenon DEF Answered
<1> QED
  BY <1>6, <1>7

(* Of the steps of fopen these return.                                     *)
LEMMA FopenEnds ==
  ASSUME FopenStep, pc' = "idle"
  PROVE  \/ fopen_refused \/ fat16_open \/ find_end_root
         \/ walk_done \/ walk_null \/ walk_through_file
         \/ file_new_descriptor \/ file_table_full
<1>1. CASE pathparser_create_root
  <2>1. pc' # "idle"
    BY <1>1 DEF pathparser_create_root, GoWild
  <2> QED
    BY <2>1
<1>2. CASE pathparser_parse_path_part
  <2>1. pc' # "idle"
    BY <1>2 DEF pathparser_parse_path_part, GoWild
  <2> QED
    BY <2>1
<1>3. CASE pathparser_parse_end
  <2>1. pc' # "idle"
    BY <1>3 DEF pathparser_parse_end, GoWild
  <2> QED
    BY <2>1
<1>4. CASE find_no_match
  <2>1. pc' # "idle"
    BY <1>4 DEF find_no_match, Searching
  <2> QED
    BY <2>1
<1>5. CASE find_file
  <2>1. pc = "find" /\ UNCHANGED pc
    BY <1>5 DEF find_file, Searching
  <2> QED
    BY <2>1
<1>6. CASE find_dir
  <2>1. pc = "find" /\ UNCHANGED pc
    BY <1>6 DEF find_dir, Searching
  <2> QED
    BY <2>1
<1>7. CASE find_end_dir
  <2>1. pc' # "idle"
    BY <1>7 DEF find_end_dir, GoWild
  <2> QED
    BY <2>1
<1>8. CASE walk_into_dir
  <2>1. pc' # "idle"
    BY <1>8 DEF walk_into_dir, GoWild
  <2> QED
    BY <2>1
<1>9. CASE find_dir_hangs
  <2>1. pc' # "idle"
    BY <1>9 DEF find_dir_hangs, GoWild
  <2> QED
    BY <2>1
<1> QED
  BY <1>1, <1>2, <1>3, <1>4, <1>5, <1>6, <1>7, <1>8, <1>9 DEF FopenStep

(* Between its beginning and its end a call of fopen takes only its steps. *)
LEMMA CallsFromIdle ==
  ASSUME Next, pc \notin {"boot", "idle"}
  PROVE  FopenStep
<1>1. ~fat16_resolve
  BY DEF fat16_resolve
<1>2. \A o \in Opens : ~fopen(o) /\ ~fopen_bad_path(o)
  BY DEF fopen, fopen_bad_path
<1>3. ASSUME NEW fd \in FileNumbers
      PROVE  ~not_open(fd) /\ ~fread(fd) /\ ~fstat(fd) /\ ~fclose(fd)
  BY DEF not_open, fread, fstat, fclose
<1>4. \A fd, offset, whence : ~fseek(fd, offset, whence)
  BY DEF fseek
<1> QED
  BY <1>1, <1>2, <1>3, <1>4, Zenon DEF Next

LEMMA OpensOrExcused ==
  ASSUME DeletedUnnamed, FilesInv, SearchInv, FopenStep, pc' = "idle"
  PROVE  Answered
<1>1. CASE fopen_refused
  BY <1>1, RefusesUnnamed
<1>2. CASE fat16_open
  <2>1. pc' # "find"
    OBVIOUS
  <2>2. kzalloc({}) = 0 /\ Return(heap, 0)
    BY <1>2, <2>1 DEF fat16_open
  <2> QED
    BY <2>2, Fails, Zenon DEF Excused
<1>3. CASE find_end_root
  <2>1. /\ pc = "find" /\ call.found = 0
        /\ call.i > fat16_get_total_items_for_dir(Searched)
        /\ Return(kfree(heap, {call.desc}), 0)
    BY <1>3 DEF find_end_root, OpenFails
  <2> QED
    BY <2>1, SearchFails
<1>4. CASE walk_done
  <2>1. /\ pc = "walk" /\ call.curr = 0
        /\ Return(kfree(heap, {call.desc}), 0)
    BY <1>4 DEF walk_done, OpenFails
  <2> QED
    BY <2>1, SearchFails
<1>5. CASE walk_null
  <2>1. /\ pc = "walk" /\ call.curr = 0
        /\ Return(kfree(heap, {call.desc}), 0)
    BY <1>5 DEF walk_null, OpenFails, GoWild
  <2> QED
    BY <2>1, SearchFails
<1>6. CASE walk_through_file
  <2>1. /\ pc = "walk" /\ NextPart # 0 /\ IsItem(heap, call.curr, "file")
        /\ Return(kfree(heap, {call.desc}), 0)
    BY <1>6 DEF walk_through_file, OpenFails
  <2> QED
    BY <2>1, SearchFails
<1>7. CASE file_new_descriptor
  BY <1>7, OpensTheFound
<1>8. CASE file_table_full
  <2>1. FreeSlots = {} /\ Return(heap, 0)
    BY <1>8 DEF file_table_full
  <2> QED
    BY <2>1, Fails, Zenon DEF Excused
<1> QED
  BY <1>1, <1>2, <1>3, <1>4, <1>5, <1>6, <1>7, <1>8, FopenEnds

(* fopen opens what its path names, and only that: when it returns a       *)
(* descriptor it is for the entry that the names of the path lead to, and  *)
(* when it returns none there is no such entry, or the volume, the mode,   *)
(* memory, the table or deleted entries are the reason.  Nothing is said   *)
(* where an allocation of the search failed or the path led to or through  *)
(* a directory longer than a cluster.                                      *)
THEOREM OpensTheNamed ==
  UniqueNames /\ DeletedUnnamed => (Spec => OpensWhatIsNamed)
<1> SUFFICES ASSUME UniqueNames, DeletedUnnamed
             PROVE  Spec => OpensWhatIsNamed
  OBVIOUS
<1> DEFINE Body == pc \notin {"boot", "idle"} /\ pc' = "idle" => Answered
<1>1. Init => SearchInv
  BY InitSearches
<1>2. FilesInv /\ SearchInv /\ [Next]_vars => SearchInv'
  BY StepsKeepSearching
<1>3. FilesInv /\ SearchInv /\ [Next]_vars => [Body]_vars
  <2>1. ASSUME FilesInv, SearchInv, Next, pc \notin {"boot", "idle"},
               pc' = "idle"
        PROVE  Answered
    BY <2>1, CallsFromIdle, OpensOrExcused
  <2> QED
    BY <2>1
<1>4. [][Body]_vars => OpensWhatIsNamed
  BY PTL DEF OpensWhatIsNamed, Answered, Excused
<1> QED
  BY <1>1, <1>2, <1>3, <1>4, FilesInvariant, PTL DEF Spec

=============================================================================
