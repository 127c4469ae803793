---------------------------- MODULE MCFileSystem ----------------------------
(***************************************************************************)
(* Instance of module FileSystem for TLC: a root directory with a file and *)
(* a directory that holds another file, alone, behind a deleted entry or   *)
(* behind the end of a cluster, or that is empty, and paths of every sort. *)
(***************************************************************************)
EXTENDS FileSystem, TLC

ASSUME NamesAssumption == UniqueNames /\ DeletedUnnamed

LowerLetters == [A |-> "a", B |-> "b", D |-> "d"]

File(name, ext, size) == [fname |-> name, ext |-> ext, dir |-> FALSE,
                          first |-> 3, file_size |-> size]
Directory(name, first) == [fname |-> name, ext |-> <<" ">>, dir |-> TRUE,
                           first |-> first, file_size |-> 0]

Deleted == File(<<DELETED, " ">>, <<" ">>, 1)

RootFile == File(<<"A", " ">>, <<"B">>, 2)

RootDirectory == <<Directory(<<"D", " ">>, 2), RootFile>>
SubDirectory  == <<File(<<"B", "B">>, <<" ">>, 1)>>

SmallVolumes ==
  {(1 :> RootDirectory @@ 2 :> SubDirectory),
   (1 :> RootDirectory @@ 2 :> <<Deleted>> \o SubDirectory),
   (1 :> RootDirectory @@ 2 :> <<RootFile>> \o SubDirectory),
   (1 :> RootDirectory @@ 2 :> <<>>)}

Read(path) == [path |-> path, mode |-> "r"]

SmallOpens ==
  {Read(<<"0", ":", "/", "a", ".", "b">>),           \* the file
   Read(<<"0", ":", "/", "D", "/", "b", "b">>),      \* the file below
   Read(<<"0", ":", "/", "d", "/", "/", "x">>),      \* in fact the directory
   Read(<<"0", ":", "/", "d", "/", "x">>),           \* no such file
   Read(<<"0", ":", "/", "d", "/", "x", "/", "a">>), \* no such directory
   Read(<<"0", ":", "/", "a", ".", "b", "/", "a">>), \* through the file
   Read(<<"1", ":", "/", "a">>),                     \* no such disk
   Read(<<"0", ":", "/">>),                          \* no part
   Read(<<"a", ".", "b">>),                          \* not a path
   Read(<<"0", ":", "/", "a", "/", "a", "/", "a", "/", "a">>), \* too long
   [path |-> <<"0", ":", "/", "d">>, mode |-> "w"]}

=============================================================================
