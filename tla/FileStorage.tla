----------------------------- MODULE FileStorage -----------------------------
(***************************************************************************)
(* src/storage/file_storage.rs: droplets in files drpNNNNNN.dat, one       *)
(* directory epochNNNNNN per epoch, under the droplets directory.          *)
(*                                                                         *)
(* A store maps the number of every epoch directory that exists to the     *)
(* files in it, by file number.  A file holds a droplet, or is torn: it    *)
(* was created but its droplet was not, or not completely, written.        *)
(***************************************************************************)
EXTENDS Integers, FiniteSets

Torn == << >>

NoFiles == [n \in {} |-> Torn]
EmptyStore == [e \in {} |-> NoFiles]

\* epoch_count: the number of directories, whatever their names.
EpochCount(store) == Cardinality(DOMAIN store)

\* new: create_dir_all, then count the files that are already there.
OpenDir(store, epoch) ==
  [e \in DOMAIN store \cup {epoch} |-> IF e \in DOMAIN store THEN store[e] ELSE NoFiles]
FilesCount(store, epoch) == Cardinality(DOMAIN store[epoch])

\* File::create truncates an existing file, the droplet is written afterwards.
PutFile(store, epoch, num, content) ==
  [store EXCEPT ![epoch] =
     [n \in DOMAIN store[epoch] \cup {num} |-> IF n = num THEN content ELSE store[epoch][n]]]
CreateFile(store, epoch, num) == PutFile(store, epoch, num, Torn)

Whole(store, epoch) == {n \in DOMAIN store[epoch] : store[epoch][n] # Torn}
==============================================================================
