---------------------------- MODULE DurableStore ----------------------------
(***************************************************************************)
(* Directories whose changes become durable only when the directory is     *)
(* synchronised.  A store is the tree every process sees and the set of    *)
(* trees a power loss may leave.  Until a directory is synchronised each   *)
(* of its changes may or may not have reached the disk, in any             *)
(* combination; a rename reaches it whole or not at all.  A directory here *)
(* holds at most one file, the one of the call or wake under study.        *)
(***************************************************************************)
CONSTANT Absent

\* What a disk is behind on: the directories with a change it has not got.
Disk(files, behind) == [files |-> files, behind |-> behind]

StoreOf(files) == [seen |-> files, disks |-> {Disk(files, {})}]

\* link, unlink, or a rename over the file of the same directory.
Put(store, dir, value) ==
  [seen  |-> [store.seen EXCEPT ![dir] = value],
   disks |-> {Disk([d.files EXCEPT ![dir] = value], d.behind) :
                d \in store.disks}
             \cup {Disk(d.files, d.behind \cup {dir}) : d \in store.disks}]

Moved(files, from, to) ==
  [files EXCEPT ![from] = Absent, ![to] = files[from]]

\* A rename between directories; it reaches only a disk that has the file.
Move(store, from, to) ==
  [seen  |-> Moved(store.seen, from, to),
   disks |-> {Disk(Moved(d.files, from, to), d.behind) :
                d \in {e \in store.disks :
                       e.files[from] = store.seen[from]}}
             \cup {Disk(d.files, d.behind \cup {from, to}) :
                     d \in store.disks}]

\* syncDirectory: no disk is behind on the directory any longer.
SyncDirectory(store, dir) ==
  [store EXCEPT !.disks = {d \in @ : dir \notin d.behind}]

\* What a machine may find when it is started again.
AfterPowerLoss(store) == {StoreOf(d.files) : d \in store.disks}
=============================================================================
