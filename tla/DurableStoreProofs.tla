------------------------- MODULE DurableStoreProofs -------------------------
(***************************************************************************)
(* What the operations on a store keep: every disk agrees with what the    *)
(* processes see in each directory it is not behind on.                    *)
(***************************************************************************)
EXTENDS DurableStore, TLAPS

StoreType(D, V) ==
  [seen : [D -> V], disks : SUBSET [files : [D -> V], behind : SUBSET D]]

IsStore(store, D, V) ==
  /\ store \in StoreType(D, V)
  /\ \A d \in store.disks :
       \A dir \in D \ d.behind : d.files[dir] = store.seen[dir]

\* No disk is behind on the directory.
Durable(store, dir) == \A d \in store.disks : dir \notin d.behind

\* Every disk holds the value in the directory.
Holds(store, dir, value) == \A d \in store.disks : d.files[dir] = value

\* A tree just read from a disk is on that disk.
LEMMA StoreOfIsStore ==
  ASSUME NEW D, NEW V, NEW files \in [D -> V]
  PROVE  IsStore(StoreOf(files), D, V)
BY DEF IsStore, StoreType, StoreOf, Disk

\* A change of one directory: what is seen, and each disk with the change or
\* behind on it.
LEMMA PutKeepsStore ==
  ASSUME NEW D, NEW V, NEW store, IsStore(store, D, V),
         NEW dir \in D, NEW value \in V
  PROVE  /\ IsStore(Put(store, dir, value), D, V)
         /\ Put(store, dir, value).seen = [store.seen EXCEPT ![dir] = value]
<1>1. \A d \in store.disks : d.files \in [D -> V] /\ d.behind \subseteq D
  BY DEF IsStore, StoreType
<1>2. \A e \in Put(store, dir, value).disks :
        /\ e \in [files : [D -> V], behind : SUBSET D]
        /\ \A other \in D \ e.behind :
             e.files[other] = [store.seen EXCEPT ![dir] = value][other]
  BY <1>1 DEF IsStore, StoreType, Put, Disk
<1> QED BY <1>2 DEF IsStore, StoreType, Put

\* Each disk after a change comes from one before it.
LEMMA PutDisks ==
  ASSUME NEW D, NEW V, NEW store, IsStore(store, D, V),
         NEW dir \in D, NEW value \in V,
         NEW e \in Put(store, dir, value).disks
  PROVE  \E d \in store.disks :
           \/ e.files = [d.files EXCEPT ![dir] = value] /\ e.behind = d.behind
           \/ e.files = d.files /\ e.behind = d.behind \cup {dir}
<1>1. CASE \E d \in store.disks :
             e = Disk([d.files EXCEPT ![dir] = value], d.behind)
  <2>1. PICK d \in store.disks :
          e = Disk([d.files EXCEPT ![dir] = value], d.behind)
    BY <1>1
  <2>2. e.files = [d.files EXCEPT ![dir] = value] /\ e.behind = d.behind
    BY <2>1 DEF Disk
  <2> QED BY <2>2
<1>2. CASE \E d \in store.disks : e = Disk(d.files, d.behind \cup {dir})
  <2>1. PICK d \in store.disks : e = Disk(d.files, d.behind \cup {dir})
    BY <1>2
  <2>2. e.files = d.files /\ e.behind = d.behind \cup {dir}
    BY <2>1 DEF Disk
  <2> QED BY <2>2
<1> QED BY <1>1, <1>2 DEF Put

\* A rename between two directories.
LEMMA MoveKeepsStore ==
  ASSUME NEW D, NEW V, NEW store, IsStore(store, D, V), Absent \in V,
         NEW from \in D, NEW to \in D
  PROVE  /\ IsStore(Move(store, from, to), D, V)
         /\ Move(store, from, to).seen = Moved(store.seen, from, to)
<1>1. \A d \in store.disks : d.files \in [D -> V] /\ d.behind \subseteq D
  BY DEF IsStore, StoreType
<1>2. store.seen \in [D -> V]
  BY DEF IsStore, StoreType
<1>3. \A f \in [D -> V] : Moved(f, from, to) \in [D -> V]
  BY DEF Moved
<1>4. ASSUME NEW e \in Move(store, from, to).disks
      PROVE  /\ e \in [files : [D -> V], behind : SUBSET D]
             /\ \A other \in D \ e.behind :
                  e.files[other] = Moved(store.seen, from, to)[other]
  <2>1. CASE \E d \in store.disks :
               /\ d.files[from] = store.seen[from]
               /\ e.files = Moved(d.files, from, to)
               /\ e.behind = d.behind
               /\ e = Disk(e.files, e.behind)
    <3>1. PICK d \in store.disks :
            /\ d.files[from] = store.seen[from]
            /\ e.files = Moved(d.files, from, to)
            /\ e.behind = d.behind
            /\ e = Disk(e.files, e.behind)
      BY <2>1
    <3>2. d.files \in [D -> V] /\ d.behind \subseteq D
      BY <1>1
    <3>3. \A other \in D \ d.behind : d.files[other] = store.seen[other]
      BY DEF IsStore
    <3>4. e.files \in [D -> V] /\ e.behind \subseteq D
      BY <1>3, <3>1, <3>2
    <3>5. e \in [files : [D -> V], behind : SUBSET D]
      BY <3>1, <3>4 DEF Disk
    <3>6. ASSUME NEW other \in D \ d.behind
          PROVE  Moved(d.files, from, to)[other]
                   = Moved(store.seen, from, to)[other]
      BY <1>2, <3>1, <3>2, <3>3, <3>6 DEF Moved
    <3> QED BY <3>1, <3>5, <3>6
  <2>2. CASE \E d \in store.disks :
               e = Disk(d.files, d.behind \cup {from, to})
    BY <1>1, <1>2, <2>2 DEF IsStore, Moved, Disk
  <2>3. \/ \E d \in store.disks :
             /\ d.files[from] = store.seen[from]
             /\ e = Disk(Moved(d.files, from, to), d.behind)
        \/ \E d \in store.disks : e = Disk(d.files, d.behind \cup {from, to})
    BY <1>4 DEF Move
  <2> QED BY <2>1, <2>2, <2>3 DEF Disk
<1> QED BY <1>2, <1>3, <1>4 DEF IsStore, StoreType, Move

\* Each disk after a rename comes from one before it, whole or behind on both.
LEMMA MoveDisks ==
  ASSUME NEW store, NEW from, NEW to, NEW e \in Move(store, from, to).disks
  PROVE  \E d \in store.disks :
           \/ /\ e.files = Moved(d.files, from, to) /\ e.behind = d.behind
              /\ d.files[from] = store.seen[from]
           \/ e.files = d.files /\ e.behind = d.behind \cup {from, to}
BY DEF Move, Disk

\* Synchronising loses the disks that are behind, and what is seen is durable.
LEMMA SyncKeepsStore ==
  ASSUME NEW D, NEW V, NEW store, IsStore(store, D, V), NEW dir \in D
  PROVE  /\ IsStore(SyncDirectory(store, dir), D, V)
         /\ SyncDirectory(store, dir).seen = store.seen
         /\ SyncDirectory(store, dir).disks \subseteq store.disks
         /\ Durable(SyncDirectory(store, dir), dir)
         /\ Holds(SyncDirectory(store, dir), dir, store.seen[dir])
BY DEF IsStore, StoreType, SyncDirectory, Durable, Holds

\* A power loss leaves the tree of one of the disks.
LEMMA PowerLossKeepsStore ==
  ASSUME NEW D, NEW V, NEW store, IsStore(store, D, V),
         NEW next \in AfterPowerLoss(store)
  PROVE  /\ IsStore(next, D, V)
         /\ \E d \in store.disks :
              next.seen = d.files /\ next.disks = {Disk(d.files, {})}
<1>1. PICK d \in store.disks : next = StoreOf(d.files)
  BY DEF AfterPowerLoss
<1>2. d.files \in [D -> V]
  BY DEF IsStore, StoreType
<1> QED BY <1>1, <1>2, StoreOfIsStore DEF StoreOf
=============================================================================
