--------------------------- MODULE CallEntryProofs ---------------------------
(***************************************************************************)
(* Proofs about CallEntry for any calls, reconcilers and readers and any   *)
(* number of power losses.                                                 *)
(***************************************************************************)
EXTENDS CallEntry, DurableStoreProofs

EntryOK ==
  /\ IsStore(store, Dirs, Contents)
  /\ pc \in [Actors -> Labels]
  /\ unsynced \in [Actors -> SUBSET Dirs]
  /\ winner \in [Actors -> Contents]

\* A step leaves these directories as they are, on every disk.
Kept(dirs) ==
  /\ \A dir \in dirs : store'.seen[dir] = store.seen[dir]
  /\ \A e \in store'.disks : \E d \in store.disks :
       \A dir \in dirs : e.files[dir] = d.files[dir]

\* One actor moves.
Alone(p) ==
  \A q \in Actors \ {p} :
    pc'[q] = pc[q] /\ unsynced'[q] = unsynced[q] /\ winner'[q] = winner[q]

\* A step that changes no file.
LEMMA StayKeeps ==
  ASSUME IsStore(store, Dirs, Contents), store' = store
  PROVE  IsStore(store, Dirs, Contents)' /\ Kept(Dirs)
BY DEF Kept, IsStore

\* A change of one directory, which a disk has got or not.
Changed(dir, value) ==
  \A e \in store'.disks : \E d \in store.disks :
    /\ \A other \in Dirs \ {dir} : e.files[other] = d.files[other]
    /\ e.files[dir] = value \/ e.files[dir] = d.files[dir]

\* A change of one directory keeps the others.
LEMMA PutKeeps ==
  ASSUME IsStore(store, Dirs, Contents), NEW dir \in Dirs,
         NEW value \in Contents, store' = Put(store, dir, value)
  PROVE  /\ IsStore(store, Dirs, Contents)'
         /\ Kept(Dirs \ {dir})
         /\ Changed(dir, value)
         /\ store'.seen[dir] = value
<1>1. /\ IsStore(store', Dirs, Contents)
      /\ store'.seen = [store.seen EXCEPT ![dir] = value]
  BY PutKeepsStore
<1>2. store.seen \in [Dirs -> Contents]
  BY DEF IsStore, StoreType
<1>3. ASSUME NEW e \in store'.disks
      PROVE  \E d \in store.disks :
               /\ \A other \in Dirs \ {dir} : e.files[other] = d.files[other]
               /\ e.files[dir] = value \/ e.files[dir] = d.files[dir]
  <2>1. PICK d \in store.disks :
          \/ e.files = [d.files EXCEPT ![dir] = value] /\ e.behind = d.behind
          \/ e.files = d.files /\ e.behind = d.behind \cup {dir}
    BY PutDisks
  <2>2. d.files \in [Dirs -> Contents]
    BY DEF IsStore, StoreType
  <2> QED BY <2>1, <2>2
<1> QED BY <1>1, <1>2, <1>3 DEF Kept, Changed, IsStore

\* A link leaves a record under the name, its own or the one it found.
LEMMA LinkKeeps ==
  ASSUME EntryOK, NEW p \in Actors, NEW dir \in Dirs,
         NEW value \in Contents \ {Absent}, Link(p, dir, value)
  PROVE  /\ IsStore(store, Dirs, Contents)'
         /\ Kept(Dirs \ {dir})
         /\ store'.seen[dir] = IF Seen(dir) THEN store.seen[dir] ELSE value
         /\ Seen(dir) => store' = store
         /\ ~Seen(dir) => Changed(dir, value)
         /\ unsynced' = [unsynced EXCEPT ![p] = {dir}]
<1>1. CASE Seen(dir)
  <2>1. store' = store /\ unsynced' = [unsynced EXCEPT ![p] = {dir}]
    BY <1>1 DEF Link, ObservedDirs, Owes
  <2> QED BY <1>1, <2>1, StayKeeps DEF Kept, EntryOK
<1>2. CASE ~Seen(dir)
  <2>1. /\ store' = Put(store, dir, value)
        /\ unsynced' = [unsynced EXCEPT ![p] = {dir}]
    BY <1>2 DEF Link, Owes
  <2> QED BY <1>2, <2>1, PutKeeps DEF EntryOK
<1> QED BY <1>1, <1>2

\* Synchronising changes no file, and what is seen is then on every disk.
LEMMA SyncKeeps ==
  ASSUME EntryOK, NEW dir \in Dirs, store' = SyncDirectory(store, dir)
  PROVE  /\ IsStore(store, Dirs, Contents)'
         /\ Kept(Dirs)
         /\ Holds(store, dir, store.seen[dir])'
<1>1. /\ IsStore(store', Dirs, Contents)
      /\ store'.seen = store.seen
      /\ store'.disks \subseteq store.disks
      /\ Holds(store', dir, store.seen[dir])
  BY SyncKeepsStore DEF EntryOK
<1> QED BY <1>1 DEF Kept, Holds, IsStore

\* The steps of one actor.
ActorStep(p) ==
  \/ p = Hook /\ (PublishAdmission \/ ReturnLocator)
  \/ p \in Calls /\ CallStep(p)
  \/ p \in Reconcilers /\ FindAttempt(p)
  \/ p \in Readers /\ (ListRequest(p) \/ ReadTerminal(p))
  \/ p \in Calls \cup Reconcilers /\ Decide(p)
  \/ Archive(p)
  \/ Sync(p) \/ Kill(p)

\* Every step is an actor's or a power loss.
LEMMA NextSteps == Next => (\E p \in Actors : ActorStep(p)) \/ PowerLoss
BY DEF Next, ActorStep, Actors

\* The types hold at the start, after a power loss and after any actor's step.
LEMMA EntryOKStart == Init => EntryOK
<1> SUFFICES ASSUME Init PROVE EntryOK
  OBVIOUS
<1>1. [dir \in Dirs |-> Absent] \in [Dirs -> Contents]
  BY DEF Contents
<1>2. IsStore(store, Dirs, Contents)
  BY <1>1, StoreOfIsStore DEF Init
<1> QED BY <1>2 DEF Init, EntryOK, Labels, Contents

\* What a step that writes no file leaves of the store.
LEMMA QuietKeepsEntry ==
  ASSUME EntryOK, NEW p \in Actors, NEW from, NEW to \in Labels,
         Step(p, from, to), UNCHANGED <<store, unsynced, winner>>
  PROVE  EntryOK' /\ Alone(p) /\ Kept(Dirs)
<1>1. IsStore(store, Dirs, Contents)' /\ Kept(Dirs)
  BY StayKeeps DEF EntryOK
<1> QED BY <1>1 DEF EntryOK, Step, Alone

\* The same for a link.
LEMMA LinkKeepsEntry ==
  ASSUME EntryOK, NEW p \in Actors, NEW from, NEW to \in Labels,
         NEW dir \in Dirs, NEW value \in Contents \ {Absent},
         Step(p, from, to), Link(p, dir, value), UNCHANGED winner
  PROVE  /\ EntryOK' /\ Alone(p) /\ Kept(Dirs \ {dir})
         /\ store'.seen[dir] = IF Seen(dir) THEN store.seen[dir] ELSE value
         /\ Seen(dir) => store' = store
         /\ ~Seen(dir) => Changed(dir, value)
         /\ unsynced' = [unsynced EXCEPT ![p] = {dir}]
<1>1. /\ IsStore(store, Dirs, Contents)'
      /\ Kept(Dirs \ {dir})
      /\ store'.seen[dir] = IF Seen(dir) THEN store.seen[dir] ELSE value
      /\ Seen(dir) => store' = store
      /\ ~Seen(dir) => Changed(dir, value)
      /\ unsynced' = [unsynced EXCEPT ![p] = {dir}]
  BY LinkKeeps
<1> QED BY <1>1 DEF EntryOK, Step, Alone

\* A step that only moves its actor.
Quiet(p) ==
  \/ p = Hook /\ (ReturnLocator \/ (PublishAdmission /\ Seen("consumed")))
  \/ p \in Calls /\ \/ ReadAdmission(p) \/ Admit(p) \/ ReadArchive(p)
                    \/ ReturnRequest(p) \/ ReturnAttempt(p)
                    \/ Claim(p) /\ ~Claimable
  \/ p \in Reconcilers /\ FindAttempt(p)
  \/ p \in Readers /\ (ListRequest(p) \/ ReadTerminal(p))
  \/ p \in Calls \cup Reconcilers /\ ReturnTerminal(p)
  \/ ArchiveRead(p) \/ ReturnArchived(p)

\* It changes no directory, and nobody else moves.
LEMMA QuietSteps ==
  ASSUME EntryOK, NEW p \in Actors, Quiet(p)
  PROVE  EntryOK' /\ Alone(p) /\ Kept(Dirs)
<1>1. /\ \E from, to \in Labels : Step(p, from, to)
      /\ UNCHANGED <<store, unsynced, winner>>
  BY DEF Quiet, PublishAdmission, ReturnLocator, ReadAdmission, Admit,
     ReadArchive, ReturnRequest, ReturnAttempt, Claim, FindAttempt,
     ListRequest, ReadTerminal, ReturnTerminal, ArchiveRead, ReturnArchived,
     Finished, Labels
<1> QED BY <1>1, QuietKeepsEntry

\* A step that links a record.
Linking(p) ==
  \/ p = Hook /\ PublishAdmission /\ ~Seen("consumed")
  \/ p \in Calls /\ (PublishRequest(p) \/ PublishAttempt(p))
  \/ p \in Calls \cup Reconcilers /\ (Elect(p) \/ PublishTerminal(p))

\* What is written, and where.
LEMMA RecordsAreContents ==
  /\ {"record", "commit", "abort"} \cup Calls \subseteq Contents \ {Absent}
  /\ {"admissions", "consumed", "requests", "archive", "attempts",
      "authority", "terminals"} \subseteq Dirs
BY AbsentIsNoRecord DEF Contents, Decisions, Dirs

\* The hook's, the call's and the reconciler's links.
LEMMA LinkingSteps ==
  ASSUME EntryOK, NEW p \in Actors, Linking(p)
  PROVE  /\ EntryOK' /\ Alone(p)
         /\ \/ p = Hook /\ Kept(Dirs \ {"admissions"})
            \/ p \in Calls /\ PublishRequest(p) /\ Kept(Dirs \ {"requests"})
            \/ p \in Calls /\ PublishAttempt(p) /\ Kept(Dirs \ {"attempts"})
            \/ Elect(p) /\ Kept(Dirs \ {"authority"})
            \/ PublishTerminal(p) /\ Kept(Dirs \ {"terminals"})
<1>1. CASE p = Hook /\ PublishAdmission /\ ~Seen("consumed")
  <2>1. Step(Hook, "idle", "admission") /\ Link(Hook, "admissions", "record")
    BY <1>1 DEF PublishAdmission
  <2> QED BY <1>1, <2>1, LinkKeepsEntry, RecordsAreContents
          DEF PublishAdmission, Labels
<1>2. CASE p \in Calls /\ PublishRequest(p)
  BY <1>2, LinkKeepsEntry, RecordsAreContents DEF PublishRequest, Labels
<1>3. CASE p \in Calls /\ PublishAttempt(p)
  BY <1>3, LinkKeepsEntry, RecordsAreContents DEF PublishAttempt, Labels
<1>4. CASE PublishTerminal(p)
  BY <1>4, LinkKeepsEntry, RecordsAreContents DEF PublishTerminal, Labels
<1>5. CASE p \in Calls \cup Reconcilers /\ Elect(p)
  <2>1. PICK decision \in Decisions :
          /\ Link(p, "authority", decision)
          /\ Step(p, "elect", "elected")
          /\ winner' = [winner EXCEPT ![p] = store'.seen["authority"]]
    BY <1>5 DEF Elect, Decisions
  <2>2. decision \in Contents \ {Absent}
    BY RecordsAreContents DEF Decisions
  <2>3. /\ IsStore(store, Dirs, Contents)'
        /\ Kept(Dirs \ {"authority"})
        /\ store'.seen["authority"]
             = IF Seen("authority") THEN store.seen["authority"] ELSE decision
        /\ unsynced' = [unsynced EXCEPT ![p] = {"authority"}]
    BY <2>1, <2>2, LinkKeeps, RecordsAreContents
  <2>4. store'.seen["authority"] \in Contents
    BY <2>3, RecordsAreContents DEF IsStore, StoreType
  <2>5. /\ pc' = [pc EXCEPT ![p] = "elected"] /\ "elected" \in Labels
        /\ winner' = [winner EXCEPT ![p] = store'.seen["authority"]]
    BY <2>1 DEF Step, Labels
  <2>6. EntryOK' /\ Alone(p)
    BY <2>3, <2>4, <2>5, RecordsAreContents DEF EntryOK, Alone
  <2> QED BY <1>5, <2>3, <2>6
<1> QED BY <1>1, <1>2, <1>3, <1>4, <1>5 DEF Linking

\* The kinds of step of an actor.
LEMMA KindsOfStep ==
  ASSUME NEW p \in Actors, ActorStep(p)
  PROVE  \/ Quiet(p) \/ Linking(p) \/ ArchiveMove(p) \/ Sync(p) \/ Kill(p)
         \/ p \in Calls /\ ((Claim(p) /\ Claimable) \/ UnlinkAdmission(p))
         \/ p \in Calls \cup Reconcilers /\ Obey(p)
<1>1. CASE p = Hook /\ (PublishAdmission \/ ReturnLocator)
  <2>1. CASE p = Hook /\ ReturnLocator
    BY <2>1 DEF Quiet
  <2>2. CASE p = Hook /\ PublishAdmission /\ Seen("consumed")
    BY <2>2 DEF Quiet
  <2>3. CASE p = Hook /\ PublishAdmission /\ ~Seen("consumed")
    BY <2>3 DEF Linking
  <2> QED BY <1>1, <2>1, <2>2, <2>3
<1>2. CASE p \in Calls /\ CallStep(p)
  BY <1>2 DEF CallStep, Quiet, Linking
<1>3. CASE p \in Calls \cup Reconcilers /\ Decide(p)
  BY <1>3 DEF Decide, Quiet, Linking
<1>4. CASE Archive(p)
  BY <1>4 DEF Archive, Quiet
<1>5. CASE \/ p \in Reconcilers /\ FindAttempt(p)
           \/ p \in Readers /\ (ListRequest(p) \/ ReadTerminal(p))
  BY <1>5 DEF Quiet
<1> QED BY <1>1, <1>2, <1>3, <1>4, <1>5 DEF ActorStep

\* What is absent, or whatever a directory holds, is one of the contents.
LEMMA SeenIsContent ==
  ASSUME EntryOK, NEW dir \in Dirs
  PROVE  store.seen[dir] \in Contents
BY DEF EntryOK, IsStore, StoreType

\* The two halves of consuming an admission.
LEMMA ConsumeSteps ==
  ASSUME EntryOK, NEW c \in Calls,
         (Claim(c) /\ Claimable) \/ UnlinkAdmission(c)
  PROVE  /\ EntryOK' /\ Alone(c)
         /\ Claim(c) => /\ Kept(Dirs \ {"consumed"})
                        /\ store'.seen["consumed"] = c
         /\ UnlinkAdmission(c) => Kept(Dirs \ {"admissions"})
<1>1. c \in Actors /\ Absent \in Contents /\ ClaimDirs \subseteq Dirs
  BY DEF Actors, Contents, ClaimDirs, Dirs
<1>2. CASE Claim(c) /\ Claimable
  <2>1. /\ IsStore(store, Dirs, Contents)'
        /\ Kept(Dirs \ {"consumed"})
        /\ store'.seen["consumed"] = c
    BY <1>2, PutKeeps, RecordsAreContents DEF Claim, EntryOK
  <2>2. ~UnlinkAdmission(c)
    BY <1>2 DEF Claim, UnlinkAdmission, Step
  <2> QED BY <1>1, <1>2, <2>1, <2>2 DEF Claim, EntryOK, Step, Alone, Labels
<1>3. CASE UnlinkAdmission(c)
  <2>1. IsStore(store, Dirs, Contents)' /\ Kept(Dirs \ {"admissions"})
    <3>1. CASE Seen("admissions")
      BY <1>1, <1>3, <3>1, PutKeeps, RecordsAreContents
         DEF UnlinkAdmission, EntryOK
    <3>2. CASE ~Seen("admissions")
      BY <1>3, <3>2, StayKeeps DEF UnlinkAdmission, EntryOK, Kept
    <3> QED BY <3>1, <3>2
  <2>2. ~Claim(c)
    BY <1>3 DEF Claim, UnlinkAdmission, Step
  <2> QED BY <1>1, <1>3, <2>1, <2>2
          DEF UnlinkAdmission, EntryOK, Step, Alone, Labels, Owes
<1> QED BY <1>2, <1>3

\* A rename out of the spool leaves every disk with the request on the one
\* side or the other, as it was there before.
LEMMA MoveKeeps ==
  ASSUME EntryOK, store' = Archived
  PROVE  /\ IsStore(store, Dirs, Contents)'
         /\ Kept(Dirs \ {"requests", "archive"})
         /\ store'.seen["requests"] = Absent
         /\ \A e \in store'.disks : \E d \in store.disks :
              \/ /\ e.files["requests"] = d.files["requests"]
                 /\ e.files["archive"] = d.files["archive"]
              \/ /\ e.files["requests"] = Absent
                 /\ e.files["archive"] = store.seen["requests"]
<1> DEFINE Req == "requests"
           Arc == "archive"
<1>1. Req \in Dirs /\ Arc \in Dirs /\ Absent \in Contents /\ Req # Arc
  BY DEF Dirs, Contents
<1>2. /\ IsStore(store', Dirs, Contents)
      /\ store'.seen = Moved(store.seen, Req, Arc)
  BY <1>1, MoveKeepsStore DEF EntryOK, Archived
<1>3. \A f \in [Dirs -> Contents] :
        /\ Moved(f, Req, Arc)[Req] = Absent
        /\ Moved(f, Req, Arc)[Arc] = f[Req]
        /\ \A dir \in Dirs \ {Req, Arc} : Moved(f, Req, Arc)[dir] = f[dir]
  BY <1>1 DEF Moved
<1>4. store.seen \in [Dirs -> Contents]
  BY DEF EntryOK, IsStore, StoreType
<1>5. ASSUME NEW e \in store'.disks
      PROVE  \E d \in store.disks :
               /\ \A dir \in Dirs \ {Req, Arc} : e.files[dir] = d.files[dir]
               /\ \/ e.files[Req] = d.files[Req] /\ e.files[Arc] = d.files[Arc]
                  \/ e.files[Req] = Absent /\ e.files[Arc] = store.seen[Req]
  <2>1. PICK d \in store.disks :
          \/ /\ e.files = Moved(d.files, Req, Arc) /\ e.behind = d.behind
             /\ d.files[Req] = store.seen[Req]
          \/ e.files = d.files /\ e.behind = d.behind \cup {Req, Arc}
    BY MoveDisks DEF Archived
  <2>2. d.files \in [Dirs -> Contents]
    BY DEF EntryOK, IsStore, StoreType
  <2> QED BY <1>3, <2>1, <2>2
<1> QED BY <1>2, <1>3, <1>4, <1>5 DEF Kept, IsStore

\* The step that moves a request to the archive.
LEMMA ArchiveSteps ==
  ASSUME EntryOK, NEW p \in Actors, ArchiveMove(p)
  PROVE  /\ EntryOK' /\ Alone(p)
         /\ Kept(Dirs \ {"requests", "archive"})
         /\ ~Seen("requests") => Kept(Dirs)
         /\ Seen("requests") /\ ~Seen("archive") => store' = Archived
<1>1. IsStore(store, Dirs, Contents)' /\ Kept(Dirs \ {"requests", "archive"})
      /\ (~Seen("requests") => Kept(Dirs))
  <2>1. CASE ~Seen("requests")
    BY <2>1, StayKeeps DEF ArchiveMove, EntryOK, Kept
  <2>2. CASE Seen("requests") /\ Seen("archive")
    <3>1. /\ store' = Put(store, "requests", Absent)
          /\ Absent \in Contents
      BY <2>2 DEF ArchiveMove, Contents
    <3>2. IsStore(store, Dirs, Contents)' /\ Kept(Dirs \ {"requests"})
      BY <3>1, PutKeeps, RecordsAreContents DEF EntryOK
    <3> QED BY <2>2, <3>2 DEF Kept
  <2>3. CASE Seen("requests") /\ ~Seen("archive")
    BY <2>3, MoveKeeps DEF ArchiveMove
  <2> QED BY <2>1, <2>2, <2>3
<1>2. {"requests", "archive"} \in SUBSET Dirs /\ "archived" \in Labels
  BY DEF Dirs, Labels
<1>3. /\ pc' = [pc EXCEPT ![p] = "archived"]
      /\ unsynced' = [unsynced EXCEPT ![p] = {"requests", "archive"}]
      /\ winner' = winner
  BY DEF ArchiveMove, Step, Owes
<1>4. EntryOK' /\ Alone(p)
  BY <1>1, <1>2, <1>3 DEF EntryOK, Alone
<1> QED BY <1>1, <1>4 DEF ArchiveMove

\* Obeying the winner writes nothing.
LEMMA ObeySteps ==
  ASSUME EntryOK, NEW p \in Calls \cup Reconcilers, Obey(p)
  PROVE  /\ EntryOK' /\ Alone(p) /\ Kept(Dirs)
         /\ pc[p] = "elected" /\ pc'[p] \in {"over", "linkTerminal"}
         /\ store' = store /\ admitted' = admitted /\ unsynced' = unsynced
<1>1. IsStore(store, Dirs, Contents)' /\ Kept(Dirs)
  BY StayKeeps DEF EntryOK, Obey
<1>2. p \in Actors /\ Absent \in Contents
  BY DEF Actors, Contents
<1> QED BY <1>1, <1>2 DEF EntryOK, Obey, Step, Alone, Labels

\* A directory is synchronised by an actor that owes it.
LEMMA SyncSteps ==
  ASSUME EntryOK, NEW p \in Actors, Sync(p)
  PROVE  /\ EntryOK' /\ Alone(p) /\ Kept(Dirs)
         /\ pc' = pc /\ winner' = winner
         /\ \E dir \in Dirs :
              /\ unsynced' = [unsynced EXCEPT ![p] = unsynced[p] \ {dir}]
              /\ Holds(store, dir, store.seen[dir])'
<1>1. PICK dir \in unsynced[p] :
        /\ store' = SyncDirectory(store, dir)
        /\ unsynced' = [unsynced EXCEPT ![p] = unsynced[p] \ {dir}]
  BY DEF Sync, Owes
<1>2. dir \in Dirs
  BY DEF EntryOK
<1>3. /\ IsStore(store, Dirs, Contents)'
      /\ Kept(Dirs)
      /\ Holds(store, dir, store.seen[dir])'
  BY <1>1, <1>2, SyncKeeps
<1>4. pc' = pc /\ winner' = winner
  BY DEF Sync
<1>5. EntryOK' /\ Alone(p)
  BY <1>1, <1>3, <1>4 DEF EntryOK, Alone
<1> QED BY <1>1, <1>2, <1>3, <1>4, <1>5

\* A process killed stops where it is, without a trace in the files.
LEMMA KillSteps ==
  ASSUME EntryOK, NEW p \in Actors, Kill(p)
  PROVE  /\ EntryOK' /\ Alone(p) /\ Kept(Dirs)
         /\ pc'[p] \in {"idle", "over"}
         /\ pc'[p] = "idle" => p \notin Calls
<1>1. IsStore(store, Dirs, Contents)' /\ Kept(Dirs)
  BY StayKeeps DEF EntryOK, Kill
<1>2. Stopped(p) \in {"idle", "over"} /\ {"idle", "over"} \subseteq Labels
  BY DEF Stopped, Labels
<1>3. Absent \in Contents
  BY DEF Contents
<1>4. Stopped(p) = "idle" => p \notin Calls
  BY ActorsDiffer DEF Stopped, Kill
<1> QED BY <1>1, <1>2, <1>3, <1>4 DEF EntryOK, Kill, Alone, Owes

\* After a power loss everybody has stopped, and what is found was on a disk.
LEMMA PowerLossSteps ==
  ASSUME EntryOK, PowerLoss
  PROVE  /\ EntryOK'
         /\ \A p \in Actors : pc'[p] \in {"idle", "over"}
         /\ \A c \in Calls : pc'[c] = "idle" => pc[c] = "idle"
         /\ \A p \in Actors : unsynced'[p] = {}
         /\ \E d \in store.disks :
              store'.seen = d.files /\ \A e \in store'.disks : e.files = d.files
<1>1. /\ IsStore(store', Dirs, Contents)
      /\ \E d \in store.disks :
           store'.seen = d.files /\ store'.disks = {Disk(d.files, {})}
  BY PowerLossKeepsStore DEF EntryOK, PowerLoss
<1>2. \E d \in store.disks :
        store'.seen = d.files /\ \A e \in store'.disks : e.files = d.files
  BY <1>1 DEF Disk
<1>3. \A p \in Actors : Stopped(p) \in {"idle", "over"}
  BY DEF Stopped
<1>4. \A c \in Calls : c \in Actors /\ (Stopped(c) = "idle" => pc[c] = "idle")
  BY ActorsDiffer DEF Stopped, Actors
<1>5. Absent \in Contents /\ {"idle", "over"} \subseteq Labels
  BY DEF Contents, Labels
<1> QED BY <1>1, <1>2, <1>3, <1>4, <1>5 DEF EntryOK, PowerLoss, IsStore

(***************************************************************************)
(* One call is admitted: the tombstone names it, and it is on every disk   *)
(* before the call goes on.                                                *)
(***************************************************************************)
Entering == {"idle", "claim", "unlink", "claimed"}
Requesting == {"readArchive", "linkRequest", "request"}

ConsumedBy(c) == store.seen["consumed"] = c /\ Holds(store, "consumed", c)

AdmitInv ==
  /\ admitted \subseteq Calls
  /\ \A c \in Calls :
       /\ pc[c] \in {"unlink", "claimed"} => store.seen["consumed"] = c
       /\ pc[c] = "claimed" /\ "consumed" \notin unsynced[c]
            => Holds(store, "consumed", c)
       /\ c \in admitted => ConsumedBy(c) /\ pc[c] \notin Entering
       /\ pc[c] \in Requesting => c \in admitted

\* A directory that is kept holds what it held.
LEMMA KeptHolds ==
  ASSUME NEW dirs, NEW dir \in dirs, Kept(dirs)
  PROVE  /\ store'.seen[dir] = store.seen[dir]
         /\ \A v : Holds(store, dir, v) => Holds(store', dir, v)
BY DEF Kept, Holds

\* Calls do not move back, nor into what admits them, but by these steps.
LEMMA AdmitQuiet ==
  ASSUME AdmitInv, EntryOK, Kept({"consumed"}), admitted' = admitted,
         \A c \in Calls :
           \/ pc'[c] = pc[c] /\ unsynced'[c] = unsynced[c]
           \/ /\ pc'[c] \notin {"unlink", "claimed"}
              /\ pc'[c] \in Entering => pc[c] \in Entering
              /\ pc'[c] \in Requesting => pc[c] \in Requesting
  PROVE  AdmitInv'
<1>1. /\ store'.seen["consumed"] = store.seen["consumed"]
      /\ \A v : Holds(store, "consumed", v) => Holds(store', "consumed", v)
  BY KeptHolds
<1> QED BY <1>1 DEF AdmitInv, ConsumedBy

\* Every step keeps the tombstone of the call that was admitted.
LEMMA ActorKeepsAdmit ==
  ASSUME AdmitInv, EntryOK, NEW p \in Actors, ActorStep(p)
  PROVE  AdmitInv'
<1>0. /\ "consumed" \in Dirs
      /\ \A c \in Calls : c \in Actors /\ c # Absent
      /\ \A dirs : "consumed" \in dirs /\ Kept(dirs) => Kept({"consumed"})
  BY AbsentIsNoRecord DEF Dirs, Actors, Kept
<1>1. CASE p \in Calls /\ Admit(p)
  <2>1. pc[p] = "claimed" /\ unsynced[p] = {} /\ pc' = [pc EXCEPT ![p] = "readArchive"]
        /\ store' = store /\ unsynced' = unsynced /\ admitted' = admitted \cup {p}
    BY <1>1 DEF Admit, Step, Synced
  <2>2. ConsumedBy(p)
    BY <1>1, <2>1 DEF AdmitInv, ConsumedBy
  <2> QED BY <1>0, <1>1, <2>1, <2>2
          DEF AdmitInv, ConsumedBy, EntryOK, Entering, Requesting, Holds
<1>2. CASE p \in Calls /\ Claim(p) /\ Claimable
  <2>1. /\ EntryOK' /\ Alone(p)
        /\ store'.seen["consumed"] = p
    BY <1>2, ConsumeSteps
  <2>2. \A c \in Calls : c \notin admitted /\ pc[c] \notin {"unlink", "claimed"}
    BY <1>0, <1>2 DEF AdmitInv, ConsumedBy, Claimable, Seen
  <2>3. pc' = [pc EXCEPT ![p] = "unlink"] /\ admitted' = admitted
    BY <1>2 DEF Claim, Step, returns
  <2> QED BY <1>0, <2>1, <2>2, <2>3 DEF AdmitInv, EntryOK, Requesting
<1>3. CASE p \in Calls /\ UnlinkAdmission(p)
  <2>1. EntryOK' /\ Alone(p) /\ Kept({"consumed"})
    BY <1>0, <1>3, ConsumeSteps
  <2>2. /\ store'.seen["consumed"] = store.seen["consumed"]
        /\ \A v : Holds(store, "consumed", v) => Holds(store', "consumed", v)
    BY <2>1, KeptHolds
  <2>3. /\ pc[p] = "unlink" /\ pc' = [pc EXCEPT ![p] = "claimed"]
        /\ unsynced' = [unsynced EXCEPT ![p] = {"admissions", "consumed"}]
        /\ admitted' = admitted
    BY <1>3 DEF UnlinkAdmission, Step, Owes, ClaimDirs, returns
  <2> QED BY <1>0, <1>3, <2>2, <2>3
          DEF AdmitInv, EntryOK, ConsumedBy, Entering, Requesting
<1>4. CASE Sync(p)
  <2>1. PICK dir \in Dirs :
          /\ unsynced' = [unsynced EXCEPT ![p] = unsynced[p] \ {dir}]
          /\ Holds(store, dir, store.seen[dir])'
    BY <1>4, SyncSteps
  <2>2. Kept(Dirs) /\ pc' = pc
    BY <1>4, SyncSteps
  <2>3. /\ store'.seen["consumed"] = store.seen["consumed"]
        /\ \A v : Holds(store, "consumed", v) => Holds(store', "consumed", v)
    BY <1>0, <2>2, KeptHolds
  <2>4. admitted' = admitted
    BY <1>4 DEF Sync, returns
  <2>5. \A c \in Calls :
          "consumed" \notin unsynced'[c] =>
            "consumed" \notin unsynced[c] \/ dir = "consumed"
    BY <1>0, <2>1 DEF EntryOK
  <2>6. dir = "consumed" => Holds(store', "consumed", store.seen["consumed"])
    BY <2>1, <2>3
  <2>7. ASSUME NEW c \in Calls, pc'[c] = "claimed", "consumed" \notin unsynced'[c]
        PROVE  Holds(store', "consumed", c)
    BY <2>2, <2>3, <2>5, <2>6, <2>7 DEF AdmitInv
  <2> QED BY <2>2, <2>3, <2>4, <2>7 DEF AdmitInv, ConsumedBy
<1>5. CASE Kill(p)
  BY <1>0, <1>5, KillSteps, AdmitQuiet DEF Alone, Kill, returns, Entering, Requesting,
     ActorsDiffer
<1>6. CASE Quiet(p) /\ ~(p \in Calls /\ Admit(p))
  <2>1. Alone(p) /\ Kept({"consumed"})
    BY <1>0, <1>6, QuietSteps
  <2>2. /\ admitted' = admitted
        /\ p \in Calls =>
             /\ pc'[p] \notin {"unlink", "claimed"}
             /\ pc'[p] \in Entering => pc[p] \in Entering
             /\ pc'[p] \in Requesting => pc[p] \in Requesting
    BY <1>6, ActorsDiffer DEF Quiet, PublishAdmission, ReturnLocator, ReadAdmission, Admit,
     ReadArchive, ReturnRequest, ReturnAttempt, Claim, FindAttempt,
     ListRequest, ReadTerminal, ReturnTerminal, ArchiveRead, ReturnArchived,
     Finished, Entering, Requesting, EntryOK, Step, returns
  <2> QED BY <1>0, <2>1, <2>2, AdmitQuiet DEF Alone
<1>7. CASE Linking(p)
  <2>1. Alone(p) /\ Kept({"consumed"})
    BY <1>0, <1>7, LinkingSteps
  <2>2. /\ admitted' = admitted
        /\ p \in Calls =>
             /\ pc'[p] \notin Entering
             /\ pc'[p] \in Requesting => pc[p] \in Requesting
    BY <1>7, ActorsDiffer DEF Linking, PublishAdmission, PublishRequest, PublishAttempt, Elect,
     PublishTerminal, Entering, Requesting, EntryOK, Step, returns
  <2> QED BY <1>0, <2>1, <2>2, AdmitQuiet DEF Alone, Entering
<1>8. CASE ArchiveMove(p)
  <2>1. Alone(p) /\ Kept({"consumed"})
    BY <1>0, <1>8, ArchiveSteps
  <2>2. admitted' = admitted /\ pc'[p] = "archived"
    BY <1>8 DEF ArchiveMove, Step, EntryOK, returns
  <2> QED BY <1>0, <2>1, <2>2, AdmitQuiet DEF Alone, Entering, Requesting
<1>9. CASE p \in Calls \cup Reconcilers /\ Obey(p)
  BY <1>0, <1>9, ObeySteps, AdmitQuiet DEF Alone, Entering, Requesting
<1> QED BY <1>1, <1>2, <1>3, <1>4, <1>5, <1>6, <1>7, <1>8, <1>9, KindsOfStep

\* After a power loss the tombstone of an admitted call is found.
LEMMA PowerLossKeepsAdmit ==
  ASSUME AdmitInv, EntryOK, PowerLoss
  PROVE  AdmitInv'
<1>1. /\ \A p \in Actors : pc'[p] \in {"idle", "over"}
      /\ \A c \in Calls : pc'[c] = "idle" => pc[c] = "idle"
  BY PowerLossSteps
<1>2. PICK d \in store.disks :
        store'.seen = d.files /\ \A e \in store'.disks : e.files = d.files
  BY PowerLossSteps
<1>3. \A c \in Calls : ConsumedBy(c) => ConsumedBy(c)'
  BY <1>2 DEF ConsumedBy, Holds
<1>4. admitted' = admitted /\ \A c \in Calls : c \in Actors
  BY DEF PowerLoss, returns, Actors
<1> QED BY <1>1, <1>3, <1>4 DEF AdmitInv, Entering, Requesting

\* Nobody has begun.
LEMMA AdmitInvStart == Init => AdmitInv
BY DEF Init, AdmitInv, Actors, Requesting, Entering

(***************************************************************************)
(* The verdict survives: nobody obeys a decision that is not on every      *)
(* disk, and nothing writes over it.                                       *)
(***************************************************************************)
Elected(d) == store.seen["authority"] = d /\ Holds(store, "authority", d)

VerdictInv ==
  /\ store.seen["authority"] \in Decisions \cup {Absent}
  /\ \A e \in store.disks : e.files["authority"] \in Decisions \cup {Absent}
  /\ \A p \in Calls \cup Reconcilers :
       pc[p] = "elected" =>
         /\ winner[p] = store.seen["authority"] /\ winner[p] \in Decisions
         /\ "authority" \notin unsynced[p] => Elected(winner[p])
  /\ \A d \in obeyed : d \in Decisions /\ Elected(d)

\* Nothing is decided.
LEMMA VerdictInvStart == Init => VerdictInv
<1> SUFFICES ASSUME Init PROVE VerdictInv
  OBVIOUS
<1>1. "authority" \in Dirs
  BY DEF Dirs
<1>2. /\ store.seen["authority"] = Absent
      /\ \A e \in store.disks : e.files["authority"] = Absent
  BY <1>1 DEF Init, StoreOf, Disk
<1>3. \A p \in Calls \cup Reconcilers : pc[p] = "idle"
  BY DEF Init, Actors
<1> QED BY <1>2, <1>3 DEF VerdictInv, Init

\* A step that keeps the authority and elects nobody.
LEMMA VerdictQuiet ==
  ASSUME VerdictInv, Kept({"authority"}), obeyed' = obeyed,
         \A p \in Calls \cup Reconcilers :
           \/ /\ pc'[p] = pc[p] /\ unsynced'[p] = unsynced[p]
              /\ winner'[p] = winner[p]
           \/ pc'[p] # "elected"
  PROVE  VerdictInv'
<1>1. /\ store'.seen["authority"] = store.seen["authority"]
      /\ \A v : Holds(store, "authority", v) => Holds(store', "authority", v)
  BY KeptHolds
<1>2. \A e \in store'.disks : e.files["authority"] \in Decisions \cup {Absent}
  BY DEF Kept, VerdictInv
<1> QED BY <1>1, <1>2 DEF VerdictInv, Elected

\* An election leaves the first decision in place and makes it known.
LEMMA ElectKeepsVerdict ==
  ASSUME VerdictInv, EntryOK, NEW p \in Calls \cup Reconcilers, Elect(p)
  PROVE  VerdictInv'
<1>1. PICK decision \in Decisions :
        /\ Link(p, "authority", decision)
        /\ pc' = [pc EXCEPT ![p] = "elected"]
        /\ winner' = [winner EXCEPT ![p] = store'.seen["authority"]]
        /\ obeyed' = obeyed
  BY DEF Elect, Decisions, Step, returns
<1>2. p \in Actors /\ "authority" \in Dirs /\ decision \in Contents \ {Absent}
  BY RecordsAreContents DEF Actors, Decisions
<1>3. /\ IsStore(store, Dirs, Contents)'
      /\ store'.seen["authority"]
           = IF Seen("authority") THEN store.seen["authority"] ELSE decision
      /\ Seen("authority") => store' = store
      /\ unsynced' = [unsynced EXCEPT ![p] = {"authority"}]
  BY <1>1, <1>2, LinkKeeps
<1>4. store'.seen["authority"] \in Decisions
  BY <1>3 DEF VerdictInv, Seen
<1>5. \A e \in store'.disks : e.files["authority"] \in Decisions \cup {Absent}
  <2>1. CASE Seen("authority")
    BY <1>3, <2>1 DEF VerdictInv
  <2>2. CASE ~Seen("authority")
    <3>1. Changed("authority", decision)
      BY <1>1, <1>2, <2>2, LinkKeeps
    <3> QED BY <3>1 DEF Changed, VerdictInv
  <2> QED BY <2>1, <2>2
<1>6. \A d \in obeyed : d \in Decisions /\ Elected(d)'
  <2>1. \A d \in obeyed : Seen("authority") /\ Elected(d) /\ d \in Decisions
    BY AbsentIsNoRecord DEF VerdictInv, Elected, Seen, Decisions
  <2> QED BY <1>3, <2>1 DEF Elected
<1>7. ASSUME NEW q \in Calls \cup Reconcilers, q # p, pc[q] = "elected"
      PROVE  /\ winner[q] = store'.seen["authority"] /\ winner[q] \in Decisions
             /\ "authority" \notin unsynced[q] =>
                  Holds(store', "authority", winner[q])
  <2>1. /\ winner[q] = store.seen["authority"] /\ winner[q] \in Decisions
        /\ "authority" \notin unsynced[q] =>
             Holds(store, "authority", winner[q])
    BY <1>7 DEF VerdictInv, Elected
  <2>2. Seen("authority")
    BY <2>1, AbsentIsNoRecord DEF Seen, Decisions
  <2> QED BY <1>3, <2>1, <2>2
<1>8. \A q \in Calls \cup Reconcilers : q \in Actors
  BY DEF Actors
<1>9. ASSUME NEW q \in Calls \cup Reconcilers, pc'[q] = "elected"
      PROVE  /\ winner'[q] = store'.seen["authority"] /\ winner'[q] \in Decisions
             /\ "authority" \notin unsynced'[q] =>
                  Holds(store', "authority", winner'[q])
  <2>1. CASE q = p
    BY <1>1, <1>2, <1>3, <1>4, <2>1 DEF EntryOK
  <2>2. CASE q # p
    <3>1. /\ pc'[q] = pc[q] /\ winner'[q] = winner[q]
          /\ unsynced'[q] = unsynced[q]
      BY <1>1, <1>2, <1>3, <1>8, <2>2 DEF EntryOK
    <3> QED BY <1>7, <1>9, <2>2, <3>1
  <2> QED BY <2>1, <2>2
<1> QED BY <1>1, <1>4, <1>5, <1>6, <1>9 DEF VerdictInv, Elected

\* Every step of an actor keeps the decision.
LEMMA ActorKeepsVerdict ==
  ASSUME VerdictInv, EntryOK, NEW p \in Actors, ActorStep(p)
  PROVE  VerdictInv'
<1>0. /\ "authority" \in Dirs
      /\ \A q \in Calls \cup Reconcilers : q \in Actors
      /\ \A dirs : "authority" \in dirs /\ Kept(dirs) => Kept({"authority"})
  BY DEF Dirs, Actors, Kept
<1>1. CASE p \in Calls \cup Reconcilers /\ Elect(p)
  BY <1>1, ElectKeepsVerdict
<1>2. CASE p \in Calls \cup Reconcilers /\ Obey(p)
  <2>1. /\ Alone(p) /\ pc[p] = "elected" /\ pc'[p] # "elected"
        /\ store' = store
    BY <1>2, ObeySteps
  <2>2. unsynced[p] = {} /\ obeyed' = obeyed \cup {winner[p]}
    BY <1>2 DEF Obey, Synced
  <2>3. winner[p] \in Decisions /\ Elected(winner[p])
    BY <1>2, <2>1, <2>2 DEF VerdictInv
  <2> QED BY <1>0, <2>1, <2>2, <2>3 DEF VerdictInv, Alone, Elected, Holds
<1>3. CASE Sync(p)
  <2>1. PICK dir \in Dirs :
          /\ unsynced' = [unsynced EXCEPT ![p] = unsynced[p] \ {dir}]
          /\ Holds(store, dir, store.seen[dir])'
    BY <1>3, SyncSteps
  <2>2. Kept(Dirs) /\ pc' = pc /\ winner' = winner
    BY <1>3, SyncSteps
  <2>3. /\ store'.seen["authority"] = store.seen["authority"]
        /\ \A v : Holds(store, "authority", v) => Holds(store', "authority", v)
    BY <1>0, <2>2, KeptHolds
  <2>4. obeyed' = obeyed
    BY <1>3 DEF Sync, returns
  <2>5. \A q \in Calls \cup Reconcilers :
          "authority" \notin unsynced'[q] =>
            "authority" \notin unsynced[q] \/ dir = "authority"
    BY <1>0, <2>1 DEF EntryOK
  <2>6. dir = "authority" => Holds(store', "authority", store.seen["authority"])
    BY <2>1, <2>3
  <2>7. ASSUME NEW q \in Calls \cup Reconcilers, pc'[q] = "elected",
               "authority" \notin unsynced'[q]
        PROVE  Elected(winner[q])'
    BY <2>2, <2>3, <2>5, <2>6, <2>7 DEF VerdictInv, Elected
  <2>8. \A e \in store'.disks : e.files["authority"] \in Decisions \cup {Absent}
    BY <1>0, <2>2 DEF Kept, VerdictInv
  <2> QED BY <2>2, <2>3, <2>4, <2>7, <2>8 DEF VerdictInv, Elected
<1>4. CASE \/ Quiet(p) \/ ArchiveMove(p) \/ Kill(p)
           \/ p \in Calls /\ ((Claim(p) /\ Claimable) \/ UnlinkAdmission(p))
           \/ Linking(p) /\ ~(p \in Calls \cup Reconcilers /\ Elect(p))
  <2>1. Alone(p) /\ Kept({"authority"})
    <3>1. CASE Quiet(p) \/ Kill(p)
      BY <1>0, <3>1, QuietSteps, KillSteps
    <3>2. CASE ArchiveMove(p)
      BY <1>0, <3>2, ArchiveSteps
    <3>3. CASE p \in Calls /\ ((Claim(p) /\ Claimable) \/ UnlinkAdmission(p))
      BY <1>0, <3>3, ConsumeSteps
    <3>4. CASE Linking(p) /\ ~(p \in Calls \cup Reconcilers /\ Elect(p))
      <4>1. Kept(Dirs \ {"authority"}) /\ Elect(p) => p \in Calls \cup Reconcilers
        BY <3>4, ActorsDiffer DEF Linking, Elect, Step, PublishAdmission
      <4> QED BY <1>0, <3>4, <4>1, LinkingSteps
    <3> QED BY <1>4, <3>1, <3>2, <3>3, <3>4
  <2>2. obeyed' = obeyed
    BY <1>4 DEF Quiet, Linking, ArchiveMove, Kill, Claim, UnlinkAdmission,
       PublishAdmission, PublishRequest, PublishAttempt, PublishTerminal,
       ReturnLocator, ReadAdmission, Admit, ReadArchive, ReturnRequest,
       ReturnAttempt, FindAttempt, ListRequest, ReadTerminal, ReturnTerminal,
       ArchiveRead, ReturnArchived, returns
  <2>3. pc'[p] # "elected"
    BY <1>4, KillSteps DEF Quiet, Linking, ArchiveMove, Claim, UnlinkAdmission,
       PublishAdmission, PublishRequest, PublishAttempt, PublishTerminal,
       ReturnLocator, ReadAdmission, Admit, ReadArchive, ReturnRequest,
       ReturnAttempt, FindAttempt, ListRequest, ReadTerminal, ReturnTerminal,
       ArchiveRead, ReturnArchived, Finished, Step, EntryOK
  <2> QED BY <1>0, <2>1, <2>2, <2>3, VerdictQuiet DEF Alone
<1> QED BY <1>1, <1>2, <1>3, <1>4, KindsOfStep

\* After a power loss the decision that was obeyed is found.
LEMMA PowerLossKeepsVerdict ==
  ASSUME VerdictInv, EntryOK, PowerLoss
  PROVE  VerdictInv'
<1>1. \A p \in Calls \cup Reconcilers : pc'[p] # "elected"
  BY PowerLossSteps DEF Actors
<1>2. PICK d \in store.disks :
        store'.seen = d.files /\ \A e \in store'.disks : e.files = d.files
  BY PowerLossSteps
<1>3. \A v : Elected(v) => Elected(v)'
  BY <1>2 DEF Elected, Holds
<1>4. obeyed' = obeyed
  BY DEF PowerLoss, returns
<1> QED BY <1>1, <1>2, <1>3, <1>4 DEF VerdictInv

(***************************************************************************)
(* A request that was accepted stays known: the one call that is admitted  *)
(* publishes it where none has been, and whatever follows - an arm         *)
(* attempt, a terminal, the archive - comes after it was accepted.         *)
(***************************************************************************)
Spool == {"requests", "archive"}
Sequel == {"attempts", "terminals"}

Beyond == {"linkAttempt", "attempt", "elect", "elected", "linkTerminal",
           "terminal", "archive", "move", "archived"}

Nowhere(dir) == store.seen[dir] = Absent /\ Holds(store, dir, Absent)

Known(files) == files["requests"] # Absent \/ files["archive"] # Absent
Twice(files) == files["requests"] # Absent /\ files["archive"] # Absent

Fresh == \A dir \in Spool : Nowhere(dir)

RequestInv ==
  /\ admitted = {} => Fresh /\ ~requested
  /\ ~requested => /\ \A dir \in Sequel : Nowhere(dir)
                   /\ \A p \in Actors : pc[p] \notin Beyond
  /\ requested => \A d \in store.disks : Known(d.files)
  /\ ~Twice(store.seen) /\ \A d \in store.disks : ~Twice(d.files)
  /\ \A c \in Calls :
       /\ pc[c] \in {"readArchive", "linkRequest"} => Fresh
       /\ pc[c] \in Requesting => ~requested
       /\ pc[c] = "request" =>
            /\ Seen("requests")
            /\ "requests" \notin unsynced[c] =>
                 \A d \in store.disks : d.files["requests"] # Absent

\* No file is there at the start.
LEMMA RequestInvStart == Init => RequestInv
<1> SUFFICES ASSUME Init PROVE RequestInv
  OBVIOUS
<1>1. \A dir \in Dirs :
        /\ store.seen[dir] = Absent
        /\ \A e \in store.disks : e.files[dir] = Absent
  BY DEF Init, StoreOf, Disk
<1>2. \A dir \in Spool \cup Sequel : Nowhere(dir)
  BY <1>1 DEF Nowhere, Holds, Spool, Sequel, Dirs
<1>3. \A p \in Actors : pc[p] = "idle"
  BY DEF Init
<1>4. /\ ~Twice(store.seen)
      /\ \A d \in store.disks : ~Twice(d.files)
  BY <1>1 DEF Twice, Dirs
<1>5. \A c \in Calls : pc[c] = "idle"
  BY <1>3 DEF Actors
<1> QED BY <1>2, <1>3, <1>4, <1>5 DEF RequestInv, Init, Fresh, Beyond, Requesting

\* What keeping the spool keeps of it.
LEMMA SpoolKept ==
  ASSUME Kept(Spool)
  PROVE  /\ Fresh => Fresh'
         /\ Seen("requests") => Seen("requests")'
         /\ Twice(store.seen)' <=> Twice(store.seen)
         /\ \A e \in store'.disks : \E d \in store.disks :
              /\ Known(e.files) <=> Known(d.files)
              /\ Twice(e.files) <=> Twice(d.files)
              /\ e.files["requests"] = d.files["requests"]
<1>1. "requests" \in Spool /\ "archive" \in Spool
  BY DEF Spool
<1>2. Fresh => Fresh'
  BY DEF Kept, Fresh, Nowhere, Holds
<1> QED BY <1>1, <1>2 DEF Kept, Seen, Known, Twice

\* What keeping the attempts and the terminals keeps of them.
LEMMA SequelKept ==
  ASSUME Kept(Sequel), \A dir \in Sequel : Nowhere(dir)
  PROVE  \A dir \in Sequel : Nowhere(dir)'
BY DEF Kept, Nowhere, Holds

\* A step that keeps the spool and takes nobody into a request.
LEMMA RequestQuiet ==
  ASSUME RequestInv, Kept(Spool), ~requested => Kept(Sequel),
         admitted' = admitted, requested' = requested,
         \A p \in Actors :
           \/ pc'[p] = pc[p] /\ unsynced'[p] = unsynced[p]
           \/ pc'[p] \notin Requesting /\ (pc'[p] \in Beyond => requested)
  PROVE  RequestInv'
<1>1. ~requested => \A dir \in Sequel : Nowhere(dir)'
  BY SequelKept DEF RequestInv
<1>2. \A c \in Calls : c \in Actors
  BY DEF Actors
<1>3. ~requested' => \A p \in Actors : pc'[p] \notin Beyond
  BY DEF RequestInv
<1>4. \A d \in store'.disks : ~Twice(d.files) /\ (requested => Known(d.files))
  BY SpoolKept DEF RequestInv
<1>5. ASSUME NEW c \in Calls
      PROVE  /\ pc'[c] \in {"readArchive", "linkRequest"} => Fresh'
             /\ pc'[c] \in Requesting => ~requested'
             /\ pc'[c] = "request" =>
                  /\ Seen("requests")'
                  /\ "requests" \notin unsynced'[c] =>
                       \A d \in store'.disks : d.files["requests"] # Absent
  BY <1>2, SpoolKept DEF RequestInv, Requesting
<1>6. /\ admitted' = {} => Fresh' /\ ~requested'
      /\ ~Twice(store'.seen)
  BY SpoolKept DEF RequestInv
<1> QED BY <1>1, <1>3, <1>4, <1>5, <1>6 DEF RequestInv

\* The one call that is admitted finds the spool empty.
LEMMA AdmitKeepsRequest ==
  ASSUME RequestInv, AdmitInv, EntryOK, NEW c \in Calls, Admit(c)
  PROVE  RequestInv'
<1>1. /\ pc[c] = "claimed" /\ unsynced[c] = {} /\ pc' = [pc EXCEPT ![c] = "readArchive"]
      /\ store' = store /\ unsynced' = unsynced /\ requested' = requested
      /\ admitted' = admitted \cup {c}
  BY DEF Admit, Step, Synced
<1>2. admitted = {}
  <2>1. ASSUME NEW d \in admitted PROVE FALSE
    <3>1. d \in Calls
      BY <2>1 DEF AdmitInv
    <3>3. d = c
      BY <1>1, <3>1 DEF AdmitInv, ConsumedBy
    <3>2. c \notin admitted
      BY <1>1 DEF AdmitInv, Entering
    <3> QED BY <2>1, <3>2, <3>3
  <2> QED BY <2>1
<1>3. Fresh /\ ~requested
  BY <1>2 DEF RequestInv
<1>4. c \in Actors /\ \A q \in Actors : pc'[q] = IF q = c THEN "readArchive" ELSE pc[q]
  BY <1>1 DEF Actors, EntryOK
<1>5. \A q \in Actors : pc'[q] \notin Beyond
  BY <1>3, <1>4 DEF RequestInv, Beyond
<1>6. \A d \in Calls : d \in Actors
  BY DEF Actors
<1>7. Fresh' /\ (\A dir \in Sequel : Nowhere(dir)') /\ (Seen("requests")' <=> Seen("requests"))
  BY <1>1, <1>3 DEF RequestInv, Fresh, Nowhere, Holds, Seen
<1> QED BY <1>1, <1>3, <1>4, <1>5, <1>6, <1>7 DEF RequestInv, Twice, Known

\* It reads an empty archive, ...
LEMMA ReadArchiveKeepsRequest ==
  ASSUME RequestInv, EntryOK, NEW c \in Calls, ReadArchive(c)
  PROVE  RequestInv'
<1>1. pc[c] = "readArchive" /\ Fresh /\ ~requested
  BY DEF ReadArchive, Step, RequestInv, Requesting
<1>2. ~Seen("archive")
  BY <1>1 DEF Fresh, Nowhere, Seen, Spool
<1>3. /\ store' = store /\ unsynced' = unsynced
      /\ requested' = requested /\ admitted' = admitted
      /\ pc' = [pc EXCEPT ![c] = "linkRequest"]
  BY <1>2 DEF ReadArchive, Step, returns
<1>4. \A q \in Actors : pc'[q] = IF q = c THEN "linkRequest" ELSE pc[q]
  BY <1>3 DEF EntryOK
<1>5. \A q \in Actors : pc'[q] \notin Beyond
  BY <1>1, <1>4 DEF RequestInv, Beyond
<1>6. \A d \in Calls : d \in Actors
  BY DEF Actors
<1>7. /\ Fresh' /\ \A dir \in Sequel : Nowhere(dir)'
      /\ Seen("requests")' <=> Seen("requests")
  BY <1>1, <1>3 DEF RequestInv, Fresh, Nowhere, Holds, Seen
<1> QED BY <1>1, <1>3, <1>4, <1>5, <1>6, <1>7 DEF RequestInv, Twice, Known

\* ... writes the request into an empty spool, ...
LEMMA PublishKeepsRequest ==
  ASSUME RequestInv, AdmitInv, EntryOK, NEW c \in Calls, PublishRequest(c)
  PROVE  RequestInv'
<1>1. pc[c] = "linkRequest" /\ Fresh /\ ~requested /\ c \in admitted
  BY DEF PublishRequest, Step, RequestInv, AdmitInv, Requesting
<1>2. /\ pc' = [pc EXCEPT ![c] = "request"]
      /\ requested' = requested /\ admitted' = admitted
      /\ Link(c, "requests", "record")
  BY DEF PublishRequest, Step, returns
<1>3. c \in Actors /\ "requests" \in Dirs /\ "record" \in Contents \ {Absent}
  BY RecordsAreContents DEF Actors
<1>4. ~Seen("requests")
  BY <1>1 DEF Fresh, Nowhere, Seen, Spool
<1>5. /\ Kept(Dirs \ {"requests"})
      /\ store'.seen["requests"] = "record"
      /\ Changed("requests", "record")
      /\ unsynced' = [unsynced EXCEPT ![c] = {"requests"}]
  BY <1>2, <1>3, <1>4, LinkKeeps
<1>6. Kept(Sequel) /\ Kept({"archive"})
  BY <1>5 DEF Kept, Sequel, Dirs
<1>7. /\ store'.seen["archive"] = Absent
      /\ \A e \in store'.disks : e.files["archive"] = Absent
  BY <1>1, <1>6 DEF Kept, Fresh, Nowhere, Holds, Spool
<1>8. \A q \in Actors : pc'[q] = IF q = c THEN "request" ELSE pc[q]
  BY <1>2 DEF EntryOK
<1>9. \A q \in Actors : pc'[q] \notin Beyond
  BY <1>1, <1>8 DEF RequestInv, Beyond
<1>10. \A d \in Calls : d \in Actors /\ (d # c => pc'[d] \notin Requesting)
  <2>1. ASSUME NEW d \in Calls, d # c, pc[d] \in Requesting PROVE FALSE
    BY <1>1, <2>1 DEF AdmitInv, ConsumedBy
  <2> QED BY <1>8, <2>1 DEF Actors
<1>11. "requests" \in unsynced'[c] /\ Seen("requests")'
  BY <1>3, <1>5 DEF EntryOK, Seen
<1>12. \A dir \in Sequel : Nowhere(dir)'
  BY <1>1, <1>6, SequelKept DEF RequestInv
<1> QED BY <1>1, <1>2, <1>7, <1>8, <1>9, <1>10, <1>11, <1>12
        DEF RequestInv, Twice, Requesting

\* ... and it has been accepted when every disk has it.
LEMMA ReturnKeepsRequest ==
  ASSUME RequestInv, AdmitInv, EntryOK, NEW c \in Calls, ReturnRequest(c)
  PROVE  RequestInv'
<1>1. PICK next \in {"linkAttempt", "linkTerminal"} :
        pc[c] = "request" /\ pc' = [pc EXCEPT ![c] = next]
  BY DEF ReturnRequest, Step
<1>2. /\ unsynced[c] = {} /\ c \in admitted
      /\ store' = store /\ unsynced' = unsynced /\ admitted' = admitted
      /\ requested'
  BY <1>1 DEF ReturnRequest, Synced, AdmitInv, Requesting
<1>3. \A d \in store.disks : Known(d.files)
  BY <1>1, <1>2 DEF RequestInv, Known
<1>4. \A d \in Calls : pc'[d] \notin Requesting
  <2>1. ASSUME NEW d \in Calls, d # c, pc[d] \in Requesting PROVE FALSE
    BY <1>2, <2>1 DEF AdmitInv, ConsumedBy
  <2> QED BY <1>1, <2>1 DEF Actors, EntryOK, Requesting
<1> QED BY <1>2, <1>3, <1>4 DEF RequestInv, Twice, Known, Requesting

\* A step of the call that has its request, or of those who follow it.
LEMMA BeyondMeansRequested ==
  ASSUME RequestInv, NEW p \in Actors
  PROVE  /\ pc[p] \in Beyond => requested
         /\ Seen("attempts") \/ Seen("terminals") => requested
BY DEF RequestInv, Nowhere, Seen, Sequel

\* Moving the request to the archive leaves it known on every disk.
LEMMA ArchiveKeepsRequest ==
  ASSUME RequestInv, EntryOK, NEW p \in Actors, ArchiveMove(p)
  PROVE  RequestInv'
<1>1. /\ pc[p] = "move" /\ pc' = [pc EXCEPT ![p] = "archived"]
      /\ requested' = requested /\ admitted' = admitted
  BY DEF ArchiveMove, Step, returns
<1>2. requested
  BY <1>1, BeyondMeansRequested DEF Beyond
<1>3. /\ Alone(p) /\ Kept(Dirs \ {"requests", "archive"})
      /\ ~Seen("requests") => Kept(Dirs)
      /\ Seen("requests") /\ ~Seen("archive") => store' = Archived
  BY ArchiveSteps
<1>4. \A q \in Actors : pc'[q] = IF q = p THEN "archived" ELSE pc[q]
  BY <1>1 DEF EntryOK
<1>5. CASE ~Seen("requests")
  <2>1. Kept(Spool)
    BY <1>3, <1>5 DEF Kept, Spool, Dirs
  <2> QED BY <1>1, <1>2, <1>3, <1>4, <2>1, RequestQuiet DEF Alone, Requesting
<1>6. CASE Seen("requests")
  <2>1. store' = Archived
    BY <1>3, <1>6 DEF RequestInv, Twice, Seen
  <2>2. store'.seen["requests"] = Absent
    BY <2>1, MoveKeeps
  <2>3. ASSUME NEW e \in store'.disks
        PROVE  Known(e.files) /\ ~Twice(e.files)
    <3>1. PICK d \in store.disks :
            \/ /\ e.files["requests"] = d.files["requests"]
               /\ e.files["archive"] = d.files["archive"]
            \/ /\ e.files["requests"] = Absent
               /\ e.files["archive"] = store.seen["requests"]
      BY <2>1, MoveKeeps
    <3> QED BY <1>2, <1>6, <3>1 DEF RequestInv, Known, Twice, Seen
  <2>4. \A c \in Calls : c \in Actors /\ pc'[c] \notin Requesting
    BY <1>2, <1>4 DEF RequestInv, Actors, Requesting
  <2>5. admitted # {}
    BY <1>2 DEF RequestInv
  <2> QED BY <1>1, <1>2, <2>2, <2>3, <2>4, <2>5 DEF RequestInv, Twice, Requesting
<1> QED BY <1>5, <1>6

\* Synchronising the spool puts the request on every disk.
LEMMA SyncKeepsRequest ==
  ASSUME RequestInv, EntryOK, NEW p \in Actors, Sync(p)
  PROVE  RequestInv'
<1>1. PICK dir \in Dirs :
        /\ unsynced' = [unsynced EXCEPT ![p] = unsynced[p] \ {dir}]
        /\ Holds(store, dir, store.seen[dir])'
  BY SyncSteps
<1>2. Kept(Dirs) /\ pc' = pc
  BY SyncSteps
<1>3. Kept(Spool) /\ Kept(Sequel)
  BY <1>2 DEF Kept, Spool, Sequel, Dirs
<1>4. requested' = requested /\ admitted' = admitted
  BY DEF Sync, returns
<1>5. ASSUME NEW c \in Calls, pc[c] = "request", "requests" \notin unsynced'[c]
      PROVE  \A d \in store'.disks : d.files["requests"] # Absent
  <2>1. "requests" \notin unsynced[c] \/ dir = "requests"
    BY <1>1, <1>5 DEF EntryOK, Actors
  <2>2. CASE "requests" \notin unsynced[c]
    BY <1>3, <1>5, <2>2, SpoolKept DEF RequestInv
  <2>3. CASE dir = "requests"
    <3>1. Seen("requests")'
      BY <1>3, <1>5, SpoolKept DEF RequestInv
    <3> QED BY <1>1, <2>3, <3>1 DEF Holds, Seen
  <2> QED BY <2>1, <2>2, <2>3
<1>6. ~requested => \A other \in Sequel : Nowhere(other)'
  BY <1>3, SequelKept DEF RequestInv
<1>7. \A d \in store'.disks : ~Twice(d.files) /\ (requested => Known(d.files))
  BY <1>3, SpoolKept DEF RequestInv
<1>8. /\ Fresh => Fresh'
      /\ Seen("requests") => Seen("requests")'
      /\ ~Twice(store'.seen)
  BY <1>3, SpoolKept DEF RequestInv
<1> QED BY <1>2, <1>4, <1>5, <1>6, <1>7, <1>8 DEF RequestInv

\* The machine that lost power finds what one of the disks had.
LEMMA PowerLossKeepsRequest ==
  ASSUME RequestInv, EntryOK, PowerLoss
  PROVE  RequestInv'
<1>1. PICK d \in store.disks :
        store'.seen = d.files /\ \A e \in store'.disks : e.files = d.files
  BY PowerLossSteps
<1>2. /\ \A p \in Actors : pc'[p] \in {"idle", "over"}
      /\ \A c \in Calls : c \in Actors
  BY PowerLossSteps DEF Actors
<1>3. requested' = requested /\ admitted' = admitted
  BY DEF PowerLoss, returns
<1>4. \A dir : Nowhere(dir) => Nowhere(dir)'
  BY <1>1 DEF Nowhere, Holds
<1>5. Fresh => Fresh'
  BY <1>4 DEF Fresh
<1>6. \A p \in Actors : pc'[p] \notin Beyond \cup Requesting
  BY <1>2 DEF Beyond, Requesting
<1> QED BY <1>1, <1>2, <1>3, <1>4, <1>5, <1>6 DEF RequestInv, Requesting

\* Every step of an actor keeps the request known.
LEMMA ActorKeepsRequest ==
  ASSUME RequestInv, AdmitInv, EntryOK, NEW p \in Actors, ActorStep(p)
  PROVE  RequestInv'
<1> DEFINE Own == \/ Admit(p) \/ ReadArchive(p) \/ ReturnRequest(p)
                  \/ PublishRequest(p)
<1>0. /\ pc[p] \in Beyond => requested
      /\ Seen("attempts") \/ Seen("terminals") => requested
  BY BeyondMeansRequested
<1>1. CASE p \in Calls /\ Own
  BY <1>1, AdmitKeepsRequest, ReadArchiveKeepsRequest, ReturnKeepsRequest,
     PublishKeepsRequest
<1>2. CASE ArchiveMove(p)
  BY <1>2, ArchiveKeepsRequest
<1>3. CASE Sync(p)
  BY <1>3, SyncKeepsRequest
<1>4. CASE Quiet(p) /\ ~(p \in Calls /\ Own)
  <2>1. Alone(p) /\ Kept(Spool) /\ Kept(Sequel)
    BY <1>4, QuietSteps DEF Kept, Spool, Sequel, Dirs
  <2>2. admitted' = admitted /\ requested' = requested
    BY <1>4 DEF Quiet, PublishAdmission, ReturnLocator, ReadAdmission, Claim,
       ReturnAttempt, FindAttempt, ListRequest, ReadTerminal, ReturnTerminal,
       ArchiveRead, ReturnArchived, returns
  <2>3. pc'[p] \notin Requesting /\ (pc'[p] \in Beyond => requested)
    BY <1>0, <1>4 DEF Quiet, PublishAdmission, ReturnLocator, ReadAdmission, Claim,
       ReturnAttempt, FindAttempt, ListRequest, ReadTerminal, ReturnTerminal,
       ArchiveRead, ReturnArchived, Finished, Step, EntryOK, Requesting, Beyond
  <2> QED BY <2>1, <2>2, <2>3, RequestQuiet DEF Alone
<1>5. CASE Linking(p) /\ ~(p \in Calls /\ Own)
  <2>1. Alone(p) /\ Kept(Spool) /\ (~requested => Kept(Sequel))
    <3>1. /\ PublishAttempt(p) => requested
          /\ PublishTerminal(p) => requested
      BY <1>0 DEF PublishAttempt, PublishTerminal, Step, Beyond
    <3>2. /\ Alone(p)
          /\ \/ Kept(Dirs \ {"admissions"})
             \/ PublishAttempt(p) /\ Kept(Dirs \ {"attempts"})
             \/ Kept(Dirs \ {"authority"})
             \/ PublishTerminal(p) /\ Kept(Dirs \ {"terminals"})
      BY <1>5, LinkingSteps
    <3> QED BY <3>1, <3>2 DEF Kept, Spool, Sequel, Dirs
  <2>2. admitted' = admitted /\ requested' = requested
    BY <1>5 DEF Linking, PublishAdmission, PublishAttempt, Elect, PublishTerminal,
       returns
  <2>3. pc'[p] \notin Requesting /\ (pc'[p] \in Beyond => requested)
    BY <1>0, <1>5 DEF Linking, PublishAdmission, PublishAttempt, Elect,
       PublishTerminal, Step, EntryOK, Requesting, Beyond
  <2> QED BY <2>1, <2>2, <2>3, RequestQuiet DEF Alone
<1>6. CASE p \in Calls /\ ((Claim(p) /\ Claimable) \/ UnlinkAdmission(p))
  <2>1. Alone(p) /\ Kept(Spool) /\ Kept(Sequel)
    BY <1>6, ConsumeSteps DEF Kept, Spool, Sequel, Dirs
  <2>2. /\ admitted' = admitted /\ requested' = requested
        /\ pc'[p] \notin Requesting \cup Beyond
    BY <1>6 DEF Claim, UnlinkAdmission, returns, Step, EntryOK, Requesting, Beyond
  <2> QED BY <2>1, <2>2, RequestQuiet DEF Alone
<1>7. CASE p \in Calls \cup Reconcilers /\ Obey(p)
  <2>1. Alone(p) /\ Kept(Spool) /\ Kept(Sequel)
    BY <1>7, ObeySteps DEF Kept, Spool, Sequel, Dirs
  <2>2. /\ admitted' = admitted /\ requested' = requested
        /\ pc'[p] \notin Requesting /\ requested
    BY <1>0, <1>7, ObeySteps DEF Obey, Requesting, Beyond
  <2> QED BY <2>1, <2>2, RequestQuiet DEF Alone
<1>8. CASE Kill(p)
  <2>1. Alone(p) /\ Kept(Spool) /\ Kept(Sequel)
    BY <1>8, KillSteps DEF Kept, Spool, Sequel, Dirs
  <2>2. /\ admitted' = admitted /\ requested' = requested
        /\ pc'[p] \notin Requesting \cup Beyond
    BY <1>8, KillSteps DEF Kill, returns, Requesting, Beyond
  <2> QED BY <2>1, <2>2, RequestQuiet DEF Alone
<1> QED BY <1>1, <1>2, <1>3, <1>4, <1>5, <1>6, <1>7, <1>8, KindsOfStep

(***************************************************************************)
(* The invariant of the specification, and what follows from it.           *)
(***************************************************************************)
EntryInv == EntryOK /\ AdmitInv /\ VerdictInv /\ RequestInv

\* The types hold after every step.
LEMMA ActorKeepsTypes ==
  ASSUME EntryOK, NEW p \in Actors, ActorStep(p)
  PROVE  EntryOK'
BY KindsOfStep, QuietSteps, LinkingSteps, ArchiveSteps, SyncSteps, KillSteps,
   ConsumeSteps, ObeySteps

\* Every step keeps the invariant.
LEMMA EntryInvNext == EntryInv /\ [Next]_vars => EntryInv'
<1> SUFFICES ASSUME EntryInv, [Next]_vars PROVE EntryInv'
  OBVIOUS
<1>1. CASE UNCHANGED vars
  <2>1. EntryOK'
    BY <1>1 DEF vars, EntryInv, EntryOK, IsStore
  <2>2. AdmitInv' /\ VerdictInv'
    BY <1>1 DEF vars, returns, EntryInv, AdmitInv, ConsumedBy, Holds, VerdictInv,
       Elected
  <2>3. RequestInv'
    BY <1>1 DEF vars, returns, EntryInv, RequestInv, Fresh, Nowhere, Holds, Known,
       Twice, Seen
  <2> QED BY <2>1, <2>2, <2>3 DEF EntryInv
<1>2. ASSUME NEW p \in Actors, ActorStep(p) PROVE EntryInv'
  BY <1>2, ActorKeepsTypes, ActorKeepsAdmit, ActorKeepsVerdict,
     ActorKeepsRequest DEF EntryInv
<1>3. CASE PowerLoss
  BY <1>3, PowerLossSteps, PowerLossKeepsAdmit, PowerLossKeepsVerdict,
     PowerLossKeepsRequest DEF EntryInv
<1> QED BY <1>1, <1>2, <1>3, NextSteps

\* It holds in every state.
LEMMA EntryInvAlways == Spec => []EntryInv
<1>1. Init => EntryInv
  BY EntryOKStart, AdmitInvStart, VerdictInvStart, RequestInvStart DEF EntryInv
<1> QED BY <1>1, EntryInvNext, PTL DEF Spec

\* One locator admits one call, for any number of replays, kills and power
\* losses between the link of the tombstone and the return to the caller.
THEOREM OneCallIsAdmitted == Spec => []AdmittedOnce
<1>1. EntryInv => AdmittedOnce
  BY DEF EntryInv, AdmitInv, ConsumedBy, AdmittedOnce
<1> QED BY <1>1, EntryInvAlways, PTL

\* A decision somebody was told is on every disk and is never another one.
THEOREM ObeyedVerdictSurvives == Spec => []VerdictSurvives
<1>1. EntryInv => VerdictSurvives
  BY DEF EntryInv, VerdictInv, Elected, Holds, VerdictSurvives
<1> QED BY <1>1, EntryInvAlways, PTL

\* A request that was accepted is on every disk, in the spool or the archive.
THEOREM AcceptedRequestStaysKnown == Spec => []RequestStaysKnown
<1>1. EntryInv => RequestStaysKnown
  BY DEF EntryInv, RequestInv, Known, RequestStaysKnown
<1> QED BY <1>1, EntryInvAlways, PTL
=============================================================================
