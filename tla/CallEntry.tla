------------------------------ MODULE CallEntry ------------------------------
(***************************************************************************)
(* The files a held call enters by: the admission the PreToolUse hook      *)
(* writes, the request and the arm attempt of the call that consumes it,   *)
(* the election of its transition, its terminal and the spool it is        *)
(* archived from.  HarkToolWaitProtocol keeps every step of it in private  *)
(* directories; any process may be killed between two system calls and the *)
(* machine may lose power.                                                 *)
(*                                                                         *)
(* One tool use, for which the host runs the hook once: one admission, one *)
(* request.  Calls are the executions of hark_await with the locator of    *)
(* that admission: the first and the host's replays.                       *)
(***************************************************************************)
EXTENDS DurableStore, Naturals

CONSTANTS
  Hook,         \* the PreToolUse hook of the tool use
  Calls,        \* executions of the tool with the hook's locator
  Reconcilers,  \* passes over the pending calls that act on an arm attempt
  Readers,      \* processes that read the spool of pending requests
  MaxCrashes    \* bound: power losses

ASSUME AbsentIsNoRecord == Absent \notin Calls \cup {"record", "commit", "abort"}

ASSUME ActorsDiffer ==
  /\ Hook \notin Calls \cup Reconcilers \cup Readers
  /\ Calls \cap (Reconcilers \cup Readers) = {}
  /\ Reconcilers \cap Readers = {}

ASSUME CrashesBounded == MaxCrashes \in Nat

Actors == {Hook} \cup Calls \cup Reconcilers \cup Readers

Dirs == {"admissions", "consumed", "requests", "archive", "attempts",
         "authority", "terminals"}

Decisions == {"commit", "abort"}

VARIABLES
  store,      \* the directories
  pc,         \* where each actor is
  unsynced,   \* directories an actor has still to synchronise before it goes on
  winner,     \* the decision an actor has found elected
  located,    \* the hook has returned the locator to the host
  admitted,   \* calls consumeAdmission has returned to
  requested,  \* appendAwaitRequest has returned
  obeyed,     \* decisions electHeldCallTransitionAuthority has returned
  crashes

vars == <<store, pc, unsynced, winner, located, admitted, requested, obeyed,
          crashes>>
returns == <<located, admitted, requested, obeyed>>

Seen(dir) == store.seen[dir] # Absent

Init ==
  /\ store = StoreOf([dir \in Dirs |-> Absent])
  /\ pc = [p \in Actors |-> "idle"]
  /\ unsynced = [p \in Actors |-> {}]
  /\ winner = [p \in Actors |-> Absent]
  /\ located = FALSE
  /\ admitted = {}
  /\ requested = FALSE
  /\ obeyed = {}
  /\ crashes = 0

Step(p, from, to) ==
  /\ pc[p] = from
  /\ pc' = [pc EXCEPT ![p] = to]

Owes(p, dirs) == unsynced' = [unsynced EXCEPT ![p] = dirs]

\* What a call waits for when it has taken the admission.
\* Mutant: the call is admitted before its tombstone is durable.
AdmitAtOnce == {}

ClaimDirs == {"admissions", "consumed"}

\* What an observer of an existing record waits for.
\* Mutant: an existing record is obeyed as it is found.
ObeyAtOnce(dir) == {}

ObservedDirs(dir) == {dir}

\* publishImmutable: a link that fails if the name is taken; whoever made the
\* link, the directory is synchronised before the caller goes on.
Link(p, dir, value) ==
  IF Seen(dir) THEN Owes(p, ObservedDirs(dir)) /\ UNCHANGED store
  ELSE store' = Put(store, dir, value) /\ Owes(p, {dir})

\* One directory is synchronised; two of them in either order.
Sync(p) ==
  \E dir \in unsynced[p] :
    /\ store' = SyncDirectory(store, dir)
    /\ Owes(p, unsynced[p] \ {dir})
    /\ UNCHANGED <<pc, winner, returns, crashes>>

Synced(p) == unsynced[p] = {}

\* handlePreToolUse: one fresh locator for each invocation of the hook.
PublishAdmission ==
  /\ Step(Hook, "idle", IF Seen("consumed") THEN "over" ELSE "admission")
  /\ IF Seen("consumed") THEN UNCHANGED <<store, unsynced>>
     ELSE Link(Hook, "admissions", "record")
  /\ UNCHANGED <<winner, returns, crashes>>

ReturnLocator ==
  /\ Step(Hook, "admission", "over") /\ Synced(Hook)
  /\ located' = TRUE
  /\ UNCHANGED <<store, unsynced, winner, admitted, requested, obeyed,
                 crashes>>

\* consumeAdmission: the admission is read, ...
ReadAdmission(c) ==
  /\ located
  /\ Step(c, "idle", IF Seen("admissions") THEN "claim" ELSE "over")
  /\ UNCHANGED <<store, unsynced, winner, returns, crashes>>

Claimable == Seen("admissions") /\ ~Seen("consumed")

\* ... claimed by the link that makes the tombstone, ...
Claim(c) ==
  /\ Step(c, "claim", IF Claimable THEN "unlink" ELSE "over")
  /\ store' = IF Claimable THEN Put(store, "consumed", c) ELSE store
  /\ UNCHANGED <<unsynced, winner, returns, crashes>>

\* ... and removed.
UnlinkAdmission(c) ==
  /\ Step(c, "unlink", "claimed")
  /\ store' = IF Seen("admissions") THEN Put(store, "admissions", Absent)
              ELSE store
  /\ Owes(c, ClaimDirs)
  /\ UNCHANGED <<winner, returns, crashes>>

Admit(c) ==
  /\ Step(c, "claimed", "readArchive") /\ Synced(c)
  /\ admitted' = admitted \cup {c}
  /\ UNCHANGED <<store, unsynced, winner, located, requested, obeyed,
                 crashes>>

\* appendAwaitRequest: a request already archived is returned as it is.
ReadArchive(c) ==
  /\ Step(c, "readArchive", IF Seen("archive") THEN "request" ELSE "linkRequest")
  /\ UNCHANGED <<store, unsynced, winner, returns, crashes>>

PublishRequest(c) ==
  /\ Step(c, "linkRequest", "request")
  /\ Link(c, "requests", "record")
  /\ UNCHANGED <<winner, returns, crashes>>

\* The call prepares its arm attempt, or fails before it has one.
ReturnRequest(c) ==
  /\ \E next \in {"linkAttempt", "linkTerminal"} : Step(c, "request", next)
  /\ Synced(c)
  /\ requested' = TRUE
  /\ UNCHANGED <<store, unsynced, winner, located, admitted, obeyed, crashes>>

PublishAttempt(c) ==
  /\ Step(c, "linkAttempt", "attempt")
  /\ Link(c, "attempts", "record")
  /\ UNCHANGED <<winner, returns, crashes>>

\* The await is armed and bound at the service, then the call elects.
ReturnAttempt(c) ==
  /\ Step(c, "attempt", "elect") /\ Synced(c)
  /\ UNCHANGED <<store, unsynced, winner, returns, crashes>>

\* A reconciler acts on the arm attempt of a pending request as it reads it.
FindAttempt(r) ==
  /\ Seen("requests") /\ Seen("attempts")
  /\ Step(r, "idle", "elect")
  /\ UNCHANGED <<store, unsynced, winner, returns, crashes>>

\* electHeldCallTransitionAuthority: the call commits, the others give up.
Elect(p) ==
  LET decision == IF p \in Calls THEN "commit" ELSE "abort" IN
  /\ Step(p, "elect", "elected")
  /\ Link(p, "authority", decision)
  /\ winner' = [winner EXCEPT ![p] = store'.seen["authority"]]
  /\ UNCHANGED <<returns, crashes>>

\* The winner is obeyed.  A call is then held; what it comes to is recorded by
\* a later pass of a reconciler.
Obey(p) ==
  /\ Step(p, "elected", IF p \in Calls THEN "over" ELSE "linkTerminal")
  /\ Synced(p)
  /\ obeyed' = obeyed \cup {winner[p]}
  /\ winner' = [winner EXCEPT ![p] = Absent]
  /\ UNCHANGED <<store, unsynced, located, admitted, requested, crashes>>

PublishTerminal(p) ==
  /\ Step(p, "linkTerminal", "terminal")
  /\ Link(p, "terminals", "record")
  /\ UNCHANGED <<winner, returns, crashes>>

ReturnTerminal(p) ==
  /\ Step(p, "terminal", "archive") /\ Synced(p)
  /\ UNCHANGED <<store, unsynced, winner, returns, crashes>>

\* #readPendingAwaitRequests, run by every process on its first use of the
\* spool: a request with an arm attempt is left alone, ...
ListRequest(r) ==
  /\ Seen("requests")
  /\ Step(r, "idle", IF Seen("attempts") THEN "idle" ELSE "readTerminal")
  /\ UNCHANGED <<store, unsynced, winner, returns, crashes>>

\* ... and one with a terminal is archived.
ReadTerminal(r) ==
  /\ Step(r, "readTerminal", IF Seen("terminals") THEN "archive" ELSE "idle")
  /\ UNCHANGED <<store, unsynced, winner, returns, crashes>>

Finished(p) == IF p \in Calls THEN "over" ELSE "idle"

\* archiveImmutableRecord, for a request that has its terminal and is still
\* pending.
ArchiveRead(p) ==
  /\ Step(p, "archive",
          IF Seen("terminals") /\ Seen("requests") THEN "move" ELSE Finished(p))
  /\ UNCHANGED <<store, unsynced, winner, returns, crashes>>

\* Mutant: the pending request is removed, then written to the archive.
RemovedThenWritten ==
  Put(Put(store, "requests", Absent), "archive", "record")

Archived == Move(store, "requests", "archive")

\* It is moved, unless it has gone meanwhile, or removed, if it was published
\* again after it was archived.
ArchiveMove(p) ==
  /\ Step(p, "move", "archived")
  /\ store' = IF ~Seen("requests") THEN store
              ELSE IF Seen("archive") THEN Put(store, "requests", Absent)
              ELSE Archived
  /\ Owes(p, {"requests", "archive"})
  /\ UNCHANGED <<winner, returns, crashes>>

ReturnArchived(p) ==
  /\ Step(p, "archived", Finished(p)) /\ Synced(p)
  /\ UNCHANGED <<store, unsynced, winner, returns, crashes>>

\* A process is killed; a reconciler or a reader is started again.
Stopped(p) ==
  IF p \in Reconcilers \cup Readers \/ pc[p] = "idle" THEN "idle" ELSE "over"

Kill(p) ==
  /\ pc[p] \notin {"idle", "over"}
  /\ pc' = [pc EXCEPT ![p] = Stopped(p)]
  /\ Owes(p, {})
  /\ winner' = [winner EXCEPT ![p] = Absent]
  /\ UNCHANGED <<store, returns, crashes>>

\* The machine loses power.
PowerLoss ==
  /\ crashes < MaxCrashes
  /\ crashes' = crashes + 1
  /\ store' \in AfterPowerLoss(store)
  /\ pc' = [p \in Actors |-> Stopped(p)]
  /\ unsynced' = [p \in Actors |-> {}]
  /\ winner' = [p \in Actors |-> Absent]
  /\ UNCHANGED returns

CallStep(c) ==
  \/ ReadAdmission(c) \/ Claim(c) \/ UnlinkAdmission(c) \/ Admit(c)
  \/ ReadArchive(c) \/ PublishRequest(c) \/ ReturnRequest(c)
  \/ PublishAttempt(c) \/ ReturnAttempt(c)

Decide(p) ==
  Elect(p) \/ Obey(p) \/ PublishTerminal(p) \/ ReturnTerminal(p)

Archive(p) == ArchiveRead(p) \/ ArchiveMove(p) \/ ReturnArchived(p)

Next ==
  \/ PublishAdmission \/ ReturnLocator
  \/ \E c \in Calls : CallStep(c)
  \/ \E r \in Reconcilers : FindAttempt(r)
  \/ \E r \in Readers : ListRequest(r) \/ ReadTerminal(r)
  \/ \E p \in Calls \cup Reconcilers : Decide(p)
  \/ \E p \in Calls \cup Reconcilers \cup Readers : Archive(p)
  \/ \E p \in Actors : Sync(p) \/ Kill(p)
  \/ PowerLoss

Spec == Init /\ [][Next]_vars

Labels ==
  {"idle", "over", "admission", "claim", "unlink", "claimed", "readArchive",
   "linkRequest", "request", "linkAttempt", "attempt", "elect", "elected",
   "linkTerminal", "terminal", "readTerminal", "archive", "move", "archived"}

Contents == {"record", Absent} \cup Decisions \cup Calls

Files == [Dirs -> Contents]

\* The state of the files and of the processes that use them.
TypeOK ==
  /\ store \in [seen : Files, disks : SUBSET [files : Files, behind : SUBSET Dirs]]
  /\ pc \in [Actors -> Labels]
  /\ unsynced \in [Actors -> SUBSET Dirs]
  /\ winner \in [Actors -> Decisions \cup {Absent}]
  /\ located \in BOOLEAN
  /\ admitted \subseteq Calls
  /\ requested \in BOOLEAN
  /\ obeyed \subseteq Decisions
  /\ crashes \in 0 .. MaxCrashes

\* An admission is good for one call: whatever is killed or replayed and
\* wherever the power fails, no two executions are admitted by one locator.
AdmittedOnce == \A c, d \in admitted : c = d

\* A decision that anybody was told is the decision everybody is told, and no
\* power loss can take it back: neither the one who won the election nor the
\* one who only found the winner's record goes on before it is durable.
VerdictSurvives ==
  \A decision \in obeyed :
    \A d \in store.disks : d.files["authority"] = decision

\* A request that was accepted is in the spool or in the archive, also after a
\* power loss in the middle of its move from the one to the other.
RequestStaysKnown ==
  requested =>
    \A d \in store.disks :
      d.files["requests"] # Absent \/ d.files["archive"] # Absent
=============================================================================
