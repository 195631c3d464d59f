------------------------- MODULE SupervisorLifecycle -------------------------
(***************************************************************************)
(* The life of `hark-codex run` processes: the listening socket that makes *)
(* one of them the supervisor, the file that reports it ready, its start,  *)
(* its shutdown, and the files by which the supervisors that follow one    *)
(* another hand a wake over: the journal, the dispatch fence and the       *)
(* dispatch intent.  A process may be killed and the machine may lose      *)
(* power between any two steps.                                            *)
(*                                                                         *)
(* A process here is one incarnation; it is its own lock token.  One wake, *)
(* and the task of a supervisor that works on it: the interplay of several *)
(* tasks of a supervisor is the subject of SupervisedWake.                 *)
(***************************************************************************)
EXTENDS DurableStore, Naturals

CONSTANTS
  Processes,    \* incarnations of `hark-codex run`
  MaxCalls,     \* bound: turn/start requests counted
  MaxCrashes    \* bound: power losses

ASSUME AbsentIsNoProcess == Absent \notin Processes

ASSUME AbsentIsNoRecord ==
  Absent \notin {"claimed", "dispatching", "uncertain", "deferred", "submitted",
                 "fence", "intent"}

ASSUME Bounded == MaxCalls \in Nat /\ MaxCrashes \in Nat

Dirs == {"journal", "fences", "intents"}

WakeStates ==
  {"claimed", "dispatching", "uncertain", "deferred", "submitted"}

VARIABLES
  store,     \* the journal's and the inbox's directories
  holder,    \* the process that listens on the lock's port
  ready,     \* whose token the ready file holds
  main,      \* the command of a process: acquire, start, mark ready
  down,      \* its shutdown, which a signal or a fatal error starts
  task,      \* its work on the wake
  after,     \* where the task goes on when the journal is durable
  calls,     \* turn/start requests sent to the host, counted up to MaxCalls
  crashes

vars == <<store, holder, ready, main, down, task, after, calls, crashes>>
life == <<holder, ready, main, down>>

Seen(dir) == store.seen[dir] # Absent

Init ==
  /\ store = StoreOf([dir \in Dirs |->
                        IF dir = "journal" THEN "claimed" ELSE Absent])
  /\ holder = Absent
  /\ ready = Absent
  /\ main = [p \in Processes |-> "new"]
  /\ down = [p \in Processes |-> "none"]
  /\ task = [p \in Processes |-> "idle"]
  /\ after = [p \in Processes |-> "idle"]
  /\ calls = 0
  /\ crashes = 0

Main(p, from, to) ==
  /\ main[p] = from
  /\ main' = [main EXCEPT ![p] = to]

Down(p, from, to) ==
  /\ down[p] = from
  /\ down' = [down EXCEPT ![p] = to]

\* acquire: the kernel lets one process listen.
Acquire(p) ==
  /\ Main(p, "new", IF holder = Absent THEN "held" ELSE "over")
  /\ holder' = IF holder = Absent THEN p ELSE holder
  /\ UNCHANGED <<store, ready, down, task, after, calls, crashes>>

\* HarkCodexSupervisor.start: the journal is recovered before anything polls.
Start(p) ==
  /\ Main(p, "held", "starting")
  /\ task' = [task EXCEPT ![p] = "recover"]
  /\ UNCHANGED <<store, holder, ready, down, after, calls, crashes>>

\* A start that fails, in the recovery or later, leaves no loop behind.
Started(p) ==
  /\ Main(p, "starting", "started") /\ task[p] = "idle"
  /\ UNCHANGED <<store, holder, ready, down, task, after, calls, crashes>>

StartFails(p) ==
  /\ Main(p, "starting", "over")
  /\ Down(p, "none", "closing")
  /\ task' = [task EXCEPT ![p] = "idle"]
  /\ after' = [after EXCEPT ![p] = "idle"]
  /\ UNCHANGED <<store, holder, ready, calls, crashes>>

\* Mutant: the marker is written and the lock not looked at again.
NeverLost(p) == TRUE

LockKept(p) == down[p] \in {"none", "stopping"}

\* markReady: the marker is written under the lock, ...
BeginMark(p) ==
  /\ Main(p, "started", IF down[p] \in {"none", "stopping"} THEN "mark" ELSE "over")
  /\ UNCHANGED <<store, holder, ready, down, task, after, calls, crashes>>

WriteMark(p) ==
  /\ Main(p, "mark", "marked")
  /\ ready' = p
  /\ UNCHANGED <<store, holder, down, task, after, calls, crashes>>

\* ... and taken back if the lock went while it was written.
CheckMark(p) ==
  /\ Main(p, "marked",
          IF LockKept(p) THEN "wait" ELSE IF ready = p THEN "unmark" ELSE "over")
  /\ UNCHANGED <<store, holder, ready, down, task, after, calls, crashes>>

Unmark(p) ==
  /\ Main(p, "unmark", "over")
  /\ ready' = Absent
  /\ UNCHANGED <<store, holder, down, task, after, calls, crashes>>

\* The command returns when the shutdown is done.
Exit(p) ==
  /\ Main(p, "wait", "over") /\ down[p] = "over"
  /\ UNCHANGED <<store, holder, ready, down, task, after, calls, crashes>>

\* A signal, or a loop that failed for good.
Shutdown(p) ==
  /\ main[p] \in {"started", "mark", "marked", "wait"}
  /\ Down(p, "none", "stopping")
  /\ UNCHANGED <<store, holder, ready, main, task, after, calls, crashes>>

\* Mutant: the lock is released while queued work is still running.
ReleaseAtOnce(p) == TRUE

Drained(p) == task[p] = "idle"

\* shutdownSupervisorUnderLock: stop, then release.
Release(p) ==
  /\ Down(p, "stopping", "closing") /\ Drained(p)
  /\ UNCHANGED <<store, holder, ready, main, task, after, calls, crashes>>

Close(p) ==
  /\ Down(p, "closing", "readReady")
  /\ holder' = Absent
  /\ UNCHANGED <<store, ready, main, task, after, calls, crashes>>

ReadReady(p) ==
  /\ Down(p, "readReady", IF ready = p THEN "unlinkReady" ELSE "over")
  /\ UNCHANGED <<store, holder, ready, main, task, after, calls, crashes>>

\* The file is removed by its name: by now it may be a successor's.
UnlinkReady(p) ==
  /\ Down(p, "unlinkReady", "over")
  /\ ready' = Absent
  /\ UNCHANGED <<store, holder, main, task, after, calls, crashes>>

(***************************************************************************)
(* The work on the wake.                                                   *)
(***************************************************************************)
Task(p, from, to) ==
  /\ task[p] = from
  /\ task' = [task EXCEPT ![p] = to]
  /\ UNCHANGED <<after, store>>

\* AtomicJsonStore.write: renamed over the journal, then synchronised.
Record(p, from, state, next) ==
  /\ task[p] = from
  /\ task' = [task EXCEPT ![p] = "sync journal"]
  /\ after' = [after EXCEPT ![p] = next]
  /\ store' = Put(store, "journal", state)

SyncJournal(p) ==
  /\ task[p] = "sync journal"
  /\ store' = SyncDirectory(store, "journal")
  /\ task' = [task EXCEPT ![p] = after[p]]
  /\ after' = [after EXCEPT ![p] = "idle"]
  /\ UNCHANGED <<life, calls, crashes>>

WakeIs(states) == store.seen["journal"] \in states

\* An intent is found by way of its fence.
Intended == Seen("fences") /\ Seen("intents")

\* The host may show the turn it was asked for, or not yet.
TurnFound == calls > 0

\* Each turn of a poll looks at the wake, as the start does.
Poll(p) ==
  /\ main[p] \in {"started", "mark", "marked", "wait"} /\ down[p] = "none"
  /\ Task(p, "idle", "reconcile")
  /\ UNCHANGED <<life, calls, crashes>>

\* #recoverWake: only a start, under the lock, may take a dispatch for one
\* whose owner died; a poll leaves it to whoever runs it.
LeftAlone(from) == IF from = "recover" THEN {} ELSE {"dispatching"}

Ambiguous(from) == {"uncertain", "dispatching", "submitted"} \ LeftAlone(from)

\* No host call can have been made of a dispatch that has no intent.
Deferrable(from) == IF from = "recover" THEN {"uncertain", "dispatching"} ELSE {}

Recover(p, from) ==
  \/ /\ WakeIs({"claimed", "deferred"})
     /\ IF Intended THEN Record(p, from, "uncertain", from)
        ELSE Task(p, from, "dispatch")
  \/ /\ WakeIs(LeftAlone(from))
     /\ Task(p, from, "idle")
  \/ /\ WakeIs(Ambiguous(from)) /\ TurnFound
     /\ Record(p, from, "submitted", "idle")
  \/ /\ WakeIs(Ambiguous(from)) /\ Intended
     /\ IF WakeIs({"uncertain"}) THEN Task(p, from, "idle")
        ELSE Record(p, from, "uncertain", "idle")
  \/ /\ WakeIs(Ambiguous(from)) /\ ~Intended
     /\ IF WakeIs(Deferrable(from)) THEN Record(p, from, "deferred", "dispatch")
        ELSE Task(p, from, "idle")

RecoverWake(p) ==
  /\ \E from \in {"recover", "reconcile"} : Recover(p, from)
  /\ UNCHANGED <<life, calls, crashes>>

\* #acceptWake: the service leased the wake again, its end not yet recorded.
Reclaim(p) ==
  /\ main[p] \in {"started", "mark", "marked", "wait"} /\ down[p] = "none"
  /\ ~WakeIs({"claimed"})
  /\ Record(p, "idle", IF Intended THEN "uncertain" ELSE "claimed", "reconcile")
  /\ UNCHANGED <<life, calls, crashes>>

\* #dispatchWake: a fence found is used as it is, one that is missing written.
ReadFence(p) ==
  /\ \/ /\ TurnFound
        /\ Record(p, "dispatch", "submitted", "idle")
     \/ /\ Seen("fences") /\ ~Seen("intents")
        /\ Task(p, "dispatch", "begin")
     \/ /\ ~Seen("fences")
        /\ task[p] = "dispatch"
        /\ store' = Put(store, "fences", "fence")
        /\ task' = [task EXCEPT ![p] = "sync fence"]
        /\ UNCHANGED after
  /\ UNCHANGED <<life, calls, crashes>>

SyncFence(p) ==
  /\ task[p] = "sync fence"
  /\ store' = SyncDirectory(store, "fences")
  /\ task' = [task EXCEPT ![p] = "begin"]
  /\ UNCHANGED <<life, after, calls, crashes>>

Begin(p) ==
  /\ WakeIs({"claimed", "deferred"})
  /\ Record(p, "begin", "dispatching", "intent")
  /\ UNCHANGED <<life, calls, crashes>>

\* publishWakeDispatchIntent: who finds an intent does not call the host, so
\* the inbox may return it without synchronising its directory.
PublishIntent(p) ==
  /\ IF Seen("intents") THEN Record(p, "intent", "uncertain", "idle")
     ELSE /\ task[p] = "intent"
          /\ store' = Put(store, "intents", "intent")
          /\ task' = [task EXCEPT ![p] = "sync intent"]
          /\ UNCHANGED after
  /\ UNCHANGED <<life, calls, crashes>>

\* Mutant: the host is called before the intent is durable.
IntentLinked == store

IntentDurable == SyncDirectory(store, "intents")

SyncIntent(p) ==
  /\ task[p] = "sync intent"
  /\ store' = IntentDurable
  /\ task' = [task EXCEPT ![p] = "note"]
  /\ UNCHANGED <<life, after, calls, crashes>>

\* The journal is told of the intent, ...
NoteIntent(p) ==
  /\ task[p] = "note" /\ WakeIs({"dispatching"})
  /\ store' = Put(store, "journal", "dispatching")
  /\ task' = [task EXCEPT ![p] = "sync note"]
  /\ UNCHANGED <<life, after, calls, crashes>>

SyncNote(p) ==
  /\ task[p] = "sync note"
  /\ store' = SyncDirectory(store, "journal")
  /\ task' = [task EXCEPT ![p] = "call"]
  /\ UNCHANGED <<life, after, calls, crashes>>

\* ... then the host: turn/start, and what its reply makes of the wake.
Call(p) ==
  /\ Record(p, "call", "submitted", "idle")
  /\ calls < MaxCalls
  /\ calls' = calls + 1
  /\ UNCHANGED <<life, crashes>>

ReplyLost(p) ==
  /\ Task(p, "call", "idle")
  /\ calls < MaxCalls
  /\ calls' = calls + 1
  /\ UNCHANGED <<life, crashes>>

\* Any step may fail or be aborted; a start fails with it (StartFails).
TaskFails(p) ==
  /\ main[p] # "starting" /\ task[p] # "idle"
  /\ task' = [task EXCEPT ![p] = "idle"]
  /\ after' = [after EXCEPT ![p] = "idle"]
  /\ UNCHANGED <<store, life, calls, crashes>>

(***************************************************************************)
(* Kill: the kernel closes the socket.  Power loss: nobody is left, and    *)
(* the ready file is a dead process's or none.                             *)
(***************************************************************************)
Kill(p) ==
  /\ main[p] # "new"
  /\ main' = [main EXCEPT ![p] = "killed"]
  /\ down' = [down EXCEPT ![p] = "killed"]
  /\ task' = [task EXCEPT ![p] = "idle"]
  /\ after' = [after EXCEPT ![p] = "idle"]
  /\ holder' = IF holder = p THEN Absent ELSE holder
  /\ UNCHANGED <<store, ready, calls, crashes>>

Survivor(p, pc, none) == IF main[p] = "new" THEN none ELSE pc

PowerLoss ==
  /\ crashes < MaxCrashes
  /\ crashes' = crashes + 1
  /\ store' \in AfterPowerLoss(store)
  /\ main' = [p \in Processes |-> Survivor(p, "killed", "new")]
  /\ down' = [p \in Processes |-> Survivor(p, "killed", "none")]
  /\ task' = [p \in Processes |-> "idle"]
  /\ after' = [p \in Processes |-> "idle"]
  /\ holder' = Absent
  /\ ready' \in {ready, Absent}
  /\ UNCHANGED calls

Command(p) ==
  \/ Acquire(p) \/ Start(p) \/ Started(p) \/ StartFails(p)
  \/ BeginMark(p) \/ WriteMark(p) \/ CheckMark(p) \/ Unmark(p) \/ Exit(p)

ShutdownStep(p) ==
  Shutdown(p) \/ Release(p) \/ Close(p) \/ ReadReady(p) \/ UnlinkReady(p)

Work(p) ==
  \/ Poll(p) \/ RecoverWake(p) \/ Reclaim(p) \/ ReadFence(p) \/ SyncFence(p)
  \/ Begin(p) \/ PublishIntent(p) \/ SyncIntent(p) \/ NoteIntent(p) \/ SyncNote(p)
  \/ Call(p) \/ ReplyLost(p) \/ SyncJournal(p) \/ TaskFails(p)

Next ==
  \/ \E p \in Processes : Command(p) \/ ShutdownStep(p) \/ Work(p) \/ Kill(p)
  \/ PowerLoss

Spec == Init /\ [][Next]_vars

Tasks ==
  {"idle", "recover", "reconcile", "dispatch", "sync fence", "begin", "intent",
   "sync intent", "note", "sync note", "call", "sync journal"}

Mains == {"new", "held", "starting", "started", "mark", "marked", "unmark",
          "wait", "over", "killed"}

Downs == {"none", "stopping", "closing", "readReady", "unlinkReady", "over",
          "killed"}

Contents == WakeStates \cup {"fence", "intent", Absent}

Files == [Dirs -> Contents]

\* The files, the processes and the socket they compete for.
TypeOK ==
  /\ store \in [seen : Files, disks : SUBSET [files : Files, behind : SUBSET Dirs]]
  /\ holder \in Processes \cup {Absent}
  /\ ready \in Processes \cup {Absent}
  /\ main \in [Processes -> Mains]
  /\ down \in [Processes -> Downs]
  /\ task \in [Processes -> Tasks]
  /\ after \in [Processes -> Tasks]
  /\ calls \in 0 .. MaxCalls
  /\ crashes \in 0 .. MaxCrashes

\* The host is asked once to start the turn of a wake, over any succession of
\* supervisors, kills and power losses: the intent a supervisor created is
\* durable before it calls, and no supervisor calls on an intent it found.
HostCalledOnce == calls <= 1

\* Whoever works on a wake, in its start or later, is the process that listens
\* on the port: a successor's recovery never meets a live dispatch, and the
\* journal has one writer at a time.
WorkUnderLock == \A p \in Processes : task[p] # "idle" => holder = p

\* A supervisor that shut down, even while it was reporting itself ready, does
\* not leave a marker behind that calls it ready.
NoFalseReady ==
  \A p \in Processes : main[p] = "over" /\ down[p] = "over" => ready # p
=============================================================================
