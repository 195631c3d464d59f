-------------------------- MODULE SupervisorProofs --------------------------
(***************************************************************************)
(* Proofs about SupervisorLifecycle for any processes and any number of    *)
(* power losses.                                                           *)
(***************************************************************************)
EXTENDS SupervisorLifecycle, DurableStoreProofs

ProcessesOK ==
  /\ main \in [Processes -> Mains]
  /\ down \in [Processes -> Downs]
  /\ task \in [Processes -> Tasks]
  /\ after \in [Processes -> Tasks]

\* A process that has acquired the lock and not begun to release it.
Running(p) ==
  /\ main[p] \in {"held", "starting", "started", "mark", "marked", "wait"}
  /\ down[p] \in {"none", "stopping"}

LockInv ==
  \A p \in Processes :
    /\ Running(p) \/ down[p] = "closing" => holder = p
    /\ task[p] # "idle" => Running(p)
    /\ main[p] \in {"new", "held", "starting"} => down[p] = "none"
    /\ down[p] = "stopping" => main[p] \in {"started", "mark", "marked", "wait"}

MarkInv ==
  \A p \in Processes :
    ready = p => \/ main[p] \in {"marked", "unmark", "killed"}
                 \/ main[p] = "wait" /\ down[p] # "over"

LifeInv == ProcessesOK /\ LockInv /\ MarkInv

\* The actions that only move a task along.
TaskStep(p) ==
  \/ RecoverWake(p) \/ ReadFence(p) \/ SyncFence(p) \/ Begin(p)
  \/ PublishIntent(p) \/ SyncIntent(p) \/ NoteIntent(p) \/ SyncNote(p)
  \/ Call(p) \/ ReplyLost(p) \/ SyncJournal(p)

\* A task step leaves the processes' lives alone and finds the task at work.
LEMMA TaskSteps ==
  ASSUME ProcessesOK, NEW p \in Processes, TaskStep(p),
         \A q \in Processes : after[q] \in Tasks
  PROVE  /\ UNCHANGED life
         /\ task[p] # "idle"
         /\ task' \in [Processes -> Tasks] /\ after' \in [Processes -> Tasks]
         /\ \A q \in Processes \ {p} : task'[q] = task[q]
<1> USE DEF ProcessesOK, Tasks, Record, Task
<1>1. CASE RecoverWake(p)
  <2>1. \A t \in {"recover", "reconcile"} :
          task[p] = t => t # "idle"
    OBVIOUS
  <2> QED BY <1>1, <2>1 DEF RecoverWake, Recover
<1>2. CASE ReadFence(p)
  BY <1>2 DEF ReadFence
<1>3. CASE SyncFence(p)
  BY <1>3 DEF SyncFence
<1>4. CASE Begin(p)
  BY <1>4 DEF Begin
<1>5. CASE PublishIntent(p)
  BY <1>5 DEF PublishIntent
<1>6. CASE SyncIntent(p)
  BY <1>6 DEF SyncIntent
<1>7. CASE Call(p)
  BY <1>7 DEF Call
<1>8. CASE ReplyLost(p)
  BY <1>8 DEF ReplyLost
<1>9. CASE SyncJournal(p)
  BY <1>9 DEF SyncJournal
<1>10. CASE NoteIntent(p) \/ SyncNote(p)
  BY <1>10 DEF NoteIntent, SyncNote
<1> QED BY <1>1, <1>2, <1>3, <1>4, <1>5, <1>6, <1>7, <1>8, <1>9, <1>10
        DEF TaskStep

\* Nobody has started.
LEMMA LifeInvStart == Init => LifeInv
<1> SUFFICES ASSUME Init PROVE LifeInv
  OBVIOUS
<1>1. ProcessesOK
  BY DEF Init, ProcessesOK, Mains, Downs, Tasks
<1>2. \A p \in Processes :
        main[p] = "new" /\ down[p] = "none" /\ task[p] = "idle" /\ ready # p
  BY AbsentIsNoProcess DEF Init
<1>3. LockInv /\ MarkInv
  BY <1>2 DEF LockInv, MarkInv, Running
<1> QED BY <1>1, <1>3 DEF LifeInv

\* A step of the command keeps the lock with whoever runs under it.
LEMMA CommandKeepsLife ==
  ASSUME LifeInv, NEW p \in Processes, Command(p)
  PROVE  LifeInv'
<1> USE AbsentIsNoProcess DEF LifeInv, ProcessesOK, LockInv, MarkInv, Running,
        Mains, Downs, Tasks, Main, Down, LockKept
<1>1. CASE Acquire(p)
  <2>1. CASE holder = Absent
    <3>1. \A q \in Processes : ~Running(q) /\ down[q] # "closing"
      BY <2>1
    <3>2. /\ main[p] = "new" /\ main' = [main EXCEPT ![p] = "held"]
          /\ holder' = p /\ UNCHANGED <<ready, down, task, after>>
      BY <1>1, <2>1 DEF Acquire
    <3>3. \A q \in Processes \ {p} : main'[q] = main[q]
      BY <3>2
    <3>4. ProcessesOK'
      BY <3>2
    <3>5. LockInv'
      BY <3>1, <3>2, <3>3
    <3>6. MarkInv'
      BY <3>2, <3>3
    <3> QED BY <3>4, <3>5, <3>6
  <2>2. CASE holder # Absent
    BY <1>1, <2>2 DEF Acquire
  <2> QED BY <2>1, <2>2
<1>2. CASE Start(p)
  BY <1>2 DEF Start
<1>3. CASE Started(p)
  BY <1>3 DEF Started
<1>4. CASE StartFails(p)
  BY <1>4 DEF StartFails
<1>5. CASE BeginMark(p)
  BY <1>5 DEF BeginMark
<1>6. CASE WriteMark(p)
  BY <1>6 DEF WriteMark
<1>7. CASE CheckMark(p)
  BY <1>7 DEF CheckMark
<1>8. CASE Unmark(p)
  BY <1>8 DEF Unmark
<1>9. CASE Exit(p)
  BY <1>9 DEF Exit
<1> QED BY <1>1, <1>2, <1>3, <1>4, <1>5, <1>6, <1>7, <1>8, <1>9 DEF Command

\* A step of the shutdown: the lock goes when the task has come to its end.
LEMMA ShutdownKeepsLife ==
  ASSUME LifeInv, NEW p \in Processes, ShutdownStep(p)
  PROVE  LifeInv'
<1> USE AbsentIsNoProcess DEF LifeInv, ProcessesOK, LockInv, MarkInv, Running,
        Mains, Downs, Tasks, Main, Down
<1>1. CASE Shutdown(p)
  BY <1>1 DEF Shutdown
<1>2. CASE Release(p)
  BY <1>2 DEF Release, Drained
<1>3. CASE Close(p)
  BY <1>3 DEF Close
<1>4. CASE ReadReady(p)
  BY <1>4 DEF ReadReady
<1>5. CASE UnlinkReady(p)
  BY <1>5 DEF UnlinkReady
<1> QED BY <1>1, <1>2, <1>3, <1>4, <1>5 DEF ShutdownStep

\* A step of the work begins and goes on only under the lock.
LEMMA WorkKeepsLife ==
  ASSUME LifeInv, NEW p \in Processes, Work(p)
  PROVE  LifeInv'
<1>1. CASE TaskStep(p)
  BY <1>1, TaskSteps DEF LifeInv, ProcessesOK, LockInv, MarkInv, Running, life
<1>2. CASE Poll(p)
  BY <1>2 DEF LifeInv, ProcessesOK, LockInv, MarkInv, Running, life, Poll, Task,
     Tasks
<1>3. CASE Reclaim(p)
  BY <1>3 DEF LifeInv, ProcessesOK, LockInv, MarkInv, Running, life, Reclaim,
     Record, Tasks
<1>4. CASE TaskFails(p)
  BY <1>4 DEF LifeInv, ProcessesOK, LockInv, MarkInv, Running, life, TaskFails,
     Tasks
<1> QED BY <1>1, <1>2, <1>3, <1>4 DEF Work, TaskStep

\* A kill or a power loss takes the lock from the process it ends.
LEMMA FailureKeepsLife ==
  ASSUME LifeInv, (\E p \in Processes : Kill(p)) \/ PowerLoss
  PROVE  LifeInv'
<1> USE AbsentIsNoProcess DEF LifeInv, ProcessesOK, LockInv, MarkInv, Running,
        Mains, Downs, Tasks
<1>1. ASSUME NEW p \in Processes, Kill(p) PROVE LifeInv'
  BY <1>1 DEF Kill
<1>2. CASE PowerLoss
  <2>1. \A p \in Processes :
          /\ task'[p] = "idle" /\ after'[p] = "idle"
          /\ \/ main'[p] = "new" /\ down'[p] = "none" /\ main[p] = "new"
             \/ main'[p] = "killed" /\ down'[p] = "killed"
    BY <1>2 DEF PowerLoss, Survivor
  <2>2. ready' = ready \/ ready' = Absent
    BY <1>2 DEF PowerLoss
  <2>3. LockInv'
    BY ONLY <2>1 DEF LockInv, Running
  <2>5. MarkInv'
    <3>1. ASSUME NEW p \in Processes, ready' = p
          PROVE  main'[p] = "killed"
      <4>1. ready = p
        BY <2>2, <3>1
      <4>2. main[p] # "new"
        BY <4>1
      <4> QED BY <2>1, <4>2
    <3> QED BY ONLY <3>1 DEF MarkInv
  <2>4. ProcessesOK'
    BY <1>2, <2>1 DEF PowerLoss
  <2> QED BY <2>3, <2>4, <2>5
<1> QED BY <1>1, <1>2

\* Every step keeps the order of the processes' lives.
LEMMA LifeInvNext == LifeInv /\ [Next]_vars => LifeInv'
<1> SUFFICES ASSUME LifeInv, [Next]_vars PROVE LifeInv'
  OBVIOUS
<1>1. CASE UNCHANGED vars
  BY <1>1 DEF vars, LifeInv, ProcessesOK, LockInv, MarkInv, Running
<1>2. CASE Next
  BY <1>2, CommandKeepsLife, ShutdownKeepsLife, WorkKeepsLife,
     FailureKeepsLife DEF Next
<1> QED BY <1>1, <1>2

LEMMA LifeInvAlways == Spec => []LifeInv
BY LifeInvStart, LifeInvNext, PTL DEF Spec

\* Whoever works on the wake listens on the port: no recovery of a successor
\* meets a live dispatch, and the journal has one writer.
THEOREM WorkIsUnderLock == Spec => []WorkUnderLock
<1>1. LifeInv => WorkUnderLock
  BY DEF LifeInv, LockInv, WorkUnderLock
<1> QED BY <1>1, LifeInvAlways, PTL

\* A supervisor that shut down leaves no marker that reports it ready, even if
\* the shutdown overtook the writing of the marker.
THEOREM NoMarkerOutlivesShutdown == Spec => []NoFalseReady
<1>1. LifeInv => NoFalseReady
  BY DEF LifeInv, MarkInv, NoFalseReady
<1> QED BY <1>1, LifeInvAlways, PTL

(***************************************************************************)
(* The host is called once.                                                *)
(***************************************************************************)
\* The intent is there, whatever the power does.
IntentHeld ==
  Seen("intents") /\ \A d \in store.disks : d.files["intents"] # Absent

\* Nothing but a dispatch that made the intent leads to the call.
OnTheWay == {"note", "sync note", "call"}
Detours == Tasks \ ({"sync intent"} \cup OnTheWay)

CallInv ==
  /\ IsStore(store, Dirs, Contents)
  /\ calls \in Nat
  /\ calls <= 1
  /\ calls = 1 => IntentHeld
  /\ after \in [Processes -> Detours]
  /\ \A p \in Processes :
       /\ task[p] = "sync intent" => Seen("intents") /\ calls = 0
       /\ task[p] \in OnTheWay => IntentHeld /\ calls = 0
  /\ \A p, q \in Processes :
       task[p] \notin Detours /\ task[q] \notin Detours => p = q

\* A change of another directory does not touch the intent, and creating the
\* intent leaves no other file on a disk in its place.
LEMMA PutKeepsIntent ==
  ASSUME IsStore(store, Dirs, Contents), NEW dir \in Dirs,
         NEW value \in Contents \ {Absent}, store' = Put(store, dir, value)
  PROVE  /\ IsStore(store, Dirs, Contents)'
         /\ IntentHeld => IntentHeld'
         /\ Seen("intents") => Seen("intents")'
         /\ dir = "intents" => Seen("intents")'
<1>1. /\ IsStore(store', Dirs, Contents)
      /\ store'.seen = [store.seen EXCEPT ![dir] = value]
  BY PutKeepsStore
<1>2. store.seen \in [Dirs -> Contents]
  BY DEF IsStore, StoreType
<1>3. "intents" \in Dirs
  BY DEF Dirs
<1>4. Seen("intents") => Seen("intents")'
  BY <1>1, <1>2, <1>3 DEF Seen
<1>5. ASSUME NEW e \in store'.disks, IntentHeld
      PROVE  e.files["intents"] # Absent
  <2>1. PICK d \in store.disks :
          \/ e.files = [d.files EXCEPT ![dir] = value] /\ e.behind = d.behind
          \/ e.files = d.files /\ e.behind = d.behind \cup {dir}
    BY PutDisks
  <2>2. d.files \in [Dirs -> Contents] /\ d.files["intents"] # Absent
    BY <1>5 DEF IsStore, StoreType, IntentHeld
  <2> QED BY <1>3, <2>1, <2>2
<1>6. dir = "intents" => Seen("intents")'
  BY <1>1, <1>2 DEF Seen
<1> QED BY <1>1, <1>4, <1>5, <1>6 DEF IntentHeld, IsStore

\* Synchronising a directory loses disks; synchronising the intents' one
\* leaves only disks that have the intent.
LEMMA SyncKeepsIntent ==
  ASSUME IsStore(store, Dirs, Contents), NEW dir \in Dirs,
         store' = SyncDirectory(store, dir)
  PROVE  /\ IsStore(store, Dirs, Contents)'
         /\ IntentHeld => IntentHeld'
         /\ Seen("intents") => Seen("intents")'
         /\ dir = "intents" /\ Seen("intents") => IntentHeld'
<1>1. /\ IsStore(store', Dirs, Contents)
      /\ store'.seen = store.seen
      /\ store'.disks \subseteq store.disks
      /\ Holds(store', dir, store.seen[dir])
  BY SyncKeepsStore
<1> QED BY <1>1 DEF IntentHeld, Seen, IsStore, Holds

\* A machine that lost power finds the intent if every disk had it.
LEMMA PowerLossKeepsIntent ==
  ASSUME IsStore(store, Dirs, Contents), store' \in AfterPowerLoss(store)
  PROVE  /\ IsStore(store, Dirs, Contents)'
         /\ IntentHeld => IntentHeld'
<1>1. /\ IsStore(store', Dirs, Contents)
      /\ \E d \in store.disks :
           store'.seen = d.files /\ store'.disks = {Disk(d.files, {})}
  BY PowerLossKeepsStore
<1> QED BY <1>1 DEF IntentHeld, Seen, IsStore, Disk

\* Nothing is written and nobody calls before the first supervisor.
LEMMA CallInvStart == Init => CallInv
<1> SUFFICES ASSUME Init PROVE CallInv
  OBVIOUS
<1>1. IsStore(store, Dirs, Contents)
  <2>1. [dir \in Dirs |-> IF dir = "journal" THEN "claimed" ELSE Absent]
          \in [Dirs -> Contents]
    BY DEF Contents, WakeStates
  <2> QED BY <2>1, StoreOfIsStore DEF Init
<1>2. after \in [Processes -> Detours]
  BY DEF Init, Detours, OnTheWay, Tasks
<1>3. calls = 0 /\ calls \in Nat /\ calls <= 1 /\ calls # 1
  BY DEF Init
<1>4. \A p \in Processes :
        /\ task[p] \in Detours
        /\ task[p] # "sync intent" /\ task[p] \notin OnTheWay
  BY DEF Init, Detours, OnTheWay, Tasks
<1> QED BY <1>1, <1>2, <1>3, <1>4 DEF CallInv

\* What a journal write, a journal synchronisation or a bare move of a task
\* does to the invariant: it takes no task to the call.
Detour(p) ==
  /\ calls' = calls
  /\ \A q \in Processes \ {p} : task'[q] = task[q]
  /\ task'[p] \in Detours
  /\ after' \in [Processes -> Detours]
  /\ IsStore(store, Dirs, Contents)'
  /\ IntentHeld => IntentHeld'
  /\ Seen("intents") => Seen("intents")'

LEMMA DetourKeepsCallInv ==
  ASSUME CallInv, NEW p \in Processes, Detour(p)
  PROVE  CallInv'
<1>1. \A q \in Processes : task'[q] \notin Detours => q # p /\ task'[q] = task[q]
  BY DEF Detour
<1> QED BY <1>1 DEF CallInv, Detour, Detours

\* A journal write leads to a detour, or to the dispatch that goes on.
LEMMA RecordIsDetour ==
  ASSUME CallInv, ProcessesOK, NEW p \in Processes, NEW from,
         NEW state \in WakeStates, NEW next \in Detours,
         Record(p, from, state, next), UNCHANGED calls
  PROVE  Detour(p)
<1>1. "journal" \in Dirs /\ state \in Contents \ {Absent}
  BY AbsentIsNoRecord DEF Dirs, Contents, WakeStates
<1>2. store' = Put(store, "journal", state)
  BY DEF Record
<1>3. /\ IsStore(store, Dirs, Contents)'
      /\ IntentHeld => IntentHeld'
      /\ Seen("intents") => Seen("intents")'
  BY <1>1, <1>2, PutKeepsIntent DEF CallInv
<1> QED BY <1>3 DEF Record, Detour, Detours, OnTheWay, Tasks, CallInv, ProcessesOK

\* A bare move is a detour.
LEMMA TaskIsDetour ==
  ASSUME CallInv, ProcessesOK, NEW p \in Processes, NEW from,
         NEW to \in Detours, Task(p, from, to), UNCHANGED calls
  PROVE  Detour(p)
BY DEF Task, Detour, CallInv, ProcessesOK, IntentHeld, Seen, IsStore

\* What a step that creates nothing and calls nobody does is a detour.
LEMMA DetourSteps ==
  ASSUME CallInv, ProcessesOK, NEW p \in Processes,
         \/ RecoverWake(p) \/ ReadFence(p) \/ SyncFence(p) \/ Begin(p)
         \/ Poll(p) \/ Reclaim(p) \/ SyncJournal(p) \/ TaskFails(p)
         \/ PublishIntent(p) /\ Seen("intents")
  PROVE  Detour(p)
<1> DEFINE Moves == \E from, to \in Detours : Task(p, from, to)
           Writes == \E from \in Detours, state \in WakeStates, next \in Detours :
                       Record(p, from, state, next)
<1>1. Moves /\ UNCHANGED calls => Detour(p)
  BY TaskIsDetour
<1>2. Writes /\ UNCHANGED calls => Detour(p)
  BY RecordIsDetour
<1>3. {"idle", "recover", "reconcile", "dispatch", "begin", "intent", "sync fence",
       "sync journal"} \subseteq Detours
  BY DEF Detours, OnTheWay, Tasks
<1>4. CASE RecoverWake(p)
  <2>1. Moves \/ Writes
    BY <1>3, <1>4 DEF RecoverWake, Recover, WakeStates
  <2> QED BY <1>1, <1>2, <1>4, <2>1 DEF RecoverWake
<1>5. CASE ReadFence(p)
  <2>1. CASE TurnFound /\ Record(p, "dispatch", "submitted", "idle")
    BY <1>2, <1>3, <1>5, <2>1 DEF ReadFence, WakeStates
  <2>2. CASE Task(p, "dispatch", "begin")
    BY <1>1, <1>3, <1>5, <2>2 DEF ReadFence
  <2>3. CASE /\ store' = Put(store, "fences", "fence")
             /\ task' = [task EXCEPT ![p] = "sync fence"]
             /\ UNCHANGED after
    <3>1. "fences" \in Dirs /\ "fence" \in Contents \ {Absent}
      BY AbsentIsNoRecord DEF Dirs, Contents
    <3>2. /\ IsStore(store, Dirs, Contents)'
          /\ IntentHeld => IntentHeld'
          /\ Seen("intents") => Seen("intents")'
      BY <2>3, <3>1, PutKeepsIntent DEF CallInv
    <3> QED BY <1>3, <1>5, <2>3, <3>2 DEF ReadFence, Detour, CallInv, ProcessesOK
  <2> QED BY <1>5, <2>1, <2>2, <2>3 DEF ReadFence
<1>6. ASSUME NEW dir \in Dirs, store' = SyncDirectory(store, dir)
      PROVE  /\ IsStore(store, Dirs, Contents)'
             /\ IntentHeld => IntentHeld'
             /\ Seen("intents") => Seen("intents")'
  BY <1>6, SyncKeepsIntent DEF CallInv
<1>7. CASE SyncFence(p)
  <2>1. "fences" \in Dirs
    BY DEF Dirs
  <2> QED BY <1>3, <1>6, <1>7, <2>1 DEF SyncFence, Detour, CallInv, ProcessesOK
<1>8. CASE SyncJournal(p)
  <2>1. "journal" \in Dirs
    BY DEF Dirs
  <2> QED BY <1>3, <1>6, <1>8, <2>1 DEF SyncJournal, Detour, CallInv, ProcessesOK
<1>9. CASE Begin(p)
  BY <1>2, <1>3, <1>9 DEF Begin, WakeStates
<1>10. CASE Poll(p)
  BY <1>1, <1>3, <1>10 DEF Poll
<1>11. CASE Reclaim(p)
  <2>1. Writes
    BY <1>3, <1>11 DEF Reclaim, WakeStates
  <2> QED BY <1>2, <1>11, <2>1 DEF Reclaim
<1>12. CASE PublishIntent(p) /\ Seen("intents")
  BY <1>2, <1>3, <1>12 DEF PublishIntent, WakeStates
<1>13. CASE TaskFails(p)
  <2>1. store' = store /\ calls' = calls
    BY <1>13 DEF TaskFails
  <2> QED BY <1>3, <1>13, <2>1 DEF TaskFails, Detour, CallInv, ProcessesOK,
          IntentHeld, Seen, IsStore
<1> QED BY <1>4, <1>5, <1>7, <1>8, <1>9, <1>10, <1>11, <1>12, <1>13

\* Who creates the intent found none: nobody has called or is about to.
LEMMA PublishKeepsCallInv ==
  ASSUME CallInv, ProcessesOK, NEW p \in Processes, PublishIntent(p),
         ~Seen("intents")
  PROVE  CallInv'
<1>1. "intents" \in Dirs /\ "intent" \in Contents \ {Absent}
  BY AbsentIsNoRecord DEF Dirs, Contents
<1>2. store' = Put(store, "intents", "intent") /\ calls' = calls /\ after' = after
  BY DEF PublishIntent
<1>3. IsStore(store, Dirs, Contents)' /\ Seen("intents")'
  BY <1>1, <1>2, PutKeepsIntent DEF CallInv
<1>10. calls \in Nat /\ calls <= 1 /\ calls # 1
  BY DEF CallInv, IntentHeld
<1>4. calls # 1 /\ calls = 0
  BY <1>10
<1>5. \A q \in Processes : task[q] # "sync intent" /\ task[q] \notin OnTheWay
  BY DEF CallInv, IntentHeld
<1>6. \A q \in Processes : task[q] \in Detours
  BY <1>5 DEF Detours, ProcessesOK
<1>7. \A q \in Processes :
        task'[q] = IF q = p THEN "sync intent" ELSE task[q]
  BY DEF PublishIntent, ProcessesOK
<1>8. \A q \in Processes : task'[q] \notin OnTheWay
  BY <1>5, <1>7 DEF OnTheWay
<1>9. \A q \in Processes : task'[q] \notin Detours => q = p
  BY <1>6, <1>7
<1> QED BY <1>2, <1>3, <1>4, <1>8, <1>9 DEF CallInv

\* Who notes the intent in the journal is still the one on the way.
LEMMA NoteKeepsCallInv ==
  ASSUME CallInv, ProcessesOK, NEW p \in Processes, NoteIntent(p) \/ SyncNote(p)
  PROVE  CallInv'
<1>1. task[p] \in OnTheWay /\ IntentHeld /\ calls = 0 /\ Seen("intents")
  BY DEF NoteIntent, SyncNote, OnTheWay, CallInv, IntentHeld
<1>2. /\ IsStore(store, Dirs, Contents)' /\ IntentHeld'
      /\ calls' = calls /\ after' = after
  <2>1. /\ "journal" \in Dirs /\ "dispatching" \in Contents \ {Absent}
    BY AbsentIsNoRecord DEF Dirs, Contents, WakeStates
  <2>2. CASE NoteIntent(p)
    BY <1>1, <2>1, <2>2, PutKeepsIntent DEF NoteIntent, CallInv
  <2>3. CASE SyncNote(p)
    BY <1>1, <2>1, <2>3, SyncKeepsIntent DEF SyncNote, CallInv
  <2> QED BY <2>2, <2>3
<1>3. \A q \in Processes :
        task'[q] = IF q = p THEN task'[p] ELSE task[q]
  BY DEF NoteIntent, SyncNote, ProcessesOK
<1>4. task'[p] \in OnTheWay
  BY DEF NoteIntent, SyncNote, ProcessesOK, OnTheWay
<1>5. task[p] \notin Detours
  BY <1>1 DEF Detours
<1>6. \A q \in Processes \ {p} : task[q] \in Detours
  BY <1>5 DEF CallInv
<1>7. \A q \in Processes : task'[q] # "sync intent"
  BY <1>3, <1>4, <1>6 DEF Detours, OnTheWay
<1>8. \A q \in Processes : task'[q] \notin Detours => q = p
  BY <1>3, <1>6
<1> QED BY <1>1, <1>2, <1>7, <1>8 DEF CallInv

\* Who synchronised the intent has it on every disk.
LEMMA SyncIntentKeepsCallInv ==
  ASSUME CallInv, ProcessesOK, NEW p \in Processes, SyncIntent(p)
  PROVE  CallInv'
<1>1. task[p] = "sync intent" /\ Seen("intents") /\ calls = 0
  BY DEF SyncIntent, CallInv
<1>2. /\ store' = SyncDirectory(store, "intents")
      /\ calls' = calls /\ after' = after
  BY DEF SyncIntent, IntentDurable
<1>3. "intents" \in Dirs
  BY DEF Dirs
<1>4. IsStore(store, Dirs, Contents)' /\ IntentHeld'
  BY <1>1, <1>2, <1>3, SyncKeepsIntent DEF CallInv
<1>5. task[p] \notin Detours
  BY <1>1 DEF Detours
<1>6. \A q \in Processes : task'[q] = IF q = p THEN "note" ELSE task[q]
  BY DEF SyncIntent, ProcessesOK
<1>7. \A q \in Processes \ {p} :
        /\ task[q] \in Detours
        /\ task[q] # "sync intent" /\ task[q] \notin OnTheWay
  BY <1>5 DEF CallInv, Detours
<1>8. \A q \in Processes : task'[q] # "sync intent"
  BY <1>6, <1>7
<1>9. \A q \in Processes : task'[q] \notin Detours => q = p
  BY <1>6, <1>7
<1> QED BY <1>1, <1>2, <1>4, <1>8, <1>9 DEF CallInv

\* The one call leaves nobody who is about to make another.
LEMMA CallKeepsCallInv ==
  ASSUME CallInv, ProcessesOK, NEW p \in Processes, Call(p) \/ ReplyLost(p)
  PROVE  CallInv'
<1>1. task[p] = "call" /\ IntentHeld /\ calls = 0
  BY DEF Call, ReplyLost, Record, Task, CallInv, OnTheWay
<1>2. calls' = 1 /\ calls' \in Nat /\ calls' <= 1 /\ calls' # 0
  BY <1>1 DEF Call, ReplyLost
<1>3. IsStore(store, Dirs, Contents)' /\ IntentHeld'
  <2>1. CASE Call(p)
    <3>1. "journal" \in Dirs /\ "submitted" \in Contents \ {Absent}
      BY AbsentIsNoRecord DEF Dirs, Contents, WakeStates
    <3>2. store' = Put(store, "journal", "submitted")
      BY <2>1 DEF Call, Record
    <3> QED BY <1>1, <3>1, <3>2, PutKeepsIntent DEF CallInv
  <2>2. CASE ReplyLost(p)
    BY <1>1, <2>2 DEF ReplyLost, Task, CallInv, IsStore, IntentHeld, Seen
  <2> QED BY <2>1, <2>2
<1>4. after' \in [Processes -> Detours]
  BY DEF Call, ReplyLost, Record, Task, CallInv, Detours, OnTheWay, Tasks
<1>5. task[p] \notin Detours
  BY <1>1 DEF Detours, OnTheWay
<1>6. \A q \in Processes \ {p} : task[q] \in Detours
  BY <1>5 DEF CallInv
<1>7. \A q \in Processes : task'[q] \in Detours
  BY <1>6 DEF Call, ReplyLost, Record, Task, ProcessesOK, Detours, OnTheWay, Tasks
<1>8. \A q \in Processes : task'[q] # "sync intent" /\ task'[q] \notin OnTheWay
  BY <1>7 DEF Detours
<1> QED BY <1>2, <1>3, <1>4, <1>7, <1>8 DEF CallInv

\* What moves no task to the call and leaves the files alone.
LEMMA LifeKeepsCallInv ==
  ASSUME CallInv, ProcessesOK, NEW p \in Processes,
         Command(p) \/ ShutdownStep(p) \/ Kill(p)
  PROVE  CallInv'
<1>1. store' = store /\ calls' = calls
  BY DEF Command, ShutdownStep, Acquire, Start, Started, StartFails, BeginMark,
     WriteMark, CheckMark, Unmark, Exit, Shutdown, Release, Close, ReadReady,
     UnlinkReady, Kill
<1>2. after' \in [Processes -> Detours]
  BY DEF Command, ShutdownStep, Acquire, Start, Started, StartFails, BeginMark,
     WriteMark, CheckMark, Unmark, Exit, Shutdown, Release, Close, ReadReady,
     UnlinkReady, Kill, CallInv, Detours, OnTheWay, Tasks
<1>3. \A q \in Processes : task'[q] = task[q] \/ task'[q] \in {"idle", "recover"}
  BY DEF Command, ShutdownStep, Acquire, Start, Started, StartFails, BeginMark,
     WriteMark, CheckMark, Unmark, Exit, Shutdown, Release, Close, ReadReady,
     UnlinkReady, Kill, ProcessesOK
<1>4. \A q \in Processes : task'[q] = task[q] \/ task'[q] \in Detours
  BY <1>3 DEF Detours, OnTheWay, Tasks
<1>5. \A q \in Processes :
        task'[q] \in {"sync intent"} \cup OnTheWay => task'[q] = task[q]
  BY <1>3 DEF OnTheWay
<1>6. IsStore(store, Dirs, Contents)' /\ (IntentHeld' <=> IntentHeld)
        /\ (Seen("intents")' <=> Seen("intents"))
  BY <1>1 DEF CallInv, IsStore, IntentHeld, Seen
<1> QED BY <1>1, <1>2, <1>4, <1>5, <1>6 DEF CallInv

\* After a power loss nobody is at work, and the intent of a call is found.
LEMMA PowerLossKeepsCallInv == CallInv /\ PowerLoss => CallInv'
<1> SUFFICES ASSUME CallInv, PowerLoss PROVE CallInv'
  OBVIOUS
<1>1. IsStore(store, Dirs, Contents)' /\ (IntentHeld => IntentHeld')
  BY PowerLossKeepsIntent DEF CallInv, PowerLoss
<1>2. calls' = calls /\ after' \in [Processes -> Detours]
  BY DEF PowerLoss, Detours, OnTheWay, Tasks
<1>3. \A q \in Processes :
        /\ task'[q] \in Detours
        /\ task'[q] # "sync intent" /\ task'[q] \notin OnTheWay
  BY DEF PowerLoss, Detours, OnTheWay, Tasks
<1> QED BY <1>1, <1>2, <1>3 DEF CallInv

\* Every step keeps the intent on every disk that a call may have left behind.
LEMMA CallInvNext == CallInv /\ ProcessesOK /\ [Next]_vars => CallInv'
<1> SUFFICES ASSUME CallInv, ProcessesOK, [Next]_vars PROVE CallInv'
  OBVIOUS
<1>1. CASE UNCHANGED vars
  BY <1>1 DEF vars, CallInv, IsStore, IntentHeld, Seen
<1>2. ASSUME NEW p \in Processes, Work(p) PROVE CallInv'
  <2>1. CASE Call(p) \/ ReplyLost(p)
    BY <2>1, CallKeepsCallInv
  <2>2. CASE SyncIntent(p)
    BY <2>2, SyncIntentKeepsCallInv
  <2>5. CASE NoteIntent(p) \/ SyncNote(p)
    BY <2>5, NoteKeepsCallInv
  <2>3. CASE PublishIntent(p) /\ ~Seen("intents")
    BY <2>3, PublishKeepsCallInv
  <2>4. CASE \/ RecoverWake(p) \/ ReadFence(p) \/ SyncFence(p) \/ Begin(p)
             \/ Poll(p) \/ Reclaim(p) \/ SyncJournal(p) \/ TaskFails(p)
             \/ PublishIntent(p) /\ Seen("intents")
    BY <2>4, DetourSteps, DetourKeepsCallInv
  <2> QED BY <1>2, <2>1, <2>2, <2>3, <2>4, <2>5 DEF Work
<1> QED BY <1>1, <1>2, LifeKeepsCallInv, PowerLossKeepsCallInv DEF Next

\* The host is asked at most once to start the wake's turn, whatever kills and
\* power losses come between the intent, the call and the journal.
THEOREM HostIsCalledOnce == Spec => []HostCalledOnce
<1>1. LifeInv => ProcessesOK
  BY DEF LifeInv
<1>2. CallInv => HostCalledOnce
  BY DEF CallInv, HostCalledOnce
<1> QED BY <1>1, <1>2, CallInvStart, CallInvNext, LifeInvAlways, PTL DEF Spec
=============================================================================
