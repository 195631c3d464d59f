----------------------------- MODULE WakeProofs -----------------------------
(***************************************************************************)
(* Theorems about SupervisedWake, for generic and held wakes, any number   *)
(* of lease generations and any number of faults.                          *)
(***************************************************************************)
EXTENDS SupervisedWake, TLAPS

\* States from which no step leads back to an undispatched wake, except the
\* startup rewind of a dispatch that has no intent.
Begun == TerminalWakeStates \cup
  {"dispatching", "dispatch_uncertain", "submitted", "dispatched", "running"}

FinishLabels == {"finish", "finishPost", "finishWake", "finishAwait"}

\* Who may be at work: a generic wake has no held recovery task, and during
\* startup the poll is alone.
TasksAlone ==
  ~HeldRecovery \/ phase = "recovering" => pc["claim"] = "idle"

\* Nobody works on a wake that was never claimed.
ClaimedFirst ==
  (wake.state # "absent" \/ \E p \in Tasks : pc[p] # "idle") => wake.gen # 0

\* What a task still relies on is what it checked.
MemoryFits ==
  \A p \in Tasks :
    /\ pc[p] \in {"reserve", "begin"} => mem[p].state \in Undispatched
    /\ pc[p] \in FinishLabels => mem[p].turn \in TerminalTurns

\* A task on its way to the host call works on a wake marked as dispatching
\* under the current lease, whose admission is first published and then
\* journalled.
DispatchPrepared ==
  \A p \in Tasks :
    /\ pc[p] \in HostCallLabels => wake.state \in Begun /\ wake.attempt = wake.gen
    /\ pc[p] \in {"admitJournal", "intent"} => wake.gen \in admissions
    /\ pc[p] = "intent" => wake.admission = wake.gen

\* The intent, once on disk, is the admission and the attempt of the journal.
IntentBinds ==
  intent # 0 => /\ wake.state \in Begun
                /\ intent \in admissions
                /\ wake.admission = intent
                /\ wake.attempt = intent
                /\ intent <= wake.gen

\* The host is called under an intent that its caller has just created; the
\* guard admits, and the caller goes on, only under an intent.
IntentFirst ==
  /\ \A p \in Tasks :
       /\ pc[p] \in {"intentJournal", "start"} => intent # 0 /\ calls = 0
       /\ pc[p] \in {"observe", "waitAck", "submit"} => intent # 0
  /\ calls > 0 \/ guard = "admit" => intent # 0
  /\ acks \subseteq {intent} \ {0}

\* Startup takes a dispatch back only while there is no intent.
FenceRead ==
  phase = "recovering" /\ pc["poll"] = "read" /\ ~mem["poll"].fenced => intent = 0

Protocol ==
  /\ TasksAlone /\ ClaimedFirst /\ MemoryFits
  /\ OneDispatcher /\ DispatchPrepared
  /\ IntentBinds /\ IntentFirst /\ OneHostCall
  /\ FenceRead

\* What the journal and a task know of the wake's turn is true, and what they
\* go on from was reported.
ReportedLabels == {"awaitRunning", "markRunning"} \cup FinishLabels

Reported ==
  /\ wake.ack => intent \in acks
  /\ wake.woken => intent \in acks /\ turn = "completed"
  /\ wake.state = "completed" => wake.woken /\ {"woken", "completed"} \subseteq receipts
  /\ \A p \in Tasks :
       /\ pc[p] = "submit" => intent \in acks
       /\ pc[p] = "woken" => intent \in acks /\ turn = "completed"
       /\ pc[p] \in {"wokenPost"} \cup ReportedLabels => wake.woken
       /\ pc[p] \in ReportedLabels => "woken" \in receipts
       /\ pc[p] \in {"finishWake", "finishAwait"} => mem[p].turn \in receipts

WakeInv == TypeOK /\ Protocol /\ Reported

-----------------------------------------------------------------------------
ControlOK ==
  /\ phase \in {"up", "recovering", "stopping"}
  /\ pc \in [Tasks -> Labels]
  /\ mem \in [Tasks -> Memory]

DataOK ==
  /\ wake \in WakeRecord
  /\ await \in AwaitStates
  /\ admissions \in SUBSET (1 .. MaxClaims)
  /\ intent \in Generations
  /\ acks \in SUBSET Generations
  /\ turn \in Turns
  /\ guard \in {"none", "admit", "pass", "block"}
  /\ calls \in Nat
  /\ history \in {"intact", "rolledBack", "otherTurn"}
  /\ lapsed \in BOOLEAN
  /\ receipts \in SUBSET Receipts
  /\ faults \in 0 .. MaxFaults

\* The empty memory has the type of a memory.
LEMMA NoMemoryOK == NoMemory \in Memory
  BY DEF NoMemory, Memory, WakeStates, TerminalWakeStates, AwaitStates,
         Unreceived, Turns, StartedTurns, TerminalTurns

\* However a task moves, its control state keeps its type.
LEMMA MovesKeepControl ==
  ASSUME NEW p \in Tasks, ControlOK
  PROVE  /\ \A l \in Labels : Step(p, l) => ControlOK'
         /\ \A l \in Labels, m \in Memory : StepWith(p, l, m) => ControlOK'
         /\ Done(p) => ControlOK'
         /\ Fatal(p) => ControlOK'
         /\ Transient(p) => ControlOK'
<1> USE NoMemoryOK DEF ControlOK
<1>1. "idle" \in Labels
  BY DEF Labels
<1>2. \A l \in Labels, m \in Memory :
        Goto(p, l, m) => pc' \in [Tasks -> Labels] /\ mem' \in [Tasks -> Memory]
  BY DEF Goto
<1>3. \A l \in Labels : Step(p, l) => ControlOK'
  BY <1>2 DEF Step
<1>4. \A l \in Labels, m \in Memory : StepWith(p, l, m) => ControlOK'
  BY <1>2 DEF StepWith
<1>5. Done(p) => ControlOK'
  BY <1>1, <1>2 DEF Done
<1>6. Fatal(p) => ControlOK'
  BY <1>1, <1>2 DEF Fatal
<1>7. Transient(p) => ControlOK'
  BY <1>5, <1>6 DEF Transient
<1> HIDE DEF ControlOK
<1> QED
  BY <1>3, <1>4, <1>5, <1>6, <1>7

\* A supervisor without a wake satisfies the invariant.
LEMMA WakeInit == Init => WakeInv
<1> SUFFICES ASSUME Init PROVE WakeInv
  OBVIOUS
<1>1. /\ pc \in [Tasks -> Labels]
      /\ mem \in [Tasks -> Memory]
  BY NoMemoryOK DEF Init, Labels
<1>2. wake \in WakeRecord
  BY WakeAssumption DEF Init, NewWake, WakeRecord, WakeStates, Generations
<1>3. await \in AwaitStates
  BY DEF Init, AwaitStates, Unreceived
<1>3a. /\ intent \in Generations /\ faults \in 0 .. MaxFaults /\ calls \in Nat
      /\ turn \in Turns
  BY WakeAssumption DEF Init, Turns, Generations
<1>3b. TypeOK
  BY <1>1, <1>2, <1>3, <1>3a DEF Init, TypeOK
<1>4. /\ TasksAlone /\ ClaimedFirst /\ MemoryFits
      /\ OneDispatcher /\ DispatchPrepared
  BY DEF Init, TasksAlone, ClaimedFirst, MemoryFits, OneDispatcher,
         DispatchPrepared, HostCallLabels, FinishLabels, NewWake, Tasks
<1>5. IntentBinds /\ IntentFirst /\ OneHostCall /\ FenceRead
  BY DEF Init, IntentBinds, IntentFirst, OneHostCall, FenceRead, Tasks
<1>6. Reported
  BY DEF Init, Reported, NewWake, ReportedLabels, FinishLabels, Tasks
<1> QED
  BY <1>3b, <1>4, <1>5, <1>6 DEF WakeInv, Protocol

\* What a task remembers has its type, whatever it last read.
LEMMA Remembering ==
  ASSUME NEW p \in Tasks, ControlOK, DataOK
  PROVE  /\ \A s \in SeenTurns : [mem[p] EXCEPT !.turn = s] \in Memory
         /\ [mem[p] EXCEPT !.await = await] \in Memory
         /\ \A s \in WakeStates : [mem[p] EXCEPT !.state = s] \in Memory
         /\ wake.state \in WakeStates
         /\ \A b \in BOOLEAN : [mem[p] EXCEPT !.fenced = b] \in Memory
         /\ [mem[p] EXCEPT !.state = "dispatch_uncertain", !.fenced = TRUE]
              \in Memory
<1>1. mem[p] \in Memory
  BY DEF ControlOK
<1>2. SeenTurns \subseteq Turns
  BY DEF SeenTurns, Turns, DataOK
<1>3. wake.state \in WakeStates
  BY DEF DataOK, WakeRecord
<1>4. "dispatch_uncertain" \in WakeStates
  BY DEF WakeStates
<1>5. \A t \in Turns : [mem[p] EXCEPT !.turn = t] \in Memory
  BY <1>1 DEF Memory
<1>6. \A s \in WakeStates : [mem[p] EXCEPT !.state = s] \in Memory
  BY <1>1 DEF Memory
<1>7. \A s \in WakeStates, b \in BOOLEAN :
        /\ [mem[p] EXCEPT !.fenced = b] \in Memory
        /\ [mem[p] EXCEPT !.state = s, !.fenced = b] \in Memory
  BY <1>1 DEF Memory
<1>8. [mem[p] EXCEPT !.await = await] \in Memory
  BY <1>1 DEF Memory, DataOK
<1> QED
  BY <1>2, <1>3, <1>4, <1>5, <1>6, <1>7, <1>8

\* A task keeps the type of its control state ...
LEMMA DispatchKeepsControl ==
  ASSUME NEW p \in Tasks, TypeOK, Dispatch(p)
  PROVE  ControlOK'
<1> ControlOK /\ DataOK
  BY DEF TypeOK, ControlOK, DataOK
<1>0. mem[p] \in Memory
  BY DEF ControlOK
<1> USE MovesKeepControl DEF Labels
<1>1. CASE AckRead(p)
  BY <1>0, <1>1 DEF AckRead
<1>2. CASE AckPost(p)
  BY <1>0, <1>2 DEF AckPost, Post
<1>3. CASE AwaitReceived(p)
  BY <1>0, <1>3 DEF AwaitReceived
<1>4. CASE ReadThread(p)
  <2>1. ASSUME NEW s \in SeenTurns,
               StepWith(p, "lookup", [mem[p] EXCEPT !.turn = s])
        PROVE  ControlOK'
    BY <2>1, Remembering
  <2>2. Defer(p) => ControlOK'
    BY DEF Defer
  <2> QED
    BY <1>4, <2>1, <2>2 DEF ReadThread
<1>5. CASE Preflight(p)
  BY <1>0, <1>5 DEF Preflight, Defer
<1>6. CASE RefusePost(p)
  BY <1>0, <1>6 DEF RefusePost, Post
<1>7. CASE Refuse(p)
  BY <1>0, <1>7 DEF Refuse
<1>8. CASE RefuseAwait(p)
  BY <1>0, <1>8 DEF RefuseAwait
<1>9. CASE Check(p)
  BY <1>9, Remembering DEF Check
<1>10. CASE Reserve(p)
  BY <1>0, <1>10 DEF Reserve
<1>11. CASE Begin(p)
  BY <1>0, <1>11 DEF Begin
<1>12. CASE PublishAdmission(p)
  BY <1>0, <1>12 DEF PublishAdmission
<1>13. CASE JournalAdmission(p)
  BY <1>0, <1>13 DEF JournalAdmission
<1>14. CASE PublishIntent(p)
  BY <1>0, <1>14 DEF PublishIntent
<1>15. CASE JournalIntent(p)
  BY <1>0, <1>15 DEF JournalIntent
<1>16. CASE StartTurn(p)
  BY <1>0, <1>16 DEF StartTurn
<1>17. CASE ObserveTurn(p)
  BY <1>0, <1>17 DEF ObserveTurn
<1>18. CASE WaitAck(p)
  BY <1>18, Remembering DEF WaitAck
<1>19. CASE ConnectionLost(p)
  BY <1>0, <1>19 DEF ConnectionLost
<1> QED
  BY <1>1, <1>2, <1>3, <1>4, <1>5, <1>6, <1>7, <1>8, <1>9, <1>10, <1>11, <1>12,
     <1>13, <1>14, <1>15, <1>16, <1>17, <1>18, <1>19
     DEF Dispatch

\* ... and of everything it shares.
LEMMA PostKeepsData ==
  ASSUME DataOK, NEW p, NEW kind \in Receipts, NEW next, Post(p, kind, next)
  PROVE  DataOK'
<1>1. receipts' \in SUBSET Receipts
  BY DEF Post, DataOK
<1>2. faults' \in 0 .. MaxFaults
  BY WakeAssumption DEF Post, DataOK, Fault
<1> QED
  BY <1>1, <1>2 DEF Post, DataOK, journal, inbox, host

\* A fault counts within its bound.
LEMMA FaultKept ==
  ASSUME faults \in 0 .. MaxFaults, Fault PROVE faults' \in 0 .. MaxFaults
  BY WakeAssumption DEF Fault

\* A state change of the wake record keeps its type.
LEMMA WakeMoves ==
  ASSUME wake \in WakeRecord
  PROVE  \A state \in WakeStates : [wake EXCEPT !.state = state] \in WakeRecord
  BY DEF WakeRecord

\* So does startup's rewind of a dispatch without intent.
LEMMA WakeRewinds ==
  ASSUME wake \in WakeRecord
  PROVE  [wake EXCEPT !.state = "dispatch_deferred", !.attempt = 0,
                      !.admission = 0, !.ack = FALSE] \in WakeRecord
<1>1. 0 \in Generations
  BY WakeAssumption DEF Generations
<1>2. "dispatch_deferred" \in WakeStates
  BY DEF WakeStates
<1> QED
  BY <1>1, <1>2 DEF WakeRecord

\* So does giving a dispatch up for a later pass.
LEMMA DeferKeepsData ==
  ASSUME DataOK, NEW p, Defer(p), faults' \in 0 .. MaxFaults
  PROVE  DataOK'
<1>1. wake' \in WakeRecord
  BY WakeMoves DEF Defer, DataOK, WakeStates
<1> QED
  BY <1>1 DEF Defer, DataOK, inbox, host, service

\* Type correctness, the way out: journal, inbox, host and service.
LEMMA DispatchKeepsData ==
  ASSUME NEW p \in Tasks, TypeOK, ClaimedFirst, Dispatch(p)
  PROVE  DataOK'
<1> DataOK
  BY DEF TypeOK, DataOK
<1> USE WakeAssumption DEF DataOK, WakeRecord, Generations, journal, inbox, host,
service
<1>1. CASE AckRead(p)
  BY <1>1 DEF AckRead
<1>2. CASE AckPost(p)
  BY <1>2, PostKeepsData DEF AckPost, Receipts, WakeStates
<1>3. CASE AwaitReceived(p)
  BY <1>3 DEF AwaitReceived, AwaitStates
<1>4. CASE ReadThread(p)
  BY <1>4, DeferKeepsData, FaultKept DEF ReadThread
<1>5. CASE Preflight(p)
  BY <1>5, DeferKeepsData, FaultKept DEF Preflight
<1>6. CASE RefusePost(p)
  BY <1>6, PostKeepsData DEF RefusePost, Receipts, TerminalReceipts
<1>7. CASE Refuse(p)
  BY <1>7 DEF Refuse, WakeStates, TerminalWakeStates
<1>8. CASE RefuseAwait(p)
  BY <1>8 DEF RefuseAwait, AwaitStates
<1>9. CASE Check(p)
  BY <1>9 DEF Check
<1>10. CASE Reserve(p)
  BY <1>10 DEF Reserve
<1>11. CASE Begin(p)
  BY <1>11 DEF Begin, WakeStates
<1>12. CASE PublishAdmission(p)
  <2>1. wake.gen \in 1 .. MaxClaims
    BY <1>12 DEF PublishAdmission, ClaimedFirst
  <2> QED
    BY <1>12, <2>1 DEF PublishAdmission
<1>13. CASE JournalAdmission(p)
  BY <1>13 DEF JournalAdmission
<1>14. CASE PublishIntent(p)
  BY <1>14 DEF PublishIntent, WakeStates
<1>15. CASE JournalIntent(p)
  BY <1>15 DEF JournalIntent
<1>16. CASE StartTurn(p)
  BY <1>16 DEF StartTurn, Fault, Turns
<1>17. CASE ObserveTurn(p)
  BY <1>17 DEF ObserveTurn
<1>18. CASE WaitAck(p)
  BY <1>18 DEF WaitAck, Fault
<1>19. CASE ConnectionLost(p)
  BY <1>19 DEF ConnectionLost, WakeStates
<1> QED
  BY <1>1, <1>2, <1>3, <1>4, <1>5, <1>6, <1>7, <1>8, <1>9, <1>10, <1>11, <1>12,
     <1>13, <1>14, <1>15, <1>16, <1>17, <1>18, <1>19
     DEF Dispatch

\* Type correctness, the way back: phase, labels and memories.
LEMMA RecoverKeepsControl ==
  ASSUME NEW p \in Tasks, TypeOK, Recover(p)
  PROVE  ControlOK'
<1> ControlOK /\ DataOK
  BY DEF TypeOK, ControlOK, DataOK
<1>0. mem[p] \in Memory
  BY DEF ControlOK
<1> USE MovesKeepControl DEF Labels
<1>1. CASE ReadFence(p)
  BY <1>1, Remembering DEF ReadFence
<1>2. CASE ReadOutcome(p)
  <2>1. ASSUME NEW s \in SeenTurns,
               StepWith(p, "lookup", [mem[p] EXCEPT !.turn = s])
        PROVE  ControlOK'
    BY <2>1, Remembering
  <2> QED
    BY <1>2, <2>1 DEF ReadOutcome
<1>3. CASE LookUpSubmission(p)
  BY <1>3, Remembering DEF LookUpSubmission
<1>4. CASE Submit(p)
  BY <1>0, <1>4 DEF Submit
<1>5. CASE Confirm(p)
  BY <1>0, <1>5 DEF Confirm
<1>6. CASE JournalWoken(p)
  BY <1>0, <1>6 DEF JournalWoken
<1>7. CASE PostWoken(p)
  BY <1>0, <1>7 DEF PostWoken, Post
<1>8. CASE AwaitRunning(p)
  BY <1>0, <1>8 DEF AwaitRunning
<1>9. CASE MarkRunning(p)
  BY <1>0, <1>9 DEF MarkRunning
<1>10. CASE Finish(p)
  BY <1>10, Remembering DEF Finish
<1>11. CASE PostFinish(p)
  BY <1>0, <1>11 DEF PostFinish, Post
<1>12. CASE FinishWake(p)
  BY <1>0, <1>12 DEF FinishWake
<1>13. CASE FinishAwait(p)
  BY <1>0, <1>13 DEF FinishAwait
<1> QED
  BY <1>1, <1>2, <1>3, <1>4, <1>5, <1>6, <1>7, <1>8, <1>9, <1>10, <1>11, <1>12, <1>13
     DEF Recover

\* Type correctness, the way back: journal, inbox, host and service.
LEMMA RecoverKeepsData ==
  ASSUME NEW p \in Tasks, TypeOK, MemoryFits, IntentBinds, IntentFirst, Recover(p)
  PROVE  DataOK'
<1> DataOK
  BY DEF TypeOK, DataOK
<1>0. mem[p] \in Memory
  BY DEF TypeOK
<1> USE WakeAssumption DEF DataOK, WakeRecord, Generations, journal, inbox, host,
service
<1>1. CASE ReadFence(p)
  BY <1>0, <1>1 DEF ReadFence, WakeStates
<1>2. CASE ReadOutcome(p)
  <2> DEFINE uncertain == [wake EXCEPT !.state = "dispatch_uncertain"]
             deferred  == [wake EXCEPT !.state = "dispatch_deferred", !.attempt = 0,
                                       !.admission = 0, !.ack = FALSE]
  <2>1a. wake' \in {wake, uncertain, deferred}
    BY <1>2 DEF ReadOutcome
  <2>1b. uncertain \in WakeRecord /\ deferred \in WakeRecord
    BY WakeMoves, WakeRewinds DEF WakeStates
  <2>1. wake' \in WakeRecord
    BY <2>1a, <2>1b
  <2> QED
    BY <1>2, <2>1 DEF ReadOutcome
<1>3. CASE LookUpSubmission(p)
  BY <1>0, <1>3 DEF LookUpSubmission
<1>4. CASE Submit(p)
  <2>1. FoundAdmission = {intent}
    BY <1>4 DEF Submit, FoundAdmission, IntentBinds, IntentFirst
  <2>2. (CHOOSE g \in FoundAdmission : TRUE) \in Generations
    BY <2>1
  <2> DEFINE acked(state) ==
               [wake EXCEPT !.state = state, !.ack = TRUE,
                            !.admission = CHOOSE g \in FoundAdmission : TRUE]
  <2>3a. wake' \in {wake, acked("submitted"), acked(wake.state)}
    BY <1>4 DEF Submit
  <2>3b. \A state \in WakeStates : acked(state) \in WakeRecord
    BY <2>2
  <2>3c. {"submitted", wake.state} \subseteq WakeStates
    BY DEF WakeStates
  <2>3. wake' \in WakeRecord
    <3> HIDE DEF acked
    <3> QED BY <2>3a, <2>3b, <2>3c
  <2>4. faults' \in 0 .. MaxFaults
    BY <1>4, FaultKept DEF Submit
  <2> QED
    BY <1>4, <2>3, <2>4 DEF Submit
<1>5. CASE Confirm(p)
  BY <1>0, <1>5 DEF Confirm
<1>6. CASE JournalWoken(p)
  BY <1>0, <1>6 DEF JournalWoken, WakeStates
<1>7. CASE PostWoken(p)
  BY <1>0, <1>7, PostKeepsData DEF PostWoken, Receipts
<1>8. CASE AwaitRunning(p)
  BY <1>0, <1>8 DEF AwaitRunning, AwaitStates
<1>9. CASE MarkRunning(p)
  BY <1>0, <1>9 DEF MarkRunning, WakeStates
<1>10. CASE Finish(p)
  BY <1>0, <1>10 DEF Finish
<1>11. CASE PostFinish(p)
  BY <1>0, <1>11, PostKeepsData DEF PostFinish, MemoryFits, FinishLabels,
     TerminalTurns, Receipts, TerminalReceipts
<1>12. CASE FinishWake(p)
  BY <1>0, <1>12 DEF FinishWake, MemoryFits, FinishLabels, TerminalTurns,
     WakeStates, TerminalWakeStates
<1>13. CASE FinishAwait(p)
  BY <1>0, <1>13 DEF FinishAwait, MemoryFits, FinishLabels, TerminalTurns, AwaitStates
<1> QED
  BY <1>1, <1>2, <1>3, <1>4, <1>5, <1>6, <1>7, <1>8, <1>9, <1>10, <1>11, <1>12, <1>13
     DEF Recover

\* Type correctness: #acceptWake with a new lease.
LEMMA ClaimKeepsType ==
  ASSUME TypeOK, AcceptClaim
  PROVE  TypeOK'
<1> ControlOK /\ DataOK
  BY DEF TypeOK, ControlOK, DataOK
<1> DEFINE entry == [NoMemory EXCEPT !.queued = TRUE]
<1>1. Claimer \in Tasks
  BY DEF Claimer, Tasks
<1>2. /\ wake.gen + 1 \in Generations
      /\ wake \in WakeRecord
  BY WakeAssumption DEF AcceptClaim, DataOK, WakeRecord, Generations
<1>3. NewWake("claimed", wake.gen + 1) \in WakeRecord
  BY <1>2, WakeAssumption DEF NewWake, WakeRecord, WakeStates, Generations
<1>4. \A state \in WakeStates :
        [wake EXCEPT !.gen = wake.gen + 1, !.state = state] \in WakeRecord
  BY <1>2 DEF WakeRecord
<1>5. wake' \in WakeRecord
  BY <1>2, <1>3, <1>4 DEF AcceptClaim, WakeStates, WakeRecord, journal
<1>6. await' \in AwaitStates
  BY DEF AcceptClaim, Staged, AwaitStates, Unreceived, DataOK, journal
<1>7. DataOK'
  BY <1>5, <1>6 DEF AcceptClaim, DataOK, inbox, host, journal
<1>8. entry \in Memory
  BY NoMemoryOK DEF Memory
<1>9. /\ [entry EXCEPT !.state = wake'.state] \in Memory
      /\ [entry EXCEPT !.state = "dispatch_uncertain"] \in Memory
  BY <1>5, <1>8 DEF Memory, WakeRecord, WakeStates
<1>10. ControlOK'
  <2>1. CASE UNCHANGED control
    BY <2>1 DEF control, ControlOK
  <2>2. CASE ~UNCHANGED control
    BY <1>1, <1>8, <1>9, <2>2, MovesKeepControl DEF AcceptClaim, Labels
  <2> QED
    BY <2>1, <2>2
<1> QED
  BY <1>7, <1>10 DEF TypeOK, DataOK, ControlOK

\* Type correctness: replays, polls, faults, restarts and the environment.
LEMMA OtherKeepsType ==
  ASSUME TypeOK,
         \/ AcceptReplay \/ PollReconcile
         \/ \E p \in Tasks : Interrupted(p)
         \/ Crash \/ Restart
         \/ GuardDecide \/ GuardAck \/ HostRun \/ HostFinish \/ ChangeHistory
         \/ LapseLease
         \/ UNCHANGED vars
  PROVE  TypeOK'
<1> ControlOK /\ DataOK
  BY DEF TypeOK, ControlOK, DataOK
<1> SUFFICES DataOK' /\ ControlOK'
  BY DEF TypeOK, ControlOK, DataOK
<1>0. "poll" \in Tasks
  BY DEF Tasks
<1>a. [NoMemory EXCEPT !.state = wake.state] \in Memory
  BY NoMemoryOK DEF DataOK, WakeRecord, Memory
<1>b. [NoMemory EXCEPT !.state = wake.state, !.queued = TRUE] \in Memory
  BY NoMemoryOK DEF DataOK, WakeRecord, Memory
<1> USE DEF journal, inbox, host, service, control
<1>1. CASE AcceptReplay
  <2>1. ControlOK'
    BY <1>0, <1>b, <1>1, MovesKeepControl DEF AcceptReplay, Labels
  <2> QED
    BY <1>1, <2>1 DEF AcceptReplay, DataOK
<1>2. CASE PollReconcile
  <2>1. ControlOK'
    BY <1>0, <1>a, <1>2, MovesKeepControl DEF PollReconcile, Labels
  <2> QED
    BY <1>2, <2>1 DEF PollReconcile, DataOK
<1>3. ASSUME NEW p \in Tasks, Interrupted(p)
      PROVE  DataOK' /\ ControlOK'
  <2>1. ControlOK'
    BY <1>3, MovesKeepControl DEF Interrupted
  <2>2. faults' \in 0 .. MaxFaults
    BY <1>3, FaultKept DEF Interrupted, DataOK
  <2> QED
    BY <1>3, <2>1, <2>2 DEF Interrupted, DataOK
<1>4. CASE Crash
  <2>1. ControlOK'
    BY <1>4, NoMemoryOK DEF Crash, ControlOK, Labels
  <2>2. faults' \in 0 .. MaxFaults
    BY <1>4, FaultKept DEF Crash, DataOK
  <2> QED
    BY <1>4, <2>1, <2>2 DEF Crash, DataOK
<1>5. CASE Restart
  <2>1. "fence" \in Labels
    BY DEF Labels
  <2>2. ControlOK'
    BY <1>0, <1>a, <1>5, <2>1 DEF Restart, ControlOK, Goto
  <2> QED
    BY <1>5, <2>2 DEF Restart, DataOK
<1>6. CASE GuardDecide
  BY <1>6 DEF GuardDecide, DataOK, ControlOK
<1>7. CASE GuardAck
  BY <1>7 DEF GuardAck, DataOK, ControlOK
<1>8. CASE HostRun
  BY <1>8 DEF HostRun, DataOK, ControlOK, Turns, StartedTurns
<1>9. CASE HostFinish
  BY <1>9 DEF HostFinish, DataOK, ControlOK, Turns, StartedTurns
<1>10. CASE ChangeHistory
  BY <1>10 DEF ChangeHistory, DataOK, ControlOK
<1>11. CASE LapseLease
  BY <1>11, FaultKept DEF LapseLease, DataOK, ControlOK
<1>12. CASE UNCHANGED vars
  BY <1>12 DEF vars, DataOK, ControlOK
<1> QED
  BY <1>1, <1>2, <1>3, <1>4, <1>5, <1>6, <1>7, <1>8, <1>9, <1>10, <1>11, <1>12

-----------------------------------------------------------------------------
\* Whichever way a task ends its operation, it is idle and startup does not
\* begin.
Leaves(p) ==
  Goto(p, "idle", NoMemory) /\ (phase' = "recovering" => phase = "recovering")

\* Every way to end an operation leaves the wake to others.
LEMMA EndsLeave ==
  ASSUME NEW p
  PROVE  Done(p) \/ Fatal(p) \/ Transient(p) => Leaves(p)
  BY DEF Done, Fatal, Transient, Leaves

\* The dispatch protocol survives #acknowledgeAndDispatch and #dispatchWake:
\* begin finds no other dispatcher because no intent exists, and the intent is
\* published under the admission of the current lease.
LEMMA DispatchKeepsProtocol ==
  ASSUME NEW p \in Tasks, TypeOK, Protocol, Dispatch(p)
  PROVE  Protocol'
<1> /\ pc \in [Tasks -> Labels] /\ mem \in [Tasks -> Memory] /\ wake \in WakeRecord
  BY DEF TypeOK
<1> USE EndsLeave DEF Protocol, TasksAlone, ClaimedFirst, MemoryFits, OneDispatcher,
       DispatchPrepared, IntentBinds, IntentFirst, OneHostCall, FenceRead,
       Begun, HostCallLabels, FinishLabels, TerminalWakeStates, Undispatched,
       Goto, Step, StepWith, Leaves, journal, inbox, host, service, WakeRecord,
       Memory, NoMemory, Tasks
<1>1. CASE AckRead(p)
  BY <1>1, SMTT(20) DEF AckRead
<1>2. CASE AckPost(p)
  BY <1>2, SMTT(20) DEF AckPost, Post
<1>3. CASE AwaitReceived(p)
  BY <1>3, SMTT(20) DEF AwaitReceived
<1>4. CASE ReadThread(p)
  BY <1>4, SMTT(20) DEF ReadThread, Defer
<1>5. CASE Preflight(p)
  BY <1>5, SMTT(20) DEF Preflight, Defer
<1>6. CASE RefusePost(p)
  BY <1>6, SMTT(20) DEF RefusePost, Post
<1>7. CASE Refuse(p)
  BY <1>7, SMTT(20) DEF Refuse
<1>8. CASE RefuseAwait(p)
  BY <1>8, SMTT(20) DEF RefuseAwait
<1>9. CASE Check(p)
  BY <1>9, SMTT(20) DEF Check
<1>10. CASE Reserve(p)
  BY <1>10, SMTT(20) DEF Reserve
<1>11. CASE Begin(p)
  <2>1. CASE wake.state = mem[p].state
    <3>1. wake.state \in Undispatched
      BY <1>11, <2>1 DEF Begin
    <3>2. intent = 0 /\ \A q \in Tasks : pc[q] \notin HostCallLabels
      BY <3>1
    <3>3. /\ wake'.state = "dispatching" /\ wake'.attempt = wake.gen
          /\ wake'.gen = wake.gen
      BY <1>11, <2>1 DEF Begin
    <3>4. /\ pc' = [pc EXCEPT ![p] = "admit"] /\ mem' = mem
          /\ UNCHANGED <<phase, admissions, intent, acks, calls, guard>>
      BY <1>11, <2>1 DEF Begin
    <3>5. IntentBinds' /\ IntentFirst' /\ OneHostCall'
      BY <3>2, <3>4
    <3>6. OneDispatcher' /\ DispatchPrepared'
      BY <3>2, <3>3, <3>4
    <3> QED
      BY <1>11, <3>3, <3>4, <3>5, <3>6 DEF Begin
  <2>2. CASE wake.state # mem[p].state
    BY <1>11, <2>2 DEF Begin
  <2> QED
    BY <2>1, <2>2
<1>12. CASE PublishAdmission(p)
  BY <1>12, SMTT(20) DEF PublishAdmission
<1>13. CASE JournalAdmission(p)
  BY <1>13, SMTT(20) DEF JournalAdmission
<1>14. CASE PublishIntent(p)
  <2>1. CASE intent = 0
    <3>1. /\ pc[p] = "intent" /\ wake.admission = wake.gen
          /\ wake.attempt = wake.gen /\ wake.gen \in admissions
          /\ wake.gen # 0 /\ wake.state \in Begun
      BY <1>14 DEF PublishIntent
    <3>2. /\ intent' = wake.gen /\ pc' = [pc EXCEPT ![p] = "intentJournal"]
          /\ UNCHANGED <<wake, admissions, acks, calls, guard, phase>>
          /\ mem' = mem
      BY <1>14, <2>1, <3>1, SMTT(20) DEF PublishIntent
    <3>3. calls = 0 /\ acks = {} /\ guard # "admit"
      BY <2>1, SMTT(20) DEF TypeOK
    <3>4. \A q \in Tasks : pc[q] \in {"intentJournal", "start"} => FALSE
      BY <2>1
    <3>5. IntentBinds'
      <4>1. wake.gen <= wake.gen
        BY WakeAssumption DEF Generations
      <4> QED
        BY <3>1, <3>2, <4>1, SMTT(20)
    <3>6. IntentFirst' /\ OneHostCall'
      BY <3>1, <3>2, <3>3, SMTT(20)
    <3>7. OneDispatcher' /\ DispatchPrepared'
      BY <3>1, <3>2, SMTT(20)
    <3>8. TasksAlone' /\ ClaimedFirst' /\ MemoryFits' /\ FenceRead'
      BY <3>1, <3>2, SMTT(20)
    <3> QED
      BY <3>5, <3>6, <3>7, <3>8
  <2>2. CASE intent # 0 /\ wake.state = "dispatching"
    BY <1>14, <2>2 DEF PublishIntent
  <2>3. CASE intent # 0 /\ wake.state # "dispatching"
    BY <1>14, <2>3 DEF PublishIntent
  <2> QED
    BY <2>1, <2>2, <2>3
<1>15. CASE JournalIntent(p)
  BY <1>15, SMTT(20) DEF JournalIntent
<1>16. CASE StartTurn(p)
  BY <1>16, SMTT(20) DEF StartTurn
<1>17. CASE ObserveTurn(p)
  BY <1>17, SMTT(20) DEF ObserveTurn
<1>18. CASE WaitAck(p)
  BY <1>18, SMTT(20) DEF WaitAck
<1>19. CASE ConnectionLost(p)
  BY <1>19, SMTT(20) DEF ConnectionLost
<1> QED
  BY <1>1, <1>2, <1>3, <1>4, <1>5, <1>6, <1>7, <1>8, <1>9, <1>10, <1>11, <1>12,
     <1>13, <1>14, <1>15, <1>16, <1>17, <1>18, <1>19
     DEF Dispatch

\* It survives #recoverWake: startup rewinds only without an intent and alone,
\* and a recorded submission names the admission of the intent.
LEMMA RecoverKeepsProtocol ==
  ASSUME NEW p \in Tasks, TypeOK, Protocol, Recover(p)
  PROVE  Protocol'
<1> /\ pc \in [Tasks -> Labels] /\ mem \in [Tasks -> Memory] /\ wake \in WakeRecord
  BY DEF TypeOK
<1> USE EndsLeave DEF Protocol, TasksAlone, ClaimedFirst, MemoryFits, OneDispatcher,
       DispatchPrepared, IntentBinds, IntentFirst, OneHostCall, FenceRead,
       Begun, HostCallLabels, FinishLabels, TerminalWakeStates, Undispatched,
       Goto, Step, StepWith, Leaves, journal, inbox, host, service, WakeRecord,
       Memory, NoMemory, Tasks
<1>1. CASE ReadFence(p)
  <2>1. CASE intent # 0 /\ mem[p].state \in Undispatched
    BY <1>1, <2>1, SMTT(20) DEF ReadFence
  <2>2. CASE ~(intent # 0 /\ mem[p].state \in Undispatched)
    <3>1. CASE mem[p].state = "claimed"
      BY <1>1, <2>2, <3>1, SMTT(20) DEF ReadFence
    <3>2. CASE mem[p].state = "dispatch_deferred"
      BY <1>1, <2>2, <3>2, SMTT(20) DEF ReadFence
    <3>3. CASE mem[p].state \notin Undispatched
      <4>1. /\ StepWith(p, "read", [mem[p] EXCEPT !.fenced = intent # 0])
            /\ pc[p] = "fence"
            /\ UNCHANGED <<wake, intent, admissions, acks, calls, guard>>
        BY <1>1, <2>2, <3>3, SMTT(20) DEF ReadFence
      <4>2. /\ pc' = [pc EXCEPT ![p] = "read"] /\ phase' = phase
            /\ mem' = [mem EXCEPT ![p] = [mem[p] EXCEPT !.fenced = intent # 0]]
        BY <4>1
      <4>3. mem'[p].fenced = (intent # 0)
        <5>1. mem[p] \in Memory /\ mem'[p] = [mem[p] EXCEPT !.fenced = intent # 0]
          BY <4>2
        <5> QED
          BY <5>1
      <4>4. FenceRead'
        <5>1. CASE p = "poll"
          BY <4>1, <4>3, <5>1
        <5>2. CASE p = "claim"
          BY <4>1, <4>2, <5>2
        <5> QED
          BY <5>1, <5>2
      <4>5. MemoryFits' /\ ClaimedFirst' /\ TasksAlone'
        BY <4>1, <4>2, SMTT(20)
      <4>6. /\ OneDispatcher' /\ DispatchPrepared'
            /\ IntentBinds' /\ IntentFirst' /\ OneHostCall'
        BY <4>1, <4>2, SMTT(20)
      <4> QED
        BY <4>4, <4>5, <4>6
    <3> QED
      BY <3>1, <3>2, <3>3
  <2> QED
    BY <2>1, <2>2
<1>2. CASE ReadOutcome(p)
  <2>1. ASSUME NEW seen,
               StepWith(p, "lookup", [mem[p] EXCEPT !.turn = seen]), UNCHANGED wake
        PROVE  Protocol'
    BY <1>2, <2>1, SMTT(20) DEF ReadOutcome
  <2>2. CASE /\ Startup /\ ~mem[p].fenced
             /\ wake' = [wake EXCEPT !.state = "dispatch_deferred", !.attempt = 0,
                                     !.admission = 0, !.ack = FALSE]
             /\ Step(p, "thread")
    <3>1. p = "poll" /\ pc["claim"] = "idle" /\ pc[p] = "read"
      BY <1>2, <2>2, SMTT(20) DEF ReadOutcome, Startup
    <3>2. intent = 0 /\ wake.gen # 0
      BY <2>2, <3>1 DEF Startup
    <3>3. /\ wake'.gen = wake.gen /\ pc' = [pc EXCEPT ![p] = "thread"]
          /\ mem' = mem
          /\ UNCHANGED <<intent, admissions, acks, calls, guard, phase>>
      BY <1>2, <2>2, SMTT(20) DEF ReadOutcome
    <3> QED
      BY <3>1, <3>2, <3>3, SMTT(20)
  <2>3. CASE UNCHANGED wake /\ Done(p)
    BY <1>2, <2>3, SMTT(20) DEF ReadOutcome
  <2>4. CASE UNCHANGED wake /\ Fatal(p)
    BY <1>2, <2>4, SMTT(20) DEF ReadOutcome
  <2>5. CASE /\ wake' = [wake EXCEPT !.state = "dispatch_uncertain"] /\ Done(p)
    BY <1>2, <2>5, SMTT(20) DEF ReadOutcome
  <2> QED
    BY <1>2, <2>1, <2>2, <2>3, <2>4, <2>5 DEF ReadOutcome
<1>3. CASE LookUpSubmission(p)
  BY <1>3, SMTT(20) DEF LookUpSubmission, FoundAdmission
<1>4. CASE Submit(p)
  <2>1. /\ intent # 0 /\ wake.admission = intent /\ wake.state \in Begun
        /\ FoundAdmission = {intent}
    BY <1>4 DEF Submit, FoundAdmission
  <2>2. (CHOOSE g \in FoundAdmission : TRUE) = intent
    BY <2>1
  <2>3. /\ wake'.state \in Begun /\ wake'.gen = wake.gen
        /\ wake'.attempt = wake.attempt /\ wake'.admission = intent
    <3> DEFINE choice == CHOOSE g \in FoundAdmission : TRUE
               chosen(state) == [wake EXCEPT !.state = state, !.ack = TRUE,
                                             !.admission = choice]
               sub(state) == [wake EXCEPT !.state = state, !.ack = TRUE,
                                          !.admission = intent]
    <3>0. \/ wake' = wake
          \/ wake' = chosen("submitted")
          \/ wake' = chosen(wake.state)
      BY <1>4, Zenon DEF Submit
    <3>1. wake' \in {wake, sub("submitted"), sub(wake.state)}
      BY <2>2, <3>0
    <3>2. \A state : /\ sub(state).state = state /\ sub(state).gen = wake.gen
                     /\ sub(state).attempt = wake.attempt
                     /\ sub(state).admission = intent
      OBVIOUS
    <3> QED
      BY <2>1, <3>1, <3>2
  <2>4. UNCHANGED <<intent, admissions, acks, calls, guard>>
    BY <1>4 DEF Submit
  <2>5. Step(p, "confirm") \/ Step(p, "lost") \/ Leaves(p)
    BY <1>4 DEF Submit
  <2>6. pc[p] = "submit"
    BY <1>4 DEF Submit
  <2> QED
    BY <2>1, <2>3, <2>4, <2>5, <2>6, SMTT(20)
<1>5. CASE Confirm(p)
  BY <1>5, SMTT(20) DEF Confirm
<1>6. CASE JournalWoken(p)
  BY <1>6, SMTT(20) DEF JournalWoken
<1>7. CASE PostWoken(p)
  BY <1>7, SMTT(20) DEF PostWoken, Post
<1>8. CASE AwaitRunning(p)
  BY <1>8, SMTT(20) DEF AwaitRunning
<1>9. CASE MarkRunning(p)
  BY <1>9, SMTT(20) DEF MarkRunning
<1>10. CASE Finish(p)
  BY <1>10, SMTT(20) DEF Finish
<1>11. CASE PostFinish(p)
  BY <1>11, SMTT(20) DEF PostFinish, Post
<1>12. CASE FinishWake(p)
  BY <1>12, SMTT(20) DEF FinishWake, Finishable, TerminalTurns
<1>13. CASE FinishAwait(p)
  BY <1>13, SMTT(20) DEF FinishAwait
<1> QED
  BY <1>1, <1>2, <1>3, <1>4, <1>5, <1>6, <1>7, <1>8, <1>9, <1>10, <1>11, <1>12, <1>13
     DEF Recover

\* It survives a new lease: with an intent on disk, a claim keeps what the
\* journal knows; without one, nobody is on the way to the host call.
LEMMA ClaimKeepsProtocol ==
  ASSUME TypeOK, Protocol, AcceptClaim
  PROVE  Protocol'
<1> /\ pc \in [Tasks -> Labels] /\ mem \in [Tasks -> Memory] /\ wake \in WakeRecord
  BY DEF TypeOK
<1> USE EndsLeave DEF Protocol, TasksAlone, ClaimedFirst, MemoryFits, OneDispatcher,
       DispatchPrepared, IntentBinds, IntentFirst, OneHostCall, FenceRead,
       Begun, HostCallLabels, FinishLabels, TerminalWakeStates, Undispatched,
       Goto, Step, StepWith, Leaves, journal, inbox, host, service, WakeRecord,
       Memory, NoMemory, Tasks
<1>1. /\ Claimer \in Tasks /\ pc[Claimer] = "idle"
      /\ phase = "up" /\ wake.gen + 1 # 0
  BY SMTT(20) DEF AcceptClaim, Offered, Claimer, Generations
<1>2. \A q \in Tasks : pc[q] \in HostCallLabels => FALSE
  BY <1>1, SMTT(20) DEF AcceptClaim, Offered, Claimer
<1> DEFINE keep(state) == [wake EXCEPT !.gen = wake.gen + 1, !.state = state]
<1>3. /\ \/ intent = 0 /\ wake' = NewWake("claimed", wake.gen + 1)
         \/ intent = 0 /\ wake' = keep(wake.state)
         \/ wake' = keep("dispatch_uncertain")
         \/ wake' = wake /\ Fatal(Claimer)
      /\ UNCHANGED <<intent, admissions, acks, calls, guard>>
  <2>1. UNCHANGED <<intent, admissions, acks, calls, guard>>
    BY DEF AcceptClaim
  <2>2. \/ intent = 0 /\ wake' = NewWake("claimed", wake.gen + 1)
        \/ intent = 0 /\ wake' = keep(IF wake.state \in {"absent", "needs_reclaim"}
                                      THEN "dispatch_uncertain" ELSE wake.state)
        \/ wake' = keep("dispatch_uncertain")
        \/ wake' = wake /\ Fatal(Claimer)
    BY Zenon DEF AcceptClaim
  <2> QED
    BY <2>1, <2>2
<1>4. \A state : /\ keep(state).gen = wake.gen + 1 /\ keep(state).state = state
                 /\ keep(state).attempt = wake.attempt
                 /\ keep(state).admission = wake.admission
  OBVIOUS
<1> HIDE DEF keep
<1>5. /\ wake'.gen = wake.gen + 1 \/ (wake' = wake /\ Fatal(Claimer))
      /\ UNCHANGED <<intent, admissions, acks, calls, guard>>
  BY <1>3, <1>4 DEF NewWake
<1>6. \/ Leaves(Claimer) \/ (pc' = pc /\ mem' = mem /\ phase' = phase)
      \/ \E l \in {"ackRead", "fence"} : \E m : Goto(Claimer, l, m) /\ phase' = phase
  BY SMTT(20) DEF AcceptClaim, control
<1>7. intent # 0 => /\ wake'.state \in Begun /\ wake'.attempt = wake.attempt
                    /\ wake'.admission = wake.admission /\ wake'.gen >= wake.gen
  BY <1>3, <1>4, WakeAssumption, SMTT(20) DEF Generations
<1>8. IntentBinds'
  BY <1>5, <1>7, SMTT(20) DEF TypeOK, Generations
<1>9. IntentFirst' /\ OneHostCall'
  BY <1>1, <1>5, <1>6, SMTT(20)
<1>10. OneDispatcher' /\ DispatchPrepared'
  BY <1>1, <1>2, <1>6, SMTT(20)
<1>11. TasksAlone' /\ ClaimedFirst' /\ MemoryFits' /\ FenceRead'
  BY <1>1, <1>5, <1>6, SMTT(20) DEF Claimer
<1> QED
  BY <1>8, <1>9, <1>10, <1>11

\* It survives replays, polls, faults, restarts, the guard and the host.
LEMMA OtherKeepsProtocol ==
  ASSUME TypeOK, Protocol,
         \/ AcceptReplay \/ PollReconcile
         \/ \E p \in Tasks : Interrupted(p)
         \/ Crash \/ Restart
         \/ GuardDecide \/ GuardAck \/ HostRun \/ HostFinish \/ ChangeHistory
         \/ LapseLease
         \/ UNCHANGED vars
  PROVE  Protocol'
<1> /\ pc \in [Tasks -> Labels] /\ mem \in [Tasks -> Memory] /\ wake \in WakeRecord
  BY DEF TypeOK
<1> USE EndsLeave DEF Protocol, TasksAlone, ClaimedFirst, MemoryFits, OneDispatcher,
       DispatchPrepared, IntentBinds, IntentFirst, OneHostCall, FenceRead,
       Begun, HostCallLabels, FinishLabels, TerminalWakeStates, Undispatched,
       Goto, Step, StepWith, Leaves, journal, inbox, host, service, control, Tasks
<1>1. CASE AcceptReplay
  BY <1>1 DEF AcceptReplay, Recoverable, Offered, Claimer
<1>2. CASE PollReconcile
  BY <1>2 DEF PollReconcile, Recoverable
<1>3. CASE Crash
  BY <1>3 DEF Crash
<1>4. CASE Restart
  BY <1>4 DEF Restart, Recoverable
<1>5. CASE GuardDecide
  BY <1>5 DEF GuardDecide
<1>6. CASE GuardAck
  BY <1>6 DEF GuardAck
<1>7. CASE HostRun
  BY <1>7 DEF HostRun
<1>8. CASE HostFinish
  BY <1>8 DEF HostFinish
<1>9. CASE ChangeHistory
  BY <1>9 DEF ChangeHistory
<1>10. CASE LapseLease
  BY <1>10 DEF LapseLease
<1>11. ASSUME NEW p \in Tasks, Interrupted(p)
       PROVE  Protocol'
  BY <1>11 DEF Interrupted
<1>12. CASE UNCHANGED vars
  BY <1>12 DEF vars
<1> QED
  BY <1>1, <1>2, <1>3, <1>4, <1>5, <1>6, <1>7, <1>8, <1>9, <1>10, <1>11, <1>12

-----------------------------------------------------------------------------
\* The way out reports nothing of the turn that is not so.
LEMMA DispatchKeepsReported ==
  ASSUME NEW p \in Tasks, TypeOK, Protocol, Reported, Dispatch(p)
  PROVE  Reported'
<1> /\ pc \in [Tasks -> Labels] /\ mem \in [Tasks -> Memory] /\ wake \in WakeRecord
  BY DEF TypeOK
<1> USE EndsLeave DEF Reported, ReportedLabels, FinishLabels, Goto, Step, StepWith,
       Leaves, journal, inbox, host, service, WakeRecord, Memory, NoMemory, Tasks
<1>1. CASE AckRead(p)
  BY <1>1, SMTT(20) DEF AckRead
<1>2. CASE AckPost(p)
  BY <1>2, SMTT(20) DEF AckPost, Post
<1>3. CASE AwaitReceived(p)
  BY <1>3, SMTT(20) DEF AwaitReceived
<1>4. CASE ReadThread(p)
  BY <1>4, SMTT(20) DEF ReadThread, Defer
<1>5. CASE Preflight(p)
  BY <1>5, SMTT(20) DEF Preflight, Defer
<1>6. CASE RefusePost(p)
  BY <1>6, SMTT(20) DEF RefusePost, Post
<1>7. CASE Refuse(p)
  BY <1>7, SMTT(20) DEF Refuse
<1>8. CASE RefuseAwait(p)
  BY <1>8, SMTT(20) DEF RefuseAwait
<1>9. CASE Check(p)
  BY <1>9, SMTT(20) DEF Check
<1>10. CASE Reserve(p)
  BY <1>10, SMTT(20) DEF Reserve
<1>11. CASE Begin(p)
  <2>1. CASE wake.state = mem[p].state
    <3>1. /\ wake'.state = "dispatching"
          /\ wake'.ack = wake.ack /\ wake'.woken = wake.woken
      <4>1. wake' = [wake EXCEPT !.state = "dispatching", !.attempt = wake.gen]
        BY <1>11, <2>1 DEF Begin
      <4> HIDE DEF Reported
      <4> QED
        BY <4>1
    <3>2. /\ pc' = [pc EXCEPT ![p] = "admit"] /\ mem' = mem
          /\ UNCHANGED <<intent, acks, turn, receipts>>
      BY <1>11, <2>1 DEF Begin
    <3> QED
      BY <3>1, <3>2
  <2>2. CASE wake.state # mem[p].state
    BY <1>11, <2>2 DEF Begin
  <2> QED
    BY <2>1, <2>2
<1>12. CASE PublishAdmission(p)
  BY <1>12, SMTT(20) DEF PublishAdmission
<1>13. CASE JournalAdmission(p)
  BY <1>13, SMTT(20) DEF JournalAdmission
<1>14. CASE PublishIntent(p)
  BY <1>14, SMTT(20) DEF PublishIntent, Protocol, IntentFirst
<1>15. CASE JournalIntent(p)
  BY <1>15, SMTT(20) DEF JournalIntent
<1>16. CASE StartTurn(p)
  BY <1>16, SMTT(20) DEF StartTurn
<1>17. CASE ObserveTurn(p)
  BY <1>17, SMTT(20) DEF ObserveTurn
<1>18. CASE WaitAck(p)
  BY <1>18, SMTT(20) DEF WaitAck
<1>19. CASE ConnectionLost(p)
  BY <1>19, SMTT(20) DEF ConnectionLost
<1> QED
  BY <1>1, <1>2, <1>3, <1>4, <1>5, <1>6, <1>7, <1>8, <1>9, <1>10, <1>11, <1>12,
     <1>13, <1>14, <1>15, <1>16, <1>17, <1>18, <1>19
     DEF Dispatch

\* Recovery goes from an acknowledged admission to woken, and from woken to
\* completed, with the receipt of each posted before the next.
LEMMA RecoverKeepsReported ==
  ASSUME NEW p \in Tasks, TypeOK, Protocol, Reported, Recover(p)
  PROVE  Reported'
<1> /\ pc \in [Tasks -> Labels] /\ mem \in [Tasks -> Memory] /\ wake \in WakeRecord
  BY DEF TypeOK
<1> USE EndsLeave DEF Reported, ReportedLabels, FinishLabels, Goto, Step, StepWith,
       Leaves, journal, inbox, host, service, WakeRecord, Memory, NoMemory, Tasks
<1>1. CASE ReadFence(p)
  BY <1>1, SMTT(20) DEF ReadFence
<1>2. CASE ReadOutcome(p)
  <2>0. UNCHANGED <<intent, acks, turn, receipts>>
    BY <1>2 DEF ReadOutcome
  <2>1. ASSUME NEW seen,
               StepWith(p, "lookup", [mem[p] EXCEPT !.turn = seen]), UNCHANGED wake
        PROVE  Reported'
    BY <2>0, <2>1, SMTT(20)
  <2>2. CASE /\ wake' = [wake EXCEPT !.state = "dispatch_deferred", !.attempt = 0,
                                     !.admission = 0, !.ack = FALSE]
             /\ Step(p, "thread")
    <3>1. wake'.state = "dispatch_deferred" /\ wake'.ack = FALSE /\ wake'.woken = wake.woken
      BY <2>2
    <3>2. pc' = [pc EXCEPT ![p] = "thread"] /\ mem' = mem
      BY <2>2
    <3> QED
      BY <2>0, <3>1, <3>2
  <2>3. CASE UNCHANGED wake /\ Leaves(p)
    BY <2>0, <2>3, SMTT(20)
  <2>4. CASE /\ wake' = [wake EXCEPT !.state = "dispatch_uncertain"] /\ Leaves(p)
    BY <2>0, <2>4, SMTT(20)
  <2> QED
    BY <1>2, <2>1, <2>2, <2>3, <2>4 DEF ReadOutcome
<1>3. CASE LookUpSubmission(p)
  BY <1>3, SMTT(20) DEF LookUpSubmission, FoundAdmission, Protocol, IntentFirst,
     IntentBinds
<1>4. CASE Submit(p)
  <2>1. pc[p] = "submit" /\ intent \in acks
    BY <1>4 DEF Submit
  <2>2. UNCHANGED <<intent, acks, turn, receipts>>
    BY <1>4 DEF Submit
  <2>3. Step(p, "confirm") \/ Step(p, "lost") \/ Leaves(p)
    BY <1>4 DEF Submit
  <2>4. wake'.woken = wake.woken /\ (wake'.state = "completed" => wake.state = "completed")
    <3> DEFINE choice == CHOOSE g \in FoundAdmission : TRUE
               chosen(state) == [wake EXCEPT !.state = state, !.ack = TRUE,
                                             !.admission = choice]
    <3>1. \/ wake' = wake
          \/ wake' = chosen("submitted")
          \/ wake' = chosen(wake.state)
      BY <1>4, Zenon DEF Submit
    <3>2. \A state : chosen(state).state = state /\ chosen(state).woken = wake.woken
      BY Zenon
    <3> QED
      BY <3>1, <3>2
  <2> QED
    BY <2>1, <2>2, <2>3, <2>4
<1>5. CASE Confirm(p)
  BY <1>5, SMTT(20) DEF Confirm, Proved
<1>6. CASE JournalWoken(p)
  BY <1>6, SMTT(20) DEF JournalWoken
<1>7. CASE PostWoken(p)
  BY <1>7, SMTT(20) DEF PostWoken, Post
<1>8. CASE AwaitRunning(p)
  BY <1>8, SMTT(20) DEF AwaitRunning
<1>9. CASE MarkRunning(p)
  BY <1>9, SMTT(20) DEF MarkRunning
<1>10. CASE Finish(p)
  BY <1>10, SMTT(20) DEF Finish
<1>11. CASE PostFinish(p)
  BY <1>11, SMTT(20) DEF PostFinish, Post
<1>12. CASE FinishWake(p)
  BY <1>12, SMTT(20) DEF FinishWake, Finishable, TerminalTurns, Protocol, MemoryFits
<1>13. CASE FinishAwait(p)
  BY <1>13, SMTT(20) DEF FinishAwait
<1> QED
  BY <1>1, <1>2, <1>3, <1>4, <1>5, <1>6, <1>7, <1>8, <1>9, <1>10, <1>11, <1>12, <1>13
     DEF Recover

\* A fresh start of the wake discards a record that had reported nothing.
LEMMA ClaimKeepsReported ==
  ASSUME TypeOK, Protocol, Reported, AcceptClaim
  PROVE  Reported'
<1> /\ pc \in [Tasks -> Labels] /\ mem \in [Tasks -> Memory] /\ wake \in WakeRecord
  BY DEF TypeOK
<1> USE EndsLeave DEF Reported, ReportedLabels, FinishLabels, Goto, Step, StepWith,
       Leaves, journal, inbox, host, service, WakeRecord, Memory, NoMemory, Tasks
<1>1. UNCHANGED <<intent, acks, turn, receipts>>
  BY DEF AcceptClaim
<1> DEFINE keep(state) == [wake EXCEPT !.gen = wake.gen + 1, !.state = state]
<1>2. \/ intent = 0 /\ wake' = NewWake("claimed", wake.gen + 1)
      \/ wake' = keep("dispatch_uncertain")
      \/ wake' = keep(wake.state)
      \/ wake' = wake
  <2>1. \/ intent = 0 /\ wake' = NewWake("claimed", wake.gen + 1)
        \/ wake' = keep(IF wake.state \in {"absent", "needs_reclaim"}
                        THEN "dispatch_uncertain" ELSE wake.state)
        \/ wake' = keep("dispatch_uncertain")
        \/ wake' = wake
    BY Zenon DEF AcceptClaim
  <2> QED
    BY <2>1
<1>3. \A state : /\ keep(state).state = state
                 /\ keep(state).ack = wake.ack /\ keep(state).woken = wake.woken
  OBVIOUS
<1> HIDE DEF keep
<1>4. \/ Leaves(Claimer) \/ (pc' = pc /\ mem' = mem)
      \/ \E l \in {"ackRead", "fence"} : \E m : Goto(Claimer, l, m)
  BY SMTT(20) DEF AcceptClaim, control
<1>5. 0 \notin acks /\ Claimer \in Tasks
  BY DEF Protocol, IntentFirst, Claimer
<1>6. \/ /\ intent = 0 /\ wake'.state = "claimed"
         /\ ~wake'.ack /\ ~wake'.woken
      \/ /\ wake'.state \in {wake.state, "dispatch_uncertain"}
         /\ wake'.ack = wake.ack /\ wake'.woken = wake.woken
  BY <1>2, <1>3 DEF NewWake
<1>7. CASE intent = 0 /\ wake'.state = "claimed" /\ ~wake'.ack /\ ~wake'.woken
  <2>1. /\ ~wake.woken
        /\ \A q \in Tasks :
             pc[q] \notin {"submit", "woken", "wokenPost"} \cup ReportedLabels
    BY <1>5, <1>7
  <2> QED
    BY <1>1, <1>4, <1>5, <1>7, <2>1
<1>8. CASE /\ wake'.state \in {wake.state, "dispatch_uncertain"}
           /\ wake'.ack = wake.ack /\ wake'.woken = wake.woken
  BY <1>1, <1>4, <1>5, <1>8
<1> QED
  BY <1>6, <1>7, <1>8

\* The guard, the host and every failure leave the reports true.
LEMMA OtherKeepsReported ==
  ASSUME TypeOK, Protocol, Reported,
         \/ AcceptReplay \/ PollReconcile
         \/ \E p \in Tasks : Interrupted(p)
         \/ Crash \/ Restart
         \/ GuardDecide \/ GuardAck \/ HostRun \/ HostFinish \/ ChangeHistory
         \/ LapseLease
         \/ UNCHANGED vars
  PROVE  Reported'
<1> /\ pc \in [Tasks -> Labels] /\ mem \in [Tasks -> Memory] /\ wake \in WakeRecord
  BY DEF TypeOK
<1> USE EndsLeave DEF Reported, ReportedLabels, FinishLabels, Goto, Step, StepWith,
       Leaves, journal, inbox, host, service, control, Tasks
<1>1. CASE AcceptReplay
  BY <1>1 DEF AcceptReplay
<1>2. CASE PollReconcile
  BY <1>2 DEF PollReconcile
<1>3. CASE Crash
  BY <1>3 DEF Crash
<1>4. CASE Restart
  BY <1>4 DEF Restart
<1>5. CASE GuardDecide
  BY <1>5 DEF GuardDecide
<1>6. CASE GuardAck
  BY <1>6 DEF GuardAck
<1>7. CASE HostRun
  BY <1>7 DEF HostRun
<1>8. CASE HostFinish
  BY <1>8 DEF HostFinish
<1>9. CASE ChangeHistory
  BY <1>9 DEF ChangeHistory
<1>10. CASE LapseLease
  BY <1>10 DEF LapseLease
<1>11. ASSUME NEW p \in Tasks, Interrupted(p)
       PROVE  Reported'
  BY <1>11 DEF Interrupted
<1>12. CASE UNCHANGED vars
  BY <1>12 DEF vars
<1> QED
  BY <1>1, <1>2, <1>3, <1>4, <1>5, <1>6, <1>7, <1>8, <1>9, <1>10, <1>11, <1>12

-----------------------------------------------------------------------------
\* The inductive invariant of one wake: types, the dispatch protocol from the
\* journal's dispatching mark to the host call (supervisor.mjs #dispatchWake),
\* and the truth of what the journal and the tasks record about the turn.
THEOREM WakeInvHolds == Spec => []WakeInv
<1>1. WakeInv /\ [Next]_vars => WakeInv'
  <2> SUFFICES ASSUME WakeInv, [Next]_vars PROVE WakeInv'
    OBVIOUS
  <2> TypeOK /\ Protocol /\ Reported /\ ClaimedFirst /\ MemoryFits /\ IntentBinds
      /\ IntentFirst
    BY DEF WakeInv, Protocol
  <2>1. ASSUME NEW p \in Tasks, Dispatch(p) PROVE WakeInv'
    <3>1. TypeOK'
      BY <2>1, DispatchKeepsControl, DispatchKeepsData
         DEF TypeOK, ControlOK, DataOK
    <3> QED
      BY <2>1, <3>1, DispatchKeepsProtocol, DispatchKeepsReported DEF WakeInv
  <2>2. ASSUME NEW p \in Tasks, Recover(p) PROVE WakeInv'
    <3>1. TypeOK'
      BY <2>2, RecoverKeepsControl, RecoverKeepsData
         DEF TypeOK, ControlOK, DataOK
    <3> QED
      BY <2>2, <3>1, RecoverKeepsProtocol, RecoverKeepsReported DEF WakeInv
  <2>3. CASE AcceptClaim
    BY <2>3, ClaimKeepsType, ClaimKeepsProtocol, ClaimKeepsReported DEF WakeInv
  <2>4. CASE \/ AcceptReplay \/ PollReconcile
             \/ \E p \in Tasks : Interrupted(p)
             \/ Crash \/ Restart
             \/ GuardDecide \/ GuardAck \/ HostRun \/ HostFinish \/ ChangeHistory
             \/ LapseLease
             \/ UNCHANGED vars
    BY <2>4, OtherKeepsType, OtherKeepsProtocol, OtherKeepsReported DEF WakeInv
  <2> QED
    BY <2>1, <2>2, <2>3, <2>4 DEF Next
<1> QED
  BY WakeInit, <1>1, PTL DEF Spec

\* Every reachable state of the wake is well typed, whatever the number of
\* leases and faults and whichever loop claims the wake.
THEOREM WakeTypeCorrect == Spec => []TypeOK
<1>1. WakeInv => TypeOK
  BY DEF WakeInv
<1> QED
  BY WakeInvHolds, <1>1, PTL

\* However often the wake is claimed, replayed and recovered and wherever the
\* supervisor dies, turn/start is received at most once (the dispatch intent).
THEOREM OneHostCallHolds == Spec => []OneHostCall
<1>1. WakeInv => OneHostCall
  BY DEF WakeInv, Protocol
<1> QED
  BY WakeInvHolds, <1>1, PTL

\* The journal's compare-and-swap to dispatching lets one task at most be on
\* the way to the host call.
THEOREM OneDispatcherHolds == Spec => []OneDispatcher
<1>1. WakeInv => OneDispatcher
  BY DEF WakeInv, Protocol
<1> QED
  BY WakeInvHolds, <1>1, PTL

\* From the host call on, dispatch intent, journalled admission and attempt are
\* one generation, and nothing else is ever acknowledged by the prompt guard.
THEOREM CallIsAdmittedHolds == Spec => []CallIsAdmitted
<1>1. WakeInv => CallIsAdmitted
  BY DEF WakeInv, Protocol, IntentFirst, IntentBinds, CallIsAdmitted
<1> QED
  BY WakeInvHolds, <1>1, PTL

\* A wake recorded as woken was admitted and its turn completed; a completed
\* one was reported as woken and as completed (#confirmWakeStarted, #finishWakeTurn).
THEOREM WokenIsRealHolds == Spec => []WokenIsReal
<1>1. WakeInv => WokenIsReal
  BY DEF WakeInv, Reported, WokenIsReal
<1> QED
  BY WakeInvHolds, <1>1, PTL

-----------------------------------------------------------------------------
(* A generic wake implements WakeContract *)

\* The way out up to the dispatch intent, and its last part, which begins
\* when the preflight has let the wake through.
Cleared == {"check", "reserve", "begin", "admit", "admitJournal", "intent"}
Outbound == Cleared \cup {"awaitReceived", "thread", "preflight", "refusePost"}
BeforeIntent == Outbound \cup {"ackRead", "ackPost"}

\* Where a wake stands before the service has heard of it.
Unheard == {"absent", "claimed", "needs_reclaim"}

\* The service is told that the wake is received before anything is done
\* about it that outlasts a crash.
Received ==
  /\ "received" \notin receipts =>
       /\ intent = 0
       /\ wake.state \in Unheard \cup TerminalWakeStates
       /\ pc["poll"] \notin Outbound \cup {"read"}
       /\ pc["poll"] = "fence" => mem["poll"].state = "claimed"
  /\ pc["poll"] = "fence" =>
       mem["poll"].state \notin {"absent", "needs_reclaim"} \cup TerminalWakeStates

\* The poll has found no intent on its way out; nor is there one once the wake
\* was refused, for a rollback, which is final and refused every time.
RefusedInTime ==
  /\ pc["poll"] \in BeforeIntent => intent = 0
  /\ pc["poll"] = "refusePost" => history = "rolledBack"
  /\ pc["poll"] \in Cleared => "dispatch_failed" \notin receipts
  /\ "dispatch_failed" \in receipts => intent = 0 /\ history = "rolledBack"

\* Nothing happens at the host before the call, and nothing of the turn is
\* reported before the guard's acknowledgement, or out of order.
ToldInOrder ==
  /\ turn # "none" \/ guard # "none" => calls > 0
  /\ receipts \cap {"woken", "completed", "failed"} # {} => acks # {}
  /\ "completed" \in receipts => "woken" \in receipts

ContractInv == Received /\ RefusedInTime /\ ToldInOrder

\* A supervisor without a wake has told the service nothing.
LEMMA ContractInvStart == Init => ContractInv
BY DEF Init, ContractInv, Received, RefusedInTime, ToldInOrder, NewWake, Unheard,
   Outbound, Cleared, BeforeIntent, Tasks

\* An idle task takes no step of its own.
LEMMA IdleRests ==
  ASSUME NEW p \in Tasks, pc[p] = "idle"
  PROVE  ~Dispatch(p) /\ ~Recover(p) /\ ~Interrupted(p)
<1>1. ~Dispatch(p)
  BY DEF Dispatch, AckRead, AckPost, AwaitReceived, ReadThread, Preflight, RefusePost, Refuse,
     RefuseAwait, Check, Reserve, Begin, PublishAdmission, JournalAdmission, PublishIntent,
     JournalIntent, StartTurn, ObserveTurn, WaitAck, ConnectionLost
<1>2. ~Recover(p)
  BY DEF Recover, ReadFence, ReadOutcome, LookUpSubmission, Submit, Confirm, JournalWoken,
     PostWoken, AwaitRunning, MarkRunning, Finish, PostFinish, FinishWake, FinishAwait
<1> QED BY <1>1, <1>2 DEF Interrupted

\* The poll is the only task of a generic wake.
LEMMA PollAlone ==
  ASSUME ~HeldRecovery, WakeInv, NEW p \in Tasks, Dispatch(p) \/ Recover(p) \/ Interrupted(p)
  PROVE  p = "poll"
<1>1. pc["claim"] = "idle"
  BY DEF WakeInv, Protocol, TasksAlone
<1> QED BY <1>1, IdleRests DEF Tasks

\* A step that posts nothing, meets no intent and leaves the poll idle, or
\* anywhere past the way out, keeps the contract's invariant if it leaves the
\* wake where the service knows it.
LEMMA ContractFrame ==
  ASSUME ContractInv, UNCHANGED <<intent, receipts, turn, guard, calls, history, acks>>,
         "received" \in receipts \/ wake'.state \in Unheard \cup TerminalWakeStates,
         pc'["poll"] \notin BeforeIntent \cup {"read", "fence"}
  PROVE  ContractInv'
BY DEF ContractInv, Received, RefusedInTime, ToldInOrder, BeforeIntent, Outbound, Cleared

\* The way out: the service hears of the wake first, and what it refuses was
\* never announced.
LEMMA DispatchKeepsContract ==
  ASSUME WakeInv, ContractInv, Dispatch("poll")
  PROVE  ContractInv'
<1> /\ pc \in [Tasks -> Labels] /\ mem \in [Tasks -> Memory] /\ wake \in WakeRecord
    /\ "poll" \in Tasks /\ calls \in Nat
  BY DEF WakeInv, TypeOK, Tasks
<1> USE EndsLeave DEF ContractInv, Received, RefusedInTime, ToldInOrder, BeforeIntent, Outbound,
       Cleared, Unheard, TerminalWakeStates, Undispatched,
       Goto, Step, StepWith, Leaves, journal, inbox, host, service, WakeRecord
<1>1. CASE AckRead("poll")
  BY <1>1, SMTT(20) DEF AckRead
<1>2. CASE AckPost("poll")
  BY <1>2, SMTT(20) DEF AckPost, Post
<1>3. CASE AwaitReceived("poll")
  BY <1>3, SMTT(20) DEF AwaitReceived
<1>4. CASE ReadThread("poll")
  BY <1>4, SMTT(20) DEF ReadThread, Defer
<1>5. CASE Preflight("poll")
  BY <1>5, SMTT(20) DEF Preflight, Defer, WakeInv, Protocol, IntentFirst, TerminalTurns
<1>6. CASE RefusePost("poll")
  BY <1>6, SMTT(20) DEF RefusePost, Post
<1>7. CASE Refuse("poll")
  BY <1>7, SMTT(20) DEF Refuse
<1>8. CASE RefuseAwait("poll")
  BY <1>8, SMTT(20) DEF RefuseAwait
<1>9. CASE Check("poll")
  BY <1>9, SMTT(20) DEF Check
<1>10. CASE Reserve("poll")
  BY <1>10, SMTT(20) DEF Reserve
<1>11. CASE Begin("poll")
  BY <1>11, SMTT(20) DEF Begin
<1>12. CASE PublishAdmission("poll")
  BY <1>12, SMTT(20) DEF PublishAdmission
<1>13. CASE JournalAdmission("poll")
  BY <1>13, SMTT(20) DEF JournalAdmission
<1>14. CASE PublishIntent("poll")
  BY <1>14, SMTT(20) DEF PublishIntent
<1>15. CASE JournalIntent("poll")
  BY <1>15, SMTT(20) DEF JournalIntent
<1>16. CASE StartTurn("poll")
  BY <1>16, SMTT(20) DEF StartTurn
<1>17. CASE ObserveTurn("poll")
  BY <1>17, SMTT(20) DEF ObserveTurn
<1>18. CASE WaitAck("poll")
  BY <1>18, SMTT(20) DEF WaitAck
<1>19. CASE ConnectionLost("poll")
  BY <1>19, SMTT(20) DEF ConnectionLost
<1> QED
  BY <1>1, <1>2, <1>3, <1>4, <1>5, <1>6, <1>7, <1>8, <1>9, <1>10, <1>11, <1>12,
     <1>13, <1>14, <1>15, <1>16, <1>17, <1>18, <1>19
     DEF Dispatch

\* The way back: only startup leads out again, and only without an intent.
LEMMA RecoverKeepsContract ==
  ASSUME WakeInv, ContractInv, Recover("poll")
  PROVE  ContractInv'
<1> /\ pc \in [Tasks -> Labels] /\ mem \in [Tasks -> Memory] /\ wake \in WakeRecord
    /\ "poll" \in Tasks /\ calls \in Nat
  BY DEF WakeInv, TypeOK, Tasks
<1>0. /\ pc["poll"] \in {"submit", "woken"} => intent # 0
      /\ phase = "recovering" /\ pc["poll"] = "read" /\ ~mem["poll"].fenced => intent = 0
      /\ pc["poll"] \in {"wokenPost"} \cup ReportedLabels => acks # {}
      /\ pc["poll"] \in ReportedLabels => "woken" \in receipts
      /\ pc["poll"] \in FinishLabels => mem["poll"].turn \in TerminalTurns
      /\ wake.woken => intent # 0
  BY DEF WakeInv, Reported, Protocol, IntentFirst, FenceRead, MemoryFits
<1> USE EndsLeave DEF ContractInv, Received, RefusedInTime, ToldInOrder, BeforeIntent, Outbound,
       Cleared, Unheard, TerminalWakeStates, Undispatched, ReportedLabels, FinishLabels,
       Goto, Step, StepWith, Leaves, journal, inbox, host, service, WakeRecord
<1>1. CASE ReadFence("poll")
  BY <1>1, SMTT(20) DEF ReadFence
<1>2. CASE ReadOutcome("poll")
  BY <1>0, <1>2, SMTT(20) DEF ReadOutcome, Startup
<1>3. CASE LookUpSubmission("poll")
  BY <1>3, SMTT(20) DEF LookUpSubmission
<1>4. CASE Submit("poll")
  <2>1. UNCHANGED <<intent, receipts, turn, guard, calls, history, acks>>
    BY <1>4 DEF Submit
  <2>2. "received" \in receipts
    BY <1>0, <1>4 DEF Submit
  <2>3. pc'["poll"] \notin BeforeIntent \cup {"read", "fence"}
    BY <1>4, SMTT(20) DEF Submit
  <2> QED BY <2>1, <2>2, <2>3, ContractFrame
<1>5. CASE Confirm("poll")
  BY <1>5, SMTT(20) DEF Confirm
<1>6. CASE JournalWoken("poll")
  <2>1. UNCHANGED <<intent, receipts, turn, guard, calls, history, acks>>
    BY <1>6 DEF JournalWoken
  <2>2. "received" \in receipts
    BY <1>0, <1>6 DEF JournalWoken
  <2>3. pc'["poll"] \notin BeforeIntent \cup {"read", "fence"}
    BY <1>6 DEF JournalWoken
  <2> QED BY <2>1, <2>2, <2>3, ContractFrame
<1>7. CASE PostWoken("poll")
  BY <1>0, <1>7, SMTT(20) DEF PostWoken, Post
<1>8. CASE AwaitRunning("poll")
  BY <1>8, SMTT(20) DEF AwaitRunning
<1>9. CASE MarkRunning("poll")
  BY <1>9, SMTT(20) DEF MarkRunning
<1>10. CASE Finish("poll")
  BY <1>10, SMTT(20) DEF Finish
<1>11. CASE PostFinish("poll")
  BY <1>0, <1>11, SMTT(20) DEF PostFinish, Post, TerminalTurns
<1>12. CASE FinishWake("poll")
  BY <1>0, <1>12, SMTT(20) DEF FinishWake, TerminalTurns
<1>13. CASE FinishAwait("poll")
  BY <1>13, SMTT(20) DEF FinishAwait
<1> QED
  BY <1>1, <1>2, <1>3, <1>4, <1>5, <1>6, <1>7, <1>8, <1>9, <1>10, <1>11, <1>12, <1>13
     DEF Recover

\* Claims, replays, faults, restarts, the guard and the host.
LEMMA OtherKeepsContract ==
  ASSUME ~HeldRecovery, WakeInv, ContractInv,
         \/ AcceptClaim \/ AcceptReplay \/ PollReconcile
         \/ Interrupted("poll")
         \/ Crash \/ Restart
         \/ GuardDecide \/ GuardAck \/ HostRun \/ HostFinish \/ ChangeHistory
         \/ LapseLease
         \/ UNCHANGED vars
  PROVE  ContractInv'
<1> /\ pc \in [Tasks -> Labels] /\ mem \in [Tasks -> Memory] /\ wake \in WakeRecord
    /\ "poll" \in Tasks /\ calls \in Nat
  BY DEF WakeInv, TypeOK, Tasks
<1> USE EndsLeave DEF ContractInv, Received, RefusedInTime, ToldInOrder, BeforeIntent, Outbound,
       Cleared, Unheard, TerminalWakeStates, Undispatched, NoMemory,
       Goto, Step, StepWith, Leaves, journal, inbox, host, service, control, WakeRecord
<1>1. CASE AcceptClaim
  <2>1. /\ Claimer = "poll" /\ pc["poll"] = "idle"
        /\ wake.state \notin TerminalWakeStates
        /\ UNCHANGED <<intent, receipts, turn, guard, calls, history, acks>>
    BY <1>1 DEF AcceptClaim, Offered, Claimer
  <2> DEFINE keep(state) == [wake EXCEPT !.gen = wake.gen + 1, !.state = state]
             kept == IF wake.state \in {"absent", "needs_reclaim"}
                     THEN "dispatch_uncertain" ELSE wake.state
             entry == [NoMemory EXCEPT !.queued = TRUE]
             known(state) == [entry EXCEPT !.state = state]
             follow(state) == pc' = [pc EXCEPT !["poll"] = "fence"]
                              /\ mem' = [mem EXCEPT !["poll"] = known(state)]
  <2>2. \/ intent = 0 /\ wake' = NewWake("claimed", wake.gen + 1)
           /\ pc' = [pc EXCEPT !["poll"] = "ackRead"]
        \/ "received" \in receipts /\ wake' = keep(kept)
           /\ (pc' = pc \/ follow(wake'.state))
        \/ intent # 0 /\ wake' = keep("dispatch_uncertain")
           /\ follow("dispatch_uncertain")
    BY <1>1, <2>1, Zenon DEF AcceptClaim, control
  <2>3. \A state : keep(state).state = state /\ known(state).state = state
    OBVIOUS
  <2> HIDE DEF keep, known, entry
  <2>4. CASE /\ intent = 0 /\ wake' = NewWake("claimed", wake.gen + 1)
             /\ pc' = [pc EXCEPT !["poll"] = "ackRead"]
    <3>1. wake'.state = "claimed" /\ pc'["poll"] = "ackRead"
      BY <2>4 DEF NewWake
    <3> QED BY <2>1, <2>4, <3>1
  <2>5. CASE "received" \in receipts /\ (pc' = pc \/ follow(wake'.state))
             /\ wake' = keep(kept)
    <3>1. wake'.state \notin {"absent", "needs_reclaim"} \cup TerminalWakeStates
      BY <2>1, <2>3, <2>5
    <3>2. pc'["poll"] = "idle"
          \/ (pc'["poll"] = "fence" /\ mem'["poll"].state = wake'.state)
      BY <2>1, <2>3, <2>5
    <3> QED BY <2>1, <2>5, <3>1, <3>2
  <2>6. CASE intent # 0 /\ follow("dispatch_uncertain")
    <3>1. "received" \in receipts
      BY <2>6
    <3>2. pc'["poll"] = "fence" /\ mem'["poll"].state = "dispatch_uncertain"
      BY <2>3, <2>6
    <3> QED BY <2>1, <3>1, <3>2
  <2> QED BY <2>2, <2>4, <2>5, <2>6
<1>2. CASE AcceptReplay
  BY <1>2, SMTT(20) DEF AcceptReplay, Recoverable
<1>3. CASE PollReconcile
  BY <1>3, SMTT(20) DEF PollReconcile, Recoverable
<1>4. CASE Interrupted("poll")
  BY <1>4, SMTT(20) DEF Interrupted
<1>5. CASE Crash
  BY <1>5, SMTT(20) DEF Crash
<1>6. CASE Restart
  BY <1>6, SMTT(20) DEF Restart, Recoverable
<1>7. CASE GuardDecide
  BY <1>7, SMTT(20) DEF GuardDecide
<1>8. CASE GuardAck
  BY <1>8, SMTT(20) DEF GuardAck
<1>9. CASE HostRun
  BY <1>9, SMTT(20) DEF HostRun
<1>10. CASE HostFinish
  BY <1>10, SMTT(20) DEF HostFinish
<1>11. CASE ChangeHistory
  BY <1>11, SMTT(20) DEF ChangeHistory
<1>12. CASE LapseLease
  BY <1>12, SMTT(20) DEF LapseLease
<1>13. CASE UNCHANGED vars
  BY <1>13, SMTT(20) DEF vars
<1> QED
  BY <1>1, <1>2, <1>3, <1>4, <1>5, <1>6, <1>7, <1>8, <1>9, <1>10, <1>11, <1>12, <1>13

\* The contract's invariant holds throughout.
LEMMA ContractInvHolds ==
  ASSUME ~HeldRecovery
  PROVE  Spec => []ContractInv
<1>1. WakeInv /\ ContractInv /\ [Next]_vars => ContractInv'
  <2> SUFFICES ASSUME WakeInv, ContractInv, [Next]_vars PROVE ContractInv'
    OBVIOUS
  <2>1. ASSUME NEW p \in Tasks, Dispatch(p) \/ Recover(p) PROVE ContractInv'
    BY <2>1, PollAlone, DispatchKeepsContract, RecoverKeepsContract
  <2>2. ASSUME NEW p \in Tasks, Interrupted(p) PROVE ContractInv'
    BY <2>2, PollAlone, OtherKeepsContract
  <2> QED BY <2>1, <2>2, OtherKeepsContract DEF Next
<1> QED
  BY <1>1, ContractInvStart, WakeInvHolds, PTL DEF Spec

\* A step that publishes no intent, calls nobody, acknowledges nothing and
\* posts nothing is no step of the contract.
LEMMA QuietStep ==
  ASSUME UNCHANGED <<intent, acks, calls, receipts>>
  PROVE  UNCHANGED Contract!vars
BY DEF Contract!vars

\* What the service was told last, as the invariant orders it.
LEMMA ToldSoFar ==
  ASSUME WakeInv, ContractInv
  PROVE  /\ acks \subseteq {intent} \ {0} /\ calls \in Nat
         /\ calls > 0 => intent # 0
         /\ intent # 0 => "received" \in receipts /\ "dispatch_failed" \notin receipts
         /\ acks = {} => receipts \cap {"woken", "completed"} = {}
         /\ "completed" \in receipts => "woken" \in receipts
BY DEF WakeInv, TypeOK, Protocol, IntentFirst, ContractInv, Received, RefusedInTime,
   ToldInOrder

\* Each receipt that is posted takes the contract one step on, or is repeated.
LEMMA PostContract ==
  ASSUME WakeInv, ContractInv, UNCHANGED <<intent, acks, calls>>,
         NEW kind, receipts' \in {receipts, receipts \cup {kind}},
         \/ kind \in {"received", "failed"}
         \/ kind = "dispatch_failed" /\ intent = 0 /\ "received" \in receipts
         \/ kind = "woken" /\ acks # {}
         \/ kind = "completed" /\ acks # {} /\ "woken" \in receipts
  PROVE  [Contract!Next]_(Contract!vars)
<1> USE ToldSoFar
<1>1. CASE receipts' = receipts \/ kind \in receipts
  BY <1>1, QuietStep
<1>2. CASE kind \notin receipts /\ receipts' = receipts \cup {kind}
  <2> USE <1>2
  <2>1. CASE kind = "failed"
    BY <2>1 DEF Contract!vars
  <2>2. CASE kind = "received"
    BY <2>2 DEF Contract!vars, Contract!Next, Contract!Receive
  <2>3. CASE kind = "dispatch_failed" /\ intent = 0 /\ "received" \in receipts
    BY <2>3 DEF Contract!vars, Contract!Next, Contract!Refuse
  <2>4. CASE kind = "woken" /\ acks # {}
    BY <2>4 DEF Contract!vars, Contract!Next, Contract!Report
  <2>5. CASE kind = "completed" /\ acks # {} /\ "woken" \in receipts
    BY <2>5 DEF Contract!vars, Contract!Next, Contract!Complete
  <2> QED BY <2>1, <2>2, <2>3, <2>4, <2>5
<1> QED BY <1>1, <1>2

\* On the way out: wake_received, a refusal, the intent and the host call.
LEMMA DispatchContract ==
  ASSUME WakeInv, ContractInv, Dispatch("poll")
  PROVE  [Contract!Next]_(Contract!vars)
<1> USE DEF journal, inbox, host, service
<1>1. CASE AckPost("poll")
  <2>1. UNCHANGED <<intent, acks, calls>>
        /\ receipts' \in {receipts, receipts \cup {"received"}}
    BY <1>1 DEF AckPost, Post
  <2> QED BY <2>1, PostContract
<1>2. CASE RefusePost("poll")
  <2>1. UNCHANGED <<intent, acks, calls>>
        /\ receipts' \in {receipts, receipts \cup {"dispatch_failed"}}
    BY <1>2 DEF RefusePost, Post
  <2>2. intent = 0 /\ "received" \in receipts
    BY <1>2 DEF RefusePost, ContractInv, Received, RefusedInTime, BeforeIntent, Outbound
  <2> QED BY <2>1, <2>2, PostContract
<1>3. CASE PublishIntent("poll")
  <2>1. /\ UNCHANGED <<acks, calls, receipts>>
        /\ intent' \in {intent, wake.admission}
    BY <1>3 DEF PublishIntent
  <2>2. wake.admission # 0 /\ intent = 0 /\ "received" \in receipts
        /\ "dispatch_failed" \notin receipts
    BY <1>3 DEF PublishIntent, WakeInv, Protocol, DispatchPrepared, IntentFirst,
       ClaimedFirst, ContractInv, Received, RefusedInTime, Outbound, Cleared, BeforeIntent,
       Tasks
  <2>3. calls = 0 /\ acks = {} /\ receipts \cap {"woken", "completed"} = {}
    BY <2>2, ToldSoFar
  <2> QED
    BY <2>1, <2>2, <2>3 DEF Contract!vars, Contract!Next, Contract!Announce
<1>4. CASE StartTurn("poll")
  <2>1. UNCHANGED <<intent, acks, receipts>> /\ calls' = calls + 1
    BY <1>4 DEF StartTurn
  <2>2. intent # 0 /\ calls = 0
    BY <1>4 DEF StartTurn, WakeInv, Protocol, IntentFirst, Tasks
  <2> QED
    BY <2>1, <2>2 DEF Contract!vars, Contract!Next, Contract!Make
<1>5. CASE ~(AckPost("poll") \/ RefusePost("poll") \/ PublishIntent("poll") \/ StartTurn("poll"))
  <2>1. UNCHANGED <<intent, acks, calls, receipts>>
    BY <1>5 DEF Dispatch, AckRead, AwaitReceived, ReadThread, Preflight, Defer, Refuse,
       RefuseAwait, Check, Reserve, Begin, PublishAdmission, JournalAdmission,
       JournalIntent, ObserveTurn, WaitAck, ConnectionLost
  <2> QED BY <2>1, QuietStep
<1> QED BY <1>1, <1>2, <1>3, <1>4, <1>5

\* On the way back: the two reports of the turn.
LEMMA RecoverContract ==
  ASSUME WakeInv, ContractInv, Recover("poll")
  PROVE  [Contract!Next]_(Contract!vars)
<1> USE DEF journal, inbox, host, service
<1>0. /\ pc["poll"] \in {"wokenPost"} \cup ReportedLabels => acks # {}
      /\ pc["poll"] \in ReportedLabels => "woken" \in receipts
      /\ pc["poll"] \in FinishLabels => mem["poll"].turn \in TerminalTurns
  BY DEF WakeInv, Reported, Protocol, MemoryFits, Tasks
<1>1. CASE PostWoken("poll")
  <2>1. UNCHANGED <<intent, acks, calls>>
        /\ receipts' \in {receipts, receipts \cup {"woken"}}
    BY <1>1 DEF PostWoken, Post
  <2>2. acks # {}
    BY <1>0, <1>1 DEF PostWoken
  <2> QED BY <2>1, <2>2, PostContract
<1>2. CASE PostFinish("poll")
  <2>1. UNCHANGED <<intent, acks, calls>>
        /\ receipts' \in {receipts, receipts \cup {mem["poll"].turn}}
    BY <1>2 DEF PostFinish, Post
  <2>2. acks # {} /\ "woken" \in receipts /\ mem["poll"].turn \in {"completed", "failed"}
    BY <1>0, <1>2 DEF PostFinish, ReportedLabels, FinishLabels, TerminalTurns
  <2> QED BY <2>1, <2>2, PostContract
<1>3. CASE ~(PostWoken("poll") \/ PostFinish("poll"))
  <2>1. UNCHANGED <<intent, acks, calls, receipts>>
    BY <1>3 DEF Recover, ReadFence, ReadOutcome, LookUpSubmission, Submit, Confirm,
       JournalWoken, AwaitRunning, MarkRunning, Finish, FinishWake, FinishAwait
  <2> QED BY <2>1, QuietStep
<1> QED BY <1>1, <1>2, <1>3

\* SupervisedWake implements WakeContract for a wake that waits in the journal:
\* the service hears of it first, the host is called at most once and only after
\* the announced intent, a refusal excludes the call for good, and only an
\* acknowledged call is reported, woken before completed.
THEOREM GenericWakeKeepsContract ==
  ASSUME ~HeldRecovery
  PROVE  Spec => ContractKept
<1>1. Init => Contract!Init
  BY DEF Init, Contract!Init
<1>2. WakeInv /\ ContractInv /\ [Next]_vars => [Contract!Next]_(Contract!vars)
  <2> SUFFICES ASSUME WakeInv, ContractInv, [Next]_vars
               PROVE  [Contract!Next]_(Contract!vars)
    OBVIOUS
  <2>1. ASSUME NEW p \in Tasks, Dispatch(p) \/ Recover(p)
        PROVE  [Contract!Next]_(Contract!vars)
    BY <2>1, PollAlone, DispatchContract, RecoverContract
  <2>2. CASE GuardAck
    <3>1. UNCHANGED <<intent, calls, receipts>> /\ acks' = acks \cup {intent}
          /\ intent \notin acks /\ guard = "admit"
      BY <2>2 DEF GuardAck, host, service
    <3>2. calls > 0 /\ acks = {}
      BY <3>1, ToldSoFar DEF ContractInv, ToldInOrder
    <3> QED
      BY <3>1, <3>2 DEF Contract!vars, Contract!Next, Contract!Admit
  <2>3. CASE \/ AcceptClaim \/ AcceptReplay \/ PollReconcile
             \/ \E p \in Tasks : Interrupted(p)
             \/ Crash \/ Restart
             \/ GuardDecide \/ HostRun \/ HostFinish \/ ChangeHistory \/ LapseLease
             \/ UNCHANGED vars
    <3>1. UNCHANGED <<intent, acks, calls, receipts>>
      BY <2>3 DEF AcceptClaim, AcceptReplay, PollReconcile, Interrupted, Crash, Restart,
         GuardDecide, HostRun, HostFinish, ChangeHistory, LapseLease, vars,
         journal, inbox, host, service
    <3> QED BY <3>1, QuietStep
  <2> QED BY <2>1, <2>2, <2>3 DEF Next
<1> QED
  BY <1>1, <1>2, ContractInvHolds, WakeInvHolds, PTL
     DEF Spec, ContractKept, Contract!Spec
-----------------------------------------------------------------------------
(* A generic wake that was started does not fail *)

\* A wake is failed only once the service was told that it is refused: a turn
\* seen failed is the wake's turn, and no wake ends after that but a woken one,
\* whose turn was completed.
FailedIsRefused ==
  /\ pc["poll"] = "refuse" \/ wake.state = "failed" => "dispatch_failed" \in receipts
  /\ mem["poll"].turn \in TerminalTurns => turn = mem["poll"].turn

\* On the way out only the refusal fails the wake.
LEMMA DispatchKeepsFailed ==
  ASSUME WakeInv, FailedIsRefused, Dispatch("poll")
  PROVE  FailedIsRefused'
<1> /\ pc \in [Tasks -> Labels] /\ mem \in [Tasks -> Memory] /\ wake \in WakeRecord
    /\ "poll" \in Tasks /\ turn \in Turns
  BY DEF WakeInv, TypeOK, Tasks
<1> USE EndsLeave DEF FailedIsRefused, TerminalTurns, NoMemory, Undispatched,
       Goto, Step, StepWith, Leaves, journal, inbox, host, service, WakeRecord, Memory
<1>1. CASE AckRead("poll")
  BY <1>1, SMTT(20) DEF AckRead
<1>2. CASE AckPost("poll")
  BY <1>2, SMTT(20) DEF AckPost, Post
<1>3. CASE AwaitReceived("poll")
  BY <1>3, SMTT(20) DEF AwaitReceived
<1>4. CASE ReadThread("poll")
  BY <1>4, SMTT(20) DEF ReadThread, Defer, SeenTurns
<1>5. CASE Preflight("poll")
  BY <1>5, SMTT(20) DEF Preflight, Defer
<1>6. CASE RefusePost("poll")
  BY <1>6, SMTT(20) DEF RefusePost, Post
<1>7. CASE Refuse("poll")
  BY <1>7, SMTT(20) DEF Refuse
<1>8. CASE RefuseAwait("poll")
  BY <1>8, SMTT(20) DEF RefuseAwait
<1>9. CASE Check("poll")
  BY <1>9, SMTT(20) DEF Check
<1>10. CASE Reserve("poll")
  BY <1>10, SMTT(20) DEF Reserve
<1>11. CASE Begin("poll")
  <2>1. wake' = wake \/ wake'.state = "dispatching"
    BY <1>11 DEF Begin
  <2>2. UNCHANGED <<receipts, turn>>
    BY <1>11 DEF Begin
  <2>3. pc'["poll"] # "refuse" /\ mem'["poll"].turn \in {mem["poll"].turn, "none"}
    BY <1>11 DEF Begin, Done
  <2> QED BY <2>1, <2>2, <2>3
<1>12. CASE PublishAdmission("poll")
  BY <1>12, SMTT(20) DEF PublishAdmission
<1>13. CASE JournalAdmission("poll")
  BY <1>13, SMTT(20) DEF JournalAdmission
<1>14. CASE PublishIntent("poll")
  BY <1>14, SMTT(20) DEF PublishIntent
<1>15. CASE JournalIntent("poll")
  BY <1>15, SMTT(20) DEF JournalIntent
<1>16. CASE StartTurn("poll")
  BY <1>16, SMTT(20) DEF StartTurn
<1>17. CASE ObserveTurn("poll")
  BY <1>17, SMTT(20) DEF ObserveTurn
<1>18. CASE WaitAck("poll")
  BY <1>18, SMTT(20) DEF WaitAck
<1>19. CASE ConnectionLost("poll")
  BY <1>19, SMTT(20) DEF ConnectionLost
<1> QED
  BY <1>1, <1>2, <1>3, <1>4, <1>5, <1>6, <1>7, <1>8, <1>9, <1>10, <1>11, <1>12,
     <1>13, <1>14, <1>15, <1>16, <1>17, <1>18, <1>19
     DEF Dispatch

\* On the way back a wake ends as its turn did, and it was completed.
LEMMA RecoverKeepsFailed ==
  ASSUME WakeInv, FailedIsRefused, Recover("poll")
  PROVE  FailedIsRefused'
<1> /\ pc \in [Tasks -> Labels] /\ mem \in [Tasks -> Memory] /\ wake \in WakeRecord
    /\ "poll" \in Tasks /\ turn \in Turns
  BY DEF WakeInv, TypeOK, Tasks
<1>0. pc["poll"] = "finishWake" => mem["poll"].turn = "completed"
  BY DEF WakeInv, Reported, Protocol, MemoryFits, ReportedLabels, FinishLabels,
     FailedIsRefused
<1> USE EndsLeave DEF FailedIsRefused, TerminalTurns, NoMemory, Undispatched,
       TerminalWakeStates,
       Goto, Step, StepWith, Leaves, journal, inbox, host, service, WakeRecord, Memory
<1>1. CASE ReadFence("poll")
  <2>1. wake' = wake \/ wake'.state = "dispatch_uncertain"
    BY <1>1 DEF ReadFence
  <2>2. UNCHANGED <<receipts, turn>>
    BY <1>1 DEF ReadFence
  <2>3. pc'["poll"] # "refuse" /\ mem'["poll"].turn \in {mem["poll"].turn, "none"}
    <3> DEFINE m == mem["poll"]
               fenced(f) == [m EXCEPT !.fenced = f]
               uncertain == [m EXCEPT !.state = "dispatch_uncertain", !.fenced = TRUE]
    <3>1. uncertain.turn = m.turn /\ \A f : fenced(f).turn = m.turn
      OBVIOUS
    <3> HIDE DEF fenced, uncertain
    <3>2. \/ pc'["poll"] = "idle" /\ mem'["poll"] = NoMemory
          \/ pc'["poll"] \in {"ackRead", "thread"} /\ mem'["poll"] = m
          \/ pc'["poll"] = "read" /\ mem'["poll"] \in {uncertain, fenced(intent # 0)}
      BY <1>1 DEF ReadFence, Fatal, fenced, uncertain
    <3> QED BY <3>1, <3>2
  <2> QED BY <2>1, <2>2, <2>3
<1>2. CASE ReadOutcome("poll")
  <2>1. wake' = wake \/ wake'.state \in {"dispatch_uncertain", "dispatch_deferred"}
    BY <1>2 DEF ReadOutcome
  <2>2. UNCHANGED <<receipts, turn>>
    BY <1>2 DEF ReadOutcome
  <2>3. pc'["poll"] # "refuse"
    BY <1>2 DEF ReadOutcome, Done, Fatal
  <2>4. mem'["poll"].turn \in SeenTurns \cup {mem["poll"].turn, "none"}
    BY <1>2 DEF ReadOutcome, Done, Fatal
  <2>5. \A seen \in SeenTurns \cap TerminalTurns : seen = turn
    BY DEF SeenTurns
  <2> QED BY <2>1, <2>2, <2>3, <2>4, <2>5
<1>3. CASE LookUpSubmission("poll")
  BY <1>3, SMTT(20) DEF LookUpSubmission
<1>4. CASE Submit("poll")
  <2>1. wake'.state \in {wake.state, "submitted"}
    BY <1>4 DEF Submit
  <2>2. UNCHANGED <<receipts, turn>>
    BY <1>4 DEF Submit
  <2>3. pc'["poll"] # "refuse" /\ mem'["poll"].turn \in {mem["poll"].turn, "none"}
    BY <1>4 DEF Submit, Done, Fatal
  <2> QED BY <2>1, <2>2, <2>3
<1>5. CASE Confirm("poll")
  BY <1>5, SMTT(20) DEF Confirm
<1>6. CASE JournalWoken("poll")
  BY <1>6, SMTT(20) DEF JournalWoken
<1>7. CASE PostWoken("poll")
  BY <1>7, SMTT(20) DEF PostWoken, Post
<1>8. CASE AwaitRunning("poll")
  BY <1>8, SMTT(20) DEF AwaitRunning
<1>9. CASE MarkRunning("poll")
  BY <1>9, SMTT(20) DEF MarkRunning
<1>10. CASE Finish("poll")
  BY <1>10, SMTT(20) DEF Finish
<1>11. CASE PostFinish("poll")
  BY <1>11, SMTT(20) DEF PostFinish, Post
<1>12. CASE FinishWake("poll")
  BY <1>0, <1>12, SMTT(20) DEF FinishWake
<1>13. CASE FinishAwait("poll")
  BY <1>13, SMTT(20) DEF FinishAwait
<1> QED
  BY <1>1, <1>2, <1>3, <1>4, <1>5, <1>6, <1>7, <1>8, <1>9, <1>10, <1>11, <1>12, <1>13
     DEF Recover

\* Nobody else fails the wake or brings a task to refuse it; the end of the
\* turn is final.
LEMMA OtherKeepsFailed ==
  ASSUME ~HeldRecovery, WakeInv, FailedIsRefused,
         \/ AcceptClaim \/ AcceptReplay \/ PollReconcile
         \/ Interrupted("poll")
         \/ Crash \/ Restart
         \/ GuardDecide \/ GuardAck \/ HostRun \/ HostFinish \/ ChangeHistory
         \/ LapseLease
         \/ UNCHANGED vars
  PROVE  FailedIsRefused'
<1> /\ pc \in [Tasks -> Labels] /\ mem \in [Tasks -> Memory] /\ wake \in WakeRecord
    /\ "poll" \in Tasks /\ turn \in Turns
  BY DEF WakeInv, TypeOK, Tasks
<1> USE EndsLeave DEF FailedIsRefused, TerminalTurns, NoMemory,
       Goto, Step, StepWith, Leaves, journal, inbox, host, service, control
<1>1. CASE AcceptClaim
  <2> DEFINE keep(state) == [wake EXCEPT !.gen = wake.gen + 1, !.state = state]
             kept == IF wake.state \in {"absent", "needs_reclaim"}
                     THEN "dispatch_uncertain" ELSE wake.state
             entry == [NoMemory EXCEPT !.queued = TRUE]
             known(state) == [entry EXCEPT !.state = state]
  <2>1. Claimer = "poll" /\ wake.state # "failed" /\ UNCHANGED <<receipts, turn>>
    BY <1>1 DEF AcceptClaim, Claimer, TerminalWakeStates
  <2>2. \A state : keep(state).state = state /\ known(state).turn = "none"
                   /\ entry.turn = "none"
    OBVIOUS
  <2> HIDE DEF keep, known, entry
  <2>3. /\ wake' \in {NewWake("claimed", wake.gen + 1), keep(kept),
                      keep("dispatch_uncertain")}
        /\ \/ pc' = pc /\ mem' = mem
           \/ \E l \in {"ackRead", "fence"}, m \in {entry, known(wake'.state),
                                                  known("dispatch_uncertain")} :
                Goto("poll", l, m)
    BY <1>1, <2>1 DEF AcceptClaim, keep, known, entry
  <2>4. wake'.state # "failed"
    BY <2>1, <2>2, <2>3 DEF NewWake
  <2> QED BY <2>1, <2>2, <2>3, <2>4
<1>2. CASE AcceptReplay
  BY <1>2, SMTT(20) DEF AcceptReplay
<1>3. CASE PollReconcile
  BY <1>3, SMTT(20) DEF PollReconcile
<1>4. CASE Interrupted("poll")
  BY <1>4, SMTT(20) DEF Interrupted
<1>5. CASE Crash
  BY <1>5, SMTT(20) DEF Crash
<1>6. CASE Restart
  BY <1>6, SMTT(20) DEF Restart
<1>7. CASE GuardDecide
  BY <1>7, SMTT(20) DEF GuardDecide
<1>8. CASE GuardAck
  BY <1>8, SMTT(20) DEF GuardAck
<1>9. CASE HostRun
  BY <1>9, SMTT(20) DEF HostRun
<1>10. CASE HostFinish
  BY <1>10, SMTT(20) DEF HostFinish
<1>11. CASE ChangeHistory
  BY <1>11, SMTT(20) DEF ChangeHistory
<1>12. CASE LapseLease
  BY <1>12, SMTT(20) DEF LapseLease
<1>13. CASE UNCHANGED vars
  BY <1>13, SMTT(20) DEF vars
<1> QED
  BY <1>1, <1>2, <1>3, <1>4, <1>5, <1>6, <1>7, <1>8, <1>9, <1>10, <1>11, <1>12, <1>13

\* (What late_refusal shows violated for a held wake.)  A generic wake on an
\* untouched thread never fails once its turn was started: the poll is alone,
\* so no slower task can take that turn for an intervening one.
THEOREM GenericDispatchStands ==
  ASSUME ~HeldRecovery
  PROVE  Spec => []LiveDispatchStands
<1>1. Init => FailedIsRefused
  BY DEF Init, FailedIsRefused, NewWake, NoMemory, TerminalTurns, Tasks
<1>2. WakeInv /\ FailedIsRefused /\ [Next]_vars => FailedIsRefused'
  <2> SUFFICES ASSUME WakeInv, FailedIsRefused, [Next]_vars PROVE FailedIsRefused'
    OBVIOUS
  <2>1. ASSUME NEW p \in Tasks, Dispatch(p) \/ Recover(p) PROVE FailedIsRefused'
    BY <2>1, PollAlone, DispatchKeepsFailed, RecoverKeepsFailed
  <2>2. ASSUME NEW p \in Tasks, Interrupted(p) PROVE FailedIsRefused'
    BY <2>2, PollAlone, OtherKeepsFailed
  <2> QED BY <2>1, <2>2, OtherKeepsFailed DEF Next
<1>3. WakeInv /\ ContractInv /\ FailedIsRefused => LiveDispatchStands
  BY DEF WakeInv, Protocol, IntentFirst, TypeOK, ContractInv, RefusedInTime,
     FailedIsRefused, LiveDispatchStands
<1> QED
  BY <1>1, <1>2, <1>3, ContractInvHolds, WakeInvHolds, PTL DEF Spec
=============================================================================
