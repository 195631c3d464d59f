---------------------------- MODULE WakeRecovery ----------------------------
(***************************************************************************)
(* The way back: #recoverWake, run at startup, by every pass of the wake   *)
(* poll and on a repeated claim, finds out what became of a dispatch and   *)
(* reports it: #recordSubmittedTurn, #confirmWakeStarted, #finishWakeTurn. *)
(***************************************************************************)
EXTENDS WakeState

Startup == phase = "recovering"

\* Mutant: the poll leaves a deferred wake to the next claim.
PollSkipsDeferred ==
  /\ phase = "up" /\ pc["poll"] = "idle"
  /\ Recoverable /\ wake.state \notin {"dispatching", "dispatch_deferred"}
  /\ StepWith("poll", "fence", [NoMemory EXCEPT !.state = wake.state])
  /\ UNCHANGED <<journal, inbox, host, service, faults>>

\* One pass of the wake poll.  It may not infer that the owner of a wake
\* found dispatching is dead.
PollReconcile ==
  /\ phase = "up" /\ pc["poll"] = "idle"
  /\ Recoverable /\ wake.state # "dispatching"
  /\ StepWith("poll", "fence", [NoMemory EXCEPT !.state = wake.state])
  /\ UNCHANGED <<journal, inbox, host, service, faults>>

\* The intent is read; an undispatched wake that has one is uncertain.
ReadFence(p) ==
  LET s == mem[p].state
  IN  /\ pc[p] = "fence"
      /\ IF intent # 0 /\ s \in Undispatched
         THEN IF wake.state = s
              THEN /\ wake' = [wake EXCEPT !.state = "dispatch_uncertain"]
                   /\ StepWith(p, "read", [mem[p] EXCEPT !.state = "dispatch_uncertain",
                                                        !.fenced = TRUE])
              ELSE Fatal(p) /\ UNCHANGED wake
         ELSE /\ CASE s = "claimed"           -> Step(p, "ackRead")
                   [] s = "dispatch_deferred" -> Step(p, "thread")
                   [] OTHER -> StepWith(p, "read", [mem[p] EXCEPT !.fenced = intent # 0])
              /\ UNCHANGED wake
      /\ UNCHANGED <<await, inbox, host, service, faults>>

\* The thread is read for the wake's turn.  Without turn and without intent
\* no host call was made: startup, and only startup, takes the dispatch back.
ReadOutcome(p) ==
  LET s == mem[p].state
  IN  /\ pc[p] = "read"
      /\ \/ \E seen \in SeenTurns \ {"none"} :
              StepWith(p, "lookup", [mem[p] EXCEPT !.turn = seen]) /\ UNCHANGED wake
         \/ /\ "none" \in SeenTurns /\ mem[p].fenced
            /\ IF s = "dispatch_uncertain" THEN Done(p) /\ UNCHANGED wake
               ELSE IF wake.state = s
               THEN wake' = [wake EXCEPT !.state = "dispatch_uncertain"] /\ Done(p)
               ELSE Fatal(p) /\ UNCHANGED wake
         \/ /\ "none" \in SeenTurns /\ ~mem[p].fenced
            /\ IF Startup /\ s \in {"dispatching", "dispatch_uncertain"}
               THEN /\ wake' = [wake EXCEPT !.state = "dispatch_deferred", !.attempt = 0,
                                            !.admission = 0, !.ack = FALSE]
                    /\ Step(p, "thread")
               ELSE Done(p) /\ UNCHANGED wake
      /\ UNCHANGED <<await, inbox, host, service, faults>>

-----------------------------------------------------------------------------
(* #recordSubmittedTurn *)

\* The admission of the turn: the journalled one, or the acknowledged one of
\* the inbox.
FoundAdmission ==
  IF wake.admission # 0 THEN {wake.admission}
  ELSE {g \in admissions \cap acks :
          g <= wake.gen /\ (wake.attempt # 0 => g = wake.attempt)}

ValidAdmission(g) == g <= wake.gen /\ wake.attempt \in {0, g}

\* A turn that the guard has not acknowledged is left alone.
LookUpSubmission(p) ==
  /\ pc[p] = "lookup"
  /\ IF wake.state \in TerminalWakeStates THEN Done(p)
     ELSE IF \A g \in FoundAdmission : ~ValidAdmission(g) THEN Fatal(p)
     ELSE IF FoundAdmission \cap acks = {} THEN Done(p)
     ELSE StepWith(p, "submit", [mem[p] EXCEPT !.state = wake.state])
  /\ UNCHANGED <<journal, inbox, host, service, faults>>

\* Compare and swap again; a concurrent submission of the same turn is fine.
\* Both paths end here: the one that started the turn leaves the report of
\* its start to recovery.
Submit(p) ==
  LET s == mem[p].state
      submitted(state) == /\ wake' = [wake EXCEPT !.state = state, !.ack = TRUE,
                                        !.admission = CHOOSE g \in FoundAdmission : TRUE]
      onward == IF mem[p].turn \in StartedTurns THEN Step(p, "confirm") /\ UNCHANGED faults
                ELSE \/ Done(p) /\ UNCHANGED faults
                     \/ mem[p].turn = "none" /\ Step(p, "lost") /\ Fault
  IN  /\ pc[p] = "submit"
      /\ IF s \in Undispatched \cup {"dispatching", "dispatch_uncertain"}
         THEN \/ wake.state = s /\ submitted("submitted") /\ onward
              \/ /\ wake.state # s
                 /\ wake.state \in {"submitted", "dispatched", "running"} \cup TerminalWakeStates
                 /\ UNCHANGED wake /\ onward
              \/ /\ wake.state # s
                 /\ wake.state \notin {"submitted", "dispatched", "running"} \cup TerminalWakeStates
                 /\ UNCHANGED <<wake, faults>> /\ Fatal(p)
         ELSE /\ IF wake.ack THEN UNCHANGED wake ELSE submitted(wake.state)
              /\ onward
      /\ UNCHANGED <<await, inbox, host, service>>

-----------------------------------------------------------------------------
(* #confirmWakeStarted and #createWaitProof *)

\* Mutant: a turn that has begun is proof enough.
ProvedByStart ==
  wake.admission # 0 /\ wake.ack /\ ValidAdmission(wake.admission) /\ turn \in StartedTurns

\* The proof of the wait needs the acknowledged admission and, in the
\* rollout, a wake turn that has completed with no other turn before it.
Proved ==
  /\ wake.admission # 0 /\ wake.ack /\ ValidAdmission(wake.admission)
  /\ turn = "completed" /\ history # "otherTurn"

Confirm(p) ==
  /\ pc[p] = "confirm"
  /\ IF wake.state \in TerminalWakeStates THEN Done(p)
     ELSE IF wake.woken THEN Step(p, "wokenPost")
     ELSE IF Proved THEN Step(p, "woken")
     ELSE Fatal(p)
  /\ UNCHANGED <<journal, inbox, host, service, faults>>

\* Written over whatever state the wake has by now.
JournalWoken(p) ==
  /\ pc[p] = "woken"
  /\ wake' = [wake EXCEPT !.state = "dispatched", !.woken = TRUE]
  /\ Step(p, "wokenPost")
  /\ UNCHANGED <<await, inbox, host, service, faults>>

PostWoken(p) == pc[p] = "wokenPost" /\ Post(p, "woken", "awaitRunning")

\* Mutant: any turn that was seen is finished.
AwaitRunningFinishes(p) ==
  /\ pc[p] = "awaitRunning"
  /\ await' = IF await = "wake_received" THEN "running" ELSE await
  /\ Step(p, IF mem[p].turn \in StartedTurns THEN "finish" ELSE "markRunning")
  /\ UNCHANGED <<wake, inbox, host, service, faults>>

AwaitRunning(p) ==
  /\ pc[p] = "awaitRunning"
  /\ await' = IF await = "wake_received" THEN "running" ELSE await
  /\ Step(p, IF mem[p].turn \in TerminalTurns THEN "finish" ELSE "markRunning")
  /\ UNCHANGED <<wake, inbox, host, service, faults>>

MarkRunning(p) ==
  /\ pc[p] = "markRunning"
  /\ wake' = IF wake.state = "dispatched" THEN [wake EXCEPT !.state = "running"] ELSE wake
  /\ Done(p)
  /\ UNCHANGED <<await, inbox, host, service, faults>>

-----------------------------------------------------------------------------
(* #finishWakeTurn *)

Finish(p) ==
  /\ pc[p] = "finish"
  /\ IF wake.state \in TerminalWakeStates THEN Done(p)
     ELSE StepWith(p, "finishPost", [mem[p] EXCEPT !.await = await])
  /\ UNCHANGED <<journal, inbox, host, service, faults>>

\* The receipt and the terminal states are named like the turn's outcome.
PostFinish(p) == pc[p] = "finishPost" /\ Post(p, mem[p].turn, "finishWake")

\* Mutant: a wake already marked running cannot end.
FinishableBeforeRunning == {"dispatched", "submitted", "dispatching", "dispatch_uncertain"}

Finishable == {"dispatched", "running", "submitted", "dispatching", "dispatch_uncertain"}

FinishWake(p) ==
  /\ pc[p] = "finishWake"
  /\ IF wake.state \in Finishable
     THEN wake' = [wake EXCEPT !.state = mem[p].turn] /\ Step(p, "finishAwait")
     ELSE UNCHANGED wake /\ Fatal(p)
  /\ UNCHANGED <<await, inbox, host, service, faults>>

\* The second journal write, on the await state read before the receipt.
FinishAwait(p) ==
  LET a == mem[p].await
  IN  /\ pc[p] = "finishAwait"
      /\ IF a \in {"running", "wake_received", "wake_pending"}
         THEN IF await = a THEN await' = mem[p].turn /\ Done(p)
              ELSE UNCHANGED await /\ Fatal(p)
         ELSE UNCHANGED await /\ Done(p)
      /\ UNCHANGED <<wake, inbox, host, service, faults>>

Recover(p) ==
  \/ ReadFence(p) \/ ReadOutcome(p)
  \/ LookUpSubmission(p) \/ Submit(p)
  \/ Confirm(p) \/ JournalWoken(p) \/ PostWoken(p) \/ AwaitRunning(p) \/ MarkRunning(p)
  \/ Finish(p) \/ PostFinish(p) \/ FinishWake(p) \/ FinishAwait(p)
=============================================================================
