---------------------------- MODULE WakeDispatch ----------------------------
(***************************************************************************)
(* The way out: #acceptWake, #acknowledgeAndDispatch and #dispatchWake of  *)
(* the supervisor, from a claimed wake to the host call.  The host call is *)
(* fenced by the dispatch intent, an immutable file published before it.   *)
(***************************************************************************)
EXTENDS WakeState

\* A claim delivered by the service.  Held claims are made only while the
\* journal has no live record of the wake; generic ones repeat whenever the
\* service offers the wake again under a newer lease.
Offered ==
  /\ phase = "up" /\ pc[Claimer] = "idle"
  /\ receipts \cap TerminalReceipts = {}
  /\ HeldRecovery => wake.state \in {"absent", "needs_reclaim"}

\* The held recovery first stages the await in the journal, if it is missing.
Staged == IF HeldRecovery /\ await = "none" THEN "suspended" ELSE await

\* #acceptWake with a new lease: "dispatch" (also the two held dispositions)
\* starts afresh, "recover_dispatch" keeps what the journal knows, and so
\* does any claim that finds a dispatch intent on disk.
AcceptClaim ==
  LET p     == Claimer
      entry == [NoMemory EXCEPT !.queued = TRUE]
      fresh == NewWake("claimed", wake.gen + 1)
      keep(state) == [wake EXCEPT !.gen = wake.gen + 1, !.state = state]
  IN  /\ Offered /\ wake.gen < MaxClaims /\ wake.state \notin TerminalWakeStates
      /\ \/ /\ HeldRecovery => Staged \in Unreceived
            /\ await' = Staged
            /\ lapsed' = FALSE
            /\ \/ /\ intent = 0
                  /\ wake' = fresh
                  /\ StepWith(p, "ackRead", entry)
               \/ /\ ~HeldRecovery /\ intent = 0 /\ "received" \in receipts
                  /\ wake' = keep(IF wake.state \in {"absent", "needs_reclaim"}
                                  THEN "dispatch_uncertain" ELSE wake.state)
                  /\ IF wake'.state = "dispatching" THEN UNCHANGED control
                     ELSE StepWith(p, "fence", [entry EXCEPT !.state = wake'.state])
               \/ /\ intent # 0
                  /\ wake' = keep("dispatch_uncertain")
                  /\ StepWith(p, "fence", [entry EXCEPT !.state = "dispatch_uncertain"])
         \/ /\ HeldRecovery /\ Staged \notin Unreceived
            /\ Fatal(p)
            /\ UNCHANGED <<journal, lapsed>>
      /\ UNCHANGED <<inbox, host, receipts, faults>>

\* #acceptWake with the lease the journal already has: an explicit replay,
\* which may recover even a wake found dispatching.
AcceptReplay ==
  /\ ~HeldRecovery /\ Offered /\ ~lapsed
  /\ Recoverable
  /\ StepWith("poll", "fence", [NoMemory EXCEPT !.state = wake.state, !.queued = TRUE])
  /\ UNCHANGED <<journal, inbox, host, service, faults>>

-----------------------------------------------------------------------------
(* #acknowledgeAndDispatch *)

AckRead(p) ==
  /\ pc[p] = "ackRead"
  /\ IF wake.state = "claimed" THEN Step(p, "ackPost") ELSE Done(p)
  /\ UNCHANGED <<journal, inbox, host, service, faults>>

\* Mutant: a refused wake_received is logged and the dispatch goes on.
AckPostTolerant(p) ==
  /\ pc[p] = "ackPost"
  /\ \/ Post(p, "received", "awaitReceived")
     \/ /\ lapsed /\ "received" \notin receipts
        /\ Step(p, "awaitReceived")
        /\ UNCHANGED <<journal, inbox, host, service, faults>>

\* Refused with 409 or 410, the wake needs a new claim, and the error is
\* thrown on.
AckPost(p) ==
  /\ pc[p] = "ackPost"
  /\ \/ Post(p, "received", "awaitReceived") /\ (lapsed => "received" \in receipts)
     \/ /\ lapsed /\ "received" \notin receipts
        /\ wake' = IF wake.state = "claimed"
                   THEN [wake EXCEPT !.state = "needs_reclaim"] ELSE wake
        /\ Fatal(p)
        /\ UNCHANGED <<await, inbox, host, service, faults>>

AwaitReceived(p) ==
  /\ pc[p] = "awaitReceived"
  /\ await' = IF await \in Unreceived THEN "wake_received" ELSE await
  /\ Step(p, "thread")
  /\ UNCHANGED <<wake, inbox, host, service, faults>>

-----------------------------------------------------------------------------
(* #dispatchWake, #preflightWake and #refuseWakeDispatch *)

\* Every journal write that gives a dispatch up for a later pass.
Defer(p) ==
  /\ wake' = IF wake.state \in Undispatched
             THEN [wake EXCEPT !.state = "dispatch_deferred"] ELSE wake
  /\ Done(p)
  /\ UNCHANGED <<await, inbox, host, service>>

\* The thread is read.  The marker turn wins over everything; without it a
\* busy thread defers the wake.
ReadThread(p) ==
  /\ pc[p] = "thread"
  /\ \/ \E seen \in SeenTurns \ {"none"} :
          /\ StepWith(p, "lookup", [mem[p] EXCEPT !.turn = seen])
          /\ UNCHANGED <<journal, inbox, host, service, faults>>
     \/ /\ "none" \in SeenTurns
        /\ \/ Step(p, "preflight") /\ UNCHANGED <<journal, inbox, host, service, faults>>
           \/ turn = "requested" /\ Defer(p) /\ UNCHANGED faults
           \/ turn # "requested" /\ Fault /\ Defer(p)

\* The rollout is scanned as it is now, the wake's own turn included.  A
\* rollback, or a turn that has started, makes the wake ineligible; a turn
\* that has also ended makes the scan itself throw.
Preflight(p) ==
  /\ pc[p] = "preflight"
  /\ \/ Fault /\ Defer(p)
     \/ /\ IF turn \in TerminalTurns \/ history = "otherTurn" THEN Fatal(p)
           ELSE IF turn = "running" \/ history = "rolledBack" THEN Step(p, "refusePost")
           ELSE Step(p, "check")
        /\ UNCHANGED <<journal, inbox, host, service, faults>>

\* The service must answer that the wake is failed.
RefusePost(p) ==
  /\ pc[p] = "refusePost"
  /\ \/ receipts \cap {"woken", "completed", "failed"} = {} /\ Post(p, "dispatch_failed", "refuse")
     \/ /\ receipts \cap {"woken", "completed", "failed"} # {}
        /\ Fatal(p)
        /\ UNCHANGED <<journal, inbox, host, service, faults>>

\* From whatever state the wake has reached meanwhile.
Refuse(p) ==
  /\ pc[p] = "refuse"
  /\ wake' = [wake EXCEPT !.state = "failed"]
  /\ Step(p, "refuseAwait")
  /\ UNCHANGED <<await, inbox, host, service, faults>>

RefuseAwait(p) ==
  /\ pc[p] = "refuseAwait"
  /\ await' = IF await \in {"wake_received", "wake_pending"} THEN "failed" ELSE await
  /\ Done(p)
  /\ UNCHANGED <<wake, inbox, host, service, faults>>

\* The wake is read again after the preflight.
Check(p) ==
  /\ pc[p] = "check"
  /\ IF wake.state \in Undispatched
     THEN StepWith(p, "reserve", [mem[p] EXCEPT !.state = wake.state])
     ELSE Done(p)
  /\ UNCHANGED <<journal, inbox, host, service, faults>>

\* #ensureWakeDispatchFence: an intent on disk forbids another attempt.
Reserve(p) ==
  /\ pc[p] = "reserve"
  /\ IF intent # 0 THEN Fatal(p) ELSE Step(p, "begin")
  /\ UNCHANGED <<journal, inbox, host, service, faults>>

\* Mutants: the attempt's generation is not recorded; the state is not
\* compared.
BeginUnrecorded(p) ==
  /\ pc[p] = "begin"
  /\ IF wake.state = mem[p].state
     THEN wake' = [wake EXCEPT !.state = "dispatching"] /\ Step(p, "admit")
     ELSE UNCHANGED wake /\ Done(p)
  /\ UNCHANGED <<await, inbox, host, service, faults>>

BeginUnchecked(p) ==
  /\ pc[p] = "begin"
  /\ wake' = [wake EXCEPT !.state = "dispatching", !.attempt = wake.gen]
  /\ Step(p, "admit")
  /\ UNCHANGED <<await, inbox, host, service, faults>>

\* Compare and swap in the journal: one task at most begins the dispatch.
Begin(p) ==
  /\ pc[p] = "begin"
  /\ IF wake.state = mem[p].state
     THEN /\ wake' = [wake EXCEPT !.state = "dispatching", !.attempt = wake.gen]
          /\ Step(p, "admit")
     ELSE UNCHANGED wake /\ Done(p)
  /\ UNCHANGED <<await, inbox, host, service, faults>>

-----------------------------------------------------------------------------
(* #publishWakeAdmission, publishWakeDispatchIntent and turn/start *)

PublishAdmission(p) ==
  /\ pc[p] = "admit"
  /\ IF wake.state = "dispatching" /\ intent = 0
     THEN admissions' = admissions \cup {wake.gen} /\ Step(p, "admitJournal")
     ELSE UNCHANGED admissions /\ Fatal(p)
  /\ UNCHANGED <<journal, intent, acks, host, service, faults>>

JournalAdmission(p) ==
  /\ pc[p] = "admitJournal"
  /\ IF wake.state = "dispatching" /\ wake.admission \in {0, wake.gen}
     THEN wake' = [wake EXCEPT !.admission = wake.gen] /\ Step(p, "intent")
     ELSE UNCHANGED wake /\ Fatal(p)
  /\ UNCHANGED <<await, inbox, host, service, faults>>

\* Mutant: the intent never reaches the disk.
IntentNotPersisted(p) ==
  /\ pc[p] = "intent"
  /\ Step(p, "intentJournal")
  /\ UNCHANGED <<journal, inbox, host, service, faults>>

\* Created by this call, or the outcome of an earlier attempt is unknown.
PublishIntent(p) ==
  /\ pc[p] = "intent"
  /\ IF intent = 0
     THEN intent' = wake.admission /\ Step(p, "intentJournal") /\ UNCHANGED wake
     ELSE /\ IF wake.state = "dispatching"
             THEN wake' = [wake EXCEPT !.state = "dispatch_uncertain"] /\ Done(p)
             ELSE UNCHANGED wake /\ Fatal(p)
          /\ UNCHANGED intent
  /\ UNCHANGED <<await, admissions, acks, host, service, faults>>

JournalIntent(p) ==
  /\ pc[p] = "intentJournal"
  /\ IF wake.state = "dispatching" THEN Step(p, "start") ELSE Fatal(p)
  /\ UNCHANGED <<journal, inbox, host, service, faults>>

\* The host call: answered, or cut off after the host has taken it.
StartTurn(p) ==
  /\ pc[p] = "start"
  /\ calls' = calls + 1
  /\ turn' = IF turn = "none" THEN "requested" ELSE turn
  /\ \/ Step(p, "observe") /\ UNCHANGED faults
     \/ Step(p, "lost") /\ Fault
  /\ UNCHANGED <<journal, inbox, guard, history, service>>

\* The turn identity of the answer is journalled unless the wake has ended.
ObserveTurn(p) ==
  /\ pc[p] = "observe"
  /\ IF wake.state \in TerminalWakeStates THEN Done(p) ELSE Step(p, "waitAck")
  /\ UNCHANGED <<journal, inbox, host, service, faults>>

\* Up to seven seconds for the guard's acknowledgement: a timeout is certain
\* once the guard has not admitted the prompt, a fault while it still may.
WaitAck(p) ==
  /\ pc[p] = "waitAck"
  /\ \/ /\ intent \in acks
        /\ StepWith(p, "submit", [mem[p] EXCEPT !.state = wake.state])
        /\ UNCHANGED faults
     \/ /\ intent \notin acks
        /\ \/ guard \in {"pass", "block"} /\ Fatal(p) /\ UNCHANGED faults
           \/ guard \in {"none", "admit"} /\ Fatal(p) /\ Fault
           \/ Step(p, "lost") /\ Fault
  /\ UNCHANGED <<journal, inbox, host, service>>

\* The catch of #dispatchWake when its connection to the host broke.
ConnectionLost(p) ==
  /\ pc[p] = "lost"
  /\ wake' = IF wake.state \in {"dispatching", "submitted", "running"}
             THEN [wake EXCEPT !.state = "dispatch_uncertain"] ELSE wake
  /\ Fatal(p)
  /\ UNCHANGED <<await, inbox, host, service, faults>>

Dispatch(p) ==
  \/ AckRead(p) \/ AckPost(p) \/ AwaitReceived(p)
  \/ ReadThread(p) \/ Preflight(p) \/ RefusePost(p) \/ Refuse(p) \/ RefuseAwait(p)
  \/ Check(p) \/ Reserve(p) \/ Begin(p)
  \/ PublishAdmission(p) \/ JournalAdmission(p) \/ PublishIntent(p) \/ JournalIntent(p)
  \/ StartTurn(p) \/ ObserveTurn(p) \/ WaitAck(p) \/ ConnectionLost(p)
=============================================================================
