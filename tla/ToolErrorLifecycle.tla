------------------------- MODULE ToolErrorLifecycle -------------------------
(***************************************************************************)
(* HarkToolErrorLifecycle.reconcile: what a process does with a held call  *)
(* whose tool error the host has observed.  The MCP server runs it until   *)
(* the call is released, every supervisor runs it at the start of each     *)
(* pass over the pending calls.                                            *)
(***************************************************************************)
EXTENDS HeldCallState

\* A pass reads the arm attempt first.
ErrorBegin(p) ==
  /\ pc[p] = "idle"
  /\ IF p = Mcp THEN waiter = "reconciling" ELSE ~archived
  /\ Remember(p, IF "armAttempt" \in disk THEN "armAttempt" ELSE "nothing")
  /\ Goto(p, "errorRead")
  /\ UNCHANGED <<records, service, originAborted, waiter, held, overtaken, faults>>

\* What that read found, which the call may have overtaken since.
SawAttempt(p) == seen[p] = "armAttempt"

\* Mutant: a call without a binding is taken for one that was never armed.
NeverBound(p) == "armBinding" \notin disk

NeverArmed(p) == ~SawAttempt(p)

\* Mutant: a terminal is archived without regard to the crash reconciliation.
NothingPending(p) == FALSE

ReconciliationPending(p) ==
  SawAttempt(p) /\ intent # "none" /\ applied = "none"

\* ... then whatever could forbid it to act.  A terminal is archived, except
\* while a crash reconciliation has still to record what it applied.
ErrorDisposition(p) ==
  IF terminal # "none" THEN
    IF ReconciliationPending(p) THEN Return(p, "owned")
    ELSE Goto(p, "archive") /\ UNCHANGED waiter
  ELSE IF "toolError" \notin disk THEN Return(p, "inactive")
  ELSE IF "toolErrorObservation" \notin disk THEN Return(p, "owned")
  ELSE IF NeverArmed(p) THEN Goto(p, "preArm") /\ UNCHANGED waiter
  ELSE IF freeze # "none" \/ intent # "none" THEN Return(p, "owned")
  ELSE /\ Goto(p, IF "armBinding" \in disk THEN "errorBound" ELSE "errorArm")
       /\ UNCHANGED waiter

ErrorRead(p) ==
  /\ pc[p] = "errorRead"
  /\ ErrorDisposition(p)
  /\ UNCHANGED <<records, service, originAborted, memory, faults>>

\* As far as the pass knows nothing was ever sent to the service: the call is
\* over.  The attempt is not read again.
PreArm(p) ==
  /\ pc[p] = "preArm"
  /\ PublishTerminal("pre_arm_failed")
  /\ IF terminal \in {"none", "pre_arm_failed"}
     THEN Goto(p, "archive") /\ UNCHANGED waiter
     ELSE Throw(p)
  /\ overtaken' =
       (overtaken \/ (terminal = "none" /\ ~SawAttempt(p) /\ "armAttempt" \in disk))
  /\ UNCHANGED <<disk, authority, freeze, intent, applied, archived, service,
                 originAborted, seen, held, faults>>

\* #replayArm: only an await still in state armed may be bound; any other
\* state is frozen.
ErrorArm(p) ==
  /\ pc[p] = "errorArm"
  /\ Send("arm")
  /\ \/ /\ ArmEffect
        /\ IF remote' = "armed"
           THEN Goto(p, "errorBind") /\ UNCHANGED seen
           ELSE Goto(p, "errorFreeze") /\ Remember(p, ApiState(remote'))
        /\ UNCHANGED <<waiter, faults>>
     \/ /\ Fault
        /\ ArmEffect \/ UNCHANGED remote
        /\ Return(p, "pending")
        /\ UNCHANGED seen
  /\ UNCHANGED <<records, originAborted, held, overtaken>>

ErrorFreeze(p) ==
  /\ pc[p] = "errorFreeze"
  /\ freeze' = IF freeze = "none" THEN seen[p] ELSE freeze
  /\ IF freeze \in {"none", seen[p]} THEN Return(p, "owned") ELSE Throw(p)
  /\ UNCHANGED <<disk, authority, intent, applied, terminal, archived,
                 service, originAborted, memory, faults>>

ErrorBind(p) ==
  /\ pc[p] = "errorBind"
  /\ Publish("armBinding")
  /\ Goto(p, "errorBound")
  /\ UNCHANGED <<authority, freeze, intent, applied, terminal, archived,
                 service, originAborted, waiter, memory, faults>>

ErrorBound(p) ==
  /\ pc[p] = "errorBound"
  /\ Publish("transcriptBoundary")
  /\ Goto(p, "errorDecide")
  /\ UNCHANGED <<authority, freeze, intent, applied, terminal, archived,
                 service, originAborted, waiter, memory, faults>>

\* The process obeys the authority it read or elected.
ErrorObey(p, winner, sawCommit) ==
  IF \/ winner = "conflict"
     \/ winner \in CancelAuthorities /\ sawCommit
     \/ winner = "commit" /\ "waiterReady" \notin disk
  THEN Throw(p)
  ELSE /\ Goto(p, IF winner = "commit" THEN "errorAttempt" ELSE "errorCancel")
       /\ UNCHANGED waiter

ErrorDecide(p) ==
  LET sawCommit == {"waiterReady", "commitAttempt"} \subseteq disk IN
  /\ pc[p] = "errorDecide"
  /\ IF authority = "none"
     THEN /\ Remember(p, IF sawCommit THEN "commitAttempt" ELSE "nothing")
          /\ Goto(p, "errorElect")
          /\ UNCHANGED waiter
     ELSE ErrorObey(p, authority, sawCommit) /\ UNCHANGED seen
  /\ UNCHANGED <<records, service, originAborted, held, overtaken, faults>>

ErrorElect(p) ==
  LET sawCommit == seen[p] = "commitAttempt"
      candidate == IF sawCommit THEN "commit" ELSE "cancelOnToolError"
  IN
  /\ pc[p] = "errorElect"
  /\ Elect(candidate)
  /\ ErrorObey(p, Winner(candidate), sawCommit)
  /\ UNCHANGED <<disk, freeze, intent, applied, terminal, archived, service,
                 originAborted, memory, faults>>

\* #cancel
ErrorCancel(p) ==
  /\ pc[p] = "errorCancel"
  /\ Send("cancel")
  /\ \/ /\ CancelAccepted
        /\ CancelEffect
        /\ Goto(p, "errorTerminal")
        /\ UNCHANGED <<waiter, faults>>
     \/ /\ ~CancelAccepted
        /\ Throw(p)
        /\ UNCHANGED <<remote, faults>>
     \/ /\ Fault
        /\ CancelEffect \/ UNCHANGED remote
        /\ Return(p, "pending")
  /\ UNCHANGED <<records, originAborted, memory>>

ErrorTerminal(p) ==
  /\ pc[p] = "errorTerminal"
  /\ PublishTerminal("remote_cancelled")
  /\ IF terminal \in {"none", "remote_cancelled"}
     THEN Goto(p, "archive") /\ UNCHANGED waiter
     ELSE Throw(p)
  /\ UNCHANGED <<disk, authority, freeze, intent, applied, archived, service,
                 originAborted, memory, faults>>

\* The commit branch: publish the attempt the authority names, replay it.
ErrorAttempt(p) ==
  /\ pc[p] = "errorAttempt"
  /\ Publish("commitAttempt")
  /\ Goto(p, "errorCommit")
  /\ UNCHANGED <<authority, freeze, intent, applied, terminal, archived,
                 service, originAborted, waiter, memory, faults>>

\* #replayCommit
ErrorCommit(p) ==
  /\ pc[p] = "errorCommit"
  /\ \/ /\ "suspensionCommitted" \in disk
        /\ Return(p, "owned")
        /\ UNCHANGED <<service, faults>>
     \/ /\ "suspensionCommitted" \notin disk
        /\ Send("commit")
        /\ \/ /\ CommitAccepted
              /\ CommitEffect
              /\ Goto(p, "errorSuspend")
              /\ UNCHANGED <<waiter, faults>>
           \/ /\ ~CommitAccepted
              /\ Throw(p)
              /\ UNCHANGED <<remote, faults>>
           \/ /\ Fault
              /\ CommitEffect \/ UNCHANGED remote
              /\ Return(p, "pending")
  /\ UNCHANGED <<records, originAborted, memory>>

ErrorSuspend(p) ==
  /\ pc[p] = "errorSuspend"
  /\ Publish("suspensionCommitted")
  /\ Return(p, "owned")
  /\ UNCHANGED <<authority, freeze, intent, applied, terminal, archived,
                 service, originAborted, memory, faults>>

ErrorStep(p) ==
  \/ ErrorBegin(p) \/ ErrorRead(p) \/ PreArm(p)
  \/ ErrorArm(p) \/ ErrorFreeze(p) \/ ErrorBind(p) \/ ErrorBound(p)
  \/ ErrorDecide(p) \/ ErrorElect(p)
  \/ ErrorCancel(p) \/ ErrorTerminal(p)
  \/ ErrorAttempt(p) \/ ErrorCommit(p) \/ ErrorSuspend(p)
=============================================================================
