--------------------------- MODULE CrashReconciler ---------------------------
(***************************************************************************)
(* HeldCallCrashReconciler.reconcile: what a supervisor does with a held   *)
(* call whose origin turn the host proved aborted, and the certification   *)
(* that ends its pass over the call.                                       *)
(*                                                                         *)
(* Before it touches the service a pass publishes an intent naming its     *)
(* stage; afterwards it publishes what it applied.                         *)
(***************************************************************************)
EXTENDS HeldCallState

\* A pass that neither publishes nor calls.
readOnly == <<records, service, originAborted, waiter, faults>>

\* A pass without an arm attempt or an origin abort leaves the call to the
\* certification; otherwise it persists the abort receipt.
CrashBegin(p) ==
  /\ pc[p] = "crash"
  /\ \/ /\ "armAttempt" \in disk
        /\ originAborted
        /\ Publish("originAbortReceipt")
        /\ Goto(p, "crashRead")
     \/ /\ "armAttempt" \notin disk \/ ~originAborted
        /\ Goto(p, "certify")
        /\ UNCHANGED disk
  /\ UNCHANGED <<authority, freeze, intent, applied, terminal, archived,
                 service, originAborted, waiter, memory, faults>>

-----------------------------------------------------------------------------
(* What the records allow the pass to do *)

\* #existingDisposition, for the records read when the pass started: the
\* applied record must describe exactly those.
ExistingDisposition(p, startTerminal, startSuspension) ==
  IF applied = "remote_cancelled"
  THEN IF startTerminal = "remote_cancelled" THEN Goto(p, "archive") ELSE Throw(p)
  ELSE IF ~startSuspension \/ startTerminal = "remote_cancelled" THEN Throw(p)
       ELSE Goto(p, IF startTerminal = "none" THEN "certify" ELSE "archive")

\* The error lifecycle still owns a failed call without a commit attempt.
\*
\* Mutants: it owns the call whatever the crash reconciler began; it owns it
\* before the host observed the error.
ErrorLifecycleAlwaysOwns ==
  /\ {"toolError", "toolErrorObservation"} \subseteq disk
  /\ "commitAttempt" \notin disk
BareErrorOwns ==
  /\ intent = "none"
  /\ "toolError" \in disk
  /\ "commitAttempt" \notin disk

ErrorLifecycleOwns ==
  /\ intent = "none"
  /\ {"toolError", "toolErrorObservation"} \subseteq disk
  /\ "commitAttempt" \notin disk

\* A freeze yields only to an arm intent whose cancellation became visible.
Frozen ==
  /\ freeze # "none"
  /\ \/ intent = "none"
     \/ /\ intent = "arm"
        /\ \/ freeze # "cancelled"
           \/ "armBinding" \notin disk /\ terminal = "none"

ArmIntentOvertaken ==
  /\ intent = "arm"
  /\ terminal \notin {"none", "remote_cancelled"} \/ "commitAttempt" \in disk

CompletedBefore == intent = "none" /\ terminal \notin {"none", "remote_cancelled"}

CommitContext ==
  {"armBinding", "transcriptBoundary", "waiterReady", "commitAttempt"}
    \subseteq disk

CommitStage == intent = "commit" \/ (intent = "none" /\ "commitAttempt" \in disk)

\* The pass reads all records, then decides.
CrashRead(p) ==
  /\ pc[p] = "crashRead"
  /\ held' = [held EXCEPT ![p] = terminal]
  /\ Remember(p, IF "suspensionCommitted" \in disk
                 THEN "suspensionCommitted" ELSE "nothing")
  /\ IF intent # "none" /\ applied # "none"
     THEN ExistingDisposition(p, terminal, "suspensionCommitted" \in disk)
     ELSE Goto(p,
       IF ErrorLifecycleOwns \/ Frozen \/ ArmIntentOvertaken THEN "idle"
       ELSE IF CompletedBefore THEN "archive"
       ELSE IF CommitStage
       THEN (IF CommitContext THEN "crashAuthority" ELSE "idle")
       ELSE IF intent = "none" /\ "suspensionCommitted" \in disk THEN "idle"
       ELSE IF "armBinding" \in disk THEN "crashBound" ELSE "crashArm")
  /\ UNCHANGED <<readOnly, overtaken>>

-----------------------------------------------------------------------------
(* The arm stage: discover the await, bind it, elect, cancel *)

\* A cancelled reply to the replayed arm is let through when another process
\* bound the await in the meantime; every other state but armed is frozen.
CrashArm(p) ==
  /\ pc[p] = "crashArm"
  /\ Send("arm")
  /\ \/ /\ ArmEffect
        /\ \/ remote' = "armed" /\ Goto(p, "crashBind") /\ UNCHANGED seen
           \/ /\ remote' = "cancelled" /\ "armBinding" \in disk
              /\ Goto(p, "crashBound")
              /\ UNCHANGED seen
           \/ /\ remote' # "armed"
              /\ remote' = "cancelled" => "armBinding" \notin disk
              /\ Goto(p, "crashFreeze")
              /\ Remember(p, ApiState(remote'))
        /\ UNCHANGED faults
     \/ /\ Fault
        /\ ArmEffect \/ UNCHANGED remote
        /\ Goto(p, "idle")
        /\ UNCHANGED seen
  /\ UNCHANGED <<records, originAborted, waiter, held, overtaken>>

CrashFreeze(p) ==
  /\ pc[p] = "crashFreeze"
  /\ freeze' = IF freeze = "none" THEN seen[p] ELSE freeze
  /\ Goto(p, "idle")
  /\ UNCHANGED <<disk, authority, intent, applied, terminal, archived,
                 service, originAborted, waiter, memory, faults>>

\* Publishing one record and going on.
CrashPublish(p, from, r, to) ==
  /\ pc[p] = from
  /\ Publish(r)
  /\ Goto(p, to)
  /\ UNCHANGED <<authority, freeze, intent, applied, terminal, archived,
                 service, originAborted, waiter, memory, faults>>

CrashBind(p)  == CrashPublish(p, "crashBind", "armBinding", "crashBound")
CrashBound(p) == CrashPublish(p, "crashBound", "transcriptBoundary", "crashReady")
CrashReady(p) == CrashPublish(p, "crashReady", "waiterReady", "crashDecide")

\* The pass obeys the authority it read or elected.  A commit contradicts an
\* arm intent, a cancellation a commit attempt or a commit intent, and a
\* cancellation elected on a tool error needs that error.
CrashObey(p, winner, sawCommit) ==
  Goto(p,
    IF winner = "commit" /\ intent # "arm" THEN "crashAttempt"
    ELSE IF /\ winner \in CancelAuthorities
            /\ ~sawCommit
            /\ intent # "commit"
            /\ winner = "cancelOnToolError" =>
                 {"toolError", "toolErrorObservation"} \subseteq disk
    THEN "crashIntentArm"
    ELSE "idle")

CrashDecide(p) ==
  LET sawCommit == "commitAttempt" \in disk IN
  /\ pc[p] = "crashDecide"
  /\ IF authority = "none"
     THEN /\ Remember(p, IF sawCommit THEN "commitAttempt" ELSE "nothing")
          /\ Goto(p, "crashElect")
     ELSE CrashObey(p, authority, sawCommit) /\ Remember(p, "nothing")
  /\ UNCHANGED <<readOnly, held, overtaken>>

CrashElect(p) ==
  LET sawCommit == seen[p] = "commitAttempt"
      candidate == IF sawCommit THEN "commit" ELSE "cancelOnOriginAbort"
  IN
  /\ pc[p] = "crashElect"
  /\ Elect(candidate)
  /\ CrashObey(p, Winner(candidate), sawCommit)
  /\ UNCHANGED <<disk, freeze, intent, applied, terminal, archived, service,
                 originAborted, waiter, memory, faults>>

\* #intent, then the disposition it may already have.  A supervisor that lost
\* the publication takes the winner's intent if its stage agrees.
CrashIntent(p, stage, next) ==
  /\ intent' = IF intent = "none" THEN stage ELSE intent
  /\ IF intent \notin {"none", stage} THEN Throw(p)
     ELSE IF applied # "none"
     THEN ExistingDisposition(p, held[p], seen[p] = "suspensionCommitted")
     ELSE Goto(p, next)
  /\ UNCHANGED <<disk, authority, freeze, applied, terminal, archived,
                 service, originAborted, waiter, memory, faults>>

CrashIntentArm(p) ==
  pc[p] = "crashIntentArm" /\ CrashIntent(p, "arm", "crashCancel")

CrashCancel(p) ==
  /\ pc[p] = "crashCancel"
  /\ Send("cancel")
  /\ \/ /\ CancelAccepted
        /\ CancelEffect
        /\ Goto(p, "crashTerminal")
        /\ UNCHANGED faults
     \/ /\ ~CancelAccepted
        /\ Goto(p, "idle")
        /\ UNCHANGED <<remote, faults>>
     \/ /\ Fault
        /\ CancelEffect \/ UNCHANGED remote
        /\ Goto(p, "idle")
  /\ UNCHANGED <<records, originAborted, waiter, memory>>

\* Mutant: what was applied is recorded before the terminal.
CrashTerminalSkipped(p) ==
  /\ pc[p] = "crashTerminal"
  /\ Goto(p, "crashCancelled")
  /\ UNCHANGED <<records, service, originAborted, waiter, memory, faults>>

CrashTerminal(p) ==
  /\ pc[p] = "crashTerminal"
  /\ PublishTerminal("remote_cancelled")
  /\ Goto(p, IF terminal \in {"none", "remote_cancelled"}
             THEN "crashCancelled" ELSE "idle")
  /\ UNCHANGED <<disk, authority, freeze, intent, applied, archived, service,
                 originAborted, waiter, memory, faults>>

CrashCancelled(p) ==
  /\ pc[p] = "crashCancelled"
  /\ applied' = IF applied = "none" THEN "remote_cancelled" ELSE applied
  /\ Goto(p, "archive")
  /\ UNCHANGED <<disk, authority, freeze, intent, terminal, archived, service,
                 originAborted, waiter, memory, faults>>

-----------------------------------------------------------------------------
(* The commit stage: replay the commit and authorise recovery *)

CrashAttempt(p) ==
  CrashPublish(p, "crashAttempt", "commitAttempt", "crashAuthority")

CrashAuthority(p) ==
  /\ pc[p] = "crashAuthority"
  /\ Elect("commit")
  /\ Goto(p, IF Winner("commit") = "commit" THEN "crashIntentCommit" ELSE "idle")
  /\ UNCHANGED <<disk, freeze, intent, applied, terminal, archived, service,
                 originAborted, waiter, memory, faults>>

CrashIntentCommit(p) ==
  pc[p] = "crashIntentCommit" /\ CrashIntent(p, "commit", "crashCommit")

CrashCommit(p) ==
  /\ pc[p] = "crashCommit"
  /\ Send("commit")
  /\ \/ /\ CommitAccepted
        /\ CommitEffect
        /\ Goto(p, "crashSuspend")
        /\ UNCHANGED faults
     \/ /\ ~CommitAccepted
        /\ Goto(p, "idle")
        /\ UNCHANGED <<remote, faults>>
     \/ /\ Fault
        /\ CommitEffect \/ UNCHANGED remote
        /\ Goto(p, "idle")
  /\ UNCHANGED <<records, originAborted, waiter, memory>>

CrashSuspend(p) ==
  CrashPublish(p, "crashSuspend", "suspensionCommitted", "crashCommitted")

\* The recovery is authorised, or a terminal from the start of the pass is
\* archived.
CrashCommitted(p) ==
  /\ pc[p] = "crashCommitted"
  /\ applied' = IF applied = "none" THEN "suspension_committed" ELSE applied
  /\ Goto(p, IF held[p] = "none" THEN "certify"
             ELSE IF held[p] = "remote_cancelled" THEN "idle" ELSE "archive")
  /\ UNCHANGED <<disk, authority, freeze, intent, terminal, archived, service,
                 originAborted, waiter, memory, faults>>

-----------------------------------------------------------------------------
(* HeldWaitCertifier.#reconcileRequest after the two reconciliations: once   *)
(* the wake was delivered, evidence may show the call complete.  Either the  *)
(* host's transcript holds the result, or a recovery turn took the place of  *)
(* the aborted one.  "completion_posted" stands for both dispositions.       *)

\* Mutants: a suspended call passes for a complete one; a delivered wake for a
\* consumed one.
CompletionWithoutDelivery ==
  /\ {"armBinding", "transcriptBoundary"} \subseteq disk
  /\ "originAbortReceipt" \in disk
CompletionOnDelivery ==
  {"armBinding", "transcriptBoundary", "wakeDelivery"} \subseteq disk

CompletionProvable ==
  /\ {"armBinding", "transcriptBoundary", "wakeDelivery"} \subseteq disk
  /\ \/ "observationIntent" \in disk /\ waiter = "returned"
     \/ "originAbortReceipt" \in disk

Certify(p) ==
  /\ pc[p] = "certify"
  /\ \/ /\ CompletionProvable
        /\ PublishTerminal("completion_posted")
        /\ Goto(p, IF terminal \in {"none", "completion_posted"}
                   THEN "archive" ELSE "idle")
     \/ /\ Goto(p, "idle")
        /\ UNCHANGED terminal
  /\ UNCHANGED <<disk, authority, freeze, intent, applied, archived, service,
                 originAborted, waiter, memory, faults>>

CrashStep(p) ==
  \/ CrashBegin(p) \/ CrashRead(p)
  \/ CrashArm(p) \/ CrashFreeze(p) \/ CrashBind(p) \/ CrashBound(p)
  \/ CrashReady(p) \/ CrashDecide(p) \/ CrashElect(p) \/ CrashIntentArm(p)
  \/ CrashCancel(p) \/ CrashTerminal(p) \/ CrashCancelled(p)
  \/ CrashAttempt(p) \/ CrashAuthority(p) \/ CrashIntentCommit(p)
  \/ CrashCommit(p) \/ CrashSuspend(p) \/ CrashCommitted(p) \/ Certify(p)
=============================================================================
