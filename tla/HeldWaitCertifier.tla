-------------------------- MODULE HeldWaitCertifier --------------------------
(***************************************************************************)
(* HarkHeldWaitCertifier: the supervisor's loop that reports a delivered   *)
(* result to the service, certifies the turn that answered it and closes   *)
(* the request, or hands the wake back when the turn was aborted.          *)
(***************************************************************************)
EXTENDS HeldResult

Me == "certifier"

\* What no step of the certifier touches.
world == <<scan, host, handed>>

PendingInspections == {"waiting", "ambiguous_incomplete_tail"}
AbortedInspections == {"origin_aborted_before_result", "tool_result_then_aborted"}
PersistedInspections ==
  {"tool_result_persisted", "tool_result_then_aborted", "tool_result_turn_terminal"}

-----------------------------------------------------------------------------
(* A pass begins: is the origin turn provably gone? *)

PassBegin ==
  /\ At(Me, "idle")
  /\ ~archived
  /\ Goto(Me, "abort")
  /\ UNCHANGED cause

\* #proveHeldCallOriginAbort: the app server and the rollout must agree that
\* the turn was aborted, and nothing may have followed.
\*
\* Mutant: so is the turn whatever its end was.
AbortProvedByEnd(tail) ==
  IF scan.preflight.terminal # "none" THEN "aborted" ELSE "transient"

AbortProof(tail) ==
  IF gone THEN PreflightOutcome(scan.preflight, tail) ELSE "transient"

\* reconcileHeldCallCrash: the receipt is published once.
ProveAbort ==
  /\ At(Me, "abort")
  /\ \E tail \in Tails :
       IF "abortReceipt" \in disk \/ AbortProof(tail) \in {"transient", "ineligible"}
       THEN Goto(Me, "delivery") /\ UNCHANGED cause
       ELSE IF AbortProof(tail) = "refused" THEN Die(Me)
       ELSE Goto(Me, "publishAbort") /\ UNCHANGED cause

PublishAbort ==
  /\ At(Me, "publishAbort")
  /\ Publish("abortReceipt")
  /\ Goto(Me, "delivery")

\* Without a delivery there is nothing to certify yet.
ReadDelivery ==
  /\ At(Me, "delivery")
  /\ Goto(Me, IF "delivery" \notin disk THEN "idle"
              ELSE IF "returned" \in disk THEN "certify"
              ELSE "certifyMissing")
  /\ UNCHANGED cause

-----------------------------------------------------------------------------
(* #recoverMissingReturned: the hook has not recorded the result *)

CertifyMissing ==
  /\ At(Me, "certifyMissing")
  /\ \E kind \in Classifications :
       /\ remote' = IF kind = "invalid" THEN remote ELSE kind
       /\ IF kind = "invalid" THEN Die(Me)
          ELSE /\ Goto(Me, IF kind = "recovered" THEN "terminal"
                           ELSE IF kind = "handoff" \/ "intent" \notin disk THEN "idle"
                           ELSE "inspectMissing")
               /\ UNCHANGED cause

\* A result the service has not seen is taken for returned only while its
\* turn goes on or has ended well; one it has seen, also when the turn was
\* cut off after it, and if it never got there the wake is handed back.
MissingVerdict(state) ==
  IF state = "refused" THEN "fail"
  ELSE IF state \in PendingInspections THEN "wait"
  ELSE IF remote = "absent"
  THEN IF state \in PersistedInspections \ AbortedInspections THEN "publish" ELSE "wait"
  ELSE IF state \in PersistedInspections THEN "publish"
  ELSE IF state # "origin_aborted_before_result" THEN "fail"
  ELSE IF "abortReceipt" \in disk THEN "requeue" ELSE "wait"

\* Which recovery receipt an inspection calls for.
Requeue(state) ==
  IF state = "origin_aborted_before_result"
  THEN "tool_result_not_persisted" ELSE "tool_result_continuation_aborted"

Follow(verdict, state, next) ==
  IF verdict = "fail" THEN Die(Me) /\ UNCHANGED reason
  ELSE /\ Goto(Me, next)
       /\ reason' = IF verdict = "requeue" THEN Requeue(state) ELSE reason
       /\ UNCHANGED cause

InspectMissing ==
  /\ At(Me, "inspectMissing")
  /\ \E tail \in Tails :
       LET verdict == MissingVerdict(Inspection(tail))
       IN Follow(verdict, Inspection(tail),
                 CASE verdict = "publish" -> "publishReturned"
                   [] verdict = "requeue" -> "postRequeue"
                   [] OTHER               -> "idle")

PublishReturned ==
  /\ At(Me, "publishReturned")
  /\ Publish("returned")
  /\ Goto(Me, "certify")

\* A recovery receipt: the service queues the wake again.
PostRequeue ==
  /\ At(Me, "postRequeue")
  /\ IF service.wake = "running" \/ service.requeue = reason
     THEN /\ service' = IF service.wake = "running"
                        THEN [service EXCEPT !.wake = "queued", !.requeue = reason]
                        ELSE service
          /\ Goto(Me, "idle")
          /\ UNCHANGED cause
     ELSE Die(Me) /\ UNCHANGED service

-----------------------------------------------------------------------------
(* #resolveObservationIntent: has the service heard of the result? *)

Certify ==
  /\ At(Me, "certify")
  /\ IF "intent" \notin disk
     THEN Goto(Me, "idle") /\ UNCHANGED <<remote, cause>>
     ELSE \E kind \in Classifications :
            IF kind = "invalid" THEN Die(Me) /\ UNCHANGED remote
            ELSE remote' = kind /\ Goto(Me, "resolve") /\ UNCHANGED cause

\* The answer to the certification and the claim were read one after the
\* other; a claim spent without an observation is an error.
\*
\* Mutant: a result the service has not heard of is left to the hook.
ReportLeftToHook ==
  /\ At(Me, "resolved")
  /\ Goto(Me, CASE remote = "observed"  -> IF read[Me] = "pending" THEN "consume"
                                           ELSE "completion"
                [] remote = "recovered" -> "terminal"
                [] OTHER                -> "idle")
  /\ UNCHANGED cause

Resolved ==
  /\ At(Me, "resolved")
  /\ IF remote = "absent" /\ read[Me] = "consumed" THEN Die(Me)
     ELSE /\ Goto(Me, CASE remote = "observed"  -> IF read[Me] = "pending" THEN "consume"
                                                   ELSE "completion"
                        [] remote = "handoff"   -> "idle"
                        [] remote = "recovered" -> "terminal"
                        [] OTHER                -> "observe")
          /\ UNCHANGED cause

\* Mutant: the claim is spent on a refused observation too.
PostObservationRegardless ==
  /\ At(Me, "observe")
  /\ Observe
  /\ Goto(Me, "consume")

PostObservation ==
  /\ At(Me, "observe")
  /\ Observe
  /\ \E answer \in ObservationAnswers : Goto(Me, IF answer = "ack" THEN "consume" ELSE "idle")

Spent ==
  /\ At(Me, "spent")
  /\ Goto(Me, "completion")

-----------------------------------------------------------------------------
(* The turn that answered, and the end of the request *)

\* proveToolWait: only a missing output or an unfinished turn sends the pass to
\* inspect what there is.
ProveContinuation ==
  /\ At(Me, "completion")
  /\ IF "completion" \in disk THEN Goto(Me, "terminal") /\ UNCHANGED cause
     ELSE IF ProveOutcome(scan.prove) = "refused" THEN Die(Me)
     ELSE /\ Goto(Me, IF Proved THEN "postCompletion" ELSE "inspectContinuation")
          /\ UNCHANGED cause

\* inspectToolWait reads the rollout again, which has grown since; whether to
\* hand the wake back is for this second reading to say.  Any other state throws
\* the first error again, which is transient.
\*
\* Mutant: a turn that has not ended is taken for an aborted one.
RequeueUnfinished(state) == IF state = "refused" THEN "fail" ELSE "requeue"

ContinuationVerdict(state) ==
  IF state = "refused" THEN "fail"
  ELSE IF state \in AbortedInspections /\ "abortReceipt" \in disk THEN "requeue"
  ELSE "wait"

InspectContinuation ==
  /\ At(Me, "inspectContinuation")
  /\ \E tail \in Tails :
       LET verdict == ContinuationVerdict(Inspection(tail))
       IN Follow(verdict, Inspection(tail),
                 IF verdict = "requeue" THEN "postRequeue" ELSE "idle")

PostCompletion ==
  /\ At(Me, "postCompletion")
  /\ IF service.wake \in {"running", "completed"}
     THEN /\ service' = [service EXCEPT !.wake = "completed"]
          /\ Goto(Me, "certifyCompletion")
          /\ UNCHANGED cause
     ELSE Die(Me) /\ UNCHANGED service

CertifyCompletion ==
  /\ At(Me, "certifyCompletion")
  /\ IF service.wake = "completed" /\ service.requeue = "no"
     THEN Goto(Me, "publishCompletion") /\ UNCHANGED cause
     ELSE Die(Me)

PublishCompletion ==
  /\ At(Me, "publishCompletion")
  /\ Publish("completion")
  /\ Goto(Me, "terminal")

\* #recordTerminalAndArchive
PublishTerminal ==
  /\ At(Me, "terminal")
  /\ closed' = IF "completion" \in disk THEN "completion_posted" ELSE "crash_recovery_completed"
  /\ Goto(Me, "archive")

Archive ==
  /\ At(Me, "archive")
  /\ archived' = TRUE
  /\ Goto(Me, "done")

-----------------------------------------------------------------------------

\* A reply that never comes leaves the pass, whatever the service did.
LostReply ==
  /\ LoseReply
  /\ \/ At(Me, "observe") /\ Observe
     \/ /\ At(Me, "postRequeue")
        /\ service.wake = "running"
        /\ service' = [service EXCEPT !.wake = "queued", !.requeue = reason]
     \/ /\ At(Me, "postCompletion")
        /\ service.wake = "running"
        /\ service' = [service EXCEPT !.wake = "completed"]
     \/ /\ pc[Me] \in {"certifyMissing", "certify", "observe", "postRequeue",
                     "postCompletion", "certifyCompletion"}
        /\ UNCHANGED service
  /\ Goto(Me, "idle")

Certifier ==
  \/ ClaimStep(Me)
  \/ /\ UNCHANGED <<world, claim, read>>
     /\ \/ /\ PassBegin \/ ProveAbort \/ ReadDelivery \/ ProveContinuation \/ CertifyCompletion
           /\ UNCHANGED <<records, service, remote, reason, faults>>
        \/ /\ PublishAbort \/ PublishReturned \/ PublishCompletion
           /\ UNCHANGED <<closed, archived, service, remote, reason, cause, faults>>
        \/ (CertifyMissing \/ Certify) /\ UNCHANGED <<records, service, reason, faults>>
        \/ (InspectMissing \/ InspectContinuation)
             /\ UNCHANGED <<records, service, remote, faults>>
        \/ (PostRequeue \/ PostCompletion) /\ UNCHANGED <<records, remote, reason, faults>>
        \/ PostObservation /\ UNCHANGED <<records, remote, reason, cause, faults>>
        \/ (Resolved \/ (Spent /\ UNCHANGED cause))
             /\ UNCHANGED <<records, service, remote, reason, faults>>
        \/ PublishTerminal /\ UNCHANGED <<disk, archived, service, remote, reason, cause, faults>>
        \/ Archive /\ UNCHANGED <<disk, closed, service, remote, reason, cause, faults>>
        \/ LostReply /\ UNCHANGED <<records, remote, reason, cause>>
=============================================================================
