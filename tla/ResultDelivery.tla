--------------------------- MODULE ResultDelivery ---------------------------
(***************************************************************************)
(* A delivered wake, end to end: the held call's server and host, the      *)
(* PostToolUse hook, the certifier and the targeted recovery, through      *)
(* aborted turns, lapsed leases, lost replies and supervisor restarts.     *)
(***************************************************************************)
EXTENDS HeldWaitCertifier

-----------------------------------------------------------------------------
(* The targeted recovery: #claimOneProvedHeldCrash *)

\* The abort receipt is the only authority.  A wake the service shows as
\* running or completed is an error, and one the journal already holds needs
\* no claim.
\*
\* Mutant: the journal is not asked.
SelectAgain ==
  /\ At("recovery", "idle")
  /\ "abortReceipt" \in disk
  /\ ~archived
  /\ IF service.wake \in {"running", "completed"} THEN Die("recovery")
     ELSE Goto("recovery", "claim") /\ UNCHANGED cause
  /\ UNCHANGED <<scan, host, records, claim, service, memory, handed, faults>>

SelectProvedAttempt ==
  /\ At("recovery", "idle")
  /\ "abortReceipt" \in disk
  /\ ~archived
  /\ IF service.wake \in {"running", "completed"} THEN Die("recovery")
     ELSE ~handed /\ Goto("recovery", "claim") /\ UNCHANGED cause
  /\ UNCHANGED <<scan, host, records, claim, service, memory, handed, faults>>

ClaimCrashRecovery ==
  /\ At("recovery", "claim")
  /\ \/ /\ service.wake \in {"leased", "queued", "recovering"}
        /\ service' = [service EXCEPT !.wake = "recovering"]
        /\ \/ Goto("recovery", "resolve") /\ UNCHANGED faults
           \/ Goto("recovery", "idle") /\ LoseReply
        /\ UNCHANGED cause
     \/ /\ service.wake \in {"running", "completed"}
        /\ Die("recovery")
        /\ UNCHANGED <<service, faults>>
  /\ UNCHANGED <<scan, host, records, claim, memory, handed>>

\* #resolveHeldRecovery, by recoverWaiter or recoverHeldTool: a call that left
\* no delivery, or whose result the turn did not live to use, is handed to the
\* dispatcher; anything that may still change stays silent.
Resolution(tail) ==
  IF "delivery" \notin disk \/ Inspection(tail) \in AbortedInspections THEN "dispatch"
  ELSE IF Inspection(tail) \in PendingInspections \cup {"tool_result_persisted"} THEN "silent"
  ELSE "throw"

ResolveHeldRecovery ==
  /\ At("recovery", "resolve")
  /\ \E tail \in Tails :
       IF Resolution(tail) = "throw" THEN Die("recovery") /\ UNCHANGED handed
       ELSE /\ handed' = (handed \/ Resolution(tail) = "dispatch")
            /\ Goto("recovery", "idle")
            /\ UNCHANGED cause
  /\ UNCHANGED <<scan, host, records, claim, service, memory, faults>>

\* The dispatcher's turn for the wake, started only where nothing followed the
\* abort; its end is certified unless the history refuses it.
WakeTurn ==
  /\ handed
  /\ \/ /\ OriginAborted(FALSE)
        /\ Append("wakeTurn")
        /\ UNCHANGED service
     \/ /\ scan.history.wake
        /\ ~scan.history.done
        /\ Append("wakeEnd")
        /\ UNCHANGED service
     \/ /\ scan.history.done
        /\ HistoryOutcome(scan.history) # "refused"
        /\ service' = [service EXCEPT !.wake = "completed"]
        /\ UNCHANGED scan
  /\ UNCHANGED <<host, records, claim, pc, memory, handed, cause, faults>>

-----------------------------------------------------------------------------
(* The supervisor stops, and a SessionStart hook starts it again *)

Crash ==
  /\ LoseReply
  /\ pc["certifier"] \notin {"done", "down"}
  /\ Goto("certifier", "down")
  /\ UNCHANGED <<scan, host, records, claim, service, memory, handed, cause>>

Restart ==
  /\ At("certifier", "down")
  /\ pc' = [pc EXCEPT !["certifier"] = "idle", !["recovery"] = "idle"]
  /\ cause' = "none"
  /\ UNCHANGED <<scan, host, records, claim, service, memory, handed, faults>>

Recovery == SelectProvedAttempt \/ ClaimCrashRecovery \/ ResolveHeldRecovery

Next ==
  \/ ServerPublish \/ ServerGone
  \/ HostReceive \/ HostError \/ HostContinue \/ HostAbort \/ HostRecordAbort
  \/ UserTurn \/ LapseLease
  \/ Hook \/ Certifier \/ Recovery \/ WakeTurn
  \/ Crash \/ Restart

Spec == Init /\ [][Next]_vars

Fairness ==
  /\ WF_vars(Certifier)
  /\ WF_vars(Restart)

LiveSpec == Spec /\ Fairness

-----------------------------------------------------------------------------

\* A delivered result is continued in one place.  The dispatcher gets the
\* wake only after the turn that held the call was aborted, on the strength of
\* a receipt that is never published for a turn that read the result and
\* answered, whatever the app server said and wherever the host had got to.
\* (README: a recovery turn opens "only when the original call is provably
\* gone".)
ContinuedOnce ==
  /\ handed => turn = "aborted" /\ "abortReceipt" \in disk
  /\ "abortReceipt" \in disk => turn = "aborted" /\ ~Proved

\* What the certifier told the service is what became of the call: not
\* persisted when the turn was aborted before its output, aborted after it
\* when there was one, completed in place only when the turn provably answered
\* the result the service was told of; and the request is closed as the wake
\* was completed.
ReportsAreTrue ==
  /\ service.requeue = "tool_result_not_persisted" =>
       turn = "aborted" /\ scan.inspect.outputs = 0
  /\ service.requeue = "tool_result_continuation_aborted" =>
       turn = "aborted" /\ scan.inspect.outputs = 1
  /\ service.wake = "completed" /\ ~handed => service.observed /\ Proved
  /\ closed = "completion_posted" => service.wake = "completed" /\ ~handed
  /\ closed = "crash_recovery_completed" => service.wake = "completed" /\ handed

\* A wake turn that has run can be certified: no prompt of the user's got
\* between it and the abort, or into it.
WakeTurnIsAdjacent == scan.history.done => HistoryOutcome(scan.history) = "adjacent"

\* Two actors spend the private claim in file operations of their own, and yet
\* it is spent only once the service has what it was kept for, and is never
\* lost before.
ClaimOutlivesReport ==
  /\ "consumed" \in claim => service.observed
  /\ "intent" \in disk => claim # {}

\* Whatever the order of the host's lines, of the two loops and of the hook,
\* a supervisor is stopped, fail closed, in these cases only: a rollout read
\* between the marker of an interruption and its abort; a turn that ended
\* without answering the result, or a call that ended in an error because its
\* server died (which stops the recovery too); a wake whose continuation was
\* reported aborted; one the recovery claimed before its result was reported;
\* a claim the hook spent after the certifier looked; and a recovery that finds
\* the service holding the wake running or completed.
SupervisorStopsFor ==
  [][cause' # cause /\ cause' # "none" =>
       IF cause' = "recovery"
       THEN service.wake \in {"running", "completed"} \/ At("server", "dead")
       ELSE \/ turn \in {"marked", "unanswered"}
            \/ At("server", "dead")
            \/ service.requeue = "tool_result_continuation_aborted"
            \/ ~service.observed /\ service.wake \in {"recovering", "completed"}
            \/ "consumed" \in claim /\ (remote = "absent" \/ "pending" \notin claim)]_vars

\* A call whose turn answered is reported, certified and archived in the end,
\* whether or not the hook did its part and however often the supervisor
\* stopped, unless its lease had run out before the result was reported.
CompletedCallIsArchived == turn = "completed" ~> archived \/ Lapsed
=============================================================================
