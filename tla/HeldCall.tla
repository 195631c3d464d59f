------------------------------ MODULE HeldCall ------------------------------
(***************************************************************************)
(* One held hark_await call, from the arm attempt to the release of the    *)
(* call: the waiter, the reconciliation of its tool error by the MCP       *)
(* server and by every supervisor, and the reconciliation of an aborted    *)
(* origin turn by every supervisor.                                        *)
(***************************************************************************)
EXTENDS WaiterCall, ToolErrorLifecycle, CrashReconciler

SupervisorStep(p) == ErrorStep(p) \/ CrashStep(p) \/ Archive(p)

McpStep == ErrorStep(Mcp) \/ Archive(Mcp)

Next ==
  \/ WaiterStep
  \/ EventArrives
  \/ OriginAborts
  \/ InventoryArchives
  \/ McpStep
  \/ \E p \in Supervisors : SupervisorStep(p)
  \/ \E p \in Reconcilers : Abandon(p)

Spec == Init /\ [][Next]_vars

\* A supervisor polls for as long as it runs, and the SessionStart hook of any
\* Codex session starts it again.  Nothing obliges the MCP server, the host, or
\* the awaited event.
Fairness == \A p \in Supervisors : WF_vars(SupervisorStep(p))

FairSpec == Spec /\ Fairness

-----------------------------------------------------------------------------
(* Safety *)

\* A call is never both committed and cancelled at the service, by any of the
\* processes: whoever transitions it was elected, or obeys the election
\* (electHeldCallTransitionAuthority).
OneTransition == ~({"commit", "cancel"} \subseteq calls)

\* Only an elected, attempted and accepted commit is recorded as a suspension.
SuspensionIsCommitted ==
  "suspensionCommitted" \in disk =>
    /\ authority = "commit"
    /\ "commitAttempt" \in disk
    /\ remote \in Suspended

\* The terminal of a call agrees with what the service did: a call declared
\* cancelled will never wake anybody, one declared complete was suspended and
\* woken, one declared never armed failed under the host's eyes and has no
\* await, unless it overtook the read of its arm attempt
\* (tool-error-lifecycle.mjs:387), which nothing else can excuse.
TerminalMatchesService ==
  /\ terminal = "remote_cancelled" => remote = "cancelled"
  /\ terminal = "pre_arm_failed" =>
       /\ "toolErrorObservation" \in disk
       /\ remote = "none" \/ overtaken
  /\ terminal = "completion_posted" =>
       remote = "pending" /\ "suspensionCommitted" \in disk
  /\ overtaken => terminal = "pre_arm_failed"

\* The MCP server answers a live turn with an error only when the await is
\* gone for good: it was released on a terminal that a reconciliation proved.
\* The one exception is a call that overtook the read of its arm attempt.
ErrorReleaseIsSafe ==
  waiter = "released" =>
    remote \in {"none", "cancelled"} \/ originAborted \/ overtaken

\* The crash reconciler's two records, the election and the commit attempt
\* never contradict each other, so none of the conflicts it fails closed on
\* can strand a call.
IntentFollowsAuthority ==
  /\ intent = "arm" => authority \in CancelAuthorities
  /\ intent = "commit" => authority = "commit"
  /\ "commitAttempt" \in disk => authority = "commit"
  /\ authority = "commit" => "waiterReady" \in disk
  /\ authority = "cancelOnToolError" => "toolErrorObservation" \in disk
  /\ authority = "cancelOnOriginAbort" => "originAbortReceipt" \in disk

\* What the crash reconciler says it applied is what happened.
AppliedMatchesService ==
  /\ applied = "remote_cancelled" =>
       intent = "arm" /\ terminal = "remote_cancelled"
  /\ applied = "suspension_committed" =>
       intent = "commit" /\ "suspensionCommitted" \in disk

\* A call whose crash reconciliation began leaves the spool only after the
\* reconciliation recorded what it applied.  A cancellation that the tool error
\* lifecycle completed at the same time needs no such record.
ArchivedIsApplied ==
  archived /\ intent # "none" /\ applied = "none" =>
    intent = "arm" /\ "toolErrorObservation" \in disk

\* The host gets no error for a call that Hark suspended, unless its turn is
\* gone.  (Violated: a call may overtake the read of its arm attempt.)
NoErrorAfterSuspension ==
  waiter = "released" => remote \notin Suspended \/ originAborted

-----------------------------------------------------------------------------
(* Why they hold: where each process is tells what has been elected, which   *)
(* evidence exists and what the service did.                                 *)

CommitLabels ==
  {"errorAttempt", "errorCommit", "errorSuspend", "crashAttempt",
   "crashIntentCommit", "crashCommit", "crashSuspend", "crashCommitted"}
CancelLabels ==
  {"errorCancel", "errorTerminal", "crashIntentArm", "crashCancel",
   "crashTerminal", "crashCancelled"}
WaiterCommitLabels ==
  {"attempting", "committing", "suspending", "waiting", "delivering",
   "observing", "returned"}

\* A process that froze an arm knows the state it freezes.
FreezeRemembers ==
  \A p \in Reconcilers :
    pc[p] \in {"errorFreeze", "crashFreeze"} =>
      seen[p] \in {"suspended", "wake_pending", "cancelled"}

\* Every process on its way to transition the await, and every transition
\* ever requested, obeys the elected authority.
ElectionObeyed ==
  /\ \A p \in Reconcilers :
       /\ pc[p] \in CommitLabels => authority = "commit"
       /\ pc[p] \in CancelLabels => authority \in CancelAuthorities
  /\ waiter \in WaiterCommitLabels => authority = "commit"
  /\ "commit" \in calls => authority = "commit"
  /\ "cancel" \in calls => authority \in CancelAuthorities

\* Who may still elect holds the evidence for what it would elect.
ErrorOwnerLabels ==
  {"errorArm", "errorFreeze", "errorBind", "errorBound", "errorDecide",
   "errorElect"}
CrashOwnerLabels == CrashLabels \ {"crash"}
CrashReadyLabels ==
  {"crashDecide", "crashElect", "crashAttempt", "crashAuthority"}

EvidenceFirst ==
  /\ waiter = "electing" => "waiterReady" \in disk
  /\ \A p \in Reconcilers :
       /\ pc[p] \in ErrorOwnerLabels => "toolErrorObservation" \in disk
       /\ pc[p] \in CrashOwnerLabels => "originAbortReceipt" \in disk
       /\ pc[p] \in CrashReadyLabels => "waiterReady" \in disk
       /\ pc[p] = "errorElect" /\ seen[p] = "commitAttempt" =>
            "waiterReady" \in disk

\* A commit is attempted on disk before it is sent, and accepted before the
\* suspension is recorded.
AttemptedLabels ==
  {"errorCommit", "errorSuspend", "crashAuthority", "crashIntentCommit",
   "crashCommit", "crashSuspend"}

AttemptBeforeCommit ==
  /\ waiter \in WaiterCommitLabels \ {"attempting"} => "commitAttempt" \in disk
  /\ waiter = "suspending" => remote \in Suspended
  /\ \A p \in Reconcilers :
       /\ pc[p] \in AttemptedLabels => "commitAttempt" \in disk
       /\ pc[p] \in {"errorSuspend", "crashSuspend"} => remote \in Suspended

-----------------------------------------------------------------------------
(* Action properties *)

\* Once a call has a terminal it keeps it, the service transitions the call no
\* more and nothing new is recorded about its transition, unless the terminal
\* was published for a call that overtook the read of its arm attempt: its
\* await lives on.
TerminalIsFinal ==
  [][terminal # "none" =>
       /\ terminal' = terminal
       /\ (remote' = remote /\ authority' = authority) \/ overtaken]_vars

\* No process undoes or overtakes a published decision: authority, intent,
\* freeze and applied records are written once, and an arm intent excludes a
\* later commit attempt.
DecisionsStand ==
  [][/\ authority # "none" => authority' = authority
     /\ intent # "none" => intent' = intent
     /\ freeze # "none" => freeze' = freeze
     /\ intent = "arm" => ("commitAttempt" \in disk' => "commitAttempt" \in disk)
    ]_vars

-----------------------------------------------------------------------------
(* Liveness *)

\* A failed call whose error the host saw does not stay undecided: it is
\* released, or recorded as suspended, or frozen because the arm reply showed
\* a state the reconciliation has no authority over.
FailedCallResolves ==
  "toolErrorObservation" \in disk ~>
    archived \/ "suspensionCommitted" \in disk \/ freeze # "none"

\* A call whose origin turn aborted is released or its recovery authorised,
\* unless it is frozen.
AbortedCallResolves ==
  "originAbortReceipt" \in disk ~>
    archived \/ applied = "suspension_committed" \/ freeze # "none"

\* A bound await that a reconciliation cancelled is not lost: the call is
\* released, unless an arm reply showed the await past armed before.
CancelledCallResolves ==
  remote = "cancelled" /\ "armBinding" \in disk ~>
    archived \/ freeze \in {"suspended", "wake_pending"}

-----------------------------------------------------------------------------
(* Refinement *)

\* What became of the await, and what the host was told.
Outcome ==
  IF remote = "none" THEN "none"
  ELSE IF remote \in {"armed", "woken"} THEN "open"
  ELSE IF remote \in Suspended THEN "committed" ELSE "cancelled"

Answer ==
  IF waiter = "returned" THEN "result"
  ELSE IF waiter = "released" THEN "error" ELSE "none"

Contract == INSTANCE HeldCallContract WITH
  outcome <- Outcome, answer <- Answer,
  settled <- archived, aborted <- originAborted, disowned <- overtaken

\* Every step of the processes is a step the contract allows.
KeepsContract == Contract!Spec
=============================================================================
