----------------------------- MODULE WaiterCall -----------------------------
(***************************************************************************)
(* executeHeldAwait of the MCP server: the process that holds the tool     *)
(* call.  It starts here once the admission is consumed and the await      *)
(* request is published.                                                   *)
(***************************************************************************)
EXTENDS HeldCallState

waiterUnchanged == <<authority, freeze, intent, applied, terminal, archived,
                     originAborted, pc, memory, faults>>

\* Publishing a record, or failing to: the record may be there even when the
\* publication throws.
WaiterPublish(from, r, to) ==
  /\ waiter = from
  /\ \/ Publish(r) /\ waiter' = to
     \/ (Publish(r) \/ UNCHANGED disk) /\ waiter' = "failing"
  /\ UNCHANGED <<service, waiterUnchanged>>

\* Anything before the arm attempt fails.
PrepareFails ==
  /\ waiter = "preparing"
  /\ waiter' = "failing"
  /\ UNCHANGED <<disk, service, waiterUnchanged>>

PublishArmAttempt == WaiterPublish("preparing", "armAttempt", "arming")

\* armAwait must be the first arm of this nonce: a reply marked as a replay is
\* an error, like a refused or a lost one.
ArmAwait ==
  /\ waiter = "arming"
  /\ Send("arm")
  /\ \/ remote = "none" /\ ArmEffect /\ waiter' = "binding"
     \/ (ArmEffect \/ UNCHANGED remote) /\ waiter' = "failing"
  /\ UNCHANGED <<disk, waiterUnchanged>>

PublishArmBinding   == WaiterPublish("binding", "armBinding", "bounding")
PublishBoundary     == WaiterPublish("bounding", "transcriptBoundary", "readying")
PublishWaiterReady  == WaiterPublish("readying", "waiterReady", "electing")

\* The waiter elects its commit, with a nonce of its own.  When a
\* cancellation won it holds the call for good.
\*
\* Mutant: the waiter goes on to commit although a cancellation won.
ElectCommitRegardless ==
  /\ waiter = "electing"
  /\ Elect("commit")
  /\ waiter' = "attempting"
  /\ UNCHANGED <<disk, service, freeze, intent, applied, terminal, archived,
                 originAborted, pc, memory, faults>>

ElectCommit ==
  /\ waiter = "electing"
  /\ \/ /\ Elect("commit")
        /\ waiter' = IF authority = "none" THEN "attempting"
                     ELSE IF authority = "commit" THEN "failing" ELSE "stopped"
     \/ /\ waiter' = "failing"
        /\ Elect("commit") \/ UNCHANGED authority
  /\ UNCHANGED <<disk, service, freeze, intent, applied, terminal, archived,
                 originAborted, pc, memory, faults>>

PublishCommitAttempt == WaiterPublish("attempting", "commitAttempt", "committing")

\* commitAwait must be the first commit too.
\*
\* Mutant: a commit whose reply was lost is taken for accepted.
CommitAwaitAssumed ==
  /\ waiter = "committing"
  /\ Send("commit")
  /\ CommitEffect \/ UNCHANGED remote
  /\ waiter' = "suspending"
  /\ UNCHANGED <<disk, waiterUnchanged>>

CommitAwait ==
  /\ waiter = "committing"
  /\ Send("commit")
  /\ \/ remote \in {"armed", "woken"} /\ CommitEffect /\ waiter' = "suspending"
     \/ (CommitEffect \/ UNCHANGED remote) /\ waiter' = "failing"
  /\ UNCHANGED <<disk, waiterUnchanged>>

PublishSuspension == WaiterPublish("suspending", "suspensionCommitted", "waiting")

\* waitForAwait returns the wake, or fails for good; a transient failure is
\* retried, which changes nothing.
WaitForAwait ==
  /\ waiter = "waiting"
  /\ waiter' \in IF remote = "pending" THEN {"delivering", "failing"}
                 ELSE {"failing"}
  /\ UNCHANGED <<disk, service, waiterUnchanged>>

PublishWakeDelivery == WaiterPublish("delivering", "wakeDelivery", "observing")
PublishObservationIntent ==
  WaiterPublish("observing", "observationIntent", "returned")

\* The catch clause, then finalizeObservedToolFailure.
PublishToolError ==
  /\ waiter = "failing"
  /\ Publish("toolError")
  /\ waiter' = "errored"
  /\ UNCHANGED <<service, waiterUnchanged>>

PublishToolErrorObservation ==
  /\ waiter = "errored"
  /\ Publish("toolErrorObservation")
  /\ waiter' = "reconciling"
  /\ UNCHANGED <<service, waiterUnchanged>>

\* The process dies, or a failed installation fence or an aborted request
\* makes it hold the call without ever touching it again.
WaiterStops ==
  /\ waiter \notin {"returned", "released", "stopped", "reconciling"}
  /\ waiter' = "stopped"
  /\ UNCHANGED <<disk, service, waiterUnchanged>>

WaiterStep ==
  \/ PrepareFails \/ PublishArmAttempt \/ ArmAwait \/ PublishArmBinding
  \/ PublishBoundary \/ PublishWaiterReady \/ ElectCommit
  \/ PublishCommitAttempt \/ CommitAwait \/ PublishSuspension \/ WaitForAwait
  \/ PublishWakeDelivery \/ PublishObservationIntent \/ PublishToolError
  \/ PublishToolErrorObservation \/ WaiterStops
=============================================================================
