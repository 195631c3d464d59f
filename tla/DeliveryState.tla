---------------------------- MODULE DeliveryState ----------------------------
(***************************************************************************)
(* The state around one held call whose wake has arrived: the MCP server   *)
(* hands the result to the host, the PostToolUse hook and the certifier    *)
(* report it, and the recovery loop claims the wake when the turn is gone. *)
(*                                                                         *)
(* The installation stays the same: its fences, which guard every step     *)
(* below, do not fail.                                                     *)
(***************************************************************************)
EXTENDS Rollout

CONSTANT MaxFaults      \* supervisor crashes and lost replies

ASSUME FaultsAssumption == MaxFaults \in Nat

VARIABLES
  turn,       \* how far the host has got with the origin turn
  gone,       \* the app server shows that turn failed or interrupted
  disk,       \* records published for the call
  closed,     \* disposition of the terminal record, or "none"
  archived,   \* the request left the spool
  claim,      \* the private claim's files: pending, its tombstone, or both
  service,    \* the service's view of the wake
  pc,         \* where each process stands
  read,       \* what an actor last resolved the claim to
  remote,     \* what the certifier's last certification said
  reason,     \* the recovery receipt the certifier is about to post
  handed,     \* the wake was handed to the dispatcher
  cause,      \* which loop stopped the supervisor last, until its restart
  faults

host == <<turn, gone>>
records == <<disk, closed, archived>>
memory == <<read, remote, reason>>
vars == <<scan, host, records, claim, service, pc, memory, handed, cause, faults>>

Records == {"delivery", "intent", "returned", "abortReceipt", "completion"}
\* "completed": the turn read the result, answered and ended; "unanswered": it
\* ended, and did not; "lost": its call ended in an error, the server being dead.
Completions == {"completed", "unanswered"}
Live == {"held", "ended", "read", "answered", "lost"}
Over == Completions \cup {"aborted"}
Turns == Live \cup Over \cup {"marked"}
Requeues == {"tool_result_not_persisted", "tool_result_continuation_aborted"}
Kinds == {"absent", "observed", "handoff", "recovered"}

Processes == {"server", "hook", "certifier", "recovery"}
ClaimUsers == {"hook", "certifier"}
ServerLabels == {"deliver", "claim", "intent", "return", "done", "dead"}
ClaimLabels == {"resolve", "resolvePending", "resolved", "observe", "consume",
                "consumePending", "tombstone", "unlink", "spent"}
HookLabels == ClaimLabels \cup {"idle", "probe", "done"}
CertifierLabels ==
  ClaimLabels \cup
  {"idle", "abort", "publishAbort", "delivery", "certifyMissing", "inspectMissing",
   "publishReturned", "postRequeue", "certify", "completion", "inspectContinuation",
   "postCompletion", "certifyCompletion", "publishCompletion", "terminal", "archive", "done",
   "down"}
RecoveryLabels == {"idle", "claim", "resolve", "down"}

PcTypeOK ==
  /\ pc \in [Processes -> ServerLabels \cup HookLabels \cup CertifierLabels \cup RecoveryLabels]
  /\ pc["server"] \in ServerLabels
  /\ pc["hook"] \in HookLabels
  /\ pc["certifier"] \in CertifierLabels
  /\ pc["recovery"] \in RecoveryLabels

TypeOK ==
  /\ RolloutTypeOK
  /\ turn \in Turns
  /\ gone \in BOOLEAN
  /\ disk \subseteq Records
  /\ closed \in {"none", "completion_posted", "crash_recovery_completed"}
  /\ archived \in BOOLEAN
  /\ claim \subseteq {"pending", "consumed"}
  /\ service \in [wake : {"leased", "queued", "running", "recovering", "completed"},
                  observed : BOOLEAN, requeue : {"no"} \cup Requeues]
  /\ PcTypeOK
  /\ read \in [ClaimUsers -> {"none", "pending", "consumed"}]
  /\ remote \in {"none"} \cup Kinds
  /\ reason \in {"none"} \cup Requeues
  /\ handed \in BOOLEAN
  /\ cause \in {"none", "certifier", "recovery"}
  /\ faults \in 0..MaxFaults

\* The wake was leased to the held call's waiter, which has just read it.
Init ==
  /\ scan = ScanStart
  /\ turn = "held"
  /\ gone = FALSE
  /\ disk = {}
  /\ closed = "none"
  /\ archived = FALSE
  /\ claim = {}
  /\ service = [wake |-> "leased", observed |-> FALSE, requeue |-> "no"]
  /\ pc = [p \in Processes |-> IF p = "server" THEN "deliver" ELSE "idle"]
  /\ read = [a \in ClaimUsers |-> "none"]
  /\ remote = "none"
  /\ reason = "none"
  /\ handed = FALSE
  /\ cause = "none"
  /\ faults = 0

At(p, label) == pc[p] = label
Goto(p, label) == pc' = [pc EXCEPT ![p] = label]

\* publishImmutable: the first record wins and a later one agrees with it.
Publish(record) == disk' = disk \cup {record}

\* #fatal: a loop that throws stops every loop of the supervisor.
Die(loop) ==
  /\ pc' = [pc EXCEPT !["certifier"] = "down", !["recovery"] = "down"]
  /\ cause' = loop

\* A hook that throws is not authoritative; the certifier fails closed.
Throw(a) ==
  IF a = "hook" THEN Goto(a, "done") /\ UNCHANGED cause ELSE Die(a)

LoseReply == faults < MaxFaults /\ faults' = faults + 1

-----------------------------------------------------------------------------
(* The service *)

Lapsed == service.wake = "queued" /\ ~service.observed

\* What recordRuntimeReceipt answers an observation: it is accepted for the
\* wake the waiter holds, and what was recorded already may come back as a
\* replay or as a conflict.
ObservationAnswers ==
  IF service.wake = "leased" THEN {"ack"}
  ELSE IF ~service.observed THEN {"stale"}
  ELSE {"conflict", IF service.wake = "running" THEN "ack" ELSE "stale"}

Observe ==
  service' = IF service.wake = "leased"
             THEN [service EXCEPT !.wake = "running", !.observed = TRUE]
             ELSE service

\* classifyToolResultObservationCertification; "invalid" when it throws.  A
\* wake claimed by the recovery without any recovery receipt is shown in one
\* delivery mode or the other: the code does not say.
Classifications ==
  CASE service.requeue = "tool_result_continuation_aborted" -> {"invalid"}
    [] service.requeue = "tool_result_not_persisted" ->
         {IF service.wake = "completed" THEN "recovered" ELSE "handoff"}
    [] service.requeue = "no" ->
         IF service.observed THEN {"observed"}
         ELSE IF service.wake \in {"recovering", "completed"} THEN {"absent", "invalid"}
         ELSE {"absent"}
=============================================================================
