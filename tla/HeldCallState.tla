--------------------------- MODULE HeldCallState ---------------------------
(***************************************************************************)
(* The shared state of one held hark_await call.                           *)
(*                                                                         *)
(* Several processes own the call together and never talk to each other:   *)
(* the MCP server that holds the tool call, and the supervisors that       *)
(* reconcile it.  They meet in two places only: the immutable records of   *)
(* HarkToolWaitProtocol, one file per record and per call, and the await   *)
(* that the remote Hark service keeps.  This module declares both, and     *)
(* the steps the processes share.  WaiterCall, ToolErrorLifecycle and      *)
(* CrashReconciler add the actions of each component; HeldCall composes    *)
(* them.                                                                   *)
(***************************************************************************)
EXTENDS Naturals

CONSTANTS
  Supervisors,       \* supervisor processes that poll the call
  Mcp,               \* the MCP server's own reconciliation loop
  MaxFaults          \* bound on lost replies, refused calls and crashes

ASSUME HeldCallAssumption ==
  /\ Mcp \notin Supervisors
  /\ MaxFaults \in Nat

Reconcilers == Supervisors \cup {Mcp}

\* Records whose content every writer derives from the same inputs: only
\* their presence matters.
Records ==
  {"armAttempt", "armBinding", "transcriptBoundary", "waiterReady",
   "commitAttempt", "suspensionCommitted", "wakeDelivery",
   "observationIntent", "toolError", "toolErrorObservation",
   "originAbortReceipt"}

\* The elected transition: its decision and, for a cancellation, the
\* evidence it was elected on.
CancelAuthorities == {"cancelOnToolError", "cancelOnOriginAbort"}
Authorities       == CancelAuthorities \cup {"commit"}

\* The remote await.  "woken" is armed and already matched by its event;
\* "pending" is suspended and matched.
RemoteStates == {"none", "armed", "woken", "suspended", "pending", "cancelled"}
Suspended    == {"suspended", "pending"}

Dispositions == {"pre_arm_failed", "remote_cancelled", "completion_posted"}

WaiterLabels ==
  {"preparing", "arming", "binding", "bounding", "readying", "electing",
   "attempting", "committing", "suspending", "waiting", "delivering",
   "observing", "returned", "failing", "errored", "reconciling",
   "released", "stopped"}

LifecycleLabels ==
  {"errorRead", "preArm", "errorArm", "errorFreeze", "errorBind",
   "errorBound", "errorDecide", "errorElect", "errorCancel", "errorTerminal",
   "errorAttempt", "errorCommit", "errorSuspend"}

CrashLabels ==
  {"crash", "crashRead", "crashArm", "crashFreeze", "crashBind",
   "crashBound", "crashReady", "crashDecide", "crashElect",
   "crashIntentArm", "crashCancel", "crashTerminal", "crashCancelled",
   "crashAttempt", "crashAuthority", "crashIntentCommit", "crashCommit",
   "crashSuspend", "crashCommitted"}

Labels == {"idle", "archive", "certify"} \cup LifecycleLabels \cup CrashLabels

\* What a reconciler remembers from an earlier read of its pass.
Memories == {"nothing", "armAttempt", "commitAttempt", "suspensionCommitted",
             "suspended", "wake_pending", "cancelled"}

VARIABLES
  disk,          \* the published Records
  authority,     \* held-call-transition-authorities: elected transition
  freeze,        \* arm reconciliation freeze: remote state it recorded
  intent,        \* reconciliation intent of the crash reconciler: its stage
  applied,       \* reconciliation applied: its outcome
  terminal,      \* await request terminal: its disposition
  archived,      \* the request left the pending spool
  remote,        \* the await the service keeps
  calls,         \* requests ever sent to the service (history)
  originAborted, \* the host proved the origin turn aborted
  waiter,        \* where executeHeldAwait is
  pc,            \* where each reconciler is
  seen,          \* what each reconciler remembers
  held,          \* terminal each crash pass read when it started
  overtaken,     \* a pass that had read no arm attempt declared unarmed a call
                 \* that has one by now (history)
  faults         \* faults so far

records  == <<disk, authority, freeze, intent, applied, terminal, archived>>
service  == <<remote, calls>>
memory   == <<seen, held, overtaken>>
vars     == <<disk, authority, freeze, intent, applied, terminal, archived,
              remote, calls, originAborted, waiter, pc, seen, held, overtaken,
              faults>>

TypeOK ==
  /\ disk \in SUBSET Records
  /\ authority \in Authorities \cup {"none"}
  /\ freeze \in {"none", "suspended", "wake_pending", "cancelled"}
  /\ intent \in {"none", "arm", "commit"}
  /\ applied \in {"none", "remote_cancelled", "suspension_committed"}
  /\ terminal \in Dispositions \cup {"none"}
  /\ archived \in BOOLEAN
  /\ remote \in RemoteStates
  /\ calls \in SUBSET {"arm", "commit", "cancel"}
  /\ originAborted \in BOOLEAN
  /\ waiter \in WaiterLabels
  /\ pc \in [Reconcilers -> Labels]
  /\ seen \in [Reconcilers -> Memories]
  /\ held \in [Reconcilers -> Dispositions \cup {"none"}]
  /\ overtaken \in BOOLEAN
  /\ faults \in 0 .. MaxFaults

Init ==
  /\ disk = {}
  /\ authority = "none"
  /\ freeze = "none"
  /\ intent = "none"
  /\ applied = "none"
  /\ terminal = "none"
  /\ archived = FALSE
  /\ remote = "none"
  /\ calls = {}
  /\ originAborted = FALSE
  /\ waiter = "preparing"
  /\ pc = [p \in Reconcilers |-> "idle"]
  /\ seen = [p \in Reconcilers |-> "nothing"]
  /\ held = [p \in Reconcilers |-> "none"]
  /\ overtaken = FALSE
  /\ faults = 0

-----------------------------------------------------------------------------
(* Records *)

\* publishImmutable for a record every writer would write identically: the
\* first link creates it, every later one returns it.
Publish(r) == disk' = disk \cup {r}

\* electHeldCallTransitionAuthority: the first link decides; a loser with an
\* opposing decision obeys the winner, one with the same decision and other
\* content is an altered replay and throws ("conflict").
Opposed(a, b) == (a = "commit") # (b = "commit")

\* Mutant: every contender obeys its own candidate.
OwnCandidateWins(candidate) == candidate

Winner(candidate) ==
  IF authority \in {"none", candidate} THEN candidate
  ELSE IF Opposed(authority, candidate) THEN authority
  ELSE "conflict"

\* Mutant: the record is replaced by a rename instead of linked once.
LastElectionWins(candidate) == authority' = candidate

Elect(candidate) ==
  authority' = IF authority = "none" THEN candidate ELSE authority

\* A terminal with another disposition is never replaced.
PublishTerminal(d) ==
  terminal' = IF terminal = "none" THEN d ELSE terminal

-----------------------------------------------------------------------------
(* The service (external): idempotent by preparation nonce and commit nonce *)

ArmEffect == remote' = IF remote = "none" THEN "armed" ELSE remote

\* Mutant: the service's own state is recorded, not the one it reports.
ApiStateVerbatim(r) == r

\* The state an arm reply reports.
ApiState(r) == IF r \in {"woken", "pending"} THEN "wake_pending" ELSE r

CommitAccepted == remote \in {"armed", "woken", "suspended", "pending"}
CommitEffect ==
  remote' = IF remote = "armed" THEN "suspended"
            ELSE IF remote = "woken" THEN "pending" ELSE remote

CancelAccepted == remote \in {"armed", "woken", "cancelled"}
CancelEffect ==
  remote' = IF remote \in {"armed", "woken"} THEN "cancelled" ELSE remote

Send(request) == calls' = calls \cup {request}

\* The awaited event reaches the service.
EventArrives ==
  /\ remote \in {"armed", "suspended"}
  /\ remote' = IF remote = "armed" THEN "woken" ELSE "pending"
  /\ UNCHANGED <<records, calls, originAborted, waiter, pc, memory, faults>>

\* The host reports the origin turn as aborted.  The MCP server learns of it
\* later, so a running waiter may still take steps.
OriginAborts ==
  /\ ~originAborted
  /\ originAborted' = TRUE
  /\ UNCHANGED <<records, service, waiter, pc, memory, faults>>

-----------------------------------------------------------------------------
(* Control of the reconcilers *)

Goto(p, label) == pc' = [pc EXCEPT ![p] = label]

Remember(p, m) == seen' = [seen EXCEPT ![p] = m]

Fault == faults < MaxFaults /\ faults' = faults + 1

\* Disposition of HarkToolErrorLifecycle.reconcile.  The MCP server returns
\* the error response when the call is released, retries when the reply was
\* lost ("pending") and otherwise holds the call until it is aborted; a
\* supervisor goes on to the crash reconciler unless the call is released.
\*
\* Mutant: the MCP server takes an owned call for a released one.
ReturnWhenOwned(p, kind) ==
  /\ Goto(p, IF p = Mcp \/ kind = "released" THEN "idle" ELSE "crash")
  /\ waiter' = IF p = Mcp /\ kind # "pending" THEN "released" ELSE waiter

Return(p, kind) ==
  /\ Goto(p, IF p = Mcp \/ kind = "released" THEN "idle" ELSE "crash")
  /\ waiter' = IF p # Mcp \/ kind = "pending" THEN waiter
               ELSE IF kind = "released" THEN "released"
               ELSE "stopped"

\* A pass that throws: the MCP server holds the call, a supervisor stops and
\* is started again.
Throw(p) ==
  /\ Goto(p, "idle")
  /\ waiter' = IF p = Mcp THEN "stopped" ELSE waiter

\* A crash, a failed installation fence or an I/O error ends the pass of p
\* wherever it is.
Abandon(p) ==
  /\ pc[p] # "idle"
  /\ Fault
  /\ Throw(p)
  /\ UNCHANGED <<records, service, originAborted, memory>>

\* archiveAwaitRequest: the last step of every release.
Archive(p) ==
  /\ pc[p] = "archive"
  /\ terminal # "none"
  /\ archived' = TRUE
  /\ Return(p, "released")
  /\ UNCHANGED <<disk, authority, freeze, intent, applied, terminal, service,
                 originAborted, memory, faults>>

\* Any process that takes inventory of the pending calls archives one with a
\* terminal that was never armed.
InventoryArchives ==
  /\ terminal # "none"
  /\ "armAttempt" \notin disk
  /\ archived' = TRUE
  /\ UNCHANGED <<disk, authority, freeze, intent, applied, terminal, service,
                 originAborted, waiter, pc, memory, faults>>
=============================================================================
