# Hark for Codex: a formal model

Hark lets a Codex turn wait for an outside event. A turn calls the tool
`hark_await`; Hark arms an await at a remote service, holds the tool call (or
lets the turn end), and when the event arrives it wakes the agent exactly once.
Everything that makes this hard happens between processes that do not talk to
each other: the MCP server that holds the call, the hooks that Codex starts for
a prompt, a long-running supervisor, and the remote service. They meet in
immutable files, in one mutable journal, and in the service's idempotent
requests; any of them may stop at any step and be started again.

This directory holds TLA+ modules of those protocols, the TLC configurations
that check them, and TLAPS proofs of their central properties.

## 1. Inventory

| Component (source under `plugins/hark/`) | State it keeps | Operations | Talks to |
|---|---|---|---|
| MCP server, `mcp/server.mjs` | the held tool call, its nonces | `executeHeldAwait`, `finalizeObservedToolFailure` | wait protocol records, service, error lifecycle |
| Tool wait protocol, `lib/tool-wait-protocol.mjs` | one immutable file per record and call: admissions, requests, arm attempt and binding, transcript boundary, waiter readiness, transition authority, commit attempt, suspension, deliveries, observations, tool errors, abort receipts, intents, applied records, terminals | publish once, read, elect, archive, consume an admission | file system |
| Tool error lifecycle, `lib/tool-error-lifecycle.mjs` | none of its own | `reconcile` | records, service |
| Held call crash reconciler, `lib/held-call-crash-reconciler.mjs` | none of its own | `reconcile` in an arm and a commit stage | records, service |
| Held wait certifier, `lib/held-wait-certifier.mjs` | none of its own | `poll`: reconcile every pending call, certify completions | the two above, transcript proofs |
| Wake supervisor, `lib/supervisor.mjs` | the journal's wakes and awaits, in-memory queue | claim, acknowledge, preflight, dispatch, confirm, recover a wake | journal, inbox, host, service |
| Hooks, `hooks/ingress.mjs`, `hooks/prompt-guard.mjs` | none of their own | prepare and admit a held call; admit or block a prompt | journal, inbox, records |
| Hook inbox, `lib/hook-inbox.mjs` | request, acknowledgement and dispatch intent files | publish, acknowledge, wait | file system |
| Journal, `lib/journal.mjs` | one JSON file | read-modify-write | file system |
| Private claim store, `lib/private-claim-store.mjs` | prepared and committed claims | publish exclusively, commit, release | file system |
| Held crash recovery, `lib/held-crash-recovery.mjs` | none | prove a recovery turn and claim it | records, claims |
| Supervisor process, `lib/supervisor-process.mjs` | pid and ready file | acquire, inspect, release | file system |
| Transcript proof, `lib/transcript-proof.mjs` | none | scan a rollout | files of the host |
| Transports and CLI, `lib/codex-daemon-transport.mjs`, `lib/app-server-client.mjs`, `lib/service-client.mjs`, `lib/pinned-codex-runtime.mjs`, `cli/hark-codex.mjs` | connections, installation | requests | host, service |

### What makes each part correct

* **A held call** takes one transition at the service, commit or cancel, however
  many processes reconcile it; its records say what the service did; the host
  gets an error only for an await that will never wake it; a failed or aborted
  call is resolved in the end.
* **A wake** is dispatched at most once, with its intent published first; the
  prompt guard admits no other turn for it; what the journal and the service are
  told of the turn is true; a wake that was claimed is dispatched, refused or
  found uncertain in the end, and an admitted turn that completes is reported.
* **A delivered result** is continued in one place: by the turn that received
  it, or, when that turn is provably gone, by a wake turn of the dispatcher;
  what the service is told of it is true, and a call whose turn answered is
  archived in the end.
* **Immutable records** never change, and nobody acts on one that a crash can
  take back: an admission is good for one call, an election once obeyed stands,
  an accepted request stays known.
* **The process lock** admits one supervisor at a time and everything that works
  on a wake is under it, so the journal has one writer; **the ready file** calls
  no supervisor ready that has shut down; **a private claim** is spent only when
  the service has what it was kept for.

### What is hard here

Interleavings (three kinds of process reconcile one call), crashes between any
two writes, lost replies from the service, retries that meet their own effect,
reads that are stale by the time they are used, and two reconcilers each of
which leaves a call to the other. For a wake: two concurrent tasks of one
supervisor (the wake poll and the held recovery loop) work on the same journal
record with an `await` between every read and write; the prompt guard reads the
journal and the inbox from a third process while the host call is in flight; and
recovery must tell from the thread, the inbox and the journal how far a dead
supervisor got. For a result: the host writes its rollout line by line, three
readers each reduce it to what they need at a moment of their own, and a hook
and the certifier spend the same claim file by file. Below all of it, a link or
a rename is visible to every process before it is durable. `PROJECT.json` lists
each hazard at its line.

## 2. Modules

| Module | Models |
|---|---|
| `HeldCallState` | the records, the service and the control state of one held call; the steps all processes share: publication, election, terminal, archive, what the service does |
| `WaiterCall` | `executeHeldAwait` from the consumed admission on, and the observation of its failure |
| `ToolErrorLifecycle` | `HarkToolErrorLifecycle.reconcile` |
| `CrashReconciler` | `HeldCallCrashReconciler.reconcile`, and the certification that ends a supervisor's pass |
| `HeldCall` | the composition, its properties and its fairness |
| `HeldCallContract` | what Hark promises about a held call, in seven steps without any process |
| `HeldCallProofs` | theorems about the election and the suspension in `HeldCall` |
| `HeldTerminalProofs` | theorems about how the call ends, and that `HeldCall` implements `HeldCallContract` |
| `MCHeldCall` | model values for TLC |
| `WakeState` | journal, inbox, host, service and control state of one wake; how a task moves, stops and fails; the prompt guard, the host and the lease |
| `WakeDispatch` | `#acceptWake`, `#acknowledgeAndDispatch`, `#dispatchWake`, `#preflightWake`, `#refuseWakeDispatch`, `#publishWakeAdmission` |
| `WakeRecovery` | the wake poll, `#recoverWake`, `#recordSubmittedTurn`, `#confirmWakeStarted`, `#finishWakeTurn` |
| `SupervisedWake` | the composition, its properties and its fairness |
| `WakeContract` | what the host and the service see of a wake, in seven steps without any process |
| `WakeProofs` | theorems about `SupervisedWake` |
| `Rollout` | the lines the host writes about a turn, and the four scans of them: proof of the answered call, inspection, preflight, wake history |
| `DeliveryState` | records, claim, service and control state around a call whose wake has arrived; what the service answers |
| `PrivateClaim` | the private claim store, one file operation at a time |
| `HeldResult` | the MCP server's delivery, the host's turn, the `PostToolUse` hook |
| `HeldWaitCertifier` | `HarkHeldWaitCertifier.poll` |
| `ResultDelivery` | the targeted recovery, the composition, its properties and its fairness |
| `RolloutProofs`, `ResultDeliveryProofs` | theorems about them |
| `DurableStore` | directories whose changes become durable when they are synchronised |
| `CallEntry` | admission, request, attempt, authority, terminal and archive of a held call as files |
| `DurableStoreProofs`, `CallEntryProofs` | theorems about them |
| `SupervisorLifecycle` | process lock, ready file, start and shutdown of `hark-codex run`, and the journal, fence and intent as files |
| `MCSupervisor` | the symmetry of processes for TLC |
| `SupervisorProofs` | theorems about `SupervisorLifecycle` |

The same code is seen at three depths, each in the module whose question it
decides. `HeldCall` and `SupervisedWake` take a publication as one step and ask
what concurrent processes make of each other's records. `CallEntry` and
`SupervisorLifecycle` take each link, rename and synchronisation as a step, for
one record of a kind, and ask what a power loss leaves; they justify that the
other modules let a published record stay. `ResultDelivery` begins where
`HeldCall` ends, with the event delivered to the waiter.

### How the held call corresponds to the code

One call is modelled: every record is keyed by call and no process relates two
calls. Each `await` of the code that publishes a record or calls the service is
an action; `waiter` says where `executeHeldAwait` is, `pc[p]` where the
reconciliation pass of process `p` is. A supervisor's pass is
`ToolErrorLifecycle` first, then `CrashReconciler`, then the certification, as
in `HeldWaitCertifier.#reconcileRequest`. The MCP server runs the lifecycle
alone and repeats it for as long as its reply was lost.

`disk` is the set of published records whose content every writer derives from
the same inputs, so that only their presence matters. The five whose content
differs between writers are variables: `authority` (who was elected), `freeze`
(the remote state seen), `intent` (the stage), `applied` and `terminal`.
`seen[p]` and `held[p]` are what process `p` read earlier in its pass and still
relies on.

The service is external. `ArmEffect`, `CommitEffect` and `CancelEffect` are what
it does, idempotent by preparation nonce and commit nonce; a request may be
served and its reply lost. An armed await can be matched by its event before it
is committed ("woken"), and a suspended one after ("pending"); the arm reply
reports both as `wake_pending`.

Abstractions, each with the reason it is sound here:

* `ErrorRead` and `CrashRead` read their records in one step. Records only ever
  appear, so a pass that reads some of them later sees at least as much. The one
  place where this matters is the first read of the error lifecycle, the arm
  attempt, which `ErrorBegin` makes a step of its own: whatever the pass decides
  afterwards rests on what that read found (`SawAttempt`), as in the code.
* `overtaken` is a history variable. It becomes true when a pass whose first
  read found no arm attempt publishes `pre_arm_failed` for a call that has one
  by then (finding 1). The properties name it as the only exception they make,
  and `TerminalMatchesService` says that it goes with that terminal.
* A crash pass tests the current intent instead of the one it read; it can only
  find more, and the code reads it again before it acts (`#intent`).
* `completion_posted` stands for the dispositions `completion_posted` and
  `crash_recovery_completed`, which no property tells apart.
* Installation fences, aborted signals and I/O errors end a pass wherever it is:
  `Abandon` and `WaiterStops`.
* The refusals `~CancelAccepted` and `~CommitAccepted` are kept although the
  election makes them unreachable, because the code has them.

### How the wake corresponds to the code

One wake is modelled, and the await it wakes. Journal records are keyed by wake,
the supervisor's queue only orders tasks of the same process, and the one place
where wakes meet, the busy thread, is `ChangeHistory` here. The supervisor has
two tasks: `poll`, the wake poll with everything it awaits, and `claim`, the
held-call recovery loop, which exists when `HeldRecovery` is TRUE and then makes
the claims. `pc[p]` says which `await` task `p` is at and `mem[p]` what it read
and still relies on.

* *Atomicity.* Every journal update is one read-modify-write in its queue
  (`updateWake`, `#transition`), so it is one action, and so is a journal read
  that is directly followed by the update made from it. Everything else that
  awaits (a receipt, a thread read, an inbox read or publication, the preflight
  scan) is an action, so the other task, the guard and the host may come
  between.
* `wake.state`, `await` are the journal's states, with `absent` and `none` for
  no record. `wake.attempt` is the lease generation that began the dispatch,
  `wake.admission` the journalled admission, `wake.ack` and `wake.woken` whether
  its acknowledgement and the `task_woken` receipt are journalled.
* `admissions`, `intent`, `acks` are the immutable files of the hook inbox.
  Admissions are named by lease generation, which is what distinguishes them.
* `GuardDecide` is `evaluatePromptGuard` on the wake's own prompt, `GuardAck`
  the acknowledgement it writes before it lets the prompt through. Other prompts
  are blocked or are part of `ChangeHistory`.
* The service and the host are external. A lease that nobody confirmed with
  `wake_received` may lapse; a receipt is accepted, refused, or accepted with
  its reply lost. A `turn/start` may be taken by the host without an answer. An
  interrupted turn counts as failed.
* Errors follow the code: `Transient` is an error the poll logs and survives,
  `Fatal` one that ends the supervisor; an error inside `start()` or inside
  `#enqueue` is always fatal. After `Fatal` the other task still runs to its
  end, which is why `phase = "stopping"` is not the same as all tasks idle.
* `Restart` includes what `start()` does first: it recovers an unfinished wake
  before the loops begin, and is the only one allowed to take a dispatch back.

Two states of the code are left out because nothing writes them: the wake state
`cancelled`, and the branch of `#finishWakeTurn` for a turn status other than
the three above.

### How the delivered result corresponds to the code

The four readers of a rollout fold its lines into a small state; `scan` holds
the four folds over the lines written so far, so the file itself is no state.
`Append` adds a line to all four. A reader may also meet the last line half
written (`Tails`). The identity of the file, its prefix and its size are checked
by the code on each read and assumed to hold.

`turn` is how far the rollout of the turn that holds the call has got: `held`,
its call `ended`, the result `read`, `answered`, `lost` (the call ended in an
error), `marked` (the marker of an interruption is written), or over:
`completed` after an answer, `unanswered` when it ended wherever else it
stood, `aborted`. `gone` is what the app server says of it, failed or
interrupted. The rollout lags behind: after `gone` it may still grow by the
result, the answer, or an end of any kind, and only a turn that is `gone` gets
an abort. `disk` are the records published for the call, `claim` the files of
its private claim, `service` the wake as the service holds it. `pc` says where
the server, the hook, the certifier and the targeted recovery are; `read[a]`
is what an actor last resolved the claim to, `remote` and `reason` what the
certifier learned earlier in its pass.

The MCP server may die at any point of a live turn (`HostError`). The host then
ends the call in an error line, which every scan that pins the end of the call
refuses from then on. Once the turn is over or gone the server stops without a
line (`ServerGone`).

* *Atomicity.* The resolution of a claim is two reads, its consumption a read,
  a link and an unlink, each a step of the hook and of the certifier. A read
  of the rollout, a request to the service and the publication of a record are
  steps; the proof of the answer and the inspection made when it fails are two
  readings and two steps (`ProveContinuation`, `InspectContinuation`), between
  which the file may grow. Reads of records that only ever appear are made
  with the step they lead to.
* *Service.* `Observe`, `ObservationAnswers` and `Classifications` say what a
  receipt does, how it is answered and what a certification reports; a reply may
  be lost. The lease may run out before the result is reported (`LapseLease`).
  Where the code accepts either of two answers the model gives both.
* *Errors.* A loop that throws stops every loop of the supervisor (`Die`), and
  `cause` remembers which; a hook that throws is not authoritative.
* The user may prompt the thread after the abort (`UserTurn`) but does not roll
  turns back; the installation fences hold. `Init` is a call whose transcript
  boundary is captured and whose waiter has just read the wake.
* Adoption of a result by `recoverHeldTool` is no action: the recovery asks for
  the abort receipt first, and with it the inspection never allows an adoption.

### How the files of a call correspond to the code

`DurableStore` is the file system: the tree every process sees, and the set of
trees a power loss may leave. Until a directory is synchronised each of its
changes may or may not have reached the disk, in any combination; a rename
reaches it whole or not at all. `Put`, `Move` and `SyncDirectory` are link,
unlink or rename within a directory, rename between directories, and the
`fsync` of a directory. A directory holds at most one file, that of the call or
wake under study. Contents are synchronised before they are linked, in the code
as here, so a file is whole or absent.

`CallEntry` has one tool use. The host runs its hook once, which returns one
locator; `Calls` are the executions of the tool with that locator. Each system
call of `consumeAdmission`, `appendAwaitRequest`,
`electHeldCallTransitionAuthority` and `archiveImmutableRecord` is a step, and
`unsynced[p]` the directories process `p` has still to synchronise before it
goes on. `admitted`, `requested` and `obeyed` say what these functions returned;
the properties are about them, since what was never returned may be lost. The
branch that removes a request published again after it was archived is kept
although one locator cannot reach it.

### How supervisors correspond to the code

A process of `SupervisorLifecycle` is one incarnation of `hark-codex run`;
`holder` is the listener on the lock's port, which the kernel gives to one
process and takes back when it dies. `main[p]` is the command (`acquire`,
`start`, `markReady`, wait), `down[p]` the shutdown that a signal or a fatal
error starts beside it, `task[p]` its work on the wake. The ready file is
written, read and unlinked in steps of their own, as in the code. Each journal
write is a rename and a synchronisation. The task follows `#recoverWake` and
`#dispatchWake` with the states of a wake in which a dispatch may be ambiguous;
where several tasks of one supervisor meet is `SupervisedWake`'s question. The
host may be asked up to `MaxCalls` times, so that a second call would show.

## 3. Checks

| Run | What it shows | Bounds |
|---|---|---|
| `held_call` | every property of `HeldCall`, the liveness properties and the contract | one supervisor, the MCP server, two faults |
| `two_supervisors` | the safety properties that do not rely on a single supervisor | two supervisors, one fault, symmetric |
| `stale_attempt` | finding 1 | one supervisor, no fault |
| `freeze_wedge` | finding 2 | one supervisor, one fault |
| `wake_dispatch` | safety, liveness and the contract of a generic wake | three leases, three faults |
| `held_wake` | one dispatcher, one host call and progress with two concurrent tasks | two leases, two faults |
| `result_delivery` | a delivered result: scans, continuation, reports, claim, what stops the supervisor, archive; the turn may end anywhere and its server may die | two faults |
| `call_entry` | what a power loss leaves of a call's files | two executions, two reconcilers, one reader, two power losses |
| `supervisor_lifecycle` | lock, ready file and host call over successive supervisors | three processes, symmetric, two calls, two power losses |
| `late_refusal` | finding 3 | held, one lease, no fault |
| `other_turn` | finding 4 | generic, one lease, no fault |
| `await_left_open` | finding 5 | generic, one lease, one fault |

Two faults allow a lost reply and a crash in the same behaviour, which is what
the error paths combine (a lost cancel followed by a crash before the terminal).
A waiter failure is not counted as a fault, so the waiter may lose any reply on
top. Supervisors hold a process lock, so one is the normal case; two stand for
an old process that is not yet gone. `ArchivedIsApplied` is not claimed then:
one of two supervisors can archive the call while the other is about to record
what it applied.

For a wake, three leases are a first claim, one that replaces it and one that
meets a dispatch intent of an older generation, and three faults are a lapsed
lease, a lost reply and a crash in one behaviour. Two of each suffice for
`held_wake`, where each claim starts two tasks: a claim is only made while there
is no live record, so a third lease repeats the second.

For a result, two faults are a crash of the supervisor and a lost reply, in
either order; the host, the hook and the server stop or die without being
counted. The
folds of the rollout are finite, so the number of its lines is not bounded.

For the files, two executions are the first call and a replay, two reconcilers
may both act on the attempt and both archive, one reader cleans the spool at its
first use, and after two power losses the files have been through every
combination that one loss leaves, including one in the repair of another. Three
supervisors are the one that is leaving, its successor, and one that finds the
port taken. Kills are not bounded.

In the last three runs a call that is archived, and processes that all ended,
stop the system as they should. A settled call has nothing left to do either,
and a wake that has ended, or whose lease
was given back with `MaxClaims` used up, is finished too; so deadlock is not
checked.

*Fairness.* `FairSpec` has weak fairness of each supervisor's steps only: the
supervisor polls while it runs, and the `SessionStart` hook restarts it. Nothing
is assumed of the MCP server, of the host, or of the event. Faults are bounded,
so a supervisor eventually completes a pass.

`LiveSpec` of `SupervisedWake` has weak fairness of each task's dispatch and
recovery steps (a task that awaits is resumed), of the poll (it runs on a
timer), of `Restart` (the `SessionStart` hook starts a missing supervisor, so
this assumes that Codex sessions go on being started), of the prompt guard and
of the host's turn. Claims, faults, lapsed leases and other people's turns need
not happen.

`LiveSpec` of `ResultDelivery` has weak fairness of the certifier, which polls
on a timer, and of `Restart`, for the same reason as above. Nothing is assumed
of the server, the host, the hook, the user or the recovery. `CallEntry` and
`SupervisorLifecycle` are checked for safety only.

### Properties

* `OneTransition`: a call is never both committed and cancelled at the service.
* `SuspensionIsCommitted`, `TerminalMatchesService`, `AppliedMatchesService`:
  the records agree with what the service did.
* `ErrorReleaseIsSafe`: an error reaches a live turn only for an await that is
  gone.
* `IntentFollowsAuthority`: intent, authority, commit attempt and evidence never
  contradict each other, so the conflicts the code fails closed on are
  unreachable.
* `ArchivedIsApplied`: a crash reconciliation that began is recorded before the
  call leaves the spool.
* `TerminalIsFinal`, `DecisionsStand`: action properties on what is never
  undone. The terminal itself is never replaced; that the service moves no more
  after it excepts a call declared unarmed while its attempt was on disk.
* `FailedCallResolves`, `AbortedCallResolves`: nobody waits for ever on the
  other reconciler, apart from a frozen call, which the code leaves to an
  operator.
* `KeepsContract`: `HeldCall` implements `HeldCallContract`. The contract has
  one step for finding 1, `Disown`: a disowned call is taken for one without an
  await. That await may then still be armed and take one transition, whatever
  the host was told, but no result is ever given for it.

For a wake:

* `OneHostCall`: the host receives `turn/start` at most once.
* `OneDispatcher`: one task at most is between the journal's dispatching mark
  and the host call.
* `CallIsAdmitted`: from the host call on, the intent on disk, the journalled
  admission and the attempt are one generation, and only that is acknowledged.
* `WokenIsReal`: the journal never runs ahead of the guard, the turn and the
  service.
* `ContractKept`: a generic wake implements `WakeContract`; in particular a wake
  is refused only if it was not and will not be started. For held wakes finding
  3 contradicts it, so it is checked for generic wakes only.
* `WakeMovesOn`, `AdmittedTurnSettles`: an undispatched wake does not stay so,
  and an admitted turn that completes is reported, however often the supervisor
  dies.

For a delivered result:

* `ScansAgree`: the four scans of one rollout, made at any moment, never
  contradict each other: what one takes for proved no other takes for aborted.
* `ContinuedOnce`: the dispatcher gets the wake only after the turn that held
  the call was aborted, on a receipt that is never published for a turn that
  answered.
* `ReportsAreTrue`: what the service was told of the result is what became of
  it, and the terminal record agrees.
* `WakeTurnIsAdjacent`: a wake turn that has run can be certified.
* `ClaimOutlivesReport`: the claim is spent only when the service has the
  result, and not lost before.
* `SupervisorStopsFor`: the only cases in which the two loops stop the
  supervisor, wherever the host had got to. The certifier: a rollout read
  between the marker of an interruption and its abort; a turn that ended without
  an answer; a call that ended in an error; a wake whose continuation was
  reported aborted; one the recovery claimed before its result was reported; a
  claim the hook spent after the certifier looked. The recovery: a wake running
  or completed at the service, or a call that ended in an error. Each of them
  occurs; see the observations below.
* `CompletedCallIsArchived`: a call whose turn answered is archived, unless its
  lease lapsed before the report.

For the files of a call: `AdmittedOnce`, `VerdictSurvives` and
`RequestStaysKnown`, each about every disk a power loss may leave. The second
holds because who finds a record synchronises its directory before obeying it,
the third because a rename carries the request from the spool to the archive.

For supervisors: `HostCalledOnce`, over any succession of supervisors, kills and
power losses; `WorkUnderLock`, since the shutdown drains the tasks before it
closes the port; `NoFalseReady`, since `markReady` looks at the lock again after
it wrote the marker.

### Findings

1. `lib/tool-error-lifecycle.mjs:387` reads the arm attempt before the tool
   error and decides "never armed" (426-433) on that older read. A supervisor
   pass overtaken in between by the arm, the commit and the failure of the call
   publishes `pre_arm_failed` for a suspended await, and the MCP server then
   returns the error to the host. Run `stale_attempt`. Reading the arm attempt
   after the observation would close it, since the attempt precedes the error.
2. `lib/tool-error-lifecycle.mjs:243` freezes any replayed arm reply that is not
   `armed`, including the cancellation of another process that bound the await
   after this pass looked; `lib/held-call-crash-reconciler.mjs:241-244` explains
   why its own replay must converge in that case. The call stays in the spool.
   Run `freeze_wedge`.
3. `lib/supervisor.mjs:2125` refuses a wake from whatever state it has reached.
   When the poll and the held recovery task are both dispatching, the slower
   one's preflight scans a rollout that already holds the wake's own turn,
   counts it as an intervening task and marks the running wake failed. Run
   `late_refusal`.
4. `lib/transcript-proof.mjs:1277` throws at the end of any other turn before
   that turn counts as an intervening one. A thread that ran another turn is
   therefore not refused: the supervisor stops, and stops again at each start.
   Run `other_turn`.
5. `lib/supervisor.mjs:2424` ends the wake and its await by two journal writes.
   A crash between them leaves an await that nothing moves and for which the
   prompt guard blocks the thread. Run `await_left_open`.

Observations that contradict no statement of the repository, so that no run
checks them:

* A wake in state `dispatching` that no task owns any more (the acknowledgement
  timed out, for instance) is skipped by the poll and waits for a restart. This
  is why `AdmittedTurnSettles` starts from a journalled acknowledgement.
* When the poll finds the wake's turn still running, the wait proof fails, since
  it needs the turn's completion, and the supervisor stops; the wake settles by
  the restart.
* `#confirmWakeStarted` writes `dispatched` over any state, so of two tasks on a
  held wake one may reopen a wake that the other has ended.
* A held poll that read `claimed` before another task published the intent ends
  the supervisor with a wake state conflict.
* A rollout inspected between the marker of an interruption and its abort line
  ends the supervisor, as does a hook that spends the claim between the
  certifier's two looks at it. Both pass with the restart.
* A turn that ends after the result without an answer, or before the result,
  makes the proof or the inspection throw (`transcript-proof.mjs:842`,
  `held-wait-certifier.mjs:730`), and so does the error line of a server that
  died in a live turn (`transcript-proof.mjs:449`). The rollout does not change
  any more, so the supervisor is stopped again after each restart, the call
  stays in the spool and the prompt guard keeps the thread.
* A wake whose continuation was reported aborted fails every later certification
  of that call, so the call stays in the spool. A call recovered without a
  delivery is not archived either. `CompletedCallIsArchived` is therefore about
  calls whose turn answered.
* A lease that lapses between delivery and report leaves the certification
  pending: the service will not take an observation for a wake it queued again.
* `release` may unlink the marker of a successor: the file is compared and
  removed in two steps. The successor works on, but is not reported ready.
* An inbox record found by a second publisher is returned unsynchronised. For a
  fence this lets a power loss take the fence and leave the intent; a start then
  records that no host call was made although one was. `HostCalledOnce` holds
  all the same, because the fence is derived from the wake, so the intent is
  found at its publication and nobody calls on an intent it found.
* An arm attempt is acted on as it is read, durable or not. What is elected on
  its strength is durable.

## 4. Proofs

`HeldCallProofs` proves, for every set of supervisors and every number of
faults:

| Theorem | Says |
|---|---|
| `TypeCorrect` | `TypeOK` |
| `ElectionHolds` | `ElectionObeyed` |
| `OneTransitionHolds` | `OneTransition` |
| `IntentAgrees` | `IntentFollowsAuthority` |
| `SuspensionHolds` | `SuspensionIsCommitted` |

*Assumptions*: `HeldCallAssumption` only.

*Argument.* `OneTransition` is not inductive: a process already on its way to
cancel could do so after another committed. `ElectionObeyed` adds that every
process whose control is past the election agrees with it, and so does every
request ever sent; since the authority is written once, it is inductive on top
of the types. `EvidenceFirst` says what a process that may still elect has found
on disk, which gives the evidence part of `IntentFollowsAuthority`;
`AttemptBeforeCommit` says where a commit attempt is already published and where
the service already accepted, which gives `SuspensionIsCommitted`. Each
invariant has one lemma per component (waiter, lifecycle, crash reconciler,
shared steps) with one step per action.

`HeldTerminalProofs` proves the rest of `HeldCall`'s safety, for every set of
supervisors and every number of faults:

| Theorem | Says | Assumes besides |
|---|---|---|
| `TerminalAgrees` | `TerminalMatchesService` | |
| `ErrorReleaseHolds` | `ErrorReleaseIsSafe` | |
| `AppliedAgrees` | `AppliedMatchesService` | |
| `ArchiveHolds` | `ArchivedIsApplied` | one supervisor (`Alone`) |
| `DecisionsHold` | `DecisionsStand` | |
| `TerminalStands` | `TerminalIsFinal` | |
| `ContractHolds` | `KeepsContract` | |

*Assumptions*: `HeldCallAssumption`, and for `ArchiveHolds` one supervisor,
which the process lock grants. Nothing is assumed of the order in which a pass
reads: the arm attempt comes first, as in the code, and the call may overtake
it. The theorems say that finding 1 is all that can come of it: the exception
they make is `overtaken`, and only a publication of `pre_arm_failed` on that
read sets it.

*Argument.* `HeldInv` conjoins the invariants of `HeldCallProofs` with three
more. `CourseInv`: the service has heard of an await only after its arm
attempt, a pass past the arm has found one, an observed error means that the
waiter published its last, and a delivered wake is one the service matched.
`TerminalInv`: each terminal rules out every later transition (never armed and
never to be, cancelled, or committed and matched) unless the call is
`overtaken`, and who is about to publish one has its proof. `AppliedInv`: the
crash reconciler is past its intent when it acts and past its act when it says
so. `ArchiveInv` adds, for one supervisor, what may be outstanding where. For
the action properties and the refinement each step is put into one of two
classes: it serves at most one request of the await and leaves the answer
alone (`Serves`), or it closes, answers, disowns or aborts the call
(`Closes`). `TerminalFacts` excludes a served request after the terminal of a
call that is not disowned, and `Settleable` allows the closing; the first
class then maps to `Arm`, `Transition` or a stutter of the contract, the
second to its answers, `Settle`, `Disown` and `Abort`. That decisions stand
(`Stands`) needs only the election and the evidence.

`WakeProofs` proves, for generic and held wakes, any number of leases and any
number of faults:

| Theorem | Says |
|---|---|
| `WakeInvHolds` | the inductive invariant `WakeInv` |
| `WakeTypeCorrect` | `TypeOK` |
| `OneHostCallHolds` | `OneHostCall` |
| `OneDispatcherHolds` | `OneDispatcher` |
| `CallIsAdmittedHolds` | `CallIsAdmitted` |
| `WokenIsRealHolds` | `WokenIsReal` |
| `GenericWakeKeepsContract` | `ContractKept`, the refinement of `WakeContract` |
| `GenericDispatchStands` | `LiveDispatchStands` |

*Assumptions*: `WakeAssumption`, and for the last two `~HeldRecovery`: a generic
wake. A held one breaks both, because its second task may refuse a wake that the
first has started (the finding of `late_refusal`).

*Argument.* `WakeInv` is `TypeOK /\ Protocol /\ Reported`. `OneHostCall` alone
is not inductive: nothing in it says that whoever is about to call created the
intent. `IntentFirst` says so (a task past the intent, a call, an
acknowledgement all presuppose it, and before the call there is none).
`OneDispatcher` needs `DispatchPrepared`: on the way to the host call the wake
stays in a state from which nobody begins again, under the lease that began.
`IntentBinds` carries attempt, admission and intent through later leases; what
could break it, startup's rewind, is excluded by `FenceRead`, which holds
because the poll is alone while it recovers (`TasksAlone`). `Reported` follows a
turn from the acknowledged admission to the woken and the completed record, each
with the receipt posted before it. Each part has one lemma per group of actions,
with one step per action.

A generic wake has one task, the poll (`PollAlone`). `ContractInv` adds what the
service knows when: it has heard of the wake before the wake leaves its first
states (`Received`), a refusal is posted only for a rollback and before any
intent, and lasts (`RefusedInTime`), and nothing of the turn is reported before
its acknowledgement, nor out of order (`ToldInOrder`). Each step of the poll
then is a step of the contract (a receipt is `Receive`, `Refuse`, `Report` or
`Complete`, the intent `Announce`, the host call `Make`, the guard's
acknowledgement `Admit`) or leaves all the contract sees unchanged.
`GenericDispatchStands` needs one more invariant, `FailedIsRefused`: a wake
fails only by a refusal, since one that ends with its turn was woken, and a
woken turn was completed.

`RolloutProofs` and `ResultDeliveryProofs` prove, for every rollout and any
number of faults:

| Theorem | Says |
|---|---|
| `RolloutReadConsistently` | `ScansAgree` |
| `DeliveryTypeCorrect` | `TypeOK` of `DeliveryState` |
| `ResultContinuedOnce` | `ContinuedOnce` |
| `PrivateClaimOutlivesReport` | `ClaimOutlivesReport` |
| `ReportsAgree` | `ReportsAreTrue` |
| `WakeTurnFollowsAbort` | `WakeTurnIsAdjacent` |
| `SupervisorStopsListed` | `SupervisorStopsFor` |

*Assumptions*: `FaultsAssumption` only. *Argument.* `ScansInv` says which
combinations of the four folds one rollout can produce; `Append` preserves it
line by line, and every other step leaves `scan` alone. `TurnInv` ties the
rollout to the turn the host has (no answer is proved before the host wrote
it, none after an abort or an end without one), and `AbortInv` what the
certifier may believe on the way to its receipt, which gives `ContinuedOnce`.
`ClaimInv` follows both users of the claim through its files: who is about to
link the tombstone has seen the observation acknowledged. `ReportsAreTrue`
needs what the certifier goes by between reading the rollout and posting.
`ServiceInv` says that every requeue the service has is of a turn cut off
where the requeue says, and every completion of a continuation proved or of a
wake handed over; `CertifierInv` says the same of the reason it holds, of the
completion it writes and of the terminal it publishes. A proof and an abort
are final (`ScanStands`), so they hold although the rollout grows in between.
`ServiceSteps` and `CertifierMoves` abstract the steps to what the two
invariants depend on. For `WakeTurnIsAdjacent`, `Twin` says that the
preflight's scan and the history's agree as long as nothing is wrong, so the
history is clean when the wake's turn begins (`WakeTurnInv`). No prompt gets
into it, because the request leaves the spool only after the call is closed,
and a recovered call is closed only when the wake's turn has ended
(`SpoolInv`). `SupervisorStopsFor` speaks of every place where a loop of the
supervisor throws, so `StopInv` has to exclude all the others. `OwnInv`: until
the wake is handed over or archived, the server dies or the turn ends
unanswered, the rollout holds only the origin turn's own lines in their order
(`OwnLines`), so no scanner refuses it but between the marker of an
interruption and the abort. A dead server and an unanswered turn stay so
(`DeadKept`, `TurnChanges`), and are among the cases listed. `HandbackInv`: a
reported result stays with its turn until it is requeued, and the recovery
holds only a wake it claimed. `PassInv`: what the certifier relies on, within
one pass, of answers it got earlier in that pass (`Resolving`, `Reporting`)
still stands when it acts on them. With `ClaimInv` and `AdjacencyInv` from the
theorems above, each throw is either unreachable or one of the cases the
property lists (`CertifierMayStop`).

`CallEntryProofs` proves, for every set of executions, reconcilers and readers
and any number of power losses:

| Theorem | Says |
|---|---|
| `OneCallIsAdmitted` | `AdmittedOnce` |
| `ObeyedVerdictSurvives` | `VerdictSurvives` |
| `AcceptedRequestStaysKnown` | `RequestStaysKnown` |

*Assumptions*: that `Absent` is no record and that the kinds of actors are
disjoint. *Argument.* `DurableStoreProofs` reduces the set of disks to one fact,
`IsStore`: every disk agrees with what is seen in each directory it is not
behind on. From it follow, once for each operation, what `Put`, `Move` and
`SyncDirectory` do to all disks. `EntryInv` adds for every actor which record it
has seen and which directories it owes; an actor that owes nothing more has the
record on every disk. It has a part for each property (`AdmitInv`, `VerdictInv`,
`RequestInv`) on top of a common one (`EntryOK`).

`SupervisorProofs` proves, for every set of processes and any number of power
losses:

| Theorem | Says |
|---|---|
| `WorkIsUnderLock` | `WorkUnderLock` |
| `NoMarkerOutlivesShutdown` | `NoFalseReady` |
| `HostIsCalledOnce` | `HostCalledOnce` |

*Assumptions*: that `Absent` is no process and no record, and the bounds are
numbers. *Argument.* `LifeInv` says when a process holds the lock and from when
on its marker is gone or will be taken back. `CallInv` says that whoever is
between the publication of the intent and the call created it and is alone, by
the lock, and that a call leaves the intent on every disk.

*Model-checked only*: the five liveness properties of passing runs
(`FailedCallResolves`, `AbortedCallResolves`, `WakeMovesOn`,
`AdmittedTurnSettles`, `CompletedCallIsArchived`), because fairness and ENABLED
are outside the prover. Every invariant and every safety property of a step that
a passing run checks is a theorem, and so are both refinements: of
`HeldCallContract` by `HeldCall` and of `WakeContract` by `SupervisedWake`.

## 5. Not modelled, and what is next

Not modelled, because it is input and output without a protocol of its own: HTTP
requests, credentials, the JSON-RPC framing of transport and server,
installation and the pinned runtime, `doctor` and onboarding, manifests and
skill text, the formats of records and their validation, permission checks.

Not modelled although it has state:

* the older generic await (the `Stop` hook's preparation events, their
  quarantine and `onTurnCompleted`), which the held call replaces; the dispatch
  and the end of a generic wake are in `SupervisedWake`;
* quarantine of invalid spool entries and the terminals synthesised from a
  completion, which repair states the modelled code does not produce;
* user rollback of a thread while a call is held;
* a replay of a dispatching wake under its own lease;
* `inspect` and `inspectReady`, which only read.

Next, in this order: the generic await as a module of its own; the liveness of
`SupervisorLifecycle`.
