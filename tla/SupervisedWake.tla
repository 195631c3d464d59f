--------------------------- MODULE SupervisedWake ---------------------------
(***************************************************************************)
(* One wake, end to end: the supervisor's tasks, the prompt guard, the     *)
(* Codex host and the service together, through crashes, restarts, lost    *)
(* replies and expired leases.                                             *)
(***************************************************************************)
EXTENDS WakeDispatch, WakeRecovery

Next ==
  \/ AcceptClaim \/ AcceptReplay \/ PollReconcile
  \/ \E p \in Tasks : Dispatch(p)
  \/ \E p \in Tasks : Recover(p)
  \/ \E p \in Tasks : Interrupted(p)
  \/ Crash \/ Restart
  \/ GuardDecide \/ GuardAck \/ HostRun \/ HostFinish \/ ChangeHistory
  \/ LapseLease

Spec == Init /\ [][Next]_vars

\* Every task that is at work goes on, the poll and the recovery loop come
\* round again, a SessionStart hook restarts a stopped supervisor, and the
\* host runs a turn it has accepted.  Faults, claims and other people's
\* turns need not happen.
Fairness ==
  /\ \A p \in Tasks : WF_vars(Dispatch(p)) /\ WF_vars(Recover(p))
  /\ WF_vars(PollReconcile)
  /\ WF_vars(Restart)
  /\ WF_vars(GuardDecide) /\ WF_vars(GuardAck)
  /\ WF_vars(HostRun) /\ WF_vars(HostFinish)

LiveSpec == Spec /\ Fairness

-----------------------------------------------------------------------------
(* Safety *)

\* However often the wake is claimed, replayed and recovered, and wherever
\* the supervisor dies, the host receives turn/start for it at most once.
OneHostCall == calls <= 1

\* The dispatch intent on disk, the admission the journal holds and the
\* generation that began the dispatch are one and the same from the host call
\* on, so the guard and the wait proof speak of the turn that was started;
\* and no prompt but that turn's is ever acknowledged.
CallIsAdmitted ==
  /\ calls > 0 => /\ intent \in admissions
                  /\ wake.admission = intent
                  /\ wake.attempt = intent
                  /\ intent <= wake.gen
  /\ acks \subseteq {intent}

\* The journal never runs ahead of the world: a wake recorded as woken was
\* acknowledged by the guard and its turn ran to completion; a completed one
\* was also reported as woken and as completed.
WokenIsReal ==
  /\ wake.woken => intent \in acks /\ turn = "completed"
  /\ wake.state = "completed" => wake.woken /\ {"woken", "completed"} \subseteq receipts

\* However the two tasks interleave, only one of them is on the way from the
\* journal's dispatching mark to the host call.
HostCallLabels == {"admit", "admitJournal", "intent", "intentJournal", "start"}

OneDispatcher ==
  \A p, q \in Tasks : pc[p] \in HostCallLabels /\ pc[q] \in HostCallLabels => p = q

\* What the host and the service see of the wake is a behaviour of the
\* contract.
Contract == INSTANCE WakeContract WITH
  call <- IF calls > 0 THEN "made" ELSE IF intent # 0 THEN "announced" ELSE "none",
  admitted <- acks # {},
  told <- IF "dispatch_failed" \in receipts THEN "refused"
          ELSE IF "completed" \in receipts THEN "completed"
          ELSE IF "woken" \in receipts THEN "woken"
          ELSE IF "received" \in receipts THEN "received"
          ELSE "nothing"

ContractKept == Contract!Spec

-----------------------------------------------------------------------------
(* Liveness *)

\* On a thread whose history stands or was rolled back, a wake does not stay
\* undispatched for ever: it is started, refused, or found uncertain.
WakeMovesOn ==
  (wake.state \in Undispatched /\ history # "otherTurn")
    ~> (wake.state \notin Undispatched \/ history = "otherTurn")

\* A turn that the journal knows to be admitted and that completes is
\* reported, through however many restarts: the wake ends and the service
\* knows.
AdmittedTurnSettles ==
  (wake.ack /\ turn = "completed" /\ history # "otherTurn")
    ~> (wake.state = "completed" /\ "completed" \in receipts)

-----------------------------------------------------------------------------
(* What the repository says of the program and the code does not do. *)

\* A recovery pass cannot take away a wake that is being dispatched: on an
\* untouched thread no wake fails once its turn was started.  Violated: the
\* preflight of a slower task takes the wake's own turn for an intervening
\* one and refuses the wake whatever state it has reached.
LiveDispatchStands ==
  history = "intact" /\ wake.state = "failed" => calls = 0

\* A wake whose thread ran another turn is refused.  Violated: the scan
\* throws on the other turn's end, and the supervisor stops each time it
\* recovers the wake.
OtherTurnRefuses ==
  (wake.state \in Undispatched /\ history = "otherTurn")
    ~> wake.state \notin Undispatched

\* The thread opens again once its wake has ended.  Violated: a crash
\* between the two journal writes leaves the await open for good.
EndedWakeReleasesThread ==
  wake.state \in TerminalWakeStates ~> await \notin OwnedAwaitStates
=============================================================================
