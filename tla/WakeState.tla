----------------------------- MODULE WakeState -----------------------------
(***************************************************************************)
(* The shared state of one wake: a claimed wake that the supervisor must   *)
(* turn into exactly one turn of the sleeping Codex thread.                *)
(*                                                                         *)
(* Four parties meet here.  The supervisor (one process, two concurrent    *)
(* tasks) keeps a journal; the hook inbox is a directory of immutable      *)
(* files that survives everything; the Codex host runs the turn and, just  *)
(* before it, the prompt guard, a process of its own that reads the        *)
(* journal and the inbox; the remote service leases the wake and collects  *)
(* the receipts.  This module declares that state, the steps by which a    *)
(* supervisor task moves on, stops or fails, and the actions of the host,  *)
(* the guard and the service.                                              *)
(***************************************************************************)
EXTENDS Naturals

CONSTANTS
  HeldRecovery,  \* TRUE: claims come from the held-call recovery loop, which
                 \* runs beside the wake poll; FALSE: from the wake poll itself
  MaxClaims,     \* bound on lease generations
  MaxFaults      \* bound on crashes, lost replies and failed operations

ASSUME WakeAssumption ==
  /\ HeldRecovery \in BOOLEAN
  /\ MaxClaims \in Nat
  /\ MaxFaults \in Nat

Tasks   == {"poll", "claim"}
Claimer == IF HeldRecovery THEN "claim" ELSE "poll"

\* A wake's third terminal state, cancelled, is never written.
TerminalWakeStates == {"completed", "failed"}
WakeStates == TerminalWakeStates \cup
  {"absent", "claimed", "needs_reclaim", "dispatch_deferred", "dispatching",
   "dispatch_uncertain", "submitted", "dispatched", "running"}
Undispatched == {"claimed", "dispatch_deferred"}

Unreceived  == {"suspended", "wake_pending"}
AwaitStates == Unreceived \cup
  {"none", "wake_received", "running", "completed", "failed"}
OwnedAwaitStates == Unreceived \cup {"wake_received", "running"}

\* An interrupted turn counts as failed.
TerminalTurns == {"completed", "failed"}
StartedTurns  == TerminalTurns \cup {"running"}
Turns         == StartedTurns \cup {"none", "requested", "blocked"}

TerminalReceipts == {"completed", "failed", "dispatch_failed"}
Receipts         == TerminalReceipts \cup {"received", "woken"}

Generations == 0 .. MaxClaims

Labels ==
  {"idle",
   "ackRead", "ackPost", "awaitReceived",
   "thread", "preflight", "refusePost", "refuse", "refuseAwait",
   "check", "reserve", "begin", "admit", "admitJournal",
   "intent", "intentJournal", "start", "observe", "waitAck", "lost",
   "fence", "read", "lookup", "submit",
   "confirm", "woken", "wokenPost", "awaitRunning", "markRunning",
   "finish", "finishPost", "finishWake", "finishAwait"}

VARIABLES
  wake,            \* journal: the wake record
  await,           \* journal: state of the await it wakes
  admissions,      \* hook inbox: published wake admissions, by generation
  intent,          \* hook inbox: admission named by the dispatch intent, or 0
  acks,            \* hook inbox: acknowledged wake admissions
  turn,            \* host: the wake's turn
  guard,           \* host: verdict of the prompt guard on that turn
  calls,           \* host: turn/start calls received for this wake
  history,         \* host: what happened to the thread since it fell asleep
  lapsed,          \* service: the lease of the last claim has expired
  receipts,        \* service: runtime receipts it has accepted
  phase,           \* supervisor: up, recovering (inside start()) or stopping
  pc,              \* supervisor: where each task stands
  mem,             \* supervisor: what each task read and still relies on
  faults           \* faults so far

journal == <<wake, await>>
inbox   == <<admissions, intent, acks>>
host    == <<turn, guard, calls, history>>
service == <<lapsed, receipts>>
control == <<phase, pc, mem>>
vars    == <<journal, inbox, host, service, control, faults>>

\* gen: generation of the lease; attempt: generation that began the dispatch;
\* admission: the journalled admission; ack, woken: the acknowledgement and
\* the task_woken receipt are journalled.
WakeRecord == [state : WakeStates, gen : Generations, attempt : Generations,
               admission : Generations, ack : BOOLEAN, woken : BOOLEAN]

NewWake(state, gen) == [state |-> state, gen |-> gen, attempt |-> 0,
                        admission |-> 0, ack |-> FALSE, woken |-> FALSE]

\* state, await: journal states read earlier; turn: the turn as last read
\* ("none" on the path that started it); fenced: an intent was on disk;
\* queued: the task runs inside #enqueue.
Memory == [state : WakeStates, await : AwaitStates, turn : Turns,
           fenced : BOOLEAN, queued : BOOLEAN]

NoMemory == [state |-> "absent", await |-> "none", turn |-> "none",
             fenced |-> FALSE, queued |-> FALSE]

TypeOK ==
  /\ wake \in WakeRecord
  /\ await \in AwaitStates
  /\ admissions \in SUBSET (1 .. MaxClaims)
  /\ intent \in Generations
  /\ acks \in SUBSET Generations
  /\ turn \in Turns
  /\ guard \in {"none", "admit", "pass", "block"}
  /\ calls \in Nat
  /\ history \in {"intact", "rolledBack", "otherTurn"}
  /\ lapsed \in BOOLEAN
  /\ receipts \in SUBSET Receipts
  /\ phase \in {"up", "recovering", "stopping"}
  /\ pc \in [Tasks -> Labels]
  /\ mem \in [Tasks -> Memory]
  /\ faults \in 0 .. MaxFaults

\* No wake yet.  A generic await is already suspended, or committed after its
\* event had come (wake_pending); a held one has no journal entry until its
\* recovery stages it.
Init ==
  /\ wake = NewWake("absent", 0)
  /\ await \in IF HeldRecovery THEN {"none"} ELSE Unreceived
  /\ admissions = {} /\ intent = 0 /\ acks = {}
  /\ turn = "none" /\ guard = "none" /\ calls = 0
  /\ history = "intact"
  /\ lapsed = FALSE /\ receipts = {}
  /\ phase = "up"
  /\ pc = [p \in Tasks |-> "idle"]
  /\ mem = [p \in Tasks |-> NoMemory]
  /\ faults = 0

-----------------------------------------------------------------------------
(* How a task moves. *)

Fault == faults < MaxFaults /\ faults' = faults + 1

Goto(p, label, m) ==
  /\ pc' = [pc EXCEPT ![p] = label]
  /\ mem' = [mem EXCEPT ![p] = m]

Step(p, label)           == Goto(p, label, mem[p]) /\ UNCHANGED phase
StepWith(p, label, m)    == Goto(p, label, m) /\ UNCHANGED phase

\* The operation returns; recovery was start()'s last duty before its loops.
Done(p) ==
  /\ Goto(p, "idle", NoMemory)
  /\ phase' = IF phase = "recovering" THEN "up" ELSE phase

\* An error that ends the supervisor.  The other task runs on to its end.
Fatal(p) == Goto(p, "idle", NoMemory) /\ phase' = "stopping"

\* An error the wake poll survives: not one thrown in start() nor one that
\* went through #enqueue, whose catch is fatal whatever the error.
Transient(p) ==
  IF p = "poll" /\ phase = "up" /\ ~mem[p].queued THEN Done(p) ELSE Fatal(p)

\* A receipt is posted: accepted; refused because the lease has expired or
\* the wake has ended; or its reply is lost once the service has recorded it.
Post(p, kind, next) ==
  LET known == kind \in receipts \/ (~lapsed /\ receipts \cap TerminalReceipts = {})
  IN  /\ UNCHANGED <<journal, inbox, host, lapsed>>
      /\ \/ known /\ receipts' = receipts \cup {kind} /\ Step(p, next)
            /\ UNCHANGED faults
         \/ known /\ receipts' = receipts \cup {kind} /\ Transient(p) /\ Fault
         \/ ~known /\ Fatal(p) /\ UNCHANGED <<receipts, faults>>

\* What reading the thread can show of the wake's turn: a requested turn may
\* not be listed yet, and a prompt the guard blocked leaves none.
SeenTurns ==
  CASE turn = "requested" -> {"none", "requested"}
    [] turn = "blocked"   -> {"none"}
    [] OTHER              -> {turn}

Recoverable == wake.state \notin TerminalWakeStates \cup {"absent", "needs_reclaim"}

\* Any operation of a task can fail before it has had an effect.
Interrupted(p) ==
  /\ pc[p] # "idle"
  /\ Fault
  /\ Transient(p) \/ Fatal(p)
  /\ UNCHANGED <<journal, inbox, host, service>>

Crash ==
  /\ phase # "stopping" \/ \E p \in Tasks : pc[p] # "idle"
  /\ Fault
  /\ phase' = "stopping"
  /\ pc' = [p \in Tasks |-> "idle"]
  /\ mem' = [p \in Tasks |-> NoMemory]
  /\ UNCHANGED <<journal, inbox, host, service>>

\* The SessionStart hook of a Codex session starts a new supervisor under the
\* process lock (hark-codex onboard and ensure), and start() recovers an
\* unfinished wake before its loops begin.
Restart ==
  /\ phase = "stopping" /\ \A p \in Tasks : pc[p] = "idle"
  /\ IF Recoverable
     THEN /\ Goto("poll", "fence", [NoMemory EXCEPT !.state = wake.state])
          /\ phase' = "recovering"
     ELSE phase' = "up" /\ UNCHANGED <<pc, mem>>
  /\ UNCHANGED <<journal, inbox, host, service, faults>>

-----------------------------------------------------------------------------
(* The host, the prompt guard and the service. *)

\* The guard lets the prompt through when nothing owns the thread, and admits
\* the wake's prompt when journal, admission and intent agree.
GuardDecide ==
  /\ turn = "requested" /\ guard = "none"
  /\ LET authentic == /\ await \in OwnedAwaitStates
                      /\ wake.admission # 0 /\ wake.admission <= wake.gen
                      /\ wake.state \in {"dispatching", "submitted", "dispatch_uncertain"}
                      /\ intent = wake.admission
         owned     == await \in OwnedAwaitStates
     IN  \E heldRequest \in IF HeldRecovery THEN BOOLEAN ELSE {FALSE} :
           guard' = IF authentic THEN "admit"
                    ELSE IF owned \/ heldRequest THEN "block" ELSE "pass"
  /\ UNCHANGED <<journal, inbox, turn, calls, history, service, control, faults>>

\* Only then does it write the acknowledgement of the admission it matched.
GuardAck ==
  /\ guard = "admit" /\ intent \notin acks
  /\ acks' = acks \cup {intent}
  /\ UNCHANGED <<journal, admissions, intent, host, service, control, faults>>

HostRun ==
  /\ turn = "requested"
  /\ \/ /\ guard = "pass" \/ (guard = "admit" /\ intent \in acks)
        /\ turn' = "running"
     \/ guard = "block" /\ turn' = "blocked"
  /\ UNCHANGED <<journal, inbox, guard, calls, history, service, control, faults>>

HostFinish ==
  /\ turn = "running"
  /\ turn' \in TerminalTurns
  /\ UNCHANGED <<journal, inbox, guard, calls, history, service, control, faults>>

\* Before the wake's turn the thread is rolled back, or another turn runs on
\* it from start to end.
ChangeHistory ==
  /\ history = "intact" /\ turn = "none"
  /\ history' \in {"rolledBack", "otherTurn"}
  /\ UNCHANGED <<journal, inbox, turn, guard, calls, service, control, faults>>

\* A lease that nobody confirmed with wake_received expires.
LapseLease ==
  /\ wake.gen # 0 /\ ~lapsed /\ "received" \notin receipts
  /\ Fault
  /\ lapsed' = TRUE
  /\ UNCHANGED <<journal, inbox, host, receipts, control>>
=============================================================================
