----------------------------- MODULE HeldResult -----------------------------
(***************************************************************************)
(* The result on its way to the agent: the end of the MCP server's call,   *)
(* the Codex host that records it, and the PostToolUse hook.               *)
(***************************************************************************)
EXTENDS PrivateClaim

-----------------------------------------------------------------------------
(* The MCP server *)

\* Publishing the delivery, the private claim and the observation intent, in
\* this order, before anything is returned.
ServerPublish ==
  /\ \/ /\ At("server", "deliver")
        /\ Publish("delivery")
        /\ Goto("server", "claim")
        /\ UNCHANGED claim
     \/ /\ At("server", "claim")
        /\ Create
        /\ Goto("server", "intent")
        /\ UNCHANGED disk
     \/ /\ At("server", "intent")
        /\ Publish("intent")
        /\ Goto("server", "return")
        /\ UNCHANGED claim
  /\ UNCHANGED <<scan, host, closed, archived, service, memory, handed, cause, faults>>

\* Killed with its host, or its result no longer wanted.
ServerGone ==
  /\ pc["server"] \notin {"done", "dead"}
  /\ gone \/ turn \notin Live
  /\ Goto("server", "done")
  /\ UNCHANGED <<scan, host, records, claim, service, memory, handed, cause, faults>>

-----------------------------------------------------------------------------
(* The Codex host *)

HostLine(line, before, after) ==
  /\ turn \in before
  /\ turn' = after
  /\ Append(line)
  /\ UNCHANGED <<gone, records, claim, service, memory, handed, cause, faults>>

HostReceive ==
  /\ At("server", "return")
  /\ Goto("server", "done")
  /\ HostLine("callEnd", {"held"}, "ended")

\* The server dies in the middle of the call, wherever it had got to: the call
\* ends in an error, which the PostToolUse hook leaves to the supervisor as long
\* as the await is suspended.
HostError ==
  /\ pc["server"] \notin {"done", "dead"}
  /\ Goto("server", "dead")
  /\ HostLine("callError", {"held"}, "lost")

\* The turn goes on with the result, or ends wherever it stands.
HostContinue ==
  /\ \/ HostLine("output", {"ended"}, "read")
     \/ HostLine("message", {"read", "answered"}, "answered")
     \/ HostLine("complete", {"answered"}, "completed")
     \/ HostLine("complete", Live \ {"answered"}, "unanswered")
  /\ UNCHANGED pc

\* The app server shows the turn failed or interrupted, and the rollout lags
\* behind: it may still grow by the result, the answer, or an end of any kind.
HostAbort ==
  /\ ~gone
  /\ turn \in Live
  /\ gone' = TRUE
  /\ UNCHANGED <<scan, turn, records, claim, service, pc, memory, handed, cause, faults>>

HostRecordAbort ==
  /\ gone
  /\ \/ HostLine("marker", Live, "marked")
     \/ HostLine("aborted", Live \cup {"marked"}, "aborted")
  /\ UNCHANGED pc

\* The host may be in the middle of a line as long as it has one to write.
Tails == IF turn \in Over /\ ~scan.history.wake THEN {FALSE} ELSE BOOLEAN

\* evaluatePromptGuard: no prompt of the user's gets into the thread while
\* its request is in the spool.
\*
\* Mutant: the guard only watches the turn.
GuardedByTurn == turn \notin Over

Guarded == ~archived

UserTurn ==
  /\ ~Guarded
  /\ HostLine("otherTurn", Over, turn)
  /\ UNCHANGED pc

LapseLease ==
  /\ service.wake = "leased"
  /\ service' = [service EXCEPT !.wake = "queued"]
  /\ UNCHANGED <<scan, host, records, claim, pc, memory, handed, cause, faults>>

-----------------------------------------------------------------------------
(* The PostToolUse hook *)

\* The host starts it when the call ends.
HookStart ==
  /\ At("hook", "idle")
  /\ turn = "ended"
  /\ Goto("hook", "resolve")
  /\ UNCHANGED <<scan, host, records, claim, service, memory, handed, cause, faults>>

\* handlePostToolUse up to the report.
HookReturned ==
  /\ At("hook", "resolved")
  /\ IF read["hook"] = "consumed"
     THEN Goto("hook", "done") /\ UNCHANGED disk
     ELSE Publish("returned") /\ Goto("hook", "observe")
  /\ UNCHANGED <<scan, host, closed, archived, claim, service, memory, handed, cause, faults>>

\* recordImmediateToolResultObservation: a conflict is looked into, a stale
\* lease or a lost reply is left to the certifier.
HookObserve ==
  /\ At("hook", "observe")
  /\ \/ /\ Observe
        /\ \E answer \in ObservationAnswers :
             Goto("hook", CASE answer = "ack"      -> "consume"
                            [] answer = "conflict" -> "probe"
                            [] OTHER               -> "done")
        /\ UNCHANGED faults
     \/ /\ LoseReply
        /\ Observe \/ UNCHANGED service
        /\ Goto("hook", "done")
  /\ UNCHANGED <<scan, host, records, claim, memory, handed, cause>>

\* exactObservationAlreadyRecorded
HookProbe ==
  /\ At("hook", "probe")
  /\ \E kind \in Classifications :
       Goto("hook", IF kind = "observed" THEN "consume" ELSE "done")
  /\ UNCHANGED <<scan, host, records, claim, service, memory, handed, cause, faults>>

HookEnd ==
  /\ pc["hook"] \notin {"idle", "done"}
  /\ Goto("hook", "done")
  /\ UNCHANGED <<scan, host, records, claim, service, memory, handed, cause, faults>>

Hook == HookStart \/ ClaimStep("hook") \/ HookReturned \/ HookObserve \/ HookProbe \/ HookEnd
=============================================================================
