------------------------------- MODULE Rollout -------------------------------
(***************************************************************************)
(* What Hark reads in the rollout, the JSONL file to which the Codex host  *)
(* appends whatever happens in a thread (transcript-proof.mjs).            *)
(*                                                                         *)
(* Every question is a scan, line by line, of what was appended after the  *)
(* boundary captured before the wait, and the file only grows.  So the     *)
(* module keeps, instead of the lines, what each scanner would know had it *)
(* read them all: appending a line applies one step of every scanner, and  *)
(* a reader that opens the file now sees the outcome of these records.     *)
(***************************************************************************)
EXTENDS Naturals

VARIABLE scan   \* what the four scanners know of the lines after the boundary

\* The lines the scanners tell apart: token accounting, the end of the MCP
\* call with the exact result and with anything else, the call's output, an
\* assistant message, the marker of an interruption, the two ends of the origin
\* turn, a rollback, the context and the completion of another turn, and those
\* of the wake's turn.
OriginEnds == {"aborted", "complete"}
OtherLines == {"otherTurn", "otherEnd", "wakeTurn", "wakeEnd"}
Lines == {"token", "callEnd", "callError", "output", "message", "marker", "rollback"}
           \cup OriginEnds \cup OtherLines

TurnContexts == {"otherTurn", "wakeTurn"}

\* mcp_tool_call_end
CallEnds == {"callEnd", "callError"}

\* rolloutRecordTurnIds: the line names a turn other than the origin's.
NamesOtherTurn(line) == line \in OtherLines

\* originTerminalEvent: the line ends some turn, the origin's or another.
OriginTerminal(line) == line \in OriginEnds
OtherTerminal(line) == line \in {"otherEnd", "wakeEnd"}

-----------------------------------------------------------------------------
(* proveCodexToolWait: the origin turn read the result and answered. *)

\* pending: "end" after the end of the MCP call, "marker" after the marker of
\* an interruption in its place.
ProveStart ==
  [pending |-> "no", dropped |-> FALSE, outputs |-> 0, dirty |-> FALSE,
   answered |-> FALSE, done |-> FALSE, failed |-> FALSE]

ProofStates ==
  [pending : {"no", "end", "marker"}, dropped : BOOLEAN, outputs : 0..2,
   dirty : BOOLEAN, answered : BOOLEAN, done : BOOLEAN, failed : BOOLEAN]

Fail(p) == [p EXCEPT !.failed = TRUE]

\* Lines that count against the proof wherever they stand.
Contaminates(line) == line = "rollback" \/ line \in TurnContexts

\* Before the output.  The call must have ended with the delivered result
\* (assertPinnedHarkMcpToolCallEnd); its end must be followed at once by the
\* output or by the abort of the turn, and only token accounting is harmless.
ProveBefore(p, line) ==
  IF \/ p.pending = "marker" /\ line \notin {"aborted", "token"}
     \/ p.pending = "end" /\ line \notin {"output", "marker", "aborted"}
     \/ line = "output" /\ (p.pending = "no" \/ p.dropped)
     \/ line = "callError"
  THEN Fail(p)
  ELSE CASE line = "output"                         -> [p EXCEPT !.pending = "no", !.outputs = 1]
         [] line = "callEnd"                        -> [p EXCEPT !.pending = "end"]
         [] line = "marker" /\ p.pending = "end"    -> [p EXCEPT !.pending = "marker"]
         [] line = "aborted" /\ p.pending # "no"    -> [p EXCEPT !.pending = "no", !.dropped = TRUE]
         [] line = "token"                          -> p
         [] OTHER                                   -> [p EXCEPT !.dirty = TRUE]

\* After it: the end of the origin turn closes the scan.
\*
\* Mutant: whatever the end.
ProvedByAnyEnd(p, line) ==
  CASE line \in CallEnds \/ OtherTerminal(line) -> Fail(p)
    [] line = "output" -> [p EXCEPT !.outputs = 2]
    [] line = "message" -> [p EXCEPT !.answered = TRUE]
    [] OriginTerminal(line) -> IF p.answered THEN [p EXCEPT !.done = TRUE] ELSE Fail(p)
    [] Contaminates(line) -> [p EXCEPT !.dirty = TRUE]
    [] OTHER -> p

ProveAfter(p, line) ==
  CASE line \in CallEnds \/ OtherTerminal(line) -> Fail(p)
    [] line = "output" -> [p EXCEPT !.outputs = 2]
    [] line = "message" -> [p EXCEPT !.answered = TRUE]
    [] line = "complete" -> IF p.answered THEN [p EXCEPT !.done = TRUE] ELSE Fail(p)
    [] Contaminates(line) -> [p EXCEPT !.dirty = TRUE]
    [] OTHER -> p

ProveStep(p, line) ==
  IF p.done \/ p.failed THEN p
  ELSE IF p.outputs = 0 THEN ProveBefore(p, line) ELSE ProveAfter(p, line)

\* A missing output and an unfinished turn may still come; the rest is final.
ProveOutcome(p) ==
  IF p.failed \/ p.outputs = 2 \/ (p.done /\ p.dirty) THEN "refused"
  ELSE IF p.done THEN "proved" ELSE "transient"

-----------------------------------------------------------------------------
(* inspectCodexToolWait: how far the call got, without certifying it. *)

InspectStart ==
  [outputs |-> 0, terminal |-> "none", other |-> FALSE, changed |-> FALSE,
   marker |-> FALSE, pending |-> FALSE, ended |-> FALSE, failed |-> FALSE]

InspectionStates ==
  [outputs : 0..2, terminal : {"none"} \cup OriginEnds, other : BOOLEAN,
   changed : BOOLEAN, marker : BOOLEAN, pending : BOOLEAN, ended : BOOLEAN,
   failed : BOOLEAN]

\* flushPendingAbortMarker: a marker no abort followed was a change.
Flush(s) == [s EXCEPT !.marker = FALSE, !.changed = @ \/ s.marker]

Ends(s, line) == IF s.terminal # "none" THEN Fail(s) ELSE [s EXCEPT !.terminal = line]

InspectBefore(s, line) ==
  CASE line = "callEnd" ->
         IF s.terminal # "none" \/ s.ended \/ s.marker THEN Fail(s)
         ELSE [s EXCEPT !.ended = TRUE, !.pending = TRUE]
    [] line = "callError" -> Fail(s)
    [] line = "token" -> s
    [] line = "aborted" -> Ends([s EXCEPT !.marker = FALSE], line)
    [] line = "complete" -> Ends(Flush(s), line)
    [] OTHER ->
         IF s.terminal # "none" THEN s
         ELSE IF line = "marker" THEN [Flush(s) EXCEPT !.marker = TRUE]
         ELSE [Flush(s) EXCEPT !.changed = TRUE]

InspectAfter(s, line) ==
  CASE line \in CallEnds -> Fail(s)
    [] OriginTerminal(line) -> Ends(s, line)
    [] OTHER -> s

InspectOutput(s) ==
  IF ~s.pending \/ (s.outputs = 0 /\ s.terminal # "none") THEN Fail(s)
  ELSE [Flush(s) EXCEPT !.pending = FALSE, !.outputs = @ + 1]

InspectLine(s, line) ==
  IF line = "output" THEN InspectOutput(s)
  ELSE IF s.pending /\ line \notin {"marker", "aborted"} THEN Fail(s)
  ELSE LET r == [s EXCEPT !.pending = FALSE]
       IN IF s.outputs = 0 THEN InspectBefore(r, line) ELSE InspectAfter(r, line)

InspectStep(s, line) ==
  IF s.failed THEN s
  ELSE InspectLine([s EXCEPT !.other = @ \/ NamesOtherTurn(line)], line)

\* tail: the host is in the middle of a line.
InspectOutcome(s, tail) ==
  IF s.failed \/ s.outputs > 1 \/ s.other \/ s.changed \/ (s.marker /\ ~tail) THEN "refused"
  ELSE IF tail THEN "ambiguous_incomplete_tail"
  ELSE IF s.outputs = 0
  THEN CASE s.terminal = "none"     -> "waiting"
         [] s.terminal = "aborted"  -> "origin_aborted_before_result"
         [] s.terminal = "complete" -> "origin_completed_without_result"
  ELSE CASE s.terminal = "none"     -> "tool_result_persisted"
         [] s.terminal = "aborted"  -> "tool_result_then_aborted"
         [] s.terminal = "complete" -> "tool_result_turn_terminal"

-----------------------------------------------------------------------------
(* preflightCodexWaitHistory: the origin turn ended, and nothing since. *)

PreflightStart == [terminal |-> "none", dirty |-> FALSE, failed |-> FALSE]

PreflightStates ==
  [terminal : {"none"} \cup OriginEnds, dirty : BOOLEAN, failed : BOOLEAN]

\* mutatesPostTerminalHistory; a rollback and another turn count on their own.
PreflightStep(f, line) ==
  IF f.failed THEN f
  ELSE CASE OriginTerminal(line) -> Ends(f, line)
         [] OtherTerminal(line)  -> Fail(f)
         [] OTHER -> [f EXCEPT !.dirty = \/ @ \/ Contaminates(line)
                                         \/ f.terminal # "none" /\ line # "token"]

\* What #proveHeldCallOriginAbort makes of it.
PreflightOutcome(f, tail) ==
  IF f.failed THEN "refused"
  ELSE IF tail \/ f.terminal = "none" THEN "transient"
  ELSE IF f.terminal = "aborted" /\ ~f.dirty THEN "aborted"
  ELSE "ineligible"

-----------------------------------------------------------------------------
(* proveCodexWaitHistory: the wake's own turn followed the origin's end. *)

HistoryStart ==
  [terminal |-> "none", wake |-> FALSE, dirty |-> FALSE, late |-> FALSE,
   done |-> FALSE, failed |-> FALSE]

HistoryStates ==
  [terminal : {"none"} \cup OriginEnds, wake : BOOLEAN, dirty : BOOLEAN,
   late : BOOLEAN, done : BOOLEAN, failed : BOOLEAN]

HistoryStep(h, line) ==
  IF h.failed \/ h.done THEN h
  ELSE CASE line = "wakeEnd" -> IF h.wake THEN [h EXCEPT !.done = TRUE] ELSE Fail(h)
         [] line = "otherEnd" -> Fail(h)
         [] OriginTerminal(line) -> IF h.wake THEN Fail(h) ELSE Ends(h, line)
         [] line = "wakeTurn" ->
              IF h.terminal = "none" THEN Fail(h) ELSE [h EXCEPT !.wake = TRUE]
         [] line = "otherTurn" /\ h.wake -> [h EXCEPT !.late = TRUE]
         [] OTHER ->
              [h EXCEPT !.dirty = \/ @ \/ line \in {"otherTurn", "rollback"}
                                  \/ h.terminal # "none" /\ ~h.wake /\ line # "token"]

\* Intervening turns and rollbacks are returned, not hidden: adjacency is the
\* service's to judge.
HistoryOutcome(h) ==
  IF h.failed \/ ~h.done \/ h.late THEN "refused"
  ELSE IF h.dirty THEN "not_adjacent" ELSE "adjacent"

-----------------------------------------------------------------------------

ScanStart ==
  [prove |-> ProveStart, inspect |-> InspectStart,
   preflight |-> PreflightStart, history |-> HistoryStart]

ScanStates ==
  [prove : ProofStates, inspect : InspectionStates,
   preflight : PreflightStates, history : HistoryStates]

\* The host appends a line.
Append(line) ==
  scan' = [prove     |-> ProveStep(scan.prove, line),
           inspect   |-> InspectStep(scan.inspect, line),
           preflight |-> PreflightStep(scan.preflight, line),
           history   |-> HistoryStep(scan.history, line)]

Proved == ProveOutcome(scan.prove) = "proved"
Inspection(tail) == InspectOutcome(scan.inspect, tail)
OriginAborted(tail) == PreflightOutcome(scan.preflight, tail) = "aborted"

RolloutTypeOK == scan \in ScanStates

\* The scanners never contradict one another about one and the same file,
\* whatever was appended to it.  A call proved to have been answered in its
\* turn is not one whose turn was aborted, nor one that waits or was cut off
\* before or after its result; and a certified wake turn followed the end the
\* preflight saw.
ScansAgree ==
  /\ Proved => \A tail \in BOOLEAN :
       /\ ~OriginAborted(tail)
       /\ Inspection(tail) \in
            {"refused", "ambiguous_incomplete_tail", "tool_result_turn_terminal"}
  /\ scan.history.done =>
       scan.preflight.failed \/ scan.history.terminal = scan.preflight.terminal
=============================================================================
