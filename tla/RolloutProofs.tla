---------------------------- MODULE RolloutProofs ----------------------------
(***************************************************************************)
(* What the scanners of Rollout know, for every sequence of lines.         *)
(***************************************************************************)
EXTENDS Rollout, TLAPS

-----------------------------------------------------------------------------
(* proveCodexToolWait *)

\* What one line can make of the proof's state.
LEMMA ProveStepCases ==
  ASSUME NEW p \in ProofStates, NEW line \in Lines
  PROVE  \/ ProveStep(p, line) = p
         \/ /\ ~p.done /\ ~p.failed
            /\ \/ ProveStep(p, line) = Fail(p)
               \/ ProveStep(p, line) = [p EXCEPT !.dirty = TRUE]
               \/ ProveStep(p, line) = [p EXCEPT !.pending = "end"]
               \/ ProveStep(p, line) = [p EXCEPT !.pending = "marker"]
               \/ ProveStep(p, line) = [p EXCEPT !.pending = "no", !.dropped = TRUE]
               \/ line = "message" /\ ProveStep(p, line) = [p EXCEPT !.answered = TRUE]
         \/ /\ line = "output" /\ ~p.done /\ ~p.failed
            /\ \/ ProveStep(p, line) = [p EXCEPT !.pending = "no", !.outputs = 1]
               \/ ProveStep(p, line) = [p EXCEPT !.outputs = 2]
         \/ /\ line = "complete" /\ ~p.done /\ ~p.failed /\ p.outputs # 0 /\ p.answered
            /\ ProveStep(p, line) = [p EXCEPT !.done = TRUE]
<1>1. CASE p.done \/ p.failed
  BY <1>1 DEF ProveStep
<1>2. CASE ~p.done /\ ~p.failed /\ p.outputs = 0
  <2>1. ProveStep(p, line) = ProveBefore(p, line)
    BY <1>2 DEF ProveStep
  <2> QED BY <2>1, <1>2 DEF ProveBefore
<1>3. CASE ~p.done /\ ~p.failed /\ p.outputs # 0
  <2>1. ProveStep(p, line) = ProveAfter(p, line)
    BY <1>3 DEF ProveStep
  <2> QED BY <2>1, <1>3 DEF ProveAfter, OtherTerminal, Contaminates, TurnContexts
<1> QED BY <1>1, <1>2, <1>3

\* One line keeps the proof's state in its type, and says which line closed it.
LEMMA ProveStepFacts ==
  ASSUME NEW p \in ProofStates, NEW line \in Lines, NEW q, q = ProveStep(p, line)
  PROVE  /\ q \in ProofStates
         /\ ~p.done /\ q.done =>
              /\ line = "complete" /\ p.outputs > 0 /\ ~p.failed /\ p.answered
              /\ ~q.failed /\ q.outputs = p.outputs
         /\ p.done => q = p
         /\ p.failed => q = p
         /\ p.outputs = 0 /\ q.outputs > 0 => line = "output"
         /\ q.answered => p.answered \/ line = "message"
<1> DEFINE Opens ==
             /\ ~p.done /\ ~p.failed
             /\ \/ q = Fail(p)
                \/ q = [p EXCEPT !.dirty = TRUE]
                \/ q = [p EXCEPT !.pending = "end"]
                \/ q = [p EXCEPT !.pending = "marker"]
                \/ q = [p EXCEPT !.pending = "no", !.dropped = TRUE]
                \/ line = "message" /\ q = [p EXCEPT !.answered = TRUE]
           Outputs ==
             /\ line = "output" /\ ~p.done /\ ~p.failed
             /\ \/ q = [p EXCEPT !.pending = "no", !.outputs = 1]
                \/ q = [p EXCEPT !.outputs = 2]
           Completes ==
             /\ line = "complete" /\ ~p.done /\ ~p.failed /\ p.outputs # 0 /\ p.answered
             /\ q = [p EXCEPT !.done = TRUE]
<1>1. CASE q = p
  BY <1>1 DEF ProofStates
<1>2. CASE Opens
  <2>1. q \in ProofStates
    BY <1>2 DEF ProofStates, Fail
  <2>2. q.done = p.done /\ q.outputs = p.outputs
    BY <1>2 DEF ProofStates, Fail
  <2>3. q.answered => p.answered \/ line = "message"
    BY <1>2 DEF ProofStates, Fail
  <2>4. ~p.done /\ ~p.failed
    BY <1>2
  <2> HIDE DEF Opens
  <2> QED BY <2>1, <2>2, <2>3, <2>4 DEF ProofStates
<1>3. CASE Outputs
  <2>1. q \in ProofStates
    <3>1. CASE q = [p EXCEPT !.pending = "no", !.outputs = 1]
      <4>1. PICK r \in ProofStates : q = [r EXCEPT !.outputs = 1]
        <5>1. [p EXCEPT !.pending = "no"] \in ProofStates
          BY DEF ProofStates
        <5> QED BY <3>1, <5>1
      <4> QED BY <4>1 DEF ProofStates
    <3>2. CASE q = [p EXCEPT !.outputs = 2]
      BY <3>2 DEF ProofStates
    <3> QED BY <1>3, <3>1, <3>2
  <2>2. q.done = p.done
    BY <1>3 DEF ProofStates
  <2> QED BY <1>3, <2>1, <2>2 DEF ProofStates
<1>4. CASE Completes
  <2>1. q \in ProofStates
    BY <1>4 DEF ProofStates
  <2>2. q.done /\ q.outputs = p.outputs /\ q.failed = p.failed
    BY <1>4 DEF ProofStates
  <2>3. p.outputs > 0
    BY <1>4 DEF ProofStates
  <2> QED BY <1>4, <2>1, <2>2, <2>3
<1>5. q = p \/ Opens \/ Outputs \/ Completes
  BY ProveStepCases, Zenon
<1> HIDE DEF Opens, Outputs, Completes
<1> QED BY <1>1, <1>2, <1>3, <1>4, <1>5

-----------------------------------------------------------------------------
(* inspectCodexToolWait *)

\* The first end of the origin turn is kept, a second one is an error.
LEMMA EndsInspection ==
  ASSUME NEW s \in InspectionStates, NEW line \in OriginEnds
  PROVE  /\ Ends(s, line) \in InspectionStates
         /\ Ends(s, line).outputs = s.outputs
         /\ Ends(s, line).pending = s.pending
         /\ s.failed => Ends(s, line).failed
         /\ IF s.terminal = "none" THEN Ends(s, line).terminal = line ELSE Ends(s, line).failed
<1>1. CASE s.terminal = "none"
  BY <1>1 DEF Ends, InspectionStates
<1>2. CASE s.terminal # "none"
  BY <1>2 DEF Ends, Fail, InspectionStates
<1> QED BY <1>1, <1>2

\* Flushing a marker only changes the marker and what it counts for.
LEMMA FlushInspection ==
  ASSUME NEW s \in InspectionStates
  PROVE  /\ Flush(s) \in InspectionStates
         /\ Flush(s).outputs = s.outputs /\ Flush(s).terminal = s.terminal
         /\ Flush(s).pending = s.pending /\ Flush(s).failed = s.failed
BY DEF Flush, InspectionStates

\* A line before the output.
LEMMA InspectBeforeFacts ==
  ASSUME NEW s \in InspectionStates, ~s.failed, NEW line \in Lines \ {"output"},
         NEW t, t = InspectBefore(s, line)
  PROVE  /\ t \in InspectionStates
         /\ t.outputs = s.outputs
         /\ t.failed \/ s.terminal = "none" \/ t.terminal = s.terminal
         /\ t.pending => s.pending \/ line = "callEnd"
         /\ line = "complete" => t.failed \/ t.terminal = "complete"
<1>1. CASE line = "callEnd"
  <2>1. t = Fail(s) \/ t = [s EXCEPT !.ended = TRUE, !.pending = TRUE]
    BY <1>1 DEF InspectBefore
  <2>2. CASE t = Fail(s)
    BY <1>1, <2>2 DEF Fail, InspectionStates
  <2>3. CASE t = [s EXCEPT !.ended = TRUE, !.pending = TRUE]
    BY <1>1, <2>3 DEF InspectionStates
  <2> QED BY <2>1, <2>2, <2>3
<1>2. CASE line = "aborted"
  <2>1. t = Ends([s EXCEPT !.marker = FALSE], "aborted")
    BY <1>2 DEF InspectBefore
  <2>2. PICK r \in InspectionStates :
          /\ t = Ends(r, "aborted")
          /\ r.outputs = s.outputs /\ r.terminal = s.terminal /\ r.pending = s.pending
    <3>1. /\ [s EXCEPT !.marker = FALSE] \in InspectionStates
          /\ [s EXCEPT !.marker = FALSE].outputs = s.outputs
          /\ [s EXCEPT !.marker = FALSE].terminal = s.terminal
          /\ [s EXCEPT !.marker = FALSE].pending = s.pending
      BY DEF InspectionStates
    <3> QED BY <2>1, <3>1
  <2>3. "aborted" \in OriginEnds
    BY DEF OriginEnds
  <2> QED BY <1>2, <2>2, <2>3, EndsInspection
<1>3. CASE line = "complete"
  <2>1. t = Ends(Flush(s), "complete")
    BY <1>3 DEF InspectBefore
  <2>2. "complete" \in OriginEnds
    BY DEF OriginEnds
  <2> QED BY <1>3, <2>1, <2>2, FlushInspection, EndsInspection
<1>4. CASE line = "callError"
  <2>1. t = Fail(s)
    BY <1>4 DEF InspectBefore
  <2> QED BY <1>4, <2>1 DEF Fail, InspectionStates
<1>5. CASE line \notin {"callEnd", "callError", "aborted", "complete"}
  <2>1. \/ t = s
        \/ t = [Flush(s) EXCEPT !.marker = TRUE]
        \/ t = [Flush(s) EXCEPT !.changed = TRUE]
    BY <1>5 DEF InspectBefore
  <2>2. CASE t = s
    BY <1>5, <2>2
  <2>3. CASE t = [Flush(s) EXCEPT !.marker = TRUE]
    BY <1>5, <2>3, FlushInspection DEF InspectionStates
  <2>4. CASE t = [Flush(s) EXCEPT !.changed = TRUE]
    BY <1>5, <2>4, FlushInspection DEF InspectionStates
  <2> QED BY <2>1, <2>2, <2>3, <2>4
<1> QED BY <1>1, <1>2, <1>3, <1>4, <1>5

\* A line after it.
LEMMA InspectAfterFacts ==
  ASSUME NEW s \in InspectionStates, ~s.failed, NEW line \in Lines \ {"output"},
         NEW t, t = InspectAfter(s, line)
  PROVE  /\ t \in InspectionStates
         /\ t.outputs = s.outputs
         /\ t.failed \/ s.terminal = "none" \/ t.terminal = s.terminal
         /\ t.pending = s.pending
         /\ line = "complete" => t.failed \/ t.terminal = "complete"
<1>1. CASE t = Fail(s) /\ line \in CallEnds
  BY <1>1 DEF Fail, InspectionStates, CallEnds
<1>2. CASE line \in OriginEnds /\ t = Ends(s, line)
  BY <1>2, EndsInspection
<1>3. CASE line \notin OriginEnds /\ t = s
  BY <1>3 DEF OriginEnds
<1> QED BY <1>1, <1>2, <1>3 DEF InspectAfter, OriginTerminal, OriginEnds, CallEnds

\* The output, which only the end of the call right before it makes valid.
LEMMA InspectOutputFacts ==
  ASSUME NEW s \in InspectionStates, ~s.failed, s.pending => s.outputs = 0,
         NEW t, t = InspectOutput(s)
  PROVE  /\ t \in InspectionStates
         /\ t.failed \/ t.outputs > 0
         /\ t.failed \/ t.terminal = s.terminal
         /\ t.pending => t.outputs = 0
<1>1. CASE t = Fail(s)
  BY <1>1 DEF Fail, InspectionStates
<1>2. CASE s.pending /\ t = [Flush(s) EXCEPT !.pending = FALSE, !.outputs = @ + 1]
  <2>1. Flush(s).outputs + 1 = 1
    BY <1>2, FlushInspection DEF InspectionStates
  <2>2. PICK r \in InspectionStates :
          /\ t = [r EXCEPT !.outputs = 1]
          /\ r.terminal = s.terminal /\ ~r.pending
    <3>1. /\ [Flush(s) EXCEPT !.pending = FALSE] \in InspectionStates
          /\ [Flush(s) EXCEPT !.pending = FALSE].terminal = s.terminal
          /\ ~[Flush(s) EXCEPT !.pending = FALSE].pending
          /\ [Flush(s) EXCEPT !.pending = FALSE].outputs = Flush(s).outputs
      BY FlushInspection DEF InspectionStates
    <3> QED BY <1>2, <2>1, <3>1
  <2> QED BY <2>2 DEF InspectionStates
<1> QED BY <1>1, <1>2 DEF InspectOutput

\* Any line: an output and an end of the turn, once seen, are not forgotten.
LEMMA InspectStepFacts ==
  ASSUME NEW s \in InspectionStates, s.pending => s.outputs = 0, NEW line \in Lines,
         NEW t, t = InspectStep(s, line)
  PROVE  /\ t \in InspectionStates
         /\ t.pending => t.outputs = 0
         /\ s.failed => t.failed
         /\ line = "output" \/ s.outputs > 0 => t.failed \/ t.outputs > 0
         /\ t.failed \/ s.terminal = "none" \/ t.terminal = s.terminal
         /\ line = "complete" => t.failed \/ t.terminal = "complete"
<1>1. CASE s.failed
  BY <1>1 DEF InspectStep
<1>2. CASE ~s.failed
  <2>1. PICK r \in InspectionStates :
          /\ r.pending = s.pending /\ r.outputs = s.outputs /\ r.terminal = s.terminal
          /\ ~r.failed
          /\ t = InspectLine(r, line)
    <3>1. /\ [s EXCEPT !.other = @ \/ NamesOtherTurn(line)] \in InspectionStates
          /\ LET r == [s EXCEPT !.other = @ \/ NamesOtherTurn(line)]
             IN r.pending = s.pending /\ r.outputs = s.outputs
                  /\ r.terminal = s.terminal /\ r.failed = s.failed
      BY DEF InspectionStates, NamesOtherTurn
    <3> QED BY <1>2, <3>1 DEF InspectStep
  <2>2. CASE line = "output"
    <3>1. t = InspectOutput(r)
      BY <2>1, <2>2 DEF InspectLine
    <3> QED BY <1>2, <2>1, <2>2, <3>1, InspectOutputFacts
  <2>3. CASE line # "output" /\ t = Fail(r)
    BY <1>2, <2>1, <2>3 DEF Fail, InspectionStates
  <2>4. CASE line # "output" /\ t # Fail(r)
    <3>1. PICK u \in InspectionStates :
            /\ ~u.pending /\ u.outputs = s.outputs /\ u.terminal = s.terminal /\ ~u.failed
            /\ t = IF u.outputs = 0 THEN InspectBefore(u, line) ELSE InspectAfter(u, line)
      <4>1. LET u == [r EXCEPT !.pending = FALSE]
            IN /\ u \in InspectionStates
               /\ ~u.pending /\ u.outputs = r.outputs /\ u.terminal = r.terminal
               /\ u.failed = r.failed
        BY DEF InspectionStates
      <4> QED BY <2>1, <2>4, <4>1 DEF InspectLine
    <3>2. CASE u.outputs = 0
      <4>1. t = InspectBefore(u, line) /\ line \in Lines \ {"output"}
        BY <2>4, <3>1, <3>2
      <4> QED BY <1>2, <2>4, <3>1, <3>2, <4>1, InspectBeforeFacts
    <3>3. CASE u.outputs # 0
      <4>1. t = InspectAfter(u, line) /\ line \in Lines \ {"output"}
        BY <2>4, <3>1, <3>3
      <4> QED BY <1>2, <2>4, <3>1, <3>3, <4>1, InspectAfterFacts
    <3> QED BY <3>2, <3>3
  <2> QED BY <2>2, <2>3, <2>4
<1> QED BY <1>1, <1>2

-----------------------------------------------------------------------------
(* preflightCodexWaitHistory and proveCodexWaitHistory *)

\* The preflight keeps the first end of the origin turn, or fails.
LEMMA PreflightStepFacts ==
  ASSUME NEW f \in PreflightStates, NEW line \in Lines, NEW g, g = PreflightStep(f, line)
  PROVE  /\ g \in PreflightStates
         /\ f.failed => g = f
         /\ line \in OriginEnds => g.failed \/ (f.terminal = "none" /\ g.terminal = line)
         /\ line \in OriginEnds => g.terminal \in {f.terminal, line}
         /\ line \notin OriginEnds => g.terminal = f.terminal
<1>1. CASE f.failed
  BY <1>1 DEF PreflightStep
<1>2. CASE ~f.failed /\ line \in OriginEnds
  <2>1. g = IF f.terminal # "none" THEN Fail(f) ELSE [f EXCEPT !.terminal = line]
    BY <1>2 DEF PreflightStep, OriginTerminal, OtherTerminal, OriginEnds, Ends
  <2>2. CASE f.terminal # "none"
    BY <1>2, <2>1, <2>2 DEF Fail, PreflightStates
  <2>3. CASE f.terminal = "none"
    BY <1>2, <2>1, <2>3 DEF PreflightStates
  <2> QED BY <2>2, <2>3
<1>3. CASE ~f.failed /\ line \notin OriginEnds
  <2>1. \/ g = Fail(f)
        \/ \E b \in BOOLEAN : g = [f EXCEPT !.dirty = b]
    <3>1. CASE OtherTerminal(line)
      BY <1>3, <3>1 DEF PreflightStep, OriginTerminal
    <3>2. CASE ~OtherTerminal(line)
      <4>1. g = [f EXCEPT !.dirty = \/ @ \/ Contaminates(line)
                                    \/ f.terminal # "none" /\ line # "token"]
        BY <1>3, <3>2 DEF PreflightStep, OriginTerminal
      <4> QED BY <4>1
    <3> QED BY <3>1, <3>2
  <2>2. CASE g = Fail(f)
    BY <1>3, <2>2 DEF Fail, PreflightStates
  <2>3. ASSUME NEW b \in BOOLEAN, g = [f EXCEPT !.dirty = b]
        PROVE g \in PreflightStates /\ g.terminal = f.terminal
    BY <2>3 DEF PreflightStates
  <2> QED BY <1>3, <2>1, <2>2, <2>3
<1> QED BY <1>1, <1>2, <1>3

\* So does the history, until the wake's turn.
LEMMA HistoryStepFacts ==
  ASSUME NEW h \in HistoryStates, NEW line \in Lines,
         h.failed => ~h.done, h.wake \/ h.done => h.terminal # "none",
         NEW k, k = HistoryStep(h, line)
  PROVE  /\ k \in HistoryStates
         /\ k.failed => ~k.done
         /\ k.wake \/ k.done => k.terminal # "none"
         /\ h.failed \/ h.done => k = h
         /\ ~h.failed /\ ~h.done /\ line \in OriginEnds =>
              k.failed \/ (h.terminal = "none" /\ k.terminal = line)
         /\ line \notin OriginEnds => k.terminal = h.terminal
<1>1. CASE h.failed \/ h.done
  BY <1>1 DEF HistoryStep
<1>2. CASE ~h.failed /\ ~h.done /\ line \in OriginEnds
  <2>1. k = IF h.wake \/ h.terminal # "none" THEN Fail(h) ELSE [h EXCEPT !.terminal = line]
    BY <1>2 DEF HistoryStep, OriginTerminal, OriginEnds, Ends
  <2>2. CASE h.wake \/ h.terminal # "none"
    BY <1>2, <2>1, <2>2 DEF Fail, HistoryStates
  <2>3. CASE ~h.wake /\ h.terminal = "none"
    <3>1. line \in {"none"} \cup OriginEnds /\ line # "none"
      BY <1>2 DEF OriginEnds
    <3>2. k = [h EXCEPT !.terminal = line]
      BY <2>1, <2>3
    <3>3. k \in HistoryStates
      BY <3>1, <3>2 DEF HistoryStates
    <3>4. k.terminal = line /\ k.done = h.done /\ k.failed = h.failed
      BY <3>2 DEF HistoryStates
    <3> QED BY <1>2, <2>3, <3>1, <3>3, <3>4
  <2> QED BY <2>2, <2>3
<1>3. CASE ~h.failed /\ ~h.done /\ line \notin OriginEnds
  <2>1. \/ k = Fail(h)
        \/ h.wake /\ k = [h EXCEPT !.done = TRUE]
        \/ h.terminal # "none" /\ k = [h EXCEPT !.wake = TRUE]
        \/ k = [h EXCEPT !.late = TRUE]
        \/ \E b \in BOOLEAN : k = [h EXCEPT !.dirty = b]
    <3>1. CASE line \in {"wakeEnd", "otherEnd", "wakeTurn"}
      BY <1>3, <3>1 DEF HistoryStep, OriginTerminal
    <3>2. CASE line = "otherTurn" /\ h.wake
      BY <1>3, <3>2 DEF HistoryStep, OriginTerminal
    <3>3. CASE line \notin {"wakeEnd", "otherEnd", "wakeTurn"} /\ ~(line = "otherTurn" /\ h.wake)
      <4>1. k = [h EXCEPT !.dirty = \/ @ \/ line \in {"otherTurn", "rollback"}
                                    \/ h.terminal # "none" /\ ~h.wake /\ line # "token"]
        BY <1>3, <3>3 DEF HistoryStep, OriginTerminal
      <4> QED BY <4>1
    <3> QED BY <3>1, <3>2, <3>3
  <2>2. CASE k = Fail(h)
    BY <1>3, <2>2 DEF Fail, HistoryStates
  <2>3. CASE h.wake /\ k = [h EXCEPT !.done = TRUE]
    BY <1>3, <2>3 DEF HistoryStates
  <2>4. CASE h.terminal # "none" /\ k = [h EXCEPT !.wake = TRUE]
    BY <1>3, <2>4 DEF HistoryStates
  <2>5. CASE k = [h EXCEPT !.late = TRUE]
    BY <1>3, <2>5 DEF HistoryStates
  <2>6. ASSUME NEW b \in BOOLEAN, k = [h EXCEPT !.dirty = b]
        PROVE /\ k \in HistoryStates
              /\ k.terminal = h.terminal /\ k.done = h.done
              /\ k.wake = h.wake /\ k.failed = h.failed
    BY <2>6 DEF HistoryStates
  <2> QED BY <1>3, <2>1, <2>2, <2>3, <2>4, <2>5, <2>6
<1> QED BY <1>1, <1>2, <1>3

-----------------------------------------------------------------------------
(* The four scanners side by side *)

\* What relates them line after line.
ScansInv ==
  /\ RolloutTypeOK
  /\ scan.inspect.pending => scan.inspect.outputs = 0
  /\ scan.prove.outputs > 0 /\ ~scan.prove.failed =>
       scan.inspect.failed \/ scan.inspect.outputs > 0
  /\ scan.prove.done =>
       /\ scan.prove.outputs > 0 /\ ~scan.prove.failed
       /\ scan.preflight.failed \/ scan.preflight.terminal = "complete"
       /\ scan.inspect.failed \/ scan.inspect.terminal = "complete"
  /\ \/ scan.history.failed \/ scan.preflight.failed
     \/ scan.history.terminal = scan.preflight.terminal
  /\ scan.history.wake \/ scan.history.done => scan.history.terminal # "none"
  /\ scan.history.failed => ~scan.history.done

\* The invariant holds of an empty file.
LEMMA ScansInvStart ==
  ASSUME scan = ScanStart
  PROVE  ScansInv
BY DEF ScanStart, ScansInv, RolloutTypeOK, ScanStates, ProveStart, ProofStates,
       InspectStart, InspectionStates, PreflightStart, PreflightStates,
       HistoryStart, HistoryStates

\* Every line preserves it.
LEMMA ScansInvAppend ==
  ASSUME ScansInv, NEW line \in Lines, Append(line)
  PROVE  ScansInv'
<1> DEFINE p == scan.prove
           s == scan.inspect
           f == scan.preflight
           h == scan.history
           q == ProveStep(p, line)
           t == InspectStep(s, line)
           g == PreflightStep(f, line)
           k == HistoryStep(h, line)
<1>1. /\ p \in ProofStates
      /\ s \in InspectionStates
      /\ f \in PreflightStates
      /\ h \in HistoryStates
  BY DEF ScansInv, RolloutTypeOK, ScanStates
<1>2. scan' = [prove |-> q, inspect |-> t, preflight |-> g, history |-> k]
  BY DEF Append
<1>3. /\ s.pending => s.outputs = 0
      /\ p.outputs > 0 /\ ~p.failed => s.failed \/ s.outputs > 0
      /\ p.done => /\ p.outputs > 0 /\ ~p.failed
                   /\ f.failed \/ f.terminal = "complete"
                   /\ s.failed \/ s.terminal = "complete"
      /\ h.failed \/ f.failed \/ h.terminal = f.terminal
      /\ h.wake \/ h.done => h.terminal # "none"
      /\ h.failed => ~h.done
  BY DEF ScansInv
<1> HIDE DEF p, s, f, h
<1>4. /\ q \in ProofStates
      /\ ~p.done /\ q.done =>
           /\ line = "complete" /\ p.outputs > 0 /\ ~p.failed
           /\ ~q.failed /\ q.outputs = p.outputs
      /\ p.done => q = p
      /\ p.failed => q = p
      /\ p.outputs = 0 /\ q.outputs > 0 => line = "output"
  BY <1>1, ProveStepFacts
<1>5. /\ t \in InspectionStates
      /\ t.pending => t.outputs = 0
      /\ s.failed => t.failed
      /\ line = "output" \/ s.outputs > 0 => t.failed \/ t.outputs > 0
      /\ t.failed \/ s.terminal = "none" \/ t.terminal = s.terminal
      /\ line = "complete" => t.failed \/ t.terminal = "complete"
  BY <1>1, <1>3, InspectStepFacts
<1>6. /\ g \in PreflightStates
      /\ f.failed => g = f
      /\ line \in OriginEnds => g.failed \/ (f.terminal = "none" /\ g.terminal = line)
      /\ line \notin OriginEnds => g.terminal = f.terminal
  BY <1>1, PreflightStepFacts
<1>7. /\ k \in HistoryStates
      /\ k.failed => ~k.done
      /\ k.wake \/ k.done => k.terminal # "none"
      /\ h.failed \/ h.done => k = h
      /\ ~h.failed /\ ~h.done /\ line \in OriginEnds =>
           k.failed \/ (h.terminal = "none" /\ k.terminal = line)
      /\ line \notin OriginEnds => k.terminal = h.terminal
  BY <1>1, <1>3, HistoryStepFacts
<1> HIDE DEF q, t, g, k
<1>8. q.outputs > 0 /\ ~q.failed => t.failed \/ t.outputs > 0
  <2>1. p.failed \/ p.outputs = 0 \/ p.outputs > 0
    BY <1>1 DEF ProofStates
  <2> QED BY <2>1, <1>1, <1>3, <1>4, <1>5 DEF ProofStates, InspectionStates
<1>9. q.done => /\ q.outputs > 0 /\ ~q.failed
                /\ g.failed \/ g.terminal = "complete"
                /\ t.failed \/ t.terminal = "complete"
  BY <1>3, <1>4, <1>5, <1>6 DEF OriginEnds
<1>10. k.failed \/ g.failed \/ k.terminal = g.terminal
  BY <1>3, <1>6, <1>7 DEF OriginEnds
<1>11. scan' \in ScanStates
  BY <1>2, <1>4, <1>5, <1>6, <1>7 DEF ScanStates
<1>12. scan'.prove = q /\ scan'.inspect = t /\ scan'.preflight = g /\ scan'.history = k
  BY <1>2
<1> QED BY <1>5, <1>7, <1>8, <1>9, <1>10, <1>11, <1>12 DEF ScansInv, RolloutTypeOK

\* The scanners agree about whatever the rollout holds.
LEMMA ScansInvAgree ==
  ASSUME ScansInv
  PROVE  ScansAgree
<1>1. /\ scan.prove \in ProofStates
      /\ scan.inspect \in InspectionStates
      /\ scan.preflight \in PreflightStates
      /\ scan.history \in HistoryStates
  BY DEF ScansInv, RolloutTypeOK, ScanStates
<1>2. ASSUME Proved, NEW tail \in BOOLEAN
      PROVE  /\ ~OriginAborted(tail)
             /\ Inspection(tail) \in
                  {"refused", "ambiguous_incomplete_tail", "tool_result_turn_terminal"}
  <2>1. scan.prove.done
    BY <1>2 DEF Proved, ProveOutcome
  <2>2. ~OriginAborted(tail)
    BY <2>1 DEF OriginAborted, PreflightOutcome, ScansInv
  <2>3. scan.inspect.failed \/ (scan.inspect.outputs > 0 /\ scan.inspect.terminal = "complete")
    BY <2>1 DEF ScansInv
  <2> QED BY <2>2, <2>3, <1>1 DEF Inspection, InspectOutcome, InspectionStates
<1>3. scan.history.done =>
        scan.preflight.failed \/ scan.history.terminal = scan.preflight.terminal
  BY DEF ScansInv
<1> QED BY <1>2, <1>3 DEF ScansAgree
=============================================================================
