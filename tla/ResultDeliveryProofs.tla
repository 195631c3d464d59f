------------------------ MODULE ResultDeliveryProofs ------------------------
(***************************************************************************)
(* Theorems about ResultDelivery, for every number of faults.              *)
(***************************************************************************)
EXTENDS ResultDelivery, RolloutProofs

-----------------------------------------------------------------------------
(* Every step appends one line to the rollout, or none *)

\* The file grows by whole lines or not at all.
LEMMA ScanChanges ==
  ASSUME [Next]_vars
  PROVE  UNCHANGED scan \/ \E line \in Lines : Append(line)
<1>1. CASE HostReceive \/ HostError \/ HostContinue \/ HostRecordAbort \/ UserTurn
  BY <1>1 DEF HostReceive, HostError, HostContinue, HostRecordAbort, UserTurn, HostLine,
     Lines, OriginEnds, OtherLines
<1>2. CASE WakeTurn
  BY <1>2 DEF WakeTurn, Lines, OriginEnds, OtherLines
<1>3. CASE ServerPublish \/ ServerGone \/ HostAbort \/ LapseLease \/ Crash \/ Restart
  BY <1>3 DEF ServerPublish, ServerGone, HostAbort, LapseLease, Crash, Restart
<1>4. CASE Hook
  BY <1>4 DEF Hook, HookStart, ClaimStep, ResolveConsumed, ResolvePending, Consume,
     HookReturned, HookObserve, HookProbe, HookEnd
<1>5. CASE Certifier
  BY <1>5 DEF Certifier, ClaimStep, ResolveConsumed, ResolvePending, Consume, world
<1>6. CASE Recovery
  BY <1>6 DEF Recovery, SelectProvedAttempt, ClaimCrashRecovery, ResolveHeldRecovery
<1>7. CASE UNCHANGED vars
  BY <1>7 DEF vars
<1> QED BY <1>1, <1>2, <1>3, <1>4, <1>5, <1>6, <1>7 DEF Next

\* A step keeps the scanners' invariant: it appends one line at most.
LEMMA ScansInvNext ==
  ASSUME ScansInv, [Next]_vars
  PROVE  ScansInv'
<1>1. CASE UNCHANGED scan
  BY <1>1 DEF ScansInv, RolloutTypeOK
<1>2. ASSUME NEW line \in Lines, Append(line) PROVE ScansInv'
  BY <1>2, ScansInvAppend
<1> QED BY <1>1, <1>2, ScanChanges

\* The scanners of the rollout never contradict one another.
THEOREM RolloutReadConsistently == Spec => []ScansAgree
<1>1. Init => ScansInv
  BY ScansInvStart DEF Init
<1>2. ScansInv /\ [Next]_vars => ScansInv'
  BY ScansInvNext
<1>3. ScansInv => ScansAgree
  BY ScansInvAgree
<1> QED BY <1>1, <1>2, <1>3, PTL DEF Spec

-----------------------------------------------------------------------------
(* Type correctness *)

\* A process that goes to a label of its own keeps the types of pc.
LEMMA GotoTypeOK ==
  ASSUME PcTypeOK, NEW p \in Processes, NEW label, Goto(p, label),
         \/ p = "server" /\ label \in ServerLabels
         \/ p = "hook" /\ label \in HookLabels
         \/ p = "certifier" /\ label \in CertifierLabels
         \/ p = "recovery" /\ label \in RecoveryLabels
  PROVE  PcTypeOK'
BY DEF PcTypeOK, Goto, Processes

\* So does a supervisor that stops.
LEMMA DieTypeOK ==
  ASSUME PcTypeOK, NEW loop \in {"certifier", "recovery"}, Die(loop)
  PROVE  PcTypeOK' /\ cause' \in {"none", "certifier", "recovery"}
<1>1. "down" \in CertifierLabels /\ "down" \in RecoveryLabels
  BY DEF CertifierLabels, RecoveryLabels
<1> QED BY <1>1 DEF PcTypeOK, Die, Processes

\* And an error of the hook or of the certifier.
LEMMA ThrowTypeOK ==
  ASSUME TypeOK, NEW a \in ClaimUsers, Throw(a)
  PROVE  PcTypeOK' /\ cause' \in {"none", "certifier", "recovery"}
<1>1. CASE a = "hook"
  <2>1. Goto("hook", "done") /\ UNCHANGED cause
    BY <1>1 DEF Throw
  <2>2. PcTypeOK'
    BY <2>1, GotoTypeOK DEF TypeOK, Processes, HookLabels
  <2> QED BY <2>1, <2>2 DEF TypeOK
<1>2. CASE a = "certifier"
  <2>1. Die("certifier")
    BY <1>2 DEF Throw
  <2> QED BY <2>1, DieTypeOK DEF TypeOK
<1> QED BY <1>1, <1>2 DEF ClaimUsers

\* What TypeOK says of everything but the rollout and the labels.
DataTypeOK ==
  /\ turn \in Turns
  /\ gone \in BOOLEAN
  /\ disk \subseteq Records
  /\ closed \in {"none", "completion_posted", "crash_recovery_completed"}
  /\ archived \in BOOLEAN
  /\ claim \subseteq {"pending", "consumed"}
  /\ service \in [wake : {"leased", "queued", "running", "recovering", "completed"},
                  observed : BOOLEAN, requeue : {"no"} \cup Requeues]
  /\ read \in [ClaimUsers -> {"none", "pending", "consumed"}]
  /\ remote \in {"none"} \cup Kinds
  /\ reason \in {"none"} \cup Requeues
  /\ handed \in BOOLEAN
  /\ cause \in {"none", "certifier", "recovery"}
  /\ faults \in 0..MaxFaults

\* TypeOK in three parts: the rollout, the program counters, the data.
LEMMA TypeParts == TypeOK <=> RolloutTypeOK /\ PcTypeOK /\ DataTypeOK
BY DEF TypeOK, DataTypeOK

\* An observation keeps the service in its type.
LEMMA ObserveTypeOK ==
  ASSUME DataTypeOK, Observe \/ UNCHANGED service
  PROVE  service' \in [wake : {"leased", "queued", "running", "recovering", "completed"},
                       observed : BOOLEAN, requeue : {"no"} \cup Requeues]
BY DEF DataTypeOK, Observe

\* A lost reply is counted within its bound.
LEMMA LoseReplyTypeOK ==
  ASSUME DataTypeOK, LoseReply
  PROVE  faults' \in 0..MaxFaults
BY FaultsAssumption DEF DataTypeOK, LoseReply

\* The host's steps keep every type.
LEMMA HostTypeOK ==
  ASSUME TypeOK,
         \/ ServerPublish \/ ServerGone \/ HostReceive \/ HostError \/ HostContinue
         \/ HostAbort \/ HostRecordAbort \/ UserTurn \/ LapseLease
  PROVE  PcTypeOK' /\ DataTypeOK'
<1>0. PcTypeOK /\ DataTypeOK
  BY TypeParts
<1>1. CASE ServerPublish
  <2>1. PICK label \in ServerLabels : Goto("server", label)
    BY <1>1 DEF ServerPublish, ServerLabels
  <2>2. PcTypeOK'
    BY <1>0, <2>1, GotoTypeOK DEF Processes
  <2>3. disk' \subseteq Records /\ claim' \subseteq {"pending", "consumed"}
    BY <1>0, <1>1 DEF DataTypeOK, ServerPublish, Publish, Create, Records
  <2> QED BY <1>0, <1>1, <2>2, <2>3 DEF ServerPublish, DataTypeOK, memory, host
<1>2. CASE ServerGone
  <2>1. PcTypeOK'
    BY <1>0, <1>2, GotoTypeOK DEF ServerGone, Processes, ServerLabels
  <2> QED BY <1>0, <1>2, <2>1 DEF ServerGone, DataTypeOK, records, memory, host
<1>3. CASE HostReceive \/ HostError
  <2>1. PcTypeOK'
    BY <1>0, <1>3, GotoTypeOK DEF HostReceive, HostError, Processes, ServerLabels
  <2> QED BY <1>0, <1>3, <2>1 DEF HostReceive, HostError, HostLine, DataTypeOK, records, memory,
       Turns, Live
<1>4. CASE HostContinue \/ HostRecordAbort
  <2>1. UNCHANGED pc
    BY <1>4 DEF HostContinue, HostRecordAbort
  <2> QED BY <1>0, <1>4, <2>1 DEF HostContinue, HostRecordAbort, HostLine, DataTypeOK, PcTypeOK,
       records, memory, Turns, Live, Over, Completions
<1>5. CASE HostAbort \/ UserTurn
  <2>1. UNCHANGED pc
    BY <1>5 DEF HostAbort, UserTurn
  <2> QED BY <1>0, <1>5, <2>1 DEF HostAbort, UserTurn, HostLine, DataTypeOK, PcTypeOK,
       records, memory
<1>6. CASE LapseLease
  <2>1. service' \in [wake : {"leased", "queued", "running", "recovering", "completed"},
                      observed : BOOLEAN, requeue : {"no"} \cup Requeues]
    BY <1>0, <1>6 DEF LapseLease, DataTypeOK
  <2> QED BY <1>0, <1>6, <2>1 DEF LapseLease, DataTypeOK, PcTypeOK, records, memory, host
<1> QED BY <1>1, <1>2, <1>3, <1>4, <1>5, <1>6

\* So do the steps of either user of the private claim,
LEMMA ClaimStepTypeOK ==
  ASSUME TypeOK, NEW a \in ClaimUsers, ClaimStep(a)
  PROVE  PcTypeOK' /\ DataTypeOK'
<1>0. PcTypeOK /\ DataTypeOK
  BY TypeParts
<1>1. ASSUME NEW label \in ClaimLabels, Goto(a, label) PROVE PcTypeOK'
  BY <1>0, <1>1, GotoTypeOK DEF ClaimUsers, Processes, HookLabels, CertifierLabels
<1>2. CASE ResolveConsumed(a)
  <2>1. PcTypeOK'
    BY <1>1, <1>2 DEF ResolveConsumed, ClaimLabels
  <2>2. read' \in [ClaimUsers -> {"none", "pending", "consumed"}]
    BY <1>0, <1>2 DEF ResolveConsumed, DataTypeOK
  <2> QED BY <1>0, <1>2, <2>1, <2>2 DEF ResolveConsumed, DataTypeOK, records, host
<1>3. CASE ResolvePending(a)
  <2>1. PcTypeOK' /\ cause' \in {"none", "certifier", "recovery"}
    BY <1>0, <1>1, <1>3, ThrowTypeOK DEF ResolvePending, ClaimLabels, DataTypeOK
  <2>2. read' \in [ClaimUsers -> {"none", "pending", "consumed"}]
    BY <1>0, <1>3 DEF ResolvePending, DataTypeOK
  <2> QED BY <1>0, <1>3, <2>1, <2>2 DEF ResolvePending, DataTypeOK, records, host
<1>4. CASE Consume(a)
  <2>1. PcTypeOK' /\ cause' \in {"none", "certifier", "recovery"}
    BY <1>0, <1>1, <1>4, ThrowTypeOK DEF Consume, ConsumeResolve, Tombstone, Unlink,
       ClaimLabels, DataTypeOK
  <2>2. claim' \subseteq {"pending", "consumed"}
    BY <1>0, <1>4 DEF Consume, Tombstone, Unlink, DataTypeOK
  <2> QED BY <1>0, <1>4, <2>1, <2>2 DEF Consume, DataTypeOK, records, memory, host
<1> QED BY <1>2, <1>3, <1>4 DEF ClaimStep

\* those of the hook,
LEMMA HookTypeOK ==
  ASSUME TypeOK, Hook
  PROVE  PcTypeOK' /\ DataTypeOK'
<1>0. PcTypeOK /\ DataTypeOK
  BY TypeParts
<1>1. ASSUME NEW label \in HookLabels, Goto("hook", label) PROVE PcTypeOK'
  BY <1>0, <1>1, GotoTypeOK DEF Processes
<1>2. CASE HookStart \/ HookProbe \/ HookEnd
  <2>1. PcTypeOK'
    BY <1>1, <1>2 DEF HookStart, HookProbe, HookEnd, HookLabels, ClaimLabels
  <2> QED BY <1>0, <1>2, <2>1 DEF HookStart, HookProbe, HookEnd, DataTypeOK, records, memory, host
<1>3. CASE HookReturned
  <2>1. PcTypeOK'
    BY <1>1, <1>3 DEF HookReturned, HookLabels, ClaimLabels
  <2>2. disk' \subseteq Records
    BY <1>0, <1>3 DEF HookReturned, Publish, Records, DataTypeOK
  <2> QED BY <1>0, <1>3, <2>1, <2>2 DEF HookReturned, DataTypeOK, memory, host
<1>4. CASE HookObserve
  <2>1. PcTypeOK'
    BY <1>1, <1>4 DEF HookObserve, HookLabels, ClaimLabels
  <2>2. Observe \/ UNCHANGED service
    BY <1>4 DEF HookObserve
  <2>3. service' \in [wake : {"leased", "queued", "running", "recovering", "completed"},
                      observed : BOOLEAN, requeue : {"no"} \cup Requeues]
    BY <1>0, <2>2, ObserveTypeOK
  <2>4. faults' \in 0..MaxFaults
    BY <1>0, <1>4, LoseReplyTypeOK DEF HookObserve, DataTypeOK
  <2> QED BY <1>0, <1>4, <2>1, <2>3, <2>4 DEF HookObserve, DataTypeOK, records, memory, host
<1>5. CASE ClaimStep("hook")
  BY <1>5, ClaimStepTypeOK DEF ClaimUsers
<1> QED BY <1>2, <1>3, <1>4, <1>5 DEF Hook

\* A step of the certifier goes to a label of its own or stops the supervisor.
LEMMA CertifierPcTypeOK ==
  ASSUME TypeOK,
         \/ UNCHANGED cause /\ \E label \in CertifierLabels : Goto(Me, label)
         \/ Die(Me)
  PROVE  PcTypeOK' /\ cause' \in {"none", "certifier", "recovery"}
BY GotoTypeOK, DieTypeOK DEF TypeOK, Me, Processes

\* What follows a verdict goes to the step it calls for, or stops the supervisor,
LEMMA FollowPc ==
  ASSUME NEW verdict, NEW state, NEW next \in CertifierLabels, Follow(verdict, state, next)
  PROVE  \/ UNCHANGED cause /\ \E label \in CertifierLabels : Goto(Me, label)
         \/ Die(Me)
BY DEF Follow

\* and sets the receipt only when the wake is handed back.
LEMMA FollowReason ==
  ASSUME DataTypeOK, NEW verdict, NEW state, NEW next, Follow(verdict, state, next)
  PROVE  reason' \in {"none"} \cup Requeues
BY DEF DataTypeOK, Follow, Requeue, Requeues

\* A certification is of a known kind, or invalid.
LEMMA ClassificationsType ==
  ASSUME DataTypeOK
  PROVE  Classifications \subseteq Kinds \cup {"invalid"}
BY DEF DataTypeOK, Classifications, Kinds, Requeues

\* A recovery receipt is posted with its reason.
ReasonInv == At(Me, "postRequeue") => reason \in Requeues

\* A receipt that was called for is a recovery receipt.
LEMMA FollowReasonInv ==
  ASSUME PcTypeOK, NEW verdict, NEW state, NEW next,
         Follow(verdict, state, next), next = "postRequeue" => verdict = "requeue"
  PROVE  ReasonInv'
<1>1. Requeue(state) \in Requeues
  BY DEF Requeue, Requeues
<1>2. CASE verdict = "fail"
  BY <1>2 DEF Follow, Die, ReasonInv, At, Me, PcTypeOK, Processes
<1>3. CASE verdict # "fail"
  BY <1>1, <1>3 DEF Follow, Goto, ReasonInv, At, Me, PcTypeOK, Processes
<1> QED BY <1>2, <1>3

\* Only an inspection of the turn leads to a recovery receipt.
LEMMA ReasonKept ==
  ASSUME PcTypeOK, ReasonInv, [Next]_vars
  PROVE  ReasonInv'
<1>1. ASSUME UNCHANGED reason, pc'[Me] # "postRequeue" \/ pc'[Me] = pc[Me] PROVE ReasonInv'
  BY <1>1 DEF ReasonInv, At
<1>2. CASE \/ ServerPublish \/ ServerGone \/ HostReceive \/ HostError \/ HostContinue \/ HostAbort
           \/ HostRecordAbort \/ UserTurn \/ LapseLease \/ WakeTurn \/ Crash \/ Restart
  BY <1>1, <1>2 DEF ServerPublish, ServerGone, HostReceive, HostError, HostContinue, HostAbort,
     HostRecordAbort, UserTurn, LapseLease, HostLine, WakeTurn, Crash, Restart, memory, Goto, Me,
     PcTypeOK, Processes
<1>3. CASE Recovery
  BY <1>1, <1>3 DEF Recovery, SelectProvedAttempt, ClaimCrashRecovery, ResolveHeldRecovery,
     Goto, Die, Me, memory, PcTypeOK, Processes
<1>4. ASSUME NEW a \in ClaimUsers, ClaimStep(a) PROVE ReasonInv'
  BY <1>1, <1>4 DEF ClaimStep, ResolveConsumed, ResolvePending, Consume, ConsumeResolve,
     Tombstone, Unlink, Throw, Goto, Die, Me, memory, PcTypeOK, Processes, ClaimUsers
<1>5. CASE HookStart \/ HookReturned \/ HookObserve \/ HookProbe \/ HookEnd
  BY <1>1, <1>5 DEF HookStart, HookReturned, HookObserve, HookProbe, HookEnd, Goto, Me, memory,
     PcTypeOK, Processes
<1>6. CASE /\ \/ PassBegin \/ ProveAbort \/ PublishAbort \/ ReadDelivery \/ CertifyMissing
              \/ PublishReturned \/ PostRequeue \/ Certify \/ Resolved \/ PostObservation
              \/ Spent \/ ProveContinuation \/ PostCompletion \/ CertifyCompletion
              \/ PublishCompletion \/ PublishTerminal \/ Archive \/ LostReply
           /\ UNCHANGED reason
  <2>1. pc'[Me] # "postRequeue" \/ pc'[Me] = pc[Me]
    BY <1>6 DEF PassBegin, ProveAbort, PublishAbort, ReadDelivery, CertifyMissing,
       PublishReturned, PostRequeue, Certify, Resolved, PostObservation,
       Spent, ProveContinuation, PostCompletion, CertifyCompletion, PublishCompletion,
       PublishTerminal, Archive, LostReply, Goto, Die, Me, PcTypeOK, Processes
  <2> QED BY <1>1, <1>6, <2>1
<1>7. CASE InspectMissing
  <2>1. PICK verdict, state :
          Follow(verdict, state, CASE verdict = "publish" -> "publishReturned"
                                   [] verdict = "requeue" -> "postRequeue"
                                   [] OTHER               -> "idle")
    BY <1>7 DEF InspectMissing
  <2>2. PICK next : /\ Follow(verdict, state, next)
                    /\ next = "postRequeue" => verdict = "requeue"
    BY <2>1
  <2> QED BY <2>2, FollowReasonInv
<1>8. CASE InspectContinuation
  <2>1. PICK verdict, state :
          Follow(verdict, state, IF verdict = "requeue" THEN "postRequeue" ELSE "idle")
    BY <1>8 DEF InspectContinuation
  <2>2. PICK next : /\ Follow(verdict, state, next)
                    /\ next = "postRequeue" => verdict = "requeue"
    BY <2>1
  <2> QED BY <2>2, FollowReasonInv
<1>9. CASE UNCHANGED vars
  BY <1>1, <1>9 DEF vars, memory
<1>10. CASE Certifier
  BY <1>4, <1>6, <1>7, <1>8, <1>10 DEF Certifier, ClaimUsers, Me
<1>11. CASE Hook
  BY <1>4, <1>5, <1>11 DEF Hook, ClaimUsers
<1> QED BY <1>2, <1>3, <1>9, <1>10, <1>11 DEF Next

\* and those of the certifier.
LEMMA CertifierTypeOK ==
  ASSUME TypeOK, ReasonInv, Certifier
  PROVE  PcTypeOK' /\ DataTypeOK'
<1>0. PcTypeOK /\ DataTypeOK
  BY TypeParts
<1>1. CASE ClaimStep(Me)
  BY <1>1, ClaimStepTypeOK DEF ClaimUsers, Me
<1>2. ASSUME UNCHANGED <<world, claim, read>>,
             \/ UNCHANGED cause /\ \E label \in CertifierLabels : Goto(Me, label)
             \/ Die(Me),
             disk' \subseteq Records,
             closed' \in {"none", "completion_posted", "crash_recovery_completed"},
             archived' \in BOOLEAN,
             service' \in [wake : {"leased", "queued", "running", "recovering", "completed"},
                           observed : BOOLEAN, requeue : {"no"} \cup Requeues],
             remote' \in {"none"} \cup Kinds,
             reason' \in {"none"} \cup Requeues,
             faults' \in 0..MaxFaults
      PROVE  PcTypeOK' /\ DataTypeOK'
  <2>1. PcTypeOK' /\ cause' \in {"none", "certifier", "recovery"}
    BY <1>2, CertifierPcTypeOK
  <2> QED BY <1>0, <1>2, <2>1 DEF DataTypeOK, world, host
<1> DEFINE Frame == UNCHANGED <<world, claim, read>>
<1>3. CASE /\ Frame
           /\ PassBegin \/ ProveAbort \/ ReadDelivery \/ ProveContinuation \/ CertifyCompletion
           /\ UNCHANGED <<records, service, remote, reason, faults>>
  <2>1. \/ UNCHANGED cause /\ \E label \in CertifierLabels : Goto(Me, label)
        \/ Die(Me)
    BY <1>3 DEF PassBegin, ProveAbort, ReadDelivery, ProveContinuation, CertifyCompletion,
       CertifierLabels
  <2> QED BY <1>0, <1>2, <1>3, <2>1 DEF DataTypeOK, records
<1>4. CASE Frame /\ (PublishAbort \/ PublishReturned \/ PublishCompletion)
           /\ UNCHANGED <<closed, archived, service, remote, reason, cause, faults>>
  <2>1. \E label \in CertifierLabels : Goto(Me, label)
    BY <1>4 DEF PublishAbort, PublishReturned, PublishCompletion, CertifierLabels
  <2>2. disk' \subseteq Records
    BY <1>0, <1>4 DEF PublishAbort, PublishReturned, PublishCompletion, Publish, Records, DataTypeOK
  <2> QED BY <1>0, <1>2, <1>4, <2>1, <2>2 DEF DataTypeOK
<1>5. CASE Frame /\ (CertifyMissing \/ Certify) /\ UNCHANGED <<records, service, reason, faults>>
  <2>1. \/ UNCHANGED cause /\ \E label \in CertifierLabels : Goto(Me, label)
        \/ Die(Me)
    BY <1>5 DEF CertifyMissing, Certify, CertifierLabels, ClaimLabels
  <2>2. remote' \in {"none"} \cup Kinds
    BY <1>0, <1>5, ClassificationsType DEF CertifyMissing, Certify, DataTypeOK
  <2> QED BY <1>0, <1>2, <1>5, <2>1, <2>2 DEF DataTypeOK, records
<1>6. CASE Frame /\ InspectMissing /\ UNCHANGED <<records, service, remote, faults>>
  <2>0. PICK verdict, state :
          Follow(verdict, state, CASE verdict = "publish" -> "publishReturned"
                                   [] verdict = "requeue" -> "postRequeue"
                                   [] OTHER               -> "idle")
    BY <1>6 DEF InspectMissing
  <2>1. PICK next \in CertifierLabels : Follow(verdict, state, next)
    BY <2>0 DEF CertifierLabels
  <2>2. \/ UNCHANGED cause /\ \E label \in CertifierLabels : Goto(Me, label)
        \/ Die(Me)
    BY <2>1, FollowPc
  <2>3. reason' \in {"none"} \cup Requeues
    BY <1>0, <2>1, FollowReason
  <2> QED BY <1>0, <1>2, <1>6, <2>2, <2>3 DEF DataTypeOK, records
<1>7. CASE Frame /\ InspectContinuation /\ UNCHANGED <<records, service, remote, faults>>
  <2>0. PICK verdict, state :
          Follow(verdict, state, IF verdict = "requeue" THEN "postRequeue" ELSE "idle")
    BY <1>7 DEF InspectContinuation
  <2>1. PICK next \in CertifierLabels : Follow(verdict, state, next)
    BY <2>0 DEF CertifierLabels
  <2>2. \/ UNCHANGED cause /\ \E label \in CertifierLabels : Goto(Me, label)
        \/ Die(Me)
    BY <2>1, FollowPc
  <2>3. reason' \in {"none"} \cup Requeues
    BY <1>0, <2>1, FollowReason
  <2> QED BY <1>0, <1>2, <1>7, <2>2, <2>3 DEF DataTypeOK, records
<1>8. CASE Frame /\ (PostRequeue \/ PostCompletion) /\ UNCHANGED <<records, remote, reason, faults>>
  <2>1. \/ UNCHANGED cause /\ \E label \in CertifierLabels : Goto(Me, label)
        \/ Die(Me)
    BY <1>8 DEF PostRequeue, PostCompletion, CertifierLabels
  <2>2. service' \in [wake : {"leased", "queued", "running", "recovering", "completed"},
                      observed : BOOLEAN, requeue : {"no"} \cup Requeues]
    BY <1>0, <1>8 DEF PostRequeue, PostCompletion, DataTypeOK, ReasonInv
  <2> QED BY <1>0, <1>2, <1>8, <2>1, <2>2 DEF DataTypeOK, records
<1>9. CASE Frame /\ PostObservation /\ UNCHANGED <<records, remote, reason, cause, faults>>
  <2>1. \E label \in CertifierLabels : Goto(Me, label)
    BY <1>9 DEF PostObservation, CertifierLabels, ClaimLabels
  <2>2. service' \in [wake : {"leased", "queued", "running", "recovering", "completed"},
                      observed : BOOLEAN, requeue : {"no"} \cup Requeues]
    BY <1>0, <1>9, ObserveTypeOK DEF PostObservation
  <2> QED BY <1>0, <1>2, <1>9, <2>1, <2>2 DEF DataTypeOK, records
<1>10. CASE Frame /\ (Resolved \/ (Spent /\ UNCHANGED cause))
            /\ UNCHANGED <<records, service, remote, reason, faults>>
  <2>1. \/ UNCHANGED cause /\ \E label \in CertifierLabels : Goto(Me, label)
        \/ Die(Me)
    BY <1>10 DEF Resolved, Spent, CertifierLabels, ClaimLabels
  <2> QED BY <1>0, <1>2, <1>10, <2>1 DEF DataTypeOK, records
<1>11. CASE Frame /\ PublishTerminal
            /\ UNCHANGED <<disk, archived, service, remote, reason, cause, faults>>
  <2>1. \E label \in CertifierLabels : Goto(Me, label)
    BY <1>11 DEF PublishTerminal, CertifierLabels
  <2> QED BY <1>0, <1>2, <1>11, <2>1 DEF DataTypeOK, PublishTerminal
<1>12. CASE Frame /\ Archive
            /\ UNCHANGED <<disk, closed, service, remote, reason, cause, faults>>
  <2>1. \E label \in CertifierLabels : Goto(Me, label)
    BY <1>12 DEF Archive, CertifierLabels
  <2> QED BY <1>0, <1>2, <1>12, <2>1 DEF DataTypeOK, Archive
<1>13. CASE Frame /\ LostReply /\ UNCHANGED <<records, remote, reason, cause>>
  <2>1. \E label \in CertifierLabels : Goto(Me, label)
    BY <1>13 DEF LostReply, CertifierLabels
  <2>2. service' \in [wake : {"leased", "queued", "running", "recovering", "completed"},
                      observed : BOOLEAN, requeue : {"no"} \cup Requeues]
    <3>1. CASE Observe \/ UNCHANGED service
      BY <1>0, <3>1, ObserveTypeOK
    <3>2. CASE /\ At(Me, "postRequeue")
               /\ service' = [service EXCEPT !.wake = "queued", !.requeue = reason]
      BY <1>0, <3>2 DEF DataTypeOK, ReasonInv
    <3>3. CASE service' = [service EXCEPT !.wake = "completed"]
      BY <1>0, <3>3 DEF DataTypeOK
    <3> QED BY <1>13, <3>1, <3>2, <3>3 DEF LostReply
  <2>3. faults' \in 0..MaxFaults
    BY <1>0, <1>13, LoseReplyTypeOK DEF LostReply
  <2> QED BY <1>0, <1>2, <1>13, <2>1, <2>2, <2>3 DEF DataTypeOK, records
<1> QED BY <1>1, <1>3, <1>4, <1>5, <1>6, <1>7, <1>8, <1>9, <1>10, <1>11, <1>12, <1>13 DEF Certifier

\* The recovery's steps, the wake's turn, a crash and a restart keep every type.
LEMMA RecoveryTypeOK ==
  ASSUME TypeOK, Recovery \/ WakeTurn \/ Crash \/ Restart
  PROVE  PcTypeOK' /\ DataTypeOK'
<1>0. PcTypeOK /\ DataTypeOK
  BY TypeParts
<1>1. ASSUME NEW label \in RecoveryLabels, Goto("recovery", label) PROVE PcTypeOK'
  BY <1>0, <1>1, GotoTypeOK DEF Processes
<1>2. ASSUME Die("recovery") PROVE PcTypeOK' /\ cause' \in {"none", "certifier", "recovery"}
  BY <1>0, <1>2, DieTypeOK
<1>3. CASE SelectProvedAttempt
  <2>1. PcTypeOK' /\ cause' \in {"none", "certifier", "recovery"}
    BY <1>0, <1>1, <1>2, <1>3 DEF SelectProvedAttempt, RecoveryLabels, DataTypeOK
  <2> QED BY <1>0, <1>3, <2>1 DEF SelectProvedAttempt, DataTypeOK, records, memory, host
<1>4. CASE ClaimCrashRecovery
  <2>1. PcTypeOK' /\ cause' \in {"none", "certifier", "recovery"}
    BY <1>0, <1>1, <1>2, <1>4 DEF ClaimCrashRecovery, RecoveryLabels, DataTypeOK
  <2>2. service' \in [wake : {"leased", "queued", "running", "recovering", "completed"},
                      observed : BOOLEAN, requeue : {"no"} \cup Requeues]
    BY <1>0, <1>4 DEF ClaimCrashRecovery, DataTypeOK
  <2>3. faults' \in 0..MaxFaults
    BY <1>0, <1>4, LoseReplyTypeOK DEF ClaimCrashRecovery, DataTypeOK
  <2> QED BY <1>0, <1>4, <2>1, <2>2, <2>3 DEF ClaimCrashRecovery, DataTypeOK, records, memory, host
<1>5. CASE ResolveHeldRecovery
  <2>1. PcTypeOK' /\ cause' \in {"none", "certifier", "recovery"}
    BY <1>0, <1>1, <1>2, <1>5 DEF ResolveHeldRecovery, RecoveryLabels, DataTypeOK
  <2>2. handed' \in BOOLEAN
    BY <1>0, <1>5 DEF ResolveHeldRecovery, DataTypeOK
  <2> QED BY <1>0, <1>5, <2>1, <2>2 DEF ResolveHeldRecovery, DataTypeOK, records, memory, host
<1>6. CASE WakeTurn
  <2>1. service' \in [wake : {"leased", "queued", "running", "recovering", "completed"},
                      observed : BOOLEAN, requeue : {"no"} \cup Requeues]
    BY <1>0, <1>6 DEF WakeTurn, DataTypeOK
  <2> QED BY <1>0, <1>6, <2>1 DEF WakeTurn, DataTypeOK, PcTypeOK, records, memory, host
<1>7. CASE Crash
  <2>1. PcTypeOK'
    BY <1>0, <1>7, GotoTypeOK DEF Crash, Processes, CertifierLabels
  <2>2. faults' \in 0..MaxFaults
    BY <1>0, <1>7, LoseReplyTypeOK DEF Crash
  <2> QED BY <1>0, <1>7, <2>1, <2>2 DEF Crash, DataTypeOK, records, memory, host
<1>8. CASE Restart
  <2>1. PcTypeOK'
    BY <1>0, <1>8 DEF Restart, PcTypeOK, Processes, CertifierLabels, RecoveryLabels
  <2> QED BY <1>0, <1>8, <2>1 DEF Restart, DataTypeOK, records, memory, host
<1> QED BY <1>3, <1>4, <1>5, <1>6, <1>7, <1>8 DEF Recovery

\* Every variable stays in its type.
THEOREM DeliveryTypeCorrect == Spec => []TypeOK
<1> DEFINE Inv == ScansInv /\ TypeOK /\ ReasonInv
<1>1. Init => Inv
  <2> SUFFICES ASSUME Init PROVE Inv
    OBVIOUS
  <2>1. ScansInv
    BY ScansInvStart DEF Init
  <2>2. PcTypeOK
    BY DEF Init, PcTypeOK, Processes, ServerLabels, HookLabels, CertifierLabels, RecoveryLabels
  <2>3. DataTypeOK
    <3>1. 0 \in 0..MaxFaults
      BY FaultsAssumption
    <3> QED BY <3>1 DEF Init, DataTypeOK, Turns, Live, Records
  <2>4. ReasonInv
    BY DEF Init, ReasonInv, At, Me, Processes
  <2> QED BY <2>1, <2>2, <2>3, <2>4, TypeParts DEF ScansInv
<1>2. Inv /\ [Next]_vars => Inv'
  <2> SUFFICES ASSUME Inv, [Next]_vars PROVE Inv'
    OBVIOUS
  <2>1. ScansInv' /\ ReasonInv'
    BY ScansInvNext, ReasonKept DEF TypeOK
  <2>2. CASE UNCHANGED vars
    BY <2>1, <2>2 DEF vars, records, memory, TypeOK, PcTypeOK, RolloutTypeOK, ScansInv, host
  <2>3. CASE Next
    <3>1. PcTypeOK' /\ DataTypeOK'
      BY <2>3, HostTypeOK, HookTypeOK, CertifierTypeOK, RecoveryTypeOK DEF Next
    <3>2. RolloutTypeOK'
      BY <2>1 DEF ScansInv
    <3>3. TypeOK'
      BY <3>1, <3>2 DEF TypeOK, DataTypeOK
    <3> QED BY <2>1, <3>3
  <2> QED BY <2>2, <2>3
<1> QED BY <1>1, <1>2, PTL DEF Spec

-----------------------------------------------------------------------------
(* A delivered result is continued in one place *)

\* The turn has not answered yet, and goes on.
Quiet == Live \ {"answered"}

\* What the host's lines say of the turn.
TurnInv ==
  /\ scan.prove.done => turn = "completed"
  /\ scan.prove.answered => turn \notin Quiet
  /\ scan.preflight.terminal = "aborted" => turn = "aborted"

\* The receipt is published, and relied on, for an aborted turn only.
AbortInv ==
  /\ "abortReceipt" \in disk \/ At(Me, "publishAbort") => turn = "aborted"
  /\ handed \/ pc["recovery"] \in {"claim", "resolve"} => "abortReceipt" \in disk

\* Only the host ends a turn, with the line that says so.
LEMMA TurnChanges ==
  ASSUME [Next]_vars
  PROVE  /\ turn \in Over => turn' = turn
         /\ turn \notin Quiet => turn' \notin Quiet
         /\ \/ UNCHANGED scan
            \/ \E line \in Lines :
                 /\ Append(line)
                 /\ line = "complete" => turn \in Quiet \/ turn' = "completed"
                 /\ line = "message" => turn' = "answered"
                 /\ line = "aborted" => turn' = "aborted"
<1>1. CASE HostReceive \/ HostError \/ HostContinue \/ HostRecordAbort \/ UserTurn
  BY <1>1 DEF HostReceive, HostError, HostContinue, HostRecordAbort, UserTurn, HostLine, Over,
     Completions, Live, Quiet, Lines, OriginEnds, OtherLines
<1>2. CASE WakeTurn
  <2>1. UNCHANGED turn /\ (UNCHANGED scan \/ Append("wakeTurn") \/ Append("wakeEnd"))
    BY <1>2 DEF WakeTurn, host
  <2>2. "wakeTurn" \in Lines /\ "wakeEnd" \in Lines
    BY DEF Lines, OtherLines
  <2> QED BY <2>1, <2>2
<1>3. CASE ServerPublish \/ ServerGone \/ HostAbort \/ LapseLease \/ Crash \/ Restart
  BY <1>3 DEF ServerPublish, ServerGone, HostAbort, LapseLease, Crash, Restart, Over, host
<1>4. CASE Hook
  BY <1>4 DEF Hook, HookStart, ClaimStep, ResolveConsumed, ResolvePending, Consume,
     HookReturned, HookObserve, HookProbe, HookEnd, host
<1>5. CASE Certifier
  BY <1>5 DEF Certifier, ClaimStep, ResolveConsumed, ResolvePending, Consume, world, host
<1>6. CASE Recovery
  BY <1>6 DEF Recovery, SelectProvedAttempt, ClaimCrashRecovery, ResolveHeldRecovery, host
<1>7. CASE UNCHANGED vars
  BY <1>7 DEF vars, host
<1> QED BY <1>1, <1>2, <1>3, <1>4, <1>5, <1>6, <1>7 DEF Next

\* A step keeps the turn and its last line in agreement.
LEMMA TurnInvNext ==
  ASSUME ScansInv, TurnInv, [Next]_vars
  PROVE  TurnInv'
<1>1. /\ turn \in Over => turn' = turn
      /\ turn \notin Quiet => turn' \notin Quiet
  BY TurnChanges
<1>2. CASE UNCHANGED scan
  BY <1>1, <1>2 DEF TurnInv, Over, Completions
<1>3. ASSUME NEW line \in Lines, Append(line),
             line = "complete" => turn \in Quiet \/ turn' = "completed",
             line = "message" => turn' = "answered",
             line = "aborted" => turn' = "aborted"
      PROVE  TurnInv'
  <2>1. /\ scan.prove \in ProofStates /\ scan.preflight \in PreflightStates
        /\ scan'.prove = ProveStep(scan.prove, line)
        /\ scan'.preflight = PreflightStep(scan.preflight, line)
    BY <1>3 DEF ScansInv, RolloutTypeOK, ScanStates, Append
  <2>2. /\ scan'.prove.done => scan.prove.done \/ (line = "complete" /\ scan.prove.answered)
        /\ scan'.prove.answered => scan.prove.answered \/ line = "message"
    BY <2>1, ProveStepFacts
  <2>3. scan'.preflight.terminal = "aborted" =>
          scan.preflight.terminal = "aborted" \/ line = "aborted"
    BY <2>1, PreflightStepFacts DEF OriginEnds
  <2> QED BY <1>1, <1>3, <2>2, <2>3 DEF TurnInv, Over, Completions, Quiet
<1> QED BY <1>2, <1>3, TurnChanges

\* The receipt waits for both the app server and the rollout.
LEMMA AbortProofFacts ==
  ASSUME TurnInv, NEW tail \in BOOLEAN,
         AbortProof(tail) \notin {"transient", "ineligible", "refused"}
  PROVE  turn = "aborted"
BY DEF AbortProof, PreflightOutcome, TurnInv

\* A step keeps what the abort receipt stands for.
LEMMA AbortInvNext ==
  ASSUME PcTypeOK, TurnInv, AbortInv, [Next]_vars
  PROVE  AbortInv'
<1>1. turn = "aborted" => turn' = "aborted"
  BY TurnChanges DEF Over, Completions
<1>2. ASSUME UNCHANGED <<disk, handed>>,
             \/ pc'[Me] = pc[Me]
             \/ pc'[Me] # "publishAbort"
             \/ turn = "aborted",
             \/ pc'["recovery"] = pc["recovery"]
             \/ pc'["recovery"] \notin {"claim", "resolve"}
             \/ "abortReceipt" \in disk
      PROVE  AbortInv'
  BY <1>1, <1>2 DEF AbortInv, At
<1>3. CASE \/ ServerGone \/ HostReceive \/ HostError \/ HostContinue \/ HostAbort
           \/ HostRecordAbort \/ UserTurn \/ LapseLease \/ WakeTurn \/ Crash \/ Restart
  BY <1>2, <1>3 DEF ServerGone, HostReceive, HostError, HostContinue, HostAbort, HostRecordAbort,
     UserTurn, LapseLease, HostLine, WakeTurn, Crash, Restart, records, Goto, Me, PcTypeOK,
     Processes
<1>4. CASE ServerPublish \/ HookReturned
  <2>1. /\ "abortReceipt" \in disk' <=> "abortReceipt" \in disk
        /\ UNCHANGED handed
        /\ pc'[Me] = pc[Me] /\ pc'["recovery"] = pc["recovery"]
    BY <1>4 DEF ServerPublish, HookReturned, Publish, Goto, Me, PcTypeOK, Processes
  <2> QED BY <1>1, <2>1 DEF AbortInv, At
<1>5. ASSUME NEW a \in ClaimUsers, ClaimStep(a) PROVE AbortInv'
  BY <1>2, <1>5 DEF ClaimStep, ResolveConsumed, ResolvePending, Consume, ConsumeResolve,
     Tombstone, Unlink, Throw, Goto, Die, Me, records, PcTypeOK, Processes, ClaimUsers
<1>6. CASE HookStart \/ HookObserve \/ HookProbe \/ HookEnd
  BY <1>2, <1>6 DEF HookStart, HookObserve, HookProbe, HookEnd, Goto, Me, records,
     PcTypeOK, Processes
<1>7. CASE PublishAbort /\ UNCHANGED handed
  <2>1. turn = "aborted"
    BY <1>7 DEF PublishAbort, AbortInv, At, Me
  <2>2. "abortReceipt" \in disk'
    BY <1>7 DEF PublishAbort, Publish
  <2> QED BY <1>1, <2>1, <2>2 DEF AbortInv
<1>8. CASE (PublishReturned \/ PublishCompletion) /\ UNCHANGED handed
  <2>1. /\ "abortReceipt" \in disk' <=> "abortReceipt" \in disk
        /\ pc'[Me] # "publishAbort" /\ pc'["recovery"] = pc["recovery"]
    BY <1>8 DEF PublishReturned, PublishCompletion, Publish, Goto, Me, PcTypeOK, Processes
  <2> QED BY <1>1, <1>8, <2>1 DEF AbortInv, At
<1>9. CASE ProveAbort /\ UNCHANGED <<disk, handed>>
  <2>1. PICK tail \in BOOLEAN :
          \/ Goto(Me, "delivery")
          \/ Die(Me)
          \/ /\ AbortProof(tail) \notin {"transient", "ineligible", "refused"}
             /\ Goto(Me, "publishAbort")
    BY <1>9 DEF ProveAbort, Tails
  <2>2. CASE Goto(Me, "delivery") \/ Die(Me)
    BY <1>2, <1>9, <2>2 DEF Goto, Die, Me, PcTypeOK, Processes
  <2>3. CASE /\ AbortProof(tail) \notin {"transient", "ineligible", "refused"}
             /\ Goto(Me, "publishAbort")
    BY <1>2, <1>9, <2>3, AbortProofFacts DEF Goto, Me, PcTypeOK, Processes
  <2> QED BY <2>1, <2>2, <2>3
<1>10. CASE /\ \/ PassBegin \/ ReadDelivery \/ CertifyMissing \/ PostRequeue \/ Certify
               \/ Resolved \/ PostObservation \/ Spent \/ ProveContinuation \/ PostCompletion
               \/ CertifyCompletion \/ PublishTerminal \/ Archive \/ LostReply
            /\ UNCHANGED <<disk, handed>>
  <2>1. /\ pc'[Me] = pc[Me] \/ pc'[Me] # "publishAbort"
        /\ pc'["recovery"] = pc["recovery"] \/ pc'["recovery"] = "down"
    BY <1>10 DEF PassBegin, ReadDelivery, CertifyMissing, PostRequeue, Certify,
       Resolved, PostObservation, Spent, ProveContinuation, PostCompletion, CertifyCompletion,
       PublishTerminal, Archive, LostReply, Goto, Die, Me, PcTypeOK, Processes
  <2> QED BY <1>2, <1>10, <2>1
<1>11. CASE (InspectMissing \/ InspectContinuation) /\ UNCHANGED <<disk, handed>>
  <2>1. PICK verdict, state, next : Follow(verdict, state, next) /\ next # "publishAbort"
    BY <1>11 DEF InspectMissing, InspectContinuation
  <2>2. /\ pc'[Me] # "publishAbort"
        /\ pc'["recovery"] = pc["recovery"] \/ pc'["recovery"] = "down"
    BY <2>1 DEF Follow, Goto, Die, Me, PcTypeOK, Processes
  <2> QED BY <1>2, <1>11, <2>2
<1>12. CASE SelectProvedAttempt \/ ClaimCrashRecovery
  <2>1. /\ UNCHANGED <<disk, handed>>
        /\ pc'[Me] = pc[Me] \/ pc'[Me] = "down"
        /\ \/ pc'["recovery"] \notin {"claim", "resolve"}
           \/ "abortReceipt" \in disk
    BY <1>12 DEF SelectProvedAttempt, ClaimCrashRecovery, AbortInv, At, Goto, Die, Me, records,
       PcTypeOK, Processes
  <2> QED BY <1>2, <2>1
<1>13. CASE ResolveHeldRecovery
  <2>1. /\ UNCHANGED disk
        /\ "abortReceipt" \in disk
        /\ pc'[Me] = pc[Me] \/ pc'[Me] = "down"
    BY <1>13 DEF ResolveHeldRecovery, AbortInv, At, Goto, Die, Me, records, PcTypeOK, Processes
  <2> QED BY <1>1, <2>1 DEF AbortInv, At
<1>14. CASE UNCHANGED vars
  BY <1>2, <1>14 DEF vars, records
<1>15. CASE Certifier
  BY <1>5, <1>7, <1>8, <1>9, <1>10, <1>11, <1>15 DEF Certifier, ClaimUsers, Me, world, records
<1>16. CASE Hook
  BY <1>4, <1>5, <1>6, <1>16 DEF Hook, ClaimUsers
<1>17. CASE Recovery
  BY <1>12, <1>13, <1>17 DEF Recovery
<1> QED BY <1>3, <1>4, <1>14, <1>15, <1>16, <1>17 DEF Next

\* The dispatcher and the turn that held the call never both continue it.
THEOREM ResultContinuedOnce == Spec => []ContinuedOnce
<1> DEFINE Inv == TurnInv /\ AbortInv
<1>1. Init => Inv
  BY DEF Init, TurnInv, AbortInv, ScanStart, ProveStart, PreflightStart, At, Me, Processes
<1>2. ScansInv /\ TypeOK /\ Inv /\ [Next]_vars => Inv'
  BY TurnInvNext, AbortInvNext DEF TypeOK
<1>3. ScansInv /\ Inv => ContinuedOnce
  <2> SUFFICES ASSUME ScansInv, Inv PROVE ContinuedOnce
    OBVIOUS
  <2>1. Proved => scan.prove.done
    BY DEF Proved, ProveOutcome
  <2> QED BY <2>1 DEF TurnInv, AbortInv, ContinuedOnce
<1>4. Init => ScansInv
  BY ScansInvStart DEF Init
<1>5. ScansInv /\ [Next]_vars => ScansInv'
  BY ScansInvNext
<1> QED BY <1>1, <1>2, <1>3, <1>4, <1>5, DeliveryTypeCorrect, PTL DEF Spec

-----------------------------------------------------------------------------
(* The private claim outlives the report *)

Spending == {"consume", "consumePending", "tombstone", "unlink", "spent"}

\* The server creates the claim once, before anyone looks for it.
CreateInv ==
  /\ pc["server"] \in {"deliver", "claim", "intent"} => "intent" \notin disk
  /\ pc["server"] \in {"deliver", "claim"} => claim = {}
  /\ pc["server"] = "intent" => claim # {}
  /\ pc["server"] = "return" \/ turn = "ended" => "intent" \in disk
  /\ pc["certifier"] \in ClaimLabels => "intent" \in disk
  /\ pc["hook"] \in ClaimLabels \cup {"probe"} => "intent" \in disk

\* Whoever spends it knows that the service has heard of the result.
SpendInv ==
  /\ remote = "observed" => service.observed
  /\ \A a \in ClaimUsers :
       /\ pc[a] \in Spending => service.observed
       /\ pc[a] = "unlink" => "consumed" \in claim

\* What the service has observed it does not forget.
LEMMA ObservedKept ==
  ASSUME DataTypeOK, service.observed, [Next]_vars
  PROVE  service'.observed
<1>1. CASE UNCHANGED service
  BY <1>1
<1>2. CASE Observe
  BY <1>2 DEF Observe, DataTypeOK
<1>3. CASE LapseLease \/ WakeTurn \/ ClaimCrashRecovery \/ PostCompletion
  BY <1>3 DEF LapseLease, WakeTurn, ClaimCrashRecovery, PostCompletion, DataTypeOK
<1>4. CASE PostRequeue \/ PostObservation \/ LostReply
  BY <1>2, <1>4 DEF PostRequeue, PostObservation, LostReply, DataTypeOK
<1>5. CASE HookObserve
  BY <1>1, <1>2, <1>5 DEF HookObserve
<1>6. CASE \/ ServerPublish \/ ServerGone \/ HostReceive \/ HostError \/ HostContinue \/ HostAbort
           \/ HostRecordAbort \/ UserTurn \/ Crash \/ Restart
  BY <1>1, <1>6 DEF ServerPublish, ServerGone, HostReceive, HostError, HostContinue, HostAbort,
     HostRecordAbort, UserTurn, HostLine, Crash, Restart
<1>7. CASE \/ HookStart \/ HookReturned \/ HookProbe \/ HookEnd
           \/ \E a \in ClaimUsers : ClaimStep(a)
  BY <1>1, <1>7 DEF HookStart, HookReturned, HookProbe, HookEnd, ClaimStep, ResolveConsumed,
     ResolvePending, Consume
<1>8. CASE SelectProvedAttempt \/ ResolveHeldRecovery
  BY <1>1, <1>8 DEF SelectProvedAttempt, ResolveHeldRecovery
<1>9. CASE Certifier
  BY <1>1, <1>3, <1>4, <1>7, <1>9 DEF Certifier, ClaimUsers, Me
<1>10. CASE UNCHANGED vars
  BY <1>1, <1>10 DEF vars
<1> QED BY <1>3, <1>5, <1>6, <1>7, <1>8, <1>9, <1>10 DEF Next, Hook, Recovery, ClaimUsers

\* An observation that was acknowledged, or certified, was recorded.
LEMMA AcknowledgedObservation ==
  ASSUME DataTypeOK, Observe, "ack" \in ObservationAnswers
  PROVE  service'.observed
BY DEF DataTypeOK, Observe, ObservationAnswers

\* A certification that shows the observation shows one that was recorded.
LEMMA CertifiedObservation ==
  ASSUME DataTypeOK, "observed" \in Classifications
  PROVE  service.observed
BY DEF DataTypeOK, Classifications, Requeues

ClaimInv == CreateInv /\ SpendInv /\ ClaimOutlivesReport

\* A step that leaves the claim's files and the intent alone.
LEMMA ClaimFrame ==
  ASSUME ClaimInv, UNCHANGED claim,
         "intent" \in disk' <=> "intent" \in disk,
         service.observed => service'.observed,
         pc'["server"] \in {pc["server"], "done", "dead"},
         turn' = "ended" => turn = "ended" \/ "intent" \in disk,
         pc'["hook"] \in ClaimLabels \cup {"probe"} => "intent" \in disk,
         pc'["certifier"] \in ClaimLabels => "intent" \in disk,
         \A a \in ClaimUsers : /\ pc'[a] \in Spending => service'.observed
                               /\ pc'[a] = "unlink" => pc[a] = "unlink",
         remote' = "observed" => service'.observed
  PROVE  ClaimInv'
BY DEF ClaimInv, CreateInv, SpendInv, ClaimOutlivesReport

\* The file operations on the claim keep its invariant,
LEMMA ClaimStepInv ==
  ASSUME TypeOK, ClaimInv, NEW a \in ClaimUsers, ClaimStep(a)
  PROVE  ClaimInv'
<1>0. /\ PcTypeOK /\ DataTypeOK
      /\ a \in Processes /\ a # "server" /\ a # "recovery"
  BY TypeParts DEF ClaimUsers, Processes
<1>1. pc[a] \in ClaimLabels /\ "intent" \in disk
  BY DEF ClaimStep, ResolveConsumed, ResolvePending, Consume, ConsumeResolve, Tombstone, Unlink,
     At, ClaimLabels, ClaimInv, CreateInv, ClaimUsers
<1>2. UNCHANGED <<disk, service, remote, turn>>
  BY DEF ClaimStep, ResolveConsumed, ResolvePending, Consume, records, memory, host
<1>3. CASE ResolveConsumed(a) \/ ResolvePending(a) \/ (ConsumeResolve(a) /\ UNCHANGED claim)
  <2>1. UNCHANGED claim
    BY <1>3 DEF ResolveConsumed, ResolvePending
  <2>2. pc'["server"] = pc["server"]
    BY <1>0, <1>3 DEF ResolveConsumed, ResolvePending, ConsumeResolve, Throw, Die, Goto,
       PcTypeOK, Processes
  <2>3. \A b \in ClaimUsers : /\ pc'[b] \in Spending => pc[b] \in Spending
                              /\ pc'[b] = "unlink" => pc[b] = "unlink"
    BY <1>0, <1>3 DEF ResolveConsumed, ResolvePending, ConsumeResolve, Throw, Die, Goto, At,
       PcTypeOK, Processes, ClaimUsers, Spending
  <2>4. \A b \in ClaimUsers : pc'[b] \in Spending => service.observed
    BY <2>3 DEF ClaimInv, SpendInv
  <2>5. remote = "observed" => service.observed
    BY DEF ClaimInv, SpendInv
  <2> QED BY <1>1, <1>2, <2>1, <2>2, <2>3, <2>4, <2>5, ClaimFrame
<1>4. CASE Tombstone(a) \/ Unlink(a)
  <2>1. service.observed
    BY <1>0, <1>4 DEF Tombstone, Unlink, At, ClaimInv, SpendInv, Spending
  <2>2. /\ pc["server"] \notin {"deliver", "claim", "intent"}
        /\ pc'["server"] = pc["server"]
    BY <1>0, <1>1, <1>4 DEF Tombstone, Unlink, Goto, PcTypeOK, Processes, ClaimInv, CreateInv
  <2>3. "consumed" \in claim' /\ claim \ {"pending"} \subseteq claim'
    BY <1>0, <1>4 DEF Tombstone, Unlink, At, ClaimInv, SpendInv
  <2>4. SpendInv'
    BY <1>2, <2>1, <2>3 DEF SpendInv
  <2>5. CreateInv'
    BY <1>1, <1>2, <2>2 DEF CreateInv, ClaimInv
  <2>6. ClaimOutlivesReport'
    BY <1>2, <2>1, <2>3 DEF ClaimOutlivesReport
  <2> QED BY <2>4, <2>5, <2>6 DEF ClaimInv
<1> QED BY <1>3, <1>4 DEF ClaimStep, Consume

\* and so does every step.
LEMMA ClaimInvNext ==
  ASSUME TypeOK, ClaimInv, [Next]_vars
  PROVE  ClaimInv'
<1>0. /\ PcTypeOK /\ DataTypeOK
      /\ pc \in [Processes -> ServerLabels \cup HookLabels \cup CertifierLabels \cup RecoveryLabels]
  BY TypeParts DEF PcTypeOK
<1>1. service.observed => service'.observed
  BY <1>0, ObservedKept
<1>2. /\ \A a \in ClaimUsers : pc[a] \in Spending => service'.observed
      /\ remote = "observed" => service'.observed
      /\ pc["hook"] \in ClaimLabels \cup {"probe"} => "intent" \in disk
      /\ pc["certifier"] \in ClaimLabels => "intent" \in disk
      /\ pc["server"] = "return" \/ turn = "ended" => "intent" \in disk
  BY <1>1 DEF ClaimInv, SpendInv, CreateInv
<1>3. CASE ServerPublish
  <2>1. /\ UNCHANGED <<service, remote, turn>>
        /\ \A p \in Processes \ {"server"} : pc'[p] = pc[p]
    BY <1>0, <1>3 DEF ServerPublish, Goto, Processes, memory, host
  <2>2. SpendInv' /\ ClaimOutlivesReport' /\ CreateInv'
    <3>1. CASE At("server", "deliver")
      BY <1>0, <1>3, <2>1, <3>1 DEF ServerPublish, Publish, At, Goto, ClaimInv, CreateInv, SpendInv,
         ClaimOutlivesReport, Processes, ClaimUsers
    <3>2. CASE At("server", "claim")
      <4>1. claim = {} /\ claim' = {"pending"} /\ UNCHANGED disk /\ pc'["server"] = "intent"
        BY <1>0, <1>3, <3>2 DEF ServerPublish, Create, At, Goto, ClaimInv, CreateInv, Processes,
           records
      <4>2. "intent" \notin disk
        BY <3>2 DEF At, ClaimInv, CreateInv
      <4> QED BY <2>1, <4>1, <4>2 DEF ClaimInv, CreateInv, SpendInv, ClaimOutlivesReport,
           Processes, ClaimUsers
    <3>3. CASE At("server", "intent")
      <4>1. UNCHANGED claim /\ disk' = disk \cup {"intent"} /\ pc'["server"] = "return"
        BY <1>0, <1>3, <3>3 DEF ServerPublish, Publish, At, Goto, Processes
      <4>2. claim # {}
        BY <3>3 DEF At, ClaimInv, CreateInv
      <4> QED BY <2>1, <4>1, <4>2 DEF ClaimInv, CreateInv, SpendInv, ClaimOutlivesReport,
           Processes, ClaimUsers
    <3> QED BY <1>3, <3>1, <3>2, <3>3 DEF ServerPublish
  <2> QED BY <2>2 DEF ClaimInv
<1> DEFINE Frame ==
      /\ UNCHANGED claim
      /\ "intent" \in disk' <=> "intent" \in disk
      /\ pc'["server"] \in {pc["server"], "done", "dead"}
      /\ turn' = "ended" => turn = "ended" \/ "intent" \in disk
      /\ pc'["hook"] \in ClaimLabels \cup {"probe"} => "intent" \in disk
      /\ pc'["certifier"] \in ClaimLabels => "intent" \in disk
      /\ \A a \in ClaimUsers : /\ pc'[a] \in Spending => service'.observed
                               /\ pc'[a] = "unlink" => pc[a] = "unlink"
      /\ remote' = "observed" => service'.observed
<1>4. Frame => ClaimInv'
  BY <1>1, ClaimFrame
<1>5. CASE \/ ServerGone \/ HostReceive \/ HostError \/ HostContinue \/ HostAbort \/ HostRecordAbort
           \/ UserTurn \/ LapseLease \/ WakeTurn \/ Crash \/ Restart
  <2>1. UNCHANGED <<claim, disk, remote>>
    BY <1>5 DEF ServerGone, HostReceive, HostError, HostContinue, HostAbort, HostRecordAbort,
       UserTurn, LapseLease, HostLine, WakeTurn, Crash, Restart, records, memory
  <2>2. /\ pc'["server"] \in {pc["server"], "done", "dead"}
        /\ pc'["hook"] = pc["hook"]
        /\ pc'["certifier"] \in {pc["certifier"], "down", "idle"}
    BY <1>0, <1>5 DEF ServerGone, HostReceive, HostError, HostContinue, HostAbort, HostRecordAbort,
       UserTurn, LapseLease, HostLine, WakeTurn, Crash, Restart, Goto, Processes
  <2>3. turn' = "ended" => turn = "ended" \/ "intent" \in disk
    BY <1>2, <1>5 DEF ServerGone, HostReceive, HostError, HostContinue, HostAbort, HostRecordAbort,
       UserTurn, LapseLease, HostLine, WakeTurn, Crash, Restart, At, host
  <2> QED BY <1>2, <1>4, <2>1, <2>2, <2>3 DEF ClaimUsers, Spending, ClaimLabels
<1>6. CASE HookStart \/ HookReturned \/ HookObserve \/ HookProbe \/ HookEnd
  <2>1. /\ UNCHANGED <<claim, remote, turn>>
        /\ "intent" \in disk' <=> "intent" \in disk
        /\ pc'["server"] = pc["server"] /\ pc'["certifier"] = pc["certifier"]
    BY <1>0, <1>6 DEF HookStart, HookReturned, HookObserve, HookProbe, HookEnd, Publish, Goto,
       records, memory, Processes, host
  <2>2. pc'["hook"] \in ClaimLabels \cup {"probe"} => "intent" \in disk
    BY <1>0, <1>2, <1>6 DEF HookStart, HookReturned, HookObserve, HookProbe, HookEnd, At, Goto,
       Processes, ClaimLabels
  <2>3. pc'["hook"] # "unlink"
    BY <1>0, <1>6 DEF HookStart, HookReturned, HookObserve, HookProbe, HookEnd, Goto, Processes
  <2>4. pc'["hook"] \in Spending => service'.observed
    <3>1. CASE HookStart \/ HookReturned \/ HookEnd
      BY <1>0, <3>1 DEF HookStart, HookReturned, HookEnd, Goto, Processes, Spending
    <3>2. CASE HookObserve
      <4>1. \/ Observe /\ "ack" \in ObservationAnswers
            \/ pc'["hook"] \in {"probe", "done"}
        BY <1>0, <3>2 DEF HookObserve, Goto, Processes
      <4> QED BY <1>0, <4>1, AcknowledgedObservation DEF Spending
    <3>3. CASE HookProbe
      <4>1. "observed" \in Classifications \/ pc'["hook"] = "done"
        BY <1>0, <3>3 DEF HookProbe, Goto, Processes
      <4> QED BY <1>0, <1>1, <4>1, CertifiedObservation DEF Spending
    <3> QED BY <1>6, <3>1, <3>2, <3>3
  <2> QED BY <1>2, <1>4, <2>1, <2>2, <2>3, <2>4 DEF ClaimUsers
<1>7. ASSUME UNCHANGED <<claim, turn>>,
             "intent" \in disk' <=> "intent" \in disk,
             pc'["server"] = pc["server"], pc'["hook"] = pc["hook"],
             \/ pc'["certifier"] = pc["certifier"]
             \/ pc'["certifier"] \notin ClaimLabels
             \/ /\ pc'["certifier"] \notin {"unlink"} /\ "intent" \in disk
                /\ pc'["certifier"] \in Spending => service'.observed,
             remote' = remote \/ (remote' = "observed" => service'.observed)
      PROVE  ClaimInv'
  BY <1>2, <1>4, <1>7 DEF ClaimUsers, Spending, ClaimLabels
<1>8. CASE /\ \/ PassBegin \/ ProveAbort \/ PublishAbort \/ ReadDelivery \/ PublishReturned
              \/ PostRequeue \/ ProveContinuation \/ PostCompletion \/ Spent \/ CertifyCompletion
              \/ PublishCompletion \/ PublishTerminal \/ Archive \/ LostReply
           /\ UNCHANGED <<claim, turn, remote>>
           /\ UNCHANGED disk \/ PublishAbort \/ PublishReturned \/ PublishCompletion
  <2>1. "intent" \in disk' <=> "intent" \in disk
    BY <1>8 DEF PublishAbort, PublishReturned, PublishCompletion, Publish
  <2>2. /\ pc'["server"] = pc["server"] /\ pc'["hook"] = pc["hook"]
        /\ pc'["certifier"] \notin ClaimLabels
    BY <1>0, <1>8 DEF PassBegin, ProveAbort, PublishAbort, ReadDelivery, PublishReturned,
       PostRequeue, ProveContinuation, PostCompletion, Spent, CertifyCompletion,
       PublishCompletion, PublishTerminal, Archive, LostReply, Goto, Die, Me, Processes, ClaimLabels
  <2> QED BY <1>7, <1>8, <2>1, <2>2
<1>9. CASE (InspectMissing \/ InspectContinuation) /\ UNCHANGED <<claim, turn, remote, disk>>
  <2>1. PICK verdict, state, next : Follow(verdict, state, next) /\ next \notin ClaimLabels
    BY <1>9 DEF InspectMissing, InspectContinuation, ClaimLabels
  <2>2. /\ pc'["server"] = pc["server"] /\ pc'["hook"] = pc["hook"]
        /\ pc'["certifier"] \notin ClaimLabels
    BY <1>0, <2>1 DEF Follow, Goto, Die, Me, Processes, ClaimLabels
  <2> QED BY <1>7, <1>9, <2>2
<1>10. CASE (CertifyMissing \/ Certify) /\ UNCHANGED <<claim, turn, disk>>
  <2>1. /\ pc'["server"] = pc["server"] /\ pc'["hook"] = pc["hook"]
        /\ pc'["certifier"] \in ClaimLabels =>
             pc'["certifier"] = "resolve" /\ "intent" \in disk
    BY <1>0, <1>10 DEF CertifyMissing, Certify, Goto, Die, Me, Processes, ClaimLabels
  <2>2. remote' = remote \/ remote' \in Classifications
    BY <1>10 DEF CertifyMissing, Certify
  <2>3. remote' = remote \/ (remote' = "observed" => service'.observed)
    BY <1>0, <1>1, <2>2, CertifiedObservation
  <2> QED BY <1>7, <1>10, <2>1, <2>3 DEF Spending
<1>11. CASE Resolved /\ UNCHANGED <<claim, turn, disk, remote>>
  <2>1. "intent" \in disk
    BY <1>2, <1>11 DEF Resolved, At, Me, ClaimLabels
  <2>2. /\ pc'["server"] = pc["server"] /\ pc'["hook"] = pc["hook"]
        /\ pc'["certifier"] # "unlink"
        /\ pc'["certifier"] \in Spending => remote = "observed"
    BY <1>0, <1>11 DEF Resolved, Goto, Die, Me, Processes, Spending
  <2> QED BY <1>2, <1>7, <1>11, <2>1, <2>2
<1>12. CASE PostObservation /\ UNCHANGED <<claim, turn, disk, remote>>
  <2>1. "intent" \in disk
    BY <1>2, <1>12 DEF PostObservation, At, Me, ClaimLabels
  <2>2. /\ pc'["server"] = pc["server"] /\ pc'["hook"] = pc["hook"]
        /\ pc'["certifier"] # "unlink"
        /\ pc'["certifier"] \in Spending => Observe /\ "ack" \in ObservationAnswers
    BY <1>0, <1>12 DEF PostObservation, Goto, Me, Processes, Spending
  <2> QED BY <1>0, <1>7, <1>12, <2>1, <2>2, AcknowledgedObservation
<1>13. CASE Recovery
  <2>1. UNCHANGED <<claim, turn, disk, remote>>
    BY <1>13 DEF Recovery, SelectProvedAttempt, ClaimCrashRecovery, ResolveHeldRecovery,
       records, memory, host
  <2>2. /\ pc'["server"] = pc["server"] /\ pc'["hook"] = pc["hook"]
        /\ pc'["certifier"] \in {pc["certifier"], "down"}
    BY <1>0, <1>13 DEF Recovery, SelectProvedAttempt, ClaimCrashRecovery, ResolveHeldRecovery,
       Goto, Die, Processes
  <2> QED BY <1>7, <2>1, <2>2 DEF ClaimLabels
<1>14. CASE UNCHANGED vars
  <2>1. UNCHANGED <<claim, turn, disk, remote, pc>>
    BY <1>14 DEF vars, records, memory, host
  <2> QED BY <1>7, <2>1
<1>15. CASE Certifier
  <2>1. CASE ClaimStep(Me)
    BY <2>1, ClaimStepInv DEF ClaimUsers, Me
  <2>2. CASE ~ClaimStep(Me)
    BY <1>8, <1>9, <1>10, <1>11, <1>12, <1>15, <2>2 DEF Certifier, world, records, host
  <2> QED BY <2>1, <2>2
<1>16. CASE Hook
  BY <1>6, <1>16, ClaimStepInv DEF Hook, ClaimUsers
<1> QED BY <1>3, <1>5, <1>13, <1>14, <1>15, <1>16 DEF Next

\* There is no claim before anything happened.
LEMMA ClaimInvStart == Init => ClaimInv
BY DEF Init, ClaimInv, CreateInv, SpendInv, ClaimOutlivesReport, Processes, ClaimUsers,
   ClaimLabels, Spending

\* The claim that carries the lease is neither spent too early nor lost.
THEOREM PrivateClaimOutlivesReport == Spec => []ClaimOutlivesReport
<1>1. Init => ClaimInv
  BY ClaimInvStart
<1>2. TypeOK /\ ClaimInv /\ [Next]_vars => ClaimInv'
  BY ClaimInvNext
<1>3. ClaimInv => ClaimOutlivesReport
  BY DEF ClaimInv
<1> QED BY <1>1, <1>2, <1>3, DeliveryTypeCorrect, PTL DEF Spec

-----------------------------------------------------------------------------
(* The reports to the service are true *)

\* The turn was aborted, before its output or after it.
Cut(requeue) ==
  /\ turn = "aborted"
  /\ scan.inspect.outputs = IF requeue = "tool_result_not_persisted" THEN 0 ELSE 1

Completing == {"postCompletion", "certifyCompletion", "publishCompletion"}

Recovered == service.wake = "completed" /\ handed

\* What the service was told.
ServiceInv ==
  /\ service.wake = "running" => service.observed
  /\ service.requeue # "no" => Cut(service.requeue)
  /\ service.wake = "completed" /\ ~handed => service.observed /\ Proved

\* What the certifier goes by on its way to a report, and to the terminal.
CertifierInv ==
  /\ pc[Me] = "postRequeue" => Cut(reason)
  /\ pc[Me] \in Completing => Proved
  /\ pc[Me] = "publishCompletion" \/ "completion" \in disk =>
       service.wake = "completed" /\ Proved
  /\ remote = "recovered" => Recovered
  /\ pc[Me] = "terminal" => "completion" \in disk \/ Recovered
  /\ closed = "completion_posted" => "completion" \in disk
  /\ closed = "crash_recovery_completed" => Recovered

\* Only an output line counts as one.
LEMMA OutputsKept ==
  ASSUME NEW s \in InspectionStates, NEW line \in Lines \ {"output"}
  PROVE  InspectStep(s, line).outputs = s.outputs
<1> DEFINE u == [s EXCEPT !.other = @ \/ NamesOtherTurn(line)]
           r == [u EXCEPT !.pending = FALSE]
<1>1. /\ u \in InspectionStates /\ u.outputs = s.outputs /\ u.failed = s.failed
      /\ r \in InspectionStates /\ r.outputs = s.outputs /\ r.failed = s.failed
  BY DEF InspectionStates
<1>2. CASE s.failed
  BY <1>2 DEF InspectStep
<1>3. CASE ~s.failed
  <2>1. InspectStep(s, line) \in {Fail(u), InspectBefore(r, line), InspectAfter(r, line)}
    BY <1>3 DEF InspectStep, InspectLine
  <2>2. Fail(u).outputs = s.outputs
    BY <1>1 DEF Fail, InspectionStates
  <2> HIDE DEF u, r
  <2>3. InspectBefore(r, line).outputs = s.outputs /\ InspectAfter(r, line).outputs = s.outputs
    BY <1>1, <1>3, InspectBeforeFacts, InspectAfterFacts
  <2> QED BY <2>1, <2>2, <2>3
<1> QED BY <1>2, <1>3

\* The host writes no output into an aborted turn.
LEMMA AbortedLines ==
  ASSUME turn = "aborted", [Next]_vars
  PROVE  UNCHANGED scan \/ \E line \in Lines \ {"output"} : Append(line)
<1>1. CASE HostReceive \/ HostError \/ HostContinue \/ HostRecordAbort \/ UserTurn
  BY <1>1 DEF HostReceive, HostError, HostContinue, HostRecordAbort, UserTurn, HostLine,
     Lines, OriginEnds, OtherLines
<1>2. CASE WakeTurn
  BY <1>2 DEF WakeTurn, Lines, OriginEnds, OtherLines
<1>3. CASE ServerPublish \/ ServerGone \/ HostAbort \/ LapseLease \/ Crash \/ Restart
  BY <1>3 DEF ServerPublish, ServerGone, HostAbort, LapseLease, Crash, Restart
<1>4. CASE Hook
  BY <1>4 DEF Hook, HookStart, ClaimStep, ResolveConsumed, ResolvePending, Consume,
     HookReturned, HookObserve, HookProbe, HookEnd
<1>5. CASE Certifier
  BY <1>5 DEF Certifier, ClaimStep, ResolveConsumed, ResolvePending, Consume, world
<1>6. CASE Recovery
  BY <1>6 DEF Recovery, SelectProvedAttempt, ClaimCrashRecovery, ResolveHeldRecovery
<1>7. CASE UNCHANGED vars
  BY <1>7 DEF vars
<1> QED BY <1>1, <1>2, <1>3, <1>4, <1>5, <1>6, <1>7 DEF Next

\* A proof and an abort are final.
LEMMA ScanStands ==
  ASSUME ScansInv, [Next]_vars
  PROVE  /\ Proved => Proved'
         /\ turn = "aborted" =>
              turn' = "aborted" /\ scan'.inspect.outputs = scan.inspect.outputs
<1>1. scan.prove \in ProofStates /\ scan.inspect \in InspectionStates
  BY DEF ScansInv, RolloutTypeOK, ScanStates
<1>2. ASSUME Proved PROVE Proved'
  <2>1. scan.prove.done
    BY <1>2 DEF Proved, ProveOutcome
  <2>2. UNCHANGED scan \/ scan'.prove = scan.prove
    BY <1>1, <2>1, ScanChanges, ProveStepFacts DEF Append
  <2> QED BY <1>2, <2>2 DEF Proved
<1>3. ASSUME turn = "aborted"
      PROVE  turn' = "aborted" /\ scan'.inspect.outputs = scan.inspect.outputs
  <2>1. turn' = "aborted"
    BY <1>3, TurnChanges DEF Over
  <2>2. UNCHANGED scan \/ \E line \in Lines \ {"output"} :
                            scan'.inspect = InspectStep(scan.inspect, line)
    BY <1>3, AbortedLines DEF Append
  <2> QED BY <1>1, <2>1, <2>2, OutputsKept
<1> QED BY <1>2, <1>3

\* How the service's view of the wake changes.
ServiceSteps ==
  \/ UNCHANGED service
  \/ Observe
  \/ /\ service.wake # "completed"
     /\ \/ service' = [service EXCEPT !.wake = "queued"]
        \/ service' = [service EXCEPT !.wake = "recovering"]
  \/ /\ handed /\ scan.history.done
     /\ service' = [service EXCEPT !.wake = "completed"]
  \/ /\ pc[Me] = "postCompletion"
     /\ service.wake \in {"running", "completed"}
     /\ service' = [service EXCEPT !.wake = "completed"]
  \/ /\ pc[Me] = "postRequeue"
     /\ service.wake = "running"
     /\ service' = [service EXCEPT !.wake = "queued", !.requeue = reason]

\* It does so by the lease, the reports and the end of the wake's turn.
LEMMA ServiceChanges ==
  ASSUME [Next]_vars
  PROVE  ServiceSteps /\ (handed => handed')
<1>1. CASE \/ ServerPublish \/ ServerGone \/ HostReceive \/ HostError \/ HostContinue \/ HostAbort
           \/ HostRecordAbort \/ UserTurn \/ Crash \/ Restart
  BY <1>1 DEF ServerPublish, ServerGone, HostReceive, HostError, HostContinue, HostAbort,
     HostRecordAbort, UserTurn, HostLine, Crash, Restart, ServiceSteps
<1>2. CASE LapseLease
  BY <1>2 DEF LapseLease, ServiceSteps
<1>7. CASE WakeTurn
  BY <1>7 DEF WakeTurn, ServiceSteps
<1>3. CASE Hook
  BY <1>3 DEF Hook, HookStart, ClaimStep, ResolveConsumed, ResolvePending, Consume,
     HookReturned, HookObserve, HookProbe, HookEnd, ServiceSteps
<1>4. CASE Recovery
  BY <1>4 DEF Recovery, SelectProvedAttempt, ClaimCrashRecovery, ResolveHeldRecovery,
     ServiceSteps
<1>5. CASE Certifier
  <2>1. UNCHANGED handed
    BY <1>5 DEF Certifier, ClaimStep, ResolveConsumed, ResolvePending, Consume, world
  <2>2. CASE UNCHANGED service
    BY <2>1, <2>2 DEF ServiceSteps
  <2>3. CASE PostRequeue \/ PostCompletion \/ PostObservation \/ LostReply
    BY <2>1, <2>3 DEF PostRequeue, PostCompletion, PostObservation, LostReply, ServiceSteps, At
  <2> QED BY <1>5, <2>2, <2>3 DEF Certifier, ClaimStep, ResolveConsumed, ResolvePending,
       Consume
<1>6. CASE UNCHANGED vars
  BY <1>6 DEF vars, ServiceSteps
<1> QED BY <1>1, <1>2, <1>3, <1>4, <1>5, <1>6, <1>7 DEF Next

\* What was reported is true, and a completed wake stays completed.
LEMMA ServiceInvNext ==
  ASSUME ScansInv, TypeOK, ServiceInv, CertifierInv, [Next]_vars
  PROVE  /\ ServiceInv'
         /\ service.wake = "completed" => service'.wake = "completed"
<1>0. service \in [wake : {"leased", "queued", "running", "recovering", "completed"},
                   observed : BOOLEAN, requeue : {"no"} \cup Requeues]
  BY DEF TypeOK
<1>1. /\ Proved => Proved'
      /\ turn = "aborted" =>
           turn' = "aborted" /\ scan'.inspect.outputs = scan.inspect.outputs
      /\ handed => handed'
  BY ScanStands, ServiceChanges
<1>2. CASE UNCHANGED service
  BY <1>1, <1>2 DEF ServiceInv, Cut
<1>3. CASE Observe
  BY <1>0, <1>1, <1>3 DEF ServiceInv, Cut, Observe
<1>4. CASE /\ service.wake # "completed"
           /\ \/ service' = [service EXCEPT !.wake = "queued"]
              \/ service' = [service EXCEPT !.wake = "recovering"]
  BY <1>0, <1>1, <1>4 DEF ServiceInv, Cut
<1>5. CASE /\ handed /\ scan.history.done
           /\ service' = [service EXCEPT !.wake = "completed"]
  BY <1>0, <1>1, <1>5 DEF ServiceInv, Cut
<1>6. CASE /\ pc[Me] = "postCompletion"
           /\ service.wake \in {"running", "completed"}
           /\ service' = [service EXCEPT !.wake = "completed"]
  <2>1. Proved
    BY <1>6 DEF CertifierInv, Completing
  <2> QED BY <1>0, <1>1, <1>6, <2>1 DEF ServiceInv, Cut
<1>7. CASE /\ pc[Me] = "postRequeue"
           /\ service.wake = "running"
           /\ service' = [service EXCEPT !.wake = "queued", !.requeue = reason]
  <2>1. Cut(reason)
    BY <1>7 DEF CertifierInv
  <2>2. service'.requeue = reason /\ service'.wake = "queued"
    BY <1>0, <1>7
  <2>3. /\ turn' = "aborted"
        /\ scan'.inspect.outputs = IF reason = "tool_result_not_persisted" THEN 0 ELSE 1
    BY <1>1, <2>1 DEF Cut
  <2> QED BY <1>7, <2>2, <2>3 DEF ServiceInv, Cut
<1> QED BY <1>2, <1>3, <1>4, <1>5, <1>6, <1>7, ServiceChanges DEF ServiceSteps

\* What an inspection shows of an aborted turn is what became of the result.
LEMMA InspectionCut ==
  ASSUME ScansInv, AbortInv, "abortReceipt" \in disk, NEW tail,
         Inspection(tail) \in AbortedInspections
  PROVE  Cut(Requeue(Inspection(tail)))
<1>1. /\ scan.inspect.outputs \in 0..2
      /\ scan.inspect.terminal \in {"none", "aborted", "complete"}
  BY DEF ScansInv, RolloutTypeOK, ScanStates, InspectionStates, OriginEnds
<1>2. turn = "aborted"
  BY DEF AbortInv
<1>3. CASE Inspection(tail) = "origin_aborted_before_result"
  <2>1. scan.inspect.outputs = 0
    BY <1>1, <1>3 DEF Inspection, InspectOutcome
  <2> QED BY <1>2, <1>3, <2>1 DEF Cut, Requeue
<1>4. CASE Inspection(tail) = "tool_result_then_aborted"
  <2>1. scan.inspect.outputs = 1
    BY <1>1, <1>4 DEF Inspection, InspectOutcome
  <2> QED BY <1>2, <1>4, <2>1 DEF Cut, Requeue
<1> QED BY <1>3, <1>4 DEF AbortedInspections

\* A wake certified as recovered was completed by the dispatcher's turn.
LEMMA RecoveredCertified ==
  ASSUME TypeOK, TurnInv, ServiceInv, "recovered" \in Classifications
  PROVE  Recovered
<1>1. service.requeue \in {"no"} \cup Requeues /\ handed \in BOOLEAN
  BY DEF TypeOK
<1>2. service.requeue = "tool_result_not_persisted" /\ service.wake = "completed"
  BY <1>1 DEF Classifications, Requeues
<1>3. turn = "aborted"
  BY <1>2 DEF ServiceInv, Cut
<1>4. ~Proved
  BY <1>3 DEF Proved, ProveOutcome, TurnInv
<1> QED BY <1>1, <1>2, <1>4 DEF ServiceInv, Recovered

\* How the certifier comes to its reports and to the terminal.
CertifierMoves ==
  /\ "completion" \in disk => "completion" \in disk'
  /\ pc'[Me] = "postRequeue" =>
       (pc[Me] = "postRequeue" /\ UNCHANGED reason) \/ Cut(reason')
  /\ pc'[Me] \in Completing => pc[Me] \in Completing \/ Proved
  /\ pc'[Me] = "publishCompletion" \/ "completion" \in disk' =>
       \/ pc[Me] = "publishCompletion" \/ "completion" \in disk
       \/ service.wake = "completed" /\ pc[Me] \in Completing
  /\ remote' = "recovered" => remote = "recovered" \/ "recovered" \in Classifications
  /\ pc'[Me] = "terminal" =>
       pc[Me] = "terminal" \/ "completion" \in disk' \/ remote' = "recovered"
  /\ \/ UNCHANGED closed
     \/ /\ pc[Me] = "terminal" /\ UNCHANGED disk
        /\ closed' = IF "completion" \in disk
                     THEN "completion_posted" ELSE "crash_recovery_completed"

\* A step that takes the certifier nowhere near them.
LEMMA MovesFrame ==
  ASSUME "completion" \in disk' <=> "completion" \in disk,
         \/ pc'[Me] = pc[Me] /\ UNCHANGED reason
         \/ pc'[Me] \notin Completing \cup {"postRequeue", "terminal"},
         UNCHANGED <<closed, remote>>
  PROVE  CertifierMoves
BY DEF CertifierMoves, Completing

\* The certifier's own steps,
LEMMA CertifierMovesOwn ==
  ASSUME ScansInv, PcTypeOK, AbortInv, Certifier
  PROVE  CertifierMoves
<1> DEFINE Frame == UNCHANGED <<world, claim, read>>
<1>1. CASE ClaimStep(Me)
  BY <1>1, MovesFrame DEF ClaimStep, ResolveConsumed, ResolvePending, Consume, ConsumeResolve,
     Tombstone, Unlink, Throw, Goto, Die, Me, records, memory, PcTypeOK, Processes, Completing
<1>2. CASE /\ \/ PassBegin \/ ProveAbort \/ ReadDelivery \/ PostRequeue \/ PostObservation
              \/ Spent \/ Archive \/ LostReply
           /\ UNCHANGED <<closed, remote, disk, reason>>
  BY <1>2, MovesFrame DEF PassBegin, ProveAbort, ReadDelivery, PostRequeue, PostObservation, Spent,
     Archive, LostReply, Goto, Die, Me, PcTypeOK, Processes, Completing
<1>3. CASE (PublishAbort \/ PublishReturned) /\ UNCHANGED <<closed, remote>>
  BY <1>3, MovesFrame DEF PublishAbort, PublishReturned, Publish, Goto, Me, PcTypeOK, Processes,
     Completing
<1>4. CASE (CertifyMissing \/ Certify) /\ UNCHANGED <<closed, disk, reason>>
  <2>1. /\ remote' = remote \/ remote' \in Classifications
        /\ pc'[Me] \notin Completing \cup {"postRequeue"}
        /\ pc'[Me] = "terminal" => remote' = "recovered"
    BY <1>4 DEF CertifyMissing, Certify, Goto, Die, Me, PcTypeOK, Processes, Completing
  <2> QED BY <1>4, <2>1 DEF CertifierMoves, Completing
<1>5. CASE Resolved /\ UNCHANGED <<closed, remote, disk, reason>>
  <2>1. /\ pc'[Me] \notin Completing \cup {"postRequeue"}
        /\ pc'[Me] = "terminal" => remote = "recovered"
    BY <1>5 DEF Resolved, Goto, Die, Me, PcTypeOK, Processes, Completing
  <2> QED BY <1>5, <2>1 DEF CertifierMoves, Completing
<1>6. CASE (PostCompletion \/ CertifyCompletion) /\ UNCHANGED <<closed, remote, disk, reason>>
  <2>1. \/ pc'[Me] = "down"
        \/ pc[Me] = "postCompletion" /\ pc'[Me] = "certifyCompletion"
        \/ /\ pc[Me] = "certifyCompletion" /\ pc'[Me] = "publishCompletion"
           /\ service.wake = "completed"
    BY <1>6 DEF PostCompletion, CertifyCompletion, At, Goto, Die, Me, PcTypeOK, Processes
  <2> QED BY <1>6, <2>1 DEF CertifierMoves, Completing
<1>7. CASE PublishCompletion /\ UNCHANGED <<closed, remote, reason>>
  <2>1. /\ pc[Me] = "publishCompletion" /\ pc'[Me] = "terminal"
        /\ "completion" \in disk'
    BY <1>7 DEF PublishCompletion, Publish, At, Goto, Me, PcTypeOK, Processes
  <2> QED BY <1>7, <2>1 DEF CertifierMoves, Completing
<1>8. CASE PublishTerminal /\ UNCHANGED <<disk, remote, reason>>
  <2>1. pc[Me] = "terminal" /\ pc'[Me] = "archive"
    BY <1>8 DEF PublishTerminal, At, Goto, Me, PcTypeOK, Processes
  <2> QED BY <1>8, <2>1 DEF CertifierMoves, Completing, PublishTerminal
<1>9. CASE InspectMissing /\ UNCHANGED <<closed, remote, disk>>
  <2>1. PICK tail \in Tails :
          LET verdict == MissingVerdict(Inspection(tail))
          IN Follow(verdict, Inspection(tail),
                    CASE verdict = "publish" -> "publishReturned"
                      [] verdict = "requeue" -> "postRequeue"
                      [] OTHER               -> "idle")
    BY <1>9 DEF InspectMissing
  <2>2. CASE MissingVerdict(Inspection(tail)) = "requeue"
    <3>1. Inspection(tail) \in AbortedInspections /\ "abortReceipt" \in disk
      BY <2>2 DEF MissingVerdict, AbortedInspections
    <3>2. pc'[Me] = "postRequeue" /\ reason' = Requeue(Inspection(tail))
      BY <2>1, <2>2 DEF Follow, Goto, Me, PcTypeOK, Processes
    <3>3. Cut(reason')
      BY <3>1, <3>2, InspectionCut
    <3> QED BY <1>9, <3>2, <3>3 DEF CertifierMoves, Completing
  <2>3. CASE MissingVerdict(Inspection(tail)) # "requeue"
    <3>1. pc'[Me] \in {"down", "idle", "publishReturned"}
      BY <2>1, <2>3 DEF Follow, Goto, Die, Me, PcTypeOK, Processes
    <3> QED BY <1>9, <3>1, MovesFrame DEF Completing
  <2> QED BY <2>2, <2>3
<1>10. CASE InspectContinuation /\ UNCHANGED <<closed, remote, disk>>
  <2>1. PICK tail \in Tails :
          LET verdict == ContinuationVerdict(Inspection(tail))
          IN Follow(verdict, Inspection(tail),
                    IF verdict = "requeue" THEN "postRequeue" ELSE "idle")
    BY <1>10 DEF InspectContinuation
  <2>2. CASE ContinuationVerdict(Inspection(tail)) = "requeue"
    <3>1. Inspection(tail) \in AbortedInspections /\ "abortReceipt" \in disk
      BY <2>2 DEF ContinuationVerdict
    <3>2. pc'[Me] = "postRequeue" /\ reason' = Requeue(Inspection(tail))
      BY <2>1, <2>2 DEF Follow, Goto, Me, PcTypeOK, Processes
    <3>3. Cut(reason')
      BY <3>1, <3>2, InspectionCut
    <3> QED BY <1>10, <3>2, <3>3 DEF CertifierMoves, Completing
  <2>3. CASE ContinuationVerdict(Inspection(tail)) # "requeue"
    <3>1. pc'[Me] \in {"down", "idle"}
      BY <2>1, <2>3 DEF Follow, Goto, Die, Me, PcTypeOK, Processes
    <3> QED BY <1>10, <3>1, MovesFrame DEF Completing
  <2> QED BY <2>2, <2>3
<1>11. CASE ProveContinuation /\ UNCHANGED <<closed, remote, disk, reason>>
  <2>1. \/ pc'[Me] = "terminal" /\ "completion" \in disk
        \/ pc'[Me] = "postCompletion" /\ Proved
        \/ pc'[Me] \in {"down", "inspectContinuation"}
    BY <1>11 DEF ProveContinuation, Goto, Die, Me, PcTypeOK, Processes
  <2> QED BY <1>11, <2>1 DEF CertifierMoves, Completing
<1> QED BY <1>1, <1>2, <1>3, <1>4, <1>5, <1>6, <1>7, <1>8, <1>9, <1>10, <1>11
    DEF Certifier, records

\* and everyone else's.
LEMMA CertifierMoved ==
  ASSUME ScansInv, PcTypeOK, AbortInv, [Next]_vars
  PROVE  CertifierMoves
<1>1. CASE \/ ServerGone \/ HostReceive \/ HostError \/ HostContinue \/ HostAbort \/ HostRecordAbort
           \/ UserTurn \/ LapseLease \/ WakeTurn \/ Crash \/ Restart
  BY <1>1, MovesFrame DEF ServerGone, HostReceive, HostError, HostContinue, HostAbort,
     HostRecordAbort, UserTurn, LapseLease, HostLine, WakeTurn, Crash, Restart, records, memory,
     Goto, Me, PcTypeOK, Processes, Completing
<1>2. CASE ServerPublish \/ HookReturned
  BY <1>2, MovesFrame DEF ServerPublish, HookReturned, Publish, memory, Goto, Me, PcTypeOK,
     Processes
<1>3. CASE HookStart \/ HookObserve \/ HookProbe \/ HookEnd
  BY <1>3, MovesFrame DEF HookStart, HookObserve, HookProbe, HookEnd, records, memory, Goto, Me,
     PcTypeOK, Processes
<1>4. CASE ClaimStep("hook")
  BY <1>4, MovesFrame DEF ClaimStep, ResolveConsumed, ResolvePending, Consume, ConsumeResolve,
     Tombstone, Unlink, Throw, Goto, Me, records, memory, PcTypeOK, Processes
<1>5. CASE Recovery
  BY <1>5, MovesFrame DEF Recovery, SelectProvedAttempt, ClaimCrashRecovery,
     ResolveHeldRecovery, records, memory, Goto, Die, Me, PcTypeOK, Processes, Completing
<1>6. CASE UNCHANGED vars
  BY <1>6, MovesFrame DEF vars, records, memory
<1> QED BY <1>1, <1>2, <1>3, <1>4, <1>5, <1>6, CertifierMovesOwn DEF Next, Hook

\* So the certifier always reports on grounds that stand.
LEMMA CertifierInvNext ==
  ASSUME ScansInv, TypeOK, TurnInv, AbortInv, ServiceInv, CertifierInv, [Next]_vars
  PROVE  CertifierInv'
<1>1. /\ Proved => Proved'
      /\ turn = "aborted" =>
           turn' = "aborted" /\ scan'.inspect.outputs = scan.inspect.outputs
      /\ service.wake = "completed" => service'.wake = "completed"
      /\ Recovered => Recovered'
  BY ScanStands, ServiceChanges, ServiceInvNext DEF Recovered
<1>2. CertifierMoves
  BY CertifierMoved DEF TypeOK
<1>3. pc'[Me] = "postRequeue" => Cut(reason)'
  BY <1>1, <1>2 DEF CertifierMoves, CertifierInv, Cut
<1>4. /\ pc'[Me] \in Completing => Proved'
      /\ pc'[Me] = "publishCompletion" \/ "completion" \in disk' =>
           service'.wake = "completed" /\ Proved'
  BY <1>1, <1>2 DEF CertifierMoves, CertifierInv
<1>5. remote' = "recovered" => Recovered'
  BY <1>1, <1>2, RecoveredCertified DEF CertifierMoves, CertifierInv
<1>6. pc'[Me] = "terminal" => "completion" \in disk' \/ Recovered'
  BY <1>1, <1>2, <1>5 DEF CertifierMoves, CertifierInv
<1>7. /\ closed' = "completion_posted" => "completion" \in disk'
      /\ closed' = "crash_recovery_completed" => Recovered'
  BY <1>1, <1>2 DEF CertifierMoves, CertifierInv
<1> QED BY <1>3, <1>4, <1>5, <1>6, <1>7 DEF CertifierInv

\* All that the reports rest on.
ReportInv == ScansInv /\ TurnInv /\ AbortInv /\ ServiceInv /\ CertifierInv

\* All of it holds before anything happened,
LEMMA ReportInvStart == Init => ReportInv
BY ScansInvStart DEF Init, ReportInv, TurnInv, AbortInv, ServiceInv, CertifierInv, Completing,
   ScanStart, ProveStart, PreflightStart, At, Me, Processes

\* and after every step.
LEMMA ReportInvNext ==
  ASSUME TypeOK, ReportInv, [Next]_vars
  PROVE  ReportInv'
BY ScansInvNext, TurnInvNext, AbortInvNext, ServiceInvNext, CertifierInvNext DEF TypeOK, ReportInv

\* The service is told what became of the call, and the request is closed as
\* the wake was completed.
THEOREM ReportsAgree == Spec => []ReportsAreTrue
<1>1. TypeOK /\ ReportInv => ReportsAreTrue
  <2> SUFFICES ASSUME TypeOK, ReportInv PROVE ReportsAreTrue
    OBVIOUS
  <2> USE DEF ReportInv
  <2>1. "completion" \in disk => ~handed
    BY DEF CertifierInv, AbortInv, TurnInv, Proved, ProveOutcome
  <2> QED BY <2>1 DEF ServiceInv, CertifierInv, Recovered, Cut, ReportsAreTrue
<1> QED BY <1>1, ReportInvStart, ReportInvNext, DeliveryTypeCorrect, PTL DEF Spec

-----------------------------------------------------------------------------
(* The wake's turn is adjacent *)

\* As long as the preflight finds nothing wrong, the history is as clean.
Twin(f, h) ==
  ~f.failed /\ ~f.dirty =>
    h = [terminal |-> f.terminal, wake |-> FALSE, dirty |-> FALSE,
         late |-> FALSE, done |-> FALSE, failed |-> FALSE]

\* The wake's turn is the dispatcher's, and nothing came before it or into it.
WakeTurnInv ==
  LET h == scan.history
  IN  /\ h.done => h.wake
      /\ h.wake => /\ handed /\ ~OriginAborted(FALSE)
                   /\ ~h.failed /\ ~h.late /\ ~h.dirty

\* A call leaves the spool only after a certified end.
SpoolInv ==
  /\ pc[Me] = "archive" \/ archived => closed # "none"
  /\ service.wake = "completed" /\ turn = "aborted" => scan.history.done

AdjacencyInv == Twin(scan.preflight, scan.history) /\ WakeTurnInv /\ SpoolInv

\* The two scanners take the same steps until something is wrong.
LEMMA TwinStep ==
  ASSUME NEW f \in PreflightStates, NEW h \in HistoryStates, NEW line \in Lines, Twin(f, h)
  PROVE  Twin(PreflightStep(f, line), HistoryStep(h, line))
<1> DEFINE g == PreflightStep(f, line)
<1> SUFFICES ASSUME ~g.failed, ~g.dirty
             PROVE  HistoryStep(h, line) =
                      [terminal |-> g.terminal, wake |-> FALSE, dirty |-> FALSE,
                       late |-> FALSE, done |-> FALSE, failed |-> FALSE]
  BY DEF Twin
<1>1. ~f.failed
  BY DEF PreflightStep
<1>2. CASE OriginTerminal(line)
  <2>1. f.terminal = "none" /\ g = [f EXCEPT !.terminal = line]
    BY <1>1, <1>2 DEF PreflightStep, Ends, Fail, PreflightStates
  <2>2. ~f.dirty /\ g.terminal = line
    BY <2>1 DEF PreflightStates
  <2>3. h = [terminal |-> "none", wake |-> FALSE, dirty |-> FALSE,
             late |-> FALSE, done |-> FALSE, failed |-> FALSE]
    BY <1>1, <2>1, <2>2 DEF Twin
  <2>4. ~h.failed /\ ~h.done /\ ~h.wake /\ h.terminal = "none"
    BY <2>3
  <2>5. HistoryStep(h, line) = [h EXCEPT !.terminal = line]
    BY <1>2, <2>4 DEF HistoryStep, Ends, OriginTerminal, OriginEnds
  <2> HIDE DEF g
  <2> QED BY <2>2, <2>3, <2>5
<1>3. CASE OtherTerminal(line)
  BY <1>1, <1>3 DEF PreflightStep, Fail, PreflightStates, OriginTerminal, OtherTerminal, OriginEnds
<1>4. CASE ~OriginTerminal(line) /\ ~OtherTerminal(line)
  <2>1. g = [f EXCEPT !.dirty = \/ @ \/ Contaminates(line)
                                \/ f.terminal # "none" /\ line # "token"]
    BY <1>1, <1>4 DEF PreflightStep
  <2>2. ~f.dirty /\ ~Contaminates(line) /\ (f.terminal = "none" \/ line = "token")
    BY <2>1 DEF PreflightStates, Contaminates, TurnContexts
  <2>3. g.terminal = f.terminal
    BY <2>1 DEF PreflightStates
  <2>4. h = [terminal |-> f.terminal, wake |-> FALSE, dirty |-> FALSE,
             late |-> FALSE, done |-> FALSE, failed |-> FALSE]
    BY <1>1, <2>2 DEF Twin
  <2>5. ~h.failed /\ ~h.done /\ ~h.wake /\ ~h.dirty /\ h.terminal = f.terminal
    BY <2>4
  <2>6. HistoryStep(h, line) = [h EXCEPT !.dirty = FALSE]
    BY <1>4, <2>2, <2>5
       DEF HistoryStep, OriginTerminal, OtherTerminal, Contaminates, TurnContexts
  <2> HIDE DEF g
  <2> QED BY <2>3, <2>4, <2>6
<1> QED BY <1>2, <1>3, <1>4

\* What is appended when.
LEMMA WakeLines ==
  ASSUME [Next]_vars
  PROVE  \/ UNCHANGED scan
         \/ Append("wakeTurn") /\ handed /\ OriginAborted(FALSE)
         \/ Append("wakeEnd") /\ scan.history.wake
         \/ Append("otherTurn") /\ archived
         \/ /\ turn # "aborted"
            /\ \E line \in Lines \ {"wakeTurn", "wakeEnd"} : Append(line)
<1>1. CASE HostReceive \/ HostError \/ HostContinue \/ HostRecordAbort \/ UserTurn
  BY <1>1 DEF HostReceive, HostError, HostContinue, HostRecordAbort, UserTurn, HostLine, Guarded,
     Live, Lines, OriginEnds, OtherLines
<1>2. CASE WakeTurn
  BY <1>2 DEF WakeTurn
<1>3. CASE ServerPublish \/ ServerGone \/ HostAbort \/ LapseLease \/ Crash \/ Restart
  BY <1>3 DEF ServerPublish, ServerGone, HostAbort, LapseLease, Crash, Restart
<1>4. CASE Hook
  BY <1>4 DEF Hook, HookStart, ClaimStep, ResolveConsumed, ResolvePending, Consume,
     HookReturned, HookObserve, HookProbe, HookEnd
<1>5. CASE Certifier
  BY <1>5 DEF Certifier, ClaimStep, ResolveConsumed, ResolvePending, Consume, world
<1>6. CASE Recovery
  BY <1>6 DEF Recovery, SelectProvedAttempt, ClaimCrashRecovery, ResolveHeldRecovery
<1>7. CASE UNCHANGED vars
  BY <1>7 DEF vars
<1> QED BY <1>1, <1>2, <1>3, <1>4, <1>5, <1>6, <1>7 DEF Next

\* The wake's turn begins in a clean history, and nobody gets into it.
LEMMA WakeTurnInvNext ==
  ASSUME ScansInv, TypeOK, TurnInv, AbortInv, CertifierInv, AdjacencyInv, [Next]_vars
  PROVE  WakeTurnInv' /\ (scan.history.done => scan'.history.done)
<1> DEFINE f == scan.preflight
           h == scan.history
<1>0. /\ f \in PreflightStates /\ h \in HistoryStates
      /\ handed => handed'
      /\ handed => turn = "aborted"
  BY ServiceChanges DEF ScansInv, RolloutTypeOK, ScanStates, AbortInv
<1>1. CASE UNCHANGED scan
  BY <1>0, <1>1 DEF AdjacencyInv, WakeTurnInv, OriginAborted
<1>2. CASE Append("wakeTurn") /\ handed /\ OriginAborted(FALSE)
  <2>1. ~f.failed /\ ~f.dirty /\ f.terminal = "aborted"
    BY <1>2 DEF OriginAborted, PreflightOutcome
  <2>2. h = [terminal |-> "aborted", wake |-> FALSE, dirty |-> FALSE,
             late |-> FALSE, done |-> FALSE, failed |-> FALSE]
    BY <2>1 DEF AdjacencyInv, Twin
  <2>3. scan'.history = [h EXCEPT !.wake = TRUE]
    BY <1>2, <2>2 DEF Append, HistoryStep, OriginTerminal, OriginEnds
  <2>4. scan'.preflight.dirty
    BY <1>0, <1>2, <2>1 DEF Append, PreflightStep, PreflightStates, OriginTerminal,
       OtherTerminal, OriginEnds, Contaminates, TurnContexts
  <2>5. ~OriginAborted(FALSE)'
    BY <2>4 DEF OriginAborted, PreflightOutcome
  <2>6. /\ ~h.failed /\ ~h.late /\ ~h.dirty /\ ~h.done
        /\ scan'.history.failed = h.failed /\ scan'.history.late = h.late
        /\ scan'.history.dirty = h.dirty /\ scan'.history.done = h.done
        /\ scan'.history.wake
    BY <2>2, <2>3
  <2> QED BY <1>0, <1>2, <2>5, <2>6 DEF WakeTurnInv
<1>3. CASE Append("wakeEnd") /\ h.wake
  <2>1. scan'.history = h \/ scan'.history = [h EXCEPT !.done = TRUE]
    BY <1>3 DEF Append, HistoryStep, OriginTerminal, OriginEnds
  <2>2. scan'.preflight.failed
    BY <1>0, <1>3 DEF Append, PreflightStep, PreflightStates, Fail, OriginTerminal,
       OtherTerminal, OriginEnds
  <2>3. ~OriginAborted(FALSE)'
    BY <2>2 DEF OriginAborted, PreflightOutcome
  <2> QED BY <1>0, <1>3, <2>1, <2>3 DEF AdjacencyInv, WakeTurnInv, HistoryStates
<1>4. CASE Append("otherTurn") /\ archived
  <2>1. h.done \/ ~h.wake
    <3>1. closed \in {"completion_posted", "crash_recovery_completed"}
      BY <1>4 DEF TypeOK, AdjacencyInv, SpoolInv
    <3>2. CASE closed = "completion_posted"
      BY <1>0, <3>2 DEF CertifierInv, Proved, ProveOutcome, TurnInv, AdjacencyInv, WakeTurnInv
    <3>3. CASE closed = "crash_recovery_completed"
      BY <1>0, <3>3 DEF CertifierInv, Recovered, AdjacencyInv, SpoolInv
    <3> QED BY <3>1, <3>2, <3>3
  <2>2. CASE h.done
    <3>1. scan'.history = h
      BY <1>4, <2>2 DEF Append, HistoryStep
    <3>2. ~OriginAborted(FALSE)'
      BY <1>0, <1>4, <2>2 DEF AdjacencyInv, WakeTurnInv, OriginAborted, PreflightOutcome, Append,
         PreflightStep, PreflightStates, OriginTerminal, OtherTerminal, OriginEnds,
         Contaminates, TurnContexts
    <3> QED BY <1>0, <2>2, <3>1, <3>2 DEF AdjacencyInv, WakeTurnInv
  <2>3. CASE ~h.wake /\ ~h.done
    <3>1. ~scan'.history.wake /\ ~scan'.history.done
      BY <1>0, <1>4, <2>3 DEF Append, HistoryStep, HistoryStates, OriginTerminal, OriginEnds
    <3> QED BY <2>3, <3>1 DEF WakeTurnInv
  <2> QED BY <2>1, <2>2, <2>3
<1>5. ASSUME turn # "aborted", NEW line \in Lines \ {"wakeTurn", "wakeEnd"}, Append(line)
      PROVE  WakeTurnInv' /\ (h.done => scan'.history.done)
  <2>1. ~h.wake /\ ~h.done
    BY <1>0, <1>5 DEF AdjacencyInv, WakeTurnInv
  <2>2. ~scan'.history.wake /\ ~scan'.history.done
    BY <1>0, <1>5, <2>1 DEF Append, HistoryStep, HistoryStates, Fail, Ends
  <2> QED BY <2>1, <2>2 DEF WakeTurnInv
<1> QED BY <1>1, <1>2, <1>3, <1>4, <1>5, WakeLines

\* The certifier archives a request it has closed.
LEMMA SpoolMoves ==
  ASSUME PcTypeOK, [Next]_vars
  PROVE  /\ pc'[Me] = "archive" => pc[Me] = "archive" \/ closed' # "none"
         /\ archived' => archived \/ pc[Me] = "archive"
<1>1. CASE \/ ServerPublish \/ ServerGone \/ HostReceive \/ HostError \/ HostContinue \/ HostAbort
           \/ HostRecordAbort \/ UserTurn \/ LapseLease \/ WakeTurn \/ Crash \/ Restart
  <2>1. CASE ServerPublish \/ ServerGone
    BY <2>1 DEF ServerPublish, ServerGone, records, Goto, Me, PcTypeOK, Processes
  <2>2. CASE HostReceive \/ HostError \/ HostAbort
    BY <2>2 DEF HostReceive, HostError, HostAbort, HostLine, records, Goto, Me, PcTypeOK, Processes
  <2>3. CASE HostContinue \/ HostRecordAbort
    BY <2>3 DEF HostContinue, HostRecordAbort, HostLine, records, Me
  <2>4. CASE UserTurn \/ LapseLease \/ WakeTurn
    <3>1. UNCHANGED <<records, pc>>
      <4>1. CASE UserTurn
        BY <4>1 DEF UserTurn, HostLine
      <4>2. CASE LapseLease
        BY <4>2, Zenon DEF LapseLease
      <4>3. CASE WakeTurn
        BY <4>3, Zenon DEF WakeTurn
      <4> QED BY <2>4, <4>1, <4>2, <4>3
    <3> QED BY <3>1 DEF records
  <2>5. CASE Crash \/ Restart
    BY <2>5 DEF Crash, Restart, records, Goto, Me, PcTypeOK, Processes
  <2> QED BY <1>1, <2>1, <2>2, <2>3, <2>4, <2>5
<1>2. CASE HookStart \/ HookReturned \/ HookObserve \/ HookProbe \/ HookEnd
  BY <1>2 DEF HookStart, HookReturned, HookObserve, HookProbe, HookEnd, records, Goto, Me,
     PcTypeOK, Processes
<1>3. ASSUME NEW a \in ClaimUsers, ClaimStep(a)
      PROVE  UNCHANGED archived /\ (pc'[Me] = pc[Me] \/ pc'[Me] # "archive")
  BY <1>3 DEF ClaimStep, ResolveConsumed, ResolvePending, Consume, ConsumeResolve, ClaimUsers,
     Tombstone, Unlink, Throw, Goto, Die, Me, records, PcTypeOK, Processes
<1>4. CASE Recovery
  BY <1>4 DEF Recovery, SelectProvedAttempt, ClaimCrashRecovery, ResolveHeldRecovery, records,
     Goto, Die, Me, PcTypeOK, Processes
<1>5. CASE PublishTerminal /\ UNCHANGED archived
  BY <1>5 DEF PublishTerminal
<1>6. CASE Archive
  BY <1>6 DEF Archive, At, Goto, Me, PcTypeOK, Processes
<1>7. CASE (InspectMissing \/ InspectContinuation) /\ UNCHANGED archived
  <2>1. PICK verdict, state, next : Follow(verdict, state, next) /\ next # "archive"
    BY <1>7 DEF InspectMissing, InspectContinuation
  <2> QED BY <1>7, <2>1 DEF Follow, Goto, Die, Me, PcTypeOK, Processes
<1>8. CASE /\ \/ PassBegin \/ ProveAbort \/ PublishAbort \/ ReadDelivery \/ CertifyMissing
              \/ PublishReturned \/ PostRequeue \/ Certify \/ Resolved \/ PostObservation
              \/ Spent \/ ProveContinuation \/ PostCompletion \/ CertifyCompletion
              \/ PublishCompletion \/ LostReply
           /\ UNCHANGED archived
  <2>1. pc'[Me] # "archive"
    BY <1>8 DEF PassBegin, ProveAbort, PublishAbort, ReadDelivery, CertifyMissing,
       PublishReturned, PostRequeue, Certify, Resolved, PostObservation, Spent, ProveContinuation,
       PostCompletion, CertifyCompletion, PublishCompletion, LostReply, Goto, Die, Me, PcTypeOK,
       Processes
  <2> QED BY <1>8, <2>1
<1>9. CASE UNCHANGED vars
  BY <1>9 DEF vars, records
<1>10. CASE Certifier
  BY <1>3, <1>5, <1>6, <1>7, <1>8, <1>10 DEF Certifier, ClaimUsers, Me, records
<1>11. CASE Hook
  BY <1>2, <1>3, <1>11 DEF Hook, ClaimUsers
<1> QED BY <1>1, <1>4, <1>9, <1>10, <1>11 DEF Next

\* Every request archived was closed, and every recovery closed had its turn.
LEMMA SpoolInvNext ==
  ASSUME ScansInv, TypeOK, TurnInv, AbortInv, ServiceInv, CertifierInv, AdjacencyInv, [Next]_vars
  PROVE  SpoolInv'
<1>1. closed # "none" => closed' # "none"
  BY CertifierMoved DEF TypeOK, CertifierMoves
<1>2. pc'[Me] = "archive" \/ archived' => closed' # "none"
  BY <1>1, SpoolMoves DEF TypeOK, AdjacencyInv, SpoolInv
<1>3. ASSUME service'.wake = "completed", turn' = "aborted" PROVE scan'.history.done
  <2>1. scan.history.done => scan'.history.done
    BY WakeTurnInvNext
  <2>2. Proved => turn = "completed"
    BY DEF Proved, ProveOutcome, TurnInv
  <2>3. turn # "completed"
    BY <1>3, TurnChanges DEF Over, Completions
  <2>4. CASE service.wake = "completed"
    <3>1. handed
      BY <2>2, <2>3, <2>4 DEF ServiceInv
    <3>2. turn = "aborted"
      BY <3>1 DEF AbortInv
    <3> QED BY <2>1, <2>4, <3>2 DEF AdjacencyInv, SpoolInv
  <2>5. CASE service.wake # "completed"
    <3>1. pc[Me] # "postCompletion"
      BY <2>2, <2>3 DEF CertifierInv, Completing
    <3>2. handed /\ scan.history.done
      BY <1>3, <2>5, <3>1, ServiceChanges DEF TypeOK, ServiceSteps, Observe
    <3> QED BY <2>1, <3>2
  <2> QED BY <2>4, <2>5
<1> QED BY <1>2, <1>3 DEF SpoolInv

\* Before anything happened the history is clean,
LEMMA AdjacencyInvStart == Init => AdjacencyInv
<1> SUFFICES ASSUME Init PROVE AdjacencyInv
  OBVIOUS
<1>1. Twin(scan.preflight, scan.history)
  BY DEF Init, ScanStart, PreflightStart, HistoryStart, Twin
<1>2. WakeTurnInv /\ SpoolInv
  BY DEF Init, ScanStart, HistoryStart, WakeTurnInv, SpoolInv, Me, Processes
<1> QED BY <1>1, <1>2 DEF AdjacencyInv

\* and every step keeps it as clean as the reports need it.
LEMMA AdjacencyInvNext ==
  ASSUME TypeOK, ReportInv, AdjacencyInv, [Next]_vars
  PROVE  AdjacencyInv'
<1>1. Twin(scan.preflight, scan.history)'
  <2>1. scan.preflight \in PreflightStates /\ scan.history \in HistoryStates
    BY DEF ReportInv, ScansInv, RolloutTypeOK, ScanStates
  <2>2. CASE UNCHANGED scan
    BY <2>2 DEF AdjacencyInv, Twin
  <2>3. ASSUME NEW line \in Lines, Append(line) PROVE Twin(scan.preflight, scan.history)'
    <3>1. Twin(PreflightStep(scan.preflight, line), HistoryStep(scan.history, line))
      BY <2>1, TwinStep DEF AdjacencyInv
    <3> QED BY <2>3, <3>1 DEF Append, Twin
  <2> QED BY <2>2, <2>3, ScanChanges
<1>2. WakeTurnInv' /\ SpoolInv'
  BY WakeTurnInvNext, SpoolInvNext DEF ReportInv
<1> QED BY <1>1, <1>2 DEF AdjacencyInv

\* A wake turn that has run can be certified: nothing of the user's came
\* between the abort of the origin turn and its end.
THEOREM WakeTurnFollowsAbort == Spec => []WakeTurnIsAdjacent
<1> DEFINE Inv == ReportInv /\ AdjacencyInv
<1>1. Init => Inv
  BY ReportInvStart, AdjacencyInvStart
<1>2. TypeOK /\ Inv /\ [Next]_vars => Inv'
  BY ReportInvNext, AdjacencyInvNext
<1>3. Inv => WakeTurnIsAdjacent
  BY DEF AdjacencyInv, WakeTurnInv, WakeTurnIsAdjacent, HistoryOutcome
<1> QED BY <1>1, <1>2, <1>3, DeliveryTypeCorrect, PTL DEF Spec

-----------------------------------------------------------------------------
(* The supervisor stops in the listed cases only *)

\* The rollout as the origin turn alone leaves it: no scanner refuses it, but
\* for the inspection between the marker of an interruption and its abort.
OwnLines ==
  LET p == scan.prove
      s == scan.inspect
      f == scan.preflight
  IN  /\ ~p.failed /\ ~s.failed /\ ~f.failed /\ ~s.other /\ ~s.changed
      /\ s.outputs \in {0, 1} /\ p.outputs = s.outputs
      /\ p.outputs = 1 => ~p.dirty /\ p.pending = "no"
      /\ f.terminal = s.terminal
      /\ s.terminal = "complete" <=> turn = "completed"
      /\ s.terminal = "aborted" <=> turn = "aborted"
      /\ s.marker \/ p.pending = "marker" => turn = "marked"
      /\ s.marker => s.outputs = 0
      /\ s.pending \/ p.pending = "end" => turn = "ended"
      /\ turn = "held" => s.outputs = 0 /\ ~s.ended /\ ~p.dropped /\ ~p.dirty
      /\ turn = "ended" => /\ s.outputs = 0 /\ s.pending
                           /\ p.pending = "end" /\ ~p.dropped /\ ~p.dirty
      /\ turn \in {"read", "answered", "completed"} => s.outputs = 1
      /\ turn = "answered" => p.answered

\* Nobody else writes before the wake is handed over or the call archived, and
\* the host's own order of lines is broken only by a dead server or an end of
\* the turn before its answer.
OwnInv ==
  handed \/ archived \/ At("server", "dead") \/ turn = "unanswered" \/ OwnLines

\* The service's view: a reported result stays with its turn until the wake
\* is handed back, and the recovery holds only a wake it has claimed.
HandbackInv ==
  /\ service.wake = "leased" => ~service.observed
  /\ service.wake \in {"leased", "running"} => service.requeue = "no"
  /\ service.observed /\ service.requeue = "no" =>
       service.wake \in {"running", "completed"} /\ ~handed
  /\ handed => service.wake \in {"recovering", "completed"}
  /\ pc["recovery"] = "resolve" => service.wake = "recovering"
  /\ pc["recovery"] \in {"claim", "resolve"} => ~handed

Resolving == {"resolve", "resolvePending", "resolved"}
Reporting ==
  Spending \cup Completing \cup {"completion", "inspectContinuation", "postRequeue"}

\* What the certifier still relies on of an answer it got earlier in the pass.
PassInv ==
  /\ pc[Me] \notin {"idle", "done", "down"} => ~archived
  /\ pc[Me] = "inspectMissing" => remote \in {"absent", "observed"}
  /\ pc[Me] \in Resolving \cup {"inspectMissing"} /\ remote \in {"absent", "observed"} =>
       service.requeue = "no"
  /\ pc[Me] \in Reporting => service.observed /\ service.requeue = "no"
  /\ pc[Me] = "certifyCompletion" => service.wake = "completed"
  /\ read[Me] = "consumed" => "consumed" \in claim

\* The origin turn's lines, as the proof of the turn reads them,
LEMMA OwnProof ==
  ASSUME NEW p \in ProofStates, ~p.failed, ~p.done, p.outputs \in {0, 1},
         p.outputs = 1 => ~p.dirty /\ p.pending = "no",
         NEW line, NEW q, q = ProveStep(p, line),
         \/ line = "callEnd" /\ p.outputs = 0 /\ p.pending = "no"
         \/ line = "output" /\ p.outputs = 0 /\ p.pending = "end" /\ ~p.dropped /\ ~p.dirty
         \/ line = "message" /\ p.outputs = 1
         \/ line = "complete" /\ p.outputs = 1 /\ p.answered
         \/ line = "marker" /\ p.pending # "marker"
         \/ line = "aborted"
  PROVE  /\ ~q.failed
         /\ q.outputs = IF line = "output" THEN 1 ELSE p.outputs
         /\ q.outputs = 1 => ~q.dirty /\ q.pending = "no"
         /\ q.pending = "end" => line = "callEnd"
         /\ q.pending = "marker" => line = "marker"
         /\ line = "message" => q.answered
         /\ line = "callEnd" => q.pending = "end" /\ q.dropped = p.dropped /\ q.dirty = p.dirty
<1>1. CASE line = "callEnd"
  <2>1. q = [p EXCEPT !.pending = "end"]
    BY <1>1 DEF ProveStep, ProveBefore
  <2> QED BY <1>1, <2>1 DEF ProofStates
<1>2. CASE line = "output"
  <2>1. q = [p EXCEPT !.pending = "no", !.outputs = 1]
    BY <1>2 DEF ProveStep, ProveBefore
  <2> QED BY <1>2, <2>1 DEF ProofStates
<1>3. CASE line \in {"message", "complete"}
  <2>1. q = IF line = "message" THEN [p EXCEPT !.answered = TRUE] ELSE [p EXCEPT !.done = TRUE]
    <3>1. p.outputs = 1 /\ (line = "complete" => p.answered)
      BY <1>3
    <3>2. q = ProveAfter(p, line)
      BY <3>1 DEF ProveStep
    <3>3. CASE line = "message"
      BY <3>2, <3>3 DEF ProveAfter, CallEnds, OtherTerminal, Contaminates, TurnContexts
    <3>4. CASE line = "complete"
      BY <3>1, <3>2, <3>4 DEF ProveAfter, CallEnds, OtherTerminal, Contaminates, TurnContexts
    <3> QED BY <1>3, <3>3, <3>4
  <2>2. q.failed = p.failed /\ q.outputs = p.outputs /\ q.dirty = p.dirty /\ q.pending = p.pending
        /\ (line = "message" => q.answered)
    BY <2>1 DEF ProofStates
  <2> QED BY <1>3, <2>2
<1>4. CASE line \in {"marker", "aborted"} /\ p.outputs = 0
  <2>1. ProveStep(p, line) = ProveBefore(p, line)
    BY <1>4 DEF ProveStep
  <2>2. CASE line = "marker" /\ p.pending # "marker"
    <3>1. q \in {[p EXCEPT !.pending = "marker"], [p EXCEPT !.dirty = TRUE]}
      BY <2>1, <2>2 DEF ProveBefore
    <3>2. p.pending = "end" => q = [p EXCEPT !.pending = "marker"]
      BY <2>1, <2>2 DEF ProveBefore
    <3> QED BY <1>4, <2>2, <3>1, <3>2 DEF ProofStates
  <2>3. CASE line = "aborted"
    <3>1. \/ q = [p EXCEPT !.pending = "no", !.dropped = TRUE]
          \/ p.pending = "no" /\ q = [p EXCEPT !.dirty = TRUE]
      BY <2>1, <2>3 DEF ProveBefore
    <3>2. /\ ~q.failed /\ q.outputs = 0 /\ (q.pending = "no")
      BY <1>4, <3>1 DEF ProofStates
    <3> QED BY <1>4, <2>3, <3>2
  <2> QED BY <1>4, <2>2, <2>3
<1>5. CASE line \in {"marker", "aborted"} /\ p.outputs = 1
  <2>1. q = p
    BY <1>5 DEF ProveStep, ProveAfter, CallEnds, OtherTerminal, Contaminates, TurnContexts
  <2> QED BY <1>5, <2>1
<1> QED BY <1>1, <1>2, <1>3, <1>4, <1>5

\* as the inspection of the call reads them,
LEMMA OwnInspection ==
  ASSUME NEW s \in InspectionStates, ~s.failed, ~s.other, ~s.changed,
         s.terminal = "none", s.outputs \in {0, 1}, s.pending => s.outputs = 0,
         NEW line \in Lines \ OtherLines, NEW t, t = InspectStep(s, line),
         \/ line = "callEnd" /\ ~s.pending /\ ~s.ended /\ ~s.marker /\ s.outputs = 0
         \/ line = "output" /\ s.pending /\ ~s.marker
         \/ line \in {"message", "complete"} /\ s.outputs = 1 /\ ~s.marker
         \/ line = "marker" /\ ~s.marker
         \/ line = "aborted" /\ (s.marker => s.outputs = 0)
  PROVE  /\ ~t.failed /\ ~t.other /\ ~t.changed
         /\ t.outputs = IF line = "output" THEN 1 ELSE s.outputs
         /\ t.terminal = IF line \in OriginEnds THEN line ELSE "none"
         /\ t.marker => line = "marker" /\ s.outputs = 0
         /\ t.pending <=> line = "callEnd"
<1> DEFINE r == [s EXCEPT !.pending = FALSE]
<1>1. /\ r \in InspectionStates /\ ~r.failed /\ ~r.other /\ ~r.changed /\ ~r.pending
      /\ r.terminal = "none" /\ r.outputs = s.outputs /\ r.marker = s.marker /\ r.ended = s.ended
  BY DEF InspectionStates
<1>2. InspectStep(s, line) = InspectLine(s, line)
  <2>1. ~NamesOtherTurn(line)
    BY DEF NamesOtherTurn
  <2>2. [s EXCEPT !.other = @ \/ NamesOtherTurn(line)] = s
    BY <2>1 DEF InspectionStates
  <2> QED BY <2>2 DEF InspectStep
<1>3. CASE line = "output"
  <2>1. t = [Flush(s) EXCEPT !.pending = FALSE, !.outputs = @ + 1]
    BY <1>2, <1>3 DEF InspectLine, InspectOutput
  <2>2. /\ Flush(s) \in InspectionStates /\ ~Flush(s).failed /\ ~Flush(s).other
        /\ ~Flush(s).changed /\ Flush(s).outputs = 0 /\ Flush(s).terminal = "none"
        /\ ~Flush(s).marker
    BY <1>3 DEF Flush, InspectionStates
  <2>3. PICK u \in InspectionStates :
          /\ t = [u EXCEPT !.outputs = 1]
          /\ ~u.failed /\ ~u.other /\ ~u.changed /\ ~u.marker /\ ~u.pending
          /\ u.terminal = "none"
    <3> DEFINE u == [Flush(s) EXCEPT !.pending = FALSE]
    <3>1. u \in InspectionStates /\ ~u.failed /\ ~u.other /\ ~u.changed /\ ~u.marker
          /\ ~u.pending /\ u.terminal = "none"
      BY <2>2 DEF InspectionStates
    <3>2. t = [u EXCEPT !.outputs = 1]
      <4> DEFINE v == Flush(s)
      <4>1. /\ v \in InspectionStates /\ v.outputs = 0
            /\ t = [v EXCEPT !.pending = FALSE, !.outputs = @ + 1]
        BY <2>1, <2>2
      <4> HIDE DEF v
      <4>2. [v EXCEPT !.pending = FALSE, !.outputs = @ + 1]
              = [[v EXCEPT !.pending = FALSE] EXCEPT !.outputs = 1]
        BY <4>1 DEF InspectionStates
      <4> USE DEF v
      <4> QED BY <4>1, <4>2
    <3> QED BY <3>1, <3>2
  <2> QED BY <1>3, <2>3 DEF InspectionStates, OriginEnds
<1>4. CASE line # "output"
  <2>1. t = IF s.outputs = 0 THEN InspectBefore(r, line) ELSE InspectAfter(r, line)
    BY <1>1, <1>2, <1>4 DEF InspectLine
  <2> HIDE DEF r
  <2>2. CASE s.outputs = 1
    <3>1. t = IF line \in OriginEnds THEN [r EXCEPT !.terminal = line] ELSE r
      BY <1>1, <2>1, <2>2 DEF InspectAfter, CallEnds, OriginTerminal, OriginEnds, Ends
    <3> QED BY <1>1, <1>4, <2>2, <3>1 DEF InspectionStates, OriginEnds
  <2>3. CASE line = "callEnd"
    BY <1>1, <2>1, <2>3 DEF InspectBefore, InspectionStates, OriginEnds
  <2>4. CASE line = "marker" /\ s.outputs = 0
    <3>1. t = [Flush(r) EXCEPT !.marker = TRUE]
      BY <1>1, <2>1, <2>4 DEF InspectBefore
    <3>2. Flush(r) \in InspectionStates /\ ~Flush(r).failed /\ ~Flush(r).other
          /\ ~Flush(r).changed /\ Flush(r).outputs = 0 /\ Flush(r).terminal = "none"
          /\ ~Flush(r).pending
      BY <1>1, <2>4 DEF Flush, InspectionStates
    <3> QED BY <2>4, <3>1, <3>2 DEF InspectionStates, OriginEnds
  <2>5. CASE line = "aborted" /\ s.outputs = 0
    <3> DEFINE u == [r EXCEPT !.marker = FALSE]
    <3>1. u \in InspectionStates /\ ~u.failed /\ ~u.other /\ ~u.changed /\ ~u.pending
          /\ u.terminal = "none" /\ u.outputs = 0 /\ ~u.marker
      BY <1>1, <2>5 DEF InspectionStates
    <3>2. t = Ends(u, "aborted")
      BY <2>1, <2>5 DEF InspectBefore
    <3> HIDE DEF u
    <3> QED BY <2>5, <3>1, <3>2 DEF Ends, InspectionStates, OriginEnds
  <2> QED BY <1>4, <2>2, <2>3, <2>4, <2>5
<1> QED BY <1>3, <1>4

\* and as the preflight reads them.
LEMMA OwnPreflight ==
  ASSUME NEW f \in PreflightStates, ~f.failed, f.terminal = "none",
         NEW line \in Lines \ OtherLines, NEW g, g = PreflightStep(f, line)
  PROVE  /\ ~g.failed
         /\ g.terminal = IF line \in OriginEnds THEN line ELSE "none"
<1>1. CASE line \in OriginEnds
  <2>1. g = [f EXCEPT !.terminal = line]
    BY <1>1 DEF PreflightStep, Ends, OriginTerminal, OtherTerminal, OtherLines
  <2> QED BY <1>1, <2>1 DEF PreflightStates
<1>2. CASE line \notin OriginEnds
  <2>1. PICK dirty : g = [f EXCEPT !.dirty = dirty]
    BY <1>2 DEF PreflightStep, OriginTerminal, OtherTerminal, OtherLines
  <2> QED BY <1>2, <2>1 DEF PreflightStates
<1> QED BY <1>1, <1>2

\* The host of a turn that answers, or is aborted, writes its lines in order.
LEMMA OwnLinesHost ==
  ASSUME ScansInv, TurnInv, OwnLines, HostReceive \/ HostContinue \/ HostRecordAbort,
         turn' # "unanswered"
  PROVE  OwnLines'
<1> DEFINE p == scan.prove
           s == scan.inspect
           f == scan.preflight
<1>0. p \in ProofStates /\ s \in InspectionStates /\ f \in PreflightStates
  BY DEF ScansInv, RolloutTypeOK, ScanStates
<1>1. \E line \in Lines \ OtherLines :
        /\ Append(line)
        /\ \/ turn = "held" /\ line = "callEnd" /\ turn' = "ended"
           \/ turn = "ended" /\ line = "output" /\ turn' = "read"
           \/ turn \in {"read", "answered"} /\ line = "message" /\ turn' = "answered"
           \/ turn = "answered" /\ line = "complete" /\ turn' = "completed"
           \/ turn \in Live /\ line = "marker" /\ turn' = "marked"
           \/ turn \in Live \cup {"marked"} /\ line = "aborted" /\ turn' = "aborted"
  BY DEF HostReceive, HostContinue, HostRecordAbort, HostLine, Lines, OtherLines, OriginEnds
<1>2. PICK line \in Lines \ OtherLines :
        /\ Append(line)
        /\ \/ turn = "held" /\ line = "callEnd" /\ turn' = "ended"
           \/ turn = "ended" /\ line = "output" /\ turn' = "read"
           \/ turn \in {"read", "answered"} /\ line = "message" /\ turn' = "answered"
           \/ turn = "answered" /\ line = "complete" /\ turn' = "completed"
           \/ turn \in Live /\ line = "marker" /\ turn' = "marked"
           \/ turn \in Live \cup {"marked"} /\ line = "aborted" /\ turn' = "aborted"
  BY <1>1
<1>3. /\ scan'.prove = ProveStep(p, line)
      /\ scan'.inspect = InspectStep(s, line)
      /\ scan'.preflight = PreflightStep(f, line)
  BY <1>2 DEF Append
<1>4. /\ ~p.done
      /\ ~p.failed /\ ~s.failed /\ ~s.other /\ ~s.changed /\ ~f.failed
      /\ s.outputs \in {0, 1} /\ p.outputs = s.outputs
      /\ p.outputs = 1 => ~p.dirty /\ p.pending = "no"
      /\ s.terminal = "none" /\ f.terminal = "none"
      /\ s.pending \/ s.marker => s.outputs = 0
  <2>1. turn \notin {"completed", "aborted"}
    BY <1>2 DEF Live
  <2>2. ~p.done /\ (s.pending => s.outputs = 0)
    BY <1>0, <2>1 DEF ScansInv, TurnInv, ProofStates
  <2>3. s.terminal \in {"none", "aborted", "complete"}
    BY <1>0 DEF InspectionStates, OriginEnds
  <2> QED BY <2>1, <2>2, <2>3 DEF OwnLines
<1>4a. \/ line = "callEnd" /\ p.outputs = 0 /\ p.pending = "no" /\ turn = "held"
          /\ ~s.pending /\ ~s.ended /\ ~s.marker /\ ~p.dropped /\ ~p.dirty
       \/ line = "output" /\ p.outputs = 0 /\ p.pending = "end" /\ ~p.dropped /\ ~p.dirty
          /\ s.pending /\ ~s.marker
       \/ line = "message" /\ p.outputs = 1 /\ ~s.marker
       \/ line = "complete" /\ p.outputs = 1 /\ p.answered /\ ~s.marker
       \/ line = "marker" /\ p.pending # "marker" /\ ~s.marker
       \/ line = "aborted"
  <2>1. p.pending \in {"no", "end", "marker"}
    BY <1>0 DEF ProofStates
  <2> QED BY <1>2, <2>1 DEF OwnLines, Live
<1>5. LET q == scan'.prove
      IN  /\ ~q.failed
          /\ q.outputs = IF line = "output" THEN 1 ELSE p.outputs
          /\ q.outputs = 1 => ~q.dirty /\ q.pending = "no"
          /\ q.pending = "end" => line = "callEnd"
          /\ q.pending = "marker" => line = "marker"
          /\ line = "message" => q.answered
          /\ line = "callEnd" => q.pending = "end" /\ q.dropped = p.dropped /\ q.dirty = p.dirty
  <2> HIDE DEF p
  <2> QED BY <1>0, <1>2, <1>3, <1>4, <1>4a, OwnProof
<1>6. LET t == scan'.inspect
      IN  /\ ~t.failed /\ ~t.other /\ ~t.changed
          /\ t.outputs = IF line = "output" THEN 1 ELSE s.outputs
          /\ t.terminal = IF line \in OriginEnds THEN line ELSE "none"
          /\ t.marker => line = "marker" /\ s.outputs = 0
          /\ t.pending <=> line = "callEnd"
  <2> HIDE DEF s
  <2> QED BY <1>0, <1>2, <1>3, <1>4, <1>4a, OwnInspection
<1>7. LET g == scan'.preflight
      IN  ~g.failed /\ g.terminal = IF line \in OriginEnds THEN line ELSE "none"
  <2> HIDE DEF f
  <2> QED BY <1>0, <1>2, <1>3, <1>4, OwnPreflight
<1> QED BY <1>2, <1>4, <1>4a, <1>5, <1>6, <1>7 DEF OwnLines, OriginEnds, Live

\* An archived request stays archived.
LEMMA ArchivedKept ==
  ASSUME archived, [Next]_vars
  PROVE  archived'
<1>1. CASE \/ ServerPublish \/ ServerGone \/ HostReceive \/ HostError \/ HostContinue \/ HostAbort
           \/ HostRecordAbort \/ UserTurn \/ LapseLease \/ WakeTurn \/ Crash \/ Restart
  BY <1>1 DEF ServerPublish, ServerGone, HostReceive, HostError, HostContinue, HostAbort,
     HostRecordAbort, UserTurn, LapseLease, HostLine, WakeTurn, Crash, Restart, records
<1>2. CASE Hook
  BY <1>2 DEF Hook, HookStart, ClaimStep, ResolveConsumed, ResolvePending, Consume,
     HookReturned, HookObserve, HookProbe, HookEnd, records
<1>3. CASE Certifier
  BY <1>3 DEF Certifier, ClaimStep, ResolveConsumed, ResolvePending, Consume, Archive, records
<1>4. CASE Recovery
  BY <1>4 DEF Recovery, SelectProvedAttempt, ClaimCrashRecovery, ResolveHeldRecovery, records
<1>5. CASE UNCHANGED vars
  BY <1>5 DEF vars, records
<1> QED BY <1>1, <1>2, <1>3, <1>4, <1>5 DEF Next

\* A dead server stays dead.
LEMMA DeadKept ==
  ASSUME PcTypeOK, At("server", "dead"), [Next]_vars
  PROVE  At("server", "dead")'
<1>1. CASE \/ ServerPublish \/ ServerGone \/ HostReceive \/ HostError \/ HostContinue \/ HostAbort
           \/ HostRecordAbort \/ UserTurn \/ LapseLease \/ WakeTurn \/ Crash \/ Restart
  BY <1>1 DEF ServerPublish, ServerGone, HostReceive, HostError, HostContinue, HostAbort,
     HostRecordAbort, UserTurn, LapseLease, HostLine, WakeTurn, Crash, Restart, Goto, At,
     PcTypeOK, Processes
<1>2. CASE Hook
  BY <1>2 DEF Hook, HookStart, ClaimStep, ResolveConsumed, ResolvePending, Consume, ConsumeResolve,
     Tombstone, Unlink, Throw, HookReturned, HookObserve, HookProbe, HookEnd, Goto, At, PcTypeOK,
     Processes
<1>3. CASE Certifier
  <2>1. (\E label : Goto(Me, label)) \/ Die(Me)
    <3>1. CASE ClaimStep(Me)
      BY <3>1 DEF ClaimStep, ResolveConsumed, ResolvePending, Consume, ConsumeResolve, Tombstone,
         Unlink, Throw, Me
    <3>2. CASE InspectMissing \/ InspectContinuation
      <4>1. PICK verdict, state, next : Follow(verdict, state, next)
        BY <3>2 DEF InspectMissing, InspectContinuation
      <4> QED BY <4>1 DEF Follow
    <3>3. CASE \/ PassBegin \/ ProveAbort \/ ReadDelivery \/ ProveContinuation
               \/ CertifyCompletion \/ PublishAbort \/ PublishReturned \/ PublishCompletion
      BY <3>3 DEF PassBegin, ProveAbort, ReadDelivery, ProveContinuation, CertifyCompletion,
         PublishAbort, PublishReturned, PublishCompletion
    <3>4. CASE \/ CertifyMissing \/ Certify \/ PostRequeue \/ PostCompletion \/ PostObservation
               \/ Resolved \/ Spent \/ PublishTerminal \/ Archive \/ LostReply
      BY <3>4 DEF CertifyMissing, Certify, PostRequeue, PostCompletion, PostObservation, Resolved,
         Spent, PublishTerminal, Archive, LostReply
    <3> QED BY <1>3, <3>1, <3>2, <3>3, <3>4 DEF Certifier
  <2> QED BY <2>1 DEF Goto, Die, At, Me, PcTypeOK, Processes
<1>4. CASE Recovery
  BY <1>4 DEF Recovery, SelectProvedAttempt, ClaimCrashRecovery, ResolveHeldRecovery, Goto, Die, At,
     PcTypeOK, Processes
<1>5. CASE UNCHANGED vars
  BY <1>5 DEF vars, At
<1> QED BY <1>1, <1>2, <1>3, <1>4, <1>5 DEF Next

\* Until the wake is handed over or the call archived, the rollout of a turn
\* that has not failed its call holds what the turn wrote.
LEMMA OwnInvNext ==
  ASSUME PcTypeOK, ScansInv, TurnInv, OwnInv, [Next]_vars
  PROVE  OwnInv'
<1>1. CASE handed \/ archived
  BY <1>1, ServiceChanges, ArchivedKept DEF OwnInv
<1>1a. CASE At("server", "dead") \/ turn = "unanswered"
  BY <1>1a, DeadKept, TurnChanges DEF OwnInv, Over, Completions
<1>2. CASE ~handed /\ ~archived /\ ~At("server", "dead") /\ turn # "unanswered"
  <2>1. OwnLines
    BY <1>2 DEF OwnInv
  <2>2. CASE UNCHANGED <<scan, turn>>
    BY <2>1, <2>2 DEF OwnInv, OwnLines
  <2>3. CASE HostReceive \/ HostContinue \/ HostRecordAbort
    BY <2>1, <2>3, OwnLinesHost DEF OwnInv
  <2>4. CASE HostError
    BY <2>4 DEF HostError, OwnInv, Goto, At, PcTypeOK, Processes
  <2>5. CASE UserTurn \/ WakeTurn
    BY <1>2, <2>5 DEF UserTurn, Guarded, WakeTurn
  <2>6. CASE ServerPublish \/ ServerGone \/ HostAbort \/ LapseLease \/ Crash \/ Restart
    BY <2>2, <2>6 DEF ServerPublish, ServerGone, HostAbort, LapseLease, Crash, Restart, host
  <2>7. CASE Hook
    BY <2>2, <2>7 DEF Hook, HookStart, ClaimStep, ResolveConsumed, ResolvePending, Consume,
       HookReturned, HookObserve, HookProbe, HookEnd, host
  <2>8. CASE Certifier
    BY <2>2, <2>8 DEF Certifier, ClaimStep, ResolveConsumed, ResolvePending, Consume, world, host
  <2>9. CASE Recovery
    BY <2>2, <2>9 DEF Recovery, SelectProvedAttempt, ClaimCrashRecovery, ResolveHeldRecovery, host
  <2>10. CASE UNCHANGED vars
    BY <2>2, <2>10 DEF vars, host
  <2> QED BY <2>3, <2>4, <2>5, <2>6, <2>7, <2>8, <2>9, <2>10 DEF Next
<1> QED BY <1>1, <1>1a, <1>2

\* How the wake changes hands.
HandMoves ==
  \/ /\ UNCHANGED handed
     /\ pc'["recovery"] = pc["recovery"] \/ pc'["recovery"] \in {"idle", "down"}
     /\ \/ UNCHANGED service
        \/ Observe
        \/ service.wake = "leased" /\ service' = [service EXCEPT !.wake = "queued"]
        \/ handed /\ service' = [service EXCEPT !.wake = "completed"]
        \/ /\ service.wake \in {"running", "completed"}
           /\ service' = [service EXCEPT !.wake = "completed"]
        \/ /\ service.wake = "running"
           /\ service' = [service EXCEPT !.wake = "queued", !.requeue = reason]
  \/ UNCHANGED <<handed, service>> /\ ~handed
  \/ /\ pc["recovery"] = "claim"
     /\ UNCHANGED handed
     /\ service.wake \in {"leased", "queued", "recovering"}
     /\ service' = [service EXCEPT !.wake = "recovering"]
  \/ /\ pc["recovery"] = "resolve"
     /\ UNCHANGED service
     /\ pc'["recovery"] \in {"idle", "down"}

\* It does so by the lease, the reports and the recovery's three steps.
LEMMA HandsMove ==
  ASSUME TypeOK, [Next]_vars
  PROVE  /\ HandMoves
         /\ pc'["recovery"] = "resolve" =>
              pc["recovery"] = "resolve" \/ service'.wake = "recovering"
<1>0. /\ PcTypeOK
      /\ service \in [wake : {"leased", "queued", "running", "recovering", "completed"},
                      observed : BOOLEAN, requeue : {"no"} \cup Requeues]
  BY DEF TypeOK
<1> DEFINE Stay == UNCHANGED handed /\ UNCHANGED service
                   /\ (pc'["recovery"] = pc["recovery"] \/ pc'["recovery"] \in {"idle", "down"})
<1>1. Stay => HandMoves /\ (pc'["recovery"] = "resolve" => pc["recovery"] = "resolve")
  BY DEF HandMoves
<1>2. CASE \/ ServerPublish \/ ServerGone \/ HostReceive \/ HostError \/ HostContinue \/ HostAbort
           \/ HostRecordAbort \/ UserTurn \/ Crash \/ Restart
  BY <1>0, <1>1, <1>2 DEF ServerPublish, ServerGone, HostReceive, HostError, HostContinue,
     HostAbort, HostRecordAbort, UserTurn, HostLine, Crash, Restart, Goto, PcTypeOK, Processes
<1>3. CASE LapseLease \/ WakeTurn
  <2>1. UNCHANGED <<handed, pc>>
    BY <1>3 DEF LapseLease, WakeTurn
  <2>2. \/ UNCHANGED service
        \/ service.wake = "leased" /\ service' = [service EXCEPT !.wake = "queued"]
        \/ handed /\ service' = [service EXCEPT !.wake = "completed"]
    BY <1>3 DEF LapseLease, WakeTurn
  <2> QED BY <2>1, <2>2 DEF HandMoves
<1>4. ASSUME NEW a \in ClaimUsers, ClaimStep(a) PROVE Stay
  BY <1>0, <1>4 DEF ClaimStep, ResolveConsumed, ResolvePending, Consume, ConsumeResolve, Tombstone,
     Unlink, Throw, Goto, Die, PcTypeOK, Processes, ClaimUsers
<1>5. CASE HookStart \/ HookReturned \/ HookProbe \/ HookEnd
  BY <1>0, <1>1, <1>5 DEF HookStart, HookReturned, HookProbe, HookEnd, Goto, PcTypeOK, Processes
<1>6. CASE HookObserve
  <2>1. UNCHANGED handed /\ pc'["recovery"] = pc["recovery"] /\ (Observe \/ UNCHANGED service)
    BY <1>0, <1>6 DEF HookObserve, Goto, PcTypeOK, Processes
  <2> QED BY <2>1 DEF HandMoves
<1>7. CASE SelectProvedAttempt
  <2>1. UNCHANGED <<handed, service>> /\ pc'["recovery"] # "resolve"
        /\ (pc'["recovery"] = "down" \/ ~handed)
    BY <1>0, <1>7 DEF SelectProvedAttempt, Goto, Die, PcTypeOK, Processes
  <2> QED BY <2>1 DEF HandMoves
<1>8. CASE ClaimCrashRecovery
  <2>1. CASE Die("recovery") /\ UNCHANGED service
    BY <1>0, <1>1, <1>8, <2>1 DEF ClaimCrashRecovery, Die, PcTypeOK, Processes
  <2>2. CASE /\ service.wake \in {"leased", "queued", "recovering"}
             /\ service' = [service EXCEPT !.wake = "recovering"]
    <3>1. pc["recovery"] = "claim" /\ UNCHANGED handed
      BY <1>8 DEF ClaimCrashRecovery, At
    <3>2. service'.wake = "recovering"
      BY <1>0, <2>2
    <3> QED BY <2>2, <3>1, <3>2 DEF HandMoves
  <2> QED BY <1>8, <2>1, <2>2 DEF ClaimCrashRecovery
<1>9. CASE ResolveHeldRecovery
  <2>1. pc["recovery"] = "resolve" /\ UNCHANGED service /\ pc'["recovery"] \in {"idle", "down"}
    BY <1>0, <1>9 DEF ResolveHeldRecovery, At, Goto, Die, PcTypeOK, Processes
  <2> QED BY <2>1 DEF HandMoves
<1>10. CASE Certifier /\ UNCHANGED service
  <2>1. UNCHANGED handed
    BY <1>10 DEF Certifier, ClaimStep, ResolveConsumed, ResolvePending, Consume, world
  <2>2. CASE ClaimStep(Me)
    BY <1>1, <1>4, <2>2 DEF ClaimUsers, Me
  <2>3. CASE \/ PassBegin \/ ProveAbort \/ ReadDelivery \/ ProveContinuation
             \/ CertifyCompletion \/ PublishAbort \/ PublishReturned \/ PublishCompletion
             \/ CertifyMissing \/ Certify \/ PostRequeue \/ PostCompletion \/ PostObservation
             \/ Resolved \/ Spent \/ PublishTerminal \/ Archive \/ LostReply
    BY <1>0, <1>1, <1>10, <2>1, <2>3 DEF PassBegin, ProveAbort, ReadDelivery,
       ProveContinuation, CertifyCompletion, PublishAbort, PublishReturned, PublishCompletion,
       CertifyMissing, Certify, PostRequeue, PostCompletion, PostObservation, Resolved, Spent,
       PublishTerminal, Archive, LostReply,
       Goto, Die, Me, PcTypeOK, Processes
  <2>4. CASE InspectMissing \/ InspectContinuation
    <3>1. PICK verdict, state, next : Follow(verdict, state, next)
      BY <2>4 DEF InspectMissing, InspectContinuation
    <3>2. pc'["recovery"] = pc["recovery"] \/ pc'["recovery"] = "down"
      BY <1>0, <3>1 DEF Follow, Goto, Die, Me, PcTypeOK, Processes
    <3> QED BY <1>1, <1>10, <2>1, <3>2
  <2> QED BY <1>10, <2>2, <2>3, <2>4 DEF Certifier
<1>11. CASE Certifier /\ ~UNCHANGED service
  <2>1. UNCHANGED handed
    BY <1>11 DEF Certifier, ClaimStep, ResolveConsumed, ResolvePending, Consume, world
  <2>2. PostRequeue \/ PostCompletion \/ PostObservation \/ LostReply
    BY <1>11 DEF Certifier, ClaimStep, ResolveConsumed, ResolvePending, Consume
  <2>3. pc'["recovery"] = pc["recovery"] \/ pc'["recovery"] = "down"
    BY <1>0, <2>2 DEF PostRequeue, PostCompletion, PostObservation, LostReply, Goto, Die, Me,
       PcTypeOK, Processes
  <2>4. \/ Observe
        \/ /\ service.wake \in {"running", "completed"}
           /\ service' = [service EXCEPT !.wake = "completed"]
        \/ /\ service.wake = "running"
           /\ service' = [service EXCEPT !.wake = "queued", !.requeue = reason]
    BY <1>11, <2>2 DEF PostRequeue, PostCompletion, PostObservation, LostReply
  <2> QED BY <2>1, <2>3, <2>4 DEF HandMoves
<1>12. CASE UNCHANGED vars
  BY <1>1, <1>12 DEF vars
<1> QED BY <1>1, <1>2, <1>3, <1>4, <1>5, <1>6, <1>7, <1>8, <1>9, <1>10, <1>11, <1>12
    DEF Next, Hook, Recovery, ClaimUsers

\* A wake that the turn reported is not the recovery's before it is handed back.
LEMMA HandbackInvNext ==
  ASSUME TypeOK, HandbackInv, [Next]_vars
  PROVE  HandbackInv'
<1>0. /\ service \in [wake : {"leased", "queued", "running", "recovering", "completed"},
                      observed : BOOLEAN, requeue : {"no"} \cup Requeues]
      /\ reason # "no"
  BY DEF TypeOK, Requeues
<1>1. /\ HandMoves
      /\ pc'["recovery"] = "resolve" => pc["recovery"] = "resolve" \/ service'.wake = "recovering"
  BY HandsMove
<1>2. CASE UNCHANGED service
  BY <1>1, <1>2 DEF HandMoves, HandbackInv
<1>3. CASE Observe
  <2>1. CASE service.wake = "leased"
    <3>1. service'.wake = "running" /\ service'.observed /\ service'.requeue = service.requeue
      BY <1>0, <1>3, <2>1 DEF Observe
    <3>2. service.requeue = "no" /\ ~handed /\ pc["recovery"] # "resolve"
      BY <2>1 DEF HandbackInv
    <3>3. ~handed' /\ pc'["recovery"] # "resolve"
      BY <1>1, <2>1, <3>1, <3>2 DEF HandMoves
    <3> QED BY <3>1, <3>2, <3>3 DEF HandbackInv
  <2>2. CASE service.wake # "leased"
    BY <1>2, <1>3, <2>2 DEF Observe
  <2> QED BY <2>1, <2>2
<1>4. ASSUME UNCHANGED handed,
             pc'["recovery"] = pc["recovery"] \/ pc'["recovery"] \in {"idle", "down"}
      PROVE  /\ service.wake = "leased" /\ service' = [service EXCEPT !.wake = "queued"] =>
                  HandbackInv'
             /\ handed /\ service' = [service EXCEPT !.wake = "completed"] => HandbackInv'
             /\ /\ service.wake \in {"running", "completed"}
                /\ service' = [service EXCEPT !.wake = "completed"]
                => HandbackInv'
             /\ /\ service.wake = "running"
                /\ service' = [service EXCEPT !.wake = "queued", !.requeue = reason]
                => HandbackInv'
  BY <1>0, <1>4 DEF HandbackInv
<1>5. CASE /\ pc["recovery"] = "claim"
           /\ UNCHANGED handed
           /\ service.wake \in {"leased", "queued", "recovering"}
           /\ service' = [service EXCEPT !.wake = "recovering"]
  BY <1>0, <1>5 DEF HandbackInv
<1> QED BY <1>1, <1>2, <1>3, <1>4, <1>5 DEF HandMoves

\* How a pass of the certifier goes on, as far as it relies on earlier answers.
PassMoves ==
  /\ archived' => archived \/ pc'[Me] = "done"
  /\ pc'[Me] \notin {"idle", "done", "down"} =>
       pc[Me] \notin {"idle", "done", "down"} \/ ~archived
  /\ pc'[Me] = "inspectMissing" =>
       \/ pc[Me] = "inspectMissing" /\ UNCHANGED remote
       \/ remote' \in Classifications \cap {"absent", "observed"}
  /\ pc'[Me] \in Resolving =>
       \/ pc[Me] \in Resolving /\ UNCHANGED remote
       \/ remote' \in Classifications
  /\ pc'[Me] \in Reporting =>
       \/ pc[Me] \in Reporting /\ (pc'[Me] = pc[Me] \/ pc[Me] # "postRequeue")
       \/ pc[Me] = "inspectMissing" /\ remote # "absent"
       \/ pc[Me] = "resolved" /\ remote = "observed"
       \/ Observe /\ "ack" \in ObservationAnswers
  /\ pc'[Me] = "certifyCompletion" =>
       pc[Me] = "certifyCompletion" \/ service'.wake = "completed"
  /\ read'[Me] = "consumed" => read[Me] = "consumed" \/ "consumed" \in claim
  /\ \/ service'.requeue = service.requeue
     \/ pc[Me] = "postRequeue" /\ pc'[Me] = "idle"

\* A step that takes the certifier nowhere else but out of its pass,
LEMMA PassFrame ==
  ASSUME UNCHANGED <<archived, remote>>, service'.requeue = service.requeue, read'[Me] = read[Me],
         pc'[Me] = pc[Me] \/ pc'[Me] \in {"idle", "done", "down"}
  PROVE  PassMoves
BY DEF PassMoves, Resolving, Reporting, Spending, Completing

\* The steps of everyone else,
LEMMA PassMovesOthers ==
  ASSUME TypeOK, [Next]_vars, ~Certifier
  PROVE  PassMoves
<1>0. /\ PcTypeOK
      /\ service \in [wake : {"leased", "queued", "running", "recovering", "completed"},
                      observed : BOOLEAN, requeue : {"no"} \cup Requeues]
      /\ read \in [ClaimUsers -> {"none", "pending", "consumed"}]
  BY DEF TypeOK
<1>1. CASE \/ ServerPublish \/ ServerGone \/ HostReceive \/ HostError \/ HostContinue \/ HostAbort
           \/ HostRecordAbort \/ UserTurn \/ Crash \/ Restart
  <2>1. UNCHANGED <<archived, remote, service, read>>
    BY <1>1 DEF ServerPublish, ServerGone, HostReceive, HostError, HostContinue, HostAbort,
       HostRecordAbort, UserTurn, HostLine, Crash, Restart, records, memory
  <2>2. pc'[Me] = pc[Me] \/ pc'[Me] \in {"idle", "done", "down"}
    BY <1>0, <1>1 DEF ServerPublish, ServerGone, HostReceive, HostError, HostContinue, HostAbort,
       HostRecordAbort, UserTurn, HostLine, Crash, Restart, Goto, Me, PcTypeOK, Processes
  <2> QED BY <2>1, <2>2, PassFrame
<1>2. CASE LapseLease \/ WakeTurn
  <2>1. UNCHANGED <<archived, remote, pc, read>> /\ service'.requeue = service.requeue
    BY <1>0, <1>2 DEF LapseLease, WakeTurn, records, memory
  <2> QED BY <2>1, PassFrame
<1>3. CASE HookStart \/ HookReturned \/ HookProbe \/ HookEnd
  <2>1. UNCHANGED <<archived, remote, service, read>> /\ pc'[Me] = pc[Me]
    BY <1>0, <1>3 DEF HookStart, HookReturned, HookProbe, HookEnd, records, memory, Goto, Me,
       PcTypeOK, Processes
  <2> QED BY <2>1, PassFrame
<1>4. CASE HookObserve
  <2>1. UNCHANGED <<archived, remote, read>> /\ pc'[Me] = pc[Me]
    BY <1>0, <1>4 DEF HookObserve, records, memory, Goto, Me, PcTypeOK, Processes
  <2>2. service'.requeue = service.requeue
    BY <1>0, <1>4 DEF HookObserve, Observe
  <2> QED BY <2>1, <2>2, PassFrame
<1>5. CASE ClaimStep("hook")
  <2>1. UNCHANGED <<archived, remote, service>> /\ pc'[Me] = pc[Me]
    BY <1>0, <1>5 DEF ClaimStep, ResolveConsumed, ResolvePending, Consume, ConsumeResolve,
       Tombstone, Unlink, Throw, records, memory, Goto, Me, PcTypeOK, Processes
  <2>2. read'[Me] = read[Me]
    BY <1>0, <1>5 DEF ClaimStep, ResolveConsumed, ResolvePending, Consume, memory, Me, ClaimUsers
  <2> QED BY <2>1, <2>2, PassFrame
<1>6. CASE Recovery
  <2>1. UNCHANGED <<archived, remote, read>> /\ (pc'[Me] = pc[Me] \/ pc'[Me] = "down")
    BY <1>0, <1>6 DEF Recovery, SelectProvedAttempt, ClaimCrashRecovery, ResolveHeldRecovery,
       records, memory, Goto, Die, Me, PcTypeOK, Processes
  <2>2. service'.requeue = service.requeue
    BY <1>0, <1>6 DEF Recovery, SelectProvedAttempt, ClaimCrashRecovery, ResolveHeldRecovery
  <2> QED BY <2>1, <2>2, PassFrame
<1>7. CASE UNCHANGED vars
  BY <1>7, PassFrame DEF vars, records, memory
<1> QED BY <1>1, <1>2, <1>3, <1>4, <1>5, <1>6, <1>7 DEF Next, Hook

\* and the certifier's own.
LEMMA PassMovesOwn ==
  ASSUME TypeOK, Certifier
  PROVE  PassMoves
<1>0. /\ PcTypeOK
      /\ service \in [wake : {"leased", "queued", "running", "recovering", "completed"},
                      observed : BOOLEAN, requeue : {"no"} \cup Requeues]
      /\ read \in [ClaimUsers -> {"none", "pending", "consumed"}]
  BY DEF TypeOK
<1> USE DEF PassMoves
<1>1. CASE ClaimStep(Me)
  <2>1. UNCHANGED <<archived, remote, service>>
    BY <1>1 DEF ClaimStep, ResolveConsumed, ResolvePending, Consume, records, memory
  <2>2. \/ pc'[Me] = "down"
        \/ pc[Me] \in {"resolve", "resolvePending"} /\ pc'[Me] \in Resolving
        \/ pc[Me] \in Spending /\ pc'[Me] \in Spending
    BY <1>0, <1>1 DEF ClaimStep, ResolveConsumed, ResolvePending, Consume, ConsumeResolve,
       Tombstone, Unlink, Throw, At, Goto, Die, Me, PcTypeOK, Processes, Resolving, Spending
  <2>3. read'[Me] = "consumed" => read[Me] = "consumed" \/ "consumed" \in claim
    BY <1>0, <1>1 DEF ClaimStep, ResolveConsumed, ResolvePending, Consume, memory, Me, ClaimUsers
  <2> QED BY <2>1, <2>2, <2>3 DEF Resolving, Reporting, Spending, Completing
<1>2. CASE /\ \/ PassBegin \/ ProveAbort \/ ReadDelivery \/ CertifyCompletion \/ PublishAbort
              \/ PublishReturned \/ PublishCompletion \/ Spent \/ PublishTerminal \/ PostRequeue
              \/ Archive
           /\ UNCHANGED <<remote, read>>
           /\ archived' => archived \/ Archive
           /\ \/ PostRequeue \/ UNCHANGED service
  <2>1. \/ pc'[Me] \notin Resolving \cup Reporting \cup {"inspectMissing"}
        \/ pc[Me] \in Reporting \ {"postRequeue"} /\ pc'[Me] \in Reporting \ {"certifyCompletion"}
    BY <1>0, <1>2 DEF PassBegin, ProveAbort, ReadDelivery, CertifyCompletion, PublishAbort,
       PublishReturned, PublishCompletion, Spent, PublishTerminal, PostRequeue, Archive, At, Goto,
       Die, Me, PcTypeOK, Processes, Resolving, Reporting, Spending, Completing
  <2>2. /\ pc'[Me] \notin {"idle", "done", "down"} =>
             pc[Me] \notin {"idle", "done", "down"} \/ ~archived
        /\ archived' => archived \/ pc'[Me] = "done"
    BY <1>0, <1>2 DEF PassBegin, ProveAbort, ReadDelivery, CertifyCompletion, PublishAbort,
       PublishReturned, PublishCompletion, Spent, PublishTerminal, PostRequeue, Archive, At, Goto,
       Die, Me, PcTypeOK, Processes
  <2>3. \/ service'.requeue = service.requeue
        \/ pc[Me] = "postRequeue" /\ pc'[Me] = "idle"
    BY <1>0, <1>2 DEF PostRequeue, At, Goto, Me, PcTypeOK, Processes
  <2> QED BY <1>2, <2>1, <2>2, <2>3 DEF Resolving, Reporting, Spending, Completing
<1>3. CASE (CertifyMissing \/ Certify) /\ UNCHANGED <<archived, service, read>>
  <2>1. /\ pc[Me] \in {"certifyMissing", "certify"}
        /\ \/ pc'[Me] \in {"idle", "down", "terminal"}
           \/ pc'[Me] = "resolve" /\ remote' \in Classifications
           \/ /\ pc'[Me] = "inspectMissing"
              /\ remote' \in Classifications \ {"recovered", "handoff", "invalid"}
    BY <1>0, <1>3 DEF CertifyMissing, Certify, At, Goto, Die, Me, PcTypeOK, Processes
  <2>2. Classifications \subseteq Kinds \cup {"invalid"}
    BY ClassificationsType, TypeParts
  <2> QED BY <1>3, <2>1, <2>2 DEF Resolving, Reporting, Spending, Completing, Kinds
<1>4. CASE InspectMissing /\ UNCHANGED <<archived, service, read, remote>>
  <2>1. PICK tail \in Tails :
          LET verdict == MissingVerdict(Inspection(tail))
          IN Follow(verdict, Inspection(tail),
                    CASE verdict = "publish" -> "publishReturned"
                      [] verdict = "requeue" -> "postRequeue"
                      [] OTHER               -> "idle")
    BY <1>4 DEF InspectMissing
  <2>2. pc[Me] = "inspectMissing"
    BY <1>4 DEF InspectMissing, At
  <2>3. CASE MissingVerdict(Inspection(tail)) = "requeue"
    <3>1. remote # "absent"
      BY <2>3 DEF MissingVerdict
    <3>2. pc'[Me] = "postRequeue"
      BY <1>0, <2>1, <2>3 DEF Follow, Goto, Me, PcTypeOK, Processes
    <3> QED BY <1>4, <2>2, <3>1, <3>2 DEF Resolving, Reporting, Spending, Completing
  <2>4. CASE MissingVerdict(Inspection(tail)) # "requeue"
    <3>1. pc'[Me] \in {"down", "idle", "publishReturned"}
      BY <1>0, <2>1, <2>4 DEF Follow, Goto, Die, Me, PcTypeOK, Processes
    <3> QED BY <1>4, <2>2, <3>1 DEF Resolving, Reporting, Spending, Completing
  <2> QED BY <2>3, <2>4
<1>5. CASE /\ ProveContinuation \/ InspectContinuation
           /\ UNCHANGED <<archived, service, read, remote>>
  <2>1. CASE ProveContinuation
    <3>1. /\ pc[Me] = "completion"
          /\ pc'[Me] \in {"terminal", "postCompletion", "inspectContinuation", "down"}
      BY <1>0, <2>1 DEF ProveContinuation, At, Goto, Die, Me, PcTypeOK, Processes
    <3> QED BY <1>5, <3>1 DEF Resolving, Reporting, Spending, Completing
  <2>2. CASE InspectContinuation
    <3>1. PICK verdict, state, next :
            Follow(verdict, state, next) /\ next \in {"postRequeue", "idle"}
      BY <2>2 DEF InspectContinuation
    <3>2. /\ pc[Me] = "inspectContinuation"
          /\ pc'[Me] \in {"postRequeue", "idle", "down"}
      BY <1>0, <2>2, <3>1 DEF InspectContinuation, Follow, At, Goto, Die, Me, PcTypeOK, Processes
    <3> QED BY <1>5, <3>2 DEF Resolving, Reporting, Spending, Completing
  <2> QED BY <1>5, <2>1, <2>2
<1>6. CASE PostCompletion /\ UNCHANGED <<archived, read, remote>>
  <2>1. /\ pc[Me] = "postCompletion"
        /\ \/ pc'[Me] = "down" /\ UNCHANGED service
           \/ /\ pc'[Me] = "certifyCompletion"
              /\ service'.wake = "completed" /\ service'.requeue = service.requeue
    BY <1>0, <1>6 DEF PostCompletion, At, Goto, Die, Me, PcTypeOK, Processes
  <2> QED BY <1>6, <2>1 DEF Resolving, Reporting, Spending, Completing
<1>7. CASE PostObservation /\ UNCHANGED <<archived, read, remote>>
  <2>1. /\ pc[Me] = "observe" /\ Observe
        /\ pc'[Me] = "idle" \/ (pc'[Me] = "consume" /\ "ack" \in ObservationAnswers)
    BY <1>0, <1>7 DEF PostObservation, At, Goto, Me, PcTypeOK, Processes
  <2>2. service'.requeue = service.requeue
    BY <1>0, <2>1 DEF Observe
  <2> QED BY <1>7, <2>1, <2>2 DEF Resolving, Reporting, Spending, Completing
<1>8. CASE Resolved /\ UNCHANGED <<archived, service, read, remote>>
  <2>1. /\ pc[Me] = "resolved"
        /\ \/ pc'[Me] \in {"down", "idle", "terminal", "observe"}
           \/ pc'[Me] \in {"consume", "completion"} /\ remote = "observed"
    BY <1>0, <1>8 DEF Resolved, At, Goto, Die, Me, PcTypeOK, Processes
  <2> QED BY <1>8, <2>1 DEF Resolving, Reporting, Spending, Completing
<1>9. CASE LostReply /\ UNCHANGED <<archived, read, remote>>
  <2>1. pc'[Me] = "idle"
    BY <1>0, <1>9 DEF LostReply, Goto, Me, PcTypeOK, Processes
  <2>2. service'.requeue = service.requeue \/ pc[Me] = "postRequeue"
    BY <1>0, <1>9 DEF LostReply, Observe, At
  <2> QED BY <1>9, <2>1, <2>2 DEF Resolving, Reporting, Spending, Completing
<1> QED BY <1>1, <1>2, <1>3, <1>4, <1>5, <1>6, <1>7, <1>8, <1>9 DEF Certifier, records

\* A spent claim stays spent.
LEMMA ConsumedKept ==
  ASSUME CreateInv, "consumed" \in claim, [Next]_vars
  PROVE  "consumed" \in claim'
<1>1. CASE ServerPublish
  <2>1. pc["server"] # "claim"
    BY DEF CreateInv
  <2> QED BY <1>1, <2>1 DEF ServerPublish, At
<1>2. ASSUME NEW a \in ClaimUsers, ClaimStep(a) PROVE "consumed" \in claim'
  BY <1>2 DEF ClaimStep, ResolveConsumed, ResolvePending, Consume, Tombstone, Unlink
<1>3. CASE \/ ServerGone \/ HostReceive \/ HostError \/ HostContinue \/ HostAbort \/ HostRecordAbort
           \/ UserTurn \/ LapseLease \/ WakeTurn \/ Crash \/ Restart
  BY <1>3 DEF ServerGone, HostReceive, HostError, HostContinue, HostAbort, HostRecordAbort,
     UserTurn, LapseLease, HostLine, WakeTurn, Crash, Restart
<1>4. CASE Hook
  BY <1>2, <1>4 DEF Hook, HookStart, HookReturned, HookObserve, HookProbe, HookEnd, ClaimUsers
<1>5. CASE Certifier
  BY <1>2, <1>5 DEF Certifier, ClaimUsers, Me
<1>6. CASE Recovery
  BY <1>6 DEF Recovery, SelectProvedAttempt, ClaimCrashRecovery, ResolveHeldRecovery
<1>7. CASE UNCHANGED vars
  BY <1>7 DEF vars
<1> QED BY <1>1, <1>3, <1>4, <1>5, <1>6, <1>7 DEF Next

\* A pass goes on only from answers that still hold.
LEMMA PassInvNext ==
  ASSUME ScansInv, TypeOK, ServiceInv, CertifierInv, ClaimInv, HandbackInv, PassInv, [Next]_vars
  PROVE  PassInv'
<1>0. /\ service \in [wake : {"leased", "queued", "running", "recovering", "completed"},
                      observed : BOOLEAN, requeue : {"no"} \cup Requeues]
      /\ remote \in {"none"} \cup Kinds
      /\ DataTypeOK
  BY TypeParts DEF TypeOK
<1>1. PassMoves
  BY PassMovesOthers, PassMovesOwn
<1>2. /\ service.observed => service'.observed
      /\ service.wake = "completed" => service'.wake = "completed"
      /\ "consumed" \in claim => "consumed" \in claim'
      /\ remote = "observed" => service.observed
      /\ \A a \in ClaimUsers : pc[a] \in Spending => service.observed
  BY <1>0, ObservedKept, ServiceInvNext, ConsumedKept DEF ClaimInv, SpendInv
<1>3. Classifications \cap {"absent", "observed"} # {} => service.requeue = "no"
  BY <1>0 DEF Classifications, Requeues
<1>4. Observe /\ "ack" \in ObservationAnswers => service'.observed /\ service'.requeue = "no"
  <2>1. SUFFICES ASSUME Observe, "ack" \in ObservationAnswers
                 PROVE  service'.observed /\ service'.requeue = "no"
    OBVIOUS
  <2>2. service.wake \in {"leased", "running"}
    BY <1>0, <2>1 DEF ObservationAnswers
  <2> QED BY <1>0, <2>1, <2>2, AcknowledgedObservation DEF HandbackInv, Observe
<1>5. pc'[Me] \notin {"idle", "done", "down"} => ~archived'
  BY <1>1 DEF PassMoves, PassInv
<1>6. pc'[Me] = "inspectMissing" => remote' \in {"absent", "observed"}
  BY <1>1 DEF PassMoves, PassInv
<1>7. pc'[Me] # "idle" => service'.requeue = service.requeue
  BY <1>1 DEF PassMoves
<1>8. pc'[Me] \in Resolving \cup {"inspectMissing"} /\ remote' \in {"absent", "observed"} =>
        service'.requeue = "no"
  BY <1>1, <1>3, <1>7 DEF PassMoves, PassInv, Resolving
<1>9. pc'[Me] \in Reporting => service'.observed /\ service'.requeue = "no"
  <2>1. SUFFICES ASSUME pc'[Me] \in Reporting PROVE service'.observed /\ service'.requeue = "no"
    OBVIOUS
  <2>2. service'.requeue = service.requeue
    BY <1>7, <2>1 DEF Reporting, Spending, Completing
  <2>3. CASE pc[Me] \in Reporting
    BY <1>2, <2>2, <2>3 DEF PassInv
  <2>4. CASE \/ pc[Me] = "inspectMissing" /\ remote # "absent"
             \/ pc[Me] = "resolved" /\ remote = "observed"
    <3>1. remote = "observed"
      BY <2>4 DEF PassInv
    <3> QED BY <1>2, <2>2, <2>4, <3>1 DEF PassInv, Resolving
  <2>5. CASE Observe /\ "ack" \in ObservationAnswers
    BY <1>4, <2>5
  <2> QED BY <1>1, <2>1, <2>3, <2>4, <2>5 DEF PassMoves
<1>10. pc'[Me] = "certifyCompletion" => service'.wake = "completed"
  BY <1>1, <1>2 DEF PassMoves, PassInv
<1>11. read'[Me] = "consumed" => "consumed" \in claim'
  BY <1>1, <1>2 DEF PassMoves, PassInv
<1> QED BY <1>5, <1>6, <1>8, <1>9, <1>10, <1>11 DEF PassInv

\* While the rollout holds the origin turn's lines only, an inspection fails at
\* the marker of an interruption and nowhere else,
LEMMA OwnInspected ==
  ASSUME ScansInv, OwnLines, NEW tail \in BOOLEAN
  PROVE  /\ Inspection(tail) = "refused" => turn = "marked"
         /\ Inspection(tail) # "origin_completed_without_result"
         /\ Inspection(tail) \in {"refused"} \cup PendingInspections \cup PersistedInspections
              \cup AbortedInspections
         /\ turn = "aborted" /\ ~tail => Inspection(tail) \in AbortedInspections
<1> DEFINE s == scan.inspect
<1>1. /\ ~s.failed /\ ~s.other /\ ~s.changed /\ s.outputs \in {0, 1}
      /\ s.marker => turn = "marked"
      /\ s.terminal \in {"none", "aborted", "complete"}
      /\ s.terminal = "complete" => s.outputs = 1
      /\ turn = "aborted" => s.terminal = "aborted" /\ ~s.marker
  <2>1. s \in InspectionStates
    BY DEF ScansInv, RolloutTypeOK, ScanStates
  <2>2. s.terminal \in {"none", "aborted", "complete"}
    BY <2>1 DEF InspectionStates, OriginEnds
  <2> QED BY <2>2 DEF OwnLines
<1> HIDE DEF s
<1>2. Inspection(tail) = InspectOutcome(s, tail)
  BY DEF Inspection, s
<1> QED BY <1>1, <1>2 DEF InspectOutcome, PendingInspections, PersistedInspections,
     AbortedInspections

\* and a proof of the turn never.
LEMMA OwnProved ==
  ASSUME ScansInv, OwnLines
  PROVE  ProveOutcome(scan.prove) # "refused"
<1>1. scan.prove.done => scan.prove.outputs > 0
  BY DEF ScansInv
<1>2. scan.prove.outputs \in {0, 1}
  BY DEF OwnLines
<1>3. scan.prove.done => scan.prove.outputs = 1
  BY <1>1, <1>2
<1> QED BY <1>2, <1>3 DEF OwnLines, ProveOutcome

\* All that a stop of the supervisor goes back to.
StopInv ==
  /\ ReportInv
  /\ AdjacencyInv
  /\ ClaimInv
  /\ OwnInv
  /\ HandbackInv
  /\ PassInv

\* The listed cases, for the certifier,
CertifierMayStop ==
  \/ turn \in {"marked", "unanswered"}
  \/ At("server", "dead")
  \/ service.requeue = "tool_result_continuation_aborted"
  \/ ~service.observed /\ service.wake \in {"recovering", "completed"}
  \/ "consumed" \in claim /\ (remote = "absent" \/ "pending" \notin claim)

\* A recovery that holds the wake finds the turn's abort in the rollout, unless
\* the call ended in an error.
LEMMA ResolutionNeverThrows ==
  ASSUME TypeOK, StopInv, At("recovery", "resolve"), ~At("server", "dead"), NEW tail \in Tails
  PROVE  Resolution(tail) # "throw"
<1>1. turn = "aborted" /\ ~handed /\ service.wake = "recovering"
  BY DEF StopInv, ReportInv, AbortInv, HandbackInv, At
<1>2. ~archived
  <2>1. SUFFICES ASSUME archived PROVE FALSE
    OBVIOUS
  <2>2. closed \in {"completion_posted", "crash_recovery_completed"}
    BY <2>1 DEF TypeOK, StopInv, AdjacencyInv, SpoolInv
  <2> QED BY <1>1, <2>2 DEF StopInv, ReportInv, CertifierInv, Recovered
<1>3. OwnLines
  BY <1>1, <1>2 DEF StopInv, OwnInv
<1>4. tail = FALSE
  <2>1. ~scan.history.wake
    BY <1>1 DEF StopInv, AdjacencyInv, WakeTurnInv
  <2> QED BY <1>1, <2>1 DEF Tails, Over
<1>5. Inspection(tail) \in AbortedInspections
  BY <1>1, <1>3, <1>4, OwnInspected DEF StopInv, ReportInv
<1> QED BY <1>5 DEF Resolution

\* The steps of the certifier's passes stop in the listed cases only,
LEMMA CertifierStops ==
  ASSUME TypeOK, StopInv, Certifier, cause' # cause
  PROVE  cause' = "certifier" /\ CertifierMayStop
<1>0. /\ service \in [wake : {"leased", "queued", "running", "recovering", "completed"},
                      observed : BOOLEAN, requeue : {"no"} \cup Requeues]
      /\ claim \subseteq {"pending", "consumed"}
      /\ Tails \subseteq BOOLEAN
      /\ ScansInv
  BY DEF TypeOK, Tails, StopInv, ReportInv
<1>1. CASE ClaimStep(Me)
  <2>1. /\ Die(Me) /\ "pending" \notin claim
        /\ pc[Me] \in {"resolvePending", "consumePending"}
    BY <1>1 DEF ClaimStep, ResolveConsumed, ResolvePending, Consume, ConsumeResolve, Throw, At, Me
  <2>2. "intent" \in disk
    BY <2>1 DEF StopInv, ClaimInv, CreateInv, ClaimLabels, Me
  <2>3. claim # {}
    BY <2>2 DEF StopInv, ClaimInv, ClaimOutlivesReport
  <2> QED BY <1>0, <2>1, <2>3 DEF Die, CertifierMayStop, Me
<1>2. CASE ProveAbort
  <2>1. PICK tail : "abortReceipt" \notin disk /\ AbortProof(tail) = "refused" /\ Die(Me)
    BY <1>2 DEF ProveAbort
  <2>2. ~handed /\ ~archived
    BY <1>2, <2>1 DEF StopInv, ReportInv, AbortInv, PassInv, ProveAbort, At
  <2>3. scan.preflight.failed
    BY <2>1 DEF AbortProof, PreflightOutcome
  <2>4. At("server", "dead") \/ turn = "unanswered"
    BY <2>2, <2>3 DEF StopInv, OwnInv, OwnLines
  <2> QED BY <2>1, <2>4 DEF Die, CertifierMayStop, Me
<1>3. CASE CertifyMissing \/ Certify
  <2>1. "invalid" \in Classifications /\ Die(Me)
    BY <1>3 DEF CertifyMissing, Certify
  <2>2. \/ service.requeue = "tool_result_continuation_aborted"
        \/ ~service.observed /\ service.wake \in {"recovering", "completed"}
    BY <1>0, <2>1 DEF Classifications, Requeues
  <2> QED BY <2>1, <2>2 DEF Die, CertifierMayStop, Me
<1>4. CASE InspectMissing
  <2>1. PICK tail \in Tails : MissingVerdict(Inspection(tail)) = "fail" /\ Die(Me)
    BY <1>4 DEF InspectMissing, Follow
  <2>2. /\ ~archived /\ remote \in {"absent", "observed"}
        /\ service.requeue = "no"
    BY <1>4 DEF StopInv, PassInv, InspectMissing, At
  <2>3. CASE handed
    <3>1. ~service.observed /\ service.wake \in {"recovering", "completed"}
      BY <1>0, <2>2, <2>3 DEF StopInv, HandbackInv
    <3> QED BY <2>1, <3>1 DEF Die, CertifierMayStop, Me
  <2>4. CASE At("server", "dead") \/ turn = "unanswered"
    BY <2>1, <2>4 DEF Die, CertifierMayStop, Me
  <2>5. CASE ~handed /\ ~(At("server", "dead") \/ turn = "unanswered")
    <3>1. OwnLines
      BY <2>2, <2>5 DEF StopInv, OwnInv
    <3>2. tail \in BOOLEAN
      BY <1>0, <2>1
    <3>3. Inspection(tail) = "refused"
      <4>1. Inspection(tail) \in {"refused"} \cup PendingInspections \cup PersistedInspections
              \cup AbortedInspections
        BY <1>0, <3>1, <3>2, OwnInspected
      <4> QED BY <2>1, <4>1 DEF MissingVerdict, PendingInspections, PersistedInspections,
           AbortedInspections
    <3>4. turn = "marked"
      BY <1>0, <3>1, <3>2, <3>3, OwnInspected
    <3> QED BY <2>1, <3>4 DEF Die, CertifierMayStop, Me
  <2> QED BY <2>3, <2>4, <2>5
<1>5. ASSUME pc[Me] \in Reporting
      PROVE  /\ service.observed /\ service.requeue = "no"
             /\ service.wake \in {"running", "completed"} /\ ~handed
  BY <1>5 DEF StopInv, PassInv, HandbackInv
<1>6. CASE PostRequeue
  <2>1. pc[Me] = "postRequeue" /\ service.wake # "running"
    BY <1>6 DEF PostRequeue, At
  <2>2. service.wake = "completed" /\ ~handed
    BY <1>5, <2>1 DEF Reporting
  <2>3. Proved /\ turn = "aborted"
    BY <2>1, <2>2 DEF StopInv, ReportInv, ServiceInv, CertifierInv, Cut
  <2> QED BY <2>3 DEF Proved, ProveOutcome, StopInv, ReportInv, TurnInv
<1>7. CASE Resolved
  <2>1. Die(Me) /\ remote = "absent" /\ read[Me] = "consumed"
    BY <1>7 DEF Resolved
  <2> QED BY <2>1 DEF Die, StopInv, PassInv, CertifierMayStop, Me
<1>8. CASE ProveContinuation \/ InspectContinuation
  <2>1. ~handed /\ ~archived
    <3>1. pc[Me] \in {"completion", "inspectContinuation"}
      BY <1>8 DEF ProveContinuation, InspectContinuation, At
    <3> QED BY <1>5, <3>1 DEF Reporting, StopInv, PassInv
  <2>2. Die(Me)
    BY <1>8 DEF ProveContinuation, InspectContinuation, Follow
  <2>3. CASE At("server", "dead") \/ turn = "unanswered"
    BY <2>2, <2>3 DEF Die, CertifierMayStop, Me
  <2>4. CASE ~(At("server", "dead") \/ turn = "unanswered")
    <3>1. OwnLines
      BY <2>1, <2>4 DEF StopInv, OwnInv
    <3>2. PICK tail \in Tails : ContinuationVerdict(Inspection(tail)) = "fail"
      BY <1>0, <1>8, <3>1, OwnProved DEF ProveContinuation, InspectContinuation, Follow
    <3>3. turn = "marked"
      BY <1>0, <3>1, <3>2, OwnInspected DEF ContinuationVerdict
    <3> QED BY <2>2, <3>3 DEF Die, CertifierMayStop, Me
  <2> QED BY <2>3, <2>4
<1>9. CASE PostCompletion \/ CertifyCompletion
  <2>1. \/ pc[Me] = "postCompletion" /\ service.wake \notin {"running", "completed"}
        \/ /\ pc[Me] = "certifyCompletion"
           /\ service.wake # "completed" \/ service.requeue # "no"
    BY <1>9 DEF PostCompletion, CertifyCompletion, At
  <2>2. pc[Me] \in Reporting /\ (pc[Me] = "certifyCompletion" => service.wake = "completed")
    BY <2>1 DEF Reporting, Completing, StopInv, PassInv
  <2> QED BY <1>5, <2>1, <2>2
<1> QED BY <1>1, <1>2, <1>3, <1>4, <1>6, <1>7, <1>8, <1>9
    DEF Certifier, PassBegin, ReadDelivery

\* and nobody else stops it but a recovery that finds the wake taken.
LEMMA StopsListed ==
  ASSUME TypeOK, StopInv, [Next]_vars, cause' # cause, cause' # "none"
  PROVE  IF cause' = "recovery"
         THEN service.wake \in {"running", "completed"} \/ At("server", "dead")
         ELSE CertifierMayStop
<1>1. CASE Certifier
  BY <1>1, CertifierStops
<1>2. CASE SelectProvedAttempt \/ ClaimCrashRecovery
  BY <1>2 DEF SelectProvedAttempt, ClaimCrashRecovery, Die
<1>3. CASE ResolveHeldRecovery
  BY <1>3, ResolutionNeverThrows DEF ResolveHeldRecovery, Die
<1>4. CASE Hook
  BY <1>4 DEF Hook, HookStart, ClaimStep, ResolveConsumed, ResolvePending, Consume, ConsumeResolve,
     Throw, HookReturned, HookObserve, HookProbe, HookEnd
<1>5. CASE \/ ServerPublish \/ ServerGone \/ HostReceive \/ HostError \/ HostContinue \/ HostAbort
           \/ HostRecordAbort \/ UserTurn \/ LapseLease \/ WakeTurn \/ Crash \/ Restart
  BY <1>5 DEF ServerPublish, ServerGone, HostReceive, HostError, HostContinue, HostAbort,
     HostRecordAbort, UserTurn, LapseLease, HostLine, WakeTurn, Crash, Restart
<1>6. CASE UNCHANGED vars
  BY <1>6 DEF vars
<1> QED BY <1>1, <1>2, <1>3, <1>4, <1>5, <1>6 DEF Next, Recovery

\* All of it holds before anything happened.
LEMMA StopInvStart == Init => StopInv
<1> SUFFICES ASSUME Init PROVE StopInv
  OBVIOUS
<1>1. OwnLines
  BY DEF Init, OwnLines, ScanStart, ProveStart, InspectStart, PreflightStart
<1>2. HandbackInv
  BY DEF Init, HandbackInv, Processes
<1>3. PassInv
  BY DEF Init, PassInv, Me, Processes, ClaimUsers, Resolving, Reporting, Spending, Completing
<1> QED BY <1>1, <1>2, <1>3, ReportInvStart, AdjacencyInvStart, ClaimInvStart DEF StopInv, OwnInv

\* Whatever the order of the host's lines, of the two loops and of the hook,
\* the supervisor is stopped in the listed cases only.
THEOREM SupervisorStopsListed == Spec => SupervisorStopsFor
<1>1. Init => StopInv
  BY StopInvStart
<1>2. TypeOK /\ StopInv /\ [Next]_vars => StopInv'
  BY ReportInvNext, AdjacencyInvNext, ClaimInvNext, OwnInvNext, HandbackInvNext, PassInvNext
     DEF StopInv, ReportInv, TypeOK
<1>3. TypeOK /\ StopInv /\ [Next]_vars =>
        [cause' # cause /\ cause' # "none" =>
           IF cause' = "recovery"
           THEN service.wake \in {"running", "completed"} \/ At("server", "dead")
           ELSE CertifierMayStop]_vars
  BY StopsListed
<1> QED BY <1>1, <1>2, <1>3, DeliveryTypeCorrect, PTL DEF Spec, SupervisorStopsFor, CertifierMayStop
=============================================================================
