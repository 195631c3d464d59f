------------------------- MODULE HeldTerminalProofs -------------------------
(***************************************************************************)
(* How a held call ends: its terminal, its answer and the crash            *)
(* reconciler's applied record agree with the service, and every step is   *)
(* one of HeldCallContract.  For every set of supervisors and every number *)
(* of faults, and with the order of reads the code has: a call may         *)
(* overtake the read of its arm attempt, and `overtaken' says when that    *)
(* made a pass declare it unarmed.                                         *)
(***************************************************************************)
EXTENDS HeldCallProofs

-----------------------------------------------------------------------------
(* Where a process is tells whether the await was armed, bound for a wake or *)
(* abandoned by its waiter.                                                  *)

\* A pass gets here only for a call that has an arm attempt.
ArmedLabels ==
  (LifecycleLabels \ {"errorRead", "preArm"}) \cup (CrashLabels \ {"crash"})

Abandoned == {"reconciling", "released", "stopped"}

\* The service hears of an await only after its arm attempt, and a call whose
\* error was observed publishes nothing more of its own.  The MCP server, which
\* reconciles its own failed call only, is not overtaken.
ArmInv ==
  /\ remote # "none" => "armAttempt" \in disk
  /\ waiter = "arming" => "armAttempt" \in disk
  /\ "toolErrorObservation" \in disk => waiter \in Abandoned
  /\ pc[Mcp] # "idle" => waiter = "reconciling"
  /\ \A p \in Reconcilers :
       /\ pc[p] \in ArmedLabels => "armAttempt" \in disk
       /\ pc[p] = "errorRead" =>
            \/ seen[p] = "nothing"
            \/ seen[p] = "armAttempt" /\ "armAttempt" \in disk
       /\ pc[p] = "preArm" =>
            "toolErrorObservation" \in disk /\ seen[p] = "nothing"
  /\ pc[Mcp] \in {"errorRead", "preArm"} /\ seen[Mcp] = "nothing" =>
       "armAttempt" \notin disk

\* A wake is delivered only when the service has matched a suspended await.
DeliveryInv ==
  /\ "originAbortReceipt" \in disk => originAborted
  /\ waiter \in {"waiting", "delivering"} => "suspensionCommitted" \in disk
  /\ waiter = "delivering" => remote = "pending"
  /\ waiter \in {"observing", "returned"} => "wakeDelivery" \in disk
  /\ "wakeDelivery" \in disk =>
       remote = "pending" /\ "suspensionCommitted" \in disk

CourseInv == ArmInv /\ DeliveryInv

\* The waiter arms once, and delivers what it waited for.
LEMMA WaiterCourse ==
  ASSUME TypeInv, CourseInv, WaiterStep
  PROVE  CourseInv'
<1>0. /\ pc \in [Reconcilers -> Labels]
      /\ seen \in [Reconcilers -> Memories]
      /\ held \in [Reconcilers -> Dispositions \cup {"none"}]
      /\ authority \in CancelAuthorities \cup {"commit", "none"}
      /\ Mcp \in Reconcilers
  BY DEF TypeInv, TypeOK, Authorities, Reconcilers
<1> USE <1>0 DEF CourseInv, ArmInv, DeliveryInv, ArmedLabels, Abandoned,
                 LifecycleLabels, CrashLabels, waiterUnchanged, memory
<1>1. CASE PrepareFails
  BY <1>1 DEF PrepareFails, service
<1>2. CASE PublishArmAttempt
  BY <1>2 DEF PublishArmAttempt, WaiterPublish, Publish, service
<1>3. CASE ArmAwait
  BY <1>3 DEF ArmAwait, Send, ArmEffect
<1>4. CASE PublishArmBinding
  BY <1>4 DEF PublishArmBinding, WaiterPublish, Publish, service
<1>5. CASE PublishBoundary
  BY <1>5 DEF PublishBoundary, WaiterPublish, Publish, service
<1>6. CASE PublishWaiterReady
  BY <1>6 DEF PublishWaiterReady, WaiterPublish, Publish, service
<1>7. CASE ElectCommit
  BY <1>7 DEF ElectCommit, Elect, service
<1>8. CASE PublishCommitAttempt
  BY <1>8 DEF PublishCommitAttempt, WaiterPublish, Publish, service
<1>9. CASE CommitAwait
  BY <1>9 DEF CommitAwait, Send, CommitEffect
<1>10. CASE PublishSuspension
  BY <1>10 DEF PublishSuspension, WaiterPublish, Publish, service
<1>11. CASE WaitForAwait
  BY <1>11 DEF WaitForAwait, service
<1>12. CASE PublishWakeDelivery
  BY <1>12 DEF PublishWakeDelivery, WaiterPublish, Publish, service
<1>13. CASE PublishObservationIntent
  BY <1>13 DEF PublishObservationIntent, WaiterPublish, Publish, service
<1>14. CASE PublishToolError
  BY <1>14 DEF PublishToolError, Publish, service
<1>15. CASE PublishToolErrorObservation
  BY <1>15 DEF PublishToolErrorObservation, Publish, service
<1>16. CASE WaiterStops
  BY <1>16 DEF WaiterStops, service
<1> QED
  BY <1>1, <1>2, <1>3, <1>4, <1>5, <1>6, <1>7, <1>8, <1>9, <1>10, <1>11,
     <1>12, <1>13, <1>14, <1>15, <1>16
     DEF WaiterStep

\* The lifecycle declares a call unarmed that will never be armed.
LEMMA ErrorCourse ==
  ASSUME NEW p \in Reconcilers, TypeInv, CourseInv, ErrorStep(p)
  PROVE  CourseInv'
<1>0. /\ pc \in [Reconcilers -> Labels]
      /\ seen \in [Reconcilers -> Memories]
      /\ held \in [Reconcilers -> Dispositions \cup {"none"}]
      /\ authority \in CancelAuthorities \cup {"commit", "none"}
      /\ Mcp \in Reconcilers
  BY DEF TypeInv, TypeOK, Authorities, Reconcilers
<1> USE <1>0 DEF CourseInv, ArmInv, DeliveryInv, ArmedLabels, Abandoned,
                 LifecycleLabels, CrashLabels, Goto, memory
<1>1. CASE ErrorBegin(p)
  BY <1>1 DEF ErrorBegin, Remember, records, service
<1>2. CASE ErrorRead(p)
  <2>1. UNCHANGED <<disk, remote, originAborted, seen>> /\ pc[p] = "errorRead"
    BY <1>2 DEF ErrorRead, records, service
  <2>2. PICK l \in {"idle", "crash", "archive", "preArm", "errorBound", "errorArm"} :
          /\ Goto(p, l)
          /\ l = "preArm" =>
               "toolErrorObservation" \in disk /\ seen[p] = "nothing"
          /\ l \in {"errorBound", "errorArm"} => "armAttempt" \in disk
          /\ waiter' = waiter \/ (p = Mcp /\ l = "idle" /\ waiter' \in Abandoned)
          /\ p = Mcp => l # "crash"
    <3>1. seen[p] \in {"nothing", "armAttempt"}
      BY <2>1
    <3> QED
      BY <1>2, <3>1 DEF ErrorRead, ErrorDisposition, NeverArmed, SawAttempt, Return
  <2>3. \A q \in Reconcilers : pc'[q] = IF q = p THEN l ELSE pc[q]
    BY <2>2
  <2> QED
    BY <2>1, <2>2, <2>3
<1>3. CASE PreArm(p)
  BY <1>3 DEF PreArm, PublishTerminal, Throw, service
<1>4. CASE ErrorArm(p)
  BY <1>4 DEF ErrorArm, ArmEffect, Remember, Return, records
<1>5. CASE ErrorFreeze(p)
  BY <1>5 DEF ErrorFreeze, Return, Throw, service
<1>6. CASE ErrorBind(p)
  BY <1>6 DEF ErrorBind, Publish, service
<1>7. CASE ErrorBound(p)
  BY <1>7 DEF ErrorBound, Publish, service
<1>8. CASE ErrorDecide(p)
  BY <1>8 DEF ErrorDecide, ErrorObey, Remember, Throw, records, service
<1>9. CASE ErrorElect(p)
  BY <1>9 DEF ErrorElect, ErrorObey, Elect, Throw, service
<1>10. CASE ErrorCancel(p)
  BY <1>10 DEF ErrorCancel, CancelAccepted, CancelEffect, Return, Throw,
               records
<1>11. CASE ErrorTerminal(p)
  BY <1>11 DEF ErrorTerminal, PublishTerminal, Throw, service
<1>12. CASE ErrorAttempt(p)
  BY <1>12 DEF ErrorAttempt, Publish, service
<1>13. CASE ErrorCommit(p)
  BY <1>13 DEF ErrorCommit, CommitEffect, Return, Throw, records, service
<1>14. CASE ErrorSuspend(p)
  BY <1>14 DEF ErrorSuspend, Return, Publish, service
<1> QED
  BY <1>1, <1>2, <1>3, <1>4, <1>5, <1>6, <1>7, <1>8, <1>9, <1>10, <1>11,
     <1>12, <1>13, <1>14
     DEF ErrorStep

\* The crash reconciler looks at armed calls only.
LEMMA CrashCourse ==
  ASSUME NEW p \in Supervisors, TypeInv, CourseInv, CrashStep(p)
  PROVE  CourseInv'
<1> p \in Reconcilers /\ p # Mcp
  BY HeldCallAssumption DEF Reconcilers
<1>0. /\ pc \in [Reconcilers -> Labels]
      /\ seen \in [Reconcilers -> Memories]
      /\ held \in [Reconcilers -> Dispositions \cup {"none"}]
      /\ authority \in CancelAuthorities \cup {"commit", "none"}
      /\ Mcp \in Reconcilers
  BY DEF TypeInv, TypeOK, Authorities, Reconcilers
<1> USE <1>0 DEF CourseInv, ArmInv, DeliveryInv, ArmedLabels, Abandoned,
                 LifecycleLabels, CrashLabels, Goto, memory
<1>1. CASE CrashBegin(p)
  BY <1>1 DEF CrashBegin, Publish, service
<1>2. CASE CrashRead(p)
  BY <1>2 DEF CrashRead, ExistingDisposition, Remember, Throw, readOnly,
              records, service
<1>3. CASE CrashArm(p)
  BY <1>3 DEF CrashArm, ArmEffect, Remember, records
<1>4. CASE CrashFreeze(p)
  BY <1>4 DEF CrashFreeze, service
<1>5. CASE CrashBind(p)
  BY <1>5 DEF CrashBind, CrashPublish, Publish, service
<1>6. CASE CrashBound(p)
  BY <1>6 DEF CrashBound, CrashPublish, Publish, service
<1>7. CASE CrashReady(p)
  BY <1>7 DEF CrashReady, CrashPublish, Publish, service
<1>8. CASE CrashDecide(p)
  BY <1>8 DEF CrashDecide, CrashObey, Remember, readOnly, records, service
<1>9. CASE CrashElect(p)
  BY <1>9 DEF CrashElect, CrashObey, Elect, service
<1>10. CASE CrashIntentArm(p)
  BY <1>10 DEF CrashIntentArm, CrashIntent, ExistingDisposition, Throw,
               service
<1>11. CASE CrashCancel(p)
  BY <1>11 DEF CrashCancel, CancelAccepted, CancelEffect, records
<1>12. CASE CrashTerminal(p)
  BY <1>12 DEF CrashTerminal, PublishTerminal, service
<1>13. CASE CrashCancelled(p)
  BY <1>13 DEF CrashCancelled, service
<1>14. CASE CrashAttempt(p)
  BY <1>14 DEF CrashAttempt, CrashPublish, Publish, service
<1>15. CASE CrashAuthority(p)
  BY <1>15 DEF CrashAuthority, Elect, service
<1>16. CASE CrashIntentCommit(p)
  BY <1>16 DEF CrashIntentCommit, CrashIntent, ExistingDisposition, Throw,
               service
<1>17. CASE CrashCommit(p)
  BY <1>17 DEF CrashCommit, CommitEffect, records
<1>18. CASE CrashSuspend(p)
  BY <1>18 DEF CrashSuspend, CrashPublish, Publish, service
<1>19. CASE CrashCommitted(p)
  BY <1>19 DEF CrashCommitted, service
<1>20. CASE Certify(p)
  BY <1>20 DEF Certify, CompletionProvable, PublishTerminal, service
<1> QED
  BY <1>1, <1>2, <1>3, <1>4, <1>5, <1>6, <1>7, <1>8, <1>9, <1>10, <1>11,
     <1>12, <1>13, <1>14, <1>15, <1>16, <1>17, <1>18, <1>19, <1>20
     DEF CrashStep

\* Every step keeps to the course.
LEMMA CourseStep ==
  ASSUME TypeInv, CourseInv, [Next]_vars
  PROVE  CourseInv'
<1>0. pc \in [Reconcilers -> Labels] /\ Mcp \in Reconcilers
  BY DEF TypeInv, TypeOK, Reconcilers
<1>1. ASSUME NEW p \in Reconcilers, Archive(p) PROVE CourseInv'
  BY <1>0, <1>1 DEF Archive, Return, Goto, service, memory, CourseInv, ArmInv,
     DeliveryInv, ArmedLabels, Abandoned, LifecycleLabels, CrashLabels
<1>2. ASSUME NEW p \in Reconcilers, Abandon(p) PROVE CourseInv'
  BY <1>0, <1>2 DEF Abandon, Throw, Goto, records, service, memory, CourseInv,
     ArmInv, DeliveryInv, ArmedLabels, Abandoned, LifecycleLabels, CrashLabels
<1>3. CASE WaiterStep
  BY <1>3, WaiterCourse
<1>4. CASE EventArrives \/ OriginAborts \/ InventoryArchives
  BY <1>4 DEF EventArrives, OriginAborts, InventoryArchives, records, service,
     memory, CourseInv, ArmInv, DeliveryInv, ArmedLabels, Abandoned,
     LifecycleLabels, CrashLabels
<1>5. CASE McpStep
  BY <1>1, <1>5, ErrorCourse DEF McpStep, Reconcilers
<1>6. ASSUME NEW p \in Supervisors, SupervisorStep(p) PROVE CourseInv'
  BY <1>1, <1>6, ErrorCourse, CrashCourse DEF SupervisorStep, Reconcilers
<1>7. CASE UNCHANGED vars
  BY <1>7 DEF vars, CourseInv, ArmInv, DeliveryInv, ArmedLabels, Abandoned,
     LifecycleLabels, CrashLabels
<1> QED
  BY <1>2, <1>3, <1>4, <1>5, <1>6, <1>7 DEF Next

-----------------------------------------------------------------------------
(* The terminal *)

\* What each terminal says stays true, and who is about to publish one, or to
\* release the call, may do so.
TerminalInv ==
  /\ terminal = "pre_arm_failed" =>
       /\ "toolErrorObservation" \in disk
       /\ "armAttempt" \in disk => overtaken
  /\ overtaken => terminal = "pre_arm_failed"
  /\ terminal = "remote_cancelled" =>
       remote = "cancelled" /\ authority \in CancelAuthorities
  /\ terminal = "completion_posted" =>
       /\ remote = "pending" /\ "suspensionCommitted" \in disk
       /\ originAborted \/ waiter = "returned"
  /\ \A p \in Reconcilers :
       pc[p] \in {"errorTerminal", "crashTerminal"} => remote = "cancelled"
  /\ archived => terminal # "none"
  /\ waiter = "released" =>
       terminal # "none" /\ (terminal = "completion_posted" => originAborted)

\* The waiter of a call that has a terminal does nothing that belies it.
LEMMA WaiterEnding ==
  ASSUME TypeInv, ElectionObeyed, CourseInv, TerminalInv, WaiterStep
  PROVE  TerminalInv'
<1>0. /\ pc \in [Reconcilers -> Labels]
      /\ seen \in [Reconcilers -> Memories]
      /\ held \in [Reconcilers -> Dispositions \cup {"none"}]
      /\ authority \in CancelAuthorities \cup {"commit", "none"}
      /\ Mcp \in Reconcilers
  BY DEF TypeInv, TypeOK, Authorities, Reconcilers
<1> USE <1>0 DEF TerminalInv, CourseInv, ArmInv, DeliveryInv, ElectionObeyed,
                 CancelLabels, CancelAuthorities, ArmedLabels, Abandoned,
                 LifecycleLabels, CrashLabels, Dispositions, waiterUnchanged,
                 memory
<1>1. CASE PrepareFails
  BY <1>1 DEF PrepareFails, service
<1>2. CASE PublishArmAttempt
  BY <1>2 DEF PublishArmAttempt, WaiterPublish, Publish, service
<1>3. CASE ArmAwait
  BY <1>3 DEF ArmAwait, Send, ArmEffect
<1>4. CASE PublishArmBinding
  BY <1>4 DEF PublishArmBinding, WaiterPublish, Publish, service
<1>5. CASE PublishBoundary
  BY <1>5 DEF PublishBoundary, WaiterPublish, Publish, service
<1>6. CASE PublishWaiterReady
  BY <1>6 DEF PublishWaiterReady, WaiterPublish, Publish, service
<1>7. CASE ElectCommit
  BY <1>7 DEF ElectCommit, Elect, service
<1>8. CASE PublishCommitAttempt
  BY <1>8 DEF PublishCommitAttempt, WaiterPublish, Publish, service
<1>9. CASE CommitAwait
  BY <1>9 DEF CommitAwait, Send, CommitEffect
<1>10. CASE PublishSuspension
  BY <1>10 DEF PublishSuspension, WaiterPublish, Publish, service
<1>11. CASE WaitForAwait
  BY <1>11 DEF WaitForAwait, service
<1>12. CASE PublishWakeDelivery
  BY <1>12 DEF PublishWakeDelivery, WaiterPublish, Publish, service
<1>13. CASE PublishObservationIntent
  BY <1>13 DEF PublishObservationIntent, WaiterPublish, Publish, service
<1>14. CASE PublishToolError
  BY <1>14 DEF PublishToolError, Publish, service
<1>15. CASE PublishToolErrorObservation
  BY <1>15 DEF PublishToolErrorObservation, Publish, service
<1>16. CASE WaiterStops
  BY <1>16 DEF WaiterStops, service
<1> QED
  BY <1>1, <1>2, <1>3, <1>4, <1>5, <1>6, <1>7, <1>8, <1>9, <1>10, <1>11,
     <1>12, <1>13, <1>14, <1>15, <1>16
     DEF WaiterStep

\* The lifecycle publishes what it knows of the service.
LEMMA ErrorEnding ==
  ASSUME NEW p \in Reconcilers, TypeInv, ElectionObeyed, CourseInv,
         TerminalInv, ErrorStep(p)
  PROVE  TerminalInv'
<1>0. /\ pc \in [Reconcilers -> Labels]
      /\ seen \in [Reconcilers -> Memories]
      /\ held \in [Reconcilers -> Dispositions \cup {"none"}]
      /\ authority \in CancelAuthorities \cup {"commit", "none"}
      /\ Mcp \in Reconcilers
  BY DEF TypeInv, TypeOK, Authorities, Reconcilers
<1> USE <1>0 DEF TerminalInv, CourseInv, ArmInv, DeliveryInv, ElectionObeyed,
                 CancelLabels, CancelAuthorities, ArmedLabels, Abandoned,
                 LifecycleLabels, CrashLabels, Dispositions, Goto, memory
<1>1. CASE ErrorBegin(p)
  BY <1>1 DEF ErrorBegin, Remember, records, service
<1>2. CASE ErrorRead(p)
  BY <1>2 DEF ErrorRead, ErrorDisposition, NeverArmed, SawAttempt, Return,
              records, service
<1>3. CASE PreArm(p)
  <2>1. /\ UNCHANGED <<disk, archived, remote, originAborted, authority>>
        /\ pc[p] = "preArm" /\ "toolErrorObservation" \in disk
        /\ ~SawAttempt(p)
        /\ terminal' = IF terminal = "none" THEN "pre_arm_failed" ELSE terminal
        /\ waiter' = waiter \/ waiter' = "stopped"
    BY <1>3 DEF PreArm, PublishTerminal, Throw, service, SawAttempt
  <2>2. PICK l \in {"idle", "archive"} : Goto(p, l)
    BY <1>3 DEF PreArm, Throw
  <2>3. \A q \in Reconcilers : pc'[q] = IF q = p THEN l ELSE pc[q]
    BY <2>2
  <2>4. CASE terminal = "none"
    <3>1. /\ terminal' = "pre_arm_failed"
          /\ overtaken' = (overtaken \/ "armAttempt" \in disk)
      BY <1>3, <2>1, <2>4 DEF PreArm
    <3> QED
      BY <2>1, <2>3, <2>4, <3>1
  <2>5. CASE terminal # "none"
    <3>1. terminal' = terminal /\ overtaken' = overtaken
      BY <1>3, <2>1, <2>5 DEF PreArm, TypeInv, TypeOK
    <3>2. waiter \in {"reconciling", "released", "stopped"}
      BY <2>1
    <3> QED
      BY <2>1, <2>3, <2>5, <3>1, <3>2
  <2> QED
    BY <2>4, <2>5
<1>4. CASE ErrorArm(p)
  BY <1>4 DEF ErrorArm, ArmEffect, Remember, Return, records
<1>5. CASE ErrorFreeze(p)
  BY <1>5 DEF ErrorFreeze, Return, Throw, service
<1>6. CASE ErrorBind(p)
  BY <1>6 DEF ErrorBind, Publish, service
<1>7. CASE ErrorBound(p)
  BY <1>7 DEF ErrorBound, Publish, service
<1>8. CASE ErrorDecide(p)
  BY <1>8 DEF ErrorDecide, ErrorObey, Remember, Throw, records, service
<1>9. CASE ErrorElect(p)
  BY <1>9 DEF ErrorElect, ErrorObey, Elect, Throw, service
<1>10. CASE ErrorCancel(p)
  BY <1>10 DEF ErrorCancel, CancelAccepted, CancelEffect, Return, Throw,
               records
<1>11. CASE ErrorTerminal(p)
  BY <1>11 DEF ErrorTerminal, PublishTerminal, Throw, service
<1>12. CASE ErrorAttempt(p)
  BY <1>12 DEF ErrorAttempt, Publish, service
<1>13. CASE ErrorCommit(p)
  BY <1>13 DEF ErrorCommit, CommitEffect, Return, Throw, records, service
<1>14. CASE ErrorSuspend(p)
  BY <1>14 DEF ErrorSuspend, Return, Publish, service
<1> QED
  BY <1>1, <1>2, <1>3, <1>4, <1>5, <1>6, <1>7, <1>8, <1>9, <1>10, <1>11,
     <1>12, <1>13, <1>14
     DEF ErrorStep

\* So does the crash reconciler.
LEMMA CrashEnding ==
  ASSUME NEW p \in Supervisors, TypeInv, ElectionObeyed, CourseInv,
         TerminalInv, CrashStep(p)
  PROVE  TerminalInv'
<1> p \in Reconcilers /\ p # Mcp
  BY HeldCallAssumption DEF Reconcilers
<1>0. /\ pc \in [Reconcilers -> Labels]
      /\ seen \in [Reconcilers -> Memories]
      /\ held \in [Reconcilers -> Dispositions \cup {"none"}]
      /\ authority \in CancelAuthorities \cup {"commit", "none"}
      /\ Mcp \in Reconcilers
  BY DEF TypeInv, TypeOK, Authorities, Reconcilers
<1> USE <1>0 DEF TerminalInv, CourseInv, ArmInv, DeliveryInv, ElectionObeyed,
                 CancelLabels, CancelAuthorities, ArmedLabels, Abandoned,
                 LifecycleLabels, CrashLabels, Dispositions, Goto, memory
<1>1. CASE CrashBegin(p)
  BY <1>1 DEF CrashBegin, Publish, service
<1>2. CASE CrashRead(p)
  BY <1>2 DEF CrashRead, ExistingDisposition, Remember, Throw, readOnly,
              records, service
<1>3. CASE CrashArm(p)
  BY <1>3 DEF CrashArm, ArmEffect, Remember, records
<1>4. CASE CrashFreeze(p)
  BY <1>4 DEF CrashFreeze, service
<1>5. CASE CrashBind(p)
  BY <1>5 DEF CrashBind, CrashPublish, Publish, service
<1>6. CASE CrashBound(p)
  BY <1>6 DEF CrashBound, CrashPublish, Publish, service
<1>7. CASE CrashReady(p)
  BY <1>7 DEF CrashReady, CrashPublish, Publish, service
<1>8. CASE CrashDecide(p)
  BY <1>8 DEF CrashDecide, CrashObey, Remember, readOnly, records, service
<1>9. CASE CrashElect(p)
  BY <1>9 DEF CrashElect, CrashObey, Elect, service
<1>10. CASE CrashIntentArm(p)
  BY <1>10 DEF CrashIntentArm, CrashIntent, ExistingDisposition, Throw,
               service
<1>11. CASE CrashCancel(p)
  BY <1>11 DEF CrashCancel, CancelAccepted, CancelEffect, records
<1>12. CASE CrashTerminal(p)
  BY <1>12 DEF CrashTerminal, PublishTerminal, service
<1>13. CASE CrashCancelled(p)
  BY <1>13 DEF CrashCancelled, service
<1>14. CASE CrashAttempt(p)
  BY <1>14 DEF CrashAttempt, CrashPublish, Publish, service
<1>15. CASE CrashAuthority(p)
  BY <1>15 DEF CrashAuthority, Elect, service
<1>16. CASE CrashIntentCommit(p)
  BY <1>16 DEF CrashIntentCommit, CrashIntent, ExistingDisposition, Throw,
               service
<1>17. CASE CrashCommit(p)
  BY <1>17 DEF CrashCommit, CommitEffect, records
<1>18. CASE CrashSuspend(p)
  BY <1>18 DEF CrashSuspend, CrashPublish, Publish, service
<1>19. CASE CrashCommitted(p)
  BY <1>19 DEF CrashCommitted, service
<1>20. CASE Certify(p)
  BY <1>20 DEF Certify, CompletionProvable, PublishTerminal, service
<1> QED
  BY <1>1, <1>2, <1>3, <1>4, <1>5, <1>6, <1>7, <1>8, <1>9, <1>10, <1>11,
     <1>12, <1>13, <1>14, <1>15, <1>16, <1>17, <1>18, <1>19, <1>20
     DEF CrashStep

\* No step belies a terminal.
LEMMA EndingStep ==
  ASSUME TypeInv, ElectionObeyed, CourseInv, TerminalInv, [Next]_vars
  PROVE  TerminalInv'
<1>0. pc \in [Reconcilers -> Labels] /\ Mcp \in Reconcilers
  BY DEF TypeInv, TypeOK, Reconcilers
<1>1. ASSUME NEW p \in Reconcilers, Archive(p) PROVE TerminalInv'
  BY <1>0, <1>1 DEF Archive, Return, Goto, service, memory, TerminalInv,
     CourseInv, ArmInv, DeliveryInv, ElectionObeyed, CancelLabels,
     CancelAuthorities, ArmedLabels, Abandoned, LifecycleLabels, CrashLabels,
     Dispositions
<1>2. ASSUME NEW p \in Reconcilers, Abandon(p) PROVE TerminalInv'
  BY <1>0, <1>2 DEF Abandon, Throw, Goto, records, service, memory,
     TerminalInv, CourseInv, ArmInv, DeliveryInv, ElectionObeyed,
     CancelLabels, CancelAuthorities, ArmedLabels, Abandoned, LifecycleLabels,
     CrashLabels, Dispositions
<1>3. CASE WaiterStep
  BY <1>3, WaiterEnding
<1>4. CASE EventArrives \/ OriginAborts \/ InventoryArchives
  BY <1>4 DEF EventArrives, OriginAborts, InventoryArchives, records, service,
     memory, TerminalInv, CourseInv, ArmInv, DeliveryInv, ElectionObeyed,
     CancelLabels, CancelAuthorities, ArmedLabels, Abandoned, LifecycleLabels,
     CrashLabels, Dispositions
<1>5. CASE McpStep
  BY <1>1, <1>5, ErrorEnding DEF McpStep, Reconcilers
<1>6. ASSUME NEW p \in Supervisors, SupervisorStep(p) PROVE TerminalInv'
  BY <1>1, <1>6, ErrorEnding, CrashEnding DEF SupervisorStep, Reconcilers
<1>7. CASE UNCHANGED vars
  BY <1>7 DEF vars, TerminalInv, CourseInv, ArmInv, DeliveryInv,
     ElectionObeyed, CancelLabels, CancelAuthorities, ArmedLabels, Abandoned,
     LifecycleLabels, CrashLabels, Dispositions
<1> QED
  BY <1>2, <1>3, <1>4, <1>5, <1>6, <1>7 DEF Next

-----------------------------------------------------------------------------
(* What the crash reconciler says it applied *)

\* It is past its intent when it acts, and past its act when it says so.
AppliedInv ==
  /\ AppliedMatchesService
  /\ \A p \in Reconcilers :
       /\ pc[p] \in {"crashCancel", "crashTerminal", "crashCancelled"} =>
            intent = "arm"
       /\ pc[p] = "crashCancelled" => terminal = "remote_cancelled"
       /\ pc[p] \in {"crashCommit", "crashSuspend", "crashCommitted"} =>
            intent = "commit"
       /\ pc[p] = "crashCommitted" => "suspensionCommitted" \in disk

\* The waiter takes no part in it.
LEMMA WaiterApplied ==
  ASSUME TypeInv, AppliedInv, WaiterStep
  PROVE  AppliedInv'
<1>0. /\ pc \in [Reconcilers -> Labels]
      /\ seen \in [Reconcilers -> Memories]
      /\ held \in [Reconcilers -> Dispositions \cup {"none"}]
      /\ authority \in CancelAuthorities \cup {"commit", "none"}
      /\ Mcp \in Reconcilers
  BY DEF TypeInv, TypeOK, Authorities, Reconcilers
<1> USE <1>0 DEF AppliedInv, AppliedMatchesService, waiterUnchanged, memory
<1>1. CASE PrepareFails
  BY <1>1 DEF PrepareFails, service
<1>2. CASE PublishArmAttempt
  BY <1>2 DEF PublishArmAttempt, WaiterPublish, Publish, service
<1>3. CASE ArmAwait
  BY <1>3 DEF ArmAwait, Send, ArmEffect
<1>4. CASE PublishArmBinding
  BY <1>4 DEF PublishArmBinding, WaiterPublish, Publish, service
<1>5. CASE PublishBoundary
  BY <1>5 DEF PublishBoundary, WaiterPublish, Publish, service
<1>6. CASE PublishWaiterReady
  BY <1>6 DEF PublishWaiterReady, WaiterPublish, Publish, service
<1>7. CASE ElectCommit
  BY <1>7 DEF ElectCommit, Elect, service
<1>8. CASE PublishCommitAttempt
  BY <1>8 DEF PublishCommitAttempt, WaiterPublish, Publish, service
<1>9. CASE CommitAwait
  BY <1>9 DEF CommitAwait, Send, CommitEffect
<1>10. CASE PublishSuspension
  BY <1>10 DEF PublishSuspension, WaiterPublish, Publish, service
<1>11. CASE WaitForAwait
  BY <1>11 DEF WaitForAwait, service
<1>12. CASE PublishWakeDelivery
  BY <1>12 DEF PublishWakeDelivery, WaiterPublish, Publish, service
<1>13. CASE PublishObservationIntent
  BY <1>13 DEF PublishObservationIntent, WaiterPublish, Publish, service
<1>14. CASE PublishToolError
  BY <1>14 DEF PublishToolError, Publish, service
<1>15. CASE PublishToolErrorObservation
  BY <1>15 DEF PublishToolErrorObservation, Publish, service
<1>16. CASE WaiterStops
  BY <1>16 DEF WaiterStops, service
<1> QED
  BY <1>1, <1>2, <1>3, <1>4, <1>5, <1>6, <1>7, <1>8, <1>9, <1>10, <1>11,
     <1>12, <1>13, <1>14, <1>15, <1>16
     DEF WaiterStep

\* Nor does the lifecycle, except that it may publish the same terminal.
LEMMA ErrorApplied ==
  ASSUME NEW p \in Reconcilers, TypeInv, AppliedInv, ErrorStep(p)
  PROVE  AppliedInv'
<1>0. /\ pc \in [Reconcilers -> Labels]
      /\ seen \in [Reconcilers -> Memories]
      /\ held \in [Reconcilers -> Dispositions \cup {"none"}]
      /\ authority \in CancelAuthorities \cup {"commit", "none"}
      /\ Mcp \in Reconcilers
  BY DEF TypeInv, TypeOK, Authorities, Reconcilers
<1> USE <1>0 DEF AppliedInv, AppliedMatchesService, Goto, memory
<1>1. CASE ErrorBegin(p)
  BY <1>1 DEF ErrorBegin, Remember, records, service
<1>2. CASE ErrorRead(p)
  BY <1>2 DEF ErrorRead, ErrorDisposition, NeverArmed, SawAttempt, Return,
              records, service
<1>3. CASE PreArm(p)
  BY <1>3 DEF PreArm, PublishTerminal, Throw, service
<1>4. CASE ErrorArm(p)
  BY <1>4 DEF ErrorArm, ArmEffect, Remember, Return, records
<1>5. CASE ErrorFreeze(p)
  BY <1>5 DEF ErrorFreeze, Return, Throw, service
<1>6. CASE ErrorBind(p)
  BY <1>6 DEF ErrorBind, Publish, service
<1>7. CASE ErrorBound(p)
  BY <1>7 DEF ErrorBound, Publish, service
<1>8. CASE ErrorDecide(p)
  BY <1>8 DEF ErrorDecide, ErrorObey, Remember, Throw, records, service
<1>9. CASE ErrorElect(p)
  BY <1>9 DEF ErrorElect, ErrorObey, Elect, Throw, service
<1>10. CASE ErrorCancel(p)
  BY <1>10 DEF ErrorCancel, CancelAccepted, CancelEffect, Return, Throw,
               records
<1>11. CASE ErrorTerminal(p)
  BY <1>11 DEF ErrorTerminal, PublishTerminal, Throw, service
<1>12. CASE ErrorAttempt(p)
  BY <1>12 DEF ErrorAttempt, Publish, service
<1>13. CASE ErrorCommit(p)
  BY <1>13 DEF ErrorCommit, CommitEffect, Return, Throw, records, service
<1>14. CASE ErrorSuspend(p)
  BY <1>14 DEF ErrorSuspend, Return, Publish, service
<1> QED
  BY <1>1, <1>2, <1>3, <1>4, <1>5, <1>6, <1>7, <1>8, <1>9, <1>10, <1>11,
     <1>12, <1>13, <1>14
     DEF ErrorStep

\* Each record follows the one before it.
LEMMA CrashApplied ==
  ASSUME NEW p \in Supervisors, TypeInv, AppliedInv, CrashStep(p)
  PROVE  AppliedInv'
<1> p \in Reconcilers /\ p # Mcp
  BY HeldCallAssumption DEF Reconcilers
<1>0. /\ pc \in [Reconcilers -> Labels]
      /\ seen \in [Reconcilers -> Memories]
      /\ held \in [Reconcilers -> Dispositions \cup {"none"}]
      /\ authority \in CancelAuthorities \cup {"commit", "none"}
      /\ Mcp \in Reconcilers
  BY DEF TypeInv, TypeOK, Authorities, Reconcilers
<1> USE <1>0 DEF AppliedInv, AppliedMatchesService, Goto, memory
<1>1. CASE CrashBegin(p)
  BY <1>1 DEF CrashBegin, Publish, service
<1>2. CASE CrashRead(p)
  BY <1>2 DEF CrashRead, ExistingDisposition, Remember, Throw, readOnly,
              records, service
<1>3. CASE CrashArm(p)
  BY <1>3 DEF CrashArm, ArmEffect, Remember, records
<1>4. CASE CrashFreeze(p)
  BY <1>4 DEF CrashFreeze, service
<1>5. CASE CrashBind(p)
  BY <1>5 DEF CrashBind, CrashPublish, Publish, service
<1>6. CASE CrashBound(p)
  BY <1>6 DEF CrashBound, CrashPublish, Publish, service
<1>7. CASE CrashReady(p)
  BY <1>7 DEF CrashReady, CrashPublish, Publish, service
<1>8. CASE CrashDecide(p)
  BY <1>8 DEF CrashDecide, CrashObey, Remember, readOnly, records, service
<1>9. CASE CrashElect(p)
  BY <1>9 DEF CrashElect, CrashObey, Elect, service
<1>10. CASE CrashIntentArm(p)
  BY <1>10 DEF CrashIntentArm, CrashIntent, ExistingDisposition, Throw,
               service
<1>11. CASE CrashCancel(p)
  BY <1>11 DEF CrashCancel, CancelAccepted, CancelEffect, records
<1>12. CASE CrashTerminal(p)
  BY <1>12 DEF CrashTerminal, PublishTerminal, service
<1>13. CASE CrashCancelled(p)
  BY <1>13 DEF CrashCancelled, service
<1>14. CASE CrashAttempt(p)
  BY <1>14 DEF CrashAttempt, CrashPublish, Publish, service
<1>15. CASE CrashAuthority(p)
  BY <1>15 DEF CrashAuthority, Elect, service
<1>16. CASE CrashIntentCommit(p)
  BY <1>16 DEF CrashIntentCommit, CrashIntent, ExistingDisposition, Throw,
               service
<1>17. CASE CrashCommit(p)
  BY <1>17 DEF CrashCommit, CommitEffect, records
<1>18. CASE CrashSuspend(p)
  BY <1>18 DEF CrashSuspend, CrashPublish, Publish, service
<1>19. CASE CrashCommitted(p)
  BY <1>19 DEF CrashCommitted, service
<1>20. CASE Certify(p)
  BY <1>20 DEF Certify, CompletionProvable, PublishTerminal, service
<1> QED
  BY <1>1, <1>2, <1>3, <1>4, <1>5, <1>6, <1>7, <1>8, <1>9, <1>10, <1>11,
     <1>12, <1>13, <1>14, <1>15, <1>16, <1>17, <1>18, <1>19, <1>20
     DEF CrashStep

\* No step belies an applied record.
LEMMA AppliedStep ==
  ASSUME TypeInv, AppliedInv, [Next]_vars
  PROVE  AppliedInv'
<1>0. pc \in [Reconcilers -> Labels] /\ Mcp \in Reconcilers
  BY DEF TypeInv, TypeOK, Reconcilers
<1>1. ASSUME NEW p \in Reconcilers, Archive(p) PROVE AppliedInv'
  BY <1>0, <1>1 DEF Archive, Return, Goto, service, memory, AppliedInv,
     AppliedMatchesService
<1>2. ASSUME NEW p \in Reconcilers, Abandon(p) PROVE AppliedInv'
  BY <1>0, <1>2 DEF Abandon, Throw, Goto, records, service, memory,
     AppliedInv, AppliedMatchesService
<1>3. CASE WaiterStep
  BY <1>3, WaiterApplied
<1>4. CASE EventArrives \/ OriginAborts \/ InventoryArchives
  BY <1>4 DEF EventArrives, OriginAborts, InventoryArchives, records, service,
     memory, AppliedInv, AppliedMatchesService
<1>5. CASE McpStep
  BY <1>1, <1>5, ErrorApplied DEF McpStep, Reconcilers
<1>6. ASSUME NEW p \in Supervisors, SupervisorStep(p) PROVE AppliedInv'
  BY <1>1, <1>6, ErrorApplied, CrashApplied DEF SupervisorStep, Reconcilers
<1>7. CASE UNCHANGED vars
  BY <1>7 DEF vars, AppliedInv, AppliedMatchesService
<1> QED
  BY <1>2, <1>3, <1>4, <1>5, <1>6, <1>7 DEF Next

-----------------------------------------------------------------------------
(* When the call leaves the spool.  One supervisor alone: of two, one may    *)
(* archive the call while the other has still to say what it applied.        *)

Alone == \A p, q \in Supervisors : p = q

\* A crash reconciliation began, has not been recorded as applied, and is not
\* the error lifecycle's to finish.
Outstanding ==
  /\ intent # "none" /\ applied = "none"
  /\ ~(intent = "arm" /\ "toolErrorObservation" \in disk)

\* Between the reading of the records and the intent, and after it.
ActingLabels == CrashLabels \ {"crash", "crashRead"}

\* Nothing is outstanding where a pass is about to archive, and no pass acts
\* on a call that another one closed.
ArchiveInv ==
  /\ intent # "none" => "armAttempt" \in disk /\ originAborted
  /\ waiter = "reconciling" => "toolErrorObservation" \in disk
  /\ archived => ~Outstanding
  /\ archived => \/ "toolErrorObservation" \in disk
                 \/ \A p \in Supervisors : pc[p] = "idle"
  /\ terminal = "pre_arm_failed" => intent = "none"
  /\ terminal \in {"pre_arm_failed", "completion_posted"} /\ intent = "none" =>
       \A p \in Supervisors : pc[p] \notin ActingLabels
  /\ \A p \in Supervisors :
       pc[p] = "certify" => intent = "none" \/ applied # "none"
  /\ \A p \in Reconcilers :
       /\ pc[p] \in {"errorCancel", "errorTerminal"} =>
            "toolErrorObservation" \in disk
       /\ pc[p] = "archive" => terminal # "none" /\ ~Outstanding
       /\ held[p] # "none" => terminal # "none"
       /\ pc[p] \in {"errorRead", "preArm"} /\ seen[p] = "nothing" =>
            intent = "none"

\* A pass that returns or throws goes back to its caller.
LEMMA Returning ==
  ASSUME NEW p, NEW kind, Return(p, kind)
  PROVE  \E l \in {"idle", "crash"} :
           Goto(p, l) /\ (waiter' = "reconciling" => waiter = "reconciling")
BY DEF Return

\* A pass that throws goes back to the next pass.
LEMMA Throwing ==
  ASSUME NEW p, Throw(p)
  PROVE  Goto(p, "idle") /\ (waiter' = "reconciling" => waiter = "reconciling")
BY DEF Throw

\* A step that only moves on, to a label that closes nothing.
LEMMA ArchiveFrame ==
  ASSUME TypeInv, Alone, ArchiveInv, NEW p \in Reconcilers, NEW l, Goto(p, l),
         l \notin {"certify", "archive", "errorRead"} \cup ActingLabels,
         l = "preArm" => intent = "none",
         \A q \in Reconcilers : q # p => seen'[q] = seen[q],
         l \in {"errorCancel", "errorTerminal"} =>
           "toolErrorObservation" \in disk',
         pc[p] # "idle",
         waiter' = "reconciling" => waiter = "reconciling",
         disk \subseteq disk',
         UNCHANGED <<intent, applied, terminal, archived, originAborted, held>>
  PROVE  ArchiveInv'
<1>1. pc \in [Reconcilers -> Labels] /\ Supervisors \subseteq Reconcilers
  BY DEF TypeInv, TypeOK, Reconcilers
<1>2. \A q \in Reconcilers : pc'[q] = IF q = p THEN l ELSE pc[q]
  BY <1>1 DEF Goto
<1>3. ~Outstanding => ~Outstanding'
  BY DEF Outstanding
<1>4. archived => \/ "toolErrorObservation" \in disk
                  \/ \A q \in Supervisors : pc'[q] = "idle"
  BY <1>1, <1>2 DEF ArchiveInv, Alone
<1> QED
  BY <1>1, <1>2, <1>3, <1>4 DEF ArchiveInv, ActingLabels

\* The waiter archives nothing.
LEMMA WaiterArchive ==
  ASSUME TypeInv, Alone, ElectionObeyed, EvidenceInv, CourseInv, TerminalInv,
         AppliedInv, ArchiveInv, WaiterStep
  PROVE  ArchiveInv'
<1>0. /\ pc \in [Reconcilers -> Labels]
      /\ seen \in [Reconcilers -> Memories]
      /\ held \in [Reconcilers -> Dispositions \cup {"none"}]
      /\ authority \in CancelAuthorities \cup {"commit", "none"}
      /\ Mcp \in Reconcilers
  BY DEF TypeInv, TypeOK, Authorities, Reconcilers
<1> USE <1>0 DEF ArchiveInv, Alone, Outstanding, ActingLabels, TerminalInv,
                 CourseInv, ArmInv, DeliveryInv, AppliedInv, ElectionObeyed,
                 EvidenceInv, EvidenceFirst, IntentFollowsAuthority,
                 CommitLabels, CancelLabels, CancelAuthorities,
                 CrashOwnerLabels, ErrorOwnerLabels, ArmedLabels, Abandoned,
                 LifecycleLabels, CrashLabels, Dispositions, waiterUnchanged,
                 memory
<1>1. CASE PrepareFails
  BY <1>1 DEF PrepareFails, service
<1>2. CASE PublishArmAttempt
  BY <1>2 DEF PublishArmAttempt, WaiterPublish, Publish, service
<1>3. CASE ArmAwait
  BY <1>3 DEF ArmAwait, Send, ArmEffect
<1>4. CASE PublishArmBinding
  BY <1>4 DEF PublishArmBinding, WaiterPublish, Publish, service
<1>5. CASE PublishBoundary
  BY <1>5 DEF PublishBoundary, WaiterPublish, Publish, service
<1>6. CASE PublishWaiterReady
  BY <1>6 DEF PublishWaiterReady, WaiterPublish, Publish, service
<1>7. CASE ElectCommit
  BY <1>7 DEF ElectCommit, Elect, service
<1>8. CASE PublishCommitAttempt
  BY <1>8 DEF PublishCommitAttempt, WaiterPublish, Publish, service
<1>9. CASE CommitAwait
  BY <1>9 DEF CommitAwait, Send, CommitEffect
<1>10. CASE PublishSuspension
  BY <1>10 DEF PublishSuspension, WaiterPublish, Publish, service
<1>11. CASE WaitForAwait
  BY <1>11 DEF WaitForAwait, service
<1>12. CASE PublishWakeDelivery
  BY <1>12 DEF PublishWakeDelivery, WaiterPublish, Publish, service
<1>13. CASE PublishObservationIntent
  BY <1>13 DEF PublishObservationIntent, WaiterPublish, Publish, service
<1>14. CASE PublishToolError
  BY <1>14 DEF PublishToolError, Publish, service
<1>15. CASE PublishToolErrorObservation
  BY <1>15 DEF PublishToolErrorObservation, Publish, service
<1>16. CASE WaiterStops
  BY <1>16 DEF WaiterStops, service
<1> QED
  BY <1>1, <1>2, <1>3, <1>4, <1>5, <1>6, <1>7, <1>8, <1>9, <1>10, <1>11,
     <1>12, <1>13, <1>14, <1>15, <1>16
     DEF WaiterStep

\* The lifecycle leaves a call alone that the crash reconciler began.
LEMMA ErrorArchive ==
  ASSUME NEW p \in Reconcilers, TypeInv, Alone, ElectionObeyed, EvidenceInv,
         CourseInv, TerminalInv, AppliedInv, ArchiveInv, ErrorStep(p)
  PROVE  ArchiveInv'
<1>0. /\ pc \in [Reconcilers -> Labels]
      /\ seen \in [Reconcilers -> Memories]
      /\ held \in [Reconcilers -> Dispositions \cup {"none"}]
      /\ authority \in CancelAuthorities \cup {"commit", "none"}
      /\ Mcp \in Reconcilers
  BY DEF TypeInv, TypeOK, Authorities, Reconcilers
<1> USE <1>0 DEF ArchiveInv, Alone, Outstanding, ActingLabels, TerminalInv,
                 CourseInv, ArmInv, DeliveryInv, AppliedInv, ElectionObeyed,
                 EvidenceInv, EvidenceFirst, IntentFollowsAuthority,
                 CommitLabels, CancelLabels, CancelAuthorities,
                 CrashOwnerLabels, ErrorOwnerLabels, ArmedLabels, Abandoned,
                 LifecycleLabels, CrashLabels, Dispositions, Goto, memory
<1>1. CASE ErrorBegin(p)
  BY <1>1 DEF ErrorBegin, Remember, records, service
<1>2. CASE ErrorRead(p)
  <2>0. /\ UNCHANGED records /\ UNCHANGED originAborted
        /\ UNCHANGED <<held, seen>> /\ pc[p] = "errorRead"
        /\ seen[p] = "armAttempt" \/ (seen[p] = "nothing" /\ intent = "none")
    BY <1>2 DEF ErrorRead, memory
  <2>1. CASE Goto(p, "archive") /\ UNCHANGED waiter /\ terminal # "none"
    <3>1. ~Outstanding
      BY <1>2, <2>0, <2>1
         DEF ErrorRead, ErrorDisposition, ReconciliationPending, SawAttempt,
             Return
    <3>2. \A q \in Reconcilers : pc'[q] = IF q = p THEN "archive" ELSE pc[q]
      BY <2>1
    <3> QED
      BY <2>0, <2>1, <3>1, <3>2 DEF records, Reconcilers
  <2>2. CASE ~(Goto(p, "archive") /\ UNCHANGED waiter /\ terminal # "none")
    <3>1. PICK l \in {"idle", "crash", "preArm", "errorBound", "errorArm"} :
            /\ Goto(p, l)
            /\ waiter' = "reconciling" => waiter = "reconciling"
            /\ l = "preArm" => intent = "none"
      BY <1>2, <2>0, <2>2, Returning
         DEF ErrorRead, ErrorDisposition, NeverArmed, SawAttempt
    <3> QED
      BY ArchiveFrame, <2>0, <3>1 DEF ActingLabels, CrashLabels, records
  <2> QED
    BY <2>1, <2>2
<1>3. CASE PreArm(p)
  <2>1. /\ UNCHANGED <<disk, intent, applied, archived, originAborted, held, seen>>
        /\ pc[p] = "preArm" /\ seen[p] = "nothing" /\ intent = "none"
        /\ "toolErrorObservation" \in disk
        /\ terminal' # "none"
        /\ terminal' = IF terminal = "none" THEN "pre_arm_failed" ELSE terminal
    BY <1>3 DEF PreArm, PublishTerminal
  <2>2. PICK l \in {"idle", "archive"} :
          /\ Goto(p, l)
          /\ waiter' = "reconciling" => waiter = "reconciling"
    BY <1>3, Throwing DEF PreArm
  <2>3. \A q \in Reconcilers : pc'[q] = IF q = p THEN l ELSE pc[q]
    BY <2>2
  <2>4. \A q \in Supervisors : pc'[q] \notin ActingLabels
    <3>1. CASE p = Mcp
      BY <2>1, <2>3, <3>1, HeldCallAssumption DEF Reconcilers
    <3>2. CASE p # Mcp
      BY <2>3, <3>2 DEF Reconcilers
    <3> QED
      BY <3>1, <3>2
  <2> QED
    BY <2>1, <2>2, <2>3, <2>4 DEF Reconcilers
<1>4. CASE ErrorArm(p)
  <2>1. PICK l \in {"idle", "crash", "errorBind", "errorFreeze"} :
          /\ Goto(p, l)
          /\ waiter' = "reconciling" => waiter = "reconciling"
    BY <1>4, Returning, Throwing DEF ErrorArm
  <2>2. /\ disk \subseteq disk' /\ pc[p] # "idle"
        /\ UNCHANGED <<intent, applied, terminal, archived, originAborted, held>>
        /\ \A q \in Reconcilers : q # p => seen'[q] = seen[q]
    BY <1>4 DEF ErrorArm, Remember, records
  <2> QED
    BY ArchiveFrame, <2>1, <2>2 DEF ActingLabels, CrashLabels
<1>5. CASE ErrorFreeze(p)
  <2>1. PICK l \in {"idle", "crash"} :
          /\ Goto(p, l)
          /\ waiter' = "reconciling" => waiter = "reconciling"
    BY <1>5, Returning, Throwing DEF ErrorFreeze
  <2>2. /\ disk \subseteq disk' /\ pc[p] # "idle"
        /\ UNCHANGED <<intent, applied, terminal, archived, originAborted, held>>
        /\ \A q \in Reconcilers : q # p => seen'[q] = seen[q]
    BY <1>5 DEF ErrorFreeze, records, memory
  <2> QED
    BY ArchiveFrame, <2>1, <2>2 DEF ActingLabels, CrashLabels
<1>6. CASE ErrorBind(p)
  BY <1>6 DEF ErrorBind, Publish, service
<1>7. CASE ErrorBound(p)
  BY <1>7 DEF ErrorBound, Publish, service
<1>8. CASE ErrorDecide(p)
  <2>1. PICK l \in {"idle", "crash", "errorElect", "errorAttempt", "errorCancel"} :
          /\ Goto(p, l)
          /\ waiter' = "reconciling" => waiter = "reconciling"
    BY <1>8, Returning, Throwing DEF ErrorDecide, ErrorObey
  <2>2. /\ disk \subseteq disk' /\ pc[p] # "idle"
        /\ UNCHANGED <<intent, applied, terminal, archived, originAborted, held>>
        /\ \A q \in Reconcilers : q # p => seen'[q] = seen[q]
    BY <1>8 DEF ErrorDecide, Remember, records
  <2>3. "toolErrorObservation" \in disk'
    BY <1>8 DEF ErrorDecide, records
  <2> QED
    BY ArchiveFrame, <2>1, <2>2, <2>3 DEF ActingLabels, CrashLabels
<1>9. CASE ErrorElect(p)
  <2>1. PICK l \in {"idle", "crash", "errorAttempt", "errorCancel"} :
          /\ Goto(p, l)
          /\ waiter' = "reconciling" => waiter = "reconciling"
    BY <1>9, Returning, Throwing DEF ErrorElect, ErrorObey
  <2>2. /\ disk \subseteq disk' /\ pc[p] # "idle"
        /\ UNCHANGED <<intent, applied, terminal, archived, originAborted, held>>
        /\ \A q \in Reconcilers : q # p => seen'[q] = seen[q]
    BY <1>9 DEF ErrorElect, records, memory
  <2>3. "toolErrorObservation" \in disk'
    BY <1>9 DEF ErrorElect, records
  <2> QED
    BY ArchiveFrame, <2>1, <2>2, <2>3 DEF ActingLabels, CrashLabels
<1>10. CASE ErrorCancel(p)
  <2>1. PICK l \in {"idle", "crash", "errorTerminal"} :
          /\ Goto(p, l)
          /\ waiter' = "reconciling" => waiter = "reconciling"
    BY <1>10, Returning, Throwing DEF ErrorCancel
  <2>2. /\ disk \subseteq disk' /\ pc[p] # "idle"
        /\ UNCHANGED <<intent, applied, terminal, archived, originAborted, held>>
        /\ \A q \in Reconcilers : q # p => seen'[q] = seen[q]
    BY <1>10 DEF ErrorCancel, records, memory
  <2>3. "toolErrorObservation" \in disk'
    BY <1>10 DEF ErrorCancel, records
  <2> QED
    BY ArchiveFrame, <2>1, <2>2, <2>3 DEF ActingLabels, CrashLabels
<1>11. CASE ErrorTerminal(p)
  <2>0. /\ UNCHANGED <<disk, intent, applied, archived, originAborted, held, seen>>
        /\ pc[p] = "errorTerminal" /\ "toolErrorObservation" \in disk
        /\ authority \in CancelAuthorities
        /\ intent \in {"none", "arm", "commit"}
    BY <1>11 DEF ErrorTerminal, TypeInv, TypeOK
  <2>1. ~Outstanding
    BY <2>0
  <2>2. /\ terminal' # "none"
        /\ terminal' = "completion_posted" <=> terminal = "completion_posted"
        /\ terminal' = "pre_arm_failed" <=> terminal = "pre_arm_failed"
    BY <1>11 DEF ErrorTerminal, PublishTerminal
  <2>3. PICK l \in {"idle", "archive"} :
          /\ Goto(p, l)
          /\ waiter' = "reconciling" => waiter = "reconciling"
    BY <1>11, Throwing DEF ErrorTerminal
  <2>4. \A q \in Reconcilers : pc'[q] = IF q = p THEN l ELSE pc[q]
    BY <2>3
  <2> QED
    BY <2>0, <2>1, <2>2, <2>3, <2>4 DEF Reconcilers
<1>12. CASE ErrorAttempt(p)
  BY <1>12 DEF ErrorAttempt, Publish, service
<1>13. CASE ErrorCommit(p)
  <2>1. PICK l \in {"idle", "crash", "errorSuspend"} :
          /\ Goto(p, l)
          /\ waiter' = "reconciling" => waiter = "reconciling"
    BY <1>13, Returning, Throwing DEF ErrorCommit
  <2>2. /\ disk \subseteq disk' /\ pc[p] # "idle"
        /\ UNCHANGED <<intent, applied, terminal, archived, originAborted, held>>
        /\ \A q \in Reconcilers : q # p => seen'[q] = seen[q]
    BY <1>13 DEF ErrorCommit, records, memory
  <2> QED
    BY ArchiveFrame, <2>1, <2>2 DEF ActingLabels, CrashLabels
<1>14. CASE ErrorSuspend(p)
  BY <1>14 DEF ErrorSuspend, Return, Publish, service
<1> QED
  BY <1>1, <1>2, <1>3, <1>4, <1>5, <1>6, <1>7, <1>8, <1>9, <1>10, <1>11,
     <1>12, <1>13, <1>14
     DEF ErrorStep

\* The crash reconciler archives what it recorded.
LEMMA CrashArchive ==
  ASSUME NEW p \in Supervisors, TypeInv, Alone, ElectionObeyed, EvidenceInv,
         CourseInv, TerminalInv, AppliedInv, ArchiveInv, CrashStep(p)
  PROVE  ArchiveInv'
<1> p \in Reconcilers /\ p # Mcp
  BY HeldCallAssumption DEF Reconcilers
<1>0. /\ pc \in [Reconcilers -> Labels]
      /\ seen \in [Reconcilers -> Memories]
      /\ held \in [Reconcilers -> Dispositions \cup {"none"}]
      /\ authority \in CancelAuthorities \cup {"commit", "none"}
      /\ Mcp \in Reconcilers
  BY DEF TypeInv, TypeOK, Authorities, Reconcilers
<1> USE <1>0 DEF ArchiveInv, Alone, Outstanding, ActingLabels, TerminalInv,
                 CourseInv, ArmInv, DeliveryInv, AppliedInv, ElectionObeyed,
                 EvidenceInv, EvidenceFirst, IntentFollowsAuthority,
                 CommitLabels, CancelLabels, CancelAuthorities,
                 CrashOwnerLabels, ErrorOwnerLabels, ArmedLabels, Abandoned,
                 LifecycleLabels, CrashLabels, Dispositions, Goto, memory
<1>1. CASE CrashBegin(p)
  BY <1>1 DEF CrashBegin, Publish, service
<1>2. CASE CrashRead(p)
  BY <1>2 DEF CrashRead, ExistingDisposition, CompletedBefore,
              ArmIntentOvertaken, Remember, Throw, readOnly, records, service
<1>3. CASE CrashArm(p)
  BY <1>3 DEF CrashArm, ArmEffect, Remember, records
<1>4. CASE CrashFreeze(p)
  BY <1>4 DEF CrashFreeze, service
<1>5. CASE CrashBind(p)
  BY <1>5 DEF CrashBind, CrashPublish, Publish, service
<1>6. CASE CrashBound(p)
  BY <1>6 DEF CrashBound, CrashPublish, Publish, service
<1>7. CASE CrashReady(p)
  BY <1>7 DEF CrashReady, CrashPublish, Publish, service
<1>8. CASE CrashDecide(p)
  BY <1>8 DEF CrashDecide, CrashObey, Remember, readOnly, records, service
<1>9. CASE CrashElect(p)
  BY <1>9 DEF CrashElect, CrashObey, Elect, service
<1>10. CASE CrashIntentArm(p)
  <2>0. /\ UNCHANGED <<disk, applied, terminal, archived, originAborted, waiter,
                        held, seen>>
        /\ terminal # "pre_arm_failed"
        /\ pc[Mcp] \in {"errorRead", "preArm"} => seen[Mcp] # "nothing"
        /\ "armAttempt" \in disk /\ originAborted
        /\ intent \in {"none", "arm", "commit"}
        /\ terminal \in Dispositions \cup {"none"}
    BY <1>10 DEF CrashIntentArm, CrashIntent, Throw, TypeInv, TypeOK
  <2>1. authority \in CancelAuthorities /\ pc[p] = "crashIntentArm"
    BY <1>10 DEF CrashIntentArm
  <2>2. CASE applied # "none"
    <3>1. intent # "none" /\ intent' = intent /\ ~Outstanding
      BY <1>10, <2>2, TypeInv DEF CrashIntentArm, CrashIntent, AppliedMatchesService, TypeInv,
         TypeOK
    <3>2. PICK l \in {"idle", "certify", "archive"} :
            Goto(p, l) /\ (l = "archive" => terminal # "none")
      BY <1>10, <2>0, <2>2 DEF CrashIntentArm, CrashIntent, ExistingDisposition, Throw
    <3>3. \A q \in Reconcilers : pc'[q] = IF q = p THEN l ELSE pc[q]
      BY <3>2
    <3> QED
      BY <2>0, <2>1, <2>2, <3>1, <3>2, <3>3 DEF Reconcilers
  <2>3. CASE applied = "none"
    <3>1. intent \in {"none", "arm"} /\ Goto(p, "crashCancel") /\ intent' = "arm"
      BY <1>10, <2>0, <2>1, <2>3 DEF CrashIntentArm, CrashIntent
    <3>2. \A q \in Reconcilers : pc'[q] = IF q = p THEN "crashCancel" ELSE pc[q]
      BY <3>1
    <3>3. \A q \in Reconcilers : q = p \/ q = Mcp
      BY DEF Reconcilers
    <3>4. archived \/ pc[Mcp] = "archive" => ~Outstanding'
      BY <2>0, <2>1, <3>1
    <3> QED
      BY <2>0, <2>1, <2>3, <3>1, <3>2, <3>3, <3>4
  <2> QED
    BY <2>2, <2>3
<1>11. CASE CrashCancel(p)
  BY <1>11 DEF CrashCancel, CancelAccepted, CancelEffect, records
<1>12. CASE CrashTerminal(p)
  BY <1>12 DEF CrashTerminal, PublishTerminal, service
<1>13. CASE CrashCancelled(p)
  BY <1>13 DEF CrashCancelled, service
<1>14. CASE CrashAttempt(p)
  BY <1>14 DEF CrashAttempt, CrashPublish, Publish, service
<1>15. CASE CrashAuthority(p)
  BY <1>15 DEF CrashAuthority, Elect, service
<1>16. CASE CrashIntentCommit(p)
  <2>0. /\ UNCHANGED <<disk, applied, terminal, archived, originAborted, waiter,
                        held, seen>>
        /\ terminal # "pre_arm_failed"
        /\ pc[Mcp] \in {"errorRead", "preArm"} => seen[Mcp] # "nothing"
        /\ "armAttempt" \in disk /\ originAborted
        /\ intent \in {"none", "arm", "commit"}
        /\ terminal \in Dispositions \cup {"none"}
    BY <1>16 DEF CrashIntentCommit, CrashIntent, Throw, TypeInv, TypeOK
  <2>1. authority = "commit" /\ pc[p] = "crashIntentCommit"
    BY <1>16 DEF CrashIntentCommit
  <2>2. CASE applied # "none"
    <3>1. intent # "none" /\ intent' = intent /\ ~Outstanding
      BY <1>16, <2>2, TypeInv DEF CrashIntentCommit, CrashIntent, AppliedMatchesService, TypeInv,
         TypeOK
    <3>2. PICK l \in {"idle", "certify", "archive"} :
            Goto(p, l) /\ (l = "archive" => terminal # "none")
      BY <1>16, <2>0, <2>2 DEF CrashIntentCommit, CrashIntent, ExistingDisposition, Throw
    <3>3. \A q \in Reconcilers : pc'[q] = IF q = p THEN l ELSE pc[q]
      BY <3>2
    <3> QED
      BY <2>0, <2>1, <2>2, <3>1, <3>2, <3>3 DEF Reconcilers
  <2>3. CASE applied = "none"
    <3>1. intent \in {"none", "commit"} /\ Goto(p, "crashCommit") /\ intent' = "commit"
      BY <1>16, <2>0, <2>1, <2>3 DEF CrashIntentCommit, CrashIntent
    <3>2. \A q \in Reconcilers : pc'[q] = IF q = p THEN "crashCommit" ELSE pc[q]
      BY <3>1
    <3>3. \A q \in Reconcilers : q = p \/ q = Mcp
      BY DEF Reconcilers
    <3>4. archived \/ pc[Mcp] = "archive" => ~Outstanding'
      <4>1. archived \/ pc[Mcp] = "archive" => terminal = "completion_posted"
        BY <2>0, <2>1
      <4>2. archived \/ pc[Mcp] = "archive" => intent # "none"
        BY <4>1, <2>1
      <4> QED
        BY <4>2, <2>0, <2>3, <3>1
    <3> QED
      BY <2>0, <2>1, <2>3, <3>1, <3>2, <3>3, <3>4
  <2> QED
    BY <2>2, <2>3
<1>17. CASE CrashCommit(p)
  BY <1>17 DEF CrashCommit, CommitEffect, records
<1>18. CASE CrashSuspend(p)
  BY <1>18 DEF CrashSuspend, CrashPublish, Publish, service
<1>19. CASE CrashCommitted(p)
  BY <1>19 DEF CrashCommitted, service
<1>20. CASE Certify(p)
  BY <1>20 DEF Certify, CompletionProvable, PublishTerminal, service
<1> QED
  BY <1>1, <1>2, <1>3, <1>4, <1>5, <1>6, <1>7, <1>8, <1>9, <1>10, <1>11,
     <1>12, <1>13, <1>14, <1>15, <1>16, <1>17, <1>18, <1>19, <1>20
     DEF CrashStep

\* No call leaves the spool with something outstanding.
LEMMA ArchiveStep ==
  ASSUME TypeInv, Alone, ElectionObeyed, EvidenceInv, CourseInv, TerminalInv,
         AppliedInv, ArchiveInv, [Next]_vars
  PROVE  ArchiveInv'
<1>0. pc \in [Reconcilers -> Labels] /\ Mcp \in Reconcilers
  BY DEF TypeInv, TypeOK, Reconcilers
<1>1. ASSUME NEW p \in Reconcilers, Archive(p) PROVE ArchiveInv'
  <2>1. /\ UNCHANGED <<disk, intent, applied, terminal, originAborted, held, seen>>
        /\ archived' = TRUE /\ pc[p] = "archive" /\ terminal # "none"
        /\ Goto(p, "idle")
        /\ waiter' = "reconciling" => waiter = "reconciling"
    BY <1>1 DEF Archive, Return, memory
  <2>2. ~Outstanding /\ ~Outstanding'
    BY <2>1 DEF ArchiveInv, Outstanding
  <2>3. \A q \in Reconcilers : pc'[q] = IF q = p THEN "idle" ELSE pc[q]
    BY <1>0, <2>1 DEF Goto
  <2>4. \/ "toolErrorObservation" \in disk
        \/ \A q \in Supervisors : pc'[q] = "idle"
    BY <2>1, <2>3 DEF ArchiveInv, CourseInv, ArmInv, Alone, Reconcilers
  <2> QED
    BY <2>1, <2>2, <2>3, <2>4
       DEF ArchiveInv, Reconcilers, ActingLabels, CrashLabels
<1>2. ASSUME NEW p \in Reconcilers, Abandon(p) PROVE ArchiveInv'
  BY <1>0, <1>2 DEF Abandon, Throw, Goto, records, service, memory,
     ArchiveInv, Alone, Outstanding, ActingLabels, TerminalInv, CourseInv,
     ArmInv, DeliveryInv, AppliedInv, ElectionObeyed, EvidenceInv,
     EvidenceFirst, IntentFollowsAuthority, CommitLabels, CancelLabels,
     CancelAuthorities, CrashOwnerLabels, ErrorOwnerLabels, ArmedLabels,
     Abandoned, LifecycleLabels, CrashLabels, Dispositions
<1>3. CASE WaiterStep
  BY <1>3, WaiterArchive
<1>4. CASE EventArrives \/ OriginAborts \/ InventoryArchives
  <2>1. /\ UNCHANGED <<disk, intent, applied, terminal, waiter, pc, held, seen>>
        /\ originAborted => originAborted'
    BY <1>4 DEF EventArrives, OriginAborts, InventoryArchives, records, memory
  <2>2. archived' => \/ archived
                     \/ /\ "toolErrorObservation" \in disk
                        /\ intent = "none"
    BY <1>4
       DEF EventArrives, OriginAborts, InventoryArchives, records, TypeInv,
           TypeOK, TerminalInv, CourseInv, ArmInv, DeliveryInv, ArchiveInv,
           Dispositions
  <2> QED
    BY <2>1, <2>2 DEF ArchiveInv, Outstanding
<1>5. CASE McpStep
  BY <1>1, <1>5, ErrorArchive DEF McpStep, Reconcilers
<1>6. ASSUME NEW p \in Supervisors, SupervisorStep(p) PROVE ArchiveInv'
  BY <1>1, <1>6, ErrorArchive, CrashArchive DEF SupervisorStep, Reconcilers
<1>7. CASE UNCHANGED vars
  BY <1>7 DEF vars, ArchiveInv, Alone, Outstanding, ActingLabels, TerminalInv,
     CourseInv, ArmInv, DeliveryInv, AppliedInv, ElectionObeyed, EvidenceInv,
     EvidenceFirst, IntentFollowsAuthority, CommitLabels, CancelLabels,
     CancelAuthorities, CrashOwnerLabels, ErrorOwnerLabels, ArmedLabels,
     Abandoned, LifecycleLabels, CrashLabels, Dispositions
<1> QED
  BY <1>2, <1>3, <1>4, <1>5, <1>6, <1>7 DEF Next

-----------------------------------------------------------------------------
(* What a step may do to the service, the answer and the decisions *)

\* The answer stays: the waiter neither returns nor is released.
AnswerKept ==
  \/ waiter' = waiter
  \/ /\ waiter \notin {"returned", "released"}
     /\ waiter' \notin {"returned", "released"}

\* A request is served, or nothing happens at the service.
Served ==
  \/ remote' = remote
  \/ remote = "none" /\ remote' = "armed" /\ "armAttempt" \in disk
  \/ /\ remote \in {"armed", "woken"}
     /\ remote' \in {"suspended", "pending", "cancelled"}
  \/ remote = "armed" /\ remote' = "woken"
  \/ remote = "suspended" /\ remote' = "pending"

Serves == Served /\ AnswerKept /\ UNCHANGED <<archived, originAborted, overtaken>>

\* The waiter answers with its last publication only.
LEMMA WaiterServes ==
  ASSUME TypeInv, CourseInv, WaiterStep, ~PublishObservationIntent
  PROVE  Serves
<1>0. /\ pc \in [Reconcilers -> Labels]
      /\ authority \in CancelAuthorities \cup {"commit", "none"}
      /\ Mcp \in Reconcilers
  BY DEF TypeInv, TypeOK, Authorities, Reconcilers
<1> USE <1>0 DEF Serves, Served, AnswerKept, CourseInv, ArmInv, ArmedLabels,
                 Abandoned, LifecycleLabels, CrashLabels, waiterUnchanged,
                 memory
<1>1. CASE PrepareFails
  BY <1>1 DEF PrepareFails, service
<1>2. CASE PublishArmAttempt
  BY <1>2 DEF PublishArmAttempt, WaiterPublish, Publish, service
<1>3. CASE ArmAwait
  BY <1>3 DEF ArmAwait, Send, ArmEffect
<1>4. CASE PublishArmBinding
  BY <1>4 DEF PublishArmBinding, WaiterPublish, Publish, service
<1>5. CASE PublishBoundary
  BY <1>5 DEF PublishBoundary, WaiterPublish, Publish, service
<1>6. CASE PublishWaiterReady
  BY <1>6 DEF PublishWaiterReady, WaiterPublish, Publish, service
<1>7. CASE ElectCommit
  BY <1>7 DEF ElectCommit, Elect, service
<1>8. CASE PublishCommitAttempt
  BY <1>8 DEF PublishCommitAttempt, WaiterPublish, Publish, service
<1>9. CASE CommitAwait
  BY <1>9 DEF CommitAwait, Send, CommitEffect
<1>10. CASE PublishSuspension
  BY <1>10 DEF PublishSuspension, WaiterPublish, Publish, service
<1>11. CASE WaitForAwait
  BY <1>11 DEF WaitForAwait, service
<1>12. CASE PublishWakeDelivery
  BY <1>12 DEF PublishWakeDelivery, WaiterPublish, Publish, service
<1>13. CASE PublishToolError
  BY <1>13 DEF PublishToolError, Publish, service
<1>14. CASE PublishToolErrorObservation
  BY <1>14 DEF PublishToolErrorObservation, Publish, service
<1>15. CASE WaiterStops
  BY <1>15 DEF WaiterStops, service
<1> QED
  BY <1>1, <1>2, <1>3, <1>4, <1>5, <1>6, <1>7, <1>8, <1>9, <1>10, <1>11,
     <1>12, <1>13, <1>14, <1>15
     DEF WaiterStep

\* The lifecycle answers nothing but by its archive step.
LEMMA ErrorServes ==
  ASSUME NEW p \in Reconcilers, TypeInv, CourseInv, ErrorStep(p), ~PreArm(p)
  PROVE  Serves
<1>0. /\ pc \in [Reconcilers -> Labels]
      /\ authority \in CancelAuthorities \cup {"commit", "none"}
      /\ Mcp \in Reconcilers
  BY DEF TypeInv, TypeOK, Authorities, Reconcilers
<1> USE <1>0 DEF Serves, Served, AnswerKept, CourseInv, ArmInv, ArmedLabels,
                 Abandoned, LifecycleLabels, CrashLabels, Goto, memory
<1>1. CASE ErrorBegin(p)
  BY <1>1 DEF ErrorBegin, Remember, records, service
<1>2. CASE ErrorRead(p)
  BY <1>2 DEF ErrorRead, ErrorDisposition, Return, records, service
<1>3. CASE PreArm(p)
  BY <1>3 DEF PreArm, PublishTerminal, Throw, service
<1>4. CASE ErrorArm(p)
  BY <1>4 DEF ErrorArm, ArmEffect, Remember, Return, records
<1>5. CASE ErrorFreeze(p)
  BY <1>5 DEF ErrorFreeze, Return, Throw, service
<1>6. CASE ErrorBind(p)
  BY <1>6 DEF ErrorBind, Publish, service
<1>7. CASE ErrorBound(p)
  BY <1>7 DEF ErrorBound, Publish, service
<1>8. CASE ErrorDecide(p)
  BY <1>8 DEF ErrorDecide, ErrorObey, Remember, Throw, records, service
<1>9. CASE ErrorElect(p)
  BY <1>9 DEF ErrorElect, ErrorObey, Elect, Throw, service
<1>10. CASE ErrorCancel(p)
  BY <1>10 DEF ErrorCancel, CancelAccepted, CancelEffect, Return, Throw,
               records
<1>11. CASE ErrorTerminal(p)
  BY <1>11 DEF ErrorTerminal, PublishTerminal, Throw, service
<1>12. CASE ErrorAttempt(p)
  BY <1>12 DEF ErrorAttempt, Publish, service
<1>13. CASE ErrorCommit(p)
  BY <1>13 DEF ErrorCommit, CommitEffect, Return, Throw, records, service
<1>14. CASE ErrorSuspend(p)
  BY <1>14 DEF ErrorSuspend, Return, Publish, service
<1> QED
  BY <1>1, <1>2, <1>3, <1>4, <1>5, <1>6, <1>7, <1>8, <1>9, <1>10, <1>11,
     <1>12, <1>13, <1>14
     DEF ErrorStep

\* The crash reconciler answers nobody.
LEMMA CrashServes ==
  ASSUME NEW p \in Supervisors, TypeInv, CourseInv, CrashStep(p)
  PROVE  Serves
<1> p \in Reconcilers /\ p # Mcp
  BY HeldCallAssumption DEF Reconcilers
<1>0. /\ pc \in [Reconcilers -> Labels]
      /\ authority \in CancelAuthorities \cup {"commit", "none"}
      /\ Mcp \in Reconcilers
  BY DEF TypeInv, TypeOK, Authorities, Reconcilers
<1> USE <1>0 DEF Serves, Served, AnswerKept, CourseInv, ArmInv, ArmedLabels,
                 Abandoned, LifecycleLabels, CrashLabels, Goto, memory
<1>1. CASE CrashBegin(p)
  BY <1>1 DEF CrashBegin, Publish, service
<1>2. CASE CrashRead(p)
  BY <1>2 DEF CrashRead, ExistingDisposition, Remember, Throw, readOnly,
              records, service
<1>3. CASE CrashArm(p)
  BY <1>3 DEF CrashArm, ArmEffect, Remember, records
<1>4. CASE CrashFreeze(p)
  BY <1>4 DEF CrashFreeze, service
<1>5. CASE CrashBind(p)
  BY <1>5 DEF CrashBind, CrashPublish, Publish, service
<1>6. CASE CrashBound(p)
  BY <1>6 DEF CrashBound, CrashPublish, Publish, service
<1>7. CASE CrashReady(p)
  BY <1>7 DEF CrashReady, CrashPublish, Publish, service
<1>8. CASE CrashDecide(p)
  BY <1>8 DEF CrashDecide, CrashObey, Remember, readOnly, records, service
<1>9. CASE CrashElect(p)
  BY <1>9 DEF CrashElect, CrashObey, Elect, service
<1>10. CASE CrashIntentArm(p)
  BY <1>10 DEF CrashIntentArm, CrashIntent, ExistingDisposition, Throw,
               service
<1>11. CASE CrashCancel(p)
  BY <1>11 DEF CrashCancel, CancelAccepted, CancelEffect, records
<1>12. CASE CrashTerminal(p)
  BY <1>12 DEF CrashTerminal, PublishTerminal, service
<1>13. CASE CrashCancelled(p)
  BY <1>13 DEF CrashCancelled, service
<1>14. CASE CrashAttempt(p)
  BY <1>14 DEF CrashAttempt, CrashPublish, Publish, service
<1>15. CASE CrashAuthority(p)
  BY <1>15 DEF CrashAuthority, Elect, service
<1>16. CASE CrashIntentCommit(p)
  BY <1>16 DEF CrashIntentCommit, CrashIntent, ExistingDisposition, Throw,
               service
<1>17. CASE CrashCommit(p)
  BY <1>17 DEF CrashCommit, CommitEffect, records
<1>18. CASE CrashSuspend(p)
  BY <1>18 DEF CrashSuspend, CrashPublish, Publish, service
<1>19. CASE CrashCommitted(p)
  BY <1>19 DEF CrashCommitted, service
<1>20. CASE Certify(p)
  BY <1>20 DEF Certify, CompletionProvable, PublishTerminal, service
<1> QED
  BY <1>1, <1>2, <1>3, <1>4, <1>5, <1>6, <1>7, <1>8, <1>9, <1>10, <1>11,
     <1>12, <1>13, <1>14, <1>15, <1>16, <1>17, <1>18, <1>19, <1>20
     DEF CrashStep

\* Somebody is about to elect.
Electing ==
  \/ waiter = "electing"
  \/ \E p \in Reconcilers : pc[p] \in {"errorElect", "crashElect", "crashAuthority"}

\* Decisions are made once.
Stands ==
  /\ authority' # authority => authority = "none" /\ Electing
  /\ terminal # "none" => terminal' = terminal
  /\ intent # "none" => intent' = intent
  /\ freeze # "none" => freeze' = freeze
  /\ intent = "arm" => ("commitAttempt" \in disk' => "commitAttempt" \in disk)

\* The waiter attempts a commit it was elected to.
LEMMA WaiterStands ==
  ASSUME TypeInv, ElectionObeyed, EvidenceInv, WaiterStep
  PROVE  Stands
<1>0. /\ pc \in [Reconcilers -> Labels]
      /\ authority \in CancelAuthorities \cup {"commit", "none"}
      /\ Mcp \in Reconcilers
  BY DEF TypeInv, TypeOK, Authorities, Reconcilers
<1> USE <1>0 DEF Stands, Electing, ElectionObeyed, EvidenceInv,
                 IntentFollowsAuthority, CommitLabels, WaiterCommitLabels,
                 CancelAuthorities, waiterUnchanged, memory
<1>1. CASE PrepareFails
  BY <1>1 DEF PrepareFails, service
<1>2. CASE PublishArmAttempt
  BY <1>2 DEF PublishArmAttempt, WaiterPublish, Publish, service
<1>3. CASE ArmAwait
  BY <1>3 DEF ArmAwait, Send, ArmEffect
<1>4. CASE PublishArmBinding
  BY <1>4 DEF PublishArmBinding, WaiterPublish, Publish, service
<1>5. CASE PublishBoundary
  BY <1>5 DEF PublishBoundary, WaiterPublish, Publish, service
<1>6. CASE PublishWaiterReady
  BY <1>6 DEF PublishWaiterReady, WaiterPublish, Publish, service
<1>7. CASE ElectCommit
  BY <1>7 DEF ElectCommit, Elect, service
<1>8. CASE PublishCommitAttempt
  BY <1>8 DEF PublishCommitAttempt, WaiterPublish, Publish, service
<1>9. CASE CommitAwait
  BY <1>9 DEF CommitAwait, Send, CommitEffect
<1>10. CASE PublishSuspension
  BY <1>10 DEF PublishSuspension, WaiterPublish, Publish, service
<1>11. CASE WaitForAwait
  BY <1>11 DEF WaitForAwait, service
<1>12. CASE PublishWakeDelivery
  BY <1>12 DEF PublishWakeDelivery, WaiterPublish, Publish, service
<1>13. CASE PublishObservationIntent
  BY <1>13 DEF PublishObservationIntent, WaiterPublish, Publish, service
<1>14. CASE PublishToolError
  BY <1>14 DEF PublishToolError, Publish, service
<1>15. CASE PublishToolErrorObservation
  BY <1>15 DEF PublishToolErrorObservation, Publish, service
<1>16. CASE WaiterStops
  BY <1>16 DEF WaiterStops, service
<1> QED
  BY <1>1, <1>2, <1>3, <1>4, <1>5, <1>6, <1>7, <1>8, <1>9, <1>10, <1>11,
     <1>12, <1>13, <1>14, <1>15, <1>16
     DEF WaiterStep

\* So does the lifecycle.
LEMMA ErrorStands ==
  ASSUME NEW p \in Reconcilers, TypeInv, ElectionObeyed, EvidenceInv,
         ErrorStep(p)
  PROVE  Stands
<1>0. /\ pc \in [Reconcilers -> Labels]
      /\ authority \in CancelAuthorities \cup {"commit", "none"}
      /\ Mcp \in Reconcilers
  BY DEF TypeInv, TypeOK, Authorities, Reconcilers
<1> USE <1>0 DEF Stands, Electing, ElectionObeyed, EvidenceInv,
                 IntentFollowsAuthority, CommitLabels, WaiterCommitLabels,
                 CancelAuthorities, Goto, memory
<1>1. CASE ErrorBegin(p)
  BY <1>1 DEF ErrorBegin, Remember, records, service
<1>2. CASE ErrorRead(p)
  BY <1>2 DEF ErrorRead, records
<1>3. CASE PreArm(p)
  BY <1>3 DEF PreArm, PublishTerminal, Throw, service
<1>4. CASE ErrorArm(p)
  BY <1>4 DEF ErrorArm, ArmEffect, Remember, Return, records
<1>5. CASE ErrorFreeze(p)
  BY <1>5 DEF ErrorFreeze, Return, Throw, service
<1>6. CASE ErrorBind(p)
  BY <1>6 DEF ErrorBind, Publish, service
<1>7. CASE ErrorBound(p)
  BY <1>7 DEF ErrorBound, Publish, service
<1>8. CASE ErrorDecide(p)
  BY <1>8 DEF ErrorDecide, ErrorObey, Remember, Throw, records, service
<1>9. CASE ErrorElect(p)
  BY <1>9 DEF ErrorElect, ErrorObey, Elect, Throw, service
<1>10. CASE ErrorCancel(p)
  BY <1>10 DEF ErrorCancel, CancelAccepted, CancelEffect, Return, Throw,
               records
<1>11. CASE ErrorTerminal(p)
  BY <1>11 DEF ErrorTerminal, PublishTerminal, Throw, service
<1>12. CASE ErrorAttempt(p)
  BY <1>12 DEF ErrorAttempt, Publish, service
<1>13. CASE ErrorCommit(p)
  BY <1>13 DEF ErrorCommit, CommitEffect, Return, Throw, records, service
<1>14. CASE ErrorSuspend(p)
  BY <1>14 DEF ErrorSuspend, Return, Publish, service
<1> QED
  BY <1>1, <1>2, <1>3, <1>4, <1>5, <1>6, <1>7, <1>8, <1>9, <1>10, <1>11,
     <1>12, <1>13, <1>14
     DEF ErrorStep

\* So does the crash reconciler, which never has an arm intent then.
LEMMA CrashStands ==
  ASSUME NEW p \in Supervisors, TypeInv, ElectionObeyed, EvidenceInv,
         CrashStep(p)
  PROVE  Stands
<1> p \in Reconcilers /\ p # Mcp
  BY HeldCallAssumption DEF Reconcilers
<1>0. /\ pc \in [Reconcilers -> Labels]
      /\ authority \in CancelAuthorities \cup {"commit", "none"}
      /\ Mcp \in Reconcilers
  BY DEF TypeInv, TypeOK, Authorities, Reconcilers
<1> USE <1>0 DEF Stands, Electing, ElectionObeyed, EvidenceInv,
                 IntentFollowsAuthority, CommitLabels, WaiterCommitLabels,
                 CancelAuthorities, Goto, memory
<1>1. CASE CrashBegin(p)
  BY <1>1 DEF CrashBegin, Publish, service
<1>2. CASE CrashRead(p)
  BY <1>2 DEF CrashRead, ExistingDisposition, Remember, Throw, readOnly,
              records, service
<1>3. CASE CrashArm(p)
  BY <1>3 DEF CrashArm, ArmEffect, Remember, records
<1>4. CASE CrashFreeze(p)
  BY <1>4 DEF CrashFreeze, service
<1>5. CASE CrashBind(p)
  BY <1>5 DEF CrashBind, CrashPublish, Publish, service
<1>6. CASE CrashBound(p)
  BY <1>6 DEF CrashBound, CrashPublish, Publish, service
<1>7. CASE CrashReady(p)
  BY <1>7 DEF CrashReady, CrashPublish, Publish, service
<1>8. CASE CrashDecide(p)
  BY <1>8 DEF CrashDecide, CrashObey, Remember, readOnly, records, service
<1>9. CASE CrashElect(p)
  BY <1>9 DEF CrashElect, CrashObey, Elect, service
<1>10. CASE CrashIntentArm(p)
  BY <1>10 DEF CrashIntentArm, CrashIntent, ExistingDisposition, Throw,
               service
<1>11. CASE CrashCancel(p)
  BY <1>11 DEF CrashCancel, CancelAccepted, CancelEffect, records
<1>12. CASE CrashTerminal(p)
  BY <1>12 DEF CrashTerminal, PublishTerminal, service
<1>13. CASE CrashCancelled(p)
  BY <1>13 DEF CrashCancelled, service
<1>14. CASE CrashAttempt(p)
  BY <1>14 DEF CrashAttempt, CrashPublish, Publish, service
<1>15. CASE CrashAuthority(p)
  BY <1>15 DEF CrashAuthority, Elect, service
<1>16. CASE CrashIntentCommit(p)
  BY <1>16 DEF CrashIntentCommit, CrashIntent, ExistingDisposition, Throw,
               service
<1>17. CASE CrashCommit(p)
  BY <1>17 DEF CrashCommit, CommitEffect, records
<1>18. CASE CrashSuspend(p)
  BY <1>18 DEF CrashSuspend, CrashPublish, Publish, service
<1>19. CASE CrashCommitted(p)
  BY <1>19 DEF CrashCommitted, service
<1>20. CASE Certify(p)
  BY <1>20 DEF Certify, CompletionProvable, PublishTerminal, service
<1> QED
  BY <1>1, <1>2, <1>3, <1>4, <1>5, <1>6, <1>7, <1>8, <1>9, <1>10, <1>11,
     <1>12, <1>13, <1>14, <1>15, <1>16, <1>17, <1>18, <1>19, <1>20
     DEF CrashStep

\* Steps that close, answer, disown or abort the call; all others only serve it.
Closes ==
  \/ PublishObservationIntent
  \/ \E p \in Reconcilers : PreArm(p)
  \/ \E p \in Reconcilers : Archive(p)
  \/ InventoryArchives
  \/ OriginAborts

\* Every step serves a request or closes the call.
LEMMA ServesStep ==
  ASSUME TypeInv, CourseInv, [Next]_vars
  PROVE  Serves \/ Closes
<1>1. ASSUME NEW p \in Reconcilers, Abandon(p) PROVE Serves
  BY <1>1 DEF Abandon, Throw, Serves, Served, AnswerKept, CourseInv, ArmInv,
     records, service, memory
<1>2. CASE WaiterStep
  BY <1>2, WaiterServes DEF Closes
<1>3. CASE EventArrives
  BY <1>3 DEF EventArrives, Serves, Served, AnswerKept, records, memory
<1>4. CASE OriginAborts \/ InventoryArchives
  BY <1>4 DEF Closes
<1>5. CASE McpStep
  BY <1>5, ErrorServes DEF McpStep, Reconcilers, Closes
<1>6. ASSUME NEW p \in Supervisors, SupervisorStep(p) PROVE Serves \/ Closes
  BY <1>6, ErrorServes, CrashServes DEF SupervisorStep, Reconcilers, Closes
<1>7. CASE UNCHANGED vars
  BY <1>7 DEF vars, Serves, Served, AnswerKept
<1> QED
  BY <1>1, <1>2, <1>3, <1>4, <1>5, <1>6, <1>7 DEF Next

\* No step undoes a decision.
LEMMA StandsStep ==
  ASSUME TypeInv, ElectionObeyed, EvidenceInv, [Next]_vars
  PROVE  Stands
<1>1. ASSUME NEW p \in Reconcilers, Abandon(p) PROVE Stands
  BY <1>1 DEF Abandon, Stands, records
<1>2. CASE WaiterStep
  BY <1>2, WaiterStands
<1>3. CASE EventArrives \/ OriginAborts \/ InventoryArchives
  BY <1>3 DEF EventArrives, OriginAborts, InventoryArchives, Stands, records
<1>4. ASSUME NEW p \in Reconcilers, Archive(p) PROVE Stands
  BY <1>4 DEF Archive, Stands
<1>5. CASE McpStep
  BY <1>4, <1>5, ErrorStands DEF McpStep, Reconcilers
<1>6. ASSUME NEW p \in Supervisors, SupervisorStep(p) PROVE Stands
  BY <1>4, <1>6, ErrorStands, CrashStands DEF SupervisorStep, Reconcilers
<1>7. CASE UNCHANGED vars
  BY <1>7 DEF vars, Stands
<1> QED
  BY <1>1, <1>2, <1>3, <1>5, <1>6, <1>7 DEF Next

-----------------------------------------------------------------------------
(* The theorems *)

HeldInv ==
  /\ TypeInv /\ ElectionObeyed /\ EvidenceInv /\ SuspensionInv
  /\ CourseInv /\ TerminalInv /\ AppliedInv

\* All of it holds of a call from its start.
LEMMA HeldInvInit == Init => HeldInv
<1> SUFFICES ASSUME Init PROVE HeldInv
  OBVIOUS
<1>1. TypeInv
  BY TypeInit
<1>2. pc = [p \in Reconcilers |-> "idle"] /\ Mcp \in Reconcilers
  BY DEF Init, Reconcilers
<1>3. ElectionObeyed /\ EvidenceInv /\ SuspensionInv
  BY <1>2 DEF Init, ElectionObeyed, EvidenceInv, EvidenceFirst,
     IntentFollowsAuthority, SuspensionInv, AttemptBeforeCommit,
     SuspensionIsCommitted, CommitLabels, CancelLabels, WaiterCommitLabels,
     CancelAuthorities, ErrorOwnerLabels, CrashOwnerLabels, CrashReadyLabels,
     CrashLabels, AttemptedLabels
<1>4. CourseInv /\ TerminalInv /\ AppliedInv
  BY <1>2 DEF Init, CourseInv, ArmInv, DeliveryInv, TerminalInv, AppliedInv,
     AppliedMatchesService, ArmedLabels, LifecycleLabels, CrashLabels
<1> QED
  BY <1>1, <1>3, <1>4 DEF HeldInv

\* And ever after.
LEMMA HeldInvAlways == Spec => []HeldInv
<1>1. HeldInv /\ [Next]_vars => HeldInv'
  BY TypeStep, ElectionStep, EvidenceStep, SuspensionStep, CourseStep,
     EndingStep, AppliedStep
     DEF HeldInv
<1> QED
  BY HeldInvInit, <1>1, PTL DEF Spec

\* A call is declared cancelled, never armed or complete only when its await
\* is cancelled, was never armed, or was suspended and woken.  The one exception
\* is a call that overtook the read of its arm attempt.
THEOREM TerminalAgrees == Spec => []TerminalMatchesService
<1>1. HeldInv => TerminalMatchesService
  BY DEF HeldInv, TerminalInv, CourseInv, ArmInv, TerminalMatchesService
<1> QED
  BY <1>1, HeldInvAlways, PTL

\* The MCP server answers a live turn with an error only for an await that is
\* gone for good, or for a call that overtook the read of its arm attempt.
THEOREM ErrorReleaseHolds == Spec => []ErrorReleaseIsSafe
<1>1. HeldInv => ErrorReleaseIsSafe
  BY DEF HeldInv, TypeInv, TypeOK, Dispositions, TerminalInv, CourseInv,
     ArmInv, ErrorReleaseIsSafe
<1> QED
  BY <1>1, HeldInvAlways, PTL

\* What the crash reconciler says it applied is what happened.
THEOREM AppliedAgrees == Spec => []AppliedMatchesService
<1>1. TypeInv /\ AppliedInv /\ [Next]_vars => AppliedInv'
  BY AppliedStep
<1>2. Init => TypeInv /\ AppliedInv
  BY HeldInvInit DEF HeldInv
<1>3. AppliedInv => AppliedMatchesService
  BY DEF AppliedInv
<1> QED
  BY <1>1, <1>2, <1>3, TypeStep, PTL DEF Spec

\* With one supervisor, a crash reconciliation that began is recorded before
\* the call leaves the spool.
THEOREM ArchiveHolds ==
  ASSUME Alone
  PROVE  Spec => []ArchivedIsApplied
<1>1. HeldInv /\ ArchiveInv /\ [Next]_vars => ArchiveInv'
  BY ArchiveStep DEF HeldInv
<1>2. Init => ArchiveInv
  BY DEF Init, ArchiveInv, Outstanding, ActingLabels, CrashLabels, Reconcilers
<1>3. ArchiveInv => ArchivedIsApplied
  BY DEF ArchiveInv, Outstanding, ArchivedIsApplied
<1> QED
  BY <1>1, <1>2, <1>3, HeldInvAlways, PTL DEF Spec

\* Authority, intent, freeze and the arm stage are never undone or overtaken.
THEOREM DecisionsHold == Spec => DecisionsStand
<1> DEFINE Inv == TypeInv /\ ElectionObeyed /\ EvidenceInv
<1>1. Init => Inv
  BY HeldInvInit DEF HeldInv
<1>2. Inv /\ [Next]_vars => Inv'
  BY TypeStep, ElectionStep, EvidenceStep
<1>3. Inv /\ [Next]_vars =>
        [/\ authority # "none" => authority' = authority
         /\ intent # "none" => intent' = intent
         /\ freeze # "none" => freeze' = freeze
         /\ intent = "arm" =>
              ("commitAttempt" \in disk' => "commitAttempt" \in disk)]_vars
  BY StandsStep DEF Stands
<1> QED
  BY <1>1, <1>2, <1>3, PTL DEF Spec, DecisionsStand

\* What a terminal says of the service rules out every further change, if the
\* call did not overtake it.
LEMMA TerminalFacts ==
  ASSUME HeldInv, terminal # "none", ~overtaken
  PROVE  /\ \/ remote \in {"cancelled", "pending"}
            \/ remote = "none" /\ "armAttempt" \notin disk
         /\ authority # "none" \/ ~Electing
<1>0. terminal \in {"pre_arm_failed", "remote_cancelled", "completion_posted"}
  BY DEF HeldInv, TypeInv, TypeOK, Dispositions
<1>1. CASE terminal = "pre_arm_failed"
  BY <1>1 DEF HeldInv, TerminalInv, CourseInv, ArmInv, Abandoned, Electing,
     ArmedLabels, LifecycleLabels, CrashLabels
<1>2. CASE terminal = "remote_cancelled"
  BY <1>2 DEF HeldInv, TerminalInv, CancelAuthorities
<1>3. CASE terminal = "completion_posted"
  BY <1>3 DEF HeldInv, TerminalInv, SuspensionInv, SuspensionIsCommitted
<1> QED
  BY <1>0, <1>1, <1>2, <1>3

\* Once a call has a terminal it keeps it, the service transitions it no more
\* and nothing new is decided about it, unless it was declared unarmed although
\* its arm attempt was on disk.
THEOREM TerminalStands == Spec => TerminalIsFinal
<1>1. HeldInv /\ [Next]_vars =>
        [terminal # "none" =>
           /\ terminal' = terminal
           /\ (remote' = remote /\ authority' = authority) \/ overtaken]_vars
  <2> SUFFICES ASSUME HeldInv, [Next]_vars, terminal # "none"
               PROVE  /\ terminal' = terminal
                      /\ (remote' = remote /\ authority' = authority) \/ overtaken
    OBVIOUS
  <2>1. Stands
    BY StandsStep DEF HeldInv
  <2>2. Serves \/ Closes
    BY ServesStep DEF HeldInv
  <2>3. Closes => remote' = remote
    BY DEF Closes, PublishObservationIntent, WaiterPublish, Archive, PreArm,
       InventoryArchives, OriginAborts, service
  <2>4. Serves => remote' = remote \/ overtaken
    BY TerminalFacts DEF Serves, Served
  <2> QED
    BY <2>1, <2>2, <2>3, <2>4, TerminalFacts DEF Stands
<1> QED
  BY <1>1, HeldInvAlways, PTL DEF Spec, TerminalIsFinal

-----------------------------------------------------------------------------
(* Refinement: every step is one of the contract, or changes nothing it sees *)

\* A served request opens the await or transitions it, and never after the
\* call was answered or closed.
LEMMA ServesContract ==
  ASSUME HeldInv, Serves
  PROVE  [Contract!Next]_(Contract!contract)
<1>1. /\ Answer' = Answer
      /\ UNCHANGED <<archived, originAborted, overtaken>>
  <2>1. AnswerKept
    BY DEF Serves
  <2> QED
    BY <2>1 DEF Serves, AnswerKept, Answer
<1>2. CASE Outcome' = Outcome
  BY <1>1, <1>2 DEF Contract!contract
<1>3. CASE Outcome' # Outcome
  <2>1. /\ remote \notin {"pending", "cancelled"}
        /\ remote = "none" => "armAttempt" \in disk
    BY <1>3 DEF Serves, Served, Outcome, Suspended
  <2>2. terminal = "none" \/ overtaken
    BY <2>1, TerminalFacts
  <2>3. overtaken \/ (~archived /\ waiter # "released")
    BY <2>2 DEF HeldInv, TerminalInv
  <2>4. waiter # "returned"
    BY <2>1 DEF HeldInv, CourseInv, DeliveryInv
  <2>5. \/ Outcome = "none" /\ Outcome' = "open"
        \/ Outcome = "open" /\ Outcome' \in {"committed", "cancelled"}
    BY <1>3 DEF Serves, Served, Outcome, Suspended
  <2>6. Contract!Open
    BY <2>3, <2>4 DEF Contract!Open, Answer
  <2> QED
    BY <1>1, <2>5, <2>6
       DEF Contract!Next, Contract!Arm, Contract!Transition
<1> QED
  BY <1>2, <1>3

\* The terminal says whether the call may be closed, or was overtaken.
LEMMA Settleable ==
  ASSUME HeldInv, terminal # "none"
  PROVE  \/ Outcome \in {"none", "cancelled"}
         \/ Outcome = "committed" /\ (Answer = "result" \/ originAborted)
         \/ overtaken
<1>0. terminal \in {"pre_arm_failed", "remote_cancelled", "completion_posted"}
  BY DEF HeldInv, TypeInv, TypeOK, Dispositions
<1> QED
  BY <1>0 DEF HeldInv, TerminalInv, CourseInv, ArmInv, Outcome, Answer,
     Suspended

\* So are the steps that close, answer or abort it.
LEMMA ClosesContract ==
  ASSUME HeldInv, Closes
  PROVE  [Contract!Next]_(Contract!contract)
<1>1. CASE OriginAborts
  BY <1>1 DEF OriginAborts, service, memory, Outcome, Answer, Contract!Next,
     Contract!Abort, records
<1>2. CASE InventoryArchives
  <2>1. Outcome' = Outcome /\ Answer' = Answer /\ overtaken' = overtaken
    BY <1>2 DEF InventoryArchives, service, memory, Outcome, Answer
  <2> QED
    BY <1>2, <2>1, Settleable
       DEF InventoryArchives, Contract!Next, Contract!Settle,
           Contract!contract, HeldInv, TypeInv, TypeOK
<1>3. ASSUME NEW p \in Reconcilers, Archive(p)
      PROVE  [Contract!Next]_(Contract!contract)
  <2>1. /\ terminal # "none" /\ archived' = TRUE
        /\ Outcome' = Outcome /\ UNCHANGED <<originAborted, overtaken>>
    BY <1>3 DEF Archive, service, memory, Outcome
  <2>2. CASE p = Mcp
    <3>1. waiter = "reconciling" /\ waiter' = "released"
      BY <1>3, <2>2 DEF Archive, Return, HeldInv, CourseInv, ArmInv
    <3>2. Answer = "none" /\ Answer' = "error"
      BY <3>1 DEF Answer
    <3> QED
      BY <2>1, <3>2, Settleable DEF Contract!Next, Contract!AnswerError
  <2>3. CASE p # Mcp
    <3>1. Answer' = Answer
      BY <1>3, <2>3 DEF Archive, Return, Answer
    <3> QED
      BY <2>1, <3>1, Settleable
         DEF Contract!Next, Contract!Settle, Contract!contract, HeldInv,
             TypeInv, TypeOK
  <2> QED
    BY <2>2, <2>3
<1>4. CASE PublishObservationIntent
  <2>1. /\ waiter = "observing" /\ waiter' \in {"returned", "failing"}
        /\ UNCHANGED <<archived, originAborted, overtaken, remote>>
    BY <1>4 DEF PublishObservationIntent, WaiterPublish, waiterUnchanged,
       service, memory
  <2>2. remote = "pending" /\ (archived => originAborted) /\ ~overtaken
    BY <2>1 DEF HeldInv, TypeInv, TypeOK, Dispositions, TerminalInv,
       CourseInv, ArmInv, DeliveryInv, Abandoned
  <2>3. Outcome = "committed" /\ Outcome' = Outcome
    BY <2>1, <2>2 DEF Outcome, Suspended
  <2>4. Answer = "none" /\ Answer' \in {"none", "result"}
    BY <2>1 DEF Answer
  <2> QED
    BY <2>1, <2>2, <2>3, <2>4
       DEF Contract!Next, Contract!AnswerResult, Contract!contract
<1>5. ASSUME NEW p \in Reconcilers, PreArm(p)
      PROVE  [Contract!Next]_(Contract!contract)
  <2>1. /\ UNCHANGED <<archived, originAborted>> /\ Outcome' = Outcome
        /\ "toolErrorObservation" \in disk
        /\ overtaken' \in BOOLEAN /\ (overtaken => overtaken')
    BY <1>5 DEF PreArm, service, Outcome, HeldInv, TypeInv, TypeOK, CourseInv,
       ArmInv
  <2>2. Answer' = Answer
    BY <1>5 DEF PreArm, Throw, Answer, HeldInv, CourseInv, ArmInv
  <2>3. CASE overtaken' = overtaken
    BY <2>1, <2>2, <2>3 DEF Contract!contract
  <2>4. CASE overtaken' # overtaken
    <3>1. terminal = "none" /\ ~overtaken /\ overtaken' = TRUE
      BY <1>5, <2>1, <2>4 DEF PreArm, HeldInv, TypeInv, TypeOK
    <3>2. ~archived /\ waiter \notin {"released", "returned"}
      BY <2>1, <3>1
         DEF HeldInv, TerminalInv, CourseInv, ArmInv, Abandoned
    <3> QED
      BY <2>1, <2>2, <3>1, <3>2
         DEF Contract!Next, Contract!Disown, Answer
  <2> QED
    BY <2>3, <2>4
<1> QED
  BY <1>1, <1>2, <1>3, <1>4, <1>5 DEF Closes

\* HeldCall implements HeldCallContract: the await takes one transition and
\* keeps it, an answer is given only for a committed await, an error only for
\* one that can wake nobody who reads it or for a disowned call, and a settled
\* call that is not disowned never changes.
THEOREM ContractHolds == Spec => KeepsContract
<1>1. Init => Contract!Init
  BY DEF Init, Contract!Init, Outcome, Answer
<1>2. HeldInv /\ [Next]_vars => [Contract!Next]_(Contract!contract)
  BY ServesStep, ServesContract, ClosesContract DEF HeldInv
<1> QED
  BY <1>1, <1>2, HeldInvAlways, PTL DEF Spec, KeepsContract, Contract!Spec
=============================================================================
