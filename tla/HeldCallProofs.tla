--------------------------- MODULE HeldCallProofs ---------------------------
(***************************************************************************)
(* Theorems about HeldCall, for every set of supervisors and every number  *)
(* of faults, with the order of reads the code has.                        *)
(***************************************************************************)
EXTENDS HeldCall, TLAPS

-----------------------------------------------------------------------------
(* Type correctness.  TypeOK is not inductive alone: a freeze copies what    *)
(* the process remembers, so FreezeRemembers goes with it.                   *)

TypeInv == TypeOK /\ FreezeRemembers

LEMMA TypeInit == Init => TypeInv
<1> SUFFICES ASSUME Init PROVE TypeInv
  OBVIOUS
<1>1. faults \in 0 .. MaxFaults
  BY HeldCallAssumption DEF Init
<1>2. /\ pc \in [Reconcilers -> Labels]
      /\ seen \in [Reconcilers -> Memories]
      /\ held \in [Reconcilers -> Dispositions \cup {"none"}]
  BY DEF Init, Labels, Memories
<1>3. TypeOK
  BY <1>1, <1>2 DEF Init, TypeOK, RemoteStates, WaiterLabels
<1>4. FreezeRemembers
  BY DEF Init, FreezeRemembers
<1> QED
  BY <1>3, <1>4 DEF TypeInv

\* The waiter writes no reconciler's state and no freeze.
LEMMA WaiterKeepsType == TypeInv /\ WaiterStep => TypeInv'
<1> SUFFICES ASSUME TypeInv, WaiterStep PROVE TypeInv'
  OBVIOUS
<1> USE DEF TypeInv, TypeOK, FreezeRemembers, memory, waiterUnchanged
<1>1. ASSUME NEW from \in WaiterLabels, NEW r \in Records,
             NEW to \in WaiterLabels, WaiterPublish(from, r, to)
      PROVE  TypeInv'
  BY <1>1 DEF WaiterPublish, Publish, service, WaiterLabels
<1>2. CASE PrepareFails
  BY <1>2 DEF PrepareFails, service, WaiterLabels
<1>3. CASE ArmAwait
  BY <1>3 DEF ArmAwait, Send, ArmEffect, WaiterLabels, RemoteStates
<1>4. CASE ElectCommit
  BY <1>4 DEF ElectCommit, Elect, service, WaiterLabels, Authorities
<1>5. CASE CommitAwait
  BY <1>5 DEF CommitAwait, Send, CommitEffect, WaiterLabels, RemoteStates
<1>6. CASE WaitForAwait
  BY <1>6 DEF WaitForAwait, service, WaiterLabels
<1>7. CASE PublishToolError
  BY <1>7 DEF PublishToolError, Publish, service, WaiterLabels, Records
<1>8. CASE PublishToolErrorObservation
  BY <1>8 DEF PublishToolErrorObservation, Publish, service, WaiterLabels,
              Records
<1>9. CASE WaiterStops
  BY <1>9 DEF WaiterStops, service, WaiterLabels
<1> HIDE DEF TypeInv, TypeOK, FreezeRemembers, memory, waiterUnchanged
<1> QED
  BY <1>1, <1>2, <1>3, <1>4, <1>5, <1>6, <1>7, <1>8, <1>9
     DEF WaiterStep, PublishArmAttempt, PublishArmBinding, PublishBoundary,
         PublishWaiterReady, PublishCommitAttempt, PublishSuspension,
         PublishWakeDelivery, PublishObservationIntent, WaiterLabels, Records

\* The tool error lifecycle: a frozen state is one the arm reply reported.
LEMMA ErrorKeepsType ==
  ASSUME NEW p \in Reconcilers, TypeInv, ErrorStep(p)
  PROVE  TypeInv'
<1> USE DEF TypeInv, TypeOK, FreezeRemembers, Goto, Labels, LifecycleLabels,
            CrashLabels
<1>1. CASE ErrorBegin(p)
  BY <1>1 DEF ErrorBegin, Remember, Memories, records, service, memory
<1>2. CASE ErrorRead(p)
  BY <1>2 DEF ErrorRead, ErrorDisposition, Return, WaiterLabels, records,
              service, memory
<1>3. CASE PreArm(p)
  BY <1>3 DEF PreArm, PublishTerminal, Throw, Dispositions, WaiterLabels,
              records, service, memory
<1>4. CASE ErrorArm(p)
  BY <1>4, HeldCallAssumption
     DEF ErrorArm, Send, ArmEffect, ApiState, Remember, Return, Fault,
         Memories, RemoteStates, WaiterLabels, records, service, memory
<1>5. CASE ErrorFreeze(p)
  BY <1>5 DEF ErrorFreeze, Return, Throw, WaiterLabels, records, service,
              memory
<1>6. CASE ErrorBind(p)
  BY <1>6 DEF ErrorBind, Publish, Records, records, service, memory
<1>7. CASE ErrorBound(p)
  BY <1>7 DEF ErrorBound, Publish, Records, records, service, memory
<1>8. CASE ErrorDecide(p)
  BY <1>8 DEF ErrorDecide, ErrorObey, Remember, Throw, Memories, WaiterLabels,
              records, service, memory
<1>9. CASE ErrorElect(p)
  BY <1>9 DEF ErrorElect, ErrorObey, Elect, Throw, Authorities, WaiterLabels,
              CancelAuthorities, records, service, memory
<1>10. CASE ErrorCancel(p)
  BY <1>10, HeldCallAssumption
     DEF ErrorCancel, Send, CancelEffect, Return, Throw, Fault, RemoteStates,
         WaiterLabels, records, service, memory
<1>11. CASE ErrorTerminal(p)
  BY <1>11 DEF ErrorTerminal, PublishTerminal, Throw, Dispositions,
               WaiterLabels, records, service, memory
<1>12. CASE ErrorAttempt(p)
  BY <1>12 DEF ErrorAttempt, Publish, Records, records, service, memory
<1>13. CASE ErrorCommit(p)
  <2>1. CASE Return(p, "owned") /\ UNCHANGED <<service, faults>>
    BY <1>13, <2>1
       DEF ErrorCommit, Return, WaiterLabels, records, service, memory
  <2>2. CASE /\ CommitEffect \/ UNCHANGED remote
             /\ Send("commit")
             /\ Goto(p, "errorSuspend") \/ Throw(p)
             /\ UNCHANGED <<waiter, faults>>
    BY <1>13, <2>2
       DEF ErrorCommit, Send, CommitEffect, Throw, RemoteStates, WaiterLabels,
           records, memory
  <2>3. CASE /\ CommitEffect \/ UNCHANGED remote
             /\ Send("commit")
             /\ Fault
             /\ Return(p, "pending")
    BY <1>13, <2>3, HeldCallAssumption
       DEF ErrorCommit, Send, CommitEffect, Return, Throw, Fault,
           RemoteStates, WaiterLabels, records, memory
  <2>4. CASE /\ UNCHANGED <<remote, faults>>
             /\ Send("commit")
             /\ Throw(p)
    BY <1>13, <2>4 DEF ErrorCommit, Send, Throw, WaiterLabels, records, memory
  <2> QED
    BY <1>13, <2>1, <2>2, <2>3, <2>4 DEF ErrorCommit
<1>14. CASE ErrorSuspend(p)
  BY <1>14 DEF ErrorSuspend, Publish, Return, Records, WaiterLabels, records,
               service, memory
<1> QED
  BY <1>1, <1>2, <1>3, <1>4, <1>5, <1>6, <1>7, <1>8, <1>9, <1>10, <1>11,
     <1>12, <1>13, <1>14
     DEF ErrorStep

\* The crash reconciler, likewise.
LEMMA CrashKeepsType ==
  ASSUME NEW p \in Supervisors, TypeInv, CrashStep(p)
  PROVE  TypeInv'
<1> p \in Reconcilers
  BY DEF Reconcilers
<1> USE DEF TypeInv, TypeOK, FreezeRemembers, Goto, Labels, LifecycleLabels,
            CrashLabels
<1>1. CASE CrashBegin(p)
  <2>1. CASE Publish("originAbortReceipt") /\ Goto(p, "crashRead")
    BY <1>1, <2>1 DEF CrashBegin, Publish, Records, service, memory
  <2>2. CASE UNCHANGED disk /\ Goto(p, "certify")
    BY <1>1, <2>2 DEF CrashBegin, service, memory
  <2> QED
    BY <1>1, <2>1, <2>2 DEF CrashBegin
<1>2. CASE CrashRead(p)
  BY <1>2 DEF CrashRead, ExistingDisposition, Remember, Throw, Memories,
              Dispositions, WaiterLabels, readOnly, records, service, memory
<1>3. CASE CrashArm(p)
  BY <1>3, HeldCallAssumption
     DEF CrashArm, Send, ArmEffect, ApiState, Remember, Fault, Memories,
         RemoteStates, records, service, memory
<1>4. CASE CrashFreeze(p)
  BY <1>4 DEF CrashFreeze, records, service, memory
<1>5. CASE CrashBind(p)
  BY <1>5 DEF CrashBind, CrashPublish, Publish, Records, records, service,
              memory
<1>6. CASE CrashBound(p)
  BY <1>6 DEF CrashBound, CrashPublish, Publish, Records, records, service,
              memory
<1>7. CASE CrashReady(p)
  BY <1>7 DEF CrashReady, CrashPublish, Publish, Records, records, service,
              memory
<1>8. CASE CrashDecide(p)
  BY <1>8 DEF CrashDecide, CrashObey, Remember, Memories, readOnly, records,
              service, memory
<1>9. CASE CrashElect(p)
  BY <1>9 DEF CrashElect, CrashObey, Elect, Authorities, CancelAuthorities,
              records, service, memory
<1>10. CASE CrashIntentArm(p)
  BY <1>10 DEF CrashIntentArm, CrashIntent, ExistingDisposition, Throw,
               WaiterLabels, records, service, memory
<1>11. CASE CrashCancel(p)
  BY <1>11, HeldCallAssumption
     DEF CrashCancel, Send, CancelEffect, Fault, RemoteStates, records,
         service, memory
<1>12. CASE CrashTerminal(p)
  BY <1>12 DEF CrashTerminal, PublishTerminal, Dispositions, records, service,
               memory
<1>13. CASE CrashCancelled(p)
  BY <1>13 DEF CrashCancelled, records, service, memory
<1>14. CASE CrashAttempt(p)
  BY <1>14 DEF CrashAttempt, CrashPublish, Publish, Records, records, service,
               memory
<1>15. CASE CrashAuthority(p)
  BY <1>15 DEF CrashAuthority, Elect, Authorities, records, service, memory
<1>16. CASE CrashIntentCommit(p)
  BY <1>16 DEF CrashIntentCommit, CrashIntent, ExistingDisposition, Throw,
               WaiterLabels, records, service, memory
<1>17. CASE CrashCommit(p)
  BY <1>17, HeldCallAssumption
     DEF CrashCommit, Send, CommitEffect, Fault, RemoteStates, records,
         service, memory
<1>18. CASE CrashSuspend(p)
  BY <1>18 DEF CrashSuspend, CrashPublish, Publish, Records, records, service,
               memory
<1>19. CASE CrashCommitted(p)
  BY <1>19 DEF CrashCommitted, records, service, memory
<1>20. CASE Certify(p)
  BY <1>20 DEF Certify, PublishTerminal, Dispositions, records, service,
               memory
<1> QED
  BY <1>1, <1>2, <1>3, <1>4, <1>5, <1>6, <1>7, <1>8, <1>9, <1>10, <1>11,
     <1>12, <1>13, <1>14, <1>15, <1>16, <1>17, <1>18, <1>19, <1>20
     DEF CrashStep

THEOREM TypeStep == TypeInv /\ [Next]_vars => TypeInv'
<1> SUFFICES ASSUME TypeInv, [Next]_vars PROVE TypeInv'
  OBVIOUS
<1>1. ASSUME NEW p \in Reconcilers, Archive(p) PROVE TypeInv'
  BY <1>1 DEF TypeInv, TypeOK, FreezeRemembers, Archive, Return, Goto, Labels,
              WaiterLabels, CrashLabels, service, memory
<1>2. ASSUME NEW p \in Reconcilers, Abandon(p) PROVE TypeInv'
  BY <1>2, HeldCallAssumption
     DEF TypeInv, TypeOK, FreezeRemembers, Abandon, Throw, Fault, Goto,
         Labels, WaiterLabels, records, service, memory
<1>3. CASE WaiterStep
  BY <1>3, WaiterKeepsType
<1>4. CASE EventArrives
  BY <1>4 DEF EventArrives, TypeInv, TypeOK, FreezeRemembers, RemoteStates,
              records, memory
<1>9. CASE OriginAborts
  BY <1>9 DEF OriginAborts, TypeInv, TypeOK, FreezeRemembers, records, service,
              memory
<1>8. CASE InventoryArchives
  BY <1>8 DEF InventoryArchives, TypeInv, TypeOK, FreezeRemembers, service,
              memory
<1>5. CASE McpStep
  BY <1>1, <1>5, ErrorKeepsType DEF McpStep, Reconcilers
<1>6. ASSUME NEW p \in Supervisors, SupervisorStep(p) PROVE TypeInv'
  BY <1>1, <1>6, ErrorKeepsType, CrashKeepsType
     DEF SupervisorStep, Reconcilers
<1>7. CASE UNCHANGED vars
  BY <1>7 DEF vars, TypeInv, TypeOK, FreezeRemembers
<1> QED
  BY <1>2, <1>3, <1>4, <1>5, <1>6, <1>7, <1>8, <1>9 DEF Next

\* Every variable keeps its type, a frozen state included: no process freezes
\* an await it found armed.
THEOREM TypeCorrect == Spec => [](TypeOK /\ FreezeRemembers)
<1>1. Init => TypeInv
  BY TypeInit
<1>2. TypeInv /\ [Next]_vars => TypeInv'
  BY TypeStep
<1> QED
  BY <1>1, <1>2, PTL DEF Spec, TypeInv
-----------------------------------------------------------------------------
(* Election.  The elected authority never changes, so a process that reached *)
(* a commit or a cancellation label keeps obeying it whatever others do.     *)

LEMMA WaiterObeys ==
  ASSUME TypeInv, ElectionObeyed, WaiterStep
  PROVE  ElectionObeyed'
<1> USE DEF ElectionObeyed, WaiterCommitLabels, waiterUnchanged, service
<1>1. CASE PrepareFails
  BY <1>1 DEF PrepareFails
<1>2. CASE PublishArmAttempt
  BY <1>2 DEF PublishArmAttempt, WaiterPublish
<1>3. CASE ArmAwait
  BY <1>3 DEF ArmAwait, Send
<1>4. CASE PublishArmBinding
  BY <1>4 DEF PublishArmBinding, WaiterPublish
<1>5. CASE PublishBoundary
  BY <1>5 DEF PublishBoundary, WaiterPublish
<1>6. CASE PublishWaiterReady
  BY <1>6 DEF PublishWaiterReady, WaiterPublish
<1>7. CASE ElectCommit
  BY <1>7 DEF ElectCommit, Elect, CancelAuthorities
<1>8. CASE PublishCommitAttempt
  BY <1>8 DEF PublishCommitAttempt, WaiterPublish
<1>9. CASE CommitAwait
  BY <1>9 DEF CommitAwait, Send
<1>10. CASE PublishSuspension
  BY <1>10 DEF PublishSuspension, WaiterPublish
<1>11. CASE WaitForAwait
  BY <1>11 DEF WaitForAwait
<1>12. CASE PublishWakeDelivery
  BY <1>12 DEF PublishWakeDelivery, WaiterPublish
<1>13. CASE PublishObservationIntent
  BY <1>13 DEF PublishObservationIntent, WaiterPublish
<1>14. CASE PublishToolError
  BY <1>14 DEF PublishToolError
<1>15. CASE PublishToolErrorObservation
  BY <1>15 DEF PublishToolErrorObservation
<1>16. CASE WaiterStops
  BY <1>16 DEF WaiterStops
<1> QED
  BY <1>1, <1>2, <1>3, <1>4, <1>5, <1>6, <1>7, <1>8, <1>9, <1>10, <1>11,
     <1>12, <1>13, <1>14, <1>15, <1>16
     DEF WaiterStep

\* The tool error lifecycle elects or reads the authority, then obeys it.
LEMMA ErrorObeys ==
  ASSUME NEW p \in Reconcilers, TypeInv, ElectionObeyed, ErrorStep(p)
  PROVE  ElectionObeyed'
<1>0. /\ pc \in [Reconcilers -> Labels]
      /\ waiter \in WaiterLabels
      /\ authority \in CancelAuthorities \cup {"commit", "none"}
  BY DEF TypeInv, TypeOK, Authorities
<1> USE <1>0 DEF ElectionObeyed, CommitLabels, CancelLabels, WaiterCommitLabels,
                 CancelAuthorities, Goto, service
<1>1. CASE ErrorBegin(p)
  BY <1>1 DEF ErrorBegin, records
<1>2. CASE ErrorRead(p)
  BY <1>2 DEF ErrorRead, ErrorDisposition, Return, records
<1>3. CASE PreArm(p)
  BY <1>3 DEF PreArm, Throw
<1>4. CASE ErrorArm(p)
  BY <1>4 DEF ErrorArm, Send, Return, records
<1>5. CASE ErrorFreeze(p)
  BY <1>5 DEF ErrorFreeze, Return, Throw
<1>6. CASE ErrorBind(p)
  BY <1>6 DEF ErrorBind
<1>7. CASE ErrorBound(p)
  BY <1>7 DEF ErrorBound
<1>8. CASE ErrorDecide(p)
  BY <1>8 DEF ErrorDecide, ErrorObey, Throw, records
<1>9. CASE ErrorElect(p)
  BY <1>9 DEF ErrorElect, ErrorObey, Elect, Winner, Opposed, Throw
<1>10. CASE ErrorCancel(p)
  BY <1>10 DEF ErrorCancel, Send, Return, Throw, records
<1>11. CASE ErrorTerminal(p)
  BY <1>11 DEF ErrorTerminal, Throw
<1>12. CASE ErrorAttempt(p)
  BY <1>12 DEF ErrorAttempt
<1>13. CASE ErrorCommit(p)
  BY <1>13 DEF ErrorCommit, Send, Return, Throw, records
<1>14. CASE ErrorSuspend(p)
  BY <1>14 DEF ErrorSuspend, Return
<1> QED
  BY <1>1, <1>2, <1>3, <1>4, <1>5, <1>6, <1>7, <1>8, <1>9, <1>10, <1>11,
     <1>12, <1>13, <1>14
     DEF ErrorStep

\* The crash reconciler, likewise.
LEMMA CrashObeys ==
  ASSUME NEW p \in Supervisors, TypeInv, ElectionObeyed, CrashStep(p)
  PROVE  ElectionObeyed'
<1> p \in Reconcilers
  BY DEF Reconcilers
<1>0. pc \in [Reconcilers -> Labels] /\ waiter \in WaiterLabels
  BY DEF TypeInv, TypeOK
<1> USE <1>0 DEF ElectionObeyed, CommitLabels, CancelLabels, WaiterCommitLabels,
                 CancelAuthorities, Goto, service
<1>1. CASE CrashBegin(p)
  BY <1>1 DEF CrashBegin
<1>2. CASE CrashRead(p)
  BY <1>2 DEF CrashRead, ExistingDisposition, Throw, readOnly, records
<1>3. CASE CrashArm(p)
  BY <1>3 DEF CrashArm, Send, records
<1>4. CASE CrashFreeze(p)
  BY <1>4 DEF CrashFreeze
<1>5. CASE CrashBind(p)
  BY <1>5 DEF CrashBind, CrashPublish
<1>6. CASE CrashBound(p)
  BY <1>6 DEF CrashBound, CrashPublish
<1>7. CASE CrashReady(p)
  BY <1>7 DEF CrashReady, CrashPublish
<1>8. CASE CrashDecide(p)
  BY <1>8 DEF CrashDecide, CrashObey, readOnly, records
<1>9. CASE CrashElect(p)
  BY <1>9 DEF CrashElect, CrashObey, Elect, Winner, Opposed
<1>10. CASE CrashIntentArm(p)
  BY <1>10 DEF CrashIntentArm, CrashIntent, ExistingDisposition, Throw
<1>11. CASE CrashCancel(p)
  BY <1>11 DEF CrashCancel, Send, records
<1>12. CASE CrashTerminal(p)
  BY <1>12 DEF CrashTerminal
<1>13. CASE CrashCancelled(p)
  BY <1>13 DEF CrashCancelled
<1>14. CASE CrashAttempt(p)
  BY <1>14 DEF CrashAttempt, CrashPublish
<1>15. CASE CrashAuthority(p)
  BY <1>15 DEF CrashAuthority, Elect, Winner, Opposed
<1>16. CASE CrashIntentCommit(p)
  BY <1>16 DEF CrashIntentCommit, CrashIntent, ExistingDisposition, Throw
<1>17. CASE CrashCommit(p)
  BY <1>17 DEF CrashCommit, Send, records
<1>18. CASE CrashSuspend(p)
  BY <1>18 DEF CrashSuspend, CrashPublish
<1>19. CASE CrashCommitted(p)
  BY <1>19 DEF CrashCommitted
<1>20. CASE Certify(p)
  BY <1>20 DEF Certify
<1> QED
  BY <1>1, <1>2, <1>3, <1>4, <1>5, <1>6, <1>7, <1>8, <1>9, <1>10, <1>11,
     <1>12, <1>13, <1>14, <1>15, <1>16, <1>17, <1>18, <1>19, <1>20
     DEF CrashStep

LEMMA ElectionStep == TypeInv /\ ElectionObeyed /\ [Next]_vars => ElectionObeyed'
<1> SUFFICES ASSUME TypeInv, ElectionObeyed, [Next]_vars PROVE ElectionObeyed'
  OBVIOUS
<1> USE DEF CommitLabels, CancelLabels, WaiterCommitLabels
<1>0. pc \in [Reconcilers -> Labels] /\ waiter \in WaiterLabels
  BY DEF TypeInv, TypeOK
<1>1. ASSUME NEW p \in Reconcilers, Archive(p) PROVE ElectionObeyed'
  BY <1>0, <1>1 DEF ElectionObeyed, Archive, Return, Goto, service
<1>2. ASSUME NEW p \in Reconcilers, Abandon(p) PROVE ElectionObeyed'
  BY <1>0, <1>2 DEF ElectionObeyed, Abandon, Throw, Goto, records, service
<1>3. CASE WaiterStep
  BY <1>3, WaiterObeys
<1>4. CASE EventArrives \/ OriginAborts \/ InventoryArchives
  BY <1>4 DEF ElectionObeyed, EventArrives, OriginAborts, InventoryArchives,
              records, service
<1>5. CASE McpStep
  BY <1>1, <1>5, ErrorObeys DEF McpStep, Reconcilers
<1>6. ASSUME NEW p \in Supervisors, SupervisorStep(p) PROVE ElectionObeyed'
  BY <1>1, <1>6, ErrorObeys, CrashObeys DEF SupervisorStep, Reconcilers
<1>7. CASE UNCHANGED vars
  BY <1>7 DEF vars, ElectionObeyed
<1> QED
  BY <1>2, <1>3, <1>4, <1>5, <1>6, <1>7 DEF Next

\* Every process, wherever it was interrupted, obeys the one elected authority.
THEOREM ElectionHolds == Spec => []ElectionObeyed
<1>1. Init => ElectionObeyed
  BY DEF Init, ElectionObeyed, CommitLabels, CancelLabels, WaiterCommitLabels
<1> QED
  BY <1>1, TypeInit, TypeStep, ElectionStep, PTL DEF Spec

\* No call is both committed and cancelled at the service, by any number of
\* supervisors and with any number of faults.
THEOREM OneTransitionHolds == Spec => []OneTransition
<1>1. ElectionObeyed => OneTransition
  BY DEF ElectionObeyed, OneTransition, CancelAuthorities
<1> QED
  BY <1>1, ElectionHolds, PTL
-----------------------------------------------------------------------------
(* Evidence and intent.  Records are never removed, so evidence a process    *)
(* held when it reached a label is there when it elects.                     *)

EvidenceInv == EvidenceFirst /\ IntentFollowsAuthority

\* The waiter is ready before it elects.
LEMMA WaiterEvidence ==
  ASSUME TypeInv, ElectionObeyed, EvidenceInv, WaiterStep
  PROVE  EvidenceInv'
<1>0. /\ pc \in [Reconcilers -> Labels]
      /\ seen \in [Reconcilers -> Memories]
      /\ authority \in CancelAuthorities \cup {"commit", "none"}
  BY DEF TypeInv, TypeOK, Authorities
<1> USE <1>0 DEF ElectionObeyed, EvidenceInv, EvidenceFirst,
                 IntentFollowsAuthority, ErrorOwnerLabels, CrashOwnerLabels,
                 CrashReadyLabels, CrashLabels, CommitLabels, CancelLabels,
                 WaiterCommitLabels, CancelAuthorities, waiterUnchanged,
                 memory
<1>1. CASE PrepareFails
  BY <1>1 DEF PrepareFails
<1>2. CASE PublishArmAttempt
  BY <1>2 DEF PublishArmAttempt, WaiterPublish, Publish
<1>3. CASE ArmAwait
  BY <1>3 DEF ArmAwait
<1>4. CASE PublishArmBinding
  BY <1>4 DEF PublishArmBinding, WaiterPublish, Publish
<1>5. CASE PublishBoundary
  BY <1>5 DEF PublishBoundary, WaiterPublish, Publish
<1>6. CASE PublishWaiterReady
  BY <1>6 DEF PublishWaiterReady, WaiterPublish, Publish
<1>7. CASE ElectCommit
  BY <1>7 DEF ElectCommit, Elect
<1>8. CASE PublishCommitAttempt
  BY <1>8 DEF PublishCommitAttempt, WaiterPublish, Publish
<1>9. CASE CommitAwait
  BY <1>9 DEF CommitAwait
<1>10. CASE PublishSuspension
  BY <1>10 DEF PublishSuspension, WaiterPublish, Publish
<1>11. CASE WaitForAwait
  BY <1>11 DEF WaitForAwait
<1>12. CASE PublishWakeDelivery
  BY <1>12 DEF PublishWakeDelivery, WaiterPublish, Publish
<1>13. CASE PublishObservationIntent
  BY <1>13 DEF PublishObservationIntent, WaiterPublish, Publish
<1>14. CASE PublishToolError
  BY <1>14 DEF PublishToolError, Publish
<1>15. CASE PublishToolErrorObservation
  BY <1>15 DEF PublishToolErrorObservation, Publish
<1>16. CASE WaiterStops
  BY <1>16 DEF WaiterStops
<1> QED
  BY <1>1, <1>2, <1>3, <1>4, <1>5, <1>6, <1>7, <1>8, <1>9, <1>10, <1>11,
     <1>12, <1>13, <1>14, <1>15, <1>16
     DEF WaiterStep

\* The lifecycle elects a cancellation for an error the host observed.
LEMMA ErrorEvidence ==
  ASSUME NEW p \in Reconcilers, TypeInv, ElectionObeyed, EvidenceInv,
  ErrorStep(p)
  PROVE  EvidenceInv'
<1>0. /\ pc \in [Reconcilers -> Labels]
      /\ seen \in [Reconcilers -> Memories]
      /\ authority \in CancelAuthorities \cup {"commit", "none"}
  BY DEF TypeInv, TypeOK, Authorities
<1> USE <1>0 DEF ElectionObeyed, EvidenceInv, EvidenceFirst,
                 IntentFollowsAuthority, ErrorOwnerLabels, CrashOwnerLabels,
                 CrashReadyLabels, CrashLabels, CommitLabels, CancelLabels,
                 WaiterCommitLabels, CancelAuthorities, Goto, memory
<1>1. CASE ErrorBegin(p)
  BY <1>1 DEF ErrorBegin, Remember, records
<1>2. CASE ErrorRead(p)
  BY <1>2 DEF ErrorRead, ErrorDisposition, Return, records
<1>3. CASE PreArm(p)
  BY <1>3 DEF PreArm, Throw
<1>4. CASE ErrorArm(p)
  BY <1>4 DEF ErrorArm, Remember, Return, records
<1>5. CASE ErrorFreeze(p)
  BY <1>5 DEF ErrorFreeze, Return, Throw
<1>6. CASE ErrorBind(p)
  BY <1>6 DEF ErrorBind, Publish
<1>7. CASE ErrorBound(p)
  BY <1>7 DEF ErrorBound, Publish
<1>8. CASE ErrorDecide(p)
  BY <1>8 DEF ErrorDecide, ErrorObey, Remember, Throw, records
<1>9. CASE ErrorElect(p)
  BY <1>9 DEF ErrorElect, ErrorObey, Elect, Winner, Opposed, Throw
<1>10. CASE ErrorCancel(p)
  BY <1>10 DEF ErrorCancel, Return, Throw, records
<1>11. CASE ErrorTerminal(p)
  BY <1>11 DEF ErrorTerminal, Throw
<1>12. CASE ErrorAttempt(p)
  BY <1>12 DEF ErrorAttempt, Publish
<1>13. CASE ErrorCommit(p)
  BY <1>13 DEF ErrorCommit, Return, Throw, records
<1>14. CASE ErrorSuspend(p)
  BY <1>14 DEF ErrorSuspend, Return, Publish
<1> QED
  BY <1>1, <1>2, <1>3, <1>4, <1>5, <1>6, <1>7, <1>8, <1>9, <1>10, <1>11,
     <1>12, <1>13, <1>14
     DEF ErrorStep

\* The crash reconciler elects a cancellation for a persisted abort receipt.
LEMMA CrashEvidence ==
  ASSUME NEW p \in Supervisors, TypeInv, ElectionObeyed, EvidenceInv,
  CrashStep(p)
  PROVE  EvidenceInv'
<1> p \in Reconcilers
  BY DEF Reconcilers
<1>0. /\ pc \in [Reconcilers -> Labels]
      /\ seen \in [Reconcilers -> Memories]
      /\ authority \in CancelAuthorities \cup {"commit", "none"}
  BY DEF TypeInv, TypeOK, Authorities
<1> USE <1>0 DEF ElectionObeyed, EvidenceInv, EvidenceFirst,
                 IntentFollowsAuthority, ErrorOwnerLabels, CrashOwnerLabels,
                 CrashReadyLabels, CrashLabels, CommitLabels, CancelLabels,
                 WaiterCommitLabels, CancelAuthorities, Goto, memory
<1>1. CASE CrashBegin(p)
  BY <1>1 DEF CrashBegin, Publish
<1>2. CASE CrashRead(p)
  BY <1>2 DEF CrashRead, ExistingDisposition, CommitContext, Remember, Throw,
              readOnly, records
<1>3. CASE CrashArm(p)
  BY <1>3 DEF CrashArm, Remember, records
<1>4. CASE CrashFreeze(p)
  BY <1>4 DEF CrashFreeze
<1>5. CASE CrashBind(p)
  BY <1>5 DEF CrashBind, CrashPublish, Publish
<1>6. CASE CrashBound(p)
  BY <1>6 DEF CrashBound, CrashPublish, Publish
<1>7. CASE CrashReady(p)
  BY <1>7 DEF CrashReady, CrashPublish, Publish
<1>8. CASE CrashDecide(p)
  BY <1>8 DEF CrashDecide, CrashObey, Remember, readOnly, records
<1>9. CASE CrashElect(p)
  BY <1>9 DEF CrashElect, CrashObey, Elect, Winner, Opposed
<1>10. CASE CrashIntentArm(p)
  BY <1>10 DEF CrashIntentArm, CrashIntent, ExistingDisposition, Throw
<1>11. CASE CrashCancel(p)
  BY <1>11 DEF CrashCancel, records
<1>12. CASE CrashTerminal(p)
  BY <1>12 DEF CrashTerminal
<1>13. CASE CrashCancelled(p)
  BY <1>13 DEF CrashCancelled
<1>14. CASE CrashAttempt(p)
  BY <1>14 DEF CrashAttempt, CrashPublish, Publish
<1>15. CASE CrashAuthority(p)
  BY <1>15 DEF CrashAuthority, Elect, Winner, Opposed
<1>16. CASE CrashIntentCommit(p)
  BY <1>16 DEF CrashIntentCommit, CrashIntent, ExistingDisposition, Throw
<1>17. CASE CrashCommit(p)
  BY <1>17 DEF CrashCommit, records
<1>18. CASE CrashSuspend(p)
  BY <1>18 DEF CrashSuspend, CrashPublish, Publish
<1>19. CASE CrashCommitted(p)
  BY <1>19 DEF CrashCommitted
<1>20. CASE Certify(p)
  BY <1>20 DEF Certify
<1> QED
  BY <1>1, <1>2, <1>3, <1>4, <1>5, <1>6, <1>7, <1>8, <1>9, <1>10, <1>11,
     <1>12, <1>13, <1>14, <1>15, <1>16, <1>17, <1>18, <1>19, <1>20
     DEF CrashStep

LEMMA EvidenceStep ==
  TypeInv /\ ElectionObeyed /\ EvidenceInv /\ [Next]_vars => EvidenceInv'
<1> SUFFICES ASSUME TypeInv, ElectionObeyed, EvidenceInv, [Next]_vars
             PROVE  EvidenceInv'
  OBVIOUS
<1>0. pc \in [Reconcilers -> Labels]
  BY DEF TypeInv, TypeOK
<1>1. ASSUME NEW p \in Reconcilers, Archive(p) PROVE EvidenceInv'
  BY <1>0, <1>1
     DEF EvidenceInv, EvidenceFirst, IntentFollowsAuthority, ErrorOwnerLabels,
         CrashOwnerLabels, CrashReadyLabels, CrashLabels, WaiterCommitLabels,
         Archive, Return, Goto, service, memory
<1>2. ASSUME NEW p \in Reconcilers, Abandon(p) PROVE EvidenceInv'
  BY <1>0, <1>2
     DEF EvidenceInv, EvidenceFirst, IntentFollowsAuthority, ErrorOwnerLabels,
         CrashOwnerLabels, CrashReadyLabels, CrashLabels, WaiterCommitLabels,
         Abandon, Throw, Goto, records, service, memory
<1>3. CASE WaiterStep
  BY <1>3, WaiterEvidence
<1>4. CASE EventArrives \/ OriginAborts \/ InventoryArchives
  BY <1>4 DEF EvidenceInv, EvidenceFirst, IntentFollowsAuthority,
              ErrorOwnerLabels, CrashOwnerLabels, CrashReadyLabels,
              CrashLabels, WaiterCommitLabels, EventArrives, OriginAborts,
              InventoryArchives, Suspended, records, service, memory
<1>5. CASE McpStep
  BY <1>1, <1>5, ErrorEvidence DEF McpStep, Reconcilers
<1>6. ASSUME NEW p \in Supervisors, SupervisorStep(p) PROVE EvidenceInv'
  BY <1>1, <1>6, ErrorEvidence, CrashEvidence DEF SupervisorStep, Reconcilers
<1>7. CASE UNCHANGED vars
  BY <1>7 DEF vars, EvidenceInv, EvidenceFirst, IntentFollowsAuthority,
              ErrorOwnerLabels, CrashOwnerLabels, CrashReadyLabels,
              CrashLabels, WaiterCommitLabels
<1> QED
  BY <1>2, <1>3, <1>4, <1>5, <1>6, <1>7 DEF Next

\* Intents, commit attempts and evidence agree with the election, so none of
\* the conflicts the reconcilers fail closed on can occur.
THEOREM IntentAgrees == Spec => []IntentFollowsAuthority
<1>1. Init => EvidenceInv
  BY DEF Init, EvidenceInv, EvidenceFirst, IntentFollowsAuthority,
         CancelAuthorities, ErrorOwnerLabels, CrashOwnerLabels,
         CrashReadyLabels, CrashLabels
<1>2. Init => ElectionObeyed
  BY DEF Init, ElectionObeyed, CommitLabels, CancelLabels, WaiterCommitLabels
<1> QED
  BY <1>1, <1>2, TypeInit, TypeStep, ElectionStep, EvidenceStep, PTL
     DEF Spec, EvidenceInv

-----------------------------------------------------------------------------
(* Suspension.  A commit is attempted on disk before it is sent; once the    *)
(* service accepted it, nothing unsuspends the await.                        *)

SuspensionInv == AttemptBeforeCommit /\ SuspensionIsCommitted

\* The waiter records a suspension the service accepted.
LEMMA WaiterSuspends ==
  ASSUME TypeInv, ElectionObeyed, SuspensionInv, WaiterStep
  PROVE  SuspensionInv'
<1>0. /\ pc \in [Reconcilers -> Labels]
      /\ seen \in [Reconcilers -> Memories]
      /\ authority \in CancelAuthorities \cup {"commit", "none"}
  BY DEF TypeInv, TypeOK, Authorities
<1> USE <1>0 DEF ElectionObeyed, SuspensionInv, AttemptBeforeCommit,
                 SuspensionIsCommitted, AttemptedLabels, Suspended,
                 CommitLabels, WaiterCommitLabels, waiterUnchanged
<1>1. CASE PrepareFails
  BY <1>1 DEF PrepareFails, service
<1>2. CASE PublishArmAttempt
  BY <1>2 DEF PublishArmAttempt, WaiterPublish, Publish, service
<1>3. CASE ArmAwait
  BY <1>3 DEF ArmAwait, ArmEffect
<1>4. CASE PublishArmBinding
  BY <1>4 DEF PublishArmBinding, WaiterPublish, Publish, service
<1>5. CASE PublishBoundary
  BY <1>5 DEF PublishBoundary, WaiterPublish, Publish, service
<1>6. CASE PublishWaiterReady
  BY <1>6 DEF PublishWaiterReady, WaiterPublish, Publish, service
<1>7. CASE ElectCommit
  BY <1>7 DEF ElectCommit, Elect, service
<1>8. CASE PublishCommitAttempt
  BY <1>8 DEF PublishCommitAttempt, WaiterPublish, Publish, service
<1>9. CASE CommitAwait
  BY <1>9 DEF CommitAwait, CommitEffect
<1>10. CASE PublishSuspension
  BY <1>10 DEF PublishSuspension, WaiterPublish, Publish, service
<1>11. CASE WaitForAwait
  BY <1>11 DEF WaitForAwait, service
<1>12. CASE PublishWakeDelivery
  BY <1>12 DEF PublishWakeDelivery, WaiterPublish, Publish, service
<1>13. CASE PublishObservationIntent
  BY <1>13 DEF PublishObservationIntent, WaiterPublish, Publish, service
<1>14. CASE PublishToolError
  BY <1>14 DEF PublishToolError, Publish, service
<1>15. CASE PublishToolErrorObservation
  BY <1>15 DEF PublishToolErrorObservation, Publish, service
<1>16. CASE WaiterStops
  BY <1>16 DEF WaiterStops, service
<1> QED
  BY <1>1, <1>2, <1>3, <1>4, <1>5, <1>6, <1>7, <1>8, <1>9, <1>10, <1>11,
     <1>12, <1>13, <1>14, <1>15, <1>16
     DEF WaiterStep

\* The lifecycle replays a commit it found or published.
LEMMA ErrorSuspends ==
  ASSUME NEW p \in Reconcilers, TypeInv, ElectionObeyed, SuspensionInv,
  ErrorStep(p)
  PROVE  SuspensionInv'
<1>0. /\ pc \in [Reconcilers -> Labels]
      /\ seen \in [Reconcilers -> Memories]
      /\ authority \in CancelAuthorities \cup {"commit", "none"}
  BY DEF TypeInv, TypeOK, Authorities
<1> USE <1>0 DEF ElectionObeyed, SuspensionInv, AttemptBeforeCommit,
                 SuspensionIsCommitted, AttemptedLabels, Suspended,
                 CommitLabels, WaiterCommitLabels, Goto
<1>1. CASE ErrorBegin(p)
  BY <1>1 DEF ErrorBegin, Remember, records, service
<1>2. CASE ErrorRead(p)
  BY <1>2 DEF ErrorRead, ErrorDisposition, Return, records, service
<1>3. CASE PreArm(p)
  BY <1>3 DEF PreArm, Throw, service
<1>4. CASE ErrorArm(p)
  BY <1>4 DEF ErrorArm, ArmEffect, Remember, Return, records
<1>5. CASE ErrorFreeze(p)
  BY <1>5 DEF ErrorFreeze, Return, Throw, service
<1>6. CASE ErrorBind(p)
  BY <1>6 DEF ErrorBind, Publish, service
<1>7. CASE ErrorBound(p)
  BY <1>7 DEF ErrorBound, Publish, service
<1>8. CASE ErrorDecide(p)
  BY <1>8 DEF ErrorDecide, ErrorObey, Remember, Throw, records, service
<1>9. CASE ErrorElect(p)
  BY <1>9 DEF ErrorElect, ErrorObey, Elect, Winner, Opposed, Throw, service
<1>10. CASE ErrorCancel(p)
  BY <1>10 DEF ErrorCancel, CancelEffect, Return, Throw, records
<1>11. CASE ErrorTerminal(p)
  BY <1>11 DEF ErrorTerminal, Throw, service
<1>12. CASE ErrorAttempt(p)
  BY <1>12 DEF ErrorAttempt, Publish, service
<1>13. CASE ErrorCommit(p)
  BY <1>13 DEF ErrorCommit, CommitEffect, CommitAccepted, Return, Throw,
               records, service
<1>14. CASE ErrorSuspend(p)
  BY <1>14 DEF ErrorSuspend, Return, Publish, service
<1> QED
  BY <1>1, <1>2, <1>3, <1>4, <1>5, <1>6, <1>7, <1>8, <1>9, <1>10, <1>11,
     <1>12, <1>13, <1>14
     DEF ErrorStep

\* So does the crash reconciler.
LEMMA CrashSuspends ==
  ASSUME NEW p \in Supervisors, TypeInv, ElectionObeyed, SuspensionInv,
  CrashStep(p)
  PROVE  SuspensionInv'
<1> p \in Reconcilers
  BY DEF Reconcilers
<1>0. /\ pc \in [Reconcilers -> Labels]
      /\ seen \in [Reconcilers -> Memories]
      /\ authority \in CancelAuthorities \cup {"commit", "none"}
  BY DEF TypeInv, TypeOK, Authorities
<1> USE <1>0 DEF ElectionObeyed, SuspensionInv, AttemptBeforeCommit,
                 SuspensionIsCommitted, AttemptedLabels, Suspended,
                 CommitLabels, WaiterCommitLabels, Goto
<1>1. CASE CrashBegin(p)
  BY <1>1 DEF CrashBegin, Publish, service
<1>2. CASE CrashRead(p)
  BY <1>2 DEF CrashRead, ExistingDisposition, CommitContext, Remember, Throw,
              readOnly, records, service
<1>3. CASE CrashArm(p)
  BY <1>3 DEF CrashArm, ArmEffect, Remember, records
<1>4. CASE CrashFreeze(p)
  BY <1>4 DEF CrashFreeze, service
<1>5. CASE CrashBind(p)
  BY <1>5 DEF CrashBind, CrashPublish, Publish, service
<1>6. CASE CrashBound(p)
  BY <1>6 DEF CrashBound, CrashPublish, Publish, service
<1>7. CASE CrashReady(p)
  BY <1>7 DEF CrashReady, CrashPublish, Publish, service
<1>8. CASE CrashDecide(p)
  BY <1>8 DEF CrashDecide, CrashObey, Remember, readOnly, records, service
<1>9. CASE CrashElect(p)
  BY <1>9 DEF CrashElect, CrashObey, Elect, Winner, Opposed, service
<1>10. CASE CrashIntentArm(p)
  BY <1>10 DEF CrashIntentArm, CrashIntent, ExistingDisposition, Throw,
               service
<1>11. CASE CrashCancel(p)
  BY <1>11 DEF CrashCancel, CancelEffect, records
<1>12. CASE CrashTerminal(p)
  BY <1>12 DEF CrashTerminal, service
<1>13. CASE CrashCancelled(p)
  BY <1>13 DEF CrashCancelled, service
<1>14. CASE CrashAttempt(p)
  BY <1>14 DEF CrashAttempt, CrashPublish, Publish, service
<1>15. CASE CrashAuthority(p)
  BY <1>15 DEF CrashAuthority, Elect, Winner, Opposed, service
<1>16. CASE CrashIntentCommit(p)
  BY <1>16 DEF CrashIntentCommit, CrashIntent, ExistingDisposition, Throw,
               service
<1>17. CASE CrashCommit(p)
  BY <1>17 DEF CrashCommit, CommitEffect, CommitAccepted, records
<1>18. CASE CrashSuspend(p)
  BY <1>18 DEF CrashSuspend, CrashPublish, Publish, service
<1>19. CASE CrashCommitted(p)
  BY <1>19 DEF CrashCommitted, service
<1>20. CASE Certify(p)
  BY <1>20 DEF Certify, service
<1> QED
  BY <1>1, <1>2, <1>3, <1>4, <1>5, <1>6, <1>7, <1>8, <1>9, <1>10, <1>11,
     <1>12, <1>13, <1>14, <1>15, <1>16, <1>17, <1>18, <1>19, <1>20
     DEF CrashStep

LEMMA SuspensionStep ==
  TypeInv /\ ElectionObeyed /\ SuspensionInv /\ [Next]_vars => SuspensionInv'
<1> SUFFICES ASSUME TypeInv, ElectionObeyed, SuspensionInv, [Next]_vars
             PROVE  SuspensionInv'
  OBVIOUS
<1>0. pc \in [Reconcilers -> Labels]
  BY DEF TypeInv, TypeOK
<1>1. ASSUME NEW p \in Reconcilers, Archive(p) PROVE SuspensionInv'
  BY <1>0, <1>1
     DEF SuspensionInv, AttemptBeforeCommit, SuspensionIsCommitted,
         AttemptedLabels, WaiterCommitLabels, Archive, Return, Goto, service,
         memory
<1>2. ASSUME NEW p \in Reconcilers, Abandon(p) PROVE SuspensionInv'
  BY <1>0, <1>2
     DEF SuspensionInv, AttemptBeforeCommit, SuspensionIsCommitted,
         AttemptedLabels, WaiterCommitLabels, Abandon, Throw, Goto, records,
         service, memory
<1>3. CASE WaiterStep
  BY <1>3, WaiterSuspends
<1>4. CASE EventArrives \/ OriginAborts \/ InventoryArchives
  BY <1>4 DEF SuspensionInv, AttemptBeforeCommit, SuspensionIsCommitted,
              AttemptedLabels, WaiterCommitLabels, EventArrives, OriginAborts,
              InventoryArchives, Suspended, records, service, memory
<1>5. CASE McpStep
  BY <1>1, <1>5, ErrorSuspends DEF McpStep, Reconcilers
<1>6. ASSUME NEW p \in Supervisors, SupervisorStep(p) PROVE SuspensionInv'
  BY <1>1, <1>6, ErrorSuspends, CrashSuspends DEF SupervisorStep, Reconcilers
<1>7. CASE UNCHANGED vars
  BY <1>7 DEF vars, SuspensionInv, AttemptBeforeCommit, SuspensionIsCommitted,
              AttemptedLabels, WaiterCommitLabels
<1> QED
  BY <1>2, <1>3, <1>4, <1>5, <1>6, <1>7 DEF Next

\* Only an elected, attempted and accepted commit is recorded as a suspension.
THEOREM SuspensionHolds == Spec => []SuspensionIsCommitted
<1>1. Init => SuspensionInv
  BY DEF Init, SuspensionInv, AttemptBeforeCommit, SuspensionIsCommitted,
         AttemptedLabels, WaiterCommitLabels
<1>2. Init => ElectionObeyed
  BY DEF Init, ElectionObeyed, CommitLabels, CancelLabels, WaiterCommitLabels
<1> QED
  BY <1>1, <1>2, TypeInit, TypeStep, ElectionStep, SuspensionStep, PTL
     DEF Spec, SuspensionInv
=============================================================================
