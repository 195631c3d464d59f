---------------------------- MODULE WakeContract ----------------------------
(***************************************************************************)
(* What the supervision of one wake promises to the two parties outside    *)
(* it.  The host is called at most once, and only after the wake was       *)
(* received and the call irrevocably announced.  The service is told       *)
(* either that the wake was refused, and then no call was or will be made, *)
(* or that it woke the thread and completed, and then the prompt guard     *)
(* admitted exactly that call.                                             *)
(***************************************************************************)

VARIABLES
  call,      \* none, announced (the dispatch intent), made
  admitted,  \* the prompt guard has acknowledged the wake's prompt
  told       \* the last thing the service was told

vars == <<call, admitted, told>>

Init == call = "none" /\ admitted = FALSE /\ told = "nothing"

Receive == told = "nothing" /\ told' = "received" /\ UNCHANGED <<call, admitted>>

Refuse == /\ told = "received" /\ call = "none"
          /\ told' = "refused"
          /\ UNCHANGED <<call, admitted>>

Announce == /\ told = "received" /\ call = "none"
            /\ call' = "announced"
            /\ UNCHANGED <<admitted, told>>

Make == call = "announced" /\ call' = "made" /\ UNCHANGED <<admitted, told>>

Admit == call = "made" /\ ~admitted /\ admitted' = TRUE /\ UNCHANGED <<call, told>>

Report == /\ admitted /\ told = "received"
          /\ told' = "woken"
          /\ UNCHANGED <<call, admitted>>

Complete == told = "woken" /\ told' = "completed" /\ UNCHANGED <<call, admitted>>

Next == Receive \/ Refuse \/ Announce \/ Make \/ Admit \/ Report \/ Complete

Spec == Init /\ [][Next]_vars
=============================================================================
