-------------------------- MODULE HeldCallContract --------------------------
(***************************************************************************)
(* What Hark promises about one held call, whatever the processes that     *)
(* serve it do: the remote await takes one transition and keeps it, the    *)
(* host gets an answer only for a committed await and an error only for    *)
(* one that can never wake it, and a settled call never changes again.     *)
(*                                                                         *)
(* A call that failed may be disowned: taken for one without an await,     *)
(* once and for all.  Its await may then still be armed and transitioned   *)
(* (once), whatever the host was told, but it brings no result any more.   *)
(***************************************************************************)

VARIABLES
  outcome,   \* of the await: "none", "open", "committed" or "cancelled"
  answer,    \* given to the host: "none", "result" or "error"
  settled,   \* the call left the spool
  aborted,   \* the origin turn is gone, nobody reads the answer
  disowned   \* the call was declared unarmed although it was

contract == <<outcome, answer, settled, aborted, disowned>>

Init ==
  /\ outcome = "none"
  /\ answer = "none"
  /\ settled = FALSE
  /\ aborted = FALSE
  /\ disowned = FALSE

\* The await moves while the call is open to the host, or disowned.
Open == (answer = "none" /\ ~settled) \/ disowned

Arm ==
  /\ outcome = "none" /\ Open
  /\ outcome' = "open"
  /\ UNCHANGED <<answer, settled, aborted, disowned>>

Transition ==
  /\ outcome = "open" /\ Open
  /\ outcome' \in {"committed", "cancelled"}
  /\ UNCHANGED <<answer, settled, aborted, disowned>>

AnswerResult ==
  /\ outcome = "committed" /\ answer = "none" /\ ~disowned
  /\ ~settled \/ aborted
  /\ answer' = "result"
  /\ UNCHANGED <<outcome, settled, aborted, disowned>>

\* An error is also allowed once nobody reads it.
AnswerError ==
  /\ answer = "none"
  /\ \/ outcome \in {"none", "cancelled"}
     \/ outcome = "committed" /\ aborted
     \/ disowned
  /\ answer' = "error"
  /\ settled' = TRUE
  /\ UNCHANGED <<outcome, aborted, disowned>>

Settle ==
  /\ ~settled
  /\ \/ outcome \in {"none", "cancelled"}
     \/ outcome = "committed" /\ (answer = "result" \/ aborted)
     \/ disowned
  /\ settled' = TRUE
  /\ UNCHANGED <<outcome, answer, aborted, disowned>>

Abort ==
  /\ ~aborted
  /\ aborted' = TRUE
  /\ UNCHANGED <<outcome, answer, settled, disowned>>

Disown ==
  /\ answer = "none" /\ ~settled /\ ~disowned
  /\ disowned' = TRUE
  /\ UNCHANGED <<outcome, answer, settled, aborted>>

Next ==
  \/ Arm \/ Transition \/ AnswerResult \/ AnswerError \/ Settle \/ Abort
  \/ Disown

Spec == Init /\ [][Next]_contract
=============================================================================
