---------------------------- MODULE PrivateClaim ----------------------------
(***************************************************************************)
(* The private claim that carries the lease from the MCP server to whoever *)
(* reports the result (private-claim-store.mjs): a pending file, and the   *)
(* tombstone that replaces it.  Each file is read and written on its own,  *)
(* while another process may be at work on the other one.                  *)
(***************************************************************************)
EXTENDS DeliveryState

Create == claim' = {"pending"}

\* resolve: the tombstone first, then the pending claim.
ResolveConsumed(a) ==
  /\ At(a, "resolve")
  /\ IF "consumed" \in claim
     THEN /\ read' = [read EXCEPT ![a] = "consumed"]
          /\ Goto(a, "resolved")
     ELSE /\ Goto(a, "resolvePending")
          /\ UNCHANGED read
  /\ UNCHANGED <<scan, host, records, claim, service, remote, reason, handed, cause, faults>>

\* private_claim_missing is an error like any other, wherever the claim went.
ResolvePending(a) ==
  /\ At(a, "resolvePending")
  /\ IF "pending" \in claim
     THEN /\ read' = [read EXCEPT ![a] = "pending"]
          /\ Goto(a, "resolved")
          /\ UNCHANGED cause
     ELSE Throw(a) /\ UNCHANGED read
  /\ UNCHANGED <<scan, host, records, claim, service, remote, reason, handed, faults>>

\* consume resolves again, publishes the tombstone and unlinks the claim.
ConsumeResolve(a) ==
  \/ /\ At(a, "consume")
     /\ Goto(a, IF "consumed" \in claim THEN "spent" ELSE "consumePending")
     /\ UNCHANGED cause
  \/ /\ At(a, "consumePending")
     /\ IF "pending" \in claim THEN Goto(a, "tombstone") /\ UNCHANGED cause ELSE Throw(a)

Tombstone(a) ==
  /\ At(a, "tombstone")
  /\ claim' = claim \cup {"consumed"}
  /\ Goto(a, "unlink")

Unlink(a) ==
  /\ At(a, "unlink")
  /\ claim' = claim \ {"pending"}
  /\ Goto(a, "spent")

Consume(a) ==
  /\ \/ ConsumeResolve(a) /\ UNCHANGED claim
     \/ (Tombstone(a) \/ Unlink(a)) /\ UNCHANGED cause
  /\ UNCHANGED <<scan, host, records, service, memory, handed, faults>>

ClaimStep(a) == ResolveConsumed(a) \/ ResolvePending(a) \/ Consume(a)
=============================================================================
