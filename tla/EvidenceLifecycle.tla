-------------------------- MODULE EvidenceLifecycle --------------------------
(***************************************************************************)
(* What the evidence table promises about each of its rows                 *)
(* (crates/ch-memory/src/lib.rs:109-118): it starts pending, is verified   *)
(* or failed at most once, and does not change after that.                 *)
(***************************************************************************)
CONSTANT Evidence     (* ids of rows *)
VARIABLE status       (* "none" while there is no such row *)

EvidenceStatus == {"pending", "verified", "failed"}

Init == status = [r \in Evidence |-> "none"]

Moves(r, from, to) == status[r] = from /\ status' = [status EXCEPT ![r] = to]

Submit(r) == Moves(r, "none", "pending")
Verify(r) == Moves(r, "pending", "verified")
Fail(r) == Moves(r, "pending", "failed")

Next == \E r \in Evidence : Submit(r) \/ Verify(r) \/ Fail(r)

Spec == Init /\ [][Next]_status
=============================================================================
