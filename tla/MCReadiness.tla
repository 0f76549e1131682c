---------------------------- MODULE MCReadiness -----------------------------
(* Readiness for TLC. *)
EXTENDS Readiness, TLC

MCSymmetry == Permutations(CustodyRefs) \cup Permutations(Accounts)
=============================================================================
