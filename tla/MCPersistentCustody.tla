------------------------ MODULE MCPersistentCustody -------------------------
(* PersistentCustody for TLC. *)
EXTENDS PersistentCustody, TLC

MCSymmetry == Permutations(Inits) \cup Permutations(CustodyRefs)
                 \cup Permutations(Owners) \cup Permutations(Seeds)
=============================================================================
