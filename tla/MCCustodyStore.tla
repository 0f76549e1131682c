--------------------------- MODULE MCCustodyStore ---------------------------
(* CustodyStore for TLC: what every instance shares. *)
EXTENDS CustodyRefinement, TLC

\* KEK versions and refs as plain strings: nothing compares them but equality.
MCConfigOne  == {[ref |-> "k1", version |-> "v1"]}
MCConfigBoth == {[ref |-> "k1", version |-> v] : v \in KekVersions}

MCSymmetry == Permutations(Procs) \cup Permutations(Objects)
                 \cup Permutations(Devices)
=============================================================================
