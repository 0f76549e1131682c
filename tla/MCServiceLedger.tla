--------------------------- MODULE MCServiceLedger --------------------------
(* ServiceLedger for TLC. *)
EXTENDS ServiceLedger, TLC

\* States that differ only in how a finished call ended are one state: no action
\* and no invariant looks at it.
MCView == <<registry, ledger, records, accepted, disturbed,
            [p \in Procs |-> IF Busy(p) THEN call[p] ELSE [pc |-> "idle"]]>>

MCSymmetry == Permutations(Procs) \cup Permutations(Objects)
                 \cup Permutations(Keys) \cup Permutations(Requests)
=============================================================================
