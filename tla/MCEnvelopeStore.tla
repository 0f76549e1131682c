--------------------------- MODULE MCEnvelopeStore --------------------------
(* EnvelopeStore for TLC: what every instance shares. *)
EXTENDS EnvelopeRefinement, TLC

\* "x/y" and "x-y" are different keys with one envelope ref.
MCSanitize == [i \in Ids |-> IF i = "x/y" THEN "x-y" ELSE i]

\* States that differ only in how a finished call ended are one state, and so are
\* those that differ only in a temporary file nobody is about to rename: the next call
\* to rename it writes it first (one store at a time).  No action of either
\* specification and no property tells them apart.
MCView == <<backend, file, store, loading, mem, limit, lock, acked, sent,
            IF \E p \in Procs : call[p].pc = "written" THEN tmp ELSE None,
            [p \in Procs |-> IF Busy(p) THEN call[p] ELSE [pc |-> "idle"]]>>

MCSymmetry == Permutations(Procs) \cup Permutations(Objects) \cup Permutations(Msgs)
=============================================================================
