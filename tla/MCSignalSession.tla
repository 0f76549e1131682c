--------------------------- MODULE MCSignalSession --------------------------
(* SignalSession for TLC. *)
EXTENDS SignalSession, TLC

CONSTANTS a1, b1, b2

\* One identity object for alice, two in turn for bob.
MCObjects == {a1, b1, b2}
MCOf == [o \in MCObjects |-> IF o = a1 THEN "alice" ELSE "bob"]

\* Nobody writes to himself.
MCLinks == {<<"alice", "bob">>, <<"bob", "alice">>}

MCSymmetry == Permutations(Procs) \cup Permutations(Bases) \cup Permutations({b1, b2})

\* States that differ only in how a finished call ended are one state: no action
\* and no property looks at it.
MCView == <<registry, used, session, envelopes,
            [p \in Procs |-> IF Busy(p) THEN call[p] ELSE [pc |-> "idle"]]>>
=============================================================================
