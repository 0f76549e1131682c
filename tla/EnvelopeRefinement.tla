------------------------- MODULE EnvelopeRefinement -------------------------
(* How EnvelopeStore implements EnvelopeQueue while one store object serves  *)
(* its path.                                                                 *)
EXTENDS EnvelopeStore

\* What a load of the file would bring back.
SavedState == IF file = None THEN EmptyState ELSE file

\* The queues of the registered store.
StateNow == IF store = None THEN None ELSE mem[store]

\* The limit it was configured with.
LimitNow == IF store = None THEN 0 ELSE limit[store]

\* A step that has changed memory and not renamed has been applied.
CallOf(c) ==
    IF c.pc \in {"called", "changed", "written"}
    THEN [pc  |-> IF c.pc = "called" THEN "pending" ELSE "applied",
          op  |-> c.op, ref |-> c.ref, arg |-> c.arg]
    ELSE c

Queue ==
    INSTANCE EnvelopeQueue
    WITH durable <- LocalFile,
         saved   <- SavedState,
         now     <- StateNow,
         limit   <- LimitNow,
         call    <- [p \in Procs |-> CallOf(call[p])]

\* Every behaviour of the store is one of the queue: whatever is written in pieces,
\* fails or dies between a change of memory and the rename, a request returns "ok"
\* only when the queues are saved as it left them, a failing one leaves in memory
\* at most its own change, and a restart brings back what was saved last (the
\* critical sections of envelope_store.go, persistLocked and load).
ImplementsQueue == Queue!Spec

=============================================================================
