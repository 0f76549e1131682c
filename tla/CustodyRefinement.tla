-------------------------- MODULE CustodyRefinement -------------------------
(* How CustodyStore implements CustodyRegister while one Store object serves *)
(* its directory.                                                            *)
EXTENDS CustodyStore

\* A bundle less its ciphertext.
EntryOf(b) ==
    IF b = None THEN None
    ELSE [kek |-> b.kek, state |-> b.state,
          owner |-> [account |-> b.account, device |-> b.device]]

\* The KEK of the one store, when there is one.
KekNow ==
    IF \E n \in Names : registry[n] # None
    THEN kek[registry[CHOOSE n \in Names : registry[n] # None]]
    ELSE None

\* A step that was called and has not returned is pending, whatever it has read.
CallOf(c) ==
    IF c.pc \in {"called", "inspected", "read"}
    THEN [pc |-> "pending", op |-> c.op, ref |-> c.ref, arg |-> c.arg]
    ELSE c

Register ==
    INSTANCE CustodyRegister
    WITH entry <- [r \in Refs |-> EntryOf(disk[r])],
         kek   <- KekNow,
         call  <- [p \in Procs |-> CallOf(call[p])]

\* An entry is not the absent value.
ASSUME RegisterAssumption == None \notin Register!Entries

\* Every behaviour of the store is one of the register: whatever steps overlap,
\* fail or die between reading a bundle and renaming it, each operation takes
\* effect in one step, and returns "ok" only if the ref allowed it at that moment
\* (the critical sections of sealed_store.go and the two of the rotate step).
ImplementsRegister == Register!Spec

=============================================================================
