--------------------------- MODULE CustodyRegister --------------------------
(***************************************************************************)
(* What the sealed custody store promises while one Store object serves    *)
(* its directory: a register of entries whose operations are atomic.  An   *)
(* operation takes effect, if at all, in one step between its call and its *)
(* return; it returns "ok" only when the entry allows it at that moment.   *)
(* Entries survive the death of the host, calls do not.                    *)
(*                                                                         *)
(* There are no files, mutexes or ciphertexts here.  CustodyRefinement     *)
(* shows that CustodyStore implements this.                                *)
(***************************************************************************)

CONSTANTS
    Procs,       \* workflow steps that may be in flight together
    Refs,        \* custody refs
    Owners,      \* what a create binds a ref to: [account, device]
    Targets,     \* what a rotation asks for: [ref, version]; ref may be None
    Keks,        \* key-encryption keys: [ref, version]
    Resolvable,  \* the KEK refs whose secret the host can resolve
    ConfigKeks,  \* the KEKs the store may be configured with
    None

VARIABLES
    entry,  \* Refs -> entry or None
    kek,    \* the KEK the store works with; None while it is down
    call    \* the local state of each step

vars == <<entry, kek, call>>

Entries == [kek : Keks, state : {"active", "revoked"}, owner : Owners]

Pending == [pc  : {"pending"},
            op  : {"create", "rotate", "restore", "revoke", "inspect"},
            ref : Refs,
            arg : Owners \cup Targets \cup {None}]

Init ==
    /\ entry = [r \in Refs |-> None]
    /\ kek = None
    /\ call = [p \in Procs |-> [pc |-> "idle"]]

Up ==
    /\ kek = None
    /\ kek' \in ConfigKeks
    /\ UNCHANGED <<entry, call>>

Down ==
    /\ kek' = None
    /\ call' = [p \in Procs |-> [pc |-> "idle"]]
    /\ UNCHANGED entry

Return(p, pc) == call' = [call EXCEPT ![p] = [pc |-> pc]]

Call(p) ==
    /\ call[p].pc # "pending"
    /\ kek # None
    /\ call'[p] \in Pending
    /\ call' = [call EXCEPT ![p] = call'[p]]
    /\ UNCHANGED <<entry, kek>>

Refuse(p) ==
    /\ call[p].pc # "pending"
    /\ kek = None
    /\ Return(p, "err")
    /\ UNCHANGED <<entry, kek>>

Is(p, op) == call[p].pc = "pending" /\ call[p].op = op

\* Only an entry under the KEK of the store can be worked with, and no KEK without
\* its secret.
Current(r) == entry[r] # None /\ entry[r].kek = kek /\ kek.ref \in Resolvable

Create(p) ==
    /\ Is(p, "create") /\ kek.ref \in Resolvable
    /\ entry' = [entry EXCEPT ![call[p].ref] =
                    [kek |-> kek, state |-> "active", owner |-> call[p].arg]]
    /\ Return(p, "ok")
    /\ UNCHANGED kek

\* The KEK of the entry and that of the store move together.
Rotate(p) ==
    LET r == call[p].ref
        to == [ref |-> IF call[p].arg.ref = None THEN kek.ref ELSE call[p].arg.ref,
               version |-> call[p].arg.version]
    IN /\ Is(p, "rotate")
       /\ Current(r) /\ entry[r].state = "active"
       /\ to.ref \in Resolvable
       /\ entry' = [entry EXCEPT ![r].kek = to]
       /\ kek' = to
       /\ Return(p, "ok")

Revoke(p) ==
    /\ Is(p, "revoke") /\ Current(call[p].ref)
    /\ entry' = [entry EXCEPT ![call[p].ref].state = "revoked"]
    /\ Return(p, "ok")
    /\ UNCHANGED kek

Restore(p) ==
    /\ Is(p, "restore") /\ Current(call[p].ref)
    /\ entry[call[p].ref].state = "active"
    /\ Return(p, "ok")
    /\ UNCHANGED <<entry, kek>>

Inspect(p) ==
    /\ Is(p, "inspect") /\ Current(call[p].ref)
    /\ Return(p, "ok")
    /\ UNCHANGED <<entry, kek>>

\* An operation that fails has had no effect.
Fail(p) ==
    /\ call[p].pc = "pending"
    /\ Return(p, "err")
    /\ UNCHANGED <<entry, kek>>

Next ==
    \/ Up \/ Down
    \/ \E p \in Procs :
          \/ Call(p) \/ Refuse(p) \/ Fail(p)
          \/ Create(p) \/ Rotate(p) \/ Revoke(p) \/ Restore(p) \/ Inspect(p)

Spec == Init /\ [][Next]_vars

=============================================================================
