---------------------------- MODULE ServiceLedger ---------------------------
(***************************************************************************)
(* The idempotency ledgers of the fake and sandbox service steps: the      *)
(* signal_service_test_* steps (internal/service_test_steps.go) and        *)
(* signal_service_live_submit with its transports                          *)
(* (internal/service_transport.go).                                        *)
(*                                                                         *)
(* The test steps share one ledger, every transport object has its own.  A *)
(* step copies a ledger under a mutex, runs a fake service client on the   *)
(* copy without it, and puts the client's ledger back under the mutex: the *)
(* copy replaces the ledger, it is not merged into it.  A submission that  *)
(* names no transport starts from an empty copy and puts it back in the    *)
(* ledger of the test steps.                                               *)
(*                                                                         *)
(* The fake client is a library; what is used of it is that it refuses a   *)
(* key its ledger holds with another request, answers a repeated request   *)
(* again and enters an accepted one.  Whether it enters a request it       *)
(* answers with a challenge is left open.  Everything here is in memory:   *)
(* a restart is the initial state.                                         *)
(***************************************************************************)
EXTENDS Naturals, FiniteSets

CONSTANTS
    Procs,       \* workflow steps that may be in flight together
    Transports,  \* transport refs
    Objects,     \* transport objects (reused once nothing refers to them)
    Keys,        \* idempotency keys
    Requests,    \* what a request asks for under its key
    Global,      \* the ledger of the test steps
    Reload,      \* may a transport be initialised again while it is registered?
    RefLess,     \* may a submission name no transport?
    None

ASSUME LedgerAssumption ==
    /\ {Reload, RefLess} \subseteq BOOLEAN
    /\ Global \notin Objects
    /\ None \notin Objects \cup Requests

Ledgers   == [Keys -> Requests \cup {None}]
NoEntries == [k \in Keys |-> None]
Owners    == Objects \cup {Global}
Entries   == [key : Keys, request : Requests]

Calls == [pc : {"found", "cloned"}, owner : Owners, entry : Entries, copy : Ledgers,
          copied : BOOLEAN]  \* history: is copy taken from the owner's ledger?

Resting == [pc : {"idle", "ok", "err"}]

VARIABLES
    registry,  \* signalServiceTransports: Transports -> transport object or None
    ledger,    \* signalServiceTestLedger (Global) and transport.ledger
    records,   \* transport.records, as the set of what was submitted
    call,      \* the local state of each step
    accepted,  \* history: what each ledger's key was accepted for
    disturbed  \* history: ledgers put back while another step worked on a copy,
               \* or by a submission that had not copied them

vars == <<registry, ledger, records, call, accepted, disturbed>>

TypeOK ==
    /\ registry \in [Transports -> Objects \cup {None}]
    /\ ledger \in [Owners -> Ledgers]
    /\ records \in [Objects -> SUBSET Entries]
    /\ call \in [Procs -> Calls \cup Resting]
    /\ accepted \in [Owners -> [Keys -> SUBSET Requests]]
    /\ disturbed \subseteq Owners

Init ==
    /\ registry = [t \in Transports |-> None]
    /\ ledger = [o \in Owners |-> NoEntries]
    /\ records = [o \in Objects |-> {}]
    /\ call = [p \in Procs |-> [pc |-> "idle"]]
    /\ accepted = [o \in Owners |-> [k \in Keys |-> {}]]
    /\ disturbed = {}

-----------------------------------------------------------------------------

Busy(p) == call[p].pc \in {"found", "cloned"}

Unused(o) ==
    /\ \A t \in Transports : registry[t] # o
    /\ \A p \in Procs : Busy(p) => call[p].owner # o

\* Mutant: the new transport is left without a ledger.
TransportInitNoLedger(t) ==
    /\ Reload \/ registry[t] = None
    /\ \E o \in Objects :
          /\ Unused(o)
          /\ registry' = [registry EXCEPT ![t] = o]
          /\ ledger' = [ledger EXCEPT ![o] = None]
          /\ records' = [records EXCEPT ![o] = {}]
          /\ accepted' = [accepted EXCEPT ![o] = [k \in Keys |-> {}]]
          /\ disturbed' = disturbed \ {o}
    /\ UNCHANGED call

\* serviceTransportModule.Init: a fresh object with an empty ledger; the one it
\* replaces keeps serving the submissions that found it.
TransportInit(t) ==
    /\ Reload \/ registry[t] = None
    /\ \E o \in Objects :
          /\ Unused(o)
          /\ registry' = [registry EXCEPT ![t] = o]
          /\ ledger' = [ledger EXCEPT ![o] = NoEntries]
          /\ records' = [records EXCEPT ![o] = {}]
          /\ accepted' = [accepted EXCEPT ![o] = [k \in Keys |-> {}]]
          /\ disturbed' = disturbed \ {o}
    /\ UNCHANGED call

Return(p, pc) == call' = [call EXCEPT ![p] = [pc |-> pc]]

Begin(p, pc, owner, copy, copied) ==
    /\ \E e \in Entries :
          call' = [call EXCEPT ![p] = [pc |-> pc, owner |-> owner, entry |-> e,
                                       copy |-> copy, copied |-> copied]]
    /\ UNCHANGED <<registry, ledger, records, accepted, disturbed>>

\* A request for an unregistered transport or account, or with the custody of
\* another account, ends before it reaches a ledger.
Rejected(p) ==
    /\ ~Busy(p)
    /\ Return(p, "err")
    /\ UNCHANGED <<registry, ledger, records, accepted, disturbed>>

\* serviceTestClient: the copy is taken under the ledger's mutex.
TestStep(p) == ~Busy(p) /\ Begin(p, "cloned", Global, ledger[Global], TRUE)

\* transportLedger(nil): the copy is empty, the owner is the test steps' ledger.
SubmitNoTransport(p) ==
    RefLess /\ ~Busy(p) /\ Begin(p, "cloned", Global, NoEntries, FALSE)

\* lookupServiceTransport ...
SubmitFound(p, t) ==
    /\ ~Busy(p) /\ registry[t] # None
    /\ Begin(p, "found", registry[t], NoEntries, FALSE)

\* Mutant: every submission starts from an empty copy.
CopyOfEmpty(p) == NoEntries

CopyOf(p) == ledger[call[p].owner]

\* ... and, in a critical section of its own, the copy of the transport's ledger.
SubmitClone(p) ==
    /\ call[p].pc = "found"
    /\ call' = [call EXCEPT ![p].pc = "cloned", ![p].copy = CopyOf(p),
                             ![p].copied = TRUE]
    /\ UNCHANGED <<registry, ledger, records, accepted, disturbed>>

-----------------------------------------------------------------------------
\* The client's answer

\* The fake's rule: a key belongs to the request it was first accepted with.
Conflict(c) == c.copy[c.entry.key] \notin {None, c.entry.request}

Entered(c) == [c.copy EXCEPT ![c.entry.key] = c.entry.request]

\* Mutant: the client's records replace those of the transport.
RecordedReplacing(c) ==
    IF c.owner = Global THEN records ELSE [records EXCEPT ![c.owner] = {c.entry}]

\* The records are appended to those the transport has by then.
Recorded(c) ==
    IF c.owner = Global THEN records
    ELSE [records EXCEPT ![c.owner] = @ \cup {c.entry}]

\* Another step has a copy of the ledger that this one puts back.
Overlaps(p) ==
    \E q \in Procs \ {p} : call[q].pc = "cloned" /\ call[q].owner = call[p].owner

\* serviceTestResult, and the update of transportLedger.
PutBack(p, entries) ==
    /\ ledger' = [ledger EXCEPT ![call[p].owner] = entries]
    /\ disturbed' = IF Overlaps(p) \/ ~call[p].copied
                    THEN disturbed \cup {call[p].owner} ELSE disturbed
    /\ records' = Recorded(call[p])
    /\ Return(p, "ok")
    /\ UNCHANGED registry

Accept(p) ==
    LET c == call[p]
    IN /\ c.pc = "cloned" /\ ~Conflict(c)
       /\ PutBack(p, Entered(c))
       /\ accepted' = [accepted EXCEPT ![c.owner][c.entry.key] = @ \cup {c.entry.request}]

Challenge(p) ==
    LET c == call[p]
    IN /\ c.pc = "cloned" /\ ~Conflict(c)
       /\ \E entries \in {c.copy, Entered(c)} : PutBack(p, entries)
       /\ UNCHANGED accepted

\* A conflict, expired credentials, a refused operation, a live transport that is
\* denied: nothing is put back.
Fail(p) ==
    /\ call[p].pc = "cloned"
    /\ Return(p, "err")
    /\ UNCHANGED <<registry, ledger, records, accepted, disturbed>>

Next ==
    \/ \E t \in Transports : TransportInit(t)
    \/ \E p \in Procs :
          \/ Rejected(p) \/ TestStep(p) \/ SubmitNoTransport(p)
          \/ \E t \in Transports : SubmitFound(p, t)
          \/ SubmitClone(p) \/ Accept(p) \/ Challenge(p) \/ Fail(p)

Spec == Init /\ [][Next]_vars

-----------------------------------------------------------------------------
\* Properties

\* A key of a ledger is accepted for one request only, unless the ledger was put
\* back while another step worked on its copy of it, or by a submission without a
\* transport: whatever challenges, failures, transports initialised again and
\* overlaps on other ledgers there are (serviceTestResult, transportLedger).
IdempotentUndisturbed ==
    \A o \in Owners \ disturbed, k \in Keys : Cardinality(accepted[o][k]) <= 1

\* Whatever a transport accepted stays in its records, even when steps overlap and
\* the ledger loses the entry: the records are appended to under the mutex while
\* the ledger is replaced by a copy.
RecordsAreComplete ==
    \A o \in Objects, k \in Keys :
        \A r \in accepted[o][k] : [key |-> k, request |-> r] \in records[o]

-----------------------------------------------------------------------------
\* What the documentation says and the code does not do in general

\* "exercise deterministic fake registration with idempotency": the test steps accept
\* a key for one request only.  Two of them that overlap each work on a copy of the
\* ledger that does not hold the other's entry (serviceTestClient, serviceTestResult).
TestStepsAreIdempotent ==
    \A k \in Keys : Cardinality(accepted[Global][k]) <= 1

=============================================================================
