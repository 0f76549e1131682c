---------------------------- MODULE LinkCeremony ----------------------------
(***************************************************************************)
(* The linked-device ceremony: ExecuteSignalServiceLinkPrepare and         *)
(* validateLinkedDeviceCeremony of internal/steps_service_operations.go.   *)
(*                                                                         *)
(* A ceremony carries a consent and the time it expires.  The step samples *)
(* the wall clock, rejects an expired consent and then, under a mutex,     *)
(* forgets the claims that had expired at the sampled time, rejects a      *)
(* consent that is still claimed and claims it.  The clock is sampled      *)
(* before the mutex is taken, so it may have moved on by then.  Only after *)
(* the claim is the operation prepared, which may fail.  Claims live in    *)
(* memory.  The expiry is the caller's: one consent may come with several. *)
(***************************************************************************)
EXTENDS Naturals

CONSTANTS
    Procs,     \* workflow steps that may be in flight together
    Consents,  \* consent refs
    Expiries,  \* consent_expires_unix
    MaxClock   \* bound: the clock stops here

ASSUME LinkAssumption ==
    /\ Expiries \subseteq Nat \ {0}
    /\ MaxClock \in Nat

VARIABLES
    clock,     \* time.Now().UTC().Unix(); never set back
    claims,    \* linkedDeviceCeremonyClaims: consent -> expiry, 0 for no claim
    call,      \* the local state of each step
    admitted   \* history: consent -> the expiries it was admitted with by this
               \* host process

vars == <<clock, claims, call, admitted>>

Calls == [pc      : {"sampled", "claimed"},
          consent : Consents,
          expires : Expiries,
          now     : 0 .. MaxClock]

Resting == [pc : {"idle", "ok", "err"}]

TypeOK ==
    /\ clock \in 0 .. MaxClock
    /\ claims \in [Consents -> Expiries \cup {0}]
    /\ call \in [Procs -> Calls \cup Resting]
    /\ admitted \in [Consents -> SUBSET Expiries]

Init ==
    /\ clock = 0
    /\ claims = [c \in Consents |-> 0]
    /\ call = [p \in Procs |-> [pc |-> "idle"]]
    /\ admitted = [c \in Consents |-> {}]

-----------------------------------------------------------------------------

Busy(p)       == call[p].pc \in {"sampled", "claimed"}
Return(p, pc) == call' = [call EXCEPT ![p] = [pc |-> pc]]

Tick ==
    /\ clock < MaxClock
    /\ clock' = clock + 1
    /\ UNCHANGED <<claims, call, admitted>>

\* linked_device of a request.
Ceremonies == [consent : Consents, expires : Expiries]

\* The checks before the mutex.  A missing field or a revoked unlink proof is an
\* error like an expired consent and touches nothing.
Sample(p) ==
    /\ ~Busy(p)
    /\ \E in \in Ceremonies :
          \/ /\ in.expires > clock
             /\ call' = [call EXCEPT ![p] =
                   [pc |-> "sampled", consent |-> in.consent, expires |-> in.expires,
                    now |-> clock]]
          \/ Return(p, "err")
    /\ UNCHANGED <<clock, claims, admitted>>

\* The claims left once those that had expired at the sampled time are deleted.
\* (The mutant deletes those of the next second as well.)
UnexpiredEarly(now) ==
    [c \in Consents |-> IF claims[c] <= now + 1 THEN 0 ELSE claims[c]]

Unexpired(now) == [c \in Consents |-> IF claims[c] <= now THEN 0 ELSE claims[c]]

\* Mutants: the replay check is lost; a claim lasts a second too long.
ClaimUnchecked(p) ==
    LET c == call[p].consent
    IN /\ call[p].pc = "sampled"
       /\ claims' = [Unexpired(call[p].now) EXCEPT ![c] = call[p].expires]
       /\ admitted' = [admitted EXCEPT ![c] = @ \cup {call[p].expires}]
       /\ call' = [call EXCEPT ![p].pc = "claimed"]
       /\ UNCHANGED clock

ClaimWithGrace(p) ==
    LET c == call[p].consent
        left == Unexpired(call[p].now)
    IN /\ call[p].pc = "sampled"
       /\ IF left[c] # 0
          THEN /\ Return(p, "err")
               /\ claims' = left
               /\ UNCHANGED admitted
          ELSE /\ claims' = [left EXCEPT ![c] = call[p].expires + 1]
               /\ admitted' = [admitted EXCEPT ![c] = @ \cup {call[p].expires}]
               /\ call' = [call EXCEPT ![p].pc = "claimed"]
       /\ UNCHANGED clock

\* The critical section.
Claim(p) ==
    LET c == call[p].consent
        left == Unexpired(call[p].now)
    IN /\ call[p].pc = "sampled"
       /\ IF left[c] # 0
          THEN /\ Return(p, "err")
               /\ claims' = left
               /\ UNCHANGED admitted
          ELSE /\ claims' = [left EXCEPT ![c] = call[p].expires]
               /\ admitted' = [admitted EXCEPT ![c] = @ \cup {call[p].expires}]
               /\ call' = [call EXCEPT ![p].pc = "claimed"]
       /\ UNCHANGED clock

\* serviceOperationPrepared succeeds or fails (an unregistered or foreign
\* custody); either way the consent stays claimed.
Prepare(p) ==
    /\ call[p].pc = "claimed"
    /\ \E pc \in {"ok", "err"} : Return(p, pc)
    /\ UNCHANGED <<clock, claims, admitted>>

\* The host process is restarted, and has forgotten every claim.
Restart ==
    /\ claims' = [c \in Consents |-> 0]
    /\ call' = [p \in Procs |-> [pc |-> "idle"]]
    /\ admitted' = [c \in Consents |-> {}]
    /\ UNCHANGED clock

Next ==
    \/ Tick
    \/ \E p \in Procs : Sample(p) \/ Claim(p) \/ Prepare(p)
    \/ Restart

Spec == Init /\ [][Next]_vars

-----------------------------------------------------------------------------
\* Properties

Admits(p) == call[p].pc = "sampled" /\ call'[p].pc = "claimed"

\* A host process does not admit a consent again before the clock has passed the
\* expiry of each of its earlier admissions, however long a step is held up between
\* its look at the clock and the mutex: a step that lags prunes too little, never
\* too much.  (A restart forgets the admissions, and this history with them.)
NoReplayBeforeExpiry ==
    [][\A p \in Procs : Admits(p) =>
          \A e \in admitted[call[p].consent] : e <= clock]_vars

\* Two steps never prepare link operations on one consent at the same time unless
\* the consent of one of them has run out meanwhile.
NoTwoCeremonies ==
    \A p, q \in Procs :
        /\ p # q
        /\ call[p].pc = "claimed" /\ call[q].pc = "claimed"
        /\ call[p].consent = call[q].consent
        => call[p].expires <= clock \/ call[q].expires <= clock

\* "reject replayed or revoked ceremony artifacts": the same artifact, a consent
\* with its expiry, is admitted once by a host process.  A step that sampled the
\* clock before the expiry and takes the mutex after a later step, of any consent,
\* pruned the claim is let in.
ArtifactAdmittedOnce ==
    [][\A p \in Procs : Admits(p) =>
          call[p].expires \notin admitted[call[p].consent]]_vars

=============================================================================
