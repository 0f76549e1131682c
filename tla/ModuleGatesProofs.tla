-------------------------- MODULE ModuleGatesProofs -------------------------
(***************************************************************************)
(* What is registered was accepted, and what runs live was approved, for   *)
(* any configurations, approval packages and submissions.                  *)
(***************************************************************************)
EXTENDS ModuleGates, TLAPS

\* A module that waits for its Init is of the type followed and was accepted.
InstanceIsAccepted ==
    instance # None => instance.type = type /\ \E n \in Nat : Accepted(instance, n)

\* So was what Init registered.
RegisteredIsAccepted ==
    registry # None =>
        registry.config.type = type /\ \E n \in Nat : Accepted(registry.config, n)

\* A submission samples the time of its gate no earlier than it was called.
TimeIsSampled ==
    \A p \in Procs : Busy(p) => call[p].begun <= call[p].at

\* What was refused was not approved at the time.
RefusalIsMeant ==
    refused # None => ~Approved(refused.approval, refused.at, refused.actions)

IInv ==
    /\ TypeOK /\ InstanceIsAccepted /\ RegisteredIsAccepted
    /\ TimeIsSampled /\ RefusalIsMeant

\* The types of the configurations.
LEMMA FileConfigTypes ==
  ASSUME NEW c
  PROVE  /\ c \in PersistentCustodyConfigs => c.type = "signal.persistent_custody"
         /\ c \in CustodyStoreConfigs => c.type = "signal.custody_store"
         /\ c \in EnvelopeStoreConfigs => c.type = "signal.envelope_store"
  BY DEF PersistentCustodyConfigs, CustodyStoreConfigs, FileConfigs, EnvelopeStoreConfigs

LEMMA OtherConfigTypes ==
  ASSUME NEW c
  PROVE  /\ c \in KeyCustodyConfigs => c.type = "signal.key_custody"
         /\ c \in AccountRefConfigs => c.type = "signal.account_ref"
         /\ c \in IdentityStoreConfigs => c.type = "signal.identity_store"
         /\ c \in OfficialServiceBoundaryConfigs =>
                c.type = "signal.official_service_boundary"
         /\ c \in LivePolicyConfigs => c.type = "signal.live_policy"
         /\ c \in ServiceTransportConfigs => c.type = "signal.service_transport"
  BY DEF KeyCustodyConfigs, AccountRefConfigs, IdentityStoreConfigs,
         OfficialServiceBoundaryConfigs, LivePolicyConfigs, ServiceTransportConfigs

\* A registered transport has a gate.
LEMMA TransportHasGate ==
  ASSUME NEW c, NEW n, Accepted(c, n), c.type = "signal.service_transport"
  PROVE  c.gate \in Gates
<1>1. c \in ServiceTransportConfigs
  BY FileConfigTypes, OtherConfigTypes DEF Accepted
<1> QED BY <1>1 DEF ServiceTransportConfigs

\* An accepted module with a file behind it was asked for.
LEMMA AcceptedFilesAreOptedIn ==
  ASSUME NEW c, NEW n, Accepted(c, n),
         c.type \in {"signal.persistent_custody", "signal.custody_store",
                     "signal.envelope_store"},
         c.backend \in {"local_file", "test_file"}
  PROVE  /\ c.named
         /\ IF c.backend = "test_file" THEN c.allowTest ELSE c.allowLocal
         /\ Normalised[c.policy] \notin {"production", "prod"}
<1>1. \/ c \in PersistentCustodyConfigs \cup CustodyStoreConfigs /\ FileAccepted(c)
      \/ c \in EnvelopeStoreConfigs /\ EnvelopeAccepted(c)
  BY FileConfigTypes, OtherConfigTypes DEF Accepted
<1>2. CASE FileAccepted(c)
  BY <1>2 DEF FileAccepted, ProductionPolicyMode
<1>3. CASE EnvelopeAccepted(c)
  BY <1>3 DEF EnvelopeAccepted, ProductionPolicyMode
<1> QED BY <1>1, <1>2, <1>3

-----------------------------------------------------------------------------

LEMMA InitEstablishes == Init => IInv
  BY GatesAssumption DEF GatesAssumption, Init, IInv, TypeOK, InstanceIsAccepted,
     RegisteredIsAccepted, TimeIsSampled, RefusalIsMeant, Busy

\* A submission that resolves its gate.
LEMMA ResolvedStep ==
  ASSUME IInv, NEW p \in Procs, NEW gate \in Gates, Resolved(p, gate, clock)
  PROVE  IInv'
<1>1. call' \in [Procs -> Calls \cup [pc : {"idle", "ok", "denied", "err"}]]
  BY DEF IInv, TypeOK, Resolved, Calls
<1>2. TimeIsSampled'
  <2> SUFFICES ASSUME NEW q \in Procs, Busy(q)' PROVE (call[q].begun <= call[q].at)'
    BY DEF TimeIsSampled
  <2>1. CASE q = p
    <3>1. clock \in Nat
      BY GatesAssumption DEF GatesAssumption, IInv, TypeOK
    <3>2. call'[p].begun = clock /\ call'[p].at = clock
      BY DEF Resolved, IInv, TypeOK
    <3> QED BY <2>1, <3>1, <3>2
  <2>2. CASE q # p
    BY <2>2 DEF Resolved, IInv, TypeOK, TimeIsSampled, Busy
  <2> QED BY <2>1, <2>2
<1> QED BY <1>1, <1>2 DEF IInv, TypeOK, Resolved, InstanceIsAccepted,
           RegisteredIsAccepted, RefusalIsMeant

\* A submission that ends.
LEMMA ReturnStep ==
  ASSUME IInv, NEW p \in Procs, NEW pc \in {"ok", "denied", "err"}, Return(p, pc)
  PROVE  IInv'
<1>1. call' \in [Procs -> Calls \cup [pc : {"idle", "ok", "denied", "err"}]]
  BY DEF IInv, TypeOK, Return
<1>2. TimeIsSampled'
  BY DEF IInv, TypeOK, Return, TimeIsSampled, Busy
<1> QED BY <1>1, <1>2 DEF IInv, TypeOK, Return, InstanceIsAccepted,
           RegisteredIsAccepted, RefusalIsMeant

\* Every step keeps the invariant.
LEMMA NextKeeps == ASSUME IInv, [Next]_vars PROVE IInv'
<1> USE GatesAssumption DEF GatesAssumption
<1>0. clock \in Nat
  BY DEF IInv, TypeOK
<1>1. CASE Tick
  BY <1>1, <1>0 DEF Tick, IInv, TypeOK, InstanceIsAccepted, RegisteredIsAccepted,
     TimeIsSampled, RefusalIsMeant, Busy
<1>2. CASE Create
  <2>1. PICK c \in Configured :
           c.type = type /\ instance' = IF Accepted(c, clock) THEN c ELSE None
    BY <1>2 DEF Create
  <2>2. InstanceIsAccepted'
    BY <1>2, <2>1, <1>0 DEF Create, InstanceIsAccepted
  <2> QED BY <1>2, <2>1, <2>2 DEF Create, IInv, TypeOK, RegisteredIsAccepted,
             TimeIsSampled, RefusalIsMeant, Busy
<1>3. CASE ModuleInit
  <2>1. registry' = [config |-> instance, at |-> clock] \/ registry' = registry
    BY <1>3 DEF ModuleInit
  <2>2. TypeOK'
    BY <1>3, <2>1 DEF ModuleInit, IInv, TypeOK
  <2>3. RegisteredIsAccepted'
    BY <1>3, <2>1 DEF ModuleInit, IInv, InstanceIsAccepted, RegisteredIsAccepted
  <2> QED BY <1>3, <2>2, <2>3 DEF ModuleInit, IInv, InstanceIsAccepted,
             TimeIsSampled, RefusalIsMeant, Busy
<1>4. ASSUME NEW p \in Procs, ResolveRequest(p) PROVE IInv'
  <2>1. PICK r \in Requests : Resolved(p, GateOf(r), clock)
    BY <1>4 DEF ResolveRequest
  <2>2. GateOf(r) \in Gates
    BY DEF GateOf, Gates, Requests, OperationActions
  <2> QED BY <2>1, <2>2, ResolvedStep
<1>5. ASSUME NEW p \in Procs, ResolveTransport(p) PROVE IInv'
  <2>1. registry.config.gate \in Gates
    BY <1>5, TransportHasGate DEF ResolveTransport, Submitted, IInv,
       RegisteredIsAccepted
  <2> QED BY <1>5, <2>1, ResolvedStep DEF ResolveTransport
<1>6. ASSUME NEW p \in Procs, Refused(p) \/ Submit(p) \/ Denied(p) \/ Fails(p)
      PROVE  IInv'
  BY <1>6, ReturnStep DEF Refused, Submit, Denied, Fails
<1>7. CASE ApprovalValidate
  <2>1. PICK in \in ApprovalRequests :
          /\ in.mode \in {"", "live"} /\ in.approval # None /\ ~ApprovalAllows(in)
          /\ refused' = [approval |-> in.approval, actions |-> in.actions, at |-> clock]
    BY <1>7 DEF ApprovalValidate
  <2>2. refused' \in Refusals
    BY <2>1 DEF ApprovalRequests, Refusals, IInv, TypeOK
  <2>3. RefusalIsMeant'
    BY <2>1 DEF RefusalIsMeant, ApprovalAllows
  <2> QED BY <1>7, <2>2, <2>3 DEF ApprovalValidate, IInv, TypeOK, InstanceIsAccepted,
             RegisteredIsAccepted, TimeIsSampled, Busy
<1>8. CASE UNCHANGED vars
  BY <1>8 DEF vars, IInv, TypeOK, InstanceIsAccepted, RegisteredIsAccepted,
     TimeIsSampled, RefusalIsMeant, Busy
<1> QED BY <1>1, <1>2, <1>3, <1>4, <1>5, <1>6, <1>7, <1>8 DEF Next

LEMMA Invariance == Spec => []IInv
<1>1. Init => IInv BY InitEstablishes
<1>2. IInv /\ [Next]_vars => IInv' BY NextKeeps
<1> QED BY <1>1, <1>2, PTL DEF Spec

\* The variables keep their types.
THEOREM TypeCorrect == Spec => []TypeOK
<1>1. IInv => TypeOK BY DEF IInv
<1> QED BY <1>1, Invariance, PTL

\* A module whose queues, seeds or custodies are in a file is registered only where
\* its configuration asks for that backend, opts in and has no production policy
\* (newPersistentCustodyModule, newCustodyStoreModule, newEnvelopeStoreModule).
THEOREM FilesOptedIn == Spec => []FilesAreOptedIn
<1>1. IInv => FilesAreOptedIn
  BY AcceptedFilesAreOptedIn DEF IInv, RegisteredIsAccepted, FilesAreOptedIn
<1> QED BY <1>1, Invariance, PTL

\* A submission that ends well was carried out by Submit, with the gate open at the
\* time it had sampled.
LEMMA RunsThroughTheGate ==
  ASSUME IInv, [Next]_vars, NEW p \in Procs,
         Busy(p), call'[p].pc = "ok", call[p].gate.mode = "live"
  PROVE  /\ Approved(call[p].gate.approval, call[p].at, call[p].gate.actions)
         /\ Expires[call[p].gate.approval] \in Nat
         /\ call[p].at \in Nat /\ call[p].begun \in Nat /\ call[p].begun <= call[p].at
<1>1. Submit(p)
  <2>1. call' # call
    BY DEF Busy
  <2>2. PICK q \in Procs :
          \/ ResolveRequest(q) \/ ResolveTransport(q) \/ Refused(q)
          \/ Submit(q) \/ Denied(q) \/ Fails(q)
    BY <2>1 DEF Next, vars, Tick, Create, ModuleInit, ApprovalValidate
  <2>3. q = p
    BY <2>2 DEF IInv, TypeOK, Busy, ResolveRequest, ResolveTransport, Refused,
       Submit, Denied, Fails, Resolved, Return
  <2>4. ~Submitted(p)
    BY DEF Submitted
  <2>5. ~Denied(p) /\ ~Fails(p)
    BY DEF IInv, TypeOK, Denied, Fails, Return
  <2> QED BY <2>2, <2>3, <2>4, <2>5 DEF ResolveRequest, ResolveTransport, Refused
<1>2. Approved(call[p].gate.approval, call[p].at, call[p].gate.actions)
  BY <1>1 DEF Submit, Opens, TransportMode
<1>3. call[p] \in Calls
  BY DEF IInv, TypeOK, Busy
<1>4. Expires[call[p].gate.approval] \in Nat /\ call[p].at \in Nat /\ call[p].begun \in Nat
  BY <1>2, <1>3, GatesAssumption DEF GatesAssumption, Approved, Calls, Gates
<1> QED BY <1>2, <1>4 DEF IInv, TimeIsSampled

\* A submission runs live only under a package that is complete for the actions and
\* had not expired when it was called (executeSignalServiceLiveSubmit,
\* NewTransport).
THEOREM LiveApproved == Spec => LiveRunsAreApproved
<1> DEFINE RanApproved(p) ==
      LET gate == call[p].gate
      IN Busy(p) /\ call'[p].pc = "ok" /\ gate.mode = "live" =>
            /\ gate.approval # None
            /\ gate.actions \subseteq Covers[gate.approval]
            /\ call[p].begun < Expires[gate.approval]
<1>1. ASSUME IInv, [Next]_vars, NEW p \in Procs PROVE RanApproved(p)
  BY <1>1, RunsThroughTheGate DEF Approved
<1>2. IInv /\ [Next]_vars => [\A p \in Procs : RanApproved(p)]_vars
  BY <1>1
<1>3. [][\A p \in Procs : RanApproved(p)]_vars <=> LiveRunsAreApproved
  BY DEF LiveRunsAreApproved
<1> QED BY <1>2, <1>3, Invariance, PTL DEF Spec

\* What approval_validate refused does not run live afterwards, for those actions or
\* more: the submission samples the time anew, and time only takes approvals away
\* (ExecuteSignalServiceApprovalValidate, resolveSubmitTransport, NewTransport).
THEOREM RefusalFinal == Spec => RefusalIsFinal
<1> DEFINE RanUnrefused(p) ==
      LET gate == call[p].gate
      IN Busy(p) /\ call'[p].pc = "ok" /\ gate.mode = "live" /\ refused # None
            /\ call[p].begun >= refused.at /\ refused.actions \subseteq gate.actions =>
         gate.approval # refused.approval
<1>1. ASSUME IInv, [Next]_vars, NEW p \in Procs PROVE RanUnrefused(p)
  <2> SUFFICES ASSUME Busy(p), call'[p].pc = "ok", call[p].gate.mode = "live",
                      refused # None, call[p].begun >= refused.at,
                      refused.actions \subseteq call[p].gate.actions,
                      call[p].gate.approval = refused.approval
               PROVE  FALSE
    OBVIOUS
  <2>1. /\ Approved(refused.approval, call[p].at, call[p].gate.actions)
        /\ Expires[refused.approval] \in Nat
        /\ call[p].at \in Nat /\ call[p].begun \in Nat /\ call[p].begun <= call[p].at
    BY <1>1, RunsThroughTheGate
  <2>2. refused.at \in Nat
    BY <1>1 DEF IInv, TypeOK, Refusals
  <2>3. refused.at < Expires[refused.approval]
    BY <2>1, <2>2 DEF Approved
  <2>4. refused.actions \subseteq Covers[refused.approval]
    BY <2>1 DEF Approved
  <2> QED BY <1>1, <2>1, <2>3, <2>4 DEF IInv, RefusalIsMeant, Approved
<1>2. IInv /\ [Next]_vars => [\A p \in Procs : RanUnrefused(p)]_vars
  BY <1>1
<1>3. [][\A p \in Procs : RanUnrefused(p)]_vars <=> RefusalIsFinal
  BY DEF RefusalIsFinal
<1> QED BY <1>2, <1>3, Invariance, PTL DEF Spec

=============================================================================
