----------------------------- MODULE ModuleGates ----------------------------
(***************************************************************************)
(* Which configurations become modules, and which submissions are carried  *)
(* out: the constructors behind CreateTypedModule (internal/provider.go),  *)
(* signal_service_live_submit with its transports                          *)
(* (internal/service_transport.go) and approval_validate, which reports    *)
(* whether an approval package would let a live transport open.            *)
(*                                                                         *)
(* A module is created, then initialised.  A configuration is judged when  *)
(* it is created; a live transport is judged again by every submission, at *)
(* a time the submission samples when it starts.  Approvals expire.        *)
(*                                                                         *)
(* Modules of different types share nothing but the clock, so a behaviour  *)
(* follows the modules of one type registered under one name; submissions  *)
(* and reports are followed where that type is the transport.              *)
(***************************************************************************)
EXTENDS Naturals

CONSTANTS
    Procs,        \* submissions that may be in flight together
    PolicyModes,  \* spellings of policy_mode
    Normalised,   \* PolicyModes -> the spelling trimmed and in lower case
    Packages,     \* approval packages
    Covers,       \* Packages -> the actions a package is complete for
    Expires,      \* Packages -> when the first of its parts expires
    Actions,      \* actions that may be requested
    Operations,   \* operations of a submission
    Configured,   \* bound: the configurations that occur
    MaxClock,     \* bound: the clock stops here
    None

ASSUME GatesAssumption ==
    /\ Covers \in [Packages -> SUBSET Actions]
    /\ Expires \in [Packages -> Nat]
    /\ MaxClock \in Nat
    /\ None \notin Packages \cup Configured
    /\ Operations \subseteq Actions \cup {"challenge_response"}
    /\ "production_egress" \in Actions

-----------------------------------------------------------------------------
\* Configurations.  named: are the refs, paths and key handles the type requires
\* given?

Backends == {"", "memory", "local_file", "test_file"}
Modes    == {"", "disabled", "test_double", "fake", "sandbox", "live"}

FileConfigs(type) ==
    [type : {type}, named : BOOLEAN, backend : Backends, policy : PolicyModes,
     allowLocal : BOOLEAN, allowTest : BOOLEAN]

PersistentCustodyConfigs == FileConfigs("signal.persistent_custody")
CustodyStoreConfigs      == FileConfigs("signal.custody_store")
EnvelopeStoreConfigs ==
    [type : {"signal.envelope_store"}, named : BOOLEAN, backend : Backends,
     policy : PolicyModes, allowLocal : BOOLEAN]

KeyCustodyConfigs ==
    [type : {"signal.key_custody"}, named : BOOLEAN, secrets : BOOLEAN, key : BOOLEAN,
     allowSecrets : BOOLEAN]
AccountRefConfigs    == [type : {"signal.account_ref"}, named : BOOLEAN]
IdentityStoreConfigs == [type : {"signal.identity_store"}, named : BOOLEAN]

OfficialServiceBoundaryConfigs ==
    [type : {"signal.official_service_boundary"}, mode : Modes]
LivePolicyConfigs == [type : {"signal.live_policy"}, mode : Modes]

\* What a transport is made of; a submission without a transport brings its own.
Gates == [mode : Modes, endpoint : BOOLEAN, approval : Packages \cup {None},
          actions : SUBSET Actions]
ServiceTransportConfigs ==
    [type : {"signal.service_transport"}, named : BOOLEAN, gate : Gates]

-----------------------------------------------------------------------------
\* Constructors

\* (Mutant: the spelling is compared as it is.)
ProductionPolicyModeAsIs(mode) == mode \in {"production", "prod"}

ProductionPolicyMode(mode) == Normalised[mode] \in {"production", "prod"}

\* newPersistentCustodyModule, newCustodyStoreModule
FileAccepted(c) ==
    /\ c.named
    /\ ~ProductionPolicyMode(c.policy)
    /\ \/ c.backend = "local_file" /\ c.allowLocal
       \/ c.backend = "test_file" /\ c.allowTest

\* newEnvelopeStoreModule: without a backend the queues are in memory.
EnvelopeAccepted(c) ==
    \/ c.backend \in {"", "memory"}
    \/ /\ c.backend = "local_file"
       /\ c.allowLocal /\ c.named /\ ~ProductionPolicyMode(c.policy)

\* newKeyCustodyModule
CustodyAccepted(c) ==
    c.named /\ (c.secrets => c.allowSecrets) /\ (c.key \/ c.secrets)

\* validateServiceBoundaryMode
BoundaryAccepted(c) == c.mode \in {"", "disabled", "test_double"}

\* servicepolicy.ValidateApprovalPackage finds nothing to deny.
Approved(package, now, actions) ==
    /\ package # None
    /\ Covers[package] # {} /\ actions \subseteq Covers[package]
    /\ now < Expires[package]

\* serviceTransportConfig, and the mode of serviceTransportModule.Init
TransportMode(mode) == IF mode = "" THEN "fake" ELSE mode

\* serviceclient.NewTransport
Opens(gate, now) ==
    \/ TransportMode(gate.mode) = "fake"
    \/ TransportMode(gate.mode) = "sandbox" /\ gate.endpoint
    \/ TransportMode(gate.mode) = "live" /\ Approved(gate.approval, now, gate.actions)

\* CreateTypedModule.  An identity store and an account are only looked at by Init.
Accepted(c, now) ==
    \/ c \in PersistentCustodyConfigs \cup CustodyStoreConfigs /\ FileAccepted(c)
    \/ c \in EnvelopeStoreConfigs /\ EnvelopeAccepted(c)
    \/ c \in KeyCustodyConfigs /\ CustodyAccepted(c)
    \/ c \in AccountRefConfigs /\ c.named
    \/ c \in IdentityStoreConfigs
    \/ c \in OfficialServiceBoundaryConfigs \cup LivePolicyConfigs /\ BoundaryAccepted(c)
    \/ c \in ServiceTransportConfigs /\ c.named /\ Opens(c.gate, now)

-----------------------------------------------------------------------------

VARIABLES
    type,      \* the type of the modules this behaviour follows
    clock,     \* time.Now; never set back
    instance,  \* a module created and not yet initialised, or None
    registry,  \* what Init registered: a configuration and when, or None
    call,      \* the local state of each submission
    refused    \* history: the last refusal that approval_validate reported, or None

vars == <<type, clock, instance, registry, call, refused>>

Types == {c.type : c \in Configured}

Calls == [pc : {"resolved"}, gate : Gates, at : 0 .. MaxClock,
          begun : 0 .. MaxClock]  \* history: when the step was called

Refusals == [approval : Packages, actions : SUBSET Actions, at : 0 .. MaxClock]

TypeOK ==
    /\ type \in Types
    /\ clock \in 0 .. MaxClock
    /\ instance \in Configured \cup {None}
    /\ registry \in [config : Configured, at : 0 .. MaxClock] \cup {None}
    /\ call \in [Procs -> Calls \cup [pc : {"idle", "ok", "denied", "err"}]]
    /\ refused \in Refusals \cup {None}

Init ==
    /\ type \in Types
    /\ clock = 0
    /\ instance = None
    /\ registry = None
    /\ call = [p \in Procs |-> [pc |-> "idle"]]
    /\ refused = None

Tick ==
    /\ clock < MaxClock
    /\ clock' = clock + 1
    /\ UNCHANGED <<type, instance, registry, call, refused>>

\* A configuration that is refused leaves no module behind; what was registered
\* before goes on serving.
Create ==
    /\ \E c \in Configured :
          /\ c.type = type
          /\ instance' = IF Accepted(c, clock) THEN c ELSE None
    /\ UNCHANGED <<type, clock, registry, call, refused>>

\* (Mutant: a module whose creation failed is initialised.)
ModuleInitUnchecked ==
    /\ registry' = [config |-> instance, at |-> clock]
    /\ instance' = None
    /\ UNCHANGED <<type, clock, call, refused>>

\* The Init methods.  Those of the boundary and the live policy do nothing; of the
\* others only two cannot fail (a file that does not load, keys that cannot be
\* generated, an identity without a ref).
ModuleInit ==
    /\ instance # None
    /\ \/ /\ instance \notin OfficialServiceBoundaryConfigs \cup LivePolicyConfigs
          /\ instance \in IdentityStoreConfigs => instance.named
          /\ registry' = [config |-> instance, at |-> clock]
       \/ /\ instance \notin KeyCustodyConfigs \cup ServiceTransportConfigs
          /\ UNCHANGED registry
    /\ instance' = None
    /\ UNCHANGED <<type, clock, call, refused>>

-----------------------------------------------------------------------------
\* Submissions

Busy(p) == call[p].pc = "resolved"

Submitted(p) == ~Busy(p) /\ type = "signal.service_transport"

Return(p, pc) ==
    /\ call' = [call EXCEPT ![p] = [pc |-> pc]]
    /\ UNCHANGED <<type, clock, instance, registry, refused>>

Resolved(p, gate, at) ==
    /\ call' = [call EXCEPT ![p] = [pc |-> "resolved", gate |-> gate, at |-> at,
                                    begun |-> clock]]
    /\ UNCHANGED <<type, clock, instance, registry, refused>>

\* operationActions
OperationActions(operation) ==
    IF operation = "challenge_response" THEN {"production_egress"} ELSE {operation}

\* What a submission brings when it names no transport.
Requests == [mode : Modes, endpoint : BOOLEAN, approval : Packages \cup {None},
             operation : Operations]

GateOf(r) == [mode |-> r.mode, endpoint |-> r.endpoint, approval |-> r.approval,
              actions |-> OperationActions(r.operation)]

\* resolveSubmitTransport: the gate is the request's own ...
ResolveRequest(p) ==
    Submitted(p) /\ \E r \in Requests : Resolved(p, GateOf(r), clock)

\* Mutant: an approval is held against the time the transport was registered.
ResolveTransportThen(p) ==
    /\ Submitted(p) /\ registry # None
    /\ Resolved(p, registry.config.gate, registry.at)

\* ... or that of a registered transport, at the time of the submission.
ResolveTransport(p) ==
    /\ Submitted(p) /\ registry # None
    /\ Resolved(p, registry.config.gate, clock)

\* No such transport or account, or no operation.
Refused(p) == Submitted(p) /\ Return(p, "err")

\* The transport opens for what was resolved and the operation is carried out.
Submit(p) ==
    /\ Busy(p) /\ Opens(call[p].gate, call[p].at)
    /\ Return(p, "ok")

\* deniedSubmitResult, for a live transport that is not approved
Denied(p) ==
    /\ Busy(p) /\ ~Opens(call[p].gate, call[p].at)
    /\ call[p].gate.mode = "live"
    /\ Return(p, "denied")

\* Another mode that does not open; a custody that is missing, an operation that is
\* not supported, a request the client refuses.
Fails(p) ==
    /\ Busy(p)
    /\ Opens(call[p].gate, call[p].at) \/ call[p].gate.mode # "live"
    /\ Return(p, "err")

-----------------------------------------------------------------------------
\* Reports

ApprovalRequests ==
    [mode : Modes, approval : Packages \cup {None}, actions : SUBSET Actions]

\* ExecuteSignalServiceApprovalValidate: live_transport_allowed
ApprovalAllows(in) ==
    in.mode \in {"", "live"} /\ Approved(in.approval, clock, in.actions)

\* The step answers and changes nothing; that it refused a package is remembered.
ApprovalValidate ==
    /\ type = "signal.service_transport"
    /\ \E in \in ApprovalRequests :
          /\ in.mode \in {"", "live"} /\ in.approval # None /\ ~ApprovalAllows(in)
          /\ refused' = [approval |-> in.approval, actions |-> in.actions, at |-> clock]
    /\ UNCHANGED <<type, clock, instance, registry, call>>

Next ==
    \/ Tick \/ Create \/ ModuleInit \/ ApprovalValidate
    \/ \E p \in Procs :
          \/ ResolveRequest(p) \/ ResolveTransport(p) \/ Refused(p)
          \/ Submit(p) \/ Denied(p) \/ Fails(p)

Spec == Init /\ [][Next]_vars

-----------------------------------------------------------------------------
\* Properties

\* What is registered with a file behind it was asked for explicitly, and not under
\* a production policy however that is spelled (productionPolicyMode and the three
\* constructors of file-backed modules; "Production policy mode rejects both
\* file-backed custody backends").
FilesAreOptedIn ==
    registry # None =>
        LET c == registry.config
        IN c.type \in {"signal.persistent_custody", "signal.custody_store",
                       "signal.envelope_store"}
           /\ c.backend \in {"local_file", "test_file"} =>
              /\ c.named
              /\ IF c.backend = "test_file" THEN c.allowTest ELSE c.allowLocal
              /\ Normalised[c.policy] \notin {"production", "prod"}

\* A live operation is carried out only under an approval package that is complete
\* for the actions asked for and had not expired when the submission was called,
\* however long ago its transport was approved, created and registered
\* (resolveSubmitTransport, NewTransport).
LiveRunsAreApproved ==
    [][\A p \in Procs :
          LET gate == call[p].gate
          IN Busy(p) /\ call'[p].pc = "ok" /\ gate.mode = "live" =>
                /\ gate.approval # None
                /\ gate.actions \subseteq Covers[gate.approval]
                /\ call[p].begun < Expires[gate.approval]]_vars

\* A refusal is final: what approval_validate once refused does not run live later,
\* through a transport approved long before as little as with a package the submission
\* brings itself, for those actions or for more (resolveSubmitTransport samples the
\* time anew, and an approval only expires).
RefusalIsFinal ==
    [][\A p \in Procs :
          LET gate == call[p].gate
          IN Busy(p) /\ call'[p].pc = "ok" /\ gate.mode = "live" /\ refused # None
                /\ call[p].begun >= refused.at /\ refused.actions \subseteq gate.actions =>
             gate.approval # refused.approval]_vars

=============================================================================
