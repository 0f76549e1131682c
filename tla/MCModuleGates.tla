---------------------------- MODULE MCModuleGates ---------------------------
(* ModuleGates for TLC. *)
EXTENDS ModuleGates

MCNormalised ==
    [m \in PolicyModes |-> IF m = " Production " THEN "production"
                           ELSE IF m = "PROD" THEN "prod" ELSE m]

\* A complete package, one that is complete for "send" only, an incomplete one.
MCCovers  == [m \in Packages |-> CASE m = "full"  -> Actions
                                 []  m = "send"  -> {"send"}
                                 []  OTHER       -> {}]
MCExpires == [m \in Packages |-> IF m = "full" THEN 1 ELSE 2]

\* Every configuration but those of transports, of which a few stand for the rest.
MCTransportGates ==
    {[mode |-> m, endpoint |-> e, approval |-> None, actions |-> {}] :
        m \in {"", "sandbox"}, e \in BOOLEAN}
    \cup {[mode |-> "live", endpoint |-> FALSE, approval |-> a, actions |-> s] :
             a \in Packages \cup {None}, s \in {{"send"}, Actions}}

MCConfigured ==
    PersistentCustodyConfigs \cup CustodyStoreConfigs \cup EnvelopeStoreConfigs
        \cup KeyCustodyConfigs \cup AccountRefConfigs \cup IdentityStoreConfigs
        \cup OfficialServiceBoundaryConfigs \cup LivePolicyConfigs
        \cup [type : {"signal.service_transport"}, named : BOOLEAN,
              gate : MCTransportGates]

\* How a submission ended is looked at by no action and no property, and nor are the
\* endpoint of a live transport and the approval and actions of another one.
MCGateView(gate) ==
    IF gate.mode = "live" THEN [gate EXCEPT !.endpoint = FALSE]
    ELSE [gate EXCEPT !.approval = None, !.actions = {}]

MCView == <<type, clock, instance, registry, refused,
            [p \in Procs |-> IF Busy(p) THEN [call[p] EXCEPT !.gate = MCGateView(@)]
                             ELSE [pc |-> "idle"]]>>
=============================================================================
