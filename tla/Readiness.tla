------------------------------ MODULE Readiness -----------------------------
(***************************************************************************)
(* Accounts, key custodies and the steps that resolve them:                *)
(* internal/key_custody.go, resolveServicePrepareReadiness of              *)
(* internal/steps_service_operations.go (the prepare, admit and respond    *)
(* steps, the link step among them) and serviceTestRequestContext of       *)
(* internal/service_test_steps.go (the test steps and the live submit).    *)
(*                                                                         *)
(* Accounts and custodies are two maps under two mutexes.  Whoever needs   *)
(* both looks them up one after the other, and either map may change in    *)
(* between.  The objects in the maps are never modified, so a copy stands  *)
(* for a pointer here.  An account also keeps the custody it found when it *)
(* was registered; an account may be registered before its custody.        *)
(***************************************************************************)
EXTENDS Naturals

CONSTANTS
    Inits,        \* account Init calls that may be in flight together
    Procs,        \* workflow steps that may be in flight together
    CustodyRefs,
    Accounts,
    Keys,         \* non-exportable key refs
    None          \* the empty ref, the absent value

Custodies == [account : Accounts, key : Keys \cup {None}]

AccountRecords == [custodyRef : CustodyRefs \cup {None},
                   custody    : Custodies \cup {None}]

ASSUME ReadinessAssumption ==
    None \notin CustodyRefs \cup Accounts \cup Keys \cup Custodies \cup AccountRecords

\* An account Init between its look at the custody and the registration.
Pending == [account : Accounts, record : AccountRecords]

\* A step between its two lookups: what it asks for, the account record it found
\* and the custody ref that follows from both.
Lookups == [pc         : {"prepare", "test"},
            account    : Accounts \cup {None},
            record     : AccountRecords \cup {None},
            custodyRef : CustodyRefs \cup {None},
            key        : Keys \cup {None}]

Warnings == {"account_ref_not_registered", "custody_ref_not_registered",
             "custody_ref_missing"}

Results == [pc         : {"ok"},
            account    : Accounts \cup {None},
            custodyRef : CustodyRefs \cup {None},
            key        : Keys \cup {None},
            attested   : BOOLEAN,
            warnings   : SUBSET Warnings]

Resting == [pc : {"idle", "err"}]

VARIABLES
    custodies,  \* signalCustodies: CustodyRefs -> custody or None
    accounts,   \* signalAccounts: Accounts -> account record or None
    init,       \* the local state of each account Init
    call        \* the local state of each step

vars == <<custodies, accounts, init, call>>

TypeOK ==
    /\ custodies \in [CustodyRefs -> Custodies \cup {None}]
    /\ accounts \in [Accounts -> AccountRecords \cup {None}]
    /\ init \in [Inits -> Pending \cup {None}]
    /\ call \in [Procs -> Lookups \cup Results \cup Resting]

Init ==
    /\ custodies = [r \in CustodyRefs |-> None]
    /\ accounts = [a \in Accounts |-> None]
    /\ init = [i \in Inits |-> None]
    /\ call = [p \in Procs |-> [pc |-> "idle"]]

-----------------------------------------------------------------------------
\* Registration

\* keyCustodyModule.Init, and the last step of persistentCustodyModule.Init.
CustodyInit(r) ==
    /\ \E c \in Custodies : custodies' = [custodies EXCEPT ![r] = c]
    /\ UNCHANGED <<accounts, init, call>>

\* registeredSignalKeyCustody
Custody(r) == IF r = None THEN None ELSE custodies[r]

\* Mutant: the custody of another account is accepted.
AccountLookupAny(i) ==
    /\ init[i] = None
    /\ \E a \in Accounts, r \in CustodyRefs \cup {None} :
          init' = [init EXCEPT ![i] =
             [account |-> a, record |-> [custodyRef |-> r, custody |-> Custody(r)]]]
    /\ UNCHANGED <<custodies, accounts, call>>

\* accountRefModule.Init looks the custody up.  It refuses one that belongs to
\* another account (and then changes nothing) and goes on without an unregistered one.
AccountLookup(i) ==
    /\ init[i] = None
    /\ \E a \in Accounts, r \in CustodyRefs \cup {None} :
          /\ Custody(r) # None => Custody(r).account = a
          /\ init' = [init EXCEPT ![i] =
                [account |-> a, record |-> [custodyRef |-> r, custody |-> Custody(r)]]]
    /\ UNCHANGED <<custodies, accounts, call>>

AccountRegister(i) ==
    /\ init[i] # None
    /\ accounts' = [accounts EXCEPT ![init[i].account] = init[i].record]
    /\ init' = [init EXCEPT ![i] = None]
    /\ UNCHANGED <<custodies, call>>

-----------------------------------------------------------------------------
\* Steps

FirstNonEmpty(a, b) == IF a # None THEN a ELSE b

\* A call that has returned leaves its result in the state.
Busy(p) == call[p].pc \in {"prepare", "test"}

\* What the steps are asked; each may leave the custody and the key to its account.
PrepareRequests == [account : Accounts \cup {None},
                    custodyRef : CustodyRefs \cup {None}, key : Keys \cup {None}]
TestRequests    == [account : Accounts,
                    custodyRef : CustodyRefs \cup {None}, key : Keys \cup {None}]

Begin(p, pc, in, record) ==
    /\ ~Busy(p)
    /\ call' = [call EXCEPT ![p] =
          [pc |-> pc, account |-> in.account, record |-> record,
           custodyRef |-> IF record = None THEN in.custodyRef
                          ELSE FirstNonEmpty(in.custodyRef, record.custodyRef),
           key |-> in.key]]
    /\ UNCHANGED <<custodies, accounts, init>>

\* A prepare step looks its account up; it may be empty or unregistered.  (The ref
\* of the custody the account found is the custody ref of the account.)
PrepareLookup(p) ==
    \E in \in PrepareRequests :
        Begin(p, "prepare", in, IF in.account = None THEN None ELSE accounts[in.account])

Missing(c, custody) ==
    c.custodyRef # None /\ c.record # None /\ custody = None

Foreign(c, custody) ==
    custody # None /\ c.account # None /\ custody.account # c.account

\* Mutant: only a step with a registered account checks whose custody it is.
PreparedIfNotRegistered(c, custody) ==
    ~Missing(c, custody) /\ (Foreign(c, custody) => c.record = None)

Prepared(c, custody) == ~Missing(c, custody) /\ ~Foreign(c, custody)

Warned(c, custody) ==
    {w \in Warnings :
        \/ /\ w = "account_ref_not_registered"
           /\ c.record = None
           /\ c.account # None \/ custody # None
        \/ /\ w = "custody_ref_not_registered"
           /\ c.custodyRef # None /\ custody = None
        \/ /\ w = "custody_ref_missing"
           /\ c.custodyRef = None}

\* Mutant: a custody ref is reported where the account is empty.
ReportMixedRefs(c, custody) ==
    LET key == IF custody = None THEN c.key ELSE FirstNonEmpty(c.key, custody.key)
    IN [pc |-> "ok",
        account |-> FirstNonEmpty(c.account, c.custodyRef),
        custodyRef |-> c.custodyRef,
        key |-> key,
        attested |-> custody # None /\ key # None,
        warnings |-> Warned(c, custody)]

\* The output of a prepare step.
Report(c, custody) ==
    LET key == IF custody = None THEN c.key ELSE FirstNonEmpty(c.key, custody.key)
    IN [pc |-> "ok",
        account |-> IF custody = None THEN c.account
                    ELSE FirstNonEmpty(c.account, custody.account),
        custodyRef |-> c.custodyRef,
        key |-> key,
        attested |-> custody # None /\ key # None,
        warnings |-> Warned(c, custody)]

Return(p, result) ==
    /\ call' = [call EXCEPT ![p] = result]
    /\ UNCHANGED <<custodies, accounts, init>>

PrepareResolve(p) ==
    LET c == call[p]
        custody == Custody(c.custodyRef)
    IN /\ c.pc = "prepare"
       /\ Return(p, IF Prepared(c, custody) THEN Report(c, custody) ELSE [pc |-> "err"])

\* A test step or a live submit: its account must be registered.
TestLookup(p) ==
    \E in \in TestRequests :
        /\ accounts[in.account] # None
        /\ Begin(p, "test", in, accounts[in.account])

\* Mutant: the custody the account keeps is used when there is one.
UsedCustodyKept(c) ==
    IF c.record.custody # None THEN c.record.custody ELSE Custody(c.custodyRef)

\* The custody a test step uses: the one it names or its account names; without a
\* ref, the one the account keeps.
UsedCustody(c) ==
    IF c.custodyRef # None THEN Custody(c.custodyRef) ELSE c.record.custody

\* The metadata a test step hands to its service client.
RequestMetadata(c, custody) ==
    [pc |-> "ok", account |-> c.account, custodyRef |-> c.custodyRef,
     key |-> IF custody = None THEN c.key ELSE FirstNonEmpty(c.key, custody.key),
     attested |-> FALSE, warnings |-> {}]

TestResolve(p) ==
    LET c == call[p]
        custody == UsedCustody(c)
        refused == \/ c.custodyRef # None /\ custody = None
                   \/ c.custodyRef # None /\ custody.account # c.account
    IN /\ c.pc = "test"
       /\ Return(p, IF refused THEN [pc |-> "err"] ELSE RequestMetadata(c, custody))

Next ==
    \/ \E r \in CustodyRefs : CustodyInit(r)
    \/ \E i \in Inits : AccountLookup(i) \/ AccountRegister(i)
    \/ \E p \in Procs : \/ PrepareLookup(p) \/ PrepareResolve(p)
                        \/ TestLookup(p) \/ TestResolve(p)

Spec == Init /\ [][Next]_vars

-----------------------------------------------------------------------------
\* Properties

\* An account keeps only a custody of its own, and only under the custody ref it
\* names, although the custody may be registered for another account while the
\* account's Init is between its look and the registration.
KeptCustodyIsOwn ==
    \A a \in Accounts :
        LET record == accounts[a]
        IN record # None /\ record.custody # None =>
              record.custody.account = a /\ record.custodyRef # None

\* Whatever is registered between the two lookups of a prepare step, an operation is
\* attested, or reported without a warning, only for the account its custody belongs
\* to at that moment ("validate custody ownership").
AttestedCustodyIsOwn ==
    [][\A p \in Procs :
          LET result == call'[p]
          IN /\ call[p].pc = "prepare" /\ result.pc = "ok"
             /\ result.attested \/ result.warnings = {}
             => /\ Custody(result.custodyRef) # None
                /\ Custody(result.custodyRef).account = result.account]_vars

\* A test step signs with the key it was given or with the key its custody has when
\* it resolves it: never with that of a custody its account kept and that has been
\* registered again since.
NoStaleKey ==
    [][\A p \in Procs :
          LET result == call'[p]
          IN /\ call[p].pc = "test" /\ result.pc = "ok"
             /\ result.key # call[p].key
             => /\ Custody(result.custodyRef) # None
                /\ Custody(result.custodyRef).account = result.account
                /\ Custody(result.custodyRef).key = result.key]_vars

=============================================================================
