-------------------------- MODULE ReadinessProofs ---------------------------
(***************************************************************************)
(* What the prepare steps and the test steps may rely on, for any number   *)
(* of accounts, custodies, registrations and steps.                        *)
(***************************************************************************)
EXTENDS Readiness, TLAPS

\* A record keeps only a custody of its account, under the ref it names.
Own(a, record) ==
    record.custody # None => record.custody.account = a /\ record.custodyRef # None

\* An account Init has checked what it is about to register.
PendingIsOwn == \A i \in Inits : init[i] # None => Own(init[i].account, init[i].record)

\* A test step holds a record of its account, and falls back to the ref it names.
TestHoldsRecord ==
    \A p \in Procs : call[p].pc = "test" =>
        /\ call[p].record \in AccountRecords
        /\ Own(call[p].account, call[p].record)
        /\ call[p].custodyRef = None => call[p].record.custodyRef = None

IInv == TypeOK /\ KeptCustodyIsOwn /\ PendingIsOwn /\ TestHoldsRecord

\* The result of a step is well typed.
LEMMA ResultTypes ==
  ASSUME NEW c \in Lookups, NEW custody \in Custodies \cup {None}
  PROVE  /\ Report(c, custody) \in Results
         /\ RequestMetadata(c, custody) \in Results
<1>1. FirstNonEmpty(c.key, custody.key) \in Keys \cup {None} \/ custody = None
  BY DEF FirstNonEmpty, Lookups, Custodies
<1>2. FirstNonEmpty(c.account, custody.account) \in Accounts \cup {None} \/ custody = None
  BY DEF FirstNonEmpty, Lookups, Custodies
<1>3. Warned(c, custody) \in SUBSET Warnings
  BY DEF Warned
<1>4. (custody # None /\ (IF custody = None THEN c.key
                          ELSE FirstNonEmpty(c.key, custody.key)) # None) \in BOOLEAN
  OBVIOUS
<1>5. Report(c, custody) \in Results
  BY <1>1, <1>2, <1>3, <1>4 DEF Report, Results, Lookups
<1>6. RequestMetadata(c, custody) \in Results
  BY <1>1 DEF RequestMetadata, Results, Lookups
<1> QED BY <1>5, <1>6

\* Every step keeps the types.
LEMMA TypeStep == ASSUME TypeOK, TestHoldsRecord, [Next]_vars PROVE TypeOK'
<1> USE ReadinessAssumption DEF ReadinessAssumption
<1>1. ASSUME NEW r \in CustodyRefs, CustodyInit(r) PROVE TypeOK'
  BY <1>1 DEF CustodyInit, TypeOK
<1>2. ASSUME NEW i \in Inits, AccountLookup(i) PROVE TypeOK'
  <2>1. PICK a \in Accounts, r \in CustodyRefs \cup {None} :
          init' = [init EXCEPT ![i] =
             [account |-> a, record |-> [custodyRef |-> r, custody |-> Custody(r)]]]
    BY <1>2 DEF AccountLookup
  <2>2. Custody(r) \in Custodies \cup {None}
    BY DEF Custody, TypeOK
  <2>3. init' \in [Inits -> Pending \cup {None}]
    BY <2>1, <2>2 DEF TypeOK, Pending, AccountRecords
  <2> QED BY <1>2, <2>3 DEF AccountLookup, TypeOK
<1>3. ASSUME NEW i \in Inits, AccountRegister(i) PROVE TypeOK'
  <2>1. init[i] \in Pending
    BY <1>3 DEF AccountRegister, TypeOK
  <2> QED BY <1>3, <2>1 DEF AccountRegister, TypeOK, Pending
<1>4. ASSUME NEW p \in Procs, NEW pc \in {"prepare", "test"},
             NEW in \in PrepareRequests, NEW record \in AccountRecords \cup {None},
             Begin(p, pc, in, record)
      PROVE  TypeOK'
  <2>1. (IF record = None THEN in.custodyRef
         ELSE FirstNonEmpty(in.custodyRef, record.custodyRef)) \in CustodyRefs \cup {None}
    BY DEF FirstNonEmpty, AccountRecords, PrepareRequests
  <2>2. call' \in [Procs -> Lookups \cup Results \cup Resting]
    BY <1>4, <2>1 DEF Begin, TypeOK, Lookups, PrepareRequests
  <2> QED BY <1>4, <2>2 DEF Begin, TypeOK
<1>5. ASSUME NEW p \in Procs, PrepareLookup(p) PROVE TypeOK'
  BY <1>4, <1>5 DEF PrepareLookup, PrepareRequests, TypeOK
<1>6. ASSUME NEW p \in Procs, TestLookup(p) PROVE TypeOK'
  BY <1>4, <1>6 DEF TestLookup, TestRequests, PrepareRequests, TypeOK
<1>7. ASSUME NEW p \in Procs, NEW result \in Results \cup Resting, Return(p, result)
      PROVE  TypeOK'
  BY <1>7 DEF Return, TypeOK
<1>8. ASSUME NEW p \in Procs, PrepareResolve(p) PROVE TypeOK'
  <2>1. call[p] \in Lookups
    BY <1>8 DEF PrepareResolve, TypeOK, Results, Resting
  <2>2. Custody(call[p].custodyRef) \in Custodies \cup {None}
    BY <2>1 DEF Custody, TypeOK, Lookups
  <2> QED BY <1>7, <1>8, <2>1, <2>2, ResultTypes DEF PrepareResolve, Resting
<1>9. ASSUME NEW p \in Procs, TestResolve(p) PROVE TypeOK'
  <2>1. call[p] \in Lookups
    BY <1>9 DEF TestResolve, TypeOK, Results, Resting
  <2>2. call[p].record \in AccountRecords
    BY <1>9 DEF TestResolve, TestHoldsRecord
  <2>3. UsedCustody(call[p]) \in Custodies \cup {None}
    BY <2>1, <2>2 DEF UsedCustody, Custody, TypeOK, Lookups, AccountRecords
  <2>4. RequestMetadata(call[p], UsedCustody(call[p])) \in Results
    BY <2>1, <2>3, ResultTypes
  <2> QED BY <1>7, <1>9, <2>4 DEF TestResolve, Resting
<1>10. CASE UNCHANGED vars
  BY <1>10 DEF vars, TypeOK
<1> QED BY <1>1, <1>2, <1>3, <1>5, <1>6, <1>8, <1>9, <1>10 DEF Next

\* Every step keeps the invariant.
LEMMA InvStep == ASSUME IInv, [Next]_vars PROVE IInv'
<1> USE ReadinessAssumption DEF ReadinessAssumption, IInv
<1>1. TypeOK' BY TypeStep
<1>2. ASSUME NEW r \in CustodyRefs, CustodyInit(r) PROVE IInv'
  BY <1>1, <1>2 DEF CustodyInit, KeptCustodyIsOwn, PendingIsOwn, TestHoldsRecord
<1>3. ASSUME NEW i \in Inits, AccountLookup(i) PROVE IInv'
  <2>1. PICK a \in Accounts, r \in CustodyRefs \cup {None} :
          /\ Custody(r) # None => Custody(r).account = a
          /\ init' = [init EXCEPT ![i] =
                [account |-> a, record |-> [custodyRef |-> r, custody |-> Custody(r)]]]
    BY <1>3 DEF AccountLookup
  <2>2. Own(a, [custodyRef |-> r, custody |-> Custody(r)])
    BY <2>1 DEF Own, Custody
  <2>3. PendingIsOwn'
    BY <2>1, <2>2 DEF PendingIsOwn, TypeOK
  <2> QED BY <1>1, <1>3, <2>3 DEF AccountLookup, KeptCustodyIsOwn, TestHoldsRecord
<1>4. ASSUME NEW i \in Inits, AccountRegister(i) PROVE IInv'
  <2>1. init[i] \in Pending /\ Own(init[i].account, init[i].record)
    BY <1>4 DEF AccountRegister, TypeOK, PendingIsOwn
  <2>2. KeptCustodyIsOwn'
    BY <1>4, <2>1 DEF AccountRegister, KeptCustodyIsOwn, Own, TypeOK, Pending
  <2>3. PendingIsOwn'
    BY <1>4 DEF AccountRegister, PendingIsOwn, TypeOK
  <2> QED BY <1>1, <1>4, <2>2, <2>3 DEF AccountRegister, TestHoldsRecord
<1>5. ASSUME NEW p \in Procs, PrepareLookup(p) PROVE IInv'
  <2>1. PICK in \in PrepareRequests :
          Begin(p, "prepare", in, IF in.account = None THEN None ELSE accounts[in.account])
    BY <1>5 DEF PrepareLookup
  <2>2. call'[p].pc = "prepare" /\ \A q \in Procs \ {p} : call'[q] = call[q]
    BY <2>1 DEF Begin, TypeOK
  <2>3. TestHoldsRecord'
    BY <2>2 DEF TestHoldsRecord
  <2> QED BY <1>1, <2>1, <2>3 DEF Begin, KeptCustodyIsOwn, PendingIsOwn
<1>6. ASSUME NEW p \in Procs, TestLookup(p) PROVE IInv'
  <2>1. PICK in \in TestRequests : accounts[in.account] # None
                                 /\ Begin(p, "test", in, accounts[in.account])
    BY <1>6 DEF TestLookup
  <2> DEFINE a == in.account
  <2>2. accounts[a] \in AccountRecords /\ Own(a, accounts[a])
    BY <2>1 DEF TypeOK, KeptCustodyIsOwn, Own, TestRequests
  <2>3. /\ call'[p].account = a /\ call'[p].record = accounts[a]
        /\ call'[p].custodyRef = FirstNonEmpty(in.custodyRef, accounts[a].custodyRef)
        /\ \A q \in Procs \ {p} : call'[q] = call[q]
    BY <2>1, <2>2 DEF Begin, TypeOK
  <2>4. call'[p].custodyRef = None => call'[p].record.custodyRef = None
    BY <2>3 DEF FirstNonEmpty
  <2>5. TestHoldsRecord'
    BY <2>2, <2>3, <2>4 DEF TestHoldsRecord
  <2> QED BY <1>1, <2>1, <2>5 DEF Begin, KeptCustodyIsOwn, PendingIsOwn
<1>7. ASSUME NEW p \in Procs, NEW result, result.pc # "test", Return(p, result)
      PROVE  IInv'
  <2>1. TestHoldsRecord'
    BY <1>7 DEF Return, TestHoldsRecord, TypeOK
  <2> QED BY <1>1, <1>7, <2>1 DEF Return, KeptCustodyIsOwn, PendingIsOwn
<1>8. ASSUME NEW p \in Procs, PrepareResolve(p) PROVE IInv'
  BY <1>7, <1>8 DEF PrepareResolve, Report
<1>9. ASSUME NEW p \in Procs, TestResolve(p) PROVE IInv'
  BY <1>7, <1>9 DEF TestResolve, RequestMetadata
<1>10. CASE UNCHANGED vars
  BY <1>1, <1>10 DEF vars, KeptCustodyIsOwn, PendingIsOwn, TestHoldsRecord
<1> QED BY <1>2, <1>3, <1>4, <1>5, <1>6, <1>8, <1>9, <1>10 DEF Next

\* The invariant holds in every reachable state.
LEMMA Invariance == Spec => []IInv
<1>1. Init => IInv
  BY DEF Init, IInv, TypeOK, KeptCustodyIsOwn, PendingIsOwn, TestHoldsRecord, Resting
<1> QED BY <1>1, InvStep, PTL DEF Spec

\* The maps, the calls and their results are well typed.
THEOREM TypeCorrect == Spec => []TypeOK
<1>1. IInv => TypeOK BY DEF IInv
<1> QED BY <1>1, Invariance, PTL

\* An account keeps only a custody of its own, whatever is registered between its
\* look at the custody and its registration (accountRefModule.Init).
THEOREM KeptCustodyHolds == Spec => []KeptCustodyIsOwn
<1>1. IInv => KeptCustodyIsOwn BY DEF IInv
<1> QED BY <1>1, Invariance, PTL

\* A prepare step attests an operation only for the account its custody belongs to
\* when it looks the custody up (resolveServicePrepareReadiness).
THEOREM AttestationSound == Spec => AttestedCustodyIsOwn
<1> DEFINE A == \A p \in Procs :
          LET result == call'[p]
          IN /\ call[p].pc = "prepare" /\ result.pc = "ok"
             /\ result.attested \/ result.warnings = {}
             => /\ Custody(result.custodyRef) # None
                /\ Custody(result.custodyRef).account = result.account
<1> USE ReadinessAssumption DEF ReadinessAssumption
<1>1. ASSUME IInv, [Next]_vars, NEW p \in Procs,
             call[p].pc = "prepare", call'[p].pc = "ok",
             call'[p].attested \/ call'[p].warnings = {}
      PROVE  /\ Custody(call'[p].custodyRef) # None
             /\ Custody(call'[p].custodyRef).account = call'[p].account
  <2> DEFINE c == call[p]
             custody == Custody(c.custodyRef)
  <2>1. call[p] \in Lookups
    BY <1>1 DEF IInv, TypeOK, Results, Resting
  <2>2. custody \in Custodies \cup {None}
    BY <1>1, <2>1 DEF IInv, Custody, TypeOK, Lookups
  <2>3. PrepareResolve(p)
    BY <1>1, <2>1 DEF IInv, TypeOK, Next, vars, CustodyInit, AccountLookup, AccountRegister,
      PrepareLookup, TestLookup, Begin, Busy, PrepareResolve, TestResolve, Return
  <2>4. Prepared(c, custody) /\ call'[p] = Report(c, custody)
    BY <1>1, <2>3 DEF IInv, TypeOK, PrepareResolve, Return
  <2>5. custody # None
    <3>1. SUFFICES ASSUME custody = None PROVE FALSE
      OBVIOUS
    <3>2. Report(c, custody).attested = FALSE
      BY <3>1 DEF Report
    <3>3. Report(c, custody).warnings = Warned(c, custody)
      BY DEF Report
    <3>4. Warned(c, custody) = {}
      BY <1>1, <2>4, <3>2, <3>3
    <3>5. c.custodyRef # None
      BY <3>4 DEF Warned, Warnings
    <3> QED BY <3>1, <3>4, <3>5 DEF Warned, Warnings
  <2>6. custody.account = call'[p].account
    BY <2>1, <2>2, <2>4, <2>5 DEF Report, Prepared, Foreign, FirstNonEmpty, Lookups, Custodies
  <2>7. call'[p].custodyRef = c.custodyRef
    BY <2>4 DEF Report
  <2> QED BY <2>5, <2>6, <2>7
<1>2. IInv /\ [Next]_vars => [A]_vars
  BY <1>1
<1> QED BY <1>2, Invariance, PTL DEF Spec, AttestedCustodyIsOwn

\* A test step never takes a key from a custody that its account kept and that has
\* been registered again since (serviceTestRequestContext).
THEOREM NoStale == Spec => NoStaleKey
<1> DEFINE A == \A p \in Procs :
          LET result == call'[p]
          IN /\ call[p].pc = "test" /\ result.pc = "ok"
             /\ result.key # call[p].key
             => /\ Custody(result.custodyRef) # None
                /\ Custody(result.custodyRef).account = result.account
                /\ Custody(result.custodyRef).key = result.key
<1> USE ReadinessAssumption DEF ReadinessAssumption
<1>1. ASSUME IInv, [Next]_vars, NEW p \in Procs,
             call[p].pc = "test", call'[p].pc = "ok", call'[p].key # call[p].key
      PROVE  /\ Custody(call'[p].custodyRef) # None
             /\ Custody(call'[p].custodyRef).account = call'[p].account
             /\ Custody(call'[p].custodyRef).key = call'[p].key
  <2> DEFINE c == call[p]
             custody == UsedCustody(c)
  <2>1. call[p] \in Lookups
    BY <1>1 DEF IInv, TypeOK, Results, Resting
  <2>2. TestResolve(p)
    BY <1>1, <2>1 DEF IInv, TypeOK, Next, vars, CustodyInit, AccountLookup, AccountRegister,
      PrepareLookup, TestLookup, Begin, Busy, PrepareResolve, TestResolve, Return
  <2>3. call'[p] = RequestMetadata(c, custody)
    BY <1>1, <2>2 DEF IInv, TypeOK, TestResolve, Return
  <2>4. ~(c.custodyRef # None /\ (custody = None \/ custody.account # c.account))
    BY <1>1, <2>2 DEF IInv, TypeOK, TestResolve, Return
  <2>5. custody # None /\ call'[p].key = custody.key
    BY <1>1, <2>3 DEF RequestMetadata, FirstNonEmpty
  <2>6. c.custodyRef # None
    BY <1>1, <2>5 DEF IInv, TestHoldsRecord, Own, UsedCustody
  <2> QED BY <2>3, <2>4, <2>5, <2>6 DEF UsedCustody, RequestMetadata
<1>2. IInv /\ [Next]_vars => [A]_vars
  BY <1>1
<1> QED BY <1>2, Invariance, PTL DEF Spec, NoStaleKey

=============================================================================
