------------------------- MODULE ServiceLedgerProofs ------------------------
(***************************************************************************)
(* What the ledgers and records keep, for any number of transports, keys,  *)
(* requests and steps in flight.                                           *)
(***************************************************************************)
EXTENDS ServiceLedger, FiniteSetTheorems, TLAPS

\* A ledger that nobody disturbed holds what its keys were accepted for.
LedgerHolds ==
    \A o \in Owners \ disturbed, k \in Keys : accepted[o][k] \subseteq {ledger[o][k]}

\* A step that has copied an undisturbed ledger still has the ledger as it is.
CopyIsCurrent ==
    \A p \in Procs :
        call[p].pc = "cloned" /\ call[p].copied /\ call[p].owner \notin disturbed =>
            call[p].copy = ledger[call[p].owner]

IInv == TypeOK /\ RecordsAreComplete /\ LedgerHolds /\ CopyIsCurrent

\* A step on its way has a call with all its fields.
LEMMA BusyHasCall == ASSUME TypeOK, NEW p \in Procs, Busy(p) PROVE call[p] \in Calls
  BY DEF TypeOK, Busy, Resting

\* What is put back holds what the copy held, and the request under its key.
LEMMA EnteredKeeps ==
  ASSUME NEW c \in Calls, ~Conflict(c)
  PROVE  /\ Entered(c) \in Ledgers
         /\ Entered(c)[c.entry.key] = c.entry.request
         /\ \A k \in Keys : Entered(c)[k] = c.copy[k] \/ c.copy[k] = None
  BY DEF Calls, Entries, Ledgers, Conflict, Entered

-----------------------------------------------------------------------------

LEMMA InitEstablishes == Init => IInv
  BY LedgerAssumption DEF LedgerAssumption, Init, IInv, TypeOK, Resting, Ledgers,
     NoEntries, RecordsAreComplete, LedgerHolds, CopyIsCurrent, Owners

\* A fresh transport object: nobody works on it.
LEMMA TransportInitStep ==
  ASSUME IInv, NEW t \in Transports, TransportInit(t) PROVE IInv'
<1>1. PICK o \in Objects :
        /\ Unused(o)
        /\ registry' = [registry EXCEPT ![t] = o]
        /\ ledger' = [ledger EXCEPT ![o] = NoEntries]
        /\ records' = [records EXCEPT ![o] = {}]
        /\ accepted' = [accepted EXCEPT ![o] = [k \in Keys |-> {}]]
        /\ disturbed' = disturbed \ {o}
  BY DEF TransportInit
<1>2. call' = call
  BY DEF TransportInit
<1>3. TypeOK'
  <2>1. NoEntries \in Ledgers
    BY DEF NoEntries, Ledgers
  <2> QED BY <1>1, <1>2, <2>1 DEF IInv, TypeOK
<1>4. RecordsAreComplete'
  BY <1>1 DEF IInv, TypeOK, RecordsAreComplete, Owners
<1>5. LedgerHolds'
  BY <1>1 DEF IInv, TypeOK, LedgerHolds, Owners
<1>6. CopyIsCurrent'
  <2> SUFFICES ASSUME NEW p \in Procs, call[p].pc = "cloned", call[p].copied,
                      call[p].owner \notin disturbed'
               PROVE  call[p].copy = ledger'[call[p].owner]
    BY <1>2 DEF CopyIsCurrent
  <2>1. call[p].owner # o
    BY <1>1 DEF Unused, Busy
  <2>2. call[p].owner \in Owners
    BY BusyHasCall DEF IInv, Busy, Calls
  <2> QED BY <1>1, <2>1, <2>2 DEF IInv, TypeOK, CopyIsCurrent
<1> QED BY <1>3, <1>4, <1>5, <1>6 DEF IInv

\* A step that begins.
LEMMA BeginStep ==
  ASSUME IInv, NEW p \in Procs, NEW pc \in {"found", "cloned"}, NEW owner \in Owners,
         NEW copy \in Ledgers, NEW copied \in BOOLEAN,
         copied => copy = ledger[owner], Begin(p, pc, owner, copy, copied)
  PROVE  IInv'
<1>1. PICK e \in Entries :
        call' = [call EXCEPT ![p] = [pc |-> pc, owner |-> owner, entry |-> e,
                                     copy |-> copy, copied |-> copied]]
  BY DEF Begin
<1>2. UNCHANGED <<registry, ledger, records, accepted, disturbed>>
  BY DEF Begin
<1>3. [pc |-> pc, owner |-> owner, entry |-> e, copy |-> copy, copied |-> copied] \in Calls
  BY DEF Calls
<1>4. TypeOK'
  BY <1>1, <1>2, <1>3 DEF IInv, TypeOK
<1>5. CopyIsCurrent'
  <2> SUFFICES ASSUME NEW q \in Procs, call'[q].pc = "cloned", call'[q].copied,
                      call'[q].owner \notin disturbed
               PROVE  call'[q].copy = ledger[call'[q].owner]
    BY <1>2 DEF CopyIsCurrent
  <2>1. CASE q = p
    BY <1>1, <2>1 DEF IInv, TypeOK
  <2>2. CASE q # p
    BY <1>1, <2>2 DEF IInv, TypeOK, CopyIsCurrent
  <2> QED BY <2>1, <2>2
<1> QED BY <1>2, <1>4, <1>5 DEF IInv, RecordsAreComplete, LedgerHolds

\* A step that ends and puts nothing back.
LEMMA EndStep ==
  ASSUME IInv, NEW p \in Procs, Return(p, "err"),
         UNCHANGED <<registry, ledger, records, accepted, disturbed>>
  PROVE  IInv'
<1>1. TypeOK'
  BY DEF IInv, TypeOK, Return, Resting
<1>2. CopyIsCurrent'
  BY DEF IInv, TypeOK, Return, CopyIsCurrent
<1> QED BY <1>1, <1>2 DEF IInv, RecordsAreComplete, LedgerHolds

LEMMA SubmitCloneStep ==
  ASSUME IInv, NEW p \in Procs, SubmitClone(p) PROVE IInv'
<1>1. call[p] \in Calls
  BY BusyHasCall DEF IInv, SubmitClone, Busy
<1>2. ledger[call[p].owner] \in Ledgers
  BY <1>1 DEF IInv, TypeOK, Calls
<1> DEFINE d == [call[p] EXCEPT !.pc = "cloned", !.copy = ledger[call[p].owner],
                                !.copied = TRUE]
<1>3. call' = [call EXCEPT ![p] = d]
  BY <1>1 DEF SubmitClone, CopyOf, IInv, TypeOK
<1>4. d \in Calls /\ d.owner = call[p].owner /\ d.copy = ledger[call[p].owner]
  BY <1>1, <1>2 DEF Calls
<1> HIDE DEF d
<1>5. TypeOK'
  BY <1>3, <1>4 DEF IInv, TypeOK, SubmitClone
<1>6. CopyIsCurrent'
  <2> SUFFICES ASSUME NEW q \in Procs, call'[q].pc = "cloned", call'[q].copied,
                      call'[q].owner \notin disturbed
               PROVE  call'[q].copy = ledger[call'[q].owner]
    BY DEF CopyIsCurrent, SubmitClone
  <2>1. CASE q = p
    BY <1>3, <1>4, <2>1 DEF IInv, TypeOK
  <2>2. CASE q # p
    BY <1>3, <2>2 DEF IInv, TypeOK, CopyIsCurrent
  <2> QED BY <2>1, <2>2
<1> QED BY <1>5, <1>6 DEF IInv, RecordsAreComplete, LedgerHolds, SubmitClone

\* What a step puts back: the types, and the copies of the steps it does not disturb.
LEMMA PutBackStep ==
  ASSUME IInv, NEW p \in Procs, call[p].pc = "cloned", NEW entries \in Ledgers,
         PutBack(p, entries)
  PROVE  /\ registry' \in [Transports -> Objects \cup {None}]
         /\ ledger' \in [Owners -> Ledgers]
         /\ records' \in [Objects -> SUBSET Entries]
         /\ call' \in [Procs -> Calls \cup Resting]
         /\ disturbed' \subseteq Owners
         /\ CopyIsCurrent'
<1>1. call[p] \in Calls
  BY BusyHasCall DEF IInv, Busy
<1>2. records' \in [Objects -> SUBSET Entries]
  BY <1>1 DEF IInv, TypeOK, PutBack, Recorded, Calls
<1>3. call' \in [Procs -> Calls \cup Resting]
  BY DEF IInv, TypeOK, PutBack, Return, Resting
<1>4. ledger' \in [Owners -> Ledgers] /\ disturbed' \subseteq Owners
  BY <1>1 DEF IInv, TypeOK, PutBack, Calls
<1>5. CopyIsCurrent'
  <2> SUFFICES ASSUME NEW q \in Procs, call'[q].pc = "cloned", call'[q].copied,
                      call'[q].owner \notin disturbed'
               PROVE  call'[q].copy = ledger'[call'[q].owner]
    BY DEF CopyIsCurrent
  <2>1. q # p
    BY DEF IInv, TypeOK, PutBack, Return
  <2>2. call'[q] = call[q]
    BY <2>1 DEF IInv, TypeOK, PutBack, Return
  <2>3. call[q].owner \in Owners
    BY <2>2, BusyHasCall DEF IInv, Busy, Calls
  <2>4. call[q].owner # call[p].owner
    BY <1>1, <2>1, <2>2 DEF PutBack, Overlaps
  <2>5. call[q].owner \notin disturbed
    BY <2>2 DEF PutBack
  <2> QED BY <2>2, <2>3, <2>4, <2>5 DEF IInv, TypeOK, CopyIsCurrent, PutBack
<1> QED BY <1>2, <1>3, <1>4, <1>5 DEF IInv, TypeOK, PutBack

\* A ledger that is put back undisturbed had been copied as it is.
LEMMA UndisturbedCopy ==
  ASSUME IInv, NEW p \in Procs, call[p].pc = "cloned", NEW entries \in Ledgers,
         PutBack(p, entries), call[p].owner \notin disturbed'
  PROVE  call[p].copy = ledger[call[p].owner] /\ disturbed' = disturbed
  BY DEF PutBack, IInv, CopyIsCurrent

LEMMA AcceptStep ==
  ASSUME IInv, NEW p \in Procs, Accept(p) PROVE IInv'
<1> DEFINE c == call[p]
<1>1. /\ c.pc = "cloned" /\ ~Conflict(c) /\ PutBack(p, Entered(c))
      /\ accepted' = [accepted EXCEPT ![c.owner][c.entry.key] = @ \cup {c.entry.request}]
  BY DEF Accept
<1>2. c \in Calls
  BY <1>1, BusyHasCall DEF IInv, Busy
<1>3. /\ c.owner \in Owners /\ c.entry \in Entries
      /\ c.entry.key \in Keys /\ c.entry.request \in Requests
      /\ c.entry = [key |-> c.entry.key, request |-> c.entry.request]
  BY <1>2 DEF Calls, Entries
<1>4. Entered(c) \in Ledgers
  BY <1>1, <1>2, EnteredKeeps
<1>5. accepted' \in [Owners -> [Keys -> SUBSET Requests]]
  BY <1>1, <1>3 DEF IInv, TypeOK
<1>6. TypeOK' /\ CopyIsCurrent'
  BY <1>1, <1>4, <1>5, PutBackStep DEF TypeOK
<1>7. RecordsAreComplete'
  <2> SUFFICES ASSUME NEW o \in Objects, NEW k \in Keys, NEW r \in accepted'[o][k]
               PROVE  [key |-> k, request |-> r] \in records'[o]
    BY DEF RecordsAreComplete
  <2>1. o # Global
    BY LedgerAssumption DEF LedgerAssumption
  <2>2. records[o] \subseteq records'[o]
    BY <1>1 DEF PutBack, Recorded, IInv, TypeOK
  <2>3. CASE r \in accepted[o][k]
    BY <2>2, <2>3 DEF IInv, RecordsAreComplete
  <2>4. CASE r \notin accepted[o][k]
    <3>1. o = c.owner /\ k = c.entry.key /\ r = c.entry.request
      BY <1>1, <1>3, <2>4 DEF IInv, TypeOK, Owners
    <3>2. c.entry \in records'[o]
      BY <1>1, <2>1, <3>1 DEF PutBack, Recorded, IInv, TypeOK
    <3> QED BY <1>3, <3>1, <3>2
  <2> QED BY <2>3, <2>4
<1>8. LedgerHolds'
  <2> SUFFICES ASSUME NEW o \in Owners, o \notin disturbed', NEW k \in Keys,
                      NEW r \in accepted'[o][k]
               PROVE  r = ledger'[o][k]
    BY DEF LedgerHolds
  <2>1. CASE o # c.owner
    BY <1>1, <1>3, <2>1 DEF IInv, TypeOK, LedgerHolds, PutBack
  <2>2. CASE o = c.owner
    <3>1. c.copy = ledger[o] /\ disturbed' = disturbed
      BY <1>1, <1>4, <2>2, UndisturbedCopy
    <3>2. ledger'[o] = Entered(c)
      BY <1>1, <1>3, <2>2 DEF PutBack, IInv, TypeOK
    <3>3. CASE k = c.entry.key
      <4>1. r \in accepted[o][k] => r = c.entry.request
        <5>1. SUFFICES ASSUME r \in accepted[o][k] PROVE r = c.entry.request
          OBVIOUS
        <5>2. r \in Requests /\ r = c.copy[k]
          BY <3>1, <5>1 DEF IInv, TypeOK, LedgerHolds
        <5> QED BY <1>1, <3>3, <5>2, LedgerAssumption DEF LedgerAssumption, Conflict
      <4>2. r = c.entry.request
        BY <1>1, <1>3, <2>2, <3>3, <4>1 DEF IInv, TypeOK
      <4> QED BY <1>1, <1>2, <3>2, <3>3, <4>2, EnteredKeeps
    <3>4. CASE k # c.entry.key
      <4>1. r \in accepted[o][k]
        BY <1>1, <1>3, <2>2, <3>4 DEF IInv, TypeOK
      <4>2. Entered(c)[k] = c.copy[k]
        BY <1>2, <3>4 DEF Entered, Calls, Ledgers
      <4> QED BY <3>1, <3>2, <4>1, <4>2 DEF IInv, LedgerHolds
    <3> QED BY <3>3, <3>4
  <2> QED BY <2>1, <2>2
<1> QED BY <1>6, <1>7, <1>8 DEF IInv

LEMMA ChallengeStep ==
  ASSUME IInv, NEW p \in Procs, Challenge(p) PROVE IInv'
<1> DEFINE c == call[p]
<1>1. PICK entries \in {c.copy, Entered(c)} : PutBack(p, entries)
  BY DEF Challenge
<1>2. c.pc = "cloned" /\ ~Conflict(c) /\ accepted' = accepted
  BY DEF Challenge
<1>3. c \in Calls
  BY <1>2, BusyHasCall DEF IInv, Busy
<1>4. c.owner \in Owners /\ c.copy \in Ledgers /\ entries \in Ledgers
  BY <1>1, <1>2, <1>3, EnteredKeeps DEF Calls
<1>5. TypeOK' /\ CopyIsCurrent'
  BY <1>1, <1>2, <1>4, PutBackStep DEF TypeOK, IInv
<1>6. RecordsAreComplete'
  BY <1>1, <1>2 DEF PutBack, Recorded, IInv, TypeOK, RecordsAreComplete
<1>7. LedgerHolds'
  <2> SUFFICES ASSUME NEW o \in Owners, o \notin disturbed', NEW k \in Keys,
                      NEW r \in accepted[o][k]
               PROVE  r = ledger'[o][k]
    BY <1>2 DEF LedgerHolds
  <2>1. CASE o # c.owner
    BY <1>1, <2>1 DEF IInv, TypeOK, LedgerHolds, PutBack
  <2>2. CASE o = c.owner
    <3>1. c.copy = ledger[o] /\ disturbed' = disturbed
      BY <1>1, <1>2, <1>4, <2>2, UndisturbedCopy
    <3>2. ledger'[o] = entries
      BY <1>1, <1>4, <2>2 DEF PutBack, IInv, TypeOK
    <3>3. r \in Requests /\ r = c.copy[k]
      BY <3>1 DEF IInv, TypeOK, LedgerHolds
    <3>4. c.copy[k] # None
      BY <3>3, LedgerAssumption DEF LedgerAssumption
    <3>5. entries[k] = c.copy[k]
      BY <1>1, <1>2, <1>3, <3>4, EnteredKeeps
    <3> QED BY <3>2, <3>3, <3>5
  <2> QED BY <2>1, <2>2
<1> QED BY <1>5, <1>6, <1>7 DEF IInv

\* Every step keeps the invariant.
LEMMA NextKeeps == ASSUME IInv, [Next]_vars PROVE IInv'
<1>1. ASSUME NEW t \in Transports, TransportInit(t) PROVE IInv'
  BY <1>1, TransportInitStep
<1>2. ASSUME NEW p \in Procs, Rejected(p) \/ Fail(p) PROVE IInv'
  BY <1>2, EndStep DEF Rejected, Fail
<1>3. ASSUME NEW p \in Procs, TestStep(p) PROVE IInv'
  <2>1. Global \in Owners /\ ledger[Global] \in Ledgers
    BY DEF IInv, TypeOK, Owners
  <2> QED BY <1>3, <2>1, BeginStep DEF TestStep
<1>4. ASSUME NEW p \in Procs, SubmitNoTransport(p) PROVE IInv'
  <2>1. Global \in Owners /\ NoEntries \in Ledgers
    BY DEF Owners, NoEntries, Ledgers
  <2> QED BY <1>4, <2>1, BeginStep DEF SubmitNoTransport
<1>5. ASSUME NEW p \in Procs, NEW t \in Transports, SubmitFound(p, t) PROVE IInv'
  <2>1. registry[t] \in Owners /\ NoEntries \in Ledgers
    BY <1>5 DEF SubmitFound, IInv, TypeOK, Owners, NoEntries, Ledgers
  <2> QED BY <1>5, <2>1, BeginStep DEF SubmitFound
<1>6. ASSUME NEW p \in Procs, SubmitClone(p) PROVE IInv'
  BY <1>6, SubmitCloneStep
<1>7. ASSUME NEW p \in Procs, Accept(p) PROVE IInv'
  BY <1>7, AcceptStep
<1>8. ASSUME NEW p \in Procs, Challenge(p) PROVE IInv'
  BY <1>8, ChallengeStep
<1>9. CASE UNCHANGED vars
  BY <1>9 DEF vars, IInv, TypeOK, RecordsAreComplete, LedgerHolds, CopyIsCurrent
<1> QED BY <1>1, <1>2, <1>3, <1>4, <1>5, <1>6, <1>7, <1>8, <1>9 DEF Next

LEMMA Invariance == Spec => []IInv
<1>1. Init => IInv BY InitEstablishes
<1>2. IInv /\ [Next]_vars => IInv' BY NextKeeps
<1> QED BY <1>1, <1>2, PTL DEF Spec

\* The variables keep their types.
THEOREM TypeCorrect == Spec => []TypeOK
<1>1. IInv => TypeOK BY DEF IInv
<1> QED BY <1>1, Invariance, PTL

\* What a transport accepted is in its records, whatever happens to its ledger: the
\* records are appended to, the ledger is replaced by a copy (transportLedger).
THEOREM RecordsComplete == Spec => []RecordsAreComplete
<1>1. IInv => RecordsAreComplete BY DEF IInv
<1> QED BY <1>1, Invariance, PTL

\* A key of a ledger is accepted for one request only, unless the ledger was put back
\* over another step's or without having been copied (serviceTestResult,
\* transportLedger).
THEOREM Idempotent == Spec => []IdempotentUndisturbed
<1>1. IInv => IdempotentUndisturbed
  <2> SUFFICES ASSUME IInv, NEW o \in Owners \ disturbed, NEW k \in Keys
               PROVE  Cardinality(accepted[o][k]) <= 1
    BY DEF IdempotentUndisturbed
  <2>1. accepted[o][k] = {} \/ accepted[o][k] = {ledger[o][k]}
    BY DEF IInv, LedgerHolds
  <2>2. Cardinality({}) = 0 /\ Cardinality({ledger[o][k]}) = 1
    BY FS_EmptySet, FS_Singleton
  <2> QED BY <2>1, <2>2
<1> QED BY <1>1, Invariance, PTL

=============================================================================
