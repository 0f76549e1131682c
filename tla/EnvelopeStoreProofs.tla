------------------------- MODULE EnvelopeStoreProofs ------------------------
(***************************************************************************)
(* What the envelope store promises, for any number of steps, refs,        *)
(* messages and any retention limit.                                       *)
(***************************************************************************)
EXTENDS EnvelopeRefinement, FiniteSetTheorems, TLAPS

\* A call has changed its store and is on its way to the file.
Persisting(p) == call[p].pc \in {"changed", "written"}

\* An enqueue and a receive carry an envelope; a decrypt writes nothing.
CallShape ==
    \A p \in Procs :
        /\ Busy(p) /\ call[p].op \in {"enqueue", "receive"} =>
              call[p].arg \in [msg : Msgs, at : Times]
        /\ Persisting(p) => call[p].op # "decrypt"

GInv == TypeOK /\ CallShape

\* A queue holds finitely many records, whatever the limits it was loaded under.
Finite(q) == IsFiniteSet(Occupied(q))

StateFinite(s) == Finite(s.outbox) /\ Finite(s.inbox)

\* So are the queues in memory, and those a later load may find.
QueuesFinite ==
    /\ \A o \in Objects : StateFinite(mem[o])
    /\ file \in States => StateFinite(file)
    /\ tmp \in States => StateFinite(tmp)

-----------------------------------------------------------------------------
\* Queues

LEMMA EmptyQueue == NoQueue \in Queues /\ EmptyState \in States /\ Finite(NoQueue)
<1>1. NoQueue \in Queues /\ EmptyState \in States
  BY DEF NoQueue, Queues, EmptyState, States
<1>2. Occupied(NoQueue) = {}
  BY DEF Occupied, NoQueue
<1> QED BY <1>1, <1>2, FS_EmptySet DEF Finite

\* Retention removes records and changes none.
LEMMA RetainedShrinks ==
  ASSUME NEW q \in Queues, NEW n, NEW kept \in Retained(q, n)
  PROVE  kept \in Queues /\ \A r \in Refs : kept[r] = q[r] \/ kept[r] = None
<1>1. CASE kept = q
  BY <1>1
<1>2. CASE kept # q
  <2>1. PICK keep \in SUBSET Occupied(q) :
          kept = [r \in Refs |-> IF r \in keep THEN q[r] ELSE None]
    BY <1>2 DEF Retained, CutTo
  <2> QED BY <2>1 DEF Queues
<1> QED BY <1>1, <1>2

\* Retention leaves a queue within its limit.
LEMMA RetainedWithinLimit ==
  ASSUME NEW q \in Queues, NEW n \in Nat, NEW kept \in Retained(q, n), Finite(q)
  PROVE  Finite(kept) /\ (n > 0 => Cardinality(Occupied(kept)) <= n)
<1>1. CASE n = 0
  BY <1>1 DEF Retained, Finite
<1>2. CASE n # 0 /\ Cardinality(Occupied(q)) <= n
  BY <1>2 DEF Retained, CutTo, Finite
<1>3. CASE n # 0 /\ ~(Cardinality(Occupied(q)) <= n)
  <2>1. PICK keep \in SUBSET Occupied(q) :
          /\ Cardinality(keep) = n
          /\ kept = [r \in Refs |-> IF r \in keep THEN q[r] ELSE None]
    BY <1>3 DEF Retained, CutTo
  <2>2. Occupied(kept) = keep
    BY <2>1 DEF Occupied
  <2>3. IsFiniteSet(keep)
    BY <2>1, FS_Subset DEF Finite
  <2> QED BY <2>1, <2>2, <2>3 DEF Finite
<1> QED BY <1>1, <1>2, <1>3

\* One record more leaves a queue finite.
LEMMA OneMoreRecord ==
  ASSUME NEW q \in Queues, NEW r \in Refs, NEW record, Finite(q)
  PROVE  Finite([q EXCEPT ![r] = record])
<1>1. Occupied([q EXCEPT ![r] = record]) \subseteq Occupied(q) \cup {r}
  BY DEF Occupied, Queues
<1>2. IsFiniteSet(Occupied(q) \cup {r})
  BY FS_AddElement DEF Finite
<1> QED BY <1>1, <1>2, FS_Subset DEF Finite

\* A claim adds no record.
LEMMA FewerRecords ==
  ASSUME NEW q, NEW k, Finite(q), Occupied(k) \subseteq Occupied(q)
  PROVE  Finite(k)
  BY FS_Subset DEF Finite

-----------------------------------------------------------------------------
\* Calls

LEMMA BusyHasCall == ASSUME TypeOK, NEW p \in Procs, Busy(p) PROVE call[p] \in Calls
  BY DEF TypeOK, Busy, Resting

\* What enqueue and receive store.
NewRecord(p, status) ==
    [msg |-> call[p].arg.msg, status |-> status, at |-> call[p].arg.at]

LEMMA PutTypes ==
  ASSUME GInv, NEW p \in Procs, Busy(p), call[p].op \in {"enqueue", "receive"},
         NEW q \in {"outbox", "inbox"}, NEW status \in {"queued", "received"}
  PROVE  /\ mem[call[p].object][q] \in Queues
         /\ [mem[call[p].object][q] EXCEPT ![call[p].ref] = NewRecord(p, status)] \in Queues
         /\ Stored(p, q) \in [queue : {"outbox", "inbox"}, ref : Refs, msg : Msgs]
<1>1. call[p] \in Calls /\ call[p].arg \in [msg : Msgs, at : Times]
  BY BusyHasCall DEF GInv, CallShape
<1>2. /\ call[p].object \in Objects /\ call[p].ref \in Refs
      /\ call[p].arg \in [msg : Msgs, at : Times]
  BY <1>1 DEF Calls
<1>3. NewRecord(p, status) \in Records
  BY <1>2 DEF NewRecord, Records
<1>4. mem[call[p].object][q] \in Queues
  BY <1>2 DEF GInv, TypeOK, States
<1>5. Stored(p, q) \in [queue : {"outbox", "inbox"}, ref : Refs, msg : Msgs]
  BY <1>2 DEF Stored
<1> QED BY <1>2, <1>3, <1>4, <1>5 DEF Queues

\* The two ways an operation goes on.
LEMMA ChangedTypes ==
  ASSUME GInv, NEW p \in Procs, call[p].pc = "called", call[p].op # "decrypt", Changed(p)
  PROVE  /\ call' \in [Procs -> Calls \cup Resting]
         /\ lock' \in [Objects -> Procs \cup {None}]
         /\ CallShape'
<1>1. call[p] \in Calls
  BY BusyHasCall DEF GInv, Busy
<1>2. CASE LocalFile
  <2>1. call' = [call EXCEPT ![p] = [call[p] EXCEPT !.pc = "changed"]]
    BY <1>2 DEF Changed, GInv, TypeOK
  <2>2. [call[p] EXCEPT !.pc = "changed"] \in Calls
    BY <1>1 DEF Calls
  <2>3. CallShape'
    BY <1>1, <2>1 DEF GInv, TypeOK, CallShape, Busy, Persisting, Calls
  <2> QED BY <1>1, <1>2, <2>1, <2>2, <2>3 DEF Changed, GInv, TypeOK, Calls
<1>3. CASE ~LocalFile
  BY <1>3 DEF Changed, Return, GInv, TypeOK, CallShape, Busy, Persisting, Resting
<1> QED BY <1>2, <1>3

\* A call that ends.
LEMMA ReturnTypes ==
  ASSUME GInv, NEW p \in Procs, NEW pc \in {"ok", "err"}, Return(p, pc)
  PROVE  call' \in [Procs -> Calls \cup Resting] /\ CallShape'
  BY DEF Return, GInv, TypeOK, CallShape, Busy, Persisting, Resting

\* A call that begins.
LEMMA BeginStep ==
  ASSUME GInv, NEW p \in Procs, NEW op \in {"enqueue", "claim", "receive", "decrypt"},
         NEW r \in Refs, NEW arg \in [msg : Msgs, at : Times] \cup {None},
         op \in {"enqueue", "receive"} => arg \in [msg : Msgs, at : Times],
         Begin(p, op, r, arg)
  PROVE  GInv'
<1>1. CASE store = None
  BY <1>1 DEF Begin, GInv, TypeOK, CallShape, Busy, Persisting, Resting
<1>2. CASE store # None
  <2> DEFINE c == [pc |-> "called", op |-> op, object |-> store, ref |-> r, arg |-> arg]
  <2>1. call' = [call EXCEPT ![p] = c]
    BY <1>2 DEF Begin
  <2>2. c \in Calls
    BY <1>2 DEF GInv, TypeOK, Calls
  <2>3. CallShape'
    BY <2>1 DEF GInv, TypeOK, CallShape, Busy, Persisting
  <2> QED BY <2>1, <2>2, <2>3 DEF Begin, GInv, TypeOK
<1> QED BY <1>1, <1>2

\* An enqueue names an envelope ref, whatever keys it is given.
LEMMA EnqueueCallTypes ==
  \A c \in EnqueueCalls : c.ref \in Refs /\ c.arg \in [msg : Msgs, at : Times]
  BY EnvelopeAssumption DEF EnvelopeAssumption, EnqueueCalls, EnqueueRequests, OutboxRef

\* The requests are well typed.
LEMMA RequestsBegin ==
  ASSUME GInv, NEW p \in Procs,
         CallEnqueue(p) \/ CallReceive(p) \/ CallClaim(p) \/ CallDecrypt(p)
  PROVE  GInv'
<1>1. CASE CallEnqueue(p)
  <2>1. PICK c \in EnqueueCalls : Begin(p, "enqueue", c.ref, c.arg)
    BY <1>1 DEF CallEnqueue
  <2> QED BY <2>1, EnqueueCallTypes, BeginStep
<1>2. CASE CallReceive(p)
  <2>1. PICK in \in ReceiveRequests :
          Begin(p, "receive", in.ref, [msg |-> in.msg, at |-> in.at])
    BY <1>2 DEF CallReceive
  <2>2. in.ref \in Refs /\ [msg |-> in.msg, at |-> in.at] \in [msg : Msgs, at : Times]
    BY EnvelopeAssumption DEF EnvelopeAssumption, ReceiveRequests
  <2> QED BY <2>1, <2>2, BeginStep
<1>3. CASE CallClaim(p)
  BY <1>3, BeginStep DEF CallClaim, ClaimRequests
<1>4. CASE CallDecrypt(p)
  BY <1>4, BeginStep, EnvelopeAssumption DEF EnvelopeAssumption, CallDecrypt, DecryptRequests
<1> QED BY <1>1, <1>2, <1>3, <1>4

-----------------------------------------------------------------------------
\* Types, with any number of stores over the path

\* What an enqueue or a receive leaves in memory.
PutLeaves(p, q, status) ==
    \E kept \in Queues :
        /\ kept \in Retained([mem[call[p].object][q]
                                  EXCEPT ![call[p].ref] = NewRecord(p, status)],
                             limit[call[p].object])
        /\ mem' = [mem EXCEPT ![call[p].object] = [@ EXCEPT ![q] = kept]]
        /\ mem' \in [Objects -> States]
        /\ acked' = AckedAfter(p, q, kept)
        /\ acked' \subseteq [queue : {"outbox", "inbox"}, ref : Refs, msg : Msgs]

LEMMA PutStep ==
  ASSUME GInv, NEW p \in Procs, Busy(p), call[p].op \in {"enqueue", "receive"},
         NEW q \in {"outbox", "inbox"}, NEW status \in {"queued", "received"},
         Put(p, q, status)
  PROVE  PutLeaves(p, q, status)
<1> DEFINE o == call[p].object
           new == [mem[o][q] EXCEPT ![call[p].ref] = NewRecord(p, status)]
<1>1. PICK kept \in Retained(new, limit[o]) :
        /\ mem' = [mem EXCEPT ![o][q] = kept]
        /\ acked' = AckedAfter(p, q, kept)
  BY DEF Put, NewRecord
<1>2. new \in Queues /\ o \in Objects
  BY PutTypes, BusyHasCall DEF GInv, Calls
<1>3. kept \in Queues
  BY <1>2, RetainedShrinks
<1>4. mem' = [mem EXCEPT ![o] = [mem[o] EXCEPT ![q] = kept]]
  BY <1>1, <1>2 DEF GInv, TypeOK
<1>5. [mem[o] EXCEPT ![q] = kept] \in States
  BY <1>2, <1>3 DEF GInv, TypeOK, States
<1>6. mem' \in [Objects -> States]
  BY <1>2, <1>4, <1>5 DEF GInv, TypeOK
<1>7. acked' \subseteq [queue : {"outbox", "inbox"}, ref : Refs, msg : Msgs]
  BY <1>1, PutTypes DEF AckedAfter, GInv, TypeOK
<1> QED BY <1>1, <1>3, <1>4, <1>6, <1>7 DEF PutLeaves

\* What a claim leaves in memory.
Claimed(q, r) == [q EXCEPT ![r] = [q[r] EXCEPT !.status = "claimed"]]

LEMMA ClaimStep ==
  ASSUME GInv, NEW p \in Procs, Claim(p), IsQueued(p)
  PROVE  LET o == call[p].object
             k == Claimed(mem[o].outbox, call[p].ref)
         IN /\ call[p] \in Calls
            /\ mem[o].outbox[call[p].ref] \in Records
            /\ k \in Queues
            /\ mem' = [mem EXCEPT ![o] = [mem[o] EXCEPT !.outbox = k]]
            /\ mem' \in [Objects -> States]
<1> DEFINE o == call[p].object
           r == call[p].ref
           k == Claimed(mem[o].outbox, r)
<1>1. call[p] \in Calls /\ o \in Objects /\ r \in Refs
  BY BusyHasCall DEF GInv, Claim, At, Busy, Calls
<1>2. mem[o] \in States /\ mem[o].outbox \in Queues
  BY <1>1 DEF GInv, TypeOK, States
<1>3. mem[o].outbox[r] \in Records
  BY <1>1, <1>2 DEF IsQueued, Queues
<1>4. k \in Queues
  <2>1. [mem[o].outbox[r] EXCEPT !.status = "claimed"] \in Records
    BY <1>3 DEF Records
  <2> QED BY <1>1, <1>2, <2>1 DEF Claimed, Queues
<1>5. mem' = [mem EXCEPT ![o] = [mem[o] EXCEPT !.outbox = k]]
  BY <1>1, <1>2 DEF Claim, Claimed, GInv, TypeOK, States, Queues
<1>6. [mem[o] EXCEPT !.outbox = k] \in States
  BY <1>2, <1>4 DEF States
<1> QED BY <1>1, <1>3, <1>4, <1>5, <1>6 DEF GInv, TypeOK

\* Counting claims.
LEMMA OneMoreClaim == \A n \in 0 .. ClaimCap : OneMore(n) \in 0 .. ClaimCap
  BY DEF OneMore, ClaimCap

\* The initial states.
LEMMA GInit == Init => GInv
<1> SUFFICES ASSUME Init PROVE GInv
  OBVIOUS
<1> QED BY EmptyQueue, EnvelopeAssumption DEF EnvelopeAssumption, Init, GInv, TypeOK,
           CallShape, Busy, Persisting, Resting, ClaimCap

\* Every step keeps the types.
LEMMA GStep == ASSUME GInv, [Next]_vars PROVE GInv'
<1>1. CASE ModuleLoad
  <2>1. PICK o \in Objects :
          /\ loading' = o
          /\ mem' = [mem EXCEPT ![o] =
                        IF LocalFile /\ file # None THEN file ELSE EmptyState]
          /\ \E n \in Limits : limit' = [limit EXCEPT ![o] = n]
    BY <1>1 DEF ModuleLoad
  <2>2. (IF LocalFile /\ file # None THEN file ELSE EmptyState) \in States
    BY <1>1, EmptyQueue DEF ModuleLoad, GInv, TypeOK
  <2> QED BY <1>1, <2>1, <2>2 DEF ModuleLoad, GInv, TypeOK, CallShape, Busy, Persisting
<1>2. CASE ModuleRegister
  BY <1>2 DEF ModuleRegister, GInv, TypeOK, CallShape, Busy, Persisting
<1>3. ASSUME NEW p \in Procs,
             CallEnqueue(p) \/ CallReceive(p) \/ CallClaim(p) \/ CallDecrypt(p)
      PROVE  GInv'
  BY <1>3, RequestsBegin
<1>4. ASSUME NEW p \in Procs, Enqueue(p) PROVE GInv'
  <2>1. Busy(p) /\ call[p].pc = "called" /\ call[p].op = "enqueue"
    BY <1>4 DEF Enqueue, At, Busy
  <2>2. mem' \in [Objects -> States]
        /\ acked' \subseteq [queue : {"outbox", "inbox"}, ref : Refs, msg : Msgs]
    BY <1>4, <2>1, PutStep DEF Enqueue, PutLeaves
  <2>3. call' \in [Procs -> Calls \cup Resting] /\ CallShape'
        /\ lock' \in [Objects -> Procs \cup {None}]
    BY <1>4, <2>1, ChangedTypes DEF Enqueue
  <2>4. sent' \in [Refs -> 0 .. ClaimCap]
    <3>1. 0 \in 0 .. ClaimCap
      BY DEF ClaimCap
    <3>2. sent' = [sent EXCEPT ![call[p].ref] = 0]
      BY <1>4 DEF Enqueue
    <3> QED BY <3>1, <3>2 DEF GInv, TypeOK
  <2> QED BY <1>4, <2>2, <2>3, <2>4 DEF Enqueue, GInv, TypeOK
<1>5. ASSUME NEW p \in Procs, Receive(p) PROVE GInv'
  <2>1. Busy(p) /\ call[p].pc = "called" /\ call[p].op = "receive"
    BY <1>5 DEF Receive, At, Busy
  <2>2. mem' \in [Objects -> States]
        /\ acked' \subseteq [queue : {"outbox", "inbox"}, ref : Refs, msg : Msgs]
    BY <1>5, <2>1, PutStep DEF Receive, PutLeaves
  <2>3. call' \in [Procs -> Calls \cup Resting] /\ CallShape'
        /\ lock' \in [Objects -> Procs \cup {None}]
    BY <1>5, <2>1, ChangedTypes DEF Receive
  <2> QED BY <1>5, <2>2, <2>3 DEF Receive, GInv, TypeOK
<1>6. ASSUME NEW p \in Procs, Claim(p) PROVE GInv'
  <2>1. CASE IsQueued(p)
    <3>1. mem' \in [Objects -> States] /\ call[p] \in Calls
      BY <1>6, <2>1, ClaimStep
    <3>2. call' \in [Procs -> Calls \cup Resting] /\ CallShape'
          /\ lock' \in [Objects -> Procs \cup {None}]
      BY <1>6, <2>1, ChangedTypes DEF Claim, At
    <3>3. sent' \in [Refs -> 0 .. ClaimCap]
      BY <1>6, <2>1, <3>1, OneMoreClaim DEF Claim, GInv, TypeOK
    <3> QED BY <1>6, <3>1, <3>2, <3>3 DEF Claim, GInv, TypeOK
  <2>2. CASE ~IsQueued(p)
    BY <1>6, <2>2, ReturnTypes DEF Claim, GInv, TypeOK
  <2> QED BY <2>1, <2>2
<1>7. ASSUME NEW p \in Procs, Decrypt(p) PROVE GInv'
  BY <1>7, ReturnTypes DEF Decrypt, GInv, TypeOK
<1>8. ASSUME NEW p \in Procs, PersistWrite(p) PROVE GInv'
  <2>1. call[p] \in Calls
    BY <1>8, BusyHasCall DEF PersistWrite, GInv, Busy
  <2>2. call' = [call EXCEPT ![p] = [call[p] EXCEPT !.pc = "written"]]
    BY <1>8 DEF PersistWrite, GInv, TypeOK
  <2>3. [call[p] EXCEPT !.pc = "written"] \in Calls
    BY <2>1 DEF Calls
  <2>4. tmp' \in States
    BY <1>8, <2>1 DEF PersistWrite, GInv, TypeOK, Calls
  <2>5. CallShape'
    BY <1>8, <2>1, <2>2 DEF PersistWrite, GInv, TypeOK, CallShape, Busy, Persisting, Calls
  <2> QED BY <1>8, <2>2, <2>3, <2>4, <2>5 DEF PersistWrite, GInv, TypeOK
<1>9. ASSUME NEW p \in Procs, PersistRename(p) PROVE GInv'
  <2>1. Busy(p) /\ call[p].op # "decrypt" /\ call[p] \in Calls
    BY <1>9, BusyHasCall DEF PersistRename, GInv, CallShape, Busy, Persisting
  <2>2. acked' \subseteq [queue : {"outbox", "inbox"}, ref : Refs, msg : Msgs]
    <3>1. CASE call[p].op = "claim"
      BY <1>9, <3>1 DEF PersistRename, GInv, TypeOK
    <3>2. CASE call[p].op # "claim"
      <4>1. call[p].op \in {"enqueue", "receive"}
        BY <2>1, <3>2 DEF Calls
      <4>2. \A q \in {"outbox", "inbox"} :
              Stored(p, q) \in [queue : {"outbox", "inbox"}, ref : Refs, msg : Msgs]
        BY <2>1, <4>1, PutTypes
      <4> QED BY <1>9, <4>2 DEF PersistRename, GInv, TypeOK
    <3> QED BY <3>1, <3>2
  <2>3. sent' \in [Refs -> 0 .. ClaimCap]
    <3>1. call[p].ref \in Refs
      BY <2>1 DEF Calls
    <3>2. sent' = sent \/ sent' = [sent EXCEPT ![call[p].ref] = OneMore(sent[call[p].ref])]
      BY <1>9 DEF PersistRename
    <3>3. OneMore(sent[call[p].ref]) \in 0 .. ClaimCap
      BY <3>1, OneMoreClaim DEF GInv, TypeOK
    <3>4. sent \in [Refs -> 0 .. ClaimCap]
      BY DEF GInv, TypeOK
    <3> QED BY <3>1, <3>2, <3>3, <3>4
  <2>4. call' \in [Procs -> Calls \cup Resting] /\ CallShape'
    BY <1>9, ReturnTypes DEF PersistRename
  <2> QED BY <1>9, <2>2, <2>3, <2>4 DEF PersistRename, Release, GInv, TypeOK
<1>10. ASSUME NEW p \in Procs, PersistFails(p) PROVE GInv'
  BY <1>10, ReturnTypes DEF PersistFails, Release, GInv, TypeOK
<1>11. CASE Crash
  BY <1>11, EmptyQueue DEF Crash, GInv, TypeOK, CallShape, Busy, Persisting, Resting
<1>12. CASE UNCHANGED vars
  BY <1>12 DEF vars, GInv, TypeOK, CallShape, Busy, Persisting
<1> QED BY <1>1, <1>2, <1>3, <1>4, <1>5, <1>6, <1>7, <1>8, <1>9, <1>10, <1>11, <1>12
           DEF Next, Serve

-----------------------------------------------------------------------------
\* Queues stay finite, with any number of stores over the path

LEMMA LimitIsNat == ASSUME TypeOK, NEW o \in Objects PROVE limit[o] \in Nat
<1>1. limit \in [Objects -> Limits \cup {0}]
  BY DEF TypeOK
<1>2. limit[o] \in Limits \cup {0}
  BY <1>1
<1>3. \A n \in Limits : n \in Nat
  BY EnvelopeAssumption DEF EnvelopeAssumption
<1>4. CASE limit[o] \in Limits
  BY <1>3, <1>4
<1>5. CASE limit[o] = 0
  BY <1>5
<1> QED BY <1>2, <1>4, <1>5

LEMMA PutFinite ==
  ASSUME GInv, QueuesFinite, NEW p \in Procs, Busy(p),
         call[p].op \in {"enqueue", "receive"},
         NEW q \in {"outbox", "inbox"}, NEW status \in {"queued", "received"},
         Put(p, q, status)
  PROVE  \A o \in Objects : StateFinite(mem'[o])
<1> DEFINE obj == call[p].object
           new == [mem[obj][q] EXCEPT ![call[p].ref] = NewRecord(p, status)]
<1>1. PICK kept \in Queues :
        /\ kept \in Retained([mem[call[p].object][q]
                                  EXCEPT ![call[p].ref] = NewRecord(p, status)],
                             limit[call[p].object])
        /\ mem' = [mem EXCEPT ![call[p].object] = [@ EXCEPT ![q] = kept]]
        /\ mem' \in [Objects -> States]
        /\ acked' = AckedAfter(p, q, kept)
        /\ acked' \subseteq [queue : {"outbox", "inbox"}, ref : Refs, msg : Msgs]
  BY PutStep DEF PutLeaves
<1>2. obj \in Objects /\ call[p].ref \in Refs
  BY BusyHasCall DEF GInv, Calls
<1>3. mem[obj][q] \in Queues /\ new \in Queues
  BY PutTypes
<1>4. Finite(mem[obj].outbox) /\ Finite(mem[obj].inbox)
  BY <1>2 DEF QueuesFinite, StateFinite
<1>5. Finite(new) /\ limit[obj] \in Nat
  BY <1>2, <1>3, <1>4, OneMoreRecord, LimitIsNat DEF GInv
<1>6. Finite(kept)
  BY <1>1, <1>3, <1>5, RetainedWithinLimit
<1>7. mem[obj] \in States
  BY <1>2 DEF GInv, TypeOK
<1>8. StateFinite([mem[obj] EXCEPT ![q] = kept])
  BY <1>4, <1>6, <1>7 DEF StateFinite, States
<1> QED BY <1>1, <1>2, <1>8 DEF GInv, TypeOK, QueuesFinite

\* Every step keeps the queues finite.
LEMMA FiniteStep == ASSUME GInv, QueuesFinite, [Next]_vars PROVE QueuesFinite'
<1>1. CASE ModuleLoad
  <2>1. PICK o \in Objects :
          mem' = [mem EXCEPT ![o] =
                        IF LocalFile /\ file # None THEN file ELSE EmptyState]
    BY <1>1 DEF ModuleLoad
  <2>2. StateFinite(IF LocalFile /\ file # None THEN file ELSE EmptyState)
    BY <1>1, EmptyQueue DEF ModuleLoad, GInv, TypeOK, QueuesFinite, StateFinite, EmptyState
  <2> QED BY <1>1, <2>1, <2>2 DEF ModuleLoad, GInv, TypeOK, QueuesFinite
<1>2. ASSUME NEW p \in Procs, Enqueue(p) \/ Receive(p) PROVE QueuesFinite'
  <2>1. \A o \in Objects : StateFinite(mem'[o])
    BY <1>2, PutFinite DEF Enqueue, Receive, At, Busy
  <2> QED BY <1>2, <2>1 DEF Enqueue, Receive, QueuesFinite
<1>3. ASSUME NEW p \in Procs, Claim(p) PROVE QueuesFinite'
  <2>1. CASE IsQueued(p)
    <3> DEFINE o == call[p].object
               q == mem[o].outbox
               k == Claimed(q, call[p].ref)
    <3>1. /\ call[p] \in Calls /\ k \in Queues
          /\ mem' = [mem EXCEPT ![o] = [mem[o] EXCEPT !.outbox = k]]
          /\ mem[o].outbox[call[p].ref] # None
      BY <1>3, <2>1, ClaimStep DEF IsQueued
    <3>2. o \in Objects /\ mem[o] \in States /\ q \in Queues
      BY <3>1 DEF GInv, TypeOK, Calls, States
    <3>3. Occupied(k) \subseteq Occupied(q)
      BY <3>1, <3>2 DEF Occupied, Claimed, Queues
    <3>4. Finite(q) /\ Finite(mem[o].inbox)
      BY <3>2 DEF QueuesFinite, StateFinite
    <3>5. Finite(k)
      BY <3>3, <3>4, FewerRecords
    <3>6. StateFinite([mem[o] EXCEPT !.outbox = k])
      BY <3>2, <3>4, <3>5 DEF StateFinite, States
    <3> QED BY <1>3, <3>1, <3>2, <3>6 DEF Claim, GInv, TypeOK, QueuesFinite
  <2>2. CASE ~IsQueued(p)
    BY <1>3, <2>2 DEF Claim, QueuesFinite
  <2> QED BY <2>1, <2>2
<1>4. ASSUME NEW p \in Procs, PersistWrite(p) PROVE QueuesFinite'
  <2>1. call[p].object \in Objects
    BY <1>4, BusyHasCall DEF PersistWrite, GInv, Busy, Calls
  <2> QED BY <1>4, <2>1 DEF PersistWrite, QueuesFinite
<1>5. ASSUME NEW p \in Procs, PersistRename(p) PROVE QueuesFinite'
  BY <1>5, FileAssumption DEF PersistRename, QueuesFinite
<1>6. ASSUME NEW p \in Procs, PersistFails(p) PROVE QueuesFinite'
  BY <1>6, FileAssumption DEF PersistFails, QueuesFinite
<1>7. CASE Crash
  BY <1>7, FileAssumption, EmptyQueue DEF Crash, QueuesFinite, StateFinite, EmptyState
<1>8. CASE UNCHANGED <<file, tmp, mem>>
  BY <1>8 DEF QueuesFinite
<1>9. ASSUME NEW p \in Procs,
             CallEnqueue(p) \/ CallReceive(p) \/ CallClaim(p) \/ CallDecrypt(p)
      PROVE  UNCHANGED <<file, tmp, mem>>
  BY <1>9 DEF CallEnqueue, CallReceive, CallClaim, CallDecrypt, Begin
<1>10. ASSUME NEW p \in Procs, Decrypt(p) PROVE UNCHANGED <<file, tmp, mem>>
  BY <1>10 DEF Decrypt
<1>11. ModuleRegister \/ UNCHANGED vars => UNCHANGED <<file, tmp, mem>>
  BY DEF ModuleRegister, vars
<1> QED BY <1>1, <1>2, <1>3, <1>4, <1>5, <1>6, <1>7, <1>8, <1>9, <1>10, <1>11
           DEF Next, Serve

-----------------------------------------------------------------------------
\* One store over the path: the module is not initialised again while it is
\* registered, only after a crash.

InUse == {store, loading} \ {None}

\* Calls are made in the registered store, and none while it is being loaded.
OnStore ==
    /\ loading # None => store = None /\ \A p \in Procs : ~Busy(p)
    /\ \A p \in Procs : Busy(p) => call[p].object = store

\* A call holds the mutex all the way to the rename.
LockHeld ==
    \A p \in Procs : Persisting(p) => LocalFile /\ lock[call[p].object] = p

QueueOf(op) == IF op = "receive" THEN "inbox" ELSE "outbox"

\* What a call has changed is still so in memory when it renames.
PendingIsStored ==
    \A p \in Procs : Persisting(p) =>
        LET record == mem[call[p].object][QueueOf(call[p].op)][call[p].ref]
        IN IF call[p].op = "claim" THEN record # None /\ record.status = "claimed"
           ELSE record = None \/ record.msg = call[p].arg.msg

\* The temporary file that is about to be renamed is what memory holds.
WrittenIsCurrent ==
    \A p \in Procs : call[p].pc = "written" => tmp = mem[call[p].object]

\* The memory backend has no file.
MemoryHasNoFile == ~LocalFile => file = None

QueuedIn(s, r) == s.outbox[r] # None /\ s.outbox[r].status = "queued"

\* An envelope whose claim was acknowledged cannot be claimed: not in memory, not
\* after a reload, and no claim of it is on its way.
SentIsOver ==
    \A r \in Refs : sent[r] > 0 =>
        /\ sent[r] = 1
        /\ file \in States => ~QueuedIn(file, r)
        /\ \A o \in InUse : ~QueuedIn(mem[o], r)
        /\ \A p \in Procs : Persisting(p) /\ call[p].op = "claim" => call[p].ref # r

Keeps(s, a) == s[a.queue][a.ref] # None /\ s[a.queue][a.ref].msg = a.msg

\* What was acknowledged is in the file and in the memory that replaces it.
AckedIsKept ==
    LocalFile => \A a \in acked :
        /\ file \in States /\ Keeps(file, a)
        /\ \A o \in InUse : Keeps(mem[o], a)

Persisted ==
    /\ LockHeld /\ PendingIsStored /\ WrittenIsCurrent
    /\ FileIsWhole /\ MemoryHasNoFile /\ SentIsOver /\ AckedIsKept

SInv == GInv /\ OnStore /\ Persisted

\* A call that is on its way is in the one store that is in use.
LEMMA Serving ==
  ASSUME SInv, NEW p \in Procs, Busy(p)
  PROVE  /\ call[p] \in Calls
         /\ call[p].object = store
         /\ store \in Objects
         /\ InUse = {store}
<1>1. call[p] \in Calls /\ call[p].object = store /\ loading = None
  BY BusyHasCall DEF SInv, GInv, OnStore
<1> QED BY <1>1, EnvelopeAssumption DEF EnvelopeAssumption, Calls, InUse

\* While the mutex is free nobody is on his way to the file.
LEMMA FreeStore ==
  ASSUME SInv, NEW p \in Procs, Busy(p), Unlocked(p), NEW q \in Procs
  PROVE  ~Persisting(q)
<1> SUFFICES ASSUME Persisting(q) PROVE FALSE
  OBVIOUS
<1>1. Busy(q)
  BY DEF Persisting, Busy
<1>2. lock[store] = q
  BY <1>1, Serving DEF SInv, Persisted, LockHeld
<1>3. lock[store] = None
  BY Serving DEF Unlocked
<1> QED BY <1>2, <1>3, EnvelopeAssumption DEF EnvelopeAssumption

\* The mutex admits one call to the file.
LEMMA OnePersists ==
  ASSUME SInv, NEW p \in Procs, Persisting(p), NEW q \in Procs, Persisting(q)
  PROVE  p = q
<1>1. Busy(p) /\ Busy(q)
  BY DEF Persisting, Busy
<1> QED BY <1>1, Serving DEF SInv, Persisted, LockHeld

\* A step that changes neither what is stored nor what is on its way, and perhaps
\* ends calls or takes stores out of use.
LEMMA Shrinks ==
  ASSUME SInv, UNCHANGED <<backend, file, sent>>, acked' \subseteq acked,
         InUse' \subseteq InUse, \A o \in InUse' : mem'[o] = mem[o],
         \A p \in Procs : Persisting(p)' =>
            /\ call'[p] = call[p]
            /\ lock'[call[p].object] = lock[call[p].object]
            /\ mem'[call[p].object] = mem[call[p].object]
            /\ tmp' = tmp
  PROVE  Persisted'
<1> USE DEF SInv, Persisted
<1>1. \A p \in Procs : Persisting(p)' => Persisting(p)
  BY DEF Persisting
<1>2. LockHeld'
  BY <1>1 DEF LockHeld, LocalFile
<1>3. PendingIsStored'
  BY <1>1 DEF PendingIsStored
<1>4. WrittenIsCurrent'
  BY DEF WrittenIsCurrent, Persisting
<1>5. SentIsOver'
  BY <1>1 DEF SentIsOver, QueuedIn
<1>6. AckedIsKept'
  BY DEF AckedIsKept, LocalFile, Keeps
<1> QED BY <1>2, <1>3, <1>4, <1>5, <1>6 DEF FileIsWhole, MemoryHasNoFile, LocalFile

\* Initially there is nothing.
LEMMA SInit == Init => SInv
<1> SUFFICES ASSUME Init PROVE SInv
  OBVIOUS
<1>1. \A p \in Procs : ~Busy(p) /\ ~Persisting(p) /\ call[p].pc # "written"
  BY DEF Init, Busy, Persisting
<1>2. OnStore
  BY <1>1 DEF Init, OnStore
<1>3. Persisted
  BY <1>1, FileAssumption DEF Init, Persisted, LockHeld, PendingIsStored,
     WrittenIsCurrent, FileIsWhole, MemoryHasNoFile, SentIsOver, AckedIsKept
<1> QED BY <1>2, <1>3, GInit DEF SInv

\* Calls and stores.
LEMMA OnStoreStep ==
  ASSUME ~Reload, SInv, [Next]_vars PROVE OnStore'
<1> USE EnvelopeAssumption DEF EnvelopeAssumption, OnStore
<1>1. CASE ModuleLoad
  <2>1. \A p \in Procs : ~Busy(p)
    BY <1>1, Serving DEF ModuleLoad
  <2> QED BY <1>1, <2>1 DEF ModuleLoad, SInv, Busy
<1>2. CASE ModuleRegister
  BY <1>2 DEF ModuleRegister, SInv, Busy
<1>3. ASSUME NEW p \in Procs,
             CallEnqueue(p) \/ CallReceive(p) \/ CallClaim(p) \/ CallDecrypt(p)
      PROVE  OnStore'
  <2>1. PICK op, r, arg : Begin(p, op, r, arg)
    BY <1>3 DEF CallEnqueue, CallReceive, CallClaim, CallDecrypt
  <2>2. \A q \in Procs : q # p => call'[q] = call[q]
    BY <2>1 DEF Begin, SInv, GInv, TypeOK
  <2>3. call'[p] = IF store = None THEN [pc |-> "err"]
                   ELSE [pc |-> "called", op |-> op, object |-> store, ref |-> r,
                         arg |-> arg]
    BY <2>1 DEF Begin, SInv, GInv, TypeOK
  <2> QED BY <2>1, <2>2, <2>3 DEF Begin, SInv, Busy
<1>4. ASSUME NEW p \in Procs, Serve(p) PROVE OnStore'
  <2>1. Busy(p) /\ UNCHANGED <<store, loading>>
    BY <1>4 DEF Serve, Enqueue, Receive, Claim, Decrypt, PersistWrite, PersistRename,
       PersistFails, At, Busy
  <2>2. \A q \in Procs : q # p => call'[q] = call[q]
    BY <1>4 DEF Serve, Enqueue, Receive, Claim, Decrypt, PersistWrite, PersistRename,
       PersistFails, Changed, Return, SInv, GInv, TypeOK
  <2>3. Busy(p)' => call'[p].object = call[p].object
    <3>1. call[p] \in Calls
      BY <2>1, Serving
    <3> QED BY <1>4, <3>1 DEF Serve, Enqueue, Receive, Claim, Decrypt, PersistWrite,
               PersistRename, PersistFails, Changed, Return, SInv, GInv, TypeOK, Busy, Calls
  <2> QED BY <2>1, <2>2, <2>3 DEF SInv, Busy
<1>5. CASE Crash
  BY <1>5 DEF Crash, Busy
<1>6. CASE UNCHANGED vars
  BY <1>6 DEF vars, SInv, Busy
<1> QED BY <1>1, <1>2, <1>3, <1>4, <1>5, <1>6 DEF Next

\* A load reads what the file holds, and nobody is on his way to it.
LEMMA LoadStep ==
  ASSUME ~Reload, SInv, ModuleLoad PROVE Persisted'
<1> USE DEF SInv, Persisted
<1>1. PICK o \in Objects :
        /\ loading' = o
        /\ mem' = [mem EXCEPT ![o] = IF LocalFile /\ file # None THEN file ELSE EmptyState]
  BY DEF ModuleLoad
<1>2. store = None /\ InUse' = {o}
  BY <1>1, EnvelopeAssumption DEF EnvelopeAssumption, ModuleLoad, InUse
<1>3. \A p \in Procs : ~Busy(p)
  BY <1>2, Serving, EnvelopeAssumption DEF EnvelopeAssumption
<1>4. \A p \in Procs : ~Persisting(p)' /\ call'[p].pc # "written"
  BY <1>3 DEF ModuleLoad, Busy, Persisting
<1>5. mem'[o] = IF LocalFile /\ file # None THEN file ELSE EmptyState
  BY <1>1 DEF GInv, TypeOK
<1>6. \A r \in Refs : ~QueuedIn(EmptyState, r)
  BY DEF QueuedIn, EmptyState, NoQueue
<1>7. SentIsOver'
  <2>1. LocalFile /\ file # None => file \in States
    BY DEF ModuleLoad, GInv, TypeOK
  <2> QED BY <1>2, <1>4, <1>5, <1>6, <2>1 DEF ModuleLoad, SentIsOver, QueuedIn
<1>8. AckedIsKept'
  BY <1>2, <1>5, FileAssumption DEF ModuleLoad, AckedIsKept, LocalFile, Keeps
<1> QED BY <1>4, <1>7, <1>8 DEF ModuleLoad, LockHeld, PendingIsStored, WrittenIsCurrent,
           FileIsWhole, MemoryHasNoFile, LocalFile

\* Nobody else is on his way after an operation that found the mutex free.
LEMMA OnlyMine ==
  ASSUME SInv, NEW p \in Procs, call[p].pc = "called", call[p].op # "decrypt",
         Unlocked(p), Changed(p)
  PROVE  /\ \A q \in Procs : call'[q].pc # "written"
         /\ \A q \in Procs : Persisting(q)' =>
               /\ q = p /\ LocalFile /\ lock'[call[p].object] = p
               /\ call'[p] = [call[p] EXCEPT !.pc = "changed"]
<1>1. Busy(p) /\ call[p] \in Calls /\ call[p].object \in Objects
  BY Serving DEF Busy
<1>2. \A q \in Procs : ~Persisting(q)
  BY <1>1, FreeStore
<1>3. CASE LocalFile
  <2>1. call' = [call EXCEPT ![p] = [call[p] EXCEPT !.pc = "changed"]]
    BY <1>3 DEF Changed, SInv, GInv, TypeOK
  <2>2. \A q \in Procs : q # p => call'[q] = call[q]
    BY <2>1 DEF SInv, GInv, TypeOK
  <2>3. call'[p] = [call[p] EXCEPT !.pc = "changed"] /\ call'[p].pc = "changed"
    BY <1>1, <2>1 DEF SInv, GInv, TypeOK, Calls
  <2>4. lock'[call[p].object] = p
    BY <1>1, <1>3 DEF Changed, SInv, GInv, TypeOK
  <2> QED BY <1>2, <1>3, <2>2, <2>3, <2>4 DEF Persisting
<1>4. CASE ~LocalFile
  <2>1. \A q \in Procs : call'[q] = call[q] \/ call'[q].pc = "ok"
    BY <1>4 DEF Changed, Return, SInv, GInv, TypeOK
  <2> QED BY <1>2, <2>1 DEF Persisting
<1> QED BY <1>3, <1>4

\* An enqueue or a receive: retention may remove what was acknowledged, and then it
\* is no longer counted on.
LEMMA PutPersists ==
  ASSUME SInv, NEW p \in Procs, Unlocked(p), Changed(p),
         NEW q \in {"outbox", "inbox"}, NEW status \in {"queued", "received"},
         \/ At(p, "called", "enqueue") /\ q = "outbox"
            /\ sent' = [sent EXCEPT ![call[p].ref] = 0]
         \/ At(p, "called", "receive") /\ q = "inbox" /\ UNCHANGED sent,
         Put(p, q, status), UNCHANGED <<backend, file, tmp, store, loading>>
  PROVE  Persisted'
<1>0. GInv
  BY DEF SInv
<1>1. /\ Busy(p) /\ call[p].pc = "called" /\ call[p].op \in {"enqueue", "receive"}
      /\ q = QueueOf(call[p].op)
  BY DEF At, Busy, QueueOf
<1>1a. PutLeaves(p, q, status)
  BY <1>0, <1>1, PutStep
<1>2. PICK kept \in Queues :
        /\ kept \in Retained([mem[call[p].object][q]
                                  EXCEPT ![call[p].ref] = NewRecord(p, status)],
                             limit[call[p].object])
        /\ mem' = [mem EXCEPT ![call[p].object] = [@ EXCEPT ![q] = kept]]
        /\ mem' \in [Objects -> States]
        /\ acked' = AckedAfter(p, q, kept)
        /\ acked' \subseteq [queue : {"outbox", "inbox"}, ref : Refs, msg : Msgs]
  BY <1>1a DEF PutLeaves
<1> USE DEF SInv, Persisted
<1> DEFINE o == call[p].object
           r == call[p].ref
<1>3. /\ o \in Objects /\ r \in Refs /\ InUse = {o} /\ InUse' = {o}
      /\ mem[o] \in States /\ mem[o][q] \in Queues
  BY <1>1, Serving DEF Calls, InUse, GInv, TypeOK, States
<1>4. /\ kept[r] = NewRecord(p, status) \/ kept[r] = None
      /\ \A s \in Refs \ {r} : kept[s] = mem[o][q][s] \/ kept[s] = None
  <2>1. [mem[o][q] EXCEPT ![r] = NewRecord(p, status)] \in Queues
    BY <1>1, PutTypes
  <2>2. \A s \in Refs : \/ kept[s] = [mem[o][q] EXCEPT ![r] = NewRecord(p, status)][s]
                         \/ kept[s] = None
    BY <1>2, <2>1, RetainedShrinks
  <2> QED BY <1>3, <2>2 DEF Queues
<1>5. mem'[o] = [mem[o] EXCEPT ![q] = kept] /\ mem'[o][q] = kept
      /\ \A k \in {"outbox", "inbox"} \ {q} : mem'[o][k] = mem[o][k]
  BY <1>2, <1>3 DEF GInv, TypeOK, States
<1>6. /\ \A t \in Procs : call'[t].pc # "written"
      /\ \A t \in Procs : Persisting(t)' =>
            /\ t = p /\ LocalFile /\ lock'[o] = p
            /\ call'[p] = [call[p] EXCEPT !.pc = "changed"]
  BY <1>1, OnlyMine
<1>7. call[p] \in Calls
  BY <1>1, Serving
<1>8. LockHeld' /\ WrittenIsCurrent'
  BY <1>6, <1>7 DEF LockHeld, WrittenIsCurrent, LocalFile, Calls
<1>9. PendingIsStored'
  <2> SUFFICES ASSUME Persisting(p)'
               PROVE  LET record == mem'[o][q][r]
                      IN record = None \/ record.msg = call[p].arg.msg
    BY <1>1, <1>6, <1>7 DEF PendingIsStored, Calls
  <2> QED BY <1>4, <1>5 DEF NewRecord
<1>10. SentIsOver'
  <2> SUFFICES ASSUME NEW s \in Refs, sent'[s] > 0
               PROVE  /\ sent'[s] = 1
                      /\ file \in States => ~QueuedIn(file, s)
                      /\ ~QueuedIn(mem'[o], s)
    BY <1>1, <1>3, <1>6, <1>7 DEF SentIsOver, QueuedIn, Calls
  <2>1. CASE q = "outbox"
    <3>1. s # r /\ sent'[s] = sent[s]
      BY <1>1, <1>3, <2>1 DEF QueueOf, At, GInv, TypeOK
    <3>2. mem'[o].outbox[s] = mem[o].outbox[s] \/ mem'[o].outbox[s] = None
      BY <1>4, <1>5, <2>1, <3>1
    <3> QED BY <1>3, <3>1, <3>2 DEF SentIsOver, QueuedIn
  <2>2. CASE q = "inbox"
    <3>1. sent' = sent /\ mem'[o].outbox = mem[o].outbox
      BY <1>1, <1>5, <2>2
    <3> QED BY <1>3, <3>1 DEF SentIsOver, QueuedIn
  <2> QED BY <2>1, <2>2
<1>11. AckedIsKept'
  <2> SUFFICES ASSUME LocalFile, NEW a \in acked'
               PROVE  file \in States /\ Keeps(file, a) /\ Keeps(mem'[o], a)
    BY <1>3 DEF AckedIsKept, LocalFile, Keeps
  <2>1. a \in acked /\ (a.queue = q => a.ref # r /\ kept[a.ref] # None)
    BY <1>2 DEF AckedAfter
  <2>2. a.queue \in {"outbox", "inbox"} /\ a.ref \in Refs
    BY <2>1 DEF GInv, TypeOK
  <2>3. file \in States /\ Keeps(file, a) /\ Keeps(mem[o], a)
    BY <1>3, <2>1 DEF AckedIsKept
  <2>4. mem'[o][a.queue][a.ref] = mem[o][a.queue][a.ref]
    BY <1>4, <1>5, <2>1, <2>2
  <2> QED BY <2>3, <2>4 DEF Keeps
<1> QED BY <1>8, <1>9, <1>10, <1>11 DEF FileIsWhole, MemoryHasNoFile, LocalFile

\* A claim: the envelope was queued, so no claim of it was acknowledged before.
LEMMA ClaimPersists ==
  ASSUME SInv, NEW p \in Procs, Claim(p), IsQueued(p) PROVE Persisted'
<1> USE DEF SInv, Persisted
<1> DEFINE o == call[p].object
           r == call[p].ref
           k == Claimed(mem[o].outbox, r)
<1>1. Busy(p) /\ call[p].pc = "called" /\ call[p].op = "claim" /\ Unlocked(p) /\ Changed(p)
  BY DEF Claim, At, Busy
<1>2. /\ call[p] \in Calls
      /\ mem[o].outbox[r] \in Records
      /\ k \in Queues
      /\ mem' = [mem EXCEPT ![o] = [mem[o] EXCEPT !.outbox = k]]
  BY ClaimStep
<1>3. /\ o \in Objects /\ r \in Refs /\ InUse = {o} /\ InUse' = {o}
      /\ mem[o] \in States /\ mem[o].outbox \in Queues
  BY <1>1, <1>2, Serving DEF Calls, InUse, GInv, TypeOK, States, Claim
<1>4. /\ mem'[o].outbox = k /\ mem'[o].inbox = mem[o].inbox
      /\ \A s \in Refs \ {r} : k[s] = mem[o].outbox[s]
      /\ k[r] = [mem[o].outbox[r] EXCEPT !.status = "claimed"]
  BY <1>2, <1>3 DEF GInv, TypeOK, States, Queues, Claimed
<1>5. k[r].status = "claimed" /\ k[r].msg = mem[o].outbox[r].msg /\ k[r] # None
  <2>1. k[r] \in Records
    BY <1>2, <1>4 DEF Records
  <2> QED BY <1>2, <1>4, <2>1, FileAssumption DEF Records
<1>6. /\ \A t \in Procs : call'[t].pc # "written"
      /\ \A t \in Procs : Persisting(t)' =>
            /\ t = p /\ LocalFile /\ lock'[o] = p
            /\ call'[p] = [call[p] EXCEPT !.pc = "changed"]
  BY <1>1, OnlyMine
<1>7. sent[r] = 0
  <2>1. QueuedIn(mem[o], r)
    BY DEF IsQueued, QueuedIn
  <2>2. sent[r] \in Nat
    BY <1>3 DEF GInv, TypeOK, ClaimCap
  <2> QED BY <1>3, <2>1, <2>2 DEF SentIsOver
<1>7a. ASSUME NEW t \in Procs, Persisting(t)'
       PROVE  /\ t = p /\ LocalFile' /\ lock'[o] = p
              /\ call'[t].object = o /\ call'[t].ref = r /\ call'[t].op = "claim"
  BY <1>1, <1>2, <1>6, <1>7a DEF Calls, Claim, LocalFile
<1>8. LockHeld' /\ WrittenIsCurrent'
  BY <1>6, <1>7a DEF LockHeld, WrittenIsCurrent
<1>9. PendingIsStored'
  <2>1. mem'[o][QueueOf("claim")][r] = k[r]
    BY <1>4 DEF QueueOf
  <2> QED BY <1>5, <1>7a, <2>1 DEF PendingIsStored
<1>10. SentIsOver'
  <2>1. ASSUME NEW s \in Refs, s # r, sent'[s] > 0
        PROVE  /\ sent'[s] = 1
               /\ file \in States => ~QueuedIn(file, s)
               /\ ~QueuedIn(mem'[o], s)
    <3>1. sent'[s] = sent[s]
      BY <2>1 DEF Claim, GInv, TypeOK
    <3>2. mem'[o].outbox[s] = mem[o].outbox[s]
      BY <1>4, <2>1
    <3> QED BY <1>3, <2>1, <3>1, <3>2 DEF SentIsOver, QueuedIn
  <2>2. ASSUME sent'[r] > 0
        PROVE  /\ ~LocalFile /\ sent'[r] = 1 /\ file \notin States
               /\ ~QueuedIn(mem'[o], r)
    <3>1. ~LocalFile
      BY <1>7, <2>2 DEF Claim
    <3>2. sent'[r] = 1
      BY <1>3, <1>7, <3>1 DEF Claim, GInv, TypeOK, OneMore, ClaimCap
    <3>3. file \notin States
      BY <3>1, FileAssumption DEF MemoryHasNoFile
    <3> QED BY <1>4, <1>5, <3>1, <3>2, <3>3 DEF QueuedIn
  <2>3. ASSUME NEW t \in Procs, Persisting(t)'
        PROVE  call'[t].ref = r /\ LocalFile
    BY <1>2, <1>6, <2>3 DEF Calls
  <2> QED BY <1>3, <2>1, <2>2, <2>3 DEF SentIsOver, Claim, QueuedIn
<1>11. AckedIsKept'
  <2> SUFFICES ASSUME LocalFile, NEW a \in acked
               PROVE  file \in States /\ Keeps(file, a) /\ Keeps(mem'[o], a)
    BY <1>3 DEF AckedIsKept, LocalFile, Keeps, Claim
  <2>1. a.queue \in {"outbox", "inbox"} /\ a.ref \in Refs
    BY DEF GInv, TypeOK
  <2>2. file \in States /\ Keeps(file, a) /\ Keeps(mem[o], a)
    BY <1>3 DEF AckedIsKept
  <2>3. CASE a.queue = "outbox" /\ a.ref = r
    <3>1. mem'[o][a.queue][a.ref] = k[r] /\ mem[o][a.queue][a.ref] = mem[o].outbox[r]
      BY <1>4, <2>3
    <3> QED BY <1>5, <2>2, <3>1 DEF Keeps
  <2>4. CASE ~(a.queue = "outbox" /\ a.ref = r)
    <3>1. mem'[o][a.queue][a.ref] = mem[o][a.queue][a.ref]
      BY <1>4, <2>1, <2>4
    <3> QED BY <2>2, <3>1 DEF Keeps
  <2> QED BY <2>3, <2>4
<1> QED BY <1>8, <1>9, <1>10, <1>11 DEF FileIsWhole, MemoryHasNoFile, LocalFile, Claim

\* The temporary file is written; nobody else is on his way to rename it.
LEMMA WritePersists ==
  ASSUME SInv, NEW p \in Procs, PersistWrite(p) PROVE Persisted'
<1> USE DEF SInv, Persisted
<1>1. Busy(p) /\ Persisting(p) /\ call[p] \in Calls
  BY BusyHasCall DEF PersistWrite, Busy, Persisting, GInv
<1>2. /\ call'[p] = [call[p] EXCEPT !.pc = "written"]
      /\ \A q \in Procs : q # p => call'[q] = call[q]
  BY DEF PersistWrite, GInv, TypeOK
<1>3. \A q \in Procs : Persisting(q)' => q = p
  BY <1>1, <1>2, OnePersists DEF Persisting
<1>4. /\ call'[p].object = call[p].object /\ call'[p].op = call[p].op
      /\ call'[p].ref = call[p].ref /\ call'[p].arg = call[p].arg
  BY <1>1, <1>2 DEF Calls
<1>5. LockHeld'
  BY <1>1, <1>3, <1>4 DEF LockHeld, LocalFile, PersistWrite
<1>6. PendingIsStored'
  BY <1>1, <1>3, <1>4 DEF PendingIsStored, PersistWrite
<1>7. WrittenIsCurrent'
  BY <1>3, <1>4 DEF WrittenIsCurrent, Persisting, PersistWrite
<1>8. InUse' = InUse
  BY DEF InUse, PersistWrite
<1>9. SentIsOver'
  BY <1>1, <1>3, <1>4, <1>8 DEF SentIsOver, QueuedIn, PersistWrite
<1>10. AckedIsKept'
  BY <1>8 DEF AckedIsKept, LocalFile, Keeps, PersistWrite
<1> QED BY <1>5, <1>6, <1>7, <1>9, <1>10 DEF FileIsWhole, MemoryHasNoFile, LocalFile,
           PersistWrite

\* The rename: the file becomes what memory holds.
LEMMA RenamePersists ==
  ASSUME SInv, NEW p \in Procs, PersistRename(p) PROVE Persisted'
<1> USE DEF SInv, Persisted
<1> DEFINE o == call[p].object
           r == call[p].ref
           q == QueueOf(call[p].op)
<1>1. Busy(p) /\ Persisting(p) /\ call[p] \in Calls /\ LocalFile
  BY BusyHasCall DEF PersistRename, Busy, Persisting, LockHeld, GInv
<1>2. /\ o \in Objects /\ r \in Refs /\ InUse = {o} /\ InUse' = {o}
      /\ mem[o] \in States
  BY <1>1, Serving DEF Calls, InUse, GInv, TypeOK, PersistRename
<1>3. file' = mem[o] /\ mem' = mem
  BY DEF PersistRename, WrittenIsCurrent
<1>4. \A t \in Procs : ~Persisting(t)' /\ call'[t].pc # "written"
  BY <1>1, OnePersists DEF PersistRename, Return, Persisting, GInv, TypeOK
<1>5. FileIsWhole' /\ MemoryHasNoFile'
  BY <1>1, <1>2, <1>3, FileAssumption DEF FileIsWhole, MemoryHasNoFile, LocalFile,
     PersistRename
<1>6. SentIsOver'
  <2> SUFFICES ASSUME NEW s \in Refs, sent'[s] > 0
               PROVE  sent'[s] = 1 /\ ~QueuedIn(mem[o], s)
    BY <1>2, <1>3, <1>4 DEF SentIsOver, QueuedIn
  <2>1. CASE call[p].op = "claim" /\ s = r
    <3>1. sent[r] = 0
      <4>1. ~(sent[r] > 0)
        BY <1>1, <1>2, <2>1 DEF SentIsOver
      <4>2. sent[r] \in Nat
        BY <1>2 DEF GInv, TypeOK, ClaimCap
      <4> QED BY <4>1, <4>2
    <3>2. sent'[r] = OneMore(sent[r])
      BY <1>2, <2>1 DEF PersistRename, GInv, TypeOK
    <3>3. OneMore(0) = 1
      BY DEF OneMore, ClaimCap
    <3>4. mem[o].outbox[r].status = "claimed"
      BY <1>1, <2>1 DEF PendingIsStored, QueueOf
    <3> QED BY <2>1, <3>1, <3>2, <3>3, <3>4 DEF QueuedIn
  <2>2. CASE ~(call[p].op = "claim" /\ s = r)
    <3>1. sent'[s] = sent[s]
      BY <2>2 DEF PersistRename, GInv, TypeOK
    <3> QED BY <1>2, <3>1 DEF SentIsOver
  <2> QED BY <2>1, <2>2
<1>7. AckedIsKept'
  <2> SUFFICES ASSUME NEW a \in acked' PROVE Keeps(mem[o], a)
    BY <1>2, <1>3 DEF AckedIsKept, LocalFile, Keeps
  <2>1. CASE a \in acked
    BY <1>1, <1>2, <2>1 DEF AckedIsKept
  <2>2. CASE a \notin acked
    <3>1. call[p].op # "claim" /\ mem[o][q][r] # None /\ a = Stored(p, q)
      BY <2>2 DEF PersistRename, QueueOf
    <3>2. a.queue = q /\ a.ref = r /\ a.msg = call[p].arg.msg
      BY <3>1 DEF Stored
    <3>3. mem[o][q][r].msg = call[p].arg.msg
      BY <1>1, <3>1 DEF PendingIsStored
    <3> QED BY <3>1, <3>2, <3>3 DEF Keeps
  <2> QED BY <2>1, <2>2
<1> QED BY <1>4, <1>5, <1>6, <1>7 DEF LockHeld, PendingIsStored, WrittenIsCurrent

\* Every step of a module that is not initialised again keeps the invariant.
LEMMA SStep == ASSUME ~Reload, SInv, [Next]_vars PROVE SInv'
<1>1. GInv' /\ OnStore'
  BY GStep, OnStoreStep DEF SInv
<1> SUFFICES Persisted'
  BY <1>1 DEF SInv
<1>2. CASE ModuleLoad
  BY <1>2, LoadStep
<1>3. CASE ModuleRegister
  <2>1. InUse' \subseteq InUse
    BY <1>3 DEF ModuleRegister, InUse
  <2> QED BY <1>3, <2>1, Shrinks DEF ModuleRegister
<1>4. ASSUME NEW p \in Procs,
             CallEnqueue(p) \/ CallReceive(p) \/ CallClaim(p) \/ CallDecrypt(p)
      PROVE  Persisted'
  <2>1. PICK op, r, arg : Begin(p, op, r, arg)
    BY <1>4 DEF CallEnqueue, CallReceive, CallClaim, CallDecrypt
  <2>2. \A q \in Procs : Persisting(q)' => call'[q] = call[q]
    BY <2>1 DEF Begin, Persisting, SInv, GInv, TypeOK
  <2>3. InUse' = InUse
    BY <2>1 DEF Begin, InUse
  <2> QED BY <2>1, <2>2, <2>3, Shrinks DEF Begin
<1>5. ASSUME NEW p \in Procs, Enqueue(p) PROVE Persisted'
  BY <1>5, PutPersists DEF Enqueue
<1>6. ASSUME NEW p \in Procs, Receive(p) PROVE Persisted'
  BY <1>6, PutPersists DEF Receive
<1>7. ASSUME NEW p \in Procs, Return(p, "ok") \/ Return(p, "err"),
             UNCHANGED <<backend, file, tmp, store, loading, mem, limit, lock, acked, sent>>
      PROVE  Persisted'
  <2>1. \A q \in Procs : Persisting(q)' => call'[q] = call[q]
    BY <1>7 DEF Return, Persisting, SInv, GInv, TypeOK
  <2>2. InUse' = InUse
    BY <1>7 DEF InUse
  <2> QED BY <1>7, <2>1, <2>2, Shrinks
<1>8. ASSUME NEW p \in Procs, Claim(p) PROVE Persisted'
  <2>1. CASE IsQueued(p)
    BY <1>8, <2>1, ClaimPersists
  <2>2. CASE ~IsQueued(p)
    BY <1>7, <1>8, <2>2 DEF Claim
  <2> QED BY <2>1, <2>2
<1>9. ASSUME NEW p \in Procs, Decrypt(p) PROVE Persisted'
  BY <1>7, <1>9 DEF Decrypt
<1>10. ASSUME NEW p \in Procs, PersistFails(p) PROVE Persisted'
  <2>1. Persisting(p)
    BY <1>10 DEF PersistFails, Persisting
  <2>2. \A q \in Procs : ~Persisting(q)'
    BY <1>10, <2>1, OnePersists DEF PersistFails, Return, Persisting, SInv, GInv, TypeOK
  <2>3. InUse' = InUse
    BY <1>10 DEF PersistFails, InUse
  <2> QED BY <1>10, <2>2, <2>3, Shrinks DEF PersistFails
<1>11. CASE Crash
  <2>1. InUse' = {} /\ \A q \in Procs : ~Persisting(q)'
    BY <1>11 DEF Crash, InUse, Persisting
  <2> QED BY <1>11, <2>1, Shrinks DEF Crash
<1>12. CASE UNCHANGED vars
  <2>1. InUse' = InUse /\ \A q \in Procs : call'[q] = call[q]
    BY <1>12 DEF vars, InUse
  <2> QED BY <1>12, <2>1, Shrinks DEF vars
<1> QED
  BY <1>2, <1>3, <1>4, <1>5, <1>6, <1>8, <1>9, <1>10, <1>11, <1>12, WritePersists,
     RenamePersists DEF Next, Serve

-----------------------------------------------------------------------------

\* The variables keep their types, with any number of stores over the path.
THEOREM TypeCorrect == Spec => []TypeOK
<1>1. Init => GInv BY GInit
<1>2. GInv /\ [Next]_vars => GInv' BY GStep
<1>3. GInv => TypeOK BY DEF GInv
<1> QED BY <1>1, <1>2, <1>3, PTL DEF Spec

\* One store over the path.
LEMMA SoleInvariance == ASSUME ~Reload PROVE Spec => []SInv
<1>1. Init => SInv BY SInit
<1>2. SInv /\ [Next]_vars => SInv' BY SStep
<1> QED BY <1>1, <1>2, PTL DEF Spec

\* Between one enqueue of a ref and the next at most one claim of it is acknowledged,
\* across failed writes and crashes (claimOutbox, persistLocked, load).
THEOREM ClaimedAtMostOnce ==
  ASSUME ~Reload PROVE Spec => []ClaimedAtMostOncePerEnqueue
<1>1. SInv => ClaimedAtMostOncePerEnqueue
  <2> SUFFICES ASSUME SInv, NEW r \in Refs PROVE sent[r] <= 1
    BY DEF ClaimedAtMostOncePerEnqueue
  <2>1. sent[r] \in Nat
    BY DEF SInv, GInv, TypeOK, ClaimCap
  <2>2. sent[r] > 0 => sent[r] = 1
    BY DEF SInv, Persisted, SentIsOver
  <2> QED BY <2>1, <2>2
<1> QED BY <1>1, SoleInvariance, PTL

\* What was acknowledged is in the file until retention or a later request removes it
\* (persistLocked, load).
THEOREM AcknowledgedSurvives ==
  ASSUME ~Reload PROVE Spec => []AcknowledgedIsOnDisk
<1>1. SInv => AcknowledgedIsOnDisk
  BY FileAssumption DEF SInv, Persisted, AckedIsKept, Keeps, AcknowledgedIsOnDisk
<1> QED BY <1>1, SoleInvariance, PTL

\* A load never finds a file cut short (the temporary file of persistLocked).
THEOREM WholeFile == ASSUME ~Reload PROVE Spec => []FileIsWhole
<1>1. SInv => FileIsWhole BY DEF SInv, Persisted
<1> QED BY <1>1, SoleInvariance, PTL

-----------------------------------------------------------------------------
\* Retention

\* What a call that adds a record leaves in its queue until it renames.
PendingWithinLimit ==
    \A p \in Procs :
        LET o == call[p].object
        IN Persisting(p) /\ call[p].op \in {"enqueue", "receive"} /\ limit[o] > 0 =>
              Cardinality(Occupied(mem[o][QueueOf(call[p].op)])) <= limit[o]

\* Putting a record cuts its queue down to the limit.
LEMMA PutWithinLimit ==
  ASSUME GInv, QueuesFinite, NEW p \in Procs, Busy(p),
         call[p].op \in {"enqueue", "receive"},
         NEW q \in {"outbox", "inbox"}, NEW status \in {"queued", "received"},
         Put(p, q, status), limit[call[p].object] > 0
  PROVE  Cardinality(Occupied(mem'[call[p].object][q])) <= limit[call[p].object]
<1> DEFINE o == call[p].object
           new == [mem[o][q] EXCEPT ![call[p].ref] = NewRecord(p, status)]
<1>1. PICK kept \in Queues :
        /\ kept \in Retained(new, limit[o])
        /\ mem' = [mem EXCEPT ![o] = [mem[o] EXCEPT ![q] = kept]]
  <2>1. PutLeaves(p, q, status)
    BY PutStep
  <2> QED BY <2>1 DEF PutLeaves
<1>2. o \in Objects /\ call[p].ref \in Refs /\ mem[o] \in States /\ limit[o] \in Nat
  BY BusyHasCall, LimitIsNat DEF GInv, TypeOK, Calls
<1>3. new \in Queues /\ Finite(new)
  <2>1. mem[o][q] \in Queues /\ Finite(mem[o][q])
    BY <1>2, PutTypes DEF QueuesFinite, StateFinite
  <2> QED BY <1>2, <2>1, PutTypes, OneMoreRecord
<1>4. mem'[o][q] = kept
  BY <1>1, <1>2 DEF GInv, TypeOK, States
<1> HIDE DEF new
<1> QED BY <1>1, <1>2, <1>3, <1>4, RetainedWithinLimit

\* An operation that takes the mutex leaves only itself on its way to the file; after
\* any other step those who are on their way were so before, in unchanged stores.
LEMMA PendingStep ==
  ASSUME ~Reload, SInv, QueuesFinite, PendingWithinLimit, [Next]_vars
  PROVE  PendingWithinLimit'
<1> USE DEF SInv
<1>1. ASSUME NEW p \in Procs, NEW q \in {"outbox", "inbox"},
             NEW status \in {"queued", "received"},
             \/ At(p, "called", "enqueue") /\ q = "outbox"
             \/ At(p, "called", "receive") /\ q = "inbox",
             Unlocked(p), Put(p, q, status), Changed(p), UNCHANGED limit
      PROVE  PendingWithinLimit'
  <2>1. /\ Busy(p) /\ call[p].pc = "called" /\ call[p].op \in {"enqueue", "receive"}
        /\ q = QueueOf(call[p].op) /\ call[p].op # "decrypt"
    BY <1>1 DEF At, Busy, QueueOf
  <2>2. \A t \in Procs : Persisting(t)' =>
            t = p /\ call'[p] = [call[p] EXCEPT !.pc = "changed"]
    BY <1>1, <2>1, OnlyMine
  <2>3. call[p] \in Calls
    BY <2>1, BusyHasCall DEF GInv
  <2>4. \A t \in Procs : Persisting(t)' =>
            t = p /\ call'[t].op = call[p].op /\ call'[t].object = call[p].object
    BY <2>2, <2>3 DEF Calls
  <2>5. limit[call[p].object] > 0 =>
            Cardinality(Occupied(mem'[call[p].object][q])) <= limit[call[p].object]
    BY <1>1, <2>1, PutWithinLimit
  <2> QED BY <1>1, <2>1, <2>4, <2>5 DEF PendingWithinLimit
<1>2. ASSUME NEW p \in Procs, Claim(p), IsQueued(p) PROVE PendingWithinLimit'
  <2>1. /\ call[p].pc = "called" /\ call[p].op = "claim" /\ Unlocked(p) /\ Changed(p)
        /\ Busy(p)
    BY <1>2 DEF Claim, At, Busy
  <2>2. \A t \in Procs : Persisting(t)' =>
            t = p /\ call'[p] = [call[p] EXCEPT !.pc = "changed"]
    BY <2>1, OnlyMine
  <2>3. call[p] \in Calls
    BY <2>1, BusyHasCall DEF GInv
  <2>4. \A t \in Procs : Persisting(t)' => call'[t].op = "claim"
    BY <2>1, <2>2, <2>3 DEF Calls
  <2> QED BY <2>4 DEF PendingWithinLimit
<1>3. ASSUME UNCHANGED <<mem, limit>>,
             \A t \in Procs : Persisting(t)' =>
                /\ Persisting(t) /\ call'[t].op = call[t].op
                /\ call'[t].object = call[t].object
      PROVE  PendingWithinLimit'
  BY <1>3 DEF PendingWithinLimit
<1>4. ASSUME \A t \in Procs : ~Persisting(t)' PROVE PendingWithinLimit'
  BY <1>4 DEF PendingWithinLimit
<1>5. CASE ModuleLoad
  <2>1. store = None
    BY <1>5 DEF ModuleLoad
  <2>2. \A t \in Procs : ~Busy(t)
    BY <2>1, Serving, EnvelopeAssumption DEF EnvelopeAssumption
  <2>3. \A t \in Procs : ~Persisting(t)'
    BY <1>5, <2>2 DEF ModuleLoad, Busy, Persisting
  <2> QED BY <1>4, <2>3
<1>6. CASE ModuleRegister
  BY <1>3, <1>6 DEF ModuleRegister, Persisting
<1>7. ASSUME NEW p \in Procs,
             CallEnqueue(p) \/ CallReceive(p) \/ CallClaim(p) \/ CallDecrypt(p)
      PROVE  PendingWithinLimit'
  <2>1. PICK op, r, arg : Begin(p, op, r, arg)
    BY <1>7 DEF CallEnqueue, CallReceive, CallClaim, CallDecrypt
  <2>2. \A t \in Procs : Persisting(t)' => Persisting(t) /\ call'[t] = call[t]
    BY <2>1 DEF Begin, Persisting, GInv, TypeOK
  <2> QED BY <1>3, <2>1, <2>2 DEF Begin
<1>8. ASSUME NEW p \in Procs, Enqueue(p) PROVE PendingWithinLimit'
  BY <1>1, <1>8 DEF Enqueue
<1>9. ASSUME NEW p \in Procs, Receive(p) PROVE PendingWithinLimit'
  BY <1>1, <1>9 DEF Receive
<1>10. ASSUME NEW p \in Procs, Return(p, "ok") \/ Return(p, "err"), UNCHANGED <<mem, limit>>
       PROVE  PendingWithinLimit'
  <2>1. \A t \in Procs : Persisting(t)' => Persisting(t) /\ call'[t] = call[t]
    BY <1>10 DEF Return, Persisting, GInv, TypeOK
  <2> QED BY <1>3, <1>10, <2>1
<1>11. ASSUME NEW p \in Procs, Claim(p) PROVE PendingWithinLimit'
  BY <1>2, <1>10, <1>11 DEF Claim
<1>12. ASSUME NEW p \in Procs, PersistWrite(p) PROVE PendingWithinLimit'
  <2>1. Persisting(p) /\ call[p] \in Calls
    BY <1>12, BusyHasCall DEF PersistWrite, Persisting, Busy, GInv
  <2>2. call' = [call EXCEPT ![p] = [call[p] EXCEPT !.pc = "written"]]
    BY <1>12 DEF PersistWrite, GInv, TypeOK
  <2>3. call'[p].op = call[p].op /\ call'[p].object = call[p].object
    BY <2>1, <2>2 DEF Calls, GInv, TypeOK
  <2>4. \A t \in Procs : t # p => call'[t] = call[t]
    BY <2>2 DEF GInv, TypeOK
  <2>5. \A t \in Procs : Persisting(t)' =>
           /\ Persisting(t) /\ call'[t].op = call[t].op
           /\ call'[t].object = call[t].object
    BY <2>1, <2>3, <2>4 DEF Persisting
  <2> QED BY <1>3, <1>12, <2>5 DEF PersistWrite
<1>13. CASE Crash
  BY <1>4, <1>13 DEF Crash, Persisting
<1>14. CASE UNCHANGED vars
  BY <1>3, <1>14 DEF vars, Persisting
<1> QED BY <1>5, <1>6, <1>7, <1>8, <1>9, <1>10, <1>11, <1>12, <1>13, <1>14
           DEF Next, Serve, Decrypt, PersistRename, PersistFails

\* A step that acknowledges an enqueue or a receipt leaves its queue within the limit.
LEMMA AcknowledgedWithinLimit ==
  ASSUME SInv, QueuesFinite, PendingWithinLimit, [Next]_vars,
         NEW p \in Procs, Busy(p), call'[p].pc = "ok",
         call[p].op \in {"enqueue", "receive"}, limit[call[p].object] > 0
  PROVE  LET o == call[p].object
             q == QueueOf(call[p].op)
         IN /\ Cardinality(Occupied(mem'[o][q])) <= limit[o]
            /\ LocalFile => Cardinality(Occupied(file'[q])) <= limit[o]
<1> USE DEF SInv
<1>1. call[p] \in Calls /\ call[p].pc \in {"called", "changed", "written"}
  BY BusyHasCall DEF GInv, Calls
<1>2. CASE Enqueue(p) \/ Receive(p)
  <2>1. ~LocalFile
    BY <1>1, <1>2 DEF Enqueue, Receive, Changed, GInv, TypeOK, Calls
  <2>2. CASE Enqueue(p)
    BY <2>1, <2>2, PutWithinLimit DEF Enqueue, At, QueueOf
  <2>3. CASE Receive(p)
    BY <2>1, <2>3, PutWithinLimit DEF Receive, At, QueueOf
  <2> QED BY <1>2, <2>2, <2>3
<1>3. CASE PersistRename(p)
  <2>1. Persisting(p) /\ file' = mem[call[p].object] /\ mem' = mem
    BY <1>3 DEF PersistRename, Persisting, Persisted, WrittenIsCurrent
  <2> QED BY <2>1 DEF PendingWithinLimit
<1>4. ASSUME call'[p] = call[p] PROVE FALSE
  BY <1>1, <1>4
<1>5. ASSUME NEW t \in Procs, t # p, Serve(t) PROVE call'[p] = call[p]
  BY <1>5 DEF Serve, Enqueue, Receive, Claim, Decrypt, PersistWrite, PersistRename,
     PersistFails, Changed, Return, GInv, TypeOK
<1>6. ASSUME NEW t \in Procs,
             CallEnqueue(t) \/ CallReceive(t) \/ CallClaim(t) \/ CallDecrypt(t)
      PROVE  call'[p] = call[p]
  <2>1. PICK op, r, arg : Begin(t, op, r, arg)
    BY <1>6 DEF CallEnqueue, CallReceive, CallClaim, CallDecrypt
  <2> QED BY <2>1 DEF Begin, GInv, TypeOK
<1>7. ~Claim(p) /\ ~Decrypt(p)
  BY DEF Claim, Decrypt, At
<1>8. ~PersistWrite(p) /\ ~PersistFails(p)
  BY <1>1 DEF PersistWrite, PersistFails, Return, GInv, TypeOK, Calls
<1>9. ~Crash
  BY DEF Crash
<1>10. ModuleLoad \/ ModuleRegister \/ UNCHANGED vars => call'[p] = call[p]
  BY DEF ModuleLoad, ModuleRegister, vars
<1>11. Serve(p) => Enqueue(p) \/ Receive(p) \/ PersistRename(p)
  BY <1>7, <1>8 DEF Serve
<1> QED BY <1>2, <1>3, <1>4, <1>5, <1>6, <1>9, <1>10, <1>11 DEF Next

\* An acknowledged enqueue or receipt leaves its queue within the retention_limit of
\* its store, in memory and in the file, whatever limits the loads before it were made
\* under (enforceRetentionLocked, persistLocked, load).
THEOREM RetentionKept == ASSUME ~Reload PROVE Spec => RetentionHolds
<1> DEFINE PInv == SInv /\ QueuesFinite /\ PendingWithinLimit
<1>1. Init => PInv
  <2> SUFFICES ASSUME Init PROVE PInv
    OBVIOUS
  <2>1. QueuesFinite
    BY EmptyQueue, FileAssumption DEF FileAssumption, Init, QueuesFinite, StateFinite, EmptyState
  <2>2. PendingWithinLimit
    BY DEF Init, PendingWithinLimit, Persisting
  <2> QED BY <2>1, <2>2, SInit
<1>2. PInv /\ [Next]_vars => PInv'
  BY SStep, FiniteStep, PendingStep DEF SInv
<1>3. PInv /\ [Next]_vars =>
        \A p \in Procs :
          LET o == call[p].object
              q == IF call[p].op = "receive" THEN "inbox" ELSE "outbox"
          IN Busy(p) /\ call'[p].pc = "ok" /\ call[p].op \in {"enqueue", "receive"}
                /\ limit[o] > 0 =>
             /\ Cardinality(Occupied(mem'[o][q])) <= limit[o]
             /\ LocalFile => Cardinality(Occupied(file'[q])) <= limit[o]
  BY AcknowledgedWithinLimit DEF QueueOf
<1> HIDE DEF PInv
<1> QED BY <1>1, <1>2, <1>3, PTL DEF Spec, RetentionHolds

-----------------------------------------------------------------------------
\* The queue that one store implements

\* The mapping of the calls, as EnvelopeRefinement gives it.
callBar == [p \in Procs |-> CallOf(call[p])]

\* A store that has been loaded and not yet registered holds what is saved, under the
\* limit it was configured with.
LoadedIsSaved ==
    loading # None => mem[loading] = SavedState /\ limit[loading] \in Limits

RInv == SInv /\ QueuesFinite /\ LoadedIsSaved

\* The queue sees where a call stands and what it asks for.
LEMMA CallSeen ==
  ASSUME TypeOK, NEW p \in Procs
  PROVE  /\ Busy(p) <=> callBar[p].pc \in {"pending", "applied"}
         /\ call[p].pc = "called" <=> callBar[p].pc = "pending"
         /\ Persisting(p) <=> callBar[p].pc = "applied"
         /\ Busy(p) => /\ callBar[p].op = call[p].op /\ callBar[p].ref = call[p].ref
                       /\ callBar[p].arg = call[p].arg
<1>1. callBar[p] = CallOf(call[p])
  BY DEF callBar
<1>2. CASE Busy(p)
  BY <1>1, <1>2 DEF Busy, CallOf, Persisting
<1>3. CASE ~Busy(p)
  <2>1. callBar[p] = call[p] /\ call[p].pc \in {"idle", "ok", "err"}
    BY <1>1, <1>3 DEF TypeOK, Calls, Resting, Busy, CallOf
  <2> QED BY <1>3, <2>1 DEF Busy, Persisting
<1> QED BY <1>2, <1>3

LEMMA CallMoves ==
  ASSUME TypeOK, NEW p \in Procs, NEW c, call' = [call EXCEPT ![p] = c]
  PROVE  callBar' = [callBar EXCEPT ![p] = CallOf(c)]
  BY DEF callBar, TypeOK

LEMMA ReturnSeen ==
  ASSUME TypeOK, NEW p \in Procs, NEW pc \in {"ok", "err"}, Return(p, pc)
  PROVE  callBar' = [callBar EXCEPT ![p] = [pc |-> pc]]
<1>1. CallOf([pc |-> pc]) = [pc |-> pc]
  BY DEF CallOf
<1> QED BY <1>1, CallMoves DEF Return

\* The library the queue counts with is that of the store.
LEMMA SameCount == ASSUME NEW S PROVE Queue!Cardinality(S) = Cardinality(S)
  BY DEF Queue!Cardinality, Cardinality

\* Retention keeps what the queue says it keeps.
LEMMA RetainedKeepsNewest ==
  ASSUME NEW q \in Queues, LimitNow \in Nat, NEW kept \in Retained(q, LimitNow), Finite(q)
  PROVE  Queue!Retains(q, kept)
<1>0. Queue!Held(q) = Occupied(q) /\ Queue!Held(kept) = Occupied(kept)
  BY DEF Queue!Held, Occupied
<1>1. \A r \in Refs : kept[r] \in {q[r], None}
  BY RetainedShrinks
<1>2. LimitNow > 0 => Cardinality(Occupied(kept)) <= LimitNow
  BY RetainedWithinLimit
<1>3. ASSUME kept # q
      PROVE  /\ LimitNow > 0 /\ Cardinality(Occupied(kept)) = LimitNow
             /\ \A r \in Occupied(kept), s \in Occupied(q) \ Occupied(kept) : q[s].at <= q[r].at
  <2>1. PICK keep \in SUBSET Occupied(q) :
          /\ Cardinality(keep) = LimitNow
          /\ \A r \in keep, s \in Occupied(q) \ keep : q[s].at <= q[r].at
          /\ kept = [r \in Refs |-> IF r \in keep THEN q[r] ELSE None]
    BY <1>3 DEF Retained, CutTo
  <2>2. LimitNow > 0
    BY <1>3 DEF Retained
  <2>3. Occupied(kept) = keep
    BY <2>1 DEF Occupied
  <2> QED BY <2>1, <2>2, <2>3
<1>4. \A r \in Occupied(kept), s \in Occupied(q) \ Occupied(kept) : q[s].at <= q[r].at
  BY <1>3
<1> QED BY <1>0, <1>1, <1>2, <1>3, <1>4, SameCount DEF Queue!Retains

-----------------------------------------------------------------------------
\* Each step of the store is one of the queue, or a stutter

\* The store of a call that is served is what the queue works with.
LEMMA NowServes ==
  ASSUME SInv, NEW p \in Procs, Busy(p)
  PROVE  /\ StateNow = mem[call[p].object] /\ StateNow \in States /\ StateNow # None
         /\ LimitNow = limit[call[p].object] /\ LimitNow \in Nat
         /\ call[p].object \in Objects /\ call[p].ref \in Refs /\ call[p] \in Calls
<1>1. call[p] \in Calls /\ call[p].object = store /\ store \in Objects /\ store # None
  BY Serving, EnvelopeAssumption DEF EnvelopeAssumption
<1>2. mem[store] \in States /\ limit[store] \in Nat
  BY <1>1, LimitIsNat DEF SInv, GInv, TypeOK
<1>3. StateNow = mem[store] /\ LimitNow = limit[store]
  BY <1>1 DEF StateNow, LimitNow
<1> QED BY <1>1, <1>2, <1>3, FileAssumption DEF FileAssumption, Calls

\* A call that found the mutex free and changed memory has been applied.
LEMMA ChangeApplies ==
  ASSUME SInv, NEW p \in Procs, call[p].pc = "called", call[p].op # "decrypt",
         Unlocked(p), Changed(p), UNCHANGED <<backend, file, store, limit>>
  PROVE  Queue!Apply(p)
<1>1. TypeOK /\ Busy(p)
  BY DEF SInv, GInv, Busy
<1>2. \A q \in Procs : callBar[q].pc # "applied"
  BY <1>1, FreeStore, CallSeen
<1>3. UNCHANGED <<LocalFile, SavedState, LimitNow>>
  BY DEF LocalFile, SavedState, LimitNow
<1>4. CASE LocalFile
  <2> DEFINE c == [call[p] EXCEPT !.pc = "changed"]
  <2>1. call' = [call EXCEPT ![p] = c]
    BY <1>1, <1>4 DEF Changed, TypeOK
  <2>2. call[p] \in Calls
    BY <1>1, BusyHasCall
  <2>3. callBar[p] = [pc |-> "pending", op |-> call[p].op, ref |-> call[p].ref,
                      arg |-> call[p].arg]
    BY DEF callBar, CallOf
  <2>4. CallOf(c) = [pc |-> "applied", op |-> call[p].op, ref |-> call[p].ref,
                     arg |-> call[p].arg]
    BY <2>2 DEF CallOf, Calls
  <2>5. CallOf(c) = [callBar[p] EXCEPT !.pc = "applied"]
    BY <2>3, <2>4
  <2> HIDE DEF c
  <2>6. callBar' = [callBar EXCEPT ![p] = [callBar[p] EXCEPT !.pc = "applied"]]
    BY <1>1, <2>1, <2>5, CallMoves
  <2> QED BY <1>2, <1>3, <1>4, <2>6 DEF Queue!Apply, callBar
<1>5. CASE ~LocalFile
  <2>1. callBar' = [callBar EXCEPT ![p] = [pc |-> "ok"]]
    BY <1>1, <1>5, ReturnSeen DEF Changed
  <2> QED BY <1>2, <1>3, <1>5, <2>1 DEF Queue!Apply, Queue!Return, callBar
<1> QED BY <1>4, <1>5

\* Enqueue and Receive.
LEMMA PutMaps ==
  ASSUME RInv, NEW p \in Procs, call[p].pc = "called", call[p].op \in {"enqueue", "receive"},
         NEW q \in {"outbox", "inbox"}, NEW status \in {"queued", "received"},
         Unlocked(p), Put(p, q, status), Changed(p),
         UNCHANGED <<backend, file, store, limit>>
  PROVE  Queue!Put(p, q, status)
<1> DEFINE o == call[p].object
           new == [mem[o][q] EXCEPT ![call[p].ref] = NewRecord(p, status)]
<1>1. SInv /\ GInv /\ QueuesFinite /\ TypeOK /\ Busy(p)
  BY DEF RInv, SInv, GInv, Busy
<1>2. /\ StateNow = mem[o] /\ StateNow \in States /\ o \in Objects /\ o = store
      /\ LimitNow = limit[o] /\ LimitNow \in Nat
  BY <1>1, NowServes, Serving
<1>3. PICK kept \in Queues :
        /\ kept \in Retained(new, limit[o])
        /\ mem' = [mem EXCEPT ![o] = [mem[o] EXCEPT ![q] = kept]]
  <2>1. PutLeaves(p, q, status)
    BY <1>1, PutStep
  <2> QED BY <2>1 DEF PutLeaves
<1>4. new \in Queues
  BY <1>1, PutTypes
<1>5. Finite(new)
  <2>1. mem[o][q] \in Queues /\ Finite(mem[o][q])
    BY <1>1, <1>2, PutTypes DEF QueuesFinite, StateFinite
  <2> QED BY <2>1, <1>1, OneMoreRecord, NowServes
<1>6. Queue!Retains(new, kept)
  BY <1>2, <1>3, <1>4, <1>5, RetainedKeepsNewest
<1>7. StateNow' = [StateNow EXCEPT ![q] = kept]
  BY <1>1, <1>2, <1>3, EnvelopeAssumption DEF EnvelopeAssumption, StateNow, TypeOK
<1>8. StateNow'[q] = kept
  BY <1>2, <1>7 DEF States
<1>9. new = [StateNow[q] EXCEPT ![callBar[p].ref] =
                [msg |-> callBar[p].arg.msg, status |-> status, at |-> callBar[p].arg.at]]
  BY <1>1, <1>2, CallSeen DEF NewRecord
<1>10. Queue!Apply(p)
  BY <1>1, ChangeApplies
<1> HIDE DEF new, o
<1> QED BY <1>6, <1>7, <1>8, <1>9, <1>10 DEF Queue!Put, callBar

\* Claim.
LEMMA ClaimMaps ==
  ASSUME SInv, NEW p \in Procs, Claim(p), IsQueued(p)
  PROVE  Queue!Claim(p)
<1> DEFINE o == call[p].object
           r == call[p].ref
           k == Claimed(mem[o].outbox, r)
<1>1. GInv /\ TypeOK /\ Busy(p) /\ call[p].pc = "called" /\ call[p].op = "claim"
      /\ Unlocked(p) /\ Changed(p) /\ UNCHANGED <<backend, file, store, limit>>
  BY DEF SInv, GInv, Claim, At, Busy
<1>2. StateNow = mem[o] /\ StateNow \in States /\ o \in Objects /\ o = store /\ r \in Refs
  BY <1>1, NowServes, Serving
<1>3. mem' = [mem EXCEPT ![o] = [mem[o] EXCEPT !.outbox = k]] /\ k \in Queues
  BY <1>1, ClaimStep
<1>4. StateNow' = [StateNow EXCEPT !.outbox = k]
  BY <1>1, <1>2, <1>3, EnvelopeAssumption DEF EnvelopeAssumption, StateNow, TypeOK
<1>5. StateNow' = [StateNow EXCEPT !.outbox[r].status = "claimed"]
  BY <1>2, <1>4 DEF Claimed, States, Queues
<1>6. StateNow.outbox[r] # None /\ StateNow.outbox[r].status = "queued"
  BY <1>2 DEF IsQueued
<1>7. Queue!Apply(p)
  BY <1>1, ChangeApplies
<1>8. callBar[p].pc = "pending" /\ callBar[p].op = "claim" /\ callBar[p].ref = r
  BY <1>1, CallSeen
<1> HIDE DEF r
<1> QED BY <1>5, <1>6, <1>7, <1>8 DEF Queue!Claim, Queue!Is, callBar

\* A call that returns and has changed nothing.
LEMMA ReturnMaps ==
  ASSUME TypeOK, NEW p \in Procs, NEW pc \in {"ok", "err"}, Return(p, pc), Busy(p),
         UNCHANGED <<backend, file, store, mem, limit>>
  PROVE  /\ callBar' = [callBar EXCEPT ![p] = [pc |-> pc]]
         /\ UNCHANGED <<LocalFile, SavedState, StateNow, LimitNow>>
         /\ pc = "err" => Queue!Fail(p)
<1>1. callBar' = [callBar EXCEPT ![p] = [pc |-> pc]]
  BY ReturnSeen
<1>2. UNCHANGED <<LocalFile, SavedState, StateNow, LimitNow>>
  BY DEF LocalFile, SavedState, StateNow, LimitNow
<1>3. callBar[p].pc \in {"pending", "applied"}
  BY CallSeen
<1> QED BY <1>1, <1>2, <1>3 DEF Queue!Fail, Queue!Open, Queue!Return, callBar

\* Decrypt.
LEMMA DecryptMaps ==
  ASSUME SInv, NEW p \in Procs, Decrypt(p) PROVE Queue!Decrypt(p) \/ Queue!Fail(p)
<1>1. PICK pc \in {"ok", "err"} :
        /\ pc = "ok" => mem[call[p].object].inbox[call[p].ref] # None
        /\ Return(p, pc)
  BY DEF Decrypt
<1>2. /\ TypeOK /\ Busy(p) /\ call[p].pc = "called" /\ call[p].op = "decrypt"
      /\ UNCHANGED <<backend, file, store, mem, limit>>
  BY DEF SInv, GInv, Decrypt, At, Busy
<1>3. CASE pc = "err"
  BY <1>1, <1>2, <1>3, ReturnMaps
<1>4. CASE pc = "ok"
  <2>1. /\ callBar' = [callBar EXCEPT ![p] = [pc |-> "ok"]]
        /\ UNCHANGED <<LocalFile, SavedState, StateNow, LimitNow>>
    BY <1>1, <1>2, <1>4, ReturnMaps
  <2>2. callBar[p].pc = "pending" /\ callBar[p].op = "decrypt" /\ callBar[p].ref = call[p].ref
    BY <1>2, CallSeen
  <2>3. StateNow.inbox[callBar[p].ref] # None
    BY <1>1, <1>2, <1>4, <2>2, NowServes
  <2> QED BY <2>1, <2>2, <2>3 DEF Queue!Decrypt, Queue!Is, Queue!Return, callBar
<1> QED BY <1>3, <1>4

\* The temporary file is not seen by the queue.
LEMMA WriteMaps ==
  ASSUME SInv, NEW p \in Procs, PersistWrite(p)
  PROVE  UNCHANGED <<LocalFile, SavedState, StateNow, LimitNow, callBar>>
<1>1. TypeOK /\ Busy(p) /\ call[p].pc = "changed"
  BY DEF SInv, GInv, PersistWrite, Busy
<1>2. UNCHANGED <<LocalFile, SavedState, StateNow, LimitNow>>
  BY DEF PersistWrite, LocalFile, SavedState, StateNow, LimitNow
<1> DEFINE c == [call[p] EXCEPT !.pc = "written"]
<1>3. call' = [call EXCEPT ![p] = c]
  BY <1>1 DEF PersistWrite, TypeOK
<1>4. call[p] \in Calls
  BY <1>1, BusyHasCall
<1>5. CallOf(c) = CallOf(call[p])
  BY <1>1, <1>4 DEF CallOf, Calls
<1> HIDE DEF c
<1>6. callBar' = [callBar EXCEPT ![p] = CallOf(call[p])]
  BY <1>1, <1>3, <1>5, CallMoves
<1>7. callBar' = callBar
  BY <1>6 DEF callBar
<1> QED BY <1>2, <1>7

\* The rename saves what memory holds.
LEMMA RenameMaps ==
  ASSUME SInv, NEW p \in Procs, PersistRename(p) PROVE Queue!Commit(p)
<1>1. TypeOK /\ Busy(p) /\ Persisting(p) /\ call[p].pc = "written"
  BY DEF SInv, GInv, PersistRename, Busy, Persisting
<1>2. file' = mem[call[p].object] /\ UNCHANGED <<backend, store, mem, limit>> /\ Return(p, "ok")
  BY DEF PersistRename, SInv, Persisted, WrittenIsCurrent
<1>3. StateNow = mem[call[p].object] /\ StateNow # None
  BY <1>1, NowServes
<1>4. SavedState' = StateNow
  BY <1>2, <1>3 DEF SavedState
<1>5. UNCHANGED <<LocalFile, StateNow, LimitNow>>
  BY <1>2 DEF LocalFile, StateNow, LimitNow
<1>6. callBar' = [callBar EXCEPT ![p] = [pc |-> "ok"]]
  BY <1>1, <1>2, ReturnSeen
<1>7. callBar[p].pc = "applied"
  BY <1>1, CallSeen
<1> QED BY <1>4, <1>5, <1>6, <1>7 DEF Queue!Commit, Queue!Return, callBar

\* A step that begins calls the queue, or finds it down.
LEMMA BeginMaps ==
  ASSUME SInv, NEW p \in Procs, NEW op \in {"enqueue", "claim", "receive", "decrypt"},
         NEW r \in Refs, NEW arg \in [msg : Msgs, at : Times] \cup {None},
         Begin(p, op, r, arg)
  PROVE  Queue!Call(p) \/ Queue!Refuse(p)
<1>1. /\ TypeOK /\ ~Busy(p) /\ UNCHANGED <<backend, file, store, mem, limit>>
      /\ callBar[p].pc \notin {"pending", "applied"}
  BY CallSeen DEF SInv, GInv, Begin
<1>2. UNCHANGED <<LocalFile, SavedState, StateNow, LimitNow>>
  BY <1>1 DEF LocalFile, SavedState, StateNow, LimitNow
<1>3. CASE store = None
  <2>1. Return(p, "err")
    BY <1>3 DEF Begin, Return
  <2>2. callBar' = [callBar EXCEPT ![p] = [pc |-> "err"]] /\ StateNow = None
    BY <1>1, <1>3, <2>1, ReturnSeen DEF StateNow
  <2> QED BY <1>1, <1>2, <2>2 DEF Queue!Refuse, Queue!Open, Queue!Return, callBar
<1>4. CASE store # None
  <2> DEFINE c == [pc |-> "called", op |-> op, object |-> store, ref |-> r, arg |-> arg]
             a == [pc |-> "pending", op |-> op, ref |-> r, arg |-> arg]
  <2>1. call' = [call EXCEPT ![p] = c]
    BY <1>4 DEF Begin
  <2>2. CallOf(c) = a
    BY DEF CallOf
  <2>3. callBar' = [callBar EXCEPT ![p] = a]
    BY <1>1, <2>1, <2>2, CallMoves
  <2>4. a \in Queue!Pending
    BY DEF Queue!Pending
  <2>5. callBar'[p] = a
    BY <2>3 DEF callBar
  <2>6. StateNow # None
    BY <1>1, <1>4, FileAssumption DEF FileAssumption, StateNow, TypeOK
  <2> HIDE DEF a, c
  <2> QED BY <1>1, <1>2, <2>3, <2>4, <2>5, <2>6 DEF Queue!Call, Queue!Open, callBar
<1> QED BY <1>3, <1>4

\* Every step of a call in progress.
LEMMA ServeMaps ==
  ASSUME RInv, NEW p \in Procs, Serve(p)
  PROVE  \/ Queue!Enqueue(p) \/ Queue!Receive(p) \/ Queue!Claim(p) \/ Queue!Decrypt(p)
         \/ Queue!Commit(p) \/ Queue!Fail(p)
         \/ UNCHANGED <<LocalFile, SavedState, StateNow, LimitNow, callBar>>
<1>1. SInv /\ TypeOK
  BY DEF RInv, SInv, GInv
<1>2. CASE Enqueue(p)
  <2>1. /\ call[p].pc = "called" /\ call[p].op = "enqueue" /\ Busy(p)
        /\ Queue!Put(p, "outbox", "queued")
    BY <1>2, PutMaps DEF Enqueue, At, Busy
  <2> QED BY <1>1, <2>1, CallSeen DEF Queue!Enqueue, Queue!Is, callBar
<1>3. CASE Receive(p)
  <2>1. /\ call[p].pc = "called" /\ call[p].op = "receive" /\ Busy(p)
        /\ Queue!Put(p, "inbox", "received")
    BY <1>3, PutMaps DEF Receive, At, Busy
  <2> QED BY <1>1, <2>1, CallSeen DEF Queue!Receive, Queue!Is, callBar
<1>4. CASE Claim(p)
  <2>1. CASE IsQueued(p)
    BY <1>1, <1>4, <2>1, ClaimMaps
  <2>2. CASE ~IsQueued(p)
    BY <1>1, <1>4, <2>2, ReturnMaps DEF Claim, At, Busy
  <2> QED BY <2>1, <2>2
<1>5. CASE Decrypt(p)
  BY <1>1, <1>5, DecryptMaps
<1>6. CASE PersistWrite(p)
  BY <1>1, <1>6, WriteMaps
<1>7. CASE PersistRename(p)
  BY <1>1, <1>7, RenameMaps
<1>8. CASE PersistFails(p)
  BY <1>1, <1>8, ReturnMaps DEF PersistFails, Busy
<1> QED BY <1>2, <1>3, <1>4, <1>5, <1>6, <1>7, <1>8 DEF Serve

\* A store that comes up has what is saved.
LEMMA UpMaps == ASSUME RInv, ModuleRegister PROVE Queue!Up
<1>1. /\ loading # None /\ store = None
      /\ mem[loading] = SavedState /\ limit[loading] \in Limits
  BY DEF RInv, SInv, OnStore, LoadedIsSaved, ModuleRegister
<1>2. StateNow = None /\ StateNow' = SavedState /\ LimitNow' \in Limits
  BY <1>1 DEF ModuleRegister, StateNow, LimitNow
<1>3. UNCHANGED <<LocalFile, SavedState, callBar>>
  BY DEF ModuleRegister, LocalFile, SavedState, callBar
<1> QED BY <1>2, <1>3 DEF Queue!Up, callBar

LEMMA DownMaps == ASSUME Crash PROVE Queue!Down
<1>1. StateNow' = None /\ LimitNow' = 0
  BY DEF Crash, StateNow, LimitNow
<1>2. callBar' = [p \in Procs |-> [pc |-> "idle"]]
  BY DEF Crash, callBar, CallOf
<1>3. UNCHANGED <<LocalFile, SavedState>>
  BY DEF Crash, LocalFile, SavedState
<1> QED BY <1>1, <1>2, <1>3 DEF Queue!Down, callBar

\* A load takes what is saved, and nothing is saved before the store is registered.
LEMMA LoadedStep == ASSUME ~Reload, RInv, [Next]_vars PROVE LoadedIsSaved'
<1> SUFFICES ASSUME loading' # None
             PROVE  mem'[loading'] = SavedState' /\ limit'[loading'] \in Limits
  BY DEF LoadedIsSaved
<1>1. SInv /\ TypeOK
  BY DEF RInv, SInv, GInv
<1>2. CASE ModuleLoad
  <2>1. PICK o \in Objects :
          /\ loading' = o
          /\ mem' = [mem EXCEPT ![o] = IF LocalFile /\ file # None THEN file ELSE EmptyState]
          /\ \E n \in Limits : limit' = [limit EXCEPT ![o] = n]
    BY <1>2 DEF ModuleLoad
  <2>2. ~LocalFile => file = None
    BY <1>1 DEF SInv, Persisted, MemoryHasNoFile
  <2> QED BY <1>1, <1>2, <2>1, <2>2 DEF ModuleLoad, SavedState, TypeOK
<1>3. CASE UNCHANGED <<loading, mem, limit, file>>
  BY <1>3 DEF RInv, LoadedIsSaved, SavedState
<1>4. ASSUME NEW p \in Procs, Serve(p) PROVE FALSE
  <2>1. Busy(p) /\ loading' = loading
    BY <1>4 DEF Serve, Enqueue, Receive, Claim, Decrypt, PersistWrite, PersistRename,
       PersistFails, At, Busy
  <2> QED BY <1>1, <2>1 DEF SInv, OnStore
<1>5. ~ModuleRegister /\ ~Crash
  BY DEF ModuleRegister, Crash
<1>6. ASSUME NEW p \in Procs,
             CallEnqueue(p) \/ CallReceive(p) \/ CallClaim(p) \/ CallDecrypt(p)
      PROVE  UNCHANGED <<loading, mem, limit, file>>
  BY <1>6 DEF CallEnqueue, CallReceive, CallClaim, CallDecrypt, Begin
<1>7. CASE UNCHANGED vars
  BY <1>3, <1>7 DEF vars
<1> QED BY <1>2, <1>3, <1>4, <1>5, <1>6, <1>7 DEF Next

\* Every step of the store is one of the queue, or a stutter.
LEMMA NextMaps == ASSUME ~Reload, RInv, [Next]_vars PROVE [Queue!Next]_(Queue!vars)
<1>1. SInv /\ TypeOK
  BY DEF RInv, SInv, GInv
<1>2. CASE UNCHANGED <<LocalFile, SavedState, StateNow, LimitNow, callBar>>
  BY <1>2 DEF Queue!vars, callBar
<1>3. CASE ModuleLoad
  <2>1. store = None /\ store' = None
    BY <1>3 DEF ModuleLoad
  <2>2. UNCHANGED <<LocalFile, SavedState, StateNow, LimitNow, callBar>>
    BY <1>3, <2>1 DEF ModuleLoad, LocalFile, SavedState, StateNow, LimitNow, callBar
  <2> QED BY <1>2, <2>2
<1>4. CASE ModuleRegister
  BY <1>4, UpMaps DEF Queue!Next
<1>5. ASSUME NEW p \in Procs,
             CallEnqueue(p) \/ CallReceive(p) \/ CallClaim(p) \/ CallDecrypt(p)
      PROVE  Queue!Next
  <2>1. ASSUME NEW op \in {"enqueue", "claim", "receive", "decrypt"}, NEW r \in Refs,
               NEW arg \in [msg : Msgs, at : Times] \cup {None}, Begin(p, op, r, arg)
        PROVE  Queue!Next
    BY <1>1, <2>1, BeginMaps DEF Queue!Next
  <2>2. CASE CallEnqueue(p)
    <3>1. PICK c \in EnqueueCalls : Begin(p, "enqueue", c.ref, c.arg)
      BY <2>2 DEF CallEnqueue
    <3> QED BY <2>1, <3>1, EnqueueCallTypes
  <2>3. CASE CallReceive(p)
    <3>1. PICK in \in ReceiveRequests :
            Begin(p, "receive", in.ref, [msg |-> in.msg, at |-> in.at])
      BY <2>3 DEF CallReceive
    <3>2. in.ref \in Refs /\ [msg |-> in.msg, at |-> in.at] \in [msg : Msgs, at : Times]
      BY EnvelopeAssumption DEF EnvelopeAssumption, ReceiveRequests
    <3> QED BY <2>1, <3>1, <3>2
  <2>4. CASE CallClaim(p)
    BY <2>1, <2>4 DEF CallClaim, ClaimRequests
  <2>5. CASE CallDecrypt(p)
    BY <2>1, <2>5, EnvelopeAssumption DEF EnvelopeAssumption, CallDecrypt, DecryptRequests
  <2> QED BY <1>5, <2>2, <2>3, <2>4, <2>5
<1>6. ASSUME NEW p \in Procs, Serve(p) PROVE [Queue!Next]_(Queue!vars)
  BY <1>2, <1>6, ServeMaps DEF Queue!Next
<1>7. CASE Crash
  BY <1>7, DownMaps DEF Queue!Next
<1>8. CASE UNCHANGED vars
  <2>1. UNCHANGED <<LocalFile, SavedState, StateNow, LimitNow, callBar>>
    BY <1>8 DEF vars, LocalFile, SavedState, StateNow, LimitNow, callBar
  <2> QED BY <1>2, <2>1
<1> QED BY <1>3, <1>4, <1>5, <1>6, <1>7, <1>8 DEF Next

\* While one store at a time works on its path, it is a pair of queues with a saved
\* copy: whatever is written in pieces, fails or dies, a request is acknowledged
\* when the queues are saved as it left them, and a restart brings back what was
\* saved last (envelope_store.go, all operations, persistLocked and load).
THEOREM QueueImplemented == ASSUME ~Reload PROVE Spec => ImplementsQueue
<1>1. Init => Queue!Init
  <2> SUFFICES ASSUME Init PROVE Queue!Init
    OBVIOUS
  <2>1. SavedState = EmptyState /\ StateNow = None /\ LimitNow = 0
    BY DEF Init, SavedState, StateNow, LimitNow
  <2>2. callBar = [p \in Procs |-> [pc |-> "idle"]]
    BY DEF Init, callBar, CallOf
  <2>3. LocalFile \in BOOLEAN
    BY DEF LocalFile
  <2>4. EmptyState = Queue!Empty
    BY DEF EmptyState, NoQueue, Queue!Empty
  <2> QED BY <2>1, <2>2, <2>3, <2>4 DEF Queue!Init, callBar
<1>2. Init => RInv
  <2> SUFFICES ASSUME Init PROVE RInv
    OBVIOUS
  <2>1. QueuesFinite
    BY EmptyQueue, FileAssumption DEF FileAssumption, Init, QueuesFinite, StateFinite, EmptyState
  <2> QED BY <2>1, SInit DEF RInv, Init, LoadedIsSaved
<1>3. RInv /\ [Next]_vars => RInv'
  BY SStep, FiniteStep, LoadedStep DEF RInv, SInv
<1>4. RInv /\ [Next]_vars => [Queue!Next]_(Queue!vars)
  BY NextMaps
<1> QED BY <1>1, <1>2, <1>3, <1>4, PTL DEF Spec, ImplementsQueue, Queue!Spec

=============================================================================
