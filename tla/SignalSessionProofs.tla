------------------------- MODULE SignalSessionProofs ------------------------
(***************************************************************************)
(* What the session steps promise, for any number of identities, steps,    *)
(* base keys and messages.                                                 *)
(***************************************************************************)
EXTENDS SignalSession, TLAPS

Loaded(p) == call[p].pc = "loaded"

\* A call encrypts or decrypts; what it decrypts has been sealed; it has loaded a
\* session or not.
CallShape ==
    \A p \in Procs : Busy(p) =>
        /\ call[p].bundle = None <=> call[p].envelope # None
        /\ call[p].envelope # None => call[p].envelope \in envelopes
        /\ Loaded(p) <=> call[p].copy # None

GInv == TypeOK /\ CallShape

-----------------------------------------------------------------------------
\* Types

LEMMA BusyHasCall == ASSUME TypeOK, NEW p \in Procs, Busy(p) PROVE call[p] \in Calls
  BY DEF TypeOK, Busy, Resting

\* What two states agree on about a call that another step may have disturbed.
SameCall(q) ==
    /\ call'[q].pc = call[q].pc
    /\ Busy(q) => /\ call'[q].object = call[q].object /\ call'[q].peer = call[q].peer
                  /\ call'[q].bundle = call[q].bundle /\ call'[q].copy = call[q].copy
                  /\ call'[q].envelope = call[q].envelope

\* A step that stores a session moves its own call and disturbs those at the session.
LEMMA StoredByCalls ==
  ASSUME TypeOK, NEW p \in Procs, NEW op \in Ops, NEW o \in Objects, NEW i \in Ids,
         NEW mine \in Calls \cup Resting, StoredBy(p, op, o, i, mine)
  PROVE  /\ call' \in [Procs -> Calls \cup Resting]
         /\ call'[p] = mine
         /\ \A q \in Procs : q # p =>
               /\ SameCall(q)
               /\ Busy(q) /\ call'[q].disturbed = {} =>
                     call[q].disturbed = {} /\ ~(call[q].object = o /\ call[q].peer = i)
<1>1. ASSUME NEW q \in Procs, q # p, Busy(q), call[q].object = o, call[q].peer = i
      PROVE  /\ call'[q] = [call[q] EXCEPT !.disturbed = call[q].disturbed \cup {op}]
             /\ call'[q] \in Calls
             /\ SameCall(q)
             /\ call'[q].disturbed # {}
  <2>1. call[q] \in Calls
    BY <1>1, BusyHasCall
  <2>2. call'[q] = [call[q] EXCEPT !.disturbed = call[q].disturbed \cup {op}]
    BY <1>1 DEF StoredBy
  <2> QED BY <2>1, <2>2 DEF Calls, SameCall
<1>2. ASSUME NEW q \in Procs, q # p, ~(Busy(q) /\ call[q].object = o /\ call[q].peer = i)
      PROVE  call'[q] = call[q] /\ call'[q] \in Calls \cup Resting /\ SameCall(q)
  BY <1>2 DEF StoredBy, TypeOK, SameCall
<1>3. call'[p] = mine
  BY DEF StoredBy
<1>4. call' \in [Procs -> Calls \cup Resting]
  <2>1. \A q \in Procs : call'[q] \in Calls \cup Resting
    BY <1>1, <1>2, <1>3
  <2> QED BY <2>1 DEF StoredBy
<1> QED BY <1>1, <1>2, <1>3, <1>4

\* The shape of a call depends on what two states agree on.
LEMMA ShapeStays ==
  ASSUME CallShape, envelopes \subseteq envelopes', NEW p \in Procs,
         \A q \in Procs : q # p => SameCall(q),
         Busy(p)' => /\ call'[p].bundle = None <=> call'[p].envelope # None
                     /\ call'[p].envelope # None => call'[p].envelope \in envelopes'
                     /\ Loaded(p)' <=> call'[p].copy # None
  PROVE  CallShape'
<1> SUFFICES ASSUME NEW q \in Procs, Busy(q)'
             PROVE  /\ call'[q].bundle = None <=> call'[q].envelope # None
                    /\ call'[q].envelope # None => call'[q].envelope \in envelopes'
                    /\ Loaded(q)' <=> call'[q].copy # None
  BY DEF CallShape
<1>1. CASE q = p
  BY <1>1
<1>2. CASE q # p
  BY <1>2 DEF CallShape, SameCall, Busy, Loaded
<1> QED BY <1>1, <1>2

\* A session that is stored.
LEMMA StoredTypes ==
  ASSUME TypeOK, NEW o \in Objects, NEW i \in Ids, NEW s \in Sessions, Stored(o, i, s)
  PROVE  /\ session' \in [Objects -> [Ids -> Sessions \cup {None}]]
         /\ session'[o][i] = s
         /\ \A a \in Objects, j \in Ids :
               ~(a = o /\ j = i) => session'[a][j] = session[a][j]
  BY DEF TypeOK, Stored

\* The sessions a step starts and goes on with.
LEMMA InitiatedType ==
  ASSUME NEW b \in Bases, NEW bundle \in Bundles PROVE Initiated(b, bundle) \in Sessions
<1>1. 0 \in 0 .. MaxSent
  BY SessionAssumption DEF SessionAssumption
<1> QED BY <1>1 DEF Initiated, Sessions, Bundles

LEMMA AnsweringType ==
  ASSUME NEW o \in Objects, NEW c \in Ciphertexts PROVE Answering(o, c) \in Sessions
<1>1. 0 \in 0 .. MaxSent
  BY SessionAssumption DEF SessionAssumption
<1> QED BY <1>1 DEF Answering, Sessions, Ciphertexts

LEMMA ReceivedType ==
  ASSUME NEW s \in Sessions, NEW e \in Envelopes
  PROVE  /\ Received(s, e) \in Sessions
         /\ Received(s, e).base = s.base /\ Received(s, e).peer = s.peer
         /\ s.answered => Received(s, e).answered
  BY DEF Received, Sessions, Envelopes, Ciphertexts

\* The session an encrypt step stores when it has sealed a message.
Advanced(s) == IF s.answered THEN s ELSE [s EXCEPT !.sent = s.sent + 1]

LEMMA AdvancedType ==
  ASSUME NEW s \in Sessions, s.sent < MaxSent
  PROVE  /\ Advanced(s) \in Sessions
         /\ Advanced(s).base = s.base /\ Advanced(s).peer = s.peer
         /\ Advanced(s).answered = s.answered
<1>1. s.sent \in 0 .. MaxSent
  BY DEF Sessions
<1>2. s.sent + 1 \in 0 .. MaxSent
  BY <1>1, SessionAssumption DEF SessionAssumption
<1> QED BY <1>2 DEF Advanced, Sessions

LEMMA SealedType ==
  ASSUME NEW c \in Calls, c.copy \in Sessions PROVE Sealed(c) \in Envelopes
<1>1. 0 \in 0 .. MaxSent
  BY SessionAssumption DEF SessionAssumption
<1>2. Of[c.object] \in Ids
  BY SessionAssumption DEF SessionAssumption, Calls
<1> QED BY <1>1, <1>2 DEF Sealed, Envelopes, Ciphertexts, Calls, Sessions

-----------------------------------------------------------------------------
\* What each step does, in the terms of the lemmas below

\* A call that has loaded a session.
LEMMA LoadedCall ==
  ASSUME GInv, NEW p \in Procs, Loaded(p)
  PROVE  /\ Busy(p) /\ call[p] \in Calls /\ call[p].copy \in Sessions
         /\ call[p].object \in Objects /\ call[p].peer \in Ids
         /\ call[p].envelope # None => call[p].envelope \in Envelopes
<1>1. Busy(p)
  BY DEF Busy, Loaded
<1>2. call[p] \in Calls
  BY <1>1, BusyHasCall DEF GInv
<1> QED BY <1>1, <1>2 DEF GInv, CallShape, Calls

LEMMA EncryptStartDoes ==
  ASSUME GInv, NEW p \in Procs, EncryptStart(p)
  PROVE  \E o \in Objects, b \in Bases, bundle \in Bundles :
            /\ ~Busy(p) /\ Fresh(b)
            /\ Initiated(b, bundle) \in Sessions
            /\ Stored(o, bundle.identity, Initiated(b, bundle))
            /\ Ready(o, bundle.identity, bundle, None) \in Calls
            /\ StoredBy(p, "encrypt", o, bundle.identity,
                        Ready(o, bundle.identity, bundle, None))
            /\ UNCHANGED <<registry, used, envelopes>>
<1>1. PICK r \in EncryptRequests(Prepared), b \in Bases :
        /\ ~Busy(p) /\ registry[r.identity] # None /\ Fresh(b)
        /\ Stored(registry[r.identity], r.bundle.identity, Initiated(b, r.bundle))
        /\ StoredBy(p, "encrypt", registry[r.identity], r.bundle.identity,
                    Ready(registry[r.identity], r.bundle.identity, r.bundle, None))
        /\ UNCHANGED <<registry, used, envelopes>>
  BY DEF EncryptStart
<1>2. r.bundle \in Bundles /\ r.identity \in Ids
  BY SessionAssumption DEF SessionAssumption, EncryptRequests, Prepared, Bundles, GInv, TypeOK
<1>3. registry[r.identity] \in Objects
  BY <1>1, <1>2 DEF GInv, TypeOK
<1>4. Ready(registry[r.identity], r.bundle.identity, r.bundle, None) \in Calls
  BY <1>2, <1>3 DEF Ready, Calls, Bundles
<1> QED BY <1>1, <1>2, <1>3, <1>4, InitiatedType

LEMMA DecryptStartDoes ==
  ASSUME GInv, NEW p \in Procs, DecryptStart(p)
  PROVE  \E o \in Objects, e \in envelopes :
            /\ ~Busy(p) /\ e.sender \in Ids /\ e.ciphertext \in Ciphertexts
            /\ Ready(o, e.sender, None, e) \in Calls
            /\ \/ /\ e.type = "prekey"
                  /\ Answering(o, e.ciphertext) \in Sessions
                  /\ Stored(o, e.sender, Answering(o, e.ciphertext))
                  /\ StoredBy(p, "decrypt", o, e.sender, Ready(o, e.sender, None, e))
               \/ /\ e.type # "prekey"
                  /\ call' = [call EXCEPT ![p] = Ready(o, e.sender, None, e)]
                  /\ UNCHANGED session
            /\ UNCHANGED <<registry, used, envelopes>>
<1>1. PICK r \in DecryptRequests(envelopes) :
        /\ ~Busy(p) /\ registry[r.identity] # None
        /\ IF r.envelope.type = "prekey"
           THEN /\ Stored(registry[r.identity], r.envelope.sender,
                          Answering(registry[r.identity], r.envelope.ciphertext))
                /\ StoredBy(p, "decrypt", registry[r.identity], r.envelope.sender,
                            Ready(registry[r.identity], r.envelope.sender, None, r.envelope))
           ELSE /\ call' = [call EXCEPT ![p] = Ready(registry[r.identity],
                                                  r.envelope.sender, None, r.envelope)]
                /\ UNCHANGED session
        /\ UNCHANGED <<registry, used, envelopes>>
  BY DEF DecryptStart
<1>2. /\ r.envelope \in envelopes /\ r.envelope \in Envelopes /\ r.identity \in Ids
      /\ r.envelope.sender \in Ids /\ r.envelope.ciphertext \in Ciphertexts
  BY DEF DecryptRequests, GInv, TypeOK, Envelopes
<1>3. registry[r.identity] \in Objects
  BY <1>1, <1>2 DEF GInv, TypeOK
<1>4. Ready(registry[r.identity], r.envelope.sender, None, r.envelope) \in Calls
  BY <1>2, <1>3 DEF Ready, Calls
<1>5. Answering(registry[r.identity], r.envelope.ciphertext) \in Sessions
  BY <1>2, <1>3, AnsweringType
<1> QED BY <1>1, <1>2, <1>3, <1>4, <1>5

LEMMA EncryptEndDoes ==
  ASSUME GInv, NEW p \in Procs, EncryptEnd(p)
  PROVE  LET c == call[p]
         IN /\ Loaded(p) /\ c.bundle # None
            /\ Advanced(c.copy) \in Sessions
            /\ Advanced(c.copy).base = c.copy.base /\ Advanced(c.copy).peer = c.copy.peer
            /\ Advanced(c.copy).answered = c.copy.answered
            /\ Stored(c.object, c.peer, Advanced(c.copy))
            /\ StoredBy(p, "encrypt", c.object, c.peer, [pc |-> "ok"])
            /\ envelopes' = envelopes \cup {Sealed(c)} /\ Sealed(c) \in Envelopes
            /\ UNCHANGED <<registry, used>>
<1>1. Loaded(p) /\ call[p].copy.sent < MaxSent
  BY DEF EncryptEnd, Loaded
<1> QED BY <1>1, LoadedCall, AdvancedType, SealedType DEF EncryptEnd, Advanced

LEMMA DecryptEndDoes ==
  ASSUME GInv, NEW p \in Procs, DecryptEnd(p)
  PROVE  LET c == call[p]
             s == Received(c.copy, c.envelope)
         IN /\ Loaded(p) /\ c.envelope # None /\ Opens(c.copy, c.envelope)
            /\ s \in Sessions /\ s.base = c.copy.base /\ s.peer = c.copy.peer
            /\ c.copy.answered => s.answered
            /\ Stored(c.object, c.peer, s)
            /\ StoredBy(p, "decrypt", c.object, c.peer, [pc |-> "ok"])
            /\ UNCHANGED <<registry, used, envelopes>>
<1>1. Loaded(p)
  BY DEF DecryptEnd, Loaded
<1> QED BY <1>1, LoadedCall, ReceivedType DEF DecryptEnd

-----------------------------------------------------------------------------
\* Type correctness

LEMMA GInit == Init => GInv
  BY SessionAssumption DEF SessionAssumption, Init, GInv, TypeOK, CallShape, Busy, Resting

\* A step that moves only its own call.
LEMMA OwnMove ==
  ASSUME GInv, NEW p \in Procs, NEW c \in Calls \cup Resting, call' = [call EXCEPT ![p] = c],
         UNCHANGED envelopes,
         c.pc \in {"ready", "loaded"} =>
            /\ c.bundle = None <=> c.envelope # None
            /\ c.envelope # None => c.envelope \in envelopes
            /\ c.pc = "loaded" <=> c.copy # None
  PROVE  /\ call' \in [Procs -> Calls \cup Resting] /\ CallShape'
         /\ call'[p] = c /\ \A q \in Procs : q # p => SameCall(q) /\ call'[q] = call[q]
<1>1. /\ call' \in [Procs -> Calls \cup Resting]
      /\ call'[p] = c /\ \A q \in Procs : q # p => call'[q] = call[q]
  BY DEF GInv, TypeOK
<1>2. \A q \in Procs : q # p => SameCall(q)
  BY <1>1 DEF SameCall
<1>3. CallShape'
  BY <1>1, <1>2, ShapeStays DEF GInv, Busy, Loaded
<1> QED BY <1>1, <1>2, <1>3

\* A step that stores a session and then rests, or goes on with a call of its own.
LEMMA StoreMove ==
  ASSUME GInv, NEW p \in Procs, NEW op \in Ops, NEW o \in Objects, NEW i \in Ids,
         NEW s \in Sessions, NEW mine \in Calls \cup Resting,
         Stored(o, i, s), StoredBy(p, op, o, i, mine),
         envelopes \subseteq envelopes', envelopes' \subseteq Envelopes,
         UNCHANGED <<registry, used>>,
         mine.pc \in {"ready", "loaded"} =>
            /\ mine.bundle = None <=> mine.envelope # None
            /\ mine.envelope # None => mine.envelope \in envelopes
            /\ mine.pc = "loaded" <=> mine.copy # None
  PROVE  GInv'
<1>1. TypeOK
  BY DEF GInv
<1>2. /\ call' \in [Procs -> Calls \cup Resting] /\ call'[p] = mine
      /\ \A q \in Procs : q # p => SameCall(q)
  BY <1>1, StoredByCalls
<1>3. session' \in [Objects -> [Ids -> Sessions \cup {None}]]
  BY <1>1, StoredTypes
<1>4. TypeOK'
  BY <1>1, <1>2, <1>3 DEF TypeOK
<1>5. CallShape'
  BY <1>2, ShapeStays DEF GInv, Busy, Loaded
<1> QED BY <1>4, <1>5 DEF GInv

\* A call that has loaded its session.
LoadedNow(p) == [call[p] EXCEPT !.pc = "loaded",
                                !.copy = session[call[p].object][call[p].peer]]

LEMMA LoadDoes ==
  ASSUME GInv, NEW p \in Procs, Load(p)
  PROVE  /\ Busy(p) /\ call[p] \in Calls /\ call[p].pc = "ready"
         /\ \/ /\ session[call[p].object][call[p].peer] = None
               /\ Return(p, "err")
            \/ /\ session[call[p].object][call[p].peer] \in Sessions
               /\ LoadedNow(p) \in Calls
               /\ LoadedNow(p).pc = "loaded"
               /\ LoadedNow(p).copy = session[call[p].object][call[p].peer]
               /\ LoadedNow(p).object = call[p].object /\ LoadedNow(p).peer = call[p].peer
               /\ LoadedNow(p).bundle = call[p].bundle
               /\ LoadedNow(p).envelope = call[p].envelope
               /\ LoadedNow(p).disturbed = call[p].disturbed
               /\ call' = [call EXCEPT ![p] = LoadedNow(p)]
         /\ UNCHANGED <<registry, used, session, envelopes>>
<1>1. Busy(p) /\ call[p].pc = "ready"
  BY DEF Load, Busy
<1>2. call[p] \in Calls
  BY <1>1, BusyHasCall DEF GInv
<1>3. CASE session[call[p].object][call[p].peer] = None
  BY <1>1, <1>2, <1>3 DEF Load
<1>4. CASE session[call[p].object][call[p].peer] # None
  <2>1. session[call[p].object][call[p].peer] \in Sessions
    BY <1>2, <1>4 DEF GInv, TypeOK, Calls
  <2>2. call' = [call EXCEPT ![p] = LoadedNow(p)]
    BY <1>2, <1>4 DEF Load, LoadedNow, GInv, TypeOK, Calls
  <2>3. /\ LoadedNow(p) \in Calls
        /\ LoadedNow(p).pc = "loaded"
        /\ LoadedNow(p).copy = session[call[p].object][call[p].peer]
        /\ LoadedNow(p).object = call[p].object /\ LoadedNow(p).peer = call[p].peer
        /\ LoadedNow(p).bundle = call[p].bundle
        /\ LoadedNow(p).envelope = call[p].envelope
        /\ LoadedNow(p).disturbed = call[p].disturbed
    BY <1>2, <2>1 DEF LoadedNow, Calls
  <2> QED BY <1>1, <1>2, <1>4, <2>1, <2>2, <2>3 DEF Load
<1> QED BY <1>3, <1>4

LEMMA ReturnDoes ==
  ASSUME GInv, NEW p \in Procs, NEW pc \in {"ok", "err"}, Return(p, pc), UNCHANGED envelopes
  PROVE  /\ call' \in [Procs -> Calls \cup Resting] /\ CallShape'
         /\ call'[p].pc = pc /\ \A q \in Procs : q # p => SameCall(q) /\ call'[q] = call[q]
<1>1. [pc |-> pc] \in Calls \cup Resting /\ [pc |-> pc].pc \notin {"ready", "loaded"}
  BY DEF Resting
<1>2. call' = [call EXCEPT ![p] = [pc |-> pc]]
  BY DEF Return
<1> QED BY <1>1, <1>2, OwnMove

LEMMA GStep == GInv /\ [Next]_vars => GInv'
<1> SUFFICES ASSUME GInv, [Next]_vars PROVE GInv'
  OBVIOUS
<1>0. TypeOK /\ CallShape
  BY DEF GInv
<1>1. ASSUME NEW o \in Objects, ModuleInit(o) PROVE GInv'
  <2>1. Of[o] \in Ids
    BY SessionAssumption DEF SessionAssumption
  <2>2. TypeOK'
    BY <1>0, <1>1, <2>1 DEF ModuleInit, TypeOK
  <2>3. CallShape'
    BY <1>0, <1>1 DEF ModuleInit, CallShape, Busy, Loaded
  <2> QED BY <2>2, <2>3 DEF GInv
<1>2. ASSUME NEW p \in Procs, Return(p, "err"), UNCHANGED <<registry, used, session, envelopes>>
      PROVE  GInv'
  <2>1. call' \in [Procs -> Calls \cup Resting] /\ CallShape'
    BY <1>2, ReturnDoes
  <2> QED BY <1>0, <1>2, <2>1 DEF GInv, TypeOK
<1>3. ASSUME NEW p \in Procs, Refused(p) PROVE GInv'
  BY <1>2, <1>3 DEF Refused
<1>4. ASSUME NEW p \in Procs, EncryptStart(p) PROVE GInv'
  <2>1. PICK o \in Objects, b \in Bases, bundle \in Bundles :
          /\ Initiated(b, bundle) \in Sessions
          /\ Stored(o, bundle.identity, Initiated(b, bundle))
          /\ Ready(o, bundle.identity, bundle, None) \in Calls
          /\ StoredBy(p, "encrypt", o, bundle.identity,
                      Ready(o, bundle.identity, bundle, None))
          /\ UNCHANGED <<registry, used, envelopes>>
    BY <1>4, EncryptStartDoes
  <2> DEFINE mine == Ready(o, bundle.identity, bundle, None)
  <2>2. bundle # None /\ bundle.identity \in Ids
    BY AbsenceAssumption DEF AbsenceAssumption, Bundles
  <2>3. /\ mine.bundle = None <=> mine.envelope # None
        /\ mine.envelope # None => mine.envelope \in envelopes
        /\ mine.pc = "loaded" <=> mine.copy # None
    BY <2>2 DEF Ready
  <2>4. mine \in Calls \cup Resting /\ "encrypt" \in Ops
    BY <2>1 DEF Ops
  <2>5. envelopes \subseteq envelopes' /\ envelopes' \subseteq Envelopes
    BY <1>0, <2>1 DEF TypeOK
  <2> HIDE DEF mine
  <2>6. StoredBy(p, "encrypt", o, bundle.identity, mine)
    BY <2>1 DEF mine
  <2> QED BY <2>1, <2>2, <2>3, <2>4, <2>5, <2>6, StoreMove
<1>5. ASSUME NEW p \in Procs, DecryptStart(p) PROVE GInv'
  <2>1. PICK o \in Objects, e \in envelopes :
          /\ e.sender \in Ids
          /\ Ready(o, e.sender, None, e) \in Calls
          /\ \/ /\ Answering(o, e.ciphertext) \in Sessions
                /\ Stored(o, e.sender, Answering(o, e.ciphertext))
                /\ StoredBy(p, "decrypt", o, e.sender, Ready(o, e.sender, None, e))
             \/ /\ call' = [call EXCEPT ![p] = Ready(o, e.sender, None, e)]
                /\ UNCHANGED session
          /\ UNCHANGED <<registry, used, envelopes>>
    BY <1>5, DecryptStartDoes
  <2> DEFINE mine == Ready(o, e.sender, None, e)
  <2>2. e # None
    BY <1>0, AbsenceAssumption DEF AbsenceAssumption, TypeOK
  <2>3. /\ mine.bundle = None <=> mine.envelope # None
        /\ mine.envelope # None => mine.envelope \in envelopes
        /\ mine.pc = "loaded" <=> mine.copy # None
    BY <2>2 DEF Ready
  <2>4. mine \in Calls \cup Resting /\ "decrypt" \in Ops
    BY <2>1 DEF Ops
  <2>5. envelopes \subseteq envelopes' /\ envelopes' \subseteq Envelopes
    BY <1>0, <2>1 DEF TypeOK
  <2>6. \/ /\ Answering(o, e.ciphertext) \in Sessions
           /\ Stored(o, e.sender, Answering(o, e.ciphertext))
           /\ StoredBy(p, "decrypt", o, e.sender, mine)
        \/ call' = [call EXCEPT ![p] = mine] /\ UNCHANGED session
    BY <2>1
  <2> HIDE DEF mine
  <2>7. CASE /\ Answering(o, e.ciphertext) \in Sessions
             /\ Stored(o, e.sender, Answering(o, e.ciphertext))
             /\ StoredBy(p, "decrypt", o, e.sender, mine)
    BY <2>1, <2>3, <2>4, <2>5, <2>7, StoreMove
  <2>8. CASE call' = [call EXCEPT ![p] = mine] /\ UNCHANGED session
    <3>1. call' \in [Procs -> Calls \cup Resting] /\ CallShape'
      BY <2>1, <2>3, <2>4, <2>8, OwnMove
    <3> QED BY <1>0, <2>1, <2>8, <3>1 DEF GInv, TypeOK
  <2> QED BY <2>6, <2>7, <2>8
<1>6. ASSUME NEW p \in Procs, Load(p) PROVE GInv'
  <2>1. CASE Return(p, "err")
    BY <1>2, <1>6, <2>1 DEF Load
  <2>2. CASE /\ session[call[p].object][call[p].peer] \in Sessions
             /\ call' = [call EXCEPT ![p] = LoadedNow(p)]
    <3>1. /\ Busy(p) /\ LoadedNow(p) \in Calls
          /\ LoadedNow(p).pc = "loaded"
          /\ LoadedNow(p).copy = session[call[p].object][call[p].peer]
          /\ LoadedNow(p).bundle = call[p].bundle
          /\ LoadedNow(p).envelope = call[p].envelope
          /\ UNCHANGED <<registry, used, session, envelopes>>
      <4>1. session[call[p].object][call[p].peer] # None
        BY <2>2, AbsenceAssumption DEF AbsenceAssumption
      <4> QED BY <1>6, <4>1, LoadDoes
    <3>2. LoadedNow(p).copy # None
      BY <2>2, <3>1, AbsenceAssumption DEF AbsenceAssumption
    <3>3. /\ LoadedNow(p).bundle = None <=> LoadedNow(p).envelope # None
          /\ LoadedNow(p).envelope # None => LoadedNow(p).envelope \in envelopes
      BY <1>0, <3>1 DEF CallShape
    <3>4. call' \in [Procs -> Calls \cup Resting] /\ CallShape'
      BY <2>2, <3>1, <3>2, <3>3, OwnMove
    <3> QED BY <1>0, <3>1, <3>4 DEF GInv, TypeOK
  <2> QED BY <1>6, <2>1, <2>2, LoadDoes
<1>7. [pc |-> "ok"] \in Calls \cup Resting /\ [pc |-> "ok"].pc \notin {"ready", "loaded"}
  BY DEF Resting
<1>8. ASSUME NEW p \in Procs, EncryptEnd(p) PROVE GInv'
  <2>1. /\ Loaded(p) /\ Advanced(call[p].copy) \in Sessions
        /\ Stored(call[p].object, call[p].peer, Advanced(call[p].copy))
        /\ StoredBy(p, "encrypt", call[p].object, call[p].peer, [pc |-> "ok"])
        /\ envelopes' = envelopes \cup {Sealed(call[p])} /\ Sealed(call[p]) \in Envelopes
        /\ UNCHANGED <<registry, used>>
    BY <1>8, EncryptEndDoes
  <2>2. call[p].object \in Objects /\ call[p].peer \in Ids /\ "encrypt" \in Ops
    BY <2>1, LoadedCall DEF Ops
  <2>3. envelopes \subseteq envelopes' /\ envelopes' \subseteq Envelopes
    BY <1>0, <2>1 DEF TypeOK
  <2> QED BY <1>7, <2>1, <2>2, <2>3, StoreMove
<1>9. ASSUME NEW p \in Procs, DecryptEnd(p) PROVE GInv'
  <2> DEFINE s == Received(call[p].copy, call[p].envelope)
  <2>1. /\ Loaded(p) /\ s \in Sessions
        /\ Stored(call[p].object, call[p].peer, s)
        /\ StoredBy(p, "decrypt", call[p].object, call[p].peer, [pc |-> "ok"])
        /\ UNCHANGED <<registry, used, envelopes>>
    BY <1>9, DecryptEndDoes
  <2>2. call[p].object \in Objects /\ call[p].peer \in Ids /\ "decrypt" \in Ops
    BY <2>1, LoadedCall DEF Ops
  <2>3. envelopes \subseteq envelopes' /\ envelopes' \subseteq Envelopes
    BY <1>0, <2>1 DEF TypeOK
  <2> HIDE DEF s
  <2> QED BY <1>7, <2>1, <2>2, <2>3, StoreMove
<1>10. ASSUME NEW p \in Procs, DecryptRefused(p) PROVE GInv'
  BY <1>2, <1>10 DEF DecryptRefused
<1>11. CASE UNCHANGED vars
  BY <1>0, <1>11 DEF vars, GInv, TypeOK, CallShape, Busy, Loaded
<1> QED BY <1>1, <1>3, <1>4, <1>5, <1>6, <1>8, <1>9, <1>10, <1>11 DEF Next

\* Whatever steps overlap, the sessions, the messages and the steps' calls are well
\* formed: a step never stores or seals with a session that is not there
\* (ExecuteSignalEncrypt and ExecuteSignalDecrypt).
THEOREM TypeCorrect == Spec => []TypeOK
<1>1. GInv => TypeOK
  BY DEF GInv
<1> QED BY <1>1, GInit, GStep, PTL DEF Spec

-----------------------------------------------------------------------------
\* Whose sessions there are

\* Object o holds s for address i: in its store or in a step's hands.
Holds(o, i, s) ==
    /\ s \in Sessions
    /\ \/ s = session[o][i]
       \/ \E p \in Procs : /\ Loaded(p) /\ call[p].copy = s
                          /\ call[p].object = o /\ call[p].peer = i

Known(b) == \E e \in envelopes : e.ciphertext.base = b

\* The two ends a and b are the two ends c and d.
Same(a, b, c, d) == (a = c /\ b = d) \/ (a = d /\ b = c)

\* Sessions of one base key have the same two ends; before anything was sealed
\* with it, they are at one address of one object.
OneParty ==
    \A o, u \in Objects, i, j \in Ids, s, t \in Sessions :
        Holds(o, i, s) /\ Holds(u, j, t) /\ s.base = t.base /\ s.base # None =>
            /\ Same(o, s.peer, u, t.peer)
            /\ (o = u /\ i = j) \/ Known(s.base)

\* The ends of a message are those of every session of its base key ...
EnvParty ==
    \A o \in Objects, i \in Ids, s \in Sessions, e \in envelopes :
        Holds(o, i, s) /\ s.base = e.ciphertext.base /\ s.base # None =>
            Same(o, s.peer, e.ciphertext.by, e.ciphertext.to)

\* ... and of every other message of it.
EnvEnv ==
    \A e, f \in envelopes :
        e.ciphertext.base = f.ciphertext.base /\ e.ciphertext.base # None =>
            Same(e.ciphertext.by, e.ciphertext.to, f.ciphertext.by, f.ciphertext.to)

\* A session without a counterpart never makes a pre-key message.
HasBase ==
    /\ \A o \in Objects, i \in Ids, s \in Sessions :
          Holds(o, i, s) => s.answered \/ s.base # None
    /\ \A e \in envelopes : e.type = "prekey" => e.ciphertext.base # None

Parties == OneParty /\ EnvParty /\ EnvEnv /\ HasBase

\* Where a session that is stored at address i of object o may come from: it has no
\* counterpart, a new base key, the base key of a message for its two ends, or
\* that of a session it replaces.
Origin(o, i, s) ==
    /\ s.answered \/ s.base # None
    /\ \/ s.base = None
       \/ /\ ~Known(s.base)
          /\ \A u \in Objects, j \in Ids, t \in Sessions : Holds(u, j, t) => t.base # s.base
       \/ \E e \in envelopes : /\ e.ciphertext.base = s.base
                               /\ Same(o, s.peer, e.ciphertext.by, e.ciphertext.to)
       \/ \E t \in Sessions : Holds(o, i, t) /\ t.base = s.base /\ t.peer = s.peer

\* A message is sealed with a session object o holds for address i.
SealedBy(o, i, e) ==
    \E t \in Sessions :
        /\ Holds(o, i, t) /\ e.ciphertext.base = t.base
        /\ e.ciphertext.by = o /\ e.ciphertext.to = t.peer
        /\ e.type = "prekey" => t.base # None

\* A step that stores a session of such an origin, and seals with one it holds,
\* keeps the ends together.
LEMMA PartiesStay ==
  ASSUME Parties, NEW o \in Objects, NEW i \in Ids, NEW new \in Sessions, Origin(o, i, new),
         \A u \in Objects, j \in Ids, s \in Sessions :
            Holds(u, j, s)' => Holds(u, j, s) \/ (u = o /\ j = i /\ s = new),
         envelopes \subseteq envelopes',
         \A e \in envelopes' : e \notin envelopes => SealedBy(o, i, e)
  PROVE  Parties'
<1>1. ASSUME NEW u \in Objects, NEW j \in Ids, NEW s \in Sessions, Holds(u, j, s),
             s.base = new.base, new.base # None
      PROVE  Same(o, new.peer, u, s.peer) /\ ((o = u /\ i = j) \/ Known(new.base))
  <2>1. CASE \E e \in envelopes : /\ e.ciphertext.base = new.base
                                 /\ Same(o, new.peer, e.ciphertext.by, e.ciphertext.to)
    BY <1>1, <2>1 DEF Parties, EnvParty, Same, Known
  <2>2. CASE \E t \in Sessions : Holds(o, i, t) /\ t.base = new.base /\ t.peer = new.peer
    <3>1. PICK t \in Sessions : Holds(o, i, t) /\ t.base = new.base /\ t.peer = new.peer
      BY <2>2
    <3>2. Same(o, t.peer, u, s.peer) /\ ((o = u /\ i = j) \/ Known(t.base))
      BY <1>1, <3>1 DEF Parties, OneParty
    <3> QED BY <3>1, <3>2
  <2> QED BY <1>1, <2>1, <2>2 DEF Origin
<1>2. ASSUME NEW e \in envelopes, e.ciphertext.base = new.base, new.base # None
      PROVE  Same(o, new.peer, e.ciphertext.by, e.ciphertext.to)
  <2>1. CASE \E f \in envelopes : /\ f.ciphertext.base = new.base
                                 /\ Same(o, new.peer, f.ciphertext.by, f.ciphertext.to)
    BY <1>2, <2>1 DEF Parties, EnvEnv, Same
  <2>2. CASE \E t \in Sessions : Holds(o, i, t) /\ t.base = new.base /\ t.peer = new.peer
    BY <1>2, <2>2 DEF Parties, EnvParty
  <2> QED BY <1>2, <2>1, <2>2 DEF Origin, Known
<1>3. ASSUME NEW b, Known(b) PROVE Known(b)'
  BY <1>3 DEF Known
<1>4. OneParty'
  <2> SUFFICES ASSUME NEW a \in Objects, NEW u \in Objects, NEW h \in Ids, NEW j \in Ids,
                      NEW s \in Sessions, NEW t \in Sessions,
                      Holds(a, h, s)', Holds(u, j, t)', s.base = t.base, s.base # None
               PROVE  Same(a, s.peer, u, t.peer) /\ ((a = u /\ h = j) \/ Known(s.base)')
    BY DEF OneParty
  <2>1. CASE Holds(a, h, s) /\ Holds(u, j, t)
    BY <1>3, <2>1 DEF Parties, OneParty
  <2>2. CASE Holds(a, h, s) /\ u = o /\ j = i /\ t = new
    BY <1>1, <1>3, <2>2 DEF Same
  <2>3. CASE a = o /\ h = i /\ s = new /\ Holds(u, j, t)
    BY <1>1, <1>3, <2>3 DEF Same
  <2>4. CASE a = o /\ h = i /\ s = new /\ u = o /\ j = i /\ t = new
    BY <2>4 DEF Same
  <2> QED BY <2>1, <2>2, <2>3, <2>4
<1>5. EnvParty'
  <2> SUFFICES ASSUME NEW u \in Objects, NEW j \in Ids, NEW s \in Sessions,
                      NEW e \in envelopes',
                      Holds(u, j, s)', s.base = e.ciphertext.base, s.base # None
               PROVE  Same(u, s.peer, e.ciphertext.by, e.ciphertext.to)
    BY DEF EnvParty
  <2>1. CASE Holds(u, j, s) /\ e \in envelopes
    BY <2>1 DEF Parties, EnvParty
  <2>2. CASE Holds(u, j, s) /\ SealedBy(o, i, e)
    BY <2>2 DEF Parties, OneParty, SealedBy, Same
  <2>3. CASE u = o /\ j = i /\ s = new /\ e \in envelopes
    BY <1>2, <2>3
  <2>4. CASE u = o /\ j = i /\ s = new /\ SealedBy(o, i, e)
    BY <1>1, <2>4 DEF SealedBy, Same
  <2> QED BY <2>1, <2>2, <2>3, <2>4
<1>6. EnvEnv'
  <2> SUFFICES ASSUME NEW e \in envelopes', NEW f \in envelopes',
                      e.ciphertext.base = f.ciphertext.base, e.ciphertext.base # None
               PROVE  Same(e.ciphertext.by, e.ciphertext.to, f.ciphertext.by, f.ciphertext.to)
    BY DEF EnvEnv
  <2>1. CASE e \in envelopes /\ f \in envelopes
    BY <2>1 DEF Parties, EnvEnv
  <2>2. CASE e \in envelopes /\ SealedBy(o, i, f)
    <3>1. PICK t \in Sessions :
            /\ Holds(o, i, t) /\ f.ciphertext.base = t.base
            /\ f.ciphertext.by = o /\ f.ciphertext.to = t.peer
      BY <2>2 DEF SealedBy
    <3>2. Same(o, t.peer, e.ciphertext.by, e.ciphertext.to)
      BY <2>2, <3>1 DEF Parties, EnvParty
    <3> QED BY <3>1, <3>2 DEF Same
  <2>3. CASE SealedBy(o, i, e) /\ f \in envelopes
    <3>1. PICK t \in Sessions :
            /\ Holds(o, i, t) /\ e.ciphertext.base = t.base
            /\ e.ciphertext.by = o /\ e.ciphertext.to = t.peer
      BY <2>3 DEF SealedBy
    <3>2. Same(o, t.peer, f.ciphertext.by, f.ciphertext.to)
      BY <2>3, <3>1 DEF Parties, EnvParty
    <3> QED BY <3>1, <3>2 DEF Same
  <2>4. CASE SealedBy(o, i, e) /\ SealedBy(o, i, f)
    <3>1. PICK s \in Sessions :
            /\ Holds(o, i, s) /\ e.ciphertext.base = s.base
            /\ e.ciphertext.by = o /\ e.ciphertext.to = s.peer
      BY <2>4 DEF SealedBy
    <3>2. PICK t \in Sessions :
            /\ Holds(o, i, t) /\ f.ciphertext.base = t.base
            /\ f.ciphertext.by = o /\ f.ciphertext.to = t.peer
      BY <2>4 DEF SealedBy
    <3>3. Same(o, s.peer, o, t.peer)
      BY <3>1, <3>2 DEF Parties, OneParty
    <3> QED BY <3>1, <3>2, <3>3 DEF Same
  <2> QED BY <2>1, <2>2, <2>3, <2>4
<1>7. HasBase'
  BY DEF Parties, HasBase, Origin, SealedBy
<1> QED BY <1>4, <1>5, <1>6, <1>7 DEF Parties

\* A step that stores nothing and seals nothing.
LEMMA PartiesUnmoved ==
  ASSUME Parties, UNCHANGED envelopes,
         \A u \in Objects, j \in Ids, s \in Sessions : Holds(u, j, s)' => Holds(u, j, s)
  PROVE  Parties'
  BY DEF Parties, OneParty, EnvParty, EnvEnv, HasBase, Known

\* What is held after a step stored a session.
LEMMA HoldsGrow ==
  ASSUME GInv, NEW p \in Procs, NEW op \in Ops, NEW o \in Objects, NEW i \in Ids,
         NEW new \in Sessions, NEW mine \in Calls \cup Resting,
         Stored(o, i, new), StoredBy(p, op, o, i, mine), mine.pc # "loaded"
  PROVE  \A u \in Objects, j \in Ids, s \in Sessions :
            Holds(u, j, s)' => Holds(u, j, s) \/ (u = o /\ j = i /\ s = new)
<1> SUFFICES ASSUME NEW u \in Objects, NEW j \in Ids, NEW s \in Sessions, Holds(u, j, s)'
             PROVE  Holds(u, j, s) \/ (u = o /\ j = i /\ s = new)
  OBVIOUS
<1>0. TypeOK
  BY DEF GInv
<1>1. CASE s = session'[u][j]
  BY <1>0, <1>1, StoredTypes DEF Holds
<1>2. ASSUME NEW q \in Procs, Loaded(q)', call'[q].copy = s, call'[q].object = u,
             call'[q].peer = j
      PROVE  Holds(u, j, s)
  <2>1. q # p
    BY <1>0, <1>2, StoredByCalls DEF Loaded
  <2>2. SameCall(q)
    BY <1>0, <2>1, StoredByCalls
  <2>3. Loaded(q) /\ Busy(q)
    BY <1>2, <2>2 DEF SameCall, Loaded, Busy
  <2> QED BY <1>2, <2>2, <2>3 DEF SameCall, Holds
<1> QED BY <1>1, <1>2 DEF Holds

\* What is held after a step moved only its own call, loading what is stored or
\* nothing.
LEMMA HoldsStays ==
  ASSUME NEW p \in Procs, UNCHANGED session,
         \A q \in Procs : q # p => call'[q] = call[q],
         Loaded(p)' => /\ call'[p].object = call[p].object /\ call'[p].peer = call[p].peer
                       /\ call'[p].copy = session[call[p].object][call[p].peer]
  PROVE  \A u \in Objects, j \in Ids, s \in Sessions : Holds(u, j, s)' => Holds(u, j, s)
<1> SUFFICES ASSUME NEW u \in Objects, NEW j \in Ids, NEW s \in Sessions, Holds(u, j, s)'
             PROVE  Holds(u, j, s)
  OBVIOUS
<1>1. CASE s = session'[u][j]
  BY <1>1 DEF Holds
<1>2. ASSUME NEW q \in Procs, Loaded(q)', call'[q].copy = s, call'[q].object = u,
             call'[q].peer = j
      PROVE  Holds(u, j, s)
  <2>1. CASE q = p
    BY <1>2, <2>1 DEF Holds
  <2>2. CASE q # p
    BY <1>2, <2>2 DEF Holds, Loaded
  <2> QED BY <2>1, <2>2
<1> QED BY <1>1, <1>2 DEF Holds

-----------------------------------------------------------------------------
\* The session of a step nobody disturbed

\* The session step p goes on with.
Mine(p) == IF Loaded(p) THEN call[p].copy ELSE session[call[p].object][call[p].peer]

\* Step p goes on with the session it stored, and nothing was sealed with the base
\* key it generated.
GoesOnWithIts(p) ==
    /\ call[p].envelope # None /\ call[p].envelope.type = "prekey" =>
          Mine(p) = Answering(call[p].object, call[p].envelope.ciphertext)
    /\ call[p].bundle # None =>
          \E b \in Bases : Mine(p) = Initiated(b, call[p].bundle) /\ ~Known(b)

Undisturbed == \A p \in Procs : Busy(p) /\ call[p].disturbed = {} => GoesOnWithIts(p)

SInv == GInv /\ Parties /\ Undisturbed

\* A step that stores a session and seals at most with one it holds there leaves the
\* undisturbed steps theirs.
LEMMA OthersGoOn ==
  ASSUME GInv, OneParty, Undisturbed, NEW p \in Procs, NEW op \in Ops, NEW o \in Objects,
         NEW i \in Ids, NEW new \in Sessions, NEW mine \in Calls \cup Resting,
         Stored(o, i, new), StoredBy(p, op, o, i, mine),
         \A e \in envelopes' : e \notin envelopes => SealedBy(o, i, e),
         NEW q \in Procs, q # p, Busy(q)', call'[q].disturbed = {}
  PROVE  GoesOnWithIts(q)'
<1>0. TypeOK
  BY DEF GInv
<1>1. SameCall(q)
  BY <1>0, StoredByCalls
<1>2. Busy(q)
  BY <1>1 DEF SameCall, Busy
<1>3. call[q].disturbed = {} /\ ~(call[q].object = o /\ call[q].peer = i)
  BY <1>0, <1>2, StoredByCalls
<1>4. call[q] \in Calls
  BY <1>0, <1>2, BusyHasCall
<1>5. GoesOnWithIts(q)
  BY <1>2, <1>3 DEF Undisturbed
<1>6. session'[call[q].object][call[q].peer] = session[call[q].object][call[q].peer]
  BY <1>0, <1>3, <1>4, StoredTypes DEF Calls
<1>7. Mine(q)' = Mine(q)
  BY <1>1, <1>2, <1>6 DEF SameCall, Mine, Loaded
<1>8. ASSUME NEW b \in Bases, call[q].bundle # None, Mine(q) = Initiated(b, call[q].bundle),
             ~Known(b)
      PROVE  ~Known(b)'
  <2>1. call[q].bundle \in Bundles
    BY <1>4, <1>8 DEF Calls
  <2>2. Mine(q) \in Sessions /\ Mine(q).base = b
    BY <1>8, <2>1, InitiatedType DEF Initiated
  <2>3. Holds(call[q].object, call[q].peer, Mine(q))
    BY <2>2 DEF Holds, Mine
  <2>4. b # None
    BY SessionAssumption DEF SessionAssumption
  <2>5. ASSUME NEW e \in envelopes', e.ciphertext.base = b, e \notin envelopes
        PROVE  FALSE
    <3>1. PICK t \in Sessions : Holds(o, i, t) /\ e.ciphertext.base = t.base
      BY <2>5 DEF SealedBy
    <3>2. (call[q].object = o /\ call[q].peer = i) \/ Known(b)
      BY <1>4, <2>2, <2>3, <2>4, <2>5, <3>1 DEF OneParty, Calls
    <3> QED BY <1>3, <1>8, <3>2
  <2> QED BY <1>8, <2>5 DEF Known
<1> QED BY <1>1, <1>2, <1>5, <1>7, <1>8 DEF SameCall, GoesOnWithIts

\* A step that moves only its own call, and goes on with the same session.
LEMMA AllGoOn ==
  ASSUME Undisturbed, NEW p \in Procs, UNCHANGED <<session, envelopes>>,
         \A q \in Procs : q # p => call'[q] = call[q],
         Busy(p)' /\ call'[p].disturbed = {} => GoesOnWithIts(p)'
  PROVE  Undisturbed'
<1> SUFFICES ASSUME NEW q \in Procs, Busy(q)', call'[q].disturbed = {}
             PROVE  GoesOnWithIts(q)'
  BY DEF Undisturbed
<1>1. CASE q = p
  BY <1>1
<1>2. CASE q # p
  <2>1. call'[q] = call[q]
    BY <1>2
  <2>2. GoesOnWithIts(q)
    BY <2>1 DEF Undisturbed, Busy
  <2> QED BY <2>1, <2>2 DEF GoesOnWithIts, Mine, Loaded, Known
<1> QED BY <1>1, <1>2

-----------------------------------------------------------------------------
\* The invariant

LEMMA SInit == Init => SInv
<1> SUFFICES ASSUME Init PROVE SInv
  OBVIOUS
<1>1. GInv
  BY GInit
<1>2. \A o \in Objects, i \in Ids, s \in Sessions : ~Holds(o, i, s)
  BY AbsenceAssumption DEF AbsenceAssumption, Init, Holds, Loaded
<1>3. Parties
  BY <1>2 DEF Init, Parties, OneParty, EnvParty, EnvEnv, HasBase
<1>4. Undisturbed
  BY DEF Init, Undisturbed, Busy
<1> QED BY <1>1, <1>3, <1>4 DEF SInv

LEMMA SInitStep ==
  ASSUME SInv, NEW o \in Objects, ModuleInit(o) PROVE Parties' /\ Undisturbed'
<1>1. UNCHANGED <<session, envelopes, call>>
  BY DEF ModuleInit
<1>2. Parties'
  BY <1>1, PartiesUnmoved DEF SInv, Holds, Loaded
<1>3. Undisturbed'
  BY <1>1 DEF SInv, Undisturbed, GoesOnWithIts, Mine, Busy, Loaded, Known
<1> QED BY <1>2, <1>3

LEMMA SReturnStep ==
  ASSUME SInv, NEW p \in Procs, Return(p, "err"), UNCHANGED <<session, envelopes>>
  PROVE  Parties' /\ Undisturbed'
<1>1. /\ GInv /\ Parties /\ Undisturbed
  BY DEF SInv
<1>2. /\ call'[p].pc = "err" /\ \A q \in Procs : q # p => call'[q] = call[q]
  BY <1>1, ReturnDoes
<1>3. ~Loaded(p)' /\ ~Busy(p)'
  BY <1>2 DEF Loaded, Busy
<1>4. \A u \in Objects, j \in Ids, s \in Sessions : Holds(u, j, s)' => Holds(u, j, s)
  BY <1>2, <1>3, HoldsStays
<1>5. Parties'
  BY <1>1, <1>4, PartiesUnmoved
<1>6. Undisturbed'
  BY <1>1, <1>2, <1>3, AllGoOn
<1> QED BY <1>5, <1>6

LEMMA SEncryptStartStep ==
  ASSUME SInv, NEW p \in Procs, EncryptStart(p) PROVE Parties' /\ Undisturbed'
<1>1. TypeOK /\ GInv /\ Parties /\ OneParty /\ Undisturbed
  BY DEF SInv, GInv, Parties
<1>2. PICK o \in Objects, b \in Bases, bundle \in Bundles :
        /\ ~Busy(p) /\ Fresh(b)
        /\ Initiated(b, bundle) \in Sessions
        /\ Stored(o, bundle.identity, Initiated(b, bundle))
        /\ Ready(o, bundle.identity, bundle, None) \in Calls
        /\ StoredBy(p, "encrypt", o, bundle.identity,
                    Ready(o, bundle.identity, bundle, None))
        /\ UNCHANGED <<registry, used, envelopes>>
  BY <1>1, EncryptStartDoes
<1> DEFINE i == bundle.identity
           new == Initiated(b, bundle)
           mine == Ready(o, bundle.identity, bundle, None)
<1>3. /\ i \in Ids /\ "encrypt" \in Ops /\ mine \in Calls \cup Resting
      /\ new.base = b /\ b # None
      /\ mine.pc = "ready" /\ mine.bundle = bundle /\ mine.envelope = None
      /\ mine.object = o /\ mine.peer = i
  BY <1>2, SessionAssumption DEF SessionAssumption, Bundles, Ops, Initiated, Ready
<1>4. ~Known(b) /\ \A u \in Objects, j \in Ids, t \in Sessions : Holds(u, j, t) => t.base # b
  <2>1. ~Known(b)
    BY <1>2 DEF Fresh, Known
  <2>2. ASSUME NEW u \in Objects, NEW j \in Ids, NEW t \in Sessions, Holds(u, j, t)
        PROVE  t.base # b
    BY <1>2, <2>2, AbsenceAssumption DEF AbsenceAssumption, Fresh, Holds, Loaded, Busy
  <2> QED BY <2>1, <2>2
<1>5. /\ new \in Sessions /\ Stored(o, i, new) /\ StoredBy(p, "encrypt", o, i, mine)
      /\ envelopes' = envelopes
  BY <1>2
<1>6. mine.pc # "loaded"
  BY <1>3
<1>7. Initiated(b, bundle) = new
  OBVIOUS
<1> HIDE DEF i, new, mine
<1>8. Origin(o, i, new)
  BY <1>3, <1>4 DEF Origin
<1>9. \A u \in Objects, j \in Ids, s \in Sessions :
         Holds(u, j, s)' => Holds(u, j, s) \/ (u = o /\ j = i /\ s = new)
  BY <1>1, <1>3, <1>5, <1>6, HoldsGrow
<1>10. Parties'
  BY <1>1, <1>3, <1>5, <1>8, <1>9, PartiesStay
<1>11. ASSUME NEW q \in Procs, Busy(q)', call'[q].disturbed = {} PROVE GoesOnWithIts(q)'
  <2>1. CASE q # p
    BY <1>1, <1>3, <1>5, <1>11, <2>1, OthersGoOn
  <2>2. CASE q = p
    <3>1. call'[p] = mine
      BY <1>1, <1>3, <1>5, StoredByCalls
    <3>2. session'[o][i] = new
      BY <1>1, <1>3, <1>5, StoredTypes
    <3>3. Mine(p)' = Initiated(b, bundle)
      BY <1>3, <1>7, <3>1, <3>2 DEF Mine, Loaded
    <3>4. ~Known(b)'
      BY <1>4, <1>5 DEF Known
    <3> QED BY <1>3, <2>2, <3>1, <3>3, <3>4 DEF GoesOnWithIts
  <2> QED BY <2>1, <2>2
<1> QED BY <1>10, <1>11 DEF Undisturbed

LEMMA SDecryptStartStep ==
  ASSUME SInv, NEW p \in Procs, DecryptStart(p) PROVE Parties' /\ Undisturbed'
<1>1. TypeOK /\ GInv /\ Parties /\ OneParty /\ Undisturbed /\ CallShape
  BY DEF SInv, GInv, Parties
<1>2. PICK o \in Objects, e \in envelopes :
        /\ e.sender \in Ids /\ e.ciphertext \in Ciphertexts
        /\ Ready(o, e.sender, None, e) \in Calls
        /\ \/ /\ e.type = "prekey"
              /\ Answering(o, e.ciphertext) \in Sessions
              /\ Stored(o, e.sender, Answering(o, e.ciphertext))
              /\ StoredBy(p, "decrypt", o, e.sender, Ready(o, e.sender, None, e))
           \/ /\ e.type # "prekey"
              /\ call' = [call EXCEPT ![p] = Ready(o, e.sender, None, e)]
              /\ UNCHANGED session
        /\ UNCHANGED <<registry, used, envelopes>>
  BY <1>1, DecryptStartDoes
<1> DEFINE i == e.sender
           c == e.ciphertext
           new == Answering(o, c)
           mine == Ready(o, e.sender, None, e)
<1>3. /\ i \in Ids /\ "decrypt" \in Ops /\ mine \in Calls \cup Resting
      /\ new.base = (IF c.to = o THEN c.base ELSE None) /\ new.peer = c.by /\ new.answered
      /\ mine.pc = "ready" /\ mine.bundle = None /\ mine.envelope = e
      /\ mine.copy = None /\ mine.object = o /\ mine.peer = i
  BY <1>2 DEF Ops, Answering, Ready
<1>4. \/ /\ e.type = "prekey" /\ new \in Sessions /\ Stored(o, i, new)
         /\ StoredBy(p, "decrypt", o, i, mine)
      \/ e.type # "prekey" /\ call' = [call EXCEPT ![p] = mine] /\ UNCHANGED session
  BY <1>2
<1>5. envelopes' = envelopes
  BY <1>2
<1>6. mine.pc # "loaded"
  BY <1>3
<1>7. Answering(o, e.ciphertext) = new
  OBVIOUS
<1>8. Origin(o, i, new)
  BY <1>3 DEF Origin, Same
<1>e. e # None
  BY <1>1, AbsenceAssumption DEF AbsenceAssumption, TypeOK
<1> HIDE DEF i, c, new, mine
<1>9. CASE /\ e.type = "prekey" /\ new \in Sessions /\ Stored(o, i, new)
           /\ StoredBy(p, "decrypt", o, i, mine)
  <2>1. \A u \in Objects, j \in Ids, s \in Sessions :
           Holds(u, j, s)' => Holds(u, j, s) \/ (u = o /\ j = i /\ s = new)
    BY <1>1, <1>3, <1>6, <1>9, HoldsGrow
  <2>2. Parties'
    BY <1>1, <1>3, <1>5, <1>8, <1>9, <2>1, PartiesStay
  <2>3. ASSUME NEW q \in Procs, Busy(q)', call'[q].disturbed = {} PROVE GoesOnWithIts(q)'
    <3>1. CASE q # p
      BY <1>1, <1>3, <1>5, <1>9, <2>3, <3>1, OthersGoOn
    <3>2. CASE q = p
      <4>1. call'[p] = mine
        BY <1>1, <1>3, <1>9, StoredByCalls
      <4>2. session'[o][i] = new
        BY <1>1, <1>3, <1>9, StoredTypes
      <4>3. Mine(p)' = new
        BY <1>3, <4>1, <4>2 DEF Mine, Loaded
      <4> QED BY <1>3, <1>7, <3>2, <4>1, <4>3 DEF GoesOnWithIts
    <3> QED BY <3>1, <3>2
  <2> QED BY <2>2, <2>3 DEF Undisturbed
<1>10. CASE e.type # "prekey" /\ call' = [call EXCEPT ![p] = mine] /\ UNCHANGED session
  <2>1. call'[p] = mine /\ \A q \in Procs : q # p => call'[q] = call[q]
    BY <1>1, <1>10 DEF TypeOK
  <2>2. \A u \in Objects, j \in Ids, s \in Sessions : Holds(u, j, s)' => Holds(u, j, s)
    BY <1>3, <1>10, <2>1, HoldsStays DEF Loaded
  <2>3. Parties'
    BY <1>1, <1>5, <2>2, PartiesUnmoved
  <2>4. GoesOnWithIts(p)'
    BY <1>3, <1>10, <2>1 DEF GoesOnWithIts
  <2>5. Undisturbed'
    BY <1>1, <1>5, <1>10, <2>1, <2>4, AllGoOn
  <2> QED BY <2>3, <2>5
<1> QED BY <1>4, <1>9, <1>10

LEMMA SLoadStep ==
  ASSUME SInv, NEW p \in Procs, Load(p) PROVE Parties' /\ Undisturbed'
<1>1. TypeOK /\ GInv /\ Parties /\ Undisturbed /\ CallShape
  BY DEF SInv, GInv
<1>2. UNCHANGED <<session, envelopes>> /\ Busy(p) /\ call[p].pc = "ready"
  BY <1>1, LoadDoes
<1>3. CASE Return(p, "err")
  BY <1>2, <1>3, SReturnStep
<1>4. CASE session[call[p].object][call[p].peer] # None
  <2>1. /\ LoadedNow(p).pc = "loaded"
        /\ LoadedNow(p).copy = session[call[p].object][call[p].peer]
        /\ LoadedNow(p).object = call[p].object /\ LoadedNow(p).peer = call[p].peer
        /\ LoadedNow(p).bundle = call[p].bundle
        /\ LoadedNow(p).envelope = call[p].envelope
        /\ LoadedNow(p).disturbed = call[p].disturbed
        /\ call' = [call EXCEPT ![p] = LoadedNow(p)]
    BY <1>1, <1>4, LoadDoes
  <2>2. call'[p] = LoadedNow(p) /\ \A q \in Procs : q # p => call'[q] = call[q]
    BY <1>1, <2>1 DEF TypeOK
  <2>3. \A u \in Objects, j \in Ids, s \in Sessions : Holds(u, j, s)' => Holds(u, j, s)
    BY <1>2, <2>1, <2>2, HoldsStays
  <2>4. Parties'
    BY <1>1, <1>2, <2>3, PartiesUnmoved
  <2>5. ASSUME call'[p].disturbed = {} PROVE GoesOnWithIts(p)'
    <3>1. GoesOnWithIts(p)
      BY <1>1, <1>2, <2>1, <2>2, <2>5 DEF Undisturbed
    <3>2. Mine(p)' = Mine(p)
      BY <1>2, <2>1, <2>2 DEF Mine, Loaded
    <3> QED BY <1>2, <2>1, <2>2, <3>1, <3>2 DEF GoesOnWithIts, Known
  <2>6. Undisturbed'
    BY <1>1, <1>2, <2>2, <2>5, AllGoOn
  <2> QED BY <2>4, <2>6
<1>5. session[call[p].object][call[p].peer] = None => Return(p, "err")
  BY <1>1, AbsenceAssumption, LoadDoes DEF AbsenceAssumption
<1> QED BY <1>3, <1>4, <1>5

\* A step that stores what it made of the session it loaded, and rests.
LEMMA SEndStep ==
  ASSUME SInv, NEW p \in Procs, NEW op \in Ops, NEW new \in Sessions, Loaded(p),
         new.base = call[p].copy.base, new.peer = call[p].copy.peer,
         call[p].copy.answered => new.answered,
         Stored(call[p].object, call[p].peer, new),
         StoredBy(p, op, call[p].object, call[p].peer, [pc |-> "ok"]),
         envelopes \subseteq envelopes',
         \A e \in envelopes' : e \notin envelopes => SealedBy(call[p].object, call[p].peer, e)
  PROVE  Parties' /\ Undisturbed'
<1>1. TypeOK /\ GInv /\ Parties /\ OneParty /\ Undisturbed /\ HasBase
  BY DEF SInv, GInv, Parties
<1>2. call[p].object \in Objects /\ call[p].peer \in Ids /\ call[p].copy \in Sessions
  BY <1>1, LoadedCall
<1>3. Holds(call[p].object, call[p].peer, call[p].copy)
  BY <1>2 DEF Holds
<1>4. Origin(call[p].object, call[p].peer, new)
  BY <1>1, <1>2, <1>3 DEF Origin, HasBase
<1>5. /\ [pc |-> "ok"] \in Calls \cup Resting /\ [pc |-> "ok"].pc # "loaded"
      /\ [pc |-> "ok"].pc \notin {"ready", "loaded"}
  BY DEF Resting
<1>6. \A u \in Objects, j \in Ids, s \in Sessions :
         Holds(u, j, s)' => Holds(u, j, s) \/ (u = call[p].object /\ j = call[p].peer /\ s = new)
  BY <1>1, <1>2, <1>5, HoldsGrow
<1>7. Parties'
  BY <1>1, <1>2, <1>4, <1>6, PartiesStay
<1>8. ASSUME NEW q \in Procs, Busy(q)', call'[q].disturbed = {} PROVE GoesOnWithIts(q)'
  <2>1. q # p
    BY <1>1, <1>2, <1>5, <1>8, StoredByCalls DEF Busy
  <2> QED BY <1>1, <1>2, <1>5, <1>8, <2>1, OthersGoOn
<1> QED BY <1>7, <1>8 DEF Undisturbed

LEMMA SEncryptEndStep ==
  ASSUME SInv, NEW p \in Procs, EncryptEnd(p) PROVE Parties' /\ Undisturbed'
<1>1. GInv /\ HasBase
  BY DEF SInv, Parties
<1> DEFINE new == Advanced(call[p].copy)
<1>2. /\ Loaded(p) /\ new \in Sessions
      /\ new.base = call[p].copy.base /\ new.peer = call[p].copy.peer
      /\ new.answered = call[p].copy.answered
      /\ Stored(call[p].object, call[p].peer, new)
      /\ StoredBy(p, "encrypt", call[p].object, call[p].peer, [pc |-> "ok"])
      /\ envelopes' = envelopes \cup {Sealed(call[p])}
  BY <1>1, EncryptEndDoes
<1>3. SealedBy(call[p].object, call[p].peer, Sealed(call[p]))
  <2>1. call[p].object \in Objects /\ call[p].peer \in Ids /\ call[p].copy \in Sessions
    BY <1>1, <1>2, LoadedCall
  <2>2. Holds(call[p].object, call[p].peer, call[p].copy)
    BY <1>2, <2>1 DEF Holds
  <2>3. call[p].copy.answered \/ call[p].copy.base # None
    BY <1>1, <2>1, <2>2 DEF HasBase
  <2> QED BY <2>1, <2>2, <2>3 DEF SealedBy, Sealed
<1>4. "encrypt" \in Ops
  BY DEF Ops
<1> HIDE DEF new
<1> QED BY <1>2, <1>3, <1>4, SEndStep

LEMMA SDecryptEndStep ==
  ASSUME SInv, NEW p \in Procs, DecryptEnd(p) PROVE Parties' /\ Undisturbed'
<1>1. GInv
  BY DEF SInv
<1> DEFINE new == Received(call[p].copy, call[p].envelope)
<1>2. /\ Loaded(p) /\ new \in Sessions
      /\ new.base = call[p].copy.base /\ new.peer = call[p].copy.peer
      /\ call[p].copy.answered => new.answered
      /\ Stored(call[p].object, call[p].peer, new)
      /\ StoredBy(p, "decrypt", call[p].object, call[p].peer, [pc |-> "ok"])
      /\ UNCHANGED envelopes
  BY <1>1, DecryptEndDoes
<1>3. "decrypt" \in Ops
  BY DEF Ops
<1> HIDE DEF new
<1> QED BY <1>2, <1>3, SEndStep

LEMMA SStep == SInv /\ [Next]_vars => SInv'
<1> SUFFICES ASSUME SInv, [Next]_vars PROVE SInv'
  OBVIOUS
<1>1. GInv'
  BY GStep DEF SInv
<1>2. ASSUME NEW p \in Procs, Refused(p) \/ DecryptRefused(p) PROVE Parties' /\ Undisturbed'
  BY <1>2, SReturnStep DEF Refused, DecryptRefused
<1>3. CASE UNCHANGED vars
  <2>1. UNCHANGED <<session, envelopes, call>>
    BY <1>3 DEF vars
  <2>2. Parties'
    BY <2>1, PartiesUnmoved DEF SInv, Holds, Loaded
  <2>3. Undisturbed'
    BY <2>1 DEF SInv, Undisturbed, GoesOnWithIts, Mine, Busy, Loaded, Known
  <2> QED BY <1>1, <2>2, <2>3 DEF SInv
<1>4. CASE Next
  BY <1>1, <1>2, <1>4, SInitStep, SEncryptStartStep, SDecryptStartStep, SLoadStep,
     SEncryptEndStep, SDecryptEndStep DEF Next, SInv
<1> QED BY <1>3, <1>4

LEMMA SAlways == Spec => []SInv
  BY SInit, SStep, PTL DEF Spec

-----------------------------------------------------------------------------
\* How a step ends

\* A step ends by an action of its own.
LEMMA OwnEnd ==
  ASSUME SInv, [Next]_vars, NEW p \in Procs, Busy(p), call'[p].pc \in {"ok", "err"}
  PROVE  \/ call'[p].pc = "ok" /\ (EncryptEnd(p) \/ DecryptEnd(p))
         \/ call'[p].pc = "err" /\ (Load(p) \/ DecryptRefused(p))
<1>1. GInv /\ TypeOK
  BY DEF SInv, GInv
<1>2. call'[p].pc # call[p].pc
  BY DEF Busy
<1>3. call' # call
  BY <1>2
<1>4. PICK q \in Procs :
        \/ Refused(q) \/ EncryptStart(q) \/ DecryptStart(q)
        \/ Load(q) \/ EncryptEnd(q) \/ DecryptEnd(q) \/ DecryptRefused(q)
  BY <1>3 DEF Next, vars, ModuleInit
<1>5. ASSUME q # p PROVE FALSE
  <2>1. ASSUME NEW op \in Ops, NEW o \in Objects, NEW i \in Ids,
               NEW mine \in Calls \cup Resting, StoredBy(q, op, o, i, mine)
        PROVE  FALSE
    BY <1>1, <1>2, <1>5, <2>1, StoredByCalls DEF SameCall
  <2>2. ASSUME NEW c, call' = [call EXCEPT ![q] = c] PROVE FALSE
    BY <1>1, <1>2, <1>5, <2>2 DEF TypeOK
  <2>3. "encrypt" \in Ops /\ "decrypt" \in Ops /\ [pc |-> "ok"] \in Calls \cup Resting
    BY DEF Ops, Resting
  <2>4. ~Refused(q) /\ ~DecryptRefused(q)
    BY <2>2 DEF Refused, DecryptRefused, Return
  <2>5. ~EncryptStart(q)
    <3> SUFFICES ASSUME EncryptStart(q) PROVE FALSE
      OBVIOUS
    <3>1. PICK o \in Objects, b \in Bases, bundle \in Bundles :
            /\ Ready(o, bundle.identity, bundle, None) \in Calls
            /\ StoredBy(q, "encrypt", o, bundle.identity,
                        Ready(o, bundle.identity, bundle, None))
      BY <1>1, EncryptStartDoes
    <3>2. bundle.identity \in Ids
      BY DEF Bundles
    <3> QED BY <2>1, <2>3, <3>1, <3>2
  <2>6. ~DecryptStart(q)
    <3> SUFFICES ASSUME DecryptStart(q) PROVE FALSE
      OBVIOUS
    <3>1. PICK o \in Objects, e \in envelopes :
            /\ e.sender \in Ids /\ Ready(o, e.sender, None, e) \in Calls
            /\ \/ StoredBy(q, "decrypt", o, e.sender, Ready(o, e.sender, None, e))
               \/ call' = [call EXCEPT ![q] = Ready(o, e.sender, None, e)]
      BY <1>1, DecryptStartDoes
    <3> QED BY <2>1, <2>2, <2>3, <3>1
  <2>7. ~Load(q)
    BY <1>1, <2>2, LoadDoes DEF Return
  <2>8. ASSUME Loaded(q) PROVE call[q].object \in Objects /\ call[q].peer \in Ids
    BY <1>1, <2>8, LoadedCall
  <2>9. ~EncryptEnd(q)
    BY <1>1, <2>1, <2>3, <2>8, EncryptEndDoes
  <2>10. ~DecryptEnd(q)
    BY <1>1, <2>1, <2>3, <2>8, DecryptEndDoes
  <2> QED BY <1>4, <2>4, <2>5, <2>6, <2>7, <2>9, <2>10
<1>6. \/ Refused(p) \/ EncryptStart(p) \/ DecryptStart(p)
      \/ Load(p) \/ EncryptEnd(p) \/ DecryptEnd(p) \/ DecryptRefused(p)
  BY <1>4, <1>5
<1>7. ~Refused(p) /\ ~EncryptStart(p) /\ ~DecryptStart(p)
  BY DEF Refused, EncryptStart, DecryptStart
<1>8. EncryptEnd(p) \/ DecryptEnd(p) => call'[p].pc = "ok"
  BY DEF EncryptEnd, DecryptEnd, StoredBy
<1>9. DecryptRefused(p) => call'[p].pc = "err"
  BY <1>1, ReturnDoes DEF DecryptRefused
<1>10. Load(p) => call'[p].pc = "err"
  <2> SUFFICES ASSUME Load(p) PROVE call'[p].pc = "err"
    OBVIOUS
  <2>1. CASE Return(p, "err")
    BY <1>1, <2>1, ReturnDoes, LoadDoes
  <2>2. CASE call' = [call EXCEPT ![p] = LoadedNow(p)] /\ LoadedNow(p).pc = "loaded"
    BY <1>1, <2>2 DEF TypeOK
  <2> QED BY <1>1, <2>1, <2>2, LoadDoes
<1> QED BY <1>6, <1>7, <1>8, <1>9, <1>10

\* A pre-key envelope made for the keys of an identity decrypts whenever it is
\* asked for, for any number of identities, messages and steps in flight, unless
\* another step stored a session for the same sender meanwhile (StoreSession and
\* session.Decrypt of ExecuteSignalDecrypt).
THEOREM PreKeyOpens == Spec => PreKeyMessagesOpen
<1> DEFINE Opened(p) ==
      Ends(p, "err") /\ call[p].envelope # None =>
         \/ call[p].disturbed # {}
         \/ call[p].envelope.type = "signal"
         \/ call[p].envelope.ciphertext.to # call[p].object
<1>1. ASSUME SInv, [Next]_vars, NEW p \in Procs PROVE Opened(p)
  <2> SUFFICES ASSUME Busy(p), call'[p].pc = "err", call[p].envelope # None,
                      call[p].disturbed = {}, call[p].envelope.type # "signal",
                      call[p].envelope.ciphertext.to = call[p].object
               PROVE  FALSE
    BY DEF Ends
  <2> DEFINE e == call[p].envelope
             s == Answering(call[p].object, e.ciphertext)
  <2>1. GInv /\ CallShape /\ HasBase
    BY <1>1 DEF SInv, GInv, Parties
  <2>2. call[p] \in Calls
    BY <2>1, BusyHasCall DEF GInv
  <2>3. e \in envelopes /\ e \in Envelopes /\ e.type = "prekey"
        /\ e.ciphertext \in Ciphertexts /\ call[p].object \in Objects
    BY <2>1, <2>2 DEF CallShape, GInv, TypeOK, Envelopes, Calls
  <2>4. Mine(p) = s
    BY <1>1, <2>3 DEF SInv, Undisturbed, GoesOnWithIts
  <2>5. s \in Sessions /\ s # None
    BY <2>3, AnsweringType, AbsenceAssumption DEF AbsenceAssumption
  <2>6. CASE Load(p)
    <3>1. ~Loaded(p) /\ session[call[p].object][call[p].peer] # None
      BY <2>4, <2>5, <2>6 DEF Load, Loaded, Mine
    <3>2. call'[p].pc = "loaded"
      BY <2>1, <2>6, <3>1, LoadDoes DEF GInv, TypeOK
    <3> QED BY <3>2
  <2>7. CASE DecryptRefused(p)
    <3>1. call[p].copy = s /\ ~Opens(s, e)
      BY <2>3, <2>4, <2>7 DEF DecryptRefused, Loaded, Mine
    <3>2. e.ciphertext.base # None
      BY <2>1, <2>3 DEF HasBase
    <3>3. Opens(s, e)
      BY <2>3, <3>2 DEF Opens, Answering
    <3> QED BY <3>1, <3>3
  <2> QED BY <1>1, <2>6, <2>7, OwnEnd
<1>2. SInv /\ [Next]_vars => [\A p \in Procs : Opened(p)]_vars
  BY <1>1
<1>3. [][\A p \in Procs : Opened(p)]_vars <=> PreKeyMessagesOpen
  BY DEF PreKeyMessagesOpen
<1> QED BY <1>2, <1>3, SAlways, PTL DEF Spec

\* What an encrypt step returns is a new pre-key message for the keys of its bundle,
\* for any number of identities, base keys and steps in flight, unless another
\* step stored a session for that address meanwhile (ProcessPreKeyBundle and
\* session.Encrypt of ExecuteSignalEncrypt).
THEOREM EncryptsForBundle == Spec => EncryptsForItsBundle
<1> DEFINE ForBundle(p) ==
      Ends(p, "ok") /\ call[p].bundle # None /\ call[p].disturbed = {} =>
         LET e == Sealed(call[p])
         IN /\ e.type = "prekey"
            /\ e.ciphertext.to = call[p].bundle.keys
            /\ e \notin envelopes
<1>1. ASSUME SInv, [Next]_vars, NEW p \in Procs PROVE ForBundle(p)
  <2> SUFFICES ASSUME Busy(p), call'[p].pc = "ok", call[p].bundle # None,
                      call[p].disturbed = {}
               PROVE  /\ Sealed(call[p]).type = "prekey"
                      /\ Sealed(call[p]).ciphertext.to = call[p].bundle.keys
                      /\ Sealed(call[p]) \notin envelopes
    BY DEF Ends
  <2>1. CallShape
    BY <1>1 DEF SInv, GInv
  <2>2. EncryptEnd(p)
    BY <1>1, <2>1, OwnEnd DEF CallShape, DecryptEnd
  <2>3. PICK b \in Bases : Mine(p) = Initiated(b, call[p].bundle) /\ ~Known(b)
    BY <1>1 DEF SInv, Undisturbed, GoesOnWithIts
  <2>4. call[p].copy = Initiated(b, call[p].bundle)
    BY <2>2, <2>3 DEF EncryptEnd, Mine, Loaded
  <2>5. Sealed(call[p]).ciphertext.base = b
    BY <2>4 DEF Sealed, Initiated
  <2> QED BY <2>3, <2>4, <2>5 DEF Sealed, Initiated, Known
<1>2. SInv /\ [Next]_vars => [\A p \in Procs : ForBundle(p)]_vars
  BY <1>1
<1>3. [][\A p \in Procs : ForBundle(p)]_vars <=> EncryptsForItsBundle
  BY DEF EncryptsForItsBundle
<1> QED BY <1>2, <1>3, SAlways, PTL DEF Spec

\* No step, however it overlaps with others and however often identities are
\* initialised again, opens with an identity what was sealed for the keys of
\* another (newSignalIdentity, the session store of its own).
THEOREM OnlyItsOwnOpen == Spec => OnlyItsOwnMessagesOpen
<1> DEFINE ItsOwn(p) ==
      Ends(p, "ok") /\ call[p].envelope # None =>
         call[p].envelope.ciphertext.to = call[p].object
<1>1. ASSUME SInv, [Next]_vars, NEW p \in Procs PROVE ItsOwn(p)
  <2> SUFFICES ASSUME Busy(p), call'[p].pc = "ok", call[p].envelope # None
               PROVE  call[p].envelope.ciphertext.to = call[p].object
    BY DEF Ends
  <2>1. GInv /\ CallShape /\ EnvParty
    BY <1>1 DEF SInv, GInv, Parties
  <2>2. DecryptEnd(p)
    BY <1>1, <2>1, OwnEnd DEF CallShape, EncryptEnd
  <2>3. Loaded(p) /\ Opens(call[p].copy, call[p].envelope)
    BY <2>2 DEF DecryptEnd, Loaded
  <2>4. /\ call[p].object \in Objects /\ call[p].peer \in Ids /\ call[p].copy \in Sessions
        /\ call[p].envelope \in envelopes
    BY <2>1, <2>3, LoadedCall DEF CallShape
  <2>5. Holds(call[p].object, call[p].peer, call[p].copy)
    BY <2>3, <2>4 DEF Holds
  <2>6. Same(call[p].object, call[p].copy.peer,
             call[p].envelope.ciphertext.by, call[p].envelope.ciphertext.to)
    BY <2>1, <2>3, <2>4, <2>5 DEF EnvParty, Opens
  <2> QED BY <2>3, <2>6 DEF Same, Opens
<1>2. SInv /\ [Next]_vars => [\A p \in Procs : ItsOwn(p)]_vars
  BY <1>1
<1>3. [][\A p \in Procs : ItsOwn(p)]_vars <=> OnlyItsOwnMessagesOpen
  BY DEF OnlyItsOwnMessagesOpen
<1> QED BY <1>2, <1>3, SAlways, PTL DEF Spec

=============================================================================
