---------------------------- MODULE SignalSession ---------------------------
(***************************************************************************)
(* Signal identities and sessions: internal/modules.go and the             *)
(* session_prepare, encrypt and decrypt steps of internal/steps.go.        *)
(*                                                                         *)
(* An identity object holds keys generated when its module is initialised  *)
(* and a store of one session per remote address.  An encrypt step starts  *)
(* a session from the bundle of its request, stores it, and then calls a   *)
(* library that loads the stored session, uses it and stores it again.  A  *)
(* decrypt step does the same with a session it starts from the pre-key    *)
(* message.  Nothing locks an identity between those accesses: the session *)
(* that is loaded need not be the one the step has stored.                 *)
(*                                                                         *)
(* The session protocol is a library.  What is used of it: a session opens *)
(* the messages of its counterpart, each of them once; as long as nothing  *)
(* came back over it, its messages are pre-key messages.  Keys that do not *)
(* belong to a message yield a session without a counterpart.  A session   *)
(* that is replaced is gone: whether the library would keep it aside is    *)
(* left out.                                                               *)
(***************************************************************************)
EXTENDS Naturals, FiniteSets

CONSTANTS
    Procs,    \* workflow steps that may be in flight together
    Ids,      \* identity refs; each is also the address of its identity
    Objects,  \* signalIdentity objects; each stands for the keys it holds
    Of,       \* Objects -> Ids: the identity an object is generated for
    Bases,    \* base keys: a session started from a bundle generates one
    Links,    \* bound: <<identity, address>> pairs whose sessions are used
    MaxSent,  \* bound: messages sent over one session
    None

ASSUME SessionAssumption ==
    /\ Of \in [Objects -> Ids]
    /\ Links \subseteq Ids \X Ids
    /\ MaxSent \in Nat
    /\ None \notin Procs \cup Objects \cup Bases

\* A session: the base key both ends derive it from, the keys of the other end,
\* whether something came over it, and what was sent and received.
Sessions == [base : Bases \cup {None}, peer : Objects, answered : BOOLEAN,
             sent : 0 .. MaxSent, got : SUBSET (0 .. MaxSent)]

\* What one end of a session seals for the other; number is its place among the
\* pre-key messages of the session.
Ciphertexts == [base : Bases \cup {None}, by : Objects, to : Objects,
                number : 0 .. MaxSent]

\* The public keys of an object, as prepared for others; identity is the address
\* of their owner.
Bundles == [identity : Ids, keys : Objects]

Envelopes == [sender : Ids, recipient : Ids, type : {"prekey", "signal"},
              ciphertext : Ciphertexts]

\* The two requests, as far as sessions go (what a step is given are the bundles and
\* envelopes that exist).  The remote_id of an encrypt step, when it names one, is
\* the owner of the bundle.  gate: does the request come from the principal the
\* configuration requires, if any?
EncryptRequests(bundles)   == [identity : Ids, bundle : bundles]
DecryptRequests(delivered) == [identity : Ids, envelope : delivered, gate : BOOLEAN]

\* An absent bundle, envelope or session is none of those there are.
ASSUME AbsenceAssumption == None \notin Bundles \cup Envelopes \cup Sessions

VARIABLES
    registry,   \* signalIdentities: Ids -> identity object or None
    used,       \* the objects generated so far
    session,    \* signalIdentity.sessionStore: Objects -> address -> session or None
    envelopes,  \* what encrypt steps have returned; it may be decrypted in any
                \* order, several times or not at all
    call        \* the local state of each step

vars == <<registry, used, session, envelopes, call>>

Ops == {"encrypt", "decrypt"}

Calls == [pc : {"ready", "loaded"}, object : Objects, peer : Ids,
          bundle   : Bundles \cup {None},    \* of an encrypt step
          envelope : Envelopes \cup {None},  \* of a decrypt step
          copy     : Sessions \cup {None},   \* the session the library loaded
          disturbed : SUBSET Ops]  \* history: other steps that stored this session

Resting == [pc : {"idle", "ok", "err"}]

TypeOK ==
    /\ registry \in [Ids -> Objects \cup {None}]
    /\ used \subseteq Objects
    /\ session \in [Objects -> [Ids -> Sessions \cup {None}]]
    /\ envelopes \subseteq Envelopes
    /\ call \in [Procs -> Calls \cup Resting]

Init ==
    /\ registry = [i \in Ids |-> None]
    /\ used = {}
    /\ session = [o \in Objects |-> [i \in Ids |-> None]]
    /\ envelopes = {}
    /\ call = [p \in Procs |-> [pc |-> "idle"]]

-----------------------------------------------------------------------------
\* Identities

Busy(p) == call[p].pc \in {"ready", "loaded"}

\* Mutant: an identity that is initialised again keeps its sessions.
ModuleInitKeepsSessions(o) ==
    /\ o \notin used
    /\ used' = used \cup {o}
    /\ registry' = [registry EXCEPT ![Of[o]] = o]
    /\ session' = IF registry[Of[o]] = None THEN session
                  ELSE [session EXCEPT ![o] = session[registry[Of[o]]]]
    /\ UNCHANGED <<envelopes, call>>

\* identityStoreModule.Init: fresh keys and an empty session store.  Steps that
\* found the object it replaces go on with that one.
ModuleInit(o) ==
    /\ o \notin used
    /\ used' = used \cup {o}
    /\ registry' = [registry EXCEPT ![Of[o]] = o]
    /\ UNCHANGED <<session, envelopes, call>>

\* ExecuteSignalSessionPrepare changes nothing: an object has one bundle for ever,
\* and whoever was given it may use it as long as he likes.
Prepared == {[identity |-> Of[o], keys |-> o] : o \in used}

-----------------------------------------------------------------------------
\* Steps.  The lookup of the identity commutes with everything up to the first
\* access to its sessions, so the two are one action.

Stored(o, i, s) == session' = [session EXCEPT ![o][i] = s]

\* Step p, of kind op, goes on with mine after it stored a session of object o for
\* address i: the other steps at that session are disturbed.
StoredBy(p, op, o, i, mine) ==
    call' = [q \in Procs |->
                IF q = p THEN mine
                ELSE IF Busy(q) /\ call[q].object = o /\ call[q].peer = i
                THEN [call[q] EXCEPT !.disturbed = @ \cup {op}]
                ELSE call[q]]

Return(p, pc) == call' = [call EXCEPT ![p] = [pc |-> pc]]

\* A request that names no registered identity or is malformed, a principal who
\* is not the required one, a bundle or message the library does not accept.
Refused(p) ==
    /\ ~Busy(p)
    /\ Return(p, "err")
    /\ UNCHANGED <<registry, used, session, envelopes>>

Ready(o, i, bundle, envelope) ==
    [pc |-> "ready", object |-> o, peer |-> i, bundle |-> bundle,
     envelope |-> envelope, copy |-> None, disturbed |-> {}]

\* Base keys are random: none that is still in use is generated again.
Fresh(b) ==
    /\ \A e \in envelopes : e.ciphertext.base # b
    /\ \A o \in Objects, i \in Ids : session[o][i] # None => session[o][i].base # b
    /\ \A p \in Procs : Busy(p) /\ call[p].copy # None => call[p].copy.base # b

\* Mutant: the session is bound to the address of the bundle, not to its keys.
InitiatedWithAddress(b, bundle) ==
    [base |-> b, peer |-> bundle.identity, answered |-> FALSE, sent |-> 0, got |-> {}]

\* session.ProcessPreKeyBundle
Initiated(b, bundle) ==
    [base |-> b, peer |-> bundle.keys, answered |-> FALSE, sent |-> 0, got |-> {}]

\* Mutant: the bundle is used only when there is no session with its owner.
EncryptStartOnce(p) ==
    \E r \in EncryptRequests(Prepared), b \in Bases :
        LET o == registry[r.identity]
            bundle == r.bundle
        IN /\ ~Busy(p) /\ o # None /\ Fresh(b)
           /\ <<r.identity, bundle.identity>> \in Links
           /\ IF session[o][bundle.identity] = None
              THEN Stored(o, bundle.identity, Initiated(b, bundle))
              ELSE UNCHANGED session
           /\ StoredBy(p, "encrypt", o, bundle.identity,
                       Ready(o, bundle.identity, bundle, None))
           /\ UNCHANGED <<registry, used, envelopes>>

\* ExecuteSignalEncrypt up to the stored session.
EncryptStart(p) ==
    \E r \in EncryptRequests(Prepared), b \in Bases :
        LET o == registry[r.identity]
            bundle == r.bundle
        IN /\ ~Busy(p) /\ o # None /\ Fresh(b)
           /\ <<r.identity, bundle.identity>> \in Links
           /\ Stored(o, bundle.identity, Initiated(b, bundle))
           /\ StoredBy(p, "encrypt", o, bundle.identity,
                       Ready(o, bundle.identity, bundle, None))
           /\ UNCHANGED <<registry, used, envelopes>>

\* session.InitializeBobSession: keys the message was not made for yield a session
\* without a counterpart.
Answering(o, c) ==
    [base |-> IF c.to = o THEN c.base ELSE None, peer |-> c.by,
     answered |-> TRUE, sent |-> 0, got |-> {}]

\* Mutant: a session that is already there is kept.
DecryptStartKeeps(p) ==
    \E r \in DecryptRequests(envelopes) :
        LET o == registry[r.identity]
            e == r.envelope
        IN /\ ~Busy(p) /\ r.gate /\ o # None /\ <<r.identity, e.sender>> \in Links
           /\ IF e.type = "prekey" /\ session[o][e.sender] = None
              THEN /\ Stored(o, e.sender, Answering(o, e.ciphertext))
                   /\ StoredBy(p, "decrypt", o, e.sender, Ready(o, e.sender, None, e))
              ELSE /\ call' = [call EXCEPT ![p] = Ready(o, e.sender, None, e)]
                   /\ UNCHANGED session
           /\ UNCHANGED <<registry, used, envelopes>>

\* ExecuteSignalDecrypt up to session.Decrypt: a pre-key message replaces the
\* session with its sender, whether or not it will open.
DecryptStart(p) ==
    \E r \in DecryptRequests(envelopes) :
        LET o == registry[r.identity]
            e == r.envelope
        IN /\ ~Busy(p) /\ r.gate /\ o # None /\ <<r.identity, e.sender>> \in Links
           /\ IF e.type = "prekey"
              THEN /\ Stored(o, e.sender, Answering(o, e.ciphertext))
                   /\ StoredBy(p, "decrypt", o, e.sender, Ready(o, e.sender, None, e))
              ELSE /\ call' = [call EXCEPT ![p] = Ready(o, e.sender, None, e)]
                   /\ UNCHANGED session
           /\ UNCHANGED <<registry, used, envelopes>>

-----------------------------------------------------------------------------
\* session.Encrypt and session.Decrypt

\* The library loads the session; a decrypt may find none.
Load(p) ==
    LET c == call[p]
    IN /\ c.pc = "ready"
       /\ IF session[c.object][c.peer] = None THEN Return(p, "err")
          ELSE call' = [call EXCEPT ![p].pc = "loaded",
                                    ![p].copy = session[c.object][c.peer]]
       /\ UNCHANGED <<registry, used, session, envelopes>>

\* The envelope an encrypt step returns.
Sealed(c) ==
    [sender |-> Of[c.object], recipient |-> c.peer,
     type |-> IF c.copy.answered THEN "signal" ELSE "prekey",
     ciphertext |-> [base |-> c.copy.base, by |-> c.object, to |-> c.copy.peer,
                     number |-> IF c.copy.answered THEN 0 ELSE c.copy.sent]]

EncryptEnd(p) ==
    LET c == call[p]
    IN /\ c.pc = "loaded" /\ c.bundle # None
       /\ c.copy.sent < MaxSent
       /\ Stored(c.object, c.peer, IF c.copy.answered THEN c.copy
                                   ELSE [c.copy EXCEPT !.sent = @ + 1])
       /\ StoredBy(p, "encrypt", c.object, c.peer, [pc |-> "ok"])
       /\ envelopes' = envelopes \cup {Sealed(c)}
       /\ UNCHANGED <<registry, used>>

\* A session opens what its counterpart sealed, a pre-key message once.
Opens(s, e) ==
    /\ s.base # None /\ s.base = e.ciphertext.base
    /\ s.peer = e.ciphertext.by
    /\ e.type = "prekey" => e.ciphertext.number \notin s.got

Received(s, e) ==
    IF e.type = "prekey" THEN [s EXCEPT !.got = @ \cup {e.ciphertext.number}]
    ELSE [s EXCEPT !.answered = TRUE]

DecryptEnd(p) ==
    LET c == call[p]
    IN /\ c.pc = "loaded" /\ c.envelope # None
       /\ Opens(c.copy, c.envelope)
       /\ Stored(c.object, c.peer, Received(c.copy, c.envelope))
       /\ StoredBy(p, "decrypt", c.object, c.peer, [pc |-> "ok"])
       /\ UNCHANGED <<registry, used, envelopes>>

\* The library refuses: the session is not that of the message, or the message
\* follows others of its session that never came.
DecryptRefused(p) ==
    LET c == call[p]
    IN /\ c.pc = "loaded" /\ c.envelope # None
       /\ ~Opens(c.copy, c.envelope) \/ c.envelope.type = "signal"
       /\ Return(p, "err")
       /\ UNCHANGED <<registry, used, session, envelopes>>

Next ==
    \/ \E o \in Objects : ModuleInit(o)
    \/ \E p \in Procs :
          \/ Refused(p) \/ EncryptStart(p) \/ DecryptStart(p)
          \/ Load(p) \/ EncryptEnd(p) \/ DecryptEnd(p) \/ DecryptRefused(p)

Spec == Init /\ [][Next]_vars

-----------------------------------------------------------------------------
\* Properties

Ends(p, pc) == Busy(p) /\ call'[p].pc = pc

\* A pre-key envelope made for the keys of an identity decrypts whenever it is
\* asked for, in any order with others of its sender, again after it was
\* decrypted, after messages that did not open: unless another step stored a
\* session for the same sender meanwhile (StoreSession and session.Decrypt of
\* ExecuteSignalDecrypt).
PreKeyMessagesOpen ==
    [][\A p \in Procs :
          Ends(p, "err") /\ call[p].envelope # None =>
             \/ call[p].disturbed # {}
             \/ call[p].envelope.type = "signal"
             \/ call[p].envelope.ciphertext.to # call[p].object]_vars

\* What an encrypt step returns is a pre-key message for the keys of the bundle it
\* was given, under a message key never used before, whatever sessions there
\* were with that address: unless another step stored a session for it meanwhile
\* (ProcessPreKeyBundle and session.Encrypt of ExecuteSignalEncrypt).
EncryptsForItsBundle ==
    [][\A p \in Procs :
          Ends(p, "ok") /\ call[p].bundle # None /\ call[p].disturbed = {} =>
             LET e == Sealed(call[p])
             IN /\ e.type = "prekey"
                /\ e.ciphertext.to = call[p].bundle.keys
                /\ e \notin envelopes]_vars

\* An identity initialised again is a new one: no step, however it overlaps with
\* others, opens with it what was sealed for the keys it replaced
\* (newSignalIdentity, the session store of its own).
OnlyItsOwnMessagesOpen ==
    [][\A p \in Procs :
          Ends(p, "ok") /\ call[p].envelope # None =>
             call[p].envelope.ciphertext.to = call[p].object]_vars

-----------------------------------------------------------------------------
\* What the documentation says and the code does not do in general

\* "decrypt an inbound Signal session envelope after the configured principal gate
\* passes": every pre-key envelope made for the keys of the identity decrypts,
\* unless the identity also encrypts for that sender meanwhile.  Two steps that
\* decrypt envelopes of one sender replace each other's session.
EveryPreKeyMessageOpens ==
    [][\A p \in Procs :
          Ends(p, "err") /\ call[p].envelope # None =>
             \/ "encrypt" \in call[p].disturbed
             \/ call[p].envelope.type = "signal"
             \/ call[p].envelope.ciphertext.to # call[p].object]_vars

=============================================================================
