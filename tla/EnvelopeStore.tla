---------------------------- MODULE EnvelopeStore ---------------------------
(***************************************************************************)
(* The envelope store: internal/envelope_store.go and the four outbox and  *)
(* inbox steps of internal/envelope_steps.go.                              *)
(*                                                                         *)
(* A store keeps two queues in memory and, with the local_file backend,    *)
(* writes both of them to one file after every change: to <path>.tmp, then *)
(* by a rename.  Memory is changed first; a failed write returns an error  *)
(* but does not undo the change.  Each operation holds the store's mutex   *)
(* from the change to the rename, so within one store only a crash or a    *)
(* failed write separates the two; a second store over the same path (the  *)
(* module initialised again while a step holds the old store) is not       *)
(* excluded by any lock.                                                   *)
(*                                                                         *)
(* Requests that fail validation return before the mutex is taken and      *)
(* change nothing; they are not modelled.                                  *)
(***************************************************************************)
EXTENDS Naturals, FiniteSets

CONSTANTS
    Procs,      \* workflow steps that may be in flight together
    Objects,    \* envelopeStore objects (reused once nothing refers to them)
    Ids,        \* idempotency keys and message refs
    Refs,       \* envelope refs, less their fixed prefix
    Sanitize,   \* Ids -> Refs: sanitizeEnvelopeRefPart, not injective
    InboxRefs,  \* the envelope refs that receivers use
    Msgs,       \* ciphertexts
    Times,      \* requested_at_unix, chosen by the caller
    Limits,     \* the values of retention_limit a module may be configured with
    Backends,   \* the backends a module may be configured with
    Reload,     \* may the module be initialised again while it is registered?
    Torn,       \* the content of a file whose writing was cut short
    None

ASSUME EnvelopeAssumption ==
    /\ Sanitize \in [Ids -> Refs]
    /\ InboxRefs \subseteq Refs
    /\ Times \subseteq Nat
    /\ Limits \subseteq Nat
    /\ Backends \subseteq {"memory", "local_file"}
    /\ Reload \in BOOLEAN
    /\ None \notin Procs \cup Objects \cup Ids

Records == [msg : Msgs, status : {"queued", "claimed", "received"}, at : Times]
Queues  == [Refs -> Records \cup {None}]
States  == [outbox : Queues, inbox : Queues]

\* An absent record, an absent file and a torn one are told from what is there.
ASSUME FileAssumption ==
    /\ None \notin Records \cup States
    /\ Torn \notin States /\ None # Torn

NoQueue    == [r \in Refs |-> None]
EmptyState == [outbox |-> NoQueue, inbox |-> NoQueue]

Calls == [pc     : {"called", "changed", "written"},
          op     : {"enqueue", "claim", "receive", "decrypt"},
          object : Objects,
          ref    : Refs,
          arg    : [msg : Msgs, at : Times] \cup {None}]

Resting == [pc : {"idle", "ok", "err"}]

VARIABLES
    backend,  \* config.backend of the module, the same at every start
    file,     \* what <path> holds; None when there is no file
    tmp,      \* what <path>.tmp holds
    store,    \* signalEnvelopeStores: the object both the module's name and
              \* its store_ref lead to, or None
    loading,  \* the object Init has loaded and not yet registered, or None
    mem,      \* envelopeStore.state of each object
    limit,    \* config.retention_limit of each object; 0 keeps everything
    lock,     \* envelopeStore.mu: the call that holds it, or None
    call,     \* the local state of each step
    acked,    \* history: envelopes whose enqueue or receipt was acknowledged
              \* and that no retention or later request has touched since
    sent      \* history: acknowledged claims of each outbox ref since it was last
              \* enqueued

vars == <<backend, file, tmp, store, loading, mem, limit, lock, call, acked, sent>>

LocalFile == backend = "local_file"

ClaimCap == 2  \* claims are counted up to this

TypeOK ==
    /\ backend \in Backends
    /\ file \in States \cup {Torn, None}
    /\ tmp \in States \cup {Torn, None}
    /\ store \in Objects \cup {None}
    /\ loading \in Objects \cup {None}
    /\ mem \in [Objects -> States]
    /\ limit \in [Objects -> Limits \cup {0}]
    /\ lock \in [Objects -> Procs \cup {None}]
    /\ call \in [Procs -> Calls \cup Resting]
    /\ acked \subseteq [queue : {"outbox", "inbox"}, ref : Refs, msg : Msgs]
    /\ sent \in [Refs -> 0 .. ClaimCap]

Init ==
    /\ backend \in Backends
    /\ file = None
    /\ tmp = None
    /\ store = None
    /\ loading = None
    /\ mem = [o \in Objects |-> EmptyState]
    /\ limit = [o \in Objects |-> 0]
    /\ lock = [o \in Objects |-> None]
    /\ call = [p \in Procs |-> [pc |-> "idle"]]
    /\ acked = {}
    /\ sent = [r \in Refs |-> 0]

-----------------------------------------------------------------------------
\* The module and its calls

Busy(p) == call[p].pc \in {"called", "changed", "written"}

Unused(o) ==
    /\ store # o /\ loading # o
    /\ \A p \in Procs : Busy(p) => call[p].object # o

\* Mutants: the store comes up empty and later overwrites its file; a missing
\* file is not told from an empty state.
ModuleLoadEmpty ==
    /\ loading = None
    /\ Reload \/ store = None
    /\ \E o \in Objects :
          /\ Unused(o)
          /\ loading' = o
          /\ mem' = [mem EXCEPT ![o] = EmptyState]
          /\ \E n \in Limits : limit' = [limit EXCEPT ![o] = n]
    /\ UNCHANGED <<backend, file, tmp, store, lock, call, acked, sent>>

ModuleLoadUnchecked ==
    /\ loading = None
    /\ Reload \/ store = None
    /\ \E o \in Objects :
          /\ Unused(o)
          /\ loading' = o
          /\ mem' = [mem EXCEPT ![o] = file]
          /\ \E n \in Limits : limit' = [limit EXCEPT ![o] = n]
    /\ UNCHANGED <<backend, file, tmp, store, lock, call, acked, sent>>

\* envelopeStoreModule.Init up to load: the file is read before the new store
\* is registered, and nothing keeps the old one from writing in between.  A file
\* that does not decode is an error and the module does not come up.  The module may
\* have another retention_limit than the one that wrote the file; load keeps what the
\* file holds all the same.
ModuleLoad ==
    /\ loading = None
    /\ Reload \/ store = None
    /\ LocalFile => file # Torn
    /\ \E o \in Objects :
          /\ Unused(o)
          /\ loading' = o
          /\ mem' = [mem EXCEPT ![o] =
                        IF LocalFile /\ file # None THEN file ELSE EmptyState]
          /\ \E n \in Limits : limit' = [limit EXCEPT ![o] = n]
    /\ UNCHANGED <<backend, file, tmp, store, lock, call, acked, sent>>

ModuleRegister ==
    /\ loading # None
    /\ store' = loading
    /\ loading' = None
    /\ UNCHANGED <<backend, file, tmp, mem, limit, lock, call, acked, sent>>

Begin(p, op, r, arg) ==
    /\ ~Busy(p)
    /\ call' = [call EXCEPT ![p] =
          IF store = None THEN [pc |-> "err"]
          ELSE [pc |-> "called", op |-> op, object |-> store, ref |-> r, arg |-> arg]]
    /\ UNCHANGED <<backend, file, tmp, store, loading, mem, limit, lock, acked, sent>>

\* envelopeRef: the idempotency key or else the message ref names the envelope.
OutboxRef(key, message) == Sanitize[IF key # None THEN key ELSE message]

\* What the steps are asked.  The refs a request carries for later (parties, custody,
\* authorization, claimant, lease) are left out.
EnqueueRequests ==
    [key : Ids \cup {None}, message : Ids \cup {None}, msg : Msgs, at : Times]
ReceiveRequests == [ref : InboxRefs, msg : Msgs, at : Times]
ClaimRequests   == [ref : Refs]
DecryptRequests == [ref : InboxRefs]

EnqueueCalls ==
    {[ref |-> OutboxRef(in.key, in.message), arg |-> [msg |-> in.msg, at |-> in.at]] :
        in \in {e \in EnqueueRequests : {e.key, e.message} # {None}}}

CallEnqueue(p) == \E c \in EnqueueCalls : Begin(p, "enqueue", c.ref, c.arg)

CallReceive(p) ==
    \E in \in ReceiveRequests :
        Begin(p, "receive", in.ref, [msg |-> in.msg, at |-> in.at])

CallClaim(p)   == \E in \in ClaimRequests : Begin(p, "claim", in.ref, None)
CallDecrypt(p) == \E in \in DecryptRequests : Begin(p, "decrypt", in.ref, None)

-----------------------------------------------------------------------------
\* Operations

At(p, pc, op)  == call[p].pc = pc /\ call[p].op = op
Unlocked(p)    == lock[call[p].object] = None
Return(p, pc)  == call' = [call EXCEPT ![p] = [pc |-> pc]]
Occupied(q)    == {r \in Refs : q[r] # None}

\* What may be left of a queue cut down to n records: the oldest go, whatever their
\* status; ties fall to the iteration order of a map.
CutTo(q, n) ==
    IF Cardinality(Occupied(q)) <= n THEN {q}
    ELSE {[r \in Refs |-> IF r \in keep THEN q[r] ELSE None] :
             keep \in {k \in SUBSET Occupied(q) :
                          /\ Cardinality(k) = n
                          /\ \A r \in k, s \in Occupied(q) \ k : q[s].at <= q[r].at}}

\* enforceRetentionLocked.
Retained(q, n) == IF n = 0 THEN {q} ELSE CutTo(q, n)

\* The local_file backend goes on to write the file with the mutex held; the
\* memory backend returns at once.
Changed(p) ==
    IF LocalFile
    THEN /\ call' = [call EXCEPT ![p].pc = "changed"]
         /\ lock' = [lock EXCEPT ![call[p].object] = p]
    ELSE Return(p, "ok") /\ UNCHANGED lock

OneMore(n) == IF n < ClaimCap THEN n + 1 ELSE n

\* The history of a request that stored its message under its ref in queue q,
\* which retention then cut down to kept.
Stored(p, q) == [queue |-> q, ref |-> call[p].ref, msg |-> call[p].arg.msg]

AckedAfter(p, q, kept) ==
    {a \in acked : a.queue = q => a.ref # call[p].ref /\ kept[a.ref] # None}
        \cup (IF LocalFile \/ kept[call[p].ref] = None THEN {} ELSE {Stored(p, q)})

\* Mutant: retention follows only the records that are new to their queue.
PutRetainsGrowth(p, q, status) ==
    LET o == call[p].object
        r == call[p].ref
        record == [msg |-> call[p].arg.msg, status |-> status, at |-> call[p].arg.at]
        stored == [mem[o][q] EXCEPT ![r] = record]
    IN \E kept \in IF mem[o][q][r] = None THEN Retained(stored, limit[o]) ELSE {stored} :
          /\ mem' = [mem EXCEPT ![o][q] = kept]
          /\ acked' = AckedAfter(p, q, kept)

\* enqueueOutbox and receiveInbox up to persistLocked: a record already stored
\* under the ref, claimed or not, is replaced.
Put(p, q, status) ==
    LET o == call[p].object
        r == call[p].ref
        record == [msg |-> call[p].arg.msg, status |-> status, at |-> call[p].arg.at]
    IN \E kept \in Retained([mem[o][q] EXCEPT ![r] = record], limit[o]) :
          /\ mem' = [mem EXCEPT ![o][q] = kept]
          /\ acked' = AckedAfter(p, q, kept)

Enqueue(p) ==
    /\ At(p, "called", "enqueue") /\ Unlocked(p)
    /\ Put(p, "outbox", "queued")
    /\ sent' = [sent EXCEPT ![call[p].ref] = 0]
    /\ Changed(p)
    /\ UNCHANGED <<backend, file, tmp, store, loading, limit>>

Receive(p) ==
    /\ At(p, "called", "receive") /\ Unlocked(p)
    /\ Put(p, "inbox", "received")
    /\ Changed(p)
    /\ UNCHANGED <<backend, file, tmp, store, loading, limit, sent>>

IsQueued(p) ==
    LET record == mem[call[p].object].outbox[call[p].ref]
    IN record # None /\ record.status = "queued"

\* Mutant: the claim is acknowledged without being persisted.
ClaimInMemory(p) ==
    /\ At(p, "called", "claim") /\ Unlocked(p)
    /\ IF IsQueued(p)
       THEN /\ mem' = [mem EXCEPT ![call[p].object].outbox[call[p].ref].status = "claimed"]
            /\ sent' = [sent EXCEPT ![call[p].ref] = OneMore(@)]
            /\ Return(p, "ok")
       ELSE Return(p, "err") /\ UNCHANGED <<mem, sent>>
    /\ UNCHANGED <<backend, file, tmp, store, loading, limit, lock, acked>>

\* claimOutbox: the lease it grants has no expiry and no release.
Claim(p) ==
    /\ At(p, "called", "claim") /\ Unlocked(p)
    /\ IF IsQueued(p)
       THEN /\ mem' = [mem EXCEPT ![call[p].object].outbox[call[p].ref].status = "claimed"]
            /\ sent' = IF LocalFile THEN sent
                       ELSE [sent EXCEPT ![call[p].ref] = OneMore(@)]
            /\ Changed(p)
       ELSE Return(p, "err") /\ UNCHANGED <<mem, lock, sent>>
    /\ UNCHANGED <<backend, file, tmp, store, loading, limit, acked>>

\* ExecuteSignalInboxDecrypt: the record stays in the inbox; whether the session
\* opens its ciphertext is not this component's matter.
Decrypt(p) ==
    /\ At(p, "called", "decrypt") /\ Unlocked(p)
    /\ \E pc \in {"ok", "err"} :
          /\ pc = "ok" => mem[call[p].object].inbox[call[p].ref] # None
          /\ Return(p, pc)
    /\ UNCHANGED <<backend, file, tmp, store, loading, mem, limit, lock, acked, sent>>

-----------------------------------------------------------------------------
\* persistLocked

Release(p) == lock' = [lock EXCEPT ![call[p].object] = None]

\* Mutant: a failed write is ignored and the rename follows.
PersistWriteIgnored(p) ==
    /\ call[p].pc = "changed"
    /\ tmp' \in {mem[call[p].object], Torn}
    /\ call' = [call EXCEPT ![p].pc = "written"]
    /\ UNCHANGED <<backend, file, store, loading, mem, limit, lock, acked, sent>>

PersistWrite(p) ==
    /\ call[p].pc = "changed"
    /\ tmp' = mem[call[p].object]
    /\ call' = [call EXCEPT ![p].pc = "written"]
    /\ UNCHANGED <<backend, file, store, loading, mem, limit, lock, acked, sent>>

\* The rename, after which the operation is acknowledged.  When another store
\* has renamed the temporary file first there is nothing to rename.
PersistRename(p) ==
    /\ call[p].pc = "written" /\ tmp # None
    /\ file' = tmp
    /\ tmp' = None
    /\ sent' = IF call[p].op = "claim" THEN [sent EXCEPT ![call[p].ref] = OneMore(@)]
               ELSE sent
    /\ acked' = LET q == IF call[p].op = "receive" THEN "inbox" ELSE "outbox"
                IN IF call[p].op = "claim" \/ mem[call[p].object][q][call[p].ref] = None
                   THEN acked ELSE acked \cup {Stored(p, q)}
    /\ Release(p)
    /\ Return(p, "ok")
    /\ UNCHANGED <<backend, store, loading, mem, limit>>

\* Writing or renaming fails.  The change stays in memory.
PersistFails(p) ==
    /\ call[p].pc \in {"changed", "written"}
    /\ tmp' \in IF call[p].pc = "changed" THEN {tmp, Torn} ELSE {tmp}
    /\ Release(p)
    /\ Return(p, "err")
    /\ UNCHANGED <<backend, file, store, loading, mem, limit, acked, sent>>

\* The host process dies, perhaps in the middle of os.WriteFile.
Crash ==
    /\ tmp' \in IF \E p \in Procs : call[p].pc = "changed" THEN {tmp, Torn} ELSE {tmp}
    /\ store' = None
    /\ loading' = None
    /\ mem' = [o \in Objects |-> EmptyState]
    /\ limit' = [o \in Objects |-> 0]
    /\ lock' = [o \in Objects |-> None]
    /\ call' = [p \in Procs |-> [pc |-> "idle"]]
    /\ acked' = IF LocalFile THEN acked ELSE {}
    /\ UNCHANGED <<backend, file, sent>>

Serve(p) ==
    \/ Enqueue(p) \/ Receive(p) \/ Claim(p) \/ Decrypt(p)
    \/ PersistWrite(p) \/ PersistRename(p) \/ PersistFails(p)

Next ==
    \/ ModuleLoad \/ ModuleRegister
    \/ \E p \in Procs : CallEnqueue(p) \/ CallReceive(p) \/ CallClaim(p) \/ CallDecrypt(p)
    \/ \E p \in Procs : Serve(p)
    \/ Crash

Spec == Init /\ [][Next]_vars

-----------------------------------------------------------------------------
\* Properties

\* An enqueued envelope is handed to at most one claimant: between one enqueue of
\* a ref and the next at most one claim of it is acknowledged, whatever writes
\* fail and however often the host dies (claimOutbox, persistLocked, load).
ClaimedAtMostOncePerEnqueue == \A r \in Refs : sent[r] <= 1

\* What was acknowledged is in the file, with its own message, until retention or
\* a later request for the ref removes it: neither a failed write of a later
\* operation nor a crash takes it away (persistLocked, load).
AcknowledgedIsOnDisk ==
    LocalFile => \A a \in acked :
        /\ file \notin {None, Torn}
        /\ file[a.queue][a.ref] # None
        /\ file[a.queue][a.ref].msg = a.msg

\* A write cut short by an error or a crash is never what the next load reads
\* (the temporary file and the rename of persistLocked).
FileIsWhole == file # Torn

\* An enqueue or a receipt is acknowledged only when its queue is back within the
\* retention_limit of its store, in memory and as the next load will find it: whatever
\* a load under a lower limit has brought in, and whichever writes failed before
\* (enforceRetentionLocked, persistLocked; load itself removes nothing).
RetentionHolds ==
    [][\A p \in Procs :
          LET o == call[p].object
              q == IF call[p].op = "receive" THEN "inbox" ELSE "outbox"
          IN Busy(p) /\ call'[p].pc = "ok" /\ call[p].op \in {"enqueue", "receive"}
                /\ limit[o] > 0 =>
             /\ Cardinality(Occupied(mem'[o][q])) <= limit[o]
             /\ LocalFile => Cardinality(Occupied(file'[q])) <= limit[o]]_vars

=============================================================================
