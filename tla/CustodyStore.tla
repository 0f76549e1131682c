---------------------------- MODULE CustodyStore ----------------------------
(***************************************************************************)
(* The sealed custody store: internal/custody/sealed_store.go, the         *)
(* custody.* workflow steps that call it (internal/custody_steps.go) and   *)
(* the module that registers it (internal/custody.go).                     *)
(*                                                                         *)
(* Every custody ref is one bundle file in a directory.  A Store object    *)
(* keeps in memory the key-encryption key (KEK) it seals with and a mutex; *)
(* each operation holds that mutex.  The mutex belongs to the object, not  *)
(* to the directory, so two Store objects over one directory (two modules  *)
(* with one storage_path, or a module initialised again while a step still *)
(* holds the old object) interleave between a read and the rename that     *)
(* follows it.  That is why reading and writing are two actions here.      *)
(***************************************************************************)
EXTENDS Naturals, FiniteSets

CONSTANTS
    Procs,        \* workflow steps that may be in flight together
    Names,        \* module names; all are configured with one storage_path
    Objects,      \* Store objects (reused once nothing refers to them)
    Ids,          \* idempotency keys and account refs: one name space
    Devices,      \* device refs; a device also stands for its key material
    KekRefs,      \* KEK refs a request or a configuration may name
    Resolvable,   \* those whose secret the host can resolve
    KekVersions,  \* KEK versions
    ConfigKeks,   \* KEKs the module configuration may name when it is loaded
    Reload,       \* may a module be initialised again while it is registered?
    None          \* the absent value

Keks == [ref : KekRefs, version : KekVersions]

\* One Store object serves the directory: one module, never re-initialised
\* while it is registered.
SoleStore == ~Reload /\ \A m, n \in Names : m = n

Refs == Ids \cup Names

\* A bundle file: clear metadata, and the KEK and associated data its
\* ciphertext was sealed with.
Bundles == [kek : Keks, state : {"active", "revoked"},
            account : Ids \cup {None}, device : Devices,
            sealed : [key : KekRefs, aad : Keks]]

ASSUME CustodyAssumption ==
    /\ Resolvable \subseteq KekRefs
    /\ ConfigKeks \subseteq Keks
    /\ Reload \in BOOLEAN
    /\ None \notin Procs \cup Objects \cup Refs \cup KekRefs
    /\ None \notin Keks /\ None \notin Bundles

Owners  == [account : Ids \cup {None}, device : Devices]
Targets == [ref : KekRefs \cup {None}, version : KekVersions]

Ops == {"create", "rotate", "restore", "revoke", "inspect"}

Calls == [pc     : {"called", "inspected", "read"},
          op     : Ops,
          object : Objects,
          ref    : Refs,
          arg    : Owners \cup Targets \cup {None},
          expect : KekVersions \cup {None}, \* version the rotate step inspected
          bundle : Bundles \cup {None}]     \* what was read and is to be rewritten

Resting == [pc : {"idle", "ok", "err"}]

VARIABLES
    disk,      \* Refs -> bundle file or None; survives a crash
    registry,  \* signalCustodyStores: Names -> Store object or None
    kek,       \* Store.cfg: Objects -> the KEK the object works with
    lock,      \* Store.mu: Objects -> the call that holds it, or None
    call,      \* the local state of each step
    fate       \* history: was each ref revoked since it was last created?

vars == <<disk, registry, kek, lock, call, fate>>

TypeOK ==
    /\ disk \in [Refs -> Bundles \cup {None}]
    /\ registry \in [Names -> Objects \cup {None}]
    /\ kek \in [Objects -> Keks \cup {None}]
    /\ lock \in [Objects -> Procs \cup {None}]
    /\ call \in [Procs -> Calls \cup Resting]
    /\ fate \in [Refs -> {"none", "revoked"}]

Init ==
    /\ disk = [r \in Refs |-> None]
    /\ registry = [n \in Names |-> None]
    /\ kek = [o \in Objects |-> None]
    /\ lock = [o \in Objects |-> None]
    /\ call = [p \in Procs |-> [pc |-> "idle"]]
    /\ fate = [r \in Refs |-> "none"]

-----------------------------------------------------------------------------
\* Modules and calls

Busy(p) == call[p].pc \in {"called", "inspected", "read"}

Unused(o) ==
    /\ \A n \in Names : registry[n] # o
    /\ \A p \in Procs : Busy(p) => call[p].object # o

\* custodyStoreModule.Init: a fresh Store with the configured KEK replaces the
\* registry entry; the object it replaces keeps serving the calls that hold it.
ModuleInit(n) ==
    /\ Reload \/ registry[n] = None
    /\ \E o \in Objects, k \in ConfigKeks :
          /\ Unused(o)
          /\ registry' = [registry EXCEPT ![n] = o]
          /\ kek' = [kek EXCEPT ![o] = k]
    /\ UNCHANGED <<disk, lock, call, fate>>

\* (Mutant: the fallback to the name of the store is lost.)
CustodyRefNoFallback(key, account, n) == IF key # None THEN key ELSE account

\* "custody://" + firstNonEmpty(idempotency_key, account_ref, store_ref)
CustodyRef(key, account, n) ==
    IF key # None THEN key ELSE IF account # None THEN account ELSE n

Begin(p, n, op, r, arg) ==
    /\ ~Busy(p)
    /\ call' = [call EXCEPT ![p] =
          IF registry[n] = None THEN [pc |-> "err"]
          ELSE [pc |-> "called", op |-> op, object |-> registry[n], ref |-> r,
                arg |-> arg, expect |-> None, bundle |-> None]]
    /\ UNCHANGED <<disk, registry, kek, lock, fate>>

\* What the steps are asked.  The KEK a restore names is a hint it checks; a
\* rotation without a new KEK ref keeps the one of the store.
CreateRequests ==
    [key : Ids \cup {None}, account : Ids \cup {None}, device : Devices]
RotateRequests  == [ref : Refs, newKek : Targets]
RestoreRequests ==
    [ref : Refs, kekRef : KekRefs \cup {None}, kekVersion : KekVersions \cup {None}]

\* lookupSignalCustodyStore is the first statement of every custody step.
CallCreate(p, n) ==
    \E in \in CreateRequests :
        Begin(p, n, "create", CustodyRef(in.key, in.account, n),
              [account |-> in.account, device |-> in.device])

CallRotate(p, n) ==
    \E in \in RotateRequests : Begin(p, n, "rotate", in.ref, in.newKek)

\* "inspect" stands for the Inspect, Attest and ExportRequest steps: all three
\* call Store.Inspect and change nothing.
CallOther(p, n) ==
    \E r \in Refs, op \in {"restore", "revoke", "inspect"} :
        Begin(p, n, op, r, None)

-----------------------------------------------------------------------------
\* Bundle files

\* encryptMaterial: the key is the secret of k.ref, the associated data names
\* the metadata's KEK.
Seal(k, meta) == [meta EXCEPT !.sealed = [key |-> k.ref, aad |-> meta.kek]]

\* decryptMaterial
Opens(k, b) ==
    k.ref \in Resolvable /\ b.sealed = [key |-> k.ref, aad |-> b.kek]

\* readBundleLocked succeeds; otherwise the file is missing, its KEK is not the
\* store's (ErrStaleKEKVersion) or its ciphertext does not open.
Readable(k, r) ==
    /\ disk[r] # None
    /\ disk[r].kek = k
    /\ Opens(k, disk[r])

Return(p, pc) == call' = [call EXCEPT ![p] = [pc |-> pc]]

Unlocked(p) == lock[call[p].object] = None
Acquire(p)  == lock' = [lock EXCEPT ![call[p].object] = p]
Release(p)  == lock' = [lock EXCEPT ![call[p].object] = None]

At(p, pc, op) == call[p].pc = pc /\ call[p].op = op

-----------------------------------------------------------------------------
\* Operations

\* Store.Create: no bundle is read, so whatever the ref held is overwritten.
\* The one visible effect of the critical section is the rename.
NewBundle(p) ==
    LET k == kek[call[p].object]
    IN Seal(k, [kek |-> k, state |-> "active", account |-> call[p].arg.account,
                device |-> call[p].arg.device,
                sealed |-> [key |-> k.ref, aad |-> k]])

Create(p) ==
    /\ At(p, "called", "create") /\ Unlocked(p)
    /\ kek[call[p].object].ref \in Resolvable
    /\ disk' = [disk EXCEPT ![call[p].ref] = NewBundle(p)]
    /\ fate' = [fate EXCEPT ![call[p].ref] = "none"]
    /\ Return(p, "ok")
    /\ UNCHANGED <<registry, kek, lock>>

\* The secret does not resolve, or a file operation before the rename fails.
CreateFails(p) ==
    /\ At(p, "called", "create") /\ Unlocked(p)
    /\ Return(p, "err")
    /\ UNCHANGED <<disk, registry, kek, lock, fate>>

\* Store.Restore, then the optional kek_ref / kek_version hints of the request.
Restore(p) ==
    /\ At(p, "called", "restore") /\ Unlocked(p)
    /\ LET k == kek[call[p].object]
           r == call[p].ref
       IN \E in \in RestoreRequests :
            /\ in.ref = r
            /\ Return(p, IF /\ Readable(k, r)
                            /\ disk[r].state # "revoked"
                            /\ in.kekRef \in {None, disk[r].kek.ref}
                            /\ in.kekVersion \in {None, disk[r].kek.version}
                         THEN "ok" ELSE "err")
    /\ UNCHANGED <<disk, registry, kek, lock, fate>>

\* Store.Inspect: a revoked ref can still be inspected.
Inspect(p) ==
    /\ At(p, "called", "inspect") /\ Unlocked(p)
    /\ Return(p, IF Readable(kek[call[p].object], call[p].ref) THEN "ok" ELSE "err")
    /\ UNCHANGED <<disk, registry, kek, lock, fate>>

\* ExecuteSignalCustodyRotate inspects the ref in a critical section of its own
\* to learn the KEK version it will then expect.
RotateInspect(p) ==
    /\ At(p, "called", "rotate") /\ Unlocked(p)
    /\ IF Readable(kek[call[p].object], call[p].ref)
       THEN call' = [call EXCEPT ![p].pc = "inspected",
                                 ![p].expect = disk[call[p].ref].kek.version]
       ELSE Return(p, "err")
    /\ UNCHANGED <<disk, registry, kek, lock, fate>>

MayRotateNoConflict(p) ==
    /\ Readable(kek[call[p].object], call[p].ref)
    /\ disk[call[p].ref].state # "revoked"

\* Store.Rotate up to its checks: stale or unreadable, revoked, conflict.
MayRotate(p) ==
    LET r == call[p].ref
    IN /\ Readable(kek[call[p].object], r)
       /\ disk[r].state # "revoked"
       /\ disk[r].kek.version = call[p].expect

\* Mutants of the steps below: Rotate or Revoke without the mutex, no conflict
\* check, the new label over the old key, an early return that keeps the mutex.
RotateReadNoLock(p) ==
    /\ At(p, "inspected", "rotate") /\ Unlocked(p)
    /\ IF MayRotate(p)
       THEN call' = [call EXCEPT ![p].pc = "read", ![p].bundle = disk[call[p].ref]]
       ELSE Return(p, "err")
    /\ UNCHANGED <<disk, registry, kek, lock, fate>>

RotateReadKeepsLock(p) ==
    /\ At(p, "inspected", "rotate") /\ Unlocked(p)
    /\ Acquire(p)
    /\ IF MayRotate(p)
       THEN call' = [call EXCEPT ![p].pc = "read", ![p].bundle = disk[call[p].ref]]
       ELSE Return(p, "err")
    /\ UNCHANGED <<disk, registry, kek, fate>>

RotateRead(p) ==
    /\ At(p, "inspected", "rotate") /\ Unlocked(p)
    /\ IF MayRotate(p)
       THEN /\ call' = [call EXCEPT ![p].pc = "read",
                                    ![p].bundle = disk[call[p].ref]]
            /\ Acquire(p)
       ELSE Return(p, "err") /\ UNCHANGED lock
    /\ UNCHANGED <<disk, registry, kek, fate>>

RotatedKek(p) ==
    [ref |-> IF call[p].arg.ref = None THEN kek[call[p].object].ref
             ELSE call[p].arg.ref,
     version |-> call[p].arg.version]

RotatedBundleOldKey(p) ==
    Seal(kek[call[p].object], [call[p].bundle EXCEPT !.kek = RotatedKek(p)])

RotatedBundle(p) ==
    Seal(RotatedKek(p), [call[p].bundle EXCEPT !.kek = RotatedKek(p)])

\* Store.Rotate from the rename: the KEK of the whole store moves with the one
\* bundle.  The rename and s.cfg = cfg are one step: cfg is read only under
\* the mutex and a crash between them loses cfg all the same.
RotateWrite(p) ==
    /\ At(p, "read", "rotate")
    /\ RotatedKek(p).ref \in Resolvable
    /\ disk' = [disk EXCEPT ![call[p].ref] = RotatedBundle(p)]
    /\ kek' = [kek EXCEPT ![call[p].object] = RotatedKek(p)]
    /\ Release(p)
    /\ Return(p, "ok")
    /\ UNCHANGED <<registry, fate>>

RevokeReadNoLock(p) ==
    /\ At(p, "called", "revoke") /\ Unlocked(p)
    /\ IF Readable(kek[call[p].object], call[p].ref)
       THEN call' = [call EXCEPT ![p].pc = "read", ![p].bundle = disk[call[p].ref]]
       ELSE Return(p, "err")
    /\ UNCHANGED <<disk, registry, kek, lock, fate>>

\* Store.Revoke: it does not ask whether the ref is already revoked.
RevokeRead(p) ==
    /\ At(p, "called", "revoke") /\ Unlocked(p)
    /\ IF Readable(kek[call[p].object], call[p].ref)
       THEN /\ call' = [call EXCEPT ![p].pc = "read",
                                    ![p].bundle = disk[call[p].ref]]
            /\ Acquire(p)
       ELSE Return(p, "err") /\ UNCHANGED lock
    /\ UNCHANGED <<disk, registry, kek, fate>>

RevokedBundle(p) ==
    Seal(kek[call[p].object], [call[p].bundle EXCEPT !.state = "revoked"])

RevokeWrite(p) ==
    /\ At(p, "read", "revoke")
    /\ disk' = [disk EXCEPT ![call[p].ref] = RevokedBundle(p)]
    /\ fate' = [fate EXCEPT ![call[p].ref] = "revoked"]
    /\ Release(p)
    /\ Return(p, "ok")
    /\ UNCHANGED <<registry, kek>>

\* writeBundleLocked fails before its rename: an unresolvable KEK or an error of
\* the file system.  The bundle and the store's KEK stay as they were.
WriteFails(p) ==
    /\ call[p].pc = "read"
    /\ Release(p)
    /\ Return(p, "err")
    /\ UNCHANGED <<disk, registry, kek, fate>>

\* The host process dies.  A temporary file it leaves behind has a unique name
\* and is never read, so only renamed bundles survive.
Crash ==
    /\ registry' = [n \in Names |-> None]
    /\ lock' = [o \in Objects |-> None]
    /\ kek' = [o \in Objects |-> None]
    /\ call' = [p \in Procs |-> [pc |-> "idle"]]
    /\ UNCHANGED <<disk, fate>>

Serve(p) ==
    \/ Create(p) \/ CreateFails(p) \/ Restore(p) \/ Inspect(p)
    \/ RotateInspect(p) \/ RotateRead(p) \/ RotateWrite(p)
    \/ RevokeRead(p) \/ RevokeWrite(p) \/ WriteFails(p)

Next ==
    \/ \E n \in Names : ModuleInit(n)
    \/ \E p \in Procs, n \in Names :
          CallCreate(p, n) \/ CallRotate(p, n) \/ CallOther(p, n)
    \/ \E p \in Procs : Serve(p)
    \/ Crash

Spec == Init /\ [][Next]_vars

\* Go's sync.Mutex hands itself to a waiter that has waited long enough, so a
\* step that is repeatedly offered the mutex gets it.
FairSpec == Spec /\ \A p \in Procs : SF_vars(Serve(p))

-----------------------------------------------------------------------------
\* Properties

Succeeds(p, pc, op) == At(p, pc, op) /\ call'[p].pc = "ok"

\* The clear metadata of a bundle always names the KEK and associated data its
\* ciphertext was sealed with, so no sequence of creates, rotations and
\* revocations, failed writes or crashes leaves material that will not open
\* (writeBundleLocked, aad, and the cfg / metadata pair Rotate changes).
SealedUnderItsLabel ==
    \A r \in Refs : disk[r] # None =>
        disk[r].sealed = [key |-> disk[r].kek.ref, aad |-> disk[r].kek]

\* A rotation or a revocation rewrites what is on disk at that moment: it keeps
\* the ref's owner and never turns a revoked bundle back into an active one.
\* Only Create replaces a bundle (the read-modify-write of Rotate and Revoke).
OnlyCreateReplaces ==
    [][\A r \in Refs : disk'[r] # disk[r] =>
          \/ \E p \in Procs : Succeeds(p, "called", "create") /\ call[p].ref = r
          \/ /\ disk[r] # None
             /\ disk'[r].account = disk[r].account
             /\ disk'[r].device = disk[r].device
             /\ disk[r].state = "revoked" => disk'[r].state = "revoked"]_vars

\* When Rotate renames, the bundle on disk is active and still carries the KEK
\* version the step inspected: the two critical sections of
\* ExecuteSignalCustodyRotate together are a compare-and-swap on the version.
RotateIsCompareAndSwap ==
    [][\A p \in Procs : Succeeds(p, "read", "rotate") =>
          /\ disk[call[p].ref].state = "active"
          /\ disk[call[p].ref].kek.version = call[p].expect]_vars

\* A ref whose latest acknowledged change of life is a revocation (a later Create
\* with the same idempotency key or account starts another life) is never
\* restored, across rotations in flight, crashes and restarts (Store.Restore,
\* ErrRevokedRef).
RestoreHonoursRevocation ==
    [][\A p \in Procs : Succeeds(p, "called", "restore") =>
          fate[call[p].ref] # "revoked"]_vars

\* Every call returns, or dies with its host: no path keeps a Store's mutex.
CallsReturn == \A p \in Procs : Busy(p) ~> ~Busy(p)

=============================================================================
