# TLA+ verification of workflow-plugin-signal

TLA+ modules that model the stateful parts of this plugin, TLC instances that
check them, and TLAPS proofs of their main safety properties. Paths below are
relative to `src/`; `PROJECT.json` maps every definition to the lines it models.

## 1. The system

The plugin runs inside a workflow host. Modules are created from configuration
and registered by `Init` in package-level maps, each under its own mutex.
Workflow steps (`ExecuteSignal...`) run concurrently, look a module's object up in
one of those maps and then work on the object with the object's own mutex. No
step ever holds two mutexes. Nothing is unregistered: a second `Init` under the
same name replaces the entry while steps may still hold the object it replaces.

| Component | Source | State | Operations | Modelled by |
|---|---|---|---|---|
| A. Sealed custody store | `internal/custody/sealed_store.go`, `internal/custody_steps.go`, `internal/custody.go:163-192` | one bundle file per ref; the KEK each Store works with; Store mutex; registry | Create, Rotate, Restore, Revoke, Inspect (also Attest, ExportRequest), Init | `CustodyStore` |
| B. Envelope store | `internal/envelope_store.go`, `internal/envelope_steps.go` | outbox and inbox maps; one file and its temporary file; store mutex; registry | enqueue, claim, receive, decrypt, retention, persist, load, Init | `EnvelopeStore` |
| C. Linked-device ceremony | `internal/steps_service_operations.go:16-101` | claims of consents, in memory | link prepare | `LinkCeremony` |
| D. Service test steps and transports | `internal/service_test_steps.go`, `internal/service_transport.go` | the ledger of the test steps; a ledger and records per transport; registry | seven test steps, live submit, transport Init | `ServiceLedger` |
| E. Persistent custody | `internal/custody.go:194-354` | the seed file; two registries | Init (load or create), derive | `PersistentCustody` |
| F. Account and custody registry, prepare readiness | `internal/key_custody.go`, `internal/steps_service_operations.go:103-301`, `internal/service_test_steps.go:201-244` | custodies, accounts (with the custody object found when registered) | two Inits, the lookups of the prepare steps, the test steps and the live submit | `Readiness` |
| G. Signal identities and sessions | `internal/modules.go:104-194`, `internal/steps.go:58-213` | keys and an in-memory session store per identity | Init, session prepare, encrypt, decrypt | `SignalSession` |
| H. Configuration gates and approvals | the `new...Module` functions, `internal/provider.go:98-162`, `internal/service_transport.go:77-181`, `internal/service_boundary.go`, `internal/service_compliance.go` | a module between creation and Init; the registered transport; approvals that expire | creating a module, Init, live submit, approval_validate (the other check steps are pure and left out) | `ModuleGates` |
| Key derivation, fingerprints, username links | `internal/steps.go` | none | pure calls of external libraries | no |
| Provider and contracts | `internal/provider.go`, `internal/contracts` | none | dispatch, generated messages | creation in `ModuleGates`; the messages are the record sets named `...Requests` and `...Configs` |
| Triggers, spaces, audit writer, adapter fixture | `internal/modules.go`, `internal/custody/audit.go`, `internal/serviceadapter` | none that is read back | appends | no |

How they interact: `inbox_decrypt` (B) ends in a Signal decrypt (G); a persistent
custody (E) registers itself as a custody of F; the link ceremony (C) and the test
steps (D) resolve an account and its custody in F before they go on. A shares
nothing with the others but its module registry. In the modules of A to D such a
call is a nondeterministic success or failure, which is all their state sees; what a
lookup may return is the subject of `Readiness`.

What is hard about each:

* **A** the mutex guards an object, the files belong to a directory; a rotation
  changes a file and the KEK of the object; revocation must survive everything.
  It is correct when a bundle always opens under the KEK it names, when read-modify-write
  operations lose nothing, and when a revoked ref is not restored.
* **B** memory is changed before the file and is not rolled back; temporary file
  and rename; retention removes records without looking at their status. Correct
  when an envelope has one claimant and what was acknowledged survives.
* **C** the clock is read before the mutex, and claims are forgotten by time.
  Correct when a consent is not accepted twice while it is valid.
* **D** copy, compute, replace: a read-modify-write outside the mutex. Correct when
  a key is accepted for one request and the records say so.
* **E** a secret is created on first use and written in place, and nothing can
  restore it. Correct when the keys of a ref come from one seed for ever and no key
  comes from a seed that is not safely in its file.
* **F** two lookups under two locks, and a pointer cached at registration. Correct
  when an operation is attested or signed only with a custody of its own account,
  as registered at that moment.
* **G** a session is stored and loaded again without a lock in between, and each
  pre-key message or bundle replaces the session before it. Correct when a sound
  envelope opens and what is sealed is sealed for the bundle that was asked for, whatever else
  goes on with other addresses, other identities or the object a second Init replaced.
* **H** a configuration is judged when the module is created and used long after; approvals expire in
  between. Correct when no file-backed module slips past the policy and no live
  operation runs without an approval that is valid when it is submitted.

## 2. The modules and how they correspond to the code

All modules have the same form. `call[p]` is the local state of step `p` between
the points where another step may interfere: a lookup, each critical section, and
each effect on the file system that another store or a crash can observe. An
operation that runs in one critical section and has at most one effect outside
memory is one action. `Return` ends a call as "ok" or "err". Variables named
*history* in the declarations are not part of the program: properties use them to
remember acknowledged operations.

**CustodyStore.** `disk` holds the bundle files, `registry` the module map, `kek`
and `lock` the fields of each Store. A bundle is its metadata (KEK, state, account,
device) and what its ciphertext was sealed with (key and associated data), so `Opens` can tell
whether AES-GCM would open it. Create has one visible effect (the rename) and is one action.
Rotate and Revoke are split at the point between reading the bundle and renaming
the new one, with the mutex held; the rotate step's earlier Inspect is a critical section
of its own. `WriteFails` is any error before the rename, `Crash` the death of the
host. Every ref is one of the names `firstNonEmpty` may produce in
`ExecuteSignalCustodyCreate`, where idempotency keys and account refs share one
name space. All modules are configured with one backend id and one directory, the case
in which they interfere. The history `fate` says whether a ref was revoked since it was last created.

**CustodyRegister, CustodyRefinement.** `CustodyRegister` is what the store promises while one
Store object serves the directory: a map of entries (KEK, state, owner) and the KEK the store works
with, changed by atomic operations. There are no files, mutexes or ciphertexts. An operation takes
effect in one step between its call and its return, and returns "ok" only when the entry allows it at that
moment; a failing one has no effect; `Down` forgets calls and KEK and keeps entries.
`CustodyRefinement` maps CustodyStore to it: an entry is the bundle on disk less its ciphertext, the KEK
is that of the registered object, and a call is pending until it returns. Create, Rotate and Revoke
take effect at their rename; what is read before that is a stutter.

**EnvelopeStore.** `mem` is the state of each store object, `file` and `tmp` the two
paths of `persistLocked`. An operation changes memory (`Enqueue`, `Receive`,
`Claim`), then `PersistWrite` and `PersistRename` follow with the mutex held;
`PersistFails` returns an error and keeps the change in memory, as the code does.
`Torn` is the content of a temporary file whose writing was cut short.
`ModuleLoad` and `ModuleRegister` are the two halves of `Init`. A module may come up with another
`retention_limit` than the one that wrote the file: `limit` belongs to the object, `ModuleLoad` picks it, and the queues are
loaded as they are, over the limit or not. `Put` brings them back; a claim or a decrypt does not. `CutTo` leaves the
choice among equally old records open, as the iteration order of a Go map does.

**EnvelopeQueue, EnvelopeRefinement.** `EnvelopeQueue` is what the store promises while one object serves the
path: two queues, changed by one request at a time, and a saved copy of both, which is all a restart brings back.
A request returns "ok" only when the queues as it left them are saved; one that fails may have changed them, and the next to
succeed saves that as well: the code does not roll back, and the abstract specification says so. Retention is stated by what it
keeps (`Retains`), without a loop: what is held is within the limit, and nothing went that did not have to. A start picks the limit. `EnvelopeRefinement` maps EnvelopeStore to it: the saved queues are what a load of the file
would bring back, the queues are the memory of the registered object, and a call that has changed memory is "applied" until
it returns. The rename is `Commit`; the temporary file, the mutexes and a loaded object that is not registered yet are not seen.

**LinkCeremony.** `Sample` is everything `validateLinkedDeviceCeremony` does before
its mutex, with the clock value it keeps; `Claim` is the critical section;
`Prepare` is what follows the validation, which may fail and leaves the claim. The clock only advances.

**ServiceLedger.** `ledger` maps the test steps' ledger and each transport's to their entries. `TestStep` and `SubmitClone` take
the copy, `Accept` and `Challenge` put the client's ledger back, `Fail` does not. The fake client is an
external library, modelled by how the code uses it: it refuses a key its ledger holds for another request and enters an accepted
one; whether a challenged request is entered is left open.

**PersistentCustody.** `file` is the content of each ref's storage path, `persistent` and
`custodies` the two maps. Nothing guards the file: an Init looks for it (`FindNone`, `Load`),
creates or truncates it (`Truncate`), fills it (`WriteSeed`) and then takes the two
mutexes one after the other (`RegisterSeed`, `RegisterCustody`). `Torn` is a file that
does not hold a whole envelope: what a crash or a failed write leaves. The refs of the
configuration are one value, the owner: the file is compared with them and bound to them
by its associated data, and the host secret is a function of one of them. A seed is fresh
when nothing holds it. Inits of one ref may overlap; the history `raced` remembers which refs had that.

**Readiness.** `custodies` and `accounts` are the two maps; their objects are never
modified, so a record stands for a pointer. `AccountLookup` and `AccountRegister` are the two
halves of `accountRefModule.Init`. A step is two actions, its lookup of the account and its lookup
of the custody with everything that follows from it: `PrepareLookup` and `PrepareResolve` for the prepare,
admit and respond steps (`resolveServicePrepareReadiness`), `TestLookup` and `TestResolve` for the
test steps and the live submit (`serviceTestRequestContext`). The custody of an account
found at registration has the ref the account names, so the two ways the prepare steps
take that ref are one. Every custody names an account: both constructors require it.

**SignalSession.** An object stands for a generated identity and its keys, `session` for its session store.
`EncryptStart` is `ExecuteSignalEncrypt` up to `ProcessPreKeyBundle`, which stores a session; `DecryptStart` is
`ExecuteSignalDecrypt` up to `StoreSession`; `Load` is the library's look at the store, and `EncryptEnd`,
`DecryptEnd` and `DecryptRefused` its end. Between any two of them other steps may store a session of the same
address. `envelopes` only grows, and any of them may be given to a decrypt step at any time: reordering,
repetition and loss. The library is modelled by which session opens which message: a session has the base key of
the message that made it, opens what its counterpart sealed with it, and each pre-key message once. A message
that follows others of its session may be refused. The history `disturbed` remembers which steps stored a session of
the address while a step was at it. `remote_id` and `local_id` are the identity's address.

**ModuleGates.** A behaviour follows one module type and one name: configurations are created (`Create`, where
the constructor accepts or refuses), initialised, replaced; submissions (`ResolveRequest`, `ResolveTransport`)
sample the clock, then open a transport (`Submit`, `Denied`, `Fails`), with time passing in between. A configuration is the answers to
the questions the constructor asks: is every ref given (`named`), which backend, which policy, which opt-in. Policy
spellings are values with a normal form (`Normalised`). A package is the set of actions it is
complete for and the time the first of its parts expires. `ApprovalValidate` is a run of `approval_validate` that refuses a
package; the history `refused` remembers the last one, so that later submissions can be held against it. An answer that allows is a stutter.

In every module the record sets named `...Requests`, `...Configs` or after a message are the messages of
`internal/contracts/signal.pb.go`, reduced to the fields the model reads.

Operators that end in the name of a defect (`RotateReadNoLock`, `ClaimInMemory`,
...) stand before the definition they vary. No specification uses them; they show that a
property depends on the definition.

## 3. What TLC checks

| Run | Expect | Properties | Shows |
|---|---|---|---|
| `custody_sole` | pass | TypeOK, SealedUnderItsLabel, OnlyCreateReplaces, RotateIsCompareAndSwap, RestoreHonoursRevocation, ImplementsRegister | A with one Store object over the directory, and that it implements the register |
| `custody_shared` | pass | SealedUnderItsLabel, CallsReturn | A with two Store objects over one directory; every step returns |
| `envelope` | pass | TypeOK, ClaimedAtMostOncePerEnqueue, AcknowledgedIsOnDisk, FileIsWhole, RetentionHolds, ImplementsQueue | B, either backend, with crashes, failed writes and restarts under another retention limit, and that it implements the queues |
| `link` | pass | TypeOK, NoTwoCeremonies, NoReplayBeforeExpiry | C, with restarts of the host; admissions are counted per host process |
| `link_stale` | violation | ArtifactAdmittedOnce | a stale clock admits an artifact twice |
| `ledger` | pass | TypeOK, IdempotentUndisturbed, RecordsAreComplete | D with overlapping steps |
| `ledger_overlap` | violation | TestStepsAreIdempotent | two overlapping test steps have one key accepted for two requests |
| `seed` | pass | TypeOK, SeedIsForever, SeedIsOnDisk, RegistriesAgree | E with crashes, failed writes, overlapping Inits and modules configured for another account |
| `readiness` | pass | TypeOK, KeptCustodyIsOwn, AttestedCustodyIsOwn, NoStaleKey | F with registrations between the two lookups of a step |
| `session` | pass | TypeOK, PreKeyMessagesOpen, EncryptsForItsBundle, OnlyItsOwnMessagesOpen | G with an identity initialised twice and envelopes reordered, repeated and lost |
| `session_clobber` | violation | EveryPreKeyMessageOpens | two decrypt steps for one sender clobber each other's session |
| `gates` | pass | TypeOK, FilesAreOptedIn, LiveRunsAreApproved, RefusalIsFinal | H with approvals that expire between creation, submission and use, and packages refused before |

The violation runs are disagreements between what a document or a test says and what the
code does; `PROJECT.json` quotes the line for each. None of them needs a module initialised
twice. Two more properties one might expect fail in the models as in the code; they are
not runs, since nothing says that the code has them:

* a create repeated with the same idempotency key or account after a revocation overwrites the revoked
  bundle, and the ref can be restored again (`sealed_store.go:111-135`). RestoreHonoursRevocation therefore
  counts a create as the start of another life of the ref;
* a repeated enqueue puts a claimed envelope back in the queue (`envelope_store.go:174`). ClaimedAtMostOncePerEnqueue counts claims per
  enqueue.

Nor is it a failure that a rotation makes the other refs of its directory stale: that is designed and tested
(`sealed_store_test.go`, TestSealedStoreRejectsStaleKEKVersion). The register has it so: an operation succeeds only on an
entry of the KEK the store works with.

IdempotentUndisturbed, PreKeyMessagesOpen and EncryptsForItsBundle exclude the steps whose ledger or session an
overlapping step has replaced. `ledger_overlap` and `session_clobber` show what happens to those.

A second `Init` for a store in use, which replaces the object while steps still hold the
old one with its own mutex, is the constant `Reload`. `custody_shared` and `ledger` allow it.
`custody_sole` and `envelope` do not, because what they check needs one object:
with `Reload = TRUE` (and two Store objects), RestoreHonoursRevocation fails, as a
rotation on the old object overwrites a revocation made through the new one
(`custody.go:164-177`), and so does ClaimedAtMostOncePerEnqueue, as the new envelope store has
read the file before a claim on the old one (`envelope_store.go:100-109`).

Bounds, and why they suffice:

* Two steps in flight (three for `link`, where a third step prunes while two race
  for one consent). Every hazard listed is between two steps, or a step and a
  crash. Steps may be called again and again; crashes and restarts are unbounded.
* Custody: two refs (an account and the module's own name) and one device in `custody_sole`, so that a rotation of one leaves the other
  stale; two KEK refs and two versions: enough for a wrong key, a wrong label, a stale version and a conflict. Both secrets
  resolve; one that does not ends a call as a failed write does, and the proofs take any set of resolvable ones.
  `custody_shared` has one ref, two Store objects and one KEK version.
* Envelope: two refs and a retention limit of one or two at each start, so that under the one every enqueue of the
  other ref evicts, and a queue filled under the two is loaded under the one; two messages, so that an overwritten one is noticed. Requests
  carry one time; ties let retention remove any record, which covers every order of
  times. `ClaimCap` stops the claim counter at 2, one more than the property allows.
* Link: a clock of three ticks and expiries up to one past it, so that consents
  expire before, between and after the steps' looks, and one never does.
* Ledger: two transport objects under one ref, one key, two requests.
* Seed: two refs with two owners, and three seeds, so that two Inits may hold a seed each
  while a third is in a file.
* Readiness: two accounts and two custody refs, so that a foreign custody and a wrong
  ref both exist; one key, given or not. One account Init and one step are in flight: neither
  writes what another step reads, and registrations happen between any two of their actions.
* Sessions: two identities, one of which is generated twice, so that bundles and sessions of replaced keys
  exist; `Links` restricts the pairs of identity and address whose sessions are used. Two messages per session, so that one
  can be skipped or repeated; base keys are reused when nothing holds them any more.
* Gates: `Configured` lists, for each type, configurations on both sides of each condition, and the spellings
  of a production policy; three packages (complete for everything, for one action, for none), which expire at the first or the second tick of the clock.

Model values are permuted (SYMMETRY) in the safety runs only. Four modules have instances with a VIEW. It identifies
states which differ only in how a finished call ended; in `envelope` also those which differ only in a temporary file that
no call is about to rename (with one store at a time it is written again before any rename); in `gates` also those which differ only in
what `Opens` does not ask about: the endpoint of a live gate, the approval and actions of another one. No action, invariant or
action property reads any of that, nor does an action of `CustodyRegister` or `EnvelopeQueue`.

**Fairness.** `CallsReturn` is checked under strong fairness of each step's service
actions. A Go step is a goroutine the scheduler keeps running; the only thing it
waits for is `sync.Mutex`, whose starvation mode hands the mutex to a waiter that
has waited more than a millisecond. A waiter that is offered the mutex again and
again therefore gets it, which is what strong fairness says; weak fairness would not do, because
other calls take the mutex in between. No fairness is assumed of new calls, of `Init` or of crashes.

## 4. What TLAPS proves

For every value of the constants that meets the named assumptions
(`CustodyAssumption`, `RegisterAssumption`, `LinkAssumption`, `PersistentAssumption`, `ReadinessAssumption`,
`LedgerAssumption`, `GatesAssumption`, `EnvelopeAssumption`, `FileAssumption`, `SessionAssumption`,
`AbsenceAssumption`), which say no more than that the constants have their types and that `None` is none of the
values, nor `Torn` (a file cut short) a state a file may hold:

| Module | Theorem | Statement |
|---|---|---|
| `CustodyStoreProofs` | TypeCorrect | `Spec => []TypeOK` |
| | LabelsAreTrue | `Spec => []SealedUnderItsLabel`, any number of Store objects |
| | RevocationHolds | `SoleStore` implies `Spec => RestoreHonoursRevocation` |
| | RotationIsAtomic | `SoleStore` implies `Spec => RotateIsCompareAndSwap` |
| | NoLostUpdate | `SoleStore` implies `Spec => OnlyCreateReplaces` |
| | RegisterImplemented | `SoleStore` implies `Spec => ImplementsRegister` |
| `LinkCeremonyProofs` | TypeCorrect | `Spec => []TypeOK` |
| | Exclusion | `Spec => []NoTwoCeremonies` |
| | NoReplay | `Spec => NoReplayBeforeExpiry` |
| `PersistentCustodyProofs` | TypeCorrect | `Spec => []TypeOK` |
| | OneSeed | `Spec => []SeedIsForever` |
| | SeedSurvives | `Spec => []SeedIsOnDisk` |
| | MapsNameOneOwner | `Spec => []RegistriesAgree` |
| `ReadinessProofs` | TypeCorrect | `Spec => []TypeOK` |
| | KeptCustodyHolds | `Spec => []KeptCustodyIsOwn` |
| | AttestationSound | `Spec => AttestedCustodyIsOwn` |
| | NoStale | `Spec => NoStaleKey` |
| `ServiceLedgerProofs` | TypeCorrect | `Spec => []TypeOK` |
| | RecordsComplete | `Spec => []RecordsAreComplete` |
| | Idempotent | `Spec => []IdempotentUndisturbed` |
| `ModuleGatesProofs` | TypeCorrect | `Spec => []TypeOK` |
| | FilesOptedIn | `Spec => []FilesAreOptedIn` |
| | LiveApproved | `Spec => LiveRunsAreApproved` |
| | RefusalFinal | `Spec => RefusalIsFinal` |
| `EnvelopeStoreProofs` | TypeCorrect | `Spec => []TypeOK` |
| | RetentionKept | `~Reload` implies `Spec => RetentionHolds` |
| | ClaimedAtMostOnce | `~Reload` implies `Spec => []ClaimedAtMostOncePerEnqueue` |
| | AcknowledgedSurvives | `~Reload` implies `Spec => []AcknowledgedIsOnDisk` |
| | WholeFile | `~Reload` implies `Spec => []FileIsWhole` |
| | QueueImplemented | `~Reload` implies `Spec => ImplementsQueue` |
| `SignalSessionProofs` | TypeCorrect | `Spec => []TypeOK` |
| | PreKeyOpens | `Spec => PreKeyMessagesOpen` |
| | EncryptsForBundle | `Spec => EncryptsForItsBundle` |
| | OnlyItsOwnOpen | `Spec => OnlyItsOwnMessagesOpen` |

`SoleStore` is the condition that one Store object serves the directory: one module,
not initialised again while it is registered (a restart of the host in between is
allowed). RestoreHonoursRevocation needs it: see `Reload` in section 3. `~Reload` is the same condition for the
envelope store: one object at a time works on the path, and a restarted host makes another.

*Custody, any number of objects.* `SealedUnderItsLabel` is not inductive: Revoke
seals with the KEK the Store has when it renames and keeps the label it read
earlier. `GInv` adds that a Store's mutex is held by exactly the call that is
between its read and its rename (`LockHeld`) and that such a call has read a bundle whose label is the KEK its
Store still has (`CallShape`, `KekSet`). Since only the holder of the mutex moves the KEK, label and
key agree at the rename.

*Custody, one object.* `SInv` adds that all calls in flight use the registered
object, that what a call has read is still what the disk holds
(`ReadIsCurrent`), and that a ref whose latest change of life is a revocation is revoked
on disk (`RevokedOnDisk`). With one object and its mutex nobody renames between a
read and its rename, except a Create, which takes the same mutex. The three action properties
follow from `SInv` in the state before the step.

*Custody, refinement.* Each step maps to the register's operation of the same name, to `Fail`, or to a stutter
(`ServeMaps`, `NextMaps`). `SInv` gives what the mapping needs at a rename: the KEK of the object is still
the one the bundle was read with, and what was read is still on disk, so the entry the register changes is the
one the step checked. `ReadOpened` adds that a call that has read a bundle could resolve its secret.

*Link ceremony.* `IInv` says that every expiry a consent was ever admitted with has
passed or is covered by a claim at least as late (`Covered`), that no step's
sample is ahead of the clock (`NowIsPast`), and that a step about to prepare is among
the admitted (`HoldersAdmitted`). A late step prunes with an old time, hence too little, so `Covered` survives.

*Persistent custody.* `IInv` says, for each ref that never raced, that at most one Init of
it is in flight, that what is registered and what keys were derived from is what
the file holds, and that an Init which has read or written the file carries its content. An Init
that is about to write has found no file, hence nothing was derived yet; once there is
a content in the file no action of an unraced ref replaces it.

*Readiness.* The account Init's check is made long before it registers; the record it
carries cannot change, so `PendingIsOwn` takes the check to the registration and
KeptCustodyIsOwn follows. `TestHoldsRecord` says the same of the record a test step holds, and that
a step without a custody ref holds a record without one, hence without a custody: that is why the
custody an account keeps never supplies a key. Both action properties follow from the
invariant in the state before the step.

*Ledgers.* `LedgerHolds` says that an undisturbed ledger has, under each key, what the key was accepted for, and
`CopyIsCurrent` that a step's copy of such a ledger is the ledger. A step that puts back while another one has a copy
disturbs the ledger, so in an undisturbed ledger nobody's copy grows old, and the client's conflict check on the copy
is a check on the ledger. RecordsAreComplete is inductive with the types: a step only adds to the records.

*Gates.* A configuration is judged when its module is created, under the clock of that moment, and registered later;
`InstanceIsAccepted` and `RegisteredIsAccepted` carry the verdict. `TimeIsSampled` says that a submission holds the
approval against a time no earlier than its call, which is where an approval that expired between the registration
and the submission is refused. For RefusalIsFinal, `RefusalIsMeant` keeps what a refusal was made of: its package is not complete for
its actions, for any time, or had expired at the time of the refusal, which no later submission's time precedes. `RunsThroughTheGate`
is what both action properties use: a submission that returns "ok" has opened its gate.

*Envelopes, retention.* A load may bring in queues over the limit, so "a queue fits its limit" is no invariant of this store; what holds is
`PendingWithinLimit`, of the queue of a call between its enqueue or receipt and its return. `PutWithinLimit` is the arithmetic on
cardinalities that enforceRetentionLocked gets there from any finite queue, `QueuesFinite` that every queue in memory and in either file is
finite. `PendingStep` needs the one store below: nobody else touches the queue before the rename, which saves it as it is (`AcknowledgedWithinLimit`).

*Envelopes, one store.* `OnStore` says that all calls in flight work on the registered object. What the mutex gives is
then that nobody touches memory between a call's change and its rename: the record it changed is still there
(`PendingIsStored`) and the temporary file it wrote is what memory holds (`WrittenIsCurrent`). `SentIsOver` says of an envelope
whose claim was acknowledged that it is queued neither in memory nor in the file, and that no claim of it is on its way;
`AckedIsKept` that an acknowledged one is in both. They must speak of both places: a crash falls back to the file, and the
next rename replaces the file with memory. With two stores the second one's memory is older than the first one's file, and
`SentIsOver` fails, as the property does.

*Envelopes, refinement.* Each step maps to the queue's operation of the same name, to `Commit`, `Fail`, `Up`, `Down`, or to a
stutter (`ServeMaps`, `NextMaps`). That one request at a time has been applied is `OnStore` with the mutex; that a
rename saves the queues as they are is `WrittenIsCurrent`. `LoadedIsSaved` adds that an object which is loaded and not yet
registered holds what is saved, and has one of the limits a start may pick: there is no registered one, hence no call that could rename. `RetainedKeepsNewest` shows
that what `CutTo` may leave is what `Retains` asks for, however far over its limit the queue was.

*Sessions.* OnlyItsOwnMessagesOpen is not inductive: a decrypt opens with whatever session the library has loaded, which
any step may have stored. `Parties` says that all sessions and messages of one base key have the same two ends, the
sessions in the hands of steps in flight included. A step may store a session with a new base key, one without a counterpart,
one with the ends of the message it answers, or one with the ends of the session it loaded (`Origin`); `PartiesStay`
shows once that none of them mixes ends. `Undisturbed` says that a step at whose session nobody stored anything
goes on with exactly the session it started, and that nothing was sealed with a base key it generated.
The latter needs one more clause in `OneParty`: before the first message of a base key, its sessions are all at one
address of one object, so whoever seals with it has stored a session there, and disturbs the step.

Only model-checked: liveness (`CallsReturn`), which under fairness is outside what the prover handles, and the violation
runs. Every other property of a passing run is a theorem.

## 5. What is not modelled

* Loss of power: the custody store syncs its file but not the directory, the
  envelope store syncs neither. Crashes here are deaths of the process.
* Two processes over one path. The two-object instances cover the interleavings inside one process; two envelope
  stores writing `<path>.tmp` at the same instant, with their bytes mixed, are not covered.
* Two persistent custodies configured with one storage path; a `signal.key_custody` module under the ref of
  a persistent custody. Two Inits of one ref in flight together may make two seeds, or leave a file that
  mixes two writes (`Written`); the code does not prevent it, and the properties
  except such refs. A torn seed file is rejected by every later Init and stays so.
* Requests that fail validation and the wording of errors; audit and attestation refs.
* Replay protection of link consents across restarts: claims are kept in memory, so a
  restarted host admits an unexpired consent again. The model has the restart; the
  properties, and the history `admitted` they use, speak of one host process. A consent
  that is claimed by a ceremony whose preparation fails stays used.
* A submission without a transport starts from an empty ledger and overwrites that of the test steps
  (`service_transport.go:185`); the model has it and counts such a ledger as disturbed.
* A store restarted with a lower `retention_limit` keeps a queue over it until the next request that adds to that queue
  (`envelope_store.go:246-269`). The model has it; RetentionHolds speaks of the request that adds.
* Retention may remove an envelope nobody has claimed, even the one being
  enqueued. The properties speak of what retention has kept.
* The external libraries: libsignal, the fake service client, the policy library. Whether libsignal keeps a
  session that is replaced aside (the module says a replaced session is gone), and whether the service
  client checks an approval for each operation.
* Through a registered transport, a live submission is held against the actions its module was configured with, not
  against the operation it asks for (`service_transport.go:153-159`): the model has it so, and
  LiveRunsAreApproved speaks of the transport's actions.
* What policy_check, compliance_check and contract_check answer: pure functions of a request, of which nothing else depends.
* Key derivation, fingerprints, username links, the manifest and the contract registry: pure functions without
  state. The audit writer appends one line and keeps nothing; the adapter fixture is a counter for tests.

## 6. Plan

What is left, the most valuable first:

1. `Readiness` composed with `LinkCeremony` through `Prepare`, and with the second map that
   `PersistentCustody` fills.
