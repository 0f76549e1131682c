------------------------- MODULE CustodyStoreProofs -------------------------
(***************************************************************************)
(* What holds of the sealed custody store for every set of steps, Store    *)
(* objects, refs and KEKs: in general, that no bundle is ever sealed under *)
(* another KEK than its label names; of a sole Store object, that          *)
(* revocations and rotations are never lost and that it implements the     *)
(* atomic register of CustodyRegister.                                     *)
(***************************************************************************)
EXTENDS CustodyRefinement, TLAPS

-----------------------------------------------------------------------------
\* The invariant of any number of Store objects over the directory

\* The operation a call is in fixes what its other fields hold.
CallShape ==
    \A p \in Procs : Busy(p) =>
        /\ call[p].op = "create" => call[p].arg \in Owners
        /\ call[p].op = "rotate" => call[p].arg \in Targets
        /\ call[p].pc = "inspected" => call[p].op = "rotate"
        /\ call[p].pc = "read" => /\ call[p].op \in {"rotate", "revoke"}
                                  /\ call[p].bundle \in Bundles

\* An object that something refers to has its KEK.
KekSet ==
    /\ \A n \in Names : registry[n] # None => kek[registry[n]] # None
    /\ \A p \in Procs : Busy(p) => kek[call[p].object] # None

\* Between its read and its rename a call holds the mutex of its object, whose KEK
\* is therefore still the one the bundle was read with.
LockHeld ==
    \A p \in Procs : call[p].pc = "read" =>
        /\ lock[call[p].object] = p
        /\ call[p].bundle.kek = kek[call[p].object]

GInv == TypeOK /\ CallShape /\ KekSet /\ LockHeld /\ SealedUnderItsLabel

\* A call in progress is a well-typed call of an object that has its KEK.
LEMMA BusyCall ==
  ASSUME GInv, NEW p \in Procs, Busy(p)
  PROVE  /\ call[p] \in Calls
         /\ call[p].object \in Objects
         /\ call[p].ref \in Refs
         /\ kek[call[p].object] \in Keks
<1>1. call[p] \in Calls
  BY DEF GInv, TypeOK, Busy, Resting
<1>2. call[p].object \in Objects /\ call[p].ref \in Refs
  BY <1>1 DEF Calls
<1>3. kek[call[p].object] \in Keks
  BY <1>2 DEF GInv, TypeOK, KekSet
<1> QED BY <1>1, <1>2, <1>3

\* Two calls between read and rename are never in the same object.
LEMMA OneReaderPerObject ==
  ASSUME GInv, NEW p \in Procs, NEW q \in Procs,
         call[p].pc = "read", call[q].pc = "read",
         call[p].object = call[q].object
  PROVE  p = q
BY DEF GInv, LockHeld

\* Sealing replaces nothing but the seal.
LEMMA SealKeeps ==
  ASSUME NEW k \in Keks, NEW b \in Bundles
  PROVE  /\ Seal(k, b) \in Bundles
         /\ Seal(k, b).kek = b.kek /\ Seal(k, b).state = b.state
         /\ Seal(k, b).account = b.account /\ Seal(k, b).device = b.device
         /\ Seal(k, b).sealed = [key |-> k.ref, aad |-> b.kek]
BY DEF Seal, Bundles, Keks

\* A call that only returns, letting go of the mutex if it held it, keeps GInv.
LEMMA ReturnKeeps ==
  ASSUME GInv, NEW p \in Procs, NEW pc \in {"ok", "err"},
         call' = [call EXCEPT ![p] = [pc |-> pc]],
         \/ lock' = lock
         \/ call[p].pc = "read" /\ lock' = [lock EXCEPT ![call[p].object] = None],
         UNCHANGED <<disk, registry, kek, fate>>
  PROVE  GInv'
<1>1. call'[p].pc = pc /\ \A q \in Procs : q # p => call'[q] = call[q]
  BY DEF GInv, TypeOK
<1>2. TypeOK'
  <2>1. call' \in [Procs -> Calls \cup Resting]
    BY DEF GInv, TypeOK, Resting
  <2>2. lock' \in [Objects -> Procs \cup {None}]
    BY DEF GInv, TypeOK
  <2> QED BY <2>1, <2>2 DEF GInv, TypeOK
<1>3. CallShape' /\ KekSet' /\ SealedUnderItsLabel'
  BY <1>1 DEF GInv, CallShape, KekSet, SealedUnderItsLabel, Busy
<1>4. LockHeld'
  <2> SUFFICES ASSUME NEW q \in Procs, call'[q].pc = "read"
               PROVE  /\ lock'[call'[q].object] = q
                      /\ call'[q].bundle.kek = kek'[call'[q].object]
    BY DEF LockHeld
  <2>1. q # p /\ call'[q] = call[q]
    BY <1>1
  <2>2. Busy(q)
    BY <2>1 DEF Busy
  <2>3. call[q].object \in Objects
    BY <2>2, BusyCall
  <2>4. lock'[call[q].object] = lock[call[q].object]
    BY <2>1, <2>3, OneReaderPerObject DEF GInv, TypeOK
  <2> QED BY <2>1, <2>4 DEF GInv, LockHeld
<1> QED BY <1>2, <1>3, <1>4 DEF GInv

\* A call that takes the mutex and remembers a bundle read with its object's KEK
\* keeps GInv: the mutex was free, so no other call of the object is reading.
LEMMA ReadKeeps ==
  ASSUME GInv, NEW p \in Procs, Busy(p), call[p].op \in {"rotate", "revoke"},
         lock[call[p].object] = None,
         Readable(kek[call[p].object], call[p].ref),
         call' = [call EXCEPT ![p].pc = "read", ![p].bundle = disk[call[p].ref]],
         lock' = [lock EXCEPT ![call[p].object] = p],
         UNCHANGED <<disk, registry, kek, fate>>
  PROVE  GInv'
<1> USE CustodyAssumption DEF CustodyAssumption
<1>1. /\ call[p] \in Calls /\ call[p].object \in Objects /\ call[p].ref \in Refs
      /\ kek[call[p].object] \in Keks
  BY BusyCall
<1>2. disk[call[p].ref] \in Bundles /\ disk[call[p].ref].kek = kek[call[p].object]
  BY <1>1 DEF Readable, GInv, TypeOK
<1>3. call'[p] = [call[p] EXCEPT !.pc = "read", !.bundle = disk[call[p].ref]]
  BY DEF GInv, TypeOK
<1>4. /\ call'[p] \in Calls /\ call'[p].pc = "read"
      /\ call'[p].object = call[p].object /\ call'[p].bundle = disk[call[p].ref]
      /\ call'[p].op = call[p].op /\ call'[p].arg = call[p].arg
  <2> DEFINE c == call[p]
             d == [c EXCEPT !.pc = "read", !.bundle = disk[c.ref]]
  <2>1. ASSUME c \in Calls, disk[c.ref] \in Bundles
        PROVE  /\ d \in Calls /\ d.pc = "read"
               /\ d.object = c.object /\ d.bundle = disk[c.ref]
               /\ d.op = c.op /\ d.arg = c.arg
    BY <2>1 DEF Calls
  <2> QED BY <1>1, <1>2, <1>3, <2>1
<1>5. \A q \in Procs : q # p => call'[q] = call[q]
  BY DEF GInv, TypeOK
<1>6. TypeOK'
  <2>1. call' \in [Procs -> Calls \cup Resting]
    BY <1>4, <1>5 DEF GInv, TypeOK
  <2>2. lock' \in [Objects -> Procs \cup {None}]
    BY DEF GInv, TypeOK
  <2> QED BY <2>1, <2>2 DEF GInv, TypeOK
<1>7. CallShape' /\ KekSet' /\ SealedUnderItsLabel'
  <2>1. CallShape'
    <3> SUFFICES ASSUME NEW q \in Procs, Busy(q)'
                 PROVE  /\ call'[q].op = "create" => call'[q].arg \in Owners
                        /\ call'[q].op = "rotate" => call'[q].arg \in Targets
                        /\ call'[q].pc = "inspected" => call'[q].op = "rotate"
                        /\ call'[q].pc = "read" => /\ call'[q].op \in {"rotate", "revoke"}
                                                   /\ call'[q].bundle \in Bundles
      BY DEF CallShape
    <3>1. CASE q = p
      BY <1>2, <1>4, <3>1 DEF GInv, CallShape
    <3>2. CASE q # p
      BY <1>5, <3>2 DEF GInv, CallShape, Busy
    <3> QED BY <3>1, <3>2
  <2>2. KekSet'
    BY <1>4, <1>5 DEF GInv, KekSet, Busy
  <2>3. SealedUnderItsLabel'
    BY DEF GInv, SealedUnderItsLabel
  <2> QED BY <2>1, <2>2, <2>3
<1>8. LockHeld'
  <2> SUFFICES ASSUME NEW q \in Procs, call'[q].pc = "read"
               PROVE  /\ lock'[call'[q].object] = q
                      /\ call'[q].bundle.kek = kek'[call'[q].object]
    BY DEF LockHeld
  <2>1. CASE q = p
    BY <1>1, <1>2, <1>4, <2>1 DEF GInv, TypeOK
  <2>2. CASE q # p
    <3>1. call'[q] = call[q] /\ call[q].pc = "read"
      BY <1>5, <2>2
    <3>2. lock[call[q].object] = q /\ call[q].bundle.kek = kek[call[q].object]
      BY <3>1 DEF GInv, LockHeld
    <3>3. call[q].object \in Objects
      BY <3>1, BusyCall DEF Busy
    <3>4. call[q].object # call[p].object
      BY <3>2
    <3> QED BY <3>1, <3>2, <3>3, <3>4 DEF GInv, TypeOK
  <2> QED BY <2>1, <2>2
<1> QED BY <1>6, <1>7, <1>8 DEF GInv

\* A call between read and rename that writes a properly sealed bundle, gives its
\* object a KEK, lets go of the mutex and returns keeps GInv.
LEMMA WriteKeeps ==
  ASSUME GInv, NEW p \in Procs, call[p].pc = "read",
         NEW b \in Bundles, b.sealed = [key |-> b.kek.ref, aad |-> b.kek],
         NEW k \in Keks,
         disk' = [disk EXCEPT ![call[p].ref] = b],
         kek' = [kek EXCEPT ![call[p].object] = k],
         lock' = [lock EXCEPT ![call[p].object] = None],
         call' = [call EXCEPT ![p] = [pc |-> "ok"]],
         fate' \in [Refs -> {"none", "revoked"}],
         registry' = registry
  PROVE  GInv'
<1> USE CustodyAssumption DEF CustodyAssumption
<1>1. call[p] \in Calls /\ call[p].object \in Objects /\ call[p].ref \in Refs
  BY BusyCall DEF Busy
<1>2. call'[p].pc = "ok" /\ \A q \in Procs : q # p => call'[q] = call[q]
  BY DEF GInv, TypeOK
<1>3. TypeOK'
  <2>1. call' \in [Procs -> Calls \cup Resting]
    BY DEF GInv, TypeOK, Resting
  <2>2. lock' \in [Objects -> Procs \cup {None}]
    BY DEF GInv, TypeOK
  <2>3. disk' \in [Refs -> Bundles \cup {None}]
    BY DEF GInv, TypeOK
  <2>4. kek' \in [Objects -> Keks \cup {None}]
    BY DEF GInv, TypeOK
  <2> QED BY <2>1, <2>2, <2>3, <2>4 DEF GInv, TypeOK
<1>4. CallShape'
  BY <1>2 DEF GInv, CallShape, Busy
<1>5. \A o \in Objects : kek[o] # None => kek'[o] # None
  BY DEF GInv, TypeOK
<1>6. KekSet'
  <2>1. \A n \in Names : registry'[n] # None => kek'[registry'[n]] # None
    BY <1>5 DEF GInv, TypeOK, KekSet
  <2>2. ASSUME NEW q \in Procs, Busy(q)' PROVE kek'[call'[q].object] # None
    <3>1. q # p /\ call'[q] = call[q] /\ Busy(q)
      BY <1>2, <2>2 DEF Busy
    <3> QED BY <1>5, <3>1, BusyCall DEF GInv, KekSet
  <2> QED BY <2>1, <2>2 DEF KekSet
<1>7. LockHeld'
  <2> SUFFICES ASSUME NEW q \in Procs, call'[q].pc = "read"
               PROVE  /\ lock'[call'[q].object] = q
                      /\ call'[q].bundle.kek = kek'[call'[q].object]
    BY DEF LockHeld
  <2>1. q # p /\ call'[q] = call[q]
    BY <1>2
  <2>2. call[q].object \in Objects
    BY <2>1, BusyCall DEF Busy
  <2>3. call[q].object # call[p].object
    BY <2>1, OneReaderPerObject
  <2>4. /\ lock'[call[q].object] = lock[call[q].object]
        /\ kek'[call[q].object] = kek[call[q].object]
    BY <2>2, <2>3 DEF GInv, TypeOK
  <2> QED BY <2>1, <2>4 DEF GInv, LockHeld
<1>8. SealedUnderItsLabel'
  BY <1>1 DEF GInv, TypeOK, SealedUnderItsLabel
<1> QED BY <1>3, <1>4, <1>6, <1>7, <1>8 DEF GInv

\* A fresh object is one no call holds, so giving it a KEK disturbs no call.
LEMMA ModuleInitKeeps == ASSUME GInv, NEW n \in Names, ModuleInit(n) PROVE GInv'
<1> USE CustodyAssumption DEF CustodyAssumption
<1>1. PICK o \in Objects, k \in ConfigKeks :
         /\ Unused(o)
         /\ registry' = [registry EXCEPT ![n] = o]
         /\ kek' = [kek EXCEPT ![o] = k]
  BY DEF ModuleInit
<1>2. UNCHANGED <<disk, lock, call, fate>>
  BY DEF ModuleInit
<1>3. k \in Keks /\ k # None
  OBVIOUS
<1>4. TypeOK'
  BY <1>1, <1>2, <1>3 DEF GInv, TypeOK
<1>5. \A p \in Procs : Busy(p) => kek'[call[p].object] = kek[call[p].object]
  BY <1>1, BusyCall DEF GInv, TypeOK, Unused
<1>6. CallShape' /\ SealedUnderItsLabel'
  BY <1>2 DEF GInv, CallShape, SealedUnderItsLabel, Busy
<1>7. KekSet'
  <2>1. \A m \in Names : registry'[m] # None => kek'[registry'[m]] # None
    BY <1>1, <1>3 DEF GInv, TypeOK, KekSet
  <2> QED BY <1>2, <1>5, <2>1 DEF GInv, KekSet, Busy
<1>8. LockHeld'
  BY <1>2, <1>5 DEF GInv, LockHeld, Busy
<1> QED BY <1>4, <1>6, <1>7, <1>8 DEF GInv

\* A new call starts at "called" with arguments of its operation's kind, on a
\* registered object.
LEMMA BeginKeeps ==
  ASSUME GInv, NEW p \in Procs, NEW n \in Names, NEW op \in Ops, NEW r \in Refs,
         NEW arg \in Owners \cup Targets \cup {None},
         op = "create" => arg \in Owners, op = "rotate" => arg \in Targets,
         Begin(p, n, op, r, arg)
  PROVE  GInv'
<1>1. ~Busy(p) /\ UNCHANGED <<disk, registry, kek, lock, fate>>
  BY DEF Begin
<1>2. CASE registry[n] = None
  <2>1. call' = [call EXCEPT ![p] = [pc |-> "err"]]
    BY <1>2 DEF Begin
  <2> QED BY <1>1, <2>1, ReturnKeeps
<1>3. CASE registry[n] # None
  <2> DEFINE c == [pc |-> "called", op |-> op, object |-> registry[n], ref |-> r,
                   arg |-> arg, expect |-> None, bundle |-> None]
  <2>1. call' = [call EXCEPT ![p] = c]
    BY <1>3 DEF Begin
  <2>2. registry[n] \in Objects
    BY <1>3 DEF GInv, TypeOK
  <2>3. c \in Calls
    BY <2>2 DEF Calls
  <2>4. call'[p] = c /\ \A q \in Procs : q # p => call'[q] = call[q]
    BY <2>1 DEF GInv, TypeOK
  <2>5. TypeOK'
    BY <1>1, <2>1, <2>3 DEF GInv, TypeOK
  <2>6. CallShape'
    BY <2>4 DEF GInv, CallShape, Busy
  <2>7. KekSet'
    <3>1. kek[registry[n]] # None
      BY <1>3 DEF GInv, KekSet
    <3> QED BY <1>1, <2>4, <3>1 DEF GInv, KekSet, Busy
  <2>8. LockHeld' /\ SealedUnderItsLabel'
    BY <1>1, <2>4 DEF GInv, LockHeld, SealedUnderItsLabel
  <2> QED BY <2>5, <2>6, <2>7, <2>8 DEF GInv
<1> QED BY <1>2, <1>3

\* The bundle Create writes is of the right type and sealed under its label.
LEMMA NewBundleType ==
  ASSUME GInv, NEW p \in Procs, At(p, "called", "create")
  PROVE  /\ NewBundle(p) \in Bundles
         /\ NewBundle(p).sealed = [key |-> NewBundle(p).kek.ref, aad |-> NewBundle(p).kek]
<1> DEFINE k == kek[call[p].object]
           b == [kek |-> k, state |-> "active", account |-> call[p].arg.account,
                 device |-> call[p].arg.device, sealed |-> [key |-> k.ref, aad |-> k]]
<1>1. Busy(p)
  BY DEF At, Busy
<1>2. k \in Keks
  BY <1>1, BusyCall
<1>3. call[p].arg \in Owners
  BY <1>1 DEF GInv, CallShape, At
<1>4. b \in Bundles
  BY <1>2, <1>3 DEF Bundles, Owners, Keks
<1>5. b.kek = k
  OBVIOUS
<1> HIDE DEF b, k
<1>6. NewBundle(p) = Seal(k, b)
  BY DEF NewBundle, b, k
<1>7. Seal(k, b) \in Bundles /\ Seal(k, b).kek = k
  BY <1>2, <1>4, <1>5, SealKeeps
<1>8. Seal(k, b).sealed = [key |-> k.ref, aad |-> k]
  BY <1>2, <1>4, <1>5, SealKeeps
<1> QED BY <1>6, <1>7, <1>8

\* The KEK a rotation moves to is well-typed.
LEMMA RotatedKekType ==
  ASSUME GInv, NEW p \in Procs, At(p, "read", "rotate")
  PROVE  RotatedKek(p) \in Keks
<1>1. Busy(p)
  BY DEF At, Busy
<1>2. kek[call[p].object] \in Keks /\ call[p].arg \in Targets
  BY <1>1, BusyCall DEF GInv, CallShape, At
<1> QED BY <1>2 DEF RotatedKek, Keks, Targets

\* Create reads nothing and needs the mutex to be free.
LEMMA CreateKeeps == ASSUME GInv, NEW p \in Procs, Create(p) PROVE GInv'
<1> USE CustodyAssumption DEF CustodyAssumption
<1>1. At(p, "called", "create") /\ Busy(p)
  BY DEF Create, At, Busy
<1>2. call[p] \in Calls /\ call[p].ref \in Refs
  BY <1>1, BusyCall
<1>3. /\ disk' = [disk EXCEPT ![call[p].ref] = NewBundle(p)]
      /\ call' = [call EXCEPT ![p] = [pc |-> "ok"]]
      /\ UNCHANGED <<registry, kek, lock>>
  BY DEF Create, Return
<1>4. fate' \in [Refs -> {"none", "revoked"}]
  BY <1>2 DEF Create, GInv, TypeOK
<1>5. /\ NewBundle(p) \in Bundles
      /\ NewBundle(p).sealed = [key |-> NewBundle(p).kek.ref, aad |-> NewBundle(p).kek]
  BY <1>1, NewBundleType
<1>6. call'[p].pc = "ok" /\ \A q \in Procs : q # p => call'[q] = call[q]
  BY <1>3 DEF GInv, TypeOK
<1>7. TypeOK'
  <2>1. call' \in [Procs -> Calls \cup Resting]
    BY <1>3 DEF GInv, TypeOK, Resting
  <2>2. disk' \in [Refs -> Bundles \cup {None}]
    BY <1>2, <1>3, <1>5 DEF GInv, TypeOK
  <2> QED BY <1>3, <1>4, <2>1, <2>2 DEF GInv, TypeOK
<1>8. CallShape' /\ KekSet' /\ LockHeld'
  BY <1>3, <1>6 DEF GInv, CallShape, KekSet, LockHeld, Busy
<1>9. SealedUnderItsLabel'
  BY <1>2, <1>3, <1>5 DEF GInv, TypeOK, SealedUnderItsLabel
<1> QED BY <1>7, <1>8, <1>9 DEF GInv

\* The inspection of a rotate step only notes a version.
LEMMA RotateInspectKeeps == ASSUME GInv, NEW p \in Procs, RotateInspect(p) PROVE GInv'
<1> USE CustodyAssumption DEF CustodyAssumption
<1>1. At(p, "called", "rotate") /\ Busy(p) /\ UNCHANGED <<disk, registry, kek, lock, fate>>
  BY DEF RotateInspect, At, Busy
<1>2. call[p] \in Calls /\ call[p].ref \in Refs
  BY <1>1, BusyCall
<1>3. CASE ~Readable(kek[call[p].object], call[p].ref)
  BY <1>1, <1>3, ReturnKeeps DEF RotateInspect, Return
<1>4. CASE Readable(kek[call[p].object], call[p].ref)
  <2> DEFINE c == call[p]
             d == [c EXCEPT !.pc = "inspected", !.expect = disk[c.ref].kek.version]
  <2>1. disk[c.ref] \in Bundles
    BY <1>2, <1>4 DEF Readable, GInv, TypeOK
  <2>2. disk[c.ref].kek.version \in KekVersions
    BY <2>1 DEF Bundles, Keks
  <2>3. ASSUME c \in Calls, disk[c.ref].kek.version \in KekVersions
        PROVE  /\ d \in Calls /\ d.pc = "inspected" /\ d.op = c.op
               /\ d.arg = c.arg /\ d.object = c.object
    BY <2>3 DEF Calls
  <2>4. call' = [call EXCEPT ![p] = d]
    BY <1>4 DEF RotateInspect
  <2>5. call'[p] = d /\ \A q \in Procs : q # p => call'[q] = call[q]
    BY <2>4 DEF GInv, TypeOK
  <2>6. d \in Calls /\ d.pc = "inspected" /\ d.op = c.op /\ d.arg = c.arg /\ d.object = c.object
    BY <1>2, <2>2, <2>3
  <2> HIDE DEF d
  <2>7. TypeOK'
    BY <1>1, <2>4, <2>6 DEF GInv, TypeOK
  <2>8. CallShape'
    BY <1>1, <2>5, <2>6 DEF GInv, CallShape, Busy, At
  <2>9. KekSet' /\ LockHeld' /\ SealedUnderItsLabel'
    BY <1>1, <2>5, <2>6 DEF GInv, KekSet, LockHeld, SealedUnderItsLabel, Busy
  <2> QED BY <2>7, <2>8, <2>9 DEF GInv
<1> QED BY <1>3, <1>4

\* The two renames.
LEMMA RotateWriteKeeps == ASSUME GInv, NEW p \in Procs, RotateWrite(p) PROVE GInv'
<1> DEFINE k == RotatedKek(p)
           b == [call[p].bundle EXCEPT !.kek = k]
<1>1. At(p, "read", "rotate") /\ call[p].pc = "read" /\ Busy(p)
  BY DEF RotateWrite, At, Busy
<1>2. k \in Keks
  BY <1>1, RotatedKekType
<1>3. call[p].bundle \in Bundles
  BY <1>1 DEF GInv, CallShape
<1>4. b \in Bundles /\ b.kek = k
  BY <1>2, <1>3 DEF Bundles
<1>5. RotatedBundle(p) = Seal(k, b)
  BY DEF RotatedBundle
<1> HIDE DEF k, b
<1>6. Seal(k, b) \in Bundles /\ Seal(k, b).kek = k
  BY <1>2, <1>4, SealKeeps
<1>7. Seal(k, b).sealed = [key |-> k.ref, aad |-> k]
  BY <1>2, <1>4, SealKeeps
<1>8. /\ disk' = [disk EXCEPT ![call[p].ref] = RotatedBundle(p)]
      /\ kek' = [kek EXCEPT ![call[p].object] = k]
      /\ lock' = [lock EXCEPT ![call[p].object] = None]
      /\ call' = [call EXCEPT ![p] = [pc |-> "ok"]]
      /\ UNCHANGED <<registry, fate>>
  BY DEF RotateWrite, Release, Return, k
<1>9. fate' \in [Refs -> {"none", "revoked"}]
  BY <1>8 DEF GInv, TypeOK
<1> QED BY <1>1, <1>2, <1>5, <1>6, <1>7, <1>8, <1>9, WriteKeeps

\* The rename of Revoke keeps the KEK it read with.
LEMMA RevokeWriteKeeps == ASSUME GInv, NEW p \in Procs, RevokeWrite(p) PROVE GInv'
<1> DEFINE k == kek[call[p].object]
           b == [call[p].bundle EXCEPT !.state = "revoked"]
<1>1. call[p].pc = "read" /\ Busy(p)
  BY DEF RevokeWrite, At, Busy
<1>2. k \in Keks /\ call[p].object \in Objects /\ call[p].ref \in Refs
  BY <1>1, BusyCall
<1>3. call[p].bundle \in Bundles /\ call[p].bundle.kek = k
  BY <1>1 DEF GInv, CallShape, LockHeld
<1>4. b \in Bundles /\ b.kek = k
  BY <1>3 DEF Bundles
<1>5. RevokedBundle(p) = Seal(k, b)
  BY DEF RevokedBundle
<1> HIDE DEF b
<1>6. Seal(k, b) \in Bundles /\ Seal(k, b).kek = k
  BY <1>2, <1>4, SealKeeps
<1>7. Seal(k, b).sealed = [key |-> k.ref, aad |-> k]
  BY <1>2, <1>4, SealKeeps
<1>8. /\ disk' = [disk EXCEPT ![call[p].ref] = RevokedBundle(p)]
      /\ lock' = [lock EXCEPT ![call[p].object] = None]
      /\ call' = [call EXCEPT ![p] = [pc |-> "ok"]]
      /\ fate' = [fate EXCEPT ![call[p].ref] = "revoked"]
      /\ UNCHANGED <<registry, kek>>
  BY DEF RevokeWrite, Release, Return
<1>9. fate' \in [Refs -> {"none", "revoked"}]
  BY <1>8 DEF GInv, TypeOK
<1>10. kek' = [kek EXCEPT ![call[p].object] = k]
  BY <1>2, <1>8 DEF GInv, TypeOK
<1> QED BY <1>1, <1>2, <1>5, <1>6, <1>7, <1>8, <1>9, <1>10, WriteKeeps

\* A crash ends every call and forgets every object; the bundles stay.
LEMMA CrashKeeps == ASSUME GInv, Crash PROVE GInv'
<1>1. /\ registry' = [n \in Names |-> None]
      /\ lock' = [o \in Objects |-> None]
      /\ kek' = [o \in Objects |-> None]
      /\ call' = [p \in Procs |-> [pc |-> "idle"]]
      /\ UNCHANGED <<disk, fate>>
  BY DEF Crash
<1>2. TypeOK'
  BY <1>1 DEF GInv, TypeOK, Resting
<1>3. CallShape' /\ KekSet' /\ LockHeld' /\ SealedUnderItsLabel'
  BY <1>1 DEF GInv, CallShape, KekSet, LockHeld, SealedUnderItsLabel, Busy
<1> QED BY <1>2, <1>3 DEF GInv

\* Every call is given a ref of the store.
LEMMA CustodyRefType ==
  ASSUME NEW key \in Ids \cup {None}, NEW account \in Ids \cup {None}, NEW n \in Names
  PROVE  CustodyRef(key, account, n) \in Refs
BY DEF CustodyRef, Refs

\* The three ways a step begins keep GInv.
LEMMA CallKeeps ==
  ASSUME GInv, NEW p \in Procs, NEW n \in Names,
         CallCreate(p, n) \/ CallRotate(p, n) \/ CallOther(p, n)
  PROVE  GInv'
<1>1. CASE CallCreate(p, n)
  <2>1. PICK in \in CreateRequests :
           Begin(p, n, "create", CustodyRef(in.key, in.account, n),
                 [account |-> in.account, device |-> in.device])
    BY <1>1 DEF CallCreate
  <2>2. /\ in.key \in Ids \cup {None} /\ in.account \in Ids \cup {None}
        /\ [account |-> in.account, device |-> in.device] \in Owners
    BY DEF CreateRequests, Owners
  <2>3. "create" \in Ops /\ "create" # "rotate"
    BY DEF Ops
  <2> QED BY <2>1, <2>2, <2>3, CustodyRefType, BeginKeeps
<1>2. CASE CallRotate(p, n)
  <2>1. PICK in \in RotateRequests : Begin(p, n, "rotate", in.ref, in.newKek)
    BY <1>2 DEF CallRotate
  <2>2. "rotate" \in Ops /\ "create" # "rotate" /\ in.ref \in Refs /\ in.newKek \in Targets
    BY DEF Ops, RotateRequests
  <2> QED BY <2>1, <2>2, BeginKeeps
<1>3. CASE CallOther(p, n)
  <2>1. PICK r \in Refs, op \in {"restore", "revoke", "inspect"} :
           Begin(p, n, op, r, None)
    BY <1>3 DEF CallOther
  <2>2. op \in Ops /\ op # "create" /\ op # "rotate"
    BY DEF Ops
  <2> QED BY <2>1, <2>2, BeginKeeps
<1> QED BY <1>1, <1>2, <1>3

\* The early returns, and the steps that do nothing but return.
LEMMA ServeKeeps == ASSUME GInv, NEW p \in Procs, Serve(p) PROVE GInv'
<1>1. CASE Create(p)
  BY <1>1, CreateKeeps
<1>2. CASE CreateFails(p)
  BY <1>2, ReturnKeeps DEF CreateFails, Return
<1>3. CASE Restore(p)
  <2>1. PICK pc \in {"ok", "err"} : Return(p, pc)
    BY <1>3 DEF Restore
  <2>2. UNCHANGED <<disk, registry, kek, lock, fate>>
    BY <1>3 DEF Restore
  <2> QED BY <2>1, <2>2, ReturnKeeps DEF Return
<1>4. CASE Inspect(p)
  <2>1. PICK pc \in {"ok", "err"} : Return(p, pc)
    BY <1>4 DEF Inspect
  <2>2. UNCHANGED <<disk, registry, kek, lock, fate>>
    BY <1>4 DEF Inspect
  <2> QED BY <2>1, <2>2, ReturnKeeps DEF Return
<1>5. CASE RotateInspect(p)
  BY <1>5, RotateInspectKeeps
<1>6. CASE RotateRead(p)
  <2>1. Busy(p) /\ call[p].op \in {"rotate", "revoke"} /\ lock[call[p].object] = None
    BY <1>6 DEF RotateRead, At, Unlocked, Busy
  <2>2. UNCHANGED <<disk, registry, kek, fate>>
    BY <1>6 DEF RotateRead
  <2>3. CASE MayRotate(p)
    BY <1>6, <2>1, <2>2, <2>3, ReadKeeps DEF RotateRead, MayRotate, Acquire
  <2>4. CASE ~MayRotate(p)
    BY <1>6, <2>2, <2>4, ReturnKeeps DEF RotateRead, Return
  <2> QED BY <2>3, <2>4
<1>7. CASE RotateWrite(p)
  BY <1>7, RotateWriteKeeps
<1>8. CASE RevokeRead(p)
  <2>1. Busy(p) /\ call[p].op \in {"rotate", "revoke"} /\ lock[call[p].object] = None
    BY <1>8 DEF RevokeRead, At, Unlocked, Busy
  <2>2. UNCHANGED <<disk, registry, kek, fate>>
    BY <1>8 DEF RevokeRead
  <2>3. CASE Readable(kek[call[p].object], call[p].ref)
    BY <1>8, <2>1, <2>2, <2>3, ReadKeeps DEF RevokeRead, Acquire
  <2>4. CASE ~Readable(kek[call[p].object], call[p].ref)
    BY <1>8, <2>2, <2>4, ReturnKeeps DEF RevokeRead, Return
  <2> QED BY <2>3, <2>4
<1>9. CASE RevokeWrite(p)
  BY <1>9, RevokeWriteKeeps
<1>10. CASE WriteFails(p)
  BY <1>10, ReturnKeeps DEF WriteFails, Release, Return
<1> QED BY <1>1, <1>2, <1>3, <1>4, <1>5, <1>6, <1>7, <1>8, <1>9, <1>10 DEF Serve

\* The initial state satisfies GInv.
LEMMA GInit == Init => GInv
<1> SUFFICES ASSUME Init PROVE GInv
  OBVIOUS
<1>1. TypeOK
  BY DEF Init, TypeOK, Resting
<1>2. CallShape /\ KekSet /\ LockHeld /\ SealedUnderItsLabel
  BY DEF Init, CallShape, KekSet, LockHeld, SealedUnderItsLabel, Busy
<1> QED BY <1>1, <1>2 DEF GInv

\* GInv is inductive.
LEMMA GStep == ASSUME GInv, [Next]_vars PROVE GInv'
<1>1. CASE UNCHANGED vars
  BY <1>1 DEF vars, GInv, TypeOK, CallShape, KekSet, LockHeld, SealedUnderItsLabel, Busy
<1>2. CASE Next
  BY <1>2, ModuleInitKeeps, CallKeeps, ServeKeeps, CrashKeeps DEF Next
<1> QED BY <1>1, <1>2

\* Type correctness, whatever the number of modules and Store objects.
THEOREM TypeCorrect == Spec => []TypeOK
<1>1. GInv /\ [Next]_vars => GInv'
  BY GStep
<1>2. GInv => TypeOK
  BY DEF GInv
<1> QED BY GInit, <1>1, <1>2, PTL DEF Spec

\* Whatever the number of modules and Store objects over the directory, a bundle
\* is sealed under the KEK its metadata names (writeBundleLocked, aad).
THEOREM LabelsAreTrue == Spec => []SealedUnderItsLabel
<1>1. GInv /\ [Next]_vars => GInv'
  BY GStep
<1>2. GInv => SealedUnderItsLabel
  BY DEF GInv
<1> QED BY GInit, <1>1, <1>2, PTL DEF Spec

-----------------------------------------------------------------------------
\* The invariant of a sole Store object

\* All calls in progress are in the one registered object.
OnRegistered ==
    \A p \in Procs : Busy(p) => \E n \in Names : registry[n] = call[p].object

\* What a call read is still on disk when it is about to rename, and a rotation
\* has checked it.
ReadIsCurrent ==
    \A p \in Procs : call[p].pc = "read" =>
        /\ disk[call[p].ref] = call[p].bundle
        /\ call[p].op = "rotate" => /\ call[p].bundle.state = "active"
                                    /\ call[p].bundle.kek.version = call[p].expect

\* A ref whose last change of life was a revocation holds a revoked bundle.
RevokedOnDisk ==
    \A r \in Refs : fate[r] = "revoked" =>
        disk[r] # None /\ disk[r].state = "revoked"

SInv == GInv /\ OnRegistered /\ ReadIsCurrent /\ RevokedOnDisk

\* With a sole Store object every two calls share it, so at most one call is
\* between its read and its rename, and none is when the mutex is free.
LEMMA SoleObject ==
  ASSUME SoleStore, SInv, NEW p \in Procs, NEW q \in Procs, Busy(p), Busy(q)
  PROVE  call[p].object = call[q].object
BY DEF SoleStore, SInv, OnRegistered

\* A call that holds or could take the mutex is the only one past its read.
LEMMA SoleReader ==
  ASSUME SoleStore, SInv, NEW p \in Procs, NEW q \in Procs, Busy(p), call[q].pc = "read",
         Unlocked(p) \/ call[p].pc = "read"
  PROVE  p = q
<1> USE CustodyAssumption DEF CustodyAssumption
<1>1. call[p].object = call[q].object
  BY SoleObject DEF Busy
<1>2. lock[call[q].object] = q
  BY DEF SInv, GInv, LockHeld
<1>3. lock[call[p].object] # None
  BY <1>1, <1>2
<1>4. call[p].pc = "read"
  BY <1>3 DEF Unlocked
<1> QED BY <1>1, <1>4, OneReaderPerObject DEF SInv

\* A step that leaves the disk alone and only moves one call to a state that is
\* not between read and rename keeps the rest of SInv.
LEMMA QuietKeeps ==
  ASSUME SInv, NEW p \in Procs, call'[p].pc # "read",
         \A q \in Procs : q # p => call'[q] = call[q],
         call'[p].pc \in {"called", "inspected"} =>
             \E n \in Names : registry[n] = call'[p].object,
         UNCHANGED <<disk, registry, fate>>
  PROVE  OnRegistered' /\ ReadIsCurrent' /\ RevokedOnDisk'
<1>1. OnRegistered'
  <2> SUFFICES ASSUME NEW q \in Procs, Busy(q)'
               PROVE  \E n \in Names : registry[n] = call'[q].object
    BY DEF OnRegistered
  <2>1. CASE q = p
    BY <2>1 DEF Busy
  <2>2. CASE q # p
    BY <2>2 DEF SInv, OnRegistered, Busy
  <2> QED BY <2>1, <2>2
<1>2. ReadIsCurrent'
  BY DEF SInv, ReadIsCurrent
<1>3. RevokedOnDisk'
  BY DEF SInv, RevokedOnDisk
<1> QED BY <1>1, <1>2, <1>3

\* A step that replaces one bundle, by a call no other call races with, and then
\* returns keeps the rest of SInv if a revoked fate means a revoked bundle.
LEMMA RenameKeeps ==
  ASSUME SoleStore, SInv, NEW p \in Procs, Busy(p), call[p].pc = "read" \/ Unlocked(p),
         NEW b \in Bundles,
         disk' = [disk EXCEPT ![call[p].ref] = b],
         call' = [call EXCEPT ![p] = [pc |-> "ok"]],
         \A r \in Refs : r # call[p].ref => fate'[r] = fate[r],
         fate'[call[p].ref] = "revoked" => b.state = "revoked",
         registry' = registry
  PROVE  OnRegistered' /\ ReadIsCurrent' /\ RevokedOnDisk'
<1> USE CustodyAssumption DEF CustodyAssumption
<1>1. call'[p].pc = "ok" /\ \A q \in Procs : q # p => call'[q] = call[q]
  BY DEF SInv, GInv, TypeOK
<1>2. \A q \in Procs : call'[q].pc # "read"
  BY <1>1, SoleReader
<1>3. OnRegistered'
  BY <1>1 DEF SInv, OnRegistered, Busy
<1>4. ReadIsCurrent'
  BY <1>2 DEF ReadIsCurrent
<1>5. RevokedOnDisk'
  BY DEF SInv, GInv, TypeOK, RevokedOnDisk
<1> QED BY <1>3, <1>4, <1>5

\* Initialising the only module, which is not registered, finds no call in progress.
LEMMA SoleModuleInit ==
  ASSUME SoleStore, SInv, NEW n \in Names, ModuleInit(n)
  PROVE  OnRegistered' /\ ReadIsCurrent' /\ RevokedOnDisk'
<1> USE CustodyAssumption DEF CustodyAssumption
<1>1. registry[n] = None /\ UNCHANGED <<disk, call, fate>>
  BY DEF ModuleInit, SoleStore
<1>2. \A p \in Procs : ~Busy(p)
  <2> SUFFICES ASSUME NEW p \in Procs, Busy(p) PROVE FALSE
    OBVIOUS
  <2>1. PICK m \in Names : registry[m] = call[p].object
    BY DEF SInv, OnRegistered
  <2>2. call[p].object \in Objects
    BY BusyCall DEF SInv
  <2> QED BY <1>1, <2>1, <2>2 DEF SoleStore
<1> QED BY <1>1, <1>2 DEF SInv, OnRegistered, ReadIsCurrent, RevokedOnDisk, Busy

\* A call that begins is in the registered object and has read nothing.
LEMMA SoleBegin ==
  ASSUME SInv, NEW p \in Procs, NEW n \in Names, NEW op, NEW r, NEW arg,
         Begin(p, n, op, r, arg)
  PROVE  OnRegistered' /\ ReadIsCurrent' /\ RevokedOnDisk'
<1>1. UNCHANGED <<disk, registry, fate>>
  BY DEF Begin
<1>2. \A q \in Procs : q # p => call'[q] = call[q]
  BY DEF Begin, SInv, GInv, TypeOK
<1>3. /\ call'[p].pc # "read"
      /\ call'[p].pc \in {"called", "inspected"} => call'[p].object = registry[n]
  BY DEF Begin, SInv, GInv, TypeOK
<1> QED BY <1>1, <1>2, <1>3, QuietKeeps

\* Reading with the mutex: the bundle is current from here to the rename.
LEMMA SoleRead ==
  ASSUME SInv, NEW p \in Procs, Busy(p),
         call' = [call EXCEPT ![p].pc = "read", ![p].bundle = disk[call[p].ref]],
         call[p].op = "rotate" =>
             /\ disk[call[p].ref].state = "active"
             /\ disk[call[p].ref].kek.version = call[p].expect,
         UNCHANGED <<disk, registry, fate>>
  PROVE  OnRegistered' /\ ReadIsCurrent' /\ RevokedOnDisk'
<1> DEFINE c == call[p]
           d == [c EXCEPT !.pc = "read", !.bundle = disk[c.ref]]
<1>1. c \in Calls
  BY BusyCall DEF SInv
<1>2. /\ d.pc = "read" /\ d.bundle = disk[c.ref] /\ d.op = c.op
      /\ d.object = c.object /\ d.ref = c.ref /\ d.expect = c.expect
  <2>1. ASSUME c \in Calls
        PROVE  /\ d.pc = "read" /\ d.bundle = disk[c.ref] /\ d.op = c.op
               /\ d.object = c.object /\ d.ref = c.ref /\ d.expect = c.expect
    BY <2>1 DEF Calls
  <2> QED BY <1>1, <2>1
<1>3. call'[p] = d /\ \A q \in Procs : q # p => call'[q] = call[q]
  BY DEF SInv, GInv, TypeOK
<1> HIDE DEF d
<1>4. OnRegistered'
  BY <1>2, <1>3 DEF SInv, OnRegistered, Busy
<1>5. ReadIsCurrent'
  <2> SUFFICES ASSUME NEW q \in Procs, call'[q].pc = "read"
               PROVE  /\ disk[call'[q].ref] = call'[q].bundle
                      /\ call'[q].op = "rotate" =>
                            /\ call'[q].bundle.state = "active"
                            /\ call'[q].bundle.kek.version = call'[q].expect
    BY DEF ReadIsCurrent
  <2>1. CASE q = p
    BY <1>2, <1>3, <2>1
  <2>2. CASE q # p
    BY <1>3, <2>2 DEF SInv, ReadIsCurrent
  <2> QED BY <2>1, <2>2
<1>6. RevokedOnDisk'
  BY DEF SInv, RevokedOnDisk
<1> QED BY <1>4, <1>5, <1>6

\* What the three renames put on disk.
LEMMA WrittenBundles ==
  ASSUME GInv, NEW p \in Procs
  PROVE  /\ At(p, "called", "create") => NewBundle(p) \in Bundles
         /\ At(p, "read", "rotate") =>
               /\ RotatedBundle(p) \in Bundles
               /\ RotatedBundle(p).state = call[p].bundle.state
               /\ RotatedBundle(p).account = call[p].bundle.account
               /\ RotatedBundle(p).device = call[p].bundle.device
         /\ At(p, "read", "revoke") =>
               /\ RevokedBundle(p) \in Bundles
               /\ RevokedBundle(p).state = "revoked"
               /\ RevokedBundle(p).account = call[p].bundle.account
               /\ RevokedBundle(p).device = call[p].bundle.device
<1>1. ASSUME At(p, "called", "create") PROVE NewBundle(p) \in Bundles
  BY <1>1, NewBundleType
<1>2. ASSUME call[p].pc = "read"
      PROVE  call[p].bundle \in Bundles /\ kek[call[p].object] \in Keks
  BY <1>2, BusyCall DEF GInv, CallShape, Busy
<1>3. ASSUME At(p, "read", "rotate")
      PROVE  /\ RotatedBundle(p) \in Bundles
             /\ RotatedBundle(p).state = call[p].bundle.state
             /\ RotatedBundle(p).account = call[p].bundle.account
             /\ RotatedBundle(p).device = call[p].bundle.device
  <2> DEFINE b == [call[p].bundle EXCEPT !.kek = RotatedKek(p)]
  <2>1. RotatedKek(p) \in Keks /\ call[p].bundle \in Bundles
    BY <1>2, <1>3, RotatedKekType DEF At
  <2>2. /\ b \in Bundles /\ b.state = call[p].bundle.state
        /\ b.account = call[p].bundle.account /\ b.device = call[p].bundle.device
    BY <2>1 DEF Bundles
  <2>3. RotatedBundle(p) = Seal(RotatedKek(p), b)
    BY DEF RotatedBundle
  <2> HIDE DEF b
  <2>4. /\ Seal(RotatedKek(p), b) \in Bundles /\ Seal(RotatedKek(p), b).state = b.state
        /\ Seal(RotatedKek(p), b).account = b.account /\ Seal(RotatedKek(p), b).device = b.device
    BY <2>1, <2>2, SealKeeps
  <2> QED BY <2>2, <2>3, <2>4
<1>4. ASSUME At(p, "read", "revoke")
      PROVE  /\ RevokedBundle(p) \in Bundles
             /\ RevokedBundle(p).state = "revoked"
             /\ RevokedBundle(p).account = call[p].bundle.account
             /\ RevokedBundle(p).device = call[p].bundle.device
  <2> DEFINE b == [call[p].bundle EXCEPT !.state = "revoked"]
  <2>1. kek[call[p].object] \in Keks /\ call[p].bundle \in Bundles
    BY <1>2, <1>4 DEF At
  <2>2. /\ b \in Bundles /\ b.state = "revoked"
        /\ b.account = call[p].bundle.account /\ b.device = call[p].bundle.device
    BY <2>1 DEF Bundles
  <2>3. RevokedBundle(p) = Seal(kek[call[p].object], b)
    BY DEF RevokedBundle
  <2> HIDE DEF b
  <2>4. /\ Seal(kek[call[p].object], b) \in Bundles /\ Seal(kek[call[p].object], b).state = b.state
        /\ Seal(kek[call[p].object], b).account = b.account /\ Seal(kek[call[p].object], b).device = b.device
    BY <2>1, <2>2, SealKeeps
  <2> QED BY <2>2, <2>3, <2>4
<1> QED BY <1>1, <1>3, <1>4

\* A return without a write.
LEMMA SoleReturn ==
  ASSUME SInv, NEW p \in Procs, NEW pc \in {"ok", "err"}, Return(p, pc),
         UNCHANGED <<disk, registry, fate>>
  PROVE  OnRegistered' /\ ReadIsCurrent' /\ RevokedOnDisk'
<1>1. call'[p].pc = pc /\ \A q \in Procs : q # p => call'[q] = call[q]
  BY DEF Return, SInv, GInv, TypeOK
<1> QED BY <1>1, QuietKeeps

\* Every step of a call in progress keeps what SInv adds to GInv.
LEMMA SoleServe ==
  ASSUME SoleStore, SInv, NEW p \in Procs, Serve(p)
  PROVE  OnRegistered' /\ ReadIsCurrent' /\ RevokedOnDisk'
<1>1. CASE Create(p)
  <2>1. At(p, "called", "create") /\ Busy(p) /\ Unlocked(p)
    BY <1>1 DEF Create, At, Busy
  <2>2. NewBundle(p) \in Bundles
    BY <2>1, WrittenBundles DEF SInv
  <2>3. call[p].ref \in Refs
    BY <2>1, BusyCall DEF SInv
  <2>4. /\ \A r \in Refs : r # call[p].ref => fate'[r] = fate[r]
        /\ fate'[call[p].ref] # "revoked"
    BY <1>1, <2>3 DEF Create, SInv, GInv, TypeOK
  <2> QED BY <1>1, <2>1, <2>2, <2>4, RenameKeeps DEF Create, Return
<1>2. CASE CreateFails(p)
  BY <1>2, SoleReturn DEF CreateFails
<1>3. CASE Restore(p)
  BY <1>3, SoleReturn DEF Restore
<1>4. CASE Inspect(p)
  BY <1>4, SoleReturn DEF Inspect
<1>5. CASE RotateInspect(p)
  <2>1. Busy(p) /\ UNCHANGED <<disk, registry, fate>>
    BY <1>5 DEF RotateInspect, At, Busy
  <2>2. CASE ~Readable(kek[call[p].object], call[p].ref)
    BY <1>5, <2>1, <2>2, SoleReturn DEF RotateInspect
  <2>3. CASE Readable(kek[call[p].object], call[p].ref)
    <3> DEFINE c == call[p]
               d == [c EXCEPT !.pc = "inspected", !.expect = disk[c.ref].kek.version]
    <3>1. c \in Calls
      BY <2>1, BusyCall DEF SInv
    <3>2. ASSUME c \in Calls PROVE d.pc = "inspected" /\ d.object = c.object
      BY <3>2 DEF Calls
    <3>3. call' = [call EXCEPT ![p] = d]
      BY <1>5, <2>3 DEF RotateInspect
    <3>4. call'[p] = d /\ \A q \in Procs : q # p => call'[q] = call[q]
      BY <3>3 DEF SInv, GInv, TypeOK
    <3>5. d.pc = "inspected" /\ d.object = c.object
      BY <3>1, <3>2
    <3>6. \E n \in Names : registry[n] = c.object
      BY <2>1 DEF SInv, OnRegistered
    <3> HIDE DEF d
    <3> QED BY <2>1, <3>4, <3>5, <3>6, QuietKeeps
  <2> QED BY <2>2, <2>3
<1>6. CASE RotateRead(p)
  <2>1. Busy(p) /\ UNCHANGED <<disk, registry, fate>>
    BY <1>6 DEF RotateRead, At, Busy
  <2>2. CASE MayRotate(p)
    <3>1. disk[call[p].ref] \in Bundles /\ disk[call[p].ref].state # "revoked"
      BY <2>1, <2>2, BusyCall DEF MayRotate, Readable, SInv, GInv, TypeOK
    <3>2. disk[call[p].ref].state = "active"
      BY <3>1 DEF Bundles
    <3>3. disk[call[p].ref].kek.version = call[p].expect
      BY <2>2 DEF MayRotate
    <3>4. call' = [call EXCEPT ![p].pc = "read", ![p].bundle = disk[call[p].ref]]
      BY <1>6, <2>2 DEF RotateRead
    <3> QED BY <2>1, <3>2, <3>3, <3>4, SoleRead
  <2>3. CASE ~MayRotate(p)
    BY <1>6, <2>1, <2>3, SoleReturn DEF RotateRead
  <2> QED BY <2>2, <2>3
<1>7. CASE RotateWrite(p)
  <2>1. At(p, "read", "rotate") /\ call[p].pc = "read" /\ Busy(p)
    BY <1>7 DEF RotateWrite, At, Busy
  <2>2. /\ disk' = [disk EXCEPT ![call[p].ref] = RotatedBundle(p)]
        /\ call' = [call EXCEPT ![p] = [pc |-> "ok"]]
        /\ UNCHANGED <<registry, fate>>
    BY <1>7 DEF RotateWrite, Return
  <2>3. RotatedBundle(p) \in Bundles
    BY <2>1, WrittenBundles DEF SInv
  <2>4. disk[call[p].ref].state = "active" /\ call[p].ref \in Refs
    BY <2>1, BusyCall DEF SInv, ReadIsCurrent, At
  <2>5. fate[call[p].ref] # "revoked"
    BY <2>4 DEF SInv, RevokedOnDisk
  <2> QED BY <2>1, <2>2, <2>3, <2>5, RenameKeeps
<1>8. CASE RevokeRead(p)
  <2>1. /\ Busy(p) /\ call[p].op # "rotate"
        /\ UNCHANGED <<disk, registry, fate>>
    BY <1>8 DEF RevokeRead, At, Busy
  <2>2. CASE Readable(kek[call[p].object], call[p].ref)
    BY <1>8, <2>1, <2>2, SoleRead DEF RevokeRead
  <2>3. CASE ~Readable(kek[call[p].object], call[p].ref)
    BY <1>8, <2>1, <2>3, SoleReturn DEF RevokeRead
  <2> QED BY <2>2, <2>3
<1>9. CASE RevokeWrite(p)
  <2>1. At(p, "read", "revoke") /\ call[p].pc = "read" /\ Busy(p)
    BY <1>9 DEF RevokeWrite, At, Busy
  <2>2. /\ disk' = [disk EXCEPT ![call[p].ref] = RevokedBundle(p)]
        /\ call' = [call EXCEPT ![p] = [pc |-> "ok"]]
        /\ fate' = [fate EXCEPT ![call[p].ref] = "revoked"]
        /\ registry' = registry
    BY <1>9 DEF RevokeWrite, Return
  <2>3. RevokedBundle(p) \in Bundles /\ RevokedBundle(p).state = "revoked"
    BY <2>1, WrittenBundles DEF SInv
  <2>4. \A r \in Refs : r # call[p].ref => fate'[r] = fate[r]
    BY <2>2 DEF SInv, GInv, TypeOK
  <2> QED BY <2>1, <2>2, <2>3, <2>4, RenameKeeps
<1>10. CASE WriteFails(p)
  BY <1>10, SoleReturn DEF WriteFails
<1> QED BY <1>1, <1>2, <1>3, <1>4, <1>5, <1>6, <1>7, <1>8, <1>9, <1>10 DEF Serve

\* The initial state satisfies SInv.
LEMMA SInit == Init => SInv
<1> SUFFICES ASSUME Init PROVE SInv
  OBVIOUS
<1>1. GInv
  BY GInit
<1>2. OnRegistered /\ ReadIsCurrent /\ RevokedOnDisk
  BY DEF Init, OnRegistered, ReadIsCurrent, RevokedOnDisk, Busy
<1> QED BY <1>1, <1>2 DEF SInv

\* SInv is inductive when one Store object serves the directory.
LEMMA SStep == ASSUME SoleStore, SInv, [Next]_vars PROVE SInv'
<1>1. GInv'
  BY GStep DEF SInv
<1>2. OnRegistered' /\ ReadIsCurrent' /\ RevokedOnDisk'
  <2>1. CASE UNCHANGED vars
    BY <2>1 DEF vars, SInv, OnRegistered, ReadIsCurrent, RevokedOnDisk, Busy
  <2>2. CASE \E n \in Names : ModuleInit(n)
    BY <2>2, SoleModuleInit
  <2>3. CASE \E p \in Procs, n \in Names :
                CallCreate(p, n) \/ CallRotate(p, n) \/ CallOther(p, n)
    <3>1. PICK p \in Procs, n \in Names :
              CallCreate(p, n) \/ CallRotate(p, n) \/ CallOther(p, n)
      BY <2>3
    <3>2. CASE CallCreate(p, n)
      BY <3>2, SoleBegin DEF CallCreate
    <3>3. CASE CallRotate(p, n)
      BY <3>3, SoleBegin DEF CallRotate
    <3>4. CASE CallOther(p, n)
      BY <3>4, SoleBegin DEF CallOther
    <3> QED BY <3>1, <3>2, <3>3, <3>4
  <2>4. CASE \E p \in Procs : Serve(p)
    BY <2>4, SoleServe
  <2>5. CASE Crash
    <3>1. \A p \in Procs : call'[p].pc = "idle"
      BY <2>5 DEF Crash
    <3> QED BY <2>5, <3>1 DEF Crash, SInv, OnRegistered, ReadIsCurrent, RevokedOnDisk, Busy
  <2> QED BY <2>1, <2>2, <2>3, <2>4, <2>5 DEF Next
<1> QED BY <1>1, <1>2 DEF SInv

\* A call in progress that becomes "ok" took a step of its own.
LEMMA OwnSuccess ==
  ASSUME GInv, Next, NEW p \in Procs, Busy(p), call'[p].pc = "ok"
  PROVE  Serve(p)
<1>1. call'[p] # call[p]
  BY DEF Busy
<1>2. CASE \E n \in Names : ModuleInit(n)
  BY <1>1, <1>2 DEF ModuleInit
<1>3. ASSUME NEW q \in Procs, NEW n \in Names, NEW op, NEW r, NEW arg,
             Begin(q, n, op, r, arg)
      PROVE  FALSE
  <2>1. q # p
    BY <1>3 DEF Begin
  <2> QED BY <1>1, <1>3, <2>1 DEF Begin, GInv, TypeOK
<1>4. ASSUME NEW q \in Procs, NEW n \in Names,
             CallCreate(q, n) \/ CallRotate(q, n) \/ CallOther(q, n)
      PROVE  FALSE
  BY <1>3, <1>4 DEF CallCreate, CallRotate, CallOther
<1>5. ASSUME NEW q \in Procs, Serve(q), q # p PROVE FALSE
  <2>1. call'[p] = call[p]
    BY <1>5 DEF Serve, Create, CreateFails, Restore, Inspect, RotateInspect, RotateRead,
                RotateWrite, RevokeRead, RevokeWrite, WriteFails, Return, GInv, TypeOK
  <2> QED BY <1>1, <2>1
<1>6. CASE Crash
  BY <1>6 DEF Crash
<1> QED BY <1>2, <1>4, <1>5, <1>6 DEF Next

\* A ref whose latest change of life was a revocation is not restored while one
\* Store object at a time serves the directory (Store.Restore, ErrRevokedRef).
THEOREM RevocationHolds == ASSUME SoleStore PROVE Spec => RestoreHonoursRevocation
<1> DEFINE Honoured == \A p \in Procs : Succeeds(p, "called", "restore") =>
                          fate[call[p].ref] # "revoked"
<1>1. SInv /\ [Next]_vars => SInv'
  BY SStep
<1>2. ASSUME SInv, [Next]_vars PROVE [Honoured]_vars
  <2> SUFFICES ASSUME SInv, Next, NEW p \in Procs, Succeeds(p, "called", "restore")
               PROVE  fate[call[p].ref] # "revoked"
    BY <1>2
  <2>1. Busy(p) /\ At(p, "called", "restore") /\ call'[p].pc = "ok"
    BY DEF Succeeds, At, Busy
  <2>2. Restore(p)
    <3>1. Serve(p)
      BY <2>1, OwnSuccess DEF SInv
    <3>2. call[p].pc = "called" /\ call[p].op = "restore"
      BY <2>1 DEF At
    <3>3. /\ ~Create(p) /\ ~CreateFails(p) /\ ~Inspect(p)
          /\ ~RotateInspect(p) /\ ~RotateRead(p) /\ ~RevokeRead(p)
      BY <3>2 DEF At, Create, CreateFails, Inspect, RotateInspect, RotateRead, RevokeRead
    <3>4. ~RotateWrite(p) /\ ~RevokeWrite(p) /\ ~WriteFails(p)
      BY <3>2 DEF At, RotateWrite, RevokeWrite, WriteFails
    <3> QED BY <3>1, <3>3, <3>4 DEF Serve
  <2>3. disk[call[p].ref].state # "revoked"
    BY <2>1, <2>2 DEF Restore, Return, SInv, GInv, TypeOK
  <2>4. call[p].ref \in Refs
    BY <2>1, BusyCall DEF SInv
  <2> QED BY <2>3, <2>4 DEF SInv, RevokedOnDisk
<1> QED BY SInit, <1>1, <1>2, PTL DEF Spec, RestoreHonoursRevocation

\* The two critical sections of a rotate step are a compare-and-swap on the KEK
\* version while one Store object at a time serves the directory.
THEOREM RotationIsAtomic == ASSUME SoleStore PROVE Spec => RotateIsCompareAndSwap
<1> DEFINE Swap == \A p \in Procs : Succeeds(p, "read", "rotate") =>
                      /\ disk[call[p].ref].state = "active"
                      /\ disk[call[p].ref].kek.version = call[p].expect
<1>1. SInv /\ [Next]_vars => SInv'
  BY SStep
<1>2. SInv => Swap
  BY DEF SInv, ReadIsCurrent, Succeeds, At
<1> QED BY SInit, <1>1, <1>2, PTL DEF Spec, RotateIsCompareAndSwap

\* Rotate and Revoke keep the owner of what they rewrite and never undo a
\* revocation, while one Store object at a time serves the directory.
THEOREM NoLostUpdate == ASSUME SoleStore PROVE Spec => OnlyCreateReplaces
<1> DEFINE Kept(r) ==
              \/ \E p \in Procs : Succeeds(p, "called", "create") /\ call[p].ref = r
              \/ /\ disk[r] # None
                 /\ disk'[r].account = disk[r].account
                 /\ disk'[r].device = disk[r].device
                 /\ disk[r].state = "revoked" => disk'[r].state = "revoked"
           Keeps == \A r \in Refs : disk'[r] # disk[r] => Kept(r)
<1>1. SInv /\ [Next]_vars => SInv'
  BY SStep
<1>2. ASSUME SInv, [Next]_vars PROVE [Keeps]_vars
  <2> SUFFICES ASSUME SInv, Next, NEW r \in Refs, disk'[r] # disk[r] PROVE Kept(r)
    BY <1>2
  <2>1. PICK p \in Procs : Create(p) \/ RotateWrite(p) \/ RevokeWrite(p)
    BY DEF Next, ModuleInit, CallCreate, CallRotate, CallOther, Begin, Crash, Serve,
           CreateFails, Restore, Inspect, RotateInspect, RotateRead, RevokeRead, WriteFails
  <2>2. r = call[p].ref
    BY <2>1 DEF Create, RotateWrite, RevokeWrite, SInv, GInv, TypeOK
  <2>3. CASE Create(p)
    <3>1. Succeeds(p, "called", "create")
      BY <2>3 DEF Create, Succeeds, Return, SInv, GInv, TypeOK
    <3> QED BY <2>2, <3>1
  <2>4. ASSUME call[p].pc = "read"
        PROVE  /\ disk[r] = call[p].bundle /\ disk[r] # None
               /\ At(p, "read", "rotate") => disk[r].state # "revoked"
    <3>1. disk[r] = call[p].bundle /\ call[p].bundle \in Bundles
      BY <2>2, <2>4 DEF SInv, ReadIsCurrent, GInv, CallShape, Busy
    <3>2. At(p, "read", "rotate") => disk[r].state # "revoked"
      BY <2>2, <2>4 DEF SInv, ReadIsCurrent, At
    <3> QED BY <3>1, <3>2, CustodyAssumption DEF CustodyAssumption
  <2>5. CASE RotateWrite(p)
    <3>1. At(p, "read", "rotate") /\ disk'[r] = RotatedBundle(p)
      BY <2>2, <2>5 DEF RotateWrite, SInv, GInv, TypeOK
    <3>2. /\ RotatedBundle(p).account = call[p].bundle.account
          /\ RotatedBundle(p).device = call[p].bundle.device
      BY <3>1, WrittenBundles DEF SInv
    <3> QED BY <2>4, <3>1, <3>2 DEF At
  <2>6. CASE RevokeWrite(p)
    <3>1. At(p, "read", "revoke") /\ disk'[r] = RevokedBundle(p)
      BY <2>2, <2>6 DEF RevokeWrite, SInv, GInv, TypeOK
    <3>2. /\ RevokedBundle(p).account = call[p].bundle.account
          /\ RevokedBundle(p).device = call[p].bundle.device
          /\ RevokedBundle(p).state = "revoked"
      BY <3>1, WrittenBundles DEF SInv
    <3> QED BY <2>4, <3>1, <3>2 DEF At
  <2> QED BY <2>1, <2>3, <2>5, <2>6
<1> QED BY SInit, <1>1, <1>2, PTL DEF Spec, OnlyCreateReplaces

-----------------------------------------------------------------------------
\* The refinement: a sole Store object implements the atomic register of
\* CustodyRegister.  SInv makes each critical section take effect in one step of the
\* register, or in none.

\* The mapped state

entryBar == [r \in Refs |-> EntryOf(disk[r])]
callBar  == [p \in Procs |-> CallOf(call[p])]

\* The KEK of the register is that of whatever Store is registered.
LEMMA KekIs ==
  ASSUME SoleStore
  PROVE  /\ \A n \in Names : registry[n] # None => KekNow = kek[registry[n]]
         /\ (\A n \in Names : registry[n] = None) => KekNow = None
         /\ \A n \in Names : registry'[n] # None => KekNow' = kek'[registry'[n]]
         /\ (\A n \in Names : registry'[n] = None) => KekNow' = None
<1>1. ASSUME NEW n \in Names, registry[n] # None PROVE KekNow = kek[registry[n]]
  <2>1. (CHOOSE m \in Names : registry[m] # None) \in Names
    BY <1>1
  <2>2. (CHOOSE m \in Names : registry[m] # None) = n
    BY <2>1 DEF SoleStore
  <2> QED BY <1>1, <2>2 DEF KekNow
<1>2. ASSUME NEW n \in Names, registry'[n] # None PROVE KekNow' = kek'[registry'[n]]
  <2>1. (CHOOSE m \in Names : registry'[m] # None) \in Names
    BY <1>2
  <2>2. (CHOOSE m \in Names : registry'[m] # None) = n
    BY <2>1 DEF SoleStore
  <2> QED BY <1>2, <2>2 DEF KekNow
<1> QED BY <1>1, <1>2 DEF KekNow

\* A step that leaves modules and KEKs alone leaves the KEK of the register alone.
LEMMA KekStays == ASSUME UNCHANGED <<registry, kek>> PROVE KekNow' = KekNow
BY DEF KekNow

\* A step that moves one call moves one call of the register.
LEMMA CallMoves ==
  ASSUME TypeOK, NEW p \in Procs, NEW c, call' = [call EXCEPT ![p] = c]
  PROVE  callBar' = [callBar EXCEPT ![p] = CallOf(c)]
<1>1. callBar' = [q \in Procs |-> CallOf(call'[q])]
  BY DEF callBar
<1>2. ASSUME NEW q \in Procs
      PROVE  CallOf(call'[q]) = IF q = p THEN CallOf(c) ELSE callBar[q]
  <2>1. call'[q] = IF q = p THEN c ELSE call[q]
    BY DEF TypeOK
  <2> QED BY <2>1 DEF callBar
<1>3. [callBar EXCEPT ![p] = CallOf(c)]
        = [q \in Procs |-> IF q = p THEN CallOf(c) ELSE callBar[q]]
  BY DEF callBar
<1> QED BY <1>1, <1>2, <1>3

\* A step that renames one bundle replaces one entry.
LEMMA EntryMoves ==
  ASSUME TypeOK, NEW r \in Refs, NEW b, disk' = [disk EXCEPT ![r] = b]
  PROVE  entryBar' = [entryBar EXCEPT ![r] = EntryOf(b)]
<1>1. entryBar' = [s \in Refs |-> EntryOf(disk'[s])]
  BY DEF entryBar
<1>2. ASSUME NEW s \in Refs
      PROVE  EntryOf(disk'[s]) = IF s = r THEN EntryOf(b) ELSE entryBar[s]
  <2>1. disk'[s] = IF s = r THEN b ELSE disk[s]
    BY DEF TypeOK
  <2> QED BY <2>1 DEF entryBar
<1>3. [entryBar EXCEPT ![r] = EntryOf(b)]
        = [s \in Refs |-> IF s = r THEN EntryOf(b) ELSE entryBar[s]]
  BY DEF entryBar
<1> QED BY <1>1, <1>2, <1>3

\* A call in progress is pending; one that has returned is not.
LEMMA PendingCall ==
  ASSUME NEW p \in Procs
  PROVE  /\ Busy(p) => /\ callBar[p].pc = "pending" /\ callBar[p].op = call[p].op
                       /\ callBar[p].ref = call[p].ref /\ callBar[p].arg = call[p].arg
         /\ TypeOK /\ ~Busy(p) => callBar[p].pc # "pending"
<1>1. ASSUME Busy(p)
      PROVE  callBar[p] = [pc |-> "pending", op |-> call[p].op,
                           ref |-> call[p].ref, arg |-> call[p].arg]
  BY <1>1 DEF callBar, CallOf, Busy
<1>2. ASSUME TypeOK, ~Busy(p) PROVE callBar[p].pc # "pending"
  <2>1. call[p] \in Resting
    BY <1>2 DEF TypeOK, Busy, Calls
  <2>2. callBar[p] = call[p]
    BY <1>2 DEF callBar, CallOf, Busy
  <2> QED BY <2>1, <2>2 DEF Resting
<1> QED BY <1>1, <1>2

\* A call in progress is in the registered Store, so it works with the register's KEK.
LEMMA CallKek ==
  ASSUME SoleStore, SInv, NEW p \in Procs, Busy(p)
  PROVE  KekNow = kek[call[p].object]
<1> USE CustodyAssumption DEF CustodyAssumption
<1>1. PICK n \in Names : registry[n] = call[p].object
  BY DEF SInv, OnRegistered
<1>2. call[p].object # None
  BY BusyCall DEF SInv
<1> QED BY <1>1, <1>2, KekIs

\* A readable ref is one the register can work with.
LEMMA CurrentRef ==
  ASSUME SoleStore, SInv, NEW p \in Procs, Busy(p),
         Readable(kek[call[p].object], call[p].ref)
  PROVE  /\ disk[call[p].ref] \in Bundles
         /\ entryBar[call[p].ref] = EntryOf(disk[call[p].ref])
         /\ entryBar[call[p].ref] # None
         /\ entryBar[call[p].ref].kek = KekNow
         /\ entryBar[call[p].ref].state = disk[call[p].ref].state
         /\ KekNow.ref \in Resolvable
<1> DEFINE b == disk[call[p].ref]
<1>1. call[p].ref \in Refs /\ b \in Bundles
  BY BusyCall DEF SInv, GInv, TypeOK, Readable
<1>2. b.kek = KekNow /\ KekNow.ref \in Resolvable
  BY CallKek DEF Readable, Opens
<1>3. b # None
  BY DEF Readable
<1>4. EntryOf(b) \in Register!Entries
  BY <1>1, <1>3 DEF EntryOf, Register!Entries, Bundles, Owners
<1>5. EntryOf(b).kek = b.kek /\ EntryOf(b).state = b.state
  BY <1>3 DEF EntryOf
<1> QED BY <1>1, <1>2, <1>4, <1>5, RegisterAssumption DEF entryBar

-----------------------------------------------------------------------------
\* What the mapping needs beyond SInv

\* A call that has read a bundle has opened it, so the host holds its secret.
ReadOpened ==
    \A p \in Procs : call[p].pc = "read" => call[p].bundle.kek.ref \in Resolvable

-----------------------------------------------------------------------------
\* Each step of the store

\* A call that returns, having renamed nothing.
LEMMA ReturnMaps ==
  ASSUME TypeOK, NEW p \in Procs, NEW pc \in {"ok", "err"}, Return(p, pc),
         UNCHANGED <<disk, registry, kek>>
  PROVE  /\ callBar' = [callBar EXCEPT ![p] = [pc |-> pc]]
         /\ entryBar' = entryBar /\ KekNow' = KekNow
<1>1. CallOf([pc |-> pc]) = [pc |-> pc]
  BY DEF CallOf
<1>2. callBar' = [callBar EXCEPT ![p] = CallOf([pc |-> pc])]
  BY CallMoves DEF Return
<1> QED BY <1>1, <1>2, KekStays DEF entryBar

\* A call that fails has had no effect.
LEMMA FailMaps ==
  ASSUME TypeOK, NEW p \in Procs, Busy(p), Return(p, "err"),
         UNCHANGED <<disk, registry, kek>>
  PROVE  Register!Fail(p)
BY PendingCall, ReturnMaps DEF Register!Fail, Register!Return, callBar, entryBar

\* What a call has read is not seen by the register.
LEMMA ReadMaps ==
  ASSUME TypeOK, NEW p \in Procs, Busy(p), call[p] \in Calls, NEW c,
         call' = [call EXCEPT ![p] = c],
         c.pc \in {"inspected", "read"}, c.op = call[p].op,
         c.ref = call[p].ref, c.arg = call[p].arg,
         UNCHANGED <<disk, registry, kek>>
  PROVE  callBar' = callBar /\ entryBar' = entryBar /\ KekNow' = KekNow
<1>1. CallOf(c) = callBar[p]
  BY DEF CallOf, Busy, callBar
<1>2. callBar' = [callBar EXCEPT ![p] = callBar[p]]
  BY <1>1, CallMoves
<1>3. callBar' = callBar
  BY <1>2 DEF callBar
<1> QED BY <1>3, KekStays DEF entryBar

\* Create takes effect at its rename.
LEMMA CreateMaps ==
  ASSUME SoleStore, SInv, NEW p \in Procs, Create(p)
  PROVE  Register!Create(p)
<1> USE CustodyAssumption DEF CustodyAssumption
<1>1. At(p, "called", "create") /\ Busy(p) /\ call[p].arg \in Owners
  BY DEF Create, At, Busy, SInv, GInv, CallShape
<1>2. call[p].ref \in Refs /\ KekNow = kek[call[p].object]
  BY <1>1, BusyCall, CallKek DEF SInv
<1>3. NewBundle(p) \in Bundles
  BY <1>1, WrittenBundles DEF SInv
<1>4. /\ NewBundle(p).kek = KekNow /\ NewBundle(p).state = "active"
      /\ NewBundle(p).account = call[p].arg.account
      /\ NewBundle(p).device = call[p].arg.device
  BY <1>2 DEF NewBundle, Seal
<1>5. [account |-> call[p].arg.account, device |-> call[p].arg.device] = call[p].arg
  BY <1>1 DEF Owners
<1>6. EntryOf(NewBundle(p)) = [kek |-> KekNow, state |-> "active", owner |-> call[p].arg]
  BY <1>3, <1>4, <1>5 DEF EntryOf
<1>7. entryBar' = [entryBar EXCEPT ![call[p].ref] = EntryOf(NewBundle(p))]
  BY <1>2, EntryMoves DEF Create, SInv, GInv
<1>8. callBar' = [callBar EXCEPT ![p] = [pc |-> "ok"]]
  <2>1. CallOf([pc |-> "ok"]) = [pc |-> "ok"]
    BY DEF CallOf
  <2> QED BY <2>1, CallMoves DEF Create, Return, SInv, GInv
<1>9. KekNow' = KekNow
  BY KekStays DEF Create
<1>10. KekNow.ref \in Resolvable
  BY <1>2 DEF Create
<1> QED BY <1>1, <1>2, <1>6, <1>7, <1>8, <1>9, <1>10, PendingCall
        DEF Register!Create, Register!Is, Register!Return, At, callBar, entryBar

\* Restore and Inspect read what the register holds.
LEMMA LookMaps ==
  ASSUME SoleStore, SInv, NEW p \in Procs, Restore(p) \/ Inspect(p)
  PROVE  Register!Restore(p) \/ Register!Inspect(p) \/ Register!Fail(p)
<1>1. Busy(p) /\ TypeOK /\ UNCHANGED <<disk, registry, kek>>
  BY DEF Restore, Inspect, At, Busy, SInv, GInv
<1>2. CASE Return(p, "err")
  BY <1>1, <1>2, FailMaps
<1>3. CASE Restore(p) /\ Return(p, "ok")
  <2>1. [pc |-> "ok"] # [pc |-> "err"]
    OBVIOUS
  <2>2. call'[p] = [pc |-> "ok"]
    BY <1>1, <1>3 DEF Return, TypeOK
  <2>3. /\ Readable(kek[call[p].object], call[p].ref)
        /\ disk[call[p].ref].state # "revoked" /\ call[p].op = "restore"
    BY <1>1, <1>3, <2>1, <2>2 DEF Restore, Return, TypeOK, At
  <2>4. entryBar[call[p].ref].state = "active"
    BY <1>1, <2>3, CurrentRef DEF Bundles
  <2> QED BY <1>1, <1>3, <2>3, <2>4, CurrentRef, PendingCall, ReturnMaps
          DEF Register!Restore, Register!Is, Register!Current, Register!Return,
              callBar, entryBar
<1>4. CASE Inspect(p) /\ Return(p, "ok")
  <2>1. [pc |-> "ok"] # [pc |-> "err"]
    OBVIOUS
  <2>2. call'[p] = [pc |-> "ok"]
    BY <1>1, <1>4 DEF Return, TypeOK
  <2>3. Readable(kek[call[p].object], call[p].ref) /\ call[p].op = "inspect"
    BY <1>1, <1>4, <2>1, <2>2 DEF Inspect, Return, TypeOK, At
  <2> QED BY <1>1, <1>4, <2>3, CurrentRef, PendingCall, ReturnMaps
          DEF Register!Inspect, Register!Is, Register!Current, Register!Return,
              callBar, entryBar
<1> QED BY <1>2, <1>3, <1>4 DEF Restore, Inspect

\* The reads of Rotate and Revoke stutter, or fail.
LEMMA ReaderMaps ==
  ASSUME SoleStore, SInv, NEW p \in Procs,
         RotateInspect(p) \/ RotateRead(p) \/ RevokeRead(p)
  PROVE  \/ Register!Fail(p)
         \/ callBar' = callBar /\ entryBar' = entryBar /\ KekNow' = KekNow
<1>1. Busy(p) /\ TypeOK /\ UNCHANGED <<disk, registry, kek>>
  BY DEF RotateInspect, RotateRead, RevokeRead, At, Busy, SInv, GInv
<1>2. call[p] \in Calls
  BY <1>1, BusyCall DEF SInv
<1>3. CASE Return(p, "err")
  BY <1>1, <1>3, FailMaps
<1>4. CASE call' = [call EXCEPT ![p].pc = "inspected",
                                ![p].expect = disk[call[p].ref].kek.version]
  <2> DEFINE d == [call[p] EXCEPT !.pc = "inspected",
                                  !.expect = disk[call[p].ref].kek.version]
  <2>1. /\ d.pc = "inspected" /\ d.op = call[p].op /\ d.ref = call[p].ref
        /\ d.arg = call[p].arg
    BY <1>2 DEF Calls
  <2>2. call' = [call EXCEPT ![p] = d]
    BY <1>4
  <2> HIDE DEF d
  <2> QED BY <1>1, <1>2, <2>1, <2>2, ReadMaps
<1>5. CASE call' = [call EXCEPT ![p].pc = "read", ![p].bundle = disk[call[p].ref]]
  <2> DEFINE d == [call[p] EXCEPT !.pc = "read", !.bundle = disk[call[p].ref]]
  <2>1. /\ d.pc = "read" /\ d.op = call[p].op /\ d.ref = call[p].ref
        /\ d.arg = call[p].arg
    BY <1>2 DEF Calls
  <2>2. call' = [call EXCEPT ![p] = d]
    BY <1>5
  <2> HIDE DEF d
  <2> QED BY <1>1, <1>2, <2>1, <2>2, ReadMaps
<1> QED BY <1>3, <1>4, <1>5 DEF RotateInspect, RotateRead, RevokeRead

\* What a rename finds on disk is what it read under the KEK of the register.
LEMMA RenameFinds ==
  ASSUME SoleStore, SInv, ReadOpened, NEW p \in Procs, call[p].pc = "read"
  PROVE  /\ Busy(p) /\ call[p].ref \in Refs /\ call[p].bundle \in Bundles
         /\ KekNow = kek[call[p].object] /\ KekNow \in Keks
         /\ KekNow.ref \in Resolvable
         /\ entryBar[call[p].ref] = EntryOf(call[p].bundle)
         /\ EntryOf(call[p].bundle) = [kek   |-> KekNow,
                                       state |-> call[p].bundle.state,
                                       owner |-> [account |-> call[p].bundle.account,
                                                  device  |-> call[p].bundle.device]]
         /\ EntryOf(call[p].bundle) # None
<1> USE CustodyAssumption DEF CustodyAssumption
<1> DEFINE b == call[p].bundle
<1>1. Busy(p)
  BY DEF Busy
<1>2. /\ call[p].ref \in Refs /\ KekNow = kek[call[p].object]
      /\ KekNow \in Keks /\ b \in Bundles
  BY <1>1, BusyCall, CallKek DEF SInv, GInv, CallShape
<1>3. b # None /\ b.kek = KekNow /\ KekNow.ref \in Resolvable
  BY <1>2 DEF SInv, GInv, LockHeld, ReadOpened
<1>4. disk[call[p].ref] = b
  BY DEF SInv, ReadIsCurrent
<1>5. entryBar[call[p].ref] = EntryOf(b)
  BY <1>2, <1>4 DEF entryBar
<1>6. EntryOf(b) = [kek |-> KekNow, state |-> b.state,
                    owner |-> [account |-> b.account, device |-> b.device]]
  BY <1>3 DEF EntryOf
<1>7. EntryOf(b) \in Register!Entries
  BY <1>2, <1>6 DEF Register!Entries, Bundles, Owners
<1>8. EntryOf(b) # None
  BY <1>7, RegisterAssumption
<1> QED BY <1>1, <1>2, <1>3, <1>5, <1>6, <1>8

\* Rotate takes effect at its rename: the entry and the KEK move together.
LEMMA RotateMaps ==
  ASSUME SoleStore, SInv, ReadOpened, NEW p \in Procs, RotateWrite(p)
  PROVE  Register!Rotate(p)
<1> USE CustodyAssumption DEF CustodyAssumption
<1> DEFINE r  == call[p].ref
           to == RotatedKek(p)
           e  == EntryOf(call[p].bundle)
<1>1. At(p, "read", "rotate") /\ call[p].pc = "read" /\ call[p].op = "rotate"
  BY DEF RotateWrite, At
<1>2. /\ Busy(p) /\ r \in Refs /\ call[p].bundle \in Bundles
      /\ KekNow = kek[call[p].object] /\ KekNow.ref \in Resolvable
      /\ entryBar[r] = e /\ e # None
      /\ e = [kek |-> KekNow, state |-> call[p].bundle.state,
              owner |-> [account |-> call[p].bundle.account,
                         device |-> call[p].bundle.device]]
  BY <1>1, RenameFinds
<1>3. call[p].bundle.state = "active"
  BY <1>1 DEF SInv, ReadIsCurrent
<1>4. /\ RotatedBundle(p) \in Bundles
      /\ RotatedBundle(p).state = call[p].bundle.state
      /\ RotatedBundle(p).account = call[p].bundle.account
      /\ RotatedBundle(p).device = call[p].bundle.device
  BY <1>1, WrittenBundles DEF SInv
<1>5. RotatedBundle(p).kek = to
  <2>1. to \in Keks
    BY <1>1, RotatedKekType DEF SInv
  <2> DEFINE b == [call[p].bundle EXCEPT !.kek = to]
  <2>2. b \in Bundles /\ b.kek = to
    BY <1>2, <2>1 DEF Bundles
  <2>3. RotatedBundle(p) = Seal(to, b)
    BY DEF RotatedBundle
  <2> HIDE DEF b, to
  <2>4. Seal(to, b).kek = b.kek
    BY <2>1, <2>2, SealKeeps
  <2> QED BY <2>2, <2>3, <2>4
<1>6. EntryOf(RotatedBundle(p)) = [e EXCEPT !.kek = to]
  <2>1. RotatedBundle(p) # None
    BY <1>4
  <2> QED BY <1>2, <1>4, <1>5, <2>1 DEF EntryOf
<1>7. entryBar' = [entryBar EXCEPT ![r] = EntryOf(RotatedBundle(p))]
  BY <1>2, EntryMoves DEF RotateWrite, SInv, GInv
<1>8. entryBar' = [entryBar EXCEPT ![r].kek = to]
  BY <1>2, <1>6, <1>7
<1>9. callBar' = [callBar EXCEPT ![p] = [pc |-> "ok"]]
  <2>1. CallOf([pc |-> "ok"]) = [pc |-> "ok"]
    BY DEF CallOf
  <2> QED BY <2>1, CallMoves DEF RotateWrite, Return, SInv, GInv
<1>10. KekNow' = to
  <2>1. PICK n \in Names : registry[n] = call[p].object
    BY <1>2 DEF SInv, OnRegistered
  <2>2. call[p].object \in Objects
    BY <1>2, BusyCall DEF SInv
  <2>3. registry'[n] = call[p].object /\ kek'[call[p].object] = to
    BY <2>1, <2>2 DEF RotateWrite, SInv, GInv, TypeOK
  <2> QED BY <2>2, <2>3, KekIs
<1>11. to.ref \in Resolvable
  BY DEF RotateWrite
<1>12. to = [ref |-> IF callBar[p].arg.ref = None THEN KekNow.ref ELSE callBar[p].arg.ref,
             version |-> callBar[p].arg.version]
  BY <1>2, PendingCall DEF RotatedKek
<1>13. entryBar[r].kek = KekNow /\ entryBar[r].state = "active"
  BY <1>2, <1>3
<1>14. /\ callBar[p].pc = "pending" /\ callBar[p].op = "rotate" /\ callBar[p].ref = r
  BY <1>1, <1>2, PendingCall
<1> HIDE DEF r, to, e
<1> QED BY <1>2, <1>8, <1>9, <1>10, <1>11, <1>12, <1>13, <1>14
        DEF Register!Rotate, Register!Is, Register!Current, Register!Return,
            callBar, entryBar

\* Revoke takes effect at its rename.
LEMMA RevokeMaps ==
  ASSUME SoleStore, SInv, ReadOpened, NEW p \in Procs, RevokeWrite(p)
  PROVE  Register!Revoke(p)
<1> USE CustodyAssumption DEF CustodyAssumption
<1> DEFINE r == call[p].ref
           e == EntryOf(call[p].bundle)
<1>1. At(p, "read", "revoke") /\ call[p].pc = "read" /\ call[p].op = "revoke"
  BY DEF RevokeWrite, At
<1>2. /\ Busy(p) /\ r \in Refs /\ call[p].bundle \in Bundles
      /\ KekNow = kek[call[p].object] /\ KekNow \in Keks /\ KekNow.ref \in Resolvable
      /\ entryBar[r] = e /\ e # None
      /\ e = [kek |-> KekNow, state |-> call[p].bundle.state,
              owner |-> [account |-> call[p].bundle.account,
                         device |-> call[p].bundle.device]]
  BY <1>1, RenameFinds
<1>3. /\ RevokedBundle(p) \in Bundles
      /\ RevokedBundle(p).state = "revoked"
      /\ RevokedBundle(p).account = call[p].bundle.account
      /\ RevokedBundle(p).device = call[p].bundle.device
  BY <1>1, WrittenBundles DEF SInv
<1>4. RevokedBundle(p).kek = KekNow
  <2> DEFINE b == [call[p].bundle EXCEPT !.state = "revoked"]
  <2>1. call[p].bundle.kek = KekNow
    BY <1>1, <1>2 DEF SInv, GInv, LockHeld
  <2>2. b \in Bundles /\ b.kek = KekNow
    BY <1>2, <2>1 DEF Bundles
  <2>3. RevokedBundle(p) = Seal(KekNow, b)
    BY <1>2 DEF RevokedBundle
  <2> HIDE DEF b
  <2>4. Seal(KekNow, b).kek = b.kek
    BY <1>2, <2>2, SealKeeps
  <2> QED BY <2>2, <2>3, <2>4
<1>5. EntryOf(RevokedBundle(p)) = [e EXCEPT !.state = "revoked"]
  <2>1. RevokedBundle(p) # None
    BY <1>3
  <2> QED BY <1>2, <1>3, <1>4, <2>1 DEF EntryOf
<1>6. entryBar' = [entryBar EXCEPT ![r] = EntryOf(RevokedBundle(p))]
  BY <1>2, EntryMoves DEF RevokeWrite, SInv, GInv
<1>7. entryBar' = [entryBar EXCEPT ![r].state = "revoked"]
  BY <1>2, <1>5, <1>6
<1>8. callBar' = [callBar EXCEPT ![p] = [pc |-> "ok"]]
  <2>1. CallOf([pc |-> "ok"]) = [pc |-> "ok"]
    BY DEF CallOf
  <2> QED BY <2>1, CallMoves DEF RevokeWrite, Return, SInv, GInv
<1>9. KekNow' = KekNow
  BY KekStays DEF RevokeWrite
<1>10. entryBar[r].kek = KekNow
  BY <1>2
<1>11. /\ callBar[p].pc = "pending" /\ callBar[p].op = "revoke" /\ callBar[p].ref = r
  BY <1>1, <1>2, PendingCall
<1> HIDE DEF r, e
<1> QED BY <1>2, <1>7, <1>8, <1>9, <1>10, <1>11
        DEF Register!Revoke, Register!Is, Register!Current, Register!Return,
            callBar, entryBar

\* A module that is initialised brings the register up.
LEMMA UpMaps ==
  ASSUME SoleStore, SInv, NEW n \in Names, ModuleInit(n)
  PROVE  Register!Up
<1> USE CustodyAssumption DEF CustodyAssumption
<1>1. PICK o \in Objects, k \in ConfigKeks :
         registry' = [registry EXCEPT ![n] = o] /\ kek' = [kek EXCEPT ![o] = k]
  BY DEF ModuleInit
<1>2. \A m \in Names : registry[m] = None
  BY DEF ModuleInit, SoleStore
<1>3. KekNow = None
  BY <1>2, KekIs
<1>4. registry'[n] # None /\ kek'[registry'[n]] = k
  BY <1>1 DEF SInv, GInv, TypeOK
<1>5. KekNow' = k
  BY <1>4, KekIs
<1>6. UNCHANGED <<entryBar, callBar>>
  BY DEF ModuleInit, entryBar, callBar
<1> QED BY <1>3, <1>5, <1>6 DEF Register!Up, callBar, entryBar

\* A step that begins calls the register, or finds it down.
LEMMA BeginMaps ==
  ASSUME SoleStore, SInv, NEW p \in Procs, NEW n \in Names, NEW op \in Ops, NEW r \in Refs,
         NEW arg \in Owners \cup Targets \cup {None}, Begin(p, n, op, r, arg)
  PROVE  Register!Call(p) \/ Register!Refuse(p)
<1> USE CustodyAssumption DEF CustodyAssumption
<1>1. /\ ~Busy(p) /\ UNCHANGED <<disk, registry, kek>> /\ TypeOK
      /\ entryBar' = entryBar /\ KekNow' = KekNow
  BY KekStays DEF Begin, entryBar, SInv, GInv
<1>2. CASE registry[n] = None
  <2>1. Return(p, "err")
    BY <1>2 DEF Begin, Return
  <2>2. KekNow = None
    BY <1>2, KekIs DEF SoleStore
  <2> QED BY <1>1, <2>1, <2>2, PendingCall, ReturnMaps
          DEF Register!Refuse, Register!Return, callBar, entryBar
<1>3. CASE registry[n] # None
  <2> DEFINE c == [pc |-> "called", op |-> op, object |-> registry[n], ref |-> r,
                   arg |-> arg, expect |-> None, bundle |-> None]
             a == [pc |-> "pending", op |-> op, ref |-> r, arg |-> arg]
  <2>1. call' = [call EXCEPT ![p] = c]
    BY <1>3 DEF Begin
  <2>2. CallOf(c) = a
    BY DEF CallOf
  <2>3. callBar' = [callBar EXCEPT ![p] = a]
    BY <1>1, <2>1, <2>2, CallMoves
  <2>4. a \in Register!Pending
    BY DEF Register!Pending, Ops
  <2>5. callBar'[p] = a
    BY <2>3 DEF callBar
  <2>6. KekNow # None
    BY <1>3, KekIs DEF SInv, GInv, KekSet
  <2> HIDE DEF a, c
  <2> QED BY <1>1, <2>3, <2>4, <2>5, <2>6, PendingCall
          DEF Register!Call, callBar, entryBar
<1> QED BY <1>2, <1>3

\* The death of the host takes the register down.
LEMMA DownMaps ==
  ASSUME SoleStore, SInv, Crash
  PROVE  Register!Down
<1>1. KekNow' = None
  BY KekIs DEF Crash
<1>2. callBar' = [p \in Procs |-> [pc |-> "idle"]]
  BY DEF Crash, callBar, CallOf
<1>3. entryBar' = entryBar
  BY DEF Crash, entryBar
<1> QED BY <1>1, <1>2, <1>3 DEF Register!Down, callBar, entryBar

\* Every step of a call in progress is one of the register, or a stutter.
LEMMA ServeMaps ==
  ASSUME SoleStore, SInv, ReadOpened, NEW p \in Procs, Serve(p)
  PROVE  \/ \/ Register!Fail(p) \/ Register!Create(p) \/ Register!Rotate(p)
            \/ Register!Revoke(p) \/ Register!Restore(p) \/ Register!Inspect(p)
         \/ callBar' = callBar /\ entryBar' = entryBar /\ KekNow' = KekNow
<1>1. CASE CreateFails(p) \/ WriteFails(p)
  <2>1. Busy(p) /\ TypeOK /\ Return(p, "err") /\ UNCHANGED <<disk, registry, kek>>
    BY <1>1 DEF CreateFails, WriteFails, At, Busy, SInv, GInv
  <2> QED BY <2>1, FailMaps
<1>2. CASE Create(p) BY <1>2, CreateMaps
<1>3. CASE Restore(p) \/ Inspect(p) BY <1>3, LookMaps
<1>4. CASE RotateInspect(p) \/ RotateRead(p) \/ RevokeRead(p) BY <1>4, ReaderMaps
<1>5. CASE RotateWrite(p) BY <1>5, RotateMaps
<1>6. CASE RevokeWrite(p) BY <1>6, RevokeMaps
<1> QED BY <1>1, <1>2, <1>3, <1>4, <1>5, <1>6 DEF Serve

-----------------------------------------------------------------------------
\* The refinement

\* Only a read makes a call one that has read, and it has opened the bundle.
LEMMA OpenedStep ==
  ASSUME SInv, ReadOpened, [Next]_vars
  PROVE  ReadOpened'
<1> SUFFICES ASSUME NEW q \in Procs, call'[q].pc = "read"
             PROVE  call'[q].bundle.kek.ref \in Resolvable
  BY DEF ReadOpened
<1>1. CASE call'[q] = call[q]
  BY <1>1 DEF ReadOpened
<1>2. CASE RotateRead(q) \/ RevokeRead(q)
  <2>1. Busy(q) /\ call[q].object \in Objects /\ call[q] \in Calls
    BY <1>2, BusyCall DEF RotateRead, RevokeRead, At, Busy, SInv
  <2>2. ~Return(q, "err")
    BY DEF Return, SInv, GInv, TypeOK
  <2>3. /\ Readable(kek[call[q].object], call[q].ref)
        /\ call' = [call EXCEPT ![q].pc = "read", ![q].bundle = disk[call[q].ref]]
    BY <1>2, <2>2 DEF RotateRead, RevokeRead, MayRotate
  <2>4. call'[q].bundle = disk[call[q].ref]
    <3> DEFINE d == [call[q] EXCEPT !.pc = "read", !.bundle = disk[call[q].ref]]
    <3>1. d.bundle = disk[call[q].ref]
      BY <2>1 DEF Calls
    <3>2. call'[q] = d
      BY <2>3 DEF SInv, GInv, TypeOK
    <3> HIDE DEF d
    <3> QED BY <3>1, <3>2
  <2> QED BY <2>3, <2>4 DEF Readable, Opens
<1>3. ASSUME NEW p \in Procs, Serve(p) PROVE call'[q] = call[q] \/ RotateRead(q) \/ RevokeRead(q)
  <2>1. CASE p # q
    BY <1>3, <2>1 DEF Serve, Create, CreateFails, Restore, Inspect, RotateInspect, RotateRead,
       RotateWrite, RevokeRead, RevokeWrite, WriteFails, Return, SInv, GInv, TypeOK
  <2>2. CASE p = q
    <3>1. \A pc \in {"ok", "err"} : ~Return(q, pc)
      BY DEF Return, SInv, GInv, TypeOK
    <3>2. ~RotateInspect(q)
      <4> SUFFICES ASSUME RotateInspect(q) PROVE FALSE
        OBVIOUS
      <4> DEFINE d == [call[q] EXCEPT !.pc = "inspected",
                                      !.expect = disk[call[q].ref].kek.version]
      <4>1. call[q] \in Calls
        BY BusyCall DEF RotateInspect, At, Busy, SInv
      <4>2. d.pc = "inspected"
        BY <4>1 DEF Calls
      <4>3. call'[q] = d
        BY <3>1 DEF RotateInspect, SInv, GInv, TypeOK
      <4> HIDE DEF d
      <4> QED BY <4>2, <4>3
    <3> QED BY <1>3, <2>2, <3>1, <3>2 DEF Serve, Create, CreateFails, Restore, Inspect,
            RotateWrite, RevokeWrite, WriteFails
  <2> QED BY <2>1, <2>2
<1>4. ASSUME NEW p \in Procs, NEW n \in Names, NEW op, NEW r, NEW arg, Begin(p, n, op, r, arg)
      PROVE  call'[q] = call[q]
  BY <1>4 DEF Begin, SInv, GInv, TypeOK
<1>5. CASE UNCHANGED call
  BY <1>1, <1>5
<1>6. ~Crash
  BY DEF Crash
<1>7. ASSUME NEW p \in Procs, NEW n \in Names,
             CallCreate(p, n) \/ CallRotate(p, n) \/ CallOther(p, n)
      PROVE  call'[q] = call[q]
  BY <1>4, <1>7 DEF CallCreate, CallRotate, CallOther
<1> QED BY <1>1, <1>2, <1>3, <1>5, <1>6, <1>7 DEF Next, vars, ModuleInit

\* Every step of the store is one of the register, or a stutter.
LEMMA NextMaps ==
  ASSUME SoleStore, SInv, ReadOpened, [Next]_vars
  PROVE  [Register!Next]_(Register!vars)
<1>1. CASE UNCHANGED vars
  BY <1>1, KekStays DEF vars, Register!vars, CallOf, EntryOf
<1>2. ASSUME NEW n \in Names, ModuleInit(n) PROVE Register!Next
  BY <1>2, UpMaps DEF Register!Next
<1>3. ASSUME NEW p \in Procs, NEW n \in Names,
             CallCreate(p, n) \/ CallRotate(p, n) \/ CallOther(p, n)
      PROVE  Register!Next
  <2>1. ASSUME NEW op \in Ops, NEW r \in Refs, NEW arg \in Owners \cup Targets \cup {None},
               Begin(p, n, op, r, arg)
        PROVE  Register!Next
    BY <2>1, BeginMaps DEF Register!Next
  <2>2. CASE CallCreate(p, n)
    <3>1. PICK in \in CreateRequests :
             Begin(p, n, "create", CustodyRef(in.key, in.account, n),
                   [account |-> in.account, device |-> in.device])
      BY <2>2 DEF CallCreate
    <3>2. /\ in.key \in Ids \cup {None} /\ in.account \in Ids \cup {None}
          /\ [account |-> in.account, device |-> in.device] \in Owners
      BY DEF CreateRequests, Owners
    <3> QED BY <2>1, <3>1, <3>2, CustodyRefType DEF Ops
  <2>3. CASE CallRotate(p, n)
    BY <2>1, <2>3 DEF CallRotate, RotateRequests, Ops
  <2>4. CASE CallOther(p, n)
    BY <2>1, <2>4 DEF CallOther, Ops
  <2> QED BY <1>3, <2>2, <2>3, <2>4
<1>4. ASSUME NEW p \in Procs, Serve(p) PROVE [Register!Next]_(Register!vars)
  <2>1. CASE callBar' = callBar /\ entryBar' = entryBar /\ KekNow' = KekNow
    BY <2>1 DEF Register!vars, callBar, entryBar
  <2> QED BY <1>4, <2>1, ServeMaps DEF Register!Next
<1>5. CASE Crash
  BY <1>5, DownMaps DEF Register!Next
<1> QED BY <1>1, <1>2, <1>3, <1>4, <1>5 DEF Next

\* While one Store object at a time serves the directory, the sealed custody store
\* is a register: whatever steps overlap, fail or die, each operation takes effect
\* in one step or has none (Store.Create, Rotate, Restore, Revoke and Inspect and
\* the custody steps that call them).
THEOREM RegisterImplemented == ASSUME SoleStore PROVE Spec => ImplementsRegister
<1>1. Init => Register!Init
  <2> SUFFICES ASSUME Init PROVE Register!Init
    OBVIOUS
  <2>1. KekNow = None
    BY DEF Init, KekNow
  <2>2. callBar = [p \in Procs |-> [pc |-> "idle"]]
    BY DEF Init, callBar, CallOf
  <2>3. entryBar = [r \in Refs |-> None]
    BY DEF Init, entryBar, EntryOf
  <2> QED BY <2>1, <2>2, <2>3 DEF Register!Init, callBar, entryBar
<1>2. Init => SInv /\ ReadOpened
  BY SInit DEF Init, ReadOpened
<1>3. (SInv /\ ReadOpened) /\ [Next]_vars => (SInv /\ ReadOpened)'
  BY SStep, OpenedStep
<1>4. (SInv /\ ReadOpened) /\ [Next]_vars => [Register!Next]_(Register!vars)
  BY NextMaps
<1> QED BY <1>1, <1>2, <1>3, <1>4, PTL DEF Spec, ImplementsRegister, Register!Spec

=============================================================================
