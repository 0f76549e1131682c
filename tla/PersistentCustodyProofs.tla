----------------------- MODULE PersistentCustodyProofs ----------------------
(***************************************************************************)
(* The seed of a persistent custody that is never initialised by two Inits *)
(* at once is one seed for ever: for any number of refs, owners and Inits. *)
(***************************************************************************)
EXTENDS PersistentCustody, TLAPS

\* At most one Init of the ref is in flight.
Alone(r) == \A i, j \in Inits : InFlight(i, r) /\ InFlight(j, r) => i = j

\* What the Init in flight knows of the file, and of the map it has filled.
Knows(i, r) ==
    /\ init[i].pc = "absent" => file[r] = None
    /\ init[i].pc = "writing" => file[r] = Torn
    /\ init[i].pc \in {"loaded", "registered"} => file[r] = init[i].content
    /\ init[i].pc = "registered" => persistent[r] = init[i].content

\* Keys were derived from nothing but what the file holds now.
DerivedOnDisk(r) == \A c \in derived[r] : file[r] = c

RecordOnDisk(r) == persistent[r] # None => file[r] = persistent[r]

MapsAgree(r) ==
    (\A i \in Inits : ~InFlight(i, r)) /\ persistent[r] # None
    => custodies[r] = persistent[r].owner

\* The invariant of one ref.
Sound(r) ==
    /\ Alone(r)
    /\ \A i \in Inits : InFlight(i, r) => Knows(i, r)
    /\ DerivedOnDisk(r)
    /\ RecordOnDisk(r)
    /\ MapsAgree(r)

IInv == TypeOK /\ \A r \in CustodyRefs \ raced : Sound(r)

\* Every step keeps the types.
LEMMA TypeStep == ASSUME TypeOK, [Next]_vars PROVE TypeOK'
<1> USE PersistentAssumption DEF PersistentAssumption
<1>1. ASSUME NEW i \in Inits, NEW r \in CustodyRefs, FindNone(i, r)
      PROVE  TypeOK'
  BY <1>1 DEF FindNone, Begin, TypeOK, Calls, Contents
<1>2. ASSUME NEW i \in Inits, NEW r \in CustodyRefs, Load(i, r)
      PROVE  TypeOK'
  BY <1>2 DEF Load, Begin, TypeOK, Calls
<1>3. ASSUME NEW i \in Inits, Truncate(i) \/ WriteSeed(i) PROVE TypeOK'
  <2>1. init[i] \in Calls
    BY <1>3 DEF Truncate, WriteSeed, At, TypeOK
  <2> QED BY <1>3, <2>1 DEF Truncate, WriteSeed, Written, TypeOK, Calls
<1>4. ASSUME NEW i \in Inits, CreateFails(i) \/ WriteFails(i) PROVE TypeOK'
  BY <1>4 DEF CreateFails, WriteFails, Return, At, TypeOK, Calls
<1>5. ASSUME NEW i \in Inits, RegisterSeed(i) PROVE TypeOK'
  <2>1. init[i] \in Calls
    BY <1>5 DEF RegisterSeed, At, TypeOK
  <2> QED BY <1>5, <2>1 DEF RegisterSeed, TypeOK, Calls
<1>6. ASSUME NEW i \in Inits, RegisterCustody(i) PROVE TypeOK'
  <2>1. init[i] \in Calls
    BY <1>6 DEF RegisterCustody, At, TypeOK
  <2> QED BY <1>6, <2>1 DEF RegisterCustody, Return, TypeOK, Calls, Contents
<1>7. ASSUME NEW r \in CustodyRefs, Derive(r) PROVE TypeOK'
  BY <1>7 DEF Derive, TypeOK
<1>8. CASE Crash
  BY <1>8 DEF Crash, TypeOK
<1>9. CASE UNCHANGED vars
  BY <1>9 DEF vars, TypeOK
<1> QED BY <1>1, <1>2, <1>3, <1>4, <1>5, <1>6, <1>7, <1>8, <1>9 DEF Next

\* An Init that begins is alone with a ref that has not raced afterwards.
LEMMA BeginKeepsSound ==
  ASSUME TypeOK, NEW i \in Inits, NEW q \in CustodyRefs, NEW c \in Contents,
         NEW pc \in {"absent", "loaded"}, Begin(i, pc, q, c),
         file[q] = (IF pc = "absent" THEN None ELSE c),
         NEW r \in CustodyRefs, r \notin raced', Sound(r)
  PROVE  Sound(r)'
<1>1. /\ init[i] = None
      /\ init'[i] = [pc |-> pc, ref |-> q, content |-> c]
      /\ \A j \in Inits \ {i} : init'[j] = init[j]
      /\ file' = file /\ persistent' = persistent /\ custodies' = custodies
      /\ derived' = derived
  BY DEF Begin, TypeOK
<1>2. CASE q # r
  <2>1. \A j \in Inits : InFlight(j, r)' <=> InFlight(j, r)
    BY <1>1, <1>2 DEF InFlight, TypeOK, Calls
  <2>2. \A j \in Inits : InFlight(j, r) => init'[j] = init[j]
    BY <1>1 DEF InFlight
  <2> QED BY <1>1, <2>1, <2>2
        DEF Sound, Alone, Knows, DerivedOnDisk, RecordOnDisk, MapsAgree
<1>3. CASE q = r
  <2>1. \A j \in Inits : ~InFlight(j, r)
    BY <1>3 DEF Begin
  <2>2. \A j \in Inits : InFlight(j, r)' => j = i
    BY <1>1, <2>1 DEF InFlight
  <2>3. InFlight(i, r)' /\ Knows(i, r)'
    <3>1. init'[i] # None
      BY <1>1, PersistentAssumption DEF PersistentAssumption, Calls
    <3> QED BY <1>1, <1>3, <3>1 DEF InFlight, Knows
  <2> QED BY <1>1, <2>2, <2>3
        DEF Sound, Alone, DerivedOnDisk, RecordOnDisk, MapsAgree
<1> QED BY <1>2, <1>3

\* A step of the Init in flight that changes nothing of the other refs keeps them
\* sound.
LEMMA OtherRefsKept ==
  ASSUME TypeOK, NEW i \in Inits, init[i] # None,
         NEW r \in CustodyRefs, init[i].ref # r, Sound(r),
         \A j \in Inits \ {i} : init'[j] = init[j],
         init'[i] # None => init'[i].ref = init[i].ref,
         file'[r] = file[r], persistent'[r] = persistent[r],
         custodies'[r] = custodies[r], derived'[r] = derived[r]
  PROVE  Sound(r)'
<1>1. \A j \in Inits : InFlight(j, r)' <=> InFlight(j, r)
  BY DEF InFlight
<1>2. \A j \in Inits : InFlight(j, r) => init'[j] = init[j]
  BY DEF InFlight
<1> QED BY <1>1, <1>2 DEF Sound, Alone, Knows, DerivedOnDisk, RecordOnDisk, MapsAgree

\* What holds of the ref of an Init in flight: it is the only one, and as long as it
\* has not loaded a content nothing was registered or derived.
LEMMA InFlightFacts ==
  ASSUME TypeOK, NEW i \in Inits, init[i] # None,
         NEW r \in CustodyRefs, init[i].ref = r, Sound(r)
  PROVE  /\ init[i] \in Calls /\ init[i].content \in Contents
         /\ \A j \in Inits : InFlight(j, r) => j = i
         /\ init[i].pc \in {"absent", "writing"} =>
               persistent[r] = None /\ derived[r] = {}
<1> USE PersistentAssumption DEF PersistentAssumption
<1>1. init[i] \in Calls
  BY DEF TypeOK
<1>2. init[i].content \in Contents
  BY <1>1 DEF Calls
<1>3. InFlight(i, r)
  BY DEF InFlight
<1>4. \A j \in Inits : InFlight(j, r) => j = i
  BY <1>3 DEF Sound, Alone
<1>5. ASSUME init[i].pc \in {"absent", "writing"}
      PROVE  persistent[r] = None /\ derived[r] = {}
  <2>1. file[r] \in {None, Torn}
    BY <1>3, <1>5 DEF Sound, Knows
  <2>2. file[r] \notin Contents
    BY <2>1
  <2>3. persistent[r] \in Contents \cup {None} /\ derived[r] \subseteq Contents
    BY DEF TypeOK
  <2> QED BY <2>2, <2>3 DEF Sound, RecordOnDisk, DerivedOnDisk
<1> QED BY <1>1, <1>2, <1>4, <1>5

\* The steps of an Init in flight keep its own ref sound.
LEMMA OwnRefKept ==
  ASSUME TypeOK, NEW i \in Inits, init[i] # None,
         NEW r \in CustodyRefs, init[i].ref = r, Sound(r),
         \/ Truncate(i) \/ WriteSeed(i) \/ CreateFails(i) \/ WriteFails(i)
         \/ RegisterSeed(i) \/ RegisterCustody(i)
  PROVE  Sound(r)'
<1> USE PersistentAssumption DEF PersistentAssumption
<1>1. /\ init[i] \in Calls /\ init[i].content \in Contents
      /\ \A j \in Inits : InFlight(j, r) => j = i
      /\ init[i].pc \in {"absent", "writing"} =>
            persistent[r] = None /\ derived[r] = {}
  BY InFlightFacts
<1>2. Knows(i, r) /\ DerivedOnDisk(r) /\ RecordOnDisk(r)
  BY DEF Sound, InFlight
<1>3. \A j \in Inits \ {i} : init'[j] = init[j]
  BY DEF Truncate, WriteSeed, CreateFails, WriteFails, RegisterSeed,
         RegisterCustody, Return, TypeOK
<1>4. \A j \in Inits : InFlight(j, r)' => j = i
  BY <1>1, <1>3 DEF InFlight
<1>5. CASE Truncate(i)
  <2>1. /\ file'[r] = Torn /\ init'[i] = [init[i] EXCEPT !.pc = "writing"]
        /\ persistent' = persistent /\ derived' = derived
        /\ init[i].pc = "absent"
    BY <1>1, <1>5 DEF Truncate, At, TypeOK
  <2>2. init'[i].pc = "writing" /\ init'[i].ref = r /\ init'[i] # None
    BY <1>1, <2>1 DEF Calls
  <2> QED BY <1>1, <1>4, <2>1, <2>2
        DEF Sound, Alone, Knows, DerivedOnDisk, RecordOnDisk, MapsAgree, InFlight
<1>6. CASE WriteSeed(i)
  <2>1. /\ init[i].pc = "writing"
        /\ init'[i] = [init[i] EXCEPT !.pc = "loaded"]
        /\ persistent' = persistent /\ derived' = derived
    BY <1>1, <1>6 DEF WriteSeed, At, TypeOK
  <2>2. file[r] = Torn
    BY <1>2, <2>1 DEF Knows
  <2>3. file'[r] = init[i].content
    BY <1>1, <1>6, <2>2 DEF WriteSeed, Written, TypeOK
  <2>4. /\ init'[i].pc = "loaded" /\ init'[i].ref = r /\ init'[i] # None
        /\ init'[i].content = init[i].content
    BY <1>1, <2>1 DEF Calls
  <2> QED BY <1>1, <1>4, <2>1, <2>3, <2>4
        DEF Sound, Alone, Knows, DerivedOnDisk, RecordOnDisk, MapsAgree, InFlight
<1>7. CASE CreateFails(i) \/ WriteFails(i)
  <2>1. /\ init[i].pc \in {"absent", "writing"} /\ init'[i] = None
        /\ persistent' = persistent /\ derived' = derived
    BY <1>7 DEF CreateFails, WriteFails, Return, At, TypeOK
  <2>2. \A j \in Inits : ~InFlight(j, r)'
    BY <1>4, <2>1 DEF InFlight
  <2> QED BY <1>1, <2>1, <2>2
        DEF Sound, Alone, Knows, DerivedOnDisk, RecordOnDisk, MapsAgree
<1>8. CASE RegisterSeed(i)
  <2>1. /\ init[i].pc = "loaded"
        /\ init'[i] = [init[i] EXCEPT !.pc = "registered"]
        /\ persistent'[r] = init[i].content
        /\ file' = file /\ derived' = derived
    BY <1>1, <1>8 DEF RegisterSeed, At, TypeOK
  <2>2. /\ init'[i].pc = "registered" /\ init'[i].ref = r /\ init'[i] # None
        /\ init'[i].content = init[i].content
    BY <1>1, <2>1 DEF Calls
  <2>3. file[r] = init[i].content
    BY <1>2, <2>1 DEF Knows
  <2> QED BY <1>2, <1>4, <2>1, <2>2, <2>3
        DEF Sound, Alone, Knows, DerivedOnDisk, RecordOnDisk, MapsAgree, InFlight
<1>9. CASE RegisterCustody(i)
  <2>1. /\ init[i].pc = "registered" /\ init'[i] = None
        /\ custodies'[r] = init[i].content.owner
        /\ file' = file /\ derived' = derived /\ persistent' = persistent
    BY <1>1, <1>9 DEF RegisterCustody, Return, At, TypeOK
  <2>2. \A j \in Inits : ~InFlight(j, r)'
    BY <1>4, <2>1 DEF InFlight
  <2>3. persistent[r] = init[i].content
    BY <1>2, <2>1 DEF Knows
  <2> QED BY <1>2, <2>1, <2>2, <2>3
        DEF Sound, Alone, Knows, DerivedOnDisk, RecordOnDisk, MapsAgree
<1> QED BY <1>5, <1>6, <1>7, <1>8, <1>9

\* Every step keeps the invariant.
LEMMA InvStep == ASSUME IInv, [Next]_vars PROVE IInv'
<1> USE PersistentAssumption DEF PersistentAssumption
<1>0. TypeOK /\ TypeOK'
  BY TypeStep DEF IInv
<1> SUFFICES ASSUME NEW r \in CustodyRefs, r \notin raced' PROVE Sound(r)'
  BY <1>0 DEF IInv
<1>1. raced \subseteq raced'
  BY DEF Next, FindNone, Load, Begin, Truncate, WriteSeed, CreateFails, WriteFails,
         RegisterSeed, RegisterCustody, Derive, Crash, vars
<1>2. Sound(r)
  BY <1>1 DEF IInv
<1>3. ASSUME NEW i \in Inits, NEW q \in CustodyRefs, FindNone(i, q) PROVE Sound(r)'
  <2>1. PICK c \in Contents : Begin(i, "absent", q, c)
    BY <1>3 DEF FindNone, Contents
  <2>2. file[q] = None
    BY <1>3 DEF FindNone
  <2> QED BY <1>0, <1>2, <2>1, <2>2, BeginKeepsSound
<1>4. ASSUME NEW i \in Inits, NEW q \in CustodyRefs, Load(i, q) PROVE Sound(r)'
  <2>1. file[q] \in Contents /\ Begin(i, "loaded", q, file[q])
    BY <1>4 DEF Load
  <2> QED BY <1>0, <1>2, <2>1, BeginKeepsSound
<1>5. ASSUME NEW i \in Inits,
             \/ Truncate(i) \/ WriteSeed(i) \/ CreateFails(i) \/ WriteFails(i)
             \/ RegisterSeed(i) \/ RegisterCustody(i)
      PROVE  Sound(r)'
  <2>1. init[i] # None /\ init[i] \in Calls
    BY <1>0, <1>5 DEF Truncate, WriteSeed, CreateFails, WriteFails, RegisterSeed,
                      RegisterCustody, At, TypeOK
  <2>2. CASE init[i].ref = r
    BY <1>0, <1>2, <1>5, <2>1, <2>2, OwnRefKept
  <2>3. CASE init[i].ref # r
    <3>1. \A j \in Inits \ {i} : init'[j] = init[j]
      BY <1>0, <1>5 DEF Truncate, WriteSeed, CreateFails, WriteFails, RegisterSeed,
                        RegisterCustody, Return, TypeOK
    <3>2. init'[i] # None => init'[i].ref = init[i].ref
      BY <1>0, <1>5, <2>1 DEF Truncate, WriteSeed, CreateFails, WriteFails,
                        RegisterSeed, RegisterCustody, Return, TypeOK, Calls
    <3>3. /\ file'[r] = file[r] /\ persistent'[r] = persistent[r]
          /\ custodies'[r] = custodies[r] /\ derived'[r] = derived[r]
      BY <1>0, <1>5, <2>3 DEF Truncate, WriteSeed, CreateFails, WriteFails,
                        RegisterSeed, RegisterCustody, TypeOK
    <3> QED BY <1>0, <1>2, <2>1, <2>3, <3>1, <3>2, <3>3, OtherRefsKept
  <2> QED BY <2>2, <2>3
<1>6. ASSUME NEW q \in CustodyRefs, Derive(q) PROVE Sound(r)'
  <2>1. /\ file' = file /\ persistent' = persistent /\ custodies' = custodies
        /\ init' = init
    BY <1>6 DEF Derive
  <2>2. DerivedOnDisk(r)'
    <3>1. \A c \in derived'[r] : \/ c \in derived[r]
                                 \/ persistent[r] # None /\ c = persistent[r]
      BY <1>0, <1>6 DEF Derive, TypeOK
    <3> QED BY <1>2, <2>1, <3>1 DEF Sound, DerivedOnDisk, RecordOnDisk
  <2> QED BY <1>2, <2>1, <2>2
        DEF Sound, Alone, Knows, InFlight, RecordOnDisk, MapsAgree
<1>7. CASE Crash
  <2>1. persistent'[r] = None /\ file' = file /\ derived' = derived
    BY <1>7 DEF Crash
  <2>2. \A i \in Inits : ~InFlight(i, r)'
    BY <1>7 DEF Crash, InFlight
  <2> QED BY <1>2, <2>1, <2>2
        DEF Sound, Alone, Knows, DerivedOnDisk, RecordOnDisk, MapsAgree
<1>8. CASE UNCHANGED vars
  BY <1>2, <1>8 DEF vars, Sound, Alone, Knows, InFlight, DerivedOnDisk, RecordOnDisk,
                    MapsAgree
<1> QED BY <1>3, <1>4, <1>5, <1>6, <1>7, <1>8 DEF Next

\* The initial state satisfies the invariant.
LEMMA InitInv == Init => IInv
<1> SUFFICES ASSUME Init PROVE IInv
  OBVIOUS
<1>1. TypeOK
  BY DEF Init, TypeOK
<1>2. ASSUME NEW r \in CustodyRefs PROVE Sound(r)
  BY DEF Init, Sound, Alone, Knows, InFlight, DerivedOnDisk, RecordOnDisk, MapsAgree
<1> QED BY <1>1, <1>2 DEF IInv

\* The invariant holds in every reachable state.
LEMMA Invariance == Spec => []IInv
<1>1. Init => IInv
  BY InitInv
<1>2. IInv /\ [Next]_vars => IInv'
  BY InvStep
<1> QED BY <1>1, <1>2, PTL DEF Spec

-----------------------------------------------------------------------------

\* Every variable keeps its type (the file, the two maps, the calls in flight).
THEOREM TypeCorrect == Spec => []TypeOK
<1>1. IInv => TypeOK
  BY DEF IInv
<1> QED BY <1>1, Invariance, PTL

\* All keys ever derived for a ref come from one seed of one owner
\* (loadOrCreatePersistentCustodySeed, derivePersistentCustodyKey).
THEOREM OneSeed == Spec => []SeedIsForever
<1>1. ASSUME IInv PROVE SeedIsForever
  <2> SUFFICES ASSUME NEW r \in CustodyRefs \ raced,
                      NEW c \in derived[r], NEW d \in derived[r]
               PROVE  c = d
    BY DEF SeedIsForever
  <2>1. file[r] = c /\ file[r] = d
    BY <1>1 DEF IInv, Sound, DerivedOnDisk
  <2> QED BY <2>1
<1> QED BY <1>1, Invariance, PTL

\* What keys are derived from is in the file, whole (Init registers a seed only
\* after it has read it or written it).
THEOREM SeedSurvives == Spec => []SeedIsOnDisk
<1>1. IInv => SeedIsOnDisk
  BY DEF IInv, Sound, RecordOnDisk, SeedIsOnDisk
<1> QED BY <1>1, Invariance, PTL

\* The two maps Init fills name one owner for a ref (persistentCustodyModule.Init).
THEOREM MapsNameOneOwner == Spec => []RegistriesAgree
<1>1. IInv => RegistriesAgree
  BY DEF IInv, Sound, MapsAgree, RegistriesAgree
<1> QED BY <1>1, Invariance, PTL

=============================================================================
