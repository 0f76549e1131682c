------------------------- MODULE LinkCeremonyProofs -------------------------
(***************************************************************************)
(* What holds of the linked-device ceremony for every set of steps,        *)
(* consents and expiries and every bound of the clock.  A restart of the   *)
(* host starts over: what is stated is stated of one host process.         *)
(***************************************************************************)
EXTENDS LinkCeremony, TLAPS

\* Every admission whose expiry has not come yet is still claimed, with an expiry
\* at least as late.  This is what makes the replay check sufficient.
Covered ==
    \A c \in Consents : \A e \in admitted[c] : e > clock => claims[c] >= e

\* A step's look at the clock is never ahead of the clock.
NowIsPast == \A p \in Procs : call[p].pc = "sampled" => call[p].now <= clock

\* A step that holds a claim was admitted, and while its consent runs no other
\* step holds the same one.
HoldersAdmitted ==
    \A p \in Procs : call[p].pc = "claimed" =>
        call[p].expires \in admitted[call[p].consent]

IInv == TypeOK /\ Covered /\ NowIsPast /\ HoldersAdmitted /\ NoTwoCeremonies

\* The numbers a well-typed state holds.
LEMMA NumberTypes ==
  ASSUME TypeOK
  PROVE  /\ clock \in Nat
         /\ \A c \in Consents : claims[c] \in Nat
         /\ \A c \in Consents : \A e \in admitted[c] : e \in Nat
<1>1. Expiries \cup {0} \subseteq Nat
  BY LinkAssumption DEF LinkAssumption
<1>2. clock \in Nat
  BY LinkAssumption DEF LinkAssumption, TypeOK
<1>3. ASSUME NEW c \in Consents PROVE claims[c] \in Nat
  <2>1. claims[c] \in Expiries \cup {0}
    BY DEF TypeOK
  <2> QED BY <1>1, <2>1
<1>4. ASSUME NEW c \in Consents, NEW e \in admitted[c] PROVE e \in Nat
  <2>1. admitted[c] \subseteq Expiries
    BY DEF TypeOK
  <2> QED BY <1>1, <2>1
<1> QED BY <1>2, <1>3, <1>4

\* The initial state satisfies the invariant.
LEMMA InitInv == Init => IInv
<1> SUFFICES ASSUME Init PROVE IInv
  OBVIOUS
<1>1. TypeOK
  BY LinkAssumption DEF LinkAssumption, Init, TypeOK, Resting
<1>2. Covered
  BY DEF Init, Covered
<1>3. NowIsPast /\ HoldersAdmitted /\ NoTwoCeremonies
  BY DEF Init, NowIsPast, HoldersAdmitted, NoTwoCeremonies
<1> QED BY <1>1, <1>2, <1>3 DEF IInv

\* Every step keeps the types.
LEMMA TypeStep == ASSUME TypeOK, [Next]_vars PROVE TypeOK'
<1> USE LinkAssumption DEF LinkAssumption
<1>1. CASE Tick
  BY <1>1 DEF Tick, TypeOK, Calls, Resting
<1>2. ASSUME NEW p \in Procs, Sample(p) PROVE TypeOK'
  BY <1>2 DEF Sample, Ceremonies, Return, TypeOK, Calls, Resting
<1>3. ASSUME NEW p \in Procs, Claim(p) PROVE TypeOK'
  <2> DEFINE c == call[p].consent
             left == Unexpired(call[p].now)
  <2>1. call[p] \in Calls
    BY <1>3 DEF Claim, TypeOK, Resting
  <2>2. left \in [Consents -> Expiries \cup {0}]
    BY DEF Unexpired, TypeOK
  <2>3. CASE left[c] # 0
    BY <1>3, <2>2, <2>3 DEF Claim, Return, TypeOK, Resting
  <2>4. CASE left[c] = 0
    <3>1. c \in Consents /\ call[p].expires \in Expiries
      BY <2>1 DEF Calls
    <3>2. /\ claims' = [left EXCEPT ![c] = call[p].expires]
          /\ admitted' = [admitted EXCEPT ![c] = @ \cup {call[p].expires}]
          /\ call' = [call EXCEPT ![p].pc = "claimed"]
          /\ clock' = clock
      BY <1>3, <2>4 DEF Claim
    <3>3. call' \in [Procs -> Calls \cup Resting]
      BY <2>1, <3>2 DEF TypeOK, Calls
    <3> QED BY <2>2, <3>1, <3>2, <3>3 DEF TypeOK
  <2> QED BY <2>3, <2>4
<1>4. ASSUME NEW p \in Procs, Prepare(p) PROVE TypeOK'
  BY <1>4 DEF Prepare, Return, TypeOK, Resting
<1>5. CASE Restart
  BY <1>5 DEF Restart, TypeOK, Resting
<1>6. CASE UNCHANGED vars
  BY <1>6 DEF vars, TypeOK
<1> QED BY <1>1, <1>2, <1>3, <1>4, <1>5, <1>6 DEF Next

\* A step that gets its claim finds no earlier admission still running.
LEMMA ClaimFindsNoneRunning ==
  ASSUME IInv, NEW p \in Procs, Claim(p), call'[p].pc = "claimed"
  PROVE  /\ call[p] \in Calls
         /\ Unexpired(call[p].now)[call[p].consent] = 0
         /\ \A e \in admitted[call[p].consent] : e <= clock
<1> USE LinkAssumption DEF LinkAssumption
<1>1. call[p] \in Calls
  BY DEF Claim, IInv, TypeOK, Resting
<1>2. Unexpired(call[p].now)[call[p].consent] = 0
  <2> SUFFICES ASSUME Unexpired(call[p].now)[call[p].consent] # 0 PROVE FALSE
    OBVIOUS
  <2> QED BY DEF Claim, Return, IInv, TypeOK
<1>3. claims[call[p].consent] <= call[p].now
  BY <1>1, <1>2 DEF Unexpired, Calls, IInv, TypeOK
<1>4. call[p].now <= clock
  BY DEF Claim, IInv, NowIsPast
<1>5. \A e \in admitted[call[p].consent] : e <= clock
  <2> SUFFICES ASSUME NEW e \in admitted[call[p].consent] PROVE e <= clock
    OBVIOUS
  <2>1. call[p].consent \in Consents /\ call[p].now \in Nat
    BY <1>1 DEF Calls
  <2>2. clock \in Nat /\ claims[call[p].consent] \in Nat /\ e \in Nat
    BY <2>1, NumberTypes DEF IInv
  <2>5. e > clock => claims[call[p].consent] >= e
    BY <2>1 DEF IInv, Covered
  <2> QED BY <1>3, <1>4, <2>1, <2>2, <2>5
<1> QED BY <1>1, <1>2, <1>5

\* Claim keeps the four conjuncts beyond the types.
LEMMA ClaimKeepsInv ==
  ASSUME IInv, NEW p \in Procs, Claim(p), TypeOK'
  PROVE  Covered' /\ NowIsPast' /\ HoldersAdmitted' /\ NoTwoCeremonies'
<1> USE LinkAssumption DEF LinkAssumption
<1> DEFINE c == call[p].consent
           left == Unexpired(call[p].now)
<1>1. call[p] \in Calls /\ call[p].pc = "sampled" /\ clock' = clock
  BY DEF Claim, IInv, TypeOK, Resting
<1>2. /\ c \in Consents /\ call[p].now \in Nat /\ clock \in Nat
      /\ call[p].expires \in Expiries
  BY <1>1 DEF Calls, IInv, TypeOK
<1>3. \A d \in Consents : \A e \in admitted[d] : e > clock => left[d] >= e
  <2> SUFFICES ASSUME NEW d \in Consents, NEW e \in admitted[d], e > clock
               PROVE  left[d] >= e
    OBVIOUS
  <2>1. e \in Nat /\ claims[d] \in Nat
    BY NumberTypes DEF IInv
  <2>2. claims[d] >= e /\ call[p].now <= clock
    BY <1>1 DEF IInv, Covered, NowIsPast
  <2>3. ~(claims[d] <= call[p].now)
    BY <1>2, <2>1, <2>2
  <2> QED BY <2>2, <2>3 DEF Unexpired
<1>4. CASE left[c] # 0
  <2>1. /\ claims' = left
        /\ admitted' = admitted
        /\ call' = [call EXCEPT ![p] = [pc |-> "err"]]
    BY <1>4 DEF Claim, Return
  <2>2. \A q \in Procs : call'[q].pc # "err" => call'[q] = call[q]
    BY <2>1 DEF IInv, TypeOK
  <2>3. Covered'
    BY <1>1, <1>3, <2>1 DEF Covered
  <2>4. NowIsPast' /\ HoldersAdmitted'
    BY <1>1, <2>1, <2>2 DEF IInv, NowIsPast, HoldersAdmitted
  <2>5. NoTwoCeremonies'
    BY <1>1, <2>2 DEF IInv, NoTwoCeremonies
  <2> QED BY <2>3, <2>4, <2>5
<1>5. CASE left[c] = 0
  <2>1. /\ claims' = [left EXCEPT ![c] = call[p].expires]
        /\ admitted' = [admitted EXCEPT ![c] = @ \cup {call[p].expires}]
        /\ call' = [call EXCEPT ![p].pc = "claimed"]
    BY <1>5 DEF Claim
  <2>2. /\ call'[p].pc = "claimed" /\ call'[p].consent = c
        /\ call'[p].expires = call[p].expires
    BY <1>1, <2>1 DEF Calls, IInv, TypeOK
  <2>3. \A q \in Procs : q # p => call'[q] = call[q]
    BY <2>1 DEF IInv, TypeOK
  <2>4. \A e \in admitted[c] : e <= clock
    BY <2>2, ClaimFindsNoneRunning
  <2>5. /\ admitted'[c] = admitted[c] \cup {call[p].expires}
        /\ \A d \in Consents : d # c => admitted'[d] = admitted[d]
    BY <1>2, <2>1 DEF IInv, TypeOK
  <2>6. /\ claims'[c] = call[p].expires
        /\ \A d \in Consents : d # c => claims'[d] = left[d]
    BY <1>2, <2>1 DEF Unexpired
  <2>7. Covered'
    <3> SUFFICES ASSUME NEW d \in Consents, NEW e \in admitted'[d], e > clock
                 PROVE  claims'[d] >= e
      BY <1>1 DEF Covered
    <3>1. CASE d # c
      BY <1>3, <2>5, <2>6, <3>1
    <3>2. CASE d = c
      <4>1. admitted[c] \subseteq Nat
        BY <1>2 DEF IInv, TypeOK
      <4>2. e = call[p].expires
        BY <1>2, <2>4, <2>5, <3>2, <4>1
      <4>3. call[p].expires \in Nat
        BY <1>2
      <4> QED BY <2>6, <3>2, <4>2, <4>3
    <3> QED BY <3>1, <3>2
  <2>8. NowIsPast'
    BY <1>1, <2>2, <2>3 DEF IInv, NowIsPast
  <2>9. HoldersAdmitted'
    <3> SUFFICES ASSUME NEW q \in Procs, call'[q].pc = "claimed"
                 PROVE  call'[q].expires \in admitted'[call'[q].consent]
      BY DEF HoldersAdmitted
    <3>1. CASE q = p
      BY <2>2, <2>5, <3>1
    <3>2. CASE q # p
      <4>1. call[q] \in Calls
        BY <2>3, <3>2 DEF IInv, TypeOK, Resting
      <4>2. call[q].expires \in admitted[call[q].consent]
        BY <2>3, <3>2 DEF IInv, HoldersAdmitted
      <4> QED BY <2>3, <2>5, <3>2, <4>1, <4>2 DEF Calls
    <3> QED BY <3>1, <3>2
  <2>10. \A q \in Procs : /\ q # p
                          /\ call'[q].pc = "claimed"
                          /\ call'[q].consent = c
                          => call'[q].expires <= clock
    BY <2>3, <2>4 DEF IInv, HoldersAdmitted
  <2>11. NoTwoCeremonies'
    BY <1>1, <2>2, <2>3, <2>10 DEF IInv, NoTwoCeremonies
  <2> QED BY <2>7, <2>8, <2>9, <2>11
<1> QED BY <1>4, <1>5

\* Every step keeps the invariant.  The critical section is the case that matters:
\* a step that finds its consent unclaimed after pruning knows that every earlier
\* admission of it has expired.
LEMMA InvStep == ASSUME IInv, [Next]_vars PROVE IInv'
<1> USE LinkAssumption DEF LinkAssumption
<1>0. TypeOK'
  BY TypeStep DEF IInv
<1>1. CASE Tick
  <2>1. clock \in Nat /\ clock' \in Nat /\ clock <= clock'
    BY <1>1 DEF Tick, IInv, TypeOK
  <2>2. claims' = claims /\ call' = call /\ admitted' = admitted
    BY <1>1 DEF Tick
  <2>3. Covered'
    <3> SUFFICES ASSUME NEW c \in Consents, NEW e \in admitted[c], e > clock'
                 PROVE  claims[c] >= e
      BY <2>2 DEF Covered
    <3>1. e \in Nat
      BY DEF IInv, TypeOK
    <3>2. e > clock
      BY <2>1, <3>1
    <3> QED BY <3>2 DEF IInv, Covered
  <2>4. NowIsPast'
    <3> SUFFICES ASSUME NEW p \in Procs, call[p].pc = "sampled"
                 PROVE  call[p].now <= clock'
      BY <2>2 DEF NowIsPast
    <3>1. call[p] \in Calls
      BY DEF IInv, TypeOK, Resting
    <3>2. call[p].now \in Nat
      BY <3>1 DEF Calls
    <3>3. call[p].now <= clock
      BY DEF IInv, NowIsPast
    <3> QED BY <2>1, <3>2, <3>3
  <2>5. HoldersAdmitted'
    BY <2>2 DEF IInv, HoldersAdmitted
  <2>6. NoTwoCeremonies'
    <3> SUFFICES ASSUME NEW p \in Procs, NEW q \in Procs, p # q,
                        call[p].pc = "claimed", call[q].pc = "claimed",
                        call[p].consent = call[q].consent
                 PROVE  call[p].expires <= clock' \/ call[q].expires <= clock'
      BY <2>2 DEF NoTwoCeremonies
    <3>1. call[p] \in Calls /\ call[q] \in Calls
      BY DEF IInv, TypeOK, Resting
    <3>2. call[p].expires \in Nat /\ call[q].expires \in Nat
      BY <3>1 DEF Calls
    <3>3. call[p].expires <= clock \/ call[q].expires <= clock
      BY DEF IInv, NoTwoCeremonies
    <3> QED BY <2>1, <3>2, <3>3
  <2> QED BY <1>0, <2>3, <2>4, <2>5, <2>6 DEF IInv
<1>2. ASSUME NEW p \in Procs, Sample(p) PROVE IInv'
  <2>1. clock' = clock /\ claims' = claims /\ admitted' = admitted
    BY <1>2 DEF Sample
  <2>2. \A q \in Procs : q # p => call'[q] = call[q]
    BY <1>2 DEF Sample, Return, IInv, TypeOK
  <2>3. /\ call'[p].pc # "claimed"
        /\ call'[p].pc = "sampled" => call'[p].now = clock
    BY <1>2 DEF Sample, Return, IInv, TypeOK
  <2>4. Covered'
    BY <2>1 DEF IInv, Covered
  <2>5. NowIsPast'
    <3>1. clock <= clock
      BY DEF IInv, TypeOK
    <3> QED BY <2>1, <2>2, <2>3, <3>1 DEF IInv, NowIsPast
  <2>6. HoldersAdmitted' /\ NoTwoCeremonies'
    BY <2>1, <2>2, <2>3 DEF IInv, HoldersAdmitted, NoTwoCeremonies
  <2> QED BY <1>0, <2>4, <2>5, <2>6 DEF IInv
<1>3. ASSUME NEW p \in Procs, Claim(p) PROVE IInv'
  BY <1>0, <1>3, ClaimKeepsInv DEF IInv
<1>4. ASSUME NEW p \in Procs, Prepare(p) PROVE IInv'
  <2>1. clock' = clock /\ claims' = claims /\ admitted' = admitted
    BY <1>4 DEF Prepare
  <2>2. /\ \A q \in Procs : q # p => call'[q] = call[q]
        /\ call'[p].pc \in {"ok", "err"}
    BY <1>4 DEF Prepare, Return, IInv, TypeOK
  <2>3. Covered' /\ NowIsPast' /\ HoldersAdmitted' /\ NoTwoCeremonies'
    BY <2>1, <2>2 DEF IInv, Covered, NowIsPast, HoldersAdmitted, NoTwoCeremonies
  <2> QED BY <1>0, <2>3 DEF IInv
<1>5. CASE Restart
  <2>1. Covered'
    BY <1>5 DEF Restart, Covered
  <2>2. NowIsPast' /\ HoldersAdmitted' /\ NoTwoCeremonies'
    BY <1>5 DEF Restart, NowIsPast, HoldersAdmitted, NoTwoCeremonies
  <2> QED BY <1>0, <2>1, <2>2 DEF IInv
<1>6. CASE UNCHANGED vars
  BY <1>0, <1>6 DEF vars, IInv, Covered, NowIsPast, HoldersAdmitted, NoTwoCeremonies
<1> QED BY <1>1, <1>2, <1>3, <1>4, <1>5, <1>6 DEF Next

-----------------------------------------------------------------------------

\* Every variable keeps its type (the claims map, the steps' samples of the clock).
THEOREM TypeCorrect == Spec => []TypeOK
<1>1. Init => TypeOK
  BY InitInv DEF IInv
<1>2. TypeOK /\ [Next]_vars => TypeOK'
  BY TypeStep
<1> QED BY <1>1, <1>2, PTL DEF Spec

\* Two steps never prepare link operations on one consent
\* that is still running (the claim taken under linkedDeviceCeremoniesMu).
THEOREM Exclusion == Spec => []NoTwoCeremonies
<1>1. Init => IInv
  BY InitInv
<1>2. IInv /\ [Next]_vars => IInv'
  BY InvStep
<1>3. IInv => NoTwoCeremonies
  BY DEF IInv
<1> QED BY <1>1, <1>2, <1>3, PTL DEF Spec

\* A host process admits a consent again only after the clock has
\* passed the expiry of every earlier admission (the pruning and the replay check
\* of validateLinkedDeviceCeremony).
THEOREM NoReplay == Spec => NoReplayBeforeExpiry
<1> DEFINE Fresh == \A p \in Procs : Admits(p) =>
                       \A e \in admitted[call[p].consent] : e <= clock
<1>1. Init => IInv
  BY InitInv
<1>2. IInv /\ [Next]_vars => IInv'
  BY InvStep
<1>3. ASSUME IInv, [Next]_vars PROVE [Fresh]_vars
  <2> SUFFICES ASSUME Next, NEW p \in Procs, Admits(p)
               PROVE  \A e \in admitted[call[p].consent] : e <= clock
    BY <1>3
  <2>1. CASE Claim(p)
    BY <1>3, <2>1, ClaimFindsNoneRunning DEF Admits
  <2>2. CASE ~Claim(p)
    <3>1. call'[p] = call[p] \/ call'[p].pc \in {"idle", "sampled", "ok", "err"}
      BY <1>3, <2>2 DEF Next, Tick, Sample, Claim, Prepare, Restart, Return, IInv, TypeOK
    <3> QED BY <3>1 DEF Admits
  <2> QED BY <2>1, <2>2
<1> QED BY <1>1, <1>2, <1>3, PTL DEF Spec, NoReplayBeforeExpiry

=============================================================================
