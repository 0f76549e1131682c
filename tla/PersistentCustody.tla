-------------------------- MODULE PersistentCustody -------------------------
(***************************************************************************)
(* The persistent custody module: persistentCustodyModule.Init and         *)
(* derivePersistentCustodyKey of internal/custody.go.                      *)
(*                                                                         *)
(* A custody ref has a file that holds one seed, sealed with a host secret *)
(* and labelled with the configuration it was made for.  Init reads it, or *)
(* makes a seed and writes the file in place when there is none, and then  *)
(* registers the seed and the custody in two maps under two mutexes.  No   *)
(* mutex covers the file, so Inits of one ref may interleave.              *)
(***************************************************************************)
EXTENDS Naturals

CONSTANTS
    Inits,        \* Init calls that may be in flight together
    CustodyRefs,  \* custody refs; each is configured with its own storage_path
    Owners,       \* the account_ref, key_handle and host_secret_ref of a module
    Seeds,        \* what rand.Read returns; a seed nothing holds may come again
    Torn,         \* the content of a file that was not written to its end
    None          \* the absent value

Contents == [owner : Owners, seed : Seeds]

Calls == [pc      : {"absent", "writing", "loaded", "registered"},
          ref     : CustodyRefs,
          content : Contents]

ASSUME PersistentAssumption ==
    /\ None \notin Owners \cup Contents \cup Calls \cup {Torn}
    /\ Torn \notin Contents

VARIABLES
    file,        \* CustodyRefs -> what its storage_path holds; survives a crash
    persistent,  \* signalPersistentCustodies: CustodyRefs -> record or None
    custodies,   \* signalCustodies, as far as these Inits fill it
    init,        \* the local state of each Init
    derived,     \* history: the records keys of a ref were ever derived from
    raced        \* history: refs of which two Inits were in flight together

vars == <<file, persistent, custodies, init, derived, raced>>

TypeOK ==
    /\ file \in [CustodyRefs -> Contents \cup {Torn, None}]
    /\ persistent \in [CustodyRefs -> Contents \cup {None}]
    /\ custodies \in [CustodyRefs -> Owners \cup {None}]
    /\ init \in [Inits -> Calls \cup {None}]
    /\ derived \in [CustodyRefs -> SUBSET Contents]
    /\ raced \subseteq CustodyRefs

Init ==
    /\ file = [r \in CustodyRefs |-> None]
    /\ persistent = [r \in CustodyRefs |-> None]
    /\ custodies = [r \in CustodyRefs |-> None]
    /\ init = [i \in Inits |-> None]
    /\ derived = [r \in CustodyRefs |-> {}]
    /\ raced = {}

-----------------------------------------------------------------------------

InFlight(i, r) == init[i] # None /\ init[i].ref = r

At(i, pc) == init[i] # None /\ init[i].pc = pc

\* Some seed is held by nothing but the caller.
Fresh(s) ==
    /\ \A r \in CustodyRefs : /\ \A c \in derived[r] : c.seed # s
                              /\ file[r] \in Contents => file[r].seed # s
                              /\ persistent[r] # None => persistent[r].seed # s
    /\ \A i \in Inits : init[i] # None => init[i].content.seed # s

Return(i) == init' = [init EXCEPT ![i] = None]

\* The Init of ref r goes on with a content it has read or is about to write.
Begin(i, pc, r, content) ==
    /\ init[i] = None
    /\ init' = [init EXCEPT ![i] = [pc |-> pc, ref |-> r, content |-> content]]
    /\ raced' = IF \E j \in Inits : InFlight(j, r) THEN raced \cup {r} ELSE raced
    /\ UNCHANGED <<file, persistent, custodies, derived>>

\* There is no file: a seed is made.
FindNone(i, r) ==
    /\ file[r] = None
    /\ \E o \in Owners, s \in Seeds :
          Fresh(s) /\ Begin(i, "absent", r, [owner |-> o, seed |-> s])

\* Mutant: the refs in the file are not compared with the configuration.
LoadAnyOwner(i, r) ==
    /\ file[r] \in Contents
    /\ \E o \in Owners : Begin(i, "loaded", r, [file[r] EXCEPT !.owner = o])

\* decryptPersistentCustodySeed: the file is whole, its refs are those of the
\* configuration and the host secret opens it.  An Init that cannot resolve its
\* secret or load the file returns an error and changes nothing.
Load(i, r) ==
    /\ file[r] \in Contents
    /\ \E o \in Owners : file[r].owner = o /\ Begin(i, "loaded", r, file[r])

\* os.WriteFile has created or truncated the file and not written it yet.
Truncate(i) ==
    /\ At(i, "absent")
    /\ file' = [file EXCEPT ![init[i].ref] = Torn]
    /\ init' = [init EXCEPT ![i].pc = "writing"]
    /\ UNCHANGED <<persistent, custodies, derived, raced>>

\* os.WriteFile has written.  Over what another Init wrote meanwhile, which may be
\* longer, the file is whole or has a tail of the other.
Written(r, content) == {content} \cup (IF file[r] = Torn THEN {} ELSE {Torn})

WriteSeed(i) ==
    /\ At(i, "writing")
    /\ \E f \in Written(init[i].ref, init[i].content) :
          file' = [file EXCEPT ![init[i].ref] = f]
    /\ init' = [init EXCEPT ![i].pc = "loaded"]
    /\ UNCHANGED <<persistent, custodies, derived, raced>>

\* The directory or the file cannot be created.
CreateFails(i) ==
    /\ At(i, "absent")
    /\ Return(i)
    /\ UNCHANGED <<file, persistent, custodies, derived, raced>>

\* Mutant: the error of os.WriteFile is ignored.
WriteFailsIgnored(i) ==
    /\ At(i, "writing")
    /\ file' = [file EXCEPT ![init[i].ref] = Torn]
    /\ init' = [init EXCEPT ![i].pc = "loaded"]
    /\ UNCHANGED <<persistent, custodies, derived, raced>>

\* Writing stops before the end; nothing removes what was written.
WriteFails(i) ==
    /\ At(i, "writing")
    /\ file' = [file EXCEPT ![init[i].ref] = Torn]
    /\ Return(i)
    /\ UNCHANGED <<persistent, custodies, derived, raced>>

\* Mutant: Init returns between the two maps.
RegisterSeedOnly(i) ==
    /\ At(i, "loaded")
    /\ persistent' = [persistent EXCEPT ![init[i].ref] = init[i].content]
    /\ Return(i)
    /\ UNCHANGED <<file, custodies, derived, raced>>

RegisterSeed(i) ==
    /\ At(i, "loaded")
    /\ persistent' = [persistent EXCEPT ![init[i].ref] = init[i].content]
    /\ init' = [init EXCEPT ![i].pc = "registered"]
    /\ UNCHANGED <<file, custodies, derived, raced>>

RegisterCustody(i) ==
    /\ At(i, "registered")
    /\ custodies' = [custodies EXCEPT ![init[i].ref] = init[i].content.owner]
    /\ Return(i)
    /\ UNCHANGED <<file, persistent, derived, raced>>

\* Mutant: an unregistered ref is not refused.
DeriveUnchecked(r) ==
    /\ derived' = [derived EXCEPT ![r] = @ \cup {persistent[r]}]
    /\ UNCHANGED <<file, persistent, custodies, init, raced>>

\* derivePersistentCustodyKey: the key is a function of the seed and a label.
Derive(r) ==
    /\ persistent[r] # None
    /\ derived' = [derived EXCEPT ![r] = @ \cup {persistent[r]}]
    /\ UNCHANGED <<file, persistent, custodies, init, raced>>

\* The host process dies, with whatever it had written so far in the file.
Crash ==
    /\ persistent' = [r \in CustodyRefs |-> None]
    /\ custodies' = [r \in CustodyRefs |-> None]
    /\ init' = [i \in Inits |-> None]
    /\ UNCHANGED <<file, derived, raced>>

Next ==
    \/ \E i \in Inits :
          \/ \E r \in CustodyRefs : FindNone(i, r) \/ Load(i, r)
          \/ Truncate(i) \/ WriteSeed(i) \/ CreateFails(i) \/ WriteFails(i)
          \/ RegisterSeed(i) \/ RegisterCustody(i)
    \/ \E r \in CustodyRefs : Derive(r)
    \/ Crash

Spec == Init /\ [][Next]_vars

-----------------------------------------------------------------------------
\* Properties.  Two Inits of one ref in flight together may both find no file and
\* go on with different seeds, so all three speak of refs that never raced.

\* All keys ever derived for a ref come from one seed of one owner, across crashes
\* at any point of the first write, failed writes, restarts and modules configured
\* with the refs of another account ("derived key changed across restart").
SeedIsForever ==
    \A r \in CustodyRefs \ raced : \A c, d \in derived[r] : c = d

\* What keys are derived from can be loaded again after a crash: it is in the file,
\* whole, from the moment it is registered.
SeedIsOnDisk ==
    \A r \in CustodyRefs \ raced : persistent[r] # None => file[r] = persistent[r]

\* The two maps Init fills, one after the other, name one owner for a ref once no
\* Init of it is in flight.
RegistriesAgree ==
    \A r \in CustodyRefs \ raced :
        (\A i \in Inits : ~InFlight(i, r)) /\ persistent[r] # None
        => custodies[r] = persistent[r].owner

=============================================================================
