--------------------------- MODULE MCLinkCeremony ---------------------------
(* LinkCeremony for TLC. *)
EXTENDS LinkCeremony, TLC

MCExpiries == 1 .. MaxClock + 1

MCSymmetry == Permutations(Procs) \cup Permutations(Consents)
=============================================================================
