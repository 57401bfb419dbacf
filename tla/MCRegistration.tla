--------------------------- MODULE MCRegistration ---------------------------
(* Registration for TLC. *)
EXTENDS Registration, TLC

NoBackends == <<>>

Symmetry == Permutations(Addresses)
=============================================================================
