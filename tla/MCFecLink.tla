----------------------------- MODULE MCFecLink -----------------------------
(* Instances of FecLink for TLC.                                           *)
EXTENDS FecLink, TLC

(* Every delivery profile a datagram track can have.                       *)
AllProfiles == [fec_enabled : BOOLEAN, isData : BOOLEAN]

ObjectSymmetry == Permutations(Objects)
=============================================================================
