-------------------------- MODULE MCGeneralAdmission --------------------------
(***************************************************************************)
(* Small instances of GeneralAdmission for TLC.                            *)
(***************************************************************************)
EXTENDS GeneralAdmission, TLC

CONSTANTS z1, z2, z3

\* z3 has the name of z1: they exclude each other.
ZoneName == [z \in Zones |-> IF z = z2 THEN "standing" ELSE "floor"]

\* No definition names a request, a loop or a user.
Symmetry == Permutations(Requests) \cup Permutations(Loops) \cup Permutations(Users)
=============================================================================
