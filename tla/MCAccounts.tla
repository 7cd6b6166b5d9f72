------------------------------ MODULE MCAccounts ------------------------------
(***************************************************************************)
(* A small instance of Accounts for TLC.                                   *)
(***************************************************************************)
EXTENDS Accounts, TLC

CONSTANTS ann, Ann, bob

\* ann is also written Ann.
LowerOf == [e \in Emails |-> IF e = Ann THEN ann ELSE e]

Symmetry == Permutations(Threads) \cup Permutations(Codes) \cup Permutations(Names)
              \cup Permutations(Passwords)
=============================================================================
