----------------------------- MODULE MCEventAdmin -----------------------------
(***************************************************************************)
(* A small instance of EventAdmin for TLC.                                 *)
(***************************************************************************)
EXTENDS EventAdmin, TLC

CONSTANTS a, b, c

\* a and b take the same place, a with a price and b without; c stands just over
\* the edge of the map.
PlanOf == [z \in Zones |-> IF z = c THEN {1} ELSE {0}]

\* Tickets that are paid for, free ones, and no assigned seats; a race can mix them.
WantedOf ==
  {[kind |-> "ASSIGNED", size |-> 1, ticket |-> "PAID"],
   [kind |-> "ASSIGNED", size |-> 1, ticket |-> "FREE"],
   [kind |-> "GENERAL_ADMISSION", size |-> NoMap, ticket |-> "FREE"]}

HostSymmetry == Permutations(Hosts)
=============================================================================
