------------------------------ MODULE SeatSale ------------------------------
(***************************************************************************)
(* What TicketRush promises about the seats of one assigned-seating event, *)
(* with no handler, lock or cache in sight.  A seat is on offer, on hold   *)
(* for one user until a deadline, or sold to one user for ever.  A hold is *)
(* lost only because its user gave it up, its user bought the seat, or its *)
(* deadline passed.  SeatBooking implements this specification.            *)
(***************************************************************************)
EXTENDS Naturals, FiniteSets

CONSTANTS Seats, Users, NoUser, MaxBookable

VARIABLES
  sale,      \* [Seats -> [status, who]]: who holds or owns each seat
  deadline,  \* [Seats -> Nat]: when the hold on a seat lapses, 0 if none
  clock      \* wall-clock time

vars == <<sale, deadline, clock>>

OnOffer    == [status |-> "AVAILABLE", who |-> NoUser]
HeldBy(u)  == [status |-> "LOCKED", who |-> u]
SoldTo(u)  == [status |-> "SOLD", who |-> u]

Bought(u)  == {s \in Seats : sale[s] = SoldTo(u)}
Lapsed     == {s \in Seats : sale[s].status = "LOCKED" /\ deadline[s] < clock}

Init ==
  /\ sale = [s \in Seats |-> OnOffer]
  /\ deadline = [s \in Seats |-> 0]
  /\ clock = 1

\* Any operation may first take back some holds whose deadline has passed.
TakeBack(E) ==
  /\ sale' = [s \in Seats |-> IF s \in E THEN OnOffer ELSE sale[s]]
  /\ deadline' = [s \in Seats |-> IF s \in E THEN 0 ELSE deadline[s]]

Lapse ==
  /\ \E E \in SUBSET Lapsed : TakeBack(E)
  /\ UNCHANGED clock

\* u takes a seat on offer, one whose hold has lapsed, or prolongs its own.
Hold(u, s) ==
  /\ s \in Lapsed \/ sale[s] \in {OnOffer, HeldBy(u)}
  /\ \E E \in SUBSET Lapsed :
       /\ sale' = [x \in Seats |-> IF x = s THEN HeldBy(u)
                                   ELSE IF x \in E THEN OnOffer ELSE sale[x]]
       /\ deadline' = [x \in Seats |-> IF x = s THEN deadline'[s]
                                       ELSE IF x \in E THEN 0 ELSE deadline[x]]
  /\ deadline'[s] \in Nat
  /\ UNCHANGED clock

GiveUp(u, s) ==
  /\ sale[s] = HeldBy(u)
  /\ TakeBack({s})
  /\ UNCHANGED clock

\* u buys seats it holds, all of them or none, within its limit.
Buy(u, S) ==
  /\ \A s \in S : sale[s] = HeldBy(u)
  /\ Cardinality(Bought(u)) + Cardinality(S) <= MaxBookable
  /\ \E E \in SUBSET (Lapsed \ S) :
       /\ sale' = [x \in Seats |-> IF x \in S THEN SoldTo(u)
                                   ELSE IF x \in E THEN OnOffer ELSE sale[x]]
       /\ deadline' = [x \in Seats |-> IF x \in S \cup E THEN 0 ELSE deadline[x]]
  /\ UNCHANGED clock

Pass ==
  /\ clock' = clock + 1
  /\ UNCHANGED <<sale, deadline>>

Next ==
  \/ Lapse
  \/ Pass
  \/ \E u \in Users, s \in Seats : GiveUp(u, s)
  \/ \E u \in Users, s \in Seats : Hold(u, s)
  \/ \E u \in Users, S \in SUBSET Seats : Buy(u, S)

Spec == Init /\ [][Next]_vars
=============================================================================
