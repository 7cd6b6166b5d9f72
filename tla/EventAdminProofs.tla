-------------------------- MODULE EventAdminProofs --------------------------
(***************************************************************************)
(* Proofs about EventAdmin, for any hosts, zones, seats and terms.         *)
(*                                                                         *)
(* The argument: a row of seats lies in a zone of an event that exists     *)
(* (RowsInZones), and a zone's UUID is never made twice.  So a seat with a *)
(* ticket can only go with its zone, which the foreign keys refuse; the    *)
(* rows an update inserts are of zones that no ticket and no lock knows    *)
(* yet, at places where no row is left; and what a host loaded before has no effect on any of it.    *)
(***************************************************************************)
EXTENDS EventAdmin, TLAPS

USE DEF event, sale, Of, Stored

-----------------------------------------------------------------------------
(* The inductive invariant *)

RowsInZones == \A s \in Stored : s \in Of(zones) /\ exists

OneSeatPerPlace == \A s, t \in Stored : s[2] = t[2] => s = t

-----------------------------------------------------------------------------
(* Type correctness *)

LEMMA WrittenType == ASSUME terms \in Terms, NEW l \in Terms, NEW w \in Terms PROVE Written(l, w) \in Terms
BY DEF Written, Column, Terms

LEMMA AskedType == ASSUME NEW l \in Terms, NEW w \in Asked(l) PROVE w \in Terms
BY LayoutAssumption DEF Asked

LEMMA RestingType == Resting \in Edit
BY DEF Resting, Edit, Terms, NoMap

LEMMA TypeStep == ASSUME TypeOK, [Next]_vars PROVE TypeOK'
<1> USE DEF TypeOK
<1>h. ASSUME NEW h \in Hosts PROVE host[h] \in Edit /\ host[h].terms \in Terms /\ host[h].zones \subseteq Zones
  BY DEF Edit
<1>1. ASSUME NEW h \in Hosts, Manage(h) PROVE TypeOK'
  <2>1. ASSUME NEW pc \in {"edit", "countUpdate", "countDelete"}, Open(h, pc) PROVE TypeOK'
    BY <2>1, RestingType DEF Open, Edit
  <2>2. CASE CountSold(h)
    <3>1. host' \in [Hosts -> Edit]
      BY <1>h, <2>2, RestingType DEF CountSold, Goto, End, Edit
    <3> QED BY <2>2, <3>1 DEF CountSold
  <2>3. ASSUME NEW want \in Asked(host[h].terms), EditTerms(h, want) PROVE TypeOK'
    <3>1. Written(host[h].terms, want) \in Terms
      BY <1>h, AskedType, WrittenType
    <3> QED BY <2>3, <3>1, RestingType DEF EditTerms, End
  <2>4. ASSUME NEW want \in Asked(host[h].terms), NEW Z \in SUBSET (Zones \ made), ReplaceZones(h, want, Z)
        PROVE  TypeOK'
    <3>1. Written(host[h].terms, want) \in Terms
      BY <1>h, AskedType, WrittenType
    <3>2. host' \in [Hosts -> Edit] /\ terms' \in Terms
      BY <2>4, <3>1, RestingType DEF ReplaceZones, End
    <3>3. seat' \in [Seats -> Status]
      BY <2>4 DEF ReplaceZones, Status
    <3>4. zones' \subseteq made' /\ made' \subseteq Zones
      BY <2>4 DEF ReplaceZones, Make
    <3> QED BY <2>4, <3>2, <3>3, <3>4 DEF ReplaceZones
  <2>5. CASE Delete(h)
    BY <2>5, RestingType DEF Delete, End, Status
  <2> QED BY <1>1, <2>1, <2>2, <2>3, <2>4, <2>5 DEF Manage
<1>2. ASSUME NEW z \in Zones, CreateZone(z) PROVE TypeOK'
  BY <1>2 DEF CreateZone, Make, Status
<1>3. ASSUME NEW s \in Seats, Hold(s) \/ Release(s) \/ Lapse(s) PROVE TypeOK'
  BY <1>3 DEF Hold, Release, Lapse, Status
<1>4. ASSUME NEW S \in SUBSET lock, AskFor(S) PROVE TypeOK'
  BY <1>4 DEF AskFor
<1>5. CASE Buy
  BY <1>5 DEF Buy, Status
<1>6. CASE UNCHANGED vars
  BY <1>6 DEF vars
<1> QED BY <1>1, <1>2, <1>3, <1>4, <1>5, <1>6 DEF Next

LEMMA TypeInit == Init => TypeOK
BY LayoutAssumption, RestingType DEF Init, TypeOK, Status

\* However the edits of hosts and the sale interleave, event, zones, seats and
\* requests keep TypeOK: no zone is in the table that was not made.
THEOREM TypeCorrect == Spec => []TypeOK
BY TypeInit, TypeStep, PTL DEF Spec

-----------------------------------------------------------------------------
(* The layout against the sale *)

\* What the layout and the sale promise each other.
SaleOK == RowsInZones /\ TicketsKeepSeats /\ WholeOrders /\ NothingWithoutEvent

LEMMA ReplaceSale ==
  ASSUME TypeOK, SaleOK, NEW h \in Hosts, NEW want, NEW Z \in SUBSET (Zones \ made), ReplaceZones(h, want, Z)
  PROVE  SaleOK'
<1> USE DEF SaleOK, TicketsKeepSeats, WholeOrders, NothingWithoutEvent
<1> DEFINE old  == host[h].zones
           rows == SeatsFor(want.kind, Z)
<1>1. CASE UNCHANGED <<zones, seat, exists, tickets, orders>>
  BY <1>1 DEF RowsInZones
<1>2. CASE ~UNCHANGED <<zones, seat>>
  <2>1. /\ exists /\ Deletable(old) /\ UNCHANGED <<exists, tickets, orders>>
        /\ zones' = (zones \ old) \cup Z
        /\ seat' = [s \in Seats |-> IF s \in rows THEN "AVAILABLE"
                                    ELSE IF s \in Of(old) THEN "none" ELSE seat[s]]
    BY <1>2 DEF ReplaceZones, HasEvent
  <2>2. rows \subseteq Of(Z) /\ Z \cap zones = {}
    BY DEF SeatsFor, TypeOK
  <2>3. \A s \in tickets : s \in Seats /\ s \notin rows /\ s \notin Of(old) /\ s[1] \notin old
    BY <2>1, <2>2 DEF TypeOK, RowsInZones, Deletable
  <2>4. TicketsKeepSeats'
    BY <2>1, <2>3
  <2>5. RowsInZones'
    BY <2>1, <2>2 DEF RowsInZones
  <2> QED BY <2>1, <2>4, <2>5
<1> QED BY <1>1, <1>2 DEF ReplaceZones

LEMMA SaleStep == ASSUME TypeOK, SaleOK, [Next]_vars PROVE SaleOK'
<1> USE DEF SaleOK, RowsInZones, TicketsKeepSeats, WholeOrders, NothingWithoutEvent
<1>1. ASSUME NEW h \in Hosts, Manage(h) PROVE SaleOK'
  <2>1. ASSUME NEW pc, Open(h, pc) PROVE SaleOK'
    BY <2>1 DEF Open
  <2>2. CASE CountSold(h)
    BY <2>2 DEF CountSold
  <2>3. ASSUME NEW want, EditTerms(h, want) PROVE SaleOK'
    BY <2>3 DEF EditTerms
  <2>4. CASE Delete(h)
    <3>1. CASE UNCHANGED <<exists, zones, seat>>
      BY <2>4, <3>1 DEF Delete
    <3>2. CASE Deletable(zones) /\ exists' = FALSE /\ zones' = {} /\ seat' = [s \in Seats |-> "none"]
      <4>1. tickets = {}
        BY <3>2 DEF Deletable, TypeOK
      <4> QED BY <2>4, <3>2, <4>1 DEF Delete
    <3> QED BY <2>4, <3>1, <3>2 DEF Delete
  <2> QED BY <1>1, <2>1, <2>2, <2>3, <2>4, ReplaceSale DEF Manage
<1>2. ASSUME NEW z \in Zones, CreateZone(z) PROVE SaleOK'
  <2>1. \A s \in tickets : s \in Seats /\ s \notin Of({z})
    BY <1>2 DEF CreateZone, TypeOK
  <2> QED BY <1>2, <2>1 DEF CreateZone, HasEvent, TypeOK
<1>3. ASSUME NEW s \in Seats, Hold(s) \/ Release(s) \/ Lapse(s) PROVE SaleOK'
  <2>1. \A x \in Seats : (seat'[x] = "none" <=> seat[x] = "none") /\ (seat[x] = "SOLD" => seat'[x] = "SOLD")
    BY <1>3 DEF Hold, Release, Lapse, TypeOK
  <2>2. UNCHANGED <<zones, exists, tickets, orders>>
    BY <1>3 DEF Hold, Release, Lapse
  <2> QED BY <2>1, <2>2 DEF TypeOK
<1>4. ASSUME NEW S \in SUBSET lock, AskFor(S) PROVE SaleOK'
  BY <1>4 DEF AskFor
<1>5. CASE Buy
  <2>1. CASE UNCHANGED <<seat, sale>>
    BY <1>5, <2>1 DEF Buy
  <2>2. CASE AllLocked(cart) /\ ~UNCHANGED <<seat, sale>>
    <3>1. cart # {} /\ cart \subseteq Stored
      BY <1>5, <2>2 DEF Buy, AllLocked, TypeOK
    <3>2. /\ seat' = [s \in Seats |-> IF s \in cart THEN "SOLD" ELSE seat[s]]
          /\ tickets' = tickets \cup cart /\ orders' = orders \cup {cart} /\ UNCHANGED <<zones, exists>>
      BY <1>5, <2>2, <3>1 DEF Buy
    <3> QED BY <3>1, <3>2 DEF TypeOK
  <2> QED BY <1>5, <2>1, <2>2 DEF Buy
<1>6. CASE UNCHANGED vars
  BY <1>6 DEF vars
<1> QED BY <1>1, <1>2, <1>3, <1>4, <1>5, <1>6 DEF Next

LEMMA SaleInductive == Spec => []SaleOK
<1>1. Init => SaleOK
  BY TypeInit DEF Init, TypeOK, SaleOK, RowsInZones, TicketsKeepSeats, WholeOrders, NothingWithoutEvent, SeatsFor
<1>2. TypeOK /\ SaleOK /\ [Next]_vars => SaleOK'
  BY SaleStep
<1> QED BY <1>1, <1>2, TypeCorrect, PTL DEF Spec

\* No host takes a seat away that has a ticket: the count of sold seats may be
\* stale, but the foreign keys hold when an update or a delete writes.
THEOREM TicketsStand == Spec => []TicketsKeepSeats
BY SaleInductive, PTL DEF SaleOK

\* A checkout that reported success sold all its seats, although their locks
\* outlive the rows that hosts replace.
THEOREM OrdersAreWhole == Spec => []WholeOrders
BY SaleInductive, PTL DEF SaleOK

\* A deleted event keeps nothing and gets nothing, from updates and create_zone
\* calls that began before it went.
THEOREM DeletedForGood == Spec => []NothingWithoutEvent
BY SaleInductive, PTL DEF SaleOK

-----------------------------------------------------------------------------
(* The places of the map *)

\* Seats of zones that the validation has passed, or of one zone, do not overlap.
LEMMA RowsApart ==
  ASSUME NEW kind, NEW Z, \A y, z \in Z : y # z => Plan[y] \cap Plan[z] = {},
         NEW s \in SeatsFor(kind, Z), NEW t \in SeatsFor(kind, Z), s[2] = t[2]
  PROVE  s = t
<1>1. /\ s \in Seats /\ s[1] \in Z /\ s[2] \in Plan[s[1]]
      /\ t \in Seats /\ t[1] \in Z /\ t[2] \in Plan[t[1]]
  BY DEF SeatsFor
<1>2. s[1] = t[1]
  BY <1>1
<1> QED BY <1>1, <1>2 DEF Seats

LEMMA PlaceStep == ASSUME TypeOK, OneSeatPerPlace, [Next]_vars PROVE OneSeatPerPlace'
<1>1. ASSUME Stored' \subseteq Stored PROVE OneSeatPerPlace'
  BY <1>1 DEF OneSeatPerPlace
<1>2. ASSUME NEW rows, NEW kept, kept \subseteq Stored, Stored' \subseteq rows \cup kept,
             PlacesFree(rows, kept), \A s, t \in rows : s[2] = t[2] => s = t
      PROVE  OneSeatPerPlace'
  BY <1>2 DEF OneSeatPerPlace, PlacesFree
<1>3. ASSUME NEW h \in Hosts, NEW want, NEW Z, ReplaceZones(h, want, Z) PROVE OneSeatPerPlace'
  <2> DEFINE rows == SeatsFor(want.kind, Z)
             kept == Stored \ Of(host[h].zones)
  <2>1. CASE UNCHANGED seat
    BY <1>1, <2>1
  <2>2. CASE ~UNCHANGED seat
    <3>1. /\ Valid(want, Z) /\ PlacesFree(rows, kept)
          /\ seat' = [s \in Seats |-> IF s \in rows THEN "AVAILABLE"
                                      ELSE IF s \in Of(host[h].zones) THEN "none" ELSE seat[s]]
      BY <1>3, <2>2 DEF ReplaceZones
    <3>2. Stored' \subseteq rows \cup kept
      BY <3>1
    <3>3. \A s, t \in rows : s[2] = t[2] => s = t
      <4>1. CASE want.kind = "ASSIGNED"
        BY <3>1, <4>1, RowsApart DEF Valid, LayoutOK
      <4>2. CASE want.kind # "ASSIGNED"
        BY <4>2 DEF SeatsFor
      <4> QED BY <4>1, <4>2
    <3> HIDE DEF rows
    <3> QED BY <1>2, <3>1, <3>2, <3>3
  <2> QED BY <2>1, <2>2
<1>4. ASSUME NEW h \in Hosts, Manage(h) PROVE OneSeatPerPlace'
  <2>1. ASSUME NEW pc, Open(h, pc) PROVE OneSeatPerPlace'
    BY <1>1, <2>1 DEF Open
  <2>2. CASE CountSold(h)
    BY <1>1, <2>2 DEF CountSold
  <2>3. ASSUME NEW want, EditTerms(h, want) PROVE OneSeatPerPlace'
    BY <1>1, <2>3 DEF EditTerms
  <2>4. CASE Delete(h)
    BY <1>1, <2>4 DEF Delete
  <2> QED BY <1>3, <1>4, <2>1, <2>2, <2>3, <2>4 DEF Manage
<1>5. ASSUME NEW z \in Zones, CreateZone(z) PROVE OneSeatPerPlace'
  <2>1. \A s, t \in Of({z}) : s[2] = t[2] => s = t
    BY RowsApart DEF SeatsFor
  <2>2. Stored' \subseteq Of({z}) \cup Stored /\ PlacesFree(Of({z}), Stored)
    BY <1>5 DEF CreateZone
  <2> QED BY <1>2, <2>1, <2>2
<1>6. ASSUME NEW s \in Seats, Hold(s) \/ Release(s) \/ Lapse(s) PROVE OneSeatPerPlace'
  BY <1>1, <1>6 DEF Hold, Release, Lapse, TypeOK
<1>7. ASSUME NEW S \in SUBSET lock, AskFor(S) PROVE OneSeatPerPlace'
  BY <1>1, <1>7 DEF AskFor
<1>8. CASE Buy
  BY <1>1, <1>8 DEF Buy, TypeOK
<1>9. CASE UNCHANGED vars
  BY <1>1, <1>9 DEF vars
<1> QED BY <1>4, <1>5, <1>6, <1>7, <1>8, <1>9 DEF Next

LEMMA PlaceInit == Init => OneSeatPerPlace
<1> SUFFICES ASSUME Init PROVE OneSeatPerPlace
  OBVIOUS
<1>1. /\ Valid(terms, zones)
      /\ seat = [s \in Seats |-> IF s \in SeatsFor(terms.kind, zones) THEN "AVAILABLE" ELSE "none"]
  BY DEF Init
<1>2. \A s, t \in SeatsFor(terms.kind, zones) : s[2] = t[2] => s = t
  <2>1. CASE terms.kind = "ASSIGNED"
    BY <1>1, <2>1, RowsApart DEF Valid, LayoutOK
  <2>2. CASE terms.kind # "ASSIGNED"
    BY <2>2 DEF SeatsFor
  <2> QED BY <2>1, <2>2
<1> QED BY <1>1, <1>2 DEF OneSeatPerPlace

\* However updates of the same layout and create_zone calls interleave with the sale,
\* no place of the map is sold twice: no second row can be at a place that has one,
\* and a seat with a ticket cannot make way for another.
THEOREM PlacesSoldOnce == Spec => []OneTicketPerPlace
<1>1. TypeOK /\ OneSeatPerPlace /\ [Next]_vars => OneSeatPerPlace'
  BY PlaceStep
<1>2. TypeOK /\ SaleOK /\ OneSeatPerPlace => OneTicketPerPlace
  BY DEF TypeOK, SaleOK, TicketsKeepSeats, OneSeatPerPlace, OneTicketPerPlace
<1> QED BY <1>1, <1>2, PlaceInit, SaleInductive, TypeCorrect, PTL DEF Spec
=============================================================================
