------------------------------ MODULE EventAdmin ------------------------------
(***************************************************************************)
(* Managing an event with assigned seats while its seats are on sale:      *)
(* EventService (app/services/events.py) and SeatService.create_zone,      *)
(* against holds and checkouts.                                            *)
(*                                                                         *)
(* A host's handler runs on a pool thread: it loads the event, counts the  *)
(* sold seats, and writes what it made of the two, each in a call of its   *)
(* own.  The event loop of the one process holds and sells seats meanwhile.*)
(* A transaction takes effect when it commits.                             *)
(***************************************************************************)
EXTENDS Naturals, FiniteSets

CONSTANTS
  Hosts,   \* pool threads running a host's request
  Zones,   \* every row seat_zones may ever get, by its UUID
  Plan,    \* [Zones -> sets of naturals]: the places of the zone's seats
  Priced,  \* the zones whose price is not 0
  Sizes,   \* the sizes a host gives the seat map: places 0 .. size - 1 are on it
  Wanted   \* the terms hosts create events with and ask for

VARIABLES
  \* PostgreSQL
  exists,   \* the event row exists
  terms,    \* the event's seating type, map size and ticket type
  zones,    \* the rows of seat_zones
  seat,     \* [Seats -> Status]: the rows of seats
  tickets,  \* the seats with a ticket
  \* Redis
  lock,     \* the seats with a live lock key
  \* the process
  host,     \* [Hosts -> Edit]: the request each thread is running
  cart,     \* the seats of the checkout that has the event loop, {} if none
  \* history
  made,     \* the zone rows ever made: a UUID is never made twice
  orders    \* the sets of seats that checkouts reported as bought

event == <<exists, terms, zones, made>>
sale  == <<tickets, orders>>
vars  == <<exists, terms, zones, seat, tickets, lock, host, cart, made, orders>>

-----------------------------------------------------------------------------
(* The data, and the tests the code makes.  An operator named Buggy... is its  *)
(* neighbour as a plausible bug would have it; no action uses it.              *)

\* A seat belongs to its zone; its label follows the rules of its place and is
\* left out.
Seats  == {<<z, p>> : z \in Zones, p \in UNION {Plan[y] : y \in Zones}}
Of(Z)  == {s \in Seats : s[1] \in Z /\ s[2] \in Plan[s[1]]}
Status == {"none", "AVAILABLE", "LOCKED", "SOLD"}   \* none: there is no such row
Stored == {s \in Seats : seat[s] # "none"}

NoMap == 0   \* seat_map_rows and seat_map_cols are NULL
Terms == [kind: {"ASSIGNED", "GENERAL_ADMISSION"}, size: Sizes \cup {NoMap},
          ticket: {"FREE", "PAID"}]

ASSUME LayoutAssumption ==
  /\ Plan \in [Zones -> SUBSET Nat \ {{}}]
  /\ Priced \subseteq Zones /\ Sizes \subseteq Nat \ {0} /\ Wanted \subseteq Terms

\* What an update may make of the terms: fields it leaves out stay, and only a
\* change to general admission takes the map away.
Asked(old) == {t \in Wanted \cup {old} : t.size = NoMap => t.kind = "GENERAL_ADMISSION" \/ old.size = NoMap}

\* terms and zones are those the thread loaded with the event, where it uses them.
Edit    == [pc: {"idle", "edit", "countUpdate", "countDelete", "replace", "delete"},
            terms: Terms, zones: SUBSET Zones]
Resting == [pc |-> "idle", zones |-> {},
            terms |-> [kind |-> "ASSIGNED", size |-> NoMap, ticket |-> "PAID"]]

OnMap(p, size) == p < size

\* _validate_layout_payload, which asks nothing of a general admission event.
LayoutOK(t, Z) ==
  t.kind = "ASSIGNED" =>
    /\ t.size # NoMap /\ Z # {}
    /\ \A z \in Z : \A p \in Plan[z] : OnMap(p, t.size)
    /\ \A y, z \in Z : y # z => Plan[y] \cap Plan[z] = {}

\* _validate_zone_prices.
PricesOK(t, Z) == IF t.ticket = "FREE" THEN Z \cap Priced = {} ELSE Z \subseteq Priced

\* What the request of a new event must meet, and what create and an update with
\* zones ask of the terms they are about to store.
Valid(t, Z) == PricesOK(t, Z) /\ LayoutOK(t, Z)

\* The rows of seats that come with the zones Z.
SeatsFor(kind, Z) == IF kind = "ASSIGNED" THEN Of(Z) ELSE {}

\* UNIQUE (event_id, row_index, col_index).
BuggyPlacesFree(S, rows) == TRUE     \* no constraint
PlacesFree(S, rows)      == \A s \in S, r \in rows : s[2] # r[2]

\* order_items and tickets refer to seats and zones ON DELETE RESTRICT.
BuggyDeletable(Z) == TRUE            \* ON DELETE CASCADE
Deletable(Z)      == Of(Z) \cap tickets = {}

\* seat_zones.event_id refers to the event.
BuggyHasEvent == TRUE                \* no foreign key
HasEvent      == exists

\* Every seat of a checkout is there, and on hold.
BuggyAllLocked(S) == \A s \in S \cap Stored : seat[s] = "LOCKED"   \* the rows found
AllLocked(S)      == \A s \in S : seat[s] = "LOCKED"

\* Every new row has a new UUID.
BuggyMake(Z) == UNCHANGED made       \* an id is made again
Make(Z)      == made' = made \cup Z

\* A column is written if the request changed the value it loaded.
Column(loaded, want, now) == IF want = loaded THEN now ELSE want
Written(loaded, want) ==
  [kind   |-> Column(loaded.kind, want.kind, terms.kind),
   size   |-> Column(loaded.size, want.size, terms.size),
   ticket |-> Column(loaded.ticket, want.ticket, terms.ticket)]

-----------------------------------------------------------------------------
(* The hosts *)

Goto(h, pc) == host' = [host EXCEPT ![h].pc = pc]
End(h)      == host' = [host EXCEPT ![h] = Resting]

\* create, one transaction: an event that passes the validation.
Init ==
  /\ exists = TRUE
  /\ terms \in Wanted
  /\ \E Z \in SUBSET Zones :
       /\ Valid(terms, Z)
       /\ zones = Z /\ made = Z
       /\ seat = [s \in Seats |-> IF s \in SeatsFor(terms.kind, Z) THEN "AVAILABLE" ELSE "none"]
  /\ lock = {} /\ tickets = {} /\ cart = {} /\ orders = {}
  /\ host = [h \in Hosts |-> Resting]

\* get_by_id.  An update without zones goes on to write; one with zones, and a
\* delete, count the sold seats first.
Open(h, pc) ==
  /\ host[h].pc = "idle"
  /\ exists
  /\ host' = [host EXCEPT ![h] =
       [pc |-> pc, terms |-> IF pc = "countDelete" THEN Resting.terms ELSE terms,
        zones |-> IF pc = "countUpdate" THEN zones ELSE {}]]
  /\ UNCHANGED <<event, seat, sale, lock, cart>>

\* has_sold_seats.
CountSold(h) ==
  LET next == [countUpdate |-> "replace", countDelete |-> "delete"]
  IN /\ host[h].pc \in DOMAIN next
     /\ IF \E s \in Seats : seat[s] = "SOLD" THEN End(h) ELSE Goto(h, next[host[h].pc])
     /\ UNCHANGED <<event, seat, sale, lock, cart>>

\* update without zones: nothing is validated.
EditTerms(h, want) ==
  LET new == Written(host[h].terms, want)
  IN /\ host[h].pc = "edit"
     /\ terms' = IF exists THEN new ELSE terms
     /\ End(h)
     /\ UNCHANGED <<exists, zones, seat, sale, lock, cart, made>>

\* update with zones: validate them against the terms it loaded, with its
\* changes; then delete the zones it loaded and insert the new ones, or fail.
ReplaceZones(h, want, Z) ==
  LET old  == host[h].zones
      new  == Written(host[h].terms, want)
      rows == SeatsFor(want.kind, Z)
      ok   == /\ Valid(want, Z)
              /\ HasEvent /\ Deletable(old) /\ PlacesFree(rows, Stored \ Of(old))
  IN /\ host[h].pc = "replace"
     /\ \/ ~ok /\ UNCHANGED <<terms, zones, seat, made>>
        \/ /\ ok
           /\ terms' = new
           /\ zones' = (zones \ old) \cup Z
           /\ seat' = [s \in Seats |-> IF s \in rows THEN "AVAILABLE"
                                       ELSE IF s \in Of(old) THEN "none" ELSE seat[s]]
           /\ Make(Z)
     /\ End(h)
     /\ UNCHANGED <<exists, sale, lock, cart>>

\* delete: zones and seats go with the event.
Delete(h) ==
  /\ host[h].pc = "delete"
  /\ \/ ~Deletable(zones) /\ UNCHANGED <<exists, zones, seat>>
     \/ /\ Deletable(zones)
        /\ exists' = FALSE /\ zones' = {}
        /\ seat' = [s \in Seats |-> "none"]
  /\ End(h)
  /\ UNCHANGED <<terms, sale, lock, cart, made>>

\* SeatService.create_zone: one transaction, with nothing loaded or validated.
CreateZone(z) ==
  /\ z \notin made
  /\ HasEvent /\ PlacesFree(Of({z}), Stored)
  /\ zones' = zones \cup {z}
  /\ seat' = [s \in Seats |-> IF s \in Of({z}) THEN "AVAILABLE" ELSE seat[s]]
  /\ Make({z})
  /\ UNCHANGED <<exists, terms, sale, lock, host, cart>>

-----------------------------------------------------------------------------
(* The buyers.  SeatBooking has their handlers call by call; here a hold is    *)
(* one step, and a checkout is its lock check and its transaction.             *)

Hold(s) ==
  /\ cart = {} /\ exists
  /\ s \notin lock /\ seat[s] = "AVAILABLE"
  /\ lock' = lock \cup {s}
  /\ seat' = [seat EXCEPT ![s] = "LOCKED"]
  /\ UNCHANGED <<event, sale, host, cart>>

\* release finds no row for a seat that was replaced, and leaves its lock.
Release(s) ==
  /\ cart = {}
  /\ s \in lock /\ seat[s] = "LOCKED"
  /\ lock' = lock \ {s}
  /\ seat' = [seat EXCEPT ![s] = "AVAILABLE"]
  /\ UNCHANGED <<event, sale, host, cart>>

\* The event query and MGET of the lock keys, which outlive replaced seats.
AskFor(S) ==
  /\ cart = {} /\ S # {}
  /\ exists /\ terms.kind = "ASSIGNED"
  /\ S \subseteq lock
  /\ cart' = S
  /\ UNCHANGED <<event, seat, sale, lock, host>>

\* The transaction; the lock keys go when it has committed.
Buy ==
  /\ cart # {}
  /\ \/ ~AllLocked(cart) /\ UNCHANGED <<seat, sale, lock>>
     \/ /\ AllLocked(cart)
        /\ seat' = [s \in Seats |-> IF s \in cart \cap Stored THEN "SOLD" ELSE seat[s]]
        /\ tickets' = tickets \cup (cart \cap Stored)
        /\ orders' = orders \cup {cart}
        /\ lock' = lock \ cart
  /\ cart' = {}
  /\ UNCHANGED <<event, host>>

\* The deadline of a hold passes: Redis drops the lock, and the worker, or the
\* next hold or checkout, takes the row back.
Lapse(s) ==
  /\ cart = {}
  /\ s \in lock
  /\ lock' = lock \ {s}
  /\ seat' = [seat EXCEPT ![s] = IF @ = "LOCKED" THEN "AVAILABLE" ELSE @]
  /\ UNCHANGED <<event, sale, host, cart>>

-----------------------------------------------------------------------------

Manage(h) ==
  \/ \E pc \in {"edit", "countUpdate", "countDelete"} : Open(h, pc)
  \/ CountSold(h)
  \/ \E want \in Asked(host[h].terms) : EditTerms(h, want)
  \/ \E want \in Asked(host[h].terms), Z \in SUBSET (Zones \ made) : ReplaceZones(h, want, Z)
  \/ Delete(h)

Next ==
  \/ \E h \in Hosts : Manage(h)
  \/ \E z \in Zones : CreateZone(z)
  \/ \E s \in Seats : Hold(s) \/ Release(s) \/ Lapse(s)
  \/ \E S \in SUBSET lock : AskFor(S)
  \/ Buy

Spec == Init /\ [][Next]_vars

-----------------------------------------------------------------------------
(* Properties *)

\* Every variable has its type, and every zone was made once.
TypeOK ==
  /\ exists \in BOOLEAN /\ terms \in Terms
  /\ zones \subseteq made /\ made \subseteq Zones
  /\ seat \in [Seats -> Status]
  /\ tickets \subseteq Seats /\ lock \subseteq Seats /\ cart \subseteq Seats
  /\ orders \subseteq SUBSET Seats
  /\ host \in [Hosts -> Edit]

\* A seat with a ticket stays, sold, with its zone and its event, although the
\* count of sold seats that is to protect it is stale when the host writes.
TicketsKeepSeats ==
  \A s \in tickets : seat[s] = "SOLD" /\ s[1] \in zones /\ exists

\* A checkout sells every seat it was asked for or none, although a host may
\* have replaced some of them, whose locks are still alive.
WholeOrders == \A S \in orders : S \subseteq tickets

\* No two tickets are for one place of the map, although hosts who had loaded the
\* same layout may both have replaced it, and others add zones unvalidated.
OneTicketPerPlace == \A s, t \in tickets : s[2] = t[2] => s = t

\* Nothing is left of a deleted event, and nothing is added to it later by a
\* host who had loaded it before.
NothingWithoutEvent == ~exists => zones = {} /\ Stored = {} /\ tickets = {}
=============================================================================
