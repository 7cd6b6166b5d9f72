--------------------------- MODULE GeneralAdmission ---------------------------
(***************************************************************************)
(* Selling tickets without seats: CheckoutService._checkout_general_       *)
(* admission, against the hosts who meanwhile change the event, replace    *)
(* its zones or delete it (app/services/events.py).                        *)
(*                                                                         *)
(* A checkout runs on the event loop of a process, from the event query to *)
(* the commit without an await; the hosts' handlers run on pool threads    *)
(* and interleave with it at every database call.  A transaction takes     *)
(* effect when it commits: a DELETE and an INSERT that refers to the       *)
(* deleted row wait for each other, and whoever commits second fails.      *)
(***************************************************************************)
EXTENDS Naturals, FiniteSets

CONSTANTS
  Users,        \* the users who buy
  NoUser,       \* the user of an idle slot
  Requests,     \* handler slots for checkouts
  Loops,        \* event loops; the shipped deployment has exactly one
  NoLoop,       \* the loop of an idle slot
  Hosts,        \* pool threads running a host's update or delete
  Zones,        \* every zone row the event may ever get
  Name,         \* [Zones -> names]: the name a zone row has
  NoZone,
  MaxBookable,  \* default_max_bookable_per_user
  FreeEvent,    \* event.ticket_type = FREE
  Quantities,   \* the quantities a checkout may ask for
  Capacities    \* what event.max_capacity may be; Unlimited stands for NULL

Unlimited == 0   \* CHECK (max_capacity > 0) keeps 0 out of the table

ASSUME SaleAssumption ==
  /\ MaxBookable \in Nat \ {0} /\ FreeEvent \in BOOLEAN
  /\ Quantities \subseteq Nat \ {0} /\ Capacities \subseteq Nat
  /\ IsFiniteSet(Loops) /\ Loops # {} /\ NoLoop \notin Loops
  /\ NoUser \notin Users /\ NoZone \notin Zones

VARIABLES
  exists,    \* the event row exists
  capacity,  \* event.max_capacity
  zones,     \* the rows of seat_zones
  made,      \* the zone rows ever made: a UUID is never made twice
  \* the tickets table, as the three questions the code asks of it
  total,     \* how many tickets the event has
  sold,      \* [Users -> Nat]: how many of them a user has
  ticketed,  \* the zones they refer to
  req,       \* [Requests -> Request]: the checkout running in each slot
  host,      \* [Hosts -> Edit]: the update or delete each thread is running
  \* for CapacityKept
  offered    \* the largest capacity so far, Unlimited if there was none at first

tickets == <<total, sold, ticketed>>
event   == <<exists, capacity, zones, made, offered>>
vars    == <<exists, capacity, zones, made, total, sold, ticketed, req, host, offered>>

-----------------------------------------------------------------------------
(* The data, and the tests the code makes.  An operator named Buggy... is its  *)
(* neighbour as a plausible bug would have it; no action uses it.              *)

\* cap is the event's capacity as the request loaded it.
Request == [pc: {"idle", "zone", "capacity", "limit", "commit"}, loop: Loops \cup {NoLoop},
            user: Users \cup {NoUser}, quantity: Nat, cap: Nat, zone: Zones \cup {NoZone}]
Idle == [pc |-> "idle", loop |-> NoLoop, user |-> NoUser, quantity |-> 0,
         cap |-> Unlimited, zone |-> NoZone]

\* zones are those the thread loaded with the event.
Edit    == [pc: {"idle", "update", "delete"}, zones: SUBSET Zones]
Resting == [pc |-> "idle", zones |-> {}]

Running(l) == \E r \in Requests : req[r].loop = l

BuggyFits(n, cap) == cap = Unlimited \/ total <= cap   \* the quantity is forgotten
Fits(n, cap)      == cap = Unlimited \/ total + n <= cap

BuggyWithinLimit(u, n) == n <= MaxBookable             \* earlier orders are forgotten
WithinLimit(u, n)      == sold[u] + n <= MaxBookable

\* Rows of a table with ON DELETE RESTRICT children may go only without them.
BuggyDeletable(Z) == TRUE                              \* ON DELETE CASCADE
Deletable(Z)      == Z \cap ticketed = {}

\* The foreign keys of a new order, its items and its tickets.
BuggyRefersToRows(z) == exists                         \* no foreign key on the zone
RefersToRows(z)      == exists /\ z \in zones

\* Every new row has a new UUID.
BuggyMake(Z) == UNCHANGED made                         \* an id is made again
Make(Z)      == made' = made \cup Z

\* UNIQUE (event_id, name).
NamesUnique(Z) == \A y, z \in Z : Name[y] = Name[z] => y = z

-----------------------------------------------------------------------------
(* The checkout *)

Continue(r, pc) == req' = [req EXCEPT ![r].pc = pc]
End(r)          == req' = [req EXCEPT ![r] = Idle]

\* The event query, and the limit of free events.
Load(r, l, u, n) ==
  /\ req[r].pc = "idle"
  /\ ~Running(l)
  /\ exists
  /\ FreeEvent => n = 1
  /\ req' = [req EXCEPT ![r] = [pc |-> "zone", loop |-> l, user |-> u,
                                quantity |-> n, cap |-> capacity, zone |-> NoZone]]
  /\ UNCHANGED <<event, tickets, host>>

\* The cheapest zone, by price and then by name; prices are not modelled.
FindZone(r) ==
  /\ req[r].pc = "zone"
  /\ \/ zones = {} /\ End(r)
     \/ \E z \in zones : req' = [req EXCEPT ![r].pc = "capacity", ![r].zone = z]
  /\ UNCHANGED <<event, tickets, host>>

CheckCapacity(r) ==
  /\ req[r].pc = "capacity"
  /\ IF Fits(req[r].quantity, req[r].cap) THEN Continue(r, "limit") ELSE End(r)
  /\ UNCHANGED <<event, tickets, host>>

CheckLimit(r) ==
  /\ req[r].pc = "limit"
  /\ IF WithinLimit(req[r].user, req[r].quantity) THEN Continue(r, "commit") ELSE End(r)
  /\ UNCHANGED <<event, tickets, host>>

\* The transaction: the order, its items and its tickets, or nothing.
Commit(r) ==
  LET q == req[r]
  IN /\ q.pc = "commit"
     /\ \/ ~RefersToRows(q.zone) /\ UNCHANGED tickets
        \/ /\ RefersToRows(q.zone)
           /\ total' = total + q.quantity
           /\ sold' = [sold EXCEPT ![q.user] = @ + q.quantity]
           /\ ticketed' = ticketed \cup {q.zone}
     /\ End(r)
     /\ UNCHANGED <<event, host>>

-----------------------------------------------------------------------------
(* The hosts.  has_sold_seats counts rows of seats, of which such an event has *)
(* none: it never refuses.                                                     *)

Open(h, pc) ==
  /\ host[h].pc = "idle"
  /\ exists
  /\ host' = [host EXCEPT ![h] = [pc |-> pc, zones |-> zones]]
  /\ UNCHANGED <<event, tickets, req>>

\* max_capacity is written only if the payload has one.
SetCapacity(c) ==
  /\ capacity' = IF c = Unlimited THEN capacity ELSE c
  /\ offered' = IF offered = Unlimited \/ c <= offered THEN offered ELSE c

\* update without zones.
UpdateCapacity(h, c) ==
  /\ host[h].pc = "update"
  /\ IF exists THEN SetCapacity(c) ELSE UNCHANGED <<capacity, offered>>
  /\ host' = [host EXCEPT ![h] = Resting]
  /\ UNCHANGED <<exists, zones, made, tickets, req>>

\* update with zones: delete those loaded with the event, insert the new ones.
ReplaceZones(h, c, new) ==
  LET old == host[h].zones
      ok  == exists /\ Deletable(old \cap zones) /\ NamesUnique((zones \ old) \cup new)
  IN /\ host[h].pc = "update"
     /\ new \subseteq Zones \ made
     /\ Make(new)
     /\ \/ ~ok /\ UNCHANGED <<capacity, zones, offered>>
        \/ ok /\ zones' = (zones \ old) \cup new /\ SetCapacity(c)
     /\ host' = [host EXCEPT ![h] = Resting]
     /\ UNCHANGED <<exists, tickets, req>>

\* delete; the zones go with the event, the orders and tickets forbid it.
Delete(h) ==
  /\ host[h].pc = "delete"
  /\ \/ (total > 0 \/ ~Deletable(zones)) /\ UNCHANGED <<exists, zones>>
     \/ total = 0 /\ Deletable(zones) /\ exists' = FALSE /\ zones' = {}
  /\ host' = [host EXCEPT ![h] = Resting]
  /\ UNCHANGED <<capacity, made, tickets, req, offered>>

\* SeatService.create_zone, one transaction with nothing read before.
CreateZone(z) ==
  /\ z \notin made
  /\ Make({z})
  /\ zones' = IF exists /\ NamesUnique(zones \cup {z}) THEN zones \cup {z} ELSE zones
  /\ UNCHANGED <<exists, capacity, tickets, req, host, offered>>

-----------------------------------------------------------------------------

Init ==
  /\ exists = TRUE
  /\ capacity \in Capacities /\ offered = capacity
  /\ \E z \in Zones : zones = {z}
  /\ made = zones
  /\ total = 0
  /\ sold = [u \in Users |-> 0]
  /\ ticketed = {}
  /\ req = [r \in Requests |-> Idle]
  /\ host = [h \in Hosts |-> Resting]

Checkout(r) ==
  \/ \E l \in Loops, u \in Users, n \in Quantities : Load(r, l, u, n)
  \/ FindZone(r) \/ CheckCapacity(r) \/ CheckLimit(r) \/ Commit(r)

Manage(h) ==
  \/ Open(h, "update") \/ Open(h, "delete") \/ Delete(h)
  \/ \E c \in Capacities \cup {Unlimited} : UpdateCapacity(h, c)
  \/ \E c \in Capacities \cup {Unlimited}, new \in SUBSET Zones : ReplaceZones(h, c, new)

Next ==
  \/ \E r \in Requests : Checkout(r)
  \/ \E h \in Hosts : Manage(h)
  \/ \E z \in Zones : CreateZone(z)

Spec == Init /\ [][Next]_vars

-----------------------------------------------------------------------------
(* Properties *)

\* Every variable has its type.
TypeOK ==
  /\ exists \in BOOLEAN
  /\ capacity \in Nat /\ offered \in Nat
  /\ made \subseteq Zones /\ zones \subseteq made /\ ticketed \subseteq Zones
  /\ total \in Nat /\ sold \in [Users -> Nat]
  /\ req \in [Requests -> Request]
  /\ host \in [Hosts -> Edit]

\* What the checkouts of other processes may add between count and commit.
Unseen == (Cardinality(Loops) - 1) * MaxBookable

\* The tickets are counted before the transaction, without a lock, and a host
\* may change the capacity in between.  Still the event is sold past the largest
\* capacity it has had by at most one full order for each other process, hence
\* never in the one process that is deployed.
CapacityKept == offered # Unlimited => total <= offered + Unseen

\* ... and a user past the limit, likewise never in one process.
LimitKept == \A u \in Users : sold[u] <= MaxBookable + Unseen

\* No ticket ever refers to a zone or an event that is gone, although the
\* host's check for sold seats sees none of these tickets, and a checkout finds
\* its zone several calls before it sells it.
TicketsKeepTheirZone == ticketed \subseteq zones /\ (ticketed # {} => exists)
=============================================================================
