----------------------- MODULE GeneralAdmissionProofs -----------------------
(***************************************************************************)
(* Proofs about GeneralAdmission, for any number of processes, users,      *)
(* hosts and zones: how far counting before the transaction can oversell   *)
(* an event, and that no ticket loses its zone.                            *)
(*                                                                         *)
(* The argument: when a request counts, what is sold and what it asks for  *)
(* fit.  Until it commits, each other loop has at most one request that    *)
(* has counted too, and may add at most MaxBookable.  So if some requests  *)
(* have counted, then for one of them what is sold, its own quantity and   *)
(* MaxBookable for each other one stay within the bound; whoever commits   *)
(* or gives up, what remains is of the same form.                          *)
(***************************************************************************)
EXTENDS GeneralAdmission, FiniteSetTheorems, TLAPS

USE DEF Request, Edit

-----------------------------------------------------------------------------
(* The inductive invariant *)

Least(a, b) == IF a <= b THEN a ELSE b

\* The quantities of the requests, as far as they can be sold.
Orders == [r \in Requests |-> Least(req[r].quantity, MaxBookable)]

\* t tickets are sold against a limit of base, while the requests in C, with
\* orders q, have counted.
Fit(t, base, C, q) ==
  \/ C = {} /\ t <= base + Unseen
  \/ \E r \in C : t + q[r] + (Cardinality(C) - 1) * MaxBookable <= base + Unseen

Counted   == {r \in Requests : req[r].pc \in {"limit", "commit"}}
Buying(u) == {r \in Requests : req[r].pc = "commit" /\ req[r].user = u}

\* A running request has a loop of its own, a user, and a quantity it may buy
\* by the time it commits.
Placed ==
  /\ \A r \in Requests : req[r].pc # "idle" <=> req[r].loop \in Loops
  /\ \A r, x \in Requests : req[r].loop = req[x].loop /\ req[r].loop \in Loops => r = x
  /\ \A r \in Requests : req[r].pc # "idle" => req[r].user \in Users
  /\ \A r \in Requests : req[r].pc = "commit" => req[r].quantity <= MaxBookable

\* Whatever capacity is in use or was loaded, was offered.
CapsOffered ==
  offered # Unlimited =>
    /\ capacity # Unlimited /\ capacity <= offered
    /\ \A r \in Requests : req[r].pc # "idle" => req[r].cap # Unlimited /\ req[r].cap <= offered

CapacityFits == offered # Unlimited => Fit(total, offered, Counted, Orders)
LimitFits    == \A u \in Users : Fit(sold[u], MaxBookable, Buying(u), Orders)

SaleInv == TypeOK /\ Placed /\ CapsOffered /\ CapacityFits /\ LimitFits

-----------------------------------------------------------------------------
(* Type correctness *)

LEMMA TypeStep == ASSUME TypeOK, [Next]_vars PROVE TypeOK'
<1> USE SaleAssumption DEF TypeOK, event, tickets
<1>1. ASSUME NEW r \in Requests, Checkout(r) PROVE TypeOK'
  <2>1. ASSUME NEW l \in Loops, NEW u \in Users, NEW n \in Quantities, Load(r, l, u, n) PROVE TypeOK'
    BY <2>1 DEF Load
  <2>2. CASE FindZone(r)
    BY <2>2 DEF FindZone, End, Idle, Unlimited
  <2>3. CASE CheckCapacity(r)
    BY <2>3 DEF CheckCapacity, Continue, End, Idle, Unlimited
  <2>4. CASE CheckLimit(r)
    BY <2>4 DEF CheckLimit, Continue, End, Idle, Unlimited
  <2>5. CASE Commit(r)
    <3>1. req' \in [Requests -> Request]
      BY <2>5 DEF Commit, End, Idle, Unlimited
    <3>2. total' \in Nat /\ sold' \in [Users -> Nat]
      BY <2>5 DEF Commit
    <3>3. ticketed' \subseteq Zones
      BY <2>5 DEF Commit, RefersToRows
    <3> QED BY <2>5, <3>1, <3>2, <3>3 DEF Commit
  <2> QED BY <1>1, <2>1, <2>2, <2>3, <2>4, <2>5 DEF Checkout
<1>2. ASSUME NEW h \in Hosts, Manage(h) PROVE TypeOK'
  <2>1. ASSUME NEW pc \in {"update", "delete"}, Open(h, pc) PROVE TypeOK'
    BY <2>1 DEF Open
  <2>2. CASE Delete(h)
    BY <2>2 DEF Delete, Resting
  <2>3. ASSUME NEW c \in Capacities \cup {Unlimited}, UpdateCapacity(h, c) PROVE TypeOK'
    BY <2>3 DEF UpdateCapacity, SetCapacity, Resting, Unlimited
  <2>4. ASSUME NEW c \in Capacities \cup {Unlimited}, NEW new \in SUBSET Zones, ReplaceZones(h, c, new)
        PROVE  TypeOK'
    BY <2>4 DEF ReplaceZones, SetCapacity, Resting, Unlimited, Make
  <2> QED BY <1>2, <2>1, <2>2, <2>3, <2>4 DEF Manage
<1>3. ASSUME NEW z \in Zones, CreateZone(z) PROVE TypeOK'
  BY <1>3 DEF CreateZone, Make
<1>4. CASE UNCHANGED vars
  BY <1>4 DEF vars
<1> QED BY <1>1, <1>2, <1>3, <1>4 DEF Next

\* No row, count, request or edit ever leaves its type, and a zone in the table
\* is one that was made: the handlers of checkouts and hosts keep TypeOK.
THEOREM TypeCorrect == Spec => []TypeOK
<1>1. Init => TypeOK
  BY SaleAssumption DEF Init, TypeOK, Idle, Resting, Unlimited
<1>2. TypeOK /\ [Next]_vars => TypeOK'
  BY TypeStep
<1> QED BY <1>1, <1>2, PTL DEF Spec

-----------------------------------------------------------------------------
(* No ticket loses its zone *)

\* A ticket's zone and event are never deleted: the foreign keys stop what the
\* check for sold seats in update and delete does not see.
THEOREM TicketsStayWhole == Spec => []TicketsKeepTheirZone
<1>1. Init => TicketsKeepTheirZone
  BY DEF Init, TicketsKeepTheirZone
<1>2. TicketsKeepTheirZone /\ [Next]_vars => TicketsKeepTheirZone'
  <2> SUFFICES ASSUME TicketsKeepTheirZone, [Next]_vars PROVE TicketsKeepTheirZone'
    OBVIOUS
  <2> USE DEF TicketsKeepTheirZone, event, tickets
  <2>1. ASSUME NEW r \in Requests, Checkout(r) PROVE TicketsKeepTheirZone'
    <3>1. CASE Commit(r)
      BY <3>1 DEF Commit, RefersToRows
    <3>2. CASE ~Commit(r)
      BY <2>1, <3>2 DEF Checkout, Load, FindZone, CheckCapacity, CheckLimit
    <3> QED BY <3>1, <3>2
  <2>2. ASSUME NEW h \in Hosts, Manage(h) PROVE TicketsKeepTheirZone'
    <3>1. CASE Delete(h)
      BY <3>1 DEF Delete, Deletable
    <3>2. ASSUME NEW c, NEW new, ReplaceZones(h, c, new) PROVE TicketsKeepTheirZone'
      BY <3>2 DEF ReplaceZones, Deletable
    <3>3. ASSUME NEW c, UpdateCapacity(h, c) PROVE TicketsKeepTheirZone'
      BY <3>3 DEF UpdateCapacity
    <3>4. ASSUME NEW pc, Open(h, pc) PROVE TicketsKeepTheirZone'
      BY <3>4 DEF Open
    <3> QED BY <2>2, <3>1, <3>2, <3>3, <3>4 DEF Manage
  <2>3. ASSUME NEW z \in Zones, CreateZone(z) PROVE TicketsKeepTheirZone'
    BY <2>3 DEF CreateZone
  <2>4. CASE UNCHANGED vars
    BY <2>4 DEF vars
  <2> QED BY <2>1, <2>2, <2>3, <2>4 DEF Next
<1> QED BY <1>1, <1>2, PTL DEF Spec

-----------------------------------------------------------------------------
(* Arithmetic of Fit *)

LEMMA LoopsCounted == Cardinality(Loops) \in Nat \ {0} /\ Unseen \in Nat
<1>1. Cardinality(Loops) \in Nat /\ Cardinality(Loops) # 0
  BY SaleAssumption, FS_CardinalityType, FS_EmptySet
<1>2. Cardinality(Loops) - 1 \in Nat
  BY <1>1
<1> QED BY <1>1, <1>2, SaleAssumption DEF Unseen

\* Products of naturals, which the solvers need as facts.
LEMMA Monotone ==
  ASSUME NEW a \in Nat, NEW b \in Nat, NEW m \in Nat, a <= b
  PROVE  a * m <= b * m
<1>1. (b - a) \in Nat
  OBVIOUS
<1>2. \A x, y \in Nat : x * y \in Nat
  OBVIOUS
<1>3. (b - a) * m \in Nat
  BY <1>1, <1>2
<1>4. (b - a) * m = b * m - a * m
  OBVIOUS
<1> QED BY <1>3, <1>4

LEMMA FitBounds ==
  ASSUME NEW t \in Nat, NEW base \in Nat, NEW C, IsFiniteSet(C), NEW q, \A r \in C : q[r] \in Nat,
         Fit(t, base, C, q)
  PROVE  t <= base + Unseen
<1>1. CASE C = {}
  BY <1>1 DEF Fit
<1>2. CASE C # {}
  <2>1. PICK r \in C : t + q[r] + (Cardinality(C) - 1) * MaxBookable <= base + Unseen
    BY <1>2 DEF Fit
  <2>2. Cardinality(C) \in Nat /\ Cardinality(C) # 0
    BY <1>2, FS_CardinalityType, FS_EmptySet
  <2>3. Cardinality(C) - 1 \in Nat
    BY <2>2
  <2>4. (Cardinality(C) - 1) * MaxBookable \in Nat
    BY <2>3, SaleAssumption
  <2> QED BY <2>1, <2>4, LoopsCounted
<1> QED BY <1>1, <1>2

\* A request that finds that it fits joins those that have counted.
LEMMA FitJoin ==
  ASSUME NEW t \in Nat, NEW n \in Nat, NEW base \in Nat, t + n <= base,
         NEW C, NEW r \in C, IsFiniteSet(C), Cardinality(C) <= Cardinality(Loops),
         NEW q, q[r] \in Nat, q[r] <= n
  PROVE  Fit(t, base, C, q)
<1>1. Cardinality(C) \in Nat /\ Cardinality(C) # 0
  BY FS_CardinalityType, FS_EmptySet
<1>2. Cardinality(C) - 1 \in Nat /\ Cardinality(Loops) - 1 \in Nat
  BY <1>1, LoopsCounted
<1>3. (Cardinality(C) - 1) * MaxBookable <= Unseen
  BY <1>1, <1>2, LoopsCounted, SaleAssumption, Monotone DEF Unseen
<1>4. (Cardinality(C) - 1) * MaxBookable \in Nat
  BY <1>2, SaleAssumption
<1>5. t + q[r] + (Cardinality(C) - 1) * MaxBookable <= base + Unseen
  BY <1>3, <1>4, LoopsCounted
<1> QED BY <1>5 DEF Fit

\* A request that has counted sells its order, or part of it, or gives up.
LEMMA FitLeave ==
  ASSUME NEW t \in Nat, NEW base \in Nat, NEW C, NEW r \in C, IsFiniteSet(C),
         NEW q, \A x \in C : q[x] \in Nat /\ q[x] <= MaxBookable,
         NEW p, \A x \in C \ {r} : p[x] = q[x],
         NEW n \in Nat, n <= q[r], Fit(t, base, C, q)
  PROVE  Fit(t + n, base, C \ {r}, p)
<1> DEFINE c == Cardinality(C)
           rest == (c - 2) * MaxBookable
<1>1. c \in Nat /\ c # 0
  BY FS_CardinalityType, FS_EmptySet
<1>2. IsFiniteSet(C \ {r}) /\ Cardinality(C \ {r}) = c - 1
  BY FS_RemoveElement
<1>3. PICK x \in C : t + q[x] + (c - 1) * MaxBookable <= base + Unseen
  BY DEF Fit
<1>4. (c - 1) * MaxBookable = rest + MaxBookable /\ rest \in Int
  BY <1>1, SaleAssumption
<1> USE LoopsCounted, SaleAssumption
<1> HIDE DEF c, rest
<1>5. CASE C \ {r} = {}
  <2>1. c = 1 /\ x = r
    BY <1>1, <1>2, <1>5, FS_EmptySet
  <2>2. (c - 1) * MaxBookable = 0
    BY <2>1
  <2>3. t + n <= base + Unseen
    BY <1>3, <2>1, <2>2
  <2> QED BY <1>5, <2>3 DEF Fit
<1>6. CASE C \ {r} # {}
  <2> SUFFICES \E y \in C \ {r} : t + n + p[y] + rest <= base + Unseen
    BY <1>1, <1>2 DEF Fit, c, rest
  <2>1. CASE x = r
    <3>1. PICK y \in C \ {r} : TRUE
      BY <1>6
    <3>2. t + n + p[y] + rest <= t + q[x] + (rest + MaxBookable)
      BY <2>1, <3>1, <1>4
    <3> QED BY <3>1, <3>2, <1>3, <1>4
  <2>2. CASE x # r
    <3>1. t + n + p[x] + rest <= t + q[x] + (rest + MaxBookable)
      BY <2>2, <1>4
    <3> QED BY <2>2, <3>1, <1>3, <1>4
  <2> QED BY <2>1, <2>2
<1> QED BY <1>5, <1>6

LEMMA FitGrows ==
  ASSUME NEW t \in Nat, NEW base \in Nat, NEW more \in Nat, base <= more, NEW C, IsFiniteSet(C),
         NEW q, \A r \in C : q[r] \in Nat, NEW p, \A r \in C : p[r] = q[r], Fit(t, base, C, q)
  PROVE  Fit(t, more, C, p)
<1>1. Cardinality(C) - 1 \in Int
  BY FS_CardinalityType
<1>2. (Cardinality(C) - 1) * MaxBookable \in Int
  BY <1>1, SaleAssumption
<1> QED BY <1>2, LoopsCounted DEF Fit

LEMMA OnePerLoop ==
  ASSUME NEW C, NEW f \in [C -> Loops], \A a, b \in C : f[a] = f[b] => a = b
  PROVE  IsFiniteSet(C) /\ Cardinality(C) <= Cardinality(Loops)
<1>1. f \in Injection(C, Loops)
  BY DEF Injection, IsInjective
<1> QED BY <1>1, FS_Injection, SaleAssumption

-----------------------------------------------------------------------------
(* The invariant is inductive *)

LEMMA PlacedEnd == ASSUME TypeOK, Placed, NEW r \in Requests, End(r) PROVE Placed'
<1>1. \A x \in Requests : x # r => req'[x] = req[x]
  BY DEF End, TypeOK
<1>2. req'[r].pc = "idle" /\ req'[r].loop = NoLoop /\ NoLoop \notin Loops
  BY SaleAssumption DEF End, TypeOK, Idle
<1>3. \A x \in Requests : req'[x].pc # "idle" <=> req'[x].loop \in Loops
  BY <1>1, <1>2 DEF Placed
<1>4. \A x, y \in Requests : req'[x].loop = req'[y].loop /\ req'[x].loop \in Loops => x = y
  BY <1>1, <1>2 DEF Placed
<1>5. \A x \in Requests : req'[x].pc # "idle" => req'[x].user \in Users
  BY <1>1, <1>2 DEF Placed
<1>6. \A x \in Requests : req'[x].pc = "commit" => req'[x].quantity <= MaxBookable
  BY <1>1, <1>2 DEF Placed
<1> QED BY <1>3, <1>4, <1>5, <1>6 DEF Placed

\* A request that goes on, with the quantity checked before it may commit.
LEMMA PlacedMove ==
  ASSUME TypeOK, Placed,
         \A x \in Requests :
           /\ req'[x].loop = req[x].loop /\ req'[x].user = req[x].user
           /\ req'[x].quantity = req[x].quantity
           /\ req'[x].pc = "idle" <=> req[x].pc = "idle"
           /\ req'[x].pc = "commit" => req[x].pc = "commit" \/ req[x].quantity <= MaxBookable
  PROVE  Placed'
BY DEF Placed

LEMMA PlacedStep == ASSUME TypeOK, Placed, [Next]_vars PROVE Placed'
<1> USE SaleAssumption DEF TypeOK, Placed, event, tickets
<1>1. ASSUME NEW r \in Requests, Checkout(r) PROVE Placed'
  <2>1. ASSUME NEW l \in Loops, NEW u \in Users, NEW n \in Quantities, Load(r, l, u, n) PROVE Placed'
    <3>1. \A x \in Requests : req[x].loop # l
      BY <2>1 DEF Load, Running
    <3>2. \A x \in Requests : x # r => req'[x] = req[x]
      BY <2>1 DEF Load
    <3>3. req'[r].pc = "zone" /\ req'[r].loop = l /\ req'[r].user = u
      BY <2>1 DEF Load
    <3>4. \A x \in Requests : req'[x].pc # "idle" <=> req'[x].loop \in Loops
      BY <3>2, <3>3
    <3>5. \A x, y \in Requests : req'[x].loop = req'[y].loop /\ req'[x].loop \in Loops => x = y
      BY <3>1, <3>2, <3>3
    <3>6. \A x \in Requests : req'[x].pc # "idle" => req'[x].user \in Users
      BY <3>2, <3>3
    <3>7. \A x \in Requests : req'[x].pc = "commit" => req'[x].quantity <= MaxBookable
      BY <3>2, <3>3
    <3> QED BY <3>4, <3>5, <3>6, <3>7
  <2>2. CASE FindZone(r)
    <3>1. CASE End(r)
      BY <3>1, PlacedEnd
    <3>2. ASSUME NEW z \in Zones, req' = [req EXCEPT ![r].pc = "capacity", ![r].zone = z] PROVE Placed'
      <4>1. \A x \in Requests : x # r => req'[x] = req[x]
        BY <3>2
      <4>2. req[r].pc = "zone" /\ req'[r] = [[req[r] EXCEPT !.pc = "capacity"] EXCEPT !.zone = z]
        BY <2>2, <3>2 DEF FindZone
      <4>3. /\ req'[r].pc = "capacity" /\ req'[r].loop = req[r].loop
            /\ req'[r].user = req[r].user /\ req'[r].quantity = req[r].quantity
        BY <4>2
      <4> QED BY <4>1, <4>2, <4>3, PlacedMove
    <3> QED BY <2>2, <3>1, <3>2 DEF FindZone
  <2>3. CASE CheckCapacity(r)
    BY <2>3, PlacedEnd, PlacedMove DEF CheckCapacity, Continue
  <2>4. CASE CheckLimit(r)
    <3>1. CASE End(r)
      BY <3>1, PlacedEnd
    <3>2. CASE Continue(r, "commit") /\ WithinLimit(req[r].user, req[r].quantity)
      <4>1. req[r].pc = "limit" /\ req[r].user \in Users
        BY <2>4 DEF CheckLimit
      <4>2. req[r].quantity <= MaxBookable
        BY <3>2, <4>1 DEF WithinLimit
      <4> QED BY <3>2, <4>1, <4>2, PlacedMove DEF Continue
    <3> QED BY <2>4, <3>1, <3>2 DEF CheckLimit
  <2>5. CASE Commit(r)
    BY <2>5, PlacedEnd DEF Commit
  <2> QED BY <1>1, <2>1, <2>2, <2>3, <2>4, <2>5 DEF Checkout
<1>2. ASSUME NEW h \in Hosts, Manage(h) PROVE UNCHANGED req
  BY <1>2 DEF Manage, Open, Delete, UpdateCapacity, ReplaceZones
<1>3. ASSUME NEW z \in Zones, CreateZone(z) PROVE UNCHANGED req
  BY <1>3 DEF CreateZone
<1>4. CASE UNCHANGED vars
  BY <1>4 DEF vars
<1> QED BY <1>1, <1>2, <1>3, <1>4 DEF Next

LEMMA CapsStep == ASSUME TypeOK, CapsOffered, [Next]_vars PROVE CapsOffered'
<1> USE SaleAssumption DEF TypeOK, CapsOffered, Unlimited, event, tickets
<1>1. ASSUME NEW r \in Requests, Checkout(r) PROVE CapsOffered'
  <2>1. ASSUME NEW l \in Loops, NEW u \in Users, NEW n \in Quantities, Load(r, l, u, n) PROVE CapsOffered'
    BY <2>1 DEF Load
  <2>2. CASE FindZone(r)
    BY <2>2 DEF FindZone, End, Idle
  <2>3. CASE CheckCapacity(r)
    BY <2>3 DEF CheckCapacity, Continue, End, Idle
  <2>4. CASE CheckLimit(r)
    BY <2>4 DEF CheckLimit, Continue, End, Idle
  <2>5. CASE Commit(r)
    BY <2>5 DEF Commit, End, Idle
  <2> QED BY <1>1, <2>1, <2>2, <2>3, <2>4, <2>5 DEF Checkout
<1>2. ASSUME NEW h \in Hosts, Manage(h) PROVE CapsOffered'
  <2>1. ASSUME NEW c \in Capacities \cup {Unlimited}, UpdateCapacity(h, c) PROVE CapsOffered'
    BY <2>1 DEF UpdateCapacity, SetCapacity
  <2>2. ASSUME NEW c \in Capacities \cup {Unlimited}, NEW new, ReplaceZones(h, c, new) PROVE CapsOffered'
    BY <2>2 DEF ReplaceZones, SetCapacity
  <2>3. CASE Delete(h) \/ Open(h, "update") \/ Open(h, "delete")
    BY <2>3 DEF Delete, Open
  <2> QED BY <1>2, <2>1, <2>2, <2>3 DEF Manage
<1>3. ASSUME NEW z \in Zones, CreateZone(z) PROVE CapsOffered'
  BY <1>3 DEF CreateZone
<1>4. CASE UNCHANGED vars
  BY <1>4 DEF vars
<1> QED BY <1>1, <1>2, <1>3, <1>4 DEF Next

LEMMA CountedFinite ==
  ASSUME TypeOK, Placed, NEW C \in SUBSET Requests, \A r \in C : req[r].pc # "idle"
  PROVE  IsFiniteSet(C) /\ Cardinality(C) <= Cardinality(Loops)
<1> DEFINE f == [r \in C |-> req[r].loop]
<1>1. f \in [C -> Loops] /\ \A a, b \in C : f[a] = f[b] => a = b
  BY DEF Placed
<1> HIDE DEF f
<1> QED BY <1>1, OnePerLoop

LEMMA OrderFacts ==
  ASSUME TypeOK
  PROVE  \A r \in Requests :
           /\ Orders[r] \in Nat /\ Orders[r] <= MaxBookable /\ Orders[r] <= req[r].quantity
           /\ req[r].quantity <= MaxBookable => Orders[r] = req[r].quantity
BY SaleAssumption DEF TypeOK, Orders, Least

\* The same of the next state.
LEMMA NextFacts ==
  ASSUME TypeOK', Placed'
  PROVE  /\ \A C \in SUBSET Requests :
              (\A r \in C : req'[r].pc # "idle") => IsFiniteSet(C) /\ Cardinality(C) <= Cardinality(Loops)
         /\ \A r \in Requests :
              /\ Orders'[r] \in Nat /\ Orders'[r] <= MaxBookable /\ Orders'[r] <= req'[r].quantity
<1>1. ASSUME NEW C \in SUBSET Requests, \A r \in C : req'[r].pc # "idle"
      PROVE  IsFiniteSet(C) /\ Cardinality(C) <= Cardinality(Loops)
  <2> DEFINE f == [r \in C |-> req'[r].loop]
  <2>1. f \in [C -> Loops] /\ \A a, b \in C : f[a] = f[b] => a = b
    BY <1>1 DEF Placed
  <2> HIDE DEF f
  <2> QED BY <2>1, OnePerLoop
<1>2. \A r \in Requests :
        Orders'[r] \in Nat /\ Orders'[r] <= MaxBookable /\ Orders'[r] <= req'[r].quantity
  BY SaleAssumption DEF TypeOK, Orders, Least
<1> QED BY <1>1, <1>2

\* Hosts leave requests and tickets alone, and never take an offer back.
LEMMA HostStep ==
  ASSUME TypeOK, TypeOK', \/ \E h \in Hosts : Manage(h)
                          \/ \E z \in Zones : CreateZone(z)
                          \/ UNCHANGED vars
  PROVE  /\ UNCHANGED <<req, total, sold>>
         /\ offered' # Unlimited => offered # Unlimited /\ offered <= offered'
<1> USE DEF event, tickets
<1>1. ASSUME NEW h \in Hosts, Manage(h)
      PROVE  /\ UNCHANGED <<req, total, sold>>
             /\ offered' # Unlimited => offered # Unlimited /\ offered <= offered'
  <2>1. UNCHANGED <<req, total, sold>>
    BY <1>1 DEF Manage, Open, Delete, UpdateCapacity, ReplaceZones
  <2>2. \/ UNCHANGED offered
        \/ \E c \in Capacities \cup {Unlimited} : SetCapacity(c)
    BY <1>1 DEF Manage, Open, Delete, UpdateCapacity, ReplaceZones
  <2>3. offered' # Unlimited => offered # Unlimited /\ offered <= offered'
    BY <2>2, SaleAssumption DEF SetCapacity, TypeOK, Unlimited
  <2> QED BY <2>1, <2>3
<1>2. ASSUME NEW z \in Zones, CreateZone(z) PROVE UNCHANGED <<req, total, sold, offered>>
  BY <1>2 DEF CreateZone
<1>3. CASE UNCHANGED vars
  BY <1>3 DEF vars, TypeOK
<1> QED BY <1>1, <1>2, <1>3 DEF TypeOK

LEMMA CapacityStep == ASSUME SaleInv, [Next]_vars, TypeOK', Placed' PROVE CapacityFits'
<1> SUFFICES ASSUME offered' # Unlimited PROVE Fit(total', offered', Counted', Orders')
  BY DEF CapacityFits
<1> USE DEF SaleInv
<1>1. IsFiniteSet(Counted) /\ IsFiniteSet(Counted') /\ Cardinality(Counted') <= Cardinality(Loops)
  BY CountedFinite, NextFacts DEF Counted
<1>2. ASSUME NEW r \in Requests, Checkout(r) PROVE Fit(total', offered', Counted', Orders')
  <2>1. /\ offered' = offered /\ offered \in Nat /\ total \in Nat
        /\ \A x \in Requests : x # r => req'[x] = req[x]
    BY <1>2 DEF Checkout, Load, FindZone, CheckCapacity, CheckLimit, Commit, Continue, End, TypeOK, event
  <2>2. Fit(total, offered, Counted, Orders)
    BY <2>1 DEF CapacityFits
  <2>3. \A x \in Requests : x # r => Orders'[x] = Orders[x]
    BY <2>1 DEF Orders
  <2>4. CASE Counted' = Counted /\ total' = total /\ Orders'[r] = Orders[r]
    <3>1. \A x \in Counted : Orders'[x] = Orders[x] /\ Orders[x] \in Nat
      BY <2>3, <2>4, OrderFacts DEF Counted
    <3>2. Fit(total, offered, Counted, Orders')
      BY <2>1, <2>2, <3>1, <1>1, FitGrows
    <3> QED BY <2>1, <2>4, <3>2
  <2>5. CASE Counted' = Counted /\ total' = total /\ r \notin Counted
    <3>1. \A x \in Counted : Orders'[x] = Orders[x] /\ Orders[x] \in Nat
      BY <2>3, <2>5, OrderFacts DEF Counted
    <3>2. Fit(total, offered, Counted, Orders')
      BY <2>1, <2>2, <3>1, <1>1, FitGrows
    <3> QED BY <2>1, <2>5, <3>2
  <2>6. CASE /\ r \in Counted' /\ total' = total
             /\ req'[r].quantity = req[r].quantity /\ total + req[r].quantity <= offered
    <3>1. req[r].quantity \in Nat /\ Orders'[r] \in Nat /\ Orders'[r] <= req[r].quantity
      BY <2>6, NextFacts DEF TypeOK
    <3>2. Fit(total, offered, Counted', Orders')
      BY <2>1, <2>6, <3>1, <1>1, FitJoin
    <3> QED BY <2>1, <2>6, <3>2
  <2>7. ASSUME r \in Counted, Counted' = Counted \ {r}, NEW n \in Nat, n <= Orders[r], total' = total + n
        PROVE  Fit(total', offered', Counted', Orders')
    <3>1. \A x \in Counted : Orders[x] \in Nat /\ Orders[x] <= MaxBookable
      BY OrderFacts DEF Counted
    <3>2. \A x \in Counted \ {r} : Orders'[x] = Orders[x]
      BY <2>3 DEF Counted
    <3>3. Fit(total + n, offered, Counted \ {r}, Orders')
      BY <2>1, <2>2, <2>7, <3>1, <3>2, <1>1, FitLeave
    <3> QED BY <2>1, <2>7, <3>3
  <2> USE SaleAssumption
  <2>a. ASSUME NEW l \in Loops, NEW u \in Users, NEW n \in Quantities, Load(r, l, u, n)
        PROVE  Counted' = Counted /\ total' = total /\ r \notin Counted
    BY <2>a, <2>1 DEF Load, Counted, TypeOK, tickets
  <2>b. ASSUME FindZone(r) PROVE Counted' = Counted /\ total' = total /\ r \notin Counted
    <3>1. req[r].pc = "zone" /\ req'[r].pc \in {"idle", "capacity"} /\ total' = total
      <4>1. CASE End(r)
        BY <2>b, <4>1 DEF FindZone, End, Idle, TypeOK, tickets
      <4>2. ASSUME NEW z \in Zones, req' = [req EXCEPT ![r].pc = "capacity", ![r].zone = z]
            PROVE  req'[r].pc = "capacity"
        <5>1. req'[r] = [[req[r] EXCEPT !.pc = "capacity"] EXCEPT !.zone = z]
          BY <4>2 DEF TypeOK
        <5> QED BY <5>1 DEF TypeOK
      <4> QED BY <2>b, <4>1, <4>2 DEF FindZone, TypeOK, tickets
    <3> QED BY <3>1, <2>1 DEF Counted
  <2>c. ASSUME CheckCapacity(r)
        PROVE  \/ Counted' = Counted /\ total' = total /\ r \notin Counted
               \/ /\ r \in Counted' /\ total' = total
                  /\ req'[r].quantity = req[r].quantity /\ total + req[r].quantity <= offered
    <3>1. req[r].pc = "capacity" /\ total' = total
      BY <2>c DEF CheckCapacity, tickets
    <3>2. CASE End(r)
      <4>1. req'[r].pc = "idle"
        BY <3>2 DEF End, Idle, TypeOK
      <4> QED BY <3>1, <4>1, <2>1 DEF Counted
    <3>3. CASE Continue(r, "limit") /\ Fits(req[r].quantity, req[r].cap)
      <4>1. req'[r].pc = "limit" /\ req'[r].quantity = req[r].quantity
        BY <3>3 DEF Continue, TypeOK
      <4>2. req[r].cap # Unlimited /\ req[r].cap <= offered
        BY <2>1, <3>1 DEF CapsOffered
      <4>3. total + req[r].quantity <= offered
        BY <3>3, <4>2 DEF Fits, TypeOK
      <4> QED BY <3>1, <4>1, <4>3 DEF Counted
    <3> QED BY <2>c, <3>2, <3>3 DEF CheckCapacity
  <2>d. ASSUME CheckLimit(r)
        PROVE  \/ Counted' = Counted /\ total' = total /\ Orders'[r] = Orders[r]
               \/ r \in Counted /\ Counted' = Counted \ {r} /\ total' = total
    <3>1. req[r].pc = "limit" /\ total' = total
      BY <2>d DEF CheckLimit, tickets
    <3>2. CASE End(r)
      <4>1. req'[r].pc = "idle"
        BY <3>2 DEF End, Idle, TypeOK
      <4> QED BY <3>1, <4>1, <2>1 DEF Counted
    <3>3. CASE Continue(r, "commit")
      <4>1. req'[r].pc = "commit" /\ req'[r].quantity = req[r].quantity
        BY <3>3 DEF Continue, TypeOK
      <4>2. Orders'[r] = Orders[r]
        BY <4>1 DEF Orders
      <4> QED BY <3>1, <4>1, <4>2, <2>1 DEF Counted
    <3> QED BY <2>d, <3>2, <3>3 DEF CheckLimit
  <2>e. ASSUME Commit(r)
        PROVE  /\ r \in Counted /\ Counted' = Counted \ {r}
               /\ \E n \in Nat : n <= Orders[r] /\ total' = total + n
    <3>1. req[r].pc = "commit" /\ req'[r].pc = "idle"
      BY <2>e DEF Commit, End, Idle, TypeOK
    <3>2. Orders[r] = req[r].quantity /\ Orders[r] \in Nat
      BY <3>1, OrderFacts DEF Placed
    <3>3. total' = total \/ total' = total + req[r].quantity
      BY <2>e DEF Commit, tickets
    <3>4. r \in Counted /\ Counted' = Counted \ {r}
      BY <3>1, <2>1 DEF Counted
    <3>5. \E n \in Nat : n <= Orders[r] /\ total' = total + n
      BY <3>2, <3>3, <2>1
    <3> QED BY <3>4, <3>5
  <2>f. Orders[r] \in Nat
    BY OrderFacts
  <2> QED
    <3>1. CASE \E l \in Loops, u \in Users, n \in Quantities : Load(r, l, u, n)
      BY <3>1, <2>a, <2>5
    <3>2. CASE FindZone(r)
      BY <3>2, <2>b, <2>5
    <3>3. CASE CheckCapacity(r)
      BY <3>3, <2>c, <2>5, <2>6
    <3>4. CASE CheckLimit(r)
      BY <3>4, <2>d, <2>4, <2>7, <2>f, <2>1
    <3>5. CASE Commit(r)
      BY <3>5, <2>e, <2>7
    <3> QED BY <1>2, <3>1, <3>2, <3>3, <3>4, <3>5 DEF Checkout
<1>3. CASE (\E h \in Hosts : Manage(h)) \/ (\E z \in Zones : CreateZone(z)) \/ UNCHANGED vars
  <2>1. req' = req /\ total' = total /\ offered # Unlimited /\ offered <= offered'
    BY <1>3, HostStep
  <2>2. Counted' = Counted /\ Orders' = Orders
    BY <2>1 DEF Counted, Orders
  <2>3. total \in Nat /\ offered \in Nat /\ offered' \in Nat /\ \A x \in Counted : Orders[x] \in Nat
    BY OrderFacts DEF TypeOK, Counted
  <2>4. Fit(total, offered, Counted, Orders)
    BY <2>1 DEF CapacityFits
  <2>5. Fit(total, offered', Counted, Orders)
    BY <1>1, <2>1, <2>3, <2>4, FitGrows
  <2> QED BY <2>1, <2>2, <2>5
<1> QED BY <1>2, <1>3 DEF Next

LEMMA LimitStep == ASSUME SaleInv, [Next]_vars, TypeOK', Placed' PROVE LimitFits'
<1> SUFFICES ASSUME NEW u \in Users PROVE Fit(sold'[u], MaxBookable, Buying(u)', Orders')
  BY DEF LimitFits
<1> USE SaleAssumption DEF SaleInv
<1>1. IsFiniteSet(Buying(u)) /\ IsFiniteSet(Buying(u)') /\ Cardinality(Buying(u)') <= Cardinality(Loops)
  BY CountedFinite, NextFacts DEF Buying
<1>2. Fit(sold[u], MaxBookable, Buying(u), Orders) /\ sold[u] \in Nat
  BY DEF LimitFits, TypeOK
<1>3. \A x \in Buying(u) : Orders[x] \in Nat /\ Orders[x] <= MaxBookable
  BY OrderFacts DEF Buying
<1>4. ASSUME NEW r \in Requests, Checkout(r) PROVE Fit(sold'[u], MaxBookable, Buying(u)', Orders')
  <2>1. \A x \in Requests : x # r => req'[x] = req[x] /\ Orders'[x] = Orders[x]
    BY <1>4 DEF Checkout, Load, FindZone, CheckCapacity, CheckLimit, Commit, Continue, End, TypeOK, Orders
  <2>2. CASE sold'[u] = sold[u] /\ r \notin Buying(u) /\ r \notin Buying(u)'
    <3>1. Buying(u)' = Buying(u)
      BY <2>1, <2>2 DEF Buying
    <3>2. \A x \in Buying(u) : Orders'[x] = Orders[x]
      BY <2>1, <2>2 DEF Buying
    <3>3. Fit(sold[u], MaxBookable, Buying(u), Orders')
      BY <1>1, <1>2, <1>3, <3>2, FitGrows
    <3> QED BY <2>2, <3>1, <3>3
  <2>3. CASE CheckLimit(r) /\ Continue(r, "commit") /\ req[r].user = u
    <3>1. req'[r].pc = "commit" /\ req'[r].user = u /\ req'[r].quantity = req[r].quantity
      BY <2>3 DEF Continue, TypeOK
    <3>2. r \in Buying(u)' /\ sold'[u] = sold[u]
      BY <2>3, <3>1 DEF Buying, CheckLimit, tickets
    <3>3. req[r].quantity \in Nat /\ Orders'[r] \in Nat /\ Orders'[r] <= req[r].quantity
      BY <3>1, NextFacts DEF TypeOK
    <3>4. sold[u] + req[r].quantity <= MaxBookable
      <4>1. req[r].pc = "limit" /\ ~End(r)
        BY <2>3, <3>1 DEF CheckLimit, End, Idle, TypeOK
      <4> QED BY <2>3, <4>1 DEF CheckLimit, WithinLimit
    <3> QED BY <1>1, <1>2, <3>2, <3>3, <3>4, FitJoin
  <2>4. CASE Commit(r) /\ req[r].user = u
    <3>1. req[r].pc = "commit" /\ req'[r].pc = "idle"
      BY <2>4 DEF Commit, End, Idle, TypeOK
    <3>2. Orders[r] = req[r].quantity /\ Orders[r] \in Nat
      BY <3>1, OrderFacts DEF Placed
    <3>3. r \in Buying(u) /\ Buying(u)' = Buying(u) \ {r}
      BY <2>1, <2>4, <3>1 DEF Buying
    <3>4. sold'[u] = sold[u] \/ sold'[u] = sold[u] + req[r].quantity
      BY <2>4 DEF Commit, tickets, TypeOK
    <3>5. PICK n \in Nat : n <= Orders[r] /\ sold'[u] = sold[u] + n
      BY <3>2, <3>4, <1>2
    <3>6. \A x \in Buying(u) \ {r} : Orders'[x] = Orders[x]
      BY <2>1 DEF Buying
    <3>7. Fit(sold[u] + n, MaxBookable, Buying(u) \ {r}, Orders')
      BY <1>1, <1>2, <1>3, <3>3, <3>5, <3>6, FitLeave
    <3> QED BY <3>3, <3>5, <3>7
  <2>a. CASE \E l \in Loops, v \in Users, n \in Quantities : Load(r, l, v, n)
    BY <2>a, <2>2 DEF Load, Buying, TypeOK, tickets
  <2>b. CASE FindZone(r)
    <3>1. req[r].pc = "zone" /\ sold' = sold
      BY <2>b DEF FindZone, tickets
    <3>2. CASE End(r)
      BY <3>1, <3>2, <2>2 DEF End, Idle, TypeOK, Buying
    <3>3. ASSUME NEW z \in Zones, req' = [req EXCEPT ![r].pc = "capacity", ![r].zone = z]
          PROVE  req'[r].pc = "capacity"
      <4>1. req'[r] = [[req[r] EXCEPT !.pc = "capacity"] EXCEPT !.zone = z]
        BY <3>3 DEF TypeOK
      <4> QED BY <4>1 DEF TypeOK
    <3> QED BY <2>b, <3>1, <3>2, <3>3, <2>2 DEF FindZone, Buying, TypeOK
  <2>c. CASE CheckCapacity(r)
    BY <2>c, <2>2 DEF CheckCapacity, Continue, End, Idle, TypeOK, Buying, tickets
  <2>d. CASE CheckLimit(r)
    <3>1. req[r].pc = "limit" /\ sold' = sold
      BY <2>d DEF CheckLimit, tickets
    <3>2. CASE End(r)
      BY <3>1, <3>2, <2>2 DEF End, Idle, TypeOK, Buying
    <3>3. CASE Continue(r, "commit")
      <4>1. req'[r].user = req[r].user
        BY <3>3 DEF Continue, TypeOK
      <4> QED BY <2>d, <3>1, <3>3, <4>1, <2>2, <2>3 DEF Buying
    <3> QED BY <2>d, <3>2, <3>3 DEF CheckLimit
  <2>e. CASE Commit(r)
    <3>1. CASE req[r].user = u
      BY <2>e, <3>1, <2>4
    <3>2. CASE req[r].user # u
      <4>1. req'[r].pc = "idle"
        BY <2>e DEF Commit, End, Idle, TypeOK
      <4>2. sold'[u] = sold[u]
        BY <2>e, <3>2 DEF Commit, tickets, TypeOK
      <4> QED BY <3>2, <4>1, <4>2, <2>2 DEF Buying
    <3> QED BY <3>1, <3>2
  <2> QED BY <1>4, <2>a, <2>b, <2>c, <2>d, <2>e DEF Checkout
<1>5. CASE (\E h \in Hosts : Manage(h)) \/ (\E z \in Zones : CreateZone(z)) \/ UNCHANGED vars
  <2>1. req' = req /\ sold' = sold
    BY <1>5, HostStep
  <2>2. Buying(u)' = Buying(u) /\ Orders' = Orders
    BY <2>1 DEF Buying, Orders
  <2> QED BY <1>2, <2>1, <2>2
<1> QED BY <1>4, <1>5 DEF Next

-----------------------------------------------------------------------------
(* The theorems *)

LEMMA InitInv == Init => SaleInv
<1> SUFFICES ASSUME Init PROVE SaleInv
  OBVIOUS
<1> USE SaleAssumption DEF Init
<1>1. TypeOK
  BY DEF TypeOK, Idle, Resting, Unlimited
<1>2. Placed
  BY DEF Placed, Idle
<1>3. CapsOffered
  BY <1>1 DEF CapsOffered, TypeOK, Idle
<1>4. Counted = {} /\ \A u \in Users : Buying(u) = {}
  BY DEF Counted, Buying, Idle
<1>5. CapacityFits
  BY <1>1, <1>4, LoopsCounted DEF CapacityFits, Fit, TypeOK
<1>6. LimitFits
  BY <1>4, LoopsCounted DEF LimitFits, Fit
<1> QED BY <1>1, <1>2, <1>3, <1>5, <1>6 DEF SaleInv

LEMMA Inductive == Spec => []SaleInv
<1>1. SaleInv /\ [Next]_vars => SaleInv'
  <2> SUFFICES ASSUME SaleInv, [Next]_vars PROVE SaleInv'
    OBVIOUS
  <2>1. TypeOK'
    BY TypeStep DEF SaleInv
  <2>2. Placed'
    BY PlacedStep DEF SaleInv
  <2>3. CapsOffered'
    BY CapsStep DEF SaleInv
  <2> QED BY <2>1, <2>2, <2>3, CapacityStep, LimitStep DEF SaleInv
<1> QED BY <1>1, InitInv, PTL DEF Spec

\* However many processes sell, and however hosts change the capacity, the
\* event is sold past the largest capacity offered by at most one full order for
\* each process but one: checkout counts before its transaction, on its loop.
THEOREM OversoldAtMost == Spec => []CapacityKept
<1>1. SaleInv => CapacityKept
  <2> SUFFICES ASSUME SaleInv, offered # Unlimited PROVE total <= offered + Unseen
    BY DEF CapacityKept
  <2>1. Fit(total, offered, Counted, Orders) /\ total \in Nat /\ offered \in Nat
    BY DEF SaleInv, CapacityFits, TypeOK
  <2>2. IsFiniteSet(Counted) /\ \A x \in Counted : Orders[x] \in Nat
    BY CountedFinite, OrderFacts DEF SaleInv, Counted
  <2> QED BY <2>1, <2>2, FitBounds
<1> QED BY <1>1, Inductive, PTL

\* ... and a user past the limit, likewise: the user's tickets are counted on the
\* loop that sells, but not under a lock.
THEOREM OverbookedAtMost == Spec => []LimitKept
<1>1. SaleInv => LimitKept
  <2> SUFFICES ASSUME SaleInv, NEW u \in Users PROVE sold[u] <= MaxBookable + Unseen
    BY DEF LimitKept
  <2>1. Fit(sold[u], MaxBookable, Buying(u), Orders) /\ sold[u] \in Nat
    BY DEF SaleInv, LimitFits, TypeOK
  <2>2. IsFiniteSet(Buying(u)) /\ \A x \in Buying(u) : Orders[x] \in Nat
    BY CountedFinite, OrderFacts DEF SaleInv, Buying
  <2> QED BY <2>1, <2>2, SaleAssumption, FitBounds
<1> QED BY <1>1, Inductive, PTL

\* In one process neither is ever passed.
THEOREM OneProcessSellsWithin ==
  ASSUME Cardinality(Loops) = 1
  PROVE  Spec => [](/\ offered # Unlimited => total <= offered
                    /\ \A u \in Users : sold[u] <= MaxBookable)
<1>1. Unseen = 0
  BY SaleAssumption DEF Unseen
<1>2. TypeOK /\ CapacityKept => (offered # Unlimited => total <= offered)
  BY <1>1 DEF TypeOK, CapacityKept
<1>3. LimitKept => \A u \in Users : sold[u] <= MaxBookable
  BY <1>1, SaleAssumption DEF LimitKept
<1> QED BY <1>2, <1>3, TypeCorrect, OversoldAtMost, OverbookedAtMost, PTL
=============================================================================
