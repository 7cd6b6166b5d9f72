---------------------------- MODULE SeatFeedProofs ----------------------------
(***************************************************************************)
(* Proofs about SeatFeed, for any seats, sockets and requests, and rooms   *)
(* of any size: the variables have their types, and every open socket      *)
(* shows each topic as it is, or is about to be told.                      *)
(*                                                                         *)
(* The argument for the second is about order.  Broadcasts of one topic    *)
(* go over the room in the order in which its sockets joined it, and the   *)
(* line of a socket is first come first served, so older news that waits   *)
(* somewhere stays ahead of the newest until a lost socket lets the newest *)
(* pass.                                                                   *)
(***************************************************************************)
EXTENDS SeatFeed, FiniteSetTheorems, SequenceTheorems, TLAPS

-----------------------------------------------------------------------------
(* Sequences *)

\* An x stands somewhere before a y in q.
Before(x, y, q) == \E i, j \in 1..Len(q) : i < j /\ q[i] = x /\ q[j] = y

Distinct(q) == \A i, j \in 1..Len(q) : q[i] = q[j] => i = j

LEMMA EmptySequence ==
  ASSUME NEW q, q = <<>>
  PROVE  Distinct(q) /\ \A x : ~Contains(q, x) /\ \A y : ~Before(x, y, q)
BY DEF Distinct, Contains, Before

LEMMA BeforeContains ==
  ASSUME NEW q, NEW x, NEW y, Before(x, y, q)
  PROVE  Contains(q, x) /\ Contains(q, y)
BY DEF Before, Contains

LEMMA BeforeOrders ==
  ASSUME NEW S, NEW q \in Seq(S), Distinct(q), NEW x, NEW y
  PROVE  /\ Before(x, y, q) => ~Before(y, x, q) /\ x # y
         /\ Contains(q, x) /\ Contains(q, y) /\ x # y => Before(x, y, q) \/ Before(y, x, q)
<1>1. Len(q) \in Nat
  OBVIOUS
<1> QED
  BY <1>1 DEF Distinct, Before, Contains

LEMMA TailElements ==
  ASSUME NEW S, NEW q \in Seq(S), q # <<>>
  PROVE  /\ Tail(q) \in Seq(S) /\ Head(q) \in S
         /\ Len(q) \in Nat /\ Len(q) > 0 /\ Len(Tail(q)) = Len(q) - 1 /\ q[1] = Head(q)
         /\ \A i \in 1..Len(Tail(q)) : i + 1 \in 1..Len(q) /\ Tail(q)[i] = q[i + 1]
         /\ \A i \in 1..Len(q) : i # 1 => i - 1 \in 1..Len(Tail(q)) /\ q[i] = Tail(q)[i - 1]
OBVIOUS

LEMMA TailContains ==
  ASSUME NEW S, NEW q \in Seq(S), q # <<>>
  PROVE  \A x : Contains(q, x) <=> (x = Head(q) \/ Contains(Tail(q), x))
BY TailElements DEF Contains

LEMMA TailBefore ==
  ASSUME NEW S, NEW q \in Seq(S), q # <<>>, NEW x, NEW y
  PROVE  /\ Before(x, y, Tail(q)) => Before(x, y, q)
         /\ Before(x, y, q) /\ x # Head(q) => Before(x, y, Tail(q))
         /\ Contains(Tail(q), y) => Before(Head(q), y, q)
<1>1. Before(x, y, Tail(q)) => Before(x, y, q)
  BY TailElements DEF Before
<1>2. ASSUME Before(x, y, q), x # Head(q) PROVE Before(x, y, Tail(q))
  <2>1. PICK i, j \in 1..Len(q) : i < j /\ q[i] = x /\ q[j] = y
    BY <1>2 DEF Before
  <2>2. i # 1 /\ j # 1
    BY <1>2, <2>1, TailElements
  <2>3. /\ i - 1 \in 1..Len(Tail(q)) /\ j - 1 \in 1..Len(Tail(q)) /\ i - 1 < j - 1
        /\ Tail(q)[i - 1] = x /\ Tail(q)[j - 1] = y
    BY <2>1, <2>2, TailElements
  <2> QED
    BY <2>3 DEF Before
<1>3. Contains(Tail(q), y) => Before(Head(q), y, q)
  BY TailElements DEF Before, Contains
<1> QED
  BY <1>1, <1>2, <1>3

LEMMA TailDistinct ==
  ASSUME NEW S, NEW q \in Seq(S), q # <<>>, Distinct(q)
  PROVE  Distinct(Tail(q)) /\ ~Contains(Tail(q), Head(q))
<1>1. Distinct(Tail(q))
  <2> SUFFICES ASSUME NEW i \in 1..Len(Tail(q)), NEW j \in 1..Len(Tail(q)), Tail(q)[i] = Tail(q)[j]
               PROVE  i = j
    BY DEF Distinct
  <2>1. i + 1 \in 1..Len(q) /\ j + 1 \in 1..Len(q) /\ q[i + 1] = q[j + 1]
    BY TailElements
  <2> QED
    BY <2>1 DEF Distinct
<1>2. ~Contains(Tail(q), Head(q))
  BY TailElements DEF Distinct, Contains
<1> QED
  BY <1>1, <1>2

LEMMA AppendElements ==
  ASSUME NEW S, NEW q \in Seq(S), NEW z \in S
  PROVE  /\ Append(q, z) \in Seq(S) /\ Len(q) \in Nat /\ Len(Append(q, z)) = Len(q) + 1
         /\ \A i \in 1..Len(q) : i \in 1..Len(Append(q, z)) /\ Append(q, z)[i] = q[i]
         /\ Append(q, z)[Len(q) + 1] = z /\ Len(q) + 1 \in 1..Len(Append(q, z))
         /\ \A i \in 1..Len(Append(q, z)) : i \in 1..Len(q) \/ i = Len(q) + 1
OBVIOUS

LEMMA AppendContains ==
  ASSUME NEW S, NEW q \in Seq(S), NEW z \in S
  PROVE  \A x : Contains(Append(q, z), x) <=> (x = z \/ Contains(q, x))
BY AppendElements DEF Contains

LEMMA AppendBefore ==
  ASSUME NEW S, NEW q \in Seq(S), NEW z \in S, NEW x, NEW y
  PROVE  /\ Before(x, y, q) => Before(x, y, Append(q, z))
         /\ Contains(q, x) => Before(x, z, Append(q, z))
<1>1. Before(x, y, q) => Before(x, y, Append(q, z))
  BY AppendElements DEF Before
<1>2. ASSUME Contains(q, x) PROVE Before(x, z, Append(q, z))
  <2>1. PICK i \in 1..Len(q) : q[i] = x
    BY <1>2 DEF Contains
  <2>2. i < Len(q) + 1
    BY <2>1, AppendElements
  <2> QED
    BY <2>1, <2>2, AppendElements DEF Before
<1> QED
  BY <1>1, <1>2

LEMMA AppendDistinct ==
  ASSUME NEW S, NEW q \in Seq(S), NEW z \in S, Distinct(q), ~Contains(q, z)
  PROVE  Distinct(Append(q, z))
BY AppendElements DEF Distinct, Contains

\* In a list without duplicates: its other elements, in their order.
LEMMA RemoveElements ==
  ASSUME NEW S, NEW q \in Seq(S), Distinct(q), NEW k \in 1..Len(q)
  PROVE  LET p == RemoveFirst(q, q[k])
         IN  /\ p \in Seq(S) /\ Len(q) \in Nat /\ Len(p) = Len(q) - 1
             /\ \A i \in 1..Len(p) : p[i] = IF i < k THEN q[i] ELSE q[i + 1]
<1> DEFINE I == {i \in 1..Len(q) : q[i] = q[k]}
           p == SubSeq(q, 1, k - 1) \o SubSeq(q, k + 1, Len(q))
<1>1. Len(q) \in Nat
  OBVIOUS
<1>2. I = {k}
  BY DEF Distinct
<1>3. Min({k}) = k
  BY DEF Min
<1>4. SelectInSeq(q, LAMBDA v : v = q[k]) = k
  BY <1>2, <1>3 DEF SelectInSeq
<1>5. RemoveFirst(q, q[k]) = p
  BY <1>4 DEF RemoveFirst, RemoveAt
<1> DEFINE a == SubSeq(q, 1, k - 1)
           b == SubSeq(q, k + 1, Len(q))
<1>6. a \in Seq(S) /\ Len(a) = k - 1 /\ \A i \in 1..k - 1 : a[i] = q[i]
  <2>1. \A i \in 1..k - 1 : q[i] \in S
    BY <1>1
  <2>2. /\ a \in Seq(S) /\ Len(a) = (IF 1 <= k - 1 THEN k - 1 - 1 + 1 ELSE 0)
        /\ \A i \in 1..k - 1 - 1 + 1 : a[i] = q[1 + i - 1]
    <3> HIDE DEF a
    <3> QED
      BY <1>1, <2>1, SubSeqProperties DEF a
  <2> HIDE DEF a
  <2> QED
    BY <1>1, <2>2
<1>7. b \in Seq(S) /\ Len(b) = Len(q) - k /\ \A i \in 1..Len(q) - k : b[i] = q[i + k]
  <2>1. \A i \in k + 1..Len(q) : q[i] \in S
    BY <1>1
  <2>2. /\ b \in Seq(S) /\ Len(b) = (IF k + 1 <= Len(q) THEN Len(q) - (k + 1) + 1 ELSE 0)
        /\ \A i \in 1..Len(q) - (k + 1) + 1 : b[i] = q[k + 1 + i - 1]
    BY <1>1, <2>1, SubSeqProperties
  <2> HIDE DEF b
  <2> QED
    BY <1>1, <2>2
<1> HIDE DEF a, b
<1>8. /\ p = a \o b /\ p \in Seq(S) /\ Len(p) = Len(q) - 1
      /\ \A i \in 1..Len(p) : p[i] = IF i <= Len(a) THEN a[i] ELSE b[i - Len(a)]
  <2>1. p = a \o b
    BY DEF a, b
  <2> HIDE DEF p
  <2>2. /\ p \in Seq(S) /\ Len(p) = Len(a) + Len(b)
        /\ \A i \in 1..Len(a) + Len(b) : p[i] = IF i <= Len(a) THEN a[i] ELSE b[i - Len(a)]
    BY <1>6, <1>7, <2>1, ConcatProperties
  <2>3. Len(a) + Len(b) = Len(q) - 1
    BY <1>1, <1>6, <1>7
  <2> QED
    BY <2>1, <2>2, <2>3
<1>9. ASSUME NEW i \in 1..Len(p) PROVE p[i] = IF i < k THEN q[i] ELSE q[i + 1]
  <2> HIDE DEF p
  <2>1. CASE i < k
    BY <1>1, <1>6, <1>8, <2>1
  <2>2. CASE i >= k
    <3>1. i > Len(a) /\ i - Len(a) \in 1..Len(q) - k /\ i - Len(a) + k = i + 1
      BY <1>1, <1>6, <1>8, <2>2
    <3>2. p[i] = b[i - Len(a)]
      BY <1>8, <2>2, <3>1
    <3>3. b[i - Len(a)] = q[i - Len(a) + k]
      BY <1>7, <3>1
    <3> QED
      BY <2>2, <3>1, <3>2, <3>3
  <2> QED
    BY <1>1, <2>1, <2>2
<1> HIDE DEF p
<1> QED
  BY <1>1, <1>5, <1>8, <1>9

LEMMA RemoveNothing ==
  ASSUME NEW q, NEW c, ~Contains(q, c)
  PROVE  RemoveFirst(q, c) = q
BY DEF RemoveFirst, Contains

LEMMA RemoveContains ==
  ASSUME NEW S, NEW q \in Seq(S), Distinct(q), NEW c
  PROVE  /\ RemoveFirst(q, c) \in Seq(S)
         /\ Distinct(RemoveFirst(q, c))
         /\ \A x : Contains(RemoveFirst(q, c), x) <=> (Contains(q, x) /\ x # c)
         /\ \A x, y : Before(x, y, q) /\ x # c /\ y # c => Before(x, y, RemoveFirst(q, c))
<1> DEFINE p == RemoveFirst(q, c)
<1>1. CASE ~Contains(q, c)
  BY <1>1, RemoveNothing
<1>2. CASE Contains(q, c)
  <2>1. PICK k \in 1..Len(q) : q[k] = c
    BY <1>2 DEF Contains
  <2>2. /\ p \in Seq(S) /\ Len(q) \in Nat /\ Len(p) = Len(q) - 1
        /\ \A i \in 1..Len(p) : p[i] = IF i < k THEN q[i] ELSE q[i + 1]
    BY <2>1, RemoveElements
  <2> HIDE DEF p
  <2>3. \A i \in 1..Len(q) : i < k => i \in 1..Len(p) /\ p[i] = q[i]
    BY <2>2
  <2>4. \A i \in 1..Len(q) : i > k => i - 1 \in 1..Len(p) /\ p[i - 1] = q[i]
    BY <2>2
  <2>5. \A i \in 1..Len(q) : q[i] # c => i < k \/ i > k
    BY <2>1
  <2>6. Distinct(p)
    <3> SUFFICES ASSUME NEW i \in 1..Len(p), NEW j \in 1..Len(p), p[i] = p[j] PROVE i = j
      BY DEF Distinct
    <3> DEFINE at(n) == IF n < k THEN n ELSE n + 1
    <3>1. at(i) \in 1..Len(q) /\ at(j) \in 1..Len(q) /\ q[at(i)] = q[at(j)]
      BY <2>2
    <3>2. at(i) = at(j)
      BY <3>1 DEF Distinct
    <3> QED
      BY <3>2
  <2>7. ASSUME NEW x PROVE Contains(p, x) <=> (Contains(q, x) /\ x # c)
    <3>1. ASSUME Contains(q, x), x # c PROVE Contains(p, x)
      BY <2>3, <2>4, <2>5, <3>1 DEF Contains
    <3>2. ASSUME NEW i \in 1..Len(p), p[i] = x PROVE Contains(q, x) /\ x # c
      <4> DEFINE n == IF i < k THEN i ELSE i + 1
      <4>1. n \in 1..Len(q) /\ n # k /\ q[n] = x
        BY <2>2, <3>2
      <4> QED
        BY <2>1, <4>1 DEF Contains, Distinct
    <3> QED
      BY <3>1, <3>2 DEF Contains
  <2>8. ASSUME NEW x, NEW y, Before(x, y, q), x # c, y # c PROVE Before(x, y, p)
    <3>1. PICK i, j \in 1..Len(q) : i < j /\ q[i] = x /\ q[j] = y
      BY <2>8 DEF Before
    <3>2. (i < k \/ i > k) /\ (j < k \/ j > k)
      BY <2>5, <2>8, <3>1
    <3> DEFINE m == IF i < k THEN i ELSE i - 1
               n == IF j < k THEN j ELSE j - 1
    <3>3. m \in 1..Len(p) /\ n \in 1..Len(p) /\ p[m] = x /\ p[n] = y
      BY <2>3, <2>4, <3>1, <3>2
    <3>4. m < n
      BY <3>1, <3>2
    <3> QED
      BY <3>3, <3>4 DEF Before
  <2> QED
    BY <2>2, <2>6, <2>7, <2>8 DEF p
<1> QED
  BY <1>1, <1>2

-----------------------------------------------------------------------------
(* The inductive invariant *)

Payload == Status \cup {"none"} \cup [sold : Nat, locked : Nat, available : Int]
Task    == [todo : Seq(Topics), status : Status, on : BOOLEAN, payload : Payload, rest : Seq(Sockets)]

StateOK ==
  /\ seat \in [Seats -> Status] /\ due \subseteq {s \in Seats : seat[s] = "LOCKED"}
  /\ astray \subseteq Topics
  /\ task \in [Tasks -> Task] /\ current \in Tasks \cup {"none"}
  /\ room \in [{"seats", "admin"} -> Seq(Sockets)] /\ open \subseteq Sockets
  /\ line \in [Sockets -> Seq(Tasks)]
  /\ DOMAIN view = Sockets
  /\ \A c \in Sockets : DOMAIN view[c] = IF c \in open THEN TopicsOf(c) ELSE {}

\* A task broadcasts topic p.
On(t, p) == task[t].on /\ Topic(t) = p

\* A broadcast that does not have the loop waits, at one socket of its room.
WaitingOK ==
  /\ \A t \in Tasks : /\ task[t].on => Busy(t)
                      /\ task[t].rest # <<>> => task[t].on
                      /\ task[t].on /\ current # t => Waits(t)
  /\ \A c \in Sockets, t \in Tasks : Contains(line[c], t) =>
       /\ task[t].on /\ current # t /\ Home(c) = RoomOf(Topic(t))
       /\ \A d \in Sockets : Contains(line[d], t) => d = c
  /\ \A c \in Sockets : Distinct(line[c])

\* The sockets are in the room of their kind, once, and a snapshot holds sockets
\* of one room.
RoomsOK ==
  /\ \A r \in {"seats", "admin"} :
       Distinct(room[r]) /\ \A c \in Sockets : Contains(room[r], c) => Home(c) = r
  /\ \A c \in open : Contains(room[Home(c)], c)
  /\ \A t \in Tasks :
       /\ Distinct(task[t].rest)
       /\ \A c \in Sockets : Contains(task[t].rest, c) => Home(c) = RoomOf(Topic(t))

\* A broadcast comes to x and then to y: to the socket it waits at, and then to
\* those it still has to tell.
Route(t, x, y) == Before(x, y, task[t].rest) \/ (Contains(line[x], t) /\ Contains(task[t].rest, y))

\* A broadcast goes over the room in its order.
InOrder ==
  \A t \in Tasks, x, y \in Sockets :
    /\ task[t].on /\ Contains(room[RoomOf(Topic(t))], x) /\ Contains(room[RoomOf(Topic(t))], y)
    /\ Route(t, x, y)
    => Before(x, y, room[RoomOf(Topic(t))])

\* What is still to begin says of a seat what it is.
AheadTrue ==
  \A t \in Tasks, s \in Seats \ astray : Contains(Ahead(t), s) => task[t].status = seat[s]

\* Broadcast u stays ahead of broadcast t: t still has to tell whoever u has to,
\* and comes to the socket u waits at before, or waits there behind u.
Behind(u, t) ==
  \A x \in open : Contains(task[u].rest, x) =>
    /\ Contains(task[t].rest, x)
    /\ \A c \in Sockets : Contains(line[c], u) => Before(c, x, task[t].rest) \/ Before(u, t, line[c])

\* A topic is still to be broadcast; or its newest broadcast t is under way, and
\* the others stay ahead of it; or no one has anything more to say of it.
Coming(p) == \E t \in Tasks : Contains(Ahead(t), p)
Leads(t, p) ==
  /\ On(t, p) /\ task[t].payload = Truth(p)
  /\ \A u \in Tasks \ {t} : On(u, p) => Behind(u, t)
  /\ \A c \in open : p \in TopicsOf(c) => view[c][p] = Truth(p) \/ Contains(task[t].rest, c)
Quiet(p) ==
  /\ \A u \in Tasks : On(u, p) => \A x \in open : ~Contains(task[u].rest, x)
  /\ \A c \in open : p \in TopicsOf(c) => view[c][p] = Truth(p)

Settled(p) == Coming(p) \/ (\E t \in Tasks : Leads(t, p)) \/ Quiet(p)
AllSettled == \A p \in Topics \ astray : Settled(p)

FeedInv == StateOK /\ WaitingOK /\ RoomsOK /\ InOrder /\ AheadTrue /\ AllSettled

-----------------------------------------------------------------------------
(* What the invariant says of the clients *)

LEMMA SettledTold ==
  ASSUME StateOK, AheadTrue, NEW p \in Topics \ astray, Settled(p), NEW c \in open, p \in TopicsOf(c)
  PROVE  view[c][p] = Truth(p) \/ Told(c, p)
<1>1. CASE Coming(p)
  <2>1. PICK t \in Tasks : Contains(Ahead(t), p)
    BY <1>1 DEF Coming
  <2>2. p = "board" \/ task[t].status = seat[p]
    BY <2>1 DEF AheadTrue, Topics
  <2> QED
    BY <2>1, <2>2 DEF Told
<1>2. CASE \E t \in Tasks : Leads(t, p)
  BY <1>2 DEF Leads, Told, On
<1>3. CASE Quiet(p)
  BY <1>3 DEF Quiet
<1> QED
  BY <1>1, <1>2, <1>3 DEF Settled

LEMMA SettledAgree ==
  ASSUME FeedInv
  PROVE  ViewsAgree
<1> SUFFICES ASSUME NEW c \in open, NEW p \in TopicsOf(c) \ astray
             PROVE  view[c][p] = Truth(p) \/ Told(c, p)
  BY DEF ViewsAgree
<1>1. p \in Topics \ astray
  BY DEF TopicsOf, Topics
<1> QED
  BY <1>1, SettledTold DEF FeedInv, AllSettled

LEMMA TypesFollow ==
  ASSUME StateOK, WaitingOK, RoomsOK
  PROVE  TypeOK
<1>1. ASSUME NEW t \in Tasks
      PROVE  Cardinality({c \in Sockets : Contains(line[c], t)}) <= 1
  <2> DEFINE C == {c \in Sockets : Contains(line[c], t)}
  <2>1. CASE C = {}
    BY <2>1, FS_EmptySet
  <2>2. CASE C # {}
    <3>1. PICK c \in C : TRUE
      BY <2>2
    <3>2. C = {c}
      BY <3>1 DEF WaitingOK
    <3> QED
      BY <3>2, FS_Singleton
  <2> QED
    BY <2>1, <2>2
<1>2. ASSUME NEW c \in Sockets
      PROVE  Cardinality(ToSet(line[c])) = Len(line[c])
  <2> DEFINE q == line[c]
  <2>1. q \in Seq(Tasks) /\ Distinct(q) /\ Len(q) \in Nat /\ DOMAIN q = 1..Len(q)
    BY DEF StateOK, WaitingOK
  <2> HIDE DEF q
  <2>2. q \in [1..Len(q) -> ToSet(q)]
    BY <2>1 DEF ToSet
  <2>3. q \in Bijection(1..Len(q), ToSet(q))
    BY <2>1, <2>2 DEF Bijection, Injection, Surjection, IsInjective, ToSet, Distinct
  <2>4. IsFiniteSet(1..Len(q)) /\ Cardinality(1..Len(q)) = Len(q)
    BY <2>1, FS_Interval
  <2>5. ExistsBijection(1..Len(q), ToSet(q))
    BY <2>3 DEF ExistsBijection
  <2> QED
    BY <2>4, <2>5, FS_Bijection DEF q
<1>3. \A t \in Tasks : /\ task[t].todo \in Seq(Topics) /\ task[t].rest \in Seq(Sockets)
                       /\ task[t].on => Busy(t)
                       /\ Waits(t) => current # t /\ task[t].on
  BY DEF StateOK, Task, WaitingOK, Waits
<1> QED
  BY <1>1, <1>2, <1>3 DEF TypeOK, StateOK, RoomsOK

-----------------------------------------------------------------------------
(* Steps of the sockets *)

LEMMA InitFeed ==
  ASSUME Init
  PROVE  FeedInv
<1>1. \A t \in Tasks : task[t] = Idle
  BY DEF Init
<1>2. \A t \in Tasks : ~task[t].on /\ task[t].todo = <<>> /\ task[t].rest = <<>>
  BY <1>1 DEF Idle
<1>3. Idle \in Task
  BY DEF Idle, Task, Status, Payload
<1>4. StateOK
  BY <1>3 DEF Init, StateOK, Status
<1>5. WaitingOK
  BY <1>2, EmptySequence DEF Init, WaitingOK
<1>6. RoomsOK
  BY <1>2, EmptySequence DEF Init, RoomsOK
<1>7. InOrder
  BY <1>2 DEF InOrder
<1>8. \A t \in Tasks : Ahead(t) = <<>>
  BY <1>2 DEF Ahead
<1>9. AheadTrue
  BY <1>8, EmptySequence DEF AheadTrue
<1>10. AllSettled
  BY <1>2 DEF Init, AllSettled, Settled, Quiet, On
<1> QED
  BY <1>4, <1>5, <1>6, <1>7, <1>9, <1>10 DEF FeedInv

LEMMA SameTruth ==
  ASSUME UNCHANGED seat, NEW p
  PROVE  Truth(p)' = Truth(p)
BY DEF Truth, Dashboard, Count, Capacity

LEMMA LapseKeeps ==
  ASSUME FeedInv, NEW s \in Seats, Lapse(s)
  PROVE  FeedInv'
<1> USE DEF FeedInv
<1>1. UNCHANGED <<seat, task, current, room, open, line, view, astray>>
  BY DEF Lapse
<1>2. StateOK'
  BY DEF Lapse, StateOK
<1>3. WaitingOK'
  BY <1>1 DEF WaitingOK, Busy, Waits, Topic
<1>4. RoomsOK'
  BY <1>1 DEF RoomsOK, Topic
<1>5. InOrder'
  BY <1>1 DEF InOrder, Topic, Route
<1>6. AheadTrue'
  BY <1>1 DEF AheadTrue, Ahead
<1>7. AllSettled'
  BY <1>1, SameTruth DEF AllSettled, Settled, Coming, Leads, Quiet, On, Behind, Ahead, Topic
<1> QED
  BY <1>2, <1>3, <1>4, <1>5, <1>6, <1>7

\* Rooms that lose sockets, closed ones at most, and keep the order of the rest.
Shrinks ==
  /\ room' \in [{"seats", "admin"} -> Seq(Sockets)]
  /\ \A r \in {"seats", "admin"} :
       /\ Distinct(room'[r])
       /\ \A x \in Sockets : Contains(room'[r], x) => Contains(room[r], x)
       /\ \A x \in open : Contains(room[r], x) => Contains(room'[r], x)
       /\ \A x, y \in Sockets :
            Before(x, y, room[r]) /\ Contains(room'[r], x) /\ Contains(room'[r], y) => Before(x, y, room'[r])

LEMMA RoomShrinks ==
  ASSUME StateOK, RoomsOK, NEW c \in Sockets, c \in open => UNCHANGED room,
         Disconnect(c) \/ UNCHANGED room
  PROVE  Shrinks
<1>1. CASE UNCHANGED room
  BY <1>1 DEF Shrinks, StateOK, RoomsOK
<1>2. CASE Disconnect(c) /\ c \notin open
  <2>1. /\ Home(c) \in {"seats", "admin"} /\ room[Home(c)] \in Seq(Sockets) /\ Distinct(room[Home(c)])
        /\ room \in [{"seats", "admin"} -> Seq(Sockets)]
    BY DEF StateOK, RoomsOK, Home
  <2> DEFINE q == room[Home(c)]
             p == RemoveFirst(q, c)
  <2>2. /\ p \in Seq(Sockets) /\ Distinct(p)
        /\ \A x : Contains(p, x) <=> (Contains(q, x) /\ x # c)
        /\ \A x, y : Before(x, y, q) /\ x # c /\ y # c => Before(x, y, p)
    BY <2>1, RemoveContains
  <2>3. room' = [room EXCEPT ![Home(c)] = p]
    BY <1>2 DEF Disconnect
  <2> HIDE DEF p
  <2>4. room'[Home(c)] = p /\ \A r \in {"seats", "admin"} : r # Home(c) => room'[r] = room[r]
    BY <2>1, <2>3
  <2>5. room' \in [{"seats", "admin"} -> Seq(Sockets)]
    BY <2>1, <2>2, <2>3
  <2>6. ASSUME NEW r \in {"seats", "admin"}
        PROVE  /\ Distinct(room'[r])
               /\ \A x \in Sockets : Contains(room'[r], x) => Contains(room[r], x)
               /\ \A x \in open : Contains(room[r], x) => Contains(room'[r], x)
               /\ \A x, y \in Sockets :
                    Before(x, y, room[r]) /\ Contains(room'[r], x) /\ Contains(room'[r], y)
                    => Before(x, y, room'[r])
    <3>1. CASE r = Home(c)
      BY <1>2, <2>2, <2>4, <3>1
    <3>2. CASE r # Home(c)
      BY <2>4, <3>2 DEF RoomsOK
    <3> QED
      BY <3>1, <3>2
  <2> QED
    BY <2>5, <2>6 DEF Shrinks
<1> QED
  BY <1>1, <1>2

\* What such rooms keep, whatever the tasks do.
LEMMA ShrunkRooms ==
  ASSUME StateOK, RoomsOK, Shrinks, UNCHANGED open
  PROVE  /\ \A r \in {"seats", "admin"} :
              Distinct(room'[r]) /\ \A c \in Sockets : Contains(room'[r], c) => Home(c) = r
         /\ \A c \in open' : Contains(room'[Home(c)], c)
<1>1. \A c \in open : c \in Sockets /\ Home(c) \in {"seats", "admin"}
  BY DEF StateOK, Home
<1> QED
  BY <1>1 DEF Shrinks, RoomsOK

LEMMA ShrunkOrder ==
  ASSUME StateOK, InOrder, Shrinks,
         \A t \in Tasks : task'[t].on => task[t].on /\ Topic(t)' = Topic(t),
         \A t \in Tasks, x, y \in Sockets : Route(t, x, y)' => Route(t, x, y)
  PROVE  InOrder'
<1> SUFFICES ASSUME NEW t \in Tasks, NEW x \in Sockets, NEW y \in Sockets,
                    task'[t].on, NEW r, r = RoomOf(Topic(t)),
                    Contains(room'[r], x), Contains(room'[r], y), Route(t, x, y)
             PROVE  Before(x, y, room'[r])
  BY DEF InOrder
<1>1. r \in {"seats", "admin"}
  BY DEF RoomOf
<1>2. Contains(room[r], x) /\ Contains(room[r], y)
  BY <1>1 DEF Shrinks
<1>3. Before(x, y, room[r])
  BY <1>2 DEF InOrder
<1> QED
  BY <1>1, <1>3 DEF Shrinks

LEMMA LeaveKeeps ==
  ASSUME FeedInv, NEW c \in Sockets, Leave(c)
  PROVE  FeedInv'
<1> USE DEF FeedInv
<1>1. UNCHANGED <<seat, due, task, current, open, line, view, astray>> /\ Shrinks
  BY RoomShrinks DEF Leave
<1>2. StateOK'
  BY <1>1 DEF Shrinks, StateOK
<1>3. WaitingOK'
  BY <1>1 DEF WaitingOK, Busy, Waits, Topic
<1>4. RoomsOK'
  BY <1>1, ShrunkRooms DEF RoomsOK, Topic
<1>5. InOrder'
  BY <1>1, ShrunkOrder DEF Topic, Route
<1>6. AheadTrue'
  BY <1>1 DEF AheadTrue, Ahead
<1>7. AllSettled'
  BY <1>1, SameTruth DEF AllSettled, Settled, Coming, Leads, Quiet, On, Behind, Ahead, Topic
<1> QED
  BY <1>2, <1>3, <1>4, <1>5, <1>6, <1>7

LEMMA CloseKeeps ==
  ASSUME FeedInv, NEW c \in Sockets, Close(c)
  PROVE  FeedInv'
<1> USE DEF FeedInv
<1>1. /\ UNCHANGED <<seat, due, task, current, room, line, astray>>
      /\ open' = open \ {c} /\ view' = [view EXCEPT ![c] = <<>>]
  BY DEF Close
<1>2. StateOK'
  BY <1>1 DEF StateOK
<1>3. WaitingOK'
  BY <1>1 DEF WaitingOK, Busy, Waits, Topic
<1>4. RoomsOK'
  BY <1>1 DEF RoomsOK, Topic
<1>5. InOrder'
  BY <1>1 DEF InOrder, Topic, Route
<1>6. AheadTrue'
  BY <1>1 DEF AheadTrue, Ahead
<1>7. \A d \in open' : d \in open /\ view'[d] = view[d]
  BY <1>1 DEF StateOK
<1>8. AllSettled'
  BY <1>1, <1>7, SameTruth DEF AllSettled, Settled, Coming, Leads, Quiet, On, Behind, Ahead, Topic
<1> QED
  BY <1>2, <1>3, <1>4, <1>5, <1>6, <1>8

LEMMA ConnectKeeps ==
  ASSUME FeedInv, NEW c \in Sockets, Connect(c)
  PROVE  FeedInv'
<1> USE DEF FeedInv
<1>1. /\ UNCHANGED <<seat, due, task, current, line, astray>>
      /\ open' = open \cup {c} /\ view' = [view EXCEPT ![c] = Picture(c)]
      /\ room' = [room EXCEPT ![Home(c)] = Append(@, c)]
      /\ c \notin open /\ line[c] = <<>> /\ ~Contains(room[Home(c)], c)
      /\ \A t \in Tasks : ~Contains(task[t].rest, c)
  BY DEF Connect
<1>2. /\ Home(c) \in {"seats", "admin"} /\ room[Home(c)] \in Seq(Sockets) /\ Distinct(room[Home(c)])
      /\ room \in [{"seats", "admin"} -> Seq(Sockets)]
  BY DEF StateOK, RoomsOK, Home
<1>3. /\ room' \in [{"seats", "admin"} -> Seq(Sockets)]
      /\ room'[Home(c)] = Append(room[Home(c)], c)
      /\ \A r \in {"seats", "admin"} : r # Home(c) => room'[r] = room[r]
  BY <1>1, <1>2
<1>4. \A r \in {"seats", "admin"}, x \in Sockets :
        Contains(room'[r], x) <=> (Contains(room[r], x) \/ (r = Home(c) /\ x = c))
  <2>1. \A x : Contains(Append(room[Home(c)], c), x) <=> (x = c \/ Contains(room[Home(c)], x))
    BY <1>2, AppendContains
  <2> QED
    BY <1>3, <2>1
<1>5. DOMAIN Picture(c) = TopicsOf(c) /\ \A p \in TopicsOf(c) : Picture(c)[p] = Truth(p)
  BY DEF Picture
<1>6. StateOK'
  BY <1>1, <1>3, <1>5 DEF StateOK
<1>7. WaitingOK'
  BY <1>1 DEF WaitingOK, Busy, Waits, Topic
<1>8. RoomsOK'
  <2>1. ASSUME NEW r \in {"seats", "admin"} PROVE Distinct(room'[r])
    BY <1>1, <1>2, <1>3, AppendDistinct DEF RoomsOK
  <2>2. ASSUME NEW r \in {"seats", "admin"}, NEW x \in Sockets, Contains(room'[r], x) PROVE Home(x) = r
    BY <1>4, <2>2 DEF RoomsOK
  <2>3. ASSUME NEW x \in open' PROVE Contains(room'[Home(x)], x)
    <3>1. x \in Sockets /\ Home(x) \in {"seats", "admin"} /\ (x \in open \/ x = c)
      BY <1>1 DEF StateOK, Home
    <3> QED
      BY <1>4, <3>1 DEF RoomsOK
  <2> QED
    BY <1>1, <2>1, <2>2, <2>3 DEF RoomsOK, Topic
<1>9. InOrder'
  <2> SUFFICES ASSUME NEW t \in Tasks, NEW x \in Sockets, NEW y \in Sockets,
                      task[t].on, NEW r, r = RoomOf(Topic(t)),
                      Contains(room'[r], x), Contains(room'[r], y),
                      Route(t, x, y)
               PROVE  Before(x, y, room'[r])
    BY <1>1 DEF InOrder, Topic, Route
  <2>1. r \in {"seats", "admin"}
    BY DEF RoomOf
  <2>2. x # c /\ y # c
    BY <1>1, EmptySequence, BeforeContains DEF Route
  <2>3. Before(x, y, room[r])
    BY <1>4, <2>1, <2>2 DEF InOrder
  <2> QED
    BY <1>2, <1>3, <2>1, <2>3, AppendBefore
<1>10. AheadTrue'
  BY <1>1 DEF AheadTrue, Ahead
<1>11. AllSettled'
  <2> SUFFICES ASSUME NEW p \in Topics \ astray PROVE Settled(p)'
    BY <1>1 DEF AllSettled
  <2>1. Settled(p) /\ Truth(p)' = Truth(p) /\ p \in Topics
    BY <1>1, SameTruth DEF AllSettled
  <2>2. \A d \in open' : d = c \/ (d \in open /\ view'[d] = view[d])
    BY <1>1
  <2>3. p \in TopicsOf(c) => view'[c][p] = Truth(p)
    BY <1>1, <1>5 DEF StateOK
  <2>4. Coming(p) => Coming(p)'
    BY <1>1 DEF Coming, Ahead
  <2>5. ASSUME NEW t \in Tasks, Leads(t, p) PROVE Leads(t, p)'
    <3>1. \A u \in Tasks \ {t} : On(u, p)' => Behind(u, t)'
      BY <1>1, <2>2, <2>5 DEF Leads, On, Topic, Behind
    <3> QED
      BY <1>1, <2>1, <2>2, <2>3, <2>5, <3>1 DEF Leads, On, Topic
  <2>6. Quiet(p) => Quiet(p)'
    BY <1>1, <2>1, <2>2, <2>3 DEF Quiet, On, Topic
  <2> QED
    BY <2>1, <2>4, <2>5, <2>6 DEF Settled
<1> QED
  BY <1>6, <1>7, <1>8, <1>9, <1>10, <1>11

\* The first of a line leaves it.
LEMMA LineMoves ==
  ASSUME StateOK, WaitingOK, NEW t \in Tasks, NEW c \in Sockets,
         line[c] # <<>>, Head(line[c]) = t, line' = [line EXCEPT ![c] = Drained(@)]
  PROVE  /\ line' \in [Sockets -> Seq(Tasks)]
         /\ \A d \in Sockets : Distinct(line'[d])
         /\ \A d \in Sockets, u \in Tasks : Contains(line'[d], u) <=> (Contains(line[d], u) /\ u # t)
         /\ \A d \in Sockets, u, v \in Tasks : Before(u, v, line[d]) /\ u # t => Before(u, v, line'[d])
<1>1. line[c] \in Seq(Tasks) /\ Distinct(line[c]) /\ line \in [Sockets -> Seq(Tasks)]
  BY DEF StateOK, WaitingOK
<1>2. line'[c] = Tail(line[c]) /\ \A d \in Sockets : d # c => line'[d] = line[d]
  BY <1>1 DEF Drained
<1>3. Tail(line[c]) \in Seq(Tasks) /\ Distinct(Tail(line[c])) /\ ~Contains(Tail(line[c]), t)
  BY <1>1, TailElements, TailDistinct
<1>4. \A u : Contains(line[c], u) <=> (u = t \/ Contains(line'[c], u))
  <2>1. \A u : Contains(line[c], u) <=> (u = Head(line[c]) \/ Contains(Tail(line[c]), u))
    BY <1>1, TailContains
  <2> QED
    BY <1>2, <2>1
<1>5. \A d \in Sockets : Contains(line[d], t) => d = c
  BY <1>4 DEF WaitingOK
<1>6. line' \in [Sockets -> Seq(Tasks)]
  BY <1>1, <1>3 DEF Drained
<1>7. \A d \in Sockets : Distinct(line'[d])
  BY <1>2, <1>3 DEF WaitingOK
<1>8. ASSUME NEW d \in Sockets, NEW u \in Tasks
      PROVE  Contains(line'[d], u) <=> (Contains(line[d], u) /\ u # t)
  <2>1. CASE d = c
    BY <1>2, <1>3, <1>4, <2>1
  <2>2. CASE d # c
    BY <1>2, <1>5, <2>2
  <2> QED
    BY <2>1, <2>2
<1>9. ASSUME NEW d \in Sockets, NEW u \in Tasks, NEW v \in Tasks, Before(u, v, line[d]), u # t
      PROVE  Before(u, v, line'[d])
  <2>1. CASE d = c
    <3>1. Before(u, v, line[c]) /\ u # Head(line[c]) => Before(u, v, Tail(line[c]))
      BY <1>1, TailBefore
    <3> QED
      BY <1>2, <1>9, <2>1, <3>1
  <2>2. CASE d # c
    BY <1>2, <1>9, <2>2
  <2> QED
    BY <2>1, <2>2
<1> QED
  BY <1>6, <1>7, <1>8, <1>9

LEMMA WakeKeeps ==
  ASSUME FeedInv, NEW t \in Tasks, Wake(t)
  PROVE  FeedInv'
<1> USE DEF FeedInv
<1>1. PICK c \in Sockets : /\ line[c] # <<>> /\ Head(line[c]) = t /\ line' = [line EXCEPT ![c] = Drained(@)]
                           /\ c \in open => UNCHANGED room
                           /\ Disconnect(c) \/ UNCHANGED room
  BY DEF Wake
<1>2. UNCHANGED <<seat, due, task, open, view, astray>> /\ current = "none" /\ current' = t /\ Shrinks
  BY <1>1, RoomShrinks DEF Wake
<1>3. /\ line' \in [Sockets -> Seq(Tasks)]
      /\ \A d \in Sockets : Distinct(line'[d])
      /\ \A d \in Sockets, u \in Tasks : Contains(line'[d], u) <=> (Contains(line[d], u) /\ u # t)
      /\ \A d \in Sockets, u, v \in Tasks : Before(u, v, line[d]) /\ u # t => Before(u, v, line'[d])
  BY <1>1, LineMoves
<1>4. "none" \notin Tasks
  BY FeedAssumption DEF Tasks
<1>5. StateOK'
  BY <1>2, <1>3 DEF Shrinks, StateOK
<1>6. WaitingOK'
  <2>1. \A u \in Tasks : /\ task'[u].on => Busy(u)'
                         /\ task'[u].rest # <<>> => task'[u].on
                         /\ task'[u].on /\ current' # u => Waits(u)'
    BY <1>2, <1>3, <1>4 DEF WaitingOK, Busy, Waits
  <2>2. \A d \in Sockets, u \in Tasks : Contains(line'[d], u) =>
          /\ task'[u].on /\ current' # u /\ Home(d) = RoomOf(Topic(u)')
          /\ \A e \in Sockets : Contains(line'[e], u) => e = d
    BY <1>2, <1>3 DEF WaitingOK, Topic
  <2> QED
    BY <1>3, <2>1, <2>2 DEF WaitingOK
<1>7. RoomsOK'
  BY <1>2, ShrunkRooms DEF RoomsOK, Topic
<1>8. InOrder'
  BY <1>2, <1>3, ShrunkOrder DEF Topic, Route
<1>9. AheadTrue'
  BY <1>2 DEF AheadTrue, Ahead
<1>10. ASSUME NEW u \in Tasks, NEW v \in Tasks, Behind(u, v) PROVE Behind(u, v)'
  BY <1>2, <1>3, <1>10 DEF Behind
<1>11. AllSettled'
  <2> SUFFICES ASSUME NEW p \in Topics \ astray PROVE Settled(p)'
    BY <1>2 DEF AllSettled
  <2>1. Settled(p) /\ Truth(p)' = Truth(p)
    BY <1>2, SameTruth DEF AllSettled
  <2>2. ASSUME NEW v \in Tasks, Leads(v, p) PROVE Leads(v, p)'
    BY <1>2, <1>10, <2>1, <2>2 DEF Leads, On, Topic
  <2>3. Coming(p) => Coming(p)'
    BY <1>2 DEF Coming, Ahead
  <2>4. Quiet(p) => Quiet(p)'
    BY <1>2, <2>1 DEF Quiet, On, Topic
  <2> QED
    BY <2>1, <2>2, <2>3, <2>4 DEF Settled
<1> QED
  BY <1>5, <1>6, <1>7, <1>8, <1>9, <1>11

-----------------------------------------------------------------------------
(* Steps of the tasks *)

\* t, which waits nowhere, has no broadcast under way after the step; n is its
\* record then.
Rests(t, n) ==
  /\ n \in Task /\ ~n.on /\ n.rest = <<>> /\ task' = [task EXCEPT ![t] = n]
  /\ current \in {"none", t} /\ ~Waits(t) /\ current' \in {"none", t}
  /\ UNCHANGED <<room, open, line, view>>

LEMMA RestKeeps ==
  ASSUME StateOK, WaitingOK, RoomsOK, InOrder, NEW t \in Tasks, NEW n, Rests(t, n)
  PROVE  /\ task' \in [Tasks -> Task] /\ task'[t] = n /\ \A u \in Tasks \ {t} : task'[u] = task[u]
         /\ WaitingOK' /\ RoomsOK' /\ InOrder'
<1>1. task' \in [Tasks -> Task] /\ task'[t] = n /\ \A u \in Tasks \ {t} : task'[u] = task[u]
  BY DEF Rests, StateOK
<1>2. /\ UNCHANGED <<room, open, line>> /\ ~n.on /\ n.rest = <<>>
      /\ \A c \in Sockets : ~Contains(line[c], t)
      /\ "none" \notin Tasks
  BY FeedAssumption DEF Rests, Waits, Tasks
<1>3. WaitingOK'
  <2>1. ASSUME NEW u \in Tasks
        PROVE  /\ task'[u].on => Busy(u)'
               /\ task'[u].rest # <<>> => task'[u].on
               /\ task'[u].on /\ current' # u => Waits(u)'
    <3>1. CASE u = t
      BY <1>1, <1>2, <3>1
    <3>2. CASE u # t
      BY <1>1, <1>2, <3>2 DEF WaitingOK, Busy, Waits, Rests
    <3> QED
      BY <3>1, <3>2
  <2>2. ASSUME NEW c \in Sockets, NEW u \in Tasks, Contains(line[c], u)
        PROVE  /\ task'[u].on /\ current' # u /\ Home(c) = RoomOf(Topic(u)')
               /\ \A d \in Sockets : Contains(line[d], u) => d = c
    <3>1. u # t
      BY <1>2, <2>2
    <3> QED
      BY <1>1, <1>2, <2>2, <3>1 DEF WaitingOK, Topic, Rests
  <2> QED
    BY <1>2, <2>1, <2>2 DEF WaitingOK
<1>4. RoomsOK'
  <2>1. ASSUME NEW u \in Tasks
        PROVE  /\ Distinct(task'[u].rest)
               /\ \A c \in Sockets : Contains(task'[u].rest, c) => Home(c) = RoomOf(Topic(u)')
    <3>1. CASE u = t
      BY <1>1, <1>2, <3>1, EmptySequence
    <3>2. CASE u # t
      BY <1>1, <3>2 DEF RoomsOK, Topic
    <3> QED
      BY <3>1, <3>2
  <2> QED
    BY <1>2, <2>1 DEF RoomsOK
<1>5. InOrder'
  <2> SUFFICES ASSUME NEW u \in Tasks, NEW x \in Sockets, NEW y \in Sockets, task'[u].on,
                      NEW r, r = RoomOf(Topic(u)'), Contains(room[r], x), Contains(room[r], y),
                      Route(u, x, y)'
               PROVE  Before(x, y, room[r])
    BY <1>2 DEF InOrder
  <2>1. u # t
    BY <1>1, <1>2
  <2>2. task'[u] = task[u] /\ r = RoomOf(Topic(u)) /\ Route(u, x, y)
    BY <1>1, <1>2, <2>1 DEF Topic, Route
  <2> QED
    BY <2>2 DEF InOrder
<1> QED
  BY <1>1, <1>3, <1>4, <1>5

\* The broadcasts of others stand as they stood.
LEMMA RestSettles ==
  ASSUME StateOK, WaitingOK, RoomsOK, InOrder, NEW t \in Tasks, NEW n, Rests(t, n),
         NEW p, Truth(p)' = Truth(p)
  PROVE  /\ \A v \in Tasks \ {t} : Leads(v, p) => Leads(v, p)'
         /\ Quiet(p) => Quiet(p)'
<1>1. /\ task'[t] = n /\ \A u \in Tasks \ {t} : task'[u] = task[u]
      /\ ~n.on /\ UNCHANGED <<open, line, view>>
  BY RestKeeps DEF Rests
<1>2. \A u \in Tasks : On(u, p)' => u # t /\ On(u, p) /\ task'[u] = task[u]
  BY <1>1 DEF On, Topic
<1>3. ASSUME NEW v \in Tasks \ {t}, Leads(v, p) PROVE Leads(v, p)'
  <2>1. On(v, p)' /\ task'[v] = task[v]
    BY <1>1, <1>3 DEF Leads, On, Topic
  <2>2. ASSUME NEW u \in Tasks \ {v}, On(u, p)' PROVE Behind(u, v)'
    BY <1>1, <1>2, <1>3, <2>1, <2>2 DEF Leads, Behind
  <2> QED
    BY <1>1, <1>3, <2>1, <2>2 DEF Leads
<1>4. Quiet(p) => Quiet(p)'
  BY <1>1, <1>2 DEF Quiet
<1> QED
  BY <1>3, <1>4

LEMMA DoneKeeps ==
  ASSUME FeedInv, NEW t \in Tasks, Done(t)
  PROVE  FeedInv'
<1> USE DEF FeedInv
<1> DEFINE left == Tail(task[t].todo)
           n == IF left = <<>> THEN Idle ELSE [Idle EXCEPT !.todo = left, !.status = task[t].status]
<1>1. /\ current = t /\ task[t].on /\ task[t].rest = <<>>
      /\ task' = [task EXCEPT ![t] = n] /\ current' \in {"none", t}
      /\ UNCHANGED <<seat, due, room, open, line, view, astray>>
  BY DEF Done
<1>2. task[t] \in Task /\ task[t].todo # <<>> /\ left \in Seq(Topics)
  <2>1. task[t] \in Task /\ task[t].todo # <<>> /\ task[t].todo \in Seq(Topics)
    BY <1>1 DEF StateOK, Task, WaitingOK, Busy
  <2> QED
    BY <2>1, TailElements
<1>3. /\ n \in Task /\ ~n.on /\ n.rest = <<>> /\ n.todo = left
      /\ left # <<>> => n.status = task[t].status
  <2>1. n = [todo |-> left, status |-> IF left = <<>> THEN "AVAILABLE" ELSE task[t].status,
             on |-> FALSE, payload |-> "none", rest |-> <<>>]
    BY DEF Idle
  <2>2. task[t].status \in Status /\ "AVAILABLE" \in Status /\ "none" \in Payload
    BY <1>2 DEF Task, Status, Payload
  <2> HIDE DEF n
  <2> QED
    BY <1>2, <2>1, <2>2 DEF Task
<1>4. ~Waits(t)
  BY <1>1 DEF WaitingOK, Waits
<1> HIDE DEF n
<1>5. Rests(t, n)
  BY <1>1, <1>3, <1>4 DEF Rests
<1>6. /\ task' \in [Tasks -> Task] /\ task'[t] = n /\ \A u \in Tasks \ {t} : task'[u] = task[u]
      /\ WaitingOK' /\ RoomsOK' /\ InOrder'
  BY <1>5, RestKeeps
<1>7. StateOK'
  BY <1>1, <1>6 DEF StateOK
<1>8. \A u \in Tasks : Ahead(u)' = Ahead(u)
  BY <1>1, <1>3, <1>6 DEF Ahead
<1>9. AheadTrue'
  <2> SUFFICES ASSUME NEW u \in Tasks, NEW s \in Seats \ astray, Contains(Ahead(u), s)
               PROVE  task'[u].status = seat[s]
    BY <1>1, <1>8 DEF AheadTrue
  <2>1. CASE u = t
    <3>1. left # <<>>
      BY <1>1, <2>1, EmptySequence DEF Ahead
    <3> QED
      BY <1>3, <1>6, <2>1, <3>1 DEF AheadTrue
  <2>2. CASE u # t
    BY <1>6, <2>2 DEF AheadTrue
  <2> QED
    BY <2>1, <2>2
<1>10. AllSettled'
  <2> SUFFICES ASSUME NEW p \in Topics \ astray PROVE Settled(p)'
    BY <1>1 DEF AllSettled
  <2>1. Settled(p) /\ Truth(p)' = Truth(p)
    BY <1>1, SameTruth DEF AllSettled
  <2>2. Coming(p) => Coming(p)'
    BY <1>8 DEF Coming
  <2>3. /\ \A v \in Tasks \ {t} : Leads(v, p) => Leads(v, p)'
        /\ Quiet(p) => Quiet(p)'
    BY <1>5, <2>1, RestSettles
  <2>4. ASSUME Leads(t, p) PROVE Quiet(p)
    <3>1. \A x : ~Contains(task[t].rest, x)
      BY <1>1, EmptySequence
    <3> QED
      BY <2>4, <3>1 DEF Leads, Behind, Quiet
  <2> QED
    BY <2>1, <2>2, <2>3, <2>4 DEF Settled
<1> QED
  BY <1>6, <1>7, <1>9, <1>10

LEMMA FailsKeeps ==
  ASSUME FeedInv, NEW t \in Tasks, Fails(t)
  PROVE  FeedInv'
<1> USE DEF FeedInv
<1>1. /\ current = t /\ ~task[t].on
      /\ task' = [task EXCEPT ![t] = Idle] /\ current' = "none"
      /\ astray' = astray \cup ToSet(task[t].todo)
      /\ UNCHANGED <<seat, due, room, open, line, view>>
  BY DEF Fails
<1>2. Idle \in Task /\ ~Idle.on /\ Idle.rest = <<>> /\ Idle.todo = <<>>
  BY DEF Idle, Task, Status, Payload
<1>3. ~Waits(t)
  BY <1>1 DEF WaitingOK, Waits
<1>4. Rests(t, Idle)
  BY <1>1, <1>2, <1>3 DEF Rests
<1>5. /\ task' \in [Tasks -> Task] /\ task'[t] = Idle /\ \A u \in Tasks \ {t} : task'[u] = task[u]
      /\ WaitingOK' /\ RoomsOK' /\ InOrder'
  BY <1>4, RestKeeps
<1>6. task[t].todo \in Seq(Topics)
  BY DEF StateOK, Task
<1>7. ToSet(task[t].todo) \subseteq Topics /\ \A p : Contains(task[t].todo, p) => p \in ToSet(task[t].todo)
  BY <1>6 DEF ToSet, Contains
<1>8. StateOK'
  BY <1>1, <1>5, <1>7 DEF StateOK
<1>9. /\ \A u \in Tasks \ {t} : Ahead(u)' = Ahead(u)
      /\ \A p : ~Contains(Ahead(t)', p)
  BY <1>2, <1>5, EmptySequence DEF Ahead
<1>10. AheadTrue'
  BY <1>1, <1>5, <1>9 DEF AheadTrue
<1>11. AllSettled'
  <2> SUFFICES ASSUME NEW p \in Topics \ astray' PROVE Settled(p)'
    BY DEF AllSettled
  <2>1. p \notin astray /\ ~Contains(Ahead(t), p)
    BY <1>1, <1>7 DEF Ahead
  <2>2. Settled(p) /\ Truth(p)' = Truth(p)
    BY <1>1, <2>1, SameTruth DEF AllSettled
  <2>3. Coming(p) => Coming(p)'
    BY <1>9, <2>1 DEF Coming
  <2>4. /\ \A v \in Tasks \ {t} : Leads(v, p) => Leads(v, p)'
        /\ Quiet(p) => Quiet(p)'
    BY <1>4, <2>2, RestSettles
  <2>5. ~Leads(t, p)
    BY <1>1 DEF Leads, On
  <2> QED
    BY <2>2, <2>3, <2>4, <2>5 DEF Settled
<1> QED
  BY <1>5, <1>8, <1>10, <1>11

LEMMA NewRecord ==
  ASSUME NEW script, NEW status, NEW n, n = [Idle EXCEPT !.todo = script, !.status = status]
  PROVE  n = [todo |-> script, status |-> status, on |-> FALSE, payload |-> "none", rest |-> <<>>]
BY DEF Idle

LEMMA NewTodo ==
  ASSUME NEW script, NEW n, n = [Idle EXCEPT !.todo = script]
  PROVE  n = [todo |-> script, status |-> "AVAILABLE", on |-> FALSE, payload |-> "none", rest |-> <<>>]
BY DEF Idle

\* t changes the seats S to status and frees the seats R without a word.
Changes(t, S, R, status, script) ==
  /\ current = "none" /\ ~Busy(t) /\ S \subseteq Seats /\ R \subseteq Seats
  /\ seat' = [s \in Seats |-> IF s \in S THEN status
                              ELSE IF s \in R THEN "AVAILABLE" ELSE seat[s]]
  /\ due' \subseteq {s \in Seats : seat'[s] = "LOCKED"}
  /\ task' = [task EXCEPT ![t] = [Idle EXCEPT !.todo = script, !.status = status]]
  /\ current' = t
  /\ astray' = (astray \ S) \cup (R \ S) \cup {s \in S : Overtakes(t, s)}
  /\ UNCHANGED <<room, open, line, view>>

LEMMA ChangesKeep ==
  ASSUME FeedInv, NEW t \in Tasks, NEW S, NEW R, NEW status \in Status, NEW script \in Seq(Topics),
         \A p : Contains(script, p) <=> p \in S \cup {"board"},
         Changes(t, S, R, status, script)
  PROVE  FeedInv'
<1> USE DEF FeedInv
<1> DEFINE n == [Idle EXCEPT !.todo = script, !.status = status]
<1>1. n = [todo |-> script, status |-> status, on |-> FALSE, payload |-> "none", rest |-> <<>>]
  BY NewRecord
<1>2. /\ n \in Task /\ ~n.on /\ n.rest = <<>> /\ n.todo = script /\ n.status = status
      /\ task' = [task EXCEPT ![t] = n]
  <2>1. task' = [task EXCEPT ![t] = n] /\ "none" \in Payload
    BY DEF Changes, Payload
  <2> HIDE DEF n
  <2> QED
    BY <1>1, <2>1 DEF Task
<1> HIDE DEF n
<1>3. task[t].todo = <<>> /\ ~task[t].on /\ ~Waits(t)
  BY DEF Changes, Busy, WaitingOK, Waits
<1>4. Rests(t, n)
  BY <1>2, <1>3 DEF Changes, Rests
<1>5. /\ task' \in [Tasks -> Task] /\ task'[t] = n /\ \A u \in Tasks \ {t} : task'[u] = task[u]
      /\ WaitingOK' /\ RoomsOK' /\ InOrder'
  BY <1>4, RestKeeps
<1>6. /\ S \subseteq Seats /\ R \subseteq Seats
      /\ seat' \in [Seats -> Status]
      /\ \A s \in S : seat'[s] = status
      /\ \A s \in Seats : s \notin S /\ s \notin R => seat'[s] = seat[s]
  BY DEF Changes, StateOK, Status
<1>7. StateOK'
  <2>1. astray' \subseteq Topics /\ due' \subseteq {s \in Seats : seat'[s] = "LOCKED"}
    BY DEF Changes, StateOK, Topics
  <2>2. UNCHANGED <<room, open, line, view>> /\ current' \in Tasks \cup {"none"}
    BY DEF Changes
  <2> QED
    BY <1>5, <1>6, <2>1, <2>2 DEF StateOK
<1>8. /\ Ahead(t)' = script /\ Ahead(t) = <<>>
      /\ \A u \in Tasks \ {t} : Ahead(u)' = Ahead(u)
  BY <1>2, <1>3, <1>5 DEF Ahead
<1>9. ASSUME NEW s \in Seats, s \notin astray', s \notin S
      PROVE  s \notin astray /\ seat'[s] = seat[s]
  BY <1>6, <1>9 DEF Changes
<1>10. ASSUME NEW s \in S, s \notin astray', NEW u \in Tasks \ {t}
       PROVE  ~Contains(Ahead(u), s)
  BY <1>10 DEF Changes, Overtakes
<1>11. AheadTrue'
  <2> SUFFICES ASSUME NEW u \in Tasks, NEW s \in Seats, s \notin astray', Contains(Ahead(u)', s)
               PROVE  task'[u].status = seat'[s]
    BY DEF AheadTrue
  <2>1. "board" \notin Seats
    BY FeedAssumption
  <2>2. CASE u = t
    BY <1>2, <1>5, <1>6, <1>8, <2>1, <2>2
  <2>3. CASE u # t
    BY <1>5, <1>8, <1>9, <1>10, <2>3 DEF AheadTrue
  <2> QED
    BY <2>2, <2>3
<1>12. AllSettled'
  <2> SUFFICES ASSUME NEW p \in Topics, p \notin astray' PROVE Settled(p)'
    BY DEF AllSettled
  <2>1. CASE p \in S \cup {"board"}
    BY <1>8, <2>1 DEF Settled, Coming
  <2>2. CASE p \notin S \cup {"board"}
    <3>1. p \in Seats /\ p # "board"
      BY <2>2 DEF Topics
    <3>2. p \notin astray /\ Truth(p)' = Truth(p)
      BY <1>9, <2>2, <3>1 DEF Truth
    <3>3. Settled(p)
      BY <3>2 DEF AllSettled
    <3>4. Coming(p) => Coming(p)'
      BY <1>8, EmptySequence DEF Coming
    <3>5. /\ \A v \in Tasks \ {t} : Leads(v, p) => Leads(v, p)'
          /\ Quiet(p) => Quiet(p)'
      BY <1>4, <3>2, RestSettles
    <3>6. ~Leads(t, p)
      BY <1>3 DEF Leads, On
    <3> QED
      BY <3>3, <3>4, <3>5, <3>6 DEF Settled
  <2> QED
    BY <2>1, <2>2
<1> QED
  BY <1>5, <1>7, <1>11, <1>12

LEMMA CommitChanges ==
  ASSUME StateOK, NEW t \in Tasks, NEW S \in SUBSET Seats, NEW status, NEW script,
         Commit(t, S, status, script)
  PROVE  Changes(t, S, due, status, script)
BY DEF Commit, Changes, StateOK

LEMMA ReleaseChanges ==
  ASSUME StateOK, NEW t \in Tasks, NEW s \in Seats, Release(t, s)
  PROVE  Changes(t, {s}, {}, "AVAILABLE", <<s, "board">>)
<1>1. seat' = [x \in Seats |-> IF x \in {s} THEN "AVAILABLE"
                               ELSE IF x \in {} THEN "AVAILABLE" ELSE seat[x]]
  BY DEF Release, StateOK
<1>2. due' \subseteq {x \in Seats : seat'[x] = "LOCKED"}
  BY DEF Release, StateOK
<1>3. task' = [task EXCEPT ![t] = [Idle EXCEPT !.todo = <<s, "board">>, !.status = "AVAILABLE"]]
  <2> DEFINE m == [Idle EXCEPT !.todo = <<s, "board">>]
             n == [Idle EXCEPT !.todo = <<s, "board">>, !.status = "AVAILABLE"]
             e == [todo |-> <<s, "board">>, status |-> "AVAILABLE", on |-> FALSE,
                   payload |-> "none", rest |-> <<>>]
  <2>1. m = n
    <3>1. m = e
      <4> HIDE DEF m
      <4> QED
        BY NewTodo DEF m
    <3>2. n = e
      <4> HIDE DEF n
      <4> QED
        BY NewRecord DEF n
    <3> HIDE DEF m, n, e
    <3> QED
      BY <3>1, <3>2
  <2>2. task' = [task EXCEPT ![t] = m]
    BY DEF Release
  <2> HIDE DEF m
  <2> QED
    BY <2>1, <2>2
<1>4. astray' = (astray \ {s}) \cup ({} \ {s}) \cup {x \in {s} : Overtakes(t, x)}
  BY DEF Release
<1> QED
  BY <1>1, <1>2, <1>3, <1>4 DEF Release, Changes

LEMMA PairScript ==
  ASSUME NEW s \in Seats
  PROVE  /\ <<s, "board">> \in Seq(Topics)
         /\ \A p : Contains(<<s, "board">>, p) <=> p \in {s} \cup {"board"}
BY DEF Contains, Topics

LEMMA HoldKeeps ==
  ASSUME FeedInv, NEW t \in Tasks, NEW s \in Seats, Hold(t, s) \/ Release(t, s)
  PROVE  FeedInv'
<1>1. {s} \in SUBSET Seats /\ "LOCKED" \in Status /\ "AVAILABLE" \in Status
  BY DEF Status
<1>2. CASE Hold(t, s)
  <2>1. Changes(t, {s}, due, "LOCKED", <<s, "board">>)
    BY <1>1, <1>2, CommitChanges DEF Hold, FeedInv
  <2> QED
    BY <1>1, <2>1, PairScript, ChangesKeep
<1>3. CASE Release(t, s)
  <2>1. Changes(t, {s}, {}, "AVAILABLE", <<s, "board">>)
    BY <1>3, ReleaseChanges DEF FeedInv
  <2> QED
    BY <1>1, <2>1, PairScript, ChangesKeep
<1> QED
  BY <1>2, <1>3

\* An order of finitely many seats has each of them.
LEMMA OrderElements ==
  ASSUME NEW S \in SUBSET Seats, NEW order \in SetToSeqs(S)
  PROVE  order \in Seq(S) /\ \A p : Contains(order, p) <=> p \in S
<1> DEFINE k == Cardinality(S)
<1>1. IsFiniteSet(S) /\ k \in Nat
  BY FeedAssumption, FS_Subset, FS_CardinalityType
<1>2. order \in [1..k -> S] /\ \A i, j \in 1..k : i # j => order[i] # order[j]
  BY DEF SetToSeqs
<1>3. order \in Injection(1..k, S)
  BY <1>2 DEF Injection, IsInjective
<1>4. IsFiniteSet(1..k) /\ Cardinality(1..k) = k
  BY <1>1, FS_Interval
<1>5. order \in Surjection(1..k, S)
  BY <1>1, <1>3, <1>4, FS_Injection
<1>6. \A p \in S : \E i \in 1..k : order[i] = p
  BY <1>5 DEF Surjection
<1> HIDE DEF k
<1>7. order \in Seq(S) /\ Len(order) = k
  BY <1>1, <1>2
<1> QED
  BY <1>2, <1>6, <1>7 DEF Contains

LEMMA ExpireKeeps ==
  ASSUME FeedInv, Expire
  PROVE  FeedInv'
<1>1. PICK order \in SetToSeqs(due) : Commit(Worker, due, "AVAILABLE", Append(order, "board"))
  BY DEF Expire
<1>2. due \in SUBSET Seats /\ Worker \in Tasks /\ "AVAILABLE" \in Status
  BY DEF FeedInv, StateOK, Tasks, Status
<1>3. order \in Seq(due) /\ \A p : Contains(order, p) <=> p \in due
  BY <1>2, OrderElements
<1>4. order \in Seq(Topics) /\ "board" \in Topics
  BY <1>2, <1>3 DEF Topics
<1>5. /\ Append(order, "board") \in Seq(Topics)
      /\ \A p : Contains(Append(order, "board"), p) <=> p \in due \cup {"board"}
  BY <1>3, <1>4, AppendContains
<1>6. Changes(Worker, due, due, "AVAILABLE", Append(order, "board"))
  BY <1>1, <1>2, CommitChanges DEF FeedInv
<1> QED
  BY <1>2, <1>5, <1>6, ChangesKeep

LEMMA CheckoutKeeps ==
  ASSUME FeedInv, NEW t \in Tasks, NEW S \in SUBSET Seats, Checkout(t, S)
  PROVE  FeedInv'
<1>1. PICK order \in SetToSeqs(S) :
        Commit(t, S, "SOLD", [i \in 1..2 * Len(order) |->
                                IF i % 2 = 1 THEN order[(i + 1) \div 2] ELSE "board"])
  BY DEF Checkout
<1> DEFINE script == [i \in 1..2 * Len(order) |-> IF i % 2 = 1 THEN order[(i + 1) \div 2] ELSE "board"]
<1>2. order \in Seq(S) /\ Len(order) \in Nat /\ (\A p : Contains(order, p) <=> p \in S) /\ S # {}
  BY OrderElements DEF Checkout
<1>3. ASSUME NEW k \in 1..Len(order)
      PROVE  /\ 2 * k - 1 \in 1..2 * Len(order) /\ (2 * k - 1) % 2 = 1 /\ ((2 * k - 1) + 1) \div 2 = k
             /\ 2 * k \in 1..2 * Len(order) /\ (2 * k) % 2 # 1
  BY <1>2
<1>4. ASSUME NEW i \in 1..2 * Len(order), i % 2 = 1
      PROVE  (i + 1) \div 2 \in 1..Len(order)
  BY <1>2, <1>4
<1>5. script \in Seq(Topics) /\ Len(script) = 2 * Len(order)
  <2>1. \A i \in 1..2 * Len(order) : script[i] \in Topics
    BY <1>2, <1>4 DEF Topics
  <2>2. 2 * Len(order) \in Nat
    BY <1>2
  <2> HIDE DEF script
  <2>3. script \in [1..2 * Len(order) -> Topics]
    BY <2>1 DEF script
  <2> QED
    BY <2>2, <2>3
<1>6. ASSUME NEW p PROVE Contains(script, p) <=> p \in S \cup {"board"}
  <2>1. ASSUME Contains(script, p) PROVE p \in S \cup {"board"}
    <3>1. PICK i \in 1..2 * Len(order) : script[i] = p
      BY <1>5, <2>1 DEF Contains
    <3>2. CASE i % 2 = 1
      BY <1>2, <1>4, <3>1, <3>2 DEF Contains
    <3>3. CASE i % 2 # 1
      BY <3>1, <3>3
    <3> QED
      BY <3>2, <3>3
  <2>2. ASSUME p \in S PROVE Contains(script, p)
    <3>1. PICK k \in 1..Len(order) : order[k] = p
      BY <1>2, <2>2 DEF Contains
    <3>2. script[2 * k - 1] = p /\ 2 * k - 1 \in 1..2 * Len(order)
      BY <1>3, <3>1
    <3> HIDE DEF script
    <3> QED
      BY <1>5, <3>2 DEF Contains
  <2>3. Contains(script, "board")
    <3>1. PICK k \in 1..Len(order) : TRUE
      BY <1>2 DEF Contains
    <3>2. script[2 * k] = "board" /\ 2 * k \in 1..2 * Len(order)
      BY <1>3, <3>1
    <3> HIDE DEF script
    <3> QED
      BY <1>5, <3>2 DEF Contains
  <2> QED
    BY <2>1, <2>2, <2>3
<1>7. Commit(t, S, "SOLD", script) /\ "SOLD" \in Status
  BY <1>1 DEF Status
<1> HIDE DEF script
<1>8. Changes(t, S, due, "SOLD", script)
  BY <1>7, CommitChanges DEF FeedInv
<1> QED
  BY <1>5, <1>6, <1>7, <1>8, ChangesKeep

LEMMA ChangedRecord ==
  ASSUME NEW a \in Task, NEW payload, NEW rest, NEW n,
         n = [a EXCEPT !.on = TRUE, !.rest = rest, !.payload = payload]
  PROVE  n = [todo |-> a.todo, status |-> a.status, on |-> TRUE, payload |-> payload, rest |-> rest]
BY DEF Task

LEMMA ToldRecord ==
  ASSUME NEW a \in Task, NEW rest, NEW n, n = [a EXCEPT !.rest = rest]
  PROVE  n = [todo |-> a.todo, status |-> a.status, on |-> a.on, payload |-> a.payload, rest |-> rest]
BY DEF Task

LEMMA DashboardPayload == Dashboard \in Payload /\ Status \subseteq Payload
<1>1. ASSUME NEW S \in SUBSET Seats PROVE Cardinality(S) \in Nat
  BY FeedAssumption, FS_Subset, FS_CardinalityType
<1>2. Capacity \in Nat /\ Count("SOLD") \in Nat /\ Count("LOCKED") \in Nat
  <2>1. {s \in Seats : seat[s] = "SOLD"} \in SUBSET Seats /\ {s \in Seats : seat[s] = "LOCKED"} \in SUBSET Seats
        /\ Seats \in SUBSET Seats
    OBVIOUS
  <2> QED
    BY <1>1, <2>1 DEF Capacity, Count
<1>3. Capacity - Count("SOLD") - Count("LOCKED") \in Int
  BY <1>2
<1>4. Dashboard \in [sold : Nat, locked : Nat, available : Int]
  BY <1>2, <1>3 DEF Dashboard
<1> QED
  BY <1>4 DEF Payload

\* t, which waits nowhere, broadcasts after the step; n is its record then.  Lines
\* at most get t as their last.
Speaks(t, n) ==
  /\ n \in Task /\ n.on /\ n.todo = task[t].todo /\ n.status = task[t].status
  /\ task' = [task EXCEPT ![t] = n]
  /\ Busy(t) /\ current = t /\ UNCHANGED <<seat, due, open>>
  /\ line' \in [Sockets -> Seq(Tasks)]
  /\ \A d \in Sockets, u \in Tasks \ {t} :
       /\ Contains(line'[d], u) <=> Contains(line[d], u)
       /\ \A v \in Tasks : Before(u, v, line[d]) => Before(u, v, line'[d])

LEMMA SpeaksTask ==
  ASSUME StateOK, WaitingOK, NEW t \in Tasks, NEW n, Speaks(t, n)
  PROVE  /\ task' \in [Tasks -> Task] /\ task'[t] = n /\ \A u \in Tasks \ {t} : task'[u] = task[u]
         /\ \A u \in Tasks : Topic(u)' = Topic(u) /\ Busy(u)' = Busy(u)
         /\ \A d \in Sockets : ~Contains(line[d], t)
<1>1. task' \in [Tasks -> Task] /\ task'[t] = n /\ \A u \in Tasks \ {t} : task'[u] = task[u]
  BY DEF Speaks, StateOK
<1>2. \A u \in Tasks : task'[u].todo = task[u].todo
  BY <1>1 DEF Speaks
<1>3. \A u \in Tasks : Topic(u)' = Topic(u) /\ Busy(u)' = Busy(u)
  BY <1>2 DEF Topic, Busy
<1>4. \A d \in Sockets : ~Contains(line[d], t)
  BY DEF Speaks, WaitingOK
<1> QED
  BY <1>1, <1>3, <1>4

\* It says nothing of the other topics.
LEMMA ElsewhereSettles ==
  ASSUME StateOK, WaitingOK, NEW t \in Tasks, NEW n, Speaks(t, n),
         NEW p, p # Topic(t),
         \A c \in open : p \in TopicsOf(c) => view'[c][p] = view[c][p],
         Settled(p)
  PROVE  Settled(p)'
<1>1. /\ task' \in [Tasks -> Task] /\ task'[t] = n /\ \A u \in Tasks \ {t} : task'[u] = task[u]
      /\ \A u \in Tasks : Topic(u)' = Topic(u) /\ Busy(u)' = Busy(u)
      /\ Truth(p)' = Truth(p) /\ open' = open
  BY SpeaksTask, SameTruth DEF Speaks
<1>2. \A u \in Tasks : On(u, p)' <=> (On(u, p) /\ u # t)
  BY <1>1 DEF On
<1>3. ASSUME Coming(p) PROVE Coming(p)'
  <2>1. PICK u \in Tasks : Contains(Ahead(u), p)
    BY <1>3 DEF Coming
  <2>2. CASE u # t
    BY <1>1, <2>1, <2>2 DEF Coming, Ahead
  <2>3. CASE u = t
    <3>1. task[t].todo \in Seq(Topics) /\ task[t].todo # <<>> /\ n.on /\ n.todo = task[t].todo
      BY DEF Speaks, Busy, StateOK, Task
    <3>2. Contains(Tail(task[t].todo), p)
      BY <2>1, <2>3, <3>1, TailContains DEF Ahead, Topic
    <3> QED
      BY <1>1, <3>1, <3>2 DEF Coming, Ahead
  <2> QED
    BY <2>2, <2>3
<1>4. ASSUME NEW v \in Tasks, Leads(v, p) PROVE Leads(v, p)'
  <2>1. v # t /\ On(v, p)' /\ task'[v] = task[v]
    BY <1>1, <1>2, <1>4 DEF Leads, On
  <2>2. ASSUME NEW u \in Tasks \ {v}, On(u, p)' PROVE Behind(u, v)'
    <3>1. u # t /\ Behind(u, v) /\ task'[u] = task[u]
      BY <1>1, <1>2, <1>4, <2>2 DEF Leads
    <3> QED
      BY <1>1, <2>1, <3>1 DEF Behind, Speaks
  <2> QED
    BY <1>1, <1>4, <2>1, <2>2 DEF Leads
<1>5. Quiet(p) => Quiet(p)'
  BY <1>1, <1>2 DEF Quiet
<1> QED
  BY <1>3, <1>4, <1>5 DEF Settled

\* What is still to begin is less after the step.
LEMMA SpeaksAhead ==
  ASSUME StateOK, WaitingOK, AheadTrue, NEW t \in Tasks, NEW n, Speaks(t, n),
         Seats \ astray' \subseteq Seats \ astray
  PROVE  AheadTrue'
<1>1. /\ task'[t] = n /\ \A u \in Tasks \ {t} : task'[u] = task[u]
      /\ UNCHANGED seat /\ n.on /\ n.todo = task[t].todo /\ n.status = task[t].status
  BY SpeaksTask DEF Speaks
<1>2. task[t].todo \in Seq(Topics) /\ task[t].todo # <<>>
  BY DEF Speaks, Busy, StateOK, Task
<1> SUFFICES ASSUME NEW u \in Tasks, NEW s \in Seats \ astray, Contains(Ahead(u)', s)
             PROVE  task'[u].status = seat[s]
  BY <1>1 DEF AheadTrue
<1>3. CASE u = t
  <2>1. Contains(Tail(task[t].todo), s)
    BY <1>1, <1>3 DEF Ahead
  <2>2. Contains(task[t].todo, s)
    BY <1>2, <2>1, TailContains
  <2>3. Contains(Ahead(t), s)
    BY <2>1, <2>2 DEF Ahead
  <2> QED
    BY <1>1, <1>3, <2>3 DEF AheadTrue
<1>4. CASE u # t
  BY <1>1, <1>4 DEF AheadTrue, Ahead
<1> QED
  BY <1>3, <1>4

LEMMA BeginKeeps ==
  ASSUME FeedInv, NEW t \in Tasks, Begin(t)
  PROVE  FeedInv'
<1> USE DEF FeedInv
<1>0. PICK topic : topic = Topic(t)
  OBVIOUS
<1> DEFINE q     == room[RoomOf(topic)]
           gone  == {c \in Sockets : ~Contains(q, c)}
           says  == IF topic = "board" THEN Dashboard ELSE task[t].status
           n     == [task[t] EXCEPT !.on = TRUE, !.rest = q, !.payload = says]
<1>1. /\ current = t /\ Busy(t) /\ ~task[t].on /\ task' = [task EXCEPT ![t] = n]
      /\ UNCHANGED <<seat, due, current, room, open, line, view>>
      /\ astray' = (IF topic = "board" THEN astray \ {"board"} ELSE astray)
                     \cup (IF Passes(t, gone) THEN {topic} ELSE {})
  BY <1>0 DEF Begin
<1>2. task[t] \in Task /\ task[t].todo \in Seq(Topics) /\ topic \in Topics
  <2>1. task[t] \in Task /\ task[t].todo \in Seq(Topics)
    BY DEF StateOK, Task
  <2> QED
    BY <1>1, <2>1, TailElements, <1>0 DEF Busy, Topic
<1>3. RoomOf(topic) \in {"seats", "admin"} /\ q \in Seq(Sockets) /\ Distinct(q)
  BY DEF RoomOf, StateOK, RoomsOK
<1>4. says \in Payload
  BY <1>2, DashboardPayload DEF Task
<1>5. /\ n \in Task /\ n.on /\ n.todo = task[t].todo /\ n.status = task[t].status
      /\ n.rest = q /\ n.payload = says
  <2> HIDE DEF says, q, n
  <2>1. n = [todo |-> task[t].todo, status |-> task[t].status, on |-> TRUE, payload |-> says, rest |-> q]
    BY <1>2, ChangedRecord DEF n
  <2> QED
    BY <1>2, <1>3, <1>4, <2>1 DEF Task
<1> HIDE DEF n
<1>6. Speaks(t, n)
  BY <1>1, <1>5 DEF Speaks, StateOK
<1>7. /\ task' \in [Tasks -> Task] /\ task'[t] = n /\ \A u \in Tasks \ {t} : task'[u] = task[u]
      /\ \A u \in Tasks : Topic(u)' = Topic(u) /\ Busy(u)' = Busy(u)
      /\ \A d \in Sockets : ~Contains(line[d], t)
  BY <1>6, SpeaksTask
<1>8. StateOK'
  BY <1>1, <1>2, <1>7 DEF StateOK
<1>9. WaitingOK'
  <2>1. \A u \in Tasks : /\ task'[u].on => Busy(u)'
                         /\ task'[u].rest # <<>> => task'[u].on
                         /\ task'[u].on /\ current' # u => Waits(u)'
    BY <1>1, <1>5, <1>7 DEF WaitingOK, Waits
  <2>2. \A d \in Sockets, u \in Tasks : Contains(line[d], u) =>
          /\ task'[u].on /\ current # u /\ Home(d) = RoomOf(Topic(u)')
          /\ \A e \in Sockets : Contains(line[e], u) => e = d
    BY <1>7 DEF WaitingOK
  <2> QED
    BY <1>1, <2>1, <2>2 DEF WaitingOK
<1>10. RoomsOK'
  <2>1. ASSUME NEW u \in Tasks
        PROVE  /\ Distinct(task'[u].rest)
               /\ \A c \in Sockets : Contains(task'[u].rest, c) => Home(c) = RoomOf(Topic(u)')
    <3>1. CASE u = t
      BY <1>0, <1>3, <1>5, <1>7, <3>1 DEF RoomsOK
    <3>2. CASE u # t
      BY <1>7, <3>2 DEF RoomsOK
    <3> QED
      BY <3>1, <3>2
  <2> QED
    BY <1>1, <2>1 DEF RoomsOK
<1>11. InOrder'
  <2> SUFFICES ASSUME NEW u \in Tasks, NEW x \in Sockets, NEW y \in Sockets, task'[u].on,
                      Contains(room[RoomOf(Topic(u))], x), Contains(room[RoomOf(Topic(u))], y),
                      Route(u, x, y)'
               PROVE  Before(x, y, room[RoomOf(Topic(u))])
    BY <1>1, <1>7 DEF InOrder
  <2>1. CASE u = t
    BY <1>0, <1>1, <1>5, <1>7, <2>1 DEF Route
  <2>2. CASE u # t
    BY <1>1, <1>7, <2>2 DEF Route, InOrder
  <2> QED
    BY <2>1, <2>2
<1>12. \A p \in Topics : p \notin astray' => p = topic \/ p \notin astray
  BY <1>1
<1>13. AheadTrue'
  <2>1. ASSUME NEW s \in Seats, s \notin astray' PROVE s \notin astray
    BY <1>1, <2>1, FeedAssumption
  <2> QED
    BY <1>6, <2>1, SpeaksAhead
<1>14. ASSUME topic \notin astray' PROVE Leads(t, topic)'
  <2>1. ~Passes(t, gone)
    BY <1>1, <1>14
  <2>2. Truth(topic)' = Truth(topic) /\ UNCHANGED <<open, line, view>>
    BY <1>1, SameTruth
  <2>3. says = Truth(topic)
    <3>1. CASE topic = "board"
      BY <3>1 DEF Truth
    <3>2. CASE topic # "board"
      <4>1. topic \in Seats \ astray
        BY <1>1, <1>2, <1>14, <3>2 DEF Topics
      <4>2. Contains(Ahead(t), topic)
        BY <1>0, <1>1, <1>2, TailContains DEF Ahead, Topic, Busy
      <4> QED
        BY <3>2, <4>1, <4>2 DEF AheadTrue, Truth
    <3> QED
      BY <3>1, <3>2
  <2>4. ASSUME NEW u \in Tasks \ {t}, On(u, topic)' PROVE Behind(u, t)'
    <3>1. task'[u] = task[u] /\ task[u].on /\ Topic(u) = topic /\ Busy(u) /\ task'[t].rest = q
      BY <1>5, <1>7, <2>4 DEF On, WaitingOK
    <3> SUFFICES ASSUME NEW x \in open, Contains(task[u].rest, x)
                 PROVE  /\ Contains(q, x)
                        /\ \A c \in Sockets : Contains(line[c], u) => Before(c, x, q)
      BY <1>1, <3>1 DEF Behind
    <3>2. x \in Sockets /\ Home(x) = RoomOf(topic)
      BY <3>1 DEF RoomsOK, StateOK
    <3>3. Contains(q, x)
      BY <3>2 DEF RoomsOK
    <3>4. ASSUME NEW c \in Sockets, Contains(line[c], u) PROVE Before(c, x, q)
      <4>1. Contains(q, c)
        BY <1>0, <2>1, <3>1, <3>4 DEF Passes
      <4>2. Route(u, c, x)
        BY <3>4 DEF Route
      <4> QED
        BY <3>1, <3>2, <3>3, <4>1, <4>2 DEF InOrder
    <3> QED
      BY <3>3, <3>4
  <2>5. ASSUME NEW c \in open, topic \in TopicsOf(c) PROVE Contains(q, c)
    <3>1. Home(c) = RoomOf(topic)
      BY <2>5, FeedAssumption DEF TopicsOf, Home, RoomOf
    <3> QED
      BY <3>1 DEF RoomsOK
  <2>6. On(t, topic)' /\ task'[t].payload = Truth(topic)' /\ task'[t].rest = q
    BY <1>0, <1>5, <1>7, <2>2, <2>3 DEF On
  <2> QED
    BY <2>2, <2>4, <2>5, <2>6 DEF Leads
<1>15. AllSettled'
  <2> SUFFICES ASSUME NEW p \in Topics, p \notin astray' PROVE Settled(p)'
    BY DEF AllSettled
  <2>1. CASE p = topic
    BY <1>14, <2>1 DEF Settled
  <2>2. CASE p # topic
    <3>1. Settled(p)
      BY <1>12, <2>2 DEF AllSettled
    <3> QED
      BY <1>0, <1>1, <1>6, <2>2, <3>1, ElsewhereSettles
  <2> QED
    BY <2>1, <2>2
<1> QED
  BY <1>8, <1>9, <1>10, <1>11, <1>13, <1>15

\* A broadcast goes past c, the first of those it has to tell.
Tells(t, c, n) ==
  /\ task' = [task EXCEPT ![t] = n] /\ n.on /\ Busy(t)
  /\ n.todo = task[t].todo /\ n.status = task[t].status /\ n.payload = task[t].payload
  /\ Distinct(n.rest) /\ ~Contains(n.rest, c)
  /\ \A x : Contains(task[t].rest, x) <=> (x = c \/ Contains(n.rest, x))
  /\ \A x, y : /\ Before(x, y, n.rest) => Before(x, y, task[t].rest)
               /\ Before(x, y, task[t].rest) /\ x # c => Before(x, y, n.rest)
               /\ Contains(n.rest, y) => Before(c, y, task[t].rest)
               /\ Before(x, y, task[t].rest) => y # c

LEMMA TellNext ==
  ASSUME StateOK, WaitingOK, RoomsOK, NEW t \in Tasks, NEW c, c = Head(task[t].rest),
         current = t, task[t].rest # <<>>, task' = [task EXCEPT ![t].rest = Tail(@)]
  PROVE  c \in Sockets /\ \E n \in Task : Tells(t, c, n)
<1> DEFINE q == task[t].rest
           n == [task[t] EXCEPT !.rest = Tail(q)]
<1>1. /\ task[t] \in Task /\ q \in Seq(Sockets) /\ Distinct(q) /\ q # <<>>
      /\ task[t].on /\ Busy(t)
  BY DEF StateOK, Task, RoomsOK, WaitingOK
<1>2. task' = [task EXCEPT ![t] = n]
  OBVIOUS
<1>3. /\ Tail(q) \in Seq(Sockets) /\ Head(q) \in Sockets
      /\ Distinct(Tail(q)) /\ ~Contains(Tail(q), Head(q))
  BY <1>1, TailElements, TailDistinct
<1> HIDE DEF q
<1>4. n = [todo |-> task[t].todo, status |-> task[t].status, on |-> task[t].on,
           payload |-> task[t].payload, rest |-> Tail(q)]
  <2> HIDE DEF n
  <2> QED
    BY <1>1, ToldRecord DEF n
<1> HIDE DEF n
<1>5. /\ n \in Task /\ n.on /\ n.todo = task[t].todo /\ n.status = task[t].status
      /\ n.payload = task[t].payload /\ n.rest = Tail(q)
  BY <1>1, <1>3, <1>4 DEF Task
<1>6. \A x : Contains(q, x) <=> (x = Head(q) \/ Contains(n.rest, x))
  BY <1>1, <1>5, TailContains
<1>7. ASSUME NEW x, NEW y
      PROVE  /\ Before(x, y, n.rest) => Before(x, y, q)
             /\ Before(x, y, q) /\ x # Head(q) => Before(x, y, n.rest)
             /\ Contains(n.rest, y) => Before(Head(q), y, q)
  BY <1>1, <1>5, TailBefore
<1>8. ASSUME NEW x, NEW y, Before(x, y, q) PROVE y # Head(q)
  <2>1. x # y
    BY <1>1, <1>8, BeforeOrders
  <2>2. x # Head(q) => Contains(n.rest, y)
    BY <1>7, <1>8, BeforeContains
  <2> QED
    BY <1>3, <1>5, <2>1, <2>2
<1>9. Tells(t, c, n)
  BY <1>1, <1>2, <1>3, <1>5, <1>6, <1>7, <1>8 DEF q, Tells
<1> QED
  BY <1>3, <1>5, <1>9 DEF q

LEMMA SendFailsKeeps ==
  ASSUME FeedInv, NEW t \in Tasks, SendFails(t)
  PROVE  FeedInv'
<1> USE DEF FeedInv
<1>1. PICK c : c = Head(task[t].rest)
  OBVIOUS
<1>2. /\ current = t /\ task[t].rest # <<>> /\ c \notin open /\ Disconnect(c)
      /\ task' = [task EXCEPT ![t].rest = Tail(@)]
      /\ astray' = astray \cup (IF Passes(t, {c}) THEN {Topic(t)} ELSE {})
      /\ UNCHANGED <<seat, due, current, open, line, view>>
  BY <1>1 DEF SendFails, After
<1>3. c \in Sockets /\ \E n \in Task : Tells(t, c, n)
  BY <1>1, <1>2, TellNext
<1>4. PICK n \in Task : Tells(t, c, n)
  BY <1>3
<1> USE DEF Tells
<1>5. Shrinks
  BY <1>2, <1>3, <1>4, RoomShrinks
<1>6. Speaks(t, n)
  BY <1>2, <1>3, <1>4 DEF Speaks, StateOK
<1>7. /\ task' \in [Tasks -> Task] /\ task'[t] = n /\ \A u \in Tasks \ {t} : task'[u] = task[u]
      /\ \A u \in Tasks : Topic(u)' = Topic(u) /\ Busy(u)' = Busy(u)
      /\ \A d \in Sockets : ~Contains(line[d], t)
      /\ task[t].on
  BY <1>2, <1>6, SpeaksTask DEF WaitingOK
<1>8. StateOK'
  <2>1. Topic(t) \in Topics
    BY <1>3, <1>4, TailElements DEF StateOK, Task, Busy, Topic
  <2> QED
    BY <1>2, <1>5, <1>7, <2>1 DEF StateOK, Shrinks
<1>9. WaitingOK'
  <2>1. ASSUME NEW u \in Tasks
        PROVE  /\ task'[u].on => Busy(u)'
               /\ task'[u].rest # <<>> => task'[u].on
               /\ task'[u].on /\ current' # u => Waits(u)'
    BY <1>2, <1>3, <1>4, <1>7 DEF WaitingOK, Waits
  <2>2. ASSUME NEW d \in Sockets, NEW u \in Tasks, Contains(line[d], u)
        PROVE  /\ task'[u].on /\ current # u /\ Home(d) = RoomOf(Topic(u)')
               /\ \A e \in Sockets : Contains(line[e], u) => e = d
    BY <1>7, <2>2 DEF WaitingOK
  <2> QED
    BY <1>2, <2>1, <2>2 DEF WaitingOK
<1>10. RoomsOK'
  <2>1. ASSUME NEW u \in Tasks
        PROVE  /\ Distinct(task'[u].rest)
               /\ \A d \in Sockets : Contains(task'[u].rest, d) => Home(d) = RoomOf(Topic(u)')
    <3>1. CASE u = t
      BY <1>3, <1>4, <1>7, <3>1 DEF RoomsOK
    <3>2. CASE u # t
      BY <1>7, <3>2 DEF RoomsOK
    <3> QED
      BY <3>1, <3>2
  <2> QED
    BY <1>2, <1>5, <2>1, ShrunkRooms DEF RoomsOK
<1>11. InOrder'
  <2>1. \A u \in Tasks : task'[u].on => task[u].on /\ Topic(u)' = Topic(u)
    BY <1>7
  <2>2. ASSUME NEW u \in Tasks, NEW x \in Sockets, NEW y \in Sockets, Route(u, x, y)'
        PROVE  Route(u, x, y)
    BY <1>2, <1>3, <1>4, <1>7, <2>2 DEF Route
  <2> QED
    BY <1>5, <2>1, <2>2, ShrunkOrder
<1>12. AheadTrue'
  BY <1>2, <1>6, SpeaksAhead
<1>13. ASSUME NEW p, p = Topic(t), p \notin astray', Settled(p) PROVE Settled(p)'
  <2>1. ~Passes(t, {c})
    BY <1>2, <1>13
  <2>2. Truth(p)' = Truth(p)
    BY <1>2, SameTruth
  <2>3. \A u \in Tasks : On(u, p)' <=> On(u, p)
    BY <1>3, <1>4, <1>7 DEF On
  <2>4. Coming(p) => Coming(p)'
    BY <1>3, <1>4, <1>7 DEF Coming, Ahead
  <2>5. ASSUME Leads(t, p) PROVE Leads(t, p)'
    <3>1. ASSUME NEW u \in Tasks \ {t}, On(u, p)' PROVE Behind(u, t)'
      <4>1. task'[u] = task[u] /\ On(u, p) /\ Behind(u, t) /\ Busy(u)
        BY <1>7, <2>3, <2>5, <3>1 DEF Leads, On, WaitingOK
      <4> SUFFICES ASSUME NEW x \in open, Contains(task[u].rest, x)
                   PROVE  /\ Contains(n.rest, x)
                          /\ \A d \in Sockets : Contains(line[d], u) => Before(d, x, n.rest)
        BY <1>2, <1>7, <4>1 DEF Behind
      <4>2. Contains(n.rest, x)
        BY <1>2, <1>3, <1>4, <4>1 DEF Behind
      <4>3. ASSUME NEW d \in Sockets, Contains(line[d], u) PROVE Before(d, x, n.rest)
        <5>1. Before(d, x, task[t].rest)
          BY <1>7, <4>1, <4>3, BeforeContains DEF Behind
        <5>2. d # c
          BY <1>13, <2>1, <4>1, <4>3 DEF Passes, On
        <5> QED
          BY <1>3, <1>4, <5>1, <5>2
      <4> QED
        BY <4>2, <4>3
    <3>2. ASSUME NEW d \in open, p \in TopicsOf(d)
          PROVE  view[d][p] = Truth(p) \/ Contains(n.rest, d)
      BY <1>2, <1>3, <1>4, <2>5, <3>2 DEF Leads
    <3> QED
      BY <1>2, <1>3, <1>4, <1>7, <2>2, <2>3, <2>5, <3>1, <3>2 DEF Leads
  <2>6. ASSUME NEW v \in Tasks \ {t}, Leads(v, p) PROVE Leads(v, p)'
    <3>1. ASSUME NEW u \in Tasks \ {v}, On(u, p)' PROVE Behind(u, v)'
      <4>1. Behind(u, v) /\ task'[v] = task[v]
        BY <1>7, <2>3, <2>6, <3>1 DEF Leads
      <4>2. \A x \in open : Contains(task'[u].rest, x) => Contains(task[u].rest, x)
        BY <1>3, <1>4, <1>7
      <4> QED
        BY <1>2, <4>1, <4>2 DEF Behind
    <3> QED
      BY <1>2, <1>7, <2>2, <2>3, <2>6, <3>1 DEF Leads
  <2>7. ASSUME Quiet(p) PROVE Quiet(p)'
    <3>1. ASSUME NEW u \in Tasks, On(u, p)', NEW x \in open PROVE ~Contains(task'[u].rest, x)
      BY <1>3, <1>4, <1>7, <2>3, <2>7, <3>1 DEF Quiet
    <3> QED
      BY <1>2, <2>2, <2>7, <3>1 DEF Quiet
  <2> QED
    BY <1>13, <2>4, <2>5, <2>6, <2>7 DEF Settled
<1>14. AllSettled'
  <2> SUFFICES ASSUME NEW p \in Topics, p \notin astray' PROVE Settled(p)'
    BY DEF AllSettled
  <2>1. Settled(p)
    BY <1>2 DEF AllSettled
  <2>2. CASE p = Topic(t)
    BY <1>13, <2>1, <2>2
  <2>3. CASE p # Topic(t)
    BY <1>2, <1>6, <2>1, <2>3, ElsewhereSettles
  <2> QED
    BY <2>2, <2>3
<1> QED
  BY <1>8, <1>9, <1>10, <1>11, <1>12, <1>14

LEMMA SendKeeps ==
  ASSUME FeedInv, NEW t \in Tasks, Send(t)
  PROVE  FeedInv'
<1> USE DEF FeedInv
<1>1. PICK c : c = Head(task[t].rest)
  OBVIOUS
<1>2. /\ current = t /\ task[t].rest # <<>> /\ c \in open
      /\ task' = [task EXCEPT ![t].rest = Tail(@)]
      /\ view' = [view EXCEPT ![c][Topic(t)] = task[t].payload]
      /\ line' = [line EXCEPT ![c] = Append(@, t)] /\ current' = "none"
      /\ UNCHANGED <<seat, due, room, open, astray>>
  BY <1>1 DEF Send, After
<1>3. c \in Sockets /\ \E n \in Task : Tells(t, c, n)
  BY <1>1, <1>2, TellNext
<1>4. PICK n \in Task : Tells(t, c, n)
  BY <1>3
<1> USE DEF Tells
<1>5. /\ line[c] \in Seq(Tasks) /\ Distinct(line[c]) /\ \A d \in Sockets : ~Contains(line[d], t)
      /\ Home(c) = RoomOf(Topic(t)) /\ task[t].on
  BY <1>2, <1>3, <1>4 DEF StateOK, WaitingOK, RoomsOK
<1>6. line' \in [Sockets -> Seq(Tasks)] /\ line'[c] = Append(line[c], t)
      /\ \A d \in Sockets : d # c => line'[d] = line[d]
  BY <1>2, <1>3, <1>5 DEF StateOK
<1>7. /\ \A u : Contains(line'[c], u) <=> (u = t \/ Contains(line[c], u))
      /\ Distinct(line'[c])
  <2>1. \A u : Contains(Append(line[c], t), u) <=> (u = t \/ Contains(line[c], u))
    BY <1>5, AppendContains
  <2>2. Distinct(Append(line[c], t))
    BY <1>3, <1>5, AppendDistinct
  <2> QED
    BY <1>6, <2>1, <2>2
<1>8. \A d \in Sockets, u, v \in Tasks : Before(u, v, line[d]) => Before(u, v, line'[d])
  <2> SUFFICES ASSUME NEW d \in Sockets, NEW u \in Tasks, NEW v \in Tasks, Before(u, v, line[d])
               PROVE  Before(u, v, line'[d])
    OBVIOUS
  <2>1. d = c => Before(u, v, Append(line[c], t))
    BY <1>5, AppendBefore
  <2> QED
    BY <1>6, <2>1
<1>9. \A u \in Tasks : Contains(line[c], u) => Before(u, t, line'[c])
  BY <1>5, <1>6, AppendBefore
<1>10. \A d \in Sockets, u \in Tasks \ {t} : Contains(line'[d], u) <=> Contains(line[d], u)
  BY <1>6, <1>7
<1>11. \A d \in Sockets : Contains(line'[d], t) <=> d = c
  BY <1>5, <1>6, <1>7
<1>12. Speaks(t, n)
  BY <1>2, <1>4, <1>6, <1>8, <1>10 DEF Speaks
<1>13. /\ task' \in [Tasks -> Task] /\ task'[t] = n /\ \A u \in Tasks \ {t} : task'[u] = task[u]
       /\ \A u \in Tasks : Topic(u)' = Topic(u) /\ Busy(u)' = Busy(u)
  BY <1>12, SpeaksTask
<1>14. /\ DOMAIN view' = Sockets /\ \A d \in Sockets : DOMAIN view'[d] = DOMAIN view[d]
       /\ \A d \in Sockets : d # c => view'[d] = view[d]
       /\ \A p : p # Topic(t) => view'[c][p] = view[c][p]
       /\ Topic(t) \in TopicsOf(c) => view'[c][Topic(t)] = task[t].payload
  BY <1>2, <1>3 DEF StateOK
<1>15. StateOK'
  BY <1>2, <1>6, <1>13, <1>14 DEF StateOK
<1>16. WaitingOK'
  <2>1. ASSUME NEW u \in Tasks
        PROVE  /\ task'[u].on => Busy(u)'
               /\ task'[u].rest # <<>> => task'[u].on
               /\ task'[u].on /\ current' # u => Waits(u)'
    <3>1. CASE u = t
      BY <1>3, <1>4, <1>11, <1>13, <3>1 DEF Waits
    <3>2. CASE u # t
      BY <1>2, <1>10, <1>13, <3>2 DEF WaitingOK, Waits
    <3> QED
      BY <3>1, <3>2
  <2>2. ASSUME NEW d \in Sockets, NEW u \in Tasks, Contains(line'[d], u)
        PROVE  /\ task'[u].on /\ current' # u /\ Home(d) = RoomOf(Topic(u)')
               /\ \A e \in Sockets : Contains(line'[e], u) => e = d
    <3>1. "none" \notin Tasks
      BY FeedAssumption DEF Tasks
    <3>2. CASE u = t
      BY <1>2, <1>4, <1>5, <1>11, <1>13, <2>2, <3>1, <3>2
    <3>3. CASE u # t
      BY <1>2, <1>10, <1>13, <2>2, <3>1, <3>3 DEF WaitingOK
    <3> QED
      BY <3>2, <3>3
  <2>3. \A d \in Sockets : Distinct(line'[d])
    BY <1>6, <1>7 DEF WaitingOK
  <2> QED
    BY <2>1, <2>2, <2>3 DEF WaitingOK
<1>17. RoomsOK'
  <2>1. ASSUME NEW u \in Tasks
        PROVE  /\ Distinct(task'[u].rest)
               /\ \A d \in Sockets : Contains(task'[u].rest, d) => Home(d) = RoomOf(Topic(u)')
    <3>1. CASE u = t
      BY <1>4, <1>13, <3>1 DEF RoomsOK
    <3>2. CASE u # t
      BY <1>13, <3>2 DEF RoomsOK
    <3> QED
      BY <3>1, <3>2
  <2> QED
    BY <1>2, <2>1 DEF RoomsOK
<1>18. ASSUME NEW u \in Tasks, NEW x \in Sockets, NEW y \in Sockets, Route(u, x, y)'
       PROVE  Route(u, x, y)
  <2>1. CASE u = t
    BY <1>4, <1>11, <1>13, <1>18, <2>1 DEF Route
  <2>2. CASE u # t
    BY <1>10, <1>13, <1>18, <2>2 DEF Route
  <2> QED
    BY <2>1, <2>2
<1>19. InOrder'
  <2>1. \A u \in Tasks : task'[u].on => task[u].on /\ Topic(u)' = Topic(u)
    BY <1>5, <1>13
  <2>2. Shrinks
    BY <1>2, <1>3, RoomShrinks
  <2> QED
    BY <1>18, <2>1, <2>2, ShrunkOrder
<1>20. AheadTrue'
  BY <1>2, <1>12, SpeaksAhead
<1>21. ASSUME NEW p, p = Topic(t), Settled(p) PROVE Settled(p)'
  <2>1. Truth(p)' = Truth(p)
    BY <1>2, SameTruth
  <2>2. \A u \in Tasks : On(u, p)' <=> On(u, p)
    BY <1>4, <1>5, <1>13 DEF On
  <2>3. Coming(p) => Coming(p)'
    BY <1>4, <1>5, <1>13 DEF Coming, Ahead
  <2>4. ASSUME Leads(t, p) PROVE Leads(t, p)'
    <3>1. ASSUME NEW u \in Tasks \ {t}, On(u, p)' PROVE Behind(u, t)'
      <4>1. task'[u] = task[u] /\ On(u, p) /\ Behind(u, t) /\ Waits(u)
        BY <1>2, <1>13, <2>2, <2>4, <3>1 DEF Leads, On, WaitingOK
      <4> SUFFICES ASSUME NEW x \in open, Contains(task[u].rest, x)
                   PROVE  /\ Contains(n.rest, x)
                          /\ \A d \in Sockets : Contains(line[d], u) =>
                               Before(d, x, n.rest) \/ Before(u, t, line'[d])
        BY <1>2, <1>10, <1>13, <4>1 DEF Behind
      <4>2. Contains(task[t].rest, x)
        BY <4>1 DEF Behind
      <4>3. \A d \in Sockets : Contains(line[d], u) => Before(d, x, task[t].rest)
        BY <1>5, <4>1, BeforeContains DEF Behind
      <4>4. x # c
        BY <1>4, <4>1, <4>3 DEF Waits
      <4>5. ASSUME NEW d \in Sockets, Contains(line[d], u)
            PROVE  Before(d, x, n.rest) \/ Before(u, t, line'[d])
        <5>1. CASE d = c
          BY <1>9, <4>5, <5>1
        <5>2. CASE d # c
          BY <1>4, <4>3, <4>5, <5>2
        <5> QED
          BY <5>1, <5>2
      <4> QED
        BY <1>4, <4>2, <4>4, <4>5
    <3>2. ASSUME NEW d \in open, p \in TopicsOf(d)
          PROVE  view'[d][p] = Truth(p) \/ Contains(n.rest, d)
      <4>1. d \in Sockets
        BY DEF StateOK
      <4>2. CASE d = c
        BY <1>14, <1>21, <2>4, <3>2, <4>2 DEF Leads
      <4>3. CASE d # c
        BY <1>4, <1>14, <2>4, <3>2, <4>1, <4>3 DEF Leads
      <4> QED
        BY <4>2, <4>3
    <3> QED
      BY <1>2, <1>4, <1>13, <2>1, <2>2, <2>4, <3>1, <3>2 DEF Leads
  <2>5. ASSUME NEW v \in Tasks \ {t}, Leads(v, p) PROVE Leads(v, p)'
    <3>1. /\ task'[v] = task[v] /\ On(v, p) /\ Behind(t, v) /\ task[v].on /\ Topic(v) = p
          /\ Contains(task[v].rest, c)
      BY <1>2, <1>4, <1>5, <1>13, <1>21, <2>5 DEF Leads, Behind, On
    <3>2. ASSUME NEW x \in open, Contains(n.rest, x)
          PROVE  Contains(task[v].rest, x) /\ Before(c, x, task[v].rest)
      <4>1. x \in Sockets /\ Contains(task[t].rest, x) /\ x # c /\ Contains(task[v].rest, x)
        BY <1>4, <3>1, <3>2 DEF Behind, StateOK
      <4>2. Home(x) = RoomOf(p) /\ Contains(room[RoomOf(p)], x) /\ Contains(room[RoomOf(p)], c)
        BY <1>2, <1>5, <1>21, <4>1 DEF RoomsOK
      <4>3. Route(t, c, x)
        BY <1>4, <3>2 DEF Route
      <4>4. Before(c, x, room[RoomOf(p)])
        BY <1>3, <1>5, <1>21, <4>1, <4>2, <4>3 DEF InOrder
      <4>5. room[RoomOf(p)] \in Seq(Sockets) /\ Distinct(room[RoomOf(p)])
        BY DEF RoomOf, StateOK, RoomsOK
      <4>6. ~Before(x, c, room[RoomOf(p)])
        BY <4>4, <4>5, BeforeOrders
      <4>7. ~Before(x, c, task[v].rest)
        BY <1>3, <3>1, <4>1, <4>2, <4>6 DEF InOrder, Route
      <4>8. task[v].rest \in Seq(Sockets) /\ Distinct(task[v].rest)
        BY DEF StateOK, Task, RoomsOK
      <4> QED
        BY <3>1, <4>1, <4>7, <4>8, BeforeOrders
    <3>3. Behind(t, v)'
      BY <1>2, <1>11, <1>13, <3>1, <3>2 DEF Behind
    <3>4. ASSUME NEW u \in Tasks \ {v}, u # t, On(u, p)' PROVE Behind(u, v)'
      <4>1. Behind(u, v) /\ task'[u] = task[u]
        BY <1>13, <2>2, <2>5, <3>4 DEF Leads
      <4> QED
        BY <1>2, <1>8, <1>10, <3>1, <3>4, <4>1 DEF Behind
    <3>5. ASSUME NEW d \in open, p \in TopicsOf(d)
          PROVE  view'[d][p] = Truth(p) \/ Contains(task[v].rest, d)
      BY <1>14, <2>5, <3>1, <3>5 DEF Leads, StateOK
    <3> QED
      BY <1>2, <2>1, <2>2, <2>5, <3>1, <3>3, <3>4, <3>5 DEF Leads
  <2>6. ~Quiet(p)
    BY <1>2, <1>4, <1>5, <1>21 DEF Quiet, On
  <2> QED
    BY <1>21, <2>3, <2>4, <2>5, <2>6 DEF Settled
<1>22. AllSettled'
  <2> SUFFICES ASSUME NEW p \in Topics, p \notin astray PROVE Settled(p)'
    BY <1>2 DEF AllSettled
  <2>1. Settled(p)
    BY DEF AllSettled
  <2>2. CASE p = Topic(t)
    BY <1>21, <2>1, <2>2
  <2>3. CASE p # Topic(t)
    <3>1. \A d \in open : view'[d][p] = view[d][p]
      BY <1>14, <2>3 DEF StateOK
    <3> QED
      BY <1>12, <2>1, <2>3, <3>1, ElsewhereSettles
  <2> QED
    BY <2>2, <2>3
<1> QED
  BY <1>15, <1>16, <1>17, <1>19, <1>20, <1>22

-----------------------------------------------------------------------------
(* The theorems *)

LEMMA NextKeeps ==
  ASSUME FeedInv, [Next]_vars
  PROVE  FeedInv'
<1>1. CASE \E t \in Handlers : Change(t)
  <2>1. PICK t \in Handlers : Change(t)
    BY <1>1
  <2>2. t \in Tasks
    BY DEF Tasks
  <2> QED
    BY <2>1, <2>2, HoldKeeps, CheckoutKeeps DEF Change
<1>2. CASE Expire
  BY <1>2, ExpireKeeps
<1>3. CASE \E t \in Tasks : Run(t) \/ Wake(t) \/ Fails(t)
  BY <1>3, BeginKeeps, SendFailsKeeps, SendKeeps, DoneKeeps, WakeKeeps, FailsKeeps DEF Run
<1>4. CASE \E s \in Seats : Lapse(s)
  BY <1>4, LapseKeeps
<1>5. CASE \E c \in Sockets : Connect(c) \/ Close(c) \/ Leave(c)
  BY <1>5, ConnectKeeps, CloseKeeps, LeaveKeeps
<1>6. CASE UNCHANGED vars
  <2>1. UNCHANGED <<seat, due, task, current, room, open, line, view, astray>>
    BY <1>6 DEF vars
  <2>2. StateOK' /\ WaitingOK' /\ RoomsOK'
    BY <2>1 DEF FeedInv, StateOK, WaitingOK, RoomsOK, Busy, Waits, Topic
  <2>3. InOrder' /\ AheadTrue'
    BY <2>1 DEF FeedInv, InOrder, Route, AheadTrue, Ahead, Topic
  <2>4. AllSettled'
    BY <2>1, SameTruth DEF FeedInv, AllSettled, Settled, Coming, Leads, Quiet, On, Behind, Ahead, Topic
  <2> QED
    BY <2>2, <2>3, <2>4 DEF FeedInv
<1> QED
  BY <1>1, <1>2, <1>3, <1>4, <1>5, <1>6 DEF Next

LEMMA FeedInvariant == Spec => []FeedInv
<1>1. Init => FeedInv
  BY InitFeed
<1>2. FeedInv /\ [Next]_vars => FeedInv'
  BY NextKeeps
<1> QED
  BY <1>1, <1>2, PTL DEF Spec

\* The variables of the feed have their types, for rooms of any size: a task waits
\* at one socket at most, and a line has each task once.
THEOREM TypeCorrect == Spec => []TypeOK
<1>1. FeedInv => TypeOK
  BY TypesFollow DEF FeedInv
<1> QED
  BY <1>1, FeedInvariant, PTL

\* Every open socket shows each topic that is not astray as it is, or is about to
\* be told: however many requests announce at once over however many sockets, a
\* broadcast that is suspended at a slow socket never brings older news after
\* newer.
THEOREM FeedAgrees == Spec => []ViewsAgree
<1>1. FeedInv => ViewsAgree
  BY SettledAgree
<1> QED
  BY <1>1, FeedInvariant, PTL
=============================================================================
