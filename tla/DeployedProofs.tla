---------------------------- MODULE DeployedProofs ----------------------------
(***************************************************************************)
(* Proofs about SeatBooking in the shipped deployment, while its one       *)
(* process does not die and its calls between two awaits take no time: how *)
(* the Redis keys (the seat locks, the booking sessions, the hold indexes) *)
(* agree with the seats table they are kept beside, although every hold    *)
(* writes back a time to live that Redis rounds to whole seconds.  Any     *)
(* number of seats, users and requests, any times and any length of a      *)
(* second; a user is logged in on one device.                              *)
(***************************************************************************)
EXTENDS OneProcessProofs

USE DEF UserOrNone, Row, Lock, Index, Request

\* No handler dies half-way, and none is slow.
Calm == "slow" \notin Faults /\ "crash" \notin Faults

\* No dashboard query fails after a hold was announced.
DashboardAnswers == "dashboard" \notin Faults

\* Every login of a user cuts a booking session at the same time: there is one.
LoginsAgree == \A u \in Users : \A e, f \in AuthEnds[u] : e = f

-----------------------------------------------------------------------------
(* The inductive invariant *)

Live(s) == seat[s].status = "LOCKED" /\ seat[s].until > clock

\* The least time left that TTL does not round to nothing.
Spare == Second - Half

\* A hold of u that ends at t ends within half a second of u's login, or
\* that login has no time left that TTL would show.
EndFits(u, t) == \A e \in AuthEnds[u] : t <= e + Half \/ e < clock + Spare

\* ... and as near to the end of u's session as rounding allows.
NearSession(u, t) == t <= session[u] + Half /\ session[u] < t + Spare

\* What Redis keeps for a live hold of u on s.  The session and the index may
\* end before it, by less than its leeway.
LockBacks(u, s)    == lock[s].user = u /\ lock[s].exp >= seat[s].until
SessionBacks(u, s) == session[u] + leeway[s] >= seat[s].until + Spare
Recorded(u, s)     ==
  index[u].score[s] = seat[s].until /\ index[u].exp + leeway[s] > seat[s].until

Backed ==
  \A s \in Seats : \A u \in Users : Live(s) /\ seat[s].by = u =>
    /\ DashboardAnswers => LockBacks(u, s)
    /\ EndFits(u, seat[s].until)
    /\ Secure(s) => SessionBacks(u, s) /\ (Recorded(u, s) \/ Pending(s))

\* A LOCKED row names its holder.
HolderNamed == \A s \in Seats : seat[s].status = "LOCKED" => seat[s].by \in Users

LeewayOK == \A s \in Seats : leeway[s] >= Second

\* The places of a hold that goes on, and those where a request deletes the keys
\* of its seats.
Holding  == {"holdClip", "holdLock", "holdCommit", "holdIndex"}
Clearing == {"releaseUnlock", "releaseUnindex", "checkoutUnlock", "checkoutUnindex"}

\* What a request in progress relies on; q is its record.
InFlight(q) ==
  /\ q.pc = "announce" => q.loop \in Loops
  /\ q.pc \in Holding \cup {"holdAdmit"} => q.login \in AuthEnds[q.user]
  /\ q.pc \in Holding => /\ q.now = clock /\ q.ttl >= Second
                         /\ HasSession(q.user) /\ NearSession(q.user, q.now + q.ttl)
  /\ q.pc \in Holding \ {"holdClip"} => EndFits(q.user, q.now + q.ttl)
  /\ q.pc \in Clearing => \A s \in q.seats : ~Live(s)
  /\ q.pc \in {"holdCommit", "holdUndo"} /\ DashboardAnswers => \A s \in q.seats : ~Live(s)
  /\ q.pc = "holdCommit" => \A s \in q.seats : lock[s] = LockFor(q.user, q.ttl)
  /\ q.pc = "holdIndex" => \A s \in q.seats : seat[s] = Held(q.user, q.now + q.ttl)
  /\ q.pc = "checkoutCommit" => q.now = clock
  /\ q.pc = "checkoutLeave" => Members(index[q.user]) = {}

FlightOK == \A r \in Requests : InFlight(req[r])

RedisInv == Backed /\ HolderNamed /\ LeewayOK /\ FlightOK
AgreeInv == SaleInv /\ RedisInv

-----------------------------------------------------------------------------
(* Time *)

\* Half a second up and a little less down make a second.
LEMMA Times ==
  /\ Second \in Nat \ {0} /\ Half \in Nat /\ Spare \in Nat \ {0}
  /\ Spare + Half = Second /\ Spare <= Half + 1
<1>1. Second \in Nat \ {0}
  BY TimeAssumption
<1> QED
  BY <1>1, HalfFacts DEF Spare

LEMMA RoundedTimes ==
  ASSUME NEW left \in Nat
  PROVE  /\ Rounded(left) \in Nat /\ Rounded(left) <= left + Half /\ left < Rounded(left) + Spare
         /\ left >= Spare <=> Rounded(left) > 0
         /\ Rounded(left) > 0 => Rounded(left) >= Second
<1> HIDE DEF Rounded
<1> DEFINE a == Rounded(left)
<1>1. /\ a \in Nat /\ a <= left + Half /\ left <= a + Second - 1 - Half
      /\ left + Half >= Second => a >= Second
      /\ left + Half < Second => a = 0
  BY RoundedFacts
<1> HIDE DEF a
<1>2. /\ a \in Nat /\ a <= left + Half /\ left < a + Spare
      /\ left >= Spare <=> a > 0
      /\ a > 0 => a >= Second
  BY <1>1, Times
<1> QED
  BY <1>2 DEF a

\* A session that has a second left, rounded, is one whose end is far enough.
LEMMA SessionTimes ==
  ASSUME TypeInv, NEW u \in Users
  PROVE  /\ session[u] \in Nat /\ clock \in Nat
         /\ HasSession(u) <=> session[u] >= clock + Spare
         /\ HasSession(u) => /\ session[u] # 0 /\ TTL(session[u]) \in Nat
                             /\ TTL(session[u]) >= Second
                             /\ NearSession(u, clock + TTL(session[u]))
<1>1. session[u] \in Nat /\ clock \in Nat /\ (session[u] = 0 \/ session[u] > clock)
  BY DEF TypeInv, TypeOK, SessionAlive
<1>2. CASE session[u] = 0
  BY <1>1, <1>2, Times DEF HasSession, TTL
<1>3. CASE session[u] > clock
  <2> DEFINE left == session[u] - clock
             a == Rounded(left)
  <2>1. left \in Nat /\ session[u] = clock + left
    BY <1>1, <1>3
  <2>2. TTL(session[u]) = a
    BY <1>1, <1>3, TTLFacts
  <2>3. /\ a \in Nat /\ a <= left + Half /\ left < a + Spare
        /\ left >= Spare <=> a > 0
        /\ a > 0 => a >= Second
    <3> HIDE DEF left
    <3> QED
      BY <2>1, RoundedTimes
  <2> HIDE DEF a, left
  <2> QED
    BY <1>1, <1>3, <2>1, <2>2, <2>3, Times DEF HasSession, NearSession
<1> QED
  BY <1>1, <1>2, <1>3

-----------------------------------------------------------------------------
(* Requests: one is between two awaits at most *)

\* A request that waits or is idle relies on its loop alone.
LEMMA OutOfSection ==
  ASSUME NEW q, q.pc \notin Section, q.pc = "announce" => q.loop \in Loops
  PROVE  InFlight(q)
BY DEF InFlight, Section, Holding, Clearing

LEMMA IdleFlight == InFlight(Idle)
BY OutOfSection DEF Idle, Section

LEMMA NonePending ==
  ASSUME Exclusive, NEW r \in Requests, req[r].pc \in Section, req[r].pc # "holdIndex"
  PROVE  \A s \in Seats : ~Pending(s)
BY DEF Exclusive, Pending, Section

LEMMA NoneRunning ==
  ASSUME OneProcess, Exclusive, NEW l \in Loops, ~Running(l)
  PROVE  \A r \in Requests : req[r].pc \notin Section
BY DEF OneProcess, Exclusive, Running

\* One request goes on with record p; the others stay where they wait.
LEMMA FlightStep ==
  ASSUME req \in [Requests -> Request], Exclusive, FlightOK, NEW r \in Requests,
         req[r].pc \in Section \/ \A x \in Requests : req[x].pc \notin Section,
         NEW p, req' = [req EXCEPT ![r] = p], InFlight(p)'
  PROVE  FlightOK'
<1> SUFFICES ASSUME NEW x \in Requests PROVE InFlight(req[x])'
  BY DEF FlightOK
<1>1. CASE x = r
  <2>1. req'[x] = p
    BY <1>1
  <2> QED
    BY <2>1 DEF InFlight
<1>2. CASE x # r
  <2>1. req'[x] = req[x] /\ req[x].pc \notin Section
    BY <1>2 DEF Exclusive
  <2>2. req'[x].pc = "announce" => req'[x].loop \in Loops
    BY <2>1 DEF FlightOK, InFlight
  <2> QED
    BY <2>1, <2>2, OutOfSection DEF InFlight, Section, Holding, Clearing
<1> QED
  BY <1>1, <1>2

LEMMA EndFlight ==
  ASSUME req \in [Requests -> Request], Exclusive, FlightOK, NEW r \in Requests, End(r),
         req[r].pc \in Section \/ \A x \in Requests : req[x].pc \notin Section
  PROVE  FlightOK'
<1>1. req' = [req EXCEPT ![r] = Idle]
  BY DEF End
<1>2. InFlight(Idle)'
  BY DEF InFlight, Idle, Section, Holding, Clearing
<1> QED
  BY <1>1, <1>2, FlightStep

-----------------------------------------------------------------------------
(* Steps that leave the tables and the clock alone *)

LEMMA SameRows ==
  ASSUME UNCHANGED <<db, clock>>
  PROVE  /\ \A s \in Seats : Live(s)' = Live(s)
         /\ HolderNamed => HolderNamed'
         /\ \A u, t : EndFits(u, t) => EndFits(u, t)'
BY DEF Live, HolderNamed, EndFits, db

\* What it takes for such a step to keep the keys in agreement with the rows.
LEMMA KeysKept ==
  ASSUME RedisInv, UNCHANGED <<db, clock>>, FlightOK', LeewayOK',
         \A s \in Seats : \A u \in Users : Live(s) /\ seat[s].by = u =>
           /\ DashboardAnswers => lock'[s] = lock[s]
           /\ Secure(s)' => SessionBacks(u, s)' /\ (Recorded(u, s)' \/ Pending(s)')
  PROVE  RedisInv'
<1>1. Backed'
  <2> SUFFICES ASSUME NEW s \in Seats, NEW u \in Users, Live(s)', seat'[s].by = u
               PROVE  /\ DashboardAnswers => LockBacks(u, s)'
                      /\ EndFits(u, seat[s].until)'
                      /\ Secure(s)' => SessionBacks(u, s)' /\ (Recorded(u, s)' \/ Pending(s)')
    BY DEF Backed, DashboardAnswers
  <2>1. Live(s) /\ seat[s].by = u /\ seat' = seat
    BY SameRows DEF db
  <2>2. /\ DashboardAnswers => LockBacks(u, s)
        /\ EndFits(u, seat[s].until)
    BY <2>1 DEF RedisInv, Backed
  <2>3. /\ DashboardAnswers => lock'[s] = lock[s]
        /\ Secure(s)' => SessionBacks(u, s)' /\ (Recorded(u, s)' \/ Pending(s)')
    BY <2>1
  <2>4. EndFits(u, seat[s].until)'
    BY <2>1, <2>2 DEF EndFits
  <2> QED
    BY <2>1, <2>2, <2>3, <2>4 DEF LockBacks
<1> QED
  BY <1>1, SameRows DEF RedisInv

\* ... when it leaves the sessions alone, too.
LEMMA KeysSame ==
  ASSUME RedisInv, UNCHANGED <<db, clock, session, leeway>>, FlightOK',
         \A s \in Seats : \A u \in Users : Live(s) /\ seat[s].by = u =>
           /\ DashboardAnswers => lock'[s] = lock[s]
           /\ Secure(s) => Recorded(u, s)' \/ Pending(s)'
  PROVE  RedisInv'
<1>1. UNCHANGED <<db, clock>> /\ UNCHANGED <<seat, owner, clock, session, leeway>>
  BY DEF db
<1>2. LeewayOK'
  BY <1>1 DEF RedisInv, LeewayOK
<1>3. \A s \in Seats : \A u \in Users : Live(s) /\ seat[s].by = u =>
        /\ DashboardAnswers => lock'[s] = lock[s]
        /\ Secure(s)' => SessionBacks(u, s)' /\ (Recorded(u, s)' \/ Pending(s)')
  BY <1>1 DEF RedisInv, Backed, Secure, SessionBacks
<1> QED
  BY <1>1, <1>2, <1>3, KeysKept

\* Dropping other entries of an index keeps an entry and the expiry.
LEMMA EntryKept ==
  ASSUME NEW ix \in Index, NEW S, NEW s \in Seats, s \notin S, ix.score[s] # 0
  PROVE  Without(ix, S).score[s] = ix.score[s] /\ Without(ix, S).exp = ix.exp
<1>1. ~(Members(ix) \subseteq S)
  BY DEF Members
<1> QED
  BY <1>1 DEF Without

\* The entry of a live hold is a member of the index, and not a lapsed one.
LEMMA LiveMember ==
  ASSUME TypeOK, NEW s \in Seats, NEW u \in Users, Live(s), Recorded(u, s)
  PROVE  index[u].score[s] > clock /\ index[u].score[s] # 0 /\ s \in Members(index[u])
<1>1. index[u].score[s] \in Nat /\ seat[s].until \in Nat /\ clock \in Nat
  BY DEF TypeOK
<1> QED
  BY <1>1 DEF Live, Recorded, Members

\* Every hold with time to spare is recorded, except while one is about to be.
LEMMA AllRecorded ==
  ASSUME RedisInv, \A s \in Seats : ~Pending(s)
  PROVE  \A s \in Seats : \A u \in Users : Live(s) /\ seat[s].by = u /\ Secure(s) => Recorded(u, s)
BY DEF RedisInv, Backed

\* A step that changes nothing but the requests, while nothing is pending.
LEMMA OnlyRequests ==
  ASSUME RedisInv, \A s \in Seats : ~Pending(s), UNCHANGED <<db, redis, clock, leeway>>, FlightOK'
  PROVE  RedisInv'
<1>1. UNCHANGED <<db, clock, session, leeway>> /\ UNCHANGED <<lock, index, session, seat, leeway>>
  BY DEF redis, db
<1>2. \A s \in Seats : \A u \in Users : Live(s) /\ seat[s].by = u /\ Secure(s) => Recorded(u, s)'
  BY <1>1, AllRecorded DEF Recorded
<1> QED
  BY <1>1, <1>2, KeysSame

-----------------------------------------------------------------------------
(* The steps that arrive, admit and wait *)

\* The record a request goes on with.
LEMMA MoveRecord ==
  ASSUME NEW r \in Requests, NEW pc, NEW now, NEW ttl, Move(r, pc, now, ttl)
  PROVE  \E p : /\ p.pc = pc /\ p.now = now /\ p.ttl = ttl
                /\ p.user = req[r].user /\ p.login = req[r].login /\ p.seats = req[r].seats
                /\ req' = [req EXCEPT ![r] = p]
<1> DEFINE p == [pc |-> pc, loop |-> req[r].loop, user |-> req[r].user, login |-> req[r].login,
                 seats |-> req[r].seats, seen |-> req[r].seen, now |-> now, ttl |-> ttl]
<1>1. req' = [req EXCEPT ![r] = p]
  BY DEF Move
<1>2. /\ p.pc = pc /\ p.now = now /\ p.ttl = ttl
      /\ p.user = req[r].user /\ p.login = req[r].login /\ p.seats = req[r].seats
  OBVIOUS
<1> HIDE DEF p
<1> QED
  BY <1>1, <1>2

LEMMA ArriveAgrees ==
  ASSUME OneProcess, AgreeInv, NEW r \in Requests, NEW l \in Loops, Arrive(r, l)
  PROVE  RedisInv'
<1>1. /\ TypeOK /\ Exclusive /\ FlightOK /\ RedisInv
      /\ req \in [Requests -> Request]
  BY DEF AgreeInv, SaleInv, TypeInv, TypeOK, RequestsOK, RedisInv
<1>2. /\ UNCHANGED <<db, redis, clock, leeway>>
      /\ \E pc \in {"holdAdmit", "releaseCommit", "checkoutAdmit"}, u \in Users, S \in SUBSET Seats :
           \E seen : Enter(r, pc, l, u, S, seen)
  BY DEF Arrive, HoldLoad, ReleaseCheck, CheckoutLoad
<1>3. PICK pc \in {"holdAdmit", "releaseCommit", "checkoutAdmit"}, u \in Users, S \in SUBSET Seats :
        \E seen : Enter(r, pc, l, u, S, seen)
  BY <1>2
<1> PICK seen : Enter(r, pc, l, u, S, seen)
  BY <1>3
<1>4. PICK e \in AuthEnds[u] : req' = [req EXCEPT ![r] =
            [pc |-> pc, loop |-> l, user |-> u, login |-> e,
             seats |-> S, seen |-> seen, now |-> 0, ttl |-> 0]]
  BY <1>3 DEF Enter
<1>5. \A x \in Requests : req[x].pc \notin Section
  BY <1>1, <1>3, NoneRunning DEF Enter
<1>6. PICK p : p = [pc |-> pc, loop |-> l, user |-> u, login |-> e,
                    seats |-> S, seen |-> seen, now |-> 0, ttl |-> 0]
  OBVIOUS
<1>7. p.pc = pc /\ p.user = u /\ p.login = e /\ req' = [req EXCEPT ![r] = p]
  BY <1>4, <1>6
<1>8. InFlight(p)'
  BY <1>7 DEF InFlight, Holding, Clearing
<1>9. FlightOK'
  BY <1>1, <1>5, <1>7, <1>8, FlightStep
<1>10. \A s \in Seats : ~Pending(s)
  BY <1>5 DEF Pending, Section
<1> QED
  BY <1>1, <1>2, <1>9, <1>10, OnlyRequests

LEMMA HoldAdmitAgrees ==
  ASSUME AgreeInv, NEW r \in Requests, HoldAdmit(r)
  PROVE  RedisInv'
<1> DEFINE u  == req[r].user
           ix == Purged(index[u], clock)
<1>1. /\ TypeInv /\ TypeOK /\ Exclusive /\ FlightOK /\ RedisInv /\ req \in [Requests -> Request]
      /\ req[r].pc = "holdAdmit" /\ req[r].pc \in Section
      /\ UNCHANGED <<db, lock, session, clock, leeway>>
  BY DEF AgreeInv, SaleInv, TypeInv, TypeOK, RequestsOK, RedisInv, HoldAdmit, Section
<1>2. u \in Users /\ index[u] \in Index /\ index \in [Users -> Index] /\ clock \in Nat /\ session[u] \in Nat
  BY <1>1, SectionUser DEF TypeOK
<1>3. \A s \in Seats : ~Pending(s)
  BY <1>1, NonePending
<1>4. \A s \in Seats : Live(s) /\ seat[s].by = u /\ Secure(s) =>
        s \in Members(ix) /\ ix.score[s] = index[u].score[s] /\ ix.exp = index[u].exp
  <2> SUFFICES ASSUME NEW s \in Seats, Live(s), seat[s].by = u, Secure(s)
               PROVE  s \in Members(ix) /\ ix.score[s] = index[u].score[s] /\ ix.exp = index[u].exp
    OBVIOUS
  <2>1. index[u].score[s] > clock /\ index[u].score[s] # 0
    BY <1>1, <1>2, <1>3, AllRecorded, LiveMember
  <2>2. s \notin {x \in Seats : index[u].score[x] <= clock}
    BY <1>2, <2>1
  <2>3. ix.score[s] = index[u].score[s] /\ ix.exp = index[u].exp
    BY <1>2, <2>1, <2>2, EntryKept DEF Purged
  <2> HIDE DEF ix
  <2> QED
    BY <2>1, <2>3 DEF Members
<1>5. CASE ~HasSession(u) /\ End(r) /\ UNCHANGED index
  <2>1. FlightOK'
    BY <1>1, <1>5, EndFlight
  <2>2. UNCHANGED <<db, redis, clock, leeway>>
    BY <1>1, <1>5 DEF redis
  <2> QED
    BY <1>1, <1>3, <2>1, <2>2, OnlyRequests
<1>6. CASE HasSession(u) /\ index' = [index EXCEPT ![u] = ix]
  <2>1. FlightOK'
    <3>1. CASE End(r)
      BY <1>1, <3>1, EndFlight
    <3>2. CASE HoldWithinLimit(u, ix) /\ Move(r, "holdClip", clock, TTL(session[u]))
      <4>1. PICK p : /\ p.pc = "holdClip" /\ p.now = clock /\ p.ttl = TTL(session[u])
                     /\ p.user = u /\ p.login = req[r].login
                     /\ req' = [req EXCEPT ![r] = p]
        BY <3>2, MoveRecord
      <4>2. p.login \in AuthEnds[u]
        BY <1>1, <4>1 DEF FlightOK, InFlight
      <4>3. p.ttl >= Second /\ NearSession(u, p.now + p.ttl)
        BY <1>1, <1>2, <1>6, <4>1, SessionTimes
      <4>4. p.now = clock' /\ HasSession(p.user)' /\ NearSession(p.user, p.now + p.ttl)'
        BY <1>1, <1>6, <4>1, <4>3 DEF HasSession, NearSession, TTL
      <4>5. InFlight(p)'
        BY <1>1, <4>1, <4>2, <4>3, <4>4 DEF InFlight, Holding, Clearing
      <4> QED
        BY <1>1, <4>1, <4>5, FlightStep
    <3> QED
      BY <1>6, <3>1, <3>2 DEF HoldAdmit
  <2>2. \A s \in Seats : \A v \in Users : Live(s) /\ seat[s].by = v /\ Secure(s) => Recorded(v, s)'
    <3> SUFFICES ASSUME NEW s \in Seats, NEW v \in Users, Live(s), seat[s].by = v, Secure(s)
                 PROVE  Recorded(v, s)'
      OBVIOUS
    <3>1. Recorded(v, s)
      BY <1>1, <1>3, AllRecorded
    <3>2. index'[v].score[s] = index[v].score[s] /\ index'[v].exp = index[v].exp
      <4> HIDE DEF ix
      <4> QED
        BY <1>2, <1>4, <1>6
    <3> QED
      BY <1>1, <3>1, <3>2 DEF Recorded, db
  <2> QED
    BY <1>1, <2>1, <2>2, KeysSame
<1> QED
  BY <1>5, <1>6 DEF HoldAdmit

\* The session is set to end with the hold: at the login's end, or where the
\* session ended, each within half a second.
LEMMA HoldClipAgrees ==
  ASSUME LoginsAgree, AgreeInv, NEW r \in Requests, HoldClip(r)
  PROVE  RedisInv'
<1> DEFINE u     == req[r].user
           e     == req[r].login
           login == TTL(e)
           ttl   == IF login < req[r].ttl THEN login ELSE req[r].ttl
           end   == IF session[u] = 0 THEN 0 ELSE clock + ttl
<1>1. /\ TypeInv /\ TypeOK /\ Exclusive /\ FlightOK /\ RedisInv /\ req \in [Requests -> Request]
      /\ req[r].pc = "holdClip" /\ req[r].pc \in Section
      /\ UNCHANGED <<db, lock, index, clock>>
  BY DEF AgreeInv, SaleInv, TypeInv, TypeOK, RequestsOK, RedisInv, HoldClip, Section
<1>2. /\ u \in Users /\ req[r] \in Request /\ clock \in Nat /\ session \in [Users -> Nat]
      /\ leeway \in [Seats -> Nat] /\ e \in Nat /\ req[r].ttl \in Nat
  BY <1>1, SectionUser DEF TypeOK
<1>3. \A s \in Seats : ~Pending(s)
  BY <1>1, NonePending
<1>4. /\ e \in AuthEnds[u]
      /\ req[r].now = clock /\ req[r].ttl >= Second
      /\ HasSession(u) /\ NearSession(u, clock + req[r].ttl)
  BY <1>1 DEF FlightOK, InFlight, Holding
<1>5. session[u] # 0 /\ session[u] >= clock + Spare
  BY <1>1, <1>2, <1>4, SessionTimes
<1>6. \A f \in AuthEnds[u] : f = e
  BY <1>2, <1>4 DEF LoginsAgree
<1>7. CASE e <= clock /\ End(r) /\ UNCHANGED <<session, leeway>>
  <2>1. FlightOK'
    BY <1>1, <1>7, EndFlight
  <2>2. UNCHANGED <<db, redis, clock, leeway>>
    BY <1>1, <1>7 DEF redis
  <2> QED
    BY <1>1, <1>3, <2>1, <2>2, OnlyRequests
<1>8. e > clock => /\ login \in Nat /\ clock + login <= e + Half /\ e < clock + login + Spare
                   /\ login > 0 => login >= Second
                   /\ login = 0 => e < clock + Spare
  <2> SUFFICES ASSUME e > clock
               PROVE  /\ login \in Nat /\ clock + login <= e + Half /\ e < clock + login + Spare
                      /\ login > 0 => login >= Second
                      /\ login = 0 => e < clock + Spare
    OBVIOUS
  <2> DEFINE left == e - clock
             a == Rounded(left)
  <2>1. left \in Nat /\ e = clock + left
    BY <1>2
  <2>2. login = a
    BY <1>2, TTLFacts
  <2>3. /\ a \in Nat /\ a <= left + Half /\ left < a + Spare
        /\ left >= Spare <=> a > 0
        /\ a > 0 => a >= Second
    <3> HIDE DEF left
    <3> QED
      BY <2>1, RoundedTimes
  <2> HIDE DEF a, left, login
  <2> QED
    BY <1>2, <2>1, <2>2, <2>3, Times
<1>9. CASE e > clock /\ login = 0 /\ Goto(r, "holdLock") /\ UNCHANGED <<session, leeway>>
  <2>1. FlightOK'
    <3>1. PICK p : /\ p.pc = "holdLock" /\ p.now = req[r].now /\ p.ttl = req[r].ttl
                   /\ p.user = u /\ p.login = e
                   /\ req' = [req EXCEPT ![r] = p]
      BY <1>9, MoveRecord DEF Goto
    <3>2. EndFits(u, p.now + p.ttl)
      BY <1>6, <1>8, <1>9 DEF EndFits
    <3>3. EndFits(p.user, p.now + p.ttl)'
      BY <1>1, <3>1, <3>2, SameRows
    <3>4. /\ p.now = clock' /\ p.ttl >= Second /\ p.login \in AuthEnds[p.user]
          /\ HasSession(p.user)' /\ NearSession(p.user, p.now + p.ttl)'
      BY <1>1, <1>4, <1>9, <3>1 DEF HasSession, NearSession, TTL
    <3>5. InFlight(p)'
      BY <3>1, <3>3, <3>4 DEF InFlight, Holding, Clearing
    <3> QED
      BY <1>1, <3>1, <3>5, FlightStep
  <2>2. UNCHANGED <<db, redis, clock, leeway>>
    BY <1>1, <1>9 DEF redis
  <2> QED
    BY <1>1, <1>3, <2>1, <2>2, OnlyRequests
<1>10. CASE /\ e > clock /\ login > 0
            /\ session' = [session EXCEPT ![u] = end]
            /\ leeway' = [s \in Seats |-> IF s \in LiveHolds(u) /\ end < session[u]
                                          THEN leeway[s] + Half ELSE leeway[s]]
            /\ Move(r, "holdLock", req[r].now, ttl)
  <2>1. /\ login \in Nat /\ clock + login <= e + Half /\ e < clock + login + Spare
        /\ login >= Second
    BY <1>8, <1>10
  <2>2. /\ ttl \in Nat /\ ttl >= Second /\ end = clock + ttl /\ clock + ttl <= e + Half
        /\ ttl = req[r].ttl \/ ttl = login
    <3>1. e \in Nat /\ clock \in Nat /\ req[r].ttl \in Nat /\ session[u] # 0
      BY <1>2, <1>5
    <3> HIDE DEF login, e
    <3>2. ttl \in Nat /\ ttl >= Second /\ ttl <= login /\ (ttl = req[r].ttl \/ ttl = login)
      BY <1>4, <2>1, <3>1, Times
    <3> HIDE DEF ttl
    <3>3. end = clock + ttl
      BY <3>1
    <3> HIDE DEF end
    <3> QED
      BY <2>1, <3>1, <3>2, <3>3, Times
  <2>3. session'[u] = end /\ \A v \in Users : v # u => session'[v] = session[v]
    <3> HIDE DEF end
    <3> QED
      BY <1>2, <1>10
  <2>4. session' \in [Users -> Nat] /\ TypeInv'
    <3>1. TypeInv'
      BY <1>1, HoldClipType
    <3> QED
      BY <3>1 DEF TypeInv, TypeOK
  <2>5. ASSUME NEW v, NEW left, v = u, left = ttl
        PROVE  HasSession(v)' /\ NearSession(v, clock + left)'
    <3>1. session'[v] = clock + left /\ clock' = clock /\ left \in Nat /\ left >= Second
      BY <1>1, <2>2, <2>3, <2>5
    <3>2. clock + left # 0 /\ (clock + left) - clock = left /\ clock + left \in Nat
      BY <1>2, <3>1, Times
    <3>3. Rounded(left) > 0
      BY <3>1, RoundedTimes, Times
    <3>4. session'[v] - clock' = left /\ session'[v] # 0
      BY <3>1, <3>2
    <3>5. TTL(session[v])' = Rounded(left)
      BY <3>4 DEF TTL, Rounded, Half
    <3>6. HasSession(v)'
      BY <3>3, <3>5 DEF HasSession
    <3>7. clock + left <= session'[v] + Half /\ session'[v] < clock + left + Spare
      BY <1>2, <3>1, <3>2, Times
    <3> QED
      BY <3>1, <3>6, <3>7 DEF NearSession, Half, Spare
  <2>6. FlightOK'
    <3>1. PICK p : /\ p.pc = "holdLock" /\ p.now = req[r].now /\ p.ttl = ttl
                   /\ p.user = u /\ p.login = e
                   /\ req' = [req EXCEPT ![r] = p]
      <4> HIDE DEF ttl
      <4> QED
        BY <1>10, MoveRecord
    <3>2. EndFits(u, clock + ttl)
      BY <1>6, <2>2 DEF EndFits
    <3>3. EndFits(p.user, p.now + p.ttl)'
      BY <1>1, <1>4, <3>1, <3>2, SameRows
    <3>4. /\ p.now = clock' /\ p.ttl >= Second /\ p.login \in AuthEnds[p.user]
          /\ HasSession(p.user)' /\ NearSession(p.user, p.now + p.ttl)'
      <4>1. p.user = u /\ p.ttl = ttl /\ p.now = clock
        BY <1>4, <3>1
      <4>2. HasSession(p.user)' /\ NearSession(p.user, clock + p.ttl)'
        <5> HIDE DEF ttl
        <5> QED
          BY <2>5, <4>1
      <4> QED
        BY <1>1, <1>4, <2>2, <3>1, <4>1, <4>2 DEF NearSession
    <3>5. InFlight(p)'
      BY <3>1, <3>3, <3>4 DEF InFlight, Holding, Clearing
    <3> QED
      BY <1>1, <3>1, <3>5, FlightStep
  <2>7. \A s \in Seats : /\ leeway'[s] \in Nat /\ leeway'[s] >= leeway[s]
                         /\ leeway'[s] = IF s \in LiveHolds(u) /\ end < session[u]
                                         THEN leeway[s] + Half ELSE leeway[s]
    <3> HIDE DEF end
    <3> QED
      BY <1>2, <1>10, Times
  <2>8. LeewayOK'
    BY <1>1, <1>2, <2>7, Times DEF RedisInv, LeewayOK
  <2>9. ASSUME NEW s \in Seats, NEW v \in Users, Live(s), seat[s].by = v, Secure(s)'
        PROVE  SessionBacks(v, s)' /\ Recorded(v, s)'
    <3>1. seat' = seat /\ index' = index /\ clock' = clock /\ seat[s].until \in Nat
      BY <1>1 DEF db, TypeOK
    <3>2. leeway[s] \in Nat /\ leeway'[s] \in Nat /\ leeway[s] >= Second /\ leeway'[s] >= leeway[s]
      BY <1>1, <1>2, <2>7 DEF RedisInv, LeewayOK
    <3>3. Secure(s)
      BY <1>2, <2>9, <3>1, <3>2 DEF Secure
    <3>4. Recorded(v, s) /\ SessionBacks(v, s) /\ EndFits(v, seat[s].until)
      BY <1>1, <1>3, <2>9, <3>3 DEF RedisInv, Backed
    <3>5. Recorded(v, s)'
      <4>1. index[v].exp \in Nat
        BY <1>1 DEF TypeOK
      <4> QED
        BY <3>1, <3>2, <3>4, <4>1 DEF Recorded
    <3>6. CASE v # u
      <4>1. leeway'[s] = leeway[s] /\ session'[v] = session[v]
        BY <2>3, <2>7, <2>9, <3>6 DEF LiveHolds
      <4> QED
        BY <3>1, <3>4, <3>5, <4>1 DEF SessionBacks
    <3>7. CASE v = u /\ end >= session[u]
      <4> HIDE DEF end
      <4>1. session'[v] >= session[v] /\ session'[v] \in Nat /\ session[v] \in Nat
        BY <1>2, <2>3, <2>4, <3>7
      <4> QED
        BY <3>1, <3>2, <3>4, <3>5, <4>1, Times DEF SessionBacks
    <3>8. CASE v = u /\ end < session[u]
      <4>1. s \in LiveHolds(u)
        BY <2>9, <3>8 DEF LiveHolds, Live
      <4>2. leeway'[s] = leeway[s] + Half
        <5> HIDE DEF end
        <5> QED
          BY <2>7, <3>8, <4>1
      <4>3. session[u] \in Nat /\ session[u] + leeway[s] >= seat[s].until + Spare
        BY <1>2, <3>4, <3>8 DEF SessionBacks
      <4>4. seat[s].until <= e + Half
        <5>1. ~(e < clock + Spare)
          <6> HIDE DEF login, e
          <6>1. e >= clock + Spare
            <7>1. e - clock \in Nat /\ e = clock + (e - clock) /\ TTL(e) = Rounded(e - clock)
              BY <1>2, <1>10, TTLFacts DEF login
            <7>2. e - clock >= Spare
              BY <1>10, <7>1, RoundedTimes DEF login
            <7> QED
              BY <1>2, <7>1, <7>2, Times
          <6> QED
            BY <1>2, <6>1, Times
        <5> QED
          BY <1>4, <3>4, <3>8, <5>1 DEF EndFits
      <4>5. end + leeway[s] + Half >= seat[s].until + Spare
        <5>1. CASE ttl = req[r].ttl
          <6>1. session[u] < clock + req[r].ttl + Spare
            BY <1>4 DEF NearSession
          <6> HIDE DEF ttl, end, login, e
          <6> QED
            BY <1>2, <2>2, <3>1, <3>2, <4>3, <5>1, <6>1, Times
        <5>2. CASE ttl = login
          <6> HIDE DEF ttl, end, login, e
          <6> QED
            BY <1>2, <2>1, <2>2, <3>1, <3>2, <4>4, <5>2, Times
        <5> QED
          BY <2>2, <5>1, <5>2
      <4>6. session'[v] + leeway'[s] >= seat'[s].until + Spare
        <5> HIDE DEF end, ttl
        <5>1. end \in Nat
          BY <1>2, <2>2
        <5> QED
          BY <2>3, <3>1, <3>2, <3>8, <4>2, <4>5, <5>1, Times
      <4> QED
        BY <3>5, <4>6 DEF SessionBacks
    <3>9. end \in Nat /\ session[u] \in Nat
      <4> HIDE DEF ttl
      <4> QED
        BY <1>2, <2>2
    <3> HIDE DEF end
    <3> QED
      BY <3>6, <3>7, <3>8, <3>9
  <2>10. \A s \in Seats : \A v \in Users : Live(s) /\ seat[s].by = v =>
           /\ DashboardAnswers => lock'[s] = lock[s]
           /\ Secure(s)' => SessionBacks(v, s)' /\ Recorded(v, s)'
    BY <1>1, <2>9
  <2> QED
    BY <1>1, <2>6, <2>8, <2>10, KeysKept
<1> QED
  BY <1>7, <1>9, <1>10 DEF HoldClip

\* SET NX touches no lock that is there.
LEMMA HoldLockAgrees ==
  ASSUME AgreeInv, NEW r \in Requests, HoldLock(r)
  PROVE  RedisInv'
<1>1. /\ TypeInv /\ TypeOK /\ Exclusive /\ FlightOK /\ RedisInv /\ req \in [Requests -> Request]
      /\ req[r].pc = "holdLock" /\ req[r].pc \in Section
      /\ UNCHANGED <<db, index, session, clock, leeway>>
  BY DEF AgreeInv, SaleInv, TypeInv, TypeOK, RequestsOK, RedisInv, HoldLock, Section
<1>2. req[r].user \in Users /\ req[r] \in Request
  BY <1>1, SectionUser
<1>3. \A s \in Seats : ~Pending(s)
  BY <1>1, NonePending
<1>4. CASE End(r) /\ UNCHANGED lock
  <2>1. FlightOK'
    BY <1>1, <1>4, EndFlight
  <2> QED
    BY <1>1, <1>3, <1>4, <2>1, OnlyRequests DEF redis
<1>5. CASE /\ ~LockTaken(req[r].seats)
           /\ lock' = [s \in Seats |-> IF s \in req[r].seats THEN LockFor(req[r].user, req[r].ttl) ELSE lock[s]]
           /\ Goto(r, "holdCommit")
  <2>1. DashboardAnswers => \A s \in req[r].seats : ~Live(s)
    <3> SUFFICES ASSUME DashboardAnswers, NEW s \in req[r].seats, Live(s) PROVE FALSE
      OBVIOUS
    <3>1. s \in Seats /\ lock[s].user = NoUser
      BY <1>2, <1>5 DEF LockTaken
    <3>2. seat[s].by \in Users
      BY <1>1, <3>1 DEF RedisInv, HolderNamed, Live
    <3>3. lock[s].user = seat[s].by
      BY <1>1, <3>1, <3>2 DEF RedisInv, Backed, LockBacks
    <3> QED
      BY <3>1, <3>2, <3>3, UserAssumption
  <2>2. FlightOK'
    <3>1. PICK p : /\ p.pc = "holdCommit" /\ p.now = req[r].now /\ p.ttl = req[r].ttl
                   /\ p.user = req[r].user /\ p.login = req[r].login /\ p.seats = req[r].seats
                   /\ req' = [req EXCEPT ![r] = p]
      BY <1>5, MoveRecord DEF Goto
    <3>2. /\ p.login \in AuthEnds[p.user] /\ p.user \in Users
          /\ p.now = clock /\ p.ttl >= Second /\ HasSession(p.user)
          /\ NearSession(p.user, p.now + p.ttl) /\ EndFits(p.user, p.now + p.ttl)
      BY <1>1, <1>2, <3>1 DEF FlightOK, InFlight, Holding
    <3>3. /\ HasSession(p.user)' /\ NearSession(p.user, p.now + p.ttl)'
          /\ EndFits(p.user, p.now + p.ttl)'
      BY <1>1, <3>2, SameRows DEF HasSession, NearSession, TTL
    <3>4. \A s \in p.seats : lock'[s] = LockFor(p.user, p.ttl)'
      BY <1>1, <1>2, <1>5, <3>1 DEF LockFor
    <3>5. DashboardAnswers => \A s \in p.seats : ~Live(s)'
      BY <1>1, <1>2, <2>1, <3>1, SameRows
    <3>6. InFlight(p)'
      BY <1>1, <3>1, <3>2, <3>3, <3>4, <3>5 DEF InFlight, Holding, Clearing, DashboardAnswers
    <3> QED
      BY <1>1, <3>1, <3>6, FlightStep
  <2>3. \A s \in Seats : \A v \in Users : Live(s) /\ seat[s].by = v =>
          (DashboardAnswers => lock'[s] = lock[s]) /\ (Secure(s) => Recorded(v, s)')
    <3> SUFFICES ASSUME NEW s \in Seats, NEW v \in Users, Live(s), seat[s].by = v
                 PROVE  (DashboardAnswers => lock'[s] = lock[s]) /\ (Secure(s) => Recorded(v, s)')
      OBVIOUS
    <3>1. Secure(s) => Recorded(v, s)
      BY <1>1, <1>3, AllRecorded
    <3> QED
      BY <1>1, <1>5, <2>1, <3>1 DEF Recorded, db
  <2> QED
    BY <1>1, <2>2, <2>3, KeysSame
<1> QED
  BY <1>4, <1>5 DEF HoldLock

\* Deleting the locks of seats that no one holds.
LEMMA UnlockAgrees ==
  ASSUME RedisInv, NEW S \in SUBSET Seats, \A s \in Seats : ~Pending(s),
         DashboardAnswers => \A s \in S : ~Live(s),
         lock' = [s \in Seats |-> IF s \in S THEN NoLock ELSE lock[s]],
         UNCHANGED <<db, index, session, clock, leeway>>, FlightOK'
  PROVE  RedisInv'
<1>1. \A s \in Seats : \A v \in Users : Live(s) /\ seat[s].by = v =>
        (DashboardAnswers => lock'[s] = lock[s]) /\ (Secure(s) => Recorded(v, s)')
  <2> SUFFICES ASSUME NEW s \in Seats, NEW v \in Users, Live(s), seat[s].by = v
               PROVE  (DashboardAnswers => lock'[s] = lock[s]) /\ (Secure(s) => Recorded(v, s)')
    OBVIOUS
  <2>1. Secure(s) => Recorded(v, s)
    BY AllRecorded
  <2> QED
    BY <2>1 DEF Recorded, db
<1>2. UNCHANGED <<db, clock, session, leeway>>
  OBVIOUS
<1> QED
  BY <1>1, <1>2, KeysSame

LEMMA HoldUndoAgrees ==
  ASSUME AgreeInv, NEW r \in Requests, HoldUndo(r)
  PROVE  RedisInv'
<1>1. /\ TypeInv /\ TypeOK /\ Exclusive /\ FlightOK /\ RedisInv /\ req \in [Requests -> Request]
      /\ req[r].pc = "holdUndo" /\ req[r].pc \in Section /\ End(r)
  BY DEF AgreeInv, SaleInv, TypeInv, TypeOK, RequestsOK, RedisInv, HoldUndo, Section
<1>2. req[r].seats \in SUBSET Seats
  BY <1>1, SectionUser
<1>3. DashboardAnswers => \A s \in req[r].seats : ~Live(s)
  BY <1>1 DEF FlightOK, InFlight
<1>4. FlightOK'
  BY <1>1, EndFlight
<1>5. \A s \in Seats : ~Pending(s)
  BY <1>1, NonePending
<1> QED
  BY <1>1, <1>2, <1>3, <1>4, <1>5, UnlockAgrees DEF HoldUndo

LEMMA HoldReturnAgrees ==
  ASSUME OneProcess, AgreeInv, NEW r \in Requests, HoldReturn(r)
  PROVE  RedisInv'
<1>1. /\ TypeInv /\ TypeOK /\ Exclusive /\ FlightOK /\ RedisInv /\ req \in [Requests -> Request]
      /\ req[r].pc = "announce" /\ End(r) /\ ~Running(req[r].loop)
      /\ UNCHANGED <<db, index, session, clock, leeway>>
  BY DEF AgreeInv, SaleInv, TypeInv, TypeOK, RequestsOK, RedisInv, HoldReturn
<1>2. req[r].loop \in Loops /\ req[r].seats \in SUBSET Seats
  BY <1>1 DEF FlightOK, InFlight
<1>3. \A x \in Requests : req[x].pc \notin Section
  BY <1>1, <1>2, NoneRunning
<1>4. FlightOK'
  BY <1>1, <1>3, EndFlight
<1>5. \A s \in Seats : ~Pending(s)
  BY <1>3 DEF Pending, Section
<1>6. CASE UNCHANGED lock
  BY <1>1, <1>4, <1>5, <1>6, OnlyRequests DEF redis
<1>7. CASE /\ ~DashboardAnswers
           /\ lock' = [s \in Seats |-> IF s \in req[r].seats THEN NoLock ELSE lock[s]]
  BY <1>1, <1>2, <1>4, <1>5, <1>7, UnlockAgrees
<1> QED
  BY <1>6, <1>7 DEF HoldReturn, DashboardAnswers

\* ZADD and EXPIRE: the entry of the new hold, and an expiry that ends none of
\* the others earlier than its leeway.
LEMMA HoldIndexAgrees ==
  ASSUME AgreeInv, NEW r \in Requests, HoldIndex(r)
  PROVE  RedisInv'
<1> DEFINE u     == req[r].user
           until == req[r].now + req[r].ttl
           score == [s \in Seats |-> IF s \in req[r].seats THEN until ELSE index[u].score[s]]
<1>1. /\ TypeInv /\ TypeOK /\ Exclusive /\ FlightOK /\ RedisInv /\ req \in [Requests -> Request]
      /\ req[r].pc = "holdIndex" /\ req[r].pc \in Section
      /\ UNCHANGED <<db, lock, session, clock, leeway>>
  BY DEF AgreeInv, SaleInv, TypeInv, TypeOK, RequestsOK, RedisInv, HoldIndex, Section
<1>2. u \in Users /\ req[r] \in Request /\ index \in [Users -> Index]
  BY <1>1, SectionUser DEF TypeOK
<1>3. /\ req[r].now = clock /\ NearSession(u, until) /\ until \in Nat /\ session[u] \in Nat
      /\ \A s \in req[r].seats : seat[s] = Held(u, until)
  BY <1>1, <1>2 DEF FlightOK, InFlight, Holding, TypeOK
<1>4. index' = [index EXCEPT ![u] = [score |-> score, exp |-> until]]
  BY <1>3 DEF HoldIndex
<1>5. FlightOK'
  <2>1. PICK p : p = [pc |-> "announce", loop |-> req[r].loop, user |-> NoUser, login |-> 0,
                      seats |-> req[r].seats, seen |-> Idle.seen, now |-> 0, ttl |-> 0]
    OBVIOUS
  <2>2. p.pc = "announce" /\ p.loop \in Loops /\ req' = [req EXCEPT ![r] = p]
    BY <1>1, <2>1 DEF HoldIndex, Exclusive
  <2>3. InFlight(p)'
    BY <2>2 DEF InFlight, Holding, Clearing
  <2> QED
    BY <1>1, <2>2, <2>3, FlightStep
<1>6. \A s \in Seats : \A v \in Users : Live(s) /\ seat[s].by = v /\ Secure(s) => Recorded(v, s)'
  <2> SUFFICES ASSUME NEW s \in Seats, NEW v \in Users, Live(s), seat[s].by = v, Secure(s)
               PROVE  Recorded(v, s)'
    OBVIOUS
  <2>1. /\ seat' = seat /\ leeway' = leeway /\ seat[s].until \in Nat
        /\ leeway[s] \in Nat /\ leeway[s] >= Second
    BY <1>1 DEF db, TypeOK, RedisInv, LeewayOK
  <2>2. session[v] + leeway[s] >= seat[s].until + Spare
    BY <1>1 DEF RedisInv, Backed, SessionBacks
  <2>3. CASE s \in req[r].seats
    <3>1. v = u /\ seat[s].until = until
      BY <1>3, <2>3 DEF Held
    <3>2. index'[v].score[s] = until /\ index'[v].exp = until
      BY <1>2, <1>4, <2>3, <3>1
    <3>3. until + leeway[s] > until
      BY <1>3, <2>1, Times
    <3> QED
      BY <2>1, <3>1, <3>2, <3>3 DEF Recorded
  <2>4. CASE s \notin req[r].seats
    <3>1. Recorded(v, s)
      <4>1. ~Pending(s)
        BY <1>1, <2>4 DEF Pending, Exclusive, Section
      <4> QED
        BY <1>1, <4>1 DEF RedisInv, Backed
    <3>2. CASE v = u
      <4>1. index'[v].score[s] = index[v].score[s] /\ index'[v].exp = until
        BY <1>2, <1>4, <2>4, <3>2
      <4>2. until + leeway[s] > seat[s].until
        <5>1. session[u] < until + Spare
          BY <1>3 DEF NearSession
        <5> HIDE DEF until, u
        <5> QED
          BY <1>3, <2>1, <2>2, <3>2, <5>1, Times
      <4> QED
        BY <2>1, <3>1, <4>1, <4>2 DEF Recorded
    <3>3. CASE v # u
      <4>1. index'[v] = index[v]
        BY <1>2, <1>4, <3>3
      <4> QED
        BY <2>1, <3>1, <4>1 DEF Recorded
    <3> QED
      BY <3>2, <3>3
  <2> QED
    BY <2>3, <2>4
<1>7. UNCHANGED <<db, clock, session, leeway>>
  BY <1>1
<1> QED
  BY <1>1, <1>5, <1>6, <1>7, KeysSame

\* Both ways to give a seat up, release and checkout, delete its lock and its
\* entry in the index once the row is no hold any more.
LEMMA ClearUnlockAgrees ==
  ASSUME AgreeInv, NEW r \in Requests, ReleaseUnlock(r) \/ CheckoutUnlock(r)
  PROVE  RedisInv'
<1>1. /\ TypeInv /\ TypeOK /\ Exclusive /\ FlightOK /\ RedisInv /\ req \in [Requests -> Request]
      /\ req[r].pc \in {"releaseUnlock", "checkoutUnlock"} /\ req[r].pc \in Section
      /\ UNCHANGED <<db, index, session, clock, leeway>>
      /\ lock' = [s \in Seats |-> IF s \in req[r].seats THEN NoLock ELSE lock[s]]
  BY DEF AgreeInv, SaleInv, TypeInv, TypeOK, RequestsOK, RedisInv, ReleaseUnlock, CheckoutUnlock, Section
<1>2. req[r].seats \in SUBSET Seats
  BY <1>1, SectionUser
<1>3. \A s \in req[r].seats : ~Live(s)
  BY <1>1 DEF FlightOK, InFlight, Clearing
<1>4. FlightOK'
  <2>1. PICK pc \in {"releaseUnindex", "checkoutUnindex"} : Goto(r, pc)
    BY DEF ReleaseUnlock, CheckoutUnlock
  <2>2. PICK p : p.pc = pc /\ p.seats = req[r].seats /\ req' = [req EXCEPT ![r] = p]
    BY <2>1, MoveRecord DEF Goto
  <2>3. \A s \in p.seats : ~Live(s)'
    BY <1>1, <1>2, <1>3, <2>2, SameRows
  <2>4. InFlight(p)'
    BY <2>2, <2>3 DEF InFlight, Holding, Clearing
  <2> QED
    BY <1>1, <2>2, <2>4, FlightStep
<1>5. \A s \in Seats : ~Pending(s)
  BY <1>1, NonePending
<1> QED
  BY <1>1, <1>2, <1>3, <1>4, <1>5, UnlockAgrees

\* ZREM of seats that no one holds loses no entry that counts.
LEMMA UnindexAgrees ==
  ASSUME TypeOK, RedisInv, NEW u \in Users, NEW S \in SUBSET Seats, \A s \in Seats : ~Pending(s),
         \A s \in S : ~Live(s),
         index' = [index EXCEPT ![u] = Without(@, S)],
         UNCHANGED <<db, lock, session, clock, leeway>>, FlightOK'
  PROVE  RedisInv'
<1>1. UNCHANGED <<db, clock, session, leeway>>
  OBVIOUS
<1>2. \A s \in Seats : \A v \in Users : Live(s) /\ seat[s].by = v /\ Secure(s) => Recorded(v, s)'
  <2> SUFFICES ASSUME NEW s \in Seats, NEW v \in Users, Live(s), seat[s].by = v, Secure(s)
               PROVE  Recorded(v, s)'
    OBVIOUS
  <2>1. Recorded(v, s)
    BY AllRecorded
  <2>2. index[v] \in Index /\ index \in [Users -> Index] /\ index[v].score[s] # 0
    BY <2>1, LiveMember DEF TypeOK
  <2>3. Without(index[v], S).score[s] = index[v].score[s] /\ Without(index[v], S).exp = index[v].exp
    BY <2>2, EntryKept
  <2>4. index'[v] = index[v] \/ index'[v] = Without(index[v], S)
    BY <2>2
  <2>5. index'[v].score[s] = index[v].score[s] /\ index'[v].exp = index[v].exp
    BY <2>3, <2>4
  <2> QED
    BY <2>1, <2>5 DEF Recorded, db
<1> QED
  BY <1>1, <1>2, KeysSame

LEMMA ReleaseUnindexAgrees ==
  ASSUME AgreeInv, NEW r \in Requests, ReleaseUnindex(r)
  PROVE  RedisInv'
<1>1. /\ TypeInv /\ TypeOK /\ Exclusive /\ FlightOK /\ RedisInv /\ req \in [Requests -> Request]
      /\ req[r].pc = "releaseUnindex" /\ req[r].pc \in Section /\ End(r)
  BY DEF AgreeInv, SaleInv, TypeInv, TypeOK, RequestsOK, RedisInv, ReleaseUnindex, Section
<1>2. req[r].seats \in SUBSET Seats /\ req[r].user \in Users
  BY <1>1, SectionUser
<1>3. \A s \in req[r].seats : ~Live(s)
  BY <1>1 DEF FlightOK, InFlight, Clearing
<1>4. FlightOK'
  BY <1>1, EndFlight
<1>5. \A s \in Seats : ~Pending(s)
  BY <1>1, NonePending
<1> QED
  BY <1>1, <1>2, <1>3, <1>4, <1>5, UnindexAgrees DEF ReleaseUnindex

LEMMA CheckoutUnindexAgrees ==
  ASSUME AgreeInv, NEW r \in Requests, CheckoutUnindex(r)
  PROVE  RedisInv'
<1>1. /\ TypeInv /\ TypeOK /\ Exclusive /\ FlightOK /\ RedisInv /\ req \in [Requests -> Request]
      /\ req[r].pc = "checkoutUnindex" /\ req[r].pc \in Section
      /\ UNCHANGED <<db, lock, session, clock, leeway>>
      /\ index' = [index EXCEPT ![req[r].user] = Without(@, req[r].seats)]
  BY DEF AgreeInv, SaleInv, TypeInv, TypeOK, RequestsOK, RedisInv, CheckoutUnindex, Section
<1>2. req[r].seats \in SUBSET Seats /\ req[r].user \in Users /\ index \in [Users -> Index]
  BY <1>1, SectionUser DEF TypeOK
<1>3. \A s \in req[r].seats : ~Live(s)
  BY <1>1 DEF FlightOK, InFlight, Clearing
<1>4. FlightOK'
  <2>1. CASE End(r)
    BY <1>1, <2>1, EndFlight
  <2>2. CASE Leaves(Without(index[req[r].user], req[r].seats)) /\ Goto(r, "checkoutLeave")
    <3>1. PICK p : p.pc = "checkoutLeave" /\ p.user = req[r].user /\ req' = [req EXCEPT ![r] = p]
      BY <2>2, MoveRecord DEF Goto
    <3>2. Members(index'[p.user]) = {}
      BY <1>1, <1>2, <2>2, <3>1 DEF Leaves
    <3>3. InFlight(p)'
      BY <3>1, <3>2 DEF InFlight, Holding, Clearing
    <3> QED
      BY <1>1, <3>1, <3>3, FlightStep
  <2> QED
    BY <2>1, <2>2 DEF CheckoutUnindex
<1>5. \A s \in Seats : ~Pending(s)
  BY <1>1, NonePending
<1> QED
  BY <1>1, <1>2, <1>3, <1>4, <1>5, UnindexAgrees

\* A session is ended only when its user has no hold with time to spare.
LEMMA CheckoutLeaveAgrees ==
  ASSUME AgreeInv, NEW r \in Requests, CheckoutLeave(r)
  PROVE  RedisInv'
<1>1. /\ TypeInv /\ TypeOK /\ Exclusive /\ FlightOK /\ RedisInv /\ req \in [Requests -> Request]
      /\ req[r].pc = "checkoutLeave" /\ req[r].pc \in Section /\ End(r)
      /\ UNCHANGED <<db, lock, index, clock, leeway>>
      /\ session' = [session EXCEPT ![req[r].user] = 0]
  BY DEF AgreeInv, SaleInv, TypeInv, TypeOK, RequestsOK, RedisInv, CheckoutLeave, Section
<1>2. req[r].user \in Users /\ session \in [Users -> Nat]
  BY <1>1, SectionUser DEF TypeOK
<1>3. Members(index[req[r].user]) = {}
  BY <1>1 DEF FlightOK, InFlight
<1>4. FlightOK'
  BY <1>1, EndFlight
<1>5. \A s \in Seats : ~Pending(s)
  BY <1>1, NonePending
<1>6. LeewayOK'
  BY <1>1 DEF RedisInv, LeewayOK
<1>7. \A s \in Seats : \A v \in Users : Live(s) /\ seat[s].by = v /\ Secure(s)' =>
        SessionBacks(v, s)' /\ Recorded(v, s)'
  <2> SUFFICES ASSUME NEW s \in Seats, NEW v \in Users, Live(s), seat[s].by = v, Secure(s)'
               PROVE  SessionBacks(v, s)' /\ Recorded(v, s)'
    OBVIOUS
  <2>0. Secure(s) /\ seat' = seat
    BY <1>1 DEF Secure, db
  <2>1. Recorded(v, s) /\ SessionBacks(v, s)
    BY <1>1, <1>5, <2>0, AllRecorded DEF RedisInv, Backed
  <2>2. s \in Members(index[v])
    BY <1>1, <2>1, LiveMember
  <2>3. v # req[r].user
    BY <1>3, <2>2
  <2>4. session'[v] = session[v]
    BY <1>1, <1>2, <2>3
  <2> QED
    BY <1>1, <2>0, <2>1, <2>4 DEF Recorded, SessionBacks
<1> QED
  BY <1>1, <1>4, <1>6, <1>7, KeysKept

LEMMA CheckoutChecksAgree ==
  ASSUME AgreeInv, NEW r \in Requests, CheckoutAdmit(r) \/ CheckoutOwn(r)
  PROVE  RedisInv'
<1>1. /\ TypeInv /\ TypeOK /\ Exclusive /\ FlightOK /\ RedisInv /\ req \in [Requests -> Request]
      /\ req[r].pc \in {"checkoutAdmit", "checkoutOwn"} /\ req[r].pc \in Section
      /\ UNCHANGED <<db, redis, clock, leeway>>
  BY DEF AgreeInv, SaleInv, TypeInv, TypeOK, RequestsOK, RedisInv, CheckoutAdmit, CheckoutOwn, Section
<1>2. FlightOK'
  <2>1. CASE End(r)
    BY <1>1, <2>1, EndFlight
  <2>2. CASE Goto(r, "checkoutOwn")
    <3>1. PICK p : p.pc = "checkoutOwn" /\ req' = [req EXCEPT ![r] = p]
      BY <2>2, MoveRecord DEF Goto
    <3>2. InFlight(p)'
      BY <3>1 DEF InFlight, Holding, Clearing
    <3> QED
      BY <1>1, <3>1, <3>2, FlightStep
  <2>3. CASE Move(r, "checkoutCommit", clock, req[r].ttl)
    <3>1. PICK p : p.pc = "checkoutCommit" /\ p.now = clock /\ req' = [req EXCEPT ![r] = p]
      BY <2>3, MoveRecord
    <3>2. InFlight(p)'
      BY <1>1, <3>1 DEF InFlight, Holding, Clearing
    <3> QED
      BY <1>1, <3>1, <3>2, FlightStep
  <2> QED
    BY <2>1, <2>2, <2>3 DEF CheckoutAdmit, CheckoutOwn
<1>3. \A s \in Seats : ~Pending(s)
  BY <1>1, NonePending
<1> QED
  BY <1>1, <1>2, <1>3, OnlyRequests

\* A session is granted only to a user with no second left, and ends later than
\* the one it replaces.
LEMMA GrantAgrees ==
  ASSUME AgreeInv, NEW u \in Users, Grant(u)
  PROVE  RedisInv'
<1>1. /\ TypeInv /\ TypeOK /\ FlightOK /\ RedisInv /\ ~HasSession(u)
      /\ session' = [session EXCEPT ![u] = clock + SessionLife]
      /\ UNCHANGED <<db, lock, index, req, clock, leeway>>
  <2>1. TTL(session[u]) <= 0 => ~(TTL(session[u]) > 0)
    <3>1. session[u] \in Nat /\ clock \in Nat /\ (session[u] = 0 \/ session[u] > clock)
      BY DEF AgreeInv, SaleInv, TypeInv, TypeOK, SessionAlive
    <3>2. session[u] = 0 => TTL(session[u]) = -2
      BY DEF TTL
    <3>3. TTL(session[u]) \in Int
      BY <3>1, <3>2, TTLFacts
    <3> QED
      BY <3>3
  <2> QED
    BY <2>1 DEF AgreeInv, SaleInv, TypeInv, RedisInv, Grant, HasSession
<1>2. session \in [Users -> Nat] /\ clock \in Nat /\ req \in [Requests -> Request]
  BY <1>1 DEF TypeOK
<1>3. \A v \in Users : v # u => session'[v] = session[v]
  BY <1>1, <1>2
<1>4. session'[u] \in Nat /\ session'[u] >= session[u]
  <2>1. session[u] < clock + Spare
    BY <1>1, <1>2, SessionTimes, Times
  <2>2. SessionLife \in Nat /\ SessionLife >= Second
    BY TimeAssumption DEF SessionLife
  <2> QED
    BY <1>1, <1>2, <2>1, <2>2, Times
<1>5. FlightOK'
  <2> SUFFICES ASSUME NEW r \in Requests PROVE InFlight(req[r])'
    BY DEF FlightOK
  <2>1. req'[r] = req[r] /\ req[r] \in Request /\ InFlight(req[r])
    BY <1>1, <1>2 DEF FlightOK
  <2>2. req[r].pc \in Holding => req[r].user # u
    BY <1>1, <2>1 DEF InFlight
  <2>3. req[r].pc \in Holding => req[r].user \in Users
    BY DEF AgreeInv, SaleInv, TypeInv, RequestOK, Holding, Section
  <2>4. req[r].pc \in Holding => session'[req[r].user] = session[req[r].user]
    BY <1>3, <2>2, <2>3
  <2>5. \A s \in req[r].seats : Live(s)' = Live(s)
    BY <1>1, <2>1, SameRows
  <2>6. clock' = clock /\ lock' = lock /\ seat' = seat /\ index' = index
    BY <1>1 DEF db
  <2>7. req[r].pc \in Holding =>
          /\ HasSession(req[r].user)' = HasSession(req[r].user)
          /\ NearSession(req[r].user, req[r].now + req[r].ttl)' =
             NearSession(req[r].user, req[r].now + req[r].ttl)
    BY <2>1, <2>4, <2>6 DEF HasSession, NearSession, TTL
  <2>8. EndFits(req[r].user, req[r].now + req[r].ttl)' = EndFits(req[r].user, req[r].now + req[r].ttl)
    BY <2>1, <2>6 DEF EndFits
  <2>9. InFlight(req[r]) => InFlight(req[r])'
    BY <2>1, <2>5, <2>6, <2>7, <2>8 DEF InFlight, LockFor, DashboardAnswers, Holding, Members
  <2> QED
    BY <2>1, <2>9
<1>6. LeewayOK'
  BY <1>1 DEF RedisInv, LeewayOK
<1>7. \A s \in Seats : \A v \in Users : Live(s) /\ seat[s].by = v /\ Secure(s)' =>
        SessionBacks(v, s)' /\ (Recorded(v, s)' \/ Pending(s)')
  <2> SUFFICES ASSUME NEW s \in Seats, NEW v \in Users, Live(s), seat[s].by = v, Secure(s)'
               PROVE  SessionBacks(v, s)' /\ (Recorded(v, s)' \/ Pending(s)')
    OBVIOUS
  <2>1. Secure(s) /\ seat' = seat /\ leeway' = leeway
    BY <1>1 DEF Secure, db
  <2>2. SessionBacks(v, s) /\ (Recorded(v, s) \/ Pending(s))
    BY <1>1, <2>1 DEF RedisInv, Backed
  <2>3. session'[v] \in Nat /\ session[v] \in Nat /\ session'[v] >= session[v]
    BY <1>2, <1>3, <1>4
  <2>4. seat[s].until \in Nat /\ leeway[s] \in Nat
    BY <1>1 DEF TypeOK
  <2>5. SessionBacks(v, s)'
    <3>1. session[v] + leeway[s] >= seat[s].until + Spare
      BY <2>2 DEF SessionBacks
    <3>2. session'[v] + leeway'[s] >= seat'[s].until + Spare
      BY <2>1, <2>3, <2>4, <3>1, Times
    <3> QED
      BY <3>2 DEF SessionBacks
  <2> QED
    BY <1>1, <2>1, <2>2, <2>5 DEF Recorded, Pending
<1>8. \A s \in Seats : lock'[s] = lock[s]
  BY <1>1
<1> QED
  BY <1>1, <1>5, <1>6, <1>7, <1>8, KeysKept

-----------------------------------------------------------------------------
(* Steps that write rows *)

\* Rows that stay or stop being live, and keys that stay.
LEMMA RowsAgree ==
  ASSUME RedisInv, UNCHANGED <<redis, clock, leeway>>, FlightOK', HolderNamed',
         \A s \in Seats : ~Pending(s),
         \A s \in Seats : Live(s)' => Live(s) /\ seat'[s] = seat[s]
  PROVE  RedisInv'
<1>1. UNCHANGED <<lock, index, session, clock, leeway>>
  BY DEF redis
<1>2. LeewayOK'
  BY <1>1 DEF RedisInv, LeewayOK
<1>3. Backed'
  <2> SUFFICES ASSUME NEW s \in Seats, NEW u \in Users, Live(s)', seat'[s].by = u
               PROVE  /\ DashboardAnswers => LockBacks(u, s)'
                      /\ EndFits(u, seat[s].until)'
                      /\ Secure(s)' => SessionBacks(u, s)' /\ (Recorded(u, s)' \/ Pending(s)')
    BY DEF Backed, DashboardAnswers
  <2>1. Live(s) /\ seat'[s] = seat[s] /\ (Secure(s)' <=> Secure(s))
    BY <1>1 DEF Secure
  <2>2. /\ DashboardAnswers => LockBacks(u, s)
        /\ EndFits(u, seat[s].until)
        /\ Secure(s) => SessionBacks(u, s) /\ Recorded(u, s)
    BY <2>1 DEF RedisInv, Backed
  <2> QED
    BY <1>1, <2>1, <2>2 DEF LockBacks, SessionBacks, EndFits, Recorded
<1> QED
  BY <1>2, <1>3 DEF RedisInv

\* What happens to the rows when the seats in S get row and the lapsed holds go.
LEMMA AfterRows ==
  ASSUME TypeOK, NEW S, NEW row, NEW E, seat' = After(S, row, E), UNCHANGED clock,
         E = {} \/ \E now \in Nat : now <= clock /\ E = Expired(now)
  PROVE  /\ \A s \in Seats : s \in S => seat'[s] = row
         /\ \A s \in Seats : s \notin S => seat'[s] = seat[s] \/ (seat'[s] = Free /\ ~Live(s))
         /\ \A s \in Seats : Live(s)' /\ s \notin S => Live(s) /\ seat'[s] = seat[s]
<1>1. \A s \in E : ~Live(s)
  <2> SUFFICES ASSUME NEW s \in E, Live(s) PROVE FALSE
    OBVIOUS
  <2>1. PICK now \in Nat : now <= clock /\ s \in Expired(now)
    OBVIOUS
  <2>2. s \in Seats /\ seat[s].until < now /\ seat[s].until > clock
    BY <2>1 DEF Expired, Live
  <2>3. seat[s].until \in Nat /\ clock \in Nat
    BY <2>2 DEF TypeOK
  <2> QED
    BY <2>1, <2>2, <2>3
<1>2. \A s \in Seats : s \notin S => seat'[s] = seat[s] \/ (seat'[s] = Free /\ ~Live(s))
  <2> SUFFICES ASSUME NEW s \in Seats, s \notin S
               PROVE  seat'[s] = seat[s] \/ (seat'[s] = Free /\ ~Live(s))
    OBVIOUS
  <2>1. seat'[s] = IF s \in E THEN Free ELSE seat[s]
    BY DEF After
  <2> QED
    BY <1>1, <2>1
<1>3. \A s \in Seats : s \in S => seat'[s] = row
  BY DEF After
<1>4. \A s \in Seats : seat'[s] = Free => ~Live(s)'
  BY DEF Free, Live
<1> QED
  BY <1>2, <1>3, <1>4 DEF Live

\* Seats that are freed are held by no one afterwards, and name no one.
LEMMA FreedAgrees ==
  ASSUME TypeOK, RedisInv, NEW S, NEW E, seat' = After(S, Free, E),
         E = {} \/ \E now \in Nat : now <= clock /\ E = Expired(now),
         UNCHANGED <<owner, redis, clock, leeway>>, FlightOK', \A s \in Seats : ~Pending(s)
  PROVE  RedisInv'
<1>0. /\ \A s \in Seats : s \in S => seat'[s] = Free
      /\ \A s \in Seats : s \notin S => seat'[s] = seat[s] \/ seat'[s] = Free
      /\ \A s \in Seats : Live(s)' /\ s \notin S => Live(s) /\ seat'[s] = seat[s]
  BY AfterRows
<1>1. \A s \in Seats : s \in S => ~Live(s)'
  BY <1>0 DEF Free, Live
<1>2. \A s \in Seats : Live(s)' => Live(s) /\ seat'[s] = seat[s]
  BY <1>0, <1>1
<1>3. HolderNamed'
  BY <1>0 DEF RedisInv, HolderNamed, Free
<1> QED
  BY <1>2, <1>3, RowsAgree

LEMMA ReleaseCommitAgrees ==
  ASSUME AgreeInv, NEW r \in Requests, ReleaseCommit(r)
  PROVE  RedisInv'
<1>1. /\ TypeInv /\ TypeOK /\ Exclusive /\ FlightOK /\ RedisInv /\ req \in [Requests -> Request]
      /\ req[r].pc = "releaseCommit" /\ req[r].pc \in Section
      /\ UNCHANGED <<owner, redis, clock, leeway>>
  BY DEF AgreeInv, SaleInv, TypeInv, TypeOK, RequestsOK, RedisInv, ReleaseCommit, Section
<1>2. req[r].seats \in SUBSET Seats /\ clock \in Nat
  BY <1>1, SectionUser DEF TypeOK
<1>3. \A s \in Seats : ~Pending(s)
  BY <1>1, NonePending
<1>4. CASE End(r) /\ UNCHANGED seat
  <2>1. FlightOK'
    BY <1>1, <1>4, EndFlight
  <2> QED
    BY <1>1, <1>3, <1>4, <2>1, OnlyRequests DEF db
<1>5. CASE /\ seat' = [s \in Seats |-> IF s \in req[r].seats THEN Free ELSE seat[s]]
           /\ Goto(r, "releaseUnlock")
  <2>1. seat' = After(req[r].seats, Free, {})
    BY <1>5 DEF After
  <2>2. FlightOK'
    <3>1. PICK p : p.pc = "releaseUnlock" /\ p.seats = req[r].seats /\ req' = [req EXCEPT ![r] = p]
      BY <1>5, MoveRecord DEF Goto
    <3>2. \A s \in p.seats : ~Live(s)'
      BY <1>2, <1>5, <3>1 DEF Live, Free
    <3>3. InFlight(p)'
      BY <3>1, <3>2 DEF InFlight, Holding, Clearing
    <3> QED
      BY <1>1, <3>1, <3>3, FlightStep
  <2> QED
    BY <1>1, <1>3, <2>1, <2>2, FreedAgrees
<1> QED
  BY <1>4, <1>5 DEF ReleaseCommit

LEMMA ReleaseExpiredAgrees ==
  ASSUME OneProcess, AgreeInv, NEW l \in Loops, ReleaseExpired(l)
  PROVE  RedisInv'
<1>1. /\ TypeOK /\ Exclusive /\ FlightOK /\ RedisInv /\ clock \in Nat
      /\ UNCHANGED <<owner, redis, req, clock, leeway>>
  BY DEF AgreeInv, SaleInv, TypeInv, TypeOK, RequestsOK, RedisInv, ReleaseExpired
<1>2. seat' = After({}, Free, Expired(clock))
  BY DEF ReleaseExpired, After
<1>3. \A x \in Requests : req[x].pc \notin Section
  BY <1>1, NoneRunning DEF ReleaseExpired
<1>4. \A s \in Seats : ~Pending(s)
  BY <1>3 DEF Pending, Section
<1>5. FlightOK'
  <2> SUFFICES ASSUME NEW x \in Requests PROVE InFlight(req[x])'
    BY DEF FlightOK
  <2>1. req' = req /\ (req[x].pc = "announce" => req[x].loop \in Loops)
    BY <1>1 DEF FlightOK, InFlight
  <2> QED
    BY <1>3, <2>1 DEF InFlight, Section, Holding, Clearing
<1>6. clock <= clock
  BY <1>1
<1> QED
  BY <1>1, <1>2, <1>4, <1>5, <1>6, FreedAgrees

\* The new hold: what Redis keeps for it is there already, but for the index.
LEMMA HoldCommitAgrees ==
  ASSUME AgreeInv, NEW r \in Requests, HoldCommit(r)
  PROVE  RedisInv'
<1> DEFINE q    == req[r]
           mem  == Recalled(q.seen, q.now)
           hold == Held(q.user, q.now + q.ttl)
           want == [s \in Seats |-> IF s \in q.seats THEN hold ELSE mem[s]]
<1>1. /\ TypeInv /\ TypeOK /\ Exclusive /\ FlightOK /\ RedisInv /\ RequestsOK
      /\ req \in [Requests -> Request]
      /\ q.pc = "holdCommit" /\ q.pc \in Section /\ q.pc \in Loaded /\ q.pc \in Single
      /\ UNCHANGED <<owner, redis, clock>>
  BY DEF AgreeInv, SaleInv, TypeInv, TypeOK, RequestsOK, RedisInv, HoldCommit, Section, Loaded, Single
<1>2. q \in Request /\ q.user \in Users /\ clock \in Nat
  BY <1>1, SectionUser DEF TypeOK
<1>3. \A s \in Seats : ~Pending(s)
  BY <1>1, NonePending
<1>4. /\ q.login \in AuthEnds[q.user]
      /\ q.now = clock /\ q.ttl >= Second /\ HasSession(q.user)
      /\ NearSession(q.user, q.now + q.ttl) /\ EndFits(q.user, q.now + q.ttl)
      /\ \A s \in q.seats : lock[s] = LockFor(q.user, q.ttl)
      /\ DashboardAnswers => \A s \in q.seats : ~Live(s)
  BY <1>1 DEF FlightOK, InFlight, Holding
<1>5. CASE Goto(r, "holdUndo") /\ UNCHANGED <<seat, leeway>>
  <2>1. UNCHANGED <<db, clock>> /\ UNCHANGED <<db, redis, clock, leeway>>
    BY <1>1, <1>5 DEF db
  <2>2. FlightOK'
    <3>1. PICK p : p.pc = "holdUndo" /\ p.seats = q.seats /\ req' = [req EXCEPT ![r] = p]
      BY <1>5, MoveRecord DEF Goto
    <3>2. DashboardAnswers => \A s \in p.seats : ~Live(s)'
      BY <1>2, <1>4, <2>1, <3>1, SameRows
    <3>3. InFlight(p)'
      BY <3>1, <3>2 DEF InFlight, Holding, Clearing, DashboardAnswers
    <3> QED
      BY <1>1, <3>1, <3>3, FlightStep
  <2> QED
    BY <1>1, <1>3, <2>1, <2>2, OnlyRequests
<1>6. CASE /\ \A s \in q.seats : Holdable(mem[s], q.user, q.now)
           /\ seat' = Flushed(q.seen, want)
           /\ leeway' = [x \in Seats |-> IF x \in q.seats THEN Second ELSE leeway[x]]
           /\ Goto(r, "holdIndex")
  <2>1. PICK s \in Seats : q.seats = {s}
    BY <1>1 DEF RequestsOK, Shape
  <2>2. hold \in Row
    BY <1>2 DEF Held
  <2>3. seat' = After({s}, hold, Expired(clock))
    <3> HIDE DEF hold
    <3>1. seat' = After(q.seats, hold, Expired(q.now))
      BY <1>1, <1>6, <2>2, FreshCommit
    <3> QED
      BY <1>4, <2>1, <3>1
  <2>4. /\ seat'[s] = hold
        /\ \A x \in Seats : x # s => seat'[x] = seat[x] \/ seat'[x] = Free
        /\ \A x \in Seats : Live(x)' /\ x # s => Live(x) /\ seat'[x] = seat[x]
    <3>1. UNCHANGED clock /\ \E now \in Nat : now <= clock /\ Expired(clock) = Expired(now)
      BY <1>1, <1>2
    <3>2. /\ \A x \in Seats : x \in {s} => seat'[x] = hold
          /\ \A x \in Seats : x \notin {s} => seat'[x] = seat[x] \/ seat'[x] = Free
          /\ \A x \in Seats : Live(x)' /\ x \notin {s} => Live(x) /\ seat'[x] = seat[x]
      <4>1. TypeOK /\ seat' = After({s}, hold, Expired(clock))
        BY <1>1, <2>3
      <4> HIDE DEF hold, q
      <4> QED
        BY <3>1, <4>1, AfterRows
    <3> HIDE DEF hold
    <3> QED
      BY <3>2
  <2>5. FlightOK'
    <3>1. PICK p : /\ p.pc = "holdIndex" /\ p.now = q.now /\ p.ttl = q.ttl
                   /\ p.user = q.user /\ p.login = q.login /\ p.seats = q.seats
                   /\ req' = [req EXCEPT ![r] = p]
      BY <1>6, MoveRecord DEF Goto
    <3>2. \A x \in p.seats : seat'[x] = Held(p.user, p.now + p.ttl)
      BY <2>1, <2>4, <3>1
    <3>3. session' = session /\ clock' = clock
      BY <1>1 DEF redis
    <3>4. /\ HasSession(p.user)' /\ NearSession(p.user, p.now + p.ttl)'
          /\ EndFits(p.user, p.now + p.ttl)'
      BY <1>4, <3>1, <3>3 DEF HasSession, NearSession, EndFits, TTL
    <3>5. InFlight(p)'
      BY <1>4, <3>1, <3>2, <3>3, <3>4 DEF InFlight, Holding, Clearing
    <3> QED
      BY <1>1, <3>1, <3>5, FlightStep
  <2>6. Pending(s)'
    <3>1. PICK p : p.pc = "holdIndex" /\ p.seats = q.seats /\ req' = [req EXCEPT ![r] = p]
      BY <1>6, MoveRecord DEF Goto
    <3>2. req'[r] = p
      BY <1>1, <3>1
    <3> QED
      BY <2>1, <3>1, <3>2 DEF Pending
  <2>7. HolderNamed'
    BY <1>1, <1>2, <2>4 DEF RedisInv, HolderNamed, Held, Free
  <2>8. /\ leeway'[s] = Second /\ \A x \in Seats : x # s => leeway'[x] = leeway[x]
        /\ UNCHANGED <<lock, index, session, clock>>
    BY <1>1, <1>6, <2>1 DEF redis
  <2>9. LeewayOK'
    BY <1>1, <2>8, Times DEF RedisInv, LeewayOK
  <2>10. Backed'
    <3> SUFFICES ASSUME NEW x \in Seats, NEW v \in Users, Live(x)', seat'[x].by = v
                 PROVE  /\ DashboardAnswers => LockBacks(v, x)'
                        /\ EndFits(v, seat[x].until)'
                        /\ Secure(x)' => SessionBacks(v, x)' /\ (Recorded(v, x)' \/ Pending(x)')
      BY DEF Backed, DashboardAnswers
    <3>1. CASE x = s
      <4>1. v = q.user /\ seat'[x].until = q.now + q.ttl
        BY <2>4, <3>1 DEF Held
      <4>2. lock[x].user = v /\ lock[x].exp = q.now + q.ttl
        BY <1>4, <2>1, <3>1, <4>1 DEF LockFor
      <4>3. lock[x].exp >= q.now + q.ttl
        BY <1>2, <4>2
      <4>4. EndFits(v, seat[x].until)'
        BY <1>1, <1>4, <4>1 DEF EndFits
      <4>5. SessionBacks(v, x)'
        <5>1. q.now + q.ttl <= session[q.user] + Half /\ session[q.user] \in Nat /\ q.now + q.ttl \in Nat
          BY <1>1, <1>2, <1>4 DEF NearSession, TypeOK
        <5>2. session[q.user] + Second >= q.now + q.ttl + Spare
          <6> HIDE DEF q
          <6> QED
            BY <5>1, Times
        <5> QED
          BY <2>8, <3>1, <4>1, <5>2 DEF SessionBacks
      <4> QED
        BY <2>6, <2>8, <3>1, <4>1, <4>2, <4>3, <4>4, <4>5 DEF LockBacks
    <3>2. CASE x # s
      <4>1. Live(x) /\ seat'[x] = seat[x]
        BY <2>4, <3>2
      <4>2. Secure(x)' <=> Secure(x)
        BY <2>8, <3>2, <4>1 DEF Secure
      <4>3. /\ DashboardAnswers => LockBacks(v, x)
            /\ EndFits(v, seat[x].until)
            /\ Secure(x) => SessionBacks(v, x) /\ Recorded(v, x)
        BY <1>1, <1>3, <4>1 DEF RedisInv, Backed
      <4> QED
        BY <2>8, <3>2, <4>1, <4>2, <4>3 DEF LockBacks, SessionBacks, EndFits, Recorded
    <3> QED
      BY <3>1, <3>2
  <2> QED
    BY <2>5, <2>7, <2>9, <2>10 DEF RedisInv
<1> QED
  BY <1>5, <1>6 DEF HoldCommit

\* A purchase ends the holds it buys and no others.
LEMMA CheckoutCommitAgrees ==
  ASSUME AgreeInv, NEW r \in Requests, CheckoutCommit(r)
  PROVE  RedisInv'
<1> DEFINE q    == req[r]
           mem  == Recalled(q.seen, q.now)
           want == [s \in Seats |-> IF s \in q.seats THEN Sold ELSE mem[s]]
<1>1. /\ TypeInv /\ TypeOK /\ Exclusive /\ FlightOK /\ RedisInv /\ RequestsOK
      /\ req \in [Requests -> Request]
      /\ q.pc = "checkoutCommit" /\ q.pc \in Section /\ q.pc \in Loaded
      /\ UNCHANGED <<redis, clock, leeway>>
  BY DEF AgreeInv, SaleInv, TypeInv, TypeOK, RequestsOK, RedisInv, CheckoutCommit, Section, Loaded
<1>2. q \in Request /\ q.user \in Users /\ q.seats \in SUBSET Seats /\ clock \in Nat
  BY <1>1, SectionUser DEF TypeOK
<1>3. \A s \in Seats : ~Pending(s)
  BY <1>1, NonePending
<1>4. q.now = clock
  BY <1>1 DEF FlightOK, InFlight
<1>5. CASE End(r) /\ UNCHANGED db
  <2>1. FlightOK'
    BY <1>1, <1>5, EndFlight
  <2> QED
    BY <1>1, <1>3, <1>5, <2>1, OnlyRequests
<1>6. CASE /\ \A s \in q.seats : Buyable(mem[s], q.user, q.now)
           /\ \A s \in q.seats : owner[s] = NoUser
           /\ seat' = Flushed(q.seen, want)
           /\ owner' = [s \in Seats |-> IF s \in q.seats THEN q.user ELSE owner[s]]
           /\ Goto(r, "checkoutUnlock")
  <2>1. /\ seat' = After(q.seats, Sold, Expired(clock))
        /\ \A s \in Seats : mem[s] = IF s \in Expired(clock) THEN Free ELSE seat[s]
    <3>1. RequestsOK
      BY DEF AgreeInv, SaleInv
    <3>2. seat' = After(q.seats, Sold, Expired(q.now))
      BY <1>1, <1>6, <3>1, FreeType, FreshCommit
    <3>3. \A s \in Seats : mem[s] = IF s \in Expired(q.now) THEN Free ELSE seat[s]
      BY <1>1, <3>1, FreeType, FreshCommit
    <3> HIDE DEF mem
    <3> QED
      BY <1>4, <3>2, <3>3
  <2>2. /\ \A s \in Seats : s \in q.seats => seat'[s] = Sold
        /\ \A s \in Seats : s \notin q.seats => seat'[s] = seat[s] \/ seat'[s] = Free
        /\ \A s \in Seats : Live(s)' /\ s \notin q.seats => Live(s) /\ seat'[s] = seat[s]
    <3>1. UNCHANGED clock /\ \E now \in Nat : now <= clock /\ Expired(clock) = Expired(now)
      BY <1>1, <1>2
    <3>2. TypeOK /\ seat' = After(q.seats, Sold, Expired(clock))
      BY <1>1, <2>1
    <3> QED
      BY <3>1, <3>2, AfterRows
  <2>3. \A s \in Seats : s \in q.seats => ~Live(s)'
    BY <2>2 DEF Sold, Live
  <2>4. \A s \in Seats : Live(s)' => s \notin q.seats /\ Live(s) /\ seat'[s] = seat[s]
    BY <2>2, <2>3
  <2>6. FlightOK'
    <3>1. PICK p : p.pc = "checkoutUnlock" /\ p.seats = q.seats /\ req' = [req EXCEPT ![r] = p]
      BY <1>6, MoveRecord DEF Goto
    <3>2. InFlight(p)'
      BY <1>2, <2>3, <3>1 DEF InFlight, Holding, Clearing
    <3> QED
      BY <1>1, <3>1, <3>2, FlightStep
  <2>7. HolderNamed'
    <3> SUFFICES ASSUME NEW s \in Seats PROVE seat'[s].status = "LOCKED" => seat'[s].by \in Users
      BY DEF HolderNamed
    <3>1. seat[s].status = "LOCKED" => seat[s].by \in Users
      BY <1>1 DEF RedisInv, HolderNamed
    <3>2. Sold.status = "SOLD" /\ Free.status = "AVAILABLE"
      BY DEF Sold, Free
    <3>3. seat'[s] = Sold \/ seat'[s] = seat[s] \/ seat'[s] = Free
      BY <2>2
    <3> QED
      BY <3>1, <3>2, <3>3
  <2> QED
    BY <1>1, <1>3, <2>4, <2>6, <2>7, RowsAgree
<1> QED
  BY <1>5, <1>6 DEF CheckoutCommit

-----------------------------------------------------------------------------
(* The clock *)

\* Redis drops the keys of a hold at its deadline, and not before.
LEMMA TickAgrees ==
  ASSUME Calm, AgreeInv, Tick
  PROVE  RedisInv'
<1>1. /\ TypeOK /\ Exclusive /\ FlightOK /\ RedisInv /\ clock \in Nat /\ clock' = clock + 1
      /\ UNCHANGED <<seat, owner, req, leeway>>
      /\ \A l \in Loops : ~Running(l)
  BY DEF AgreeInv, SaleInv, TypeInv, TypeOK, RequestsOK, RedisInv, Tick, Calm, db
<1>2. \A x \in Requests : req[x].pc \notin Section
  BY <1>1 DEF Running, Exclusive
<1>3. \A s \in Seats : ~Pending(s)
  BY <1>2 DEF Pending, Section
<1>4. FlightOK'
  <2> SUFFICES ASSUME NEW x \in Requests PROVE InFlight(req[x])'
    BY DEF FlightOK
  <2>1. req' = req /\ (req[x].pc = "announce" => req[x].loop \in Loops)
    BY <1>1 DEF FlightOK, InFlight
  <2> QED
    BY <1>2, <2>1 DEF InFlight, Section, Holding, Clearing
<1>5. \A s \in Seats : Live(s)' => Live(s) /\ seat'[s] = seat[s] /\ seat[s].until > clock'
  <2> SUFFICES ASSUME NEW s \in Seats, Live(s)'
               PROVE  Live(s) /\ seat'[s] = seat[s] /\ seat[s].until > clock'
    OBVIOUS
  <2>1. seat[s].until \in Nat /\ seat[s].until > clock + 1 /\ seat[s].status = "LOCKED"
    BY <1>1 DEF Live, TypeOK
  <2> QED
    BY <1>1, <2>1 DEF Live
<1>6. HolderNamed'
  BY <1>1 DEF RedisInv, HolderNamed
<1>7. LeewayOK'
  BY <1>1 DEF RedisInv, LeewayOK
<1>8. Backed'
  <2> SUFFICES ASSUME NEW s \in Seats, NEW u \in Users, Live(s)', seat'[s].by = u
               PROVE  /\ DashboardAnswers => LockBacks(u, s)'
                      /\ EndFits(u, seat[s].until)'
                      /\ Secure(s)' => SessionBacks(u, s)' /\ (Recorded(u, s)' \/ Pending(s)')
    BY DEF Backed, DashboardAnswers
  <2>1. /\ Live(s) /\ seat'[s] = seat[s] /\ seat[s].until > clock' /\ seat[s].until \in Nat /\ clock' \in Nat
        /\ leeway' = leeway /\ leeway[s] \in Nat /\ leeway[s] >= Second
    BY <1>1, <1>5 DEF TypeOK, RedisInv, LeewayOK
  <2>2. /\ DashboardAnswers => LockBacks(u, s)
        /\ EndFits(u, seat[s].until)
        /\ Secure(s) => SessionBacks(u, s) /\ Recorded(u, s)
    BY <1>1, <1>3, <2>1 DEF RedisInv, Backed
  <2>3. lock[s].exp \in Nat /\ index[u].exp \in Nat /\ session[u] \in Nat
    BY <1>1 DEF TypeOK
  <2>4. DashboardAnswers => lock'[s] = lock[s]
    <3> SUFFICES ASSUME DashboardAnswers PROVE lock'[s] = lock[s]
      OBVIOUS
    <3>1. lock[s].exp >= seat[s].until
      BY <2>2 DEF LockBacks
    <3>2. ~(lock[s].exp <= clock')
      BY <2>1, <2>3, <3>1
    <3> QED
      BY <3>2 DEF Tick
  <2>5. EndFits(u, seat[s].until)'
    <3> SUFFICES ASSUME NEW e \in AuthEnds[u], ~(seat[s].until <= e + Half)
                 PROVE  e < clock' + Spare
      BY <2>1 DEF EndFits
    <3>1. e < clock + Spare /\ e \in Nat
      BY <2>2, TimeAssumption DEF EndFits
    <3> QED
      BY <1>1, <3>1, Times
  <2>6. ASSUME Secure(s)' PROVE SessionBacks(u, s)' /\ Recorded(u, s)'
    <3>1. clock' + leeway[s] <= seat[s].until
      BY <2>1, <2>6 DEF Secure
    <3>2. Secure(s)
      BY <1>1, <2>1, <3>1 DEF Secure
    <3>3. session'[u] = session[u]
      <4>1. ~(session[u] <= clock')
        BY <2>1, <2>2, <2>3, <3>1, <3>2, Times DEF SessionBacks
      <4> QED
        BY <4>1 DEF Tick
    <3>4. index'[u] = index[u]
      <4>1. ~(index[u].exp <= clock')
        BY <2>1, <2>2, <2>3, <3>1, <3>2 DEF Recorded
      <4> QED
        BY <4>1 DEF Tick
    <3> QED
      BY <2>1, <2>2, <3>2, <3>3, <3>4 DEF SessionBacks, Recorded
  <2> QED
    BY <2>1, <2>2, <2>4, <2>5, <2>6 DEF LockBacks
<1> QED
  BY <1>4, <1>6, <1>7, <1>8 DEF RedisInv

-----------------------------------------------------------------------------
(* The invariant *)

LEMMA AgreeInit == Init => AgreeInv
<1> SUFFICES ASSUME Init PROVE AgreeInv
  OBVIOUS
<1>1. SaleInv
  BY SaleInit
<1>2. \A s \in Seats : seat[s].status # "LOCKED"
  BY DEF Init, Free
<1>3. Backed /\ HolderNamed
  BY <1>2 DEF Backed, HolderNamed, Live
<1>4. LeewayOK
  BY Times DEF Init, LeewayOK
<1>5. FlightOK
  BY IdleFlight DEF Init, FlightOK
<1> QED
  BY <1>1, <1>3, <1>4, <1>5 DEF AgreeInv, RedisInv

LEMMA SameAgrees ==
  ASSUME RedisInv, UNCHANGED vars
  PROVE  RedisInv'
<1>1. UNCHANGED <<seat, owner, lock, index, session, req, clock, leeway>>
  BY DEF vars
<1>2. FlightOK'
  <2> SUFFICES ASSUME NEW r \in Requests PROVE InFlight(req[r])'
    BY DEF FlightOK
  <2>1. InFlight(req[r])
    BY DEF RedisInv, FlightOK
  <2> QED
    BY <1>1, <2>1 DEF InFlight, Live, HasSession, TTL, NearSession, EndFits, LockFor, Members, DashboardAnswers
<1>3. UNCHANGED <<db, clock, session, leeway>>
  BY <1>1 DEF db
<1>4. \A s \in Seats : \A v \in Users : Live(s) /\ seat[s].by = v /\ Secure(s) =>
        Recorded(v, s)' \/ Pending(s)'
  BY <1>1 DEF RedisInv, Backed, Recorded, Pending
<1> QED
  BY <1>1, <1>2, <1>3, <1>4, KeysSame

LEMMA AgreeStep ==
  ASSUME OneProcess, Calm, LoginsAgree, AgreeInv, [Next]_vars
  PROVE  AgreeInv'
<1>1. SaleInv'
  BY SaleStep DEF AgreeInv
<1>2. CASE \E r \in Requests, l \in Loops : Arrive(r, l)
  BY <1>1, <1>2, ArriveAgrees DEF AgreeInv
<1>3. CASE \E r \in Requests : Continue(r) \/ HoldReturn(r)
  BY <1>1, <1>3, HoldAdmitAgrees, HoldClipAgrees, HoldLockAgrees, HoldCommitAgrees, HoldUndoAgrees,
     HoldIndexAgrees, HoldReturnAgrees, ReleaseCommitAgrees, ClearUnlockAgrees, ReleaseUnindexAgrees,
     CheckoutChecksAgree, CheckoutCommitAgrees, CheckoutUnindexAgrees, CheckoutLeaveAgrees
     DEF AgreeInv, Continue
<1>4. CASE \E l \in Loops : ReleaseExpired(l) \/ Crash(l)
  BY <1>1, <1>4, ReleaseExpiredAgrees DEF AgreeInv, Crash, Calm
<1>5. CASE \E u \in Users : Grant(u)
  BY <1>1, <1>5, GrantAgrees DEF AgreeInv
<1>6. CASE Tick
  BY <1>1, <1>6, TickAgrees DEF AgreeInv
<1>7. CASE UNCHANGED vars
  BY <1>1, <1>7, SameAgrees DEF AgreeInv
<1> QED
  BY <1>2, <1>3, <1>4, <1>5, <1>6, <1>7 DEF Next

\* Between two steps every live hold has what Redis should keep for it.
LEMMA HoldBacking ==
  ASSUME AgreeInv, NEW u \in Users, NEW s \in LiveHolds(u)
  PROVE  /\ DashboardAnswers => LockBacks(u, s)
         /\ Secure(s) => HasSession(u)
         /\ Secure(s) /\ ~Pending(s) => index[u].score[s] = seat[s].until
<1>1. s \in Seats /\ Live(s) /\ seat[s].by = u /\ Backed /\ TypeInv /\ TypeOK
  BY DEF LiveHolds, Live, AgreeInv, SaleInv, TypeInv, RedisInv
<1>2. Secure(s) => HasSession(u)
  <2> SUFFICES ASSUME Secure(s) PROVE HasSession(u)
    OBVIOUS
  <2>1. session[u] + leeway[s] >= seat[s].until + Spare /\ clock + leeway[s] <= seat[s].until
    BY <1>1 DEF Backed, SessionBacks, Secure
  <2>2. session[u] \in Nat /\ leeway[s] \in Nat /\ seat[s].until \in Nat /\ clock \in Nat
    BY <1>1 DEF TypeOK
  <2>3. session[u] >= clock + Spare
    BY <2>1, <2>2, Times
  <2> QED
    BY <1>1, <2>3, SessionTimes
<1> QED
  BY <1>1, <1>2 DEF Backed, Recorded

-----------------------------------------------------------------------------
(* The theorems *)

\* A live hold keeps its Redis lock, and can be bought, until its deadline,
\* whatever the failed requests, releases and expiries of others delete: they
\* delete their own.  That takes a dashboard that answers: when its query fails,
\* hold deletes the lock of the seat it has just held.
THEOREM EveryHoldIsLocked ==
  ASSUME OneProcess, Calm, LoginsAgree, DashboardAnswers
  PROVE  Spec => []LiveHoldIsLocked
<1>1. Init => AgreeInv
  BY AgreeInit
<1>2. AgreeInv /\ [Next]_vars => AgreeInv'
  BY AgreeStep
<1>3. AgreeInv => LiveHoldIsLocked
  BY HoldBacking DEF LiveHoldIsLocked, LockBacks
<1> QED
  BY <1>1, <1>2, <1>3, PTL DEF Spec

\* The user of a live hold has the booking session checkout demands until a
\* second before its deadline, and half a second more for each later hold call
\* that wrote a rounded time to live back: that is all that rounding, other
\* holds, releases and checkouts of other seats can take from it.
THEOREM EveryHoldCanBePaid ==
  ASSUME OneProcess, Calm, LoginsAgree
  PROVE  Spec => []HoldsCanBePaid
<1>1. Init => AgreeInv
  BY AgreeInit
<1>2. AgreeInv /\ [Next]_vars => AgreeInv'
  BY AgreeStep
<1>3. AgreeInv => HoldsCanBePaid
  BY HoldBacking DEF HoldsCanBePaid
<1> QED
  BY <1>1, <1>2, <1>3, PTL DEF Spec

\* That long the hold index, which SeatService counts against the limit, has
\* the hold too, with the deadline of the seats table.
THEOREM EveryHoldIsCounted ==
  ASSUME OneProcess, Calm, LoginsAgree
  PROVE  Spec => []HoldsAreCounted
<1>1. Init => AgreeInv
  BY AgreeInit
<1>2. AgreeInv /\ [Next]_vars => AgreeInv'
  BY AgreeStep
<1>3. AgreeInv => HoldsAreCounted
  BY HoldBacking DEF HoldsAreCounted
<1> QED
  BY <1>1, <1>2, <1>3, PTL DEF Spec
=============================================================================
