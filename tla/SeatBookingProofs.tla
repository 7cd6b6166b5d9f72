-------------------------- MODULE SeatBookingProofs --------------------------
(***************************************************************************)
(* Proofs about SeatBooking, for any number of seats, users, requests and  *)
(* processes, any times and any faults.                                    *)
(***************************************************************************)
EXTENDS SeatBooking, TLAPS

-----------------------------------------------------------------------------
(* Types *)

\* A booking session kept by Redis has not expired.
SessionAlive == \A u \in Users : session[u] = 0 \/ session[u] > clock

\* A running request has a user; one about to set a lock has time for it.
RequestOK ==
  \A r \in Requests :
    /\ req[r].pc \in Section => req[r].user \in Users
    /\ req[r].pc \in {"holdClip", "holdLock"} => req[r].ttl > 0

TypeInv == TypeOK /\ SessionAlive /\ RequestOK

USE DEF UserOrNone, Row, Lock, Index, Request

-----------------------------------------------------------------------------
(* The rounded time to live *)

LEMMA Division ==
  ASSUME NEW a \in Nat, NEW n \in Nat \ {0}
  PROVE  /\ a \div n \in Nat /\ (a \div n) * n \in Nat
         /\ (a \div n) * n <= a /\ a < (a \div n) * n + n
         /\ a >= n => (a \div n) * n >= n
         /\ a < n => (a \div n) * n = 0
OBVIOUS

LEMMA HalfFacts == Half \in Nat /\ 2 * Half <= Second /\ Second <= 2 * Half + 1
BY TimeAssumption DEF Half

\* Rounding moves a time by half a second at most, and down by a little less;
\* a time is rounded to nothing exactly in its last half second.
LEMMA RoundedFacts ==
  ASSUME NEW left \in Nat
  PROVE  /\ Rounded(left) \in Nat
         /\ Rounded(left) <= left + Half
         /\ left <= Rounded(left) + Second - 1 - Half
         /\ left + Half >= Second => Rounded(left) >= Second
         /\ left + Half < Second => Rounded(left) = 0
<1> DEFINE a == left + Half
<1>1. a \in Nat /\ Second \in Nat \ {0} /\ Half \in Nat
  BY HalfFacts, TimeAssumption
<1>2. /\ (a \div Second) * Second \in Nat
      /\ (a \div Second) * Second <= a /\ a < (a \div Second) * Second + Second
      /\ a >= Second => (a \div Second) * Second >= Second
      /\ a < Second => (a \div Second) * Second = 0
  <2> HIDE DEF a
  <2> QED
    BY <1>1, Division
<1>3. Rounded(left) = (a \div Second) * Second
  BY DEF Rounded
<1> DEFINE b == (a \div Second) * Second
<1> HIDE DEF b
<1>4. /\ b \in Nat /\ b <= a /\ a < b + Second /\ (a >= Second => b >= Second) /\ (a < Second => b = 0)
      /\ Rounded(left) = b
  BY <1>2, <1>3 DEF b
<1> QED
  BY <1>1, <1>4

\* What TTL answers of a key that Redis has: a session, or a login still alive.
LEMMA TTLFacts ==
  ASSUME NEW exp \in Nat, clock \in Nat, exp > clock
  PROVE  TTL(exp) = Rounded(exp - clock) /\ TTL(exp) \in Nat
BY RoundedFacts DEF TTL

-----------------------------------------------------------------------------
(* Types, preserved by every action *)

LEMMA IdleType == Idle \in Request
BY DEF Idle, Free

LEMMA WithoutType ==
  ASSUME NEW ix \in Index, NEW S
  PROVE  Without(ix, S) \in Index
BY DEF Without, NoIndex

LEMMA PurgedType ==
  ASSUME NEW ix \in Index, NEW now
  PROVE  Purged(ix, now) \in Index
BY WithoutType DEF Purged

\* Whatever mixture of loaded, wanted and stored columns is written is a row.
LEMMA FlushedType ==
  ASSUME NEW seen \in [Seats -> Row], NEW want \in [Seats -> Row], seat \in [Seats -> Row]
  PROVE  Flushed(seen, want) \in [Seats -> Row]
BY DEF Flushed, Written

LEMMA TypeInit == Init => TypeInv
BY IdleType, TimeAssumption, UserAssumption
   DEF Init, TypeInv, TypeOK, SessionAlive, RequestOK, Free, NoLock, NoIndex, Section, Idle

\* A request that enters its loop is well typed.
LEMMA EnterType ==
  ASSUME TypeInv, NEW r \in Requests, NEW l \in Loops, NEW u \in Users,
         NEW S \in SUBSET Seats, NEW seen \in [Seats -> Row],
         NEW pc \in {"holdAdmit", "releaseCommit", "checkoutAdmit"},
         Enter(r, pc, l, u, S, seen),
         UNCHANGED <<db, redis, clock, leeway>>
  PROVE  TypeInv'
<1>1. PICK e \in AuthEnds[u] : req' = [req EXCEPT ![r] =
            [pc |-> pc, loop |-> l, user |-> u, login |-> e,
             seats |-> S, seen |-> seen, now |-> 0, ttl |-> 0]]
  BY DEF Enter
<1>2. e \in Nat
  BY TimeAssumption
<1> QED
  BY <1>1, <1>2 DEF TypeInv, TypeOK, SessionAlive, RequestOK, db, redis, Section

\* What replacing one request does to the set of them.
LEMMA ReplaceType ==
  ASSUME TypeInv, NEW r \in Requests, NEW p \in Request,
         req' = [req EXCEPT ![r] = p],
         p.pc \in Section => p.user \in Users,
         p.pc \in {"holdClip", "holdLock"} => p.ttl > 0
  PROVE  req' \in [Requests -> Request] /\ RequestOK'
BY DEF TypeInv, TypeOK, RequestOK

LEMMA EndType ==
  ASSUME TypeInv, NEW r \in Requests, End(r)
  PROVE  req' \in [Requests -> Request] /\ RequestOK'
<1>1. Idle.pc = "idle"
  BY DEF Idle
<1> QED
  BY <1>1, IdleType, ReplaceType DEF End, Section

LEMMA MoveType ==
  ASSUME TypeInv, NEW r \in Requests, NEW pc \in Section, NEW now \in Nat, NEW ttl \in Nat,
         req[r].pc \in Section,
         pc \in {"holdClip", "holdLock"} => ttl > 0,
         Move(r, pc, now, ttl)
  PROVE  req' \in [Requests -> Request] /\ RequestOK'
<1> DEFINE q == req[r]
           p == [pc |-> pc, loop |-> q.loop, user |-> q.user, login |-> q.login,
                 seats |-> q.seats, seen |-> q.seen, now |-> now, ttl |-> ttl]
<1>1. q \in Request /\ q.user \in Users
  BY DEF TypeInv, TypeOK, RequestOK
<1>2. p \in Request /\ p.user \in Users /\ (p.pc \in {"holdClip", "holdLock"} => p.ttl > 0)
  BY <1>1
<1>3. req' = [req EXCEPT ![r] = p]
  BY DEF Move
<1> HIDE DEF p
<1> QED
  BY <1>2, <1>3, ReplaceType

LEMMA GotoType ==
  ASSUME TypeInv, NEW r \in Requests, req[r].pc \in Section,
         NEW pc \in Section \ {"holdClip", "holdLock"}, Goto(r, pc)
  PROVE  req' \in [Requests -> Request] /\ RequestOK'
<1>1. req[r].now \in Nat /\ req[r].ttl \in Nat
  BY DEF TypeInv, TypeOK
<1> QED
  BY <1>1, MoveType DEF Goto

\* The set of a lock, an index or a session: a table with one entry replaced.
LEMMA LockTableType ==
  ASSUME TypeOK, NEW S, NEW k \in Lock,
         lock' = [s \in Seats |-> IF s \in S THEN k ELSE lock[s]]
  PROVE  lock' \in [Seats -> Lock]
BY DEF TypeOK

LEMMA SeatTableType ==
  ASSUME TypeOK, NEW S, NEW row \in Row,
         seat' = [s \in Seats |-> IF s \in S THEN row ELSE seat[s]]
  PROVE  seat' \in [Seats -> Row]
BY DEF TypeOK

LEMMA FreeType == Free \in Row /\ Sold \in Row /\ NoLock \in Lock /\ NoIndex \in Index
BY DEF Free, Sold, NoLock, NoIndex

\* A request in its section has a user.
LEMMA SectionUser ==
  ASSUME TypeInv, NEW r \in Requests, req[r].pc \in Section
  PROVE  req[r] \in Request /\ req[r].user \in Users
BY DEF TypeInv, TypeOK, RequestOK

LEMMA HoldLoadType ==
  ASSUME TypeInv, NEW r \in Requests, NEW l \in Loops, NEW u \in Users, NEW s \in Seats,
         HoldLoad(r, l, u, s)
  PROVE  TypeInv'
<1>1. seat \in [Seats -> Row] /\ {s} \in SUBSET Seats
  BY DEF TypeInv, TypeOK
<1> QED
  BY <1>1, EnterType DEF HoldLoad

LEMMA HoldAdmitType ==
  ASSUME TypeInv, NEW r \in Requests, HoldAdmit(r)
  PROVE  TypeInv'
<1> DEFINE u  == req[r].user
           ix == Purged(index[u], clock)
<1>1. req[r].pc \in Section /\ u \in Users
  <2>1. req[r].pc \in Section
    BY DEF HoldAdmit, Section
  <2> QED
    BY <2>1, SectionUser
<1>2. ix \in Index
  BY <1>1, PurgedType DEF TypeInv, TypeOK
<1>3. index' \in [Users -> Index]
  <2>1. index' = index \/ index' = [index EXCEPT ![u] = ix]
    BY DEF HoldAdmit
  <2> HIDE DEF ix
  <2> QED
    BY <1>1, <1>2, <2>1 DEF TypeInv, TypeOK
<1>4. req' \in [Requests -> Request] /\ RequestOK'
  <2>1. CASE End(r)
    BY <2>1, EndType
  <2>2. CASE HasSession(u) /\ Move(r, "holdClip", clock, TTL(session[u]))
    <3>1. TTL(session[u]) > 0 /\ clock \in Nat /\ session[u] \in Nat
      BY <1>1, <2>2 DEF HasSession, TypeInv, TypeOK
    <3>4. session[u] > clock
      BY <1>1, <3>1 DEF TypeInv, SessionAlive, TTL
    <3>3. TTL(session[u]) \in Nat
      BY <3>1, <3>4, TTLFacts
    <3>2. "holdClip" \in Section
      BY DEF Section
    <3> QED
      BY <1>1, <2>2, <3>1, <3>2, <3>3, MoveType
  <2> QED
    BY <2>1, <2>2 DEF HoldAdmit
<1>5. UNCHANGED <<seat, owner, lock, session, clock, leeway>>
  BY DEF HoldAdmit, db
<1> QED
  BY <1>3, <1>4, <1>5 DEF TypeInv, TypeOK, SessionAlive

LEMMA HoldClipType ==
  ASSUME TypeInv, NEW r \in Requests, HoldClip(r)
  PROVE  TypeInv'
<1> DEFINE u     == req[r].user
           login == TTL(req[r].login)
           ttl   == IF login < req[r].ttl THEN login ELSE req[r].ttl
           end   == IF session[u] = 0 THEN 0 ELSE clock + ttl
<1>1. req[r].pc \in Section /\ u \in Users /\ req[r] \in Request
  <2>1. req[r].pc \in Section
    BY DEF HoldClip, Section
  <2> QED
    BY <2>1, SectionUser
<1>2. /\ clock \in Nat /\ req[r].ttl > 0 /\ leeway \in [Seats -> Nat]
      /\ req[r].now \in Nat /\ req[r].ttl \in Nat /\ "holdLock" \in Section
  BY DEF TypeInv, TypeOK, RequestOK, HoldClip, Section
<1>3. UNCHANGED <<seat, owner, lock, index, clock>>
  BY DEF HoldClip, db
<1>4. CASE End(r) /\ UNCHANGED <<session, leeway>>
  <2>1. req' \in [Requests -> Request] /\ RequestOK'
    BY <1>4, EndType
  <2> QED
    BY <1>3, <1>4, <2>1 DEF TypeInv, TypeOK, SessionAlive
<1>5. CASE Goto(r, "holdLock") /\ UNCHANGED <<session, leeway>>
  <2>1. req' \in [Requests -> Request] /\ RequestOK'
    BY <1>1, <1>2, <1>5, MoveType DEF Goto
  <2> QED
    BY <1>3, <1>5, <2>1 DEF TypeInv, TypeOK, SessionAlive
<1>6. CASE /\ req[r].login > clock
           /\ login > 0
           /\ session' = [session EXCEPT ![u] = end]
           /\ leeway' = [s \in Seats |-> IF s \in LiveHolds(u) /\ end < session[u]
                                         THEN leeway[s] + Half ELSE leeway[s]]
           /\ Move(r, "holdLock", req[r].now, ttl)
  <2>1. login \in Nat
    BY <1>1, <1>2, <1>6, TTLFacts
  <2>2. ttl \in Nat /\ ttl > 0 /\ end \in Nat /\ (end = 0 \/ end > clock)
    <3> HIDE DEF login
    <3> QED
      BY <1>2, <1>6, <2>1
  <2>3. req' \in [Requests -> Request] /\ RequestOK'
    <3> HIDE DEF ttl
    <3> QED
      BY <1>1, <1>2, <1>6, <2>2, MoveType
  <2>4. session' \in [Users -> Nat] /\ \A v \in Users : session'[v] = 0 \/ session'[v] > clock
    <3> HIDE DEF end
    <3> QED
      BY <1>1, <1>2, <1>6, <2>2 DEF TypeInv, TypeOK, SessionAlive
  <2>5. leeway' \in [Seats -> Nat]
    <3> HIDE DEF end
    <3> QED
      BY <1>2, <1>6, HalfFacts
  <2> QED
    BY <1>3, <2>3, <2>4, <2>5 DEF TypeInv, TypeOK, SessionAlive
<1> QED
  BY <1>4, <1>5, <1>6 DEF HoldClip

LEMMA HoldLockType ==
  ASSUME TypeInv, NEW r \in Requests, HoldLock(r)
  PROVE  TypeInv'
<1>1. req[r].pc \in Section /\ "holdCommit" \in Section \ {"holdClip", "holdLock"}
  BY DEF HoldLock, Section
<1>2. req[r].user \in Users /\ req[r] \in Request
  BY <1>1, SectionUser
<1>3. req' \in [Requests -> Request] /\ RequestOK'
  BY <1>1, EndType, GotoType DEF HoldLock
<1>4. LockFor(req[r].user, req[r].ttl) \in Lock
  BY <1>2 DEF LockFor, TypeInv, TypeOK
<1>5. lock' \in [Seats -> Lock]
  <2>1. CASE UNCHANGED lock
    BY <2>1 DEF TypeInv, TypeOK
  <2>2. CASE lock' = [s \in Seats |-> IF s \in req[r].seats
                                    THEN LockFor(req[r].user, req[r].ttl) ELSE lock[s]]
    BY <1>4, <2>2, LockTableType DEF TypeInv
  <2> QED
    BY <2>1, <2>2 DEF HoldLock
<1> QED
  BY <1>3, <1>5 DEF TypeInv, TypeOK, SessionAlive, HoldLock, db

\* What a transaction writes when it read seen and wants some seats to be row.
LEMMA CommitType ==
  ASSUME TypeInv, NEW r \in Requests, req[r].pc \in Section, NEW row \in Row
  PROVE  LET mem  == Recalled(req[r].seen, req[r].now)
             want == [s \in Seats |-> IF s \in req[r].seats THEN row ELSE mem[s]]
         IN  Flushed(req[r].seen, want) \in [Seats -> Row]
<1> DEFINE mem  == Recalled(req[r].seen, req[r].now)
           want == [s \in Seats |-> IF s \in req[r].seats THEN row ELSE mem[s]]
<1>1. req[r].seen \in [Seats -> Row] /\ seat \in [Seats -> Row]
  BY DEF TypeInv, TypeOK
<1>2. mem \in [Seats -> Row]
  BY <1>1, FreeType DEF Recalled
<1>3. want \in [Seats -> Row]
  <2> HIDE DEF mem
  <2> QED
    BY <1>2
<1> HIDE DEF want
<1>4. Flushed(req[r].seen, want) \in [Seats -> Row]
  BY <1>1, <1>3, FlushedType
<1> QED
  BY <1>4 DEF want

LEMMA HoldCommitType ==
  ASSUME TypeInv, NEW r \in Requests, HoldCommit(r)
  PROVE  TypeInv'
<1> DEFINE q    == req[r]
           mem  == Recalled(q.seen, q.now)
           hold == Held(q.user, q.now + q.ttl)
           want == [s \in Seats |-> IF s \in q.seats THEN hold ELSE mem[s]]
<1>1. q.pc \in Section /\ {"holdIndex", "holdUndo"} \subseteq Section \ {"holdClip", "holdLock"}
  BY DEF HoldCommit, Section
<1>2. hold \in Row
  BY <1>1, SectionUser DEF Held
<1>3. seat' = seat \/ seat' = Flushed(q.seen, want)
  BY DEF HoldCommit
<1>4. Flushed(q.seen, want) \in [Seats -> Row]
  <2> HIDE DEF hold
  <2> QED
    BY <1>1, <1>2, CommitType
<1>5. seat' \in [Seats -> Row]
  <2> HIDE DEF want
  <2> QED
    BY <1>3, <1>4 DEF TypeInv, TypeOK
<1>6. req' \in [Requests -> Request] /\ RequestOK'
  <2>1. Goto(r, "holdIndex") \/ Goto(r, "holdUndo")
    BY DEF HoldCommit
  <2> QED
    BY <1>1, <2>1, GotoType
<1>7. UNCHANGED <<owner, lock, index, session, clock>>
  BY DEF HoldCommit, redis
<1>8. leeway' \in [Seats -> Nat]
  BY TimeAssumption DEF HoldCommit, TypeInv, TypeOK
<1> QED
  BY <1>5, <1>6, <1>7, <1>8 DEF TypeInv, TypeOK, SessionAlive

LEMMA HoldUndoType ==
  ASSUME TypeInv, NEW r \in Requests, HoldUndo(r)
  PROVE  TypeInv'
BY EndType, LockTableType, FreeType DEF HoldUndo, TypeInv, TypeOK, SessionAlive, db

LEMMA HoldIndexType ==
  ASSUME TypeInv, NEW r \in Requests, HoldIndex(r)
  PROVE  TypeInv'
<1> DEFINE q     == req[r]
           score == [s \in Seats |-> IF s \in q.seats THEN q.now + q.ttl ELSE index[q.user].score[s]]
           entry == [score |-> score, exp |-> clock + q.ttl]
           p     == [pc |-> "announce", loop |-> q.loop, user |-> NoUser, login |-> 0,
                     seats |-> q.seats, seen |-> Idle.seen, now |-> 0, ttl |-> 0]
<1>1. q \in Request /\ q.user \in Users
  <2>1. q.pc \in Section
    BY DEF HoldIndex, Section
  <2> QED
    BY <2>1, SectionUser
<1>2. index[q.user] \in Index /\ clock \in Nat
  BY <1>1 DEF TypeInv, TypeOK
<1>3. entry \in Index
  BY <1>1, <1>2
<1>4. index' \in [Users -> Index]
  <2>1. index' = [index EXCEPT ![q.user] = entry]
    BY DEF HoldIndex
  <2> HIDE DEF entry
  <2> QED
    BY <1>1, <1>3, <2>1 DEF TypeInv, TypeOK
<1>5. p \in Request /\ p.pc \notin Section
  <2>1. Idle.seen \in [Seats -> Row]
    BY FreeType DEF Idle
  <2> HIDE DEF Idle
  <2> QED
    BY <1>1, <2>1 DEF Section
<1>6. req' \in [Requests -> Request] /\ RequestOK'
  <2>1. req' = [req EXCEPT ![r] = p] /\ p.pc \notin {"holdClip", "holdLock"}
    BY DEF HoldIndex
  <2> HIDE DEF p
  <2> QED
    BY <1>5, <2>1, ReplaceType
<1>7. UNCHANGED <<seat, owner, lock, session, clock, leeway>>
  BY DEF HoldIndex, db
<1> QED
  BY <1>4, <1>6, <1>7 DEF TypeInv, TypeOK, SessionAlive

LEMMA HoldReturnType ==
  ASSUME TypeInv, NEW r \in Requests, HoldReturn(r)
  PROVE  TypeInv'
<1>1. req' \in [Requests -> Request] /\ RequestOK'
  BY EndType DEF HoldReturn
<1>2. lock' \in [Seats -> Lock]
  BY LockTableType, FreeType DEF HoldReturn, TypeInv, TypeOK
<1> QED
  BY <1>1, <1>2 DEF HoldReturn, TypeInv, TypeOK, SessionAlive, db

LEMMA ReleaseType ==
  ASSUME TypeInv, NEW r \in Requests,
         \/ \E l \in Loops, u \in Users, s \in Seats : ReleaseCheck(r, l, u, s)
         \/ ReleaseCommit(r) \/ ReleaseUnlock(r) \/ ReleaseUnindex(r)
  PROVE  TypeInv'
<1>1. CASE \E l \in Loops, u \in Users, s \in Seats : ReleaseCheck(r, l, u, s)
  <2>1. PICK l \in Loops, u \in Users, s \in Seats : ReleaseCheck(r, l, u, s)
    BY <1>1
  <2>2. Idle.seen \in [Seats -> Row] /\ {s} \in SUBSET Seats
    BY FreeType DEF Idle
  <2>3. Enter(r, "releaseCommit", l, u, {s}, Idle.seen) /\ UNCHANGED <<db, redis, clock, leeway>>
    BY <2>1 DEF ReleaseCheck
  <2> HIDE DEF Idle
  <2> QED
    BY <2>2, <2>3, EnterType
<1>2. CASE ReleaseCommit(r)
  <2>1. req[r].pc \in Section /\ "releaseUnlock" \in Section \ {"holdClip", "holdLock"}
    BY <1>2 DEF ReleaseCommit, Section
  <2>2. req' \in [Requests -> Request] /\ RequestOK'
    BY <1>2, <2>1, EndType, GotoType DEF ReleaseCommit
  <2>3. \/ seat' = seat
        \/ seat' = [s \in Seats |-> IF s \in req[r].seats THEN Free ELSE seat[s]]
    BY <1>2 DEF ReleaseCommit
  <2>4. seat' \in [Seats -> Row]
    <3>1. CASE seat' = seat
      BY <3>1 DEF TypeInv, TypeOK
    <3>2. CASE seat' = [s \in Seats |-> IF s \in req[r].seats THEN Free ELSE seat[s]]
      <4>1. Free \in Row /\ TypeOK
        BY FreeType DEF TypeInv
      <4> QED
        BY <3>2, <4>1, SeatTableType
    <3> QED
      BY <2>3, <3>1, <3>2
  <2> QED
    BY <1>2, <2>2, <2>4 DEF ReleaseCommit, TypeInv, TypeOK, SessionAlive, redis
<1>3. CASE ReleaseUnlock(r)
  <2>1. req[r].pc \in Section /\ "releaseUnindex" \in Section \ {"holdClip", "holdLock"}
    BY <1>3 DEF ReleaseUnlock, Section
  <2>2. req' \in [Requests -> Request] /\ RequestOK'
    BY <1>3, <2>1, GotoType DEF ReleaseUnlock
  <2>3. lock' \in [Seats -> Lock]
    BY <1>3, LockTableType, FreeType DEF ReleaseUnlock, TypeInv
  <2> QED
    BY <1>3, <2>2, <2>3 DEF ReleaseUnlock, TypeInv, TypeOK, SessionAlive, db
<1>4. CASE ReleaseUnindex(r)
  <2>1. req[r].pc \in Section
    BY <1>4 DEF ReleaseUnindex, Section
  <2>2. req' \in [Requests -> Request] /\ RequestOK'
    BY <1>4, EndType DEF ReleaseUnindex
  <2>3. index' = [index EXCEPT ![req[r].user] = Without(index[req[r].user], req[r].seats)]
    BY <1>4 DEF ReleaseUnindex
  <2>4. index' \in [Users -> Index]
    BY <2>1, <2>3, SectionUser, WithoutType DEF TypeInv, TypeOK
  <2> QED
    BY <1>4, <2>2, <2>4 DEF ReleaseUnindex, TypeInv, TypeOK, SessionAlive, db
<1> QED
  BY <1>1, <1>2, <1>3, <1>4

LEMMA CheckoutType ==
  ASSUME TypeInv, NEW r \in Requests,
         \/ \E l \in Loops, u \in Users, S \in SUBSET Seats : CheckoutLoad(r, l, u, S)
         \/ CheckoutAdmit(r) \/ CheckoutOwn(r) \/ CheckoutCommit(r)
         \/ CheckoutUnlock(r) \/ CheckoutUnindex(r) \/ CheckoutLeave(r)
  PROVE  TypeInv'
<1> DEFINE Next1 == Section \ {"holdClip", "holdLock"}
<1>1. CASE \E l \in Loops, u \in Users, S \in SUBSET Seats : CheckoutLoad(r, l, u, S)
  <2>1. PICK l \in Loops, u \in Users, S \in SUBSET Seats : CheckoutLoad(r, l, u, S)
    BY <1>1
  <2>2. seat \in [Seats -> Row]
    BY DEF TypeInv, TypeOK
  <2> QED
    BY <2>1, <2>2, EnterType DEF CheckoutLoad
<1>2. CASE CheckoutAdmit(r)
  <2>1. req[r].pc \in Section /\ "checkoutOwn" \in Next1
    BY <1>2 DEF CheckoutAdmit, Section
  <2>2. req' \in [Requests -> Request] /\ RequestOK'
    BY <1>2, <2>1, EndType, GotoType DEF CheckoutAdmit
  <2> QED
    BY <1>2, <2>2 DEF CheckoutAdmit, TypeInv, TypeOK, SessionAlive, db, redis
<1>3. CASE CheckoutOwn(r)
  <2>1. req[r].pc \in Section /\ "checkoutCommit" \in Section
    BY <1>3 DEF CheckoutOwn, Section
  <2>2. clock \in Nat /\ req[r].ttl \in Nat
    BY DEF TypeInv, TypeOK
  <2>3. req' \in [Requests -> Request] /\ RequestOK'
    BY <1>3, <2>1, <2>2, EndType, MoveType DEF CheckoutOwn
  <2> QED
    BY <1>3, <2>3 DEF CheckoutOwn, TypeInv, TypeOK, SessionAlive, db, redis
<1>4. CASE CheckoutCommit(r)
  <2> DEFINE q    == req[r]
             mem  == Recalled(q.seen, q.now)
             want == [s \in Seats |-> IF s \in q.seats THEN Sold ELSE mem[s]]
  <2>1. q.pc \in Section /\ "checkoutUnlock" \in Next1
    BY <1>4 DEF CheckoutCommit, Section
  <2>2. req' \in [Requests -> Request] /\ RequestOK'
    BY <1>4, <2>1, EndType, GotoType DEF CheckoutCommit
  <2>3. seat' = seat \/ seat' = Flushed(q.seen, want)
    BY <1>4 DEF CheckoutCommit, db
  <2>4. Flushed(q.seen, want) \in [Seats -> Row]
    BY <2>1, FreeType, CommitType
  <2>5. seat' \in [Seats -> Row]
    <3> HIDE DEF want
    <3> QED
      BY <2>3, <2>4 DEF TypeInv, TypeOK
  <2>6. q.user \in Users
    BY <2>1, SectionUser
  <2>7. owner' = owner \/ owner' = [s \in Seats |-> IF s \in q.seats THEN q.user ELSE owner[s]]
    BY <1>4 DEF CheckoutCommit, db
  <2>8. owner' \in [Seats -> UserOrNone]
    BY <2>6, <2>7 DEF TypeInv, TypeOK
  <2>9. UNCHANGED <<lock, index, session, clock, leeway>>
    BY <1>4 DEF CheckoutCommit, redis
  <2> QED
    BY <2>2, <2>5, <2>8, <2>9 DEF TypeInv, TypeOK, SessionAlive
<1>5. CASE CheckoutUnlock(r)
  <2>1. req[r].pc \in Section /\ "checkoutUnindex" \in Next1
    BY <1>5 DEF CheckoutUnlock, Section
  <2>2. req' \in [Requests -> Request] /\ RequestOK'
    BY <1>5, <2>1, GotoType DEF CheckoutUnlock
  <2>3. lock' \in [Seats -> Lock]
    BY <1>5, LockTableType, FreeType DEF CheckoutUnlock, TypeInv
  <2> QED
    BY <1>5, <2>2, <2>3 DEF CheckoutUnlock, TypeInv, TypeOK, SessionAlive, db
<1>6. CASE CheckoutUnindex(r)
  <2> DEFINE ix == Without(index[req[r].user], req[r].seats)
  <2>1. req[r].pc \in Section /\ "checkoutLeave" \in Next1
    BY <1>6 DEF CheckoutUnindex, Section
  <2>2. req' \in [Requests -> Request] /\ RequestOK'
    BY <1>6, <2>1, EndType, GotoType DEF CheckoutUnindex
  <2>3. index' = [index EXCEPT ![req[r].user] = ix]
    BY <1>6 DEF CheckoutUnindex
  <2>4. ix \in Index
    BY <2>1, SectionUser, WithoutType DEF TypeInv, TypeOK
  <2>5. index' \in [Users -> Index]
    <3> HIDE DEF ix
    <3> QED
      BY <2>1, <2>3, <2>4, SectionUser DEF TypeInv, TypeOK
  <2> QED
    BY <1>6, <2>2, <2>5 DEF CheckoutUnindex, TypeInv, TypeOK, SessionAlive, db
<1>7. CASE CheckoutLeave(r)
  <2>1. req' \in [Requests -> Request] /\ RequestOK'
    BY <1>7, EndType DEF CheckoutLeave
  <2> QED
    BY <1>7, <2>1 DEF CheckoutLeave, TypeInv, TypeOK, SessionAlive, db
<1> QED
  BY <1>1, <1>2, <1>3, <1>4, <1>5, <1>6, <1>7

\* The worker, the queue, a crash and the clock.
LEMMA RestType ==
  ASSUME TypeInv,
         \/ \E l \in Loops : ReleaseExpired(l) \/ Crash(l)
         \/ \E u \in Users : Grant(u)
         \/ Tick
  PROVE  TypeInv'
<1>1. ASSUME NEW l \in Loops, ReleaseExpired(l) PROVE TypeInv'
  <2>1. seat' \in [Seats -> Row]
    BY <1>1, SeatTableType, FreeType DEF ReleaseExpired, TypeInv
  <2> QED
    BY <1>1, <2>1 DEF ReleaseExpired, TypeInv, TypeOK, SessionAlive, RequestOK, redis
<1>2. ASSUME NEW l \in Loops, Crash(l) PROVE TypeInv'
  <2>1. req' = [r \in Requests |-> IF req[r].loop = l THEN Idle ELSE req[r]]
    BY <1>2 DEF Crash
  <2>2. Idle.pc = "idle"
    BY DEF Idle
  <2>3. req' \in [Requests -> Request] /\ RequestOK'
    BY <2>1, <2>2, IdleType DEF TypeInv, TypeOK, RequestOK, Section
  <2> QED
    BY <1>2, <2>3 DEF Crash, TypeInv, TypeOK, SessionAlive, db, redis
<1>3. ASSUME NEW u \in Users, Grant(u) PROVE TypeInv'
  <2>1. SessionLife \in Nat \ {0}
    BY TimeAssumption DEF SessionLife
  <2>2. session' \in [Users -> Nat] /\ SessionAlive'
    BY <1>3, <2>1 DEF Grant, TypeInv, TypeOK, SessionAlive
  <2> QED
    BY <1>3, <2>2 DEF Grant, TypeInv, TypeOK, RequestOK, db
<1>4. CASE Tick
  <2>1. clock' \in Nat /\ session' \in [Users -> Nat] /\ SessionAlive'
    BY <1>4 DEF Tick, TypeInv, TypeOK, SessionAlive
  <2>2. lock' \in [Seats -> Lock] /\ index' \in [Users -> Index]
    BY <1>4, FreeType DEF Tick, TypeInv, TypeOK
  <2> QED
    BY <1>4, <2>1, <2>2 DEF Tick, TypeInv, TypeOK, RequestOK, db
<1> QED
  BY <1>1, <1>2, <1>3, <1>4

LEMMA TypeStep == TypeInv /\ [Next]_vars => TypeInv'
<1> SUFFICES ASSUME TypeInv, [Next]_vars PROVE TypeInv'
  OBVIOUS
<1>1. CASE \E r \in Requests, l \in Loops : Arrive(r, l)
  BY <1>1, HoldLoadType, ReleaseType, CheckoutType DEF Arrive
<1>2. CASE \E r \in Requests : Continue(r)
  BY <1>2, HoldAdmitType, HoldClipType, HoldLockType, HoldCommitType, HoldUndoType,
     HoldIndexType, ReleaseType, CheckoutType DEF Continue
<1>3. CASE \E r \in Requests : HoldReturn(r)
  BY <1>3, HoldReturnType
<1>4. CASE (\E l \in Loops : ReleaseExpired(l) \/ Crash(l)) \/ (\E u \in Users : Grant(u)) \/ Tick
  BY <1>4, RestType
<1>5. CASE UNCHANGED vars
  BY <1>5 DEF vars, TypeInv, TypeOK, SessionAlive, RequestOK
<1> QED
  BY <1>1, <1>2, <1>3, <1>4, <1>5 DEF Next

\* Every reachable state is well typed, whatever the constants and the faults:
\* TypeOK, of which the two parts that make it inductive say that Redis keeps no
\* booking session past its expiry and that a hold has time left when it locks.
THEOREM TypeCorrect == Spec => []TypeOK
<1>1. Init => TypeInv
  BY TypeInit
<1>2. TypeInv /\ [Next]_vars => TypeInv'
  BY TypeStep
<1>3. TypeInv => TypeOK
  BY DEF TypeInv
<1> QED
  BY <1>1, <1>2, <1>3, PTL DEF Spec
=============================================================================
