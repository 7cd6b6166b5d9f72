----------------------------- MODULE SeatBooking -----------------------------
(***************************************************************************)
(* Holding, releasing and buying the seats of one assigned-seating event:  *)
(* app/services/seats.py, app/services/checkout.py, the seat repository    *)
(* and the worker that releases expired holds.                             *)
(*                                                                         *)
(* A request is a coroutine on the event loop of a uvicorn process.  Its   *)
(* database and Redis calls block the loop, so between two awaits no other *)
(* coroutine of that process runs; requests of two processes interleave at *)
(* every call.  Each action is one call, a few consecutive reads, or one   *)
(* transaction, which takes effect when it commits, with the code around.  *)
(***************************************************************************)
EXTENDS Integers, FiniteSets

CONSTANTS
  Seats,        \* the seats of the event
  Users,        \* the users who book
  NoUser,       \* SQL NULL, or an absent Redis value, where a user may stand
  Requests,     \* handler slots: how many requests may be in progress
  Loops,        \* event loops; the shipped deployment has exactly one
  NoLoop,       \* the loop of an idle slot
  MaxBookable,  \* event.max_bookable, or default_max_bookable_per_user
  FreeEvent,    \* event.ticket_type = FREE
  Second,       \* the ticks of the clock in one second
  EventEnd,     \* event.end_time
  SessionTTL,   \* queue_token_ttl_minutes, in seconds
  AuthEnds,     \* [Users -> set of the expiry times of the user's logins]
  LastGrant,    \* bound: no booking session is granted after this time
  MaxTime,      \* bound: the clock stops here
  Faults        \* what may go wrong: subset of {"crash", "dashboard", "slow"}

ASSUME UserAssumption  == NoUser \notin Users /\ IsFiniteSet(Users)
ASSUME SeatAssumption  == IsFiniteSet(Seats)
ASSUME LoopAssumption  == NoLoop \notin Loops
ASSUME LimitAssumption == MaxBookable \in Nat \ {0}
ASSUME TimeAssumption  ==
  /\ Second \in Nat \ {0} /\ SessionTTL \in Nat \ {0}
  /\ AuthEnds \in [Users -> SUBSET Nat]
  /\ EventEnd \in Nat /\ LastGrant \in Nat /\ MaxTime \in Nat

VARIABLES
  \* PostgreSQL
  seat,     \* [Seats -> Row]: the seats table
  owner,    \* [Seats -> user]: the ticket on each seat; UNIQUE(seat_id) allows one
  \* Redis
  lock,     \* [Seats -> Lock]: the seat lock keys
  index,    \* [Users -> Index]: the user's hold index, a sorted set with an expiry
  session,  \* [Users -> Nat]: expiry of the user's booking session, 0 if absent
  \* the processes
  req,      \* [Requests -> Request]: the handler running in each slot
  clock,
  \* no part of the code, read by the properties alone
  leeway    \* [Seats -> Nat]: how early the session of the seat's hold may end

db    == <<seat, owner>>
redis == <<lock, index, session>>
vars  == <<seat, owner, lock, index, session, req, clock, leeway>>

-----------------------------------------------------------------------------
(* The data *)

UserOrNone == Users \cup {NoUser}
Row        == [status: {"AVAILABLE", "LOCKED", "SOLD"}, by: UserOrNone, until: Nat]
Free       == [status |-> "AVAILABLE", by |-> NoUser, until |-> 0]
Sold       == [status |-> "SOLD", by |-> NoUser, until |-> 0]
Held(u, t) == [status |-> "LOCKED", by |-> u, until |-> t]

Lock       == [user: UserOrNone, exp: Nat]
NoLock     == [user |-> NoUser, exp |-> 0]

Index      == [score: [Seats -> Nat], exp: Nat]   \* score 0: not a member
NoIndex    == [score |-> [s \in Seats |-> 0], exp |-> 0]

\* CHECK chk_lock_consistency of the seats table.
LockConsistent(row) == (row.by = NoUser) <=> (row.until = 0)

\* Where a request is.  In the Section places it has the loop to itself; at
\* "announce" it is suspended in a broadcast.
Section == {"holdAdmit", "holdClip", "holdLock", "holdCommit", "holdIndex", "holdUndo",
            "releaseCommit", "releaseUnlock", "releaseUnindex",
            "checkoutAdmit", "checkoutOwn", "checkoutCommit", "checkoutUnlock",
            "checkoutUnindex", "checkoutLeave"}

\* seen is the session's identity map: the seat rows as the request loaded them.
Request == [pc: Section \cup {"idle", "announce"}, loop: Loops \cup {NoLoop},
            user: UserOrNone, login: Nat, seats: SUBSET Seats,
            seen: [Seats -> Row], now: Nat, ttl: Nat]
Idle == [pc |-> "idle", loop |-> NoLoop, user |-> NoUser, login |-> 0,
         seats |-> {}, seen |-> [s \in Seats |-> Free], now |-> 0, ttl |-> 0]

-----------------------------------------------------------------------------
(* The operators the handlers are built from *)

\* Redis answers TTL in whole seconds, rounded half up, and -2 for no key.
Half           == Second \div 2
Rounded(left)  == ((left + Half) \div Second) * Second
TTL(exp)       == IF exp = 0 THEN -2 ELSE Rounded(exp - clock)
SessionLife    == SessionTTL * Second

Running(l)  == \E r \in Requests : req[r].loop = l /\ req[r].pc \in Section
Tickets(u)  == {s \in Seats : owner[s] = u}
LiveHolds(u) == {s \in Seats : seat[s].status = "LOCKED" /\ seat[s].by = u /\ seat[s].until > clock}
Members(ix) == {s \in Seats : ix.score[s] # 0}

BuggyWithout(ix, S) == NoIndex   \* DEL of the index instead of ZREM of one seat

\* ZREM; Redis drops a sorted set, and its expiry, with the last member.
Without(ix, S) ==
  IF Members(ix) \subseteq S THEN NoIndex
  ELSE [score |-> [s \in Seats |-> IF s \in S THEN 0 ELSE ix.score[s]], exp |-> ix.exp]

\* ZREMRANGEBYSCORE -inf now.
Purged(ix, now) == Without(ix, {s \in Seats : ix.score[s] <= now})

Expired(now) == {s \in Seats : seat[s].status = "LOCKED" /\ seat[s].until < now}

\* release_expired_holds picks rows by what the table holds, but in a session
\* that loaded the seats before, the rows it picks keep their loaded values.
Recalled(seen, now) == [s \in Seats |-> IF s \in Expired(now) THEN Free ELSE seen[s]]

\* The unit of work writes the columns that differ from their loaded value.
Written(loaded, wanted, stored) == IF wanted = loaded THEN stored ELSE wanted
Flushed(seen, want) ==
  [s \in Seats |->
    [status |-> Written(seen[s].status, want[s].status, seat[s].status),
     by     |-> Written(seen[s].by, want[s].by, seat[s].by),
     until  |-> Written(seen[s].until, want[s].until, seat[s].until)]]

\* The request goes on at pc, remembering the time it read and what is left.
Move(r, pc, now, ttl) ==
  LET q == req[r]
  IN req' = [req EXCEPT ![r] =
       [pc |-> pc, loop |-> q.loop, user |-> q.user, login |-> q.login,
        seats |-> q.seats, seen |-> q.seen, now |-> now, ttl |-> ttl]]

Goto(r, pc) == Move(r, pc, req[r].now, req[r].ttl)
End(r)      == req' = [req EXCEPT ![r] = Idle]

\* A request is let in with a login of its user that is still alive
\* (get_current_user); it runs once the loop is free.
Enter(r, pc, l, u, S, seen) ==
  /\ req[r].pc = "idle"
  /\ ~Running(l)
  /\ \E e \in AuthEnds[u] :
       /\ e > clock
       /\ req' = [req EXCEPT ![r] =
            [pc |-> pc, loop |-> l, user |-> u, login |-> e,
             seats |-> S, seen |-> seen, now |-> 0, ttl |-> 0]]

Init ==
  /\ seat = [s \in Seats |-> Free]
  /\ owner = [s \in Seats |-> NoUser]
  /\ lock = [s \in Seats |-> NoLock]
  /\ index = [u \in Users |-> NoIndex]
  /\ session = [u \in Users |-> 0]
  /\ req = [r \in Requests |-> Idle]
  /\ clock = 1
  /\ leeway = [s \in Seats |-> Second]

-----------------------------------------------------------------------------
(* The handlers' conditions.  An operator named Buggy... is its neighbour as a *)
(* plausible bug would have it; no action uses it.                             *)

BuggyHasSession(u) == TRUE           \* the answer of TTL is not tested
HasSession(u)      == TTL(session[u]) > 0

\* SeatService._enforce_max_bookable, with the purged hold index.
HoldWithinLimit(u, ix) == Cardinality(Members(ix)) + Cardinality(Tickets(u)) + 1 <= MaxBookable

\* CheckoutService._enforce_max_bookable.
BuggyPurchaseWithinLimit(u, S) == Cardinality(Tickets(u)) <= MaxBookable
PurchaseWithinLimit(u, S) == Cardinality(Tickets(u)) + Cardinality(S) <= MaxBookable

BuggyLockTaken(S) == FALSE           \* SET without NX
LockTaken(S)      == \E s \in S : lock[s].user # NoUser

BuggyLockFor(u, ttl) == [user |-> u, exp |-> MaxTime + 1]   \* SET without EX
LockFor(u, ttl)      == [user |-> u, exp |-> clock + ttl]

\* May u hold a seat whose row reads like this?
BuggyHoldable(row, u, now) ==        \* SOLD is not refused
  row.status # "LOCKED" \/ (row.by = u /\ row.until > now)
Holdable(row, u, now) ==
  \/ row.status = "AVAILABLE"
  \/ row.status = "LOCKED" /\ row.by = u /\ row.until > now

\* May u buy a seat whose row reads like this?
BuggyBuyable(row, u, now) == row.status = "LOCKED" /\ row.until > now   \* anyone's
Buyable(row, u, now) == row.status = "LOCKED" /\ row.by = u /\ row.until > now

BuggyReleasable(row, u) == TRUE      \* the Redis lock alone is trusted
Releasable(row, u)      == row.by = u

BuggyLeaves(ix) == TRUE              \* every checkout ends the session
Leaves(ix)      == Members(ix) = {}

-----------------------------------------------------------------------------
(* SeatService.hold *)

\* The event query loads every seat of the event into the session.
HoldLoad(r, l, u, s) ==
  /\ clock < EventEnd
  /\ Enter(r, "holdAdmit", l, u, {s}, seat)
  /\ UNCHANGED <<db, redis, clock, leeway>>

\* The booking session must be alive, and the live holds (after dropping the
\* expired ones from the index), the tickets and this seat within the limit.
HoldAdmit(r) ==
  LET u  == req[r].user
      ix == Purged(index[u], clock)
  IN /\ req[r].pc = "holdAdmit"
     /\ \/ ~HasSession(u) /\ End(r) /\ UNCHANGED index
        \/ /\ HasSession(u)
           /\ index' = [index EXCEPT ![u] = ix]
           /\ \/ ~HoldWithinLimit(u, ix) /\ End(r)
              \/ /\ HoldWithinLimit(u, ix)
                 /\ Move(r, "holdClip", clock, TTL(session[u]))
     /\ UNCHANGED <<db, lock, session, clock, leeway>>

\* The booking session may not outlive the login the request came with: it is
\* set to end with the hold, unless the login's own TTL rounds to nothing.
\* EXPIRE does nothing to a session that is gone.
HoldClip(r) ==
  LET u     == req[r].user
      login == TTL(req[r].login)
      ttl   == IF login < req[r].ttl THEN login ELSE req[r].ttl
      end   == IF session[u] = 0 THEN 0 ELSE clock + ttl
  IN /\ req[r].pc = "holdClip"
     /\ \/ req[r].login <= clock /\ End(r) /\ UNCHANGED <<session, leeway>>
        \/ /\ req[r].login > clock
           /\ login = 0
           /\ Goto(r, "holdLock")
           /\ UNCHANGED <<session, leeway>>
        \/ /\ req[r].login > clock
           /\ login > 0
           /\ session' = [session EXCEPT ![u] = end]
           /\ leeway' = [s \in Seats |-> IF s \in LiveHolds(u) /\ end < session[u]
                                         THEN leeway[s] + Half ELSE leeway[s]]
           /\ Move(r, "holdLock", req[r].now, ttl)
     /\ UNCHANGED <<db, lock, index, clock>>

\* SET lock_key ... EX ttl NX.
HoldLock(r) ==
  LET q == req[r]
  IN /\ q.pc = "holdLock"
     /\ \/ LockTaken(q.seats) /\ End(r) /\ UNCHANGED lock
        \/ /\ ~LockTaken(q.seats)
           /\ lock' = [s \in Seats |-> IF s \in q.seats THEN LockFor(q.user, q.ttl) ELSE lock[s]]
           /\ Goto(r, "holdCommit")
     /\ UNCHANGED <<db, index, session, clock, leeway>>

\* The transaction: release expired holds, lock the row, check it, write it.
HoldCommit(r) ==
  LET q    == req[r]
      mem  == Recalled(q.seen, q.now)
      hold == Held(q.user, q.now + q.ttl)
      want == [s \in Seats |-> IF s \in q.seats THEN hold ELSE mem[s]]
      new  == Flushed(q.seen, want)
      ok   == /\ \A s \in q.seats : Holdable(mem[s], q.user, q.now)
              /\ \A s \in Seats : LockConsistent(new[s])
  IN /\ q.pc = "holdCommit"
     /\ \/ /\ ok
           /\ seat' = new
           /\ leeway' = [s \in Seats |-> IF s \in q.seats THEN Second ELSE leeway[s]]
           /\ Goto(r, "holdIndex")
        \/ ~ok /\ Goto(r, "holdUndo") /\ UNCHANGED <<seat, leeway>>
     /\ UNCHANGED <<owner, redis, clock>>

HoldUndo(r) ==
  /\ req[r].pc = "holdUndo"
  /\ lock' = [s \in Seats |-> IF s \in req[r].seats THEN NoLock ELSE lock[s]]
  /\ End(r)
  /\ UNCHANGED <<db, index, session, clock, leeway>>

\* ZADD the seat with its locked_until, EXPIRE the index; then the broadcast,
\* after which only the lock key matters.
HoldIndex(r) ==
  LET q == req[r]
      score == [s \in Seats |-> IF s \in q.seats THEN q.now + q.ttl ELSE index[q.user].score[s]]
  IN /\ q.pc = "holdIndex"
     /\ index' = [index EXCEPT ![q.user] = [score |-> score, exp |-> clock + q.ttl]]
     /\ req' = [req EXCEPT ![r] =
          [pc |-> "announce", loop |-> q.loop, user |-> NoUser, login |-> 0,
           seats |-> q.seats, seen |-> Idle.seen, now |-> 0, ttl |-> 0]]
     /\ UNCHANGED <<db, lock, session, clock, leeway>>

\* Back from the broadcast.  If the dashboard query fails, the handler deletes
\* the lock key, whoever holds it by now.
HoldReturn(r) ==
  /\ req[r].pc = "announce"
  /\ ~Running(req[r].loop)
  /\ End(r)
  /\ \/ UNCHANGED lock
     \/ /\ "dashboard" \in Faults
        /\ lock' = [s \in Seats |-> IF s \in req[r].seats THEN NoLock ELSE lock[s]]
  /\ UNCHANGED <<db, index, session, clock, leeway>>

-----------------------------------------------------------------------------
(* SeatService.release *)

ReleaseCheck(r, l, u, s) ==
  /\ lock[s].user = u
  /\ Enter(r, "releaseCommit", l, u, {s}, Idle.seen)
  /\ UNCHANGED <<db, redis, clock, leeway>>

\* No seat was loaded before, so the row is read as it is in the table.
ReleaseCommit(r) ==
  LET mine == \A s \in req[r].seats : Releasable(seat[s], req[r].user)
  IN /\ req[r].pc = "releaseCommit"
     /\ \/ ~mine /\ End(r) /\ UNCHANGED seat
        \/ /\ mine
           /\ seat' = [s \in Seats |-> IF s \in req[r].seats THEN Free ELSE seat[s]]
           /\ Goto(r, "releaseUnlock")
     /\ UNCHANGED <<owner, redis, clock, leeway>>

ReleaseUnlock(r) ==
  /\ req[r].pc = "releaseUnlock"
  /\ lock' = [s \in Seats |-> IF s \in req[r].seats THEN NoLock ELSE lock[s]]
  /\ Goto(r, "releaseUnindex")
  /\ UNCHANGED <<db, index, session, clock, leeway>>

ReleaseUnindex(r) ==
  /\ req[r].pc = "releaseUnindex"
  /\ index' = [index EXCEPT ![req[r].user] = Without(@, req[r].seats)]
  /\ End(r)
  /\ UNCHANGED <<db, lock, session, clock, leeway>>

-----------------------------------------------------------------------------
(* CheckoutService.checkout, assigned seating *)

CheckoutLoad(r, l, u, S) ==
  /\ clock < EventEnd
  /\ S # {}
  /\ Enter(r, "checkoutAdmit", l, u, S, seat)
  /\ UNCHANGED <<db, redis, clock, leeway>>

CheckoutAdmit(r) ==
  LET q  == req[r]
      ok == /\ HasSession(q.user)
            /\ FreeEvent => Cardinality(q.seats) = 1
            /\ PurchaseWithinLimit(q.user, q.seats)
  IN /\ q.pc = "checkoutAdmit"
     /\ IF ok THEN Goto(r, "checkoutOwn") ELSE End(r)
     /\ UNCHANGED <<db, redis, clock, leeway>>

\* MGET of the lock keys: every one must be the user's.
CheckoutOwn(r) ==
  /\ req[r].pc = "checkoutOwn"
  /\ IF \A s \in req[r].seats : lock[s].user = req[r].user
     THEN Move(r, "checkoutCommit", clock, req[r].ttl)
     ELSE End(r)
  /\ UNCHANGED <<db, redis, clock, leeway>>

\* The transaction: release expired holds, lock and check the rows, sell them,
\* insert a ticket for each.  A second ticket on a seat violates UNIQUE(seat_id).
CheckoutCommit(r) ==
  LET q    == req[r]
      mem  == Recalled(q.seen, q.now)
      want == [s \in Seats |-> IF s \in q.seats THEN Sold ELSE mem[s]]
      new  == Flushed(q.seen, want)
      ok   == /\ \A s \in q.seats : Buyable(mem[s], q.user, q.now)
              /\ \A s \in q.seats : owner[s] = NoUser
              /\ \A s \in Seats : LockConsistent(new[s])
  IN /\ q.pc = "checkoutCommit"
     /\ \/ ~ok /\ End(r) /\ UNCHANGED db
        \/ /\ ok
           /\ seat' = new
           /\ owner' = [s \in Seats |-> IF s \in q.seats THEN q.user ELSE owner[s]]
           /\ Goto(r, "checkoutUnlock")
     /\ UNCHANGED <<redis, clock, leeway>>

CheckoutUnlock(r) ==
  /\ req[r].pc = "checkoutUnlock"
  /\ lock' = [s \in Seats |-> IF s \in req[r].seats THEN NoLock ELSE lock[s]]
  /\ Goto(r, "checkoutUnindex")
  /\ UNCHANGED <<db, index, session, clock, leeway>>

\* ZREM the seats; ZCARD = 0 ends the booking session in the next call.
CheckoutUnindex(r) ==
  LET ix == Without(index[req[r].user], req[r].seats)
  IN /\ req[r].pc = "checkoutUnindex"
     /\ index' = [index EXCEPT ![req[r].user] = ix]
     /\ IF Leaves(ix) THEN Goto(r, "checkoutLeave") ELSE End(r)
     /\ UNCHANGED <<db, lock, session, clock, leeway>>

CheckoutLeave(r) ==
  /\ req[r].pc = "checkoutLeave"
  /\ session' = [session EXCEPT ![req[r].user] = 0]
  /\ End(r)
  /\ UNCHANGED <<db, lock, index, clock, leeway>>

-----------------------------------------------------------------------------
(* The rest of the system *)

\* release_expired_holds_job: every process runs the worker on its loop, with
\* a session that holds no seats.
ReleaseExpired(l) ==
  /\ ~Running(l)
  /\ Expired(clock) # {}
  /\ seat' = [s \in Seats |-> IF s \in Expired(clock) THEN Free ELSE seat[s]]
  /\ UNCHANGED <<owner, redis, req, clock, leeway>>

\* QueueService._grant_access, on a thread or in the queue worker; it is
\* called for users whose booking session is gone, or has no second left.
Grant(u) ==
  /\ TTL(session[u]) <= 0
  /\ clock <= LastGrant
  /\ session' = [session EXCEPT ![u] = clock + SessionLife]
  /\ UNCHANGED <<db, lock, index, req, clock, leeway>>

\* The process of loop l dies and is restarted: its requests are gone, its
\* open transactions roll back, Redis and the database stay.
Crash(l) ==
  /\ "crash" \in Faults
  /\ \E r \in Requests : req[r].loop = l
  /\ req' = [r \in Requests |-> IF req[r].loop = l THEN Idle ELSE req[r]]
  /\ UNCHANGED <<db, redis, clock, leeway>>

\* Time passes and Redis drops the keys whose time has come.  Unless "slow" is
\* among the faults, a handler's calls between two awaits take no time.
Tick ==
  /\ clock < MaxTime
  /\ "slow" \in Faults \/ \A l \in Loops : ~Running(l)
  /\ clock' = clock + 1
  /\ lock' = [s \in Seats |-> IF lock[s].exp <= clock' THEN NoLock ELSE lock[s]]
  /\ index' = [u \in Users |-> IF index[u].exp <= clock' THEN NoIndex ELSE index[u]]
  /\ session' = [u \in Users |-> IF session[u] <= clock' THEN 0 ELSE session[u]]
  /\ UNCHANGED <<db, req, leeway>>

Continue(r) ==
  \/ HoldAdmit(r) \/ HoldClip(r) \/ HoldLock(r)
  \/ HoldCommit(r) \/ HoldUndo(r) \/ HoldIndex(r)
  \/ ReleaseCommit(r) \/ ReleaseUnlock(r) \/ ReleaseUnindex(r)
  \/ CheckoutAdmit(r) \/ CheckoutOwn(r) \/ CheckoutCommit(r)
  \/ CheckoutUnlock(r) \/ CheckoutUnindex(r) \/ CheckoutLeave(r)

Arrive(r, l) ==
  \/ \E u \in Users, s \in Seats : HoldLoad(r, l, u, s)
  \/ \E u \in Users, s \in Seats : ReleaseCheck(r, l, u, s)
  \/ \E u \in Users, S \in SUBSET Seats : CheckoutLoad(r, l, u, S)

Next ==
  \/ \E r \in Requests, l \in Loops : Arrive(r, l)
  \/ \E r \in Requests : Continue(r)
  \/ \E r \in Requests : HoldReturn(r)
  \/ \E l \in Loops : ReleaseExpired(l) \/ Crash(l)
  \/ \E u \in Users : Grant(u)
  \/ Tick

Spec == Init /\ [][Next]_vars

\* An event loop runs what is ready, in the order it became ready, so a started
\* section goes on, a finished broadcast resumes, the worker gets its turn, and
\* time passes, however many requests arrive.
Fairness ==
  /\ \A r \in Requests : WF_vars(Continue(r)) /\ SF_vars(HoldReturn(r))
  /\ \A l \in Loops : SF_vars(ReleaseExpired(l))
  /\ SF_vars(Tick)

FairSpec == Spec /\ Fairness

-----------------------------------------------------------------------------
(* Properties *)

\* Every variable has its type.
TypeOK ==
  /\ seat \in [Seats -> Row]
  /\ owner \in [Seats -> UserOrNone]
  /\ lock \in [Seats -> Lock]
  /\ index \in [Users -> Index]
  /\ session \in [Users -> Nat]
  /\ req \in [Requests -> Request]
  /\ clock \in Nat
  /\ leeway \in [Seats -> Nat]

\* The seats table and the tickets table agree: a seat is SOLD exactly when a
\* ticket was issued for it.  Checkout writes both from a row it read earlier;
\* hold, release and the worker write the status without looking at tickets.
SoldIffTicketed == \A s \in Seats : seat[s].status = "SOLD" <=> owner[s] # NoUser

\* Once sold, a seat stays sold to the same user: no later hold, release,
\* expiry or second checkout, however interleaved, takes it back.
SoldSeatStaysSold ==
  [][\A s \in Seats : seat[s].status = "SOLD" =>
       seat'[s].status = "SOLD" /\ owner'[s] = owner[s]]_vars

\* No user ever has more tickets than the event allows, although checkout
\* counts them two Redis calls before the transaction that adds to them.
TicketsWithinLimit == \A u \in Users : Cardinality(Tickets(u)) <= MaxBookable

\* A live hold can be bought by the user who has it: the Redis lock is still
\* that user's and lasts as long as the hold, whatever failed requests, releases
\* and expiries of other users deleted meanwhile.
LiveHoldIsLocked ==
  \A s \in Seats : \A u \in Users :
    s \in LiveHolds(u) => lock[s].user = u /\ lock[s].exp >= seat[s].until

\* What is left of a hold exceeds its leeway: a second, and half a second more
\* for each later hold call of its user that made the session end earlier.
Secure(s) == clock + leeway[s] <= seat[s].until

\* Until the leeway at its end, whoever has a hold also has the booking session
\* that checkout demands: a session ends early neither by the checkout of other
\* seats nor by more than the rounding of the time to live that hold writes back.
HoldsCanBePaid ==
  \A u \in Users : \A s \in LiveHolds(u) : Secure(s) => HasSession(u)

\* A hold that is written to the table and not yet to the index.
Pending(s) == \E r \in Requests : req[r].pc = "holdIndex" /\ s \in req[r].seats

\* ... and that long the hold counts against the limit: the index has it, with
\* the deadline of the table, however often the index's own expiry was set anew.
HoldsAreCounted ==
  \A u \in Users : \A s \in LiveHolds(u) :
    Secure(s) /\ ~Pending(s) => index[u].score[s] = seat[s].until

\* API_REFERENCE.md: the seats one user holds share the same locked_until.
HoldsShareLockedUntil ==
  \A u \in Users : \A s, t \in LiveHolds(u) : seat[s].until = seat[t].until

\* No seat stays in between: it is sold, or again and again both available in
\* the table and free of a lock in Redis, even when handlers die half-way.
NeverStuck ==
  \A s \in Seats :
    []<>(seat[s].status = "SOLD" \/ (seat[s].status = "AVAILABLE" /\ lock[s] = NoLock))

\* The abstract sale this implements.
Sale == INSTANCE SeatSale WITH
  sale <- [s \in Seats |-> [status |-> seat[s].status,
                            who |-> IF seat[s].status = "LOCKED" THEN seat[s].by ELSE owner[s]]],
  deadline <- [s \in Seats |-> seat[s].until]

\* Handlers, worker, clock and faults together do only what SeatSale allows: a
\* hold is lost only to its user or to time, and a seat is sold only to the
\* user who holds it, within the limit.
ImplementsSale == Sale!Spec
=============================================================================
