--------------------------- MODULE OneProcessProofs ---------------------------
(***************************************************************************)
(* Proofs about SeatBooking in the shipped deployment, one uvicorn process *)
(* and hence one event loop: any number of seats, users and requests, any  *)
(* times, logins and faults.  A request that found the loop free has it to *)
(* itself until its next await, so the seat rows it loaded are still the   *)
(* rows of the table when its transaction writes them.  With two processes *)
(* they need not be, and none of the theorems below holds.                 *)
(***************************************************************************)
EXTENDS SeatBookingProofs, FiniteSetTheorems

USE DEF UserOrNone, Row, Lock, Index, Request

OneProcess == \A l1, l2 \in Loops : l1 = l2

-----------------------------------------------------------------------------
(* The inductive invariant *)

\* Between loading the seats and the transaction's writes.
Loaded == {"holdAdmit", "holdClip", "holdLock", "holdCommit",
           "checkoutAdmit", "checkoutOwn", "checkoutCommit"}

\* Handlers of one seat.
Single == {"holdAdmit", "holdClip", "holdLock", "holdCommit", "releaseCommit"}

\* At most one request is between two awaits, and it runs on a loop.
Exclusive ==
  /\ \A r \in Requests : req[r].pc \in Section => req[r].loop \in Loops
  /\ \A r, x \in Requests : req[r].pc \in Section /\ req[x].pc \in Section => r = x

\* Its loaded seats are those of the table.
Fresh == \A r \in Requests : req[r].pc \in Loaded => req[r].seen = seat

\* Holds and releases are about one seat, and the time a request read is past.
Shape ==
  \A r \in Requests :
    /\ req[r].pc \in Single => \E s \in Seats : req[r].seats = {s}
    /\ req[r].now <= clock

\* A purchase that was let in still fits.
StillFits ==
  \A r \in Requests :
    req[r].pc \in {"checkoutOwn", "checkoutCommit"} => PurchaseWithinLimit(req[r].user, req[r].seats)

\* Only a LOCKED row names a holder and a deadline.
RowOK == \A s \in Seats : seat[s].status # "LOCKED" => seat[s].by = NoUser /\ seat[s].until = 0

RequestsOK == Exclusive /\ Fresh /\ Shape /\ StillFits
SaleInv    == TypeInv /\ RequestsOK /\ RowOK /\ SoldIffTicketed /\ TicketsWithinLimit

-----------------------------------------------------------------------------
(* What the steps do to the requests *)

LEMMA IdleFacts == Idle.pc \notin Section /\ Idle.now = 0 /\ Idle.pc \notin Loaded \cup Single
BY DEF Idle, Section, Loaded, Single

LEMMA EndKeeps ==
  ASSUME TypeInv, RequestsOK, NEW r \in Requests, End(r), UNCHANGED <<db, clock>>
  PROVE  RequestsOK'
<1>1. req' = [req EXCEPT ![r] = Idle] /\ UNCHANGED <<seat, owner, clock>>
  BY DEF End, db
<1>2. req \in [Requests -> Request] /\ clock \in Nat
  BY DEF TypeInv, TypeOK
<1>3. \A x \in Requests : req'[x] = req[x] \/ req'[x] = Idle
  BY <1>1, <1>2
<1>4. Idle.pc \notin {"checkoutOwn", "checkoutCommit"}
  BY DEF Idle
<1>5. Exclusive' /\ Fresh' /\ Shape'
  BY <1>1, <1>2, <1>3, IdleFacts DEF RequestsOK, Exclusive, Fresh, Shape
<1>6. StillFits'
  BY <1>1, <1>3, <1>4 DEF RequestsOK, StillFits, PurchaseWithinLimit, Tickets
<1> QED
  BY <1>5, <1>6 DEF RequestsOK

LEMMA MoveKeeps ==
  ASSUME TypeInv, RequestsOK, NEW r \in Requests, req[r].pc \in Section,
         NEW pc \in Section, NEW now \in Nat, NEW ttl, Move(r, pc, now, ttl),
         now <= clock,
         pc \in Loaded => req[r].pc \in Loaded,
         pc \in Single => req[r].pc \in Single,
         pc \in {"checkoutOwn", "checkoutCommit"} => PurchaseWithinLimit(req[r].user, req[r].seats),
         UNCHANGED <<db, clock>>
  PROVE  RequestsOK'
<1> DEFINE q == req[r]
           p == [pc |-> pc, loop |-> q.loop, user |-> q.user, login |-> q.login,
                 seats |-> q.seats, seen |-> q.seen, now |-> now, ttl |-> ttl]
<1>1. req' = [req EXCEPT ![r] = p] /\ UNCHANGED <<seat, owner, clock>>
  BY DEF Move, db
<1>2. req \in [Requests -> Request] /\ clock \in Nat
  BY DEF TypeInv, TypeOK
<1>3. /\ p.pc = pc /\ p.loop = q.loop /\ p.user = q.user
      /\ p.seats = q.seats /\ p.seen = q.seen /\ p.now = now
  OBVIOUS
<1>4. req'[r] = p /\ \A x \in Requests : x # r => req'[x] = req[x]
  <2> HIDE DEF p
  <2> QED
    BY <1>1, <1>2
<1> HIDE DEF p
<1>5. Exclusive' /\ Fresh' /\ Shape'
  BY <1>1, <1>3, <1>4 DEF RequestsOK, Exclusive, Fresh, Shape
<1>6. StillFits'
  <2> SUFFICES ASSUME NEW x \in Requests, req'[x].pc \in {"checkoutOwn", "checkoutCommit"}
               PROVE  PurchaseWithinLimit(req[x].user, req[x].seats)'
    BY DEF StillFits
  <2>1. PurchaseWithinLimit(req'[x].user, req'[x].seats)
    BY <1>3, <1>4 DEF RequestsOK, StillFits
  <2> QED
    BY <1>1, <2>1 DEF PurchaseWithinLimit, Tickets
<1> QED
  BY <1>5, <1>6 DEF RequestsOK

LEMMA EnterKeeps ==
  ASSUME OneProcess, TypeInv, RequestsOK,
         NEW r \in Requests, NEW l \in Loops, NEW u \in Users, NEW S \in SUBSET Seats, NEW seen,
         NEW pc \in {"holdAdmit", "releaseCommit", "checkoutAdmit"},
         Enter(r, pc, l, u, S, seen),
         pc # "releaseCommit" => seen = seat,
         pc # "checkoutAdmit" => \E s \in Seats : S = {s},
         UNCHANGED <<db, clock>>
  PROVE  RequestsOK'
<1>1. PICK e \in AuthEnds[u] : req' = [req EXCEPT ![r] =
            [pc |-> pc, loop |-> l, user |-> u, login |-> e,
             seats |-> S, seen |-> seen, now |-> 0, ttl |-> 0]]
  BY DEF Enter
<1> DEFINE p == [pc |-> pc, loop |-> l, user |-> u, login |-> e,
                 seats |-> S, seen |-> seen, now |-> 0, ttl |-> 0]
<1>2. req \in [Requests -> Request] /\ clock \in Nat /\ UNCHANGED <<seat, owner, clock>>
  BY DEF TypeInv, TypeOK, db
<1>3. p.pc = pc /\ p.loop = l /\ p.seats = S /\ p.seen = seen /\ p.now = 0
  OBVIOUS
<1>4. req'[r] = p /\ \A x \in Requests : x # r => req'[x] = req[x]
  <2> HIDE DEF p
  <2> QED
    BY <1>1, <1>2 DEF p
<1> HIDE DEF p
<1>5. \A x \in Requests : req[x].pc \notin Section
  BY DEF Enter, Running, OneProcess, RequestsOK, Exclusive
<1>6. Exclusive'
  BY <1>3, <1>4, <1>5 DEF Exclusive
<1>7. Fresh' /\ Shape'
  <2>1. pc \in Loaded => p.seen = seat
    BY <1>3 DEF Loaded
  <2>2. pc \in Single => \E s \in Seats : p.seats = {s}
    BY <1>3 DEF Single
  <2>3. Fresh'
    BY <1>2, <1>3, <1>4, <2>1 DEF RequestsOK, Fresh
  <2>4. \A x \in Requests : req'[x].now <= clock
    BY <1>2, <1>3, <1>4 DEF RequestsOK, Shape
  <2>5. \A x \in Requests : req'[x].pc \in Single => \E s \in Seats : req'[x].seats = {s}
    BY <1>3, <1>4, <2>2 DEF RequestsOK, Shape
  <2> QED
    BY <1>2, <2>3, <2>4, <2>5 DEF Shape
<1>8. StillFits'
  BY <1>2, <1>3, <1>4 DEF RequestsOK, StillFits, PurchaseWithinLimit, Tickets
<1> QED
  BY <1>6, <1>7, <1>8 DEF RequestsOK

\* A request that writes the seats is the only one between two awaits.
LEMMA WriteKeeps ==
  ASSUME TypeInv, RequestsOK, NEW r \in Requests, req[r].pc \in Section,
         NEW pc \in {"holdIndex", "releaseUnlock", "checkoutUnlock"}, Goto(r, pc),
         UNCHANGED clock
  PROVE  RequestsOK'
<1> DEFINE q == req[r]
           p == [pc |-> pc, loop |-> q.loop, user |-> q.user, login |-> q.login,
                 seats |-> q.seats, seen |-> q.seen, now |-> q.now, ttl |-> q.ttl]
<1>1. req' = [req EXCEPT ![r] = p]
  BY DEF Goto, Move
<1>2. req \in [Requests -> Request] /\ clock \in Nat
  BY DEF TypeInv, TypeOK
<1>3. p.pc = pc /\ p.loop = q.loop /\ p.now = q.now
  OBVIOUS
<1>4. req'[r] = p /\ \A x \in Requests : x # r => req'[x] = req[x]
  <2> HIDE DEF p
  <2> QED
    BY <1>1, <1>2
<1> HIDE DEF p
<1>5. \A x \in Requests : x # r => req'[x].pc \notin Section
  BY <1>4 DEF RequestsOK, Exclusive
<1>6. \A x \in Requests : req'[x].pc \notin Loaded \cup Single
  BY <1>3, <1>4, <1>5 DEF Section, Loaded, Single
<1>7. Exclusive' /\ Fresh' /\ Shape'
  BY <1>2, <1>3, <1>4, <1>5, <1>6 DEF RequestsOK, Exclusive, Fresh, Shape
<1>8. StillFits'
  BY <1>6 DEF StillFits, Loaded
<1> QED
  BY <1>7, <1>8 DEF RequestsOK

\* The steps of a request that leave the tables alone.
Quiet(r) ==
  \/ HoldAdmit(r) \/ HoldClip(r) \/ HoldLock(r) \/ HoldUndo(r) \/ HoldIndex(r) \/ HoldReturn(r)
  \/ ReleaseUnlock(r) \/ ReleaseUnindex(r)
  \/ CheckoutAdmit(r) \/ CheckoutOwn(r)
  \/ CheckoutUnlock(r) \/ CheckoutUnindex(r) \/ CheckoutLeave(r)

LEMMA ArriveKeeps ==
  ASSUME OneProcess, TypeInv, RequestsOK, NEW r \in Requests, NEW l \in Loops, Arrive(r, l)
  PROVE  RequestsOK' /\ UNCHANGED <<db, clock>>
<1>1. ASSUME NEW u \in Users, NEW s \in Seats, HoldLoad(r, l, u, s)
      PROVE  RequestsOK' /\ UNCHANGED <<db, clock>>
  BY <1>1, EnterKeeps DEF HoldLoad
<1>2. ASSUME NEW u \in Users, NEW s \in Seats, ReleaseCheck(r, l, u, s)
      PROVE  RequestsOK' /\ UNCHANGED <<db, clock>>
  BY <1>2, EnterKeeps DEF ReleaseCheck
<1>3. ASSUME NEW u \in Users, NEW S \in SUBSET Seats, CheckoutLoad(r, l, u, S)
      PROVE  RequestsOK' /\ UNCHANGED <<db, clock>>
  BY <1>3, EnterKeeps DEF CheckoutLoad
<1> QED
  BY <1>1, <1>2, <1>3 DEF Arrive

LEMMA HoldIndexKeeps ==
  ASSUME TypeInv, RequestsOK, NEW r \in Requests, HoldIndex(r)
  PROVE  RequestsOK' /\ UNCHANGED <<db, clock>>
<1> DEFINE q == req[r]
           p == [pc |-> "announce", loop |-> q.loop, user |-> NoUser, login |-> 0,
                 seats |-> q.seats, seen |-> Idle.seen, now |-> 0, ttl |-> 0]
<1>1. req' = [req EXCEPT ![r] = p] /\ UNCHANGED <<seat, owner, clock>>
  BY DEF HoldIndex, db
<1>2. req \in [Requests -> Request] /\ clock \in Nat
  BY DEF TypeInv, TypeOK
<1>3. p.pc \notin Section /\ p.pc \notin Loaded \cup Single /\ p.now = 0
  BY DEF Section, Loaded, Single
<1>4. req'[r] = p /\ \A x \in Requests : x # r => req'[x] = req[x]
  <2> HIDE DEF p
  <2> QED
    BY <1>1, <1>2
<1> HIDE DEF p
<1>5. Exclusive' /\ Fresh' /\ Shape'
  BY <1>1, <1>2, <1>3, <1>4 DEF RequestsOK, Exclusive, Fresh, Shape
<1>6. StillFits'
  <2> SUFFICES ASSUME NEW x \in Requests, req'[x].pc \in {"checkoutOwn", "checkoutCommit"}
               PROVE  PurchaseWithinLimit(req[x].user, req[x].seats)'
    BY DEF StillFits
  <2>1. PurchaseWithinLimit(req'[x].user, req'[x].seats)
    BY <1>3, <1>4 DEF RequestsOK, StillFits, Loaded
  <2> QED
    BY <1>1, <2>1 DEF PurchaseWithinLimit, Tickets
<1> QED
  BY <1>1, <1>5, <1>6 DEF RequestsOK, db

LEMMA QuietKeeps ==
  ASSUME TypeInv, RequestsOK, NEW r \in Requests, Quiet(r)
  PROVE  RequestsOK' /\ UNCHANGED <<db, clock>>
<1>1. UNCHANGED <<db, clock>>
  BY DEF Quiet, HoldAdmit, HoldClip, HoldLock, HoldUndo, HoldIndex, HoldReturn, ReleaseUnlock,
         ReleaseUnindex, CheckoutAdmit, CheckoutOwn, CheckoutUnlock, CheckoutUnindex, CheckoutLeave
<1>2. CASE End(r)
  BY <1>1, <1>2, EndKeeps
<1>3. CASE HoldIndex(r)
  BY <1>3, HoldIndexKeeps
<1>4. clock \in Nat /\ req[r].now \in Nat /\ req[r].now <= clock
  <2>1. clock \in Nat /\ req[r] \in Request
    BY DEF TypeInv, TypeOK
  <2>2. req[r].now <= clock
    BY DEF RequestsOK, Shape
  <2> QED
    BY <2>1, <2>2
<1>5. CASE HoldAdmit(r) /\ ~End(r)
  <2>1. req[r].pc = "holdAdmit" /\ Move(r, "holdClip", clock, TTL(session[req[r].user]))
    BY <1>5 DEF HoldAdmit
  <2> QED
    BY <1>1, <1>4, <2>1, MoveKeeps DEF Section, Loaded, Single
<1>6. CASE HoldClip(r) /\ ~End(r)
  <2>1. req[r].pc = "holdClip" /\ \E ttl : Move(r, "holdLock", req[r].now, ttl)
    BY <1>6 DEF HoldClip, Goto
  <2> QED
    BY <1>1, <1>4, <2>1, MoveKeeps DEF Section, Loaded, Single
<1>7. CASE (HoldLock(r) \/ ReleaseUnlock(r) \/ CheckoutUnlock(r) \/ CheckoutUnindex(r)) /\ ~End(r)
  <2>1. \/ req[r].pc = "holdLock" /\ Goto(r, "holdCommit")
        \/ req[r].pc = "releaseUnlock" /\ Goto(r, "releaseUnindex")
        \/ req[r].pc = "checkoutUnlock" /\ Goto(r, "checkoutUnindex")
        \/ req[r].pc = "checkoutUnindex" /\ Goto(r, "checkoutLeave")
    BY <1>7 DEF HoldLock, ReleaseUnlock, CheckoutUnlock, CheckoutUnindex
  <2> QED
    BY <1>1, <1>4, <2>1, MoveKeeps DEF Goto, Section, Loaded, Single
<1>8. CASE CheckoutAdmit(r) /\ ~End(r)
  <2>1. /\ req[r].pc = "checkoutAdmit" /\ Goto(r, "checkoutOwn")
        /\ PurchaseWithinLimit(req[r].user, req[r].seats)
    BY <1>8 DEF CheckoutAdmit
  <2> QED
    BY <1>1, <1>4, <2>1, MoveKeeps DEF Goto, Section, Loaded, Single
<1>9. CASE CheckoutOwn(r) /\ ~End(r)
  <2>1. req[r].pc = "checkoutOwn" /\ Move(r, "checkoutCommit", clock, req[r].ttl)
    BY <1>9 DEF CheckoutOwn
  <2>2. PurchaseWithinLimit(req[r].user, req[r].seats)
    BY <2>1 DEF RequestsOK, StillFits
  <2> QED
    BY <1>1, <1>4, <2>1, <2>2, MoveKeeps DEF Section, Loaded, Single
<1> QED
  BY <1>2, <1>3, <1>5, <1>6, <1>7, <1>8, <1>9
     DEF Quiet, HoldUndo, HoldReturn, ReleaseUnindex, CheckoutLeave

-----------------------------------------------------------------------------
(* What the steps do to the tables *)

\* A transaction that writes what it wants over rows it has read up to date.
LEMMA FreshFlush ==
  ASSUME seat \in [Seats -> Row], NEW want \in [Seats -> Row]
  PROVE  Flushed(seat, want) = want
<1>1. \A s \in Seats : Flushed(seat, want)[s] = want[s]
  BY DEF Flushed, Written
<1>2. Flushed(seat, want) \in [Seats -> Row]
  BY FlushedType
<1> QED
  BY <1>1, <1>2

\* The seats that S, the expired ones and the others end up as.
After(S, row, E) == [s \in Seats |-> IF s \in S THEN row ELSE IF s \in E THEN Free ELSE seat[s]]

LEMMA FreshCommit ==
  ASSUME TypeInv, RequestsOK, NEW r \in Requests, req[r].pc \in Loaded, NEW row \in Row
  PROVE  LET mem  == Recalled(req[r].seen, req[r].now)
             want == [s \in Seats |-> IF s \in req[r].seats THEN row ELSE mem[s]]
         IN  /\ Flushed(req[r].seen, want) = After(req[r].seats, row, Expired(req[r].now))
             /\ \A s \in Seats : mem[s] = IF s \in Expired(req[r].now) THEN Free ELSE seat[s]
<1> DEFINE mem  == Recalled(req[r].seen, req[r].now)
           want == [s \in Seats |-> IF s \in req[r].seats THEN row ELSE mem[s]]
<1>1. req[r].seen = seat /\ seat \in [Seats -> Row]
  BY DEF RequestsOK, Fresh, TypeInv, TypeOK
<1>2. \A s \in Seats : mem[s] = IF s \in Expired(req[r].now) THEN Free ELSE seat[s]
  BY <1>1 DEF Recalled
<1>3. want \in [Seats -> Row] /\ want = After(req[r].seats, row, Expired(req[r].now))
  <2> HIDE DEF mem
  <2> QED
    BY <1>1, <1>2, FreeType DEF After
<1>4. Flushed(req[r].seen, want) = want
  <2> HIDE DEF want
  <2> QED
    BY <1>1, <1>3, FreshFlush
<1> QED
  BY <1>2, <1>3, <1>4

\* Effects of the steps that write tables, in terms of the tables alone.
HoldEffect ==
  \E u \in Users, s \in Seats, t \in Nat, now \in Nat :
    /\ now <= clock
    /\ s \in Expired(now) \/ Holdable(seat[s], u, now)
    /\ seat' = After({s}, Held(u, t), Expired(now))
    /\ UNCHANGED <<owner, clock>>

ReleaseEffect ==
  \E u \in Users, s \in Seats :
    /\ seat[s].by = u
    /\ seat' = After({s}, Free, {})
    /\ UNCHANGED <<owner, clock>>

BuyEffect ==
  \E u \in Users, S \in SUBSET Seats, now \in Nat :
    /\ now <= clock
    /\ \A s \in S : s \notin Expired(now) /\ Buyable(seat[s], u, now)
    /\ PurchaseWithinLimit(u, S)
    /\ seat' = After(S, Sold, Expired(now))
    /\ owner' = [s \in Seats |-> IF s \in S THEN u ELSE owner[s]]
    /\ UNCHANGED clock

LapseEffect ==
  /\ seat' = After({}, Free, Expired(clock))
  /\ UNCHANGED <<owner, clock>>

PassEffect == clock' = clock + 1 /\ UNCHANGED db

LEMMA HoldCommitEffect ==
  ASSUME TypeInv, RequestsOK, NEW r \in Requests, HoldCommit(r)
  PROVE  RequestsOK' /\ (HoldEffect \/ UNCHANGED <<db, clock>>)
<1> DEFINE q    == req[r]
           mem  == Recalled(q.seen, q.now)
           hold == Held(q.user, q.now + q.ttl)
           want == [s \in Seats |-> IF s \in q.seats THEN hold ELSE mem[s]]
<1>1. q.pc = "holdCommit" /\ q.pc \in Section /\ q.pc \in Loaded /\ q.pc \in Single
  BY DEF HoldCommit, Section, Loaded, Single
<1>2. q \in Request /\ q.user \in Users /\ q.now <= clock /\ clock \in Nat
  <2>1. q \in Request /\ q.user \in Users
    BY <1>1, SectionUser
  <2> QED
    BY <2>1 DEF RequestsOK, Shape, TypeInv, TypeOK
<1>3. CASE Goto(r, "holdUndo") /\ UNCHANGED seat
  <2>1. UNCHANGED <<db, clock>>
    BY <1>3 DEF HoldCommit, db
  <2>2. Move(r, "holdUndo", q.now, q.ttl)
    BY <1>3 DEF Goto
  <2>3. RequestsOK'
    BY <1>1, <1>2, <2>1, <2>2, MoveKeeps DEF Section, Loaded, Single
  <2> QED
    BY <2>1, <2>3
<1>4. CASE /\ \A s \in q.seats : Holdable(mem[s], q.user, q.now)
           /\ seat' = Flushed(q.seen, want)
           /\ Goto(r, "holdIndex")
  <2>1. UNCHANGED <<owner, clock>>
    BY DEF HoldCommit
  <2>2. RequestsOK'
    BY <1>1, <1>4, <2>1, WriteKeeps
  <2>3. PICK s \in Seats : q.seats = {s}
    BY <1>1 DEF RequestsOK, Shape
  <2>4. hold \in Row /\ hold = Held(q.user, q.now + q.ttl) /\ q.now + q.ttl \in Nat /\ q.now \in Nat
    BY <1>2 DEF Held
  <2>5. seat' = After({s}, hold, Expired(q.now))
    <3> HIDE DEF hold
    <3> QED
      BY <1>1, <1>4, <2>3, <2>4, FreshCommit
  <2>6. mem[s] = IF s \in Expired(q.now) THEN Free ELSE seat[s]
    BY <1>1, FreeType, FreshCommit
  <2>7. Holdable(mem[s], q.user, q.now)
    BY <1>4, <2>3
  <2>8. s \in Expired(q.now) \/ Holdable(seat[s], q.user, q.now)
    BY <2>6, <2>7
  <2>9. HoldEffect
    <3> HIDE DEF hold, mem
    <3> QED
      BY <1>2, <2>1, <2>4, <2>5, <2>8 DEF HoldEffect
  <2> QED
    BY <2>2, <2>9
<1> QED
  BY <1>3, <1>4 DEF HoldCommit

LEMMA ReleaseCommitEffect ==
  ASSUME TypeInv, RequestsOK, NEW r \in Requests, ReleaseCommit(r)
  PROVE  RequestsOK' /\ (ReleaseEffect \/ UNCHANGED <<db, clock>>)
<1> DEFINE q == req[r]
<1>1. q.pc = "releaseCommit" /\ q.pc \in Section /\ q.pc \in Single
  BY DEF ReleaseCommit, Section, Single
<1>2. q.user \in Users
  BY <1>1, SectionUser
<1>3. CASE End(r) /\ UNCHANGED seat
  <2>1. UNCHANGED <<db, clock>>
    BY <1>3 DEF ReleaseCommit, db
  <2> QED
    BY <1>3, <2>1, EndKeeps
<1>4. CASE /\ \A s \in q.seats : Releasable(seat[s], q.user)
           /\ seat' = [s \in Seats |-> IF s \in q.seats THEN Free ELSE seat[s]]
           /\ Goto(r, "releaseUnlock")
  <2>1. UNCHANGED <<owner, clock>>
    BY DEF ReleaseCommit
  <2>2. RequestsOK'
    BY <1>1, <1>4, <2>1, WriteKeeps
  <2>3. PICK s \in Seats : q.seats = {s}
    BY <1>1 DEF RequestsOK, Shape
  <2>4. seat[s].by = q.user /\ seat' = After({s}, Free, {})
    BY <1>4, <2>3 DEF Releasable, After
  <2> QED
    BY <1>2, <2>1, <2>2, <2>4 DEF ReleaseEffect
<1> QED
  BY <1>3, <1>4 DEF ReleaseCommit

LEMMA CheckoutCommitEffect ==
  ASSUME TypeInv, RequestsOK, NEW r \in Requests, CheckoutCommit(r)
  PROVE  RequestsOK' /\ (BuyEffect \/ UNCHANGED <<db, clock>>)
<1> DEFINE q    == req[r]
           mem  == Recalled(q.seen, q.now)
           want == [s \in Seats |-> IF s \in q.seats THEN Sold ELSE mem[s]]
<1>1. q.pc = "checkoutCommit" /\ q.pc \in Section /\ q.pc \in Loaded
  BY DEF CheckoutCommit, Section, Loaded
<1>2. q \in Request /\ q.user \in Users /\ q.now <= clock
  <2>1. q \in Request /\ q.user \in Users
    BY <1>1, SectionUser
  <2> QED
    BY <2>1 DEF RequestsOK, Shape
<1>3. CASE End(r) /\ UNCHANGED db
  <2>1. UNCHANGED <<db, clock>>
    BY <1>3 DEF CheckoutCommit, db
  <2> QED
    BY <1>3, <2>1, EndKeeps
<1>4. CASE /\ \A s \in q.seats : Buyable(mem[s], q.user, q.now)
           /\ seat' = Flushed(q.seen, want)
           /\ owner' = [s \in Seats |-> IF s \in q.seats THEN q.user ELSE owner[s]]
           /\ Goto(r, "checkoutUnlock")
  <2>1. UNCHANGED clock
    BY DEF CheckoutCommit
  <2>2. RequestsOK'
    BY <1>1, <1>4, <2>1, WriteKeeps
  <2>3. seat' = After(q.seats, Sold, Expired(q.now))
    BY <1>1, <1>4, FreeType, FreshCommit
  <2>4. \A s \in Seats : mem[s] = IF s \in Expired(q.now) THEN Free ELSE seat[s]
    BY <1>1, FreeType, FreshCommit
  <2>5. \A s \in q.seats : s \notin Expired(q.now) /\ Buyable(seat[s], q.user, q.now)
    <3> SUFFICES ASSUME NEW s \in q.seats
                 PROVE  s \notin Expired(q.now) /\ Buyable(seat[s], q.user, q.now)
      OBVIOUS
    <3>1. s \in Seats /\ Buyable(mem[s], q.user, q.now)
      BY <1>2, <1>4
    <3>2. ~Buyable(Free, q.user, q.now)
      BY DEF Buyable, Free
    <3> HIDE DEF mem
    <3> QED
      BY <2>4, <3>1, <3>2
  <2>6. PurchaseWithinLimit(q.user, q.seats)
    BY <1>1 DEF RequestsOK, StillFits
  <2>7. q.now \in Nat /\ q.seats \in SUBSET Seats
    BY <1>2
  <2> QED
    BY <1>2, <1>4, <2>1, <2>2, <2>3, <2>5, <2>6, <2>7 DEF BuyEffect
<1> QED
  BY <1>3, <1>4 DEF CheckoutCommit

LEMMA RestKeeps ==
  ASSUME OneProcess, TypeInv, RequestsOK,
         \/ \E l \in Loops : ReleaseExpired(l) \/ Crash(l)
         \/ \E u \in Users : Grant(u)
         \/ Tick
  PROVE  RequestsOK' /\ (LapseEffect \/ PassEffect \/ UNCHANGED <<db, clock>>)
<1>1. ASSUME NEW l \in Loops, ReleaseExpired(l)
      PROVE  RequestsOK' /\ LapseEffect
  <2>1. LapseEffect /\ UNCHANGED <<req, clock>>
    BY <1>1 DEF ReleaseExpired, LapseEffect, After
  <2>2. \A x \in Requests : req[x].pc \notin Section
    BY <1>1 DEF ReleaseExpired, Running, OneProcess, RequestsOK, Exclusive
  <2>3. Loaded \subseteq Section
    BY DEF Loaded, Section
  <2>4. StillFits'
    BY <2>1, <2>2, <2>3 DEF StillFits, Loaded
  <2> QED
    BY <2>1, <2>2, <2>3, <2>4 DEF RequestsOK, Exclusive, Fresh, Shape
<1>2. ASSUME NEW l \in Loops, Crash(l)
      PROVE  RequestsOK' /\ UNCHANGED <<db, clock>>
  <2>1. req' = [x \in Requests |-> IF req[x].loop = l THEN Idle ELSE req[x]] /\ UNCHANGED <<db, clock>>
    BY <1>2 DEF Crash
  <2>2. clock \in Nat /\ UNCHANGED <<seat, owner, clock>>
    BY <2>1 DEF TypeInv, TypeOK, db
  <2>3. \A x \in Requests : req'[x] = req[x] \/ req'[x] = Idle
    BY <2>1
  <2>4. Exclusive' /\ Fresh' /\ Shape'
    BY <2>2, <2>3, IdleFacts DEF RequestsOK, Exclusive, Fresh, Shape
  <2>5. StillFits'
    BY <2>2, <2>3, IdleFacts DEF RequestsOK, StillFits, PurchaseWithinLimit, Tickets, Loaded
  <2> QED
    BY <2>1, <2>4, <2>5 DEF RequestsOK
<1>3. ASSUME NEW u \in Users, Grant(u)
      PROVE  RequestsOK' /\ UNCHANGED <<db, clock>>
  BY <1>3 DEF Grant, db, RequestsOK, Exclusive, Fresh, Shape, StillFits, PurchaseWithinLimit, Tickets
<1>4. CASE Tick
  <2>1. PassEffect /\ UNCHANGED <<seat, owner, req>>
    BY <1>4 DEF Tick, PassEffect, db
  <2>2. Shape'
    <3>1. clock \in Nat /\ \A x \in Requests : req[x].now \in Nat
      BY DEF TypeInv, TypeOK
    <3> QED
      BY <2>1, <3>1 DEF PassEffect, RequestsOK, Shape
  <2> QED
    BY <2>1, <2>2 DEF RequestsOK, Exclusive, Fresh, StillFits, PurchaseWithinLimit, Tickets
<1> QED
  BY <1>1, <1>2, <1>3, <1>4

\* Every step of one process has one of five effects on the tables, or none.
Effect == HoldEffect \/ ReleaseEffect \/ BuyEffect \/ LapseEffect \/ PassEffect

LEMMA RequestStep ==
  ASSUME OneProcess, TypeInv, RequestsOK, [Next]_vars
  PROVE  RequestsOK' /\ (Effect \/ UNCHANGED <<db, clock>>)
<1>1. CASE \E r \in Requests, l \in Loops : Arrive(r, l)
  BY <1>1, ArriveKeeps
<1>2. CASE \E r \in Requests : Continue(r) \/ HoldReturn(r)
  <2>1. PICK r \in Requests : Quiet(r) \/ HoldCommit(r) \/ ReleaseCommit(r) \/ CheckoutCommit(r)
    BY <1>2 DEF Continue, Quiet
  <2> QED
    BY <2>1, QuietKeeps, HoldCommitEffect, ReleaseCommitEffect, CheckoutCommitEffect DEF Effect
<1>3. CASE (\E l \in Loops : ReleaseExpired(l) \/ Crash(l)) \/ (\E u \in Users : Grant(u)) \/ Tick
  BY <1>3, RestKeeps DEF Effect
<1>4. CASE UNCHANGED vars
  BY <1>4 DEF vars, db, RequestsOK, Exclusive, Fresh, Shape, StillFits, PurchaseWithinLimit, Tickets
<1> QED
  BY <1>1, <1>2, <1>3, <1>4 DEF Next

-----------------------------------------------------------------------------
(* What the effects preserve *)

TablesOK == RowOK /\ SoldIffTicketed /\ TicketsWithinLimit

\* A seat that is SOLD is still SOLD, with the same ticket.
Keeps(s) == seat[s].status = "SOLD" => seat'[s].status = "SOLD" /\ owner'[s] = owner[s]

LEMMA SameTickets ==
  ASSUME TicketsWithinLimit, UNCHANGED owner
  PROVE  TicketsWithinLimit'
BY DEF TicketsWithinLimit, Tickets

LEMMA HoldTables ==
  ASSUME TypeOK, TablesOK, HoldEffect
  PROVE  TablesOK' /\ \A s \in Seats : Keeps(s)
<1>1. PICK u \in Users, s \in Seats, t \in Nat, now \in Nat :
        /\ s \in Expired(now) \/ Holdable(seat[s], u, now)
        /\ seat' = After({s}, Held(u, t), Expired(now))
        /\ UNCHANGED owner
  BY DEF HoldEffect
<1>2. seat[s].status # "SOLD"
  BY <1>1 DEF Expired, Holdable
<1>3. \A x \in Seats : \/ x = s /\ seat'[x] = Held(u, t)
                       \/ x # s /\ x \in Expired(now) /\ seat'[x] = Free
                       \/ x # s /\ seat'[x] = seat[x]
  BY <1>1 DEF After
<1>4. \A x \in Expired(now) : seat[x].status = "LOCKED"
  BY DEF Expired
<1>5. RowOK'
  BY <1>3 DEF TablesOK, RowOK, Held, Free
<1>6. \A x \in Seats : seat'[x].status = "SOLD" <=> seat[x].status = "SOLD"
  BY <1>2, <1>3, <1>4 DEF Held, Free
<1>7. UNCHANGED owner
  BY <1>1
<1>8. SoldIffTicketed' /\ \A x \in Seats : Keeps(x)
  BY <1>6, <1>7 DEF TablesOK, SoldIffTicketed, Keeps
<1> QED
  BY <1>5, <1>7, <1>8, SameTickets DEF TablesOK

LEMMA ReleaseTables ==
  ASSUME TypeOK, TablesOK, ReleaseEffect
  PROVE  TablesOK' /\ \A s \in Seats : Keeps(s)
<1>1. PICK u \in Users, s \in Seats :
        seat[s].by = u /\ seat' = After({s}, Free, {}) /\ UNCHANGED owner
  BY DEF ReleaseEffect
<1>2. seat[s].status = "LOCKED"
  BY <1>1, UserAssumption DEF TablesOK, RowOK
<1>3. \A x \in Seats : seat'[x] = IF x = s THEN Free ELSE seat[x]
  BY <1>1 DEF After
<1>4. RowOK'
  BY <1>3 DEF TablesOK, RowOK, Free
<1>5. \A x \in Seats : seat'[x].status = "SOLD" <=> seat[x].status = "SOLD"
  BY <1>2, <1>3 DEF Free
<1>6. UNCHANGED owner
  BY <1>1
<1>7. SoldIffTicketed' /\ \A x \in Seats : Keeps(x)
  BY <1>5, <1>6 DEF TablesOK, SoldIffTicketed, Keeps
<1> QED
  BY <1>4, <1>6, <1>7, SameTickets DEF TablesOK

LEMMA BuyTables ==
  ASSUME TypeOK, TablesOK, BuyEffect
  PROVE  TablesOK' /\ \A s \in Seats : Keeps(s)
<1>1. PICK u \in Users, S \in SUBSET Seats, now \in Nat :
        /\ \A s \in S : s \notin Expired(now) /\ Buyable(seat[s], u, now)
        /\ PurchaseWithinLimit(u, S)
        /\ seat' = After(S, Sold, Expired(now))
        /\ owner' = [s \in Seats |-> IF s \in S THEN u ELSE owner[s]]
  BY DEF BuyEffect
<1>2. \A x \in Seats : \/ x \in S /\ seat'[x] = Sold /\ owner'[x] = u
                       \/ x \notin S /\ x \in Expired(now) /\ seat'[x] = Free /\ owner'[x] = owner[x]
                       \/ x \notin S /\ seat'[x] = seat[x] /\ owner'[x] = owner[x]
  BY <1>1 DEF After
<1>3. \A x \in Seats : x \in S \/ x \in Expired(now) => seat[x].status = "LOCKED"
  BY <1>1 DEF Expired, Buyable
<1>4. RowOK'
  BY <1>2 DEF TablesOK, RowOK, Sold, Free
<1>5. SoldIffTicketed' /\ \A x \in Seats : Keeps(x)
  BY <1>2, <1>3, UserAssumption DEF TablesOK, SoldIffTicketed, Keeps, Sold, Free
<1>6. TicketsWithinLimit'
  <2> SUFFICES ASSUME NEW v \in Users PROVE Cardinality(Tickets(v)') <= MaxBookable
    BY DEF TicketsWithinLimit
  <2>1. /\ IsFiniteSet(Tickets(v)) /\ IsFiniteSet(Tickets(v)') /\ IsFiniteSet(S)
        /\ Cardinality(Tickets(v)) \in Nat /\ Cardinality(Tickets(v)') \in Nat /\ Cardinality(S) \in Nat
    BY SeatAssumption, FS_Subset, FS_CardinalityType DEF Tickets
  <2>2. MaxBookable \in Nat
    BY LimitAssumption
  <2>3. CASE v = u
    <3>1. Tickets(v)' \subseteq Tickets(v) \cup S
      BY <1>2 DEF Tickets
    <3>2. IsFiniteSet(Tickets(v) \cup S)
      BY <2>1, FS_Union
    <3>3. Cardinality(Tickets(v) \cup S) =
            Cardinality(Tickets(v)) + Cardinality(S) - Cardinality(Tickets(v) \cap S)
      BY <2>1, FS_Union
    <3>4. Cardinality(Tickets(v) \cap S) \in Nat /\ Cardinality(Tickets(v) \cup S) \in Nat
      BY <2>1, <3>2, FS_Intersection, FS_CardinalityType
    <3>5. Cardinality(Tickets(v)') <= Cardinality(Tickets(v) \cup S)
      BY <3>1, <3>2, FS_Subset
    <3>6. Cardinality(Tickets(v)) + Cardinality(S) <= MaxBookable
      BY <1>1, <2>3 DEF PurchaseWithinLimit
    <3> QED
      BY <2>1, <2>2, <3>3, <3>4, <3>5, <3>6
  <2>4. CASE v # u
    <3>1. Tickets(v)' \subseteq Tickets(v)
      BY <1>2, <2>4 DEF Tickets
    <3>2. Cardinality(Tickets(v)') <= Cardinality(Tickets(v))
      BY <2>1, <3>1, FS_Subset
    <3>3. Cardinality(Tickets(v)) <= MaxBookable
      BY DEF TablesOK, TicketsWithinLimit
    <3> QED
      BY <2>1, <2>2, <3>2, <3>3
  <2> QED
    BY <2>3, <2>4
<1> QED
  BY <1>4, <1>5, <1>6 DEF TablesOK

LEMMA LapseTables ==
  ASSUME TypeOK, TablesOK, LapseEffect
  PROVE  TablesOK' /\ \A s \in Seats : Keeps(s)
<1>1. \A x \in Seats : \/ seat[x].status = "LOCKED" /\ seat'[x] = Free
                       \/ seat'[x] = seat[x]
  BY DEF LapseEffect, After, Expired
<1>2. UNCHANGED owner
  BY DEF LapseEffect
<1>3. RowOK' /\ SoldIffTicketed' /\ \A x \in Seats : Keeps(x)
  BY <1>1, <1>2 DEF TablesOK, RowOK, SoldIffTicketed, Keeps, Free
<1> QED
  BY <1>2, <1>3, SameTickets DEF TablesOK

LEMMA SameTables ==
  ASSUME TablesOK, UNCHANGED db
  PROVE  TablesOK' /\ \A s \in Seats : Keeps(s)
BY DEF TablesOK, RowOK, SoldIffTicketed, TicketsWithinLimit, Tickets, Keeps, db

LEMMA TablesStep ==
  ASSUME TypeOK, TablesOK, Effect \/ UNCHANGED <<db, clock>>
  PROVE  TablesOK' /\ \A s \in Seats : Keeps(s)
BY HoldTables, ReleaseTables, BuyTables, LapseTables, SameTables DEF Effect, PassEffect

LEMMA SaleInit == Init => SaleInv
<1> SUFFICES ASSUME Init PROVE SaleInv
  OBVIOUS
<1>1. TypeInv
  BY TypeInit
<1>2. RequestsOK
  <2>1. \A r \in Requests : req[r] = Idle
    BY DEF Init
  <2>2. clock = 1
    BY DEF Init
  <2> QED
    BY <2>1, <2>2, IdleFacts DEF RequestsOK, Exclusive, Fresh, Shape, StillFits, Loaded
<1>3. RowOK /\ SoldIffTicketed
  BY DEF Init, RowOK, SoldIffTicketed, Free
<1>4. TicketsWithinLimit
  <2>1. \A u \in Users : Tickets(u) = {}
    BY UserAssumption DEF Init, Tickets
  <2> QED
    BY <2>1, LimitAssumption, FS_EmptySet DEF TicketsWithinLimit
<1> QED
  BY <1>1, <1>2, <1>3, <1>4 DEF SaleInv

LEMMA SaleStep ==
  ASSUME OneProcess, SaleInv, [Next]_vars
  PROVE  SaleInv' /\ \A s \in Seats : Keeps(s)
<1>1. TypeInv'
  BY TypeStep DEF SaleInv
<1>2. RequestsOK' /\ (Effect \/ UNCHANGED <<db, clock>>)
  BY RequestStep DEF SaleInv
<1>3. TypeOK /\ TablesOK
  BY DEF SaleInv, TypeInv, TablesOK
<1>4. TablesOK' /\ \A s \in Seats : Keeps(s)
  BY <1>2, <1>3, TablesStep
<1> QED
  BY <1>1, <1>2, <1>4 DEF SaleInv, TablesOK

-----------------------------------------------------------------------------
(* What the effects mean for the sale *)

SaleOf(s)    == [status |-> seat[s].status,
                 who |-> IF seat[s].status = "LOCKED" THEN seat[s].by ELSE owner[s]]
SaleTable    == [s \in Seats |-> SaleOf(s)]
DeadlineTable == [s \in Seats |-> seat[s].until]

\* A seat's state in the sale, read off its row and its ticket.
LEMMA Reading ==
  ASSUME TypeOK, TablesOK, NEW s \in Seats
  PROVE  /\ seat[s].status = "AVAILABLE" => SaleOf(s) = Sale!OnOffer
         /\ \A u \in Users : seat[s].status = "LOCKED" /\ seat[s].by = u => SaleOf(s) = Sale!HeldBy(u)
         /\ \A u \in Users : SaleOf(s) = Sale!SoldTo(u) => owner[s] = u
BY DEF SaleOf, Sale!OnOffer, Sale!HeldBy, Sale!SoldTo, TablesOK, SoldIffTicketed

LEMMA LapsedSeats ==
  ASSUME TypeOK, NEW now \in Nat, now <= clock
  PROVE  Expired(now) \subseteq Sale!Lapsed
BY DEF Expired, Sale!Lapsed, TypeOK

LEMMA LapseSale ==
  ASSUME TypeOK, TablesOK, LapseEffect
  PROVE  Sale!Lapse
<1>1. Expired(clock) \in SUBSET Sale!Lapsed
  BY LapsedSeats DEF TypeOK
<1>2. \A s \in Seats : SaleOf(s)' = IF s \in Expired(clock) THEN Sale!OnOffer ELSE SaleOf(s)
  BY DEF LapseEffect, After, Expired, SaleOf, Free, Sale!OnOffer, TablesOK, SoldIffTicketed
<1>3. Sale!TakeBack(Expired(clock))
  BY <1>2 DEF LapseEffect, After, Free, SaleOf, Sale!TakeBack
<1>4. UNCHANGED clock
  BY DEF LapseEffect
<1> QED
  BY <1>1, <1>3, <1>4 DEF Sale!Lapse, Sale!TakeBack

LEMMA ReleaseSale ==
  ASSUME TypeOK, TablesOK, ReleaseEffect
  PROVE  \E u \in Users, s \in Seats : Sale!GiveUp(u, s)
<1>1. PICK u \in Users, s \in Seats :
        /\ seat[s].by = u /\ seat' = After({s}, Free, {}) /\ UNCHANGED <<owner, clock>>
  BY DEF ReleaseEffect
<1>2. seat[s].status = "LOCKED"
  BY <1>1, UserAssumption DEF TablesOK, RowOK
<1>3. SaleTable[s] = Sale!HeldBy(u)
  BY <1>1, <1>2, Reading DEF SaleTable
<1>4. \A x \in Seats : SaleOf(x)' = IF x \in {s} THEN Sale!OnOffer ELSE SaleOf(x)
  BY <1>1, <1>2 DEF After, SaleOf, Free, Sale!OnOffer, TablesOK, SoldIffTicketed
<1>5. Sale!TakeBack({s})
  BY <1>1, <1>4 DEF After, Free, SaleOf, Sale!TakeBack
<1>6. Sale!GiveUp(u, s)
  BY <1>1, <1>3, <1>5 DEF Sale!GiveUp, SaleTable, SaleOf
<1> QED
  BY <1>6

LEMMA HoldSale ==
  ASSUME TypeOK, TablesOK, HoldEffect
  PROVE  \E u \in Users, s \in Seats : Sale!Hold(u, s)
<1>1. PICK u \in Users, s \in Seats, t \in Nat, now \in Nat :
        /\ now <= clock
        /\ s \in Expired(now) \/ Holdable(seat[s], u, now)
        /\ seat' = After({s}, Held(u, t), Expired(now))
        /\ UNCHANGED <<owner, clock>>
  BY DEF HoldEffect
<1>2. Expired(now) \in SUBSET Sale!Lapsed
  BY <1>1, LapsedSeats
<1>3. s \in Sale!Lapsed \/ SaleTable[s] \in {Sale!OnOffer, Sale!HeldBy(u)}
  BY <1>1, <1>2, Reading DEF Holdable, SaleTable
<1>4. \A x \in Seats : SaleOf(x)' = IF x = s THEN Sale!HeldBy(u)
                                   ELSE IF x \in Expired(now) THEN Sale!OnOffer ELSE SaleOf(x)
  BY <1>1 DEF After, Expired, SaleOf, Free, Held, Sale!OnOffer, Sale!HeldBy, TablesOK, SoldIffTicketed
<1>5. SaleTable' = [x \in Seats |-> IF x = s THEN Sale!HeldBy(u)
                                    ELSE IF x \in Expired(now) THEN Sale!OnOffer ELSE SaleTable[x]]
  BY <1>4 DEF SaleTable
<1>6. DeadlineTable'[s] = t
  BY <1>1 DEF DeadlineTable, After, Held
<1>7. DeadlineTable' = [x \in Seats |-> IF x = s THEN DeadlineTable'[s]
                                        ELSE IF x \in Expired(now) THEN 0 ELSE DeadlineTable[x]]
  BY <1>1, <1>6 DEF DeadlineTable, After, Held, Free
<1>8. Sale!Hold(u, s)
  BY <1>1, <1>2, <1>3, <1>5, <1>6, <1>7 DEF Sale!Hold, SaleTable, SaleOf, DeadlineTable
<1> QED
  BY <1>8

\* The abstract sale counts as this module does.
LEMMA SameCardinality == ASSUME NEW S PROVE Sale!Cardinality(S) = Cardinality(S)
BY Zenon DEF Sale!Cardinality, Cardinality

\* The tickets of a user are the seats the user has bought.
LEMMA BoughtTickets ==
  ASSUME TypeOK, TablesOK, NEW u \in Users
  PROVE  Sale!Bought(u) = Tickets(u)
<1>1. \A s \in Seats : SaleTable[s] = Sale!SoldTo(u) <=> owner[s] = u
  <2> SUFFICES ASSUME NEW s \in Seats PROVE SaleOf(s) = Sale!SoldTo(u) <=> owner[s] = u
    BY DEF SaleTable
  <2>1. owner[s] = u => seat[s].status = "SOLD"
    BY UserAssumption DEF TablesOK, SoldIffTicketed
  <2> QED
    BY <2>1, Reading DEF SaleOf, Sale!SoldTo
<1> QED
  BY <1>1 DEF Sale!Bought, Tickets, SaleTable, SaleOf

LEMMA BuySale ==
  ASSUME TypeOK, TablesOK, BuyEffect
  PROVE  \E u \in Users, S \in SUBSET Seats : Sale!Buy(u, S)
<1>1. PICK u \in Users, S \in SUBSET Seats, now \in Nat :
        /\ now <= clock
        /\ \A s \in S : s \notin Expired(now) /\ Buyable(seat[s], u, now)
        /\ PurchaseWithinLimit(u, S)
        /\ seat' = After(S, Sold, Expired(now))
        /\ owner' = [s \in Seats |-> IF s \in S THEN u ELSE owner[s]]
        /\ UNCHANGED clock
  BY DEF BuyEffect
<1>2. Expired(now) \in SUBSET (Sale!Lapsed \ S)
  BY <1>1, LapsedSeats
<1>3. \A s \in S : SaleTable[s] = Sale!HeldBy(u)
  BY <1>1, Reading DEF Buyable, SaleTable
<1>4. Cardinality(Sale!Bought(u)) + Cardinality(S) <= MaxBookable
  BY <1>1, BoughtTickets DEF PurchaseWithinLimit
<1>5. \A x \in Seats : SaleOf(x)' = IF x \in S THEN Sale!SoldTo(u)
                                   ELSE IF x \in Expired(now) THEN Sale!OnOffer ELSE SaleOf(x)
  BY <1>1 DEF After, Expired, SaleOf, Free, Sold, Sale!OnOffer, Sale!SoldTo, TablesOK, SoldIffTicketed
<1>6. SaleTable' = [x \in Seats |-> IF x \in S THEN Sale!SoldTo(u)
                                    ELSE IF x \in Expired(now) THEN Sale!OnOffer ELSE SaleTable[x]]
  BY <1>5 DEF SaleTable
<1>7. DeadlineTable' = [x \in Seats |-> IF x \in S \cup Expired(now) THEN 0 ELSE DeadlineTable[x]]
  BY <1>1 DEF DeadlineTable, After, Sold, Free
<1>8. \E E \in SUBSET (Sale!Lapsed \ S) :
        /\ SaleTable' = [x \in Seats |-> IF x \in S THEN Sale!SoldTo(u)
                                         ELSE IF x \in E THEN Sale!OnOffer ELSE SaleTable[x]]
        /\ DeadlineTable' = [x \in Seats |-> IF x \in S \cup E THEN 0 ELSE DeadlineTable[x]]
  BY <1>2, <1>6, <1>7
<1>9. Sale!Buy(u, S)
  BY <1>1, <1>3, <1>4, <1>8, SameCardinality DEF Sale!Buy, SaleTable, SaleOf, DeadlineTable
<1> QED
  BY <1>9

LEMMA SaleEffect ==
  ASSUME TypeOK, TablesOK, Effect \/ UNCHANGED <<db, clock>>
  PROVE  [Sale!Next]_(Sale!vars)
<1>1. CASE PassEffect
  <2>1. Sale!Pass
    BY <1>1 DEF PassEffect, db, Sale!Pass
  <2> QED
    BY <2>1 DEF Sale!Next
<1>2. CASE UNCHANGED <<db, clock>>
  BY <1>2 DEF db, Sale!vars
<1>3. CASE HoldEffect \/ ReleaseEffect \/ BuyEffect \/ LapseEffect
  BY <1>3, HoldSale, ReleaseSale, BuySale, LapseSale DEF Sale!Next
<1> QED
  BY <1>1, <1>2, <1>3 DEF Effect

-----------------------------------------------------------------------------
(* The theorems *)

\* In one process, whatever crashes and fails, a seat is SOLD exactly when a
\* ticket was issued for it.
THEOREM SoldExactlyWhenTicketed ==
  ASSUME OneProcess
  PROVE  Spec => []SoldIffTicketed
<1>1. Init => SaleInv
  BY SaleInit
<1>2. SaleInv /\ [Next]_vars => SaleInv'
  BY SaleStep
<1>3. SaleInv => SoldIffTicketed
  BY DEF SaleInv
<1> QED
  BY <1>1, <1>2, <1>3, PTL DEF Spec

\* In one process no user ever has more tickets than the event allows, although
\* checkout counts them before the transaction that adds to them.
THEOREM NeverTooManyTickets ==
  ASSUME OneProcess
  PROVE  Spec => []TicketsWithinLimit
<1>1. Init => SaleInv
  BY SaleInit
<1>2. SaleInv /\ [Next]_vars => SaleInv'
  BY SaleStep
<1>3. SaleInv => TicketsWithinLimit
  BY DEF SaleInv
<1> QED
  BY <1>1, <1>2, <1>3, PTL DEF Spec

\* In one process a sold seat stays sold to the same user.
THEOREM SoldForGood ==
  ASSUME OneProcess
  PROVE  Spec => SoldSeatStaysSold
<1>1. Init => SaleInv
  BY SaleInit
<1>2. SaleInv /\ [Next]_vars => SaleInv'
  BY SaleStep
<1>3. SaleInv /\ [Next]_vars =>
        [\A s \in Seats : seat[s].status = "SOLD" =>
           seat'[s].status = "SOLD" /\ owner'[s] = owner[s]]_vars
  BY SaleStep DEF Keeps
<1> QED
  BY <1>1, <1>2, <1>3, PTL DEF Spec, SoldSeatStaysSold

\* One process implements SeatSale: whatever its handlers, worker, clock and
\* faults do together is a step of the abstract sale or none.
THEOREM ImplementsTheSale ==
  ASSUME OneProcess
  PROVE  Spec => ImplementsSale
<1>1. Init => SaleInv
  BY SaleInit
<1>2. SaleInv /\ [Next]_vars => SaleInv'
  BY SaleStep
<1>3. Init => Sale!Init
  BY UserAssumption DEF Init, Free, Sale!Init, Sale!OnOffer
<1>4. SaleInv /\ [Next]_vars => [Sale!Next]_(Sale!vars)
  BY RequestStep, SaleEffect DEF SaleInv, TypeInv, TablesOK
<1> QED
  BY <1>1, <1>2, <1>3, <1>4, PTL DEF Spec, ImplementsSale, Sale!Spec
=============================================================================
