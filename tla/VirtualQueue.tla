---------------------------- MODULE VirtualQueue ----------------------------
(***************************************************************************)
(* The waiting room of one event: app/services/queue.py and the worker     *)
(* app/workers/process_queue.py.  The join and status handlers are plain   *)
(* functions run on a thread pool, the worker runs on the event loop; they *)
(* share nothing but Redis, and interleave between any two Redis commands. *)
(*                                                                         *)
(* The queue, a sorted set scored by join time, is the sequence of its     *)
(* members.  A join reads the clock, then sends its ZADD, and other calls  *)
(* come in between: a late ZADD puts its user before others who joined     *)
(* later and may have been ranked or picked.  Time is not counted: a join  *)
(* time is known by the entries that have an earlier one, and a booking    *)
(* session ends when Redis drops it, at any moment pinned allows, or when  *)
(* a checkout deletes it.                                                  *)
(***************************************************************************)
EXTENDS Integers, Sequences, FiniteSets

CONSTANTS
  Users, NoUser,
  Threads,     \* the thread pool: how many join and status calls run at once
  Worker,      \* process_queues_job
  Threshold,   \* queue_threshold; 0 or less means no limit
  BatchSize,   \* queue_batch_size
  OneTab       \* a user's client makes one request at a time

ASSUME QueueAssumption ==
  /\ NoUser \notin Users /\ IsFiniteSet(Users)
  /\ Worker \notin Threads /\ IsFiniteSet(Threads) /\ Users \cap Threads = {}
  /\ OneTab \in BOOLEAN /\ Threshold \in Int /\ BatchSize \in Nat \ {0}

VARIABLES
  queue,    \* the event's queue in Redis: users in the order of their join times
  active,   \* the users with a booking session in Redis
  call,     \* [Threads -> Call]: the call each thread is running
  worker,   \* the worker's pass over the queue
  earlier,  \* [Threads -> SUBSET entries]: of a call that has read the clock, the
            \* queued users, and the calls about to queue one, with an earlier time
  pinned,   \* [Users -> SUBSET callers]: the calls a fresh session outlives
  \* no part of the code, read by a property alone
  ahead     \* [Users -> SUBSET Users]: who of the queue was there before the user

vars == <<queue, active, call, worker, earlier, pinned, ahead>>

-----------------------------------------------------------------------------
(* The data, and the tests the code makes.  An operator named Buggy... is its  *)
(* neighbour as a plausible bug would have it; no action uses it.              *)

\* A call is a status request, or a join: a first status, the decision, and
\* a second status.  "granting" is a join that decided to grant.
CallPC == {"idle", "ttl", "leave", "room", "rank", "grant", "dequeue", "recheck",
           "position", "joinRoom", "joinEmpty", "stamp", "enqueue"}
Call    == [pc: CallPC, op: {"status", "join", "granting"}, user: Users \cup {NoUser}]
NoCall  == [pc |-> "idle", op |-> "status", user |-> NoUser]

WorkerPC == {"sleep", "range", "each", "drop", "grant", "dequeue"}
Pass     == [pc: WorkerPC, free: Int, picks: Seq(Users), promoted: Nat]
Asleep   == [pc |-> "sleep", free |-> 0, picks |-> <<>>, promoted |-> 0]

Least(a, b) == IF a <= b THEN a ELSE b
InQueue(u)  == \E i \in 1..Len(queue) : queue[i] = u
Queued      == {queue[i] : i \in 1..Len(queue)}

\* What ZREM leaves of the queue; what ZADD NX makes of it.
Place(u) == CHOOSE i \in 1..Len(queue) : queue[i] = u
BuggyWithout(u) == IF queue = <<>> THEN <<>> ELSE Tail(queue)   \* ZPOPMIN
Without(u) ==
  IF InQueue(u) THEN SubSeq(queue, 1, Place(u) - 1) \o SubSeq(queue, Place(u) + 1, Len(queue))
                ELSE queue

BuggyWith(k, u) == Append(queue, u)                             \* RPUSH on a list
With(k, u) ==
  IF InQueue(u) THEN queue ELSE SubSeq(queue, 1, k) \o <<u>> \o SubSeq(queue, k + 1, Len(queue))

\* The first k of the queue, and no more, have a time before that of the call.
ComesAfter(t, k) ==
  /\ k # 0 => queue[k] \in earlier[t]
  /\ \A i \in (k + 1)..Len(queue) : queue[i] \notin earlier[t]

\* _can_grant_access counts the session keys.
BuggyRoomFor(n) == Threshold <= 0 \/ n <= Threshold
RoomFor(n)      == Threshold <= 0 \/ n < Threshold

\* Only the first in the queue is promoted by its own poll.
BuggyFirst(u) == InQueue(u)
First(u)      == queue # <<>> /\ Head(queue) = u

\* How many users the worker may promote.
BuggyFreeSlots == Threshold - Cardinality(active) - 1
FreeSlots == IF Threshold <= 0 THEN BatchSize ELSE Threshold - Cardinality(active)

\* A join may skip the queue only when nobody is waiting.
NobodyWaiting == queue = <<>>

-----------------------------------------------------------------------------
(* Redis commands *)

Busy == {t \in Threads : call[t].pc # "idle"} \cup (IF worker.pc = "sleep" THEN {} ELSE {Worker})

Set(u)  == active' = active \cup {u} /\ pinned' = [pinned EXCEPT ![u] = Busy]
ZRem(u) ==
  /\ queue' = Without(u)
  /\ earlier' = [t \in Threads |-> earlier[t] \ {u}]
  /\ ahead' = [v \in Users |-> ahead[v] \ {u}]

\* ZADD NX by call t, which now has no time of its own any more.
ZAdd(t, u) ==
  /\ \E k \in 0..Len(queue) : ComesAfter(t, k) /\ queue' = With(k, u)
  /\ earlier' = [x \in Threads |->
       IF x = t THEN {}
       ELSE (earlier[x] \ {t}) \cup (IF t \in earlier[x] /\ ~InQueue(u) THEN {u} ELSE {})]
  /\ UNCHANGED ahead

\* From here on nobody who is queued now may be let in after u.
Notice(u) == ahead' = IF InQueue(u) THEN ahead ELSE [ahead EXCEPT ![u] = Queued]

Goto(t, pc) == call' = [call EXCEPT ![t].pc = pc]
Go(t, pc, op) == call' = [call EXCEPT ![t] = [pc |-> pc, op |-> op, user |-> @.user]]
Return(t) ==
  /\ call' = [call EXCEPT ![t] = NoCall]
  /\ pinned' = [u \in Users |-> pinned[u] \ {t}]

-----------------------------------------------------------------------------
(* get_queue_status and join_queue *)

Begin(t, u, op) ==
  /\ call[t].pc = "idle"
  /\ OneTab => \A x \in Threads : call[x].user # u
  /\ call' = [call EXCEPT ![t] = [pc |-> "ttl", op |-> op, user |-> u]]
  /\ IF op = "join" THEN Notice(u) ELSE UNCHANGED ahead
  /\ UNCHANGED <<queue, active, worker, earlier, pinned>>

ReadTTL(t) ==
  LET u == call[t].user
  IN /\ call[t].pc = "ttl"
     /\ Goto(t, IF u \in active THEN "leave" ELSE "room")
     /\ UNCHANGED <<queue, active, worker, earlier, pinned, ahead>>

\* The user has access: take it off the queue and say so.
Leave(t) ==
  /\ call[t].pc = "leave"
  /\ ZRem(call[t].user)
  /\ Return(t)
  /\ UNCHANGED <<active, worker>>

\* _promote_user_if_ready: count the sessions, then look up the rank, then grant.
Room(t) ==
  /\ call[t].pc = "room"
  /\ Goto(t, IF RoomFor(Cardinality(active)) THEN "rank" ELSE "recheck")
  /\ UNCHANGED <<queue, active, worker, earlier, pinned, ahead>>

Rank(t) ==
  /\ call[t].pc = "rank"
  /\ Goto(t, IF First(call[t].user) THEN "grant" ELSE "recheck")
  /\ UNCHANGED <<queue, active, worker, earlier, pinned, ahead>>

\* _grant_access: SET the session, then ZREM the user.
Grant(t) ==
  /\ call[t].pc = "grant"
  /\ Set(call[t].user)
  /\ Goto(t, "dequeue")
  /\ UNCHANGED <<queue, worker, earlier, ahead>>

Dequeue(t) ==
  /\ call[t].pc = "dequeue"
  /\ ZRem(call[t].user)
  /\ IF call[t].op = "granting" THEN Go(t, "ttl", "status") ELSE Goto(t, "recheck")
  /\ UNCHANGED <<active, worker, pinned>>

Recheck(t) ==
  /\ call[t].pc = "recheck"
  /\ \/ call[t].user \in active /\ Return(t)
     \/ call[t].user \notin active /\ Goto(t, "position") /\ UNCHANGED pinned
  /\ UNCHANGED <<queue, active, worker, earlier, ahead>>

\* A status call answers with the position; a join goes on: a queued user asks
\* for the status again, another one is let in or queued.
Position(t) ==
  /\ call[t].pc = "position"
  /\ \/ call[t].op = "status" /\ Return(t)
     \/ /\ call[t].op = "join"
        /\ IF InQueue(call[t].user) THEN Go(t, "ttl", "status") ELSE Goto(t, "joinRoom")
        /\ UNCHANGED pinned
  /\ UNCHANGED <<queue, active, worker, earlier, ahead>>

JoinRoom(t) ==
  /\ call[t].pc = "joinRoom"
  /\ Goto(t, IF RoomFor(Cardinality(active)) THEN "joinEmpty" ELSE "stamp")
  /\ UNCHANGED <<queue, active, worker, earlier, pinned, ahead>>

JoinEmpty(t) ==
  /\ call[t].pc = "joinEmpty"
  /\ IF NobodyWaiting THEN Go(t, "grant", "granting") ELSE Goto(t, "stamp")
  /\ UNCHANGED <<queue, active, worker, earlier, pinned, ahead>>

\* time.time(), and then the ZADD NX it is for.
Stamp(t) ==
  /\ call[t].pc = "stamp"
  /\ earlier' = [earlier EXCEPT ![t] = Queued \cup {x \in Threads : call[x].pc = "enqueue"}]
  /\ Notice(call[t].user)
  /\ Goto(t, "enqueue")
  /\ UNCHANGED <<queue, active, worker, pinned>>

Enqueue(t) ==
  /\ call[t].pc = "enqueue"
  /\ ZAdd(t, call[t].user)
  /\ Go(t, "ttl", "status")
  /\ UNCHANGED <<active, worker, pinned>>

-----------------------------------------------------------------------------
(* process_event_queue *)

Sleep ==
  /\ worker' = Asleep
  /\ pinned' = [u \in Users |-> pinned[u] \ {Worker}]

WorkerCount ==
  /\ worker.pc = "sleep"
  /\ FreeSlots > 0
  /\ worker' = [worker EXCEPT !.pc = "range", !.free = FreeSlots]
  /\ pinned' = [u \in Users |-> IF pinned[u] = {} THEN {} ELSE pinned[u] \cup {Worker}]
  /\ UNCHANGED <<queue, active, call, earlier, ahead>>

WorkerRange ==
  /\ worker.pc = "range"
  /\ worker' = [worker EXCEPT !.pc = "each",
                              !.picks = SubSeq(queue, 1, Least(worker.free, Len(queue)))]
  /\ UNCHANGED <<queue, active, call, earlier, pinned, ahead>>

\* The next user: already let in, or to be let in.
WorkerEach ==
  /\ worker.pc = "each"
  /\ \/ worker.picks = <<>> /\ Sleep
     \/ /\ worker.picks # <<>>
        /\ worker' = [worker EXCEPT !.pc = IF Head(worker.picks) \in active THEN "drop" ELSE "grant"]
        /\ UNCHANGED pinned
  /\ UNCHANGED <<queue, active, call, earlier, ahead>>

WorkerDrop ==
  /\ worker.pc = "drop"
  /\ ZRem(Head(worker.picks))
  /\ worker' = [worker EXCEPT !.pc = "each", !.picks = Tail(@)]
  /\ UNCHANGED <<active, call, pinned>>

WorkerGrant ==
  /\ worker.pc = "grant"
  /\ Set(Head(worker.picks))
  /\ worker' = [worker EXCEPT !.pc = "dequeue"]
  /\ UNCHANGED <<queue, call, earlier, ahead>>

WorkerDequeue ==
  /\ worker.pc = "dequeue"
  /\ ZRem(Head(worker.picks))
  /\ \/ worker.promoted + 1 >= BatchSize /\ Sleep
     \/ /\ worker.promoted + 1 < BatchSize
        /\ worker' = [worker EXCEPT !.pc = "each", !.picks = Tail(@), !.promoted = @ + 1]
        /\ UNCHANGED pinned
  /\ UNCHANGED <<active, call>>

-----------------------------------------------------------------------------

\* A time to live is rounded, so one seen as positive is half a second away from
\* its end and outlives the ZREM that follows.
SeenAlive(u) ==
  \/ \E t \in Threads : call[t].pc = "leave" /\ call[t].user = u
  \/ worker.pc = "drop" /\ Head(worker.picks) = u

\* Redis drops a booking session whose time is up.  A session lasts minutes, so
\* it outlives the calls that were running when it was set, and a pass that the
\* worker began before those had ended.
Expire(u) ==
  /\ u \in active
  /\ pinned[u] = {}
  /\ ~SeenAlive(u)
  /\ active' = active \ {u}
  /\ UNCHANGED <<queue, call, worker, earlier, pinned, ahead>>

\* A checkout that leaves the user without holds deletes the session.  It runs
\* on the event loop, hence never in the middle of the worker's pass.
CheckoutEnds(u) ==
  /\ u \in active
  /\ worker.pc = "sleep"
  /\ OneTab => \A t \in Threads : call[t].user # u
  /\ active' = active \ {u}
  /\ pinned' = [pinned EXCEPT ![u] = {}]
  /\ UNCHANGED <<queue, call, worker, earlier, ahead>>

Init ==
  /\ queue = <<>>
  /\ active = {}
  /\ call = [t \in Threads |-> NoCall]
  /\ worker = Asleep
  /\ earlier = [t \in Threads |-> {}]
  /\ pinned = [u \in Users |-> {}]
  /\ ahead = [u \in Users |-> {}]

Continue(t) ==
  \/ ReadTTL(t) \/ Leave(t) \/ Room(t) \/ Rank(t) \/ Grant(t) \/ Dequeue(t)
  \/ Recheck(t) \/ Position(t) \/ JoinRoom(t) \/ JoinEmpty(t)
  \/ Stamp(t) \/ Enqueue(t)

Work == WorkerCount \/ WorkerRange \/ WorkerEach \/ WorkerDrop \/ WorkerGrant \/ WorkerDequeue

Next ==
  \/ \E t \in Threads, u \in Users, op \in {"status", "join"} : Begin(t, u, op)
  \/ \E t \in Threads : Continue(t)
  \/ Work
  \/ \E u \in Users : Expire(u) \/ CheckoutEnds(u)

Spec == Init /\ [][Next]_vars

\* Threads are scheduled, the worker wakes every second, and every session was
\* set with a time to live, which runs down whoever polls meanwhile.
Fairness ==
  /\ \A t \in Threads : WF_vars(Continue(t))
  /\ WF_vars(Work)
  /\ \A u \in Users : SF_vars(Expire(u))

FairSpec == Spec /\ Fairness

-----------------------------------------------------------------------------
(* Properties *)

\* Every variable has its type; the queue, a sorted set, holds no user twice.
TypeOK ==
  /\ queue \in Seq(Users)
  /\ \A i, j \in 1..Len(queue) : queue[i] = queue[j] => i = j
  /\ active \subseteq Users
  /\ call \in [Threads -> Call]
  /\ worker \in Pass
  /\ earlier \in [Threads -> SUBSET (Users \cup Threads)]
  /\ pinned \in [Users -> SUBSET (Threads \cup {Worker})]
  /\ ahead \in [Users -> SUBSET Users]

\* "The seat room limit is {max_active_users}": no more sessions than that.
\* The code counts and grants in separate Redis calls.
RoomWithinLimit == Threshold > 0 => Cardinality(active) <= Threshold

\* Calls that have found room and may still grant, and the worker's allowance.
Admitted   == {t \in Threads : call[t].pc \in {"rank", "joinEmpty", "grant"}}
Allowance  ==
  IF worker.pc = "sleep" THEN 0
  ELSE Least(worker.free, BatchSize) - (worker.promoted + (IF worker.pc = "dequeue" THEN 1 ELSE 0))

\* How far the counting races can overfill the room: by one session for each
\* other thread that had counted, and by one pass of the worker; sessions
\* granted late never let the next ones pile up on top.
RoomOvershootBounded ==
  Threshold > 0 =>
    Cardinality(active) <= Threshold - 1 + Cardinality(Threads) + Least(Threshold, BatchSize)

\* A user leaves the queue only by getting access, never by being dropped.
QueueLeftOnlyWithAccess ==
  [][\A u \in Users : InQueue(u) /\ ~InQueue(u)' => u \in active]_vars

\* First come, first served: a user is let in only when all have left the queue
\* who were there before: when the user's join began, or, if that join had to
\* queue, when it read the clock.  Whoever is queued later, be it with an earlier
\* time, is not among them.
ServedInTurn ==
  [][\A u, v \in Users : v \in active' \ active /\ u \in ahead[v] => ~InQueue(u)]_vars

\* Whoever waits gets access in the end, polling or not.
EventuallyServed == \A u \in Users : InQueue(u) ~> u \in active
=============================================================================
