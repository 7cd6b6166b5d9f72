------------------------------- MODULE SeatFeed -------------------------------
(***************************************************************************)
(* The live seat map and the admin dashboard of one event: what            *)
(* ConnectionManager.broadcast (app/services/realtime.py) brings to the    *)
(* sockets of the two rooms, while holds, releases, checkouts and the      *)
(* expiry worker change seats.                                             *)
(*                                                                         *)
(* All of it runs on one event loop.  A handler commits its change and     *)
(* then announces it, socket by socket; it keeps the loop until a send     *)
(* suspends it, and goes on when that socket's buffer has drained.         *)
(***************************************************************************)
EXTENDS Naturals, FiniteSets, SequencesExt

CONSTANTS
  Seats,
  Viewers,   \* sockets of the seat map
  Admins,    \* sockets of the admin dashboard
  Handlers,  \* requests that hold, release or buy
  Worker,    \* release_expired_holds_job
  MaxRoom    \* bound: sockets in the two rooms at once

ASSUME FeedAssumption ==
  /\ IsFiniteSet(Seats) /\ "board" \notin Seats /\ "none" \notin Handlers \cup {Worker}
  /\ MaxRoom \in Nat
  /\ Worker \notin Handlers /\ Viewers \cap Admins = {}

VARIABLES
  seat,     \* [Seats -> Status], as committed
  due,      \* the locked seats whose locked_until has passed
  task,     \* [Tasks -> Task]: what each still has to announce
  current,  \* the task that has the loop, or "none"
  room,     \* [{"seats", "admin"} -> Seq(Sockets)]: ConnectionManager.connections
  open,     \* the sockets the server takes for open
  line,     \* [Sockets -> Seq(Tasks)]: who waits for the socket's buffer to drain
  view,     \* [Sockets -> what the client shows], <<>> if it is closed
  astray    \* history: the topics whose last change was not announced, or out of order

vars == <<seat, due, task, current, room, open, line, view, astray>>

-----------------------------------------------------------------------------
(* What there is to announce *)

Status  == {"AVAILABLE", "LOCKED", "SOLD"}
Topics  == Seats \cup {"board"}
Tasks   == Handlers \cup {Worker}
Sockets == Viewers \cup Admins

Count(status) == Cardinality({s \in Seats : seat[s] = status})

\* _capacity_for_event: there are seats.
Capacity == Cardinality(Seats)

\* DashboardService.dashboard.  Revenue follows from the tickets.
Dashboard == LET sold == Count("SOLD")
                 locked == Count("LOCKED")
             IN [sold |-> sold, locked |-> locked, available |-> Capacity - sold - locked]

Truth(topic)  == IF topic = "board" THEN Dashboard ELSE seat[topic]
RoomOf(topic) == IF topic = "board" THEN "admin" ELSE "seats"
Home(c)       == IF c \in Admins THEN "admin" ELSE "seats"
TopicsOf(c)   == IF c \in Admins THEN {"board"} ELSE Seats

\* What a client is given when it connects: get_seat_map, or the dashboard.
Picture(c) == [p \in TopicsOf(c) |-> Truth(p)]

\* todo: the topics to announce, the one being broadcast first; status: what it
\* says of a seat; payload: what the broadcast says; rest: the sockets of the
\* snapshot that have not got it.
Idle == [todo |-> <<>>, status |-> "AVAILABLE", on |-> FALSE, payload |-> "none", rest |-> <<>>]
Busy(t)    == task[t].todo # <<>>
Topic(t)   == Head(task[t].todo)
Waits(t)   == \E c \in Sockets : Contains(line[c], t)
Ahead(t)   == IF task[t].on THEN Tail(task[t].todo) ELSE task[t].todo

\* Another task has older news of the seat, and is to begin it after t's.
Overtakes(t, s) == \E u \in Tasks \ {t} : Contains(Ahead(u), s)

\* Older news of t's topic waits at one of the sockets C, which t goes past.
Passes(t, C) ==
  \E u \in Tasks \ {t}, c \in C :
    Contains(line[c], u) /\ Busy(u) /\ Topic(u) = Topic(t)

-----------------------------------------------------------------------------
(* Changes of seats.  SeatBooking has the handlers call by call. *)

Init ==
  /\ seat = [s \in Seats |-> "AVAILABLE"] /\ due = {}
  /\ task = [t \in Tasks |-> Idle] /\ current = "none"
  /\ room = [r \in {"seats", "admin"} |-> <<>>]
  /\ open = {} /\ astray = {}
  /\ line = [c \in Sockets |-> <<>>] /\ view = [c \in Sockets |-> <<>>]

\* t commits status for the seats S, releases the seats in due with it, and has
\* script to announce.
Commit(t, S, status, script) ==
  /\ current = "none" /\ ~Busy(t)
  /\ seat' = [s \in Seats |-> IF s \in S THEN status
                              ELSE IF s \in due THEN "AVAILABLE" ELSE seat[s]]
  /\ due' = {}
  /\ task' = [task EXCEPT ![t] = [Idle EXCEPT !.todo = script, !.status = status]]
  /\ current' = t
  /\ astray' = (astray \ S) \cup (due \ S) \cup {s \in S : Overtakes(t, s)}
  /\ UNCHANGED <<room, open, line, view>>

Hold(t, s) ==
  /\ seat[s] = "AVAILABLE" \/ s \in due
  /\ Commit(t, {s}, "LOCKED", <<s, "board">>)

\* One by one, with the dashboard after each.
Checkout(t, S) ==
  /\ S # {} /\ \A s \in S : seat[s] = "LOCKED" /\ s \notin due
  /\ \E order \in SetToSeqs(S) :
       Commit(t, S, "SOLD", [i \in 1..2 * Len(order) |->
                              IF i % 2 = 1 THEN order[(i + 1) \div 2] ELSE "board"])

\* release leaves other seats alone.
Release(t, s) ==
  /\ current = "none" /\ ~Busy(t)
  /\ seat[s] = "LOCKED" /\ s \notin due
  /\ seat' = [seat EXCEPT ![s] = "AVAILABLE"]
  /\ task' = [task EXCEPT ![t] = [Idle EXCEPT !.todo = <<s, "board">>]]
  /\ current' = t
  /\ astray' = (astray \ {s}) \cup (IF Overtakes(t, s) THEN {s} ELSE {})
  /\ UNCHANGED <<due, room, open, line, view>>

\* The worker announces what it released, and the dashboard at the end.
Expire ==
  /\ due # {}
  /\ \E order \in SetToSeqs(due) : Commit(Worker, due, "AVAILABLE", Append(order, "board"))

Lapse(s) ==
  /\ current = "none"
  /\ seat[s] = "LOCKED" /\ s \notin due
  /\ due' = due \cup {s}
  /\ UNCHANGED <<seat, task, current, room, open, line, view, astray>>

-----------------------------------------------------------------------------
(* Announcing *)

\* broadcast: the payload, and list(self.connections[event_id]).
Begin(t) ==
  LET topic == Topic(t)
      gone  == {c \in Sockets : ~Contains(room[RoomOf(topic)], c)}
  IN /\ current = t /\ Busy(t) /\ ~task[t].on
     /\ task' = [task EXCEPT ![t] = [@ EXCEPT !.on = TRUE, !.rest = room[RoomOf(topic)],
                   !.payload = IF topic = "board" THEN Dashboard ELSE task[t].status]]
     /\ astray' = (IF topic = "board" THEN astray \ {"board"} ELSE astray)
                    \cup (IF Passes(t, gone) THEN {topic} ELSE {})
     /\ UNCHANGED <<seat, due, current, room, open, line, view>>

\* disconnect, and the sockets that remain to be told.
BuggyAfter(rest, lost) == IF lost /\ Len(rest) > 1 THEN Tail(Tail(rest)) ELSE Tail(rest) \* no list(...)
After(rest, lost)      == Tail(rest)
Disconnect(c)          == room' = [room EXCEPT ![Home(c)] = RemoveFirst(@, c)]

\* send_json on a socket that is closed raises: it leaves the room, and the next
\* one is tried at once.
SendFails(t) ==
  LET c == Head(task[t].rest)
  IN /\ current = t /\ task[t].rest # <<>> /\ c \notin open
     /\ Disconnect(c)
     /\ task' = [task EXCEPT ![t].rest = After(@, TRUE)]
     /\ astray' = astray \cup (IF Passes(t, {c}) THEN {Topic(t)} ELSE {})
     /\ UNCHANGED <<seat, due, current, open, line, view>>

\* send_json writes, and suspends the task behind those that wait already.
Send(t) ==
  LET c == Head(task[t].rest)
  IN /\ current = t /\ task[t].rest # <<>> /\ c \in open
     /\ view' = [view EXCEPT ![c][Topic(t)] = task[t].payload]
     /\ line' = [line EXCEPT ![c] = Append(@, t)]
     /\ task' = [task EXCEPT ![t].rest = After(@, FALSE)]
     /\ current' = "none"
     /\ UNCHANGED <<seat, due, room, open, astray>>

\* The buffer of c has drained, and its first waiter goes on; or c was lost, and
\* what is raised in the waiter takes c out of the room.
BuggyReturns(c) == c \in open     \* only a drained buffer wakes those who wait
Returns(c)      == TRUE
BuggyDrained(q) == q              \* the waiter stays in line
Drained(q)      == Tail(q)

Wake(t) ==
  /\ current = "none"
  /\ \E c \in Sockets :
       /\ line[c] # <<>> /\ Head(line[c]) = t /\ Returns(c)
       /\ line' = [line EXCEPT ![c] = Drained(@)]
       /\ IF c \in open THEN UNCHANGED room ELSE Disconnect(c)
  /\ current' = t
  /\ UNCHANGED <<seat, due, task, open, view, astray>>

\* The broadcast is done; the loop is free when it was the last.
Done(t) ==
  LET left == Tail(task[t].todo)
  IN /\ current = t /\ task[t].on /\ task[t].rest = <<>>
     /\ task' = [task EXCEPT ![t] = IF left = <<>> THEN Idle
                   ELSE [Idle EXCEPT !.todo = left, !.status = task[t].status]]
     /\ current' = IF left = <<>> THEN "none" ELSE t
     /\ UNCHANGED <<seat, due, room, open, line, view, astray>>

\* A query before the broadcast raises: the dashboard's, or the worker's for the
\* zone of a seat.  What was to follow is never announced.
Fails(t) ==
  /\ current = t /\ Busy(t) /\ ~task[t].on
  /\ Topic(t) = "board" \/ t = Worker
  /\ task' = [task EXCEPT ![t] = Idle]
  /\ current' = "none"
  /\ astray' = astray \cup ToSet(task[t].todo)
  /\ UNCHANGED <<seat, due, room, open, line, view>>

Run(t) == Begin(t) \/ SendFails(t) \/ Send(t) \/ Done(t)

-----------------------------------------------------------------------------
(* Sockets *)

\* connect, and the first picture.  A socket is new: no one waits for it or is to
\* send to it.
Connect(c) ==
  /\ current = "none" /\ c \notin open
  /\ line[c] = <<>> /\ ~Contains(room[Home(c)], c)
  /\ \A t \in Tasks : ~Contains(task[t].rest, c)
  /\ Len(room["seats"]) + Len(room["admin"]) < MaxRoom
  /\ open' = open \cup {c}
  /\ room' = [room EXCEPT ![Home(c)] = Append(@, c)]
  /\ view' = [view EXCEPT ![c] = Picture(c)]
  /\ UNCHANGED <<seat, due, task, current, line, astray>>

\* The server learns, on the loop, that the client is gone.
Close(c) ==
  /\ current = "none" /\ c \in open
  /\ open' = open \ {c}
  /\ view' = [view EXCEPT ![c] = <<>>]
  /\ UNCHANGED <<seat, due, task, current, room, line, astray>>

\* The socket's own handler gets WebSocketDisconnect.
Leave(c) ==
  /\ current = "none" /\ c \notin open
  /\ Contains(room[Home(c)], c)
  /\ Disconnect(c)
  /\ UNCHANGED <<seat, due, task, current, open, line, view, astray>>

-----------------------------------------------------------------------------

Change(t) ==
  \/ \E s \in Seats : Hold(t, s) \/ Release(t, s)
  \/ \E S \in SUBSET Seats : Checkout(t, S)

Next ==
  \/ \E t \in Handlers : Change(t)
  \/ Expire
  \/ \E t \in Tasks : Run(t) \/ Wake(t) \/ Fails(t)
  \/ \E s \in Seats : Lapse(s)
  \/ \E c \in Sockets : Connect(c) \/ Close(c) \/ Leave(c)

\* The loop runs what is ready, first come first served: a task that can go on
\* again and again does.  A buffer drains or the socket is lost: a client that
\* reads nothing does not answer the server's pings either.
Fairness == \A t \in Tasks : WF_vars(Run(t)) /\ SF_vars(Wake(t))

Spec == Init /\ [][Next]_vars /\ Fairness

-----------------------------------------------------------------------------
(* Properties *)

\* Every variable has its type; a task waits at one socket at most, and only
\* with a broadcast under way.
TypeOK ==
  /\ seat \in [Seats -> Status] /\ astray \subseteq Topics
  /\ due \subseteq {s \in Seats : seat[s] = "LOCKED"}
  /\ current \in Tasks \cup {"none"} /\ open \subseteq Sockets
  /\ \A t \in Tasks :
       /\ task[t].todo \in Seq(Topics) /\ task[t].rest \in Seq(Sockets)
       /\ task[t].on => Busy(t)
       /\ Waits(t) => current # t /\ task[t].on
       /\ Cardinality({c \in Sockets : Contains(line[c], t)}) <= 1
  /\ \A c \in Sockets :
       /\ Cardinality(ToSet(line[c])) = Len(line[c])
       /\ c \in open => Contains(room[Home(c)], c)
       /\ DOMAIN view[c] = IF c \in open THEN TopicsOf(c) ELSE {}

\* A task that is going to tell c of the topic as it is.
Told(c, topic) ==
  \E t \in Tasks :
    \/ Contains(Ahead(t), topic) /\ (topic = "board" \/ task[t].status = seat[topic])
    \/ /\ task[t].on /\ Topic(t) = topic
       /\ Contains(task[t].rest, c) /\ task[t].payload = Truth(topic)

\* Whoever is connected sees every seat, and every admin the dashboard, as they
\* are, or is about to be told, however many broadcasts are under way and
\* whichever sockets are slow, lost or new.  It fails for the topics astray,
\* and only for them: those whose last change was recalled without a word by a
\* hold or a checkout, was dropped with a failed dashboard query, was committed
\* while older news of it was still to begin, or went past a lost socket at
\* which older news of it waits.
ViewsAgree ==
  \A c \in open : \A p \in TopicsOf(c) \ astray : view[c][p] = Truth(p) \/ Told(c, p)

\* Every task that has something to announce comes to its end, and a handler then
\* answers, although it waits for every socket of the rooms, and these may be
\* lost while it waits.
AnnouncementsEnd == \A t \in Tasks : []<>~Busy(t)
=============================================================================
