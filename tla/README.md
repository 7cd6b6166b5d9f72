# TicketRush in TLA+

TLA+ models of the TicketRush backend (`app/`), the TLC runs that check them on
small instances, and the theorems TLAPS proves about them for every instance.
Line numbers refer to the repository; `PROJECT.json` maps every definition that
models code to its lines.

## 1. The system

One `uvicorn` process (`Dockerfile:28`, `docker-compose.yml:13`) serves the API,
PostgreSQL holds the durable data, Redis what expires. Three kinds of actors
touch them:

* **Async handlers** (hold, release, checkout) are coroutines on the event loop.
  Their database and Redis calls are synchronous and block the loop, so within a
  process two such handlers interleave only at an `await`, which is the
  broadcast after a change.
* **Plain handlers** (queue join and status, event administration, login) run on
  a thread pool and interleave with everything at every database or Redis call.
* **Workers**, started on the event loop by `main.py`: one takes back expired
  holds, one promotes waiting users.

| Component | State it keeps | Operations | Interacts with |
|---|---|---|---|
| Seat holds, release, assigned checkout (`services/seats.py`, `checkout.py`, `repositories/seat.py`) | `seats` rows, `tickets`, `orders`; Redis seat locks and per-user hold index | hold, release, checkout | booking session, login, broadcasts |
| Hold expiry worker (`workers/release_expired_holds.py`) | none of its own | release expired holds | `seats`, broadcasts |
| Virtual queue (`services/queue.py`, `workers/process_queue.py`) | Redis queue (sorted set), booking sessions (keys with a TTL) | join, status, worker pass | hold and checkout read and end sessions |
| General admission checkout (`checkout.py:175-244`) | `tickets`, `orders` | checkout by quantity | booking session, dashboard |
| Realtime feed, dashboards (`realtime.py`, `dashboard.py`) | sockets per event; seat counts | connect, broadcast, count | every change of a seat |
| Event administration (`services/events.py`) | events, zones, seats | create, update, delete, publish | holds and checkouts of the same event |
| Accounts (`services/auth.py`, `api/deps.py`) | users; Redis logins and reset codes | register, login, profile update, reset | every request |
| Search and recommendations | interactions, vectors | rank | - |
| Bootstrap, configuration, e-mail, telemetry | - | - | - |

What is hard here, and what has to be right:

* **Seats.** A hold lives in four places with four clocks: the row
  (`status`, `locked_by`, `locked_until`), the Redis lock, the hold index with
  its scores and its own expiry, and the booking session. A handler writes them
  one at a time, reads rows it loaded earlier through SQLAlchemy's identity map,
  and may die, fail or be slow in between. Required: a seat is sold once and for
  good, exactly when a ticket exists; nobody is sold more than the limit; a live
  hold counts against the limit and can be bought by its user; no seat is lost to everyone.
  Times to live, which Redis answers in rounded seconds, are written back by
  every hold, so the four clocks agree only up to rounding.
* **Queue.** Sessions are counted in one Redis command and granted in another,
  by threads and by the worker. Required: the room is not overfilled beyond a
  bound, nobody is let in before those who waited already, nobody is dropped,
  everybody is served. The time that orders the queue is read before the command
  that inserts by it.
* **General admission.** Capacity and limit are counted before the transaction,
  without a lock, while hosts change the event; the dashboard call after the
  commit is unguarded. Required: capacity and limit are kept, and no ticket's
  zone disappears.
* **Administration.** Pool threads validate a layout against the terms they
  loaded and replace zones while the loop holds and sells seats; the count of sold
  seats that guards both is stale by then, and holds are not looked at. Required:
  a ticket keeps its seat, an order is whole, a place is sold once, nothing
  outlives its event. That the layout fits the map, and the prices the ticket type,
  is not among it: the code does not keep it (section 3).
* **Accounts.** A reset code is verified, then deleted, then used, by threads
  that interleave; rows are written that were loaded earlier. Required: a code
  works for its own account, and not after it was used; a password stays what it
  was last set to.
* **Feed.** Broadcasts suspend at every socket, after the commit, while sockets
  are lost and join. Required: a connected client ends up with the truth, and a
  handler that waits for sockets ends.

`PROJECT.json` lists each of these hazards at its line.

## 2. The modules

| Module | What it is |
|---|---|
| `SeatSale` | Abstract specification: seats on offer, on hold until a deadline, or sold. No handlers, locks or caches. |
| `SeatBooking` | hold, release, assigned checkout, expiry worker, session grant, clock, crash. |
| `VirtualQueue` | join and status polls on threads, queue worker, session expiry, checkout ending a session. |
| `GeneralAdmission` | checkout by quantity against a host's update, delete and create_zone. |
| `EventAdmin` | create, update, delete and create_zone of an event with assigned seats, on threads, against holds and checkouts. |
| `SeatFeed` | The two rooms of sockets, and every broadcast of hold, release, checkout and expiry worker, on the event loop. |
| `Accounts` | Registration, login, profile, password reset on threads; seeding at start-up. |
| `SeatBookingProofs` | Proof that `SeatBooking` is type correct. |
| `OneProcessProofs` | With one event loop: three safety theorems and the refinement of `SeatSale`. |
| `DeployedProofs` | With one event loop, while nothing dies or is slow: how far Redis agrees with the seats table about every live hold, its lock, its session and its index entry. |
| `SeatFeedProofs` | `SeatFeed` is type correct, and every open socket shows the truth or is about to be told. |
| `GeneralAdmissionProofs` | Four safety theorems about `GeneralAdmission`, for any number of event loops. |
| `EventAdminProofs` | Every invariant of `EventAdmin`, for any hosts, zones, seats and terms. |
| `AccountsProofs` | Every invariant of `Accounts`, for any number of threads. |
| `VirtualQueueProofs` | How far the waiting room is overfilled, that nobody is dropped from it, and that nobody is let in before those who waited already. |
| `MCSeatBooking`, `MCVirtualQueue`, `MCGeneralAdmission`, `MCEventAdmin`, `MCSeatFeed`, `MCAccounts` | Symmetry and constant functions for TLC. |

### SeatBooking and the code

`seat` is the `seats` table, `owner` the tickets (a function, because
`UNIQUE(seat_id)` admits one ticket per seat), `lock`, `index` and `session` the
three kinds of Redis keys with their expiry, `req` the running handlers.

A handler is one slot of `req`. Its `pc` names what it does next:

| Code | Actions |
|---|---|
| `SeatService.hold` | `HoldLoad` (login, event query), `HoldAdmit` (session, purge, limit), `HoldClip` (login clip, `EXPIRE`), `HoldLock` (`SET NX EX`), `HoldCommit` (transaction), `HoldUndo` (error path), `HoldIndex` (`ZADD`, `EXPIRE`), `HoldReturn` (after the broadcast, with its error path) |
| `SeatService.release` | `ReleaseCheck`, `ReleaseCommit`, `ReleaseUnlock`, `ReleaseUnindex` |
| `CheckoutService.checkout` | `CheckoutLoad`, `CheckoutAdmit`, `CheckoutOwn` (`MGET`), `CheckoutCommit` (transaction), `CheckoutUnlock`, `CheckoutUnindex`, `CheckoutLeave` |
| worker | `ReleaseExpired` |
| `QueueService._grant_access` | `Grant` |
| operating system, Redis | `Crash`, `Tick` |

`Section` lists the places where a handler has its loop to itself: no other
handler of that loop enters while one is there (`Running`). At `announce` it is
suspended in the broadcast. Handlers of two loops interleave at every action.

The identity map is modelled because the code depends on it: `HoldLoad` and
`CheckoutLoad` remember every seat as loaded (`seen`). A later `SELECT ... FOR
UPDATE` locks the row and returns the remembered values; the flush writes the
columns that differ from them (`Flushed`). `release` loads no seat beforehand and
reads the row as it is. `schema-v2.sql`, which `docker-compose.yml:57` loads,
contributes `chk_lock_consistency` and `UNIQUE(seat_id)`; a commit that breaks
one fails and takes the error path.

Redis answers `TTL` in whole seconds, rounded half up (`TTL`, `Rounded`). The clock
runs in ticks, of which a second has `Second`, so that a time to live can be
rounded either way. `hold` adds the rounded value to its own `now`, sets the lock
with it, and writes it back to the session and to the index with `EXPIRE`
(`seats.py:93-98`, `132`). What follows from that, and is what the code does:

* Two holds of a user may have different deadlines although one session is behind them.
* A later hold may move the end of session and index before, or past, the deadline
  of an earlier one, by up to half a second each time. Whoever pays in the last
  moment of a hold can find the session gone, and may then join again and hold
  up to the limit beside the hold that is still live. Only tickets stay within the
  limit in any case (`TicketsWithinLimit`).
* In the last half second of a session nobody has access.
* Hold calls timed to round up keep a session alive longer than it was granted for.

`API_REFERENCE.md:672` and `:1619`, one deadline and one time to live for all of
them, are true up to this. `leeway` is history: how early the session of a hold may
end before it, which is a second and half a second more for each later
hold call that moved the session's end to an earlier time (`HoldClip`). `Secure` says that more than the
leeway is left of a hold.

### VirtualQueue and the code

`queue` is the sorted set as the sequence of its members, `active` the users with
a session key. A `join` is what the code makes it: a status, the decision, a
second status, all sharing the actions `ReadTTL` to `Position`. The worker's pass
is `WorkerCount` (free slots), `WorkerRange` (`ZRANGE`), then per user
`WorkerEach` and `WorkerDrop` or `WorkerGrant`, `WorkerDequeue`. `Expire` is Redis
dropping a session; `CheckoutEnds` is the `DEL` of a checkout, which runs on the
loop and so never within the worker's pass.

A join that has to queue reads the clock (`Stamp`) and then sends its `ZADD`
(`Enqueue`), and other threads run in between. Times are not counted: `earlier`
keeps, for each call that has read the clock, the queued users and the calls
with an earlier time, and the `ZADD` inserts after just those. So a late `ZADD` lands
ahead of users who read the clock later but were queued, and perhaps ranked
(`queue.py:47`) or picked (`queue.py:132`), before; these are let in although
the sorted set has them behind. The code does not serve in the order of the scores, and
no property says so. What it keeps is the order in real time: `ahead` is
history, those who were queued when a user's join began or, if that join had to
queue, when it read the clock; `ServedInTurn` says that the user is let in only
when all of those have left the queue. The clock (`time.time()`) is assumed not to go
back, and not to give two joins the same time.

Sessions do not expire at impossible moments. A session lasts minutes, so it
outlives the calls already running when it was set, and a pass the worker begins
before those have ended (`pinned`); and `TTL` rounds to whole seconds, so a session
that answers with a positive number outlives the `ZREM` that follows (`SeenAlive`).

### GeneralAdmission and the code

`exists`, `capacity` and `zones` are the event row, its `max_capacity` and its
zone rows; `made` the zone ids ever used. The tickets are kept as the three
questions the code asks of the table: how many the event has (`total`), how many
a user has (`sold`), which zones they refer to (`ticketed`).

| Code | Actions |
|---|---|
| `checkout`, `_checkout_general_admission` | `Load` (event query), `FindZone`, `CheckCapacity`, `CheckLimit`, `Commit` (transaction) |
| `EventService.update` | `Open` (loads event and zones), then `UpdateCapacity` or `ReplaceZones` |
| `EventService.delete` | `Open`, `Delete` |
| `SeatService.create_zone` | `CreateZone` |

A checkout holds its loop from `Load` to `Commit`, for there is no await in
between; those of other loops, and the hosts' threads, interleave at each call.
The host's check for sold seats counts rows of `seats`, of which these events
have none, so it never refuses; the foreign keys do (`Deletable`, `RefersToRows`).

### EventAdmin and the code

`exists` and `terms` are the event row, with its seating type, ticket type and the
size of its map; `zones` and `seat` the rows of `seat_zones` and `seats`. A zone of the model
is a row that may be made once, with the places of its seats (`Plan`) and a price
that is 0 or not (`Priced`); a request brings any zones not made yet.

| Code | Actions |
|---|---|
| `EventService.create` | `Init` |
| `EventService.update` | `Open` (loads event and zones), `CountSold` if it has zones, then `EditTerms` or `ReplaceZones` |
| `EventService.delete` | `Open`, `CountSold`, `Delete` |
| `SeatService.create_zone` | `CreateZone` |
| hold, release | `Hold`, `Release` |
| checkout | `AskFor` (event query, `MGET`), `Buy` (transaction, lock deletion) |
| expiry of a hold | `Lapse` |

`PricesOK` is `_validate_zone_prices`, `LayoutOK` `_validate_layout_payload`, and
`Valid` the two, as the schema of a new event has them too; `PlacesFree` and `Deletable` the
constraints of the tables. A layout is valid at the commit for the terms its request
loaded and asked for. Those need not be the event's: an update without zones
validates nothing, nor does `create_zone`, and two updates that race may each write
half of the terms. So an event may be left with seats outside its map, or FREE with
a price and PAID without, which `API_REFERENCE.md:999-1000` rules out. These are
facts of the model, and no property claims the contrary.

### SeatFeed and the code

`room` is `ConnectionManager.connections`, as a sequence for each of the two
rooms. `task` says what each handler, and the worker, has still to announce: the
script is fixed at the commit (`<<seat, "board">>` for hold and release, a pair
for each seat of a checkout, all seats and one `"board"` for the worker).

| Code | Actions |
|---|---|
| commit of hold, checkout, release, worker | `Hold`, `Checkout`, `Release`, `Expire` |
| `broadcast`: payload and `list(...)` | `Begin` |
| `send_json` that returns after a wait, or raises | `Send` and `Wake`, `SendFails` |
| end of one broadcast, or of the handler | `Done` |
| a dashboard or zone query that raises | `Fails` |
| `/ws/events`, `/ws/admin/dashboard` | `Connect`, `Leave` |
| a client that goes away | `Close` |

`current` is the task that has the loop; only `Send`, and the end, give it up.
`line` is the queue of a socket's waiters: a send writes at once and waits behind
those before it, and they are resumed in that order. The order of announcements
rests on this queue, and on every broadcast going over the room in the order in
which its sockets joined. `astray` is history: the topics for which the code gives
no guarantee any more, until they are changed and announced again, each for one of
four reasons: recalled without an announcement (`Commit`); dropped by a failed query
(`Fails`); committed while older news of it was still to begin (`Overtakes`); gone
past a lost socket at which older news of it waits (`Passes`).

### Accounts and the code

`user` is the table, by e-mail as written; `code` and `session` the Redis keys.

| Code | Actions |
|---|---|
| `register`, `seed_admin`, `seed_user` | `Register` (lookup), `Insert` (commit or unique violation), `Refresh` (refresh and password check), `OpenSession` |
| `login` | `Login` (lookup and check), `OpenSession` |
| `update_profile` | `LoadProfile` (login check and row), `UpdateProfile` (commit) |
| `request_password_reset` | `Forgot` (lookup), `StoreCode`, `SendMail` |
| `reset_password` | `LoadUser`, `VerifyCode`, `DeleteCode`, `CommitReset` |
| failures, Redis expiry | `Abort`, `Expire` |

`Lower` is `_normalize_email`, which the reset applies and registration does not:
an account registered as `Ann` is never found by a reset, which looks for `ann`.

## 3. The runs

| Run | Checks | Instance |
|---|---|---|
| `booking_deployed` | `TypeOK`, `LiveHoldIsLocked`, `HoldsCanBePaid`, `HoldsAreCounted` | 2 seats, 2 users, 2 handlers, 1 loop, limit 2, a second of 3 ticks, a login that ends within the run, no faults |
| `booking_faults` | `SoldIffTicketed`, `TicketsWithinLimit`, `SoldSeatStaysSold`, `ImplementsSale` | 2 seats, 2 users, 2 handlers, 1 loop, limit 1, a second of 2 ticks, crashes, failing dashboards, slow handlers, a short and a long login, event ending within the run |
| `booking_recovery` | `NeverStuck` | 1 seat, 2 users, 2 handlers, free event ending within the run, crashes and failing dashboards, `FairSpec` |
| `booking_two_processes` | `SoldSeatStaysSold` is **violated** | 1 seat, 2 loops |
| `booking_two_devices` | `HoldsShareLockedUntil` is **violated** | 2 seats, a user with two logins, no rounding (a second of 1 tick) |
| `queue_room` | `TypeOK`, `RoomOvershootBounded` | 4 users with several tabs, 2 threads, threshold 1, batch 1 |
| `queue_fair` | `ServedInTurn`, `QueueLeftOnlyWithAccess`, `EventuallyServed` | 2 users with one tab, 2 threads, `FairSpec` |
| `general_admission` | `TypeOK`, `CapacityKept`, `LimitKept`, `TicketsKeepTheirZone` | 2 users, 2 checkouts on 2 loops, 1 host, 3 zones of which two share a name, limit 2, quantities 1 and 2, capacities 1 and 3 |
| `event_admin` | `TypeOK`, `TicketsKeepSeats`, `WholeOrders`, `OneTicketPerPlace`, `NothingWithoutEvent` | 2 hosts, 3 zones, one of them with a price, 2 places, a map of size 1 or none |
| `seat_feed` | `TypeOK`, `ViewsAgree`, `AnnouncementsEnd` | 2 seats, 2 viewers and a dashboard of which two are in the rooms at once, 1 request, the worker |
| `accounts` | `TypeOK`, `CodesAreUsedUp`, `CodeForItsAccount`, `PasswordStands` | 2 threads, 2 addresses of which one is written in two ways, 2 codes, 2 passwords, 2 profiles |
| `queue_full` | `RoomWithinLimit` is **violated** | 3 users, 2 threads, threshold 1 |

**What they show.** As deployed, a live hold has its lock to the end; and until
its leeway it has the session that checkout demands, and counts in the index,
with the deadline of the table, although the index is written after the commit,
each key has its own expiry, and every hold moves two of them
(`booking_deployed`). Whatever crashes, fails or is slow, seats and tickets stay
right and every step is one the abstract sale allows (`booking_faults`), and no
seat is lost for good (`booking_recovery`). The waiting room is overfilled at
most by one session per other thread and one worker pass (`queue_room`); the
queue lets in nobody before those who waited when they came, drops nobody and
serves everybody (`queue_fair`). General admission
stays within capacity and limit in one process and exceeds them by at most one
full order for each further process; nothing a host does orphans a ticket
(`general_admission`).

Whatever hosts do to an event at the same time, with counts and zones they loaded
before, a sold seat stays with its zone, an order has all its seats, no place is sold
twice, and a deleted event stays empty (`event_admin`); held seats, on the other
hand, may vanish, and their Redis locks outlive them. Nor does the layout, once
validated, stay valid (section 2).

A connected client shows the truth of a seat, or is about to be told, except for
the seats astray (`seat_feed`). The exceptions are real. A hold or checkout takes
expired holds back without announcing them. A failed dashboard query drops the
rest of a checkout's announcements. The worker may announce as available a seat
that was held, and announced, while it was telling of another. And older news of a
seat may wait at a slow socket that is lost: newer news does not stop there, goes
past, and is followed by the older. Clients then show a stale seat until its next
change.

A reset code works for its own account only, never after the password was changed
with it by a request that is over, and for at most one overlapping request per
thread, where `API_REFERENCE.md:301` says once (`accounts`).

**The three violations** are disagreements between documents and code:

* `ARCHITECTURE.md:19` gives `get_by_id_for_update` as what makes holding
  concurrency-safe. With a second process it is not enough, because the locked
  row keeps the values loaded earlier. The single event loop is what protects
  the deployment.
* `API_REFERENCE.md:672` says the holds of one user share their `locked_until`;
  two logins with different ends give different ones. One login does as well, by up
  to a second, through the rounding of `TTL`; the run leaves rounding out to show
  the larger difference alone.
* `API_REFERENCE.md:1618` says a full room answers `has_access=false`; two joins
  that both counted before either granted both get in.

**Bounds.** `MaxTime` stops the clock and `LastGrant` the granting of sessions.
In `booking_deployed` a session lives two seconds of three ticks, the fewest for
which a time to live is rounded up and down by less than half; a user gets
a second session after the first has ended, holds are made at every part of a
second, and one login ends just before a session would. The other runs
have two ticks to a second, or one where rounding is beside the point. Two handler
slots per loop suffice to have one suspended in a broadcast while another runs a whole section,
the only interleaving one loop admits; two users suffice for a
seat to change hands, and two seats for a hold to move the session of another or a
checkout to end it. `booking_faults` has more
interleavings per seat and takes a limit of one; the theorems of section
5 lift the properties of both to all bounds. In `queue_room` the bound is
three sessions for a room of one, so four users are needed for it to be
exceeded. Its cfg identifies states that differ in `ahead` alone (`VIEW`): no
action reads that history, and of the two properties only `TypeOK`, for its type.
In `general_admission` two loops are the fewest that overshoot,
capacities 1 and 3 let a host raise it under a running checkout (it cannot
return to NULL, since an update writes only what it is given), and three
zones let a host replace one by another of its name and find both names taken.
In
`event_admin` two of the three zones take the same place, one with a price and one
without, and the third stands just off the map, so replacements merge, collide or
fail either validation, and updates that race mix two sets of terms; two hosts are the
fewest that load before the other writes. In `seat_feed` two sockets in one room
are the fewest of which one can be lost while the next is to be told, the worker
and a request with two seats the fewest scripts that can overtake one another;
sockets come back, as new ones, without end. For news to pass older news that
waits at a lost socket, when the socket was lost only after the newer was committed,
one room needs three sockets; the theorem of section 5 covers that, the run
does not. In `accounts` two threads can both
verify one code, and a second code can be stored between. Codes do not repeat.
Deadlock is not checked: the bounded clock stops, and a server with no
request and nothing to expire legitimately does nothing.

**Symmetry** is used where no definition names an element (seats; users and
threads of the queue; requests, loops and users of general admission; hosts;
threads, codes, profiles and passwords of accounts), and never in a run with a liveness property.

**Fairness.** An event loop runs ready callbacks in the order they became ready,
so a started section continues (weak fairness of `Continue`), and a finished
broadcast and the worker get their turn although new requests keep disabling
their action by occupying the loop (strong fairness of `HoldReturn`,
`ReleaseExpired`, `Tick`). Nothing is assumed about users: no fairness on
arrivals, and none on a crash. In the queue, threads and worker are scheduled
(weak), and a session's time to live runs down whoever polls meanwhile
(strong fairness of `Expire`; hold calls that set a session's end ever later,
each by rounding up, are taken to stop some time). In `seat_feed` a task that has the
loop goes on (weak fairness of `Run`), and one at the head of a socket's line is resumed
although others take the loop meanwhile (strong fairness of `Wake`). That a buffer
drains or its socket is lost is the WebSocket server's doing: it drops a client
that does not answer its pings. Nothing is assumed of users and sockets.

`PROJECT.json` pairs each property of a passing run with a plausible bug
(a `Buggy...` operator beside the definition it replaces) under which it fails.

## 4. What is abstracted

* One event, with assigned seats, published throughout; its end and its limit
  are constants. Zones, prices, order rows and ticket contents are left out.
* Time is a counter of ticks, `Second` to the second, coarser than Redis'
  milliseconds; what is rounded to seconds in the code is so in the model. Unless the
  fault `slow` is on, no time passes between two awaits of a handler.
* Consecutive reads, or a `TTL` with the clock reading beside it, are one step;
  so are `ZADD` and `EXPIRE` of the hold index, on the loop. The `SCAN` that counts
  sessions is one step.
* In `VirtualQueue` a session ends when its `TTL` rounds to 0; that its key is
  still counted for the half second after, which only keeps others out, is left out.
* A transaction takes effect when it commits. Sessions use
  `autoflush=False, expire_on_commit=False` at READ COMMITTED. In
  `GeneralAdmission` this rests on the row locks of foreign keys: a `DELETE` and
  an `INSERT` that refers to the row wait for each other.
* `GeneralAdmission` has one event that stays published and free or paid, with
  no seats. Prices are left out, so any zone may be the cheapest. The rest of
  an update (title, dates, categories) touches nothing a checkout reads except
  the publication, which only ends checkouts. `offered` is history: the largest
  capacity the event has had.
* The dashboard query after a general admission sale may fail and the buyer see
  an error. Nothing stored depends on it, so it is not in the model.
* In `EventAdmin` a seat's label is left out, since it follows the rules of its
  place; rows and columns of the map are one size; how high a price is matters to
  nothing here. Publication and the
  end of the event are left out: they only end sales. A hold is one step and has no
  owner: `SeatBooking` has its calls. Seats that vanish leave entries in the
  hold index, which is not in this model.
* In `SeatFeed` a client that connects sees the table as it is at that moment; the
  dashboard leaves out revenue, which follows from the tickets. A send may
  return without waiting: that is `Send` followed at once by `Wake`. The payload
  of a dashboard is read when its broadcast begins, in one step.
* In `Accounts` any wrong password or code ends a request without effect and is not
  enumerated. Tokens are the session key they name; what is not a password is one
  profile value. The in-memory store of codes, used only without Redis, is left out.
* `default_max_bookable_per_user` is a setting; no event overrides it, because
  the model has no `max_bookable` column.
* `queue_fair` assumes one request at a time per user (`OneTab`). With two tabs,
  a checkout that ends the session between `TTL` and `ZREM` of the other tab's
  poll can drop a user who has just queued again.
* `LiveHoldIsLocked`, `HoldsCanBePaid` and `HoldsAreCounted` are claims without faults: after a
  crash before the `ZADD`, or a failed dashboard query, a hold can lose its lock
  or session early. Its user then waits for it to expire (`NeverStuck`).

## 5. What is proved

`SeatBookingProofs` proves `TypeCorrect`, `Spec => []TypeOK`, for any seats,
users, loops, logins, bounds and faults. `TypeInv`, the inductive form, adds
what the types need: a live session expires in the future, so what is left
of it, and what `TTL` rounds it to, is a natural number, and a request past
`holdClip` has time left.

`OneProcessProofs` assumes `OneProcess`, that there is one event loop, as in the
shipped deployment, and proves

* `SoldExactlyWhenTicketed`: `Spec => []SoldIffTicketed`
* `NeverTooManyTickets`: `Spec => []TicketsWithinLimit`
* `SoldForGood`: `Spec => SoldSeatStaysSold`
* `ImplementsTheSale`: `Spec => ImplementsSale`

none of them excluding any fault. The argument: the properties are not inductive,
because a commit writes from values read before. `SaleInv` adds `RequestsOK`,
which says what a request in its section may rely on. At most one request
is in a section (`Exclusive`); what it remembers is what the table still holds
(`Fresh`), since all other writers need the loop; it has the seats its operation
works on (`Shape`); a checkout that has counted still fits the limit
(`StillFits`). `RowOK` gives the shape of a row per status. Each request step is
shown to have one of five effects on the tables (hold, release, buy, lapse, pass),
and each effect preserves the table part of the invariant and is a step or a
stutter of `SeatSale`. `booking_two_processes` shows that the assumption cannot
be dropped.

`DeployedProofs` is about the same deployment while nothing disturbs its handlers. It
assumes `OneProcess`, `Calm` (no process that dies and no handler that is slow: `crash`
and `slow` are not among the `Faults`) and `LoginsAgree`, and proves

* `EveryHoldCanBePaid`: `Spec => []HoldsCanBePaid`
* `EveryHoldIsCounted`: `Spec => []HoldsAreCounted`
* `EveryHoldIsLocked`: `Spec => []LiveHoldIsLocked`, assuming `DashboardAnswers` as well

for any seats, users, requests, limits, times and ticks to a second. Each assumption
is one without which the code keeps less. A process that dies between the commit and the
`ZADD` leaves a hold the index never counts, and time that passes between two awaits
lets a key run out that was set to the same deadline as the row. `LoginsAgree` says that
all logins of a user end at the same time, as one login does: the session is cut to
the login of the request that holds, so a second login may cut it by any amount, as
in `booking_two_devices`. With `DashboardAnswers`, no dashboard query fails: the error
path of `hold` otherwise deletes the lock of the seat it has just held
(`seats.py:148`), though neither session nor index.

The inductive invariant is `SaleInv` with `RedisInv`. Its centre, `Backed`, ties every
live hold to the lock (`LockBacks`), the session (`SessionBacks`) and the index
(`Recorded`) of its holder. The lock is exact; session and index may
fall short of the hold by less than its `leeway`. A hold call moves the end of the session
by less than a second in all, up by at most `Half` and down by less than `Spare`, the
rest of a second (`NearSession`). If it moves it up, older holds only gain; if down,
their leeway grows by `Half`, which is all the end can have moved, unless the
session was cut to the login, near which all holds of the user end already
(`EndFits`). The index lags behind the row between the transaction
and `ZADD` (`Pending`), and no one else runs in that time. `InFlight` says what
a request in its section relies on: that it still has the session whose time it read,
that the locks it has set are its own, that the seats whose keys it is about to
delete are nobody's any more, and that a checkout about to end the session has
found the index empty, so that no hold of the user is secure.

`SeatFeedProofs` assumes `FeedAssumption` only and proves

* `TypeCorrect`: `Spec => []TypeOK`
* `FeedAgrees`: `Spec => []ViewsAgree`

for any seats, sockets, requests and size of the rooms. `ViewsAgree` speaks of one
client and one topic and is not inductive: whether the last thing a client will be told
is the truth depends on the order of all broadcasts of the topic. `AllSettled`
says of each topic not astray that it is still to be broadcast (`Coming`), or that one
broadcast under way, the newest, says the truth and every other stays ahead of
it (`Leads`), or that nobody has anything more to say of it to an open socket (`Quiet`).
A broadcast stays ahead of another (`Behind`) if the other still has to tell whoever it
has to tell, and comes to the socket at which it waits, too, or waits there after it.
That is preserved because a snapshot is in the order of the room (`InOrder`), lines
are first come first served, and a socket that joins joins at the end. It breaks in
one way: the later broadcast passes by the socket at which the earlier waits, since the
socket was lost. `Passes` is this case, and the invariant shows that it is the only one.

`GeneralAdmissionProofs` assumes nothing but `SaleAssumption` and proves

* `TypeCorrect`: `Spec => []TypeOK`
* `TicketsStayWhole`: `Spec => []TicketsKeepTheirZone`
* `OversoldAtMost`: `Spec => []CapacityKept`
* `OverbookedAtMost`: `Spec => []LimitKept`
* `OneProcessSellsWithin`: with one loop, no overshoot at all

for any users, zones, hosts and number of loops. The run reaches both bounds, and
no invariant that speaks of the total alone is inductive. `SaleInv` speaks of the
checkouts that have passed their count, at most one per loop (`Fit`): the
tickets sold, with the order of some one of them and a full order for each of
the others, stay within the bound. The one is the last to have counted: it
found room for its own order, and leaves a full order to everyone else. A
commit moves an order from the set into the total; a raised capacity only makes
room. `CapsOffered` says that what a checkout loaded
is no more than the largest capacity offered, which is why a host changing it
in between does no harm beyond the bound.

`EventAdminProofs` assumes `LayoutAssumption` only and proves

* `TypeCorrect`: `Spec => []TypeOK`
* `TicketsStand`: `Spec => []TicketsKeepSeats`
* `OrdersAreWhole`: `Spec => []WholeOrders`
* `DeletedForGood`: `Spec => []NothingWithoutEvent`
* `PlacesSoldOnce`: `Spec => []OneTicketPerPlace`

for any hosts, zones, places and terms. The invariant that makes them inductive is
`RowsInZones`: every row of `seats` lies in a zone of an event that exists. With it, a
ticket can only lose its seat with the zone, which `Deletable` refuses at the
commit, whatever was counted before; and since a zone is made once, the rows an
update inserts belong to no ticket. Nothing has to be known of what a host loaded.
`PlacesSoldOnce` adds `OneSeatPerPlace`, that no two rows of `seats` have one place:
the constraint is tested against the rows as they are at the commit, and those
a zone brings have been found apart, or are all of one zone.

`AccountsProofs` assumes `AccountsAssumption` (`_normalize_email` changes nothing
twice, and there are finitely many threads) and proves

* `TypeCorrect`: `Spec => []TypeOK`
* `ResetsStand`: `Spec => []PasswordStands`
* `CodesStayWithTheirAccount`: `Spec => []CodeForItsAccount`
* `CodesRunOut`: `Spec => []CodesAreUsedUp`

`CodeInv` says where a code can be: in Redis only under the e-mail it was issued for
(`UnderItsEmail`), and nowhere once a request is about to commit with it
(`SpentGone`). So only a code not yet used gets new holders, and `UsesFit` counts uses
and holders together: a commit turns one into the other.

`VirtualQueueProofs` assumes `QueueAssumption` and proves

* `TypeCorrect`: `Spec => []TypeOK`
* `OvershootBounded`: `Spec => []RoomOvershootBounded`
* `NobodyDropped`: `Spec => QueueLeftOnlyWithAccess`, assuming `OneTab` as well
* `LetInAfterThoseBefore`: `Spec => ServedInTurn`, assuming `OneTab` as well

for any users, threads, threshold and batch size. `RoomOvershootBounded` speaks of
sessions alone and is not inductive. `Claims` adds the calls that have counted and
may still grant, and what is left of the worker's pass: whoever counts found the
sessions below the threshold, and a grant turns a claim into a session, so `Claims`
never exceeds what it can be right after a count. `WorkerOK` keeps the worker's stale
picks within the room it counted.

The other two rest on `TurnInv`. Whoever is about to be taken off the queue has a
session (`ThreadPins`, `WorkerPins`; without `OneTab` a checkout in a second tab can
end it). Those in a user's `ahead` are before the user in the queue (`WaitsBehind`):
a call that has read the clock has all of them among its earlier times
(`StampedLater`), and a late `ZADD` may come before a user, but its user is in nobody's
`ahead`. So a poll that found its user first has an empty `ahead`, and has it still
when it grants (`GrantsFirst`). A pick of the worker has a session that outlives
the pass, or is in the queue with an `ahead` of earlier picks alone (`PicksInTurn`). That could break only
if a user were let in, taken off, expired and queued again within one pass; so
`LetInAndQueued` follows the users who have a session and a place in the queue at the
same time, down to the call that is about to end it. An instance with threshold 2
and three users is the first in which that matters; the theorem covers it, the run
does not.

Only model-checked: the liveness properties (`NeverStuck`, `EventuallyServed`,
`AnnouncementsEnd`), because fairness rests on `ENABLED`, which the prover does not
reason about, and the three violations. Every invariant and action property of the passing runs is a theorem,
those of `booking_deployed` and `booking_faults` under the assumptions named above.

## 6. Not modelled, and the plan

* Ranking and search read, and write only interactions that nothing here reads
  back. Configuration, telemetry and logging keep no state that a model would say
  something about.
* The connection pool (`db/session.py:7`) is a library's. A handler suspended in a
  broadcast keeps its connection, and a call that waits for one on the loop keeps
  those handlers from returning theirs, until it times out; a dashboard socket
  keeps one for its whole life (`ws.py:39`). In the models such a time-out is the
  failing dashboard query of `SeatBooking` and `SeatFeed`. A module would have to
  model the pool rather than this code.
* Demographics, ticket listing and QR images are queries.

Worth proving next: what remains of the agreement between Redis and the table when a
process dies or a handler is slow, that is, which of the keys a hold may then lose and
for how long; and for the feed, that a topic is only ever astray because of
one of the four causes since its last announced change, as a property of steps.
