------------------------- MODULE VirtualQueueProofs -------------------------
(***************************************************************************)
(* Proofs about VirtualQueue, for any users, threads, threshold and batch. *)
(*                                                                         *)
(* The argument for the bound: a thread that has just counted found the    *)
(* sessions below the threshold, whatever else had counted before, and so  *)
(* did the worker; from then on, a session granted takes the place of a    *)
(* claim to grant it.  So sessions and claims together never exceed what   *)
(* they can be right after a count: Threshold - 1 sessions, a claim of     *)
(* every thread, and a full pass of the worker.                            *)
(*                                                                         *)
(* The argument for the order of the queue stands before TurnInv.          *)
(***************************************************************************)
EXTENDS VirtualQueue, SequenceTheorems, FiniteSetTheorems, TLAPS

USE DEF InQueue

-----------------------------------------------------------------------------
(* The queue as a sequence *)

OnceEach(q) == \A i, j \in 1..Len(q) : q[i] = q[j] => i = j

Before(q, u, v) == \E i, j \in 1..Len(q) : i < j /\ q[i] = u /\ q[j] = v
Ahead(u, v)     == \E i, j \in 1..Len(queue) : i < j /\ queue[i] = u /\ queue[j] = v

\* Without(u), element by element.
LEMMA WithoutShape ==
  ASSUME queue \in Seq(Users), NEW u, InQueue(u)
  PROVE  /\ Place(u) \in 1..Len(queue) /\ queue[Place(u)] = u
         /\ Without(u) \in Seq(Users) /\ Len(Without(u)) = Len(queue) - 1
         /\ \A i \in 1..(Len(queue) - 1) :
              Without(u)[i] = IF i < Place(u) THEN queue[i] ELSE queue[i + 1]
<1> DEFINE p == Place(u)
           n == Len(queue)
           a == SubSeq(queue, 1, p - 1)
           b == SubSeq(queue, p + 1, n)
<1>1. p \in 1..n /\ queue[p] = u /\ n \in Nat
  BY LenProperties DEF Place
<1>2. \A i \in 1..n : queue[i] \in Users
  BY ElementOfSeq
<1>3. a \in Seq(Users) /\ Len(a) = p - 1 /\ \A i \in 1..(p - 1) : a[i] = queue[i]
  BY <1>1, <1>2, SubSeqProperties
<1>4. b \in Seq(Users) /\ Len(b) = n - p /\ \A i \in 1..(n - p) : b[i] = queue[p + i]
  <2>1. \A i \in (p + 1)..n : queue[i] \in Users
    BY <1>1, <1>2
  <2>2. p + 1 \in Int /\ n \in Int
    BY <1>1
  <2>3. /\ b \in Seq(Users) /\ Len(b) = (IF p + 1 <= n THEN n - (p + 1) + 1 ELSE 0)
        /\ \A i \in 1..(n - (p + 1) + 1) : b[i] = queue[p + 1 + i - 1]
    BY <2>1, <2>2, SubSeqProperties
  <2> HIDE DEF p, n, b
  <2> QED BY <1>1, <2>3
<1>5. Without(u) = a \o b
  BY DEF Without
<1>6. /\ a \o b \in Seq(Users) /\ Len(a \o b) = Len(a) + Len(b)
      /\ \A i \in 1..(Len(a) + Len(b)) : (a \o b)[i] = IF i <= Len(a) THEN a[i] ELSE b[i - Len(a)]
  BY <1>3, <1>4, ConcatProperties
<1> DEFINE w == Without(u)
<1> HIDE DEF p, n, a, b, w
<1>7. /\ w \in Seq(Users) /\ Len(w) = n - 1
      /\ \A i \in 1..(n - 1) : w[i] = IF i <= p - 1 THEN a[i] ELSE b[i - (p - 1)]
  <2>1. Len(a) = p - 1 /\ Len(a) + Len(b) = n - 1
    BY <1>1, <1>3, <1>4
  <2>2. w = a \o b
    BY <1>5 DEF w
  <2> QED BY <1>6, <2>1, <2>2
<1>8. ASSUME NEW i \in 1..(n - 1) PROVE w[i] = IF i < p THEN queue[i] ELSE queue[i + 1]
  <2>1. CASE i < p
    <3>1. i <= p - 1 /\ i \in 1..(p - 1)
      BY <1>1, <2>1
    <3> QED BY <1>3, <1>7, <2>1, <3>1
  <2>2. CASE ~(i < p)
    <3>1. ~(i <= p - 1) /\ i - (p - 1) \in 1..(n - p) /\ p + (i - (p - 1)) = i + 1
      BY <1>1, <2>2
    <3>2. b[i - (p - 1)] = queue[i + 1]
      BY <1>4, <3>1
    <3> QED BY <1>7, <2>2, <3>1, <3>2
  <2> QED BY <2>1, <2>2
<1> QED BY <1>1, <1>7, <1>8 DEF p, n, w

\* ZREM and ZADD NX keep a sequence of different users, change one of them, and
\* leave the others in their order.
LEMMA WithoutFacts ==
  ASSUME queue \in Seq(Users), OnceEach(queue), NEW u
  PROVE  /\ Without(u) \in Seq(Users) /\ OnceEach(Without(u))
         /\ \A v : v # u /\ InQueue(v) => \E i \in 1..Len(Without(u)) : Without(u)[i] = v
         /\ \A i \in 1..Len(Without(u)) : Without(u)[i] # u /\ InQueue(Without(u)[i])
         /\ \A x, v : x # u /\ v # u /\ Ahead(x, v) => Before(Without(u), x, v)
<1>1. CASE ~InQueue(u)
  BY <1>1 DEF Without, OnceEach, Before, Ahead
<1>2. CASE InQueue(u)
  <2> DEFINE p == Place(u)
             n == Len(queue)
             w == Without(u)
  <2>0. n \in Nat
    BY LenProperties
  <2>1. p \in 1..n /\ queue[p] = u
    BY <1>2, WithoutShape
  <2> HIDE DEF p, n, w
  <2>2. /\ w \in Seq(Users) /\ Len(w) = n - 1
        /\ \A i \in 1..(n - 1) : w[i] = IF i < p THEN queue[i] ELSE queue[i + 1]
    BY <1>2, WithoutShape DEF p, n, w
  <2>3. OnceEach(w)
    BY <2>0, <2>1, <2>2 DEF OnceEach, n
  <2> DEFINE to(i) == IF i < p THEN i ELSE i - 1
  <2>4. ASSUME NEW i \in 1..n, i # p PROVE to(i) \in 1..(n - 1) /\ w[to(i)] = queue[i]
    <3>1. CASE i < p
      BY <2>0, <2>1, <2>2, <3>1
    <3>2. CASE i > p
      <4>1. i - 1 \in 1..(n - 1) /\ ~(i - 1 < p) /\ (i - 1) + 1 = i
        BY <2>0, <2>1, <3>2
      <4>2. w[i - 1] = queue[i]
        BY <2>2, <4>1
      <4> QED BY <2>1, <3>2, <4>1, <4>2
    <3> QED BY <2>1, <2>4, <3>1, <3>2
  <2>t. \A i, j \in 1..n : i < j /\ i # p /\ j # p => to(i) < to(j)
    BY <2>0, <2>1
  <2> HIDE DEF to
  <2> DEFINE at(i) == IF i < p THEN i ELSE i + 1
  <2>5. \A i \in 1..(n - 1) : at(i) \in 1..n /\ at(i) # p /\ w[i] = queue[at(i)]
    <3> SUFFICES ASSUME NEW i \in 1..(n - 1) PROVE at(i) \in 1..n /\ at(i) # p /\ w[i] = queue[at(i)]
      OBVIOUS
    <3>1. at(i) \in 1..n /\ at(i) # p
      BY <2>0, <2>1
    <3>2. w[i] = IF i < p THEN queue[i] ELSE queue[i + 1]
      BY <2>2
    <3> QED BY <3>1, <3>2
  <2> HIDE DEF at
  <2>7. ASSUME NEW i \in 1..Len(w) PROVE w[i] # u /\ InQueue(w[i])
    BY <2>1, <2>2, <2>5 DEF OnceEach, n
  <2>8. ASSUME NEW x, NEW v, x # u, v # u, Ahead(x, v) PROVE Before(w, x, v)
    <3>1. PICK i, j \in 1..n : i < j /\ queue[i] = x /\ queue[j] = v
      BY <2>8 DEF Ahead, n
    <3>2. i # p /\ j # p
      BY <2>1, <2>8, <3>1
    <3> QED BY <2>2, <2>4, <2>t, <3>1, <3>2 DEF Before
  <2>9. ASSUME NEW v, v # u, InQueue(v) PROVE \E i \in 1..Len(w) : w[i] = v
    BY <2>1, <2>2, <2>4, <2>9 DEF n
  <2> QED BY <2>2, <2>3, <2>7, <2>8, <2>9 DEF w
<1> QED BY <1>1, <1>2

\* With(k, u), element by element.
LEMMA WithShape ==
  ASSUME queue \in Seq(Users), NEW u \in Users, ~InQueue(u), NEW k \in 0..Len(queue)
  PROVE  /\ With(k, u) \in Seq(Users) /\ Len(With(k, u)) = Len(queue) + 1
         /\ \A i \in 1..(Len(queue) + 1) :
              With(k, u)[i] = IF i <= k THEN queue[i] ELSE IF i = k + 1 THEN u ELSE queue[i - 1]
<1> DEFINE n == Len(queue)
           a == SubSeq(queue, 1, k)
           b == SubSeq(queue, k + 1, n)
           c == a \o <<u>>
<1>1. n \in Nat /\ k \in Nat /\ k <= n
  BY LenProperties
<1>2. \A i \in 1..n : queue[i] \in Users
  BY ElementOfSeq
<1>3. a \in Seq(Users) /\ Len(a) = k /\ \A i \in 1..k : a[i] = queue[i]
  BY <1>1, <1>2, SubSeqProperties
<1>4. b \in Seq(Users) /\ Len(b) = n - k /\ \A i \in 1..(n - k) : b[i] = queue[k + i]
  <2>1. \A i \in (k + 1)..n : queue[i] \in Users
    BY <1>1, <1>2
  <2>2. k + 1 \in Int /\ n \in Int
    BY <1>1
  <2>3. /\ b \in Seq(Users) /\ Len(b) = (IF k + 1 <= n THEN n - (k + 1) + 1 ELSE 0)
        /\ \A i \in 1..(n - (k + 1) + 1) : b[i] = queue[k + 1 + i - 1]
    BY <2>1, <2>2, SubSeqProperties
  <2> HIDE DEF n, b
  <2> QED BY <1>1, <2>3
<1>5. With(k, u) = c \o b
  BY DEF With
<1>6. /\ c \in Seq(Users) /\ Len(c) = k + 1
      /\ \A i \in 1..(k + 1) : c[i] = IF i <= k THEN a[i] ELSE u
  <2>1. <<u>> \in Seq(Users) /\ Len(<<u>>) = 1 /\ <<u>>[1] = u
    OBVIOUS
  <2> DEFINE one == <<u>>
  <2> HIDE DEF a, one
  <2>2. one \in Seq(Users) /\ Len(one) = 1 /\ one[1] = u
    BY <2>1 DEF one
  <2>3. /\ a \o one \in Seq(Users) /\ Len(a \o one) = Len(a) + Len(one)
        /\ \A i \in 1..(Len(a) + Len(one)) : (a \o one)[i] = IF i <= Len(a) THEN a[i] ELSE one[i - Len(a)]
    BY <1>3, <2>2, ConcatProperties
  <2>4. c = a \o one
    BY DEF one
  <2> HIDE DEF c
  <2> QED BY <1>1, <1>3, <2>2, <2>3, <2>4
<1> HIDE DEF n, a, b, c
<1>7. /\ c \o b \in Seq(Users) /\ Len(c \o b) = Len(c) + Len(b)
      /\ \A i \in 1..(Len(c) + Len(b)) : (c \o b)[i] = IF i <= Len(c) THEN c[i] ELSE b[i - Len(c)]
  BY <1>4, <1>6, ConcatProperties
<1> DEFINE w == With(k, u)
<1> HIDE DEF w
<1>8. w = c \o b
  BY <1>5 DEF w
<1>9. Len(c) + Len(b) = n + 1 /\ Len(c) = k + 1
  BY <1>1, <1>4, <1>6
<1>10. ASSUME NEW i \in 1..(n + 1)
       PROVE  w[i] = IF i <= k THEN queue[i] ELSE IF i = k + 1 THEN u ELSE queue[i - 1]
  <2>1. w[i] = IF i <= k + 1 THEN c[i] ELSE b[i - (k + 1)]
    BY <1>7, <1>8, <1>9
  <2>2. CASE i <= k
    <3>1. i \in 1..k /\ i \in 1..(k + 1)
      BY <1>1, <2>2
    <3> QED BY <1>1, <1>3, <1>6, <2>1, <2>2, <3>1
  <2>3. CASE i = k + 1
    <3>1. i \in 1..(k + 1) /\ ~(i <= k) /\ i <= k + 1
      BY <1>1, <2>3
    <3> QED BY <1>6, <2>1, <2>3, <3>1
  <2>4. CASE i > k + 1
    <3>1. i - (k + 1) \in 1..(n - k) /\ k + (i - (k + 1)) = i - 1
      BY <1>1, <2>4
    <3>2. b[i - (k + 1)] = queue[i - 1]
      BY <1>4, <3>1
    <3> QED BY <1>1, <2>1, <2>4, <3>2
  <2> QED BY <1>1, <2>2, <2>3, <2>4
<1> QED BY <1>7, <1>8, <1>9, <1>10 DEF w, n

LEMMA WithFacts ==
  ASSUME queue \in Seq(Users), OnceEach(queue), NEW u \in Users, NEW k \in 0..Len(queue)
  PROVE  /\ With(k, u) \in Seq(Users) /\ OnceEach(With(k, u))
         /\ \E i \in 1..Len(With(k, u)) : With(k, u)[i] = u
         /\ \A v : InQueue(v) => \E i \in 1..Len(With(k, u)) : With(k, u)[i] = v
         /\ \A i \in 1..Len(With(k, u)) : With(k, u)[i] = u \/ InQueue(With(k, u)[i])
         /\ \A x, v : Ahead(x, v) => Before(With(k, u), x, v)
         /\ ~InQueue(u) => \A i \in 1..k : Before(With(k, u), queue[i], u)
<1>1. CASE InQueue(u)
  BY <1>1 DEF With, Before, Ahead
<1>2. CASE ~InQueue(u)
  <2> DEFINE w == With(k, u)
             n == Len(queue)
             to(i) == IF i <= k THEN i ELSE i + 1
  <2>1. n \in Nat /\ k \in Nat /\ k <= n
    BY LenProperties
  <2>2. /\ w \in Seq(Users) /\ Len(w) = n + 1
        /\ \A i \in 1..(n + 1) : w[i] = IF i <= k THEN queue[i] ELSE IF i = k + 1 THEN u ELSE queue[i - 1]
    BY <1>2, WithShape
  <2>q. \A i, j \in 1..n : queue[i] = queue[j] => i = j
    BY DEF OnceEach
  <2>u. \A i \in 1..n : queue[i] # u
    BY <1>2
  <2> HIDE DEF w, n
  <2>3. k + 1 \in 1..(n + 1) /\ w[k + 1] = u
    <3>1. k + 1 \in 1..(n + 1) /\ ~(k + 1 <= k)
      BY <2>1
    <3> QED BY <2>2, <3>1
  <2>4. ASSUME NEW i \in 1..n PROVE to(i) \in 1..(n + 1) /\ to(i) # k + 1 /\ w[to(i)] = queue[i]
    <3>1. CASE i <= k
      BY <2>1, <2>2, <3>1
    <3>2. CASE i > k
      <4>1. i + 1 \in 1..(n + 1) /\ ~(i + 1 <= k) /\ i + 1 # k + 1 /\ (i + 1) - 1 = i
        BY <2>1, <3>2
      <4>2. w[i + 1] = queue[i]
        BY <2>2, <4>1
      <4> QED BY <2>1, <3>2, <4>1, <4>2
    <3> QED BY <2>1, <3>1, <3>2
  <2>5. \A i, j \in 1..n : i < j => to(i) < to(j)
    BY <2>1
  <2>6. ASSUME NEW i \in 1..(n + 1), i # k + 1 PROVE \E j \in 1..n : i = to(j)
    <3>1. CASE i <= k
      <4>1. i \in 1..n /\ i = to(i)
        BY <2>1, <3>1
      <4> QED BY <4>1
    <3>2. CASE i > k + 1
      <4>1. i - 1 \in 1..n /\ ~(i - 1 <= k) /\ (i - 1) + 1 = i
        BY <2>1, <3>2
      <4> QED BY <4>1
    <3> QED BY <2>1, <2>6, <3>1, <3>2
  <2>7. \A i \in 1..k : i \in 1..n /\ to(i) = i /\ i < k + 1
    BY <2>1
  <2> HIDE DEF to
  <2>8. OnceEach(w)
    <3> SUFFICES ASSUME NEW i \in 1..(n + 1), NEW j \in 1..(n + 1), w[i] = w[j] PROVE i = j
      BY <2>2 DEF OnceEach
    <3>1. CASE i = k + 1 /\ j # k + 1
      BY <2>3, <2>4, <2>6, <2>u, <3>1
    <3>2. CASE i # k + 1 /\ j = k + 1
      BY <2>3, <2>4, <2>6, <2>u, <3>2
    <3>3. CASE i # k + 1 /\ j # k + 1
      <4>1. PICK a, b \in 1..n : i = to(a) /\ j = to(b)
        BY <2>6, <3>3
      <4> QED BY <2>4, <2>q, <4>1
    <3> QED BY <3>1, <3>2, <3>3
  <2>9. ASSUME NEW v, InQueue(v) PROVE \E i \in 1..Len(w) : w[i] = v
    BY <2>2, <2>4, <2>9 DEF n
  <2>10. ASSUME NEW i \in 1..Len(w) PROVE w[i] = u \/ InQueue(w[i])
    <3>1. CASE i = k + 1
      BY <2>3, <3>1
    <3>2. CASE i # k + 1
      <4>1. PICK j \in 1..n : i = to(j)
        BY <2>2, <2>6, <3>2
      <4> QED BY <2>4, <4>1 DEF n
    <3> QED BY <3>1, <3>2
  <2>11. ASSUME NEW x, NEW v, Ahead(x, v) PROVE Before(w, x, v)
    <3>1. PICK i, j \in 1..n : i < j /\ queue[i] = x /\ queue[j] = v
      BY <2>11 DEF Ahead, n
    <3> QED BY <2>2, <2>4, <2>5, <3>1 DEF Before
  <2>12. ASSUME NEW i \in 1..k PROVE Before(w, queue[i], u)
    <3>1. i \in 1..n /\ to(i) = i /\ i < k + 1
      BY <2>7
    <3>2. i \in 1..(n + 1) /\ w[i] = queue[i]
      BY <2>4, <3>1
    <3> QED BY <2>2, <2>3, <3>1, <3>2 DEF Before
  <2>13. \E i \in 1..Len(w) : w[i] = u
    BY <2>2, <2>3
  <2> QED BY <2>2, <2>8, <2>9, <2>10, <2>11, <2>12, <2>13 DEF w
<1> QED BY <1>1, <1>2

-----------------------------------------------------------------------------
(* Type correctness *)

\* A call has a user; the worker's picks are no more than the room it counted,
\* less what it has promoted since.
CallOK == \A t \in Threads : call[t].pc # "idle" => call[t].user \in Users

WorkerOK ==
  /\ worker.pc \in {"sleep", "range"} => worker.promoted = 0
  /\ worker.pc # "sleep" => worker.free > 0 /\ worker.promoted < BatchSize
  /\ worker.pc \in {"each", "drop", "grant", "dequeue"} => worker.promoted + Len(worker.picks) <= worker.free
  /\ worker.pc \in {"drop", "grant", "dequeue"} => worker.picks # <<>>
  /\ worker.pc # "sleep" /\ Threshold > 0 => worker.free <= Threshold

TypeInv == TypeOK /\ CallOK /\ WorkerOK

\* What a step of a thread may do to its own record.
LEMMA CallStep ==
  ASSUME TypeInv, NEW t \in Threads, Continue(t)
  PROVE  call' \in [Threads -> Call] /\ CallOK'
<1> HIDE DEF InQueue
<1>0. call \in [Threads -> Call] /\ CallOK
  BY DEF TypeInv, TypeOK
<1> USE <1>0 DEF CallOK, Call, CallPC, NoCall, Goto, Go
<1>1. CASE ReadTTL(t) \/ Leave(t) \/ Room(t) \/ Rank(t) \/ Grant(t) \/ Recheck(t) \/ JoinRoom(t) \/ Stamp(t)
  BY <1>1 DEF ReadTTL, Leave, Room, Rank, Grant, Recheck, JoinRoom, Stamp, Return
<1>2. CASE Dequeue(t)
  BY <1>2 DEF Dequeue
<1>3. CASE Position(t)
  <2>1. \/ call' = [call EXCEPT ![t] = NoCall]
        \/ Go(t, "ttl", "status") \/ Goto(t, "joinRoom")
    BY <1>3 DEF Position, Return
  <2> QED BY <1>3, <2>1 DEF Position
<1>4. CASE JoinEmpty(t)
  BY <1>4 DEF JoinEmpty
<1>5. CASE Enqueue(t)
  BY <1>5 DEF Enqueue
<1> QED BY <1>1, <1>2, <1>3, <1>4, <1>5 DEF Continue

\* What a step may do to the join times and to the history.
LEMMA TimesType ==
  ASSUME TypeInv
  PROVE  /\ Queued \subseteq Users
         /\ \A u : ZRem(u) => /\ earlier' \in [Threads -> SUBSET (Users \cup Threads)]
                             /\ ahead' \in [Users -> SUBSET Users]
         /\ \A t \in Threads, u \in Users :
              ZAdd(t, u) => earlier' \in [Threads -> SUBSET (Users \cup Threads)] /\ ahead' = ahead
         /\ \A u \in Users : Notice(u) => ahead' \in [Users -> SUBSET Users]
<1>1. Queued \subseteq Users
  BY ElementOfSeq DEF TypeInv, TypeOK, Queued
<1> HIDE DEF InQueue
<1>2. /\ earlier \in [Threads -> SUBSET (Users \cup Threads)]
      /\ ahead \in [Users -> SUBSET Users]
  BY DEF TypeInv, TypeOK
<1>3. ASSUME NEW u, ZRem(u)
      PROVE  /\ earlier' \in [Threads -> SUBSET (Users \cup Threads)]
             /\ ahead' \in [Users -> SUBSET Users]
  BY <1>2, <1>3 DEF ZRem
<1>4. ASSUME NEW t \in Threads, NEW u \in Users, ZAdd(t, u)
      PROVE  earlier' \in [Threads -> SUBSET (Users \cup Threads)] /\ ahead' = ahead
  BY <1>2, <1>4 DEF ZAdd
<1>5. ASSUME NEW u \in Users, Notice(u) PROVE ahead' \in [Users -> SUBSET Users]
  BY <1>1, <1>2, <1>5 DEF Notice
<1> QED BY <1>1, <1>3, <1>4, <1>5

LEMMA ThreadType == ASSUME TypeInv, NEW t \in Threads, Continue(t) PROVE TypeInv'
<1> DEFINE u == call[t].user
<1>1. call' \in [Threads -> Call] /\ CallOK'
  BY CallStep
<1>2. WorkerOK' /\ worker' = worker
  <2>1. worker' = worker
    BY DEF Continue, ReadTTL, Leave, Room, Rank, Grant, Dequeue, Recheck, Position, JoinRoom, JoinEmpty, Stamp, Enqueue
  <2> QED BY <2>1 DEF TypeInv, WorkerOK
<1>3. call[t].pc # "idle" /\ u \in Users
  BY DEF TypeInv, CallOK, Continue, ReadTTL, Leave, Room, Rank, Grant, Dequeue, Recheck, Position,
         JoinRoom, JoinEmpty, Stamp, Enqueue
<1>4. queue' = queue \/ queue' = Without(u) \/ \E k \in 0..Len(queue) : queue' = With(k, u)
  BY DEF Continue, ReadTTL, Leave, Room, Rank, Grant, Dequeue, Recheck, Position,
         JoinRoom, JoinEmpty, Stamp, Enqueue, ZRem, ZAdd
<1>5. queue' \in Seq(Users) /\ OnceEach(queue')
  <2>1. queue \in Seq(Users) /\ OnceEach(queue)
    BY DEF TypeInv, TypeOK, OnceEach
  <2> QED BY <1>3, <1>4, <2>1, WithoutFacts, WithFacts
<1>6. active' = active \/ active' = active \cup {u}
  BY DEF Continue, ReadTTL, Leave, Room, Rank, Grant, Dequeue, Recheck, Position,
         JoinRoom, JoinEmpty, Stamp, Enqueue, Set
<1>7. \/ pinned' = pinned \/ pinned' = [pinned EXCEPT ![u] = Busy]
      \/ pinned' = [v \in Users |-> pinned[v] \ {t}]
  BY DEF Continue, ReadTTL, Leave, Room, Rank, Grant, Dequeue, Recheck, Position,
         JoinRoom, JoinEmpty, Stamp, Enqueue, Set, Return
<1>8. pinned' \in [Users -> SUBSET (Threads \cup {Worker})]
  BY <1>7 DEF TypeInv, TypeOK, Busy
<1>9. /\ earlier' \in [Threads -> SUBSET (Users \cup Threads)]
      /\ ahead' \in [Users -> SUBSET Users]
  <2> HIDE DEF InQueue
  <2>1. /\ earlier \in [Threads -> SUBSET (Users \cup Threads)]
        /\ ahead \in [Users -> SUBSET Users]
    BY DEF TypeInv, TypeOK
  <2>2. CASE Leave(t) \/ Dequeue(t)
    BY <2>2, TimesType DEF Leave, Dequeue
  <2>3. CASE Enqueue(t)
    BY <1>3, <2>1, <2>3, TimesType DEF Enqueue
  <2>4. CASE Stamp(t)
    <3>1. Queued \cup {x \in Threads : call[x].pc = "enqueue"} \subseteq Users \cup Threads
      BY TimesType
    <3> QED BY <1>3, <2>1, <2>4, <3>1, TimesType DEF Stamp
  <2>5. CASE ReadTTL(t) \/ Room(t) \/ Rank(t) \/ Grant(t) \/ Recheck(t) \/ Position(t) \/ JoinRoom(t) \/ JoinEmpty(t)
    BY <2>1, <2>5 DEF ReadTTL, Room, Rank, Grant, Recheck, Position, JoinRoom, JoinEmpty
  <2> QED BY <2>2, <2>3, <2>4, <2>5 DEF Continue
<1> QED BY <1>1, <1>2, <1>3, <1>5, <1>6, <1>8, <1>9 DEF TypeInv, TypeOK, OnceEach

LEMMA WorkType == ASSUME TypeInv, Work PROVE TypeInv'
<1> USE QueueAssumption DEF TypeInv, TypeOK, WorkerOK, CallOK, Pass, WorkerPC
<1> DEFINE u == Head(worker.picks)
           Moved(pc, free, picks, promoted) ==
             [pc |-> pc, free |-> free, picks |-> picks, promoted |-> promoted]
<1>1. worker.picks # <<>> => /\ u \in Users /\ Tail(worker.picks) \in Seq(Users)
                             /\ Len(Tail(worker.picks)) = Len(worker.picks) - 1
  BY HeadTailProperties
<1>2. /\ Len(worker.picks) \in Nat /\ Len(queue) \in Nat /\ Cardinality(active) \in Nat
      /\ worker.picks # <<>> => Len(worker.picks) > 0
  BY LenProperties, EmptySeq, FS_Subset, FS_CardinalityType
<1>3. CASE WorkerCount
  <2>1. FreeSlots \in Int /\ FreeSlots > 0 /\ (Threshold > 0 => FreeSlots <= Threshold)
    BY <1>2, <1>3 DEF WorkerCount, FreeSlots
  <2>2. worker' = Moved("range", FreeSlots, worker.picks, 0)
    BY <1>3 DEF WorkerCount
  <2> QED BY <1>3, <2>1, <2>2 DEF WorkerCount
<1>4. CASE WorkerRange
  <2> DEFINE n == Least(worker.free, Len(queue))
             picks == SubSeq(queue, 1, n)
  <2>1. n \in Nat /\ n <= Len(queue) /\ n <= worker.free
    BY <1>2, <1>4 DEF WorkerRange, Least
  <2>2. picks \in Seq(Users) /\ Len(picks) = n
    <3>1. \A i \in 1..n : queue[i] \in Users
      BY <1>2, <2>1, ElementOfSeq
    <3> QED BY <2>1, <3>1, SubSeqProperties
  <2> HIDE DEF n, picks
  <2>3. worker' = Moved("each", worker.free, picks, worker.promoted)
    BY <1>4 DEF WorkerRange, picks, n
  <2>4. worker' \in Pass /\ WorkerOK'
    <3>1. worker.promoted = 0 /\ worker.free > 0 /\ (Threshold > 0 => worker.free <= Threshold)
      BY <1>4 DEF WorkerRange
    <3> QED BY <2>1, <2>2, <2>3, <3>1
  <2> QED BY <1>4, <2>4 DEF WorkerRange
<1>5. CASE WorkerEach
  <2>1. CASE Sleep
    BY <1>5, <2>1 DEF WorkerEach, Sleep, Asleep
  <2>2. CASE ~Sleep
    BY <1>1, <1>5, <2>2 DEF WorkerEach
  <2> QED BY <2>1, <2>2
<1>6. ASSUME worker.picks # <<>>, ZRem(u)
      PROVE  /\ queue' \in Seq(Users) /\ OnceEach(queue')
             /\ earlier' \in [Threads -> SUBSET (Users \cup Threads)]
             /\ ahead' \in [Users -> SUBSET Users]
  <2>1. queue \in Seq(Users) /\ OnceEach(queue)
    BY DEF OnceEach
  <2>2. Without(u) \in Seq(Users) /\ OnceEach(Without(u))
    BY <2>1, WithoutFacts
  <2> HIDE DEF TypeInv
  <2> QED BY <1>6, <2>2, TimesType DEF ZRem
<1>7. CASE WorkerDrop
  <2>1. worker' = Moved("each", worker.free, Tail(worker.picks), worker.promoted)
    BY <1>7 DEF WorkerDrop
  <2>2. worker' \in Pass /\ WorkerOK'
    <3>1. /\ worker.promoted + Len(worker.picks) <= worker.free /\ worker.free > 0
          /\ worker.promoted < BatchSize /\ (Threshold > 0 => worker.free <= Threshold)
          /\ worker.picks # <<>> /\ worker.free \in Int /\ worker.promoted \in Nat
      BY <1>7 DEF WorkerDrop
    <3> HIDE DEF TypeInv, TypeOK, CallOK
    <3> QED BY <1>1, <1>2, <2>1, <3>1
  <2>3. /\ queue' \in Seq(Users) /\ OnceEach(queue')
        /\ earlier' \in [Threads -> SUBSET (Users \cup Threads)]
        /\ ahead' \in [Users -> SUBSET Users]
    BY <1>6, <1>7 DEF WorkerDrop
  <2> QED BY <1>7, <2>2, <2>3 DEF WorkerDrop, OnceEach
<1>8. CASE WorkerGrant
  BY <1>1, <1>8 DEF WorkerGrant, Set, Busy
<1>9. CASE WorkerDequeue
  <2>1. CASE Sleep
    BY <1>1, <1>6, <1>9, <2>1 DEF WorkerDequeue, Sleep, Asleep, OnceEach
  <2>2. CASE ~Sleep
    <3>1. worker' = Moved("each", worker.free, Tail(worker.picks), worker.promoted + 1)
      <4>1. worker \in Pass
        OBVIOUS
      <4> HIDE DEF TypeInv, TypeOK, InQueue
      <4> QED BY <1>9, <2>2, <4>1 DEF WorkerDequeue
    <3> QED BY <1>1, <1>2, <1>6, <1>9, <2>2, <3>1 DEF WorkerDequeue, OnceEach
  <2> QED BY <2>1, <2>2
<1> QED BY <1>3, <1>4, <1>5, <1>7, <1>8, <1>9 DEF Work

LEMMA TypeStep == ASSUME TypeInv, [Next]_vars PROVE TypeInv'
<1>1. ASSUME NEW t \in Threads, NEW u \in Users, NEW op \in {"status", "join"}, Begin(t, u, op) PROVE TypeInv'
  <2>1. ahead' \in [Users -> SUBSET Users]
    BY <1>1, TimesType DEF Begin, TypeInv, TypeOK
  <2> HIDE DEF InQueue
  <2> QED BY <1>1, <2>1 DEF Begin, TypeInv, TypeOK, CallOK, WorkerOK, Call, CallPC
<1>2. ASSUME NEW u \in Users, Expire(u) \/ CheckoutEnds(u) PROVE TypeInv'
  BY <1>2 DEF Expire, CheckoutEnds, TypeInv, TypeOK, CallOK, WorkerOK
<1>3. CASE UNCHANGED vars
  BY <1>3 DEF vars, TypeInv, TypeOK, CallOK, WorkerOK
<1> QED BY <1>1, <1>2, <1>3, ThreadType, WorkType DEF Next

LEMMA TypeInductive == Spec => []TypeInv
<1>1. Init => TypeInv
  BY QueueAssumption, EmptySeq, LenProperties
     DEF Init, TypeInv, TypeOK, CallOK, WorkerOK, Asleep, NoCall, Call, CallPC, Pass, WorkerPC
<1>2. TypeInv /\ [Next]_vars => TypeInv'
  BY TypeStep
<1> QED BY <1>1, <1>2, PTL DEF Spec

\* The queue never holds a user twice, and calls and worker keep their types,
\* however ZADD NX, ZREM and the worker's stale picks interleave.
THEOREM TypeCorrect == Spec => []TypeOK
BY TypeInductive, PTL DEF TypeInv

-----------------------------------------------------------------------------
(* How far the room can be overfilled *)

\* The sessions, and the claims to grant one.
Claims    == Cardinality(active) + Cardinality(Admitted) + Allowance
Bound     == Threshold - 1 + Cardinality(Threads) + Least(Threshold, BatchSize)
ClaimsFit == Threshold > 0 => Claims <= Bound

LEMMA Sizes ==
  ASSUME TypeInv
  PROVE  /\ IsFiniteSet(active) /\ Cardinality(active) \in Nat
         /\ IsFiniteSet(Admitted) /\ Cardinality(Admitted) \in Nat
         /\ Cardinality(Threads) \in Nat /\ Cardinality(Admitted) <= Cardinality(Threads)
<1>1. active \subseteq Users /\ Admitted \subseteq Threads
  BY DEF TypeInv, TypeOK, Admitted
<1> QED BY <1>1, QueueAssumption, FS_Subset, FS_CardinalityType

LEMMA AllowanceFacts ==
  ASSUME TypeInv
  PROVE  /\ Allowance \in Nat
         /\ Threshold > 0 => Allowance <= Least(Threshold, BatchSize)
         /\ worker.pc = "grant" => Allowance > 0
<1>1. /\ worker.free \in Int /\ worker.promoted \in Nat /\ Len(worker.picks) \in Nat
      /\ worker.picks # <<>> => Len(worker.picks) > 0
  BY LenProperties, EmptySeq DEF TypeInv, TypeOK, Pass
<1> QED BY <1>1, QueueAssumption DEF TypeInv, TypeOK, WorkerOK, Pass, WorkerPC, Allowance, Least

LEMMA ClaimsStep == ASSUME TypeInv, ClaimsFit, Threshold > 0, [Next]_vars PROVE Claims' <= Bound
<1>0. TypeInv' /\ Claims <= Bound
  BY TypeStep DEF ClaimsFit
<1>s. /\ IsFiniteSet(active) /\ Cardinality(active) \in Nat /\ Cardinality(Admitted) \in Nat
      /\ IsFiniteSet(Admitted) /\ Cardinality(Threads) \in Nat
      /\ IsFiniteSet(active') /\ Cardinality(active') \in Nat /\ Cardinality(Admitted') \in Nat
      /\ Cardinality(Admitted') <= Cardinality(Threads)
  <2>1. /\ IsFiniteSet(active') /\ Cardinality(active') \in Nat
        /\ IsFiniteSet(Admitted') /\ Cardinality(Admitted') \in Nat
        /\ Cardinality(Admitted') <= Cardinality(Threads)
    <3>1. active' \subseteq Users /\ Admitted' \subseteq Threads
      BY <1>0 DEF TypeInv, TypeOK, Admitted
    <3> QED BY <3>1, QueueAssumption, FS_Subset, FS_CardinalityType
  <2> QED BY <2>1, Sizes
<1>a. /\ Allowance \in Nat /\ Allowance' \in Nat
      /\ Allowance' <= Least(Threshold, BatchSize) /\ Least(Threshold, BatchSize) \in Int
  <2>1. Allowance' \in Nat /\ Allowance' <= Least(Threshold, BatchSize)
    <3>1. /\ worker'.free \in Int /\ worker'.promoted \in Nat /\ Len(worker'.picks) \in Nat
          /\ worker'.picks # <<>> => Len(worker'.picks) > 0
      BY <1>0, LenProperties, EmptySeq DEF TypeInv, TypeOK, Pass
    <3> QED BY <1>0, <3>1, QueueAssumption DEF TypeInv, TypeOK, WorkerOK, Pass, WorkerPC, Allowance, Least
  <2> QED BY <2>1, AllowanceFacts, QueueAssumption DEF Least
<1>b. Bound \in Int /\ Threshold \in Int
  BY <1>s, <1>a, QueueAssumption DEF Bound
\* The claims do not grow.
<1>1. ASSUME active' \subseteq active, Admitted' \subseteq Admitted, Allowance' <= Allowance
      PROVE  Claims' <= Bound
  <2>1. Cardinality(active') <= Cardinality(active) /\ Cardinality(Admitted') <= Cardinality(Admitted)
    BY <1>s, <1>1, FS_Subset
  <2> QED BY <1>0, <1>s, <1>a, <1>b, <1>1, <2>1 DEF Claims
\* There is room.
<1>2. ASSUME active' = active, Cardinality(active) < Threshold PROVE Claims' <= Bound
  BY <1>s, <1>a, <1>b, <1>2 DEF Claims, Bound
\* A claim is used.
<1>3. ASSUME NEW u, active' = active \cup {u},
             \/ Allowance' = Allowance /\ \E t \in Admitted : Admitted' = Admitted \ {t}
             \/ Allowance' = Allowance - 1 /\ Admitted' = Admitted
      PROVE  Claims' <= Bound
  <2>1. Cardinality(active') <= Cardinality(active) + 1
    BY <1>s, <1>3, FS_AddElement
  <2>2. \A t \in Admitted : Cardinality(Admitted \ {t}) = Cardinality(Admitted) - 1
    BY <1>s, FS_RemoveElement
  <2> QED BY <1>0, <1>s, <1>a, <1>b, <1>3, <2>1, <2>2 DEF Claims
<1>4. ASSUME NEW t \in Threads, Continue(t) PROVE Claims' <= Bound
  <2> USE DEF TypeInv, TypeOK, Admitted, Call, NoCall
  <2>1. worker' = worker /\ Allowance' = Allowance
    BY <1>4 DEF Continue, ReadTTL, Leave, Room, Rank, Grant, Dequeue, Recheck, Position, JoinRoom,
                JoinEmpty, Stamp, Enqueue, Allowance
  <2>2. CASE Grant(t)
    <3>1. active' = active \cup {call[t].user} /\ t \in Admitted /\ Admitted' = Admitted \ {t}
      BY <2>2 DEF Grant, Set, Goto
    <3> QED BY <1>3, <2>1, <3>1
  <2>3. CASE (Room(t) \/ JoinRoom(t)) /\ RoomFor(Cardinality(active))
    BY <1>2, <1>s, <1>b, <2>3 DEF Room, JoinRoom, RoomFor
  <2>4. CASE (Room(t) \/ JoinRoom(t)) /\ ~RoomFor(Cardinality(active))
    <3>1. active' = active /\ Admitted' \subseteq Admitted
      BY <2>4 DEF Room, JoinRoom, Goto
    <3> QED BY <1>1, <1>a, <2>1, <3>1
  <2>5. CASE ReadTTL(t) \/ Leave(t) \/ Rank(t) \/ Dequeue(t) \/ Recheck(t) \/ Position(t) \/ JoinEmpty(t)
                \/ Stamp(t) \/ Enqueue(t)
    <3> HIDE DEF InQueue
    <3>1. active' = active
      BY <2>5 DEF ReadTTL, Leave, Rank, Dequeue, Recheck, Position, JoinEmpty, Stamp, Enqueue
    <3>2. \A x \in Threads \ {t} : call'[x] = call[x]
      BY <2>5 DEF ReadTTL, Leave, Rank, Dequeue, Recheck, Position, JoinEmpty, Stamp, Enqueue, Goto, Go, Return
    <3>3. CASE Rank(t) \/ JoinEmpty(t)
      BY <1>1, <1>a, <2>1, <3>1, <3>2, <3>3 DEF Rank, JoinEmpty
    <3>4. CASE ReadTTL(t) \/ Leave(t) \/ Dequeue(t) \/ Recheck(t) \/ Stamp(t) \/ Enqueue(t)
      <4>1. call'[t].pc \notin {"rank", "joinEmpty", "grant"}
        BY <3>4 DEF ReadTTL, Leave, Dequeue, Recheck, Stamp, Enqueue, Goto, Go, Return
      <4> QED BY <1>1, <1>a, <2>1, <3>1, <3>2, <4>1
    <3>5. CASE Position(t)
      <4>1. call'[t].pc \notin {"rank", "joinEmpty", "grant"}
        BY <3>5 DEF Position, Goto, Go, Return
      <4> QED BY <1>1, <1>a, <2>1, <3>1, <3>2, <4>1
    <3> QED BY <2>5, <3>3, <3>4, <3>5
  <2> QED BY <1>4, <2>2, <2>3, <2>4, <2>5 DEF Continue
<1>5. CASE Work
  <2>1. Admitted' = Admitted
    BY <1>5 DEF Work, WorkerCount, WorkerRange, WorkerEach, WorkerDrop, WorkerGrant, WorkerDequeue, Admitted
  <2>2. CASE WorkerCount
    BY <1>2, <1>s, <1>b, <2>2 DEF WorkerCount, FreeSlots
  <2>3. CASE WorkerGrant
    <3>1. Allowance' = Allowance - 1
      <4>1. /\ worker'.free = worker.free /\ worker'.promoted = worker.promoted
            /\ worker.pc = "grant" /\ worker'.pc = "dequeue"
        BY <2>3 DEF WorkerGrant, TypeInv, TypeOK, Pass
      <4>2. worker.free \in Int /\ worker.promoted \in Nat
        BY DEF TypeInv, TypeOK, Pass
      <4> QED BY <4>1, <4>2, QueueAssumption DEF Allowance, Least
    <3>2. active' = active \cup {Head(worker.picks)}
      BY <2>3 DEF WorkerGrant, Set
    <3> QED BY <1>3, <2>1, <3>1, <3>2
  <2>4. CASE WorkerRange \/ WorkerEach \/ WorkerDrop \/ WorkerDequeue
    <3>1. active' = active
      BY <2>4 DEF WorkerRange, WorkerEach, WorkerDrop, WorkerDequeue
    <3>2. CASE Sleep
      <4>1. Allowance' = 0
        BY <3>2 DEF Sleep, Asleep, Allowance
      <4> QED BY <1>1, <1>a, <2>1, <3>1, <4>1
    <3>3. CASE ~Sleep
      <4>1. /\ worker'.free = worker.free /\ worker.pc # "sleep" /\ worker'.pc \notin {"sleep", "dequeue"}
            /\ worker'.promoted = worker.promoted + (IF worker.pc = "dequeue" THEN 1 ELSE 0)
        <5>1. worker \in Pass
          BY DEF TypeInv, TypeOK
        <5>2. CASE WorkerRange \/ WorkerDrop
          <6>1. PICK picks : worker' = [pc |-> "each", free |-> worker.free,
                  picks |-> picks, promoted |-> worker.promoted]
            BY <5>1, <5>2 DEF WorkerRange, WorkerDrop, Pass
          <6>2. worker.pc \in {"range", "drop"}
            BY <5>2 DEF WorkerRange, WorkerDrop
          <6> QED BY <5>1, <6>1, <6>2 DEF Pass
        <5>3. CASE WorkerEach
          BY <3>3, <5>1, <5>3 DEF WorkerEach, Pass
        <5>4. CASE WorkerDequeue
          <6>1. worker.pc = "dequeue" /\ worker' = [pc |-> "each", free |-> worker.free,
                  picks |-> Tail(worker.picks), promoted |-> worker.promoted + 1]
            BY <3>3, <5>1, <5>4 DEF WorkerDequeue, Pass
          <6> QED BY <6>1
        <5> QED BY <2>4, <5>2, <5>3, <5>4
      <4>2. Allowance' = Allowance
        BY <4>1, QueueAssumption DEF Allowance, Least, TypeInv, TypeOK, Pass
      <4> QED BY <1>1, <1>a, <2>1, <3>1, <4>2
    <3> QED BY <3>2, <3>3
  <2> QED BY <1>5, <2>2, <2>3, <2>4 DEF Work
<1>6. ASSUME NEW t \in Threads, NEW u \in Users, NEW op \in {"status", "join"}, Begin(t, u, op) PROVE Claims' <= Bound
  <2>1. active' = active /\ worker' = worker /\ Allowance' = Allowance /\ Admitted' \subseteq Admitted
    BY <1>6 DEF Begin, Allowance, Admitted, TypeInv, TypeOK
  <2> QED BY <1>1, <1>a, <2>1
<1>7. ASSUME NEW u \in Users, Expire(u) \/ CheckoutEnds(u) PROVE Claims' <= Bound
  <2>1. active' \subseteq active /\ Allowance' = Allowance /\ Admitted' = Admitted
    BY <1>7 DEF Expire, CheckoutEnds, Allowance, Admitted
  <2> QED BY <1>1, <1>a, <2>1
<1>8. CASE UNCHANGED vars
  <2>1. active' = active /\ Allowance' = Allowance /\ Admitted' = Admitted
    BY <1>8 DEF vars, Allowance, Admitted
  <2> QED BY <1>1, <1>a, <2>1
<1> QED BY <1>4, <1>5, <1>6, <1>7, <1>8 DEF Next

\* Polls and worker count the sessions and grant later, each in its own time:
\* the room is overfilled by one session for every other thread and by one pass of
\* the worker, whatever the number of users, threads, and tabs.
THEOREM OvershootBounded == Spec => []RoomOvershootBounded
<1>1. Init => ClaimsFit
  <2> SUFFICES ASSUME Init, Threshold > 0 PROVE Claims <= Bound
    BY DEF ClaimsFit
  <2>1. active = {} /\ Admitted = {} /\ Allowance = 0
    BY DEF Init, Admitted, NoCall, Asleep, Allowance
  <2>2. Cardinality({}) = 0 /\ Cardinality(Threads) \in Nat
    BY QueueAssumption, FS_EmptySet, FS_CardinalityType
  <2> QED BY <2>1, <2>2, QueueAssumption DEF Claims, Bound, Least
<1>2. TypeInv /\ ClaimsFit /\ [Next]_vars => ClaimsFit'
  BY ClaimsStep DEF ClaimsFit, Bound
<1>3. TypeInv /\ ClaimsFit => RoomOvershootBounded
  <2> SUFFICES ASSUME TypeInv, ClaimsFit, Threshold > 0
               PROVE  Cardinality(active) <= Bound
    BY DEF RoomOvershootBounded, Bound
  <2> QED BY Sizes, AllowanceFacts, QueueAssumption DEF ClaimsFit, Claims, Bound, Least
<1> QED BY <1>1, <1>2, <1>3, TypeInductive, PTL DEF Spec

-----------------------------------------------------------------------------
(* The order of the queue *)

(***************************************************************************)
(* With one tab for each user.  Whoever is about to be taken off the queue *)
(* has a session, and the worker's pass does not outlive that session.  So *)
(* a pick of the worker either has a session that stays, or is queued, and *)
(* all it must wait for are earlier picks.  The delicate case is a user    *)
(* who is let in and queued at the same time: a call of that user, or the  *)
(* worker, is then about to end it.                                        *)
(*                                                                         *)
(* A user must wait for those in ahead, and is behind them in the queue: a *)
(* call that has read the clock keeps all of them among the earlier times. *)
(* A late ZADD may come before a user, or a pick, but not into ahead.      *)
(***************************************************************************)
OneCallEach ==
  \A s, t \in Threads : s # t /\ call[s].pc # "idle" /\ call[t].pc # "idle" => call[s].user # call[t].user

ThreadPins ==
  \A t \in Threads :
    /\ call[t].pc \in {"leave", "dequeue"} => call[t].user \in active
    /\ call[t].pc = "dequeue" => t \in pinned[call[t].user]

WorkerPins ==
  /\ worker.pc \in {"drop", "dequeue"} => Head(worker.picks) \in active
  /\ worker.pc = "dequeue" => Worker \in pinned[Head(worker.picks)]
  /\ worker.pc # "sleep" => \A v \in Users : pinned[v] # {} => Worker \in pinned[v]

TakesOff(t, v) ==
  /\ call[t].user = v /\ t \in pinned[v]
  /\ call[t].pc = "dequeue" \/ (call[t].op = "status" /\ call[t].pc \in {"ttl", "leave"})

LetInAndQueued ==
  \A v \in Users : v \in active /\ InQueue(v) =>
    (worker.pc = "dequeue" /\ Head(worker.picks) = v) \/ \E t \in Threads : TakesOff(t, v)

LetInMeanwhile ==
  \A t \in Threads :
    call[t].pc \in {"position", "joinRoom", "joinEmpty", "stamp", "enqueue"} /\ call[t].user \in active
      => t \in pinned[call[t].user]

WaitsBehind ==
  \A v \in Users : \A x \in ahead[v] : x # v /\ InQueue(x) /\ (InQueue(v) => Ahead(x, v))

StampedLater == \A t \in Threads : call[t].pc = "enqueue" => ahead[call[t].user] \subseteq earlier[t]

GrantsFirst == \A t \in Threads : call[t].pc = "grant" => ahead[call[t].user] = {}

Stays(v) == v \in active /\ Worker \in pinned[v]
InTurn(v, first) == InQueue(v) /\ ahead[v] \subseteq first

PicksInTurn ==
  worker.pc \in {"each", "drop", "grant", "dequeue"} =>
    /\ OnceEach(worker.picks)
    /\ \A i \in 1..Len(worker.picks) :
         LET v == worker.picks[i]
         IN Stays(v) \/ InTurn(v, {worker.picks[j] : j \in 1..(i - 1)})

TurnInv == /\ OneCallEach /\ ThreadPins /\ WorkerPins /\ LetInAndQueued /\ LetInMeanwhile
           /\ WaitsBehind /\ StampedLater /\ GrantsFirst /\ PicksInTurn

\* What ZREM and ZADD NX make of places in the queue.
LEMMA AfterZRem ==
  ASSUME TypeInv, NEW u, ZRem(u)
  PROVE  /\ ~InQueue(u)'
         /\ \A v : v # u /\ InQueue(v) => InQueue(v)'
         /\ \A v : InQueue(v)' => InQueue(v) /\ v # u
         /\ \A x, v : x # u /\ v # u /\ Ahead(x, v) => Ahead(x, v)'
         /\ \A v \in Users : ahead'[v] = ahead[v] \ {u}
         /\ \A t \in Threads : earlier'[t] = earlier[t] \ {u}
<1>1. queue \in Seq(Users) /\ OnceEach(queue)
  BY DEF TypeInv, TypeOK, OnceEach
<1> DEFINE w == Without(u)
<1>2. /\ \A v : v # u /\ InQueue(v) => \E i \in 1..Len(w) : w[i] = v
      /\ \A i \in 1..Len(w) : w[i] # u /\ InQueue(w[i])
      /\ \A x, v : x # u /\ v # u /\ Ahead(x, v) => Before(w, x, v)
  <2> HIDE DEF InQueue
  <2> QED BY <1>1, WithoutFacts DEF InQueue
<1> HIDE DEF w
<1>3. queue' = w
  BY DEF ZRem, w
<1>4. ASSUME NEW x, NEW v, Before(w, x, v) PROVE Ahead(x, v)'
  BY <1>3, <1>4 DEF Ahead, Before
<1>5. /\ \A v \in Users : ahead'[v] = ahead[v] \ {u}
      /\ \A t \in Threads : earlier'[t] = earlier[t] \ {u}
  BY DEF ZRem
<1> QED BY <1>2, <1>3, <1>4, <1>5

\* Whoever is queued with an earlier time comes out before the user of the call.
LEMMA AfterZAdd ==
  ASSUME TypeInv, NEW t \in Threads, NEW u \in Users, ZAdd(t, u)
  PROVE  /\ InQueue(u)'
         /\ \A v : InQueue(v) => InQueue(v)'
         /\ \A v : InQueue(v)' => InQueue(v) \/ v = u
         /\ \A x, v : Ahead(x, v) => Ahead(x, v)'
         /\ ~InQueue(u) => \A x \in earlier[t] : InQueue(x) => Ahead(x, u)'
         /\ ahead' = ahead
         /\ \A s \in Threads \ {t}, v \in Users : v \in earlier[s] => v \in earlier'[s]
<1>1. queue \in Seq(Users) /\ OnceEach(queue) /\ Len(queue) \in Nat
  BY LenProperties DEF TypeInv, TypeOK, OnceEach
<1>2. PICK k \in 0..Len(queue) : ComesAfter(t, k) /\ queue' = With(k, u)
  BY DEF ZAdd
<1> DEFINE w == With(k, u)
<1>3. /\ \E i \in 1..Len(w) : w[i] = u
      /\ \A v : InQueue(v) => \E i \in 1..Len(w) : w[i] = v
      /\ \A x, v : Ahead(x, v) => Before(w, x, v)
      /\ \A i \in 1..Len(w) : w[i] = u \/ InQueue(w[i])
      /\ ~InQueue(u) => \A i \in 1..k : Before(w, queue[i], u)
  <2> HIDE DEF InQueue
  <2> QED BY <1>1, WithFacts DEF InQueue
<1> HIDE DEF w
<1>4. queue' = w
  BY <1>2 DEF w
<1>5. ASSUME NEW x, NEW v, Before(w, x, v) PROVE Ahead(x, v)'
  BY <1>4, <1>5 DEF Ahead, Before
<1>6. ASSUME NEW x \in earlier[t], InQueue(x), ~InQueue(u) PROVE Ahead(x, u)'
  <2>1. PICK i \in 1..Len(queue) : queue[i] = x
    BY <1>6
  <2>2. i \in 1..k
    BY <1>1, <1>2, <1>6, <2>1 DEF ComesAfter
  <2> QED BY <1>3, <1>5, <1>6, <2>1, <2>2
<1>7. /\ ahead' = ahead
      /\ \A s \in Threads \ {t}, v \in Users : v \in earlier[s] => v \in earlier'[s]
  <2> HIDE DEF InQueue
  <2> QED BY QueueAssumption DEF ZAdd
<1> QED BY <1>3, <1>4, <1>5, <1>6, <1>7

\* What a step of a thread does to each variable.
LEMMA ThreadMoves ==
  ASSUME TypeInv, NEW t \in Threads, Continue(t), NEW u, u = call[t].user
  PROVE  /\ worker' = worker /\ call[t].pc # "idle" /\ u \in Users
         /\ \A x \in Threads \ {t} : call'[x] = call[x]
         /\ call'[t] = NoCall \/ call'[t].user = u
         /\ \/ active' = active /\ pinned' = pinned
            \/ active' = active /\ pinned' = [v \in Users |-> pinned[v] \ {t}] /\ call'[t] = NoCall
            \/ call[t].pc = "grant" /\ Set(u) /\ call'[t].pc = "dequeue"
         /\ \/ /\ UNCHANGED <<queue, earlier, ahead>> /\ call'[t].pc # "enqueue"
               /\ call[t].pc \notin {"leave", "dequeue", "stamp", "enqueue"}
            \/ /\ queue' = queue /\ Notice(u) /\ call[t].pc = "stamp" /\ call'[t].pc = "enqueue"
               /\ Queued \subseteq earlier'[t]
               /\ \A s \in Threads \ {t} : earlier'[s] = earlier[s]
            \/ ZRem(u) /\ call[t].pc \in {"leave", "dequeue"} /\ call'[t].pc # "enqueue"
            \/ ZAdd(t, u) /\ call[t].pc = "enqueue" /\ call'[t].pc = "ttl" /\ call'[t].op = "status"
<1> HIDE DEF InQueue
<1>1. /\ call[t].pc # "idle" /\ u \in Users /\ call \in [Threads -> Call] /\ t \in DOMAIN call
      /\ earlier \in [Threads -> SUBSET (Users \cup Threads)]
  BY DEF TypeInv, TypeOK, CallOK, Continue, ReadTTL, Leave, Room, Rank, Grant, Dequeue, Recheck,
         Position, JoinRoom, JoinEmpty, Stamp, Enqueue
<1>2. CASE ReadTTL(t) \/ Room(t) \/ Rank(t) \/ JoinRoom(t) \/ JoinEmpty(t)
  BY <1>1, <1>2 DEF ReadTTL, Room, Rank, JoinRoom, JoinEmpty, Goto, Go, Call
<1>3. CASE Leave(t)
  BY <1>1, <1>3 DEF Leave, Return, Call, NoCall
<1>4. CASE Grant(t)
  BY <1>1, <1>4 DEF Grant, Goto, Call
<1>5. CASE Dequeue(t)
  BY <1>1, <1>5 DEF Dequeue, Goto, Go, Call
<1>6. CASE Recheck(t) \/ Position(t)
  BY <1>1, <1>6 DEF Recheck, Position, Return, Goto, Go, Call, NoCall
<1>7. CASE Stamp(t)
  BY <1>1, <1>7 DEF Stamp, Goto, Call
<1>8. CASE Enqueue(t)
  BY <1>1, <1>8 DEF Enqueue, Go, Call
<1> QED BY <1>2, <1>3, <1>4, <1>5, <1>6, <1>7, <1>8 DEF Continue

\* Where a thread may have come from.
LEMMA ThreadFrom ==
  ASSUME TypeInv, NEW t \in Threads, Continue(t), NEW u, u = call[t].user
  PROVE  /\ call'[t].pc = "leave" => call[t].pc = "ttl" /\ u \in active
         /\ call[t].pc = "ttl" /\ u \in active => call'[t].pc = "leave" /\ call'[t].op = call[t].op
         /\ call[t].pc = "grant" => Set(u)
         /\ call'[t].pc = "dequeue" => call[t].pc = "grant"
         /\ call'[t].pc = "position" => call[t].pc = "recheck" /\ u \notin active
         /\ call'[t].pc \in {"joinRoom", "joinEmpty", "stamp", "enqueue"} =>
              call[t].pc \in {"position", "joinRoom", "joinEmpty", "stamp"}
         /\ call'[t].pc = "grant" => UNCHANGED <<queue, ahead>> /\ (First(u) \/ NobodyWaiting)
<1> HIDE DEF InQueue
<1>1. call \in [Threads -> Call] /\ t \in DOMAIN call
  BY DEF TypeInv, TypeOK
<1>2. CASE ReadTTL(t)
  BY <1>1, <1>2 DEF ReadTTL, Goto, Call
<1>3. CASE Room(t) \/ Rank(t) \/ JoinRoom(t) \/ JoinEmpty(t) \/ Stamp(t)
  BY <1>1, <1>3 DEF Room, Rank, JoinRoom, JoinEmpty, Stamp, Goto, Go, Call
<1>4. CASE Grant(t) \/ Dequeue(t) \/ Enqueue(t)
  BY <1>1, <1>4 DEF Grant, Dequeue, Enqueue, Goto, Go, Call
<1>5. CASE Leave(t) \/ Recheck(t) \/ Position(t)
  BY <1>1, <1>5 DEF Leave, Recheck, Position, Return, NoCall, Goto, Go, Call
<1> QED BY <1>2, <1>3, <1>4, <1>5 DEF Continue

LEMMA ThreadTurn ==
  ASSUME TypeInv, TurnInv, NEW t \in Threads, Continue(t), NEW u, u = call[t].user
  PROVE  TurnInv'
<1>0. /\ queue \in Seq(Users) /\ OnceEach(queue) /\ Worker \notin Threads
      /\ pinned \in [Users -> SUBSET (Threads \cup {Worker})] /\ active \subseteq Users
      /\ \A x \in Threads : call[x].pc # "idle" => call[x].user \in Users
      /\ worker.pc \in {"drop", "grant", "dequeue"} => Head(worker.picks) \in Users
      /\ worker.picks \in Seq(Users) /\ ahead \in [Users -> SUBSET Users]
  <2>1. worker.pc \in {"drop", "grant", "dequeue"} => Head(worker.picks) \in Users
    BY HeadTailProperties DEF TypeInv, TypeOK, WorkerOK, Pass
  <2> QED BY <2>1, QueueAssumption DEF TypeInv, TypeOK, CallOK, OnceEach, Pass
<1> HIDE DEF InQueue
<1>1. /\ worker' = worker /\ call[t].pc # "idle" /\ u \in Users
      /\ \A x \in Threads \ {t} : call'[x] = call[x]
      /\ call'[t] = NoCall \/ call'[t].user = u
      /\ call[t].user = u
  BY ThreadMoves
<1>2. /\ \/ active' = active /\ pinned' = pinned
         \/ active' = active /\ pinned' = [v \in Users |-> pinned[v] \ {t}] /\ call'[t] = NoCall
         \/ call[t].pc = "grant" /\ Set(u) /\ call'[t].pc = "dequeue"
      /\ \/ /\ UNCHANGED <<queue, earlier, ahead>> /\ call'[t].pc # "enqueue"
            /\ call[t].pc \notin {"leave", "dequeue", "stamp", "enqueue"}
         \/ /\ queue' = queue /\ Notice(u) /\ call[t].pc = "stamp" /\ call'[t].pc = "enqueue"
            /\ Queued \subseteq earlier'[t]
            /\ \A s \in Threads \ {t} : earlier'[s] = earlier[s]
         \/ ZRem(u) /\ call[t].pc \in {"leave", "dequeue"} /\ call'[t].pc # "enqueue"
         \/ ZAdd(t, u) /\ call[t].pc = "enqueue" /\ call'[t].pc = "ttl" /\ call'[t].op = "status"
  BY ThreadMoves
<1>3. /\ call'[t].pc = "leave" => call[t].pc = "ttl" /\ u \in active
      /\ call[t].pc = "ttl" /\ u \in active => call'[t].pc = "leave" /\ call'[t].op = call[t].op
      /\ call[t].pc = "grant" => Set(u)
      /\ call'[t].pc = "dequeue" => call[t].pc = "grant"
      /\ call'[t].pc = "position" => call[t].pc = "recheck" /\ u \notin active
      /\ call'[t].pc \in {"joinRoom", "joinEmpty", "stamp", "enqueue"} =>
           call[t].pc \in {"position", "joinRoom", "joinEmpty", "stamp"}
      /\ call'[t].pc = "grant" => UNCHANGED <<queue, ahead>> /\ (First(u) \/ NobodyWaiting)
  BY ThreadFrom
<1>4. \A v \in Users : v \in active => v \in active'
  BY <1>2 DEF Set
<1>5. \A v \in Users, c \in (Threads \ {t}) \cup {Worker} : c \in pinned[v] /\ c \in Busy => c \in pinned'[v]
  BY <1>0, <1>1, <1>2 DEF Set
<1>6. t \in Busy
  BY <1>1 DEF Busy
<1>h. /\ \A v \in Users \ {u} : ahead'[v] \subseteq ahead[v]
      /\ call[t].pc # "stamp" => ahead'[u] \subseteq ahead[u]
      /\ call[t].pc = "stamp" => Notice(u) /\ queue' = queue
  <2>1. CASE call[t].pc = "stamp"
    <3>1. Notice(u) /\ queue' = queue
      BY <1>2, <2>1
    <3> QED BY <1>0, <1>1, <2>1, <3>1 DEF Notice
  <2>2. CASE ZRem(u) /\ call[t].pc # "stamp"
    BY <1>1, <2>2, AfterZRem
  <2>3. CASE ZAdd(t, u) /\ call[t].pc # "stamp"
    BY <1>1, <2>3, AfterZAdd
  <2> QED BY <1>2, <2>1, <2>2, <2>3
<1>7. OneCallEach'
  BY <1>1 DEF TurnInv, OneCallEach, NoCall
<1>8. ThreadPins'
  <2>1. ASSUME NEW x \in Threads \ {t}, call'[x].pc \in {"leave", "dequeue"}
        PROVE  call'[x].user \in active' /\ (call'[x].pc = "dequeue" => x \in pinned'[call'[x].user])
    <3>1. call'[x] = call[x] /\ x \in Busy /\ call[x].user \in Users
      BY <1>0, <1>1, <2>1 DEF Busy
    <3> QED BY <1>4, <1>5, <2>1, <3>1 DEF TurnInv, ThreadPins
  <2>2. call'[t].pc = "leave" => call'[t].user \in active'
    BY <1>1, <1>3, <1>4 DEF NoCall
  <2>3. call'[t].pc = "dequeue" => call'[t].user \in active' /\ t \in pinned'[call'[t].user]
    BY <1>0, <1>1, <1>3, <1>6 DEF NoCall, Set
  <2> QED BY <2>1, <2>2, <2>3 DEF ThreadPins
<1>9. WorkerPins'
  <2>1. worker.pc # "sleep" => Worker \in Busy
    BY DEF Busy
  <2>2. ASSUME worker.pc # "sleep", NEW v \in Users, pinned'[v] # {} PROVE Worker \in pinned'[v]
    <3>1. pinned[v] # {} => Worker \in pinned[v]
      BY <2>2 DEF TurnInv, WorkerPins
    <3> QED BY <1>0, <1>1, <1>2, <2>1, <2>2, <3>1 DEF Set
  <2> QED BY <1>0, <1>1, <1>4, <1>5, <2>1, <2>2 DEF TurnInv, WorkerPins
<1>10. LetInAndQueued'
  <2> SUFFICES ASSUME NEW v \in Users, v \in active', InQueue(v)'
               PROVE  \/ worker.pc = "dequeue" /\ Head(worker.picks) = v
                      \/ \E x \in Threads : TakesOff(x, v)'
    BY <1>1 DEF LetInAndQueued
  <2>1. CASE v = u /\ Set(u) /\ call'[t].pc = "dequeue"
    <3>1. call'[t].user = u /\ t \in pinned'[u]
      BY <1>0, <1>1, <1>6, <2>1 DEF Set, NoCall
    <3> QED BY <2>1, <3>1 DEF TakesOff
  <2>2. CASE v \in active /\ v = u /\ ZAdd(t, u) /\ call[t].pc = "enqueue" /\ call'[t].pc = "ttl" /\ call'[t].op = "status"
    <3>1. t \in pinned[u] /\ pinned' = pinned
      BY <1>1, <1>2, <2>2 DEF TurnInv, LetInMeanwhile, NoCall
    <3> QED BY <1>1, <2>2, <3>1 DEF TakesOff, NoCall
  <2>3. CASE v \in active /\ InQueue(v)
    <3>1. \/ worker.pc = "dequeue" /\ Head(worker.picks) = v
          \/ \E x \in Threads : TakesOff(x, v)
      BY <2>3 DEF TurnInv, LetInAndQueued
    <3>2. ASSUME NEW x \in Threads \ {t}, TakesOff(x, v) PROVE TakesOff(x, v)'
      <4>1. x \in Busy
        BY <3>2 DEF TakesOff, Busy
      <4> QED BY <1>1, <1>5, <3>2, <4>1 DEF TakesOff
    <3>3. CASE TakesOff(t, v)
      <4>1. v = u /\ t \in pinned[v]
        BY <1>1, <3>3 DEF TakesOff
      <4>2. CASE call[t].pc \in {"leave", "dequeue"}
        <5>1. ZRem(u)
          BY <1>2, <4>2
        <5>2. ~InQueue(u)'
          BY <5>1, AfterZRem
        <5> QED BY <4>1, <5>2
      <4>3. CASE call[t].op = "status" /\ call[t].pc = "ttl"
        <5>1. call'[t].pc = "leave" /\ call'[t].op = "status"
          BY <1>3, <2>3, <4>1, <4>3
        <5>2. pinned' = pinned
          BY <1>2, <4>3, <5>1 DEF NoCall
        <5> QED BY <1>1, <4>1, <5>1, <5>2 DEF TakesOff, NoCall
      <4> QED BY <3>3, <4>2, <4>3 DEF TakesOff
    <3> QED BY <3>1, <3>2, <3>3
  <2>4. v \in active \/ (v = u /\ Set(u) /\ call'[t].pc = "dequeue")
    BY <1>2 DEF Set
  <2>5. \/ InQueue(v)
        \/ v = u /\ ZAdd(t, u) /\ call[t].pc = "enqueue" /\ call'[t].pc = "ttl" /\ call'[t].op = "status"
    BY <1>1, <1>2, AfterZRem, AfterZAdd DEF InQueue
  <2> QED BY <2>1, <2>2, <2>3, <2>4, <2>5
<1>11. LetInMeanwhile'
  <2> SUFFICES ASSUME NEW x \in Threads, call'[x].user \in active',
                      call'[x].pc \in {"position", "joinRoom", "joinEmpty", "stamp", "enqueue"}
               PROVE  x \in pinned'[call'[x].user]
    BY DEF LetInMeanwhile
  <2>1. CASE x # t
    <3>1. call'[x] = call[x] /\ x \in Busy /\ call[x].user # u /\ call[x].user \in Users
      BY <1>0, <1>1, <2>1 DEF TurnInv, OneCallEach, Busy
    <3>2. call[x].user \in active
      BY <1>2, <3>1 DEF Set
    <3> QED BY <1>5, <2>1, <3>1, <3>2 DEF TurnInv, LetInMeanwhile
  <2>2. CASE x = t
    <3>1. call'[t].user = u /\ active' = active /\ pinned' = pinned
      BY <1>1, <1>2, <2>2 DEF NoCall
    <3> QED BY <1>1, <1>3, <2>2, <3>1 DEF TurnInv, LetInMeanwhile
  <2> QED BY <2>1, <2>2
<1>12. GrantsFirst'
  <2> SUFFICES ASSUME NEW x \in Threads, call'[x].pc = "grant", NEW v, v = call'[x].user
               PROVE  ahead'[v] = {}
    BY DEF GrantsFirst
  <2>1. CASE x # t
    <3>1. call'[x] = call[x] /\ v \in Users \ {u}
      BY <1>0, <1>1, <2>1 DEF TurnInv, OneCallEach
    <3> QED BY <1>h, <3>1 DEF TurnInv, GrantsFirst
  <2>2. CASE x = t
    <3>1. v = u /\ UNCHANGED <<queue, ahead>> /\ (First(u) \/ NobodyWaiting)
      BY <1>1, <1>3, <2>2 DEF NoCall
    <3> SUFFICES ASSUME NEW w \in ahead[u] PROVE FALSE
      BY <3>1
    <3>2. InQueue(w) /\ (InQueue(u) => Ahead(w, u))
      BY <1>1 DEF TurnInv, WaitsBehind
    <3>3. /\ Len(queue) \in Nat /\ queue # <<>>
          /\ 1 \in 1..Len(queue) /\ Head(queue) = queue[1]
      BY <1>0, <3>2, LenProperties, EmptySeq, HeadTailProperties DEF InQueue
    <3>4. queue[1] = u
      BY <3>1, <3>3 DEF First, NobodyWaiting
    <3>5. Ahead(w, u)
      BY <3>2, <3>3, <3>4 DEF InQueue
    <3>6. PICK i, j \in 1..Len(queue) : i < j /\ queue[j] = u
      BY <3>5 DEF Ahead
    <3>7. j = 1
      BY <1>0, <3>3, <3>4, <3>6 DEF OnceEach
    <3> QED BY <3>3, <3>6, <3>7
  <2> QED BY <2>1, <2>2
<1>13. PicksInTurn'
  <2> SUFFICES ASSUME worker.pc \in {"each", "drop", "grant", "dequeue"},
                      NEW i \in 1..Len(worker.picks), NEW first,
                      first = {worker.picks[j] : j \in 1..(i - 1)},
                      NEW v, v = worker.picks[i]
               PROVE  Stays(v)' \/ InTurn(v, first)'
    BY <1>1 DEF TurnInv, PicksInTurn
  <2>1. Worker \in Busy /\ v \in Users
    BY <1>0, ElementOfSeq DEF Busy
  <2>2. CASE Stays(v)
    BY <1>4, <1>5, <2>1, <2>2 DEF Stays
  <2>3. CASE InTurn(v, first) /\ ~Stays(v)
    <3>1. InQueue(v) /\ ahead[v] \subseteq first
      BY <2>3 DEF InTurn
    <3>2. ahead'[v] \subseteq ahead[v]
      <4>1. CASE call[t].pc = "stamp" /\ v = u
        BY <1>h, <3>1, <4>1 DEF Notice
      <4> QED BY <1>h, <2>1, <4>1
    <3>3. InQueue(v)'
      <4>1. CASE ZRem(u) /\ call[t].pc \in {"leave", "dequeue"}
        <5>1. v # u
          <6> SUFFICES ASSUME v = u PROVE FALSE
            OBVIOUS
          <6>1. v \in active
            BY <1>1, <4>1 DEF TurnInv, ThreadPins
          <6>2. pinned[v] # {}
            BY <2>1, <3>1, <6>1 DEF TurnInv, LetInAndQueued, WorkerPins, TakesOff
          <6> QED BY <2>1, <2>3, <6>1, <6>2 DEF TurnInv, WorkerPins, Stays
        <5> QED BY <3>1, <4>1, <5>1, AfterZRem
      <4>2. CASE ZAdd(t, u)
        BY <1>1, <3>1, <4>2, AfterZAdd
      <4>3. CASE queue' = queue
        BY <3>1, <4>3 DEF InQueue
      <4> QED BY <1>2, <4>1, <4>2, <4>3
    <3> QED BY <3>1, <3>2, <3>3 DEF InTurn
  <2> QED BY <2>2, <2>3 DEF TurnInv, PicksInTurn
<1>14. WaitsBehind'
  <2> SUFFICES ASSUME NEW v \in Users, NEW x \in ahead'[v]
               PROVE  x # v /\ InQueue(x)' /\ (InQueue(v)' => Ahead(x, v)')
    BY DEF WaitsBehind
  <2>1. CASE queue' = queue /\ x \in ahead[v]
    BY <2>1 DEF TurnInv, WaitsBehind, InQueue, Ahead
  <2>2. CASE queue' = queue /\ x \notin ahead[v]
    <3>1. Notice(u) /\ ~InQueue(u) /\ v = u /\ x \in Queued
      BY <1>0, <1>1, <1>h, <2>2 DEF Notice
    <3>2. InQueue(x)
      BY <3>1 DEF Queued, InQueue
    <3> QED BY <2>2, <3>1, <3>2 DEF InQueue
  <2>3. CASE ZRem(u)
    <3>1. x \in ahead[v] /\ x # u
      BY <2>3, AfterZRem
    <3>2. x # v /\ InQueue(x) /\ (InQueue(v) => Ahead(x, v))
      BY <3>1 DEF TurnInv, WaitsBehind
    <3> QED BY <2>3, <3>1, <3>2, AfterZRem
  <2>4. CASE ZAdd(t, u) /\ call[t].pc = "enqueue"
    <3>1. x \in ahead[v]
      BY <1>1, <2>4, AfterZAdd
    <3>2. x # v /\ InQueue(x) /\ (InQueue(v) => Ahead(x, v))
      BY <3>1 DEF TurnInv, WaitsBehind
    <3>3. v = u /\ ~InQueue(u) => Ahead(x, u)'
      <4>1. ahead[u] \subseteq earlier[t]
        BY <1>1, <2>4 DEF TurnInv, StampedLater
      <4> QED BY <1>1, <2>4, <3>1, <3>2, <4>1, AfterZAdd
    <3> QED BY <1>1, <2>4, <3>2, <3>3, AfterZAdd
  <2> QED BY <1>2, <2>1, <2>2, <2>3, <2>4
<1>15. StampedLater'
  <2> SUFFICES ASSUME NEW x \in Threads, call'[x].pc = "enqueue", NEW v, v = call'[x].user
               PROVE  ahead'[v] \subseteq earlier'[x]
    BY DEF StampedLater
  <2>1. CASE x # t
    <3>1. call'[x] = call[x] /\ v \in Users \ {u} /\ ahead[v] \subseteq earlier[x]
      BY <1>0, <1>1, <2>1 DEF TurnInv, OneCallEach, StampedLater
    <3>2. ahead'[v] \subseteq ahead[v] /\ ahead[v] \subseteq Users
      BY <1>0, <1>h, <3>1
    <3>3. CASE ZRem(u)
      BY <3>1, <3>3, AfterZRem
    <3>4. CASE ZAdd(t, u)
      BY <1>1, <2>1, <3>1, <3>2, <3>4, AfterZAdd
    <3> QED BY <1>2, <2>1, <3>1, <3>2, <3>3, <3>4
  <2>2. CASE x = t
    <3>1. v = u /\ Notice(u) /\ Queued \subseteq earlier'[t]
      BY <1>1, <1>2, <2>2 DEF NoCall
    <3>2. ahead'[u] \subseteq Queued
      <4>1. ahead[u] \subseteq Queued
        BY <1>1 DEF TurnInv, WaitsBehind, InQueue, Queued
      <4> QED BY <1>0, <1>1, <3>1, <4>1 DEF Notice
    <3> QED BY <2>2, <3>1, <3>2
  <2> QED BY <2>1, <2>2
<1> QED BY <1>7, <1>8, <1>9, <1>10, <1>11, <1>12, <1>13, <1>14, <1>15 DEF TurnInv

\* What a step of the worker does to each variable; h is the pick it works on.
LEMMA WorkerMoves ==
  ASSUME TypeInv, Work, NEW h, h = Head(worker.picks)
  PROVE  /\ call' = call
         /\ \/ /\ worker' = Asleep /\ pinned' = [v \in Users |-> pinned[v] \ {Worker}]
               /\ active' = active
               /\ \/ worker.pc = "each" /\ UNCHANGED <<queue, earlier, ahead>>
                  \/ worker.pc = "dequeue" /\ ZRem(h)
            \/ /\ worker.pc = "sleep" /\ worker'.pc = "range" /\ UNCHANGED <<queue, earlier, ahead>> /\ active' = active
               /\ pinned' = [v \in Users |-> IF pinned[v] = {} THEN {} ELSE pinned[v] \cup {Worker}]
            \/ /\ worker.pc = "range" /\ worker'.pc = "each"
               /\ worker'.picks = SubSeq(queue, 1, Least(worker.free, Len(queue)))
               /\ UNCHANGED <<queue, earlier, ahead>> /\ active' = active /\ pinned' = pinned
            \/ /\ worker.pc = "each" /\ worker'.pc = (IF h \in active THEN "drop" ELSE "grant")
               /\ worker'.picks = worker.picks
               /\ UNCHANGED <<queue, earlier, ahead>> /\ active' = active /\ pinned' = pinned
            \/ /\ worker.pc = "grant" /\ worker'.pc = "dequeue" /\ worker'.picks = worker.picks
               /\ UNCHANGED <<queue, earlier, ahead>> /\ Set(h)
            \/ /\ worker.pc \in {"drop", "dequeue"} /\ worker'.pc = "each" /\ worker'.picks = Tail(worker.picks)
               /\ ZRem(h) /\ active' = active /\ pinned' = pinned
<1> HIDE DEF InQueue
<1>0. worker \in Pass
  BY DEF TypeInv, TypeOK
<1> DEFINE Moved(pc, free, picks, promoted) ==
             [pc |-> pc, free |-> free, picks |-> picks, promoted |-> promoted]
<1>1. CASE WorkerCount
  <2>1. worker' = Moved("range", FreeSlots, worker.picks, worker.promoted)
    BY <1>0, <1>1 DEF WorkerCount, Pass
  <2> QED BY <1>1, <2>1 DEF WorkerCount
<1>2. CASE WorkerRange
  <2> DEFINE picks == SubSeq(queue, 1, Least(worker.free, Len(queue)))
  <2> HIDE DEF picks
  <2>1. worker' = Moved("each", worker.free, picks, worker.promoted)
    BY <1>0, <1>2 DEF WorkerRange, Pass, picks
  <2> QED BY <1>2, <2>1 DEF WorkerRange, picks
<1>3. CASE WorkerEach
  <2>1. CASE Sleep
    BY <1>3, <2>1 DEF WorkerEach, Sleep
  <2>2. CASE ~Sleep
    <3>1. worker' = Moved(IF h \in active THEN "drop" ELSE "grant", worker.free, worker.picks, worker.promoted)
      BY <1>0, <1>3, <2>2 DEF WorkerEach, Pass
    <3> QED BY <1>3, <2>2, <3>1 DEF WorkerEach
  <2> QED BY <2>1, <2>2
<1>4. CASE WorkerDrop
  <2>1. worker' = Moved("each", worker.free, Tail(worker.picks), worker.promoted)
    BY <1>0, <1>4 DEF WorkerDrop, Pass
  <2> QED BY <1>4, <2>1 DEF WorkerDrop
<1>5. CASE WorkerGrant
  <2>1. worker' = Moved("dequeue", worker.free, worker.picks, worker.promoted)
    BY <1>0, <1>5 DEF WorkerGrant, Pass
  <2> QED BY <1>5, <2>1 DEF WorkerGrant
<1>6. CASE WorkerDequeue
  <2>1. CASE Sleep
    BY <1>6, <2>1 DEF WorkerDequeue, Sleep
  <2>2. CASE ~Sleep
    <3>1. worker' = Moved("each", worker.free, Tail(worker.picks), worker.promoted + 1)
      BY <1>0, <1>6, <2>2 DEF WorkerDequeue, Pass
    <3> QED BY <1>6, <2>2, <3>1 DEF WorkerDequeue
  <2> QED BY <2>1, <2>2
<1> QED BY <1>1, <1>2, <1>3, <1>4, <1>5, <1>6 DEF Work

\* The worker takes the first of the queue.
LEMMA PicksAreFirst ==
  ASSUME TypeInv, WaitsBehind, worker.free > 0, NEW picks, picks = SubSeq(queue, 1, Least(worker.free, Len(queue)))
  PROVE  /\ OnceEach(picks)
         /\ \A i \in 1..Len(picks) : InTurn(picks[i], {picks[j] : j \in 1..(i - 1)})
<1>1. queue \in Seq(Users) /\ worker.free \in Int
  BY DEF TypeInv, TypeOK, Pass
<1> DEFINE m == Len(queue)
           n == Least(worker.free, m)
<1>2. n \in Nat /\ n <= m /\ m \in Nat
  BY <1>1, LenProperties DEF Least
<1>3. \A i, j \in 1..m : queue[i] = queue[j] => i = j
  BY DEF TypeInv, TypeOK
<1> HIDE DEF m, n
<1>4. Len(picks) = n /\ \A i \in 1..n : picks[i] = queue[i]
  <2>1. \A i \in 1..n : queue[i] \in Users
    BY <1>1, <1>2, ElementOfSeq DEF m
  <2> QED BY <1>2, <2>1, SubSeqProperties DEF m, n
<1>5. \A i \in 1..n : i \in 1..m
  BY <1>2
<1>6. OnceEach(picks)
  <2>1. ASSUME NEW i \in 1..n, NEW j \in 1..n, picks[i] = picks[j] PROVE i = j
    BY <1>3, <1>4, <1>5, <2>1
  <2> QED BY <1>4, <2>1 DEF OnceEach
<1>7. ASSUME NEW i \in 1..n PROVE InTurn(picks[i], {picks[j] : j \in 1..(i - 1)})
  <2>1. InQueue(picks[i])
    BY <1>4, <1>5 DEF m
  <2>v. picks[i] \in Users
    BY <1>1, <1>4, <1>5, ElementOfSeq DEF m
  <2>2. ASSUME NEW x \in ahead[picks[i]] PROVE x \in {picks[j] : j \in 1..(i - 1)}
    <3>1. PICK k, l \in 1..m : k < l /\ queue[k] = x /\ queue[l] = picks[i]
      <4>1. Ahead(x, picks[i])
        BY <2>1, <2>2, <2>v DEF WaitsBehind
      <4> QED BY <4>1 DEF Ahead, m
    <3>2. l = i
      BY <1>3, <1>4, <1>5, <3>1
    <3>3. k \in 1..(i - 1) /\ k \in 1..n
      BY <1>2, <3>1, <3>2
    <3> QED BY <1>4, <3>1, <3>3
  <2> HIDE DEF InQueue
  <2> QED BY <2>1, <2>2 DEF InTurn
<1> QED BY <1>4, <1>6, <1>7

LEMMA WorkTurn == ASSUME TypeInv, TurnInv, Work, NEW h, h = Head(worker.picks) PROVE TurnInv'
<1>0. /\ Worker \notin Threads /\ active \subseteq Users
      /\ pinned \in [Users -> SUBSET (Threads \cup {Worker})]
      /\ \A x \in Threads : call[x].pc # "idle" => call[x].user \in Users
      /\ worker.pc \in {"drop", "grant", "dequeue"} => h \in Users /\ worker.picks # <<>>
      /\ worker.picks \in Seq(Users) /\ ahead \in [Users -> SUBSET Users]
      /\ worker.pc # "sleep" => worker.free > 0
  <2>1. worker.pc \in {"drop", "grant", "dequeue"} => h \in Users
    BY HeadTailProperties DEF TypeInv, TypeOK, WorkerOK, Pass
  <2> QED BY <2>1, QueueAssumption DEF TypeInv, TypeOK, CallOK, WorkerOK, Pass
<1> HIDE DEF InQueue
<1>1. call' = call
  BY WorkerMoves
<1>2. \/ /\ worker' = Asleep /\ pinned' = [v \in Users |-> pinned[v] \ {Worker}] /\ active' = active
         /\ \/ worker.pc = "each" /\ UNCHANGED <<queue, earlier, ahead>>
            \/ worker.pc = "dequeue" /\ ZRem(h)
      \/ /\ worker.pc = "sleep" /\ worker'.pc = "range" /\ UNCHANGED <<queue, earlier, ahead>> /\ active' = active
         /\ pinned' = [v \in Users |-> IF pinned[v] = {} THEN {} ELSE pinned[v] \cup {Worker}]
      \/ /\ worker.pc = "range" /\ worker'.pc = "each"
         /\ worker'.picks = SubSeq(queue, 1, Least(worker.free, Len(queue)))
         /\ UNCHANGED <<queue, earlier, ahead>> /\ active' = active /\ pinned' = pinned
      \/ /\ worker.pc = "each" /\ worker'.pc = (IF h \in active THEN "drop" ELSE "grant")
         /\ worker'.picks = worker.picks
         /\ UNCHANGED <<queue, earlier, ahead>> /\ active' = active /\ pinned' = pinned
      \/ /\ worker.pc = "grant" /\ worker'.pc = "dequeue" /\ worker'.picks = worker.picks
         /\ UNCHANGED <<queue, earlier, ahead>> /\ Set(h)
      \/ /\ worker.pc \in {"drop", "dequeue"} /\ worker'.pc = "each" /\ worker'.picks = Tail(worker.picks)
         /\ ZRem(h) /\ active' = active /\ pinned' = pinned
  BY WorkerMoves
<1>3. /\ \A v : v \in active => v \in active'
      /\ \A v \in active' : v \in active \/ (v = h /\ worker.pc = "grant" /\ Set(h))
  BY <1>2 DEF Set
<1>4. \A v \in Users, x \in Threads : x \in pinned[v] /\ call[x].pc # "idle" => x \in pinned'[v]
  BY <1>0, <1>2 DEF Set, Busy
<1>5. OneCallEach'
  BY <1>1 DEF TurnInv, OneCallEach
<1>6. ThreadPins'
  BY <1>0, <1>1, <1>3, <1>4 DEF TurnInv, ThreadPins
<1>7. WorkerPins'
  <2>1. Asleep.pc = "sleep"
    BY DEF Asleep
  <2>2. worker'.pc \in {"drop", "dequeue"} => Head(worker'.picks) \in active'
    BY <1>2, <1>3, <2>1 DEF Set
  <2>3. worker'.pc = "dequeue" => Worker \in pinned'[Head(worker'.picks)]
    BY <1>0, <1>2, <2>1 DEF Set, Busy
  <2>4. ASSUME worker'.pc # "sleep", NEW v \in Users, pinned'[v] # {} PROVE Worker \in pinned'[v]
    <3>1. worker.pc # "sleep" /\ pinned[v] # {} => Worker \in pinned[v]
      BY DEF TurnInv, WorkerPins
    <3> QED BY <1>0, <1>2, <2>1, <2>4, <3>1 DEF Set, Busy
  <2> QED BY <2>2, <2>3, <2>4 DEF WorkerPins
<1>8. LetInAndQueued'
  <2> SUFFICES ASSUME NEW v \in Users, v \in active', InQueue(v)'
               PROVE  \/ worker'.pc = "dequeue" /\ Head(worker'.picks) = v
                      \/ \E x \in Threads : TakesOff(x, v)'
    BY DEF LetInAndQueued
  <2>1. InQueue(v) /\ (ZRem(h) => v # h)
    BY <1>2, AfterZRem DEF InQueue
  <2>2. CASE v \notin active
    BY <1>2, <1>3, <2>2 DEF Set
  <2>3. CASE v \in active /\ \E x \in Threads : TakesOff(x, v)
    BY <1>1, <1>4, <2>3 DEF TakesOff
  <2>4. CASE worker.pc = "dequeue" /\ h = v
    BY <1>2, <2>1, <2>4
  <2> QED BY <2>1, <2>2, <2>3, <2>4 DEF TurnInv, LetInAndQueued
<1>9. LetInMeanwhile'
  <2> SUFFICES ASSUME NEW x \in Threads, call[x].user \in active',
                      call[x].pc \in {"position", "joinRoom", "joinEmpty", "stamp", "enqueue"}
               PROVE  x \in pinned'[call[x].user]
    BY <1>1 DEF LetInMeanwhile
  <2>1. CASE call[x].user \in active
    BY <1>0, <1>4, <2>1 DEF TurnInv, LetInMeanwhile
  <2>2. CASE call[x].user \notin active
    BY <1>0, <1>3, <2>2 DEF Set, Busy
  <2> QED BY <2>1, <2>2
<1>10. UNCHANGED <<queue, earlier, ahead>> \/ ZRem(h)
  BY <1>2
<1>11. \A v \in Users : ahead'[v] \subseteq ahead[v]
  BY <1>10, AfterZRem
<1>g. GrantsFirst'
  BY <1>0, <1>1, <1>11 DEF TurnInv, GrantsFirst
<1>w. WaitsBehind'
  <2> SUFFICES ASSUME NEW v \in Users, NEW x \in ahead'[v]
               PROVE  x # v /\ InQueue(x)' /\ (InQueue(v)' => Ahead(x, v)')
    BY DEF WaitsBehind
  <2>1. x \in ahead[v] /\ x # v /\ InQueue(x) /\ (InQueue(v) => Ahead(x, v))
    BY <1>11 DEF TurnInv, WaitsBehind
  <2>2. CASE queue' = queue
    BY <2>1, <2>2 DEF InQueue, Ahead
  <2>3. CASE ZRem(h)
    <3>1. x # h
      BY <2>3, AfterZRem
    <3> QED BY <2>1, <2>3, <3>1, AfterZRem
  <2> QED BY <1>10, <2>2, <2>3
<1>s. StampedLater'
  <2> SUFFICES ASSUME NEW x \in Threads, call[x].pc = "enqueue"
               PROVE  ahead'[call[x].user] \subseteq earlier'[x]
    BY <1>1 DEF StampedLater
  <2>1. ahead[call[x].user] \subseteq earlier[x] /\ call[x].user \in Users
    BY <1>0 DEF TurnInv, StampedLater
  <2> QED BY <1>10, <2>1, AfterZRem
<1>12. PicksInTurn'
  <2> DEFINE picks == worker.picks
             before(i) == {worker.picks[j] : j \in 1..(i - 1)}
  <2>0. CASE worker'.pc \notin {"each", "drop", "grant", "dequeue"}
    BY <2>0 DEF PicksInTurn
  <2>1. CASE worker.pc = "range" /\ worker'.pc = "each"
    <3>1. /\ UNCHANGED <<queue, ahead>>
          /\ worker'.picks = SubSeq(queue, 1, Least(worker.free, Len(queue)))
      BY <1>2, <2>1 DEF Asleep
    <3>2. /\ OnceEach(worker'.picks)
          /\ \A i \in 1..Len(worker'.picks) :
               InTurn(worker'.picks[i], {worker'.picks[j] : j \in 1..(i - 1)})
      <4>1. WaitsBehind
        BY DEF TurnInv
      <4> QED BY <1>0, <2>1, <3>1, <4>1, PicksAreFirst
    <3> QED BY <3>1, <3>2 DEF PicksInTurn, InTurn, InQueue
  <2>2. ASSUME NEW v \in Users, Stays(v), worker'.pc # "sleep", worker.pc # "sleep" PROVE Stays(v)'
    BY <1>0, <1>2, <2>2 DEF Stays, Set, Busy, Asleep
  <2>3. CASE worker.pc \in {"each", "grant"} /\ worker'.pc # "sleep"
    <3>1. worker'.picks = picks /\ UNCHANGED <<queue, ahead>>
      BY <1>2, <2>3 DEF Asleep
    <3>2. ASSUME NEW i \in 1..Len(picks), NEW v, v = picks[i] PROVE Stays(v)' \/ InTurn(v, before(i))
      <4>1. v \in Users
        BY <1>0, <3>2, ElementOfSeq
      <4> QED BY <2>2, <2>3, <3>2, <4>1 DEF TurnInv, PicksInTurn
    <3>3. \A v, first : InTurn(v, first)' <=> InTurn(v, first)
      BY <3>1 DEF InTurn, InQueue
    <3>4. OnceEach(picks)
      BY <2>3 DEF TurnInv, PicksInTurn
    <3> QED BY <3>1, <3>2, <3>3, <3>4 DEF PicksInTurn, OnceEach
  <2>4. CASE worker.pc \in {"drop", "dequeue"} /\ worker'.pc = "each"
    <3>1. worker'.picks = Tail(picks) /\ ZRem(h)
      BY <1>2, <2>4 DEF Asleep
    <3> DEFINE n == Len(picks)
               rest == Tail(picks)
    <3>2. /\ n \in Nat /\ picks[1] = h /\ Len(rest) = n - 1 /\ n >= 1
          /\ \A i \in 1..(n - 1) : rest[i] = picks[i + 1]
      BY <1>0, <2>4, HeadTailProperties, LenProperties
    <3>3. OnceEach(picks)
      BY <2>4 DEF TurnInv, PicksInTurn
    <3>4. ASSUME NEW i \in 1..(n - 1), NEW v, v = rest[i]
          PROVE  Stays(v)' \/ \E first : first = {rest[j] : j \in 1..(i - 1)} /\ InTurn(v, first)'
      <4>1. i + 1 \in 1..n /\ v = picks[i + 1] /\ v \in Users
        <5>1. i + 1 \in 1..n
          BY <3>2
        <5> QED BY <1>0, <3>2, <3>4, <5>1, ElementOfSeq
      <4>2. v # h
        BY <3>2, <3>3, <4>1 DEF OnceEach
      <4>3. CASE Stays(v)
        BY <2>2, <2>4, <4>1, <4>3
      <4>4. CASE InTurn(v, before(i + 1))
        <5>1. InQueue(v)'
          BY <3>1, <4>2, <4>4, AfterZRem DEF InTurn
        <5>2. ASSUME NEW x \in ahead'[v] PROVE x \in {rest[j] : j \in 1..(i - 1)}
          <6>1. x # h /\ x \in before(i + 1)
            BY <3>1, <4>1, <4>4, <5>2, AfterZRem DEF InTurn
          <6>2. PICK j \in 1..i : picks[j] = x
            BY <3>2, <6>1
          <6>3. j - 1 \in 1..(i - 1) /\ rest[j - 1] = x
            BY <3>2, <6>1, <6>2
          <6> QED BY <6>3
        <5> QED BY <5>1, <5>2 DEF InTurn
      <4> QED BY <2>4, <4>1, <4>3, <4>4 DEF TurnInv, PicksInTurn
    <3>5. OnceEach(rest)
      <4>1. \A i \in 1..(n - 1) : i + 1 \in 1..n
        BY <3>2
      <4> HIDE DEF n, rest
      <4>2. ASSUME NEW i \in 1..(n - 1), NEW j \in 1..(n - 1), rest[i] = rest[j] PROVE i = j
        <5>1. i + 1 \in 1..n /\ j + 1 \in 1..n /\ picks[i + 1] = picks[j + 1]
          BY <3>2, <4>1, <4>2
        <5>2. i + 1 = j + 1
          BY <3>3, <5>1 DEF OnceEach, n
        <5> QED BY <3>2, <5>2
      <4> QED BY <3>2, <4>2 DEF OnceEach
    <3> DEFINE next == worker'.picks
    <3>6. OnceEach(next)
      BY <3>1, <3>5
    <3>7. ASSUME NEW i \in 1..Len(next), NEW v, v = next[i], NEW first,
                 first = {next[j] : j \in 1..(i - 1)}
          PROVE  Stays(v)' \/ InTurn(v, first)'
      <4> HIDE DEF rest, n, next
      <4>1. next = rest /\ i \in 1..(n - 1)
        BY <3>1, <3>2 DEF rest, next
      <4> QED BY <3>4, <3>7, <4>1
    <3>8. ASSUME NEW i \in 1..Len(next)
          PROVE  \/ next[i] \in active' /\ Worker \in pinned'[next[i]]
                 \/ /\ \E k \in 1..Len(queue') : queue'[k] = next[i]
                    /\ ahead'[next[i]] \subseteq {next[j] : j \in 1..(i - 1)}
      <4>1. PICK v, first : v = next[i] /\ first = {next[j] : j \in 1..(i - 1)}
        OBVIOUS
      <4>2. Stays(v)' \/ InTurn(v, first)'
        BY <3>7, <4>1
      <4> HIDE DEF next
      <4> QED BY <4>1, <4>2 DEF Stays, InTurn, InQueue
    <3> QED BY <3>6, <3>8 DEF PicksInTurn, OnceEach, Stays, InTurn, InQueue
  <2> QED BY <1>2, <2>0, <2>1, <2>3, <2>4 DEF Asleep
<1> QED BY <1>5, <1>6, <1>7, <1>8, <1>9, <1>12, <1>g, <1>w, <1>s DEF TurnInv

LEMMA TurnStep == ASSUME OneTab, TypeInv, TurnInv, [Next]_vars PROVE TurnInv'
<1>0. /\ Worker \notin Threads
      /\ worker.pc \in {"drop", "grant", "dequeue"} => Head(worker.picks) \in Users
      /\ \A x \in Threads : call[x].pc # "idle" => call[x].user \in Users
      /\ pinned \in [Users -> SUBSET (Threads \cup {Worker})] /\ call \in [Threads -> Call]
      /\ ahead \in [Users -> SUBSET Users]
  <2>1. worker.pc \in {"drop", "grant", "dequeue"} => Head(worker.picks) \in Users
    BY HeadTailProperties DEF TypeInv, TypeOK, WorkerOK, Pass
  <2> QED BY <2>1, QueueAssumption DEF TypeInv, TypeOK, CallOK
<1> HIDE DEF InQueue
<1>1. ASSUME NEW t \in Threads, NEW u \in Users, NEW op \in {"status", "join"}, Begin(t, u, op) PROVE TurnInv'
  <2>1. /\ call[t].pc = "idle" /\ \A x \in Threads : call[x].user # u
        /\ call'[t].pc = "ttl" /\ call'[t].user = u
        /\ \A x \in Threads : call[x].pc # "idle" => call'[x] = call[x]
        /\ \A x \in Threads \ {t} : call'[x] = call[x]
        /\ UNCHANGED <<queue, active, worker, earlier, pinned>>
    BY <1>0, <1>1 DEF Begin, Call
  <2>h. /\ \A v \in Users : v # u => ahead'[v] = ahead[v]
        /\ InQueue(u) => ahead' = ahead
        /\ ahead'[u] \subseteq ahead[u] \cup Queued
    BY <1>0, <1>1 DEF Begin, Notice
  <2>2. OneCallEach' /\ ThreadPins' /\ LetInMeanwhile'
    BY <2>1 DEF TurnInv, OneCallEach, ThreadPins, LetInMeanwhile
  <2>3. WorkerPins' /\ PicksInTurn'
    <3>1. WorkerPins'
      BY <2>1 DEF TurnInv, WorkerPins
    <3> SUFFICES ASSUME worker.pc \in {"each", "drop", "grant", "dequeue"}, NEW i \in 1..Len(worker.picks),
                        NEW v, v = worker.picks[i], NEW first,
                        first = {worker.picks[j] : j \in 1..(i - 1)}
                 PROVE  Stays(v)' \/ InTurn(v, first)'
      BY <2>1, <3>1 DEF TurnInv, PicksInTurn
    <3>2. v \in Users
      BY ElementOfSeq DEF TypeInv, TypeOK, Pass
    <3>3. CASE Stays(v)
      BY <2>1, <3>3 DEF Stays
    <3>4. CASE InTurn(v, first)
      BY <2>1, <2>h, <3>2, <3>4 DEF InTurn, InQueue
    <3> QED BY <3>3, <3>4 DEF TurnInv, PicksInTurn
  <2>4. LetInAndQueued'
    <3>1. \A v \in Users, x \in Threads : TakesOff(x, v) => TakesOff(x, v)'
      BY <2>1 DEF TakesOff
    <3> QED BY <2>1, <3>1 DEF TurnInv, LetInAndQueued, InQueue
  <2>5. GrantsFirst' /\ StampedLater'
    <3>1. ASSUME NEW x \in Threads, call'[x].pc \in {"grant", "enqueue"}
          PROVE  /\ call'[x] = call[x] /\ ahead'[call[x].user] = ahead[call[x].user]
                 /\ earlier'[x] = earlier[x]
      <4>1. x # t /\ call'[x] = call[x] /\ call[x].user # u /\ call[x].user \in Users
        BY <1>0, <2>1, <3>1
      <4> QED BY <2>1, <2>h, <4>1
    <3> QED BY <3>1 DEF TurnInv, GrantsFirst, StampedLater
  <2>6. WaitsBehind'
    <3> SUFFICES ASSUME NEW v \in Users, NEW x \in ahead'[v]
                 PROVE  x # v /\ InQueue(x)' /\ (InQueue(v)' => Ahead(x, v)')
      BY DEF WaitsBehind
    <3>1. CASE x \in ahead[v]
      BY <2>1, <3>1 DEF TurnInv, WaitsBehind, InQueue, Ahead
    <3>2. CASE x \notin ahead[v]
      <4>1. v = u /\ ~InQueue(u) /\ x \in Queued
        BY <2>h, <3>2
      <4>2. InQueue(x)
        BY <4>1 DEF Queued, InQueue
      <4> QED BY <2>1, <4>1, <4>2 DEF InQueue
    <3> QED BY <3>1, <3>2
  <2> QED BY <2>2, <2>3, <2>4, <2>5, <2>6 DEF TurnInv
<1>2. ASSUME NEW u \in Users, Expire(u) \/ CheckoutEnds(u) PROVE TurnInv'
  <2>1. /\ UNCHANGED <<queue, call, worker, earlier, ahead>> /\ active' = active \ {u}
        /\ \A v \in Users : v # u => pinned'[v] = pinned[v]
        /\ pinned'[u] \subseteq pinned[u] /\ pinned'[u] = {}
        /\ \A t \in Threads : call[t].pc = "dequeue" => call[t].user # u
        /\ \A t \in Threads : call[t].pc = "leave" => call[t].user # u
        /\ worker.pc \in {"drop", "dequeue"} => Head(worker.picks) # u
        /\ ~Stays(u) \/ worker.pc = "sleep"
    <3>1. CASE Expire(u)
      BY <1>0, <3>1 DEF Expire, SeenAlive, TurnInv, ThreadPins, WorkerPins, Stays
    <3>2. CASE CheckoutEnds(u)
      BY <1>0, <3>2 DEF CheckoutEnds
    <3> QED BY <1>2, <3>1, <3>2
  <2>2. OneCallEach' /\ GrantsFirst' /\ WaitsBehind' /\ StampedLater'
    BY <2>1 DEF TurnInv, OneCallEach, GrantsFirst, WaitsBehind, StampedLater, Ahead, InQueue
  <2>3. ThreadPins'
    BY <1>0, <2>1 DEF TurnInv, ThreadPins
  <2>4. WorkerPins'
    BY <1>0, <2>1 DEF TurnInv, WorkerPins
  <2>5. LetInMeanwhile'
    BY <1>0, <2>1 DEF TurnInv, LetInMeanwhile
  <2>6. LetInAndQueued'
    <3>1. \A v \in Users, x \in Threads : v # u /\ TakesOff(x, v) => TakesOff(x, v)'
      BY <2>1 DEF TakesOff
    <3> QED BY <2>1, <3>1 DEF TurnInv, LetInAndQueued, InQueue
  <2>7. PicksInTurn'
    <3> SUFFICES ASSUME worker.pc \in {"each", "drop", "grant", "dequeue"}, NEW i \in 1..Len(worker.picks),
                        NEW v, v = worker.picks[i], NEW first,
                        first = {worker.picks[j] : j \in 1..(i - 1)}
                 PROVE  Stays(v)' \/ InTurn(v, first)'
      BY <2>1 DEF TurnInv, PicksInTurn
    <3>1. v \in Users
      BY ElementOfSeq DEF TypeInv, TypeOK, Pass
    <3>2. Stays(v) \/ InTurn(v, first)
      BY DEF TurnInv, PicksInTurn
    <3>3. CASE InTurn(v, first)
      BY <2>1, <3>3 DEF InTurn, InQueue
    <3>4. CASE Stays(v)
      BY <2>1, <3>1, <3>4 DEF Stays
    <3> QED BY <3>2, <3>3, <3>4
  <2> QED BY <2>2, <2>3, <2>4, <2>5, <2>6, <2>7 DEF TurnInv
<1>3. CASE UNCHANGED vars
  <2>1. UNCHANGED <<queue, active, call, worker, earlier, pinned, ahead>>
    BY <1>3 DEF vars
  <2> QED BY <2>1 DEF TurnInv, OneCallEach, ThreadPins, WorkerPins, LetInAndQueued, TakesOff, LetInMeanwhile,
                      WaitsBehind, StampedLater, GrantsFirst, PicksInTurn, OnceEach, Stays, InTurn, InQueue, Ahead
<1> QED BY <1>1, <1>2, <1>3, ThreadTurn, WorkTurn DEF Next

LEMMA TurnInductive == ASSUME OneTab PROVE Spec => [](TypeInv /\ TurnInv)
<1>1. Init => TypeInv /\ TurnInv
  <2> SUFFICES ASSUME Init PROVE TypeInv /\ TurnInv
    OBVIOUS
  <2>1. TypeInv
    BY QueueAssumption, EmptySeq, LenProperties
       DEF Init, TypeInv, TypeOK, CallOK, WorkerOK, Asleep, NoCall, Call, CallPC, Pass, WorkerPC
  <2>2. TurnInv
    BY DEF Init, TurnInv, OneCallEach, ThreadPins, WorkerPins, LetInAndQueued, LetInMeanwhile,
           WaitsBehind, StampedLater, GrantsFirst, PicksInTurn, Asleep, NoCall
  <2> QED BY <2>1, <2>2
<1>2. TypeInv /\ TurnInv /\ [Next]_vars => (TypeInv /\ TurnInv)'
  BY TypeStep, TurnStep
<1> QED BY <1>1, <1>2, PTL DEF Spec

LEMMA LeavesWithAccess ==
  ASSUME TypeInv, TurnInv, [Next]_vars, NEW u \in Users, InQueue(u), ~InQueue(u)'
  PROVE  u \in active
<1> HIDE DEF InQueue
<1>1. queue' # queue
  BY DEF InQueue
<1>2. ASSUME NEW t \in Threads, Continue(t) PROVE u \in active
  <2> DEFINE v == call[t].user
  <2>1. v \in Users /\ ((ZRem(v) /\ call[t].pc \in {"leave", "dequeue"}) \/ ZAdd(t, v))
    BY <1>1, <1>2, ThreadMoves
  <2> HIDE DEF v
  <2>2. ZRem(v) /\ call[t].pc \in {"leave", "dequeue"} /\ u = v
    BY <2>1, AfterZRem, AfterZAdd
  <2> QED BY <2>2 DEF TurnInv, ThreadPins, v
<1>3. CASE Work
  <2> DEFINE h == Head(worker.picks)
  <2>1. ZRem(h) /\ worker.pc \in {"drop", "dequeue"}
    BY <1>1, <1>3, WorkerMoves
  <2> HIDE DEF h
  <2>2. u = h
    BY <2>1, AfterZRem
  <2> QED BY <2>1, <2>2 DEF TurnInv, WorkerPins, h
<1> QED BY <1>1, <1>2, <1>3 DEF Next, Begin, Expire, CheckoutEnds, vars

LEMMA GrantedInTurn ==
  ASSUME TypeInv, TurnInv, [Next]_vars, NEW v, v \in active' \ active
  PROVE  ahead[v] = {}
<1> HIDE DEF InQueue
<1>1. ASSUME NEW t \in Threads, Continue(t) PROVE ahead[v] = {}
  <2>1. call[t].pc = "grant" /\ v = call[t].user
    BY <1>1, ThreadMoves DEF Set
  <2> QED BY <2>1 DEF TurnInv, GrantsFirst
<1>2. CASE Work
  <2>1. worker.pc = "grant" /\ v = Head(worker.picks)
    BY <1>2, WorkerMoves DEF Set
  <2>2. worker.picks \in Seq(Users) /\ worker.picks # <<>>
    BY <2>1 DEF TypeInv, TypeOK, WorkerOK, Pass
  <2>3. 1 \in 1..Len(worker.picks) /\ v = worker.picks[1]
    BY <2>1, <2>2, HeadTailProperties, LenProperties, EmptySeq
  <2>4. InTurn(v, {worker.picks[j] : j \in 1..(1 - 1)})
    BY <2>1, <2>3 DEF TurnInv, PicksInTurn, Stays
  <2>5. 1..(1 - 1) = {}
    OBVIOUS
  <2> QED BY <2>4, <2>5 DEF InTurn
<1> QED BY <1>1, <1>2 DEF Next, Begin, Expire, CheckoutEnds, vars

\* With one tab for each user, nobody loses a place in the queue without getting
\* access: every ZREM, of polls and of the worker, comes while the session lasts
\* that was seen or granted calls before.
THEOREM NobodyDropped == ASSUME OneTab PROVE Spec => QueueLeftOnlyWithAccess
<1>1. TypeInv /\ TurnInv /\ [Next]_vars => [\A u \in Users : InQueue(u) /\ ~InQueue(u)' => u \in active]_vars
  BY LeavesWithAccess
<1> QED BY <1>1, TurnInductive, PTL DEF Spec, QueueLeftOnlyWithAccess

\* With one tab for each user, access is granted in the order of joining: a user is
\* let in only when all have left the queue who were queued before the user's join
\* began, or, if it had to queue, before it read the clock.  Calls queue out of order,
\* also between a poll that finds itself first, or the worker's ZRANGE, and the
\* grant; whoever comes in then is not among those the user must wait for.
THEOREM LetInAfterThoseBefore == ASSUME OneTab PROVE Spec => ServedInTurn
<1>1. TypeInv /\ TurnInv /\ [Next]_vars =>
        [\A u, v \in Users : v \in active' \ active /\ u \in ahead[v] => ~InQueue(u)]_vars
  <2> SUFFICES ASSUME TypeInv, TurnInv, [Next]_vars, NEW u \in Users, NEW v \in Users,
                      v \in active' \ active, u \in ahead[v]
               PROVE  FALSE
    OBVIOUS
  <2> QED BY GrantedInTurn
<1> QED BY <1>1, TurnInductive, PTL DEF Spec, ServedInTurn
=============================================================================
