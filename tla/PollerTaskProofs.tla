-------------------------- MODULE PollerTaskProofs --------------------------
(***************************************************************************)
(* The cyclic queue is first in, first out, for any size of its buffer and *)
(* any number of messages, and so is the message queue of a poller task    *)
(* (FifoInv).  The timers of the task, for any periods: none expires       *)
(* before its period is over (EarlyInv) and, as long as no time has been   *)
(* moved back below zero, the ring is sorted and a timer that is due       *)
(* expires (DueInv).                                                       *)
(***************************************************************************)
EXTENDS PollerTask, ObjListProofs, TLAPS

(* A cyclic queue with a buffer of at least two places: its objects are    *)
(* the actual_size ones that end before head.                              *)
QueueOf(n) ==
    [data : [0..(n - 1) -> Nat], max_size : {n}, actual_size : 0..n,
     head : 0..(n - 1), tail : 0..(n - 1)]
IsQueue(q) ==
    \E n \in Nat \ {0, 1} :
        q \in QueueOf(n) /\ q.head = (q.tail + q.actual_size) % n

(* Positions of a buffer of n places, counted around its end.              *)
LEMMA Around ==
    ASSUME NEW n \in Nat \ {0}, NEW a \in 0..(n - 1), NEW k \in 0..n
    PROVE  /\ a + k < n => (a + k) % n = a + k
           /\ a + k >= n => (a + k) % n = a + k - n
           /\ (a + k) % n \in 0..(n - 1)
  OBVIOUS

(* One step further in the ring, from either end of the queue.             *)
LEMMA AroundNext ==
    ASSUME NEW n \in Nat \ {0}, NEW a \in 0..(n - 1), NEW k \in 0..(n - 1)
    PROVE  /\ (((a + k) % n) + 1) % n = (a + (k + 1)) % n
           /\ (((a + 1) % n) + k) % n = (a + (k + 1)) % n
<1>0. k \in 0..n /\ k + 1 \in 0..n /\ 1 \in 0..n
  OBVIOUS
<1>1. PICK b : b = (a + k) % n
  OBVIOUS
<1>2. PICK c : c = (a + 1) % n
  OBVIOUS
<1>3. PICK d : d = (a + (k + 1)) % n
  OBVIOUS
<1>4. /\ a + k < n => b = a + k
      /\ a + k >= n => b = a + k - n
      /\ b \in 0..(n - 1)
  BY <1>0, <1>1, Around, Zenon
<1>5. /\ a + 1 < n => c = a + 1
      /\ a + 1 >= n => c = a + 1 - n
      /\ c \in 0..(n - 1)
  BY <1>0, <1>2, Around, Zenon
<1>6. /\ a + (k + 1) < n => d = a + (k + 1)
      /\ a + (k + 1) >= n => d = a + (k + 1) - n
  BY <1>0, <1>3, Around, Zenon
<1>7. /\ b + 1 < n => (b + 1) % n = b + 1
      /\ b + 1 >= n => (b + 1) % n = b + 1 - n
  BY <1>0, <1>4, Around, Zenon
<1>8. /\ c + k < n => (c + k) % n = c + k
      /\ c + k >= n => (c + k) % n = c + k - n
  BY <1>0, <1>5, Around, Zenon
<1>9. (b + 1) % n = d
  BY <1>4, <1>6, <1>7
<1>10. (c + k) % n = d
  BY <1>5, <1>6, <1>8
<1> QED
  BY <1>1, <1>2, <1>3, <1>9, <1>10, Zenon

(* Fewer steps than the ring has places never meet again.                  *)
LEMMA AroundDistinct ==
    ASSUME NEW n \in Nat \ {0}, NEW a \in 0..(n - 1), NEW k \in 0..(n - 1),
           NEW l \in 0..(n - 1), k # l
    PROVE  (a + k) % n # (a + l) % n
<1>0. k \in 0..n /\ l \in 0..n
  OBVIOUS
<1>1. PICK b : b = (a + k) % n
  OBVIOUS
<1>2. PICK c : c = (a + l) % n
  OBVIOUS
<1>3. /\ a + k < n => b = a + k
      /\ a + k >= n => b = a + k - n
  BY <1>0, <1>1, Around, Zenon
<1>4. /\ a + l < n => c = a + l
      /\ a + l >= n => c = a + l - n
  BY <1>0, <1>2, Around, Zenon
<1>5. b # c
  BY <1>3, <1>4
<1> QED
  BY <1>1, <1>2, <1>5, Zenon

(* An empty queue.                                                         *)
LEMMA CreateIs ==
    ASSUME NEW n \in Nat \ {0, 1}
    PROVE  /\ IsQueue(apt_cyclic_queue_create(n))
           /\ apt_cyclic_queue_create(n).actual_size = 0
<1> DEFINE q == apt_cyclic_queue_create(n)
<1>1. q \in QueueOf(n) /\ q.head = 0 /\ q.tail = 0 /\ q.actual_size = 0
  BY DEF apt_cyclic_queue_create, QueueOf, Garbage
<1>2. (0 + 0) % n = 0
  OBVIOUS
<1> HIDE DEF q
<1> QED
  BY <1>1, <1>2 DEF IsQueue, q

(* A full queue that is resized keeps its objects in their order and has   *)
(* room for another one.                                                   *)
LEMMA ResizeIs ==
    ASSUME NEW q, IsQueue(q), q.actual_size >= q.max_size
    PROVE  LET r == apt_cyclic_queue_resize(q) IN
           /\ IsQueue(r)
           /\ r.actual_size = q.actual_size /\ r.actual_size < r.max_size
           /\ \A k \in 0..(q.actual_size - 1) : Nth(r, k) = Nth(q, k)
<1> DEFINE r == apt_cyclic_queue_resize(q)
<1>1. PICK n \in Nat \ {0, 1} : q \in QueueOf(n) /\ q.head = (q.tail + q.actual_size) % n
  BY DEF IsQueue
<1>2. /\ q.max_size = n /\ q.actual_size = n /\ q.tail \in 0..(n - 1) /\ q.head \in 0..(n - 1)
      /\ q.data \in [0..(n - 1) -> Nat]
  BY <1>1 DEF QueueOf
<1>3. q.head = q.tail
  <2>1. n \in 0..n /\ q.tail + n >= n /\ q.tail + n - n = q.tail
    BY <1>2
  <2>2. (q.tail + n) % n = q.tail
    BY <1>2, <2>1, Around, Zenon
  <2> QED
    BY <1>1, <1>2, <2>2, Zenon
<1> DEFINE m == n + n \div 2
           offset == n - q.head
           data == [i \in 0..(m - 1) |->
                      CASE i < offset -> q.data[q.head + i]
                        [] i >= offset /\ i < n -> q.data[i - offset]
                        [] OTHER -> Garbage]
<1>4. m \in Nat \ {0, 1} /\ m > n
  OBVIOUS
<1>5. r = [data |-> data, max_size |-> m, actual_size |-> n, head |-> n, tail |-> 0]
  BY <1>2 DEF apt_cyclic_queue_resize
<1>6. offset \in 1..n
  BY <1>2
<1> HIDE DEF m, offset
<1>7. \A i \in 0..(m - 1) : /\ i < offset => data[i] = q.data[q.head + i]
                            /\ i >= offset /\ i < n => data[i] = q.data[i - offset]
                            /\ i >= n => data[i] = 0
  BY <1>4, <1>6 DEF Garbage
<1>8. data \in [0..(m - 1) -> Nat]
  <2>1. \A i \in 0..(m - 1) : data[i] \in Nat
    <3> TAKE i \in 0..(m - 1)
    <3>1. CASE i < offset
      <4>1. q.head + i \in 0..(n - 1)
        BY <1>2, <3>1 DEF offset
      <4> QED
        BY <1>2, <1>7, <3>1, <4>1
    <3>2. CASE i >= offset /\ i < n
      <4>1. i - offset \in 0..(n - 1)
        BY <1>6, <3>2
      <4> QED
        BY <1>2, <1>7, <3>2, <4>1
    <3>3. CASE i >= n
      BY <1>7, <3>3
    <3> QED
      BY <1>4, <1>6, <3>1, <3>2, <3>3
  <2> QED
    BY <2>1
<1> HIDE DEF data
<1>9. r \in QueueOf(m)
  BY <1>4, <1>5, <1>8 DEF QueueOf
<1>10. r.head = (r.tail + r.actual_size) % m
  <2>1. (0 + n) % m = n
    BY <1>4
  <2> QED
    BY <1>5, <2>1
<1>11. ASSUME NEW k \in 0..(n - 1) PROVE Nth(r, k) = Nth(q, k)
  <2>1. Nth(r, k) = data[k]
    <3>1. (0 + k) % m = k
      BY <1>4
    <3> QED
      BY <1>5, <3>1 DEF Nth
  <2>2. Nth(q, k) = q.data[(q.head + k) % n]
    BY <1>2, <1>3 DEF Nth
  <2>3. k \in 0..(m - 1)
    BY <1>4
  <2> DEFINE h == q.head
  <2>4. /\ h + k < n => (h + k) % n = h + k
        /\ h + k >= n => (h + k) % n = h + k - n
    <3>1. h \in 0..(n - 1) /\ k \in 0..n
      BY <1>2
    <3> HIDE DEF h
    <3> QED
      BY <3>1
  <2>5. CASE k < offset
    <3>1. h + k < n
      BY <1>2, <2>5 DEF offset
    <3> QED
      BY <1>7, <2>1, <2>2, <2>3, <2>4, <2>5, <3>1
  <2>6. CASE k >= offset
    <3>1. h + k >= n /\ h + k - n = k - offset
      BY <1>2, <2>6 DEF offset
    <3> QED
      BY <1>7, <2>1, <2>2, <2>3, <2>4, <2>6, <3>1
  <2> QED
    BY <1>6, <2>5, <2>6
<1> HIDE DEF r
<1>12. IsQueue(r)
  BY <1>4, <1>9, <1>10 DEF IsQueue
<1>13. r.actual_size = q.actual_size /\ r.actual_size < r.max_size
  BY <1>2, <1>4, <1>5
<1> QED
  BY <1>2, <1>11, <1>12, <1>13 DEF r

(* A push appends an object: those in the queue stay where they are.       *)
LEMMA PushIs ==
    ASSUME NEW queue, IsQueue(queue), NEW obj \in Nat
    PROVE  LET p == apt_cyclic_queue_push(queue, obj) IN
           /\ IsQueue(p) /\ p.actual_size = queue.actual_size + 1
           /\ \A k \in 0..(queue.actual_size - 1) : Nth(p, k) = Nth(queue, k)
           /\ Nth(p, queue.actual_size) = obj
<1> DEFINE q == IF queue.actual_size >= queue.max_size
                THEN apt_cyclic_queue_resize(queue) ELSE queue
           p == apt_cyclic_queue_push(queue, obj)
<1>1. /\ IsQueue(q) /\ q.actual_size = queue.actual_size /\ q.actual_size < q.max_size
      /\ \A k \in 0..(queue.actual_size - 1) : Nth(q, k) = Nth(queue, k)
  <2>1. CASE queue.actual_size >= queue.max_size
    BY <2>1, ResizeIs
  <2>2. CASE ~(queue.actual_size >= queue.max_size)
    BY <2>2 DEF IsQueue, QueueOf
  <2> QED
    BY <2>1, <2>2
<1>2. p = [q EXCEPT !.data[q.head] = obj,
                    !.head = (q.head + 1) % q.max_size,
                    !.actual_size = q.actual_size + 1]
  BY DEF apt_cyclic_queue_push
<1> HIDE DEF q, p
<1>3. PICK n \in Nat \ {0, 1} : q \in QueueOf(n) /\ q.head = (q.tail + q.actual_size) % n
  BY <1>1 DEF IsQueue
<1>4. /\ q.max_size = n /\ q.actual_size \in 0..(n - 1) /\ q.tail \in 0..(n - 1)
      /\ q.head \in 0..(n - 1) /\ q.data \in [0..(n - 1) -> Nat]
  BY <1>1, <1>3 DEF QueueOf
<1>5. /\ p.data = [q.data EXCEPT ![q.head] = obj] /\ p.head = (q.head + 1) % n
      /\ p.actual_size = q.actual_size + 1 /\ p.max_size = n /\ p.tail = q.tail
      /\ p = [data |-> p.data, max_size |-> p.max_size, actual_size |-> p.actual_size,
              head |-> p.head, tail |-> p.tail]
  BY <1>2, <1>3, <1>4 DEF QueueOf
<1>6. p.head \in 0..(n - 1)
  <2>1. 1 \in 0..n /\ n \in Nat \ {0} /\ q.head \in 0..(n - 1)
    BY <1>4
  <2>2. (q.head + 1) % n \in 0..(n - 1)
    BY <2>1, Around, Zenon
  <2>3. p.head = (q.head + 1) % n
    BY <1>5, Zenon
  <2> QED
    BY <2>2, <2>3, Zenon
<1>7. p \in QueueOf(n)
  <2>1. p.data \in [0..(n - 1) -> Nat] /\ p.actual_size \in 0..n
    BY <1>4, <1>5
  <2>2. p.tail \in 0..(n - 1) /\ p.max_size \in {n}
    BY <1>4, <1>5
  <2> QED
    BY <1>5, <1>6, <2>1, <2>2, Zenon DEF QueueOf
<1>8. p.head = (p.tail + p.actual_size) % n
  <2>1. (((q.tail + q.actual_size) % n) + 1) % n = (q.tail + (q.actual_size + 1)) % n
    BY <1>4, AroundNext, Zenon
  <2> QED
    BY <1>3, <1>5, <2>1, Zenon
<1>9. ASSUME NEW k \in 0..(q.actual_size - 1) PROVE Nth(p, k) = Nth(q, k)
  <2>1. /\ k \in 0..(n - 1) /\ k \in 0..n /\ k # q.actual_size /\ n \in Nat \ {0}
        /\ q.tail \in 0..(n - 1) /\ q.actual_size \in 0..(n - 1)
    BY <1>4
  <2>2. (q.tail + k) % n \in 0..(n - 1)
    BY <2>1, Around, Zenon
  <2>3. (q.tail + k) % n # (q.tail + q.actual_size) % n
    BY <2>1, AroundDistinct, Zenon
  <2>4. (q.tail + k) % n # q.head
    BY <1>3, <2>3, Zenon
  <2> QED
    BY <1>4, <1>5, <2>2, <2>4 DEF Nth
<1>10. Nth(p, q.actual_size) = obj
  BY <1>3, <1>4, <1>5 DEF Nth
<1>11. IsQueue(p)
  BY <1>7, <1>8 DEF IsQueue
<1> QED
  BY <1>1, <1>5, <1>9, <1>10, <1>11 DEF p

(* A pop takes the first object: the others move up.                       *)
LEMMA PopIs ==
    ASSUME NEW q, IsQueue(q), q.actual_size > 0
    PROVE  LET p == apt_cyclic_queue_pop(q) IN
           /\ IsQueue(p) /\ p.actual_size = q.actual_size - 1
           /\ \A k \in 0..(p.actual_size - 1) : Nth(p, k) = Nth(q, k + 1)
<1> DEFINE p == apt_cyclic_queue_pop(q)
<1>1. PICK n \in Nat \ {0, 1} : q \in QueueOf(n) /\ q.head = (q.tail + q.actual_size) % n
  BY DEF IsQueue
<1>2. /\ q.max_size = n /\ q.actual_size \in 1..n /\ q.tail \in 0..(n - 1)
      /\ q.head \in 0..(n - 1) /\ q.data \in [0..(n - 1) -> Nat]
  BY <1>1 DEF QueueOf
<1>3. /\ p.data = q.data /\ p.head = q.head /\ p.tail = (q.tail + 1) % n
      /\ p.actual_size = q.actual_size - 1 /\ p.max_size = n
      /\ p = [data |-> p.data, max_size |-> p.max_size, actual_size |-> p.actual_size,
              head |-> p.head, tail |-> p.tail]
  <2>1. PICK tail, size : tail = (q.tail + 1) % n /\ size = q.actual_size - 1
    OBVIOUS
  <2>2. p = [q EXCEPT !.tail = tail, !.actual_size = size]
    BY <1>2, <2>1 DEF apt_cyclic_queue_pop
  <2> HIDE DEF p
  <2>3. /\ p.data = q.data /\ p.head = q.head /\ p.tail = tail
        /\ p.actual_size = size /\ p.max_size = n
        /\ p = [data |-> p.data, max_size |-> p.max_size, actual_size |-> p.actual_size,
                head |-> p.head, tail |-> p.tail]
    BY <1>1, <1>2, <2>2 DEF QueueOf
  <2> QED
    BY <2>1, <2>3, Zenon
<1> HIDE DEF p
<1>4. (q.tail + 1) % n \in 0..(n - 1)
  <2>1. 1 \in 0..n
    OBVIOUS
  <2> QED
    BY <1>2, <2>1, Around, Zenon
<1>5. p \in QueueOf(n)
  <2>1. p.actual_size \in 0..n
    BY <1>2, <1>3
  <2>2. p.tail \in 0..(n - 1) /\ p.max_size \in {n}
    BY <1>3, <1>4, Zenon
  <2> QED
    BY <1>2, <1>3, <2>1, <2>2, Zenon DEF QueueOf
<1>6. ASSUME NEW k \in 0..(n - 1) PROVE (p.tail + k) % n = (q.tail + (k + 1)) % n
  BY <1>2, <1>3, AroundNext, Zenon
<1>7. p.head = (p.tail + p.actual_size) % n
  <2>1. q.actual_size - 1 \in 0..(n - 1) /\ (q.actual_size - 1) + 1 = q.actual_size
    BY <1>2
  <2> QED
    BY <1>1, <1>3, <1>6, <2>1
<1>8. ASSUME NEW k \in 0..(p.actual_size - 1) PROVE Nth(p, k) = Nth(q, k + 1)
  <2>1. k \in 0..(n - 1)
    BY <1>2, <1>3
  <2> QED
    BY <1>2, <1>3, <1>6, <2>1 DEF Nth
<1> QED
  BY <1>3, <1>5, <1>7, <1>8 DEF IsQueue, p

-----------------------------------------------------------------------------
(* The messages the queue holds are the ones sent and not taken.           *)
FifoInv ==
    /\ IsQueue(msg_queue) /\ sent \in Nat /\ taken \in Nat
    /\ QueueIsFifo

(* A sender pushes its message behind the others.                          *)
LEMMA PushKeepsFifo ==
    ASSUME FifoInv, Push
    PROVE  FifoInv'
<1> DEFINE n == msg_queue.actual_size
<1>1. /\ IsQueue(msg_queue) /\ sent \in Nat /\ taken \in Nat /\ n = sent - taken
      /\ \A k \in 0..(n - 1) : Nth(msg_queue, k) = taken + k + 1
  BY DEF FifoInv, QueueIsFifo
<1>2. n \in Nat
  BY <1>1 DEF IsQueue, QueueOf
<1>3. /\ msg_queue' = apt_cyclic_queue_push(msg_queue, sent + 1)
      /\ sent' = sent + 1 /\ taken' = taken
  BY DEF Push
<1>4. /\ IsQueue(msg_queue') /\ msg_queue'.actual_size = n + 1
      /\ \A k \in 0..(n - 1) : Nth(msg_queue', k) = Nth(msg_queue, k)
      /\ Nth(msg_queue', n) = sent + 1
  BY <1>1, <1>3, PushIs
<1> HIDE DEF n
<1>5. ASSUME NEW k \in 0..n PROVE Nth(msg_queue', k) = taken + k + 1
  <2>1. CASE k = n
    BY <1>1, <1>2, <1>4, <2>1
  <2>2. CASE k # n
    BY <1>1, <1>2, <1>4, <2>2
  <2> QED
    BY <2>1, <2>2
<1>6. QueueIsFifo'
  BY <1>1, <1>2, <1>3, <1>4, <1>5 DEF QueueIsFifo
<1> QED
  BY <1>1, <1>3, <1>4, <1>6 DEF FifoInv

(* The task takes the oldest message.                                      *)
LEMMA PopKeepsFifo ==
    ASSUME FifoInv, ProcessMessage
    PROVE  FifoInv'
<1> DEFINE n == msg_queue.actual_size
<1>1. /\ IsQueue(msg_queue) /\ sent \in Nat /\ taken \in Nat /\ n = sent - taken
      /\ \A k \in 0..(n - 1) : Nth(msg_queue, k) = taken + k + 1
  BY DEF FifoInv, QueueIsFifo
<1>2. /\ n > 0 /\ msg_queue' = apt_cyclic_queue_pop(msg_queue)
      /\ taken' = taken + 1 /\ sent' = sent
  BY DEF ProcessMessage
<1>3. /\ IsQueue(msg_queue') /\ msg_queue'.actual_size = n - 1
      /\ \A k \in 0..(msg_queue'.actual_size - 1) : Nth(msg_queue', k) = Nth(msg_queue, k + 1)
  BY <1>1, <1>2, PopIs
<1> HIDE DEF n
<1>4. \A k \in 0..(n - 2) : Nth(msg_queue', k) = (taken + 1) + k + 1
  BY <1>1, <1>2, <1>3
<1>5. QueueIsFifo'
  BY <1>1, <1>2, <1>3, <1>4 DEF QueueIsFifo
<1> QED
  BY <1>1, <1>2, <1>3, <1>5 DEF FifoInv

(* The message queue of a poller task holds exactly the messages sent and  *)
(* not yet taken, in the order they were sent, however often the buffer    *)
(* has wrapped around or grown (apt_cyclic_queue.c 50 and 92).             *)
THEOREM MessagesInOrder == Spec => []QueueIsFifo
<1>1. Init => FifoInv
  BY CreateIs, PollerAssumption DEF Init, FifoInv, QueueIsFifo
<1>2. FifoInv /\ [Next]_vars => FifoInv'
  <2> SUFFICES ASSUME FifoInv, [Next]_vars PROVE FifoInv'
    OBVIOUS
  <2>1. CASE UNCHANGED <<msg_queue, sent, taken>>
    BY <2>1 DEF FifoInv, QueueIsFifo
  <2>2. CASE MsgSignal
    BY <2>1, <2>2, PushKeepsFifo DEF MsgSignal
  <2>3. CASE Loop
    <3>1. CASE ProcessMessage
      BY <3>1, PopKeepsFifo
    <3>2. CASE ~ProcessMessage
      BY <2>1, <2>3, <3>2 DEF Loop, Wait, Poll, PollFails, IsWakeup, NoMoreMessages, ProcessSocket,
         Advance, ExpireTimer, EndAdvance, msg_vars
    <3> QED
      BY <3>1, <3>2
  <2>4. CASE Tick
    BY <2>1, <2>4 DEF Tick, msg_vars
  <2>5. CASE UNCHANGED vars
    BY <2>1, <2>5 DEF vars, msg_vars
  <2> QED
    BY <2>2, <2>3, <2>4, <2>5 DEF Next
<1>3. FifoInv => QueueIsFifo
  BY DEF FifoInv
<1> QED
  BY <1>1, <1>2, <1>3, PTL DEF Spec


-----------------------------------------------------------------------------
(* The timers.  A timer is set when it is in the ring.                     *)
IsSet(q, t) == \E i \in DOMAIN q.ring : q.ring[i] = t

(* No timer is in the ring twice, and the times in the ring ascend.        *)
Sorted(q) ==
    \A i, j \in DOMAIN q.ring :
        i < j => /\ q.ring[i] # q.ring[j]
                 /\ q.scheduled[q.ring[i]] <= q.scheduled[q.ring[j]]

(* No timer that is set has elapsed.                                       *)
Ahead(q) == \A i \in DOMAIN q.ring : q.scheduled[q.ring[i]] > q.elapsed

(* A timer that has a time is in the ring, and its time is no further away *)
(* than its period.                                                        *)
InRing(q) == \A t \in Timers : q.scheduled[t] # 0 => IsSet(q, t)
Within(q) == \A t \in Timers : IsSet(q, t) => q.scheduled[t] <= q.elapsed + Period[t]

(* The clock time that the elapsed time of the queue stands for: the start *)
(* of the current poll, until the queue is advanced or its time is reset.  *)
Polling == phase \in {"poll", "process", "drain", "messages"}
Reached == IF Polling /\ Lags(timer_queue) THEN time_last ELSE clock

TimersType ==
    /\ timer_queue \in TimerQueueType /\ timer_queue.elapsed < RescheduleAt
    /\ clock \in Nat /\ time_last \in Nat /\ time_last <= clock
    /\ timeout \in Nat \cup {NoTimeout}
    /\ phase \in {"wait", "poll", "process", "drain", "messages", "expire"}
    /\ due \in [Timers -> Nat] /\ earliest \in [Timers -> Nat] /\ lost \in [Timers -> Nat]
    /\ underflow \in BOOLEAN

(* The queue counts every timer at least as long as it has to run, even    *)
(* when times have been moved back below zero.                             *)
NotEarlier ==
    \A t \in Timers :
        due[t] # 0 =>
            1000 * (timer_queue.scheduled[t] - timer_queue.elapsed) >= earliest[t] - Reached
EarlyInv == TimersType /\ NotEarlier

(* It counts none for longer than that, and finds them all at the head of  *)
(* the ring.                                                               *)
NotLater ==
    \A t \in Timers :
        IsSet(timer_queue, t) =>
            1000 * (timer_queue.scheduled[t] - timer_queue.elapsed) <= due[t] + lost[t] - Reached
DueIsSet == \A t \in Timers : due[t] # 0 <=> IsSet(timer_queue, t)
PollInTime ==
    Polling /\ timeout # NoTimeout =>
        /\ \E t \in Timers : timeout <= Period[t]
        /\ clock <= time_last + 1000 * (timeout + MaxLate)
PollIsIdle == phase = "poll" => ~timer_queue.reset
                                /\ (timeout = NoTimeout => timer_queue.ring = <<>>)
RingInv == Sorted(timer_queue) /\ InRing(timer_queue) /\ Within(timer_queue)
           /\ (phase # "expire" => Ahead(timer_queue))
OnTime == RingInv /\ NotLater /\ DueIsSet /\ PollInTime /\ PollIsIdle
DueInv == EarlyInv /\ (underflow \/ OnTime)


(* Differences and sums of times, counted modulo their range.              *)
LEMMA TimeDifference ==
    ASSUME NEW w \in Nat \ {0}, NEW a \in 0..(w - 1), NEW b \in 0..(w - 1)
    PROVE  /\ (a - b) % w \in 0..(w - 1)
           /\ a >= b => (a - b) % w = a - b
           /\ (a - b) % w >= a - b
  OBVIOUS

(* A sum of times is what it is as long as it fits.                        *)
LEMMA TimeSum ==
    ASSUME NEW w \in Nat \ {0}, NEW a \in Nat
    PROVE  /\ a % w \in 0..(w - 1)
           /\ a < w => a % w = a
           /\ a % w <= a
  OBVIOUS

(* What a timer queue consists of.                                         *)
LEMMA QueueType ==
    ASSUME NEW ring \in Seq(Timers), NEW scheduled \in [Timers -> Time],
           NEW elapsed \in Time, NEW reset \in BOOLEAN, NEW q,
           q = [ring |-> ring, scheduled |-> scheduled, elapsed |-> elapsed, reset |-> reset]
    PROVE  /\ q \in TimerQueueType
           /\ q.ring = ring /\ q.scheduled = scheduled /\ q.elapsed = elapsed
           /\ q.reset = reset
  BY DEF TimerQueueType

(* The parts of a timer queue, and that they are all of it.                *)
LEMMA QueueParts ==
    ASSUME NEW q \in TimerQueueType
    PROVE  /\ q.ring \in Seq(Timers) /\ q.scheduled \in [Timers -> Time]
           /\ q.elapsed \in Time /\ q.reset \in BOOLEAN
           /\ q = [ring |-> q.ring, scheduled |-> q.scheduled, elapsed |-> q.elapsed,
                   reset |-> q.reset]
           /\ DOMAIN q.ring = 1..Len(q.ring) /\ Len(q.ring) \in Nat
           /\ \A i \in DOMAIN q.ring : q.ring[i] \in Timers
  BY DEF TimerQueueType

(* The range of times.                                                     *)
LEMMA TimeIs ==
    /\ 2^Width \in Nat \ {0} /\ Time = 0..(2^Width - 1)
    /\ Time \subseteq Nat /\ 0 \in Time
<1>1. 2^Width \in Nat /\ RescheduleAt <= 2^Width /\ RescheduleAt \in Nat \ {0}
  BY TimesFit, TimerQueueAssumption
<1>2. PICK w : w = 2^Width
  OBVIOUS
<1>3. w \in Nat \ {0} /\ 0..(w - 1) \subseteq Nat /\ 0 \in 0..(w - 1)
  BY <1>1, <1>2
<1> QED
  BY <1>2, <1>3, Zenon DEF Time

(* r lists the timers of the ring other than t, in their order.            *)
Others(r, q, t) ==
    /\ \A k \in DOMAIN r : r[k] # t /\ IsSet(q, r[k])
    /\ \A x \in Timers : IsSet(q, x) /\ x # t => \E k \in DOMAIN r : r[k] = x
    /\ \A k, l \in DOMAIN r : k < l =>
          \E i, j \in DOMAIN q.ring : i < j /\ r[k] = q.ring[i] /\ r[l] = q.ring[j]

(* The ring without t: the other timers, in their order.                   *)
LEMMA UnlinkedIs ==
    ASSUME NEW q \in TimerQueueType, NEW t \in Timers, NEW r, r = Unlinked(q, t)
    PROVE  r \in Seq(Timers) /\ Others(r, q, t)
<1>1. PICK s : s = q.ring
  OBVIOUS
<1>2. s \in Seq(Timers)
  BY <1>1 DEF TimerQueueType
<1>3. PICK keep : keep = {i \in DOMAIN s : s[i] # t}
  OBVIOUS
<1>4. r = KeepAt(s, keep)
  BY <1>1, <1>3 DEF Unlinked
<1>5. keep \subseteq DOMAIN s
  BY <1>3
<1>6. r \in Seq(Timers)
  BY <1>2, <1>4, <1>5, KeepAtType
<1>7. {r[k] : k \in DOMAIN r} = {s[i] : i \in keep}
  <2> DEFINE u == KeepAt(s, keep)
  <2>1. {u[k] : k \in DOMAIN u} = {s[i] : i \in keep}
    BY <1>2, <1>5, KeepAtElements
  <2> QED
    BY <1>4, <2>1
<1>8. \A k, l \in DOMAIN r : k < l => \E i, j \in keep : i < j /\ r[k] = s[i] /\ r[l] = s[j]
  BY <1>2, <1>4, <1>5, KeepAtOrder
<1>9. \A k \in DOMAIN r : \E i \in keep : r[k] = s[i]
  BY <1>7
<1>10. \A i \in keep : \E k \in DOMAIN r : r[k] = s[i]
  BY <1>7
<1>12. \A k \in DOMAIN r : r[k] # t /\ IsSet(q, r[k])
  BY <1>1, <1>3, <1>9 DEF IsSet
<1>13. \A x \in Timers : IsSet(q, x) /\ x # t => \E k \in DOMAIN r : r[k] = x
  BY <1>1, <1>3, <1>10 DEF IsSet
<1>14. \A k, l \in DOMAIN r : k < l =>
         \E i, j \in DOMAIN q.ring : i < j /\ r[k] = q.ring[i] /\ r[l] = q.ring[j]
  BY <1>1, <1>5, <1>8
<1> QED
  BY <1>6, <1>12, <1>13, <1>14 DEF Others

(* The timers of the ring are those of q, without t.                       *)
SetWithout(r, q, t) == \A x \in Timers : IsSet(r, x) <=> IsSet(q, x) /\ x # t

(* A timer that is taken out leaves the others where they were.            *)
LEMMA RemoveIs ==
    ASSUME NEW q \in TimerQueueType, NEW t \in Timers,
           NEW r, r = apt_timer_remove(q, t)
    PROVE  /\ r \in TimerQueueType
           /\ r.scheduled = [q.scheduled EXCEPT ![t] = 0]
           /\ \/ r.elapsed = q.elapsed /\ r.reset = q.reset
              \/ r.elapsed = 0 /\ r.reset = TRUE /\ r.ring = <<>>
           /\ SetWithout(r, q, t)
           /\ Sorted(q) => Sorted(r)
<1>1. PICK ring : ring = Unlinked(q, t)
  OBVIOUS
<1>0. ring \in Seq(Timers) /\ Others(ring, q, t)
  BY <1>1, UnlinkedIs, Zenon
<1>2. /\ ring \in Seq(Timers)
      /\ \A k \in DOMAIN ring : ring[k] # t /\ IsSet(q, ring[k])
      /\ \A x \in Timers : IsSet(q, x) /\ x # t => \E k \in DOMAIN ring : ring[k] = x
      /\ \A k, l \in DOMAIN ring : k < l =>
            \E i, j \in DOMAIN q.ring :
                i < j /\ ring[k] = q.ring[i] /\ ring[l] = q.ring[j]
  BY <1>0, Zenon DEF Others
<1>3. PICK scheduled : scheduled = [q.scheduled EXCEPT ![t] = 0]
  OBVIOUS
<1>4. scheduled \in [Timers -> Time] /\ \A x \in Timers \ {t} : scheduled[x] = q.scheduled[x]
  BY <1>3, QueueParts, TimeIs
<1>5. PICK elapsed : elapsed = IF ring = <<>> THEN 0 ELSE q.elapsed
  OBVIOUS
<1>6. PICK reset : reset = (q.reset \/ ring = <<>>)
  OBVIOUS
<1>7. elapsed \in Time /\ reset \in BOOLEAN
  BY <1>5, <1>6, QueueParts, TimeIs, Zenon
<1>8. r = [ring |-> ring, scheduled |-> scheduled, elapsed |-> elapsed, reset |-> reset]
  BY <1>1, <1>3, <1>5, <1>6, Zenon DEF apt_timer_remove
<1>9. /\ r \in TimerQueueType /\ r.ring = ring /\ r.scheduled = scheduled
      /\ r.elapsed = elapsed /\ r.reset = reset
  BY <1>2, <1>4, <1>7, <1>8, QueueType
<1>10. \/ r.elapsed = q.elapsed /\ r.reset = q.reset
       \/ r.elapsed = 0 /\ r.reset = TRUE /\ r.ring = <<>>
  <2>1. q.reset \in BOOLEAN
    BY QueueParts
  <2> QED
    BY <1>5, <1>6, <1>9, <2>1, Zenon
<1>11. SetWithout(r, q, t)
  BY <1>2, <1>9 DEF SetWithout, IsSet
<1>12. ASSUME Sorted(q) PROVE Sorted(r)
  <2> SUFFICES ASSUME NEW k \in DOMAIN ring, NEW l \in DOMAIN ring, k < l
               PROVE  /\ ring[k] # ring[l]
                      /\ scheduled[ring[k]] <= scheduled[ring[l]]
    BY <1>9 DEF Sorted
  <2>1. PICK i \in DOMAIN q.ring, j \in DOMAIN q.ring :
           i < j /\ ring[k] = q.ring[i] /\ ring[l] = q.ring[j]
    BY <1>2
  <2>2. ring[k] # ring[l] /\ q.scheduled[ring[k]] <= q.scheduled[ring[l]]
    BY <1>12, <2>1 DEF Sorted
  <2>3. ring[k] \in Timers \ {t} /\ ring[l] \in Timers \ {t}
    BY <1>2
  <2> QED
    BY <1>4, <2>2, <2>3
<1> QED
  BY <1>3, <1>9, <1>10, <1>11, <1>12

(* A non-empty set of positions of a list has a last one.                  *)
LEMMA LastPosition ==
    ASSUME NEW n \in Nat, NEW P, P \subseteq 1..n, P # {}
    PROVE  \E i \in P : \A j \in P : j <= i
<1> DEFINE T == {n - i : i \in P}
<1>0. \A i \in P : i \in 1..n /\ n - i \in Nat
  OBVIOUS
<1>1. T \subseteq Nat /\ T # {}
  BY <1>0, Zenon
<1>2. PICK x \in T : \A y \in T : x <= y
  BY <1>1, LeastNat
<1>3. PICK i \in P : x = n - i
  OBVIOUS
<1>4. \A j \in P : n - i <= n - j
  BY <1>2, <1>3
<1>5. \A j \in P : j <= i
  BY <1>4
<1> QED
  BY <1>5

(* Where t stands in a list it is put into behind position at.             *)
PutBehind(r, s, t, at) ==
    /\ Len(r) = Len(s) + 1
    /\ \A k \in 1..(Len(s) + 1) :
          /\ k <= at => r[k] = s[k]
          /\ k = at + 1 => r[k] = t
          /\ k > at + 1 => r[k] = s[k - 1]

(* Two lists joined.                                                       *)
LEMMA ConcatIs ==
    ASSUME NEW S, NEW b \in Seq(S), NEW c \in Seq(S)
    PROVE  /\ b \o c \in Seq(S) /\ Len(b \o c) = Len(b) + Len(c)
           /\ \A k \in 1..(Len(b) + Len(c)) :
                 (b \o c)[k] = IF k <= Len(b) THEN b[k] ELSE c[k - Len(b)]
  OBVIOUS

(* A list with an element put in is a list.                                *)
LEMMA PutIs ==
    ASSUME NEW S, NEW s \in Seq(S), NEW t \in S, NEW at \in 0..Len(s), NEW r,
           r = SubSeq(s, 1, at) \o <<t>> \o SubSeq(s, at + 1, Len(s))
    PROVE  r \in Seq(S) /\ PutBehind(r, s, t, at)
<1>0. Len(s) \in Nat /\ DOMAIN s = 1..Len(s)
  OBVIOUS
<1>1. PICK a, c : a = SubSeq(s, 1, at) /\ c = SubSeq(s, at + 1, Len(s))
  OBVIOUS
<1>2. a \in Seq(S) /\ Len(a) = at /\ \A k \in 1..at : a[k] = s[k]
  BY <1>0, <1>1
<1>3. c \in Seq(S) /\ Len(c) = Len(s) - at /\ \A k \in 1..(Len(s) - at) : c[k] = s[at + k]
  <2>1. PICK d : d = at + 1
    OBVIOUS
  <2>2. d \in 1..(Len(s) + 1) /\ c = SubSeq(s, d, Len(s))
    BY <1>0, <1>1, <2>1
  <2>3. c \in Seq(S) /\ Len(c) = Len(s) - d + 1
    BY <1>0, <2>2
  <2>4. \A k \in 1..Len(c) : c[k] = s[d + k - 1]
    BY <1>0, <2>2
  <2>5. Len(s) - d + 1 = Len(s) - at
    BY <1>0, <2>1
  <2>6. \A k \in 1..(Len(s) - at) : d + k - 1 = at + k
    BY <1>0, <2>1
  <2> QED
    BY <2>3, <2>4, <2>5, <2>6
<1>4. PICK b : b = a \o <<t>>
  OBVIOUS
<1>5. /\ b \in Seq(S) /\ Len(b) = at + 1
      /\ \A k \in 1..at : b[k] = s[k]
      /\ b[at + 1] = t
  <2>1. <<t>> \in Seq(S) /\ Len(<<t>>) = 1 /\ <<t>>[1] = t
    OBVIOUS
  <2> QED
    BY <1>2, <1>4, <2>1
<1>6. r = b \o c
  BY <1>1, <1>4
<1>7. /\ r \in Seq(S) /\ Len(r) = Len(s) + 1
      /\ \A k \in 1..(at + 1) : r[k] = b[k]
      /\ \A k \in 1..(Len(s) + 1) : k > at + 1 => r[k] = c[k - (at + 1)]
  <2>1. /\ b \o c \in Seq(S) /\ Len(b \o c) = Len(b) + Len(c)
        /\ \A k \in 1..(Len(b) + Len(c)) :
              (b \o c)[k] = IF k <= Len(b) THEN b[k] ELSE c[k - Len(b)]
    BY <1>3, <1>5, ConcatIs
  <2>2. Len(b) + Len(c) = Len(s) + 1
    BY <1>0, <1>3, <1>5
  <2>3. /\ r \in Seq(S) /\ Len(r) = Len(s) + 1
        /\ \A k \in 1..(Len(s) + 1) :
              r[k] = IF k <= at + 1 THEN b[k] ELSE c[k - (at + 1)]
    BY <1>5, <1>6, <2>1, <2>2
  <2>4. \A k \in 1..(at + 1) : k \in 1..(Len(s) + 1) /\ k <= at + 1
    BY <1>0
  <2>5. \A k \in 1..(Len(s) + 1) : k > at + 1 => ~(k <= at + 1)
    BY <1>0
  <2> QED
    BY <2>3, <2>4, <2>5
<1>8. ASSUME NEW k \in 1..(Len(s) + 1), k > at + 1 PROVE r[k] = s[k - 1]
  <2>1. k - (at + 1) \in 1..(Len(s) - at) /\ at + (k - (at + 1)) = k - 1
    BY <1>0, <1>8
  <2> QED
    BY <1>3, <1>7, <1>8, <2>1
<1>9. ASSUME NEW k \in 1..(Len(s) + 1), k <= at + 1 PROVE r[k] = b[k]
  <2>1. k \in 1..(at + 1)
    BY <1>0, <1>9
  <2> QED
    BY <1>7, <2>1
<1> QED
  <2>1. ASSUME NEW k \in 1..(Len(s) + 1)
        PROVE  (k <= at => r[k] = s[k]) /\ (k = at + 1 => r[k] = t)
    <3>1. k <= at => k \in 1..at /\ k <= at + 1
      BY <1>0
    <3>2. k = at + 1 => k <= at + 1
      BY <1>0
    <3> QED
      BY <1>5, <1>9, <3>1, <3>2
  <2> QED
    BY <1>7, <1>8, <2>1 DEF PutBehind

(* The timers of the ring are those of q, and t.                           *)
SetWith(r, q, t) == \A x \in Timers : IsSet(r, x) <=> IsSet(q, x) \/ x = t

(* A timer that is put in keeps the ring sorted.                           *)
LEMMA InsertIs ==
    ASSUME NEW q \in TimerQueueType, NEW t \in Timers,
           NEW r, r = apt_timer_insert(q, t)
    PROVE  /\ r \in TimerQueueType
           /\ r.scheduled = q.scheduled /\ r.elapsed = q.elapsed /\ r.reset = q.reset
           /\ SetWith(r, q, t)
           /\ Sorted(q) /\ ~IsSet(q, t) => Sorted(r)
<1>1. PICK s, scheduled, n : s = q.ring /\ scheduled = q.scheduled /\ n = Len(s)
  OBVIOUS
<1>2. /\ s \in Seq(Timers) /\ DOMAIN s = 1..n /\ n \in Nat
      /\ \A i \in 1..n : s[i] \in Timers
      /\ \A x \in Timers : scheduled[x] \in Nat
  BY <1>1, QueueParts, TimeIs
<1>3. PICK notLater : notLater = {i \in DOMAIN s : scheduled[s[i]] <= scheduled[t]}
  OBVIOUS
<1>4. PICK at : at = IF notLater = {} THEN 0
                     ELSE CHOOSE i \in notLater : \A j \in notLater : j <= i
  OBVIOUS
<1>5. /\ at \in 0..n /\ \A j \in notLater : j <= at
      /\ at # 0 => at \in notLater
  <2>1. CASE notLater = {}
    BY <1>2, <1>4, <2>1
  <2>2. CASE notLater # {}
    <3>1. notLater \subseteq 1..n
      BY <1>2, <1>3
    <3>2. \E i \in notLater : \A j \in notLater : j <= i
      BY <1>2, <2>2, <3>1, LastPosition
    <3>3. at \in notLater /\ \A j \in notLater : j <= at
      BY <1>4, <2>2, <3>2
    <3> QED
      BY <3>1, <3>3
  <2> QED
    BY <2>1, <2>2
<1>6. PICK ring : ring = SubSeq(s, 1, at) \o <<t>> \o SubSeq(s, at + 1, Len(s))
  OBVIOUS
<1>7. ring \in Seq(Timers) /\ PutBehind(ring, s, t, at)
  BY <1>1, <1>2, <1>5, <1>6, PutIs
<1>8. r = [q EXCEPT !.ring = ring]
  <2> DEFINE nl == {i \in DOMAIN q.ring : q.scheduled[q.ring[i]] <= q.scheduled[t]}
             a == IF nl = {} THEN 0 ELSE CHOOSE i \in nl : \A j \in nl : j <= i
  <2>1. r = [q EXCEPT !.ring = SubSeq(q.ring, 1, a) \o <<t>>
                                   \o SubSeq(q.ring, a + 1, Len(q.ring))]
    BY DEF apt_timer_insert
  <2>3. nl = notLater
    BY <1>1, <1>3
  <2> HIDE DEF nl
  <2>4. a = at
    BY <1>4, <2>3
  <2> HIDE DEF a
  <2>2. ring = SubSeq(q.ring, 1, at) \o <<t>> \o SubSeq(q.ring, at + 1, Len(q.ring))
    BY <1>1, <1>6
  <2> QED
    BY <2>1, <2>2, <2>4
<1>9. /\ r \in TimerQueueType /\ r.ring = ring
      /\ r.scheduled = q.scheduled /\ r.elapsed = q.elapsed /\ r.reset = q.reset
  BY <1>7, <1>8 DEF TimerQueueType
<1>10. /\ DOMAIN ring = 1..(n + 1)
       /\ \A k \in 1..(n + 1) : /\ k <= at => ring[k] = s[k]
                                /\ k = at + 1 => ring[k] = t
                                /\ k > at + 1 => ring[k] = s[k - 1]
  BY <1>1, <1>2, <1>7 DEF PutBehind
<1>11. SetWith(r, q, t)
  <2> SUFFICES ASSUME NEW x \in Timers
               PROVE  (\E k \in 1..(n + 1) : ring[k] = x)
                          <=> (\E i \in 1..n : s[i] = x) \/ x = t
    BY <1>1, <1>2, <1>9, <1>10 DEF SetWith, IsSet
  <2>1. ASSUME NEW i \in 1..n PROVE \E k \in 1..(n + 1) : ring[k] = s[i]
    <3>1. CASE i <= at
      <4>1. i \in 1..(n + 1) /\ ring[i] = s[i]
        BY <1>2, <1>5, <1>10, <3>1
      <4> QED
        BY <4>1
    <3>2. CASE ~(i <= at)
      <4>1. i + 1 \in 1..(n + 1) /\ i + 1 > at + 1 /\ (i + 1) - 1 = i
        BY <1>2, <1>5, <3>2
      <4>2. ring[i + 1] = s[i]
        BY <1>10, <4>1
      <4> QED
        BY <4>1, <4>2
    <3> QED
      BY <3>1, <3>2
  <2>2. at + 1 \in 1..(n + 1) /\ ring[at + 1] = t
    BY <1>2, <1>5, <1>10
  <2>3. ASSUME NEW k \in 1..(n + 1) PROVE ring[k] = t \/ \E i \in 1..n : ring[k] = s[i]
    <3>1. CASE k <= at
      BY <1>2, <1>5, <1>10, <3>1
    <3>2. CASE k > at + 1
      <4>1. k - 1 \in 1..n /\ ring[k] = s[k - 1]
        BY <1>2, <1>5, <1>10, <3>2
      <4> QED
        BY <4>1
    <3> QED
      BY <1>2, <1>5, <1>10, <3>1, <3>2
  <2> QED
    BY <2>1, <2>2, <2>3
<1>12. ASSUME Sorted(q), ~IsSet(q, t) PROVE Sorted(r)
  <2>1. /\ \A i, j \in 1..n : i < j => s[i] # s[j] /\ scheduled[s[i]] <= scheduled[s[j]]
        /\ \A i \in 1..n : s[i] # t
    BY <1>1, <1>2, <1>12 DEF Sorted, IsSet
  <2>2. \A i \in 1..n : i <= at => scheduled[s[i]] <= scheduled[t]
    <3> SUFFICES ASSUME NEW i \in 1..n, i <= at PROVE scheduled[s[i]] <= scheduled[t]
      OBVIOUS
    <3>1. at \in 1..n /\ scheduled[s[at]] <= scheduled[t]
      BY <1>2, <1>3, <1>5
    <3>2. scheduled[s[i]] <= scheduled[s[at]]
      BY <1>2, <1>5, <2>1, <3>1
    <3> QED
      BY <1>2, <3>1, <3>2
  <2>3. \A i \in 1..n : i > at => scheduled[t] <= scheduled[s[i]]
    BY <1>2, <1>3, <1>5
  <2> SUFFICES ASSUME NEW k \in 1..(n + 1), NEW l \in 1..(n + 1), k < l
               PROVE  ring[k] # ring[l] /\ scheduled[ring[k]] <= scheduled[ring[l]]
    BY <1>1, <1>9, <1>10 DEF Sorted
  <2>4. CASE l <= at
    <3>1. k \in 1..n /\ l \in 1..n /\ k <= at
      BY <1>2, <1>5, <2>4
    <3> QED
      BY <1>10, <2>1, <2>4, <3>1
  <2>5. CASE l = at + 1
    <3>1. k \in 1..n /\ k <= at
      BY <1>2, <1>5, <2>5
    <3> QED
      BY <1>10, <2>1, <2>2, <2>5, <3>1
  <2>6. CASE l > at + 1 /\ k = at + 1
    <3>1. l - 1 \in 1..n /\ l - 1 > at
      BY <1>2, <1>5, <2>6
    <3> QED
      BY <1>10, <2>1, <2>3, <2>6, <3>1
  <2>7. CASE l > at + 1 /\ k <= at
    <3>1. l - 1 \in 1..n /\ k \in 1..n /\ k < l - 1
      BY <1>2, <1>5, <2>7
    <3> QED
      BY <1>10, <2>1, <2>7, <3>1
  <2>8. CASE l > at + 1 /\ k > at + 1
    <3>1. l - 1 \in 1..n /\ k - 1 \in 1..n /\ k - 1 < l - 1
      BY <1>2, <1>5, <2>8
    <3> QED
      BY <1>10, <2>1, <2>8, <3>1
  <2> QED
    BY <1>2, <1>5, <2>4, <2>5, <2>6, <2>7, <2>8
<1> QED
  BY <1>9, <1>11, <1>12

(* The periods of the timers fit the range of times.                       *)
LEMMA PeriodFits ==
    ASSUME NEW t \in Timers
    PROVE  /\ Period[t] \in Nat \ {0} /\ RescheduleAt \in Nat \ {0} /\ MaxLate \in Nat
           /\ RescheduleAt + Period[t] + MaxLate <= 2^Width
  BY TimesFit, PollerAssumption, TimerQueueAssumption

(* The elapsed time either stays or is reset, and then no timer but t is   *)
(* left.                                                                   *)
StaysOrResets(r, q, t) ==
    \/ r.elapsed = q.elapsed /\ r.reset = q.reset
    \/ /\ r.elapsed = 0 /\ r.reset = TRUE
       /\ \A x \in Timers : IsSet(r, x) => x = t

(* A timer that is set counts its period from the elapsed time.            *)
LEMMA SetIs ==
    ASSUME NEW q \in TimerQueueType, q.elapsed < RescheduleAt, NEW t \in Timers,
           NEW r, r = apt_timer_set(q, t, Period[t])
    PROVE  /\ r \in TimerQueueType
           /\ r.scheduled[t] = r.elapsed + Period[t]
           /\ \A x \in Timers \ {t} : r.scheduled[x] = q.scheduled[x]
           /\ StaysOrResets(r, q, t)
           /\ SetWith(r, q, t)
           /\ Sorted(q) /\ (IsSet(q, t) => q.scheduled[t] # 0) => Sorted(r)
<1>1. PICK free : free = IF q.scheduled[t] # 0 THEN apt_timer_remove(q, t) ELSE q
  OBVIOUS
<1>2. /\ free \in TimerQueueType
      /\ \A x \in Timers \ {t} : free.scheduled[x] = q.scheduled[x]
      /\ \/ free.elapsed = q.elapsed /\ free.reset = q.reset
         \/ free.elapsed = 0 /\ free.reset = TRUE /\ free.ring = <<>>
      /\ \A x \in Timers \ {t} : IsSet(free, x) <=> IsSet(q, x)
      /\ Sorted(q) => Sorted(free)
      /\ (IsSet(q, t) => q.scheduled[t] # 0) => ~IsSet(free, t)
  <2>1. CASE q.scheduled[t] # 0
    <3>1. free = apt_timer_remove(q, t)
      BY <1>1, <2>1
    <3>2. /\ free \in TimerQueueType
          /\ free.scheduled = [q.scheduled EXCEPT ![t] = 0]
          /\ \/ free.elapsed = q.elapsed /\ free.reset = q.reset
             \/ free.elapsed = 0 /\ free.reset = TRUE /\ free.ring = <<>>
          /\ SetWithout(free, q, t)
          /\ Sorted(q) => Sorted(free)
      BY <3>1, RemoveIs
    <3>3. \A x \in Timers \ {t} : free.scheduled[x] = q.scheduled[x]
      BY <3>2, QueueParts
    <3> QED
      BY <3>2, <3>3 DEF SetWithout
  <2>2. CASE q.scheduled[t] = 0
    BY <1>1, <2>2
  <2> QED
    BY <2>1, <2>2
<1>3. /\ free.elapsed \in Nat /\ free.elapsed < RescheduleAt
      /\ free.scheduled \in [Timers -> Time] /\ q.elapsed \in Nat
  <2>1. free.elapsed \in Nat /\ q.elapsed \in Nat
    BY <1>2, QueueParts, TimeIs
  <2>2. 0 < RescheduleAt
    BY TimerQueueAssumption
  <2> QED
    BY <1>2, <2>1, <2>2, QueueParts
<1>4. PICK at : at = (free.elapsed + Period[t]) % 2^Width
  OBVIOUS
<1>5. at \in Time /\ at = free.elapsed + Period[t]
  <2>1. PICK w : w = 2^Width
    OBVIOUS
  <2>2. w \in Nat \ {0} /\ Time = 0..(w - 1)
    BY <2>1, TimeIs
  <2>3. free.elapsed + Period[t] \in Nat /\ free.elapsed + Period[t] < w
    BY <1>3, <2>1, <2>2, PeriodFits
  <2> QED
    BY <1>4, <2>1, <2>2, <2>3, TimeSum
<1>6. PICK timed : timed = [free EXCEPT !.scheduled[t] = at]
  OBVIOUS
<1>7. /\ timed \in TimerQueueType /\ timed.ring = free.ring
      /\ timed.elapsed = free.elapsed /\ timed.reset = free.reset
      /\ timed.scheduled = [free.scheduled EXCEPT ![t] = at]
  BY <1>2, <1>5, <1>6 DEF TimerQueueType
<1>8. r = apt_timer_insert(timed, t)
  <2>1. ~(Period[t] <= 0)
    BY PeriodFits
  <2> QED
    BY <1>1, <1>4, <1>6, <2>1 DEF apt_timer_set
<1>9. /\ r \in TimerQueueType
      /\ r.scheduled = timed.scheduled /\ r.elapsed = timed.elapsed /\ r.reset = timed.reset
      /\ SetWith(r, timed, t)
      /\ Sorted(timed) /\ ~IsSet(timed, t) => Sorted(r)
  BY <1>7, <1>8, InsertIs
<1>10. \A x : IsSet(timed, x) <=> IsSet(free, x)
  BY <1>7 DEF IsSet
<1>11. r.scheduled[t] = r.elapsed + Period[t]
  BY <1>3, <1>5, <1>7, <1>9
<1>12. \A x \in Timers \ {t} : r.scheduled[x] = q.scheduled[x]
  BY <1>2, <1>3, <1>7, <1>9
<1>13. SetWith(r, q, t)
  BY <1>2, <1>9, <1>10 DEF SetWith
<1>14. StaysOrResets(r, q, t)
  <2>1. CASE free.elapsed = q.elapsed /\ free.reset = q.reset
    BY <1>7, <1>9, <2>1 DEF StaysOrResets
  <2>2. CASE free.elapsed = 0 /\ free.reset = TRUE /\ free.ring = <<>>
    <3>1. \A x : ~IsSet(free, x)
      BY <2>2 DEF IsSet
    <3> QED
      BY <1>7, <1>9, <1>10, <2>2, <3>1 DEF StaysOrResets, SetWith
  <2> QED
    BY <1>2, <2>1, <2>2
<1>15. ASSUME Sorted(q), IsSet(q, t) => q.scheduled[t] # 0 PROVE Sorted(r)
  <2>1. Sorted(free) /\ ~IsSet(free, t)
    BY <1>2, <1>15
  <2>2. \A i \in DOMAIN free.ring : free.ring[i] \in Timers \ {t}
    BY <1>2, <2>1, QueueParts DEF IsSet
  <2>3. \A x \in Timers \ {t} : timed.scheduled[x] = free.scheduled[x]
    BY <1>3, <1>7
  <2>4. Sorted(timed)
    BY <1>7, <2>1, <2>2, <2>3 DEF Sorted
  <2> QED
    BY <1>9, <1>10, <2>1, <2>4
<1> QED
  BY <1>9, <1>11, <1>12, <1>13, <1>14, <1>15

(* A timer that is killed is no longer set; nothing else changes.          *)
LEMMA KillIs ==
    ASSUME NEW q \in TimerQueueType, NEW t \in Timers,
           NEW r, r = apt_timer_kill(q, t)
    PROVE  /\ r \in TimerQueueType
           /\ \A x \in Timers \ {t} : r.scheduled[x] = q.scheduled[x]
           /\ StaysOrResets(r, q, t)
           /\ (IsSet(q, t) => q.scheduled[t] # 0) => SetWithout(r, q, t)
           /\ r.scheduled[t] = 0
           /\ Sorted(q) => Sorted(r)
<1>1. CASE q.scheduled[t] = 0
  <2>1. r = q
    BY <1>1 DEF apt_timer_kill
  <2> QED
    BY <1>1, <2>1 DEF StaysOrResets, SetWithout
<1>2. CASE q.scheduled[t] # 0
  <2>1. r = apt_timer_remove(q, t)
    BY <1>2 DEF apt_timer_kill
  <2>2. /\ r \in TimerQueueType
        /\ r.scheduled = [q.scheduled EXCEPT ![t] = 0]
        /\ \/ r.elapsed = q.elapsed /\ r.reset = q.reset
           \/ r.elapsed = 0 /\ r.reset = TRUE /\ r.ring = <<>>
        /\ SetWithout(r, q, t)
        /\ Sorted(q) => Sorted(r)
    BY <2>1, RemoveIs
  <2>3. r.scheduled[t] = 0 /\ \A x \in Timers \ {t} : r.scheduled[x] = q.scheduled[x]
    BY <2>2, QueueParts
  <2>4. StaysOrResets(r, q, t)
    BY <2>2 DEF StaysOrResets, IsSet
  <2> QED
    BY <2>2, <2>3, <2>4
<1> QED
  BY <1>1, <1>2

(* The first timer of the ring is taken out when it expires.               *)
LEMMA ExpireIs ==
    ASSUME NEW q \in TimerQueueType, q.ring # <<>>, NEW r, r = Expire(q),
           NEW h, h = Head(q.ring)
    PROVE  /\ r \in TimerQueueType /\ h \in Timers /\ IsSet(q, h)
           /\ r.elapsed = q.elapsed /\ r.reset = q.reset
           /\ r.scheduled[h] = 0
           /\ \A x \in Timers \ {h} : r.scheduled[x] = q.scheduled[x]
           /\ Sorted(q) => Sorted(r) /\ SetWithout(r, q, h)
<1>1. PICK s, n : s = q.ring /\ n = Len(s)
  OBVIOUS
<1>2. s \in Seq(Timers) /\ s # <<>> /\ DOMAIN s = 1..n /\ n \in Nat \ {0}
  <2>1. s \in Seq(Timers) /\ s # <<>>
    BY <1>1, QueueParts
  <2> QED
    BY <1>1, <2>1
<1>3. PICK u : u = Tail(s)
  OBVIOUS
<1>4. /\ u \in Seq(Timers) /\ DOMAIN u = 1..(n - 1) /\ h = s[1] /\ h \in Timers
      /\ \A i \in 1..(n - 1) : u[i] = s[i + 1] /\ u[i] \in Timers
  BY <1>1, <1>2, <1>3
<1>5. r = [q EXCEPT !.ring = u, !.scheduled[h] = 0]
  BY <1>1, <1>3 DEF Expire
<1>6. /\ r \in TimerQueueType /\ r.ring = u /\ r.elapsed = q.elapsed /\ r.reset = q.reset
      /\ r.scheduled = [q.scheduled EXCEPT ![h] = 0]
  <2>1. PICK sc : sc = [q.scheduled EXCEPT ![h] = 0]
    OBVIOUS
  <2>2. sc \in [Timers -> Time]
    BY <1>4, <2>1, QueueParts, TimeIs
  <2>3. r = [q EXCEPT !.ring = u, !.scheduled = sc]
    BY <1>5, <2>1 DEF TimerQueueType
  <2>4. r \in TimerQueueType /\ r.ring = u /\ r.elapsed = q.elapsed /\ r.reset = q.reset
        /\ r.scheduled = sc
    BY <1>4, <2>2, <2>3 DEF TimerQueueType
  <2> QED
    BY <2>1, <2>4
<1>7. r.scheduled[h] = 0 /\ \A x \in Timers \ {h} : r.scheduled[x] = q.scheduled[x]
  BY <1>4, <1>6, QueueParts
<1>8. IsSet(q, h)
  BY <1>1, <1>2, <1>4 DEF IsSet
<1>9. ASSUME Sorted(q) PROVE Sorted(r) /\ SetWithout(r, q, h)
  <2>1. \A i, j \in 1..n :
           i < j => s[i] # s[j] /\ q.scheduled[s[i]] <= q.scheduled[s[j]]
    BY <1>1, <1>2, <1>9 DEF Sorted
  <2>2. \A i \in 1..(n - 1) : i + 1 \in 1..n /\ 1 < i + 1 /\ 1 \in 1..n
    BY <1>2
  <2>3. \A i \in 1..(n - 1) : u[i] # h
    BY <1>4, <2>1, <2>2
  <2>4. \A i, j \in 1..(n - 1) : i < j => i + 1 < j + 1
    BY <1>2
  <2>5. \A i, j \in 1..(n - 1) :
           i < j => u[i] # u[j] /\ q.scheduled[u[i]] <= q.scheduled[u[j]]
    BY <1>4, <2>1, <2>2, <2>4
  <2>6. Sorted(r)
    BY <1>4, <1>6, <1>7, <2>3, <2>5 DEF Sorted
  <2>7. ASSUME NEW x \in Timers, IsSet(q, x), x # h PROVE IsSet(r, x)
    <3>1. PICK i \in 1..n : s[i] = x
      BY <1>1, <1>2, <2>7 DEF IsSet
    <3>2. i - 1 \in 1..(n - 1) /\ (i - 1) + 1 = i
      BY <1>2, <1>4, <2>7, <3>1
    <3>3. u[i - 1] = x
      BY <1>4, <3>1, <3>2
    <3> QED
      BY <1>4, <1>6, <3>2, <3>3 DEF IsSet
  <2>8. ASSUME NEW x \in Timers, IsSet(r, x) PROVE IsSet(q, x) /\ x # h
    <3>1. PICK i \in 1..(n - 1) : u[i] = x
      BY <1>4, <1>6, <2>8 DEF IsSet
    <3> QED
      BY <1>1, <1>2, <1>4, <2>2, <2>3, <3>1 DEF IsSet
  <2> QED
    BY <2>6, <2>7, <2>8 DEF SetWithout
<1> QED
  BY <1>4, <1>6, <1>7, <1>8, <1>9

(* When no time is moved back below zero, the times of the timers that are *)
(* set keep their distance from the elapsed time.                          *)
KeepsDistance(r, q, e) ==
    \A x \in Timers : IsSet(q, x) => r.scheduled[x] - r.elapsed = q.scheduled[x] - e

(* The queue is advanced: the ring stays as it is, and no timer comes      *)
(* nearer than the time that has passed.                                   *)
LEMMA AdvanceIs ==
    ASSUME NEW q \in TimerQueueType, q.elapsed < RescheduleAt, NEW time \in Nat,
           NEW r, r = apt_timer_queue_advance(q, time), NEW e, e = q.elapsed + time
    PROVE  /\ r \in TimerQueueType /\ r.elapsed < RescheduleAt
           /\ r.ring = q.ring /\ r.reset = q.reset
           /\ \A x \in Timers : r.scheduled[x] - r.elapsed >= q.scheduled[x] - e
           /\ e < 2^Width /\ ~Underflows(q, time) =>
                 /\ KeepsDistance(r, q, e)
                 /\ \A x \in Timers : ~IsSet(q, x) => r.scheduled[x] = q.scheduled[x]
<1>0. PICK w : w = 2^Width
  OBVIOUS
<1>1. /\ w \in Nat \ {0} /\ Time = 0..(w - 1)
      /\ q.elapsed \in Nat /\ e \in Nat
      /\ \A x \in Timers : q.scheduled[x] \in 0..(w - 1)
      /\ RescheduleAt \in Nat \ {0}
  <2>1. w \in Nat \ {0} /\ Time = 0..(w - 1) /\ Time \subseteq Nat
    BY <1>0, TimeIs
  <2>2. q.elapsed \in Time /\ \A x \in Timers : q.scheduled[x] \in Time
    BY QueueParts
  <2>3. q.elapsed \in Nat
    BY <2>1, <2>2
  <2> QED
    BY <2>1, <2>2, <2>3, TimerQueueAssumption
<1>2. PICK c : c = e % w
  OBVIOUS
<1>3. c \in 0..(w - 1) /\ (e < w => c = e) /\ c <= e
  BY <1>1, <1>2, TimeSum
<1>4. PICK a : a = [q EXCEPT !.elapsed = c]
  OBVIOUS
<1>5. /\ a \in TimerQueueType /\ a.ring = q.ring /\ a.scheduled = q.scheduled
      /\ a.reset = q.reset /\ a.elapsed = c
  <2>1. c \in Time
    BY <1>1, <1>3
  <2> QED
    BY <1>4, <2>1 DEF TimerQueueType
<1>6. r = IF a.elapsed >= RescheduleAt THEN apt_timers_reschedule(a) ELSE a
  BY <1>0, <1>2, <1>4, Zenon DEF apt_timer_queue_advance
<1>7. CASE ~(c >= RescheduleAt)
  <2>1. r = a
    BY <1>5, <1>6, <1>7, Zenon
  <2>2. c < RescheduleAt
    BY <1>1, <1>3, <1>7
  <2>3. \A x \in Timers : q.scheduled[x] - c >= q.scheduled[x] - e
    BY <1>1, <1>3
  <2>4. e < w => \A x \in Timers : q.scheduled[x] - c = q.scheduled[x] - e
    BY <1>3
  <2> QED
    BY <1>0, <1>5, <2>1, <2>2, <2>3, <2>4 DEF KeepsDistance
<1>8. CASE c >= RescheduleAt
  <2>1. r = apt_timers_reschedule(a)
    BY <1>5, <1>6, <1>8, Zenon
  <2>2. PICK sc : sc = [x \in Timers |-> IF IsSet(q, x) THEN (q.scheduled[x] - c) % w
                                         ELSE q.scheduled[x]]
    OBVIOUS
  <2>3. \A x \in Timers : /\ IsSet(q, x) => sc[x] = (q.scheduled[x] - c) % w
                          /\ ~IsSet(q, x) => sc[x] = q.scheduled[x]
    BY <2>2
  <2>4. ASSUME NEW x \in Timers
        PROVE  /\ (q.scheduled[x] - c) % w \in 0..(w - 1)
               /\ q.scheduled[x] >= c => (q.scheduled[x] - c) % w = q.scheduled[x] - c
               /\ (q.scheduled[x] - c) % w >= q.scheduled[x] - c
    BY <1>1, <1>3, TimeDifference, Zenon
  <2>5. sc \in [Timers -> Time]
    <3>1. \A x \in Timers : sc[x] \in 0..(w - 1)
      BY <1>1, <2>3, <2>4
    <3> QED
      BY <1>1, <2>2, <3>1
  <2>6. r = [a EXCEPT !.scheduled = sc, !.elapsed = 0]
    <3>1. sc = [t \in Timers |-> IF \E i \in DOMAIN a.ring : a.ring[i] = t
                                 THEN (a.scheduled[t] - a.elapsed) % 2^Width
                                 ELSE a.scheduled[t]]
      BY <1>0, <1>5, <2>2, Zenon DEF IsSet
    <3> QED
      BY <2>1, <3>1, Zenon DEF apt_timers_reschedule
  <2>7. /\ r \in TimerQueueType /\ r.ring = q.ring /\ r.reset = q.reset
        /\ r.scheduled = sc /\ r.elapsed = 0
    BY <1>5, <2>5, <2>6, TimeIs DEF TimerQueueType
  <2>8. ASSUME NEW x \in Timers PROVE r.scheduled[x] - r.elapsed >= q.scheduled[x] - e
    <3>1. sc[x] >= q.scheduled[x] - c /\ sc[x] \in 0..(w - 1)
      <4>1. CASE IsSet(q, x)
        BY <2>3, <2>4, <4>1
      <4>2. CASE ~IsSet(q, x)
        BY <1>1, <1>3, <2>3, <4>2
      <4> QED
        BY <4>1, <4>2
    <3> QED
      BY <1>1, <1>3, <2>7, <3>1
  <2>9. ASSUME e < w, ~Underflows(q, time) PROVE KeepsDistance(r, q, e)
    <3> SUFFICES ASSUME NEW x \in Timers, IsSet(q, x)
                 PROVE  r.scheduled[x] - r.elapsed = q.scheduled[x] - e
      BY DEF KeepsDistance
    <3>1. c = e
      BY <1>3, <2>9
    <3>2. ~(q.scheduled[x] < q.elapsed + time)
      BY <1>8, <2>9, <3>1 DEF Underflows, IsSet
    <3>3. q.scheduled[x] >= c
      BY <1>1, <3>1, <3>2
    <3>4. sc[x] = q.scheduled[x] - c
      BY <2>3, <2>4, <3>3
    <3> QED
      BY <1>1, <2>7, <3>1, <3>4
  <2>10. r.elapsed < RescheduleAt
    BY <1>1, <2>7
  <2> QED
    BY <1>0, <2>3, <2>7, <2>8, <2>9, <2>10
<1> QED
  BY <1>7, <1>8

(* A ring whose times all move by the same amount stays sorted.            *)
LEMMA MovedSorted ==
    ASSUME NEW q \in TimerQueueType, NEW r \in TimerQueueType, NEW e \in Nat,
           r.ring = q.ring, KeepsDistance(r, q, e), Sorted(q)
    PROVE  Sorted(r)
<1>1. /\ \A x \in Timers : r.scheduled[x] \in Nat /\ q.scheduled[x] \in Nat
      /\ r.elapsed \in Nat
  BY QueueParts, TimeIs
<1>2. \A i \in DOMAIN q.ring : q.ring[i] \in Timers /\ IsSet(q, q.ring[i])
  BY QueueParts DEF IsSet
<1> SUFFICES ASSUME NEW i \in DOMAIN q.ring, NEW j \in DOMAIN q.ring, i < j
             PROVE  /\ q.ring[i] # q.ring[j]
                    /\ r.scheduled[q.ring[i]] <= r.scheduled[q.ring[j]]
  BY DEF Sorted
<1>3. q.ring[i] # q.ring[j] /\ q.scheduled[q.ring[i]] <= q.scheduled[q.ring[j]]
  BY DEF Sorted
<1>4. PICK x \in Timers, y \in Timers : x = q.ring[i] /\ y = q.ring[j]
  BY <1>2
<1>5. /\ r.scheduled[x] - r.elapsed = q.scheduled[x] - e
      /\ r.scheduled[y] - r.elapsed = q.scheduled[y] - e
  BY <1>2, <1>4 DEF KeepsDistance
<1>6. q.scheduled[x] <= q.scheduled[y] => r.scheduled[x] <= r.scheduled[y]
  BY <1>1, <1>5
<1> QED
  BY <1>3, <1>4, <1>6

(* The numbers a timer queue consists of.                                  *)
LEMMA QueueNumbers ==
    ASSUME NEW q \in TimerQueueType
    PROVE  q.elapsed \in Nat /\ \A x \in Timers : q.scheduled[x] \in Nat
  BY QueueParts, TimeIs

(* No timer that is set has elapsed, by the timers instead of positions.   *)
LEMMA AheadIs ==
    ASSUME NEW q \in TimerQueueType
    PROVE  Ahead(q) <=> \A x \in Timers : IsSet(q, x) => q.scheduled[x] > q.elapsed
  BY QueueParts DEF Ahead, IsSet

(* What a handler leaves alone while it runs.                              *)
HandlerRuns ==
    /\ Handler /\ Polling /\ phase # "poll"
    /\ UNCHANGED <<timeout, time_last, clock>>
    /\ phase' = phase

(* The time the queue has reached, before and after a handler.             *)
LEMMA ReachedByHandler ==
    ASSUME TimersType, HandlerRuns, NEW t, StaysOrResets(timer_queue', timer_queue, t),
           timer_queue' \in TimerQueueType
    PROVE  /\ Reached \in Nat /\ Reached' \in Nat /\ Reached <= Reached' /\ Reached' <= clock
           /\ timer_queue'.elapsed \in Nat /\ timer_queue.elapsed \in Nat
           /\ timer_queue'.elapsed <= timer_queue.elapsed
           /\ timer_queue'.elapsed < RescheduleAt
           /\ Reached' = IF Lags(timer_queue') THEN time_last ELSE clock
           /\ \/ timer_queue'.elapsed = timer_queue.elapsed /\ Reached' = Reached
              \/ \A x \in Timers : IsSet(timer_queue', x) => x = t
<1>1. PICK q, r : q = timer_queue /\ r = timer_queue'
  OBVIOUS
<1>2. q.elapsed \in Nat /\ r.elapsed \in Nat
  BY <1>1, QueueNumbers DEF TimersType
<1>3. /\ Polling /\ Polling' /\ timeout' = timeout /\ time_last' = time_last /\ clock' = clock
      /\ clock \in Nat /\ time_last \in Nat /\ time_last <= clock
  BY DEF HandlerRuns, TimersType, Polling
<1>4. /\ Reached = IF timeout # NoTimeout /\ ~q.reset THEN time_last ELSE clock
      /\ Reached' = IF timeout # NoTimeout /\ ~r.reset THEN time_last ELSE clock
  BY <1>1, <1>3 DEF Reached, Lags
<1>5. Reached' = IF Lags(timer_queue') THEN time_last ELSE clock
  BY <1>1, <1>4 DEF Lags
<1>6. CASE r.elapsed = q.elapsed /\ r.reset = q.reset
  BY <1>1, <1>2, <1>3, <1>4, <1>5, <1>6 DEF TimersType
<1>7. CASE r.elapsed = 0 /\ r.reset = TRUE /\ \A x \in Timers : IsSet(r, x) => x = t
  <2>1. 0 < RescheduleAt /\ 0 <= q.elapsed
    BY <1>2, TimerQueueAssumption
  <2> QED
    BY <1>1, <1>2, <1>3, <1>4, <1>5, <1>7, <2>1
<1> QED
  BY <1>1, <1>6, <1>7 DEF StaysOrResets

(* What the handlers leave of the types.                                   *)
LEMMA HandlerType ==
    ASSUME TimersType, HandlerRuns, timer_queue' \in TimerQueueType,
           timer_queue'.elapsed < RescheduleAt,
           due' \in [Timers -> Nat], earliest' \in [Timers -> Nat], lost' \in [Timers -> Nat],
           underflow' = underflow
    PROVE  TimersType'
  BY DEF TimersType, HandlerRuns

(* A handler sets a timer, and none will expire earlier than it should.    *)
LEMMA SetTimerEarly ==
    ASSUME EarlyInv, HandlerRuns, NEW t \in Timers, SetTimer(t)
    PROVE  EarlyInv'
<1>1. PICK q, r : q = timer_queue /\ r = timer_queue'
  OBVIOUS
<1>2. /\ TimersType /\ q \in TimerQueueType /\ q.elapsed < RescheduleAt
      /\ clock \in Nat /\ time_last \in Nat
      /\ due \in [Timers -> Nat] /\ earliest \in [Timers -> Nat] /\ lost \in [Timers -> Nat]
  BY <1>1 DEF EarlyInv, TimersType
<1>3. /\ r = apt_timer_set(q, t, Period[t])
      /\ due' = [due EXCEPT ![t] = clock + 1000 * Period[t]]
      /\ earliest' = [earliest EXCEPT ![t] =
            (IF Lags(timer_queue') THEN time_last ELSE clock) + 1000 * Period[t]]
      /\ lost' = [lost EXCEPT ![t] = 0]
      /\ underflow' = underflow
  BY <1>1 DEF SetTimer
<1>4. /\ r \in TimerQueueType /\ r.scheduled[t] = r.elapsed + Period[t]
      /\ \A x \in Timers \ {t} : r.scheduled[x] = q.scheduled[x]
      /\ StaysOrResets(r, q, t)
  BY <1>2, <1>3, SetIs
<1>5. /\ Reached \in Nat /\ Reached' \in Nat /\ Reached <= Reached'
      /\ r.elapsed \in Nat /\ q.elapsed \in Nat /\ r.elapsed <= q.elapsed
      /\ r.elapsed < RescheduleAt
      /\ Reached' = IF Lags(timer_queue') THEN time_last ELSE clock
  BY <1>1, <1>2, <1>4, ReachedByHandler
<1>6. Period[t] \in Nat
  BY PeriodFits
<1>7. /\ due' \in [Timers -> Nat] /\ earliest' \in [Timers -> Nat] /\ lost' \in [Timers -> Nat]
      /\ earliest'[t] = Reached' + 1000 * Period[t]
      /\ \A x \in Timers \ {t} : due'[x] = due[x] /\ earliest'[x] = earliest[x]
  BY <1>2, <1>3, <1>5, <1>6
<1>8. TimersType'
  BY <1>1, <1>2, <1>3, <1>4, <1>5, <1>7, HandlerType
<1>9. ASSUME NEW x \in Timers, due'[x] # 0
      PROVE  1000 * (r.scheduled[x] - r.elapsed) >= earliest'[x] - Reached'
  <2>1. CASE x = t
    BY <1>4, <1>5, <1>6, <1>7, <2>1
  <2>2. CASE x # t
    <3>1. /\ 1000 * (q.scheduled[x] - q.elapsed) >= earliest[x] - Reached
          /\ r.scheduled[x] = q.scheduled[x] /\ earliest'[x] = earliest[x]
      BY <1>1, <1>4, <1>7, <1>9, <2>2 DEF EarlyInv, NotEarlier
    <3>2. q.scheduled[x] \in Nat /\ earliest[x] \in Nat
      BY <1>2, QueueNumbers
    <3> QED
      BY <1>5, <3>1, <3>2
  <2> QED
    BY <2>1, <2>2
<1> QED
  BY <1>1, <1>8, <1>9 DEF EarlyInv, NotEarlier

(* A handler kills a timer.                                                *)
LEMMA KillTimerEarly ==
    ASSUME EarlyInv, HandlerRuns, NEW t \in Timers, KillTimer(t)
    PROVE  EarlyInv'
<1>1. PICK q, r : q = timer_queue /\ r = timer_queue'
  OBVIOUS
<1>2. /\ TimersType /\ q \in TimerQueueType
      /\ due \in [Timers -> Nat] /\ earliest \in [Timers -> Nat] /\ lost \in [Timers -> Nat]
  BY <1>1 DEF EarlyInv, TimersType
<1>3. /\ r = apt_timer_kill(q, t)
      /\ due' = [due EXCEPT ![t] = 0] /\ earliest' = [earliest EXCEPT ![t] = 0]
      /\ lost' = [lost EXCEPT ![t] = 0] /\ underflow' = underflow
  BY <1>1 DEF KillTimer
<1>4. /\ r \in TimerQueueType
      /\ \A x \in Timers \ {t} : r.scheduled[x] = q.scheduled[x]
      /\ StaysOrResets(r, q, t)
  BY <1>2, <1>3, KillIs
<1>5. /\ Reached \in Nat /\ Reached' \in Nat /\ Reached <= Reached'
      /\ r.elapsed \in Nat /\ q.elapsed \in Nat /\ r.elapsed <= q.elapsed
      /\ r.elapsed < RescheduleAt
  BY <1>1, <1>2, <1>4, ReachedByHandler
<1>6. /\ due' \in [Timers -> Nat] /\ earliest' \in [Timers -> Nat] /\ due'[t] = 0
      /\ lost' \in [Timers -> Nat]
      /\ \A x \in Timers \ {t} : due'[x] = due[x] /\ earliest'[x] = earliest[x]
  BY <1>2, <1>3
<1>7. TimersType'
  BY <1>1, <1>2, <1>3, <1>4, <1>5, <1>6, HandlerType
<1>8. ASSUME NEW x \in Timers, due'[x] # 0
      PROVE  1000 * (r.scheduled[x] - r.elapsed) >= earliest'[x] - Reached'
  <2>1. x # t
    BY <1>6, <1>8
  <2>2. /\ 1000 * (q.scheduled[x] - q.elapsed) >= earliest[x] - Reached
        /\ r.scheduled[x] = q.scheduled[x] /\ earliest'[x] = earliest[x]
    BY <1>1, <1>4, <1>6, <1>8, <2>1 DEF EarlyInv, NotEarlier
  <2>3. q.scheduled[x] \in Nat /\ earliest[x] \in Nat
    BY <1>2, QueueNumbers
  <2> QED
    BY <1>5, <2>2, <2>3
<1> QED
  BY <1>1, <1>7, <1>8 DEF EarlyInv, NotEarlier

(* Time that passes makes no timer early.                                  *)
LEMMA EarlyLater ==
    ASSUME EarlyInv, TimersType', Reached <= Reached', due' = due, earliest' = earliest,
           timer_queue'.scheduled = timer_queue.scheduled,
           timer_queue'.elapsed = timer_queue.elapsed
    PROVE  EarlyInv'
<1>1. /\ timer_queue.elapsed \in Nat
      /\ \A x \in Timers : timer_queue.scheduled[x] \in Nat /\ earliest[x] \in Nat
  BY QueueNumbers DEF EarlyInv, TimersType
<1>2. Reached \in Nat /\ Reached' \in Nat
  BY DEF EarlyInv, TimersType, Reached
<1>3. ASSUME NEW x \in Timers, due'[x] # 0
      PROVE  1000 * (timer_queue'.scheduled[x] - timer_queue'.elapsed) >= earliest'[x] - Reached'
  <2>1. 1000 * (timer_queue.scheduled[x] - timer_queue.elapsed) >= earliest[x] - Reached
    BY <1>3 DEF EarlyInv, NotEarlier
  <2> QED
    BY <1>1, <1>2, <2>1
<1> QED
  BY <1>3 DEF EarlyInv, NotEarlier

(* The timeout of a poll is the time left to the head of the ring.         *)
LEMMA TimeoutIs ==
    ASSUME NEW q \in TimerQueueType
    PROVE  /\ QueueTimeout(q) \in Nat \cup {NoTimeout}
           /\ QueueTimeout(q) = NoTimeout <=> q.ring = <<>>
           /\ q.ring # <<>> => /\ Head(q.ring) \in Timers /\ IsSet(q, Head(q.ring))
           /\ q.ring # <<>> /\ q.scheduled[Head(q.ring)] >= q.elapsed =>
                 QueueTimeout(q) = q.scheduled[Head(q.ring)] - q.elapsed
<1>1. CASE q.ring = <<>>
  BY <1>1 DEF QueueTimeout
<1>2. CASE q.ring # <<>>
  <2>1. PICK h : h = Head(q.ring)
    OBVIOUS
  <2>2. h \in Timers /\ IsSet(q, h)
    BY <1>2, <2>1, ExpireIs
  <2>3. PICK w : w = 2^Width
    OBVIOUS
  <2>4. w \in Nat \ {0} /\ q.scheduled[h] \in 0..(w - 1) /\ q.elapsed \in 0..(w - 1)
    BY <2>2, <2>3, QueueParts, TimeIs
  <2>5. PICK d : d = (q.scheduled[h] - q.elapsed) % w
    OBVIOUS
  <2>6. d \in 0..(w - 1) /\ (q.scheduled[h] >= q.elapsed => d = q.scheduled[h] - q.elapsed)
    BY <2>4, <2>5, TimeDifference
  <2>7. QueueTimeout(q) = d
    BY <1>2, <2>1, <2>3, <2>5 DEF QueueTimeout
  <2>8. d \in Nat /\ d # NoTimeout
    BY <2>4, <2>6 DEF NoTimeout
  <2> QED
    BY <1>2, <2>1, <2>2, <2>6, <2>7, <2>8
<1> QED
  BY <1>1, <1>2

(* The poll begins.                                                        *)
LEMMA WaitEarly ==
    ASSUME EarlyInv, Wait
    PROVE  EarlyInv'
<1>1. PICK q, r : q = timer_queue /\ r = timer_queue'
  OBVIOUS
<1>2. q \in TimerQueueType /\ r = [q EXCEPT !.reset = FALSE]
  BY <1>1 DEF EarlyInv, TimersType, Wait, apt_timer_queue_timeout_get
<1>3. /\ r \in TimerQueueType /\ r.scheduled = q.scheduled /\ r.elapsed = q.elapsed
      /\ r.ring = q.ring /\ r.reset = FALSE
  BY <1>2 DEF TimerQueueType
<1>4. /\ phase = "wait" /\ phase' = "poll" /\ timeout' = QueueTimeout(q)
      /\ time_last' = (IF timeout' = NoTimeout THEN time_last ELSE clock)
      /\ clock' = clock /\ due' = due /\ earliest' = earliest /\ underflow' = underflow
      /\ lost' = lost
  BY <1>1 DEF Wait
<1>5. timeout' \in Nat \cup {NoTimeout}
  BY <1>2, <1>4, TimeoutIs
<1>6. TimersType'
  BY <1>1, <1>3, <1>4, <1>5 DEF EarlyInv, TimersType
<1>7. Reached = clock /\ Reached' = clock
  BY <1>4 DEF Reached, Polling, Lags
<1>8. Reached <= Reached'
  BY <1>7 DEF EarlyInv, TimersType
<1> QED
  BY <1>1, <1>3, <1>4, <1>6, <1>8, EarlyLater

(* Whole milliseconds, and what is left.                                   *)
LEMMA Milliseconds ==
    ASSUME NEW n \in Nat
    PROVE  /\ n \div 1000 \in Nat /\ n % 1000 \in Nat
           /\ n = 1000 * (n \div 1000) + (n % 1000)
  OBVIOUS

(* Lost time is added to what each timer that is set has lost.             *)
LEMMA LoseIs ==
    ASSUME TimersType, NEW n \in Nat
    PROVE  /\ Lose(n) \in [Timers -> Nat]
           /\ \A t \in Timers : due[t] # 0 => Lose(n)[t] = lost[t] + n
<1>1. lost \in [Timers -> Nat] /\ due \in [Timers -> Nat]
  BY DEF TimersType
<1> QED
  BY <1>1 DEF Lose

(* The queue is advanced by the time since the poll began, or is empty or  *)
(* has been reset.                                                         *)
LEMMA AdvanceEarly ==
    ASSUME EarlyInv, Advance
    PROVE  EarlyInv'
<1>1. PICK q, r : q = timer_queue /\ r = timer_queue'
  OBVIOUS
<1>2. /\ q \in TimerQueueType /\ q.elapsed < RescheduleAt /\ q.elapsed \in Nat
      /\ clock \in Nat /\ time_last \in Nat /\ time_last <= clock
      /\ due \in [Timers -> Nat] /\ earliest \in [Timers -> Nat] /\ underflow \in BOOLEAN
  BY <1>1, QueueNumbers DEF EarlyInv, TimersType
<1>3. /\ due' = due /\ earliest' = earliest /\ clock' = clock /\ time_last' = time_last
      /\ timeout' = timeout /\ phase = "process"
  BY DEF Advance
<1>4. CASE timeout # NoTimeout /\ clock > time_last /\ Advances(timer_queue)
  <2>1. PICK time, rest, e : time = Passed /\ rest = Rest /\ e = q.elapsed + time
    OBVIOUS
  <2>2. /\ time \in Nat /\ rest \in Nat /\ e \in Nat
        /\ clock - time_last = 1000 * time + rest
    <3>1. clock - time_last \in Nat
      BY <1>2
    <3>2. time \in Nat /\ rest \in Nat /\ clock - time_last = 1000 * time + rest
      BY <2>1, <3>1, Milliseconds DEF Passed, Rest
    <3> QED
      BY <1>2, <2>1, <3>2
  <2>3. /\ r = apt_timer_queue_advance(q, time) /\ phase' = "expire"
        /\ underflow' \in BOOLEAN /\ lost' = Lose(rest)
    BY <1>1, <1>4, <2>1, Zenon DEF Advance
  <2>4. /\ r \in TimerQueueType /\ r.elapsed < RescheduleAt
        /\ \A x \in Timers : r.scheduled[x] - r.elapsed >= q.scheduled[x] - e
    BY <1>2, <2>1, <2>2, <2>3, AdvanceIs
  <2>5. TimersType'
    <3>1. lost' \in [Timers -> Nat]
      BY <2>2, <2>3, LoseIs DEF EarlyInv
    <3> QED
      BY <1>1, <1>3, <2>3, <2>4, <3>1 DEF EarlyInv, TimersType
  <2>6. Reached = time_last /\ Reached' = clock
    BY <1>1, <1>3, <1>4, <2>3 DEF Reached, Polling, Lags, Advances
  <2>7. ASSUME NEW x \in Timers, due'[x] # 0
        PROVE  1000 * (r.scheduled[x] - r.elapsed) >= earliest'[x] - Reached'
    <3>1. 1000 * (q.scheduled[x] - q.elapsed) >= earliest[x] - time_last
      BY <1>1, <1>3, <2>6, <2>7 DEF EarlyInv, NotEarlier
    <3>2. r.scheduled[x] - r.elapsed >= q.scheduled[x] - e
      BY <2>4
    <3>3. q.scheduled[x] \in Nat /\ r.scheduled[x] \in Nat /\ r.elapsed \in Nat
          /\ earliest[x] \in Nat
      BY <1>2, <2>4, QueueNumbers
    <3> QED
      BY <1>2, <1>3, <2>1, <2>2, <2>6, <3>1, <3>2, <3>3
  <2> QED
    BY <1>1, <2>5, <2>7 DEF EarlyInv, NotEarlier
<1>5. CASE ~(timeout # NoTimeout /\ clock > time_last /\ Advances(timer_queue))
  <2>1. phase' = "wait" /\ timer_queue' = timer_queue /\ underflow' = underflow
        /\ lost' = lost
    BY <1>5 DEF Advance
  <2>2. TimersType'
    BY <1>3, <2>1 DEF EarlyInv, TimersType
  <2>3. Reached <= Reached'
    BY <1>2, <1>3, <2>1 DEF Reached, Polling
  <2> QED
    BY <1>3, <2>1, <2>2, <2>3, EarlyLater
<1> QED
  BY <1>4, <1>5

(* A timer that has elapsed has run for its time.                          *)
LEMMA ExpireEarly ==
    ASSUME EarlyInv, ExpireTimer
    PROVE  /\ EarlyInv'
           /\ \A t \in Timers : due[t] # 0 /\ due'[t] = 0 => clock >= earliest[t]
<1>1. PICK q, r, h : q = timer_queue /\ r = timer_queue' /\ h = Head(timer_queue.ring)
  OBVIOUS
<1>2. /\ q \in TimerQueueType /\ q.elapsed \in Nat
      /\ due \in [Timers -> Nat] /\ earliest \in [Timers -> Nat] /\ clock \in Nat
      /\ lost \in [Timers -> Nat]
  BY <1>1, QueueNumbers DEF EarlyInv, TimersType
<1>3. /\ q.ring # <<>> /\ q.scheduled[h] <= q.elapsed /\ r = Expire(q) /\ phase = "expire"
      /\ due' = [due EXCEPT ![h] = 0] /\ earliest' = [earliest EXCEPT ![h] = 0]
      /\ lost' = [lost EXCEPT ![h] = 0]
      /\ UNCHANGED <<underflow, phase, timeout, time_last, clock>>
  BY <1>1 DEF ExpireTimer, Elapsed, poll_vars
<1>4. /\ r \in TimerQueueType /\ h \in Timers /\ r.elapsed = q.elapsed
      /\ \A x \in Timers \ {h} : r.scheduled[x] = q.scheduled[x]
  BY <1>1, <1>2, <1>3, ExpireIs
<1>5. /\ due' \in [Timers -> Nat] /\ earliest' \in [Timers -> Nat] /\ due'[h] = 0
      /\ lost' \in [Timers -> Nat]
      /\ \A x \in Timers \ {h} : due'[x] = due[x] /\ earliest'[x] = earliest[x]
  BY <1>2, <1>3, <1>4
<1>6. TimersType'
  BY <1>1, <1>3, <1>4, <1>5 DEF EarlyInv, TimersType
<1>7. Reached = clock /\ Reached' = clock
  BY <1>3 DEF Reached, Polling
<1>8. \A x \in Timers : due[x] # 0 => 1000 * (q.scheduled[x] - q.elapsed) >= earliest[x] - clock
  BY <1>1, <1>7 DEF EarlyInv, NotEarlier
<1>9. \A x \in Timers : due'[x] # 0 => 1000 * (r.scheduled[x] - r.elapsed) >= earliest'[x] - Reached'
  BY <1>4, <1>5, <1>7, <1>8
<1>10. ASSUME NEW t \in Timers, due[t] # 0, due'[t] = 0 PROVE clock >= earliest[t]
  <2>1. t = h
    BY <1>5, <1>10
  <2>2. 1000 * (q.scheduled[t] - q.elapsed) >= earliest[t] - clock /\ q.scheduled[t] <= q.elapsed
    BY <1>3, <1>8, <1>10, <2>1
  <2>3. q.scheduled[t] \in Nat /\ earliest[t] \in Nat
    BY <1>2, QueueNumbers
  <2> QED
    BY <1>2, <2>2, <2>3
<1> QED
  BY <1>1, <1>6, <1>9, <1>10 DEF EarlyInv, NotEarlier

(* The steps that leave the timers alone, whatever time passes.            *)
LEMMA OtherEarly ==
    ASSUME EarlyInv, UNCHANGED <<timer_queue, due, earliest, underflow, timeout, time_last>>,
           lost' \in [Timers -> Nat], clock' \in Nat, clock <= clock',
           phase' \in {"wait", "poll", "process", "drain", "messages", "expire"},
           phase' \in {"wait", "expire"} \/ (Polling' <=> Polling)
    PROVE  EarlyInv'
<1>1. TimersType'
  BY DEF EarlyInv, TimersType
<1>2. Reached <= Reached'
  <2>1. /\ clock \in Nat /\ time_last \in Nat /\ time_last <= clock /\ clock <= clock'
        /\ clock' \in Nat /\ time_last' = time_last
    BY DEF EarlyInv, TimersType
  <2>2. Lags(timer_queue)' = Lags(timer_queue)
    BY DEF Lags
  <2>3. CASE phase' \in {"wait", "expire"}
    <3>1. Reached' = clock' /\ Reached \in {time_last, clock}
      BY <2>3 DEF Reached, Polling
    <3> QED
      BY <2>1, <3>1
  <2>4. CASE Polling' <=> Polling
    BY <2>1, <2>2, <2>4 DEF Reached
  <2> QED
    BY <2>3, <2>4
<1> QED
  BY <1>1, <1>2, EarlyLater

(* A step that leaves the timers and the clock alone.                      *)
LEMMA IdleEarly ==
    ASSUME EarlyInv, UNCHANGED timer_vars, UNCHANGED <<timeout, time_last, clock>>,
           phase' \in {"wait", "poll", "process", "drain", "messages", "expire"},
           phase' \in {"wait", "expire"} \/ (Polling' <=> Polling)
    PROVE  EarlyInv'
<1>1. lost \in [Timers -> Nat] /\ clock \in Nat
  BY DEF EarlyInv, TimersType
<1> QED
  BY <1>1, OtherEarly DEF timer_vars

(* Time passes.                                                            *)
LEMMA TickEarly ==
    ASSUME EarlyInv, Tick
    PROVE  EarlyInv'
<1>1. TimersType /\ lost \in [Timers -> Nat] /\ clock \in Nat
  BY DEF EarlyInv, TimersType
<1>2. PICK step \in Steps :
         /\ clock' = clock + step
         /\ lost' = IF Lags(timer_queue) THEN lost ELSE Lose(step)
  BY DEF Tick
<1>3. step \in Nat
  BY PollerAssumption
<1>4. lost' \in [Timers -> Nat] /\ clock' \in Nat /\ clock <= clock'
  BY <1>1, <1>2, <1>3, LoseIs
<1> QED
  BY <1>4, OtherEarly DEF Tick, Polling

(* A poll fails.                                                           *)
LEMMA PollFailsEarly ==
    ASSUME EarlyInv, PollFails
    PROVE  EarlyInv'
<1>1. /\ TimersType /\ lost \in [Timers -> Nat] /\ clock \in Nat
      /\ clock - time_last \in Nat
  BY DEF EarlyInv, TimersType
<1>2. lost' \in [Timers -> Nat]
  BY <1>1, LoseIs DEF PollFails
<1> QED
  BY <1>1, <1>2, OtherEarly DEF PollFails

(* Every step of the task.                                                 *)
LEMMA NextEarly ==
    ASSUME EarlyInv, [Next]_vars
    PROVE  EarlyInv'
<1>1. CASE HandlerRuns
  <2>1. CASE UNCHANGED timer_vars
    BY <1>1, <2>1, IdleEarly DEF HandlerRuns, Polling
  <2>2. CASE ~UNCHANGED timer_vars
    BY <1>1, <2>2, SetTimerEarly, KillTimerEarly DEF HandlerRuns, Handler
  <2> QED
    BY <2>1, <2>2
<1>2. CASE MsgSignal \/ UNCHANGED vars
  <2>1. UNCHANGED timer_vars /\ UNCHANGED poll_vars
    BY <1>2 DEF MsgSignal, vars
  <2> QED
    BY <2>1, IdleEarly DEF poll_vars, Polling, EarlyInv, TimersType
<1>3. CASE Tick
  BY <1>3, TickEarly
<1>4. CASE Wait
  BY <1>4, WaitEarly
<1>5. CASE Poll
  BY <1>5, IdleEarly DEF Poll, Polling
<1>6. CASE IsWakeup
  BY <1>6, IdleEarly DEF IsWakeup, Polling
<1>7. CASE ProcessMessage
  BY <1>1, <1>7 DEF ProcessMessage, HandlerRuns, Polling, poll_vars
<1>8. CASE NoMoreMessages
  BY <1>8, IdleEarly DEF NoMoreMessages, Polling
<1>9. CASE ProcessSocket
  BY <1>1, <1>9 DEF ProcessSocket, HandlerRuns, Polling
<1>10. CASE Advance
  BY <1>10, AdvanceEarly
<1>11. CASE ExpireTimer
  BY <1>11, ExpireEarly
<1>12. CASE EndAdvance
  BY <1>12, IdleEarly DEF EndAdvance, Polling
<1>13. CASE PollFails
  BY <1>13, PollFailsEarly
<1> QED
  BY <1>2, <1>3, <1>4, <1>5, <1>6, <1>7, <1>8, <1>9, <1>10, <1>11, <1>12,
     <1>13 DEF Next, Loop

(* The queue when it is created.                                           *)
LEMMA CreatedTimers ==
    ASSUME Init
    PROVE  /\ TimersType /\ NotEarlier /\ OnTime
<1>1. PICK q : q = timer_queue
  OBVIOUS
<1>2. q = [ring |-> <<>>, scheduled |-> [t \in Timers |-> 0], elapsed |-> 0, reset |-> FALSE]
  BY <1>1 DEF Init, apt_timer_queue_create
<1>3. /\ q \in TimerQueueType /\ q.ring = <<>> /\ q.elapsed = 0
      /\ \A t \in Timers : q.scheduled[t] = 0
  BY <1>2, TimeIs DEF TimerQueueType
<1>4. 0 < RescheduleAt
  BY TimerQueueAssumption
<1>5. TimersType
  <2>1. due \in [Timers -> Nat] /\ earliest \in [Timers -> Nat] /\ lost \in [Timers -> Nat]
    BY DEF Init
  <2>2. /\ clock = 0 /\ time_last = 0 /\ timeout = NoTimeout /\ phase = "wait"
        /\ underflow = FALSE
    BY DEF Init
  <2> QED
    <3>1. timer_queue \in TimerQueueType /\ timer_queue.elapsed < RescheduleAt
      BY <1>1, <1>3, <1>4
    <3>2. /\ clock \in Nat /\ time_last \in Nat /\ time_last <= clock
          /\ timeout \in Nat \cup {NoTimeout}
          /\ phase \in {"wait", "poll", "process", "drain", "messages", "expire"}
      BY <2>2
    <3>3. underflow \in BOOLEAN
      BY <2>2, Zenon
    <3> QED
      BY <2>1, <3>1, <3>2, <3>3, Zenon DEF TimersType
<1>6. \A t \in Timers : due[t] = 0
  BY DEF Init
<1>7. \A t : ~IsSet(q, t)
  BY <1>3 DEF IsSet
<1>8. Sorted(q) /\ Ahead(q)
  BY <1>3 DEF Sorted, Ahead
<1>9. phase = "wait"
  BY DEF Init
<1>10. InRing(q) /\ Within(q) /\ NotLater /\ DueIsSet /\ NotEarlier
  BY <1>1, <1>3, <1>6, <1>7 DEF InRing, Within, NotLater, DueIsSet, NotEarlier
<1> QED
  BY <1>1, <1>5, <1>8, <1>9, <1>10 DEF OnTime, RingInv, PollInTime, PollIsIdle, Polling

(* A timer never expires before its period has passed since the poll it    *)
(* was set in began, even when times are moved back below zero             *)
(* (apt_timer_queue.c 72 and 174).                                         *)
THEOREM TimersNotTooEarly == Spec => NotTooEarly
<1>1. Init => EarlyInv
  BY CreatedTimers DEF EarlyInv
<1>2. EarlyInv /\ [Next]_vars => EarlyInv'
  BY NextEarly
<1>3. EarlyInv /\ [Next]_vars =>
         [\A t \in Timers :
             phase = "expire" /\ due[t] # 0 /\ due'[t] = 0 => clock >= earliest[t]]_vars
  <2> SUFFICES ASSUME EarlyInv, [Next]_vars, NEW t \in Timers,
                      phase = "expire", due[t] # 0, due'[t] = 0
               PROVE  clock >= earliest[t]
    OBVIOUS
  <2>1. CASE ExpireTimer
    BY <2>1, ExpireEarly
  <2>2. CASE ~ExpireTimer
    <3>1. due' = due
      BY <2>2 DEF Next, Loop, MsgSignal, Wait, Tick, Poll, PollFails, IsWakeup, ProcessMessage,
         NoMoreMessages, ProcessSocket, Advance, EndAdvance, timer_vars, vars
    <3> QED
      BY <3>1
  <2> QED
    BY <2>1, <2>2
<1> QED
  BY <1>1, <1>2, <1>3, PTL DEF Spec, NotTooEarly

(* What the invariants say of one timer.                                   *)
LEMMA OnTimeIs ==
    ASSUME TimersType, OnTime, phase # "expire", NEW x \in Timers
    PROVE  /\ IsSet(timer_queue, x) =>
                 /\ timer_queue.scheduled[x] > timer_queue.elapsed
                 /\ timer_queue.scheduled[x] # 0
                 /\ timer_queue.scheduled[x] <= timer_queue.elapsed + Period[x]
                 /\ 1000 * (timer_queue.scheduled[x] - timer_queue.elapsed) <= due[x] + lost[x] - Reached
           /\ timer_queue.scheduled[x] # 0 => IsSet(timer_queue, x)
           /\ due[x] # 0 <=> IsSet(timer_queue, x)
<1>1. PICK q : q = timer_queue
  OBVIOUS
<1>2. q \in TimerQueueType /\ q.elapsed \in Nat /\ q.scheduled[x] \in Nat
  BY <1>1, QueueNumbers DEF TimersType
<1>3. Ahead(q) /\ InRing(q) /\ Within(q) /\ NotLater /\ DueIsSet
  BY <1>1 DEF OnTime, RingInv
<1>4. ASSUME IsSet(q, x) PROVE q.scheduled[x] > q.elapsed /\ q.scheduled[x] # 0
  <2>1. q.scheduled[x] > q.elapsed
    BY <1>2, <1>3, <1>4, AheadIs
  <2> QED
    BY <1>2, <2>1
<1> QED
  BY <1>1, <1>3, <1>4 DEF InRing, Within, NotLater, DueIsSet

(* A handler sets a timer, and all will be found when they are due.        *)
LEMMA SetTimerOnTime ==
    ASSUME TimersType, OnTime, HandlerRuns, NEW t \in Timers, SetTimer(t)
    PROVE  OnTime'
<1>1. PICK q, r : q = timer_queue /\ r = timer_queue'
  OBVIOUS
<1>2. /\ q \in TimerQueueType /\ q.elapsed < RescheduleAt /\ clock \in Nat
      /\ due \in [Timers -> Nat] /\ lost \in [Timers -> Nat] /\ phase # "expire" /\ Sorted(q)
  BY <1>1 DEF TimersType, HandlerRuns, Polling, OnTime, RingInv
<1>3. /\ r = apt_timer_set(q, t, Period[t])
      /\ due' = [due EXCEPT ![t] = clock + 1000 * Period[t]] /\ lost' = [lost EXCEPT ![t] = 0]
  BY <1>1 DEF SetTimer
<1>4. /\ r \in TimerQueueType /\ r.scheduled[t] = r.elapsed + Period[t]
      /\ \A x \in Timers \ {t} : r.scheduled[x] = q.scheduled[x]
      /\ StaysOrResets(r, q, t) /\ SetWith(r, q, t)
      /\ Sorted(q) /\ (IsSet(q, t) => q.scheduled[t] # 0) => Sorted(r)
  BY <1>2, <1>3, SetIs
<1>5. Sorted(r)
  BY <1>1, <1>2, <1>4, OnTimeIs
<1>6. /\ Reached' \in Nat /\ Reached' <= clock
      /\ r.elapsed \in Nat /\ q.elapsed \in Nat
      /\ \/ r.elapsed = q.elapsed /\ Reached' = Reached
         \/ \A x \in Timers : IsSet(r, x) => x = t
  BY <1>1, <1>2, <1>4, ReachedByHandler
<1>7. Period[t] \in Nat \ {0}
  BY PeriodFits
<1>8. /\ due'[t] = clock + 1000 * Period[t] /\ lost'[t] = 0 /\ due'[t] # 0
      /\ \A x \in Timers \ {t} : due'[x] = due[x] /\ lost'[x] = lost[x]
  BY <1>2, <1>3, <1>7
<1>9. ASSUME NEW x \in Timers
      PROVE  /\ IsSet(r, x) => /\ r.scheduled[x] > r.elapsed
                               /\ r.scheduled[x] <= r.elapsed + Period[x]
                               /\ 1000 * (r.scheduled[x] - r.elapsed) <= due'[x] + lost'[x] - Reached'
             /\ r.scheduled[x] # 0 => IsSet(r, x)
             /\ due'[x] # 0 <=> IsSet(r, x)
  <2>1. CASE x = t
    <3>1. IsSet(r, x)
      BY <1>4, <2>1 DEF SetWith
    <3>2. r.scheduled[x] > r.elapsed /\ r.scheduled[x] <= r.elapsed + Period[x]
      BY <1>4, <1>6, <1>7, <2>1
    <3>3. 1000 * (r.scheduled[x] - r.elapsed) <= due'[x] + lost'[x] - Reached'
      BY <1>2, <1>4, <1>6, <1>7, <1>8, <2>1
    <3> QED
      BY <1>8, <2>1, <3>1, <3>2, <3>3
  <2>2. CASE x # t
    <3>1. /\ IsSet(q, x) => /\ q.scheduled[x] > q.elapsed
                            /\ q.scheduled[x] <= q.elapsed + Period[x]
                            /\ 1000 * (q.scheduled[x] - q.elapsed) <= due[x] + lost[x] - Reached
          /\ q.scheduled[x] # 0 => IsSet(q, x)
          /\ due[x] # 0 <=> IsSet(q, x)
      BY <1>1, <1>2, OnTimeIs
    <3>2. (IsSet(r, x) <=> IsSet(q, x)) /\ r.scheduled[x] = q.scheduled[x]
          /\ due'[x] = due[x] /\ lost'[x] = lost[x]
      BY <1>4, <1>8, <2>2 DEF SetWith
    <3>3. IsSet(r, x) => r.elapsed = q.elapsed /\ Reached' = Reached
      BY <1>6, <2>2
    <3> QED
      BY <3>1, <3>2, <3>3
  <2> QED
    BY <2>1, <2>2
<1>10. RingInv'
  <2>1. Ahead(r) /\ InRing(r) /\ Within(r)
    BY <1>4, <1>9, AheadIs DEF InRing, Within
  <2> QED
    BY <1>1, <1>5, <2>1 DEF RingInv
<1>11. NotLater' /\ DueIsSet'
  BY <1>1, <1>9 DEF NotLater, DueIsSet
<1>12. PollInTime' /\ PollIsIdle'
  BY DEF OnTime, PollInTime, PollIsIdle, HandlerRuns, Polling
<1> QED
  BY <1>10, <1>11, <1>12 DEF OnTime

(* A handler kills a timer.                                                *)
LEMMA KillTimerOnTime ==
    ASSUME TimersType, OnTime, HandlerRuns, NEW t \in Timers, KillTimer(t)
    PROVE  OnTime'
<1>1. PICK q, r : q = timer_queue /\ r = timer_queue'
  OBVIOUS
<1>2. /\ q \in TimerQueueType /\ phase # "expire" /\ Sorted(q)
      /\ due \in [Timers -> Nat] /\ lost \in [Timers -> Nat]
  BY <1>1 DEF TimersType, HandlerRuns, Polling, OnTime, RingInv
<1>3. /\ r = apt_timer_kill(q, t) /\ due' = [due EXCEPT ![t] = 0]
      /\ lost' = [lost EXCEPT ![t] = 0]
  BY <1>1 DEF KillTimer
<1>4. /\ r \in TimerQueueType
      /\ \A x \in Timers \ {t} : r.scheduled[x] = q.scheduled[x]
      /\ StaysOrResets(r, q, t)
      /\ (IsSet(q, t) => q.scheduled[t] # 0) => SetWithout(r, q, t)
      /\ r.scheduled[t] = 0 /\ Sorted(r)
  BY <1>2, <1>3, KillIs
<1>5. SetWithout(r, q, t)
  BY <1>1, <1>2, <1>4, OnTimeIs
<1>6. \/ r.elapsed = q.elapsed /\ Reached' = Reached
      \/ \A x \in Timers : IsSet(r, x) => x = t
  BY <1>1, <1>2, <1>4, ReachedByHandler
<1>7. due'[t] = 0 /\ \A x \in Timers \ {t} : due'[x] = due[x] /\ lost'[x] = lost[x]
  BY <1>2, <1>3
<1>8. ASSUME NEW x \in Timers
      PROVE  /\ IsSet(r, x) => /\ r.scheduled[x] > r.elapsed
                               /\ r.scheduled[x] <= r.elapsed + Period[x]
                               /\ 1000 * (r.scheduled[x] - r.elapsed) <= due'[x] + lost'[x] - Reached'
             /\ r.scheduled[x] # 0 => IsSet(r, x)
             /\ due'[x] # 0 <=> IsSet(r, x)
  <2>1. CASE x = t
    BY <1>4, <1>5, <1>7, <2>1 DEF SetWithout
  <2>2. CASE x # t
    <3>1. /\ IsSet(q, x) => /\ q.scheduled[x] > q.elapsed
                            /\ q.scheduled[x] <= q.elapsed + Period[x]
                            /\ 1000 * (q.scheduled[x] - q.elapsed) <= due[x] + lost[x] - Reached
          /\ q.scheduled[x] # 0 => IsSet(q, x)
          /\ due[x] # 0 <=> IsSet(q, x)
      BY <1>1, <1>2, OnTimeIs
    <3>2. (IsSet(r, x) <=> IsSet(q, x)) /\ r.scheduled[x] = q.scheduled[x]
          /\ due'[x] = due[x] /\ lost'[x] = lost[x]
      BY <1>4, <1>5, <1>7, <2>2 DEF SetWithout
    <3>3. IsSet(r, x) => r.elapsed = q.elapsed /\ Reached' = Reached
      BY <1>6, <2>2
    <3> QED
      BY <3>1, <3>2, <3>3
  <2> QED
    BY <2>1, <2>2
<1>9. RingInv'
  <2>1. Ahead(r) /\ InRing(r) /\ Within(r)
    BY <1>4, <1>8, AheadIs DEF InRing, Within
  <2> QED
    BY <1>1, <1>4, <2>1 DEF RingInv
<1>10. NotLater' /\ DueIsSet'
  BY <1>1, <1>8 DEF NotLater, DueIsSet
<1>11. PollInTime' /\ PollIsIdle'
  BY DEF OnTime, PollInTime, PollIsIdle, HandlerRuns, Polling
<1> QED
  BY <1>9, <1>10, <1>11 DEF OnTime

(* The poll begins with the time left to the first timer.                  *)
LEMMA WaitOnTime ==
    ASSUME TimersType, OnTime, Wait
    PROVE  OnTime'
<1>1. PICK q, r : q = timer_queue /\ r = timer_queue'
  OBVIOUS
<1>2. q \in TimerQueueType /\ r = [q EXCEPT !.reset = FALSE]
  BY <1>1 DEF TimersType, Wait, apt_timer_queue_timeout_get
<1>3. /\ r.scheduled = q.scheduled /\ r.elapsed = q.elapsed
      /\ r.ring = q.ring /\ r.reset = FALSE
  BY <1>2 DEF TimerQueueType
<1>4. /\ phase = "wait" /\ phase' = "poll" /\ timeout' = QueueTimeout(q)
      /\ time_last' = (IF timeout' = NoTimeout THEN time_last ELSE clock)
      /\ clock' = clock /\ due' = due /\ lost' = lost /\ clock \in Nat
  BY <1>1 DEF Wait, TimersType
<1>5. Reached = clock /\ Reached' = clock
  BY <1>4 DEF Reached, Polling, Lags
<1>6. \A x : IsSet(r, x) <=> IsSet(q, x)
  BY <1>3 DEF IsSet
<1>7. RingInv'
  BY <1>1, <1>3, <1>4, <1>6 DEF OnTime, RingInv, Sorted, Ahead, InRing, Within
<1>8. NotLater' /\ DueIsSet'
  BY <1>1, <1>3, <1>4, <1>5, <1>6 DEF OnTime, NotLater, DueIsSet
<1>9. PollIsIdle'
  BY <1>1, <1>2, <1>3, <1>4, TimeoutIs DEF PollIsIdle
<1>10. ASSUME timeout' # NoTimeout
       PROVE  /\ \E t \in Timers : timeout' <= Period[t]
              /\ clock' <= time_last' + 1000 * (timeout' + MaxLate)
  <2>1. PICK h : h = Head(q.ring)
    OBVIOUS
  <2>2. q.ring # <<>> /\ h \in Timers /\ IsSet(q, h)
    BY <1>2, <1>4, <1>10, <2>1, TimeoutIs
  <2>3. q.scheduled[h] > q.elapsed /\ q.scheduled[h] <= q.elapsed + Period[h]
    BY <1>1, <1>4, <2>2, OnTimeIs
  <2>4. /\ q.scheduled[h] \in Nat /\ q.elapsed \in Nat /\ Period[h] \in Nat /\ MaxLate \in Nat
    BY <1>2, <2>2, QueueNumbers, PeriodFits
  <2>5. timeout' = q.scheduled[h] - q.elapsed
    BY <1>2, <1>4, <2>1, <2>2, <2>3, <2>4, TimeoutIs
  <2>6. timeout' <= Period[h] /\ timeout' \in Nat
    BY <2>3, <2>4, <2>5
  <2>7. clock' <= time_last' + 1000 * (timeout' + MaxLate)
    BY <1>4, <1>10, <2>4, <2>6
  <2> QED
    BY <2>2, <2>6, <2>7
<1>11. PollInTime'
  BY <1>10 DEF PollInTime
<1> QED
  BY <1>7, <1>8, <1>9, <1>11 DEF OnTime

(* The queue is advanced and no time is moved back below zero.             *)
LEMMA AdvanceOnTime ==
    ASSUME TimersType, OnTime, Advance, ~underflow'
    PROVE  OnTime'
<1>1. PICK q, r : q = timer_queue /\ r = timer_queue'
  OBVIOUS
<1>2. /\ q \in TimerQueueType /\ q.elapsed < RescheduleAt /\ q.elapsed \in Nat
      /\ clock \in Nat /\ time_last \in Nat /\ time_last <= clock
      /\ due \in [Timers -> Nat] /\ lost \in [Timers -> Nat] /\ Sorted(q)
  BY <1>1, QueueNumbers DEF TimersType, OnTime, RingInv
<1>3. /\ due' = due /\ clock' = clock /\ time_last' = time_last
      /\ timeout' = timeout /\ phase = "process" /\ phase # "expire"
  BY DEF Advance
<1>4. CASE timeout # NoTimeout /\ clock > time_last /\ Advances(timer_queue)
  <2>1. PICK time, rest, e : time = Passed /\ rest = Rest /\ e = q.elapsed + time
    OBVIOUS
  <2>2. /\ time \in Nat /\ rest \in Nat /\ e \in Nat
        /\ clock - time_last = 1000 * time + rest
    <3>1. clock - time_last \in Nat
      BY <1>2
    <3>2. time \in Nat /\ rest \in Nat /\ clock - time_last = 1000 * time + rest
      BY <2>1, <3>1, Milliseconds DEF Passed, Rest
    <3> QED
      BY <1>2, <2>1, <3>2
  <2>3. /\ r = apt_timer_queue_advance(q, time) /\ phase' = "expire" /\ ~Underflows(q, time)
        /\ lost' = Lose(rest)
    BY <1>1, <1>4, <2>1, Zenon DEF Advance
  <2>4. e < 2^Width
    <3>1. /\ \E t \in Timers : timeout <= Period[t]
          /\ clock <= time_last + 1000 * (timeout + MaxLate) /\ timeout \in Nat
      BY <1>3, <1>4 DEF OnTime, PollInTime, Polling, TimersType
    <3>2. PICK t \in Timers : timeout <= Period[t]
      BY <3>1
    <3>3. PICK w : w = 2^Width
      OBVIOUS
    <3>4. /\ Period[t] \in Nat /\ RescheduleAt \in Nat /\ MaxLate \in Nat /\ w \in Nat
          /\ RescheduleAt + Period[t] + MaxLate <= w
      BY <3>3, PeriodFits, TimeIs
    <3>5. e < w
      BY <1>2, <2>1, <2>2, <3>1, <3>2, <3>4
    <3> QED
      BY <3>3, <3>5
  <2>5. r \in TimerQueueType /\ r.ring = q.ring
    BY <1>2, <2>1, <2>2, <2>3, AdvanceIs
  <2>6. /\ KeepsDistance(r, q, e)
        /\ \A x \in Timers : ~IsSet(q, x) => r.scheduled[x] = q.scheduled[x]
    BY <1>2, <2>1, <2>2, <2>3, <2>4, AdvanceIs
  <2>7. Sorted(r)
    BY <1>2, <2>2, <2>5, <2>6, MovedSorted
  <2>8. \A x : IsSet(r, x) <=> IsSet(q, x)
    BY <2>5 DEF IsSet
  <2>9. Reached = time_last /\ Reached' = clock
    BY <1>1, <1>3, <1>4, <2>3 DEF Reached, Polling, Lags, Advances
  <2>10. ASSUME NEW x \in Timers
         PROVE  /\ IsSet(r, x) => /\ r.scheduled[x] <= r.elapsed + Period[x]
                                  /\ 1000 * (r.scheduled[x] - r.elapsed) <= due'[x] + lost'[x] - Reached'
                /\ r.scheduled[x] # 0 => IsSet(r, x)
                /\ due'[x] # 0 <=> IsSet(r, x)
    <3>1. /\ IsSet(q, x) => /\ q.scheduled[x] <= q.elapsed + Period[x]
                            /\ 1000 * (q.scheduled[x] - q.elapsed) <= due[x] + lost[x] - time_last
          /\ q.scheduled[x] # 0 => IsSet(q, x)
          /\ due[x] # 0 <=> IsSet(q, x)
      BY <1>1, <1>3, <2>9, OnTimeIs
    <3>2. /\ q.scheduled[x] \in Nat /\ r.scheduled[x] \in Nat /\ r.elapsed \in Nat
          /\ due[x] \in Nat /\ lost[x] \in Nat /\ Period[x] \in Nat
      BY <1>2, <2>5, QueueNumbers, PeriodFits
    <3>3. ASSUME IsSet(q, x)
          PROVE  /\ r.scheduled[x] <= r.elapsed + Period[x]
                 /\ 1000 * (r.scheduled[x] - r.elapsed) <= due[x] + lost'[x] - clock
      <4>1. r.scheduled[x] - r.elapsed = q.scheduled[x] - e
        BY <2>6, <3>3 DEF KeepsDistance
      <4>2. lost'[x] = lost[x] + rest
        BY <2>2, <2>3, <3>1, <3>3, LoseIs
      <4> QED
        BY <1>2, <2>1, <2>2, <3>1, <3>2, <3>3, <4>1, <4>2
    <3> QED
      BY <1>3, <2>6, <2>8, <2>9, <3>1, <3>3
  <2>11. RingInv' /\ NotLater' /\ DueIsSet'
    BY <1>1, <2>3, <2>7, <2>10 DEF RingInv, InRing, Within, NotLater, DueIsSet
  <2>12. PollInTime' /\ PollIsIdle'
    BY <2>3 DEF PollInTime, PollIsIdle, Polling
  <2> QED
    BY <2>11, <2>12 DEF OnTime
<1>5. CASE ~(timeout # NoTimeout /\ clock > time_last /\ Advances(timer_queue))
  <2>1. phase' = "wait" /\ timer_queue' = timer_queue /\ lost' = lost
    BY <1>5 DEF Advance
  <2>2. Reached' = clock /\ (Reached = clock \/ q.ring = <<>>)
    <3>1. ~(clock > time_last) => time_last = clock
      BY <1>2
    <3> QED
      BY <1>1, <1>3, <1>5, <2>1, <3>1 DEF Reached, Polling, Lags, Advances
  <2>3. q.ring = <<>> => \A x : ~IsSet(q, x)
    BY DEF IsSet
  <2>4. NotLater' /\ DueIsSet'
    BY <1>1, <1>3, <2>1, <2>2, <2>3 DEF OnTime, NotLater, DueIsSet
  <2>5. RingInv'
    BY <1>3, <2>1 DEF OnTime, RingInv
  <2>6. PollInTime' /\ PollIsIdle'
    BY <2>1 DEF PollInTime, PollIsIdle, Polling
  <2> QED
    BY <2>4, <2>5, <2>6 DEF OnTime
<1> QED
  BY <1>4, <1>5

(* A timer expires.                                                        *)
LEMMA ExpireOnTime ==
    ASSUME TimersType, OnTime, ExpireTimer
    PROVE  OnTime'
<1>1. PICK q, r, h : q = timer_queue /\ r = timer_queue' /\ h = Head(timer_queue.ring)
  OBVIOUS
<1>2. /\ q \in TimerQueueType /\ due \in [Timers -> Nat] /\ lost \in [Timers -> Nat]
      /\ Sorted(q) /\ q.elapsed \in Nat
  BY <1>1, QueueNumbers DEF TimersType, OnTime, RingInv
<1>3. /\ q.ring # <<>> /\ r = Expire(q) /\ phase = "expire" /\ phase' = phase
      /\ due' = [due EXCEPT ![h] = 0] /\ lost' = [lost EXCEPT ![h] = 0] /\ clock' = clock
  BY <1>1 DEF ExpireTimer, Elapsed, poll_vars
<1>4. /\ h \in Timers /\ r.elapsed = q.elapsed /\ r.scheduled[h] = 0
      /\ \A x \in Timers \ {h} : r.scheduled[x] = q.scheduled[x]
      /\ Sorted(r) /\ SetWithout(r, q, h)
  BY <1>1, <1>2, <1>3, ExpireIs
<1>5. due'[h] = 0 /\ \A x \in Timers \ {h} : due'[x] = due[x] /\ lost'[x] = lost[x]
  BY <1>2, <1>3, <1>4
<1>6. Reached = clock /\ Reached' = clock
  BY <1>3 DEF Reached, Polling
<1>7. RingInv'
  BY <1>1, <1>3, <1>4 DEF OnTime, RingInv, InRing, Within, SetWithout
<1>8. NotLater' /\ DueIsSet'
  BY <1>1, <1>4, <1>5, <1>6 DEF OnTime, NotLater, DueIsSet, SetWithout
<1>9. PollInTime' /\ PollIsIdle'
  BY <1>3 DEF PollInTime, PollIsIdle, Polling
<1> QED
  BY <1>7, <1>8, <1>9 DEF OnTime

(* No timer is left that has elapsed, because the first one has not.       *)
LEMMA EndAdvanceOnTime ==
    ASSUME TimersType, OnTime, EndAdvance
    PROVE  OnTime'
<1>1. PICK q : q = timer_queue
  OBVIOUS
<1>2. /\ q \in TimerQueueType /\ Sorted(q) /\ q.elapsed \in Nat
      /\ \A x \in Timers : q.scheduled[x] \in Nat
  BY <1>1, QueueNumbers DEF TimersType, OnTime, RingInv
<1>3. /\ phase = "expire" /\ ~Elapsed(q) /\ phase' = "wait" /\ timer_queue' = q
      /\ due' = due /\ lost' = lost /\ clock' = clock
  BY <1>1 DEF EndAdvance, timer_vars
<1>4. Ahead(q)
  <2> SUFFICES ASSUME NEW i \in DOMAIN q.ring PROVE q.scheduled[q.ring[i]] > q.elapsed
    BY DEF Ahead
  <2>1. q.ring \in Seq(Timers)
    BY <1>2, QueueParts
  <2>2. q.ring # <<>> /\ Head(q.ring) = q.ring[1] /\ 1 \in DOMAIN q.ring /\ i >= 1
        /\ q.ring[i] \in Timers /\ q.ring[1] \in Timers
    BY <2>1
  <2>3. ~(q.scheduled[q.ring[1]] <= q.elapsed)
    BY <1>3, <2>2 DEF Elapsed
  <2>4. i = 1 \/ q.scheduled[q.ring[1]] <= q.scheduled[q.ring[i]]
    BY <1>2, <2>1, <2>2 DEF Sorted
  <2> QED
    BY <1>2, <2>2, <2>3, <2>4
<1>5. Reached = clock /\ Reached' = clock
  BY <1>3 DEF Reached, Polling
<1>6. RingInv'
  BY <1>1, <1>3, <1>4 DEF OnTime, RingInv
<1>7. NotLater' /\ DueIsSet'
  BY <1>1, <1>3, <1>5 DEF OnTime, NotLater, DueIsSet
<1>8. PollInTime' /\ PollIsIdle'
  BY <1>3 DEF PollInTime, PollIsIdle, Polling
<1> QED
  BY <1>6, <1>7, <1>8 DEF OnTime

(* Time passes, never beyond the timeout and the delay; the timers that    *)
(* are set lose it when the queue will not be told of it.                  *)
LEMMA TickOnTime ==
    ASSUME TimersType, OnTime, Tick
    PROVE  OnTime'
<1>1. PICK q : q = timer_queue
  OBVIOUS
<1>2. PICK step \in Steps :
         /\ clock' = clock + step
         /\ timeout # NoTimeout => clock + step <= time_last + 1000 * (timeout + MaxLate)
         /\ lost' = IF Lags(q) THEN lost ELSE Lose(step)
  BY <1>1 DEF Tick
<1>3. /\ phase' = phase /\ Polling /\ Polling' /\ timer_queue' = q /\ due' = due
      /\ timeout' = timeout /\ time_last' = time_last /\ Lags(timer_queue)' = Lags(q)
  BY <1>1 DEF Tick, Polling, Lags
<1>4. step \in Nat
  BY PollerAssumption
<1>5. /\ q \in TimerQueueType /\ q.elapsed \in Nat /\ \A x \in Timers : q.scheduled[x] \in Nat
      /\ clock \in Nat /\ due \in [Timers -> Nat] /\ lost \in [Timers -> Nat]
  BY <1>1, QueueNumbers DEF TimersType
<1>6. ASSUME NEW x \in Timers, IsSet(q, x)
      PROVE  1000 * (q.scheduled[x] - q.elapsed) <= due'[x] + lost'[x] - Reached'
  <2>1. /\ 1000 * (q.scheduled[x] - q.elapsed) <= due[x] + lost[x] - Reached
        /\ due[x] # 0
    BY <1>1, <1>6 DEF OnTime, NotLater, DueIsSet
  <2>2. CASE Lags(q)
    <3>1. Reached' = Reached /\ lost' = lost
      BY <1>1, <1>2, <1>3, <2>2 DEF Reached
    <3> QED
      BY <1>3, <2>1, <3>1
  <2>3. CASE ~Lags(q)
    <3>1. Reached = clock /\ Reached' = clock + step
      BY <1>1, <1>2, <1>3, <2>3 DEF Reached
    <3>2. lost'[x] = lost[x] + step
      BY <1>2, <1>4, <2>1, <2>3, LoseIs
    <3>3. PICK d : d = q.scheduled[x] - q.elapsed
      OBVIOUS
    <3>4. d \in Int /\ due[x] \in Nat /\ lost[x] \in Nat
      BY <1>5, <3>3
    <3> QED
      BY <1>3, <1>4, <1>5, <2>1, <3>1, <3>2, <3>3, <3>4
  <2> QED
    BY <2>2, <2>3
<1>7. NotLater' /\ DueIsSet'
  BY <1>1, <1>3, <1>6 DEF OnTime, NotLater, DueIsSet
<1>8. RingInv' /\ PollIsIdle'
  BY <1>1, <1>3 DEF OnTime, RingInv, PollIsIdle
<1>9. PollInTime'
  BY <1>2, <1>3 DEF OnTime, PollInTime
<1> QED
  BY <1>7, <1>8, <1>9 DEF OnTime

(* A poll fails, and the timers that are set lose the time it took.        *)
LEMMA PollFailsOnTime ==
    ASSUME TimersType, OnTime, PollFails
    PROVE  OnTime'
<1>1. PICK q : q = timer_queue
  OBVIOUS
<1>2. /\ phase = "poll" /\ phase' = "wait" /\ timer_queue' = q /\ due' = due
      /\ lost' = (IF Lags(q) THEN Lose(clock - time_last) ELSE lost)
      /\ clock' = clock /\ phase # "expire"
  BY <1>1 DEF PollFails
<1>3. /\ q \in TimerQueueType /\ q.elapsed \in Nat /\ \A x \in Timers : q.scheduled[x] \in Nat
      /\ clock \in Nat /\ time_last \in Nat /\ time_last <= clock
      /\ due \in [Timers -> Nat] /\ lost \in [Timers -> Nat]
  BY <1>1, QueueNumbers DEF TimersType
<1>4. clock - time_last \in Nat
  BY <1>3
<1>5. Reached' = clock
  BY <1>2 DEF Reached, Polling
<1>6. ASSUME NEW x \in Timers, IsSet(q, x)
      PROVE  1000 * (q.scheduled[x] - q.elapsed) <= due'[x] + lost'[x] - Reached'
  <2>1. /\ 1000 * (q.scheduled[x] - q.elapsed) <= due[x] + lost[x] - Reached
        /\ due[x] # 0
    BY <1>1, <1>6 DEF OnTime, NotLater, DueIsSet
  <2>2. Lags(q)
    BY <1>1, <1>2, <1>6 DEF OnTime, PollIsIdle, Lags, IsSet
  <2>3. Reached = time_last
    BY <1>1, <1>2, <2>2 DEF Reached, Polling
  <2>4. lost'[x] = lost[x] + (clock - time_last)
    BY <1>2, <1>4, <2>1, <2>2, LoseIs
  <2>5. PICK d : d = q.scheduled[x] - q.elapsed
    OBVIOUS
  <2>6. d \in Int /\ due[x] \in Nat /\ lost[x] \in Nat
    BY <1>3, <2>5
  <2> QED
    BY <1>2, <1>3, <1>5, <2>1, <2>3, <2>4, <2>5, <2>6
<1>7. NotLater' /\ DueIsSet'
  BY <1>1, <1>2, <1>6 DEF OnTime, NotLater, DueIsSet
<1>8. RingInv'
  BY <1>1, <1>2 DEF OnTime, RingInv
<1>9. PollInTime' /\ PollIsIdle'
  BY <1>2 DEF PollInTime, PollIsIdle, Polling
<1> QED
  BY <1>7, <1>8, <1>9 DEF OnTime

(* The steps that leave the timers and the clock alone.                    *)
LEMMA OtherOnTime ==
    ASSUME OnTime, UNCHANGED timer_vars, UNCHANGED <<timeout, time_last, clock>>,
           phase' = phase \/ (Polling /\ Polling' /\ phase' # "poll")
    PROVE  OnTime'
<1>1. phase # "expire" <=> phase' # "expire"
  BY DEF Polling
<1>2. Polling <=> Polling'
  BY DEF Polling
<1>3. Reached' = Reached
  BY <1>2 DEF Reached, Lags, timer_vars
<1>4. RingInv' /\ NotLater' /\ DueIsSet'
  BY <1>1, <1>3 DEF OnTime, RingInv, NotLater, DueIsSet, timer_vars
<1>5. PollInTime' /\ PollIsIdle'
  BY <1>2 DEF OnTime, PollInTime, PollIsIdle, timer_vars
<1> QED
  BY <1>4, <1>5 DEF OnTime

(* Every step of the task.                                                 *)
LEMMA NextOnTime ==
    ASSUME TimersType, OnTime, [Next]_vars, ~underflow'
    PROVE  OnTime'
<1>1. CASE HandlerRuns
  <2>1. CASE UNCHANGED timer_vars
    BY <1>1, <2>1, OtherOnTime DEF HandlerRuns
  <2>2. CASE ~UNCHANGED timer_vars
    BY <1>1, <2>2, SetTimerOnTime, KillTimerOnTime DEF HandlerRuns, Handler
  <2> QED
    BY <2>1, <2>2
<1>2. CASE MsgSignal \/ UNCHANGED vars
  <2>1. UNCHANGED timer_vars /\ UNCHANGED poll_vars
    BY <1>2 DEF MsgSignal, vars
  <2> QED
    BY <2>1, OtherOnTime DEF poll_vars
<1>3. CASE Tick
  BY <1>3, TickOnTime
<1>4. CASE Wait
  BY <1>4, WaitOnTime
<1>5. CASE Poll
  BY <1>5, OtherOnTime DEF Poll, Polling
<1>6. CASE IsWakeup
  BY <1>6, OtherOnTime DEF IsWakeup, Polling
<1>7. CASE ProcessMessage
  BY <1>1, <1>7 DEF ProcessMessage, HandlerRuns, Polling, poll_vars
<1>8. CASE NoMoreMessages
  BY <1>8, OtherOnTime DEF NoMoreMessages, Polling
<1>9. CASE ProcessSocket
  BY <1>1, <1>9 DEF ProcessSocket, HandlerRuns, Polling
<1>10. CASE Advance
  BY <1>10, AdvanceOnTime
<1>11. CASE ExpireTimer
  BY <1>11, ExpireOnTime
<1>12. CASE EndAdvance
  BY <1>12, EndAdvanceOnTime
<1>13. CASE PollFails
  BY <1>13, PollFailsOnTime
<1> QED
  BY <1>2, <1>3, <1>4, <1>5, <1>6, <1>7, <1>8, <1>9, <1>10, <1>11, <1>12,
     <1>13 DEF Next, Loop

(* Once a time has been moved back below zero, that is remembered.         *)
LEMMA UnderflowStays ==
    ASSUME [Next]_vars, underflow
    PROVE  underflow'
<1>1. CASE Advance
  BY <1>1 DEF Advance
<1>2. CASE ~Advance
  <2>1. underflow' = underflow
    BY <1>2 DEF Next, Loop, MsgSignal, Wait, Tick, Poll, PollFails, IsWakeup, ProcessMessage,
       NoMoreMessages, ProcessSocket, ExpireTimer, EndAdvance, Handler, SetTimer,
       KillTimer, timer_vars, vars
  <2> QED
    BY <2>1
<1> QED
  BY <1>1, <1>2

(* The inductive invariant of the timers.                                  *)
LEMMA TimersInductive == Spec => []DueInv
<1>1. Init => DueInv
  BY CreatedTimers DEF DueInv, EarlyInv
<1>2. DueInv /\ [Next]_vars => DueInv'
  <2> SUFFICES ASSUME DueInv, [Next]_vars PROVE DueInv'
    OBVIOUS
  <2>1. EarlyInv'
    BY NextEarly DEF DueInv
  <2>2. CASE underflow
    BY <2>1, <2>2, UnderflowStays DEF DueInv
  <2>3. CASE ~underflow
    BY <2>1, <2>3, NextOnTime DEF DueInv, EarlyInv
  <2> QED
    BY <2>2, <2>3
<1> QED
  BY <1>1, <1>2, PTL DEF Spec

(* The ring of timers is sorted and holds exactly the timers that are set, *)
(* once each, after any sequence of sets, kills, expiries and moves of the *)
(* times, as long as none is moved back below zero                         *)
(* (apt_timer_queue.c 161 to 242).                                         *)
THEOREM TimerRingSorted == Spec => []RingSorted
<1>1. ASSUME DueInv, phase # "expire", ~underflow PROVE RingOK(timer_queue)
  <2>1. TimersType /\ OnTime /\ Sorted(timer_queue)
    BY <1>1 DEF DueInv, EarlyInv, OnTime, RingInv
  <2>2. \A t \in Timers : timer_queue.scheduled[t] # 0 <=> IsSet(timer_queue, t)
    BY <1>1, <2>1, OnTimeIs
  <2> QED
    BY <2>1, <2>2 DEF RingOK, Sorted, IsSet
<1>2. DueInv => RingSorted
  BY <1>1 DEF RingSorted
<1> QED
  BY <1>2, TimersInductive, PTL

(* When the task goes to wait every timer that is due, by the time the     *)
(* queue was told of, has expired, as long as no time is moved back below  *)
(* zero (apt_timer_queue.c 72 and 111).  What a timer may lose is the rest *)
(* of a millisecond for each poll, and the polls that failed               *)
(* (apt_poller_task.c 252 and 274).                                        *)
THEOREM DueTimersExpire == Spec => []DueExpires
<1>1. ASSUME DueInv, phase = "wait", ~underflow, NEW t \in Timers, due[t] # 0
      PROVE  ~(clock >= due[t] + lost[t])
  <2>1. TimersType /\ OnTime /\ phase # "expire" /\ Reached = clock
    BY <1>1 DEF DueInv, EarlyInv, Reached, Polling
  <2>2. /\ timer_queue.scheduled[t] > timer_queue.elapsed
        /\ 1000 * (timer_queue.scheduled[t] - timer_queue.elapsed) <= due[t] + lost[t] - clock
    BY <1>1, <2>1, OnTimeIs
  <2>3. /\ timer_queue.scheduled[t] \in Nat /\ timer_queue.elapsed \in Nat
        /\ clock \in Nat /\ due[t] \in Nat /\ lost[t] \in Nat
    BY <2>1, QueueNumbers DEF TimersType
  <2> QED
    BY <2>2, <2>3
<1>2. DueInv => DueExpires
  BY <1>1 DEF DueExpires, Overdue
<1> QED
  BY <1>2, TimersInductive, PTL
=============================================================================
