---------------------------- MODULE CyclicQueue -----------------------------
(***************************************************************************)
(* The queue of objects that tasks, the media engine and the sessions use  *)
(* (libs/apr-toolkit/src/apt_cyclic_queue.c): a circular buffer that grows *)
(* by half when an object is pushed into it while it is full.  The         *)
(* operators take a queue to the queue the C functions leave behind.       *)
(***************************************************************************)
EXTENDS Integers, Sequences

(* What malloc leaves in a new buffer.                                     *)
Garbage == 0

apt_cyclic_queue_create(size) ==
    [data |-> [i \in 0..(size - 1) |-> Garbage], max_size |-> size,
     actual_size |-> 0, head |-> 0, tail |-> 0]

(* The buffer is full, so head = tail: the objects from head to the end of *)
(* the buffer are the oldest ones and come first in the new buffer.        *)
QueueResizeInPlace(q) ==    \* defect: the buffer is copied as it is
    LET new_size == q.max_size + q.max_size \div 2
    IN [data |-> [i \in 0..(new_size - 1) |->
                      IF i < q.max_size THEN q.data[i] ELSE Garbage],
        max_size |-> new_size, actual_size |-> q.actual_size,
        head |-> q.max_size, tail |-> 0]
apt_cyclic_queue_resize(q) ==
    LET new_size == q.max_size + q.max_size \div 2
        offset == q.max_size - q.head
    IN [data |-> [i \in 0..(new_size - 1) |->
                      CASE i < offset -> q.data[q.head + i]
                        [] i >= offset /\ i < q.max_size -> q.data[i - offset]
                        [] OTHER -> Garbage],
        max_size |-> new_size, actual_size |-> q.actual_size,
        head |-> q.max_size, tail |-> 0]

apt_cyclic_queue_push(queue, obj) ==
    LET q == IF queue.actual_size >= queue.max_size
             THEN apt_cyclic_queue_resize(queue) ELSE queue
    IN [q EXCEPT !.data[q.head] = obj,
                 !.head = (q.head + 1) % q.max_size,
                 !.actual_size = q.actual_size + 1]

(* pop returns NULL when there is nothing, else the object at the tail:    *)
(* Nth(q, 0).                                                              *)
apt_cyclic_queue_pop(q) ==
    [q EXCEPT !.tail = (q.tail + 1) % q.max_size, !.actual_size = q.actual_size - 1]

(* The k-th object from the front, counted from 0.                         *)
Nth(q, k) == q.data[(q.tail + k) % q.max_size]
=============================================================================
