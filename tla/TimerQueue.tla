----------------------------- MODULE TimerQueue -----------------------------
(***************************************************************************)
(* The timer queue of a poller task                                        *)
(* (libs/apr-toolkit/src/apt_timer_queue.c): a ring of the timers that are *)
(* set, sorted by the time they are scheduled at.  Times are unsigned and  *)
(* count from `elapsed', the time the queue itself has been advanced to;   *)
(* when it grows large all times are moved back.                           *)
(*                                                                         *)
(* The operators take a queue to the queue the C functions leave behind.   *)
(* A timer that is not set has scheduled time 0.                           *)
(***************************************************************************)
EXTENDS ObjList

CONSTANTS
    Timers,        \* the timers created for the queue
    Width,         \* times are kept modulo 2^Width (apr_uint32_t)
    RescheduleAt   \* elapsed time at which the times are moved back (0xFFFF)

ASSUME TimerQueueAssumption ==
    /\ Width \in Nat
    /\ RescheduleAt \in Nat \ {0}

Time == 0..(2^Width - 1)

TimerQueueType ==
    [ring : Seq(Timers), scheduled : [Timers -> Time], elapsed : Time, reset : BOOLEAN]

apt_timer_queue_create ==
    [ring |-> <<>>, scheduled |-> [t \in Timers |-> 0], elapsed |-> 0, reset |-> FALSE]

(* The ring without t.                                                     *)
Unlinked(q, t) == KeepAt(q.ring, {i \in DOMAIN q.ring : q.ring[i] # t})

(* Elapsed time starts again at 0 when the last timer is taken out.        *)
apt_timer_remove(q, t) ==
    LET ring == Unlinked(q, t)
    IN [ring |-> ring,
        scheduled |-> [q.scheduled EXCEPT ![t] = 0],
        elapsed |-> IF ring = <<>> THEN 0 ELSE q.elapsed,
        reset |-> q.reset \/ ring = <<>>]

(* The timer goes behind the last one that is not scheduled after it, at   *)
(* the head of the ring if there is none.                                  *)
apt_timer_insert(q, t) ==
    LET notLater == {i \in DOMAIN q.ring : q.scheduled[q.ring[i]] <= q.scheduled[t]}
        at == IF notLater = {} THEN 0
              ELSE CHOOSE i \in notLater : \A j \in notLater : j <= i
    IN [q EXCEPT !.ring = SubSeq(q.ring, 1, at) \o <<t>>
                              \o SubSeq(q.ring, at + 1, Len(q.ring))]

(* A timer that is set already is taken out first.                         *)
TimerSetAgain(q, t, timeout) ==    \* defect: it stays where it was
    IF timeout <= 0 THEN q
    ELSE apt_timer_insert([q EXCEPT !.scheduled[t] = (q.elapsed + timeout) % 2^Width], t)
apt_timer_set(q, t, timeout) ==
    LET free == IF q.scheduled[t] # 0 THEN apt_timer_remove(q, t) ELSE q
    IN IF timeout <= 0 THEN q
       ELSE apt_timer_insert(
                [free EXCEPT !.scheduled[t] = (free.elapsed + timeout) % 2^Width], t)

apt_timer_kill(q, t) ==
    IF q.scheduled[t] = 0 THEN q ELSE apt_timer_remove(q, t)

(* The head of the ring tells how long the task may wait: NoTimeout if     *)
(* there is none.  The reset flag is cleared on the way.                   *)
NoTimeout == -1
QueueTimeout(q) ==
    IF q.ring = <<>> THEN NoTimeout
    ELSE (q.scheduled[Head(q.ring)] - q.elapsed) % 2^Width
apt_timer_queue_timeout_get(q) == [q EXCEPT !.reset = FALSE]

(* All times are moved back by the elapsed time.                           *)
TimersNotMoved(q) == [q EXCEPT !.elapsed = 0]    \* defect: only the clock is
apt_timers_reschedule(q) ==
    [q EXCEPT !.scheduled = [t \in Timers |->
                  IF \E i \in DOMAIN q.ring : q.ring[i] = t
                  THEN (q.scheduled[t] - q.elapsed) % 2^Width ELSE q.scheduled[t]],
              !.elapsed = 0]

(* The queue is advanced, unless there is no timer or elapsed time has     *)
(* just been reset; the timers that have elapsed are then taken one by one *)
(* (Elapsed, Expire).                                                      *)
AdvancesAlways(q) == q.ring # <<>>    \* defect: the reset flag is ignored
Advances(q) == q.ring # <<>> /\ ~q.reset
apt_timer_queue_advance(q, time) ==
    LET advanced == [q EXCEPT !.elapsed = (q.elapsed + time) % 2^Width]
    IN IF advanced.elapsed >= RescheduleAt THEN apt_timers_reschedule(advanced)
       ELSE advanced

(* The loop goes on while the first timer of the ring has elapsed.         *)
Elapsed(q) == q.ring # <<>> /\ q.scheduled[Head(q.ring)] <= q.elapsed
Expire(q) == [q EXCEPT !.ring = Tail(q.ring), !.scheduled[Head(q.ring)] = 0]

-----------------------------------------------------------------------------
(* Every timer that is set is in the ring, once, and the ring is sorted by *)
(* the times the timers are scheduled at: only its head is looked at when  *)
(* the queue is advanced or the task asks how long it may wait.            *)
RingOK(q) ==
    /\ \A i, j \in DOMAIN q.ring :
          i < j => /\ q.ring[i] # q.ring[j]
                   /\ q.scheduled[q.ring[i]] <= q.scheduled[q.ring[j]]
    /\ \A t \in Timers :
          q.scheduled[t] # 0 <=> \E i \in DOMAIN q.ring : q.ring[i] = t
=============================================================================
