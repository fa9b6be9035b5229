----------------------------- MODULE PollerTask -----------------------------
(***************************************************************************)
(* The poller task (libs/apr-toolkit/src/apt_poller_task.c), the thread    *)
(* every connection agent of MRCPv2 and RTSP runs in.  One loop serves the *)
(* sockets, the messages other threads send (a cyclic queue guarded by a   *)
(* mutex, and bytes in a pipe that end the poll) and the timers.           *)
(*                                                                         *)
(* A message or a socket event runs a handler of the agent, which may set  *)
(* or kill one timer.  The clock counts microseconds, as apr_time_now, and *)
(* stands still while handlers run; the timer queue counts milliseconds.   *)
(* `due', `earliest', `lost', `underflow', `sent' and `taken' record what  *)
(* happened; the program has no such variables.                            *)
(***************************************************************************)
EXTENDS TimerQueue, CyclicQueue, FiniteSets

CONSTANTS
    Period,        \* the timeout the agent sets each timer with, in ms
    QueueSize,     \* initial size of the message queue
    Senders,       \* number of threads that send messages to the task
    ReadSize,      \* bytes read from the pipe at a time (512)
    MaxLate,       \* a poll ends at most that many ms after its timeout
    Steps,         \* the steps the clock makes, in microseconds
    MaxClock,      \* bound: the time a behaviour covers
    MaxMessages    \* bound: the number of messages sent to the task

ASSUME PollerAssumption ==
    /\ Period \in [Timers -> Nat \ {0}]
    /\ QueueSize \in Nat \ {0, 1}
    /\ ReadSize \in Nat \ {0} /\ Steps \subseteq Nat \ {0}
    /\ Senders \in Nat /\ MaxLate \in Nat /\ MaxClock \in Nat /\ MaxMessages \in Nat

(* The times of the timer queue fit their width: 0xFFFF ms, the longest    *)
(* timeout and the delay of a poll are far below 2^32 ms (49 days).        *)
ASSUME TimesFit ==
    /\ 2^Width \in Nat /\ RescheduleAt <= 2^Width
    /\ \A t \in Timers : RescheduleAt + Period[t] + MaxLate <= 2^Width

Descriptors == {"wakeup", "socket"}

VARIABLES
    timer_queue,   \* task->timer_queue
    msg_queue,     \* task->msg_queue
    pipe,          \* bytes in the wakeup pipe
    phase,         \* where the loop is
    desc,          \* signalled descriptors not processed yet
    timeout,       \* timeout of the current poll, in ms
    time_last,     \* when the current poll began
    signalling,    \* senders between the push and the wakeup
    clock,
    due,           \* when each timer should expire (0: not set)
    earliest,      \* start of the poll it was set in, plus its timeout
    lost,          \* time since then that the queue was never told of
    underflow,     \* a time smaller than the elapsed time was moved back
    sent, taken    \* messages pushed, messages processed

timer_vars == <<timer_queue, due, earliest, lost, underflow>>
msg_vars == <<msg_queue, pipe, signalling, sent, taken>>
poll_vars == <<phase, desc, timeout, time_last, clock>>
vars == <<timer_vars, msg_vars, poll_vars>>

Init ==
    /\ timer_queue = apt_timer_queue_create
    /\ msg_queue = apt_cyclic_queue_create(QueueSize)
    /\ pipe = 0
    /\ phase = "wait"
    /\ desc = {}
    /\ timeout = NoTimeout
    /\ time_last = 0
    /\ signalling = 0
    /\ clock = 0
    /\ due = [t \in Timers |-> 0]
    /\ earliest = [t \in Timers |-> 0]
    /\ lost = [t \in Timers |-> 0]
    /\ underflow = FALSE
    /\ sent = 0 /\ taken = 0

-----------------------------------------------------------------------------
(* Another thread sends a message: it pushes under the guard, then wakes   *)
(* the task up with a byte in the pipe.                                    *)
Push ==
    /\ sent < MaxMessages
    /\ signalling < Senders
    /\ msg_queue' = apt_cyclic_queue_push(msg_queue, sent + 1)
    /\ sent' = sent + 1
    /\ UNCHANGED taken
MsgSignalTooSoon ==    \* defect: the task is woken up before the push
    /\ \/ signalling < 1 /\ sent < MaxMessages /\ pipe' = pipe + 1
          /\ signalling' = signalling + 1 /\ UNCHANGED <<msg_queue, sent, taken>>
       \/ signalling > 0 /\ Push /\ signalling' = signalling - 1 /\ UNCHANGED pipe
    /\ UNCHANGED <<timer_vars, poll_vars>>
MsgSignal ==
    /\ \/ Push /\ signalling' = signalling + 1 /\ UNCHANGED pipe
       \/ signalling > 0 /\ pipe' = pipe + 1 /\ signalling' = signalling - 1
          /\ UNCHANGED <<msg_queue, sent, taken>>
    /\ UNCHANGED <<timer_vars, poll_vars>>

-----------------------------------------------------------------------------
(* What a handler does with the timers.  A timer set while the queue lags  *)
(* behind the clock, because the current poll has not been accounted for,  *)
(* counts from the start of that poll.                                     *)
Lags(q) == timeout # NoTimeout /\ ~q.reset
SetTimer(t) ==
    /\ timer_queue' = apt_timer_set(timer_queue, t, Period[t])
    /\ due' = [due EXCEPT ![t] = clock + 1000 * Period[t]]
    /\ earliest' = [earliest EXCEPT ![t] =
           (IF Lags(timer_queue') THEN time_last ELSE clock) + 1000 * Period[t]]
    /\ lost' = [lost EXCEPT ![t] = 0]
    /\ UNCHANGED underflow
KillTimer(t) ==
    /\ timer_queue' = apt_timer_kill(timer_queue, t)
    /\ due' = [due EXCEPT ![t] = 0]
    /\ earliest' = [earliest EXCEPT ![t] = 0]
    /\ lost' = [lost EXCEPT ![t] = 0]
    /\ UNCHANGED underflow
Handler ==
    \/ UNCHANGED timer_vars
    \/ \E t \in Timers : SetTimer(t) \/ KillTimer(t)

(* Time the queue is not told of delays every timer that is set.           *)
Lose(time) == [t \in Timers |-> IF due[t] = 0 THEN 0 ELSE lost[t] + time]

(* The loop asks for the timeout and polls.                                *)
Wait ==
    /\ phase = "wait"
    /\ timer_queue' = apt_timer_queue_timeout_get(timer_queue)
    /\ timeout' = QueueTimeout(timer_queue)
    /\ time_last' = IF timeout' = NoTimeout THEN time_last ELSE clock
    /\ phase' = "poll"
    /\ UNCHANGED <<due, earliest, lost, underflow, desc, clock, msg_vars>>

(* Time passes while the task polls, or waits for a byte in the pipe.  The *)
(* queue is only told of it when there was a timeout and it was not reset. *)
Tick ==
    /\ phase = "poll" \/ (phase = "drain" /\ pipe = 0)
    /\ \E step \in Steps :
          /\ clock + step <= MaxClock
          /\ timeout # NoTimeout =>
                clock + step <= time_last + 1000 * (timeout + MaxLate)
          /\ clock' = clock + step
          /\ lost' = IF Lags(timer_queue) THEN lost ELSE Lose(step)
    /\ UNCHANGED <<timer_queue, due, earliest, underflow, msg_vars, phase, desc,
                   timeout, time_last>>

(* The poll returns with the signalled descriptors, or at its timeout.     *)
Poll ==
    /\ phase = "poll"
    /\ desc' \in {d \in SUBSET Descriptors : "wakeup" \in d <=> pipe > 0}
    /\ desc' = {} => timeout # NoTimeout /\ clock >= time_last + 1000 * timeout
    /\ phase' = "process"
    /\ UNCHANGED <<timer_vars, msg_vars, timeout, time_last, clock>>

(* The poll fails: the loop goes on, and the time it took is not counted.  *)
PollFails ==
    /\ phase = "poll"
    /\ phase' = "wait"
    /\ lost' = IF Lags(timer_queue) THEN Lose(clock - time_last) ELSE lost
    /\ UNCHANGED <<timer_queue, due, earliest, underflow, msg_vars, desc, timeout,
                   time_last, clock>>

(* apt_pollset_is_wakeup reads the pipe until it gets less than it asked   *)
(* for, before any message is popped.  The pipe blocks: after a full read  *)
(* that has emptied it the task waits for the next byte.                   *)
IsWakeup ==
    /\ \/ phase = "process" /\ "wakeup" \in desc
       \/ phase = "drain"
    /\ pipe > 0
    /\ IF pipe >= ReadSize THEN pipe' = pipe - ReadSize /\ phase' = "drain"
       ELSE pipe' = 0 /\ phase' = "messages"
    /\ UNCHANGED <<timer_vars, msg_queue, signalling, sent, taken, desc, timeout,
                   time_last, clock>>

(* apt_poller_task_wakeup_process: messages are processed until the queue  *)
(* is empty.                                                               *)
ProcessMessage ==
    /\ phase = "messages" /\ msg_queue.actual_size > 0
    /\ msg_queue' = apt_cyclic_queue_pop(msg_queue)
    /\ taken' = taken + 1
    /\ Handler
    /\ UNCHANGED <<poll_vars, pipe, signalling, sent>>
NoMoreMessages ==
    /\ phase = "messages" /\ msg_queue.actual_size = 0
    /\ phase' = "process"
    /\ desc' = desc \ {"wakeup"}
    /\ UNCHANGED <<timer_vars, msg_vars, timeout, time_last, clock>>

ProcessSocket ==
    /\ phase = "process" /\ "socket" \in desc
    /\ desc' = desc \ {"socket"}
    /\ Handler
    /\ UNCHANGED <<msg_vars, phase, timeout, time_last, clock>>

(* The timers are advanced by the whole milliseconds since the poll began; *)
(* the rest is not counted.                                                *)
Passed == (clock - time_last) \div 1000
Rest == (clock - time_last) % 1000
Underflows(q, time) ==
    /\ q.elapsed + time >= RescheduleAt
    /\ \E i \in DOMAIN q.ring : q.scheduled[q.ring[i]] < q.elapsed + time
Advance ==
    /\ phase = "process" /\ desc = {}
    /\ IF timeout # NoTimeout /\ clock > time_last /\ Advances(timer_queue)
       THEN /\ timer_queue' = apt_timer_queue_advance(timer_queue, Passed)
            /\ underflow' = (underflow \/ Underflows(timer_queue, Passed))
            /\ lost' = Lose(Rest)
            /\ phase' = "expire"
       ELSE /\ phase' = "wait"
            /\ UNCHANGED <<timer_queue, underflow, lost>>
    /\ UNCHANGED <<due, earliest, desc, timeout, time_last, clock, msg_vars>>

(* The procs of the connection agents set no timer.                        *)
ExpireTimer ==
    /\ phase = "expire" /\ Elapsed(timer_queue)
    /\ timer_queue' = Expire(timer_queue)
    /\ due' = [due EXCEPT ![Head(timer_queue.ring)] = 0]
    /\ earliest' = [earliest EXCEPT ![Head(timer_queue.ring)] = 0]
    /\ lost' = [lost EXCEPT ![Head(timer_queue.ring)] = 0]
    /\ UNCHANGED <<underflow, msg_vars, poll_vars>>
EndAdvance ==
    /\ phase = "expire" /\ ~Elapsed(timer_queue)
    /\ phase' = "wait"
    /\ UNCHANGED <<timer_vars, msg_vars, desc, timeout, time_last, clock>>

Loop == \/ Wait \/ Poll \/ PollFails \/ IsWakeup \/ ProcessMessage \/ NoMoreMessages
        \/ ProcessSocket \/ Advance \/ ExpireTimer \/ EndAdvance

Next == MsgSignal \/ Loop \/ Tick

(* A sender that has pushed goes on to wake the task up, the loop runs,    *)
(* and the polls of a pipe that holds a byte do not fail for ever; nothing *)
(* forces another thread to send or a socket to be signalled.              *)
Fairness ==
    /\ WF_vars(phase # "poll" /\ Loop)
    /\ SF_vars(pipe > 0 /\ Poll)
    /\ WF_vars(signalling > 0 /\ MsgSignal)

Spec == Init /\ [][Next]_vars /\ Fairness

-----------------------------------------------------------------------------
(* The types of the variables.                                             *)
TypeOK ==
    /\ timer_queue \in TimerQueueType
    /\ msg_queue.actual_size \in 0..msg_queue.max_size
    /\ msg_queue.head \in DOMAIN msg_queue.data
    /\ msg_queue.tail \in DOMAIN msg_queue.data
    /\ pipe \in Nat
    /\ phase \in {"wait", "poll", "process", "drain", "messages", "expire"}
    /\ desc \subseteq Descriptors
    /\ timeout \in Nat \cup {NoTimeout}
    /\ time_last \in 0..clock
    /\ signalling \in Nat
    /\ clock \in 0..MaxClock
    /\ due \in [Timers -> Nat]
    /\ earliest \in [Timers -> Nat]
    /\ lost \in [Timers -> Nat]
    /\ underflow \in BOOLEAN
    /\ sent \in 0..MaxMessages /\ taken \in 0..sent

(* The message queue is first in, first out, and nothing is lost: it holds *)
(* exactly the messages sent and not yet taken, in the order they were     *)
(* sent, however often the buffer wrapped around or was copied into a      *)
(* larger one (apt_cyclic_queue.c 50 and 92).                              *)
QueueIsFifo ==
    /\ msg_queue.actual_size = sent - taken
    /\ \A k \in 0..(msg_queue.actual_size - 1) : Nth(msg_queue, k) = taken + k + 1

(* The ring of timers is sorted and holds the timers that are set, once    *)
(* each, after any sequence of sets, kills, expiries and reschedulings     *)
(* (apt_timer_queue.c 161 to 242), as long as no time is moved back below  *)
(* zero.  While timers expire, one whose time was moved back to 0 may      *)
(* still be in the ring.                                                   *)
RingSorted == phase # "expire" /\ ~underflow => RingOK(timer_queue)

(* A timer that is due has expired when the task goes to wait, unless the  *)
(* queue was never told of some time since it was set: what a poll takes   *)
(* beyond whole milliseconds, a poll that fails (apt_poller_task.c 252 and *)
(* 274) and a wait for the pipe after the queue was reset.  It holds       *)
(* although timers are set in the middle of a poll, the queue lags behind  *)
(* the clock and its times are moved back (apt_timer_queue.c 72), as long  *)
(* as no time is moved back below zero.                                    *)
Overdue == {t \in Timers : due[t] # 0 /\ clock >= due[t] + lost[t]}
DueExpires == phase = "wait" /\ ~underflow => Overdue = {}

(* When the task goes to wait, every timer that is due by the time the     *)
(* queue was told of has expired: "process the elapsed timer"              *)
(* (apt_timer_queue.c 111).                                                *)
NoneOverdue == phase = "wait" => Overdue = {}

(* A timer never expires before its period has passed since the poll it    *)
(* was set in began (apt_timer_queue.c 174: it counts from the elapsed     *)
(* time of the queue, which lags behind the clock).                        *)
NotTooEarly ==
    [][\A t \in Timers :
          phase = "expire" /\ due[t] # 0 /\ due'[t] = 0 => clock >= earliest[t]]_vars

(* Every message sent to the task is processed: no wakeup is lost between  *)
(* the push, the emptying of the pipe and the last pop (apt_poller_task.c  *)
(* 196 and 282).  The exception is a task that blocks for ever because a   *)
(* full read has emptied the pipe and no thread sends anything any more    *)
(* (apt_pollset.c 144).                                                    *)
Blocked == phase = "drain" /\ pipe = 0
MessageProcessed == taken < sent ~> (taken = sent \/ []Blocked)
=============================================================================
