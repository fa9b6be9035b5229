---------------------------- MODULE AliRecogProofs ----------------------------
(***************************************************************************)
(* The Alibaba recognizer plugin for any number of sessions, channels and  *)
(* uses: no AliChannel is lost, a channel that says it works has a worker, *)
(* and completions name their own RECOGNIZE outside the two windows.       *)
(***************************************************************************)
EXTENDS AliRecog, ObjListProofs

TaskPlaces == {"idle", "start", "push", "pool", "respond", "request"}
MediaPlaces == {"idle", "clear", "write", "blocked", "retry", "release"}
WorkerPlaces == {"none", "queued", "init", "check", "pop", "wait", "woken", "send",
                 "end", "reset", "done"}
Phases == {"ready", "recognize", "recognizing", "stopping", "closed"}
RequestStates == {"none", "live", "completed", "failed", "closed", "released"}
Calls == {"none", "send", "flag", "close"}

(* The types of the fields of a channel, of a session, and of a thread:    *)
(* while a thread is inside a session, that session has a channel.         *)
PoolShape ==
    /\ m_ChIdlePool \subseteq Channels /\ m_ChBusyPool \subseteq Channels
    /\ m_Starting \in [Channels -> BOOLEAN]
    /\ m_Ch \in [Channels -> Sessions \cup {NoSession}]
    /\ m_recogRequest \in [Channels -> {0} \cup Uses]
    /\ m_FrameQueue \in [Channels -> 0..QueueSize]

SessionShape ==
    /\ ch \in [Sessions -> {0} \cup Channels]
    /\ recog_request \in [Sessions -> {0} \cup Uses]
    /\ active \in [Sessions -> {0} \cup Uses]
    /\ stop_response \in [Sessions -> BOOLEAN]
    /\ phase \in [Sessions -> Phases]

TaskShape ==
    /\ task \in [at : TaskPlaces, s : Sessions \cup {NoSession}, use : {0} \cup Uses]
    /\ task.at # "idle" =>
          task.s \in Sessions /\ task.use \in Uses /\ ch[task.s] \in Channels
    /\ task.at \in {"start", "push"} => worker[task.use].at = "none"

MediaShape ==
    /\ media \in [at : MediaPlaces, s : Sessions \cup {NoSession},
                  c : {0} \cup Channels]
    /\ media.at \in {"clear", "write", "release"} => media.s \in Sessions
    /\ media.at = "release" => ch[media.s] \in Channels

WorkerShape ==
    /\ worker \in [Uses -> [at : WorkerPlaces, c : {0} \cup Channels]]
    /\ \A u \in Used : worker[u].c \in Channels

RequestShape == request \in [Uses -> [state : RequestStates, call : Calls]]

Shape == PoolShape /\ SessionShape /\ TaskShape /\ MediaShape /\ WorkerShape
            /\ RequestShape

(* The uses are numbered in the order in which they begin: the consumer    *)
(* task holds the next one.                                                *)
UsesInOrder ==
    /\ \A u \in Used : \A v \in Uses : v < u => v \in Used
    /\ task.at \in {"start", "push"} => \A u \in Uses : u \in Used <=> u < task.use

(* A request in use is the one its channel knows, and its worker has not   *)
(* come to its end.                                                        *)
RequestKnown ==
    /\ \A c \in Channels : m_recogRequest[c] # 0 =>
          worker[m_recogRequest[c]].at \notin {"none", "queued", "init"}
    /\ \A u \in Uses :
          /\ request[u].call # "none" => request[u].state \notin {"none", "live", "released"}
          /\ request[u].state \notin {"none", "released"} =>
                u \in Used /\ m_recogRequest[worker[u].c] = u
          /\ worker[u].at \in {"none", "queued", "init"} => request[u].state = "none"
          /\ worker[u].at \in {"reset", "done"} =>
                request[u].state \in {"none", "released"}

(* STOP is answered once.                                                  *)
StopPending ==
    \A s \in Sessions : stop_response[s] =>
        phase[s] = "stopping" \/ (media.at = "clear" /\ media.s = s)

(* The session of a RECOGNIZE in progress.                                 *)
TaskSession ==
    /\ task.at \in {"start", "push"} => m_Ch[ch[task.s]] \in {NoSession, task.s}
    /\ task.at \in {"start", "push", "pool", "respond"} => phase[task.s] = "recognize"

(* May the SDK request of use u still report a result?                     *)
MayReport(u) == request[u].state \in {"none", "live"} \/ request[u].call = "send"

(* Use u is what session s recognizes.                                     *)
Current(u, s) ==
    /\ ch[s] = worker[u].c
    /\ \/ task.at \in {"pool", "respond"} /\ task.s = s /\ task.use = u
       \/ /\ task.at = "request" /\ task.s = s /\ task.use = u
          /\ phase[s] = "recognizing" /\ active[s] = u
       \/ /\ ~(task.at # "idle" /\ task.s = s)
          /\ phase[s] = "recognizing" /\ active[s] = u /\ recog_request[s] \in {0, u}

InWindow == \E e \in completions : e.early \/ e.late

OwnResult ==
    \/ InWindow
    \/ /\ \A e \in completions : e.names = e.own
       /\ task.at = "request" => phase[task.s] = "recognizing" /\ active[task.s] = task.use
       /\ \A u \in Used :
             LET c == worker[u].c IN
             MayReport(u) /\ ~TakenAgain(c, u) /\ m_Ch[c] # NoSession
                => Current(u, m_Ch[c])

IInv == Shape /\ PoolComplete /\ WorkHasWorker /\ UsesInOrder /\ RequestKnown
           /\ StopPending /\ TaskSession /\ OwnResult

-----------------------------------------------------------------------------
(* Numbers of channels and uses.                                           *)
LEMMA Numbers ==
    /\ Channels \subseteq Nat /\ Uses \subseteq Nat
    /\ 0 \notin Channels /\ 0 \notin Uses /\ QueueSize \in Nat /\ NoSession \notin Sessions
  BY AliAssumption DEF Channels, Uses

(* Min of a set of naturals is its least element.                          *)
LEMMA MinIs ==
    ASSUME NEW T, T \subseteq Nat, T # {}
    PROVE  Min(T) \in T /\ \A y \in T : Min(T) <= y
  BY LeastNat DEF Min

(* The invariant holds before the first session.                           *)
LEMMA InitInv == Init => IInv
<1> SUFFICES ASSUME Init PROVE IInv
  OBVIOUS
<1>1. Shape
  BY Numbers DEF Init, Shape, PoolShape, SessionShape, TaskShape, MediaShape, WorkerShape,
     RequestShape, Idle, Waiting, TaskPlaces, MediaPlaces, WorkerPlaces, Phases,
     RequestStates, Calls, Used
<1>2. PoolComplete /\ WorkHasWorker
  BY DEF Init, PoolComplete, Taken, Idle, WorkHasWorker, IsWork
<1>3. UsesInOrder /\ RequestKnown /\ StopPending /\ TaskSession
  BY DEF Init, UsesInOrder, Used, RequestKnown, StopPending, TaskSession, Idle
<1>4. OwnResult
  BY DEF Init, OwnResult, Used, Idle
<1> QED
  BY <1>1, <1>2, <1>3, <1>4 DEF IInv

-----------------------------------------------------------------------------
(* The waiters that wake keep their channel.                               *)
LEMMA WokenShape ==
    ASSUME WorkerShape, NEW c, worker' = Woken(c)
    PROVE  /\ WorkerShape'
           /\ \A u \in Uses : /\ worker'[u].c = worker[u].c
                              /\ \/ worker'[u].at = worker[u].at
                                 \/ worker[u].at = "wait" /\ worker'[u].at = "woken"
           /\ Used' = Used
<1>1. \A u \in Uses : worker'[u] = IF worker[u] = [at |-> "wait", c |-> c]
                                  THEN [worker[u] EXCEPT !.at = "woken"] ELSE worker[u]
  BY DEF Woken
<1>2. \A u \in Uses : worker[u] \in [at : WorkerPlaces, c : {0} \cup Channels]
  BY DEF WorkerShape
<1>3. \A u \in Uses : /\ worker'[u].c = worker[u].c
                      /\ \/ worker'[u].at = worker[u].at
                         \/ worker[u].at = "wait" /\ worker'[u].at = "woken"
                      /\ worker'[u] \in [at : WorkerPlaces, c : {0} \cup Channels]
  <2> TAKE u \in Uses
  <2>1. worker[u] \in [at : WorkerPlaces, c : {0} \cup Channels]
    BY <1>2
  <2>2. CASE worker[u] = [at |-> "wait", c |-> c]
    <3>1. worker'[u] = [at |-> "woken", c |-> c] /\ worker[u].at = "wait"
      BY <1>1, <2>2
    <3> QED
      BY <2>1, <2>2, <3>1 DEF WorkerPlaces
  <2>3. CASE worker[u] # [at |-> "wait", c |-> c]
    BY <1>1, <2>1, <2>3
  <2> QED
    BY <2>2, <2>3
<1>4. Used' = Used
  BY <1>3 DEF Used
<1>5. worker' \in [Uses -> [at : WorkerPlaces, c : {0} \cup Channels]]
  BY <1>3 DEF Woken
<1>6. \A u \in Used' : worker'[u].c \in Channels
  BY <1>3, <1>4 DEF WorkerShape, Used
<1>7. WorkerShape'
  BY <1>5, <1>6 DEF WorkerShape
<1> QED
  BY <1>3, <1>4, <1>7

(* The worker of use u goes on to the place named next.                    *)
Moves(u, next) ==
    /\ u \in Uses /\ worker[u].at # "none" /\ next \in WorkerPlaces \ {"none"}
    /\ worker' = [worker EXCEPT ![u].at = next]

(* A worker that moves keeps its channel.                                  *)
LEMMA WorkerAtShape ==
    ASSUME WorkerShape, NEW u, NEW next, Moves(u, next)
    PROVE  /\ WorkerShape' /\ Used' = Used
           /\ worker'[u].at = next
           /\ worker[u].c \in Channels
           /\ \A v \in Uses : /\ worker'[v].c = worker[v].c
                              /\ v # u => worker'[v] = worker[v]
<1>1. /\ u \in Uses /\ worker[u].at # "none" /\ next \in WorkerPlaces \ {"none"}
      /\ worker' = [worker EXCEPT ![u].at = next]
  BY DEF Moves
<1>2. \A v \in Uses : worker[v] \in [at : WorkerPlaces, c : {0} \cup Channels]
  BY DEF WorkerShape
<1>3. /\ worker'[u].at = next
      /\ \A v \in Uses : /\ worker'[v].c = worker[v].c
                         /\ v # u => worker'[v] = worker[v]
                         /\ worker'[v] \in [at : WorkerPlaces, c : {0} \cup Channels]
  BY <1>1, <1>2 DEF WorkerShape
<1>4. Used' = Used
  BY <1>1, <1>3 DEF Used
<1>5. worker' \in [Uses -> [at : WorkerPlaces, c : {0} \cup Channels]]
  BY <1>1, <1>3 DEF WorkerShape
<1>6. u \in Used
  BY <1>1 DEF Used
<1> QED
  BY <1>1, <1>3, <1>4, <1>5, <1>6 DEF WorkerShape

-----------------------------------------------------------------------------
(* The steps of the consumer task keep the shape.                          *)
LEMMA ConsumerShape ==
    ASSUME Shape, UsesInOrder, ConsumerTask
    PROVE  Shape'
<1> USE Numbers DEF Shape
<1>1. ASSUME NEW s \in Sessions, RecognizeNewChannel(s) PROVE Shape'
  <2> DEFINE c == Min(Free)
             u == Min(Uses \ Used)
  <2>1. c \in Channels
    <3>1. Free \subseteq Channels /\ Free # {}
      BY <1>1 DEF RecognizeNewChannel, Free, Returned, PoolShape
    <3> QED
      BY <3>1, MinIs
  <2>2. u \in Uses /\ worker[u].at = "none"
    <3>1. Uses \ Used # {}
      BY <1>1 DEF RecognizeNewChannel, Used
    <3>2. u \in Uses \ Used
      BY <3>1, MinIs
    <3> QED
      BY <3>2 DEF Used
  <2> HIDE DEF c, u
  <2>3. /\ m_ChIdlePool' = (m_ChIdlePool \cup Returned) \ {c}
        /\ m_ChBusyPool' = m_ChBusyPool \ Returned
        /\ ch' = [ch EXCEPT ![s] = c] /\ m_Ch' = [m_Ch EXCEPT ![c] = s]
        /\ phase' = [phase EXCEPT ![s] = "recognize"]
        /\ task' = [at |-> "start", s |-> s, use |-> u]
        /\ UNCHANGED <<m_Starting, m_Runing, m_recogRequest, queue_vars,
                   recog_request, stop_response, active, media, worker, request,
                   completions, crashed>>
    BY <1>1 DEF RecognizeNewChannel, c, u
  <2>4. PoolShape'
    BY <2>1, <2>3 DEF PoolShape, Returned, queue_vars
  <2>5. SessionShape'
    BY <2>1, <2>3 DEF SessionShape, Phases
  <2>6. ch' \in [Sessions -> {0} \cup Channels] /\ ch'[s] = c
    BY <2>1, <2>3 DEF SessionShape
  <2>7. TaskShape'
    BY <2>1, <2>2, <2>3, <2>6 DEF TaskShape, TaskPlaces
  <2>8. MediaShape'
    BY <2>1, <2>3, <2>6 DEF MediaShape, SessionShape
  <2>9. WorkerShape' /\ RequestShape'
    BY <2>3 DEF WorkerShape, RequestShape, Used
  <2> QED
    BY <2>4, <2>5, <2>7, <2>8, <2>9
<1>2. ASSUME NEW s \in Sessions, RecognizeNoChannel(s) PROVE Shape'
  BY <1>2 DEF RecognizeNoChannel, PoolShape, SessionShape, TaskShape, MediaShape,
     WorkerShape, RequestShape, Used, pool_vars, channel_vars, queue_vars, session_vars
<1>3. ASSUME NEW s \in Sessions, RecogStop(s) PROVE Shape'
  <2>1. WorkerShape' /\ (\A u \in Uses : worker'[u].at = "none" <=> worker[u].at = "none")
    BY <1>3, WokenShape DEF RecogStop, Stop, InterruptAll
  <2>2. PoolShape'
    BY <1>3 DEF RecogStop, Stop, StopFields, PoolShape, pool_vars, queue_vars
  <2>3. SessionShape'
    BY <1>3 DEF RecogStop, SessionShape, Phases
  <2>4. TaskShape'
    BY <1>3, <2>1 DEF RecogStop, TaskShape
  <2>5. MediaShape'
    BY <1>3 DEF RecogStop, Stop, InterruptAll, MediaShape, Waiting, MediaPlaces
  <2>6. RequestShape'
    BY <1>3 DEF RecogStop, RequestShape
  <2> QED
    BY <2>1, <2>2, <2>3, <2>4, <2>5, <2>6
<1>4. CASE Start
  <2>1. task.at = "start" /\ task' = [task EXCEPT !.at = "push"]
    BY <1>4 DEF Start, TaskAt
  <2>2. TaskShape'
    BY <1>4, <2>1 DEF Start, TaskShape, TaskPlaces, session_vars
  <2>3. PoolShape' /\ SessionShape' /\ MediaShape' /\ WorkerShape' /\ RequestShape'
    BY <1>4 DEF Start, PoolShape, SessionShape, MediaShape, WorkerShape, RequestShape, Used,
       pool_vars, queue_vars, session_vars
  <2> QED
    BY <2>2, <2>3
<1>5. CASE TaskPush
  <2>1. /\ task.at = "push" /\ task' = [task EXCEPT !.at = "pool"]
        /\ worker' = [worker EXCEPT ![task.use] = [at |-> "queued", c |-> ch[task.s]]]
    BY <1>5 DEF TaskPush, TaskAt
  <2>2. TaskShape'
    BY <1>5, <2>1 DEF TaskPush, TaskShape, TaskPlaces, session_vars
  <2>3. WorkerShape'
    BY <2>1 DEF WorkerShape, TaskShape, WorkerPlaces, Used
  <2>4. PoolShape' /\ SessionShape' /\ MediaShape' /\ RequestShape'
    BY <1>5 DEF TaskPush, PoolShape, SessionShape, MediaShape, RequestShape,
       pool_vars, channel_vars, queue_vars, session_vars
  <2> QED
    BY <2>2, <2>3, <2>4
<1>6. CASE RecognizeSetPool
  <2>1. task.at = "pool" /\ task' = [task EXCEPT !.at = "respond"]
    BY <1>6 DEF RecognizeSetPool, TaskAt
  <2>2. TaskShape'
    BY <1>6, <2>1 DEF RecognizeSetPool, TaskShape, TaskPlaces, session_vars
  <2>3. PoolShape'
    BY <1>6, <2>1 DEF RecognizeSetPool, ResetChannelPoolState, PoolShape, TaskShape,
       channel_vars, queue_vars
  <2>4. SessionShape' /\ MediaShape' /\ WorkerShape' /\ RequestShape'
    BY <1>6 DEF RecognizeSetPool, SessionShape, MediaShape, WorkerShape, RequestShape, Used,
       session_vars
  <2> QED
    BY <2>2, <2>3, <2>4
<1>8. CASE RecognizeRespond
  <2>1. task.at = "respond" /\ task' = [task EXCEPT !.at = "request"]
    BY <1>8 DEF RecognizeRespond, TaskAt
  <2>2. TaskShape'
    BY <1>8, <2>1 DEF RecognizeRespond, TaskShape, TaskPlaces
  <2>3. PoolShape'
    BY <1>8 DEF RecognizeRespond, PoolShape, pool_vars, channel_vars, queue_vars
  <2>4. SessionShape'
    BY <1>8, <2>1 DEF RecognizeRespond, SessionShape, TaskShape, Phases
  <2>5. MediaShape' /\ WorkerShape' /\ RequestShape'
    BY <1>8 DEF RecognizeRespond, MediaShape, WorkerShape, RequestShape, Used
  <2> QED
    BY <2>2, <2>3, <2>4, <2>5
<1>7. CASE RecognizeSetRequest
  <2>1. task.at = "request" /\ task' = Idle
    BY <1>7 DEF RecognizeSetRequest, TaskAt
  <2>2. TaskShape'
    BY <1>7, <2>1 DEF RecognizeSetRequest, TaskShape, TaskPlaces, Idle
  <2>3. SessionShape'
    BY <1>7, <2>1 DEF RecognizeSetRequest, SessionShape, TaskShape
  <2>4. PoolShape' /\ MediaShape' /\ WorkerShape' /\ RequestShape'
    BY <1>7 DEF RecognizeSetRequest, PoolShape, MediaShape, WorkerShape, RequestShape, Used,
       pool_vars, channel_vars, queue_vars
  <2> QED
    BY <2>2, <2>3, <2>4
<1> QED
  BY <1>1, <1>2, <1>3, <1>4, <1>5, <1>6, <1>7, <1>8 DEF ConsumerTask

(* The steps of the media thread keep the shape.                           *)
LEMMA MediaThreadShape ==
    ASSUME Shape, MediaThread
    PROVE  Shape'
<1> USE Numbers DEF Shape
<1>1. ASSUME NEW s \in Sessions, StreamWriteStopped(s) PROVE Shape'
  <2>1. SessionShape'
    BY <1>1 DEF StreamWriteStopped, SessionShape, Phases
  <2>2. MediaShape'
    BY <1>1 DEF StreamWriteStopped, MediaShape, MediaPlaces, Waiting
  <2>3. PoolShape' /\ TaskShape' /\ WorkerShape' /\ RequestShape'
    BY <1>1 DEF StreamWriteStopped, PoolShape, TaskShape, WorkerShape, RequestShape, Used,
       pool_vars, channel_vars, queue_vars
  <2> QED
    BY <2>1, <2>2, <2>3
<1>2. CASE StreamWriteClear
  <2>1. SessionShape'
    BY <1>2 DEF StreamWriteClear, SessionShape
  <2>2. MediaShape'
    BY <1>2 DEF StreamWriteClear, MediaShape, MediaPlaces, Waiting
  <2>3. PoolShape' /\ TaskShape' /\ WorkerShape' /\ RequestShape'
    BY <1>2 DEF StreamWriteClear, PoolShape, TaskShape, WorkerShape, RequestShape, Used,
       pool_vars, channel_vars, queue_vars
  <2> QED
    BY <2>1, <2>2, <2>3
<1>3. ASSUME NEW s \in Sessions, StreamWrite(s) PROVE Shape'
  <2>1. MediaShape'
    BY <1>3 DEF StreamWrite, MediaShape, MediaPlaces, Waiting
  <2>2. PoolShape' /\ SessionShape' /\ TaskShape' /\ WorkerShape' /\ RequestShape'
    BY <1>3 DEF StreamWrite, PoolShape, SessionShape, TaskShape, WorkerShape, RequestShape,
       Used, pool_vars, channel_vars, queue_vars, session_vars
  <2> QED
    BY <2>1, <2>2
<1>4. ASSUME NEW s \in Sessions, StreamClose(s) PROVE Shape'
  <2>1. WorkerShape' /\ (\A u \in Uses : worker'[u].at = "none" <=> worker[u].at = "none")
    BY <1>4, WokenShape DEF StreamClose
  <2>2. PoolShape'
    BY <1>4 DEF StreamClose, StopFields, PoolShape, pool_vars, queue_vars
  <2>3. SessionShape'
    BY <1>4 DEF StreamClose, SessionShape, Phases
  <2>4. TaskShape'
    BY <1>4, <2>1 DEF StreamClose, TaskShape
  <2>5. MediaShape'
    BY <1>4 DEF StreamClose, MediaShape, Waiting, MediaPlaces, SessionShape
  <2>6. RequestShape'
    BY <1>4 DEF StreamClose, RequestShape
  <2> QED
    BY <2>1, <2>2, <2>3, <2>4, <2>5, <2>6
<1>5. ASSUME NEW s \in Sessions, StreamCloseUnused(s) PROVE Shape'
  BY <1>5 DEF StreamCloseUnused, PoolShape, SessionShape, TaskShape, MediaShape,
     WorkerShape, RequestShape, Used, pool_vars, channel_vars, queue_vars, session_vars
<1>6. CASE WriteFrame
  <2>1. /\ UNCHANGED <<pool_vars, channel_vars, m_recogRequest, session_vars, task, request>>
        /\ \/ media' = Waiting /\ UNCHANGED <<m_FrameQueue, worker>>
           \/ \E c \in {ch[media.s]} : media.at = "write" /\ PushBlocks(c)
           \/ \E c \in {ch[media.s], media.c} : PushFrame(c)
    BY <1>6 DEF WriteFrame
  <2>2. CASE media' = Waiting /\ UNCHANGED <<m_FrameQueue, worker>>
    BY <2>1, <2>2 DEF PoolShape, SessionShape, TaskShape, MediaShape, WorkerShape,
       RequestShape, Used, pool_vars, channel_vars, session_vars, Waiting, MediaPlaces
  <2>3. ASSUME media.at = "write", PushBlocks(ch[media.s]) PROVE Shape'
    <3>1. MediaShape'
      BY <2>1, <2>3 DEF PushBlocks, MediaShape, MediaPlaces, SessionShape, session_vars
    <3> QED
      BY <2>1, <2>3, <3>1 DEF PushBlocks, PoolShape, SessionShape, TaskShape, WorkerShape,
         RequestShape, Used, pool_vars, channel_vars, session_vars
  <2>4. ASSUME NEW c, PushFrame(c) PROVE Shape'
    <3>1. MediaShape'
      BY <2>4 DEF PushFrame, MediaShape, MediaPlaces, Waiting
    <3>2. WorkerShape' /\ (\A u \in Uses : worker'[u].at = "none" <=> worker[u].at = "none")
      <4>1. CASE UNCHANGED worker
        BY <4>1 DEF WorkerShape, Used
      <4>2. ASSUME NEW u \in Uses, worker[u] = [at |-> "wait", c |-> c],
                   worker' = [worker EXCEPT ![u].at = "woken"]
            PROVE  WorkerShape' /\ (\A v \in Uses : worker'[v].at = "none"
                                                      <=> worker[v].at = "none")
        <5>1. worker[u].at = "wait" /\ Moves(u, "woken")
          BY <4>2 DEF WorkerPlaces, Moves
        <5>2. /\ WorkerShape' /\ worker'[u].at = "woken"
              /\ \A v \in Uses : v # u => worker'[v] = worker[v]
          BY <4>2, <5>1, WorkerAtShape
        <5> QED
          BY <5>1, <5>2
      <4> QED
        BY <2>4, <4>1, <4>2 DEF PushFrame
    <3>3. m_FrameQueue' \in [Channels -> 0..QueueSize]
      <4>1. m_FrameQueue' = [m_FrameQueue EXCEPT ![c] = m_FrameQueue[c] + 1]
            /\ m_FrameQueue[c] < QueueSize
        BY <2>4 DEF PushFrame
      <4>2. c \in Channels => m_FrameQueue[c] + 1 \in 0..QueueSize
        BY <4>1 DEF PoolShape
      <4> QED
        BY <4>1, <4>2 DEF PoolShape
    <3>4. PoolShape'
      BY <2>1, <3>3 DEF PoolShape, pool_vars, channel_vars
    <3>5. TaskShape'
      BY <2>1, <3>2 DEF TaskShape, session_vars
    <3> QED
      BY <2>1, <3>1, <3>2, <3>4, <3>5 DEF SessionShape, RequestShape, session_vars
  <2> QED
    BY <2>1, <2>2, <2>3, <2>4
<1>7. CASE ReleaseChannel
  <2>1. PoolShape'
    BY <1>7 DEF ReleaseChannel, PoolShape, MediaShape, pool_vars, channel_vars, queue_vars
  <2>2. MediaShape'
    BY <1>7 DEF ReleaseChannel, MediaShape, MediaPlaces, Waiting
  <2>3. SessionShape' /\ TaskShape' /\ WorkerShape' /\ RequestShape'
    BY <1>7 DEF ReleaseChannel, SessionShape, TaskShape, WorkerShape, RequestShape, Used,
       session_vars
  <2> QED
    BY <2>1, <2>2, <2>3
<1> QED
  BY <1>1, <1>2, <1>3, <1>4, <1>5, <1>6, <1>7 DEF MediaThread

(* What a worker of use u changes besides its own place keeps the shape.   *)
LEMMA DestroyedShape ==
    ASSUME RequestShape, NEW c
    PROVE  Destroyed(c, request) \in [Uses -> [state : RequestStates, call : Calls]]
<1> DEFINE r == m_recogRequest[c]
<1>1. CASE r = 0
  BY <1>1 DEF Destroyed, RequestShape
<1>2. CASE r # 0
  <2>1. Destroyed(c, request) = [request EXCEPT ![r].state = "released"]
    BY <1>2 DEF Destroyed
  <2> HIDE DEF r
  <2> QED
    BY <2>1 DEF RequestShape, RequestStates
<1> QED
  BY <1>1, <1>2

(* The steps of a worker keep the shape.                                   *)
LEMMA WorkerStepShape ==
    ASSUME Shape, NEW u \in Used, Worker(u)
    PROVE  Shape'
<1> USE Numbers DEF Shape
<1> DEFINE Same == \A v \in Uses : worker'[v].at = "none" <=> worker[v].at = "none"
<1>u. u \in Uses
  BY DEF Used
<1>w. ASSUME NEW next, Moves(u, next) PROVE WorkerShape' /\ Same
  <2>1. /\ WorkerShape' /\ worker'[u].at = next
        /\ \A v \in Uses : v # u => worker'[v] = worker[v]
    BY <1>w, WorkerAtShape
  <2>2. worker[u].at # "none" /\ next # "none"
    BY <1>w DEF Moves
  <2> QED
    BY <2>1, <2>2
<1>t. ASSUME Same, UNCHANGED <<ch, task>> PROVE TaskShape'
  BY <1>t DEF TaskShape
<1> HIDE DEF Same
<1>1. CASE WorkerRun(u)
  <2>1. WorkerShape' /\ Same
    <3>1. Moves(u, "init")
      BY <1>1, <1>u DEF WorkerRun, WorkerAt, Moves, WorkerPlaces
    <3> QED
      BY <3>1, <1>w
  <2> QED
    BY <1>1, <2>1, <1>t DEF WorkerRun, PoolShape, SessionShape, MediaShape, RequestShape,
       pool_vars, channel_vars, queue_vars, session_vars
<1>2. CASE OnRecogRequestInit(u)
  <2>1. WorkerShape' /\ Same
    <3>1. Moves(u, "check") \/ Moves(u, "end")
      BY <1>2, <1>u DEF OnRecogRequestInit, WorkerAt, Moves, WorkerPlaces
    <3> QED
      BY <3>1, <1>w
  <2>2. RequestShape'
    BY <1>2, DestroyedShape DEF OnRecogRequestInit, RequestShape, RequestStates
  <2>3. PoolShape'
    BY <1>2, <1>u DEF OnRecogRequestInit, PoolShape, pool_vars, channel_vars, queue_vars
  <2> QED
    BY <1>2, <2>1, <2>2, <2>3, <1>t DEF OnRecogRequestInit, SessionShape, MediaShape,
       session_vars
<1>3. CASE RecogLoop(u)
  <2>1. WorkerShape' /\ Same
    <3>1. Moves(u, "pop") \/ Moves(u, "end")
      BY <1>3, <1>u DEF RecogLoop, WorkerAt, Moves, WorkerPlaces
    <3> QED
      BY <3>1, <1>w
  <2> QED
    BY <1>3, <2>1, <1>t DEF RecogLoop, PoolShape, SessionShape, MediaShape, RequestShape,
       pool_vars, channel_vars, queue_vars, session_vars
<1>4. CASE QueuePop(u)
  <2>1. WorkerShape' /\ Same
    <3>1. Moves(u, "send") \/ Moves(u, "wait") \/ Moves(u, "end")
      BY <1>4, <1>u DEF QueuePop, WorkerAt, Moves, WorkerPlaces
    <3> QED
      BY <3>1, <1>w
  <2>2. m_FrameQueue' \in [Channels -> 0..QueueSize]
    BY <1>4 DEF QueuePop, PoolShape
  <2>3. PoolShape'
    BY <1>4, <2>2 DEF QueuePop, PoolShape, pool_vars
  <2>4. MediaShape'
    BY <1>4 DEF QueuePop, MediaShape, MediaPlaces, session_vars
  <2> QED
    BY <1>4, <2>1, <2>3, <2>4, <1>t DEF QueuePop, SessionShape, RequestShape, session_vars
<1>5. CASE SendAudio(u)
  <2>1. WorkerShape' /\ Same
    <3>1. Moves(u, "check") \/ Moves(u, "end")
      BY <1>5, <1>u DEF SendAudio, WorkerAt, Moves, WorkerPlaces
    <3> QED
      BY <3>1, <1>w
  <2> QED
    BY <1>5, <2>1, <1>t DEF SendAudio, PoolShape, SessionShape, MediaShape, RequestShape,
       pool_vars, queue_vars, session_vars
<1>6. CASE OnDestroyRecogRequest(u)
  <2>1. WorkerShape' /\ Same
    <3>1. Moves(u, "reset")
      BY <1>6, <1>u DEF OnDestroyRecogRequest, WorkerAt, Moves, WorkerPlaces
    <3> QED
      BY <3>1, <1>w
  <2>2. RequestShape'
    BY <1>6, DestroyedShape DEF OnDestroyRecogRequest, RequestShape
  <2>3. PoolShape'
    BY <1>6 DEF OnDestroyRecogRequest, PoolShape, pool_vars, channel_vars, queue_vars
  <2> QED
    BY <1>6, <2>1, <2>2, <2>3, <1>t DEF OnDestroyRecogRequest, SessionShape, MediaShape,
       session_vars
<1>7. CASE RecogMainEnd(u)
  <2>1. WorkerShape' /\ Same
    <3>1. Moves(u, "done")
      BY <1>7, <1>u DEF RecogMainEnd, WorkerAt, Moves, WorkerPlaces
    <3> QED
      BY <3>1, <1>w
  <2> QED
    BY <1>7, <2>1, <1>t DEF RecogMainEnd, PoolShape, SessionShape, MediaShape, RequestShape,
       pool_vars, queue_vars, session_vars
<1> QED
  BY <1>1, <1>2, <1>3, <1>4, <1>5, <1>6, <1>7 DEF Worker

(* The callbacks of the SDK keep the shape.                                *)
LEMMA CallbackShape ==
    ASSUME Shape, NEW u \in Used, Callback(u)
    PROVE  Shape'
<1> USE Numbers DEF Shape
<1>u. u \in Uses
  BY DEF Used
<1>1. ASSUME NEW result \in {"completed", "failed"}, OnResult(u, result) PROVE Shape'
  <2>1. RequestShape'
    BY <1>1 DEF OnResult, RequestShape, RequestStates, Calls
  <2> QED
    BY <1>1, <2>1 DEF OnResult, PoolShape, SessionShape, TaskShape, MediaShape, WorkerShape,
       Used, pool_vars, channel_vars, queue_vars, session_vars
<1>2. CASE OnMrcpRecogCompleted(u)
  <2>1. RequestShape'
    BY <1>2 DEF OnMrcpRecogCompleted, RequestShape, Calls
  <2>2. SessionShape'
    BY <1>2 DEF OnMrcpRecogCompleted, SessionShape, Phases
  <2> QED
    BY <1>2, <2>1, <2>2 DEF OnMrcpRecogCompleted, PoolShape, TaskShape, MediaShape,
       WorkerShape, Used, pool_vars, channel_vars, queue_vars
<1>3. CASE OnResultFlag(u)
  <2>1. RequestShape'
    BY <1>3 DEF OnResultFlag, RequestShape, Calls
  <2>2. PoolShape'
    BY <1>3 DEF OnResultFlag, PoolShape, pool_vars, queue_vars
  <2> QED
    BY <1>3, <2>1, <2>2 DEF OnResultFlag, SessionShape, TaskShape, MediaShape, WorkerShape,
       Used, session_vars
<1>4. CASE OnChannelClosed(u)
  <2>1. WorkerShape' /\ (\A v \in Uses : worker'[v].at = "none" <=> worker[v].at = "none")
    BY <1>4, WokenShape DEF OnChannelClosed, Stop, InterruptAll
  <2>2. RequestShape'
    BY <1>4 DEF OnChannelClosed, RequestShape, RequestStates, Calls
  <2>3. PoolShape'
    BY <1>4 DEF OnChannelClosed, Stop, StopFields, PoolShape, pool_vars, queue_vars
  <2>4. TaskShape'
    BY <1>4, <2>1 DEF OnChannelClosed, TaskShape, session_vars
  <2>5. MediaShape'
    BY <1>4 DEF OnChannelClosed, Stop, InterruptAll, MediaShape, Waiting, MediaPlaces,
       session_vars
  <2> QED
    BY <1>4, <2>1, <2>2, <2>3, <2>4, <2>5 DEF OnChannelClosed, SessionShape, session_vars
<1>5. CASE OnChannelClosedFlag(u)
  <2>1. RequestShape'
    BY <1>5 DEF OnChannelClosedFlag, RequestShape, Calls
  <2>2. PoolShape'
    BY <1>5 DEF OnChannelClosedFlag, PoolShape, pool_vars, queue_vars
  <2> QED
    BY <1>5, <2>1, <2>2 DEF OnChannelClosedFlag, SessionShape, TaskShape, MediaShape,
       WorkerShape, Used, session_vars
<1> QED
  BY <1>1, <1>2, <1>3, <1>4, <1>5 DEF Callback

(* Every step keeps the shape.                                             *)
LEMMA ShapeStep ==
    ASSUME Shape, UsesInOrder, [Next]_vars
    PROVE  Shape'
<1>1. CASE Next
  BY <1>1, ConsumerShape, MediaThreadShape, WorkerStepShape, CallbackShape DEF Next
<1>2. CASE UNCHANGED vars
  BY <1>2 DEF vars, Shape, PoolShape, SessionShape, TaskShape, MediaShape, WorkerShape,
     RequestShape, Used, pool_vars, channel_vars, queue_vars, session_vars
<1> QED
  BY <1>1, <1>2

-----------------------------------------------------------------------------
(* The steps that move the consumer task or a channel between pools.       *)
LEMMA PoolSteps ==
    ASSUME Next
    PROVE  \/ \E s \in Sessions : RecognizeNewChannel(s)
           \/ Start \/ TaskPush \/ RecognizeSetPool \/ RecognizeRespond \/ RecognizeSetRequest
           \/ ReleaseChannel
           \/ UNCHANGED <<m_ChIdlePool, m_ChBusyPool, task, ch>>
<1>1. ASSUME NEW s \in Sessions, RecognizeNoChannel(s) \/ RecogStop(s) \/ StreamWriteStopped(s)
                \/ StreamWrite(s) \/ StreamClose(s) \/ StreamCloseUnused(s)
      PROVE  UNCHANGED <<m_ChIdlePool, m_ChBusyPool, task, ch>>
  BY <1>1 DEF RecognizeNoChannel, RecogStop, StreamWriteStopped, StreamWrite, StreamClose,
     StreamCloseUnused, pool_vars, session_vars
<1>2. CASE StreamWriteClear \/ WriteFrame
  BY <1>2 DEF StreamWriteClear, WriteFrame, pool_vars, session_vars
<1>3. ASSUME NEW u, Worker(u) PROVE UNCHANGED <<m_ChIdlePool, m_ChBusyPool, task, ch>>
  BY <1>3 DEF Worker, WorkerRun, OnRecogRequestInit, RecogLoop, QueuePop, SendAudio,
     OnDestroyRecogRequest, RecogMainEnd, pool_vars, session_vars
<1>4. ASSUME NEW u, Callback(u) PROVE UNCHANGED <<m_ChIdlePool, m_ChBusyPool, task, ch>>
  BY <1>4 DEF Callback, OnResult, OnMrcpRecogCompleted, OnResultFlag, OnChannelClosed,
     OnChannelClosedFlag, pool_vars, session_vars
<1> QED
  BY <1>1, <1>2, <1>3, <1>4 DEF Next, ConsumerTask, MediaThread

(* No step loses a channel.                                                *)
LEMMA PoolStep ==
    ASSUME Shape, PoolComplete, [Next]_vars
    PROVE  PoolComplete'
<1> USE DEF Shape
<1>1. ASSUME NEW s \in Sessions, RecognizeNewChannel(s) PROVE PoolComplete'
  <2> DEFINE c == Min(Free)
  <2>1. Free \subseteq Channels /\ Free # {} /\ Free \subseteq Nat
    BY <1>1, Numbers DEF RecognizeNewChannel, Free, Returned, PoolShape
  <2>2. c \in Channels
    BY <2>1, MinIs
  <2> HIDE DEF c
  <2>3. /\ m_ChIdlePool' = (m_ChIdlePool \cup Returned) \ {c}
        /\ m_ChBusyPool' = m_ChBusyPool \ Returned
        /\ ch' = [ch EXCEPT ![s] = c]
        /\ task'.at = "start" /\ task'.s = s /\ task.at = "idle"
    BY <1>1 DEF RecognizeNewChannel, c
  <2>4. Taken' = {c} /\ Taken = {}
    BY <2>3 DEF Taken, SessionShape
  <2> QED
    BY <2>2, <2>3, <2>4 DEF PoolComplete, Returned, PoolShape
<1>2. CASE Start \/ TaskPush
  <2>1. /\ task.at \in {"start", "push"} /\ task'.at \in {"push", "pool"}
        /\ task'.s = task.s /\ UNCHANGED <<m_ChIdlePool, m_ChBusyPool, ch>>
    BY <1>2 DEF Start, TaskPush, TaskAt, TaskShape, pool_vars, session_vars
  <2>2. Taken' = Taken
    BY <2>1 DEF Taken
  <2> QED
    BY <2>1, <2>2 DEF PoolComplete
<1>3. CASE RecognizeSetPool
  <2>1. /\ task.at = "pool" /\ task'.at = "respond"
        /\ m_ChIdlePool' \cup m_ChBusyPool' = m_ChIdlePool \cup m_ChBusyPool \cup {ch[task.s]}
    BY <1>3 DEF RecognizeSetPool, ResetChannelPoolState, TaskAt, TaskShape
  <2>2. Taken' = {} /\ Taken = {ch[task.s]}
    BY <2>1 DEF Taken
  <2> QED
    BY <2>1, <2>2 DEF PoolComplete
<1>4. CASE RecognizeRespond \/ RecognizeSetRequest
  <2>1. /\ task.at \in {"respond", "request"} /\ task'.at \in {"request", "idle"}
        /\ UNCHANGED <<m_ChIdlePool, m_ChBusyPool>>
    BY <1>4 DEF RecognizeRespond, RecognizeSetRequest, TaskAt, Idle, TaskShape, pool_vars
  <2>2. Taken' = Taken
    BY <2>1 DEF Taken
  <2> QED
    BY <2>1, <2>2 DEF PoolComplete
<1>5. CASE ReleaseChannel
  <2>1. /\ m_ChIdlePool' \cup m_ChBusyPool' = m_ChIdlePool \cup m_ChBusyPool \/ 
              \E c \in Channels : /\ m_ChIdlePool' = m_ChIdlePool \cup {c}
                                  /\ m_ChBusyPool' = m_ChBusyPool \ {c}
        /\ UNCHANGED <<task, ch>>
    BY <1>5 DEF ReleaseChannel, MediaShape, session_vars, pool_vars
  <2>2. Taken' = Taken
    BY <2>1 DEF Taken
  <2> QED
    BY <2>1, <2>2 DEF PoolComplete
<1>6. CASE UNCHANGED <<m_ChIdlePool, m_ChBusyPool, task, ch>>
  BY <1>6 DEF PoolComplete, Taken
<1>7. UNCHANGED vars => UNCHANGED <<m_ChIdlePool, m_ChBusyPool, task, ch>>
  BY DEF vars, pool_vars, session_vars
<1> QED
  BY <1>1, <1>2, <1>3, <1>4, <1>5, <1>6, <1>7, PoolSteps

(* How a step changes the workers.                                         *)
LEMMA WorkerSteps ==
    ASSUME Shape, [Next]_vars
    PROVE  \/ UNCHANGED worker
           \/ TaskPush
           \/ \E c : worker' = Woken(c)
           \/ \E u : Moves(u, "woken") /\ worker[u].at = "wait"
           \/ \E u \in Used : /\ Worker(u) /\ ~RecogMainEnd(u)
                              /\ \E next \in {"init", "check", "end", "pop", "send", "wait",
                                              "reset"} : Moves(u, next)
           \/ \E u \in Used : RecogMainEnd(u) /\ Moves(u, "done")
<1> USE DEF Shape
<1>1. CASE ConsumerTask
  <2>1. ASSUME NEW s \in Sessions, RecogStop(s) PROVE worker' = Woken(ch[s])
    BY <2>1 DEF RecogStop, Stop, InterruptAll
  <2>2. ASSUME NEW s \in Sessions, RecognizeNewChannel(s) \/ RecognizeNoChannel(s)
        PROVE  UNCHANGED worker
    BY <2>2 DEF RecognizeNewChannel, RecognizeNoChannel
  <2>3. Start \/ RecognizeSetPool \/ RecognizeRespond \/ RecognizeSetRequest => UNCHANGED worker
    BY DEF Start, RecognizeSetPool, RecognizeRespond, RecognizeSetRequest
  <2> QED
    BY <1>1, <2>1, <2>2, <2>3 DEF ConsumerTask
<1>2. CASE MediaThread
  <2>1. ASSUME NEW s \in Sessions, StreamWriteStopped(s) \/ StreamWrite(s) \/ StreamCloseUnused(s)
        PROVE  UNCHANGED worker
    BY <2>1 DEF StreamWriteStopped, StreamWrite, StreamCloseUnused
  <2>2. ASSUME NEW s \in Sessions, StreamClose(s) PROVE worker' = Woken(ch[s])
    BY <2>2 DEF StreamClose
  <2>3. StreamWriteClear \/ ReleaseChannel => UNCHANGED worker
    BY DEF StreamWriteClear, ReleaseChannel
  <2>4. CASE WriteFrame
    <3>1. ASSUME NEW c, PushFrame(c)
          PROVE  UNCHANGED worker \/ \E u : Moves(u, "woken") /\ worker[u].at = "wait"
      <4>1. ASSUME NEW u \in Uses, worker[u] = [at |-> "wait", c |-> c],
                   worker' = [worker EXCEPT ![u].at = "woken"]
            PROVE  Moves(u, "woken") /\ worker[u].at = "wait"
        BY <4>1 DEF Moves, WorkerPlaces
      <4> QED
        BY <3>1, <4>1 DEF PushFrame
    <3>2. ASSUME NEW c, PushBlocks(c) PROVE UNCHANGED worker
      BY <3>2 DEF PushBlocks
    <3> QED
      BY <2>4, <3>1, <3>2 DEF WriteFrame
  <2> QED
    BY <1>2, <2>1, <2>2, <2>3, <2>4 DEF MediaThread
<1>3. ASSUME NEW u \in Used, RecogMainEnd(u) PROVE Moves(u, "done")
  BY <1>3 DEF RecogMainEnd, WorkerAt, Moves, WorkerPlaces, Used
<1>4. ASSUME NEW u \in Used, Worker(u), ~RecogMainEnd(u)
      PROVE  \E next \in {"init", "check", "end", "pop", "send", "wait", "reset"} :
                Moves(u, next)
  <2>1. \E next \in {"init", "check", "end", "pop", "send", "wait", "reset"} :
           worker[u].at # "none" /\ worker' = [worker EXCEPT ![u].at = next]
    BY <1>4 DEF Worker, WorkerRun, OnRecogRequestInit, RecogLoop, QueuePop, SendAudio,
       OnDestroyRecogRequest, WorkerAt
  <2> QED
    BY <2>1 DEF Moves, WorkerPlaces, Used
<1>5. ASSUME NEW u \in Used, Callback(u)
      PROVE  UNCHANGED worker \/ \E c : worker' = Woken(c)
  BY <1>5 DEF Callback, OnResult, OnMrcpRecogCompleted, OnResultFlag, OnChannelClosed,
     OnChannelClosedFlag, Stop, InterruptAll
<1>6. UNCHANGED vars => UNCHANGED worker
  BY DEF vars
<1> QED
  BY <1>1, <1>2, <1>3, <1>4, <1>5, <1>6 DEF Next

(* A worker at work stays in its channel until RecogMainEnd.               *)
LEMMA WorkersKept ==
    ASSUME Shape, [Next]_vars, NEW v \in Uses, ~Ended(v)
    PROVE  worker'[v].c = worker[v].c /\ (~Ended(v)' \/ RecogMainEnd(v))
<1> USE DEF Shape
<1> DEFINE Kept == worker'[v].c = worker[v].c /\ ~Ended(v)'
<1> SUFFICES Kept \/ (RecogMainEnd(v) /\ worker'[v].c = worker[v].c)
  OBVIOUS
<1>1. ASSUME NEW u, NEW next, Moves(u, next), next # "done" PROVE Kept
  <2>1. /\ worker'[u].at = next
        /\ worker'[v].c = worker[v].c /\ (v # u => worker'[v] = worker[v])
    BY <1>1, WorkerAtShape
  <2>2. next # "none"
    BY <1>1 DEF Moves
  <2> QED
    BY <1>1, <2>1, <2>2 DEF Ended
<1>2. ASSUME NEW c, worker' = Woken(c) PROVE Kept
  <2>1. /\ worker'[v].c = worker[v].c
        /\ worker'[v].at = worker[v].at \/ worker'[v].at = "woken"
    BY <1>2, WokenShape
  <2> QED
    BY <2>1 DEF Ended
<1>3. ASSUME NEW u \in Used, RecogMainEnd(u), Moves(u, "done")
      PROVE  Kept \/ (RecogMainEnd(v) /\ worker'[v].c = worker[v].c)
  <2>1. worker'[v].c = worker[v].c /\ (v # u => worker'[v] = worker[v])
    BY <1>3, WorkerAtShape
  <2> QED
    BY <1>3, <2>1 DEF Ended
<1>4. CASE TaskPush
  <2>1. /\ worker' = [worker EXCEPT ![task.use] = [at |-> "queued", c |-> ch[task.s]]]
        /\ worker[task.use].at = "none"
    BY <1>4 DEF TaskPush, TaskAt, TaskShape
  <2>2. worker'[v] = worker[v]
    BY <2>1 DEF WorkerShape, Ended
  <2> QED
    BY <2>2 DEF Ended
<1>5. UNCHANGED worker => Kept
  BY DEF Ended
<1> HIDE DEF Kept
<1> QED
  BY <1>1, <1>2, <1>3, <1>4, <1>5, WorkerSteps

(* Only TaskPush begins a use.                                             *)
LEMMA UsedSteps ==
    ASSUME Shape, [Next]_vars
    PROVE  \/ /\ Used' = Used
              /\ \A v \in Uses : worker'[v].c = worker[v].c
           \/ /\ TaskPush /\ Used' = Used \cup {task.use}
              /\ worker'[task.use].c = ch[task.s]
              /\ \A v \in Used : worker'[v] = worker[v]
<1> USE DEF Shape
<1>1. ASSUME NEW u, NEW next, Moves(u, next)
      PROVE  Used' = Used /\ \A v \in Uses : worker'[v].c = worker[v].c
  BY <1>1, WorkerAtShape
<1>2. ASSUME NEW c, worker' = Woken(c)
      PROVE  Used' = Used /\ \A v \in Uses : worker'[v].c = worker[v].c
  BY <1>2, WokenShape
<1>3. ASSUME TaskPush
      PROVE  /\ Used' = Used \cup {task.use} /\ worker'[task.use].c = ch[task.s]
             /\ \A v \in Used : worker'[v] = worker[v]
  <2>1. /\ worker' = [worker EXCEPT ![task.use] = [at |-> "queued", c |-> ch[task.s]]]
        /\ worker[task.use].at = "none" /\ task.use \in Uses
    BY <1>3 DEF TaskPush, TaskAt, TaskShape
  <2>2. /\ worker'[task.use] = [at |-> "queued", c |-> ch[task.s]]
        /\ \A v \in Uses : v # task.use => worker'[v] = worker[v]
    BY <2>1 DEF WorkerShape
  <2>3. Used' = Used \cup {task.use}
    BY <2>1, <2>2 DEF Used
  <2> QED
    BY <2>1, <2>2, <2>3 DEF Used
<1>4. UNCHANGED worker => Used' = Used /\ \A v \in Uses : worker'[v].c = worker[v].c
  BY DEF Used
<1> QED
  BY <1>1, <1>2, <1>3, <1>4, WorkerSteps

(* Only Start says that a channel works.                                   *)
LEMMA StartingSteps ==
    ASSUME Shape, [Next]_vars, NEW c \in Channels, m_Starting'[c]
    PROVE  m_Starting[c] \/ (Start /\ ch[task.s] = c)
<1> USE DEF Shape, PoolShape
<1>1. CASE ConsumerTask
  BY <1>1 DEF ConsumerTask, RecognizeNewChannel, RecognizeNoChannel, RecogStop, Stop,
     StopFields, Start, TaskPush, RecognizeSetPool, RecognizeRespond, RecognizeSetRequest, channel_vars
<1>2. CASE MediaThread
  BY <1>2 DEF MediaThread, StreamWriteStopped, StreamWrite, StreamClose, StreamCloseUnused,
     StopFields, StreamWriteClear, WriteFrame, ReleaseChannel, channel_vars
<1>3. ASSUME NEW u \in Used, Worker(u) PROVE m_Starting[c]
  BY <1>3 DEF Worker, WorkerRun, OnRecogRequestInit, RecogLoop, QueuePop, SendAudio,
     OnDestroyRecogRequest, RecogMainEnd, channel_vars
<1>4. ASSUME NEW u \in Used, Callback(u) PROVE m_Starting[c]
  BY <1>4 DEF Callback, OnResult, OnMrcpRecogCompleted, OnResultFlag, OnChannelClosed,
     OnChannelClosedFlag, Stop, StopFields, channel_vars
<1>5. CASE UNCHANGED vars
  BY <1>5 DEF vars, channel_vars
<1> QED
  BY <1>1, <1>2, <1>3, <1>4, <1>5 DEF Next

(* The task is moved by its own steps only.                                *)
LEMMA TaskSteps ==
    ASSUME [Next]_vars
    PROVE  \/ \E s \in Sessions : RecognizeNewChannel(s)
           \/ Start \/ TaskPush \/ RecognizeSetPool \/ RecognizeRespond \/ RecognizeSetRequest
           \/ UNCHANGED <<task, ch>>
  BY PoolSteps DEF ReleaseChannel, session_vars, vars

(* A channel that works keeps a worker, or is about to get one.            *)
LEMMA WorkStep ==
    ASSUME Shape, WorkHasWorker, [Next]_vars
    PROVE  WorkHasWorker'
<1> USE DEF Shape
<1> SUFFICES ASSUME NEW c \in Channels, m_Starting'[c]
             PROVE  WorkersOf(c)' # {} \/ (task'.at = "push" /\ ch'[task'.s] = c)
  BY DEF WorkHasWorker, IsWork
<1>1. CASE Start /\ ch[task.s] = c
  <2>1. task'.at = "push" /\ task'.s = task.s /\ ch' = ch
    BY <1>1 DEF Start, TaskAt, TaskShape, session_vars
  <2> QED
    BY <1>1, <2>1
<1>2. CASE m_Starting[c] /\ WorkersOf(c) # {}
  <2>1. PICK v \in Uses : worker[v].c = c /\ ~Ended(v)
    BY <1>2 DEF WorkersOf
  <2>2. worker'[v].c = c /\ (~Ended(v)' \/ RecogMainEnd(v))
    BY <2>1, WorkersKept
  <2>3. ~RecogMainEnd(v)
    <3>1. RecogMainEnd(v) => m_Starting' = [m_Starting EXCEPT ![c] = FALSE]
      BY <2>1 DEF RecogMainEnd
    <3>2. m_Starting' = [m_Starting EXCEPT ![c] = FALSE] => ~m_Starting'[c]
      BY DEF PoolShape
    <3> QED
      BY <3>1, <3>2
  <2> QED
    BY <2>2, <2>3 DEF WorkersOf
<1>3. CASE m_Starting[c] /\ task.at = "push" /\ ch[task.s] = c
  <2>1. CASE TaskPush
    <3>1. /\ worker' = [worker EXCEPT ![task.use] = [at |-> "queued", c |-> c]]
          /\ task.use \in Uses
      BY <1>3, <2>1 DEF TaskPush, TaskShape
    <3>2. worker'[task.use] = [at |-> "queued", c |-> c]
      BY <3>1 DEF WorkerShape
    <3>3. task.use \in WorkersOf(c)'
      BY <3>1, <3>2 DEF WorkersOf, Ended
    <3> QED
      BY <3>3
  <2>2. CASE UNCHANGED <<task, ch>>
    BY <1>3, <2>2
  <2> QED
    BY <1>3, <2>1, <2>2, TaskSteps DEF RecognizeNewChannel, Start, RecognizeSetPool,
       RecognizeRespond,
       RecognizeSetRequest, TaskAt
<1> QED
  BY <1>1, <1>2, <1>3, StartingSteps DEF WorkHasWorker, IsWork

(* The uses are numbered in the order they begin.                          *)
LEMMA OrderStep ==
    ASSUME Shape, UsesInOrder, [Next]_vars
    PROVE  UsesInOrder'
<1> USE Numbers DEF Shape
<1>1. ASSUME NEW u \in Used', NEW v \in Uses, v < u PROVE v \in Used'
  <2>1. CASE u \in Used
    BY <1>1, <2>1, UsedSteps DEF UsesInOrder
  <2>2. CASE u \notin Used
    <3>1. TaskPush /\ Used' = Used \cup {task.use} /\ u = task.use
      BY <2>2, UsedSteps
    <3>2. task.at = "push" /\ u \in Uses
      BY <3>1 DEF TaskPush, TaskAt, TaskShape
    <3>3. v \in Used
      BY <1>1, <3>1, <3>2 DEF UsesInOrder
    <3> QED
      BY <3>1, <3>3
  <2> QED
    BY <2>1, <2>2
<1>2. ASSUME task'.at \in {"start", "push"}, NEW v \in Uses
      PROVE  v \in Used' <=> v < task'.use
  <2>1. ASSUME NEW s \in Sessions, RecognizeNewChannel(s) PROVE v \in Used' <=> v < task'.use
    <3> DEFINE u == Min(Uses \ Used)
    <3>1. Uses \ Used # {} /\ Uses \ Used \subseteq Nat /\ Used \subseteq Uses
      BY <2>1 DEF RecognizeNewChannel, Used
    <3>2. u \in Uses \ Used /\ \A w \in Uses \ Used : u <= w
      BY <3>1, MinIs
    <3>3. task'.use = u /\ worker' = worker
      BY <2>1 DEF RecognizeNewChannel
    <3> HIDE DEF u
    <3>4. v \in Used <=> v < u
      BY <3>1, <3>2 DEF UsesInOrder
    <3>5. Used' = Used
      BY <3>3 DEF Used
    <3> QED
      BY <3>3, <3>4, <3>5
  <2>2. CASE Start
    <3>1. task.at = "start" /\ task'.use = task.use /\ worker' = worker
      BY <2>2 DEF Start, TaskAt, TaskShape
    <3> QED
      BY <3>1 DEF UsesInOrder, Used
  <2>3. CASE TaskPush \/ RecognizeSetPool \/ RecognizeRespond \/ RecognizeSetRequest
    BY <1>2, <2>3 DEF TaskPush, RecognizeSetPool, RecognizeRespond, RecognizeSetRequest, TaskAt,
       Idle, TaskShape
  <2>4. CASE UNCHANGED task /\ ~TaskPush
    BY <1>2, <2>4, UsedSteps DEF UsesInOrder
  <2> QED
    BY <2>1, <2>2, <2>3, <2>4, TaskSteps
<1> QED
  BY <1>1, <1>2 DEF UsesInOrder

(* A STOP that waits for its answer is stopping, or just being answered.   *)
LEMMA StopStep ==
    ASSUME Shape, StopPending, TaskSession, [Next]_vars
    PROVE  StopPending'
<1> USE Numbers DEF Shape, SessionShape, StopPending
<1>1. ASSUME NEW s \in Sessions, RecognizeNewChannel(s) PROVE StopPending'
  BY <1>1 DEF RecognizeNewChannel, MediaShape
<1>2. ASSUME NEW s \in Sessions, RecogStop(s) PROVE StopPending'
  BY <1>2 DEF RecogStop, Stop, InterruptAll
<1>3. CASE RecognizeRespond
  BY <1>3 DEF RecognizeRespond, TaskSession, TaskAt
<1>4. ASSUME NEW s \in Sessions, StreamWriteStopped(s) PROVE StopPending'
  BY <1>4 DEF StreamWriteStopped, Waiting
<1>5. CASE StreamWriteClear
  BY <1>5 DEF StreamWriteClear
<1>6. ASSUME NEW s \in Sessions, StreamWrite(s) PROVE StopPending'
  BY <1>6 DEF StreamWrite, session_vars
<1>7. ASSUME NEW s \in Sessions, StreamClose(s) PROVE StopPending'
  BY <1>7 DEF StreamClose
<1>8. CASE WriteFrame \/ ReleaseChannel
  BY <1>8 DEF WriteFrame, PushBlocks, PushFrame, ReleaseChannel, session_vars
<1>9. ASSUME NEW u \in Used, OnMrcpRecogCompleted(u) PROVE StopPending'
  BY <1>9 DEF OnMrcpRecogCompleted
<1>10. ASSUME NEW u \in Used, QueuePop(u) \/ OnChannelClosed(u) PROVE StopPending'
  BY <1>10 DEF QueuePop, OnChannelClosed, Stop, InterruptAll, session_vars
<1>11. CASE UNCHANGED <<stop_response, phase, media>>
  BY <1>11
<1>12. ASSUME Next
       PROVE  \/ \E s \in Sessions : RecognizeNewChannel(s) \/ RecogStop(s)
                     \/ StreamWriteStopped(s) \/ StreamWrite(s) \/ StreamClose(s)
              \/ RecognizeRespond \/ StreamWriteClear \/ WriteFrame \/ ReleaseChannel
              \/ \E u \in Used : OnMrcpRecogCompleted(u) \/ QueuePop(u) \/ OnChannelClosed(u)
              \/ UNCHANGED <<stop_response, phase, media>>
  <2>1. ASSUME NEW s \in Sessions, RecognizeNoChannel(s) \/ StreamCloseUnused(s)
        PROVE  UNCHANGED <<stop_response, phase, media>>
    BY <2>1 DEF RecognizeNoChannel, StreamCloseUnused, session_vars
  <2>2. Start \/ TaskPush \/ RecognizeSetPool \/ RecognizeSetRequest =>
           UNCHANGED <<stop_response, phase, media>>
    BY DEF Start, TaskPush, RecognizeSetPool, RecognizeSetRequest, session_vars
  <2>3. ASSUME NEW u \in Used, Worker(u), ~QueuePop(u)
        PROVE  UNCHANGED <<stop_response, phase, media>>
    BY <2>3 DEF Worker, WorkerRun, OnRecogRequestInit, RecogLoop, SendAudio,
       OnDestroyRecogRequest, RecogMainEnd, session_vars
  <2>4. ASSUME NEW u \in Used, Callback(u), ~OnMrcpRecogCompleted(u), ~OnChannelClosed(u)
        PROVE  UNCHANGED <<stop_response, phase, media>>
    BY <2>4 DEF Callback, OnResult, OnResultFlag, OnChannelClosedFlag, session_vars
  <2> QED
    BY <1>12, <2>1, <2>2, <2>3, <2>4 DEF Next, ConsumerTask, MediaThread
<1>13. UNCHANGED vars => UNCHANGED <<stop_response, phase, media>>
  BY DEF vars, session_vars
<1> QED
  BY <1>1, <1>2, <1>3, <1>4, <1>5, <1>6, <1>7, <1>8, <1>9, <1>10, <1>11, <1>12, <1>13

(* Only RecognizeNewChannel gives a channel a session.                     *)
LEMMA ChSteps ==
    ASSUME Shape, [Next]_vars
    PROVE  \/ \E s \in Sessions : RecognizeNewChannel(s)
           \/ \A c \in Channels : m_Ch'[c] \in {m_Ch[c], NoSession}
<1> USE DEF Shape, PoolShape
<1>1. ASSUME NEW c, StopFields(c) PROVE \A d \in Channels : m_Ch'[d] \in {m_Ch[d], NoSession}
  BY <1>1 DEF StopFields
<1>2. CASE UNCHANGED m_Ch
  BY <1>2
<1>3. ASSUME NEW s \in Sessions, RecogStop(s) \/ StreamClose(s) PROVE \E c : StopFields(c)
  BY <1>3 DEF RecogStop, StreamClose, Stop
<1>4. ASSUME NEW s \in Sessions, RecognizeNoChannel(s) \/ StreamWriteStopped(s) \/ StreamWrite(s)
                \/ StreamCloseUnused(s)
      PROVE  UNCHANGED m_Ch
  BY <1>4 DEF RecognizeNoChannel, StreamWriteStopped, StreamWrite, StreamCloseUnused,
     channel_vars
<1>5. Start \/ TaskPush \/ RecognizeSetPool \/ RecognizeRespond \/ RecognizeSetRequest => UNCHANGED m_Ch
  BY DEF Start, TaskPush, RecognizeSetPool, RecognizeRespond, RecognizeSetRequest, channel_vars
<1>6. StreamWriteClear \/ WriteFrame \/ ReleaseChannel => UNCHANGED m_Ch
  BY DEF StreamWriteClear, WriteFrame, ReleaseChannel, channel_vars
<1>7. ASSUME NEW u \in Used, Worker(u)
      PROVE  \A d \in Channels : m_Ch'[d] \in {m_Ch[d], NoSession}
  BY <1>7 DEF Worker, WorkerRun, OnRecogRequestInit, RecogLoop, QueuePop, SendAudio,
     OnDestroyRecogRequest, RecogMainEnd, channel_vars
<1>8. ASSUME NEW u \in Used, Callback(u) PROVE UNCHANGED m_Ch \/ \E c : StopFields(c)
  BY <1>8 DEF Callback, OnResult, OnMrcpRecogCompleted, OnResultFlag, OnChannelClosed,
     OnChannelClosedFlag, Stop, channel_vars
<1>9. UNCHANGED vars => UNCHANGED m_Ch
  BY DEF vars, channel_vars
<1> QED
  BY <1>1, <1>2, <1>3, <1>4, <1>5, <1>6, <1>7, <1>8, <1>9 DEF Next, ConsumerTask, MediaThread

(* The steps that change the phase of a session.                           *)
LEMMA PhaseSteps ==
    ASSUME Shape, StopPending, TaskSession, [Next]_vars, NEW s \in Sessions
    PROVE  \/ phase'[s] = phase[s]
           \/ RecognizeNewChannel(s)
           \/ RecognizeRespond /\ s = task.s
           \/ RecogStop(s)
           \/ phase[s] \in {"stopping", "ready"}
           \/ /\ phase[s] = "recognizing" /\ active[s] = recog_request[s]
              /\ \E u \in Used : OnMrcpRecogCompleted(u) /\ m_Ch[worker[u].c] = s
<1> USE DEF Shape, SessionShape
<1>1. CASE UNCHANGED phase
  BY <1>1
<1>2. ASSUME NEW t \in Sessions, RecognizeNewChannel(t) \/ RecogStop(t)
      PROVE  t = s \/ phase'[s] = phase[s]
  BY <1>2 DEF RecognizeNewChannel, RecogStop
<1>3. RecognizeRespond => task.s = s \/ phase'[s] = phase[s]
  BY DEF RecognizeRespond
<1>4. ASSUME NEW t \in Sessions, StreamWriteStopped(t) \/ StreamClose(t)
      PROVE  phase'[s] = phase[s] \/ phase[s] \in {"stopping", "ready"}
  BY <1>4 DEF StreamWriteStopped, StreamClose, StopPending
<1>5. ASSUME NEW u \in Used, OnMrcpRecogCompleted(u)
      PROVE  phase'[s] = phase[s]
                \/ (/\ m_Ch[worker[u].c] = s
                    /\ phase[s] = "recognizing" /\ active[s] = recog_request[s])
  <2> DEFINE t == m_Ch[worker[u].c]
  <2>1. \/ phase' = phase
        \/ /\ phase' = [phase EXCEPT ![t] = "ready"]
           /\ phase[t] = "recognizing" /\ active[t] = recog_request[t]
    BY <1>5 DEF OnMrcpRecogCompleted
  <2> HIDE DEF t
  <2> QED
    BY <2>1 DEF t
<1>6. ASSUME NEW t \in Sessions, RecognizeNoChannel(t) \/ StreamWrite(t) \/ StreamCloseUnused(t)
      PROVE  UNCHANGED phase
  BY <1>6 DEF RecognizeNoChannel, StreamWrite, StreamCloseUnused, session_vars
<1>7. Start \/ TaskPush \/ RecognizeSetPool \/ RecognizeSetRequest => UNCHANGED phase
  BY DEF Start, TaskPush, RecognizeSetPool, RecognizeSetRequest, session_vars
<1>8. StreamWriteClear \/ WriteFrame \/ ReleaseChannel => UNCHANGED phase
  BY DEF StreamWriteClear, WriteFrame, ReleaseChannel, session_vars
<1>9. ASSUME NEW u \in Used, Worker(u) PROVE UNCHANGED phase
  BY <1>9 DEF Worker, WorkerRun, OnRecogRequestInit, RecogLoop, QueuePop, SendAudio,
     OnDestroyRecogRequest, RecogMainEnd, session_vars
<1>10. ASSUME NEW u \in Used, Callback(u), ~OnMrcpRecogCompleted(u) PROVE UNCHANGED phase
  BY <1>10 DEF Callback, OnResult, OnResultFlag, OnChannelClosed, OnChannelClosedFlag,
     session_vars
<1>11. UNCHANGED vars => UNCHANGED phase
  BY DEF vars, session_vars
<1> QED
  BY <1>1, <1>2, <1>3, <1>4, <1>5, <1>6, <1>7, <1>8, <1>9, <1>10, <1>11
     DEF Next, ConsumerTask, MediaThread

(* The session of a RECOGNIZE in progress keeps its place.                 *)
LEMMA TaskSessionStep ==
    ASSUME Shape, StopPending, TaskSession, [Next]_vars
    PROVE  TaskSession'
<1> USE Numbers DEF Shape
<1>1. ASSUME NEW s \in Sessions, RecognizeNewChannel(s) PROVE TaskSession'
  <2> DEFINE c == Min(Free)
  <2>1. Free \subseteq Channels /\ Free # {} /\ Free \subseteq Nat
    BY <1>1 DEF RecognizeNewChannel, Free, Returned, PoolShape
  <2>2. c \in Channels
    BY <2>1, MinIs
  <2> HIDE DEF c
  <2>3. /\ ch' = [ch EXCEPT ![s] = c] /\ m_Ch' = [m_Ch EXCEPT ![c] = s]
        /\ phase' = [phase EXCEPT ![s] = "recognize"]
        /\ task'.at = "start" /\ task'.s = s
    BY <1>1 DEF RecognizeNewChannel, c
  <2>4. ch'[s] = c /\ m_Ch'[c] = s /\ phase'[s] = "recognize"
    BY <2>2, <2>3 DEF PoolShape, SessionShape
  <2> QED
    BY <2>3, <2>4 DEF TaskSession
<1>2. CASE ~\E s \in Sessions : RecognizeNewChannel(s)
  <2>1. /\ ch' = ch
        /\ task'.at \in {"start", "push"} => task.at \in {"start", "push"}
        /\ task'.at \in {"start", "push", "pool", "respond"} =>
              task.at \in {"start", "push", "pool", "respond"} /\ task'.s = task.s /\ ~RecognizeRespond
    <3>1. Start \/ TaskPush \/ RecognizeSetPool \/ RecognizeRespond \/ RecognizeSetRequest => ch' = ch
      BY DEF Start, TaskPush, RecognizeSetPool, RecognizeRespond, RecognizeSetRequest, session_vars
    <3> QED
      BY <1>2, <3>1, TaskSteps DEF Start, TaskPush, RecognizeSetPool, RecognizeRespond,
         RecognizeSetRequest,
         TaskAt, Idle, TaskShape
  <2>2. ASSUME task'.at \in {"start", "push"} PROVE m_Ch'[ch'[task'.s]] \in {NoSession, task'.s}
    <3>1. task.at \in {"start", "push"} /\ task'.s = task.s /\ ch[task.s] \in Channels
      BY <2>1, <2>2 DEF TaskShape
    <3> QED
      BY <1>2, <2>1, <3>1, ChSteps DEF TaskSession
  <2>3. ASSUME task'.at \in {"start", "push", "pool", "respond"} PROVE phase'[task'.s] = "recognize"
    <3>1. /\ task.at \in {"start", "push", "pool", "respond"} /\ task'.s = task.s /\ task.s \in Sessions
          /\ phase[task.s] = "recognize" /\ ~RecognizeRespond
      BY <2>1, <2>3 DEF TaskShape, TaskSession
    <3>2. ~RecogStop(task.s)
      BY <3>1 DEF RecogStop
    <3> QED
      BY <1>2, <3>1, <3>2, PhaseSteps
  <2> QED
    BY <2>2, <2>3 DEF TaskSession
<1> QED
  BY <1>1, <1>2

(* The places of a worker before it has a request and after it let it go.  *)
Before == {"none", "queued", "init"}
After == {"reset", "done"}

(* A worker passes from one part of RecogMain to the next in               *)
(* OnRecogRequestInit and OnDestroyRecogRequest only.                      *)
LEMMA PartSteps ==
    ASSUME Shape, [Next]_vars,
           \A u \in Used : ~OnRecogRequestInit(u) /\ ~OnDestroyRecogRequest(u)
    PROVE  \A v \in Uses : /\ worker'[v].at \in Before <=> worker[v].at \in Before
                           /\ worker'[v].at \in After <=> worker[v].at \in After
<1> USE DEF Shape
<1> DEFINE Same == \A v \in Uses : /\ worker'[v].at \in Before <=> worker[v].at \in Before
                                   /\ worker'[v].at \in After <=> worker[v].at \in After
<1> SUFFICES Same
  OBVIOUS
<1>1. ASSUME NEW u, NEW next, Moves(u, next),
             next \in Before <=> worker[u].at \in Before,
             next \in After <=> worker[u].at \in After
      PROVE  Same
  <2>1. worker'[u].at = next /\ \A v \in Uses : v # u => worker'[v] = worker[v]
    BY <1>1, WorkerAtShape
  <2> QED
    BY <1>1, <2>1
<1>2. ASSUME NEW c, worker' = Woken(c) PROVE Same
  <2>1. \A v \in Uses : worker'[v].at = worker[v].at
                           \/ (worker[v].at = "wait" /\ worker'[v].at = "woken")
    BY <1>2, WokenShape
  <2> QED
    BY <2>1 DEF Before, After
<1>3. CASE TaskPush
  <2>1. /\ worker' = [worker EXCEPT ![task.use] = [at |-> "queued", c |-> ch[task.s]]]
        /\ worker[task.use].at = "none" /\ task.use \in Uses
    BY <1>3 DEF TaskPush, TaskAt, TaskShape
  <2>2. /\ worker'[task.use].at = "queued"
        /\ \A v \in Uses : v # task.use => worker'[v] = worker[v]
    BY <2>1 DEF WorkerShape
  <2> QED
    BY <2>1, <2>2 DEF Before, After
<1>4. ASSUME NEW u, Moves(u, "woken"), worker[u].at = "wait" PROVE Same
  BY <1>1, <1>4 DEF Before, After
<1>5. ASSUME NEW u \in Used, RecogMainEnd(u), Moves(u, "done") PROVE Same
  <2>1. worker[u].at = "reset"
    BY <1>5 DEF RecogMainEnd, WorkerAt
  <2> QED
    BY <1>1, <1>5, <2>1 DEF Before, After
<1>6. ASSUME NEW u \in Used, Worker(u), ~RecogMainEnd(u) PROVE Same
  <2>1. \E next : /\ Moves(u, next)
                  /\ \/ worker[u].at = "queued" /\ next = "init"
                     \/ worker[u].at \in {"check", "pop", "woken", "send"}
                        /\ next \in {"check", "pop", "end", "send", "wait"}
    BY <1>6 DEF Worker, WorkerRun, RecogLoop, QueuePop, SendAudio, WorkerAt, Moves, Used,
       WorkerPlaces
  <2>2. PICK next : /\ Moves(u, next)
                    /\ next \in Before <=> worker[u].at \in Before
                    /\ next \in After <=> worker[u].at \in After
    BY <2>1 DEF Before, After
  <2> QED
    BY <1>1, <2>2
<1>7. UNCHANGED worker => Same
  OBVIOUS
<1> HIDE DEF Same
<1> QED
  BY <1>2, <1>3, <1>4, <1>5, <1>6, <1>7, WorkerSteps

(* What a callback of use u does to its request.                           *)
LEMMA CallbackRequest ==
    ASSUME Shape, RequestKnown, NEW u \in Used, Callback(u)
    PROVE  /\ m_recogRequest' = m_recogRequest
           /\ \A v \in Uses : v # u => request'[v] = request[v]
           /\ \/ request'[u] = request[u]
              \/ /\ request[u].state \notin {"none", "released"}
                 /\ request'[u].state \in {"completed", "failed", "closed"}
                 /\ request'[u].call = "send" => request[u].state = "live"
<1> USE DEF Shape
<1>u. /\ u \in Uses /\ request[u] \in [state : RequestStates, call : Calls]
      /\ request[u].call # "none" => request[u].state \in {"completed", "failed", "closed"}
  BY DEF Used, RequestKnown, RequestShape, RequestStates
<1>1. ASSUME NEW result \in {"completed", "failed"}, OnResult(u, result)
      PROVE  /\ \A v \in Uses : v # u => request'[v] = request[v]
             /\ request[u].state = "live" /\ request'[u].state = result
  BY <1>u, <1>1 DEF OnResult, RequestShape
<1>2. ASSUME NEW call \in {"flag", "none"}, request' = [request EXCEPT ![u].call = call],
             request[u].call # "none"
      PROVE  /\ \A v \in Uses : v # u => request'[v] = request[v]
             /\ request[u].state \in {"completed", "failed", "closed"}
             /\ request'[u].state = request[u].state /\ request'[u].call # "send"
  BY <1>u, <1>2 DEF RequestShape
<1>3. ASSUME OnChannelClosed(u)
      PROVE  /\ \A v \in Uses : v # u => request'[v] = request[v]
             /\ request[u].state \notin {"none", "released"}
             /\ request'[u].state = "closed" /\ request'[u].call = "close"
  BY <1>u, <1>3 DEF OnChannelClosed, RequestShape
<1>4. ASSUME OnMrcpRecogCompleted(u)
      PROVE  request' = request \/ (/\ request' = [request EXCEPT ![u].call = "flag"]
                                    /\ request[u].call # "none")
  BY <1>4 DEF OnMrcpRecogCompleted
<1>5. ASSUME OnResultFlag(u) \/ OnChannelClosedFlag(u)
      PROVE  request' = [request EXCEPT ![u].call = "none"] /\ request[u].call # "none"
  BY <1>5 DEF OnResultFlag, OnChannelClosedFlag
<1>6. m_recogRequest' = m_recogRequest
  BY DEF Callback, OnResult, OnMrcpRecogCompleted, OnResultFlag, OnChannelClosed,
     OnChannelClosedFlag
<1> QED
  BY <1>u, <1>1, <1>2, <1>3, <1>4, <1>5, <1>6 DEF Callback

(* Who changes the requests.                                               *)
LEMMA RequestSteps ==
    ASSUME [Next]_vars
    PROVE  \/ UNCHANGED <<request, m_recogRequest>>
           \/ \E u \in Used : \/ OnRecogRequestInit(u) \/ OnDestroyRecogRequest(u)
                              \/ Callback(u)
<1>1. CASE ConsumerTask
  BY <1>1 DEF ConsumerTask, RecognizeNewChannel, RecognizeNoChannel, RecogStop,
     Start, TaskPush, RecognizeSetPool, RecognizeRespond, RecognizeSetRequest
<1>2. CASE MediaThread
  BY <1>2 DEF MediaThread, StreamWriteStopped, StreamWrite, StreamClose, StreamCloseUnused,
     StreamWriteClear, WriteFrame, ReleaseChannel
<1>3. ASSUME NEW u \in Used, Worker(u), ~OnRecogRequestInit(u), ~OnDestroyRecogRequest(u)
      PROVE  UNCHANGED <<request, m_recogRequest>>
  BY <1>3 DEF Worker, WorkerRun, RecogLoop, QueuePop, SendAudio, RecogMainEnd
<1>4. UNCHANGED vars => UNCHANGED <<request, m_recogRequest>>
  BY DEF vars
<1> QED
  BY <1>1, <1>2, <1>3, <1>4 DEF Next

(* A request in use stays the one its channel knows.                       *)
LEMMA RequestStep ==
    ASSUME Shape, RequestKnown, [Next]_vars
    PROVE  RequestKnown'
<1> USE Numbers DEF Shape
<1>1. ASSUME NEW u \in Used, OnRecogRequestInit(u) PROVE RequestKnown'
  <2> DEFINE c == worker[u].c
             r == m_recogRequest[c]
  <2>1. /\ u \in Uses /\ worker[u].at = "init" /\ c \in Channels
        /\ Moves(u, "check") \/ Moves(u, "end")
    BY <1>1 DEF OnRecogRequestInit, WorkerAt, Moves, WorkerPlaces, Used, WorkerShape
  <2>2. /\ worker'[u].at \in {"check", "end"} /\ Used' = Used
        /\ \A v \in Uses : worker'[v].c = worker[v].c /\ (v # u => worker'[v] = worker[v])
    BY <2>1, WorkerAtShape
  <2>3. /\ r \in {0} \cup Uses
        /\ r # 0 => /\ request[r].call = "none" /\ r # u
                    /\ worker[r].at \notin Before
    BY <1>1, <2>1 DEF OnRecogRequestInit, MayDestroy, PoolShape, RequestKnown, Before
  <2>4. /\ request[u].state = "none" /\ request[u].call = "none"
        /\ \A v \in Uses : request[v] \in [state : RequestStates, call : Calls]
    BY <2>1 DEF RequestKnown, RequestShape
  <2>5. /\ request'[u].call = "none" /\ request'[u].state \in {"none", "live"}
        /\ r # 0 => request'[r].state = "released" /\ request'[r].call = "none"
        /\ \A v \in Uses : v # u /\ v # r => request'[v] = request[v]
    <3>1. /\ Destroyed(c, request)[u] = request[u] /\ DOMAIN Destroyed(c, request) = Uses
          /\ r # 0 => /\ Destroyed(c, request)[r].state = "released"
                      /\ Destroyed(c, request)[r].call = "none"
          /\ \A v \in Uses : v # u /\ v # r => Destroyed(c, request)[v] = request[v]
          /\ Destroyed(c, request)[u] \in [state : RequestStates, call : Calls]
      BY <2>1, <2>3, <2>4 DEF Destroyed, RequestShape
    <3>2. \/ request' = [Destroyed(c, request) EXCEPT ![u].state = "live"]
          \/ request' = Destroyed(c, request)
      BY <1>1 DEF OnRecogRequestInit
    <3> HIDE DEF c, r
    <3> QED
      BY <2>1, <2>3, <2>4, <3>1, <3>2
  <2>6. /\ m_recogRequest'[c] = u
        /\ \A d \in Channels : d # c => m_recogRequest'[d] = m_recogRequest[d]
    BY <1>1, <2>1 DEF OnRecogRequestInit, PoolShape
  <2>7. ASSUME NEW d \in Channels, m_recogRequest'[d] # 0
        PROVE  worker'[m_recogRequest'[d]].at \notin {"none", "queued", "init"}
    <3>1. CASE d = c
      BY <2>2, <2>6, <3>1
    <3>2. CASE d # c
      <4>1. m_recogRequest'[d] = m_recogRequest[d] /\ m_recogRequest[d] \in Uses
        BY <2>6, <2>7, <3>2 DEF PoolShape
      <4>2. worker[m_recogRequest[d]].at \notin {"none", "queued", "init"}
        BY <2>7, <4>1 DEF RequestKnown
      <4> QED
        BY <2>2, <4>1, <4>2
    <3> QED
      BY <3>1, <3>2
  <2>8. ASSUME NEW v \in Uses
        PROVE  /\ request'[v].call # "none" =>
                     request'[v].state \notin {"none", "live", "released"}
               /\ request'[v].state \notin {"none", "released"} =>
                     v \in Used' /\ m_recogRequest'[worker'[v].c] = v
               /\ worker'[v].at \in {"none", "queued", "init"} => request'[v].state = "none"
               /\ worker'[v].at \in {"reset", "done"} =>
                     request'[v].state \in {"none", "released"}
    <3>1. CASE v = u
      BY <2>2, <2>5, <2>6, <3>1
    <3>2. CASE v # u /\ v = r
      <4>1. v # 0 /\ worker'[v] = worker[v] /\ worker[v].at \notin Before
        BY <2>2, <2>3, <3>2
      <4>2. request'[v].state = "released" /\ request'[v].call = "none"
        BY <2>5, <3>2, <4>1
      <4> QED
        BY <4>1, <4>2 DEF Before
    <3>3. CASE v # u /\ v # r
      <4>1. worker'[v] = worker[v] /\ request'[v] = request[v]
        BY <2>2, <2>5, <3>3
      <4>2. ASSUME request[v].state \notin {"none", "released"}
            PROVE  v \in Used /\ worker[v].c # c /\ worker[v].c \in Channels
                      /\ m_recogRequest[worker[v].c] = v
        BY <3>3, <4>2 DEF RequestKnown, WorkerShape
      <4>3. ASSUME request[v].state \notin {"none", "released"}
            PROVE  v \in Used' /\ m_recogRequest'[worker'[v].c] = v
        BY <2>2, <2>6, <4>1, <4>2, <4>3
      <4> HIDE DEF c, r
      <4> QED
        BY <4>1, <4>3 DEF RequestKnown
    <3> QED
      BY <3>1, <3>2, <3>3
  <2> QED
    BY <2>7, <2>8 DEF RequestKnown
<1>2. ASSUME NEW u \in Used, OnDestroyRecogRequest(u) PROVE RequestKnown'
  <2> DEFINE c == worker[u].c
             r == m_recogRequest[c]
  <2>1. /\ u \in Uses /\ worker[u].at = "end" /\ c \in Channels /\ Moves(u, "reset")
    BY <1>2 DEF OnDestroyRecogRequest, WorkerAt, Moves, WorkerPlaces, Used, WorkerShape
  <2>2. /\ worker'[u].at = "reset" /\ Used' = Used
        /\ \A v \in Uses : worker'[v].c = worker[v].c /\ (v # u => worker'[v] = worker[v])
    BY <2>1, WorkerAtShape
  <2>3. /\ r \in {0} \cup Uses
        /\ r # 0 => request[r].call = "none" /\ worker[r].at \notin Before
    BY <1>2, <2>1 DEF OnDestroyRecogRequest, MayDestroy, PoolShape, RequestKnown, Before
  <2>5. /\ r # 0 => request'[r].state = "released" /\ request'[r].call = "none"
        /\ \A v \in Uses : v # r => request'[v] = request[v]
    <3>1. \A v \in Uses : request[v] \in [state : RequestStates, call : Calls]
      BY DEF RequestShape
    <3> QED
      BY <1>2, <2>3, <3>1 DEF OnDestroyRecogRequest, Destroyed, RequestShape
  <2>6. /\ m_recogRequest'[c] = 0
        /\ \A d \in Channels : d # c => m_recogRequest'[d] = m_recogRequest[d]
    BY <1>2, <2>1 DEF OnDestroyRecogRequest, PoolShape
  <2>7. ASSUME NEW d \in Channels, m_recogRequest'[d] # 0
        PROVE  worker'[m_recogRequest'[d]].at \notin {"none", "queued", "init"}
    <3>1. d # c /\ m_recogRequest'[d] = m_recogRequest[d] /\ m_recogRequest[d] \in Uses
      BY <2>6, <2>7 DEF PoolShape
    <3>2. worker[m_recogRequest[d]].at \notin {"none", "queued", "init"}
      BY <2>7, <3>1 DEF RequestKnown
    <3> QED
      BY <2>2, <3>1, <3>2
  <2>8. ASSUME NEW v \in Uses
        PROVE  /\ request'[v].call # "none" =>
                     request'[v].state \notin {"none", "live", "released"}
               /\ request'[v].state \notin {"none", "released"} =>
                     v \in Used' /\ m_recogRequest'[worker'[v].c] = v
               /\ worker'[v].at \in {"none", "queued", "init"} => request'[v].state = "none"
               /\ worker'[v].at \in {"reset", "done"} =>
                     request'[v].state \in {"none", "released"}
    <3>2. CASE v = r
      <4>1. request'[v].state = "released" /\ request'[v].call = "none"
        BY <2>3, <2>5, <3>2
      <4>2. worker'[v].at \notin Before
        BY <2>2, <2>3, <3>2 DEF Before
      <4> QED
        BY <4>1, <4>2 DEF Before
    <3>3. CASE v # r
      <4>1. request'[v] = request[v] /\ worker'[v].c = worker[v].c
        BY <2>2, <2>5, <3>3
      <4>2. ASSUME request[v].state \notin {"none", "released"}
            PROVE  /\ v \in Used /\ worker[v].c # c /\ worker[v].c \in Channels /\ v # u
                   /\ m_recogRequest[worker[v].c] = v
        BY <3>3, <4>2 DEF RequestKnown, WorkerShape
      <4>3. ASSUME request[v].state \notin {"none", "released"}
            PROVE  v \in Used' /\ m_recogRequest'[worker'[v].c] = v /\ v # u
        BY <2>2, <2>6, <4>1, <4>2, <4>3
      <4> HIDE DEF c, r
      <4>4. CASE v = u
        BY <2>2, <4>1, <4>3, <4>4 DEF RequestKnown
      <4>5. CASE v # u
        <5>1. worker'[v] = worker[v]
          BY <2>2, <4>5
        <5> QED
          BY <4>1, <4>3, <5>1 DEF RequestKnown
      <4> QED
        BY <4>4, <4>5
    <3> QED
      BY <3>2, <3>3
  <2> QED
    BY <2>7, <2>8 DEF RequestKnown
<1>3. ASSUME \A u \in Used : ~OnRecogRequestInit(u) /\ ~OnDestroyRecogRequest(u)
      PROVE  RequestKnown'
  <2>1. \A v \in Uses : /\ worker'[v].at \in Before <=> worker[v].at \in Before
                        /\ worker'[v].at \in After <=> worker[v].at \in After
    BY <1>3, PartSteps
  <2>2. /\ m_recogRequest' = m_recogRequest
        /\ \A v \in Uses :
              \/ request'[v] = request[v]
              \/ /\ request[v].state \notin {"none", "released"}
                 /\ request'[v].state \in {"completed", "failed", "closed"}
    BY <1>3, RequestSteps, CallbackRequest
  <2>3. ASSUME NEW d \in Channels, m_recogRequest'[d] # 0
        PROVE  worker'[m_recogRequest'[d]].at \notin {"none", "queued", "init"}
    <3>1. m_recogRequest[d] \in Uses
      BY <2>2, <2>3 DEF PoolShape
    <3> QED
      BY <2>1, <2>2, <2>3, <3>1 DEF RequestKnown, Before
  <2>4. ASSUME NEW v \in Uses
        PROVE  /\ request'[v].call # "none" =>
                     request'[v].state \notin {"none", "live", "released"}
               /\ request'[v].state \notin {"none", "released"} =>
                     v \in Used' /\ m_recogRequest'[worker'[v].c] = v
               /\ worker'[v].at \in {"none", "queued", "init"} => request'[v].state = "none"
               /\ worker'[v].at \in {"reset", "done"} =>
                     request'[v].state \in {"none", "released"}
    <3>1. ASSUME v \in Used PROVE v \in Used' /\ worker'[v].c = worker[v].c
      BY <3>1, UsedSteps
    <3>2. CASE request'[v] = request[v]
      BY <2>1, <2>2, <3>1, <3>2 DEF RequestKnown, Before, After
    <3>3. CASE request'[v] # request[v]
      <4>1. /\ request[v].state \notin {"none", "released"}
            /\ request'[v].state \in {"completed", "failed", "closed"}
        BY <2>2, <3>3
      <4>2. /\ v \in Used /\ m_recogRequest[worker[v].c] = v
            /\ worker[v].at \notin Before /\ worker[v].at \notin After
        BY <4>1 DEF RequestKnown, Before, After
      <4> QED
        BY <2>1, <2>2, <3>1, <4>1, <4>2 DEF Before, After
    <3> QED
      BY <3>2, <3>3
  <2> QED
    BY <2>3, <2>4 DEF RequestKnown
<1> QED
  BY <1>1, <1>2, <1>3

-----------------------------------------------------------------------------
(* A use that may not report a result any more never may again.            *)
LEMMA MayReportStep ==
    ASSUME Shape, RequestKnown, [Next]_vars, NEW v \in Uses, MayReport(v)'
    PROVE  MayReport(v)
<1> USE Numbers DEF Shape, MayReport
<1>1. ASSUME NEW u \in Used, OnRecogRequestInit(u) \/ OnDestroyRecogRequest(u) PROVE MayReport(v)
  <2> DEFINE c == worker[u].c
             r == m_recogRequest[c]
  <2>1. /\ u \in Uses /\ c \in Channels /\ r \in {0} \cup Uses
        /\ OnRecogRequestInit(u) => request[u].state = "none"
    <3>1. OnRecogRequestInit(u) => worker[u].at = "init"
      BY DEF OnRecogRequestInit, WorkerAt
    <3> QED
      BY <3>1 DEF RequestKnown, Used, WorkerShape, PoolShape
  <2>2. r # 0 => request[r].call = "none"
    BY <1>1 DEF OnRecogRequestInit, OnDestroyRecogRequest, MayDestroy
  <2>3. \A w \in Uses : request[w] \in [state : RequestStates, call : Calls]
    BY DEF RequestShape
  <2>4. ASSUME v = r, v # 0, ~OnRecogRequestInit(u) \/ v # u PROVE FALSE
    <3>1. /\ request[v].call = "none"
          /\ Destroyed(c, request)[v].state = "released" /\ Destroyed(c, request)[v].call = "none"
      BY <2>2, <2>3, <2>4 DEF Destroyed, RequestShape
    <3>2. request'[v] = Destroyed(c, request)[v]
      <4>1. CASE OnDestroyRecogRequest(u)
        BY <4>1 DEF OnDestroyRecogRequest
      <4>2. CASE OnRecogRequestInit(u)
        <5>1. \/ request' = [Destroyed(c, request) EXCEPT ![u].state = "live"]
              \/ request' = Destroyed(c, request)
          BY <4>2 DEF OnRecogRequestInit
        <5>2. v # u /\ Destroyed(c, request) \in [Uses -> [state : RequestStates, call : Calls]]
          BY <2>4, <4>2, DestroyedShape
        <5> HIDE DEF c, r
        <5> QED
          BY <5>1, <5>2
      <4> QED
        BY <1>1, <4>1, <4>2
    <3> QED
      BY <3>1, <3>2
  <2>5. ASSUME v # r, v # u \/ ~OnRecogRequestInit(u) PROVE request'[v] = request[v]
    <3>1. Destroyed(c, request)[v] = request[v]
      BY <2>5 DEF Destroyed, RequestShape
    <3>2. CASE OnDestroyRecogRequest(u)
      BY <3>1, <3>2 DEF OnDestroyRecogRequest
    <3>3. CASE OnRecogRequestInit(u)
      <4>1. \/ request' = [Destroyed(c, request) EXCEPT ![u].state = "live"]
            \/ request' = Destroyed(c, request)
        BY <3>3 DEF OnRecogRequestInit
      <4>2. v # u /\ Destroyed(c, request) \in [Uses -> [state : RequestStates, call : Calls]]
        BY <2>5, <3>3, DestroyedShape
      <4> HIDE DEF c, r
      <4> QED
        BY <3>1, <4>1, <4>2
    <3> QED
      BY <1>1, <3>2, <3>3
  <2> HIDE DEF c, r
  <2> QED
    BY <2>1, <2>4, <2>5
<1>2. ASSUME NEW u \in Used, Callback(u) PROVE MayReport(v)
  <2>1. \/ request'[v] = request[v]
        \/ /\ request'[v].state \in {"completed", "failed", "closed"}
           /\ request'[v].call = "send" => request[v].state = "live"
    BY <1>2, CallbackRequest
  <2> QED
    BY <2>1
<1>3. UNCHANGED request => MayReport(v)
  OBVIOUS
<1> QED
  BY <1>1, <1>2, <1>3, RequestSteps

(* Who changes the fields of a session, and the completions.               *)
LEMMA SessionSteps ==
    ASSUME Shape, [Next]_vars
    PROVE  /\ ch' = ch \/ \E s \in Sessions : RecognizeNewChannel(s)
           /\ active' = active \/ RecognizeRespond
           /\ \/ recog_request' = recog_request \/ RecognizeSetRequest
              \/ recog_request' = [recog_request EXCEPT ![media.s] = 0]
           /\ completions' = completions \/ \E u \in Used : OnMrcpRecogCompleted(u)
<1>1. CASE ConsumerTask
  BY <1>1 DEF ConsumerTask, RecognizeNewChannel, RecognizeNoChannel, RecogStop,
     Start, TaskPush, RecognizeSetPool, RecognizeRespond, RecognizeSetRequest, session_vars
<1>2. CASE MediaThread
  BY <1>2 DEF MediaThread, StreamWriteStopped, StreamWrite, StreamClose, StreamCloseUnused,
     StreamWriteClear, WriteFrame, ReleaseChannel, session_vars
<1>3. ASSUME NEW u \in Used, Worker(u)
      PROVE  UNCHANGED <<ch, active, recog_request, completions>>
  BY <1>3 DEF Worker, WorkerRun, OnRecogRequestInit, RecogLoop, QueuePop, SendAudio,
     OnDestroyRecogRequest, RecogMainEnd, session_vars
<1>4. ASSUME NEW u \in Used, Callback(u), ~OnMrcpRecogCompleted(u)
      PROVE  UNCHANGED <<ch, active, recog_request, completions>>
  BY <1>4 DEF Callback, OnResult, OnResultFlag, OnChannelClosed, OnChannelClosedFlag,
     session_vars
<1>5. ASSUME NEW u \in Used, OnMrcpRecogCompleted(u)
      PROVE  UNCHANGED <<ch, active, recog_request>>
  BY <1>5 DEF OnMrcpRecogCompleted
<1>6. UNCHANGED vars => UNCHANGED <<ch, active, recog_request, completions>>
  BY DEF vars, session_vars
<1> QED
  BY <1>1, <1>2, <1>3, <1>4, <1>5, <1>6 DEF Next

(* The event of a completion, and the request that has reported it.        *)
Event(u) ==
    LET c == worker[u].c
        s == m_Ch[c]
    IN  [own |-> u, names |-> recog_request[s],
         early |-> task.at # "idle" /\ task.s = s,
         late |-> TakenAgain(c, u) /\ ~Ended(u)]

(* A completion is sent only while the channel has a session with a        *)
(* request (l. 581-623).                                                   *)
LEMMA CompletedIs ==
    ASSUME Shape, NEW u \in Used, OnMrcpRecogCompleted(u)
    PROVE  \/ completions' = completions /\ phase' = phase
           \/ /\ completions' = completions \cup {Event(u)}
              /\ m_Ch[worker[u].c] \in Sessions /\ recog_request[m_Ch[worker[u].c]] # 0
              /\ request' = [request EXCEPT ![u].call = "flag"]
<1>1. u \in Uses /\ worker[u].c \in Channels /\ m_Ch[worker[u].c] \in Sessions \cup {NoSession}
  BY DEF Shape, WorkerShape, PoolShape, Used
<1> QED
  BY <1>1 DEF OnMrcpRecogCompleted, Event, HasRequest

(* Outside the windows a new completion names its own RECOGNIZE.           *)
LEMMA OwnEvent ==
    ASSUME Shape, RequestKnown, OwnResult, ~InWindow, NEW u \in Used,
           OnMrcpRecogCompleted(u), completions' = completions \cup {Event(u)},
           m_Ch[worker[u].c] \in Sessions, recog_request[m_Ch[worker[u].c]] # 0,
           ~Event(u).early, ~Event(u).late
    PROVE  Event(u).names = Event(u).own
<1> USE Numbers DEF Shape
<1> DEFINE c == worker[u].c
           s == m_Ch[c]
<1>1. request[u].call = "send" /\ u \in Uses
  BY DEF OnMrcpRecogCompleted, Used
<1>2. ~Ended(u)
  BY <1>1 DEF RequestKnown, Ended
<1>3. ~TakenAgain(c, u) /\ ~(task.at # "idle" /\ task.s = s)
  BY <1>2 DEF Event
<1>4. Current(u, s)
  BY <1>1, <1>3 DEF OwnResult, MayReport
<1>5. recog_request[s] \in {0, u}
  BY <1>3, <1>4 DEF Current
<1> QED
  BY <1>5 DEF Event

(* A channel that was taken again stays so.                                *)
LEMMA TakenAgainStep ==
    ASSUME Shape, UsesInOrder, [Next]_vars, NEW v \in Used, NEW c, TakenAgain(c, v),
           \A s \in Sessions : ~RecognizeNewChannel(s)
    PROVE  TakenAgain(c, v)'
<1> USE Numbers DEF Shape
<1>1. ASSUME NEW w \in Used, w > v, worker[w].c = c PROVE TakenAgain(c, v)'
  <2>1. w \in Used' /\ worker'[w].c = c
    BY <1>1, UsedSteps DEF Used
  <2> QED
    BY <1>1, <2>1 DEF TakenAgain
<1>2. ASSUME task.at \in {"start", "push"}, task.use # v, ch[task.s] = c PROVE TakenAgain(c, v)'
  <2>1. CASE TaskPush
    <3>1. task.use \in Used' /\ worker'[task.use].c = c
      <4>1. worker' = [worker EXCEPT ![task.use] = [at |-> "queued", c |-> c]] /\ task.use \in Uses
        BY <1>2, <2>1 DEF TaskPush, TaskShape
      <4>2. worker'[task.use] = [at |-> "queued", c |-> c]
        BY <4>1 DEF WorkerShape
      <4> QED
        BY <4>1, <4>2 DEF Used
    <3>2. task.use > v
      <4>1. v \in Uses /\ task.use \in Uses
        BY <1>2 DEF Used, TaskShape
      <4>2. v < task.use
        BY <1>2, <4>1 DEF UsesInOrder
      <4> QED
        BY <4>1, <4>2
    <3> QED
      BY <3>1, <3>2 DEF TakenAgain
  <2>2. CASE Start
    <3>1. /\ task'.at = "push" /\ task'.use = task.use /\ task'.s = task.s /\ ch' = ch
      BY <2>2 DEF Start, TaskAt, TaskShape, session_vars
    <3> QED
      BY <1>2, <3>1 DEF TakenAgain
  <2>3. CASE UNCHANGED <<task, ch>>
    BY <1>2, <2>3 DEF TakenAgain
  <2> QED
    BY <1>2, <2>1, <2>2, <2>3, TaskSteps DEF RecognizeSetPool, RecognizeRespond,
       RecognizeSetRequest, TaskAt
<1> QED
  BY <1>1, <1>2 DEF TakenAgain

(* Outside the windows, what reports is what its session recognizes.       *)
LEMMA OwnStep ==
    ASSUME Shape, Shape', UsesInOrder, RequestKnown, StopPending, TaskSession, OwnResult,
           [Next]_vars
    PROVE  OwnResult'
<1> USE Numbers DEF Shape
<1> SUFFICES ASSUME ~InWindow' PROVE OwnResult'
  BY DEF OwnResult
<1>1. completions \subseteq completions' /\ ~InWindow
  <2>1. completions \subseteq completions'
    BY SessionSteps, CompletedIs
  <2> QED
    BY <2>1 DEF InWindow
<1>2. /\ \A e \in completions : e.names = e.own
      /\ task.at = "request" => phase[task.s] = "recognizing" /\ active[task.s] = task.use
      /\ \A u \in Used : LET c == worker[u].c IN
            MayReport(u) /\ ~TakenAgain(c, u) /\ m_Ch[c] # NoSession => Current(u, m_Ch[c])
  BY <1>1 DEF OwnResult
<1>3. ASSUME NEW u \in Used, OnMrcpRecogCompleted(u), completions' # completions \/ phase' # phase
      PROVE  /\ completions' = completions \cup {Event(u)}
             /\ Event(u).names = Event(u).own /\ ~Event(u).early
             /\ request' = [request EXCEPT ![u].call = "flag"]
  <2>1. /\ completions' = completions \cup {Event(u)}
        /\ m_Ch[worker[u].c] \in Sessions /\ recog_request[m_Ch[worker[u].c]] # 0
        /\ request' = [request EXCEPT ![u].call = "flag"]
    BY <1>3, CompletedIs
  <2>2. ~Event(u).early /\ ~Event(u).late
    BY <2>1 DEF InWindow
  <2>3. Event(u).names = Event(u).own
    BY <1>1, <1>3, <2>1, <2>2, OwnEvent
  <2> QED
    BY <2>1, <2>2, <2>3
<1>4. \A e \in completions' : e.names = e.own
  BY <1>2, <1>3, SessionSteps
<1>5. ASSUME task'.at = "request"
      PROVE  phase'[task'.s] = "recognizing" /\ active'[task'.s] = task'.use
  <2>1. CASE RecognizeRespond
    <3>1. /\ task'.s = task.s /\ task'.use = task.use /\ task.s \in Sessions
          /\ phase' = [phase EXCEPT ![task.s] = "recognizing"]
          /\ active' = [active EXCEPT ![task.s] = task.use]
      BY <2>1 DEF RecognizeRespond, TaskAt, TaskShape
    <3> QED
      BY <3>1 DEF SessionShape
  <2>2. CASE ~RecognizeRespond
    <3> DEFINE s == task.s
    <3>1. task' = task /\ task.at = "request" /\ s \in Sessions
      BY <1>5, <2>2, TaskSteps DEF RecognizeNewChannel, Start, TaskPush, RecognizeSetPool,
         RecognizeSetRequest,
         TaskAt, Idle, TaskShape
    <3>2. phase[s] = "recognizing" /\ active[s] = task.use
      BY <1>2, <3>1
    <3>3. active' = active
      BY <2>2, SessionSteps
    <3>4. ~RecognizeNewChannel(s) /\ ~RecogStop(s)
      BY <3>1 DEF RecognizeNewChannel, RecogStop
    <3>5. ASSUME NEW u \in Used, OnMrcpRecogCompleted(u), m_Ch[worker[u].c] = s
          PROVE  phase' = phase
      <4>1. Event(u).early
        BY <3>1, <3>5 DEF Event
      <4> QED
        BY <1>3, <3>5, <4>1
    <3>6. phase'[s] = phase[s]
      BY <2>2, <3>1, <3>2, <3>4, <3>5, PhaseSteps
    <3> QED
      BY <3>1, <3>2, <3>3, <3>6
  <2> QED
    BY <2>1, <2>2
<1>6. ASSUME NEW v \in Used', NEW c, c = worker'[v].c, NEW t, t = m_Ch'[c],
             MayReport(v)', ~TakenAgain(c, v)', t # NoSession
      PROVE  Current(v, t)'
  <2>1. CASE v \notin Used
    <3>1. TaskPush /\ v = task.use /\ worker'[v].c = ch[task.s]
      BY <2>1, UsedSteps
    <3>2. /\ task'.at = "pool" /\ task'.s = task.s /\ task'.use = task.use /\ task.at = "push"
          /\ ch' = ch /\ m_Ch' = m_Ch
      BY <3>1 DEF TaskPush, TaskAt, TaskShape, session_vars, channel_vars
    <3>3. m_Ch[ch[task.s]] = task.s
      BY <1>6, <3>1, <3>2 DEF TaskSession
    <3>4. c = ch[task.s] /\ t = task.s
      BY <1>6, <3>1, <3>2, <3>3
    <3> QED
      BY <1>6, <3>1, <3>2, <3>4 DEF Current
  <2>2. CASE v \in Used
    <3>1. /\ v \in Uses /\ worker[v].c = c /\ worker'[v].c = c /\ c \in Channels
          /\ MayReport(v)
      BY <1>6, <2>2, UsedSteps, MayReportStep DEF Used, WorkerShape
    <3>2. ASSUME NEW s \in Sessions, RecognizeNewChannel(s) PROVE Current(v, t)'
      <4> DEFINE d == Min(Free)
                 u == Min(Uses \ Used)
      <4>1. Free \subseteq Channels /\ Free # {} /\ Free \subseteq Nat
        BY <3>2 DEF RecognizeNewChannel, Free, Returned, PoolShape
      <4>2. d \in Channels
        BY <4>1, MinIs
      <4>3. Uses \ Used # {} /\ Uses \ Used \subseteq Nat
        BY <3>2 DEF RecognizeNewChannel, Used
      <4>4. u \in Uses \ Used
        BY <4>3, MinIs
      <4>5. /\ task.at = "idle" /\ phase[s] = "ready"
            /\ ch' = [ch EXCEPT ![s] = d] /\ m_Ch' = [m_Ch EXCEPT ![d] = s]
            /\ phase' = [phase EXCEPT ![s] = "recognize"]
            /\ task' = [at |-> "start", s |-> s, use |-> u]
            /\ UNCHANGED <<recog_request, active, worker>>
        BY <3>2 DEF RecognizeNewChannel
      <4> HIDE DEF d, u
      <4>6. ch'[s] = d /\ u # v
        BY <2>2, <4>4, <4>5 DEF SessionShape
      <4>7. c # d
        <5>1. ~(task'.at \in {"start", "push"} /\ task'.use # v /\ ch'[task'.s] = c)
          BY <1>6, <3>1 DEF TakenAgain
        <5> QED
          BY <4>5, <4>6, <5>1
      <4>8. ~TakenAgain(c, v)
        BY <1>6, <3>1, <4>5 DEF TakenAgain, Used
      <4>9. m_Ch[c] = t /\ t \in Sessions
        BY <1>6, <3>1, <4>5, <4>7 DEF PoolShape
      <4>10. Current(v, t)
        BY <1>2, <1>6, <2>2, <3>1, <4>8, <4>9
      <4>11. /\ ch[t] = c /\ phase[t] = "recognizing" /\ active[t] = v
             /\ recog_request[t] \in {0, v}
        BY <3>1, <4>5, <4>10 DEF Current
      <4>12. t # s
        BY <4>5, <4>11
      <4>13. /\ ch'[t] = c /\ phase'[t] = "recognizing" /\ active'[t] = v
             /\ recog_request'[t] \in {0, v} /\ task'.s # t
        BY <4>5, <4>9, <4>11, <4>12 DEF SessionShape
      <4> QED
        BY <3>1, <4>9, <4>13 DEF Current
    <3>3. ASSUME \A s \in Sessions : ~RecognizeNewChannel(s)
          PROVE  Current(v, t)'
      <4>1. m_Ch[c] = t /\ t \in Sessions
        BY <1>6, <3>1, <3>3, ChSteps DEF PoolShape
      <4>2. ~TakenAgain(c, v)
        BY <1>6, <2>2, <3>1, <3>3, TakenAgainStep
      <4>3. Current(v, t)
        BY <1>2, <2>2, <3>1, <4>1, <4>2
      <4>4. ch' = ch /\ ch[t] = c
        BY <3>1, <3>3, <4>3, SessionSteps DEF Current
      <4>5. CASE task.at \in {"pool", "respond"} /\ task.s = t /\ task.use = v
        <5>1. CASE RecognizeRespond
          <6>1. task'.at = "request" /\ task'.s = t /\ task'.use = v
            BY <4>5, <5>1 DEF RecognizeRespond, TaskAt, TaskShape
          <6> QED
            BY <1>5, <3>1, <4>4, <6>1 DEF Current
        <5>2. CASE RecognizeSetPool \/ task' = task
          <6>1. task'.at \in {"pool", "respond"} /\ task'.s = t /\ task'.use = v
            BY <4>5, <5>2 DEF RecognizeSetPool, TaskAt, TaskShape
          <6> QED
            BY <3>1, <4>4, <6>1 DEF Current
        <5> QED
          BY <3>3, <4>5, <5>1, <5>2, TaskSteps DEF Start, TaskPush, RecognizeSetRequest, TaskAt
      <4>6. CASE /\ task.at = "request" /\ task.s = t /\ task.use = v
                 /\ phase[t] = "recognizing" /\ active[t] = v
        <5>1. CASE RecognizeSetRequest
          <6>1. /\ task'.at = "idle" /\ phase' = phase /\ active' = active
                /\ recog_request' = [recog_request EXCEPT ![t] = v]
            BY <4>6, <5>1 DEF RecognizeSetRequest, TaskAt, Idle
          <6>2. recog_request'[t] = v
            BY <4>1, <6>1 DEF SessionShape
          <6> QED
            BY <3>1, <4>4, <4>6, <6>1, <6>2 DEF Current
        <5>2. CASE task' = task
          BY <1>5, <3>1, <4>4, <4>6, <5>2 DEF Current
        <5> QED
          BY <3>3, <4>6, <5>1, <5>2, TaskSteps DEF Start, TaskPush, RecognizeSetPool,
             RecognizeRespond, TaskAt
      <4>7. CASE /\ ~(task.at # "idle" /\ task.s = t)
                 /\ phase[t] = "recognizing" /\ active[t] = v /\ recog_request[t] \in {0, v}
        <5>1. ~(task'.at # "idle" /\ task'.s = t)
          BY <3>3, <4>7, TaskSteps DEF Start, TaskPush, RecognizeSetPool, RecognizeRespond,
             RecognizeSetRequest,
             TaskAt, Idle, TaskShape
        <5>2. ~RecogStop(t)
          <6>1. RecogStop(t) => m_Ch' = [m_Ch EXCEPT ![c] = NoSession]
            BY <4>4 DEF RecogStop, Stop, StopFields
          <6>2. m_Ch' = [m_Ch EXCEPT ![c] = NoSession] => m_Ch'[c] = NoSession
            BY <3>1 DEF PoolShape
          <6> QED
            BY <1>6, <6>1, <6>2
        <5>3. ~(RecognizeRespond /\ task.s = t) /\ ~(RecognizeSetRequest /\ task.s = t)
          BY <4>7 DEF RecognizeRespond, RecognizeSetRequest, TaskAt
        <5>4. ASSUME NEW u \in Used, OnMrcpRecogCompleted(u), m_Ch[worker[u].c] = t,
                     active[t] = recog_request[t]
              PROVE  phase' = phase
          <6> SUFFICES ASSUME phase' # phase PROVE FALSE
            OBVIOUS
          <6>1. /\ Event(u).names = Event(u).own
                /\ request' = [request EXCEPT ![u].call = "flag"]
            BY <1>3, <5>4
          <6>2. u = v
            BY <4>7, <5>4, <6>1 DEF Event
          <6>3. request[v].call = "send"
            BY <5>4, <6>2 DEF OnMrcpRecogCompleted
          <6>4. request[v].state \notin {"none", "live"}
            BY <3>1, <6>3 DEF RequestKnown
          <6>5. request'[v].call = "flag" /\ request'[v].state = request[v].state
            BY <3>1, <6>1, <6>2 DEF RequestShape
          <6> QED
            BY <1>6, <6>4, <6>5 DEF MayReport
        <5>5. phase'[t] = "recognizing"
          BY <3>3, <4>1, <4>7, <5>2, <5>3, <5>4, PhaseSteps
        <5>6. active'[t] = v
          <6>1. RecognizeRespond => active' = [active EXCEPT ![task.s] = task.use]
            BY DEF RecognizeRespond
          <6> QED
            BY <4>1, <4>7, <5>3, <6>1, SessionSteps DEF SessionShape
        <5>7. recog_request'[t] \in {0, v}
          <6>1. RecognizeSetRequest =>
                   recog_request' = [recog_request EXCEPT ![task.s] = task.use]
            BY DEF RecognizeSetRequest
          <6> QED
            BY <4>1, <4>7, <5>3, <6>1, SessionSteps DEF SessionShape
        <5> QED
          BY <3>1, <4>4, <5>1, <5>5, <5>6, <5>7 DEF Current
      <4> QED
        BY <4>3, <4>5, <4>6, <4>7 DEF Current
    <3> QED
      BY <3>2, <3>3
  <2> QED
    BY <2>1, <2>2
<1> QED
  BY <1>4, <1>5, <1>6 DEF OwnResult

-----------------------------------------------------------------------------
(* The inductive invariant holds in every state.                           *)
LEMMA Invariance == Spec => []IInv
<1>1. IInv /\ [Next]_vars => IInv'
  <2> SUFFICES ASSUME IInv, [Next]_vars PROVE IInv'
    OBVIOUS
  <2>1. Shape'
    BY ShapeStep DEF IInv
  <2>2. PoolComplete' /\ WorkHasWorker'
    BY PoolStep, WorkStep DEF IInv
  <2>3. UsesInOrder' /\ RequestKnown'
    BY OrderStep, RequestStep DEF IInv
  <2>4. StopPending' /\ TaskSession'
    BY StopStep, TaskSessionStep DEF IInv
  <2>5. OwnResult'
    BY <2>1, OwnStep DEF IInv
  <2> QED
    BY <2>1, <2>2, <2>3, <2>4, <2>5 DEF IInv
<1> QED
  BY <1>1, InitInv, PTL DEF Spec

(* The variables have their types, for any number of sessions, channels    *)
(* and uses; a queue of frames never holds more than QueueSize.            *)
THEOREM AliTypeCorrect == Spec => []TypeOK
<1>1. IInv => TypeOK
  BY DEF IInv, Shape, PoolShape, SessionShape, TaskShape, MediaShape, TypeOK, TaskPlaces,
     MediaPlaces
<1> QED
  BY <1>1, Invariance, PTL

(* No AliChannel gets lost between GetIdleChannel, ResetChannelPoolState   *)
(* and ReleaseChannel, however many sessions share the pool.               *)
THEOREM NoChannelLost == Spec => []PoolComplete
<1>1. IInv => PoolComplete
  BY DEF IInv
<1> QED
  BY <1>1, Invariance, PTL

(* m_Starting never stays set behind the last RecogMain of a channel.      *)
THEOREM WorkEnds == Spec => []WorkHasWorker
<1>1. IInv => WorkHasWorker
  BY DEF IInv
<1> QED
  BY <1>1, Invariance, PTL

(* Outside the two windows, RECOGNITION-COMPLETE names the RECOGNIZE whose *)
(* SDK request reported it (OnMrcpRecogCompleted).                         *)
THEOREM CompletionsOwn == Spec => []CompletionNamesOwn
<1>1. IInv => CompletionNamesOwn
  BY DEF IInv, OwnResult, InWindow, CompletionNamesOwn
<1> QED
  BY <1>1, Invariance, PTL
=============================================================================
