------------------------------- MODULE AliRecog -------------------------------
(***************************************************************************)
(* The Alibaba recognizer plugin (plugins/alirecog).  A fixed pool of      *)
(* AliChannel objects serves the recognizer sessions; four kinds of thread *)
(* meet in one of them:                                                    *)
(*   - the consumer task of the plugin, which handles RECOGNIZE and STOP;  *)
(*   - the media thread, which writes frames, answers STOP and closes the  *)
(*     stream of a session;                                                *)
(*   - a thread of the thread pool, which runs RecogMain for one use;      *)
(*   - the threads of the NLS SDK, which call back.                        *)
(* A "use" is one RECOGNIZE and numbers its worker and its SDK request.    *)
(* Results, grammars and recording are left out: events carry the use they *)
(* come from and the request they name.  A dereference of NULL stops the   *)
(* process (crashed).                                                      *)
(***************************************************************************)
EXTENDS Naturals, FiniteSets, FiniteSetsExt

CONSTANTS
    Sessions,       \* recognizer sessions
    NoSession,      \* m_Ch = NULL
    MaxChannels,    \* max_channel_count of the engine: AliChannels and threads
    QueueSize,      \* frames m_FrameQueue holds (100 in the code)
    MaxUses         \* bound: RECOGNIZE requests in a behaviour

ASSUME AliAssumption ==
    /\ NoSession \notin Sessions
    /\ {MaxChannels, QueueSize, MaxUses} \subseteq Nat \ {0}

Channels == 1..MaxChannels
Uses == 1..MaxUses

VARIABLES
    \* AliChannelFactory
    m_ChIdlePool, m_ChBusyPool,
    \* AliChannel
    m_Starting, m_Runing, m_Ch, m_recogRequest, m_FrameQueue,
    \* Ali_recog_channel_t and what the state machine in front of it allows
    ch, recog_request, stop_response, phase, active,
    \* threads
    task,           \* consumer task: where it is, and with which session and use
    media,          \* media thread: where it is, and with which session
    worker,         \* per use: where RecogMain is, and in which channel
    request,        \* per use: SDK request and the callback that runs for it
    completions,    \* RECOGNITION-COMPLETE events sent
    crashed

pool_vars == <<m_ChIdlePool, m_ChBusyPool>>
channel_vars == <<m_Starting, m_Runing, m_Ch>>
queue_vars == <<m_FrameQueue>>
session_vars == <<ch, recog_request, stop_response, phase, active>>
vars == <<pool_vars, channel_vars, m_recogRequest, queue_vars, session_vars,
          task, media, worker, request, completions, crashed>>

Idle == [at |-> "idle", s |-> NoSession, use |-> 0]
Waiting == [at |-> "idle", s |-> NoSession, c |-> 0]

Init ==
    /\ m_ChIdlePool = Channels /\ m_ChBusyPool = {}
    /\ m_Starting = [c \in Channels |-> FALSE]
    /\ m_Runing = [c \in Channels |-> FALSE]
    /\ m_Ch = [c \in Channels |-> NoSession]
    /\ m_recogRequest = [c \in Channels |-> 0]
    /\ m_FrameQueue = [c \in Channels |-> 0]
    /\ ch = [s \in Sessions |-> 0]
    /\ recog_request = [s \in Sessions |-> 0]
    /\ stop_response = [s \in Sessions |-> FALSE]
    /\ phase = [s \in Sessions |-> "ready"]
    /\ active = [s \in Sessions |-> 0]
    /\ task = Idle /\ media = Waiting
    /\ worker = [u \in Uses |-> [at |-> "none", c |-> 0]]
    /\ request = [u \in Uses |-> [state |-> "none", call |-> "none"]]
    /\ completions = {}
    /\ crashed = FALSE

TypeOK ==
    /\ m_ChIdlePool \subseteq Channels /\ m_ChBusyPool \subseteq Channels
    /\ m_Ch \in [Channels -> Sessions \cup {NoSession}]
    /\ m_FrameQueue \in [Channels -> 0..QueueSize]
    /\ ch \in [Sessions -> {0} \cup Channels]
    /\ recog_request \in [Sessions -> {0} \cup Uses]
    /\ task.at \in {"idle", "start", "push", "pool", "respond", "request"}
    /\ media.at \in {"idle", "clear", "write", "blocked", "retry", "release"}

Used == {u \in Uses : worker[u].at # "none"}
Ended(u) == worker[u].at \in {"none", "done"}
WorkersOf(c) == {u \in Uses : worker[u].c = c /\ ~Ended(u)}

(* IsWork.                                                                 *)
IsWork(c) == m_Starting[c]

(* apr_queue_interrupt_all: the threads that wait in m_FrameQueue of       *)
(* channel c wake up; the push of the media thread gives up.               *)
Woken(c) ==
    [u \in Uses |-> IF worker[u] = [at |-> "wait", c |-> c]
                    THEN [worker[u] EXCEPT !.at = "woken"] ELSE worker[u]]

InterruptAll(c) ==
    /\ worker' = Woken(c)
    /\ media' = IF media.at = "blocked" /\ media.c = c THEN Waiting ELSE media

(* AliChannel::Stop, under the mutex of the channel.                       *)
StopFields(c) ==
    /\ m_Starting' = [m_Starting EXCEPT ![c] = FALSE]
    /\ m_Ch' = [m_Ch EXCEPT ![c] = NoSession]
    /\ UNCHANGED m_Runing

Stop(c) == StopFields(c) /\ InterruptAll(c)

-----------------------------------------------------------------------------
(* Consumer task.                                                          *)

(* GetIdleChannel: channels that stopped working come back from the busy   *)
(* pool; the first idle one that does not work is taken.                   *)
Returned == {c \in m_ChBusyPool : ~IsWork(c)}
Free == {c \in m_ChIdlePool \cup Returned : ~IsWork(c)}

(* Ali_recog_channel_recognize up to NewChannel and SetRecogChannel.       *)
RecognizeNewChannel(s) ==
    /\ task.at = "idle" /\ phase[s] = "ready"
    /\ Free # {} /\ Used # Uses
    /\ LET c == Min(Free) IN
       /\ m_ChIdlePool' = (m_ChIdlePool \cup Returned) \ {c}
       /\ m_ChBusyPool' = m_ChBusyPool \ Returned
       /\ ch' = [ch EXCEPT ![s] = c]
       /\ m_Ch' = [m_Ch EXCEPT ![c] = s]
    /\ phase' = [phase EXCEPT ![s] = "recognize"]
    /\ task' = [at |-> "start", s |-> s, use |-> Min(Uses \ Used)]
    /\ UNCHANGED <<m_Starting, m_Runing, m_recogRequest, queue_vars,
                   recog_request, stop_response, active, media, worker, request,
                   completions, crashed>>

(* Without a free channel the message about it reads ch->m_id.             *)
RecognizeNoChannel(s) ==
    /\ task.at = "idle" /\ phase[s] = "ready" /\ Free = {}
    /\ crashed' = TRUE
    /\ UNCHANGED <<pool_vars, channel_vars, m_recogRequest, queue_vars,
                   session_vars, task, media, worker, request, completions>>

TaskAt(here, next) ==
    task.at = here /\ task' = IF next = "idle" THEN Idle ELSE [task EXCEPT !.at = next]

(* AliChannel::Start.                                                      *)
Start ==
    /\ TaskAt("start", "push")
    /\ m_Starting' = [m_Starting EXCEPT ![ch[task.s]] = TRUE]
    /\ m_Runing' = [m_Runing EXCEPT ![ch[task.s]] = TRUE]
    /\ UNCHANGED <<pool_vars, m_Ch, m_recogRequest, queue_vars,
                   session_vars, media, worker, request, completions, crashed>>

(* CRecogPool::TaskPush.                                                   *)
TaskPush ==
    /\ TaskAt("push", "pool")
    /\ worker' = [worker EXCEPT ![task.use] = [at |-> "queued", c |-> ch[task.s]]]
    /\ UNCHANGED <<pool_vars, channel_vars, m_recogRequest, queue_vars,
                   session_vars, media, request, completions, crashed>>

(* ResetChannelPoolState.                                                  *)
ResetWhenWorking(c) ==    \* defect: a channel that does not work is forgotten
    m_ChBusyPool' = m_ChBusyPool \cup {x \in {c} : IsWork(x)} /\ UNCHANGED m_ChIdlePool

ResetChannelPoolState(c) ==
    IF IsWork(c)
    THEN m_ChBusyPool' = m_ChBusyPool \cup {c} /\ UNCHANGED m_ChIdlePool
    ELSE m_ChIdlePool' = m_ChIdlePool \cup {c} /\ UNCHANGED m_ChBusyPool

RecognizeSetPool ==
    /\ TaskAt("pool", "respond")
    /\ ResetChannelPoolState(ch[task.s])
    /\ UNCHANGED <<channel_vars, m_recogRequest, queue_vars, session_vars, media,
                   worker, request, completions, crashed>>

(* The response is sent, and only then is recog_request set.               *)
RecognizeRespond ==
    /\ TaskAt("respond", "request")
    /\ phase' = [phase EXCEPT ![task.s] = "recognizing"]
    /\ active' = [active EXCEPT ![task.s] = task.use]
    /\ UNCHANGED <<pool_vars, channel_vars, m_recogRequest, queue_vars, ch,
                   recog_request, stop_response, media, worker, request,
                   completions, crashed>>

RecognizeSetRequest ==
    /\ TaskAt("request", "idle")
    /\ recog_request' = [recog_request EXCEPT ![task.s] = task.use]
    /\ UNCHANGED <<pool_vars, channel_vars, m_recogRequest, queue_vars, ch,
                   stop_response, phase, active, media, worker, request,
                   completions, crashed>>

(* Ali_recog_channel_stop.                                                 *)
RecogStop(s) ==
    /\ task.at = "idle" /\ phase[s] = "recognizing"
    /\ phase' = [phase EXCEPT ![s] = "stopping"]
    /\ stop_response' = [stop_response EXCEPT ![s] = TRUE]
    /\ Stop(ch[s])
    /\ UNCHANGED <<pool_vars, m_recogRequest, queue_vars, ch, recog_request, active,
                   task, request, completions, crashed>>

ConsumerTask ==
    \/ \E s \in Sessions :
          RecognizeNewChannel(s) \/ RecognizeNoChannel(s) \/ RecogStop(s)
    \/ Start \/ TaskPush \/ RecognizeSetPool \/ RecognizeRespond \/ RecognizeSetRequest

-----------------------------------------------------------------------------
(* Media thread.                                                           *)

(* Ali_recog_stream_write answers STOP, and clears both fields after.      *)
StreamWriteStopped(s) ==
    /\ media.at = "idle" /\ stop_response[s]
    /\ phase' = [phase EXCEPT ![s] = "ready"]
    /\ media' = [Waiting EXCEPT !.at = "clear", !.s = s]
    /\ UNCHANGED <<pool_vars, channel_vars, m_recogRequest, queue_vars, ch,
                   recog_request, stop_response, active, task, worker, request,
                   completions, crashed>>

StreamWriteClear ==
    /\ media.at = "clear"
    /\ stop_response' = [stop_response EXCEPT ![media.s] = FALSE]
    /\ recog_request' = [recog_request EXCEPT ![media.s] = 0]
    /\ media' = Waiting
    /\ UNCHANGED <<pool_vars, channel_vars, m_recogRequest, queue_vars, ch, phase,
                   active, task, worker, request, completions, crashed>>

(* Otherwise a frame is written while a request is set and the channel     *)
(* works (EngineWriteFrame).                                               *)
StreamWrite(s) ==
    /\ media.at = "idle" /\ phase[s] # "closed"
    /\ ~stop_response[s] /\ recog_request[s] # 0 /\ IsWork(ch[s])
    /\ media' = [Waiting EXCEPT !.at = "write", !.s = s]
    /\ UNCHANGED <<pool_vars, channel_vars, m_recogRequest, queue_vars,
                   session_vars, task, worker, request, completions, crashed>>

(* apr_queue_push: a full queue blocks; else one waiter is signalled.      *)
PushBlocks(c) ==
    /\ m_FrameQueue[c] = QueueSize
    /\ media' = [media EXCEPT !.at = "blocked", !.c = c]
    /\ UNCHANGED <<m_FrameQueue, worker>>

PushFrame(c) ==
    LET waiting == {u \in Uses : worker[u] = [at |-> "wait", c |-> c]}
    IN  /\ m_FrameQueue[c] < QueueSize
        /\ m_FrameQueue' = [m_FrameQueue EXCEPT ![c] = @ + 1]
        /\ media' = Waiting
        /\ \/ waiting = {} /\ UNCHANGED worker
           \/ \E u \in waiting : worker' = [worker EXCEPT ![u].at = "woken"]

(* WriteFrame; "retry" is a push that waited and was signalled by a pop,   *)
(* after which there is room: nobody else pushes.                          *)
WriteFrame ==
    /\ \/ /\ media.at = "write" /\ ~m_Runing[ch[media.s]]
          /\ media' = Waiting /\ UNCHANGED <<m_FrameQueue, worker>>
       \/ /\ media.at = "write" /\ m_Runing[ch[media.s]]
          /\ PushBlocks(ch[media.s]) \/ PushFrame(ch[media.s])
       \/ media.at = "retry" /\ PushFrame(media.c)
    /\ UNCHANGED <<pool_vars, channel_vars, m_recogRequest, session_vars, task,
                   request, completions, crashed>>

(* EngineRecogStop, from Ali_recog_stream_close: stops the channel of the  *)
(* last RECOGNIZE of the session, whoever uses it now.  A session without  *)
(* a RECOGNIZE has an uninitialized ch.                                    *)
StreamCloseUnused(s) ==
    /\ media.at = "idle" /\ phase[s] = "ready" /\ ch[s] = 0
    /\ crashed' = TRUE
    /\ UNCHANGED <<pool_vars, channel_vars, m_recogRequest, queue_vars,
                   session_vars, task, media, worker, request, completions>>

StreamClose(s) ==
    /\ media.at = "idle" /\ phase[s] = "ready" /\ ch[s] # 0
    /\ phase' = [phase EXCEPT ![s] = "closed"]
    /\ StopFields(ch[s])
    /\ worker' = Woken(ch[s])
    /\ media' = [Waiting EXCEPT !.at = "release", !.s = s]
    /\ UNCHANGED <<pool_vars, m_recogRequest, queue_vars, ch, recog_request,
                   stop_response, active, task, request, completions, crashed>>

(* ReleaseChannel.                                                         *)
ReleaseChannel ==
    /\ media.at = "release" /\ media' = Waiting
    /\ LET c == ch[media.s] IN
       IF ~IsWork(c) /\ c \notin m_ChIdlePool
       THEN /\ m_ChIdlePool' = m_ChIdlePool \cup {c}
            /\ m_ChBusyPool' = m_ChBusyPool \ {c}
       ELSE UNCHANGED pool_vars
    /\ UNCHANGED <<channel_vars, m_recogRequest, queue_vars, session_vars, task,
                   worker, request, completions, crashed>>

MediaThread ==
    \/ \E s \in Sessions : \/ StreamWriteStopped(s) \/ StreamWrite(s)
                           \/ StreamClose(s) \/ StreamCloseUnused(s)
    \/ StreamWriteClear \/ WriteFrame \/ ReleaseChannel

-----------------------------------------------------------------------------
(* RecogMain of use u, on a thread of the pool.                            *)

WorkerAt(u, here, next) ==
    worker[u].at \in here /\ worker' = [worker EXCEPT ![u].at = next]

(* apr_thread_pool runs at most max_channel_count tasks at a time.         *)
WorkerRun(u) ==
    /\ WorkerAt(u, {"queued"}, "init")
    /\ Cardinality({v \in Used : worker[v].at \notin {"queued", "done"}}) < MaxChannels
    /\ UNCHANGED <<pool_vars, channel_vars, m_recogRequest, queue_vars,
                   session_vars, task, media, request, completions, crashed>>

(* OnDestroyRecogRequest: no callback of a request runs once it is         *)
(* released; a running one is waited for.                                  *)
NotReleased(c, requests) == requests    \* defect: the request is not released

Destroyed(c, requests) ==
    IF m_recogRequest[c] = 0 THEN requests
    ELSE [requests EXCEPT ![m_recogRequest[c]].state = "released"]

MayDestroy(c) == m_recogRequest[c] # 0 => request[m_recogRequest[c]].call = "none"

(* OnRecogRequestInit: the token or start() may fail.                      *)
OnRecogRequestInit(u) ==
    LET c == worker[u].c IN
    /\ MayDestroy(c)
    /\ m_recogRequest' = [m_recogRequest EXCEPT ![c] = u]
    /\ \/ /\ WorkerAt(u, {"init"}, "check")
          /\ request' = [Destroyed(c, request) EXCEPT ![u].state = "live"]
       \/ /\ WorkerAt(u, {"init"}, "end")
          /\ request' = Destroyed(c, request)
    /\ UNCHANGED <<pool_vars, channel_vars, queue_vars, session_vars, task, media,
                   completions, crashed>>

(* while (m_Starting), and OnCheckRecogToken, which may fail.              *)
RecogLoop(u) ==
    /\ \/ WorkerAt(u, {"check"}, "pop") /\ m_Starting[worker[u].c]
       \/ WorkerAt(u, {"check"}, "end")
    /\ UNCHANGED <<pool_vars, channel_vars, m_recogRequest, queue_vars,
                   session_vars, task, media, request, completions, crashed>>

(* apr_queue_pop: a frame, or a wait; a waiter woken without a frame was   *)
(* interrupted and leaves through RecogExit.                               *)
QueuePop(u) ==
    LET c == worker[u].c IN
    /\ \/ /\ m_FrameQueue[c] > 0 /\ WorkerAt(u, {"pop", "woken"}, "send")
          /\ m_FrameQueue' = [m_FrameQueue EXCEPT ![c] = @ - 1]
          /\ media' = IF media.at = "blocked" /\ media.c = c
                      THEN [media EXCEPT !.at = "retry"] ELSE media
          /\ UNCHANGED m_Runing
       \/ /\ m_FrameQueue[c] = 0 /\ WorkerAt(u, {"pop"}, "wait")
          /\ UNCHANGED <<m_FrameQueue, media, m_Runing>>
       \/ /\ m_FrameQueue[c] = 0 /\ WorkerAt(u, {"woken"}, "end")
          /\ m_Runing' = [m_Runing EXCEPT ![c] = FALSE]
          /\ UNCHANGED <<m_FrameQueue, media>>
    /\ UNCHANGED <<pool_vars, m_Starting, m_Ch, m_recogRequest,
                   session_vars, task, request, completions, crashed>>

(* sendAudio, which may fail when there is a request.                      *)
SendAudio(u) ==
    LET c == worker[u].c IN
    /\ \/ WorkerAt(u, {"send"}, "check") /\ UNCHANGED m_Runing
       \/ /\ WorkerAt(u, {"send"}, "end") /\ m_recogRequest[c] # 0
          /\ m_Runing' = [m_Runing EXCEPT ![c] = FALSE]
    /\ UNCHANGED <<pool_vars, m_Starting, m_Ch, m_recogRequest,
                   queue_vars, session_vars, task, media, request, completions,
                   crashed>>

(* The end of RecogMain.                                                   *)
OnDestroyRecogRequest(u) ==
    LET c == worker[u].c IN
    /\ WorkerAt(u, {"end"}, "reset") /\ MayDestroy(c)
    /\ request' = Destroyed(c, request)
    /\ m_recogRequest' = [m_recogRequest EXCEPT ![c] = 0]
    /\ UNCHANGED <<pool_vars, channel_vars, queue_vars, session_vars, task, media,
                   completions, crashed>>

RecogMainKeepsStarting(u) ==    \* defect: m_Starting is left to the callbacks
    LET c == worker[u].c IN
    /\ WorkerAt(u, {"reset"}, "done")
    /\ m_Runing' = [m_Runing EXCEPT ![c] = FALSE]
    /\ m_Ch' = [m_Ch EXCEPT ![c] = NoSession]
    /\ UNCHANGED <<pool_vars, m_Starting, m_recogRequest, queue_vars, session_vars,
                   task, media, request, completions, crashed>>

RecogMainEnd(u) ==
    LET c == worker[u].c IN
    /\ WorkerAt(u, {"reset"}, "done")
    /\ m_Starting' = [m_Starting EXCEPT ![c] = FALSE]
    /\ m_Runing' = [m_Runing EXCEPT ![c] = FALSE]
    /\ m_Ch' = [m_Ch EXCEPT ![c] = NoSession]
    /\ UNCHANGED <<pool_vars, m_recogRequest, queue_vars, session_vars, task,
                   media, request, completions, crashed>>

Worker(u) ==
    \/ WorkerRun(u) \/ OnRecogRequestInit(u) \/ RecogLoop(u) \/ QueuePop(u)
    \/ SendAudio(u) \/ OnDestroyRecogRequest(u) \/ RecogMainEnd(u)

-----------------------------------------------------------------------------
(* Callbacks of the SDK for the request of use u: one result or failure,   *)
(* then the close of its connection.                                       *)

(* OnRecognitionCompleted and OnTaskFailed up to the check of m_Ch.        *)
OnResult(u, result) ==
    LET c == worker[u].c
        reports == m_Ch[c] # NoSession /\ (result = "failed" => m_Starting[c])
    IN  /\ request[u] = [state |-> "live", call |-> "none"]
        /\ request' = [request EXCEPT ![u] =
              [state |-> result, call |-> IF reports THEN "send" ELSE "flag"]]
        /\ UNCHANGED <<pool_vars, channel_vars, m_recogRequest, queue_vars,
                       session_vars, task, media, worker, completions, crashed>>

(* Has channel c been taken for another use since use u?                   *)
TakenAgain(c, u) ==
    \/ \E v \in Used : v > u /\ worker[v].c = c
    \/ task.at \in {"start", "push"} /\ task.use # u /\ ch[task.s] = c

HasRequest(s) == IF s = NoSession THEN FALSE ELSE recog_request[s] # 0

(* The rest of OnMrcpRecogCompleted, which reads m_Ch and recog_request    *)
(* again.  The state machine takes the event if it names its recognition.  *)
OnMrcpRecogCompleted(u) ==
    LET c == worker[u].c
        s == m_Ch[c]
    IN  /\ request[u].call = "send"
        /\ \/ /\ ~HasRequest(s)
              /\ crashed' = TRUE
              /\ UNCHANGED <<request, completions, phase>>
           \/ /\ HasRequest(s)
              /\ completions' = completions \cup
                    {[own |-> u, names |-> recog_request[s],
                      early |-> task.at # "idle" /\ task.s = s,
                      late |-> TakenAgain(c, u) /\ ~Ended(u)]}
              /\ request' = [request EXCEPT ![u].call = "flag"]
              /\ phase' = IF phase[s] = "recognizing" /\ active[s] = recog_request[s]
                          THEN [phase EXCEPT ![s] = "ready"] ELSE phase
              /\ UNCHANGED crashed
        /\ UNCHANGED <<pool_vars, channel_vars, m_recogRequest, queue_vars, ch,
                       recog_request, stop_response, active, task, media, worker>>

(* The last statements of OnRecognitionCompleted and OnTaskFailed.         *)
OnResultFlag(u) ==
    LET c == worker[u].c IN
    /\ request[u].call = "flag"
    /\ request' = [request EXCEPT ![u].call = "none"]
    /\ m_Starting' = [m_Starting EXCEPT ![c] = @ /\ request[u].state # "failed"]
    /\ UNCHANGED <<pool_vars, m_Runing, m_Ch, m_recogRequest, queue_vars,
                   session_vars, task, media, worker, completions, crashed>>

(* OnChannelClosed.                                                        *)
OnChannelClosed(u) ==
    /\ request[u].state \in {"live", "completed", "failed"}
    /\ request[u].call = "none"
    /\ request' = [request EXCEPT ![u] = [state |-> "closed", call |-> "close"]]
    /\ Stop(worker[u].c)
    /\ UNCHANGED <<pool_vars, m_recogRequest, queue_vars, session_vars, task,
                   completions, crashed>>

OnChannelClosedFlag(u) ==
    LET c == worker[u].c IN
    /\ request[u].call = "close"
    /\ request' = [request EXCEPT ![u].call = "none"]
    /\ m_Starting' = [m_Starting EXCEPT ![c] = FALSE]
    /\ UNCHANGED <<pool_vars, m_Runing, m_Ch, m_recogRequest, queue_vars,
                   session_vars, task, media, worker, completions, crashed>>

Callback(u) ==
    \/ \E result \in {"completed", "failed"} : OnResult(u, result)
    \/ OnMrcpRecogCompleted(u) \/ OnResultFlag(u)
    \/ OnChannelClosed(u) \/ OnChannelClosedFlag(u)

-----------------------------------------------------------------------------
Next ==
    /\ ~crashed
    /\ \/ ConsumerTask
       \/ MediaThread
       \/ \E u \in Used : Worker(u) \/ Callback(u)

Spec == Init /\ [][Next]_vars

-----------------------------------------------------------------------------
(* The channel the consumer task has taken and not yet put into a pool.    *)
Taken == IF task.at \in {"start", "push", "pool"} THEN {ch[task.s]} ELSE {}

(* No AliChannel gets lost: each is in a pool, or the RECOGNIZE being      *)
(* handled has it, although streams of other sessions release it and       *)
(* workers stop it at the same time (GetIdleChannel,                       *)
(* ResetChannelPoolState, ReleaseChannel).                                 *)
PoolComplete == Channels = m_ChIdlePool \cup m_ChBusyPool \cup Taken

(* A channel that says it works has a worker that has not come to its end, *)
(* or is about to get one: m_Starting never stays set behind the last      *)
(* RecogMain of the channel, whichever of them resets it for whom.         *)
WorkHasWorker ==
    \A c \in Channels :
        IsWork(c) => WorkersOf(c) # {} \/ (task.at = "push" /\ ch[task.s] = c)

(* RECOGNITION-COMPLETE names the RECOGNIZE whose SDK request produced it, *)
(* except in the two windows the code leaves open: before recog_request is *)
(* set (Ali_recog_engine.cpp:308) and after the channel was taken again    *)
(* although RecogMain of the use had not ended (Ali_channel.cpp:490).      *)
CompletionNamesOwn ==
    (\A e \in completions : ~e.early /\ ~e.late)
        => \A e \in completions : e.names = e.own

=============================================================================
