-------------------------- MODULE MrcpChannelProofs --------------------------
(***************************************************************************)
(* The steps every MRCP channel is built from, one lemma for each step and *)
(* each fact it keeps, cited by the proofs about the state machines:       *)
(*                                                                         *)
(*   - the types of the channel's variables;                               *)
(*   - ChannelInv(cur): where the requests are and which are answered,     *)
(*     cur being the request in progress of the state machine;             *)
(*   - ViewInv(cur, told) and Forward: what the client knows of them.      *)
(***************************************************************************)
EXTENDS MrcpChannel, ObjListProofs

(* Where the distinguished requests belong.                                *)
LEMMA RequestTypes ==
    /\ NoRequest \in Request
    /\ TerminateRequest \in Request
    /\ QueuedRequest \subseteq MrcpRequest /\ MrcpRequest \subseteq Request
    /\ NoRequest \notin QueuedRequest
    /\ \A r \in QueuedRequest : r.method \in Queueing
  BY DEF NoRequest, TerminateRequest, Request, MrcpRequest, QueuedRequest, Methods,
     SynthMethods, RecogMethods, Queueing

(* What the client may be told.                                            *)
LEMMA ViewTypes ==
    "PENDING" \in Views /\ "IN-PROGRESS" \in Views /\ "COMPLETE" \in Views
  BY DEF Views

(* Unlinking pending requests leaves a list of requests that may wait.     *)
LEMMA RemainingType ==
    ASSUME queue \in Seq(QueuedRequest), NEW sel
    PROVE  Remaining(sel) \in Seq(QueuedRequest)
<1>1. DOMAIN queue \ Removed(sel) \subseteq DOMAIN queue
  OBVIOUS
<1> QED
  BY <1>1, KeepAtType DEF Remaining

(* The initial state is well typed.                                        *)
LEMMA InitType == ChannelInit => ChannelTypeOK
<1> SUFFICES ASSUME ChannelInit PROVE ChannelTypeOK
  OBVIOUS
<1>1. /\ queue \in Seq(QueuedRequest) /\ request_queue \in Seq(Request)
      /\ server_in \in Seq(EngineMessage)
  BY DEF ChannelInit
<1>2. view \in [Ids -> Views] /\ responses \in [Ids -> Nat]
  BY DEF ChannelInit, Views
<1>3. next_id \in 1..(MaxId + 1)
  BY ConstantsAssumption DEF ChannelInit
<1> QED
  BY <1>1, <1>2, <1>3, RequestTypes DEF ChannelInit, ChannelTypeOK

-----------------------------------------------------------------------------
(* The session pops a request.                                             *)
LEMMA PopType ==
    ASSUME ChannelTypeOK, PopSessionRequest
    PROVE  /\ session_request' \in Request /\ request_queue' \in Seq(Request)
           /\ nested' \in BOOLEAN
           /\ session_state' = session_state
<1>1. CASE request_queue = <<>>
  <2>1. <<>> \in Seq(Request)
    OBVIOUS
  <2> QED
    BY <1>1, <2>1, RequestTypes DEF PopSessionRequest
<1>2. CASE request_queue # <<>>
  <2>1. Head(request_queue) \in Request /\ Tail(request_queue) \in Seq(Request)
    BY <1>2 DEF ChannelTypeOK
  <2> QED
    BY <1>2, <2>1 DEF PopSessionRequest
<1> QED
  BY <1>1, <1>2

(* What a response changes keeps its type.                                 *)
LEMMA ResponseDispatchType ==
    ASSUME ChannelTypeOK, NEW id, NEW rstate \in Views, NEW ended,
           response_dispatch(id, rstate, ended)
    PROVE  /\ active_request' = NoRequest
           /\ session_state' \in {"OPEN", "DEACTIVATING", "TERMINATING"}
           /\ session_request' \in Request /\ request_queue' \in Seq(Request)
           /\ nested' \in BOOLEAN
           /\ next_id' \in 1..(MaxId + 1)
           /\ view' \in [Ids -> Views] /\ responses' \in [Ids -> Nat]
           /\ deactivations' \in Nat
<1>1. active_request' = NoRequest
  BY DEF response_dispatch
<1>2. CASE ~active
  <2>1. OnDeactivate
    BY <1>2 DEF response_dispatch
  <2>2. deactivations' \in Nat
    BY <2>1 DEF OnDeactivate, ChannelTypeOK
  <2> QED
    BY <1>1, <2>1, <2>2 DEF OnDeactivate, ChannelTypeOK
<1>3. CASE active
  <2>1. /\ session_request' \in Request /\ request_queue' \in Seq(Request)
        /\ nested' \in BOOLEAN /\ session_state' = session_state
    BY <1>3, PopType DEF response_dispatch
  <2>2. responses' \in [Ids -> Nat]
    <3>1. responses \in [Ids -> Nat]
      BY DEF ChannelTypeOK
    <3>2. responses' = [i \in Ids |-> responses[i] + (IF i = id THEN 1 ELSE 0)]
      BY <1>3 DEF response_dispatch
    <3> QED
      BY <3>1, <3>2
  <2>3. view' \in [Ids -> Views]
    BY <1>3 DEF response_dispatch, ChannelTypeOK, Views
  <2>4. next_id' \in 1..(MaxId + 1) /\ deactivations' \in Nat
    BY <1>3 DEF response_dispatch, ChannelTypeOK
  <2> QED
    BY <1>1, <2>1, <2>2, <2>3, <2>4 DEF ChannelTypeOK
<1> QED
  BY <1>2, <1>3

(* A request that goes to the engine.                                      *)
LEMMA DispatchType ==
    ASSUME ChannelTypeOK, NEW m \in MrcpRequest, DispatchAndReturn(m)
    PROVE  /\ active_request' = m /\ engine_in' \subseteq MrcpRequest
           /\ session_state' = session_state /\ session_request' = session_request
           /\ request_queue' = request_queue /\ nested' = FALSE
           /\ UNCHANGED <<deferred, crashed, in_progress, server_in, next_id, view,
                          responses, deactivations>>
  BY DEF DispatchAndReturn, request_dispatch, ChannelTypeOK, session_vars, client_vars

(* A request that is answered at once.                                     *)
LEMMA RespondType ==
    ASSUME ChannelTypeOK, NEW id, NEW rstate \in Views, NEW ended,
           RespondAndReturn(id, rstate, ended),
           UNCHANGED <<active, is_pending>>, queue' \in Seq(QueuedRequest)
    PROVE  ChannelTypeOK'
<1>1. response_dispatch(id, rstate, ended)
  BY DEF RespondAndReturn
<1>2. UNCHANGED <<deferred, crashed, engine_in, in_progress, server_in>>
  BY DEF RespondAndReturn, engine_vars
<1> QED
  BY <1>1, <1>2, ResponseDispatchType, RequestTypes DEF ChannelTypeOK

(* A request that is forwarded or answered.                                *)
LEMMA ForwardOrRespondType ==
    ASSUME ChannelTypeOK, session_request \in MrcpRequest, NEW forward,
           ForwardOrRespond(forward)
    PROVE  ChannelTypeOK'
<1>1. CASE forward
  <2>1. DispatchAndReturn(session_request) /\ UNCHANGED <<active, is_pending, queue>>
    BY <1>1 DEF ForwardOrRespond
  <2> QED
    BY <2>1, DispatchType, RequestTypes DEF ChannelTypeOK
<1>2. CASE ~forward
  <2>1. /\ RespondAndReturn(session_request.id, "COMPLETE", {})
        /\ UNCHANGED <<active, is_pending, queue>>
    BY <1>2 DEF ForwardOrRespond
  <2>2. queue' \in Seq(QueuedRequest)
    BY <2>1 DEF ChannelTypeOK
  <2> QED
    BY <2>1, <2>2, RespondType, ViewTypes
<1> QED
  BY <1>1, <1>2

(* A request that is started or queued.                                    *)
LEMMA StartOrQueueType ==
    ASSUME ChannelTypeOK, session_request \in QueuedRequest, NEW occupied,
           StartOrQueue(occupied)
    PROVE  ChannelTypeOK'
<1>1. CASE occupied
  <2>1. /\ queue' = Append(queue, session_request)
        /\ RespondAndReturn(session_request.id, "PENDING", {})
        /\ UNCHANGED <<active, is_pending>>
    BY <1>1 DEF StartOrQueue
  <2>2. queue' \in Seq(QueuedRequest)
    <3>1. queue \in Seq(QueuedRequest)
      BY DEF ChannelTypeOK
    <3> QED
      BY <2>1, <3>1
  <2> QED
    BY <2>1, <2>2, RespondType, ViewTypes
<1>2. CASE ~occupied
  <2>1. DispatchAndReturn(session_request) /\ UNCHANGED <<active, is_pending, queue>>
    BY <1>2 DEF StartOrQueue
  <2> QED
    BY <2>1, DispatchType, RequestTypes DEF ChannelTypeOK
<1> QED
  BY <1>1, <1>2

(* A STOP that is forwarded or that removes pending requests.              *)
LEMMA StopOrRemoveType ==
    ASSUME ChannelTypeOK, session_request \in MrcpRequest, NEW forward,
           StopOrRemove(forward)
    PROVE  ChannelTypeOK'
<1> DEFINE m == session_request
<1>1. CASE forward
  <2>1. DispatchAndReturn(session_request) /\ UNCHANGED <<active, is_pending, queue>>
    BY <1>1 DEF StopOrRemove
  <2> QED
    BY <2>1, DispatchType, RequestTypes DEF ChannelTypeOK
<1>2. CASE ~forward
  <2>1. /\ queue' = Remaining(m.sel)
        /\ RespondAndReturn(m.id, "COMPLETE", RemovedIds(m.sel))
        /\ UNCHANGED <<active, is_pending>>
    BY <1>2 DEF StopOrRemove
  <2>2. queue' \in Seq(QueuedRequest)
    BY <2>1, RemainingType DEF ChannelTypeOK
  <2> QED
    BY <2>1, <2>2, RespondType, ViewTypes
<1> QED
  BY <1>1, <1>2

-----------------------------------------------------------------------------
(* Taking a message of the engine.                                         *)
LEMMA TakeType ==
    ASSUME ChannelTypeOK, TakeEngineMessage
    PROVE  /\ server_in' \in Seq(EngineMessage) /\ Received \in EngineMessage
           /\ in_progress' = in_progress
<1>1. server_in \in Seq(EngineMessage) /\ server_in # <<>>
  BY DEF ChannelTypeOK, TakeEngineMessage
<1>2. Head(server_in) \in EngineMessage /\ Tail(server_in) \in Seq(EngineMessage)
  BY <1>1
<1> QED
  BY <1>2 DEF TakeEngineMessage, Received

(* What the arrival of a response changes by itself.                       *)
LEMMA ResponseToType ==
    ASSUME ChannelTypeOK, NEW methods, ResponseTo(methods)
    PROVE  /\ server_in' \in Seq(EngineMessage)
           /\ in_progress' = in_progress /\ engine_in' = engine_in
  BY TakeType DEF ResponseTo

(* A response that is ignored.                                             *)
LEMMA IgnoreType ==
    ASSUME ChannelTypeOK, IgnoreResponse
    PROVE  ChannelTypeOK'
  BY TakeType DEF IgnoreResponse, ChannelTypeOK, machine_vars, session_vars,
     stack_vars, client_vars

(* A handler that reads through NULL.                                      *)
LEMMA NullType ==
    ASSUME ChannelTypeOK, NEW methods, ResponseTo(methods), NullDereference
    PROVE  ChannelTypeOK'
  BY ResponseToType DEF NullDereference, ChannelTypeOK, machine_vars, session_vars,
     client_vars

(* A response that ends the work of its handler.                           *)
LEMMA AnswerType ==
    ASSUME ChannelTypeOK, NEW methods, ResponseTo(methods),
           NEW id, NEW rstate \in Views, NEW ended, response_dispatch(id, rstate, ended),
           UNCHANGED <<active, is_pending, crashed>>,
           queue' \in Seq(QueuedRequest), deferred' \in QueuedRequest \cup {NoRequest}
    PROVE  ChannelTypeOK'
  BY ResponseToType, ResponseDispatchType, RequestTypes DEF ChannelTypeOK

(* A response that is passed on.                                           *)
LEMMA PassOnType ==
    ASSUME ChannelTypeOK, NEW methods, ResponseTo(methods), NEW rstate \in Views,
           PassOn(rstate)
    PROVE  ChannelTypeOK'
<1>1. /\ response_dispatch(Received.id, rstate, {})
      /\ UNCHANGED <<active, is_pending, queue, deferred, crashed>>
  BY DEF PassOn
<1>2. queue' \in Seq(QueuedRequest) /\ deferred' \in QueuedRequest \cup {NoRequest}
  BY <1>1 DEF ChannelTypeOK
<1> QED
  BY <1>1, <1>2, AnswerType

(* The response to STOP.                                                   *)
LEMMA EndByStopType ==
    ASSUME ChannelTypeOK, NEW methods, ResponseTo(methods), NEW current,
           EndByStop(current)
    PROVE  ChannelTypeOK'
<1> DEFINE rest == Remaining(active_request.sel)
           ended == {current.id} \cup RemovedIds(active_request.sel)
<1>1. rest \in Seq(QueuedRequest)
  BY RemainingType DEF ChannelTypeOK
<1>2. /\ response_dispatch(Received.id, "COMPLETE", ended)
      /\ UNCHANGED <<active, is_pending, crashed>>
  BY DEF EndByStop
<1>3. IF rest = <<>> THEN queue' = <<>> /\ deferred' = deferred
      ELSE queue' = Tail(rest) /\ deferred' = Head(rest)
  BY DEF EndByStop
<1>4. queue' \in Seq(QueuedRequest) /\ deferred' \in QueuedRequest \cup {NoRequest}
  <2> HIDE DEF rest
  <2>1. CASE rest = <<>>
    BY <1>3, <2>1 DEF ChannelTypeOK
  <2>2. CASE rest # <<>>
    BY <1>1, <1>3, <2>2
  <2> QED
    BY <2>1, <2>2
<1> HIDE DEF rest, ended
<1> QED
  BY <1>2, <1>4, AnswerType, ViewTypes

(* The rest of the STOP response handler.                                  *)
LEMMA DeferredType ==
    ASSUME ChannelTypeOK, DispatchDeferred
    PROVE  ChannelTypeOK' /\ active_request' \in QueuedRequest
<1>1. deferred \in QueuedRequest
  BY DEF DispatchDeferred, ChannelTypeOK
<1> QED
  BY <1>1, RequestTypes DEF DispatchDeferred, request_dispatch, ChannelTypeOK,
     session_vars, client_vars

-----------------------------------------------------------------------------
(* What an event tells the client.                                         *)
LEMMA EventDispatchType ==
    ASSUME ChannelTypeOK, NEW id, NEW rstate \in Views, event_dispatch(id, rstate)
    PROVE  /\ view' \in [Ids -> Views]
           /\ next_id' = next_id /\ responses' = responses
           /\ deactivations' = deactivations
<1>1. view \in [Ids -> Views]
  BY DEF ChannelTypeOK
<1>2. view' \in [Ids -> Views]
  BY <1>1 DEF event_dispatch
<1> QED
  BY <1>2 DEF event_dispatch

(* What the arrival of an event changes by itself.                         *)
LEMMA EventNamedType ==
    ASSUME ChannelTypeOK, NEW name, EventNamed(name)
    PROVE  /\ server_in' \in Seq(EngineMessage)
           /\ UNCHANGED <<active, session_state, session_request, request_queue>>
           /\ UNCHANGED <<nested, deferred, crashed, in_progress>>
  BY TakeType DEF EventNamed, session_vars, stack_vars

(* An event that only tells the client.                                    *)
LEMMA TellClientType ==
    ASSUME ChannelTypeOK, NEW name, EventNamed(name), NEW passed,
           NEW rstate \in Views, TellClient(passed, rstate)
    PROVE  ChannelTypeOK'
<1>1. UNCHANGED <<is_pending, active_request, queue, engine_in>>
  BY DEF TellClient
<1>2. /\ view' \in [Ids -> Views]
      /\ UNCHANGED <<next_id, responses, deactivations>>
  <2>1. CASE passed
    BY <2>1, EventDispatchType DEF TellClient
  <2>2. CASE ~passed
    BY <2>2 DEF TellClient, client_vars, ChannelTypeOK
  <2> QED
    BY <2>1, <2>2
<1> QED
  BY <1>1, <1>2, EventNamedType DEF ChannelTypeOK

(* A completion: what was first in the queue becomes the active request.   *)
LEMMA CompleteType ==
    ASSUME ChannelTypeOK, NEW name, EventNamed(name), CompleteAndNext
    PROVE  /\ ChannelTypeOK'
           /\ active_request' = active_request \/ active_request' \in QueuedRequest
<1>1. /\ view' \in [Ids -> Views]
      /\ UNCHANGED <<next_id, responses, deactivations>>
  BY EventDispatchType, ViewTypes DEF CompleteAndNext
<1>2. /\ queue' \in Seq(QueuedRequest) /\ is_pending' \in BOOLEAN
      /\ active_request' \in Request /\ engine_in' \subseteq MrcpRequest
      /\ active_request' = active_request \/ active_request' \in QueuedRequest
  <2>1. queue \in Seq(QueuedRequest)
    BY DEF ChannelTypeOK
  <2>2. CASE queue = <<>>
    BY <2>2 DEF CompleteAndNext, ChannelTypeOK
  <2>3. CASE queue # <<>>
    <3>1. Head(queue) \in QueuedRequest /\ Tail(queue) \in Seq(QueuedRequest)
      BY <2>1, <2>3
    <3>2. /\ queue' = Tail(queue) /\ is_pending' = TRUE
          /\ request_dispatch(Head(queue))
      BY <2>3 DEF CompleteAndNext
    <3> QED
      BY <3>1, <3>2, RequestTypes DEF request_dispatch, ChannelTypeOK
  <2> QED
    BY <2>2, <2>3
<1> QED
  BY <1>1, <1>2, EventNamedType DEF ChannelTypeOK

-----------------------------------------------------------------------------
(* The deactivation of a channel.                                          *)
LEMMA DeactivateType ==
    ASSUME ChannelTypeOK, NEW current \in Request, DeactivateChannel(current)
    PROVE  ChannelTypeOK'
<1> DEFINE stop == [id |-> current.id + 1, method |-> "STOP", sel |-> {}, kill |-> FALSE]
<1>1. stop \in MrcpRequest
  BY DEF Request, MrcpRequest, Methods, SynthMethods
<1>2. /\ active_request' \in Request /\ engine_in' \subseteq MrcpRequest
      /\ session_state' \in {"OPEN", "DEACTIVATING", "TERMINATING"}
  <2>1. CASE current # NoRequest
    <3>1. request_dispatch(stop) /\ session_state' = "DEACTIVATING"
      BY <2>1 DEF DeactivateChannel
    <3> HIDE DEF stop
    <3> QED
      BY <1>1, <3>1, RequestTypes DEF request_dispatch, ChannelTypeOK
  <2>2. CASE current = NoRequest
    BY <2>2 DEF DeactivateChannel, ChannelTypeOK
  <2> QED
    BY <2>1, <2>2
<1>3. /\ active' = FALSE /\ nested' = FALSE
      /\ UNCHANGED <<is_pending, queue, session_request, request_queue>>
      /\ UNCHANGED <<deferred, crashed, in_progress, server_in>>
      /\ UNCHANGED <<next_id, view, responses, deactivations>>
  BY DEF DeactivateChannel, client_vars
<1> QED
  BY <1>2, <1>3 DEF ChannelTypeOK

(* The client.                                                             *)
LEMMA ClientType ==
    ASSUME ChannelTypeOK, ChannelClient
    PROVE  ChannelTypeOK' /\ active_request' = active_request
<1> DEFINE Sels(method) == IF method \in Stopping THEN SUBSET (1..(next_id - 1)) ELSE {{}}
           Kills(method) == IF method = "BARGE-IN-OCCURRED" THEN BOOLEAN ELSE {FALSE}
<1>1. ASSUME NEW m \in Request, SignalingMessageProcess(m),
             next_id' \in 1..(MaxId + 1), view' \in [Ids -> Views]
      PROVE  ChannelTypeOK' /\ active_request' = active_request
  <2>1. /\ UNCHANGED <<active, is_pending, active_request, queue>>
        /\ UNCHANGED <<session_state, deferred, crashed, engine_in, in_progress, server_in>>
        /\ UNCHANGED <<responses, deactivations>>
    BY <1>1 DEF SignalingMessageProcess, machine_vars, engine_vars
  <2>2. session_request' \in Request /\ request_queue' \in Seq(Request) /\ nested' \in BOOLEAN
    <3>1. request_queue \in Seq(Request)
      BY DEF ChannelTypeOK
    <3>2. Append(request_queue, m) \in Seq(Request)
      BY <1>1, <3>1
    <3>3. CASE session_request # NoRequest
      BY <1>1, <3>2, <3>3 DEF SignalingMessageProcess, ChannelTypeOK
    <3>4. CASE session_request = NoRequest
      BY <1>1, <3>1, <3>4 DEF SignalingMessageProcess
    <3> QED
      BY <3>3, <3>4
  <2> QED
    BY <1>1, <2>1, <2>2 DEF ChannelTypeOK
<1>2. CASE ClientTerminate
  <2>1. SignalingMessageProcess(TerminateRequest) /\ UNCHANGED <<next_id, view>>
    BY <1>2 DEF ClientTerminate
  <2>2. next_id' \in 1..(MaxId + 1) /\ view' \in [Ids -> Views]
    BY <2>1 DEF ChannelTypeOK
  <2> QED
    BY <1>1, <2>1, <2>2, RequestTypes
<1>3. ASSUME NEW method \in ClientMethods, NEW sel \in SUBSET Nat, NEW kill \in BOOLEAN,
             ClientRequest(method, sel, kill)
      PROVE  ChannelTypeOK' /\ active_request' = active_request
  <2> DEFINE m == [id |-> next_id, method |-> method, sel |-> sel, kill |-> kill]
  <2>1. m \in Request
    BY ConstantsAssumption DEF ChannelTypeOK, Request
  <2>2. next_id \in Ids /\ next_id' = next_id + 1
    BY <1>3 DEF ClientRequest
  <2>3. next_id' \in 1..(MaxId + 1)
    BY <2>2, ConstantsAssumption DEF Ids
  <2>4. view' \in [Ids -> Views]
    BY <1>3, <2>2 DEF ClientRequest, ChannelTypeOK, Views
  <2>5. SignalingMessageProcess(m)
    BY <1>3 DEF ClientRequest
  <2> HIDE DEF m
  <2> QED
    BY <1>1, <2>1, <2>3, <2>4, <2>5
<1>4. CASE \E method \in ClientMethods : \E sel \in Sels(method) :
               \E kill \in Kills(method) : ClientRequest(method, sel, kill)
  <2>1. PICK method \in ClientMethods : \E sel \in Sels(method) :
               \E kill \in Kills(method) : ClientRequest(method, sel, kill)
    BY <1>4
  <2>2. PICK sel \in Sels(method) : \E kill \in Kills(method) :
               ClientRequest(method, sel, kill)
    BY <2>1
  <2>3. PICK kill \in Kills(method) : ClientRequest(method, sel, kill)
    BY <2>2
  <2>4. sel \in SUBSET Nat
    BY DEF ChannelTypeOK
  <2>5. kill \in BOOLEAN
    OBVIOUS
  <2> QED
    BY <1>3, <2>3, <2>4, <2>5
<1> QED
  BY <1>2, <1>4 DEF ChannelClient

(* Any engine: it also leaves the state machine alone.                     *)
LEMMA EngineType ==
    ASSUME ChannelTypeOK, EngineAnswer \/ EngineComplete \/ EngineMarker
    PROVE  ChannelTypeOK' /\ active_request' = active_request
<1>1. ASSUME NEW m \in EngineMessage, EngineSend(m) PROVE server_in' \in Seq(EngineMessage)
  <2>1. server_in \in Seq(EngineMessage)
    BY DEF ChannelTypeOK
  <2> QED
    BY <1>1, <2>1 DEF EngineSend
<1>2. ASSUME UNCHANGED <<machine_vars, session_vars, stack_vars, client_vars>>,
             server_in' \in Seq(EngineMessage), engine_in' \subseteq MrcpRequest,
             in_progress' \subseteq {r \in Request : r.method \in Starting}
      PROVE  ChannelTypeOK' /\ active_request' = active_request
  BY <1>2 DEF ChannelTypeOK, machine_vars, session_vars, stack_vars, client_vars
<1>3. CASE EngineAnswer
  <2>1. PICK r \in engine_in, reply \in Replies : EngineRespond(r, reply)
    BY <1>3 DEF EngineAnswer
  <2> DEFINE m == [kind |-> "response", id |-> r.id, method |-> r.method, reply |-> reply]
  <2>2. r \in Request /\ r.method \in Methods /\ r.id \in Nat
    BY DEF ChannelTypeOK, MrcpRequest, Request
  <2>3. m \in EngineMessage
    BY <2>2 DEF EngineMessage
  <2>4. EngineSend(m)
    BY <2>1 DEF EngineRespond
  <2>5. server_in' \in Seq(EngineMessage)
    <3> HIDE DEF m
    <3> QED
      BY <1>1, <2>3, <2>4
  <2>6. /\ engine_in' \subseteq MrcpRequest
        /\ in_progress' \subseteq {q \in Request : q.method \in Starting}
    BY <2>1, <2>2 DEF EngineRespond, ChannelTypeOK
  <2>7. UNCHANGED <<machine_vars, session_vars, stack_vars, client_vars>>
    BY <2>1 DEF EngineRespond
  <2> QED
    BY <1>2, <2>5, <2>6, <2>7
<1>4. ASSUME NEW r \in in_progress, NEW name \in Events, EngineEvent(r, name)
      PROVE  server_in' \in Seq(EngineMessage)
  <2> DEFINE m == [kind |-> "event", id |-> r.id, method |-> name,
                   reply |-> "IN-PROGRESS"]
  <2>1. r.id \in Nat
    BY DEF ChannelTypeOK, Request
  <2>2. m \in EngineMessage /\ EngineSend(m)
    BY <1>4, <2>1 DEF EngineMessage, EngineEvent
  <2> HIDE DEF m
  <2> QED
    BY <1>1, <2>2
<1>5. CASE EngineMarker
  <2>1. PICK r \in in_progress : EngineMark(r)
    BY <1>5 DEF EngineMarker
  <2>2. MarkerEvent(r.method) \in Events
    BY DEF MarkerEvent, Events
  <2>3. server_in' \in Seq(EngineMessage)
    BY <1>4, <2>1, <2>2 DEF EngineMark
  <2> QED
    BY <1>2, <2>1, <2>3 DEF EngineMark, ChannelTypeOK
<1>6. CASE EngineComplete
  <2>1. PICK r \in in_progress : EngineFinish(r)
    BY <1>6 DEF EngineComplete
  <2>2. CompletionEvent(r.method) \in Events
    BY DEF CompletionEvent, Events
  <2>3. server_in' \in Seq(EngineMessage)
    BY <1>4, <2>1, <2>2 DEF EngineFinish
  <2> QED
    BY <1>2, <2>1, <2>3 DEF EngineFinish, ChannelTypeOK
<1> QED
  BY <1>3, <1>5, <1>6

(* Nothing changes.                                                        *)
LEMMA StutterType ==
    ASSUME ChannelTypeOK, UNCHANGED channel_vars
    PROVE  ChannelTypeOK'
  BY DEF ChannelTypeOK, channel_vars, machine_vars, session_vars, stack_vars,
     engine_vars, client_vars

-----------------------------------------------------------------------------
(* Which request a response in flight belongs to.                          *)

(* The responses in flight, and the ids of the requests the engine has not *)
(* answered or whose answer is in flight.                                  *)
Answers == {server_in[k] : k \in {l \in DOMAIN server_in : server_in[l].kind = "response"}}
Out == {r.id : r \in engine_in} \cup {m.id : m \in Answers}

(* The ids of the requests that wait in the state machine.                 *)
Held == {queue[k].id : k \in DOMAIN queue}
            \cup (IF deferred = NoRequest THEN {} ELSE {deferred.id})

(* The channel is deactivated and waits for the answer to its own STOP.    *)
Internal == ~active /\ active_request.method = "STOP"

(* Every request in flight is there once, and the id of the active request *)
(* is its own.                                                             *)
Flight ==
    /\ 0 \notin Out
    /\ \A q, r \in engine_in : q.id = r.id => q = r
    /\ \A r \in engine_in, m \in Answers : r.id # m.id
    /\ \A k, l \in DOMAIN server_in :
          server_in[k].kind = "response" /\ server_in[l].kind = "response" /\ k # l
             => server_in[k].id # server_in[l].id
    /\ \A r \in engine_in : r.id = active_request.id => r.method = active_request.method
    /\ \A m \in Answers : m.id = active_request.id => m.method = active_request.method

(* Pending requests wait in the order of their ids.                        *)
Sorted ==
    /\ 0 \notin Held
    /\ \A k, l \in DOMAIN queue : k < l => queue[k].id < queue[l].id
    /\ deferred # NoRequest => \A k \in DOMAIN queue : deferred.id < queue[k].id

(* The active request is the one of the session, or one that was pending,  *)
(* or the STOP of a deactivation; cur is the in-progress request.          *)
Turns(cur) ==
    /\ ~active => ~nested /\ session_request = TerminateRequest
    /\ nested => session_request # NoRequest
    /\ session_request.id = 0 \/ session_request.method = "TERMINATE" =>
          session_request \in {NoRequest, TerminateRequest}
    /\ \/ active_request = NoRequest
       \/ active /\ ~nested /\ active_request = session_request
       \/ /\ active_request.method \in Queueing
          /\ active_request.id \in Out => is_pending
       \/ Internal /\ active_request.sel = {} /\ deferred = NoRequest
    /\ deferred # NoRequest => cur = NoRequest

(* The ids that tell who came first.                                       *)
Order(cur) ==
    ~Internal =>
        /\ \A o \in Out, h \in Held : o < h \/ o = session_request.id
        /\ \A h \in Held : session_request.id = 0 \/ h < session_request.id
        /\ active_request.id \notin Held
        /\ active_request.method \in Queueing =>
              \A o \in Out : o <= active_request.id \/ o = session_request.id
        /\ cur # NoRequest =>
              /\ \A o \in Out : o <= cur.id \/ o = session_request.id
              /\ cur.id \notin Held /\ cur.id \notin Out

(* Requests of the client are new to the state machine, and are answered   *)
(* once.                                                                   *)
Known(cur) == Out \cup Held \cup {cur.id}
Later(n, cur) == n > session_request.id /\ \A o \in Known(cur) : o < n
Fresh(cur) ==
    /\ session_request = NoRequest => request_queue = <<>>
    /\ \A i \in Ids : responses[i] <= 1
    /\ active =>
        /\ nested /\ session_request # TerminateRequest =>
              /\ \A o \in Known(cur) : o < session_request.id
              /\ session_request.id \in Ids /\ responses[session_request.id] = 0
        /\ session_request.id \in Out =>
              session_request.id \in Ids /\ responses[session_request.id] = 0
        /\ \A k \in DOMAIN request_queue : request_queue[k] # TerminateRequest =>
              /\ Later(request_queue[k].id, cur) /\ request_queue[k].id < next_id
              /\ responses[request_queue[k].id] = 0 /\ request_queue[k].method # "TERMINATE"
        /\ \A k, l \in DOMAIN request_queue :
              k < l /\ request_queue[k] # TerminateRequest
                    /\ request_queue[l] # TerminateRequest
                 => request_queue[k].id < request_queue[l].id
        /\ Later(next_id, cur)
        /\ \A i \in Ids : i >= next_id => responses[i] = 0

ChannelInv(cur) ==
    /\ ChannelTypeOK /\ cur \in Request
    /\ Flight /\ Sorted /\ Turns(cur) /\ Order(cur) /\ Fresh(cur)

(* The ids are numbers.                                                    *)
LEMMA IdTypes ==
    ASSUME ChannelTypeOK
    PROVE  /\ Out \subseteq Nat /\ Held \subseteq Nat
           /\ session_request.id \in Nat /\ active_request.id \in Nat /\ next_id \in Nat
           /\ \A k \in DOMAIN request_queue :
                 request_queue[k] \in Request /\ request_queue[k].id \in Nat
           /\ \A r \in Request : r.id \in Nat
           /\ NoRequest.id = 0 /\ TerminateRequest.id = 0
<1>1. \A r \in Request : r.id \in Nat
  BY DEF Request
<1>2. \A r \in engine_in : r.id \in Nat
  BY <1>1, RequestTypes DEF ChannelTypeOK
<1>3. \A k \in DOMAIN server_in : server_in[k].id \in Nat
  <2>1. \A m \in EngineMessage : m.id \in Nat
    BY DEF EngineMessage
  <2>2. \A k \in DOMAIN server_in : server_in[k] \in EngineMessage
    BY DEF ChannelTypeOK
  <2> QED
    BY <2>1, <2>2
<1>4. Out \subseteq Nat
  BY <1>2, <1>3 DEF Out, Answers
<1>5. Held \subseteq Nat
  <2>1. \A k \in DOMAIN queue : queue[k] \in QueuedRequest
    BY DEF ChannelTypeOK
  <2>2. deferred # NoRequest => deferred \in QueuedRequest
    BY DEF ChannelTypeOK
  <2> QED
    BY <1>1, <2>1, <2>2, RequestTypes DEF Held
<1>6. \A k \in DOMAIN request_queue : request_queue[k] \in Request
  BY DEF ChannelTypeOK
<1>7. next_id \in Nat
  BY ConstantsAssumption DEF ChannelTypeOK
<1>8. NoRequest.id = 0 /\ TerminateRequest.id = 0
  BY DEF NoRequest, TerminateRequest
<1> QED
  BY <1>1, <1>4, <1>5, <1>6, <1>7, <1>8 DEF ChannelTypeOK

(* Taking a message changes the flight only by that message.               *)
LEMMA TakeIs ==
    ASSUME ChannelTypeOK, Flight, TakeEngineMessage, engine_in' = engine_in
    PROVE  /\ Answers' \subseteq Answers
           /\ Received.kind = "response" =>
                 Received \in Answers /\ Received.id \in Out /\ Out' = Out \ {Received.id}
           /\ Received.kind # "response" => Out' = Out
           /\ \A k, l \in DOMAIN server_in' :
                 server_in'[k].kind = "response" /\ server_in'[l].kind = "response" /\ k # l
                    => server_in'[k].id # server_in'[l].id
<1>1. server_in \in Seq(EngineMessage) /\ server_in # <<>> /\ server_in' = Tail(server_in)
  BY DEF ChannelTypeOK, TakeEngineMessage
<1>2. /\ DOMAIN server_in = 1..Len(server_in) /\ Len(server_in) \in Nat
      /\ 1 \in DOMAIN server_in /\ Received = server_in[1]
      /\ DOMAIN server_in' = 1..(Len(server_in) - 1)
  BY <1>1 DEF Received
<1>3. \A k \in DOMAIN server_in' :
         k + 1 \in DOMAIN server_in /\ k + 1 # 1 /\ server_in'[k] = server_in[k + 1]
  BY <1>1
<1>4. \A k \in DOMAIN server_in : k # 1 =>
         k - 1 \in DOMAIN server_in' /\ server_in'[k - 1] = server_in[k]
  BY <1>1
<1>5. Answers' \subseteq Answers
  BY <1>3 DEF Answers
<1>6. \A m \in Answers : m \in Answers' \/ m = Received
  BY <1>2, <1>4 DEF Answers
<1>7. \A k, l \in DOMAIN server_in' : k # l => k + 1 # l + 1
  BY <1>2
<1>8. \A k, l \in DOMAIN server_in' :
         server_in'[k].kind = "response" /\ server_in'[l].kind = "response" /\ k # l
            => server_in'[k].id # server_in'[l].id
  BY <1>3, <1>7 DEF Flight
<1>9. CASE Received.kind = "response"
  <2>1. Received \in Answers /\ Received.id \in Out
    BY <1>2, <1>9 DEF Answers, Out
  <2>2. \A m \in Answers' : m.id # Received.id
    BY <1>2, <1>3, <1>9 DEF Answers, Flight
  <2>3. \A r \in engine_in : r.id # Received.id
    BY <2>1 DEF Flight
  <2>4. Out' = {r.id : r \in engine_in} \cup {m.id : m \in Answers'}
    BY DEF Out
  <2>5. Out' = Out \ {Received.id}
    BY <1>5, <1>6, <2>2, <2>3, <2>4 DEF Out
  <2> QED
    BY <1>5, <1>8, <1>9, <2>1, <2>5
<1>10. CASE Received.kind # "response"
  <2>1. Answers' = Answers
    <3>1. \A m \in Answers : m.kind = "response"
      BY DEF Answers
    <3> QED
      BY <1>5, <1>6, <1>10, <3>1
  <2> QED
    BY <1>5, <1>8, <1>10, <2>1 DEF Out
<1> QED
  BY <1>9, <1>10

(* Taking a message, with the active request kept or given up.             *)
LEMMA TakeFlight ==
    ASSUME ChannelTypeOK, Flight, TakeEngineMessage, engine_in' = engine_in,
           active_request' = active_request \/ active_request' = NoRequest
    PROVE  Flight'
<1>1. /\ Answers' \subseteq Answers /\ Out' \subseteq Out
      /\ \A k, l \in DOMAIN server_in' :
            server_in'[k].kind = "response" /\ server_in'[l].kind = "response" /\ k # l
               => server_in'[k].id # server_in'[l].id
  BY TakeIs
<1>2. 0 \notin Out /\ NoRequest.id = 0
  BY IdTypes DEF Flight
<1>3. \A r \in engine_in : r.id = active_request'.id => r.method = active_request'.method
  <2>1. \A r \in engine_in : r.id \in Out
    BY DEF Out
  <2> QED
    BY <1>2, <2>1 DEF Flight
<1>4. \A m \in Answers : m.id = active_request'.id => m.method = active_request'.method
  <2>1. \A m \in Answers : m.id \in Out
    BY DEF Out
  <2> QED
    BY <1>2, <2>1 DEF Flight
<1> QED
  BY <1>1, <1>2, <1>3, <1>4 DEF Flight

(* No active request.                                                      *)
LEMMA IdleFlight ==
    ASSUME ChannelTypeOK, Flight, UNCHANGED <<engine_in, server_in>>,
           active_request' = active_request \/ active_request' = NoRequest
    PROVE  Flight' /\ Out' = Out
<1>1. Answers' = Answers /\ Out' = Out
  BY DEF Answers, Out
<1>2. 0 \notin Out /\ NoRequest.id = 0
  BY IdTypes DEF Flight
<1>3. (\A r \in engine_in : r.id \in Out) /\ (\A m \in Answers : m.id \in Out)
  BY DEF Out
<1> QED
  BY <1>1, <1>2, <1>3 DEF Flight

(* A request with an id of its own goes to the engine.                     *)
LEMMA DispatchFlight ==
    ASSUME ChannelTypeOK, Flight, NEW m, m.id # 0, m.id \notin Out,
           request_dispatch(m), server_in' = server_in
    PROVE  Flight' /\ Out' = Out \cup {m.id}
<1>1. active_request' = m /\ engine_in' = engine_in \cup {m} /\ Answers' = Answers
  BY DEF request_dispatch, Answers
<1>2. (\A r \in engine_in : r.id # m.id) /\ (\A n \in Answers : n.id # m.id)
  BY DEF Out
<1>3. Out' = {r.id : r \in engine_in'} \cup {n.id : n \in Answers}
  BY <1>1 DEF Out
<1>4. Out' = Out \cup {m.id}
  BY <1>1, <1>3 DEF Out
<1>5. 0 \notin Out'
  BY <1>4 DEF Flight
<1> QED
  BY <1>1, <1>2, <1>4, <1>5 DEF Flight

(* The engine answers a request or raises an event.                        *)
LEMMA EngineFlight ==
    ASSUME ChannelTypeOK, Flight, EngineAnswer \/ EngineComplete \/ EngineMarker
    PROVE  Flight' /\ Out' = Out
<1>0. server_in \in Seq(EngineMessage)
  BY DEF ChannelTypeOK
<1>1. ASSUME NEW m, EngineSend(m)
      PROVE  /\ DOMAIN server_in = 1..Len(server_in) /\ Len(server_in) \in Nat
             /\ DOMAIN server_in' = 1..(Len(server_in) + 1)
             /\ \A k \in DOMAIN server_in : server_in'[k] = server_in[k]
             /\ server_in'[Len(server_in) + 1] = m
             /\ \A k \in DOMAIN server_in' : k \in DOMAIN server_in \/ k = Len(server_in) + 1
  BY <1>0, <1>1 DEF EngineSend
<1>2. ASSUME NEW m, EngineSend(m), m.kind # "response", engine_in' = engine_in,
             active_request' = active_request
      PROVE  Flight' /\ Out' = Out
  <2>1. Answers' = Answers
    BY <1>1, <1>2 DEF Answers
  <2>2. Out' = Out
    BY <1>2, <2>1 DEF Out
  <2>3. \A k, l \in DOMAIN server_in' :
           server_in'[k].kind = "response" /\ server_in'[l].kind = "response" /\ k # l
              => server_in'[k].id # server_in'[l].id
    BY <1>1, <1>2 DEF Flight
  <2> QED
    BY <1>2, <2>1, <2>2, <2>3 DEF Flight
<1>3. ASSUME NEW r \in in_progress, NEW name, EngineEvent(r, name), engine_in' = engine_in,
             active_request' = active_request
      PROVE  Flight' /\ Out' = Out
  BY <1>2, <1>3 DEF EngineEvent
<1>4. CASE EngineComplete
  BY <1>3, <1>4 DEF EngineComplete, EngineFinish, machine_vars
<1>5. CASE EngineMarker
  BY <1>3, <1>5 DEF EngineMarker, EngineMark, machine_vars
<1>6. CASE EngineAnswer
  <2>1. PICK r \in engine_in, reply \in Replies : EngineRespond(r, reply)
    BY <1>6 DEF EngineAnswer
  <2>2. PICK m : m = [kind |-> "response", id |-> r.id, method |-> r.method, reply |-> reply]
    OBVIOUS
  <2>3. /\ engine_in' = engine_in \ {r} /\ EngineSend(m) /\ active_request' = active_request
        /\ m.kind = "response" /\ m.id = r.id /\ m.method = r.method
    BY <2>1, <2>2 DEF EngineRespond, machine_vars
  <2>4. Answers' = Answers \cup {m}
    <3>1. Answers \subseteq Answers'
      BY <1>1, <2>3 DEF Answers
    <3>2. m \in Answers'
      <4>1. Len(server_in) + 1 \in DOMAIN server_in'
        BY <1>1, <2>3
      <4> QED
        BY <1>1, <2>3, <4>1 DEF Answers
    <3>3. \A n \in Answers' : n \in Answers \/ n = m
      BY <1>1, <2>3 DEF Answers
    <3> QED
      BY <3>1, <3>2, <3>3
  <2>5. \A n \in Answers : n.id # r.id
    BY DEF Flight
  <2>6. \A q \in engine_in' : q \in engine_in /\ q.id # r.id
    BY <2>3 DEF Flight
  <2>7. Out' = Out
    <3>1. Out' = {q.id : q \in engine_in'} \cup {n.id : n \in Answers'}
      BY DEF Out
    <3>2. \A o \in Out : o \in Out'
      BY <2>3, <2>4, <3>1 DEF Out
    <3>3. \A o \in Out' : o \in Out
      BY <2>3, <2>4, <2>6, <3>1 DEF Out
    <3> QED
      BY <3>2, <3>3
  <2>8. \A k \in DOMAIN server_in : server_in[k].kind = "response" => server_in[k].id # m.id
    BY <2>3, <2>5 DEF Answers
  <2>9. \A k, l \in DOMAIN server_in' :
           server_in'[k].kind = "response" /\ server_in'[l].kind = "response" /\ k # l
              => server_in'[k].id # server_in'[l].id
    BY <1>1, <2>3, <2>8 DEF Flight
  <2>10. \A q, p \in engine_in' : q.id = p.id => q = p
    BY <2>6 DEF Flight
  <2>11. \A q \in engine_in', n \in Answers' : q.id # n.id
    BY <2>3, <2>4, <2>6 DEF Flight
  <2>12. /\ \A q \in engine_in' : q.id = active_request'.id => q.method = active_request'.method
         /\ \A n \in Answers' : n.id = active_request'.id => n.method = active_request'.method
    BY <2>3, <2>4, <2>6 DEF Flight
  <2>13. 0 \notin Out'
    BY <2>7 DEF Flight
  <2> QED
    BY <2>7, <2>9, <2>10, <2>11, <2>12, <2>13 DEF Flight
<1> QED
  BY <1>4, <1>5, <1>6

-----------------------------------------------------------------------------
(* What waits after pending requests were unlinked waited before, in the   *)
(* same order.                                                             *)
LEMMA RemainingIs ==
    ASSUME ChannelTypeOK, Sorted, NEW sel, NEW rest, rest = Remaining(sel)
    PROVE  /\ rest \in Seq(QueuedRequest)
           /\ \A k \in DOMAIN rest : \E i \in DOMAIN queue : rest[k] = queue[i]
           /\ \A k, l \in DOMAIN rest : k < l => rest[k].id < rest[l].id
           /\ sel = {} => rest = <<>>
<1>0. queue \in Seq(QueuedRequest)
  BY DEF ChannelTypeOK
<1>1. PICK keep : keep = DOMAIN queue \ Removed(sel)
  OBVIOUS
<1>2. keep \subseteq DOMAIN queue /\ rest = KeepAt(queue, keep)
  BY <1>1 DEF Remaining
<1>3. rest \in Seq(QueuedRequest)
  BY <1>0, RemainingType
<1>4. {rest[k] : k \in DOMAIN rest} = {queue[i] : i \in keep}
  <2> DEFINE kept == KeepAt(queue, keep)
  <2>1. {kept[k] : k \in DOMAIN kept} = {queue[i] : i \in keep}
    BY <1>0, <1>2, KeepAtElements
  <2> HIDE DEF kept
  <2>2. rest = kept
    BY <1>2 DEF kept
  <2> QED
    BY <2>1, <2>2
<1>5. \A k \in DOMAIN rest : \E i \in DOMAIN queue : rest[k] = queue[i]
  BY <1>2, <1>4
<1>6. \A k, l \in DOMAIN rest : k < l =>
         \E i, j \in keep : i < j /\ rest[k] = queue[i] /\ rest[l] = queue[j]
  BY <1>0, <1>2, KeepAtOrder
<1>7. \A k, l \in DOMAIN rest : k < l => rest[k].id < rest[l].id
  BY <1>2, <1>6 DEF Sorted
<1>8. ASSUME sel = {} PROVE rest = <<>>
  <2>1. keep = {}
    BY <1>1, <1>8 DEF Removed
  <2>2. DOMAIN rest = {}
    BY <1>4, <2>1
  <2> QED
    BY <1>3, <2>2
<1> QED
  BY <1>3, <1>5, <1>7, <1>8

(* The session pops its next request: it is newer than all before it.      *)
LEMMA PopIs ==
    ASSUME ChannelTypeOK, NEW c, c.id \in Nat, Fresh(c), active, PopSessionRequest
    PROVE  /\ \/ session_request' = NoRequest /\ request_queue' = <<>> /\ nested' = FALSE
              \/ session_request' = TerminateRequest /\ nested' = TRUE
              \/ /\ nested' = TRUE /\ session_request'.id < next_id
                 /\ session_request' # TerminateRequest
                 /\ session_request'.method # "TERMINATE"
                 /\ Later(session_request'.id, c) /\ responses[session_request'.id] = 0
                 /\ \A k \in DOMAIN request_queue' : request_queue'[k] # TerminateRequest =>
                       session_request'.id < request_queue'[k].id
           /\ session_request'.id \in Nat
           /\ request_queue' \in Seq(Request)
           /\ \A k \in DOMAIN request_queue' : request_queue'[k] # TerminateRequest =>
                 /\ request_queue'[k].id \in Nat
                 /\ Later(request_queue'[k].id, c) /\ request_queue'[k].id < next_id
                 /\ responses[request_queue'[k].id] = 0
                 /\ request_queue'[k].method # "TERMINATE"
           /\ \A k, l \in DOMAIN request_queue' :
                 k < l /\ request_queue'[k] # TerminateRequest
                       /\ request_queue'[l] # TerminateRequest
                    => request_queue'[k].id < request_queue'[l].id
<1>1. /\ \A k \in DOMAIN request_queue : request_queue[k] # TerminateRequest =>
              /\ Later(request_queue[k].id, c) /\ request_queue[k].id < next_id
              /\ responses[request_queue[k].id] = 0 /\ request_queue[k].method # "TERMINATE"
      /\ \A k, l \in DOMAIN request_queue :
              k < l /\ request_queue[k] # TerminateRequest
                    /\ request_queue[l] # TerminateRequest
                 => request_queue[k].id < request_queue[l].id
  BY DEF Fresh
<1>2. /\ \A k \in DOMAIN request_queue : request_queue[k].id \in Nat
      /\ NoRequest.id = 0 /\ TerminateRequest.id = 0
  BY IdTypes
<1>3. request_queue \in Seq(Request)
  BY DEF ChannelTypeOK
<1>4. CASE request_queue = <<>>
  <2>1. session_request' = NoRequest /\ request_queue' = <<>> /\ nested' = FALSE
    BY <1>4 DEF PopSessionRequest
  <2>2. DOMAIN request_queue' = {} /\ request_queue' \in Seq(Request)
    BY <2>1
  <2>3. session_request'.id \in Nat
    BY <1>2, <2>1
  <2> QED
    BY <2>1, <2>2, <2>3
<1>5. CASE request_queue # <<>>
  <2>1. /\ session_request' = Head(request_queue) /\ request_queue' = Tail(request_queue)
        /\ nested' = TRUE
    BY <1>5 DEF PopSessionRequest
  <2>2. /\ 1 \in DOMAIN request_queue /\ session_request' = request_queue[1]
        /\ request_queue' \in Seq(Request)
        /\ DOMAIN request_queue' = 1..(Len(request_queue) - 1)
        /\ DOMAIN request_queue = 1..Len(request_queue) /\ Len(request_queue) \in Nat
    BY <1>3, <1>5, <2>1
  <2>3. \A k \in DOMAIN request_queue' :
           /\ k + 1 \in DOMAIN request_queue /\ 1 < k + 1 
           /\ request_queue'[k] = request_queue[k + 1]
    BY <1>3, <1>5, <2>1, <2>2
  <2>4. \A k, l \in DOMAIN request_queue' : k < l => k + 1 < l + 1
    BY <2>2
  <2>5. \A k \in DOMAIN request_queue' : request_queue'[k] # TerminateRequest =>
           /\ request_queue'[k].id \in Nat
           /\ Later(request_queue'[k].id, c) /\ request_queue'[k].id < next_id
           /\ responses[request_queue'[k].id] = 0
           /\ request_queue'[k].method # "TERMINATE"
    BY <1>1, <1>2, <2>3
  <2>6. \A k, l \in DOMAIN request_queue' :
           k < l /\ request_queue'[k] # TerminateRequest
                 /\ request_queue'[l] # TerminateRequest
              => request_queue'[k].id < request_queue'[l].id
    BY <1>1, <2>3, <2>4
  <2>7. session_request' # TerminateRequest =>
           /\ session_request'.id < next_id
           /\ session_request'.method # "TERMINATE"
           /\ Later(session_request'.id, c) /\ responses[session_request'.id] = 0
           /\ \A k \in DOMAIN request_queue' : request_queue'[k] # TerminateRequest =>
                 session_request'.id < request_queue'[k].id
    BY <1>1, <2>2, <2>3
  <2>8. session_request'.id \in Nat
    BY <1>2, <2>2
  <2> QED
    BY <2>1, <2>2, <2>5, <2>6, <2>7, <2>8
<1> QED
  BY <1>4, <1>5

-----------------------------------------------------------------------------
(* How the steps of a channel change its ids.                              *)

(* Messages are answered or consumed, and nothing else happens to the ids; *)
(* what is in progress may end, or the pending request that the engine     *)
(* accepted is in progress now.                                            *)
LEMMA Consumed ==
    ASSUME NEW c, NEW d, ChannelInv(c), ChannelTypeOK', Flight', Out' \subseteq Out,
           UNCHANGED <<active, nested, active_request, session_request, queue, deferred,
                       request_queue, next_id, responses>>,
           is_pending' = is_pending \/ active_request.id \notin Out',
           \/ d = NoRequest
           \/ d = c
           \/ /\ d = active_request /\ active_request.method \in Queueing
              /\ active_request.id \in Out /\ active_request.id \notin Out'
              /\ deferred = NoRequest
    PROVE  ChannelInv(d)'
<1>1. /\ Out \subseteq Nat /\ Held \subseteq Nat /\ Out' \subseteq Nat
      /\ session_request.id \in Nat /\ active_request.id \in Nat /\ next_id \in Nat
      /\ NoRequest.id = 0 /\ c.id \in Nat
  BY IdTypes DEF ChannelInv
<1>2. d \in Request /\ d.id \in Nat
  BY <1>1, RequestTypes DEF ChannelInv, ChannelTypeOK
<1>3. Held' = Held /\ Internal' = Internal
  BY DEF Held, Internal
<1>4. Sorted'
  BY <1>3 DEF ChannelInv, Sorted
<1>5. Turns(d)'
  <2>1. deferred # NoRequest => d = NoRequest
    BY DEF ChannelInv, Turns
  <2>2. active_request.id \in Out' /\ active_request.method \in Queueing
           /\ (active_request.id \in Out => is_pending) => is_pending'
    OBVIOUS
  <2> QED
    BY <1>3, <2>1, <2>2 DEF ChannelInv, Turns
<1>6. Order(d)'
  <2>1. SUFFICES ASSUME ~Internal PROVE Order(d)'
    BY <1>3 DEF Order
  <2>2. /\ \A o \in Out, h \in Held : o < h \/ o = session_request.id
        /\ \A h \in Held : session_request.id = 0 \/ h < session_request.id
        /\ active_request.id \notin Held
        /\ active_request.method \in Queueing =>
              \A o \in Out : o <= active_request.id \/ o = session_request.id
        /\ c # NoRequest =>
              /\ \A o \in Out : o <= c.id \/ o = session_request.id
              /\ c.id \notin Held /\ c.id \notin Out
    BY <2>1 DEF ChannelInv, Order
  <2>3. d # NoRequest =>
              /\ \A o \in Out' : o <= d.id \/ o = session_request.id
              /\ d.id \notin Held /\ d.id \notin Out'
    BY <2>2
  <2> QED
    BY <1>3, <2>2, <2>3 DEF Order
<1>7. Fresh(d)'
  <2>1. ASSUME NEW n \in Nat, n > 0, \A o \in Known(c) : o < n
        PROVE  \A o \in Known(d)' : o < n
    BY <1>1, <1>3, <2>1 DEF Known
  <2>2. ASSUME NEW n \in Nat, Later(n, c)
        PROVE  Later(n, d)'
    BY <1>1, <2>1, <2>2 DEF Later
  <2>3. \A k \in DOMAIN request_queue : request_queue[k].id \in Nat
    BY IdTypes DEF ChannelInv
  <2>4. Ids \subseteq Nat \ {0}
    BY ConstantsAssumption DEF Ids
  <2>5. Fresh(c)
    BY DEF ChannelInv
  <2>6. active => /\ Later(next_id, d)'
                  /\ \A k \in DOMAIN request_queue : request_queue[k] # TerminateRequest =>
                        Later(request_queue[k].id, d)'
    BY <1>1, <2>2, <2>3, <2>5 DEF Fresh
  <2>7. active /\ nested /\ session_request # TerminateRequest =>
              \A o \in Known(d)' : o < session_request.id
    BY <1>1, <2>1, <2>4, <2>5 DEF Fresh
  <2>8. session_request.id \in Out' => session_request.id \in Out
    OBVIOUS
  <2> HIDE DEF Fresh
  <2> QED
    BY <2>5, <2>6, <2>7, <2>8 DEF Fresh
<1> QED
  BY <1>2, <1>4, <1>5, <1>6, <1>7 DEF ChannelInv

(* The request of the session goes to the engine.                          *)
LEMMA SessionDispatched ==
    ASSUME NEW c, ChannelInv(c), ChannelTypeOK', nested, session_request # TerminateRequest,
           DispatchAndReturn(session_request), UNCHANGED <<active, is_pending, queue>>
    PROVE  ChannelInv(c)'
<1>1. /\ Out \subseteq Nat /\ Held \subseteq Nat
      /\ session_request.id \in Nat /\ active_request.id \in Nat /\ next_id \in Nat
      /\ NoRequest.id = 0 /\ c.id \in Nat
  BY IdTypes DEF ChannelInv
<1>2. active /\ Fresh(c) /\ Turns(c)
  BY DEF ChannelInv, Turns
<1>3. /\ \A o \in Known(c) : o < session_request.id
      /\ session_request.id \in Ids /\ responses[session_request.id] = 0
  BY <1>2 DEF Fresh
<1>4. session_request.id # 0 /\ session_request.id \notin Out
  BY <1>1, <1>3, ConstantsAssumption DEF Ids, Known
<1>5. Flight' /\ Out' = Out \cup {session_request.id}
  BY <1>4, DispatchFlight DEF DispatchAndReturn, ChannelInv
<1>6. /\ active_request' = session_request /\ ~nested'
      /\ UNCHANGED <<session_request, request_queue, deferred, next_id, responses>>
  BY DEF DispatchAndReturn, request_dispatch, session_vars, client_vars
<1>7. Held' = Held /\ Sorted' /\ ~Internal' /\ ~Internal
  BY <1>2, <1>6 DEF Held, Sorted, ChannelInv, Internal
<1>8. Turns(c)'
  BY <1>2, <1>6 DEF Turns
<1>9. Order(c)'
  <2>1. /\ \A o \in Out, h \in Held : o < h \/ o = session_request.id
        /\ \A h \in Held : session_request.id = 0 \/ h < session_request.id
        /\ c # NoRequest =>
              /\ \A o \in Out : o <= c.id \/ o = session_request.id
              /\ c.id \notin Held /\ c.id \notin Out
    BY <1>7 DEF ChannelInv, Order
  <2>2. session_request.id \notin Held /\ c.id # session_request.id
    BY <1>1, <1>3 DEF Known
  <2>3. \A o \in Out : o <= session_request.id
    BY <1>1, <1>3 DEF Known
  <2> QED
    BY <1>1, <1>5, <1>6, <1>7, <2>1, <2>2, <2>3 DEF Order
<1>10. Fresh(c)'
  <2>1. ASSUME NEW n \in Nat, Later(n, c)
        PROVE  Later(n, c)'
    BY <1>1, <1>5, <1>6, <1>7, <2>1 DEF Later, Known
  <2>2. \A k \in DOMAIN request_queue : request_queue[k].id \in Nat
    BY IdTypes DEF ChannelInv
  <2>3. /\ Later(next_id, c)'
        /\ \A k \in DOMAIN request_queue : request_queue[k] # TerminateRequest =>
              Later(request_queue[k].id, c)'
    BY <1>1, <1>2, <1>6, <2>1, <2>2 DEF Fresh
  <2> QED
    BY <1>2, <1>3, <1>6, <2>3 DEF Fresh
<1> QED
  BY <1>5, <1>7, <1>8, <1>9, <1>10 DEF ChannelInv

(* The first of the requests that wait goes to the engine, when nothing is *)
(* in progress any more.                                                   *)
LEMMA HeldDispatched ==
    ASSUME NEW c, ChannelInv(c), ChannelTypeOK', Flight',
           ~Internal, ~nested, NEW h \in Held,
           Held' = Held \ {h}, \A g \in Held' : h < g, Sorted', deferred' = NoRequest,
           active_request'.id = h, active_request'.method \in Queueing, is_pending',
           Out' = Out \cup {h},
           UNCHANGED <<active, nested, session_request, request_queue, next_id, responses>>
    PROVE  ChannelInv(NoRequest)'
<1>1. /\ Out \subseteq Nat /\ Held \subseteq Nat
      /\ session_request.id \in Nat /\ next_id \in Nat
      /\ NoRequest.id = 0 /\ c.id \in Nat
  BY IdTypes DEF ChannelInv
<1>2. h # 0
  BY DEF ChannelInv, Sorted
<1>3. Turns(NoRequest)'
  BY DEF ChannelInv, Turns
<1>4. /\ \A o \in Out, g \in Held : o < g \/ o = session_request.id
      /\ \A g \in Held : session_request.id = 0 \/ g < session_request.id
  BY DEF ChannelInv, Order
<1>5. Order(NoRequest)'
  <2>1. \A o \in Out', g \in Held' : o < g \/ o = session_request.id
    BY <1>4
  <2>2. \A g \in Held' : session_request.id = 0 \/ g < session_request.id
    BY <1>4
  <2>3. \A o \in Out' : o <= h \/ o = session_request.id
    BY <1>1, <1>4
  <2> QED
    BY <2>1, <2>2, <2>3 DEF Order
<1>6. Fresh(NoRequest)'
  <2>1. ASSUME NEW n \in Nat, Later(n, c)
        PROVE  Later(n, NoRequest)'
    BY <1>1, <2>1 DEF Later, Known
  <2>2. \A k \in DOMAIN request_queue : request_queue[k].id \in Nat
    BY IdTypes DEF ChannelInv
  <2>3. Fresh(c)
    BY DEF ChannelInv
  <2>4. active => /\ Later(next_id, NoRequest)'
                  /\ \A k \in DOMAIN request_queue : request_queue[k] # TerminateRequest =>
                        Later(request_queue[k].id, NoRequest)'
    BY <1>1, <2>1, <2>2, <2>3 DEF Fresh
  <2>5. session_request.id # h
    BY <1>1, <1>2, <1>4
  <2> QED
    BY <2>3, <2>4, <2>5 DEF Fresh
<1> QED
  BY <1>3, <1>5, <1>6, RequestTypes DEF ChannelInv

(* The request of the session is answered, and the next one popped.  It    *)
(* may have joined the requests that wait, or be in progress now.          *)
LEMMA SessionAnswered ==
    ASSUME NEW c, NEW d, ChannelInv(c), ChannelTypeOK', Flight', Sorted', active,
           NEW id \in Ids, id = session_request.id, responses[id] = 0,
           NEW rstate, NEW ended, response_dispatch(id, rstate, ended), active' = active,
           Out' = Out \ {id},
           Held' \subseteq Held \cup {id},
           id \in Held' => (\A o \in Out : o < id) /\ d.id # id,
           \/ d = NoRequest
           \/ d = c
           \/ /\ d = active_request /\ active_request = session_request
              /\ active_request.method \in Queueing,
           deferred' # NoRequest => d = NoRequest
    PROVE  ChannelInv(d)'
<1>1. /\ Out \subseteq Nat /\ Held \subseteq Nat /\ Out' \subseteq Nat /\ Held' \subseteq Nat
      /\ session_request.id \in Nat /\ active_request.id \in Nat /\ next_id \in Nat
      /\ NoRequest.id = 0 /\ TerminateRequest.id = 0 /\ c.id \in Nat
  BY IdTypes DEF ChannelInv
<1>2. d \in Request /\ d.id \in Nat
  BY <1>1, RequestTypes DEF ChannelInv, ChannelTypeOK
<1>3. /\ active_request' = NoRequest /\ PopSessionRequest /\ next_id' = next_id
      /\ responses' = [i \in Ids |-> responses[i] + (IF i = id THEN 1 ELSE 0)]
  BY DEF response_dispatch
<1>4. Ids \subseteq Nat /\ id \in Nat /\ id > 0 /\ \A i \in Nat : 0 < i /\ i < next_id => i \in Ids
  BY ConstantsAssumption DEF Ids, ChannelInv, ChannelTypeOK
<1>5. \A i \in Ids : responses'[i] = responses[i] + (IF i = id THEN 1 ELSE 0)
  BY <1>3
<1>6. responses \in [Ids -> Nat] /\ Fresh(c)
  BY DEF ChannelInv, ChannelTypeOK
<1>7. /\ \/ session_request' = NoRequest /\ request_queue' = <<>> /\ nested' = FALSE
         \/ session_request' = TerminateRequest /\ nested' = TRUE
         \/ /\ nested' = TRUE /\ session_request'.id < next_id
            /\ session_request' # TerminateRequest
            /\ session_request'.method # "TERMINATE"
            /\ Later(session_request'.id, c) /\ responses[session_request'.id] = 0
            /\ \A k \in DOMAIN request_queue' : request_queue'[k] # TerminateRequest =>
                  session_request'.id < request_queue'[k].id
      /\ session_request'.id \in Nat
      /\ request_queue' \in Seq(Request)
      /\ \A k \in DOMAIN request_queue' : request_queue'[k] # TerminateRequest =>
            /\ request_queue'[k].id \in Nat
            /\ Later(request_queue'[k].id, c) /\ request_queue'[k].id < next_id
            /\ responses[request_queue'[k].id] = 0
            /\ request_queue'[k].method # "TERMINATE"
      /\ \A k, l \in DOMAIN request_queue' :
            k < l /\ request_queue'[k] # TerminateRequest
                  /\ request_queue'[l] # TerminateRequest
               => request_queue'[k].id < request_queue'[l].id
  BY <1>1, <1>3, <1>6, PopIs DEF ChannelInv
<1>8. ASSUME NEW n \in Nat, Later(n, c)
      PROVE  n > id /\ \A o \in Known(d)' : o < n
  <2>1. n > id /\ (\A o \in Out \cup Held : o < n) /\ c.id < n
    BY <1>8 DEF Later, Known
  <2>2. d.id < n
    BY <1>1, <1>4, <2>1
  <2>3. \A o \in Out' \cup Held' : o < n
    BY <2>1
  <2> QED
    BY <2>1, <2>2, <2>3 DEF Known
<1>9. ~Internal' /\ ~Internal
  BY DEF Internal
<1>10. NoRequest # TerminateRequest
  BY DEF NoRequest, TerminateRequest
<1>11. Turns(d)'
  <2>1. nested' => session_request' # NoRequest
    BY <1>1, <1>4, <1>7, <1>8, <1>10
  <2>2. session_request'.id = 0 \/ session_request'.method = "TERMINATE" =>
           session_request' \in {NoRequest, TerminateRequest}
    BY <1>4, <1>7, <1>8
  <2> QED
    BY <1>3, <2>1, <2>2 DEF Turns
<1>12. Order(d)'
  <2>1. /\ \A o \in Out, h \in Held : o < h \/ o = id
        /\ active_request.id \notin Held
        /\ active_request.method \in Queueing => \A o \in Out : o <= active_request.id \/ o = id
        /\ c # NoRequest => (\A o \in Out : o <= c.id \/ o = id) /\ c.id \notin Held /\ c.id \notin Out
    BY <1>9 DEF ChannelInv, Order
  <2>2. \A o \in Out', h \in Held' : o < h
    BY <2>1
  <2>3. \A h \in Held' : session_request'.id = 0 \/ h < session_request'.id
    BY <1>1, <1>7, <1>8 DEF Known
  <2>4. active_request'.id \notin Held' /\ active_request'.method \notin Queueing
    BY <1>3, <1>1 DEF NoRequest, Queueing, Sorted
  <2>5. d # NoRequest => (\A o \in Out' : o <= d.id) /\ d.id \notin Held' /\ d.id \notin Out'
    BY <2>1
  <2> QED
    BY <2>2, <2>3, <2>4, <2>5 DEF Order
<1>13. Fresh(d)'
  <2>1. \A k \in DOMAIN request_queue' : request_queue'[k] # TerminateRequest =>
           /\ Later(request_queue[k].id, d)' /\ request_queue'[k].id < next_id'
           /\ responses'[request_queue'[k].id] = 0
           /\ request_queue'[k].method # "TERMINATE"
    <3> SUFFICES ASSUME NEW k \in DOMAIN request_queue', request_queue'[k] # TerminateRequest
                 PROVE  /\ Later(request_queue[k].id, d)' /\ request_queue'[k].id < next_id'
                        /\ responses'[request_queue'[k].id] = 0
                        /\ request_queue'[k].method # "TERMINATE"
      OBVIOUS
    <3>1. PICK n : n = request_queue'[k].id
      OBVIOUS
    <3>2. /\ n \in Nat /\ Later(n, c) /\ n < next_id /\ responses[n] = 0
          /\ request_queue'[k].method # "TERMINATE"
      BY <1>7, <3>1
    <3>3. n > id /\ \A o \in Known(d)' : o < n
      BY <1>8, <3>2
    <3>4. n > session_request'.id
      BY <1>1, <1>4, <1>7, <3>1, <3>2, <3>3
    <3>5. n \in Ids /\ n # id
      BY <1>4, <3>2, <3>3
    <3>6. responses'[n] = 0
      BY <1>5, <3>2, <3>5
    <3> QED
      BY <1>3, <3>1, <3>2, <3>3, <3>4, <3>6 DEF Later
  <2>2. nested' /\ session_request' # TerminateRequest =>
           /\ \A o \in Known(d)' : o < session_request'.id
           /\ session_request'.id \in Ids /\ responses'[session_request'.id] = 0
    <3> SUFFICES ASSUME nested', session_request' # TerminateRequest
                 PROVE  /\ \A o \in Known(d)' : o < session_request'.id
                        /\ session_request'.id \in Ids /\ responses'[session_request'.id] = 0
      OBVIOUS
    <3>1. PICK n : n = session_request'.id
      OBVIOUS
    <3>2. n \in Nat /\ Later(n, c) /\ n < next_id /\ responses[n] = 0
      BY <1>7, <3>1
    <3>3. n > id /\ \A o \in Known(d)' : o < n
      BY <1>8, <3>2
    <3>4. n \in Ids /\ n # id
      BY <1>4, <3>2, <3>3
    <3>5. responses'[n] = 0
      BY <1>5, <3>2, <3>4
    <3> QED
      BY <3>1, <3>3, <3>4, <3>5
  <2>3. session_request'.id \notin Out'
    <3>1. CASE session_request'.id = 0
      BY <3>1 DEF Flight
    <3>2. CASE session_request'.id # 0
      <4>1. Later(session_request'.id, c)
        BY <1>1, <1>7, <3>2
      <4>2. \A o \in Out' : o < session_request'.id
        BY <1>7, <1>8, <4>1 DEF Known
      <4> QED
        BY <1>7, <4>2
    <3> QED
      BY <3>1, <3>2
  <2>4. Later(next_id, d)'
    <3>1. Later(next_id, c)
      BY <1>6 DEF Fresh
    <3>2. next_id > id /\ \A o \in Known(d)' : o < next_id
      BY <1>1, <1>8, <3>1
    <3>3. next_id > session_request'.id
      BY <1>1, <1>4, <1>7, <3>2
    <3> QED
      BY <1>3, <3>2, <3>3 DEF Later
  <2>5. \A i \in Ids : i >= next_id' => responses'[i] = 0
    <3>1. next_id > id
      BY <1>1, <1>6, <1>8 DEF Fresh
    <3>2. \A i \in Ids : i >= next_id => responses[i] = 0
      BY <1>6 DEF Fresh
    <3> QED
      BY <1>1, <1>3, <1>4, <1>5, <3>1, <3>2
  <2>6. \A i \in Ids : responses'[i] <= 1
    <3>1. \A i \in Ids : responses[i] <= 1
      BY <1>6 DEF Fresh
    <3> QED
      BY <1>5, <1>6, <3>1
  <2>7. session_request' = NoRequest => request_queue' = <<>>
    BY <1>1, <1>4, <1>7, <1>8, <1>10
  <2>8. \A k, l \in DOMAIN request_queue' :
            k < l /\ request_queue'[k] # TerminateRequest
                  /\ request_queue'[l] # TerminateRequest
               => request_queue'[k].id < request_queue'[l].id
    BY <1>7
  <2> QED
    BY <2>1, <2>2, <2>3, <2>4, <2>5, <2>6, <2>7, <2>8 DEF Fresh
<1> QED
  BY <1>2, <1>11, <1>12, <1>13 DEF ChannelInv

(* The engine answers the STOP of a deactivation: nothing waits any more.  *)
LEMMA StopAnswered ==
    ASSUME NEW c, NEW current, ChannelInv(c), ChannelTypeOK', Internal, ResponseTo({"STOP"}),
           EndByStop(current)
    PROVE  ChannelInv(NoRequest)'
<1>1. active_request.sel = {} /\ deferred = NoRequest /\ session_request = TerminateRequest
  BY DEF ChannelInv, Turns, Internal, Queueing, NoRequest
<1>2. Remaining({}) = <<>>
  BY RemainingIs DEF ChannelInv
<1>3. queue' = <<>> /\ deferred' = NoRequest /\ UNCHANGED <<active, is_pending, crashed>>
  BY <1>1, <1>2 DEF EndByStop
<1>4. /\ active_request' = NoRequest /\ ~active /\ ~active' /\ nested' = FALSE
      /\ UNCHANGED <<session_request, request_queue, next_id, responses>>
  BY <1>3 DEF EndByStop, response_dispatch, OnDeactivate, Internal
<1>5. Held' = {} /\ ~Internal'
  <2>1. DOMAIN queue' = {}
    BY <1>3
  <2> QED
    BY <1>3, <1>4, <2>1 DEF Held, Internal, NoRequest
<1>6. Flight'
  BY <1>4, TakeFlight DEF ResponseTo, ChannelInv
<1>7. Sorted'
  <2>1. DOMAIN queue' = {}
    BY <1>3
  <2> QED
    BY <1>3, <1>5, <2>1 DEF Sorted
<1>8. Turns(NoRequest)'
  BY <1>1, <1>4 DEF Turns, NoRequest, TerminateRequest
<1>9. Order(NoRequest)'
  BY <1>4, <1>5 DEF Order, NoRequest, Queueing
<1>10. Fresh(NoRequest)'
  BY <1>4 DEF Fresh, ChannelInv
<1> QED
  BY <1>6, <1>7, <1>8, <1>9, <1>10, RequestTypes DEF ChannelInv

(* The channel is deactivated: the number of its STOP is free.             *)
LEMMA Deactivated ==
    ASSUME NEW c, ChannelInv(c), ChannelTypeOK', DeactivateChannel(c)
    PROVE  ChannelInv(c)'
<1>1. /\ Out \subseteq Nat /\ session_request.id \in Nat /\ c.id \in Nat
      /\ NoRequest.id = 0 /\ TerminateRequest.id = 0
  BY IdTypes DEF ChannelInv
<1>2. active /\ nested /\ ~Internal /\ c \in Request
  BY DEF DeactivateChannel, ChannelInv, Turns, Internal
<1>3. session_request = TerminateRequest
  BY <1>2 DEF DeactivateChannel, ChannelInv, Turns
<1>4. /\ active' = FALSE /\ nested' = FALSE
      /\ UNCHANGED <<is_pending, queue, session_request, request_queue, deferred, server_in,
                     next_id, responses>>
  BY DEF DeactivateChannel, client_vars
<1>5. Sorted' /\ Held' = Held
  BY <1>4 DEF Sorted, Held, ChannelInv
<1>6. Fresh(c)'
  BY <1>4 DEF Fresh, ChannelInv
<1>7. CASE c = NoRequest
  <2>1. UNCHANGED <<active_request, engine_in>>
    BY <1>7 DEF DeactivateChannel
  <2>2. Flight' /\ Out' = Out
    BY <1>4, <2>1, IdleFlight DEF ChannelInv
  <2>3. active_request = NoRequest \/ active_request.method \in Queueing
    BY <1>2 DEF ChannelInv, Turns, Internal
  <2>4. Turns(c)'
    BY <1>2, <1>3, <1>4, <2>1, <2>2, <2>3 DEF ChannelInv, Turns, NoRequest, TerminateRequest,
       Queueing, Internal
  <2>5. Order(c)'
    BY <1>2, <1>4, <1>5, <2>1, <2>2 DEF ChannelInv, Order
  <2> QED
    BY <1>2, <1>5, <1>6, <2>2, <2>4, <2>5 DEF ChannelInv
<1>8. CASE c # NoRequest
  <2>1. PICK stop : stop = [id |-> c.id + 1, method |-> "STOP", sel |-> {}, kill |-> FALSE]
    OBVIOUS
  <2>2. request_dispatch(stop) /\ stop.id = c.id + 1 /\ stop.method = "STOP" /\ stop.sel = {}
    BY <1>8, <2>1 DEF DeactivateChannel
  <2>3. \A o \in Out : o <= c.id \/ o = 0
    BY <1>1, <1>2, <1>3, <1>8 DEF ChannelInv, Order
  <2>4. stop.id # 0 /\ stop.id \notin Out
    BY <1>1, <2>2, <2>3
  <2>5. Flight' /\ active_request' = stop
    BY <1>4, <2>2, <2>4, DispatchFlight DEF ChannelInv, request_dispatch
  <2>6. deferred' = NoRequest
    BY <1>4, <1>8 DEF ChannelInv, Turns
  <2>7. Internal'
    BY <1>4, <2>2, <2>5 DEF Internal
  <2>8. Turns(c)'
    BY <1>3, <1>4, <2>2, <2>5, <2>6, <2>7 DEF Turns, NoRequest, TerminateRequest
  <2>9. Order(c)'
    BY <2>7 DEF Order
  <2> QED
    BY <1>2, <1>5, <1>6, <2>5, <2>8, <2>9 DEF ChannelInv
<1> QED
  BY <1>7, <1>8

(* A request of the client joins the queue of the session or is served.    *)
LEMMA ClientArrives ==
    ASSUME NEW c, ChannelInv(c), ChannelTypeOK', NEW m \in Request,
           SignalingMessageProcess(m),
           \/ m = TerminateRequest /\ next_id' = next_id
           \/ /\ m.id = next_id /\ next_id \in Ids /\ next_id' = next_id + 1
              /\ m.method # "TERMINATE"
    PROVE  ChannelInv(c)'
<1>1. /\ Out \subseteq Nat /\ Held \subseteq Nat
      /\ session_request.id \in Nat /\ next_id \in Nat
      /\ NoRequest.id = 0 /\ TerminateRequest.id = 0 /\ c.id \in Nat
      /\ TerminateRequest # NoRequest /\ TerminateRequest.method = "TERMINATE"
  BY IdTypes DEF ChannelInv, TerminateRequest, NoRequest
<1>2. /\ ~nested /\ deferred = NoRequest
      /\ UNCHANGED <<active, is_pending, active_request, queue, engine_in, server_in, deferred,
                     responses>>
  BY DEF SignalingMessageProcess, Busy, machine_vars, engine_vars
<1>3. Flight' /\ Out' = Out
  BY <1>2, IdleFlight DEF ChannelInv
<1>4. Held' = Held /\ Internal' = Internal /\ Sorted'
  BY <1>2 DEF Held, Internal, Sorted, ChannelInv
<1>5. Known(c)' = Known(c)
  BY <1>3, <1>4 DEF Known
<1>6. Fresh(c) /\ Turns(c) /\ Order(c) /\ request_queue \in Seq(Request) /\ 0 \notin Out
  BY DEF ChannelInv, ChannelTypeOK, Flight
<1>7. Ids \subseteq Nat \ {0} /\ m.id \in Nat
  BY <1>1, ConstantsAssumption DEF Ids
<1>8. active =>
         /\ Later(next_id, c)
         /\ m # TerminateRequest => m.id < next_id' /\ responses'[m.id] = 0
         /\ \A n \in Nat : n < next_id => n < next_id'
         /\ \A o \in Known(c) : o < next_id'
         /\ \A i \in Ids : i >= next_id' => responses'[i] = 0
  <2>1. active => Later(next_id, c) /\ \A i \in Ids : i >= next_id => responses[i] = 0
    BY <1>6 DEF Fresh
  <2>2. Known(c) \subseteq Nat
    BY <1>1 DEF Known
  <2> QED
    BY <1>1, <1>2, <1>7, <2>1, <2>2 DEF Later
<1>9. CASE session_request # NoRequest
  <2>1. /\ request_queue' = Append(request_queue, m)
        /\ UNCHANGED <<session_request, nested>>
    BY <1>9 DEF SignalingMessageProcess
  <2>2. Turns(c)'
    BY <1>2, <1>3, <1>4, <1>6, <2>1 DEF Turns
  <2>3. Order(c)'
    BY <1>2, <1>3, <1>4, <1>6, <2>1 DEF Order
  <2>4. /\ DOMAIN request_queue = 1..Len(request_queue) /\ Len(request_queue) \in Nat
        /\ DOMAIN request_queue' = 1..(Len(request_queue) + 1)
        /\ \A k \in DOMAIN request_queue : request_queue'[k] = request_queue[k]
        /\ request_queue'[Len(request_queue) + 1] = m
    BY <1>6, <2>1
  <2>5. \A k \in DOMAIN request_queue : request_queue[k].id \in Nat
    BY IdTypes DEF ChannelInv
  <2>6. Fresh(c)'
    <3>1. SUFFICES ASSUME active PROVE Fresh(c)'
      BY <1>2, <1>6, <1>9, <2>1 DEF Fresh
    <3>2. /\ Later(next_id, c)
          /\ \A k \in DOMAIN request_queue : request_queue[k] # TerminateRequest =>
                /\ Later(request_queue[k].id, c) /\ request_queue[k].id < next_id
                /\ responses[request_queue[k].id] = 0 /\ request_queue[k].method # "TERMINATE"
          /\ \A k, l \in DOMAIN request_queue :
                k < l /\ request_queue[k] # TerminateRequest
                      /\ request_queue[l] # TerminateRequest
                   => request_queue[k].id < request_queue[l].id
      BY <1>6, <3>1 DEF Fresh
    <3>3. \A k \in DOMAIN request_queue' : request_queue'[k] # TerminateRequest =>
             /\ Later(request_queue[k].id, c)' /\ request_queue'[k].id < next_id'
             /\ responses'[request_queue'[k].id] = 0
             /\ request_queue'[k].method # "TERMINATE"
      <4> SUFFICES ASSUME NEW k \in DOMAIN request_queue',
                          request_queue'[k] # TerminateRequest
                   PROVE  /\ Later(request_queue[k].id, c)' /\ request_queue'[k].id < next_id'
                          /\ responses'[request_queue'[k].id] = 0
                          /\ request_queue'[k].method # "TERMINATE"
        OBVIOUS
      <4>1. CASE k \in DOMAIN request_queue
        <5>1. PICK n \in Nat : n = request_queue[k].id /\ n = request_queue'[k].id
          BY <2>4, <2>5, <4>1
        <5>2. /\ Later(n, c) /\ n < next_id /\ responses[n] = 0
              /\ request_queue'[k].method # "TERMINATE"
          BY <2>4, <3>2, <4>1, <5>1
        <5> QED
          BY <1>2, <1>5, <1>8, <2>1, <3>1, <5>1, <5>2 DEF Later
      <4>2. CASE k \notin DOMAIN request_queue
        <5>1. request_queue'[k] = m
          BY <2>4, <4>2
        <5>2. m.id = next_id /\ m.method # "TERMINATE"
          BY <5>1
        <5> QED
          BY <1>5, <1>8, <2>1, <3>1, <3>2, <5>1, <5>2 DEF Later
      <4> QED
        BY <4>1, <4>2
    <3>4. \A k, l \in DOMAIN request_queue' :
             k < l /\ request_queue'[k] # TerminateRequest
                   /\ request_queue'[l] # TerminateRequest
                => request_queue'[k].id < request_queue'[l].id
      BY <2>4, <3>2
    <3>5. Later(next_id, c)'
      BY <1>1, <1>5, <1>8, <2>1, <3>1, <3>2 DEF Later
    <3>6. \A i \in Ids : responses'[i] <= 1
      BY <1>2, <1>6 DEF Fresh
    <3>7. session_request'.id \in Out' => session_request'.id \in Ids /\ responses'[session_request'.id] = 0
      BY <1>2, <1>3, <1>6, <2>1, <3>1 DEF Fresh
    <3> QED
      BY <1>2, <1>8, <1>9, <2>1, <3>1, <3>3, <3>4, <3>5, <3>6, <3>7 DEF Fresh
  <2> QED
    BY <1>3, <1>4, <2>2, <2>3, <2>6 DEF ChannelInv
<1>10. CASE session_request = NoRequest
  <2>1. session_request' = m /\ nested' = TRUE /\ request_queue' = request_queue
    BY <1>10 DEF SignalingMessageProcess
  <2>2. active /\ request_queue = <<>> /\ DOMAIN request_queue = {}
    BY <1>1, <1>6, <1>10 DEF Turns, Fresh
  <2>3. m # NoRequest /\ (m.id = 0 \/ m.method = "TERMINATE" => m = TerminateRequest)
    BY <1>1, <1>7
  <2>4. Turns(c)'
    BY <1>2, <1>3, <1>6, <1>10, <2>1, <2>2, <2>3 DEF Turns, Internal
  <2>5. m # TerminateRequest => \A o \in Known(c) : o < m.id
    BY <1>8, <2>2 DEF Later
  <2>6. Order(c)'
    <3>1. SUFFICES ASSUME ~Internal PROVE Order(c)'
      BY <1>4 DEF Order
    <3>2. /\ \A o \in Out, h \in Held : o < h
          /\ active_request.id \notin Held
          /\ active_request.method \in Queueing => \A o \in Out : o <= active_request.id
          /\ c # NoRequest =>
                (\A o \in Out : o <= c.id) /\ c.id \notin Held /\ c.id \notin Out
      BY <1>1, <1>6, <1>10, <3>1 DEF Order
    <3>3. \A h \in Held : m.id = 0 \/ h < m.id
      BY <1>1, <2>5 DEF Known
    <3> QED
      BY <1>2, <1>3, <1>4, <2>1, <3>2, <3>3 DEF Order
  <2>7. Fresh(c)'
    <3>1. m # TerminateRequest => m.id \in Ids /\ responses'[m.id] = 0
      BY <1>8, <2>2
    <3>2. m.id \in Out => m # TerminateRequest
      BY <1>1, <1>6
    <3>3. Later(next_id, c)'
      BY <1>1, <1>5, <1>7, <1>8, <2>1, <2>2 DEF Later
    <3>4. \A i \in Ids : responses'[i] <= 1
      BY <1>2, <1>6 DEF Fresh
    <3> QED
      BY <1>2, <1>3, <1>5, <1>8, <2>1, <2>2, <2>3, <2>5, <3>1, <3>2, <3>3, <3>4 DEF Fresh
  <2> QED
    BY <1>3, <1>4, <2>4, <2>6, <2>7 DEF ChannelInv
<1> QED
  BY <1>9, <1>10

-----------------------------------------------------------------------------
(* The invariant of a channel, step by step.  cur is the in-progress       *)
(* request of the state machine that is built from these steps.            *)

(* The channel starts with nothing said and nothing owed.                  *)
LEMMA InitInv == ChannelInit => ChannelInv(NoRequest)
<1> SUFFICES ASSUME ChannelInit PROVE ChannelInv(NoRequest)
  OBVIOUS
<1>1. ChannelTypeOK /\ NoRequest \in Request
  BY InitType, RequestTypes
<1>2. Out = {} /\ Held = {} /\ NoRequest.id = 0 /\ NoRequest.method = "NONE"
  BY DEF ChannelInit, Out, Held, Answers, NoRequest
<1>3. Flight /\ Sorted
  BY <1>2 DEF ChannelInit, Flight, Sorted, Answers
<1>4. Turns(NoRequest) /\ Order(NoRequest)
  BY <1>2 DEF ChannelInit, Turns, Order, Queueing
<1>5. Known(NoRequest) = {0}
  BY <1>2 DEF Known
<1>6. \A i \in Ids : responses[i] = 0
  BY DEF ChannelInit
<1>7. DOMAIN request_queue = {}
  BY DEF ChannelInit
<1>8. Fresh(NoRequest)
  BY <1>2, <1>5, <1>6, <1>7 DEF ChannelInit, Fresh, Later
<1> QED
  BY <1>1, <1>3, <1>4, <1>8 DEF ChannelInv

(* ChannelInv is about the variables of the channel alone.                 *)
LEMMA StutterInv ==
    ASSUME NEW c, ChannelInv(c), UNCHANGED channel_vars
    PROVE  ChannelInv(c)'
<1>1. /\ UNCHANGED <<active, nested, active_request, session_request, queue, deferred,
                     request_queue, next_id, responses>>
      /\ UNCHANGED <<is_pending, engine_in, server_in>>
  BY DEF channel_vars, machine_vars, session_vars, stack_vars, engine_vars, client_vars
<1>2. ChannelTypeOK'
  BY StutterType DEF ChannelInv
<1>3. Flight' /\ Out' = Out
  BY <1>1, IdleFlight DEF ChannelInv
<1> QED
  BY <1>1, <1>2, <1>3, Consumed

(* A new request is numbered after all the others and its story starts     *)
(* empty.                                                                  *)
LEMMA ClientInv ==
    ASSUME NEW c, ChannelInv(c), ChannelClient
    PROVE  ChannelInv(c)'
<1>1. ChannelTypeOK'
  BY ClientType DEF ChannelInv
<1>2. CASE ClientTerminate
  BY <1>1, <1>2, ClientArrives, RequestTypes DEF ClientTerminate
<1>3. ASSUME NEW method \in ClientMethods, NEW sel \in SUBSET Nat, NEW kill \in BOOLEAN,
             ClientRequest(method, sel, kill)
      PROVE  ChannelInv(c)'
  <2>1. PICK m : m = [id |-> next_id, method |-> method, sel |-> sel, kill |-> kill]
    OBVIOUS
  <2>2. next_id \in Nat
    BY IdTypes DEF ChannelInv
  <2>3. method \in Methods /\ method # "TERMINATE"
    BY ConstantsAssumption DEF Methods, SynthMethods, RecogMethods, RecorderMethods,
       VerifierMethods
  <2>4. m \in Request /\ m.id = next_id /\ m.method # "TERMINATE"
    BY <2>1, <2>2, <2>3 DEF Request
  <2>5. SignalingMessageProcess(m) /\ next_id \in Ids /\ next_id' = next_id + 1
    BY <1>3, <2>1 DEF ClientRequest
  <2> QED
    BY <1>1, <2>4, <2>5, ClientArrives
<1>4. \A method \in ClientMethods :
         \A sel \in (IF method \in Stopping THEN SUBSET (1..(next_id - 1)) ELSE {{}}) :
            sel \in SUBSET Nat
  <2>1. next_id \in Nat
    BY IdTypes DEF ChannelInv
  <2> QED
    BY <2>1
<1>5. \A method \in ClientMethods :
         \A kill \in (IF method = "BARGE-IN-OCCURRED" THEN BOOLEAN ELSE {FALSE}) :
            kill \in BOOLEAN
  OBVIOUS
<1>6. CASE \E method \in ClientMethods :
         \E sel \in (IF method \in Stopping THEN SUBSET (1..(next_id - 1)) ELSE {{}}) :
         \E kill \in (IF method = "BARGE-IN-OCCURRED" THEN BOOLEAN ELSE {FALSE}) :
             ClientRequest(method, sel, kill)
  BY <1>3, <1>4, <1>5, <1>6
<1> QED
  BY <1>2, <1>6 DEF ChannelClient

(* What the engine does before the session hears of it leaves the story as *)
(* it is.                                                                  *)
LEMMA EngineInv ==
    ASSUME NEW c, ChannelInv(c), EngineAnswer \/ EngineComplete \/ EngineMarker
    PROVE  ChannelInv(c)'
<1>1. /\ UNCHANGED <<active, nested, active_request, session_request, queue, deferred,
                     request_queue, next_id, responses>>
      /\ is_pending' = is_pending
  BY DEF EngineAnswer, EngineComplete, EngineMarker, EngineRespond, EngineFinish, EngineMark,
     machine_vars, session_vars, stack_vars, client_vars
<1>2. ChannelTypeOK'
  BY EngineType DEF ChannelInv
<1>3. Flight' /\ Out' = Out
  BY EngineFlight DEF ChannelInv
<1> QED
  BY <1>1, <1>2, <1>3, Consumed

(* Deactivation asks for the end of the current request with the internal  *)
(* STOP, or for nothing.                                                   *)
LEMMA DeactivateInv ==
    ASSUME NEW c, ChannelInv(c), DeactivateChannel(c)
    PROVE  ChannelInv(c)'
<1>1. ChannelTypeOK'
  BY DeactivateType DEF ChannelInv
<1> QED
  BY <1>1, Deactivated

(* The handler of a request of the client.                                 *)
LEMMA HandledIs ==
    ASSUME NEW c, ChannelInv(c), nested, session_request.method \in Methods
    PROVE  /\ active /\ session_request \in MrcpRequest /\ session_request # TerminateRequest
           /\ session_request.id \in Ids /\ responses[session_request.id] = 0
           /\ session_request.id \notin Out /\ session_request.id \notin Held
           /\ \A o \in Out \cup Held \cup {c.id} : o < session_request.id
<1>1. active /\ session_request \in Request
  BY DEF ChannelInv, Turns, ChannelTypeOK
<1>2. session_request # TerminateRequest
  BY DEF TerminateRequest, Methods, SynthMethods, RecogMethods, RecorderMethods,
     VerifierMethods
<1>3. /\ \A o \in Out \cup Held \cup {c.id} : o < session_request.id
      /\ session_request.id \in Ids /\ responses[session_request.id] = 0
  BY <1>1, <1>2 DEF ChannelInv, Fresh, Known
<1>4. ~(session_request.id < session_request.id)
  BY IdTypes DEF ChannelInv
<1> QED
  BY <1>1, <1>2, <1>3, <1>4 DEF MrcpRequest

(* A request that is answered at once, with some pending requests removed. *)
LEMMA RespondInv ==
    ASSUME NEW c, ChannelInv(c), nested, session_request.method \in Methods,
           NEW rstate, NEW ended, RespondAndReturn(session_request.id, rstate, ended),
           ChannelTypeOK', active' = active, Sorted',
           Held' \subseteq Held \cup {session_request.id}
    PROVE  ChannelInv(c)'
<1>1. PICK id : id = session_request.id
  OBVIOUS
<1>2. /\ active /\ id \in Ids /\ responses[id] = 0 /\ id \notin Out
      /\ (\A o \in Out : o < id) /\ c.id < id
  BY <1>1, HandledIs
<1>3. response_dispatch(id, rstate, ended) /\ UNCHANGED <<deferred, engine_in, server_in>>
  BY <1>1 DEF RespondAndReturn, engine_vars
<1>4. active_request' = NoRequest
  BY <1>3 DEF response_dispatch
<1>5. Flight' /\ Out' = Out
  BY <1>3, <1>4, IdleFlight DEF ChannelInv
<1>6. Out' = Out \ {id} /\ c.id # id
  <2>1. c.id \in Nat
    BY IdTypes DEF ChannelInv
  <2> QED
    BY <1>2, <1>5, <2>1
<1>7. deferred' # NoRequest => c = NoRequest
  BY <1>3 DEF ChannelInv, Turns
<1> QED
  BY <1>1, <1>2, <1>3, <1>5, <1>6, <1>7, SessionAnswered

(* A request handed to the engine or answered by the state machine itself. *)
LEMMA ForwardOrRespondInv ==
    ASSUME NEW c, ChannelInv(c), nested, session_request.method \in Methods,
           NEW forward, ForwardOrRespond(forward)
    PROVE  ChannelInv(c)'
<1>1. session_request \in MrcpRequest /\ session_request # TerminateRequest
  BY HandledIs
<1>2. ChannelTypeOK'
  BY <1>1, ForwardOrRespondType DEF ChannelInv
<1>3. CASE forward
  BY <1>1, <1>2, <1>3, SessionDispatched DEF ForwardOrRespond
<1>4. CASE ~forward
  <2>1. /\ RespondAndReturn(session_request.id, "COMPLETE", {})
        /\ UNCHANGED <<active, is_pending, queue, deferred>>
    BY <1>4 DEF ForwardOrRespond, RespondAndReturn
  <2>2. Held' = Held /\ Sorted'
    BY <2>1 DEF Held, Sorted, ChannelInv
  <2> QED
    BY <1>2, <2>1, <2>2, RespondInv
<1> QED
  BY <1>3, <1>4

(* A request that is started, or answered PENDING and queued when the      *)
(* channel is occupied.                                                    *)
LEMMA StartOrQueueInv ==
    ASSUME NEW c, ChannelInv(c), nested, session_request.method \in Queueing,
           NEW occupied, StartOrQueue(occupied), occupied => c # NoRequest
    PROVE  ChannelInv(c)'
<1>0. session_request.method \in Methods
  BY DEF Queueing, Methods, SynthMethods, RecogMethods
<1>1. /\ session_request \in MrcpRequest /\ session_request # TerminateRequest
      /\ session_request.id \in Ids
      /\ \A o \in Held : o < session_request.id
  BY <1>0, HandledIs
<1>2. session_request \in QueuedRequest
  BY <1>1 DEF MrcpRequest, QueuedRequest
<1>3. ChannelTypeOK'
  BY <1>2, StartOrQueueType DEF ChannelInv
<1>4. CASE ~occupied
  BY <1>1, <1>3, <1>4, SessionDispatched DEF StartOrQueue
<1>5. CASE occupied
  <2>1. /\ queue' = Append(queue, session_request)
        /\ RespondAndReturn(session_request.id, "PENDING", {})
        /\ UNCHANGED <<active, is_pending, deferred>>
    BY <1>5 DEF StartOrQueue, RespondAndReturn
  <2>2. deferred = NoRequest
    BY <1>5 DEF ChannelInv, Turns
  <2>3. queue \in Seq(QueuedRequest)
    BY DEF ChannelInv, ChannelTypeOK
  <2>4. /\ DOMAIN queue = 1..Len(queue) /\ Len(queue) \in Nat
        /\ DOMAIN queue' = 1..(Len(queue) + 1)
        /\ \A k \in DOMAIN queue : queue'[k] = queue[k]
        /\ queue'[Len(queue) + 1] = session_request
    BY <2>1, <2>3
  <2>5. Held = {queue[k].id : k \in DOMAIN queue}
    BY <2>2 DEF Held
  <2>6. Held' = {queue'[k].id : k \in DOMAIN queue'}
    BY <2>1, <2>2 DEF Held
  <2>7. Held' \subseteq Held \cup {session_request.id}
    BY <2>4, <2>5, <2>6
  <2>8. 0 \notin Held'
    BY <1>1, <2>7, ConstantsAssumption DEF ChannelInv, Sorted, Ids
  <2>9. \A k, l \in DOMAIN queue' : k < l => queue'[k].id < queue'[l].id
    <3>1. \A k, l \in DOMAIN queue : k < l => queue[k].id < queue[l].id
      BY DEF ChannelInv, Sorted
    <3>2. \A k \in DOMAIN queue : queue[k].id < session_request.id
      BY <1>1, <2>5
    <3> QED
      BY <2>4, <3>1, <3>2
  <2>10. Sorted'
    BY <2>1, <2>2, <2>8, <2>9 DEF Sorted
  <2> QED
    BY <1>0, <1>3, <2>1, <2>7, <2>10, RespondInv
<1> QED
  BY <1>4, <1>5

(* Removing requests from the queue leaves the others in order.            *)
LEMMA RemainingHeld ==
    ASSUME ChannelTypeOK, Sorted, NEW sel, queue' = Remaining(sel), deferred' = deferred
    PROVE  Sorted' /\ Held' \subseteq Held
<1>1. /\ \A k \in DOMAIN queue' : \E i \in DOMAIN queue : queue'[k] = queue[i]
      /\ \A k, l \in DOMAIN queue' : k < l => queue'[k].id < queue'[l].id
  BY RemainingIs
<1>2. Held' \subseteq Held
  BY <1>1 DEF Held
<1>3. deferred # NoRequest => \A k \in DOMAIN queue' : deferred.id < queue'[k].id
  BY <1>1 DEF Sorted
<1> QED
  BY <1>1, <1>2, <1>3 DEF Sorted

(* STOP: forwarded, or the selected pending requests are unlinked and the  *)
(* client answered.                                                        *)
LEMMA StopOrRemoveInv ==
    ASSUME NEW c, ChannelInv(c), nested, session_request.method \in Methods,
           NEW forward, StopOrRemove(forward)
    PROVE  ChannelInv(c)'
<1>1. session_request \in MrcpRequest /\ session_request # TerminateRequest
  BY HandledIs
<1>2. ChannelTypeOK'
  BY <1>1, StopOrRemoveType DEF ChannelInv
<1>3. CASE forward
  BY <1>1, <1>2, <1>3, SessionDispatched DEF StopOrRemove
<1>4. CASE ~forward
  <2>1. /\ RespondAndReturn(session_request.id, "COMPLETE",
                            RemovedIds(session_request.sel))
        /\ queue' = Remaining(session_request.sel)
        /\ UNCHANGED <<active, is_pending, deferred>>
    BY <1>4 DEF StopOrRemove, RespondAndReturn
  <2>2. Sorted' /\ Held' \subseteq Held
    BY <2>1, RemainingHeld DEF ChannelInv
  <2>3. PICK ended : ended = RemovedIds(session_request.sel)
    OBVIOUS
  <2> QED
    BY <1>2, <2>1, <2>2, <2>3, RespondInv
<1> QED
  BY <1>3, <1>4

(* A response that is accepted answers the request it names: the one of    *)
(* the session, one that was pending, or the STOP of a deactivation.       *)
LEMMA AcceptedIs ==
    ASSUME NEW c, ChannelInv(c), NEW methods, ResponseTo(methods)
    PROVE  /\ ~nested /\ deferred = NoRequest
           /\ engine_in' = engine_in /\ TakeEngineMessage
           /\ active_request.id = Received.id /\ active_request.id \in Out
           /\ Out' = Out \ {active_request.id}
           /\ active_request.method = Received.method /\ active_request.method \in methods
           /\ \/ /\ active /\ active_request = session_request
                 /\ active_request.id \in Ids /\ responses[active_request.id] = 0
              \/ active_request.method \in Queueing /\ is_pending
              \/ Internal
<1>1. /\ ~nested /\ deferred = NoRequest /\ engine_in' = engine_in /\ TakeEngineMessage
      /\ Received.kind = "response" /\ Received.method \in methods
      /\ active_request # NoRequest /\ active_request.id = Received.id
  BY DEF ResponseTo, TakeEngineMessage, Busy, Expected
<1>2. Received \in Answers /\ Received.id \in Out /\ Out' = Out \ {Received.id}
  BY <1>1, TakeIs DEF ChannelInv
<1>3. active_request.method = Received.method
  BY <1>1, <1>2 DEF ChannelInv, Flight
<1>4. \/ active /\ active_request = session_request
      \/ active_request.method \in Queueing /\ is_pending
      \/ Internal
  BY <1>1, <1>2 DEF ChannelInv, Turns
<1>5. active /\ session_request.id \in Out =>
         session_request.id \in Ids /\ responses[session_request.id] = 0
  BY DEF ChannelInv, Fresh
<1> QED
  BY <1>1, <1>2, <1>3, <1>4, <1>5

(* The response to the request of the session goes to the client; what is  *)
(* in progress stays, ends, or starts with that request.                   *)
LEMMA AnsweredInv ==
    ASSUME NEW c, NEW d, ChannelInv(c), NEW methods, ResponseTo(methods),
           methods \cap Queueing = {} \/ ~is_pending, active, ChannelTypeOK',
           NEW rstate, NEW ended, response_dispatch(Received.id, rstate, ended),
           active' = active, Sorted', Held' \subseteq Held,
           \/ d = NoRequest
           \/ d = c /\ deferred' = deferred
           \/ d = active_request /\ methods \subseteq Queueing /\ deferred' = deferred
    PROVE  ChannelInv(d)'
<1>1. /\ deferred = NoRequest /\ engine_in' = engine_in /\ TakeEngineMessage
      /\ active_request.id = Received.id /\ active_request.id \in Out
      /\ Out' = Out \ {active_request.id} /\ active_request.method \in methods
      /\ active_request = session_request
      /\ active_request.id \in Ids /\ responses[active_request.id] = 0
  <2>1. ~Internal
    BY DEF Internal
  <2> QED
    BY <2>1, AcceptedIs
<1>2. PICK id : id = Received.id
  OBVIOUS
<1>3. active_request' = NoRequest
  BY DEF response_dispatch
<1>4. Flight'
  BY <1>1, <1>3, TakeFlight DEF ChannelInv
<1>5. id \notin Held'
  <2>1. ~Internal
    BY DEF Internal
  <2> QED
    BY <1>1, <1>2, <2>1 DEF ChannelInv, Order
<1>6. /\ id \in Ids /\ id = session_request.id /\ responses[id] = 0
      /\ response_dispatch(id, rstate, ended) /\ Out' = Out \ {id}
  BY <1>1, <1>2
<1>7. d = active_request => active_request.method \in Queueing \/ d = NoRequest \/ d = c
  BY <1>1
<1> QED
  BY <1>1, <1>4, <1>5, <1>6, <1>7, SessionAnswered

(* A response that is passed on answers the request of the session.        *)
LEMMA PassOnInv ==
    ASSUME NEW c, NEW d, ChannelInv(c), NEW methods, ResponseTo(methods),
           methods \cap Queueing = {} \/ ~is_pending, "STOP" \notin methods,
           NEW rstate \in Views, PassOn(rstate),
           d = c \/ (d = active_request /\ methods \subseteq Queueing)
    PROVE  ChannelInv(d)' /\ active /\ active_request = session_request
<1>1. ChannelTypeOK'
  BY PassOnType DEF ChannelInv
<1>2. active /\ active_request = session_request
  BY AcceptedIs DEF Internal
<1>3. /\ response_dispatch(Received.id, rstate, {})
      /\ UNCHANGED <<active, queue, deferred>>
  BY DEF PassOn
<1>4. Sorted' /\ Held' = Held
  BY <1>3 DEF Sorted, Held, ChannelInv
<1> QED
  BY <1>1, <1>2, <1>3, <1>4, AnsweredInv

(* The response to STOP: nothing is in progress any more.                  *)
LEMMA EndByStopInv ==
    ASSUME NEW c, ChannelInv(c), ResponseTo({"STOP"}), NEW current, EndByStop(current)
    PROVE  ChannelInv(NoRequest)'
<1>1. ChannelTypeOK'
  BY EndByStopType DEF ChannelInv
<1>2. CASE Internal
  BY <1>1, <1>2, StopAnswered
<1>3. CASE ~Internal
  <2>1. active /\ deferred = NoRequest
    BY <1>3, AcceptedIs DEF Queueing
  <2>2. PICK rest : rest = Remaining(active_request.sel)
    OBVIOUS
  <2>3. PICK ended : ended = {current.id} \cup RemovedIds(active_request.sel)
    OBVIOUS
  <2>4. /\ response_dispatch(Received.id, "COMPLETE", ended)
        /\ active' = active
        /\ IF rest = <<>> THEN queue' = <<>> /\ deferred' = deferred
           ELSE queue' = Tail(rest) /\ deferred' = Head(rest)
    BY <2>2, <2>3 DEF EndByStop
  <2>5. /\ rest \in Seq(QueuedRequest)
        /\ \A k \in DOMAIN rest : \E i \in DOMAIN queue : rest[k] = queue[i]
        /\ \A k, l \in DOMAIN rest : k < l => rest[k].id < rest[l].id
    BY <2>2, RemainingIs DEF ChannelInv
  <2>6. \A k \in DOMAIN queue : queue[k].id \in Held
    BY DEF Held
  <2>7. Held' \subseteq Held /\ Sorted'
    <3>1. CASE rest = <<>>
      <4>1. DOMAIN queue' = {} /\ deferred' = NoRequest
        BY <2>1, <2>4, <3>1
      <4>2. Held' = {}
        BY <4>1 DEF Held
      <4> QED
        BY <4>1, <4>2 DEF Sorted
    <3>2. CASE rest # <<>>
      <4>1. /\ DOMAIN rest = 1..Len(rest) /\ 1 \in DOMAIN rest /\ Len(rest) \in Nat
            /\ DOMAIN queue' = 1..(Len(rest) - 1) /\ deferred' = rest[1]
            /\ \A k \in DOMAIN queue' : k + 1 \in DOMAIN rest /\ queue'[k] = rest[k + 1]
        BY <2>4, <2>5, <3>2
      <4>2. Held' \subseteq Held
        BY <2>5, <2>6, <4>1 DEF Held
      <4>3. \A k, l \in DOMAIN queue' : k < l => queue'[k].id < queue'[l].id
        BY <2>5, <4>1
      <4>4. \A k \in DOMAIN queue' : deferred'.id < queue'[k].id
        BY <2>5, <4>1
      <4>5. 0 \notin Held'
        BY <4>2 DEF ChannelInv, Sorted
      <4> QED
        BY <4>2, <4>3, <4>4, <4>5 DEF Sorted
    <3> QED
      BY <3>1, <3>2
  <2>8. {"STOP"} \cap Queueing = {}
    BY DEF Queueing
  <2> QED
    BY <1>1, <2>1, <2>4, <2>7, <2>8, AnsweredInv
<1> QED
  BY <1>2, <1>3

(* The response to a barge-in, which leaves what stays pending queued.     *)
LEMMA EndByBargeInInv ==
    ASSUME NEW c, ChannelInv(c), ResponseTo({"BARGE-IN-OCCURRED"}), NEW ended,
           response_dispatch(Received.id, "COMPLETE", ended),
           queue' = Remaining(active_request.sel),
           UNCHANGED <<active, is_pending, deferred, crashed>>
    PROVE  ChannelInv(NoRequest)'
<1>1. Sorted' /\ Held' \subseteq Held
  <2>1. PICK sel : sel = active_request.sel
    OBVIOUS
  <2> QED
    BY <2>1, RemainingHeld DEF ChannelInv
<1>2. queue' \in Seq(QueuedRequest) /\ deferred' \in QueuedRequest \cup {NoRequest}
  BY RemainingType DEF ChannelInv, ChannelTypeOK
<1>3. ChannelTypeOK'
  BY <1>2, AnswerType, ViewTypes DEF ChannelInv
<1>4. active
  BY AcceptedIs DEF Queueing, Internal
<1>5. {"BARGE-IN-OCCURRED"} \cap Queueing = {}
  BY DEF Queueing
<1> QED
  BY <1>1, <1>3, <1>4, <1>5, AnsweredInv

(* The response to a request that was pending is not sent on.              *)
LEMMA PendingInv ==
    ASSUME NEW c, NEW d, ChannelInv(c), NEW methods \in SUBSET Queueing, ResponseTo(methods),
           is_pending, ChannelTypeOK', d = c \/ d = active_request,
           UNCHANGED <<active, nested, active_request, session_request, queue, deferred,
                       request_queue, next_id, responses>>
    PROVE  ChannelInv(d)'
<1>1. /\ deferred = NoRequest /\ engine_in' = engine_in /\ TakeEngineMessage
      /\ active_request.id \in Out /\ Out' = Out \ {active_request.id}
      /\ active_request.method \in Queueing
  BY AcceptedIs
<1>2. Flight'
  BY <1>1, TakeFlight DEF ChannelInv
<1> QED
  BY <1>1, <1>2, Consumed

(* A message is taken that changes nothing in the channel.                 *)
LEMMA TakenInv ==
    ASSUME NEW c, NEW d, ChannelInv(c), TakeEngineMessage, ChannelTypeOK',
           d = c \/ d = NoRequest,
           UNCHANGED <<active, nested, active_request, session_request, queue, deferred,
                       request_queue, next_id, responses>>,
           UNCHANGED <<is_pending, engine_in>>
    PROVE  ChannelInv(d)'
<1>1. Flight'
  BY TakeFlight DEF ChannelInv
<1>2. Out' \subseteq Out
  BY TakeIs DEF ChannelInv
<1> QED
  BY <1>1, <1>2, Consumed

(* A response that no handler takes changes nothing the invariant is       *)
(* about.                                                                  *)
LEMMA IgnoreInv ==
    ASSUME NEW c, ChannelInv(c), IgnoreResponse
    PROVE  ChannelInv(c)'
<1>1. ChannelTypeOK'
  BY IgnoreType DEF ChannelInv
<1> QED
  BY <1>1, TakenInv DEF IgnoreResponse, machine_vars, session_vars, stack_vars, client_vars

(* The handler that dereferences NULL stops the process: nothing follows.  *)
LEMMA NullInv ==
    ASSUME NEW c, ChannelInv(c), NEW methods, ResponseTo(methods), NullDereference
    PROVE  ChannelInv(c)'
<1>1. ChannelTypeOK'
  BY NullType DEF ChannelInv
<1> QED
  BY <1>1, TakenInv DEF ResponseTo, NullDereference, machine_vars, session_vars, client_vars

(* An event passed on to the client or dropped by the state machine.       *)
LEMMA TellClientInv ==
    ASSUME NEW c, ChannelInv(c), NEW name, EventNamed(name), NEW passed,
           NEW rstate \in Views, TellClient(passed, rstate)
    PROVE  ChannelInv(c)'
<1>1. ChannelTypeOK'
  BY TellClientType DEF ChannelInv
<1>2. /\ UNCHANGED <<active, nested, session_request, deferred, request_queue>>
      /\ UNCHANGED <<is_pending, active_request, queue, engine_in>>
      /\ UNCHANGED <<next_id, responses>>
  BY DEF EventNamed, TellClient, event_dispatch, session_vars, stack_vars, client_vars
<1> QED
  BY <1>1, <1>2, TakenInv DEF EventNamed

(* The first of the requests that wait goes to the engine.                 *)
LEMMA DeferredInv ==
    ASSUME NEW c, ChannelInv(c), DispatchDeferred
    PROVE  ChannelInv(NoRequest)'
<1>1. ChannelTypeOK'
  BY DeferredType DEF ChannelInv
<1>2. /\ deferred # NoRequest /\ ~nested /\ is_pending' = TRUE /\ request_dispatch(deferred)
      /\ deferred' = NoRequest /\ active_request' = deferred
      /\ UNCHANGED <<active, nested, session_request, request_queue, next_id, responses>>
      /\ UNCHANGED <<queue, server_in>>
  BY DEF DispatchDeferred, request_dispatch, session_vars, client_vars
<1>3. PICK h : h = deferred.id
  OBVIOUS
<1>4. deferred.method \in Queueing
  BY <1>2, RequestTypes DEF ChannelInv, ChannelTypeOK
<1>5. ~Internal
  BY <1>2 DEF ChannelInv, Turns, Internal, NoRequest, Queueing
<1>6. /\ h \in Held /\ Held' = Held \ {h}
      /\ (\A g \in Held' : h < g) /\ Sorted'
  <2>1. /\ 0 \notin Held
        /\ \A k, l \in DOMAIN queue : k < l => queue[k].id < queue[l].id
        /\ \A k \in DOMAIN queue : h < queue[k].id
    BY <1>2, <1>3 DEF ChannelInv, Sorted
  <2>2. Held = {queue[k].id : k \in DOMAIN queue} \cup {h}
    BY <1>2, <1>3 DEF Held
  <2>3. Held' = {queue[k].id : k \in DOMAIN queue}
    BY <1>2 DEF Held
  <2>4. h \in Nat
    BY <2>2, IdTypes DEF ChannelInv
  <2>5. h \notin Held'
    BY <2>1, <2>3, <2>4
  <2>6. 0 \notin Held'
    BY <2>1, <2>2, <2>3
  <2> QED
    BY <1>2, <2>1, <2>2, <2>3, <2>5, <2>6 DEF Sorted
<1>7. h # 0 /\ h \notin Out
  <2>1. /\ \A o \in Out : o < h \/ o = session_request.id
        /\ session_request.id = 0 \/ h < session_request.id
    BY <1>5, <1>6 DEF ChannelInv, Order
  <2>2. h \in Nat /\ session_request.id \in Nat /\ 0 \notin Out /\ h # 0
    BY <1>6, IdTypes DEF ChannelInv, Flight, Sorted
  <2> QED
    BY <2>1, <2>2
<1>8. Flight' /\ Out' = Out \cup {h}
  BY <1>2, <1>3, <1>7, DispatchFlight DEF ChannelInv
<1> QED
  BY <1>1, <1>2, <1>3, <1>4, <1>5, <1>6, <1>8, HeldDispatched

(* Taking an event while a request goes to the engine.                     *)
LEMMA EventDispatchFlight ==
    ASSUME ChannelTypeOK, Flight, TakeEngineMessage, Received.kind # "response",
           NEW m, m.id # 0, m.id \notin Out, request_dispatch(m)
    PROVE  Flight' /\ Out' = Out \cup {m.id}
<1>1. server_in \in Seq(EngineMessage) /\ server_in # <<>> /\ server_in' = Tail(server_in)
  BY DEF ChannelTypeOK, TakeEngineMessage
<1>2. /\ 1 \in DOMAIN server_in /\ Received = server_in[1]
      /\ DOMAIN server_in' = 1..(Len(server_in) - 1) /\ Len(server_in) \in Nat
  BY <1>1 DEF Received
<1>3. \A k \in DOMAIN server_in' :
         k + 1 \in DOMAIN server_in /\ server_in'[k] = server_in[k + 1]
  BY <1>1
<1>4. \A k \in DOMAIN server_in : k # 1 =>
         k - 1 \in DOMAIN server_in' /\ server_in'[k - 1] = server_in[k]
  BY <1>1
<1>5. Answers' = Answers
  <2>1. Answers' \subseteq Answers
    BY <1>3 DEF Answers
  <2>2. Answers \subseteq Answers'
    BY <1>2, <1>4 DEF Answers
  <2> QED
    BY <2>1, <2>2
<1>6. \A k, l \in DOMAIN server_in' : k # l => k + 1 # l + 1
  BY <1>2
<1>7. \A k, l \in DOMAIN server_in' :
         server_in'[k].kind = "response" /\ server_in'[l].kind = "response" /\ k # l
            => server_in'[k].id # server_in'[l].id
  BY <1>3, <1>6 DEF Flight
<1>8. active_request' = m /\ engine_in' = engine_in \cup {m}
  BY DEF request_dispatch
<1>9. (\A r \in engine_in : r.id # m.id) /\ (\A n \in Answers : n.id # m.id)
  BY DEF Out
<1>10. Out' = {r.id : r \in engine_in'} \cup {n.id : n \in Answers}
  BY <1>5 DEF Out
<1>11. Out' = Out \cup {m.id}
  BY <1>8, <1>10 DEF Out
<1>12. 0 \notin Out'
  BY <1>11 DEF Flight
<1> QED
  BY <1>5, <1>7, <1>8, <1>9, <1>11, <1>12 DEF Flight

(* The in-progress request completes.                                      *)
LEMMA CompleteInv ==
    ASSUME NEW c, ChannelInv(c), NEW name, EventNamed(name), ~Internal, CompleteAndNext
    PROVE  ChannelInv(NoRequest)'
<1>1. ChannelTypeOK'
  BY CompleteType DEF ChannelInv
<1>2. /\ UNCHANGED <<active, nested, session_request, request_queue, next_id, responses>>
      /\ TakeEngineMessage /\ Received.kind # "response"
      /\ deferred = NoRequest /\ ~nested /\ deferred' = deferred
  BY DEF EventNamed, CompleteAndNext, event_dispatch, session_vars, stack_vars,
     TakeEngineMessage, Busy
<1>3. CASE queue = <<>>
  <2>1. UNCHANGED <<queue, is_pending, active_request, engine_in>>
    BY <1>3 DEF CompleteAndNext
  <2> QED
    BY <1>1, <1>2, <2>1, TakenInv
<1>4. CASE queue # <<>>
  <2>1. queue' = Tail(queue) /\ is_pending' = TRUE /\ request_dispatch(Head(queue))
    BY <1>4 DEF CompleteAndNext
  <2>2. queue \in Seq(QueuedRequest)
    BY DEF ChannelInv, ChannelTypeOK
  <2>3. PICK m : m = Head(queue)
    OBVIOUS
  <2>4. PICK h : h = m.id
    OBVIOUS
  <2>5. /\ 1 \in DOMAIN queue /\ m = queue[1] /\ m \in QueuedRequest
        /\ DOMAIN queue = 1..Len(queue) /\ Len(queue) \in Nat
        /\ DOMAIN queue' = 1..(Len(queue) - 1)
        /\ \A k \in DOMAIN queue' :
              k + 1 \in DOMAIN queue /\ k + 1 > 1 /\ queue'[k] = queue[k + 1]
        /\ \A k \in DOMAIN queue : k # 1 =>
              k > 1 /\ k - 1 \in DOMAIN queue' /\ queue'[k - 1] = queue[k]
    BY <1>4, <2>1, <2>2, <2>3
  <2>6. m.method \in Queueing /\ active_request' = m
    BY <2>1, <2>3, <2>5, RequestTypes DEF request_dispatch
  <2>7. /\ Held = {queue[k].id : k \in DOMAIN queue}
        /\ Held' = {queue'[k].id : k \in DOMAIN queue'}
    BY <1>2 DEF Held
  <2>8. /\ 0 \notin Held
        /\ \A k, l \in DOMAIN queue : k < l => queue[k].id < queue[l].id
    BY DEF ChannelInv, Sorted
  <2>9. h \in Held /\ h \in Nat
    BY <2>4, <2>5, <2>7, IdTypes DEF ChannelInv
  <2>10. \A g \in Held' : h < g
    BY <2>4, <2>5, <2>7, <2>8
  <2>11. Held' = Held \ {h}
    <3>1. h \notin Held'
      BY <2>9, <2>10
    <3>2. \A g \in Held' : g \in Held
      BY <2>5, <2>7
    <3>3. \A g \in Held : g = h \/ g \in Held'
      BY <2>4, <2>5, <2>7
    <3> QED
      BY <3>1, <3>2, <3>3
  <2>12. Sorted'
    <3>1. \A k, l \in DOMAIN queue' : k < l => queue'[k].id < queue'[l].id
      BY <2>5, <2>8
    <3> QED
      BY <1>2, <2>8, <2>11, <3>1 DEF Sorted
  <2>13. h # 0 /\ h \notin Out
    <3>1. /\ \A o \in Out : o < h \/ o = session_request.id
          /\ session_request.id = 0 \/ h < session_request.id
      BY <2>9 DEF ChannelInv, Order
    <3>2. session_request.id \in Nat /\ 0 \notin Out /\ h # 0
      BY <2>8, <2>9, IdTypes DEF ChannelInv, Flight
    <3> QED
      BY <2>9, <3>1, <3>2
  <2>14. Flight' /\ Out' = Out \cup {h}
    BY <1>2, <2>1, <2>3, <2>4, <2>13, EventDispatchFlight DEF ChannelInv
  <2> QED
    BY <1>1, <1>2, <2>1, <2>4, <2>6, <2>9, <2>10, <2>11, <2>12, <2>14, HeldDispatched
<1> QED
  BY <1>3, <1>4

(* What the invariant says of the responses in flight and of the client.   *)
LEMMA InvImplies ==
    ASSUME NEW c, ChannelInv(c)
    PROVE  ResponseMatchesRequest /\ AtMostOneResponse
<1>1. ResponseMatchesRequest
  BY DEF ChannelInv, Flight, Answers, ResponseMatchesRequest
<1>2. AtMostOneResponse
  BY DEF ChannelInv, Fresh, AtMostOneResponse
<1> QED
  BY <1>1, <1>2

-----------------------------------------------------------------------------
(* What the client has been told.                                          *)

(* A request that is not yet sent, waits in the session, is in flight,     *)
(* waits in the state machine or is in progress: `told' is what the client *)
(* may believe of the last one.                                            *)
ViewInv(cur, told) ==
    /\ \A i \in Ids : i >= next_id => view[i] = "unsent"
    /\ cur # NoRequest => cur.id # 0
    /\ active =>
        /\ \A o \in Out : view[o] \in {"sent", "PENDING"}
        /\ \A h \in Held : view[h] = "PENDING"
        /\ cur # NoRequest => view[cur.id] \in told
        /\ (nested /\ session_request # TerminateRequest) \/ session_request.id \in Out
              => view[session_request.id] = "sent"
        /\ \A k \in DOMAIN request_queue : request_queue[k] # TerminateRequest =>
              view[request_queue[k].id] = "sent"

(* A step takes back nothing that the client was told.                     *)
Forward == \A i \in Ids : Rank(view[i]) <= Rank(view'[i])

(* Ranks compare.                                                          *)
LEMMA ForwardSteps ==
    ASSUME ChannelTypeOK,
           \A i \in Ids : \/ view'[i] = view[i]
                          \/ view'[i] = "COMPLETE"
                          \/ view'[i] = "IN-PROGRESS" /\ view[i] # "COMPLETE"
                          \/ view'[i] = "PENDING" /\ view[i] = "sent"
                          \/ view'[i] = "sent" /\ view[i] = "unsent"
    PROVE  Forward
<1>1. \A i \in Ids : view[i] \in Views
  BY DEF ChannelTypeOK
<1>2. /\ Rank("unsent") = 0 /\ Rank("sent") = 1 /\ Rank("PENDING") = 2
      /\ Rank("IN-PROGRESS") = 3 /\ Rank("COMPLETE") = 4
  BY DEF Rank
<1>3. \A v \in Views : v \in {"unsent", "sent", "PENDING", "IN-PROGRESS", "COMPLETE"}
  BY DEF Views
<1>4. \A v \in Views : Rank(v) \in 0..4 /\ (v # "COMPLETE" => Rank(v) <= 3)
  BY <1>2, <1>3
<1> HIDE DEF Rank
<1> QED
  BY <1>1, <1>2, <1>4 DEF Forward

(* The ids of an active channel are ids of requests the client has sent,   *)
(* and what is in flight does not wait.                                    *)
LEMMA KnownIs ==
    ASSUME NEW c, ChannelInv(c), active
    PROVE  /\ \A o \in Out \cup Held : o \in Ids /\ o < next_id
           /\ c.id # 0 => c.id \in Ids /\ c.id < next_id
           /\ session_request.id # 0 => session_request.id \in Ids /\ session_request.id < next_id
           /\ \A k \in DOMAIN request_queue : request_queue[k] # TerminateRequest =>
                 /\ request_queue[k].id \in Ids /\ request_queue[k].id < next_id
                 /\ request_queue[k].id > session_request.id
                 /\ \A o \in Out \cup Held \cup {c.id} : o < request_queue[k].id
           /\ Out \cap Held = {}
           /\ c # NoRequest => c.id \notin Out /\ c.id \notin Held
           /\ active_request.id \notin Held
<1>1. /\ Out \subseteq Nat /\ Held \subseteq Nat
      /\ session_request.id \in Nat /\ next_id \in Nat /\ c.id \in Nat
      /\ \A k \in DOMAIN request_queue : request_queue[k].id \in Nat
  BY IdTypes DEF ChannelInv
<1>2. 0 \notin Out /\ 0 \notin Held
  BY DEF ChannelInv, Flight, Sorted
<1>3. \A i \in Nat : i > 0 /\ i < next_id => i \in Ids
  BY ConstantsAssumption DEF Ids, ChannelInv, ChannelTypeOK
<1>4. /\ Later(next_id, c)
      /\ \A k \in DOMAIN request_queue : request_queue[k] # TerminateRequest =>
            Later(request_queue[k].id, c) /\ request_queue[k].id < next_id
  BY DEF ChannelInv, Fresh
<1>5. ~Internal
  BY DEF Internal
<1>6. /\ \A o \in Out, h \in Held : o < h \/ o = session_request.id
      /\ \A h \in Held : session_request.id = 0 \/ h < session_request.id
      /\ active_request.id \notin Held
      /\ c # NoRequest => c.id \notin Held /\ c.id \notin Out
  BY <1>5 DEF ChannelInv, Order
<1>7. \A o \in Out \cup Held \cup {c.id, session_request.id} : o < next_id
  BY <1>4 DEF Later, Known
<1>8. Out \cap Held = {}
  BY <1>1, <1>2, <1>6
<1>9. \A k \in DOMAIN request_queue : request_queue[k] # TerminateRequest =>
         /\ request_queue[k].id < next_id /\ request_queue[k].id > session_request.id
         /\ \A o \in Out \cup Held \cup {c.id} : o < request_queue[k].id
  BY <1>4 DEF Later, Known
<1>10. \A k \in DOMAIN request_queue : request_queue[k] # TerminateRequest =>
          request_queue[k].id \in Ids
  BY <1>1, <1>3, <1>9
<1>11. \A o \in Out \cup Held \cup {c.id, session_request.id} : o # 0 => o \in Ids
  <2>1. \A o \in Out \cup Held \cup {c.id, session_request.id} : o \in Nat
    BY <1>1
  <2>2. \A o \in Nat : o # 0 => o > 0
    OBVIOUS
  <2> QED
    BY <1>3, <1>7, <2>1, <2>2
<1> QED
  BY <1>2, <1>6, <1>7, <1>8, <1>9, <1>10, <1>11

(* What the session is about to serve, or has sent to the engine.          *)
Served == (nested /\ session_request # TerminateRequest) \/ session_request.id \in Out

(* The client is told about the requests in `news'; all others keep their  *)
(* place in the channel or move on in a way the client does not see.       *)
LEMMA ViewKept ==
    ASSUME NEW c, NEW d, NEW told, ChannelInv(c), ViewInv(c, told), next_id' = next_id,
           active' => active,
           NEW news, \A i \in Ids : i \notin news => view'[i] = view[i],
           \A i \in news : active /\ i \in Out \cup Held \cup {c.id, session_request.id},
           d # NoRequest => d.id # 0,
           active' =>
              /\ \A o \in Out' : o \notin news
              /\ \A o \in Out' : o \in Out \/ o \in Held \/ (o = session_request.id /\ Served)
              /\ \A h \in Held' : (h \in Held /\ h \notin news) \/ view'[h] = "PENDING"
              /\ d # NoRequest => (d = c /\ c.id \notin news) \/ view'[d.id] \in told
              /\ Served' =>
                    \/ /\ session_request' = session_request /\ Served
                       /\ session_request.id \notin news
                    \/ \E k \in DOMAIN request_queue :
                          /\ request_queue[k] # TerminateRequest
                          /\ session_request' = request_queue[k]
              /\ \A k \in DOMAIN request_queue' :
                    \E l \in DOMAIN request_queue : request_queue'[k] = request_queue[l]
    PROVE  ViewInv(d, told)'
<1>1. /\ Ids \subseteq Nat \ {0} /\ next_id \in Nat /\ 0 \notin Out
      /\ Out \subseteq Nat /\ Held \subseteq Nat /\ session_request.id \in Nat /\ c.id \in Nat
  BY IdTypes, ConstantsAssumption DEF Ids, ChannelInv, Flight
<1>2. \A i \in Ids : i >= next_id' => view'[i] = "unsent"
  <2> SUFFICES ASSUME NEW i \in Ids, i >= next_id PROVE view'[i] = "unsent"
    OBVIOUS
  <2>1. i \notin news
    <3> SUFFICES ASSUME i \in news PROVE FALSE
      OBVIOUS
    <3>1. active /\ i \in Out \cup Held \cup {c.id, session_request.id} /\ i # 0
      BY <1>1
    <3>2. i < next_id
      BY <3>1, KnownIs
    <3> QED
      BY <1>1, <3>2
  <2> QED
    BY <2>1 DEF ViewInv
<1>3. SUFFICES ASSUME active'
               PROVE  /\ \A o \in Out' : view'[o] \in {"sent", "PENDING"}
                      /\ \A h \in Held' : view'[h] = "PENDING"
                      /\ d # NoRequest => view'[d.id] \in told
                      /\ Served' => view'[session_request'.id] = "sent"
                      /\ \A k \in DOMAIN request_queue' :
                            request_queue'[k] # TerminateRequest =>
                               view'[request_queue'[k].id] = "sent"
  BY <1>2 DEF ViewInv, Served
<1>4. /\ \A o \in Out \cup Held : o \in Ids
      /\ c.id # 0 => c.id \in Ids
      /\ session_request.id # 0 => session_request.id \in Ids
      /\ \A k \in DOMAIN request_queue : request_queue[k] # TerminateRequest =>
            /\ request_queue[k].id \in Ids
            /\ request_queue[k].id > session_request.id
            /\ \A o \in Out \cup Held \cup {c.id} : o < request_queue[k].id
  BY <1>3, KnownIs
<1>5. /\ \A o \in Out : view[o] \in {"sent", "PENDING"}
      /\ \A h \in Held : view[h] = "PENDING"
      /\ c # NoRequest => c.id # 0 /\ view[c.id] \in told
      /\ Served => view[session_request.id] = "sent"
      /\ \A k \in DOMAIN request_queue : request_queue[k] # TerminateRequest =>
            view[request_queue[k].id] = "sent"
  BY <1>3 DEF ViewInv, Served
<1>6. Served => session_request.id \in Ids
  <2>1. nested /\ session_request # TerminateRequest => session_request.id \in Ids
    BY <1>3 DEF ChannelInv, Fresh
  <2> QED
    BY <1>4, <2>1 DEF Served
<1>7. \A o \in Out' : view'[o] \in {"sent", "PENDING"}
  BY <1>3, <1>4, <1>5, <1>6
<1>8. \A h \in Held' : view'[h] = "PENDING"
  BY <1>3, <1>4, <1>5
<1>9. d # NoRequest => view'[d.id] \in told
  BY <1>3, <1>4, <1>5
<1>10. \A k \in DOMAIN request_queue : request_queue[k] # TerminateRequest =>
          view'[request_queue[k].id] = "sent"
  <2> SUFFICES ASSUME NEW k \in DOMAIN request_queue, request_queue[k] # TerminateRequest
               PROVE  view'[request_queue[k].id] = "sent"
    OBVIOUS
  <2>1. PICK n : n = request_queue[k].id
    OBVIOUS
  <2>2. /\ n \in Ids /\ n > session_request.id
        /\ \A o \in Out \cup Held \cup {c.id} : o < n
    BY <1>4, <2>1
  <2>3. n \notin news
    BY <1>1, <2>2
  <2> QED
    BY <1>5, <2>1, <2>2, <2>3
<1>11. \A k \in DOMAIN request_queue' : request_queue'[k] # TerminateRequest =>
          view'[request_queue'[k].id] = "sent"
  BY <1>3, <1>10
<1>12. Served' => view'[session_request'.id] = "sent"
  BY <1>3, <1>5, <1>6, <1>10
<1> QED
  BY <1>7, <1>8, <1>9, <1>11, <1>12

(* Nothing changes but messages in flight; the client is told at most what *)
(* it may believe of the in-progress request, which may end.               *)
LEMMA QuietView ==
    ASSUME NEW c, NEW d, NEW told, ChannelInv(c), ViewInv(c, told),
           UNCHANGED <<active, nested, session_request, queue, deferred, request_queue, next_id>>,
           Out' \subseteq Out,
           \/ \A i \in Ids : view'[i] = view[i]
           \/ /\ active /\ c # NoRequest /\ "COMPLETE" \notin told
              /\ \A i \in Ids : view'[i] = IF i = c.id THEN "IN-PROGRESS" ELSE view[i]
              /\ d = c => "IN-PROGRESS" \in told
           \/ /\ active /\ c # NoRequest /\ d # c
              /\ \A i \in Ids : view'[i] = IF i = c.id THEN "COMPLETE" ELSE view[i],
           d = c \/ d = NoRequest
    PROVE  ViewInv(d, told)' /\ Forward
<1>1. Held' = Held
  BY DEF Held
<1>2. Served' => Served
  BY DEF Served
<1>3. d # NoRequest => d.id # 0
  BY DEF ViewInv
<1>4. c # NoRequest /\ active => c.id \notin Out /\ c.id \notin Held /\ c.id \in Ids
  BY KnownIs DEF ViewInv
<1>5. CASE \A i \in Ids : view'[i] = view[i]
  <2>1. Forward
    BY <1>5, ForwardSteps DEF ChannelInv
  <2>2. ViewInv(d, told)'
    <3>1. PICK news : news = {}
      OBVIOUS
    <3> QED
      BY <1>1, <1>2, <1>3, <1>5, <3>1, ViewKept
  <2> QED
    BY <2>1, <2>2
<1>6. ASSUME NEW v \in {"IN-PROGRESS", "COMPLETE"}, active, c # NoRequest,
             v = "IN-PROGRESS" => "COMPLETE" \notin told, d = c => v \in told,
             \A i \in Ids : view'[i] = IF i = c.id THEN v ELSE view[i]
      PROVE  ViewInv(d, told)' /\ Forward
  <2>1. view[c.id] \in told
    BY <1>6 DEF ViewInv
  <2>2. Forward
    BY <1>4, <1>6, <2>1, ForwardSteps DEF ChannelInv
  <2>3. Served => session_request.id # c.id
    <3>1. nested /\ session_request # TerminateRequest => c.id < session_request.id
      BY <1>6 DEF ChannelInv, Fresh, Known
    <3>2. ~(c.id < c.id)
      BY IdTypes DEF ChannelInv
    <3> QED
      BY <1>4, <1>6, <3>1, <3>2 DEF Served
  <2>4. PICK news : news = {c.id}
    OBVIOUS
  <2>5. \A o \in Out' : o \notin news
    BY <1>4, <1>6, <2>4
  <2>6. \A h \in Held' : h \in Held /\ h \notin news
    BY <1>1, <1>4, <1>6, <2>4
  <2>7. d # NoRequest => view'[d.id] \in told
    BY <1>4, <1>6
  <2>8. \A i \in Ids : i \notin news => view'[i] = view[i]
    BY <1>6, <2>4
  <2>9. Served' => Served /\ session_request.id \notin news
    BY <1>2, <2>3, <2>4
  <2> QED
    BY <1>3, <1>6, <2>2, <2>4, <2>5, <2>6, <2>7, <2>8, <2>9, ViewKept
<1> QED
  BY <1>5, <1>6

(* The request of the session goes to the engine.                          *)
LEMMA DispatchView ==
    ASSUME NEW c, NEW told, ChannelInv(c), ViewInv(c, told), nested,
           session_request.method \in Methods,
           DispatchAndReturn(session_request), UNCHANGED <<active, is_pending, queue>>
    PROVE  ViewInv(c, told)' /\ Forward
<1>1. active /\ session_request # TerminateRequest /\ session_request.id # 0
  BY HandledIs, ConstantsAssumption DEF Ids
<1>2. Flight' /\ Out' = Out \cup {session_request.id}
  BY <1>1, HandledIs, DispatchFlight DEF DispatchAndReturn, ChannelInv
<1>3. UNCHANGED <<session_request, request_queue, deferred, next_id, view>>
  BY DEF DispatchAndReturn, session_vars, client_vars
<1>4. Held' = Held /\ Served
  BY <1>1, <1>3 DEF Held, Served
<1>5. Forward
  BY <1>3, ForwardSteps DEF ChannelInv
<1>6. c # NoRequest => c.id # 0
  BY DEF ViewInv
<1>7. PICK news : news = {}
  OBVIOUS
<1> QED
  BY <1>2, <1>3, <1>4, <1>5, <1>6, <1>7, ViewKept

(* What the session serves after a response was waiting in its queue.      *)
LEMMA PopView ==
    ASSUME NEW c, NEW d, ChannelInv(c), ChannelInv(d)', active, active', PopSessionRequest
    PROVE  /\ Served' => \E k \in DOMAIN request_queue :
                            /\ request_queue[k] # TerminateRequest
                            /\ session_request' = request_queue[k]
           /\ \A k \in DOMAIN request_queue' :
                 \E l \in DOMAIN request_queue : request_queue'[k] = request_queue[l]
<1>1. 0 \notin Out' /\ NoRequest.id = 0 /\ TerminateRequest.id = 0
  BY IdTypes DEF ChannelInv, Flight
<1>2. request_queue \in Seq(Request)
  BY DEF ChannelInv, ChannelTypeOK
<1>3. CASE request_queue = <<>>
  <2>1. session_request' = NoRequest /\ request_queue' = <<>> /\ nested' = FALSE
    BY <1>3 DEF PopSessionRequest
  <2>2. DOMAIN request_queue' = {} /\ ~Served'
    BY <1>1, <2>1 DEF Served
  <2> QED
    BY <2>2
<1>4. CASE request_queue # <<>>
  <2>1. session_request' = Head(request_queue) /\ request_queue' = Tail(request_queue)
    BY <1>4 DEF PopSessionRequest
  <2>2. 1 \in DOMAIN request_queue /\ session_request' = request_queue[1]
    BY <1>2, <1>4, <2>1
  <2>3. \A k \in DOMAIN request_queue' :
           k + 1 \in DOMAIN request_queue /\ request_queue'[k] = request_queue[k + 1]
    BY <1>2, <1>4, <2>1
  <2>4. Served' => session_request' # TerminateRequest
    BY <1>1 DEF Served
  <2> QED
    BY <2>2, <2>3, <2>4
<1> QED
  BY <1>3, <1>4

(* The request of the session is answered; the response says which others  *)
(* have ended.                                                             *)
LEMMA AnswerView ==
    ASSUME NEW c, NEW d, NEW told, ChannelInv(c), ChannelInv(d)', ViewInv(c, told),
           active, active' = active, Served,
           NEW rstate \in {"PENDING", "IN-PROGRESS", "COMPLETE"}, NEW ended,
           response_dispatch(session_request.id, rstate, ended),
           Out' = Out \ {session_request.id},
           \A i \in ended : i \in Held \/ (c # NoRequest /\ i = c.id),
           \A h \in Held' : \/ h \in Held /\ h \notin ended
                            \/ h = session_request.id /\ rstate = "PENDING",
           \/ d = NoRequest
           \/ d = c /\ c.id \notin ended
           \/ d.id = session_request.id /\ rstate \in told
    PROVE  ViewInv(d, told)' /\ Forward
<1>1. PICK s : s = session_request.id
  OBVIOUS
<1>2. /\ PopSessionRequest /\ next_id' = next_id
      /\ \A i \in Ids : view'[i] = IF i = s THEN rstate
                                   ELSE IF i \in ended THEN "COMPLETE" ELSE view[i]
  BY <1>1 DEF response_dispatch
<1>3. s \in Ids /\ s # 0
  <2>1. nested /\ session_request # TerminateRequest => session_request.id \in Ids
    BY DEF ChannelInv, Fresh
  <2>2. session_request.id \in Out => session_request.id \in Ids
    BY KnownIs
  <2> QED
    BY <1>1, <2>1, <2>2, ConstantsAssumption DEF Served, Ids
<1>4. view[s] = "sent"
  BY <1>1 DEF ViewInv, Served
<1>5. Forward
  BY <1>2, <1>4, ForwardSteps DEF ChannelInv
<1>6. /\ c # NoRequest => c.id # s
      /\ s \notin Held
  <2>1. nested /\ session_request # TerminateRequest =>
           \A o \in Known(c) : o < session_request.id
    BY DEF ChannelInv, Fresh
  <2>2. \A o \in Nat : ~(o < o)
    OBVIOUS
  <2>3. s \in Nat
    BY <1>1, IdTypes DEF ChannelInv
  <2>4. CASE nested /\ session_request # TerminateRequest
    BY <1>1, <2>1, <2>2, <2>3, <2>4 DEF Known
  <2>5. CASE s \in Out
    BY <2>5, KnownIs
  <2> QED
    BY <1>1, <2>4, <2>5 DEF Served
<1>7. PICK news : news = {s} \cup ended
  OBVIOUS
<1>8. \A o \in Out' : o \notin news /\ o \in Out
  <2>1. \A i \in ended : i \notin Out
    BY KnownIs
  <2> QED
    BY <1>1, <1>7, <2>1
<1>9. \A h \in Held' : (h \in Held /\ h \notin news) \/ view'[h] = "PENDING"
  BY <1>1, <1>2, <1>3, <1>6, <1>7
<1>10. d # NoRequest => (d = c /\ c.id \notin news) \/ view'[d.id] \in told
  BY <1>1, <1>2, <1>3, <1>6, <1>7
<1>11. d # NoRequest => d.id # 0
  BY <1>1, <1>3 DEF ViewInv
<1>12. \A i \in Ids : i \notin news => view'[i] = view[i]
  BY <1>2, <1>7
<1>13. \A i \in news : active /\ i \in Out \cup Held \cup {c.id, session_request.id}
  BY <1>1, <1>7
<1>14. /\ Served' => \E k \in DOMAIN request_queue :
                        /\ request_queue[k] # TerminateRequest
                        /\ session_request' = request_queue[k]
       /\ \A k \in DOMAIN request_queue' :
             \E l \in DOMAIN request_queue : request_queue'[k] = request_queue[l]
  BY <1>2, PopView
<1> QED
  BY <1>2, <1>5, <1>8, <1>9, <1>10, <1>11, <1>12, <1>13, <1>14, ViewKept

(* A channel that is or becomes inactive tells the client nothing.         *)
LEMMA InactiveView ==
    ASSUME NEW c, NEW d, NEW told, ChannelInv(c), ViewInv(c, told), ~active',
           next_id' = next_id, \A i \in Ids : view'[i] = view[i], d # NoRequest => d.id # 0
    PROVE  ViewInv(d, told)' /\ Forward
<1>1. Forward
  BY ForwardSteps DEF ChannelInv
<1> QED
  BY <1>1 DEF ViewInv

(* A request of the client is new.                                         *)
LEMMA ClientView ==
    ASSUME NEW c, NEW told, ChannelInv(c), ViewInv(c, told), ChannelInv(c)', ChannelClient
    PROVE  ViewInv(c, told)' /\ Forward
<1>1. /\ Ids \subseteq Nat \ {0} /\ next_id \in Nat /\ view \in [Ids -> Views]
      /\ request_queue \in Seq(Request)
  <2>1. view \in [Ids -> Views] /\ request_queue \in Seq(Request)
    BY DEF ChannelInv, ChannelTypeOK
  <2>2. Ids \subseteq Nat \ {0} /\ next_id \in Nat
    BY IdTypes, ConstantsAssumption DEF Ids, ChannelInv
  <2> QED
    BY <2>1, <2>2
<1>2. PICK m : /\ SignalingMessageProcess(m)
               /\ \/ /\ m = TerminateRequest /\ next_id' = next_id /\ view' = view
                  \/ /\ m.id = next_id /\ next_id \in Ids /\ next_id' = next_id + 1
                     /\ view' = [view EXCEPT ![next_id] = "sent"]
  <2>1. CASE ClientTerminate
    BY <2>1 DEF ClientTerminate
  <2>2. ASSUME NEW method, NEW sel, NEW kill, ClientRequest(method, sel, kill)
        PROVE  \E m : /\ SignalingMessageProcess(m)
                      /\ m.id = next_id /\ next_id \in Ids /\ next_id' = next_id + 1
                      /\ view' = [view EXCEPT ![next_id] = "sent"]
    BY <2>2 DEF ClientRequest
  <2> QED
    BY <2>1, <2>2 DEF ChannelClient
<1>3. /\ ~nested /\ UNCHANGED <<active, queue, engine_in, server_in, deferred>>
      /\ \/ /\ session_request # NoRequest /\ request_queue' = Append(request_queue, m)
            /\ UNCHANGED <<session_request, nested>>
         \/ /\ session_request = NoRequest /\ session_request' = m /\ nested' = TRUE
            /\ request_queue' = request_queue
  BY <1>2 DEF SignalingMessageProcess, Busy, machine_vars, engine_vars
<1>4. Out' = Out /\ Held' = Held
  BY <1>3 DEF Out, Answers, Held
<1>5. \A i \in Ids : view'[i] = IF i = next_id /\ m # TerminateRequest THEN "sent" ELSE view[i]
  BY <1>1, <1>2, IdTypes DEF ChannelInv, TerminateRequest
<1>6. Forward
  <2>1. next_id \in Ids => view[next_id] = "unsent"
    BY <1>1 DEF ViewInv
  <2> QED
    BY <1>5, <2>1, ForwardSteps DEF ChannelInv
<1>7. \A i \in Ids : i >= next_id' => view'[i] = "unsent"
  BY <1>1, <1>2, <1>5 DEF ViewInv
<1>8. SUFFICES ASSUME active
               PROVE  /\ \A o \in Out : view'[o] \in {"sent", "PENDING"}
                      /\ \A h \in Held : view'[h] = "PENDING"
                      /\ c # NoRequest => view'[c.id] \in told
                      /\ Served' => view'[session_request'.id] = "sent"
                      /\ \A k \in DOMAIN request_queue' :
                            request_queue'[k] # TerminateRequest =>
                               view'[request_queue'[k].id] = "sent"
  BY <1>3, <1>4, <1>6, <1>7 DEF ViewInv, Served
<1>9. /\ \A o \in Out : view[o] \in {"sent", "PENDING"}
      /\ \A h \in Held : view[h] = "PENDING"
      /\ c # NoRequest => c.id # 0 /\ view[c.id] \in told
      /\ Served => view[session_request.id] = "sent"
      /\ \A k \in DOMAIN request_queue : request_queue[k] # TerminateRequest =>
            view[request_queue[k].id] = "sent"
  BY <1>8 DEF ViewInv, Served
<1>10. /\ \A o \in Out \cup Held : o \in Ids /\ o < next_id
       /\ c.id # 0 => c.id \in Ids /\ c.id < next_id
       /\ session_request.id # 0 => session_request.id \in Ids /\ session_request.id < next_id
       /\ \A k \in DOMAIN request_queue : request_queue[k] # TerminateRequest =>
             request_queue[k].id \in Ids /\ request_queue[k].id < next_id
  BY <1>8, KnownIs
<1>11. \A i \in Ids : i < next_id => view'[i] = view[i]
  BY <1>1, <1>5
<1>12. m # TerminateRequest => m.id \in Ids /\ view'[m.id] = "sent"
  BY <1>2, <1>5
<1>13. /\ \A o \in Out : view'[o] \in {"sent", "PENDING"}
       /\ \A h \in Held : view'[h] = "PENDING"
       /\ c # NoRequest => view'[c.id] \in told
  BY <1>9, <1>10, <1>11
<1>14. \A k \in DOMAIN request_queue' :
          (\E l \in DOMAIN request_queue : request_queue'[k] = request_queue[l])
             \/ request_queue'[k] = m
  BY <1>1, <1>3
<1>15. \A k \in DOMAIN request_queue' : request_queue'[k] # TerminateRequest =>
          view'[request_queue'[k].id] = "sent"
  BY <1>9, <1>10, <1>11, <1>12, <1>14
<1>16. Served' => view'[session_request'.id] = "sent"
  <2>0. 0 \notin Out /\ TerminateRequest.id = 0
    BY IdTypes DEF ChannelInv, Flight
  <2>1. CASE session_request' = m /\ nested'
    BY <1>4, <1>12, <2>0, <2>1 DEF Served
  <2>2. CASE session_request' = session_request /\ nested' = nested
    <3>1. Served' => session_request.id \in Out
      BY <1>3, <1>4, <2>2 DEF Served
    <3> QED
      BY <1>9, <1>10, <1>11, <2>2, <3>1 DEF Served
  <2> QED
    BY <1>3, <2>1, <2>2
<1> QED
  BY <1>13, <1>15, <1>16

(* The requests that are removed waited, and do not wait any more.         *)
LEMMA RemovedIs ==
    ASSUME ChannelTypeOK, Sorted, NEW sel, NEW rest, rest = Remaining(sel)
    PROVE  /\ RemovedIds(sel) \subseteq {queue[k].id : k \in DOMAIN queue}
           /\ \A k \in DOMAIN rest :
                 /\ rest[k].id \in {queue[i].id : i \in DOMAIN queue}
                 /\ rest[k].id \notin RemovedIds(sel)
<1>0. queue \in Seq(QueuedRequest)
  BY DEF ChannelTypeOK
<1>1. PICK keep : keep = DOMAIN queue \ Removed(sel)
  OBVIOUS
<1>2. keep \subseteq DOMAIN queue /\ rest = KeepAt(queue, keep)
  BY <1>1 DEF Remaining
<1>3. {rest[k] : k \in DOMAIN rest} = {queue[i] : i \in keep}
  <2> DEFINE kept == KeepAt(queue, keep)
  <2>1. {kept[k] : k \in DOMAIN kept} = {queue[i] : i \in keep}
    BY <1>0, <1>2, KeepAtElements
  <2> HIDE DEF kept
  <2>2. rest = kept
    BY <1>2 DEF kept
  <2> QED
    BY <2>1, <2>2
<1>4. Removed(sel) \subseteq DOMAIN queue
  BY DEF Removed
<1>5. \A i, j \in DOMAIN queue : i # j => queue[i].id # queue[j].id
  <2> SUFFICES ASSUME NEW i \in DOMAIN queue, NEW j \in DOMAIN queue, i # j
               PROVE  queue[i].id # queue[j].id
    OBVIOUS
  <2>1. i \in Nat /\ j \in Nat /\ queue[i] \in QueuedRequest /\ queue[j] \in QueuedRequest
    BY <1>0
  <2>2. queue[i].id \in Nat /\ queue[j].id \in Nat
    BY <2>1, RequestTypes, IdTypes
  <2>3. i < j \/ j < i
    BY <2>1
  <2>4. queue[i].id < queue[j].id \/ queue[j].id < queue[i].id
    BY <2>3 DEF Sorted
  <2> QED
    BY <2>2, <2>4
<1>6. ASSUME NEW k \in DOMAIN rest
      PROVE  /\ rest[k].id \in {queue[i].id : i \in DOMAIN queue}
             /\ rest[k].id \notin RemovedIds(sel)
  <2>1. PICK i \in keep : rest[k] = queue[i]
    BY <1>3
  <2>2. i \in DOMAIN queue /\ i \notin Removed(sel)
    BY <1>1
  <2>3. \A j \in Removed(sel) : queue[j].id # queue[i].id
    BY <1>4, <1>5, <2>2
  <2> QED
    BY <2>1, <2>2, <2>3 DEF RemovedIds
<1>7. RemovedIds(sel) \subseteq {queue[k].id : k \in DOMAIN queue}
  BY <1>4 DEF RemovedIds
<1> QED
  BY <1>6, <1>7

-----------------------------------------------------------------------------
(* What the client is told, step by step.                                  *)

(* A request that is answered at once.                                     *)
LEMMA RespondView ==
    ASSUME NEW c, NEW told, ChannelInv(c), ChannelInv(c)', ViewInv(c, told), nested,
           session_request.method \in Methods,
           NEW rstate \in {"PENDING", "IN-PROGRESS", "COMPLETE"}, NEW ended,
           RespondAndReturn(session_request.id, rstate, ended), active' = active,
           ended \subseteq Held,
           \A h \in Held' : \/ h \in Held /\ h \notin ended
                            \/ h = session_request.id /\ rstate = "PENDING"
    PROVE  ViewInv(c, told)' /\ Forward
<1>1. active /\ session_request # TerminateRequest /\ session_request.id \notin Out
  BY HandledIs
<1>2. /\ response_dispatch(session_request.id, rstate, ended)
      /\ UNCHANGED <<engine_in, server_in>>
  BY DEF RespondAndReturn, engine_vars
<1>3. Out' = Out \ {session_request.id}
  BY <1>1, <1>2 DEF Out, Answers
<1>4. c = NoRequest \/ c.id \notin ended
  BY <1>1, KnownIs
<1>5. Served
  BY <1>1 DEF Served
<1> QED
  BY <1>1, <1>2, <1>3, <1>4, <1>5, AnswerView

(* A request that is forwarded or answered.                                *)
LEMMA ForwardOrRespondView ==
    ASSUME NEW c, NEW told, ChannelInv(c), ViewInv(c, told), nested,
           session_request.method \in Methods, NEW forward, ForwardOrRespond(forward)
    PROVE  ViewInv(c, told)' /\ Forward
<1>1. CASE forward
  BY <1>1, DispatchView DEF ForwardOrRespond
<1>2. CASE ~forward
  <2>1. /\ RespondAndReturn(session_request.id, "COMPLETE", {})
        /\ UNCHANGED <<active, queue, deferred>>
    BY <1>2 DEF ForwardOrRespond, RespondAndReturn
  <2>2. Held' = Held
    BY <2>1 DEF Held
  <2>3. ChannelInv(c)'
    BY ForwardOrRespondInv
  <2> QED
    BY <2>1, <2>2, <2>3, RespondView
<1> QED
  BY <1>1, <1>2

(* A request that is started or queued.                                    *)
LEMMA StartOrQueueView ==
    ASSUME NEW c, NEW told, ChannelInv(c), ViewInv(c, told), nested,
           session_request.method \in Queueing,
           NEW occupied, StartOrQueue(occupied), occupied => c # NoRequest
    PROVE  ViewInv(c, told)' /\ Forward
<1>0. session_request.method \in Methods
  BY DEF Queueing, Methods, SynthMethods, RecogMethods
<1>1. CASE ~occupied
  BY <1>0, <1>1, DispatchView DEF StartOrQueue
<1>2. CASE occupied
  <2>1. /\ RespondAndReturn(session_request.id, "PENDING", {})
        /\ queue' = Append(queue, session_request)
        /\ UNCHANGED <<active, deferred>>
    BY <1>2 DEF StartOrQueue, RespondAndReturn
  <2>2. queue \in Seq(QueuedRequest) /\ session_request \in QueuedRequest
    BY DEF ChannelInv, ChannelTypeOK, QueuedRequest
  <2>3. \A k \in DOMAIN queue' :
           (k \in DOMAIN queue /\ queue'[k] = queue[k]) \/ queue'[k] = session_request
    BY <2>1, <2>2
  <2>4. \A h \in Held' : h \in Held \/ h = session_request.id
    BY <2>1, <2>3 DEF Held
  <2>5. ChannelInv(c)'
    BY StartOrQueueInv
  <2> QED
    BY <1>0, <2>1, <2>4, <2>5, RespondView
<1> QED
  BY <1>1, <1>2

(* A STOP that is forwarded or that removes pending requests.              *)
LEMMA StopOrRemoveView ==
    ASSUME NEW c, NEW told, ChannelInv(c), ViewInv(c, told), nested,
           session_request.method \in Methods, NEW forward, StopOrRemove(forward)
    PROVE  ViewInv(c, told)' /\ Forward
<1>1. CASE forward
  BY <1>1, DispatchView DEF StopOrRemove
<1>2. CASE ~forward
  <2>1. PICK sel, ended : sel = session_request.sel /\ ended = RemovedIds(sel)
    OBVIOUS
  <2>2. /\ RespondAndReturn(session_request.id, "COMPLETE", ended)
        /\ queue' = Remaining(sel)
        /\ UNCHANGED <<active, deferred>>
    BY <1>2, <2>1 DEF StopOrRemove, RespondAndReturn
  <2>3. /\ ended \subseteq {queue[k].id : k \in DOMAIN queue}
        /\ \A k \in DOMAIN queue' :
              queue'[k].id \in {queue[i].id : i \in DOMAIN queue} /\ queue'[k].id \notin ended
    BY <2>1, <2>2, RemovedIs DEF ChannelInv
  <2>4. deferred # NoRequest => deferred.id \notin ended
    <3>1. deferred # NoRequest => deferred.id \in Held /\ deferred.id \in Nat
      BY IdTypes DEF Held, ChannelInv
    <3>2. deferred # NoRequest => \A k \in DOMAIN queue : deferred.id < queue[k].id
      BY DEF ChannelInv, Sorted
    <3>3. \A n \in Nat : ~(n < n)
      OBVIOUS
    <3> QED
      BY <2>3, <3>1, <3>2, <3>3
  <2>5. /\ ended \subseteq Held
        /\ \A h \in Held' : h \in Held /\ h \notin ended
    BY <2>2, <2>3, <2>4 DEF Held
  <2>6. ChannelInv(c)'
    BY StopOrRemoveInv
  <2> QED
    BY <2>2, <2>5, <2>6, RespondView
<1> QED
  BY <1>1, <1>2

(* A response of the engine that goes to the client.                       *)
LEMMA AcceptedView ==
    ASSUME NEW c, NEW d, NEW told, ChannelInv(c), ChannelInv(d)', ViewInv(c, told),
           NEW methods, ResponseTo(methods), methods \cap Queueing = {} \/ ~is_pending,
           active, active' = active,
           NEW rstate \in {"PENDING", "IN-PROGRESS", "COMPLETE"}, NEW ended,
           response_dispatch(Received.id, rstate, ended),
           \A i \in ended : i \in Held \/ (c # NoRequest /\ i = c.id),
           \A h \in Held' : h \in Held /\ h \notin ended,
           \/ d = NoRequest
           \/ d = c /\ c.id \notin ended
           \/ d = active_request /\ rstate \in told
    PROVE  ViewInv(d, told)' /\ Forward
<1>1. /\ Received.id = session_request.id /\ active_request = session_request
      /\ Out' = Out \ {session_request.id} /\ session_request.id \in Out
  BY AcceptedIs DEF Internal
<1>2. Served
  BY <1>1 DEF Served
<1> QED
  BY <1>1, <1>2, AnswerView

(* A response that is passed on.                                           *)
LEMMA PassOnView ==
    ASSUME NEW c, NEW d, NEW told, ChannelInv(c), ViewInv(c, told),
           NEW methods, ResponseTo(methods), methods \cap Queueing = {} \/ ~is_pending,
           "STOP" \notin methods, NEW rstate \in {"IN-PROGRESS", "COMPLETE"}, PassOn(rstate),
           d = c \/ (d = active_request /\ methods \subseteq Queueing /\ rstate \in told)
    PROVE  ViewInv(d, told)' /\ Forward
<1>1. rstate \in Views
  BY ViewTypes
<1>2. ChannelInv(d)' /\ active
  BY <1>1, PassOnInv
<1>3. /\ response_dispatch(Received.id, rstate, {})
      /\ UNCHANGED <<active, queue, deferred>>
  BY DEF PassOn
<1>4. Held' = Held
  BY <1>3 DEF Held
<1> QED
  BY <1>2, <1>3, <1>4, AcceptedView

(* The response to STOP, which names the in-progress request.              *)
LEMMA EndByStopView ==
    ASSUME NEW c, NEW told, ChannelInv(c), ViewInv(c, told), ResponseTo({"STOP"}),
           c # NoRequest, EndByStop(c)
    PROVE  ViewInv(NoRequest, told)' /\ Forward
<1>1. ChannelInv(NoRequest)'
  BY EndByStopInv
<1>2. PICK sel, rest : sel = active_request.sel /\ rest = Remaining(sel)
  OBVIOUS
<1>3. PICK ended : ended = {c.id} \cup RemovedIds(sel)
  OBVIOUS
<1>4. /\ response_dispatch(Received.id, "COMPLETE", ended)
      /\ active' = active
      /\ IF rest = <<>> THEN queue' = <<>> /\ deferred' = deferred
         ELSE queue' = Tail(rest) /\ deferred' = Head(rest)
  BY <1>2, <1>3 DEF EndByStop
<1>5. CASE ~active
  <2>1. view' = view /\ next_id' = next_id /\ ~active'
    BY <1>4, <1>5 DEF response_dispatch, OnDeactivate
  <2> QED
    BY <2>1, InactiveView
<1>6. CASE active
  <2>1. deferred = NoRequest
    BY AcceptedIs
  <2>2. /\ rest \in Seq(QueuedRequest)
        /\ RemovedIds(sel) \subseteq {queue[k].id : k \in DOMAIN queue}
        /\ \A k \in DOMAIN rest :
              /\ rest[k].id \in {queue[i].id : i \in DOMAIN queue}
              /\ rest[k].id \notin RemovedIds(sel)
    BY <1>2, RemainingIs, RemovedIs DEF ChannelInv
  <2>3. Held = {queue[k].id : k \in DOMAIN queue}
    BY <2>1 DEF Held
  <2>4. \A h \in Held' : \E k \in DOMAIN rest : h = rest[k].id
    <3>1. CASE rest = <<>>
      <4>1. DOMAIN queue' = {} /\ deferred' = NoRequest
        BY <1>4, <2>1, <3>1
      <4> QED
        BY <4>1 DEF Held
    <3>2. CASE rest # <<>>
      <4>1. /\ 1 \in DOMAIN rest /\ deferred' = rest[1]
            /\ \A k \in DOMAIN queue' : k + 1 \in DOMAIN rest /\ queue'[k] = rest[k + 1]
        BY <1>4, <2>2, <3>2
      <4> QED
        BY <4>1 DEF Held
    <3> QED
      BY <3>1, <3>2
  <2>5. c.id \notin Held
    BY <1>6, KnownIs
  <2>6. \A h \in Held' : h \in Held /\ h \notin ended
    BY <1>3, <2>2, <2>3, <2>4, <2>5
  <2>7. \A i \in ended : i \in Held \/ (c # NoRequest /\ i = c.id)
    BY <1>3, <2>2, <2>3
  <2>8. {"STOP"} \cap Queueing = {}
    BY DEF Queueing
  <2> QED
    BY <1>1, <1>4, <1>6, <2>6, <2>7, <2>8, AcceptedView
<1> QED
  BY <1>5, <1>6

(* The response to a barge-in.                                             *)
LEMMA EndByBargeInView ==
    ASSUME NEW c, NEW told, ChannelInv(c), ViewInv(c, told),
           ResponseTo({"BARGE-IN-OCCURRED"}), c # NoRequest, NEW ended,
           ended = {c.id} \cup RemovedIds(active_request.sel),
           response_dispatch(Received.id, "COMPLETE", ended),
           queue' = Remaining(active_request.sel),
           UNCHANGED <<active, is_pending, deferred, crashed>>
    PROVE  ViewInv(NoRequest, told)' /\ Forward
<1>1. ChannelInv(NoRequest)'
  BY EndByBargeInInv
<1>2. PICK sel : sel = active_request.sel
  OBVIOUS
<1>3. active /\ deferred = NoRequest
  BY AcceptedIs DEF Queueing, Internal
<1>4. /\ RemovedIds(sel) \subseteq {queue[k].id : k \in DOMAIN queue}
      /\ \A k \in DOMAIN queue' :
            /\ queue'[k].id \in {queue[i].id : i \in DOMAIN queue}
            /\ queue'[k].id \notin RemovedIds(sel)
  BY <1>2, RemovedIs DEF ChannelInv
<1>5. Held = {queue[k].id : k \in DOMAIN queue} /\ Held' = {queue'[k].id : k \in DOMAIN queue'}
  BY <1>3 DEF Held
<1>6. c.id \notin Held
  BY <1>3, KnownIs
<1>7. /\ \A h \in Held' : h \in Held /\ h \notin ended
      /\ \A i \in ended : i \in Held \/ (c # NoRequest /\ i = c.id)
  BY <1>2, <1>4, <1>5, <1>6
<1>8. {"BARGE-IN-OCCURRED"} \cap Queueing = {}
  BY DEF Queueing
<1> QED
  BY <1>1, <1>3, <1>7, <1>8, AcceptedView

(* The response to a request that was pending: its client may be told that *)
(* it is in progress.                                                      *)
LEMMA PendingView ==
    ASSUME NEW c, NEW d, NEW told, ChannelInv(c), ViewInv(c, told),
           NEW methods \in SUBSET Queueing, ResponseTo(methods), is_pending,
           UNCHANGED <<active, nested, session_request, queue, deferred, request_queue, next_id>>,
           \A i \in Ids : i # active_request.id \/ ~active => view'[i] = view[i],
           active => \/ view'[active_request.id] = view[active_request.id]
                     \/ view'[active_request.id] = "IN-PROGRESS",
           d = c \/ (d = active_request /\ (active => view'[active_request.id] \in told))
    PROVE  ViewInv(d, told)' /\ Forward
<1>1. PICK a : a = active_request.id
  OBVIOUS
<1>2. a \in Out /\ Out' = Out \ {a} /\ ~nested
  BY <1>1, AcceptedIs
<1>3. Held' = Held
  BY DEF Held
<1>4. a # 0
  BY <1>2 DEF ChannelInv, Flight
<1>5. d # NoRequest => d.id # 0
  BY <1>1, <1>4 DEF ViewInv
<1>6. CASE ~active
  BY <1>5, <1>6, InactiveView
<1>7. CASE active
  <2>1. a \in Ids /\ a \notin Held /\ (c # NoRequest => c.id # a)
    BY <1>1, <1>2, <1>7, KnownIs
  <2>2. view[a] \in {"sent", "PENDING"}
    BY <1>2, <1>7 DEF ViewInv
  <2>3. Forward
    BY <1>1, <1>7, <2>2, ForwardSteps DEF ChannelInv
  <2>4. PICK news : news = {a}
    OBVIOUS
  <2>5. \A i \in Ids : i \notin news => view'[i] = view[i]
    BY <1>1, <2>4
  <2>6. Served' => Served /\ session_request.id \notin news
    BY <1>2, <2>4 DEF Served
  <2>7. d # NoRequest => (d = c /\ c.id \notin news) \/ view'[d.id] \in told
    BY <1>1, <1>7, <2>1, <2>4
  <2>8. /\ \A o \in Out' : o \notin news /\ o \in Out
        /\ \A h \in Held' : h \in Held /\ h \notin news
        /\ \A i \in news : active /\ i \in Out
    BY <1>2, <1>3, <1>7, <2>1, <2>4
  <2> QED
    BY <1>5, <2>3, <2>5, <2>6, <2>7, <2>8, ViewKept
<1> QED
  BY <1>6, <1>7

(* A request that waits goes to the engine; what was in progress has ended *)
(* and the client is told so, unless nothing was.                          *)
LEMMA HeldView ==
    ASSUME NEW c, NEW told, ChannelInv(c), ViewInv(c, told), ~nested,
           UNCHANGED <<active, nested, session_request, request_queue, next_id>>,
           \A o \in Out' : o \in Out \/ o \in Held, Held' \subseteq Held,
           \/ \A i \in Ids : view'[i] = view[i]
           \/ /\ c # NoRequest
              /\ \A i \in Ids : view'[i] = IF active /\ i = c.id THEN "COMPLETE" ELSE view[i]
    PROVE  ViewInv(NoRequest, told)' /\ Forward
<1>1. Forward
  BY ForwardSteps DEF ChannelInv
<1>2. CASE ~active
  BY <1>2, InactiveView
<1>3. CASE active
  <2>1. PICK news : news = IF \A i \in Ids : view'[i] = view[i] THEN {} ELSE {c.id}
    OBVIOUS
  <2>2. \A i \in Ids : i \notin news => view'[i] = view[i]
    BY <2>1
  <2>3. \A i \in news : i = c.id /\ i \notin Out /\ i \notin Held
    BY <1>3, <2>1, KnownIs
  <2>4. Served' => session_request.id \in Out
    <3>1. Served' => session_request.id \in Out'
      BY DEF Served
    <3>2. session_request.id \notin Held
      <4>1. \A h \in Held : session_request.id = 0 \/ h < session_request.id
        BY <1>3 DEF ChannelInv, Order, Internal
      <4>2. 0 \notin Held /\ session_request.id \in Nat
        BY IdTypes DEF ChannelInv, Sorted
      <4> QED
        BY <4>1, <4>2
    <3> QED
      BY <3>1, <3>2
  <2>5. Served' => Served /\ session_request.id \notin news
    BY <2>3, <2>4 DEF Served
  <2>6. /\ \A o \in Out' : o \notin news
        /\ \A h \in Held' : h \in Held /\ h \notin news
        /\ \A i \in news : active /\ i \in Out \cup Held \cup {c.id, session_request.id}
    BY <1>3, <2>3
  <2>7. PICK d : d = NoRequest
    OBVIOUS
  <2>8. ViewInv(d, told)'
    BY <2>2, <2>5, <2>6, <2>7, ViewKept
  <2> QED
    BY <1>1, <2>7, <2>8
<1> QED
  BY <1>2, <1>3

(* The rest of the STOP response handler tells the client nothing.         *)
LEMMA DeferredView ==
    ASSUME NEW c, NEW told, ChannelInv(c), ViewInv(c, told), DispatchDeferred
    PROVE  ViewInv(NoRequest, told)' /\ Forward
<1>1. /\ deferred # NoRequest /\ ~nested /\ deferred' = NoRequest
      /\ engine_in' = engine_in \cup {deferred}
      /\ UNCHANGED <<active, nested, session_request, request_queue, next_id>>
      /\ UNCHANGED <<queue, server_in, view>>
  BY DEF DispatchDeferred, request_dispatch, session_vars, client_vars
<1>2. Answers' = Answers
  BY <1>1 DEF Answers
<1>3. deferred.id \in Held /\ Held' \subseteq Held
  BY <1>1 DEF Held
<1>4. \A o \in Out' : o \in Out \/ o \in Held
  <2>1. Out' = {r.id : r \in engine_in'} \cup {n.id : n \in Answers}
    BY <1>2 DEF Out
  <2> QED
    BY <1>1, <1>3, <2>1 DEF Out
<1> QED
  BY <1>1, <1>3, <1>4, HeldView

(* A completion is told to the client of the in-progress request.          *)
LEMMA CompleteView ==
    ASSUME NEW c, NEW told, ChannelInv(c), ViewInv(c, told), NEW name, EventNamed(name),
           c # NoRequest, Received.id = c.id, CompleteAndNext
    PROVE  ViewInv(NoRequest, told)' /\ Forward
<1>1. /\ UNCHANGED <<active, nested, session_request, request_queue, next_id>>
      /\ TakeEngineMessage /\ ~nested /\ deferred' = deferred
      /\ \A i \in Ids : view'[i] = IF active /\ i = c.id THEN "COMPLETE" ELSE view[i]
  BY DEF EventNamed, CompleteAndNext, event_dispatch, session_vars, stack_vars,
     TakeEngineMessage, Busy
<1>2. Answers' \subseteq Answers
  <2>1. server_in \in Seq(EngineMessage) /\ server_in # <<>> /\ server_in' = Tail(server_in)
    BY <1>1 DEF ChannelInv, ChannelTypeOK, TakeEngineMessage
  <2>2. \A k \in DOMAIN server_in' :
           k + 1 \in DOMAIN server_in /\ server_in'[k] = server_in[k + 1]
    BY <2>1
  <2> QED
    BY <2>2 DEF Answers
<1>3. Out' = {r.id : r \in engine_in'} \cup {n.id : n \in Answers'}
  BY DEF Out
<1>4. (\A o \in Out' : o \in Out \/ o \in Held) /\ Held' \subseteq Held
  <2>1. CASE queue = <<>>
    <3>1. UNCHANGED <<queue, engine_in>>
      BY <2>1 DEF CompleteAndNext
    <3>2. Out' \subseteq Out
      BY <1>2, <1>3, <3>1 DEF Out
    <3>3. Held' = Held
      BY <1>1, <3>1 DEF Held
    <3> QED
      BY <3>2, <3>3
  <2>2. CASE queue # <<>>
    <3>1. queue' = Tail(queue) /\ engine_in' = engine_in \cup {Head(queue)}
      BY <2>2 DEF CompleteAndNext, request_dispatch
    <3>2. queue \in Seq(QueuedRequest)
      BY DEF ChannelInv, ChannelTypeOK
    <3>3. /\ 1 \in DOMAIN queue /\ Head(queue) = queue[1]
          /\ \A k \in DOMAIN queue' : k + 1 \in DOMAIN queue /\ queue'[k] = queue[k + 1]
      BY <2>2, <3>1, <3>2
    <3>4. Head(queue).id \in Held
      BY <3>3 DEF Held
    <3>5. Held' \subseteq Held
      BY <1>1, <3>3 DEF Held
    <3>6. \A o \in Out' : o \in Out \/ o \in Held
      BY <1>2, <1>3, <3>1, <3>4 DEF Out
    <3> QED
      BY <3>5, <3>6
  <2> QED
    BY <2>1, <2>2
<1> QED
  BY <1>1, <1>4, HeldView

(* A message that is ignored.                                              *)
LEMMA IgnoreView ==
    ASSUME NEW c, NEW told, ChannelInv(c), ViewInv(c, told), IgnoreResponse
    PROVE  ViewInv(c, told)' /\ Forward
<1>1. Out' \subseteq Out
  BY TakeIs DEF IgnoreResponse, ChannelInv
<1>2. UNCHANGED <<active, nested, session_request, queue, deferred, request_queue, next_id, view>>
  BY DEF IgnoreResponse, machine_vars, session_vars, stack_vars, client_vars
<1> QED
  BY <1>1, <1>2, QuietView

(* A handler that reads through NULL.                                      *)
LEMMA NullView ==
    ASSUME NEW c, NEW told, ChannelInv(c), ViewInv(c, told), NEW methods,
           ResponseTo(methods), NullDereference
    PROVE  ViewInv(c, told)' /\ Forward
<1>1. Out' \subseteq Out
  BY TakeIs DEF ResponseTo, ChannelInv
<1>2. UNCHANGED <<active, nested, session_request, queue, deferred, request_queue, next_id, view>>
  BY DEF NullDereference, machine_vars, session_vars, client_vars
<1> QED
  BY <1>1, <1>2, QuietView

(* An event of the in-progress request, or one that is not passed on.      *)
LEMMA TellClientView ==
    ASSUME NEW c, NEW told, ChannelInv(c), ViewInv(c, told), NEW name, EventNamed(name),
           NEW passed \in BOOLEAN, NEW rstate, TellClient(passed, rstate),
           passed => /\ c # NoRequest /\ Received.id = c.id /\ rstate = "IN-PROGRESS"
                     /\ "COMPLETE" \notin told /\ "IN-PROGRESS" \in told
    PROVE  ViewInv(c, told)' /\ Forward
<1>1. /\ UNCHANGED <<active, nested, session_request, queue, deferred, request_queue, next_id>>
      /\ TakeEngineMessage /\ engine_in' = engine_in
  BY DEF EventNamed, TellClient, event_dispatch, session_vars, stack_vars, client_vars
<1>2. Out' \subseteq Out
  BY <1>1, TakeIs DEF ChannelInv
<1>3. CASE ~passed \/ ~active
  <2>1. \A i \in Ids : view'[i] = view[i]
    BY <1>3 DEF TellClient, event_dispatch, client_vars
  <2> QED
    BY <1>1, <1>2, <2>1, QuietView
<1>4. CASE passed /\ active
  <2>1. \A i \in Ids : view'[i] = IF i = c.id THEN "IN-PROGRESS" ELSE view[i]
    BY <1>4 DEF TellClient, event_dispatch
  <2> QED
    BY <1>1, <1>2, <1>4, <2>1, QuietView
<1> QED
  BY <1>3, <1>4

(* The engine tells the client nothing by itself.                          *)
LEMMA EngineView ==
    ASSUME NEW c, NEW told, ChannelInv(c), ViewInv(c, told),
           EngineAnswer \/ EngineComplete \/ EngineMarker
    PROVE  ViewInv(c, told)' /\ Forward
<1>1. UNCHANGED <<active, nested, session_request, queue, deferred, request_queue, next_id, view>>
  BY DEF EngineAnswer, EngineComplete, EngineMarker, EngineRespond, EngineFinish, EngineMark,
     machine_vars, session_vars, stack_vars, client_vars
<1>2. Out' = Out
  BY EngineFlight DEF ChannelInv
<1> QED
  BY <1>1, <1>2, QuietView

(* Nor does a step that is not one of the channel.                         *)
LEMMA StutterView ==
    ASSUME NEW c, NEW told, ChannelInv(c), ViewInv(c, told), UNCHANGED channel_vars
    PROVE  ViewInv(c, told)' /\ Forward
<1>1. /\ UNCHANGED <<active, nested, session_request, queue, deferred, request_queue, next_id, view>>
      /\ UNCHANGED <<engine_in, server_in>>
  BY DEF channel_vars, machine_vars, session_vars, stack_vars, engine_vars, client_vars
<1>2. Out' = Out
  BY <1>1 DEF Out, Answers
<1> QED
  BY <1>1, <1>2, QuietView

(* Nor does the deactivation of the channel.                               *)
LEMMA DeactivateView ==
    ASSUME NEW c, NEW told, ChannelInv(c), ViewInv(c, told), DeactivateChannel(c)
    PROVE  ViewInv(c, told)' /\ Forward
<1>1. ~active' /\ UNCHANGED <<next_id, view>>
  BY DEF DeactivateChannel, client_vars
<1>2. c # NoRequest => c.id # 0
  BY DEF ViewInv
<1> QED
  BY <1>1, <1>2, InactiveView

(* Nothing was sent in the initial state.                                  *)
LEMMA InitView ==
    ASSUME ChannelInit, NEW told
    PROVE  ViewInv(NoRequest, told)
<1>1. Out = {} /\ Held = {} /\ DOMAIN request_queue = {}
  BY DEF ChannelInit, Out, Held, Answers
<1>2. \A i \in Ids : view[i] = "unsent"
  BY DEF ChannelInit
<1> QED
  BY <1>1, <1>2 DEF ChannelInit, ViewInv
=============================================================================
