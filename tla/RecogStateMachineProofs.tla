----------------------- MODULE RecogStateMachineProofs -----------------------
(***************************************************************************)
(* The recognizer channel, for any number of requests, any set of methods  *)
(* and any engine: its types; the recognition STOP relies on while it      *)
(* waits for the engine; one response to each request and no NULL          *)
(* dereference (from ChannelInv); the result that stays until the next     *)
(* RECOGNIZE; the recognition that runs in the engine (RunInv); and what   *)
(* the client was told (RecogInv, with StoryInv on the engine's events).   *)
(***************************************************************************)
EXTENDS RecogStateMachine, MrcpChannelProofs

(* The fields of the recognizer state machine itself.                      *)
MachineType == state \in {"IDLE", "RECOGNIZING", "RECOGNIZED"} /\ recog \in Request

(* Leaving or keeping a state is well typed.                               *)
LEMMA MachineTypes ==
    ASSUME MachineType
    PROVE  /\ BecomeIdle => MachineType'
           /\ UNCHANGED sm_vars => MachineType'
           /\ DiscardResult => MachineType'
  BY RequestTypes DEF MachineType, BecomeIdle, DiscardResult, sm_vars

(* Every handler of a client request keeps the types.                      *)
LEMMA RequestTypeOK ==
    ASSUME TypeOK, RecogRequest
    PROVE  TypeOK'
<1>1. session_request \in MrcpRequest
  <2>1. session_request \in Request
    BY DEF TypeOK, ChannelTypeOK
  <2>2. session_request.method \in Methods
    BY DEF RecogRequest, recog_request_params, recog_request_define_grammar,
       recog_request_recognize, recog_request_interpret, recog_request_get_result,
       recog_request_recognition_start_timers, recog_request_stop, Handling, Methods,
       RecogMethods
  <2> QED
    BY <2>1, <2>2 DEF MrcpRequest
<1>2. MachineType'
  <2>1. MachineType
    BY DEF TypeOK, MachineType
  <2> QED
    BY <2>1, MachineTypes DEF RecogRequest, recog_request_params,
       recog_request_define_grammar, recog_request_recognize, recog_request_interpret,
       recog_request_get_result, recog_request_recognition_start_timers,
       recog_request_stop
<1>3. CASE recog_request_recognize
  <2>1. session_request \in QueuedRequest
    BY <1>1, <1>3
       DEF recog_request_recognize, Handling, MrcpRequest, QueuedRequest, Queueing
  <2> QED
    BY <1>2, <1>3, <2>1, StartOrQueueType DEF recog_request_recognize, TypeOK, MachineType
<1>4. CASE recog_request_stop
  BY <1>1, <1>2, <1>4, StopOrRemoveType DEF recog_request_stop, TypeOK, MachineType
<1>5. CASE \E forward \in BOOLEAN : ForwardOrRespond(forward)
  BY <1>1, <1>2, <1>5, ForwardOrRespondType DEF TypeOK, MachineType
<1> QED
  BY <1>3, <1>4, <1>5 DEF RecogRequest, recog_request_params,
     recog_request_define_grammar, recog_request_interpret, recog_request_get_result,
     recog_request_recognition_start_timers

(* Every handler of a response keeps the types.                            *)
LEMMA ResponseTypeOK ==
    ASSUME TypeOK, RecogResponse
    PROVE  TypeOK'
<1> USE ViewTypes, MachineTypes
<1>1. ChannelTypeOK /\ MachineType
  BY DEF TypeOK, MachineType
<1>2. SUFFICES ChannelTypeOK' /\ MachineType'
  BY DEF TypeOK, MachineType
<1>3. StartedState \in Views
  BY DEF StartedState
<1>4. CASE UnexpectedResponse
  BY <1>1, <1>4, IgnoreType DEF UnexpectedResponse
<1>5. CASE recog_response_plain
  BY <1>1, <1>5, PassOnType DEF recog_response_plain
<1>6. CASE recog_response_recognize
  <2>1. ResponseTo({"RECOGNIZE"})
    BY <1>6 DEF recog_response_recognize
  <2>2. MachineType'
    BY <1>1, <1>6 DEF recog_response_recognize, MachineType, ChannelTypeOK
  <2>3. CASE is_pending
    <3>1. /\ is_pending' = FALSE
          /\ UNCHANGED <<active, active_request, queue>>
          /\ UNCHANGED <<session_state, session_request, request_queue>>
          /\ UNCHANGED <<nested, deferred, crashed>>
          /\ UNCHANGED <<next_id, view, responses, deactivations>>
      BY <1>6, <2>3 DEF recog_response_recognize, session_vars, stack_vars, client_vars
    <3> QED
      BY <1>1, <2>1, <2>2, <3>1, ResponseToType DEF ChannelTypeOK
  <2>4. CASE ~is_pending
    BY <1>1, <1>3, <1>6, <2>1, <2>2, <2>4, PassOnType DEF recog_response_recognize
  <2> QED
    BY <2>3, <2>4
<1>7. CASE recog_response_interpret
  BY <1>1, <1>3, <1>7, PassOnType DEF recog_response_interpret
<1>8. CASE recog_response_stop
  BY <1>1, <1>8, NullType, EndByStopType DEF recog_response_stop
<1>9. CASE RecogDeferred
  BY <1>1, <1>9, DeferredType DEF RecogDeferred
<1> QED
  BY <1>4, <1>5, <1>6, <1>7, <1>8, <1>9 DEF RecogResponse

(* Every handler of an event keeps the types.                              *)
LEMMA EventTypeOK ==
    ASSUME TypeOK, RecogEvent
    PROVE  TypeOK'
<1>1. ASSUME NEW name, EventNamed(name), NEW passed, NEW rstate \in Views,
             TellClient(passed, rstate), UNCHANGED sm_vars
      PROVE  TypeOK'
  BY <1>1, TellClientType DEF TypeOK, sm_vars
<1>2. CASE recog_event_start_of_input
  BY <1>1, <1>2, ViewTypes DEF recog_event_start_of_input
<1>3. CASE recog_event_recognition_complete
  <2>1. CASE EventOfRecog /\ ~StopInProgress
    BY <1>3, <2>1, CompleteType DEF recog_event_recognition_complete, TypeOK
  <2>2. CASE ~(EventOfRecog /\ ~StopInProgress)
    BY <1>1, <1>3, <2>2, ViewTypes DEF recog_event_recognition_complete
  <2> QED
    BY <2>1, <2>2
<1>4. CASE recog_event_interpretation_complete
  BY <1>1, <1>4, ViewTypes DEF recog_event_interpretation_complete
<1> QED
  BY <1>2, <1>3, <1>4 DEF RecogEvent

(* The initial state is well typed.                                        *)
LEMMA InitTypeOK == Init => TypeOK
  BY InitType, RequestTypes DEF Init, TypeOK

(* Every step keeps the types.                                             *)
LEMMA NextTypeOK == TypeOK /\ [Next]_vars => TypeOK'
<1> SUFFICES ASSUME TypeOK, [Next]_vars PROVE TypeOK'
  OBVIOUS
<1>1. CASE Client
  BY <1>1, ClientType DEF Client, TypeOK, sm_vars
<1>2. CASE SessionDeactivate
  <2>1. (IF state = "RECOGNIZING" THEN recog ELSE NoRequest) \in Request
    BY RequestTypes DEF TypeOK
  <2> QED
    BY <1>2, <2>1, DeactivateType DEF SessionDeactivate, TypeOK, sm_vars
<1>3. CASE RecogRequest
  BY <1>3, RequestTypeOK
<1>4. CASE RecogResponse
  BY <1>4, ResponseTypeOK
<1>5. CASE RecogEvent
  BY <1>5, EventTypeOK
<1>6. CASE Engine
  BY <1>6, EngineType DEF Engine, TypeOK, sm_vars
<1>7. CASE UNCHANGED vars
  BY <1>7, StutterType DEF vars, TypeOK, sm_vars
<1> QED
  BY <1>1, <1>2, <1>3, <1>4, <1>5, <1>6, <1>7 DEF Next, ServerTask

(* Type correctness: in particular only requests that may wait are queued  *)
(* in the state machine, and only MRCP requests reach an engine.           *)
THEOREM TypeCorrect == Spec => []TypeOK
  BY InitTypeOK, NextTypeOK, PTL DEF Spec

-----------------------------------------------------------------------------
(* Nothing is the active request in the initial state.                     *)
LEMMA InitStopFindsRecognition == Init => StopFindsRecognition
  BY DEF Init, ChannelInit, StopFindsRecognition, NoRequest

(* Once no request or a request that was queued is the active one, nothing *)
(* is asked of the state.                                                  *)
LEMMA NoStopActive ==
    active_request' = NoRequest \/ active_request' \in QueuedRequest
        => StopFindsRecognition'
  BY RequestTypes DEF StopFindsRecognition, NoRequest, Queueing

(* Whatever leaves the active request and the state alone.                 *)
LEMMA SameState ==
    StopFindsRecognition /\ active_request' = active_request /\ state' = state
        => StopFindsRecognition'
  BY DEF StopFindsRecognition

(* Every step keeps the recognition that STOP needs.                       *)
LEMMA NextStopFindsRecognition ==
    TypeOK /\ StopFindsRecognition /\ [Next]_vars => StopFindsRecognition'
<1> SUFFICES ASSUME TypeOK, StopFindsRecognition, [Next]_vars
             PROVE  StopFindsRecognition'
  OBVIOUS
<1>1. ChannelTypeOK
  BY DEF TypeOK
<1>2. CASE Client
  BY <1>1, <1>2, ClientType, SameState DEF Client, sm_vars
<1>3. CASE SessionDeactivate
  <2>1. CASE state = "RECOGNIZING"
    BY <1>3, <2>1 DEF SessionDeactivate, StopFindsRecognition, sm_vars
  <2>2. CASE state # "RECOGNIZING"
    BY <1>3, <2>2, SameState DEF SessionDeactivate, DeactivateChannel, sm_vars
  <2> QED
    BY <2>1, <2>2
<1>4. CASE RecogRequest
  <2>1. ASSUME NEW id, NEW rstate, NEW ended, RespondAndReturn(id, rstate, ended)
        PROVE  StopFindsRecognition'
    BY <2>1, NoStopActive DEF RespondAndReturn, response_dispatch
  <2>2. ASSUME DispatchAndReturn(session_request), session_request.method # "STOP"
        PROVE  StopFindsRecognition'
    BY <2>2 DEF DispatchAndReturn, request_dispatch, StopFindsRecognition
  <2>3. CASE recog_request_params
    BY <2>2, <2>3 DEF recog_request_params, Handling, ForwardOrRespond
  <2>4. CASE recog_request_define_grammar
    BY <2>1, <2>2, <2>4 DEF recog_request_define_grammar, Handling, ForwardOrRespond
  <2>5. CASE recog_request_recognize
    BY <2>1, <2>2, <2>5 DEF recog_request_recognize, Handling, StartOrQueue
  <2>6. CASE recog_request_interpret
    BY <2>2, <2>6 DEF recog_request_interpret, Handling, ForwardOrRespond
  <2>7. CASE recog_request_get_result
    BY <2>1, <2>2, <2>7 DEF recog_request_get_result, Handling, ForwardOrRespond
  <2>8. CASE recog_request_recognition_start_timers
    BY <2>1, <2>2, <2>8
       DEF recog_request_recognition_start_timers, Handling, ForwardOrRespond
  <2>9. CASE recog_request_stop
    <3>1. CASE state = "RECOGNIZING" /\ Selects(session_request, recog)
      BY <2>9, <3>1 DEF recog_request_stop, DiscardResult, StopFindsRecognition, sm_vars
    <3>2. CASE ~(state = "RECOGNIZING" /\ Selects(session_request, recog))
      BY <2>1, <2>9, <3>2 DEF recog_request_stop, StopOrRemove
    <3> QED
      BY <3>1, <3>2
  <2> QED
    BY <1>4, <2>3, <2>4, <2>5, <2>6, <2>7, <2>8, <2>9 DEF RecogRequest
<1>5. CASE RecogResponse
  <2>1. ASSUME NEW id, NEW rstate, NEW ended, response_dispatch(id, rstate, ended)
        PROVE  StopFindsRecognition'
    BY <2>1, NoStopActive DEF response_dispatch
  <2>2. CASE UnexpectedResponse
    BY <2>2, SameState DEF UnexpectedResponse, IgnoreResponse, machine_vars, sm_vars
  <2>3. CASE recog_response_plain
    BY <2>1, <2>3 DEF recog_response_plain, PassOn
  <2>4. CASE recog_response_recognize
    <3>1. CASE is_pending
      <4>1. active_request' = active_request
        BY <2>4, <3>1 DEF recog_response_recognize
      <4>2. state' = "RECOGNIZING" \/ state' = state
        BY <2>4 DEF recog_response_recognize, sm_vars
      <4> QED
        BY <4>1, <4>2 DEF StopFindsRecognition
    <3>2. CASE ~is_pending
      BY <2>1, <2>4, <3>2 DEF recog_response_recognize, PassOn
    <3> QED
      BY <3>1, <3>2
  <2>5. CASE recog_response_interpret
    BY <2>1, <2>5 DEF recog_response_interpret, PassOn
  <2>6. CASE recog_response_stop
    <3>1. CASE recog = NoRequest
      BY <2>6, <3>1, SameState
         DEF recog_response_stop, NullDereference, machine_vars, sm_vars
    <3>2. CASE recog # NoRequest
      BY <2>1, <2>6, <3>2 DEF recog_response_stop, EndByStop
    <3> QED
      BY <3>1, <3>2
  <2>7. CASE RecogDeferred
    BY <1>1, <2>7, DeferredType, NoStopActive DEF RecogDeferred
  <2> QED
    BY <1>5, <2>2, <2>3, <2>4, <2>5, <2>6, <2>7 DEF RecogResponse
<1>6. CASE RecogEvent
  <2>1. ASSUME NEW passed, NEW rstate, TellClient(passed, rstate), UNCHANGED sm_vars
        PROVE  StopFindsRecognition'
    BY <2>1, SameState DEF TellClient, sm_vars
  <2>2. CASE recog_event_start_of_input
    BY <2>1, <2>2 DEF recog_event_start_of_input
  <2>3. CASE recog_event_recognition_complete
    <3>1. CASE EventOfRecog /\ ~StopInProgress
      <4>1. active_request' = active_request \/ active_request' \in QueuedRequest
        BY <1>1, <2>3, <3>1, CompleteType DEF recog_event_recognition_complete
      <4>2. active_request' = active_request => StopFindsRecognition'
        BY <3>1 DEF StopInProgress, StopFindsRecognition
      <4> QED
        BY <4>1, <4>2, NoStopActive
    <3>2. CASE ~(EventOfRecog /\ ~StopInProgress)
      BY <2>1, <2>3, <3>2 DEF recog_event_recognition_complete
    <3> QED
      BY <3>1, <3>2
  <2>4. CASE recog_event_interpretation_complete
    BY <2>1, <2>4 DEF recog_event_interpretation_complete
  <2> QED
    BY <1>6, <2>2, <2>3, <2>4 DEF RecogEvent
<1>7. CASE Engine
  BY <1>1, <1>7, EngineType, SameState DEF Engine, sm_vars
<1>8. CASE UNCHANGED vars
  BY <1>8, SameState DEF vars, channel_vars, machine_vars, sm_vars
<1> QED
  BY <1>2, <1>3, <1>4, <1>5, <1>6, <1>7, <1>8 DEF Next, ServerTask

(* RECOGNITION-COMPLETE never ends the recognition that a STOP with the    *)
(* engine is about, whatever the engine and the client interleave: the     *)
(* event is ignored while the response to STOP is expected (l. 350).       *)
THEOREM StopAlwaysFindsRecognition == Spec => []StopFindsRecognition
<1>1. TypeOK /\ StopFindsRecognition /\ [Next]_vars => (TypeOK /\ StopFindsRecognition)'
  BY NextTypeOK, NextStopFindsRecognition
<1>2. Init => TypeOK /\ StopFindsRecognition
  BY InitTypeOK, InitStopFindsRecognition
<1> QED
  BY <1>1, <1>2, PTL DEF Spec

-----------------------------------------------------------------------------
(* The recognition in progress: recog is kept until its result is.         *)
Current == IF state = "RECOGNIZING" THEN recog ELSE NoRequest

(* IDLE means that there is no recognition, in progress or with a result.  *)
IdleIsEmpty == state = "IDLE" <=> recog = NoRequest

(* recog_state_change and the response to RECOGNIZE keep both in step.     *)
LEMMA NextIdleIsEmpty == IdleIsEmpty /\ [Next]_vars => IdleIsEmpty'
<1> SUFFICES ASSUME IdleIsEmpty, [Next]_vars PROVE IdleIsEmpty'
  OBVIOUS
<1>1. UNCHANGED sm_vars \/ BecomeIdle => IdleIsEmpty'
  BY DEF IdleIsEmpty, sm_vars, BecomeIdle
<1>2. CASE RecogRequest
  BY <1>1, <1>2 DEF RecogRequest, recog_request_params, recog_request_define_grammar,
     recog_request_recognize, recog_request_interpret, recog_request_get_result,
     recog_request_recognition_start_timers, recog_request_stop, DiscardResult
<1>3. CASE recog_response_recognize
  BY <1>1, <1>3 DEF recog_response_recognize, ResponseTo, Expected, IdleIsEmpty
<1>4. CASE recog_event_recognition_complete
  BY <1>1, <1>4 DEF recog_event_recognition_complete, EventOfRecog, IdleIsEmpty
<1>5. CASE UNCHANGED sm_vars \/ BecomeIdle
  BY <1>1, <1>5
<1> QED
  BY <1>2, <1>3, <1>4, <1>5 DEF Next, Client, ServerTask, SessionDeactivate, RecogResponse,
     UnexpectedResponse, recog_response_plain, recog_response_interpret, recog_response_stop,
     RecogDeferred, RecogEvent, recog_event_start_of_input,
     recog_event_interpretation_complete, Engine, vars

(* Every step keeps the invariant of the channel.                          *)
LEMMA NextChannelInv ==
    ASSUME IdleIsEmpty, ChannelInv(Current), [Next]_vars
    PROVE  ChannelInv(Current)'
<1>1. PICK c, d : c = Current /\ d = Current'
  OBVIOUS
<1>2. SUFFICES ChannelInv(d)'
  BY <1>1
<1>3. ChannelInv(c)
  BY <1>1
<1>4. UNCHANGED sm_vars => d = c
  BY <1>1 DEF sm_vars, Current
<1>5. BecomeIdle \/ state' = "RECOGNIZED" => d = NoRequest
  BY <1>1 DEF BecomeIdle, Current
<1>6. DiscardResult => d = c
  BY <1>1, <1>4 DEF BecomeIdle, Current, DiscardResult
<1>7. CASE Client
  BY <1>3, <1>4, <1>7, ClientInv DEF Client
<1>8. CASE SessionDeactivate
  <2>1. DeactivateChannel(c)
    BY <1>1, <1>8 DEF SessionDeactivate, Current
  <2> QED
    BY <1>3, <1>4, <1>8, <2>1, DeactivateInv DEF SessionDeactivate
<1>9. CASE RecogRequest
  <2>1. nested /\ session_request.method \in Methods
    BY <1>9 DEF RecogRequest, recog_request_params, recog_request_define_grammar,
       recog_request_recognize, recog_request_interpret, recog_request_get_result,
       recog_request_recognition_start_timers, recog_request_stop, Handling, Methods,
       RecogMethods
  <2>2. CASE recog_request_recognize
    <3>1. session_request.method \in Queueing /\ UNCHANGED sm_vars
      BY <2>2 DEF recog_request_recognize, Handling, Queueing
    <3>2. PICK occupied \in BOOLEAN : occupied = (state = "RECOGNIZING")
      OBVIOUS
    <3>3. StartOrQueue(occupied)
      BY <2>2, <3>2 DEF recog_request_recognize
    <3>4. occupied => c # NoRequest
      BY <1>1, <3>2 DEF Current, IdleIsEmpty
    <3> QED
      BY <1>3, <1>4, <2>1, <3>1, <3>3, <3>4, StartOrQueueInv
  <2>3. CASE recog_request_stop
    BY <1>3, <1>6, <2>1, <2>3, StopOrRemoveInv DEF recog_request_stop
  <2>4. ASSUME NEW forward \in BOOLEAN, ForwardOrRespond(forward),
               UNCHANGED sm_vars \/ DiscardResult
        PROVE  ChannelInv(d)'
    BY <1>3, <1>4, <1>6, <2>1, <2>4, ForwardOrRespondInv
  <2> QED
    BY <1>9, <2>2, <2>3, <2>4 DEF RecogRequest, recog_request_params,
       recog_request_define_grammar, recog_request_interpret, recog_request_get_result,
       recog_request_recognition_start_timers
<1>10. CASE RecogResponse
  <2>1. CASE UnexpectedResponse
    BY <1>3, <1>4, <2>1, IgnoreInv DEF UnexpectedResponse
  <2>2. CASE recog_response_plain
    <3> DEFINE plain == {"SET-PARAMS", "GET-PARAMS", "DEFINE-GRAMMAR", "GET-RESULT",
                         "START-INPUT-TIMERS"}
    <3>1. ResponseTo(plain) /\ PassOn("COMPLETE") /\ UNCHANGED sm_vars
      BY <2>2 DEF recog_response_plain
    <3>2. plain \cap Queueing = {} /\ "STOP" \notin plain
      BY DEF Queueing
    <3> HIDE DEF plain
    <3> QED
      BY <1>3, <1>4, <3>1, <3>2, PassOnInv, ViewTypes
  <2>3. CASE recog_response_recognize
    <3>1. ResponseTo({"RECOGNIZE"}) /\ {"RECOGNIZE"} \subseteq Queueing
      BY <2>3 DEF recog_response_recognize, Queueing
    <3>2. d = c \/ d = active_request
      BY <1>1, <1>4, <2>3 DEF recog_response_recognize, Current
    <3>3. CASE is_pending
      <4>1. /\ is_pending' = FALSE
            /\ UNCHANGED <<active_request, active, queue>>
            /\ UNCHANGED <<session_state, session_request, request_queue>>
            /\ UNCHANGED <<nested, deferred, crashed>>
            /\ UNCHANGED <<next_id, view, responses, deactivations>>
        BY <2>3, <3>3 DEF recog_response_recognize, session_vars, stack_vars, client_vars
      <4>2. ChannelTypeOK'
        BY <1>3, <3>1, <4>1, ResponseToType DEF ChannelInv, ChannelTypeOK
      <4> QED
        BY <1>3, <3>1, <3>2, <3>3, <4>1, <4>2, PendingInv
    <3>4. CASE ~is_pending
      <4>1. PassOn(StartedState) /\ StartedState \in Views /\ "STOP" \notin {"RECOGNIZE"}
        BY <2>3, <3>4, ViewTypes DEF recog_response_recognize, StartedState
      <4> QED
        BY <1>3, <3>1, <3>2, <3>4, <4>1, PassOnInv
    <3> QED
      BY <3>3, <3>4
  <2>4. CASE recog_response_interpret
    <3>1. /\ ResponseTo({"INTERPRET"}) /\ PassOn(StartedState) /\ UNCHANGED sm_vars
          /\ StartedState \in Views
      BY <2>4, ViewTypes DEF recog_response_interpret, StartedState
    <3>2. {"INTERPRET"} \cap Queueing = {} /\ "STOP" \notin {"INTERPRET"}
      BY DEF Queueing
    <3> QED
      BY <1>3, <1>4, <3>1, <3>2, PassOnInv
  <2>5. CASE recog_response_stop
    BY <1>3, <1>4, <1>5, <2>5, NullInv, EndByStopInv DEF recog_response_stop
  <2>6. CASE RecogDeferred
    <3>1. c = NoRequest
      BY <1>3, <2>6 DEF RecogDeferred, DispatchDeferred, ChannelInv, Turns
    <3> QED
      BY <1>3, <1>4, <2>6, <3>1, DeferredInv DEF RecogDeferred
  <2> QED
    BY <1>10, <2>1, <2>2, <2>3, <2>4, <2>5, <2>6 DEF RecogResponse
<1>11. CASE RecogEvent
  <2>1. ASSUME NEW name, NEW passed, NEW rstate \in Views, EventNamed(name),
               TellClient(passed, rstate), UNCHANGED sm_vars
        PROVE  ChannelInv(d)'
    BY <1>3, <1>4, <2>1, TellClientInv
  <2>2. CASE recog_event_start_of_input
    BY <2>1, <2>2, ViewTypes DEF recog_event_start_of_input
  <2>3. CASE recog_event_recognition_complete
    <3>1. CASE EventOfRecog /\ ~StopInProgress
      <4>1. ~Internal
        BY <3>1 DEF StopInProgress, Internal
      <4> QED
        BY <1>3, <1>5, <2>3, <3>1, <4>1, CompleteInv DEF recog_event_recognition_complete
    <3>2. CASE ~(EventOfRecog /\ ~StopInProgress)
      BY <2>1, <2>3, <3>2, ViewTypes DEF recog_event_recognition_complete
    <3> QED
      BY <3>1, <3>2
  <2>4. CASE recog_event_interpretation_complete
    BY <2>1, <2>4, ViewTypes DEF recog_event_interpretation_complete
  <2> QED
    BY <1>11, <2>2, <2>3, <2>4 DEF RecogEvent
<1>12. CASE Engine
  BY <1>3, <1>4, <1>12, EngineInv DEF Engine
<1>13. CASE UNCHANGED vars
  BY <1>3, <1>4, <1>13, StutterInv DEF vars
<1> QED
  BY <1>7, <1>8, <1>9, <1>10, <1>11, <1>12, <1>13 DEF Next, ServerTask

(* The channel of a recognizer keeps the invariant.                        *)
LEMMA RecogChannelInv == Spec => [](ChannelInv(Current) /\ IdleIsEmpty)
<1>1. Init => ChannelInv(Current) /\ IdleIsEmpty
  <2> SUFFICES ASSUME Init PROVE ChannelInv(Current) /\ IdleIsEmpty
    OBVIOUS
  <2>1. ChannelInv(NoRequest) /\ Current = NoRequest
    BY InitInv DEF Init, Current
  <2> QED
    BY <2>1 DEF Init, IdleIsEmpty
<1>2. ChannelInv(Current) /\ IdleIsEmpty /\ [Next]_vars
         => (ChannelInv(Current) /\ IdleIsEmpty)'
  BY NextChannelInv, NextIdleIsEmpty
<1> QED
  BY <1>1, <1>2, PTL DEF Spec

(* A response that passes the id check of recog_response_dispatch (l. 442) *)
(* is the response to the active request, although the deactivation of the *)
(* channel numbers its STOP itself, one above the recognition.             *)
THEOREM ResponsesMatch == Spec => []ResponseMatchesRequest
<1>1. ChannelInv(Current) => ResponseMatchesRequest
  BY InvImplies
<1> QED
  BY <1>1, RecogChannelInv, PTL

(* No request of the client is answered twice, pipelined or not.           *)
THEOREM AnsweredOnce == Spec => []AtMostOneResponse
<1>1. ChannelInv(Current) => AtMostOneResponse
  BY InvImplies
<1> QED
  BY <1>1, RecogChannelInv, PTL

-----------------------------------------------------------------------------
(* The handlers of requests, of events and the engine read no request that *)
(* could be missing.                                                       *)
LEMMA OnlyStopCrashes ==
    ASSUME [Next]_vars, ~recog_response_stop
    PROVE  crashed' = crashed
<1>1. CASE RecogRequest
  BY <1>1 DEF RecogRequest, recog_request_params, recog_request_define_grammar,
     recog_request_recognize, recog_request_interpret, recog_request_get_result,
     recog_request_recognition_start_timers, recog_request_stop, ForwardOrRespond,
     StartOrQueue, StopOrRemove, DispatchAndReturn, RespondAndReturn
<1>2. CASE RecogResponse
  BY <1>2 DEF RecogResponse, UnexpectedResponse, IgnoreResponse, recog_response_plain,
     recog_response_recognize, recog_response_interpret, RecogDeferred, PassOn,
     DispatchDeferred, stack_vars
<1>3. CASE RecogEvent
  BY <1>3 DEF RecogEvent, recog_event_start_of_input, recog_event_recognition_complete,
     recog_event_interpretation_complete, EventNamed, stack_vars
<1>4. CASE Client
  BY <1>4 DEF Client, ChannelClient, ClientRequest, ClientTerminate, SignalingMessageProcess
<1>5. CASE SessionDeactivate
  BY <1>5 DEF SessionDeactivate, DeactivateChannel
<1>6. CASE Engine
  BY <1>6 DEF Engine, EngineAnswer, EngineComplete, EngineMarker, EngineRespond,
     EngineFinish, EngineMark, stack_vars
<1>7. CASE UNCHANGED vars
  BY <1>7 DEF vars, channel_vars, stack_vars
<1> QED
  BY <1>1, <1>2, <1>3, <1>4, <1>5, <1>6, <1>7 DEF Next, ServerTask

(* recog_response_stop never reads through a NULL recog (l. 299): a STOP   *)
(* goes to the engine only while a recognition is in progress (l. 288),    *)
(* the response it accepts is the one to that STOP, and nothing ends the   *)
(* recognition before it.                                                  *)
THEOREM RecogNeverNull == Spec => []NoNullDereference
<1> DEFINE I == /\ ChannelInv(Current) /\ IdleIsEmpty /\ TypeOK /\ StopFindsRecognition
                /\ NoNullDereference
<1>1. Init => NoNullDereference
  BY DEF Init, ChannelInit, NoNullDereference
<1>2. I /\ [Next]_vars => NoNullDereference'
  <2> SUFFICES ASSUME I, [Next]_vars PROVE NoNullDereference'
    OBVIOUS
  <2>1. CASE recog_response_stop
    <3>1. ResponseTo({"STOP"})
      BY <2>1 DEF recog_response_stop
    <3>2. active_request.method = "STOP"
      <4>1. PICK c : c = Current
        OBVIOUS
      <4> QED
        BY <3>1, <4>1, AcceptedIs
    <3>3. recog # NoRequest
      BY <3>2 DEF StopFindsRecognition, IdleIsEmpty
    <3> QED
      BY <2>1, <3>3 DEF recog_response_stop, EndByStop, NoNullDereference
  <2>2. CASE ~recog_response_stop
    BY <2>2, OnlyStopCrashes DEF NoNullDereference
  <2> QED
    BY <2>1, <2>2
<1> QED
  BY <1>1, <1>2, RecogChannelInv, TypeCorrect, StopAlwaysFindsRecognition, PTL DEF Spec

(* Nothing but GET-RESULT itself asks for the result.                      *)
LEMMA NoResultAsked ==
    active_request'.method # "GET-RESULT" => ResultNotReplaced'
  BY DEF ResultNotReplaced

(* Every step keeps the result that is being fetched.                      *)
LEMMA NextResultNotReplaced ==
    ASSUME ChannelInv(Current), TypeOK, ResultNotReplaced, [Next]_vars
    PROVE  ResultNotReplaced'
<1>0. ChannelTypeOK
  BY DEF TypeOK
<1>1. NoRequest.method # "GET-RESULT" /\ "GET-RESULT" \notin Queueing
  BY DEF NoRequest, Queueing
<1>2. ASSUME active_request' = active_request, UNCHANGED sm_vars
      PROVE  ResultNotReplaced'
  BY <1>2 DEF ResultNotReplaced, sm_vars
<1>3. ASSUME NEW id, NEW rstate, NEW ended, response_dispatch(id, rstate, ended)
      PROVE  ResultNotReplaced'
  BY <1>1, <1>3, NoResultAsked DEF response_dispatch
<1>4. CASE Client
  BY <1>0, <1>2, <1>4, ClientType DEF Client
<1>5. CASE SessionDeactivate
  <2>1. active_request' = active_request \/ active_request'.method = "STOP"
    BY <1>5 DEF SessionDeactivate, DeactivateChannel, request_dispatch
  <2> QED
    BY <1>2, <1>5, <2>1, NoResultAsked DEF SessionDeactivate
<1>6. CASE RecogRequest
  <2>1. ASSUME NEW id, NEW rstate, NEW ended, RespondAndReturn(id, rstate, ended)
        PROVE  ResultNotReplaced'
    BY <1>3, <2>1 DEF RespondAndReturn
  <2>2. ASSUME DispatchAndReturn(session_request), session_request.method # "GET-RESULT"
        PROVE  ResultNotReplaced'
    BY <2>2, NoResultAsked DEF DispatchAndReturn, request_dispatch
  <2>3. CASE recog_request_params
    BY <2>2, <2>3 DEF recog_request_params, Handling, ForwardOrRespond
  <2>4. CASE recog_request_define_grammar
    BY <2>1, <2>2, <2>4 DEF recog_request_define_grammar, Handling, ForwardOrRespond
  <2>5. CASE recog_request_recognize
    BY <2>1, <2>2, <2>5 DEF recog_request_recognize, Handling, StartOrQueue
  <2>6. CASE recog_request_interpret
    BY <2>2, <2>6 DEF recog_request_interpret, Handling, ForwardOrRespond
  <2>7. CASE recog_request_get_result
    <3>1. CASE state = "RECOGNIZED"
      BY <2>7, <3>1 DEF recog_request_get_result, ResultNotReplaced, sm_vars
    <3>2. CASE state # "RECOGNIZED"
      BY <2>1, <2>7, <3>2 DEF recog_request_get_result, ForwardOrRespond
    <3> QED
      BY <3>1, <3>2
  <2>8. CASE recog_request_recognition_start_timers
    BY <2>1, <2>2, <2>8
       DEF recog_request_recognition_start_timers, Handling, ForwardOrRespond
  <2>9. CASE recog_request_stop
    BY <2>1, <2>2, <2>9 DEF recog_request_stop, Handling, StopOrRemove
  <2> QED
    BY <1>6, <2>3, <2>4, <2>5, <2>6, <2>7, <2>8, <2>9 DEF RecogRequest
<1>7. CASE RecogResponse
  <2>1. CASE UnexpectedResponse
    BY <1>2, <2>1 DEF UnexpectedResponse, IgnoreResponse, machine_vars
  <2>2. CASE recog_response_plain
    BY <1>3, <2>2 DEF recog_response_plain, PassOn
  <2>3. CASE recog_response_recognize
    <3>1. ResponseTo({"RECOGNIZE"})
      BY <2>3 DEF recog_response_recognize
    <3>2. active_request.method = "RECOGNIZE"
      <4>1. PICK c : c = Current
        OBVIOUS
      <4> QED
        BY <3>1, <4>1, AcceptedIs
    <3>3. active_request' = active_request \/ active_request' = NoRequest
      BY <2>3 DEF recog_response_recognize, PassOn, response_dispatch
    <3> QED
      BY <1>1, <3>2, <3>3, NoResultAsked
  <2>4. CASE recog_response_interpret
    BY <1>3, <2>4 DEF recog_response_interpret, PassOn
  <2>5. CASE recog_response_stop
    BY <1>2, <1>3, <2>5 DEF recog_response_stop, NullDereference, EndByStop, machine_vars
  <2>6. CASE RecogDeferred
    BY <1>0, <1>1, <2>6, DeferredType, RequestTypes, NoResultAsked DEF RecogDeferred
  <2> QED
    BY <1>7, <2>1, <2>2, <2>3, <2>4, <2>5, <2>6 DEF RecogResponse
<1>8. CASE RecogEvent
  <2>1. CASE recog_event_recognition_complete /\ EventOfRecog /\ ~StopInProgress
    BY <2>1 DEF recog_event_recognition_complete, ResultNotReplaced
  <2> QED
    BY <1>2, <1>8, <2>1 DEF RecogEvent, recog_event_start_of_input, TellClient,
       recog_event_recognition_complete, recog_event_interpretation_complete
<1>9. CASE Engine
  BY <1>0, <1>2, <1>9, EngineType DEF Engine
<1>10. CASE UNCHANGED vars
  BY <1>2, <1>10 DEF vars, channel_vars, machine_vars
<1> QED
  BY <1>4, <1>5, <1>6, <1>7, <1>8, <1>9, <1>10 DEF Next, ServerTask

(* The result that GET-RESULT is fetching (l. 192) is not replaced by a    *)
(* recognition that was pending: its response carries another id than the  *)
(* active request and is refused.                                          *)
THEOREM ResultStays == Spec => []ResultNotReplaced
<1>1. Init => ResultNotReplaced
  BY DEF Init, ChannelInit, ResultNotReplaced, NoRequest
<1>2. ChannelInv(Current) /\ TypeOK /\ ResultNotReplaced /\ [Next]_vars
         => ResultNotReplaced'
  BY NextResultNotReplaced
<1> QED
  BY <1>1, <1>2, RecogChannelInv, TypeCorrect, PTL DEF Spec

-----------------------------------------------------------------------------
(* The recognition that the state machine waits for.                       *)

(* The completion of recognition i is behind the first k messages.         *)
IsCompletion(m, i) == m.kind = "event" /\ m.method = "RECOGNITION-COMPLETE" /\ m.id = i
Completing(i, k) == \E l \in DOMAIN server_in : l > k /\ IsCompletion(server_in[l], i)

(* A STOP that the engine has is the active request, until its response is *)
(* handled.                                                                *)
StopIsActive ==
    /\ StopInProgress => active_request.id \in Out
    /\ \A r \in engine_in :
          r.method \in Stopping => StopInProgress /\ r.id = active_request.id

(* A recognition whose start is reported to the state machine is run by    *)
(* the engine, or has completed since.                                     *)
StartIsTrue ==
    /\ \A r \in engine_in : r.id = active_request.id => r = active_request
    /\ \A k \in DOMAIN server_in :
          /\ server_in[k].kind = "response" /\ server_in[k].id = active_request.id
          /\ server_in[k].method = "RECOGNIZE" /\ server_in[k].reply = "IN-PROGRESS"
          => active_request \in in_progress \/ Completing(active_request.id, k)

(* What is in progress runs, or has completed, or is being stopped.        *)
Runs ==
    state = "RECOGNIZING" =>
        /\ recog.method = "RECOGNIZE"
        /\ recog \in in_progress \/ Completing(recog.id, 0) \/ StopInProgress

RunInv == StopIsActive /\ StartIsTrue /\ Runs

(* The messages that are left once the first is taken.                     *)
LEMMA TakenMessages ==
    ASSUME ChannelTypeOK, server_in # <<>>, server_in' = Tail(server_in)
    PROVE  /\ \A k \in DOMAIN server_in' :
                 /\ k \in Nat /\ k >= 1
                 /\ k + 1 \in DOMAIN server_in /\ server_in'[k] = server_in[k + 1]
           /\ 1 \in DOMAIN server_in /\ Received = server_in[1]
           /\ \A k \in DOMAIN server_in : k # 1 =>
                 k - 1 \in DOMAIN server_in' /\ server_in'[k - 1] = server_in[k]
           /\ \A k \in DOMAIN server_in : k \in Nat /\ k >= 1
<1>1. server_in \in Seq(EngineMessage)
  BY DEF ChannelTypeOK
<1>2. /\ 1 \in DOMAIN server_in /\ Received = server_in[1]
      /\ DOMAIN server_in' = 1..(Len(server_in) - 1) /\ Len(server_in) \in Nat
      /\ DOMAIN server_in = 1..Len(server_in)
  BY <1>1 DEF Received
<1>3. \A k \in DOMAIN server_in' :
         k + 1 \in DOMAIN server_in /\ server_in'[k] = server_in[k + 1]
  BY <1>1
<1>4. \A k \in DOMAIN server_in : k # 1 =>
         k - 1 \in DOMAIN server_in' /\ server_in'[k - 1] = server_in[k]
  BY <1>1
<1> QED
  BY <1>2, <1>3, <1>4

(* A completion stays until it is taken.                                   *)
LEMMA StillCompleting ==
    ASSUME ChannelTypeOK, server_in # <<>>, server_in' = Tail(server_in), NEW i
    PROVE  /\ \A k \in DOMAIN server_in' : Completing(i, k + 1) => Completing(i, k)'
           /\ Completing(i, 1) => Completing(i, 0)'
           /\ Completing(i, 0) /\ ~IsCompletion(Received, i) => Completing(i, 0)'
<1>1. ASSUME NEW k \in Nat, Completing(i, k + 1) PROVE Completing(i, k)'
  <2>1. PICK l \in DOMAIN server_in : l > k + 1 /\ IsCompletion(server_in[l], i)
    BY <1>1 DEF Completing
  <2>2. l \in Nat /\ l # 1 /\ l - 1 > k
    BY <2>1, TakenMessages
  <2>3. l - 1 \in DOMAIN server_in' /\ server_in'[l - 1] = server_in[l]
    BY <2>2, TakenMessages
  <2> QED
    BY <2>1, <2>2, <2>3 DEF Completing, IsCompletion
<1>2. \A k \in DOMAIN server_in' : Completing(i, k + 1) => Completing(i, k)'
  BY <1>1, TakenMessages
<1>3. Completing(i, 1) => Completing(i, 0)'
  BY <1>1
<1>4. ASSUME Completing(i, 0), ~IsCompletion(Received, i) PROVE Completing(i, 1)
  <2>1. PICK l \in DOMAIN server_in : l > 0 /\ IsCompletion(server_in[l], i)
    BY <1>4 DEF Completing
  <2>2. l # 1 /\ l \in Nat
    BY <1>4, <2>1, TakenMessages
  <2> QED
    BY <2>1, <2>2 DEF Completing
<1> QED
  BY <1>2, <1>3, <1>4

(* A new request is sent to the engine while none is being stopped.        *)
LEMMA DispatchRuns ==
    ASSUME TypeOK, Flight, RunInv, NEW m, ~StopInProgress, m.id \notin Out,
           m.method \in Stopping => m.method = "STOP",
           active_request' = m, engine_in' = engine_in \cup {m}, in_progress' = in_progress,
           \/ server_in' = server_in /\ (UNCHANGED sm_vars \/ state' # "RECOGNIZING")
           \/ server_in # <<>> /\ server_in' = Tail(server_in) /\ state' # "RECOGNIZING"
    PROVE  RunInv'
<1>1. ChannelTypeOK
  BY DEF TypeOK
<1>2. m.id \in Out'
  BY DEF Out
<1>3. \A k \in DOMAIN server_in' :
         server_in'[k].kind = "response" => \E l \in DOMAIN server_in :
            server_in[l].kind = "response" /\ server_in[l].id = server_in'[k].id
  BY <1>1, TakenMessages
<1>4. \A k \in DOMAIN server_in' : server_in'[k].kind = "response" => server_in'[k].id # m.id
  BY <1>3 DEF Out, Answers
<1>5. \A r \in engine_in : r.id # m.id /\ r.method \notin Stopping
  BY DEF Out, RunInv, StopIsActive
<1>6. StopIsActive'
  BY <1>2, <1>5 DEF StopIsActive, StopInProgress
<1>7. StartIsTrue'
  BY <1>4, <1>5 DEF StartIsTrue
<1>8. Runs'
  <2>1. CASE server_in' = server_in /\ UNCHANGED sm_vars
    BY <2>1 DEF RunInv, Runs, Completing, sm_vars
  <2>2. CASE state' # "RECOGNIZING"
    BY <2>2 DEF Runs
  <2> QED
    BY <2>1, <2>2
<1> QED
  BY <1>6, <1>7, <1>8 DEF RunInv

(* No request is left for the engine to answer but those given up.         *)
LEMMA ClearRuns ==
    ASSUME TypeOK, Flight, \A r \in engine_in : r.method \notin Stopping,
           active_request' = NoRequest, engine_in' = engine_in, in_progress' = in_progress,
           server_in' = server_in \/ (server_in # <<>> /\ server_in' = Tail(server_in)),
           Runs'
    PROVE  RunInv'
<1>1. ChannelTypeOK
  BY DEF TypeOK
<1>2. \A k \in DOMAIN server_in' :
         server_in'[k].kind = "response" => \E l \in DOMAIN server_in :
            server_in[l].kind = "response" /\ server_in[l].id = server_in'[k].id
  BY <1>1, TakenMessages
<1>3. /\ \A k \in DOMAIN server_in' : server_in'[k].kind = "response" => server_in'[k].id # 0
      /\ \A r \in engine_in : r.id # 0
  BY <1>2 DEF Flight, Out, Answers
<1>4. NoRequest.id = 0 /\ NoRequest.method # "STOP"
  BY DEF NoRequest
<1>5. StopIsActive'
  BY <1>4 DEF StopIsActive, StopInProgress
<1>6. StartIsTrue'
  BY <1>3, <1>4 DEF StartIsTrue
<1> QED
  BY <1>5, <1>6 DEF RunInv

(* A message is taken that does not answer the active request.             *)
LEMMA TakeRuns ==
    ASSUME TypeOK, Flight, RunInv, TakeEngineMessage,
           UNCHANGED <<active_request, engine_in>>,
           Received.kind = "response" /\ StopInProgress => Received.id # active_request.id,
           \/ UNCHANGED sm_vars /\ (IsCompletion(Received, recog.id) => StopInProgress)
           \/ UNCHANGED sm_vars /\ state # "RECOGNIZING"
           \/ Runs'
    PROVE  RunInv'
<1>1. ChannelTypeOK
  BY DEF TypeOK
<1>2. /\ server_in # <<>> /\ server_in' = Tail(server_in) /\ in_progress' = in_progress
      /\ StopInProgress' = StopInProgress
  BY DEF TakeEngineMessage, StopInProgress
<1>3. StopIsActive'
  <2>1. ASSUME StopInProgress PROVE active_request.id \in Out'
    <3>1. active_request.id \in Out
      BY <2>1 DEF RunInv, StopIsActive
    <3>2. CASE \E r \in engine_in : r.id = active_request.id
      BY <3>2 DEF Out
    <3>3. ASSUME NEW k \in DOMAIN server_in, server_in[k].kind = "response",
                 server_in[k].id = active_request.id
          PROVE  active_request.id \in Out'
      <4>1. k # 1
        BY <1>1, <1>2, <2>1, <3>3, TakenMessages
      <4>2. k - 1 \in DOMAIN server_in' /\ server_in'[k - 1] = server_in[k]
        BY <1>1, <1>2, <4>1, TakenMessages
      <4> QED
        BY <3>3, <4>2 DEF Out, Answers
    <3> QED
      BY <3>1, <3>2, <3>3 DEF Out, Answers
  <2> QED
    BY <1>2, <2>1 DEF RunInv, StopIsActive
<1>4. StartIsTrue'
  <2>1. ASSUME NEW k \in DOMAIN server_in',
               server_in'[k].kind = "response", server_in'[k].id = active_request.id,
               server_in'[k].method = "RECOGNIZE", server_in'[k].reply = "IN-PROGRESS"
        PROVE  active_request \in in_progress \/ Completing(active_request.id, k)'
    <3>1. k + 1 \in DOMAIN server_in /\ server_in'[k] = server_in[k + 1]
      BY <1>1, <1>2, TakenMessages
    <3>2. active_request \in in_progress \/ Completing(active_request.id, k + 1)
      BY <2>1, <3>1 DEF RunInv, StartIsTrue
    <3>3. PICK i : i = active_request.id
      OBVIOUS
    <3>4. Completing(i, k + 1) => Completing(i, k)'
      BY <1>1, <1>2, StillCompleting
    <3> QED
      BY <3>2, <3>3, <3>4
  <2> QED
    BY <1>2, <2>1 DEF RunInv, StartIsTrue
<1>5. Runs'
  <2>1. PICK i : i = recog.id
    OBVIOUS
  <2>2. Completing(i, 0) /\ ~IsCompletion(Received, i) => Completing(i, 0)'
    BY <1>1, <1>2, StillCompleting
  <2> QED
    BY <1>2, <2>1, <2>2 DEF RunInv, Runs, sm_vars
<1> QED
  BY <1>3, <1>4, <1>5 DEF RunInv

(* The engine answers a request, ends one or reports on one.               *)
LEMMA EngineRuns ==
    ASSUME TypeOK, Flight, RunInv, EngineAnswer \/ EngineComplete \/ EngineMarker,
           UNCHANGED sm_vars
    PROVE  RunInv'
<1>1. server_in \in Seq(EngineMessage) /\ engine_in \subseteq MrcpRequest
  BY DEF TypeOK, ChannelTypeOK
<1>2. active_request' = active_request /\ StopInProgress' = StopInProgress
  BY DEF EngineAnswer, EngineComplete, EngineMarker, EngineRespond, EngineFinish,
     EngineMark, machine_vars, StopInProgress
<1>3. ASSUME NEW m, server_in' = Append(server_in, m)
      PROVE  /\ DOMAIN server_in' = DOMAIN server_in \cup {Len(server_in) + 1}
             /\ \A k \in DOMAIN server_in : server_in'[k] = server_in[k]
             /\ server_in'[Len(server_in) + 1] = m
             /\ \A k \in DOMAIN server_in : k \in Nat /\ k > 0 /\ Len(server_in) + 1 > k
             /\ Len(server_in) + 1 > 0
  BY <1>1, <1>3
<1>4. ASSUME NEW m, server_in' = Append(server_in, m), NEW i, NEW k, Completing(i, k)
      PROVE  Completing(i, k)'
  BY <1>3, <1>4 DEF Completing
<1>5. ASSUME NEW m, server_in' = Append(server_in, m), Out' = Out,
             engine_in' \subseteq engine_in,
             m.kind = "response" /\ m.id = active_request.id /\ m.method = "RECOGNIZE"
                /\ m.reply = "IN-PROGRESS" => active_request \in in_progress',
             \A r \in in_progress : r.method = "RECOGNIZE" =>
                \/ r \in in_progress' \/ IsCompletion(m, r.id) \/ StopInProgress
      PROVE  RunInv'
  <2>1. PICK n : n = Len(server_in) + 1
    OBVIOUS
  <2>2. /\ DOMAIN server_in' = DOMAIN server_in \cup {n}
        /\ \A k \in DOMAIN server_in : server_in'[k] = server_in[k]
        /\ server_in'[n] = m /\ n > 0
        /\ \A k \in DOMAIN server_in : n > k
    BY <1>3, <1>5, <2>1
  <2>3. \A i : IsCompletion(m, i) => /\ \A k \in DOMAIN server_in : Completing(i, k)'
                                     /\ Completing(i, 0)'
    BY <2>2 DEF Completing, IsCompletion
  <2>4. StopIsActive'
    BY <1>2, <1>5 DEF RunInv, StopIsActive
  <2>5. StartIsTrue'
    <3>1. ASSUME NEW k \in DOMAIN server_in', 
                 server_in'[k].kind = "response", server_in'[k].id = active_request.id,
                 server_in'[k].method = "RECOGNIZE", server_in'[k].reply = "IN-PROGRESS"
          PROVE  active_request \in in_progress' \/ Completing(active_request.id, k)'
      <4>1. CASE k = n
        BY <1>5, <2>2, <3>1, <4>1
      <4>2. CASE k # n
        <5>1. k \in DOMAIN server_in /\ server_in'[k] = server_in[k]
          BY <2>2, <4>2
        <5>2. active_request.method = "RECOGNIZE" /\ ~StopInProgress
          BY <3>1, <5>1 DEF Flight, Answers, StopInProgress
        <5>3. active_request \in in_progress \/ Completing(active_request.id, k)
          BY <3>1, <5>1 DEF RunInv, StartIsTrue
        <5>4. PICK i : i = active_request.id
          OBVIOUS
        <5>5. Completing(i, k) => Completing(i, k)'
          BY <1>4, <1>5
        <5> QED
          BY <1>2, <1>5, <2>3, <5>1, <5>2, <5>3, <5>4, <5>5
      <4> QED
        BY <4>1, <4>2
    <3> QED
      BY <1>2, <1>5, <3>1 DEF RunInv, StartIsTrue
  <2>6. Runs'
    <3>1. PICK i : i = recog.id
      OBVIOUS
    <3>2. Completing(i, 0) => Completing(i, 0)'
      BY <1>4, <1>5
    <3> QED
      BY <1>2, <1>5, <2>3, <3>1, <3>2 DEF RunInv, Runs, sm_vars
  <2> QED
    BY <2>4, <2>5, <2>6 DEF RunInv
<1>6. Out' = Out
  BY EngineFlight DEF TypeOK
<1>7. CASE EngineAnswer
  <2>1. PICK r \in engine_in, reply \in Replies : EngineRespond(r, reply)
    BY <1>7 DEF EngineAnswer
  <2>2. PICK m : m = [kind |-> "response", id |-> r.id, method |-> r.method, reply |-> reply]
    OBVIOUS
  <2>3. /\ server_in' = Append(server_in, m) /\ engine_in' \subseteq engine_in
        /\ m.kind = "response" /\ m.id = r.id /\ m.method = r.method /\ m.reply = reply
    BY <2>1, <2>2 DEF EngineRespond, EngineSend
  <2>4. m.id = active_request.id /\ m.reply = "IN-PROGRESS" => active_request \in in_progress'
    <3>1. reply = "IN-PROGRESS" => r \in in_progress'
      BY <2>1 DEF EngineRespond
    <3> QED
      BY <2>3, <3>1 DEF RunInv, StartIsTrue
  <2>5. \A q \in in_progress : q \in in_progress' \/ StopInProgress
    <3>1. r.method \in Stopping => StopInProgress
      BY DEF RunInv, StopIsActive
    <3> QED
      BY <2>1, <3>1 DEF EngineRespond
  <2> QED
    BY <1>5, <1>6, <2>3, <2>4, <2>5
<1>8. CASE EngineComplete
  <2>1. PICK r \in in_progress : EngineFinish(r)
    BY <1>8 DEF EngineComplete
  <2>2. PICK m : m = [kind |-> "event", id |-> r.id, method |-> CompletionEvent(r.method),
                      reply |-> "IN-PROGRESS"]
    OBVIOUS
  <2>3. /\ server_in' = Append(server_in, m) /\ engine_in' = engine_in /\ m.kind = "event"
        /\ r.method = "RECOGNIZE" => IsCompletion(m, r.id)
        /\ in_progress' = in_progress \ {r}
    BY <2>1, <2>2 DEF EngineFinish, EngineEvent, EngineSend, CompletionEvent, IsCompletion
  <2> QED
    BY <1>5, <1>6, <2>3
<1>9. CASE EngineMarker
  <2>1. PICK r \in in_progress : EngineMark(r)
    BY <1>9 DEF EngineMarker
  <2>2. PICK m : m = [kind |-> "event", id |-> r.id, method |-> MarkerEvent(r.method),
                      reply |-> "IN-PROGRESS"]
    OBVIOUS
  <2>3. /\ server_in' = Append(server_in, m) /\ engine_in' = engine_in /\ m.kind = "event"
        /\ in_progress' = in_progress
    BY <2>1, <2>2 DEF EngineMark, EngineEvent, EngineSend
  <2> QED
    BY <1>5, <1>6, <2>3
<1> QED
  BY <1>7, <1>8, <1>9

(* Nothing that waits is in flight.                                        *)
LEMMA WaitingIsNotOut ==
    ASSUME NEW c, ChannelInv(c), ~StopInProgress, NEW h \in Held
    PROVE  h \notin Out
<1>1. ~Internal
  BY DEF Internal, StopInProgress
<1>2. /\ \A o \in Out : o < h \/ o = session_request.id
      /\ session_request.id = 0 \/ h < session_request.id
  BY <1>1 DEF ChannelInv, Order
<1>3. session_request.id \in Nat /\ 0 \notin Out /\ h \in Nat
  BY IdTypes DEF ChannelInv, Flight
<1> QED
  BY <1>2, <1>3

(* Every handler of a request keeps the invariant.                         *)
LEMMA RequestRuns ==
    ASSUME NEW c, ChannelInv(c), TypeOK, RunInv, ~StopInProgress, RecogRequest
    PROVE  RunInv'
<1>1. nested /\ session_request.method \in Methods /\ (session_request.method \in Stopping
         => session_request.method = "STOP")
  BY DEF RecogRequest, recog_request_params, recog_request_define_grammar,
     recog_request_recognize, recog_request_interpret, recog_request_get_result,
     recog_request_recognition_start_timers, recog_request_stop, Handling, Methods,
     RecogMethods, Stopping
<1>2. session_request.id \notin Out /\ Flight
  BY <1>1, HandledIs DEF ChannelInv
<1>3. UNCHANGED sm_vars \/ state' # "RECOGNIZING"
  BY DEF RecogRequest, recog_request_params, recog_request_define_grammar,
     recog_request_recognize, recog_request_interpret, recog_request_get_result,
     recog_request_recognition_start_timers, recog_request_stop, DiscardResult, BecomeIdle
<1>4. ASSUME DispatchAndReturn(session_request) PROVE RunInv'
  BY <1>1, <1>2, <1>3, <1>4, DispatchRuns DEF DispatchAndReturn, request_dispatch
<1>5. ASSUME NEW id, NEW rstate, NEW ended, RespondAndReturn(id, rstate, ended)
      PROVE  RunInv'
  <2>1. /\ active_request' = NoRequest /\ UNCHANGED <<engine_in, in_progress, server_in>>
    BY <1>5 DEF RespondAndReturn, response_dispatch, engine_vars
  <2>2. \A r \in engine_in : r.method \notin Stopping
    BY DEF RunInv, StopIsActive
  <2>3. Runs'
    BY <1>3, <2>1 DEF RunInv, Runs, Completing, sm_vars
  <2> QED
    BY <1>2, <2>1, <2>2, <2>3, ClearRuns
<1> QED
  BY <1>4, <1>5 DEF RecogRequest, recog_request_params, recog_request_define_grammar,
     recog_request_recognize, recog_request_interpret, recog_request_get_result,
     recog_request_recognition_start_timers, recog_request_stop, ForwardOrRespond,
     StartOrQueue, StopOrRemove

(* Every handler of a response keeps it.                                   *)
LEMMA ResponseRuns ==
    ASSUME NEW c, c = Current, ChannelInv(c), TypeOK, IdleIsEmpty, StopFindsRecognition,
           RunInv, RecogResponse
    PROVE  RunInv'
<1>1. Flight /\ ChannelTypeOK
  BY DEF ChannelInv
<1>2. CASE UnexpectedResponse
  <2>1. /\ TakeEngineMessage /\ UNCHANGED sm_vars /\ UNCHANGED <<active_request, engine_in>>
        /\ Received.kind = "response" /\ ~Expected
    BY <1>2 DEF UnexpectedResponse, IgnoreResponse, machine_vars
  <2>2. ~IsCompletion(Received, recog.id)
    BY <2>1 DEF IsCompletion
  <2>3. StopInProgress => Received.id # active_request.id
    BY <2>1 DEF Expected, StopInProgress, NoRequest
  <2> QED
    BY <1>1, <2>1, <2>2, <2>3, TakeRuns
<1>3. ASSUME NEW methods, ResponseTo(methods)
      PROVE  /\ TakeEngineMessage /\ server_in # <<>> /\ server_in' = Tail(server_in)
             /\ engine_in' = engine_in /\ in_progress' = in_progress
             /\ active_request.method \in methods /\ active_request.id = Received.id
             /\ Received = server_in[1] /\ 1 \in DOMAIN server_in
             /\ Received.kind = "response" /\ Received.method = active_request.method
             /\ \A r \in engine_in : r.method \notin Stopping
  <2>1. /\ TakeEngineMessage /\ server_in # <<>> /\ server_in' = Tail(server_in)
        /\ engine_in' = engine_in /\ in_progress' = in_progress
        /\ Received.kind = "response"
    BY <1>3 DEF ResponseTo, TakeEngineMessage
  <2>2. /\ active_request.method \in methods /\ active_request.id = Received.id
        /\ Received.method = active_request.method
    BY <1>3, AcceptedIs
  <2>3. Received = server_in[1] /\ 1 \in DOMAIN server_in
    BY <1>1, <2>1, TakenMessages
  <2>4. ASSUME NEW r \in engine_in, r.method \in Stopping PROVE FALSE
    <3>1. r.id = active_request.id
      BY <2>4 DEF RunInv, StopIsActive
    <3>2. Received \in Answers
      BY <2>1, <2>3 DEF Answers
    <3> QED
      BY <1>1, <2>2, <3>1, <3>2 DEF Flight
  <2> QED
    BY <2>1, <2>2, <2>3, <2>4
<1>4. ASSUME NEW methods, ResponseTo(methods), "STOP" \notin methods, UNCHANGED sm_vars,
             Completing(recog.id, 0) => Completing(recog.id, 0)'
      PROVE  Runs'
  BY <1>3, <1>4 DEF RunInv, Runs, sm_vars, StopInProgress
<1>5. ASSUME NEW methods, ResponseTo(methods)
      PROVE  Completing(recog.id, 0) => Completing(recog.id, 0)' \/ recog' # recog
  <2>1. PICK i : i = recog.id
    OBVIOUS
  <2>2. ~IsCompletion(Received, i)
    BY <1>3, <1>5 DEF IsCompletion
  <2>3. Completing(i, 0) => Completing(i, 0)'
    BY <1>1, <1>3, <1>5, <2>2, StillCompleting
  <2> QED
    BY <2>1, <2>3
<1>6. ASSUME NEW methods, ResponseTo(methods), NEW rstate, PassOn(rstate), Runs'
      PROVE  RunInv'
  BY <1>1, <1>3, <1>6, ClearRuns DEF PassOn, response_dispatch
<1>7. ASSUME NEW methods, ResponseTo(methods), "STOP" \notin methods, UNCHANGED sm_vars
      PROVE  Runs'
  BY <1>4, <1>5, <1>7 DEF sm_vars
<1>8. CASE recog_response_plain
  BY <1>6, <1>7, <1>8 DEF recog_response_plain
<1>9. CASE recog_response_interpret
  BY <1>6, <1>7, <1>9 DEF recog_response_interpret
<1>10. CASE recog_response_recognize
  <2>1. ResponseTo({"RECOGNIZE"})
    BY <1>10 DEF recog_response_recognize
  <2>2. Runs'
    <3>1. CASE Received.reply = "IN-PROGRESS"
      <4>1. PICK i : i = active_request.id
        OBVIOUS
      <4>2. recog' = active_request /\ state' = "RECOGNIZING"
        BY <1>10, <3>1 DEF recog_response_recognize
      <4>3. active_request \in in_progress \/ Completing(i, 1)
        BY <1>3, <2>1, <3>1, <4>1 DEF RunInv, StartIsTrue
      <4>4. Completing(i, 1) => Completing(i, 0)'
        BY <1>1, <1>3, <2>1, StillCompleting
      <4> QED
        BY <1>3, <2>1, <4>1, <4>2, <4>3, <4>4 DEF Runs
    <3>2. CASE Received.reply # "IN-PROGRESS"
      BY <1>7, <1>10, <2>1, <3>2 DEF recog_response_recognize
    <3> QED
      BY <3>1, <3>2
  <2>3. CASE is_pending
    <3>1. UNCHANGED <<active_request, engine_in>> /\ TakeEngineMessage
      BY <1>3, <1>10, <2>1, <2>3 DEF recog_response_recognize
    <3>2. ~StopInProgress
      BY <1>3, <2>1 DEF StopInProgress
    <3> QED
      BY <1>1, <2>2, <3>1, <3>2, TakeRuns
  <2>4. CASE ~is_pending
    BY <1>6, <1>10, <2>1, <2>2, <2>4 DEF recog_response_recognize
  <2> QED
    BY <2>3, <2>4
<1>11. CASE recog_response_stop
  <2>1. ResponseTo({"STOP"})
    BY <1>11 DEF recog_response_stop
  <2>2. recog # NoRequest
    BY <1>3, <2>1 DEF StopFindsRecognition, IdleIsEmpty
  <2>3. EndByStop(recog) /\ state' # "RECOGNIZING"
    BY <1>11, <2>2 DEF recog_response_stop, BecomeIdle
  <2>4. active_request' = NoRequest /\ Runs'
    BY <2>3 DEF EndByStop, response_dispatch, Runs
  <2> QED
    BY <1>1, <1>3, <2>1, <2>4, ClearRuns
<1>12. CASE RecogDeferred
  <2>1. deferred # NoRequest /\ UNCHANGED sm_vars /\ DispatchDeferred
    BY <1>12 DEF RecogDeferred, DispatchDeferred
  <2>2. c = NoRequest
    BY <2>1 DEF ChannelInv, Turns
  <2>3. ~StopInProgress
    BY <2>2 DEF StopInProgress, StopFindsRecognition, Current, IdleIsEmpty
  <2>4. deferred.id \in Held /\ deferred \in QueuedRequest
    BY <1>1, <2>1 DEF Held, ChannelTypeOK
  <2>5. deferred.method \notin Stopping
    BY <2>4, RequestTypes DEF Queueing, Stopping
  <2>6. deferred.id \notin Out
    BY <2>3, <2>4, WaitingIsNotOut
  <2>7. /\ active_request' = deferred /\ engine_in' = engine_in \cup {deferred}
        /\ UNCHANGED <<in_progress, server_in>>
    BY <2>1 DEF DispatchDeferred, request_dispatch
  <2> QED
    BY <1>1, <2>1, <2>3, <2>5, <2>6, <2>7, DispatchRuns
<1> QED
  BY <1>2, <1>8, <1>9, <1>10, <1>11, <1>12 DEF RecogResponse

(* Every handler of an event keeps it.                                     *)
LEMMA EventRuns ==
    ASSUME NEW c, c = Current, ChannelInv(c), TypeOK, IdleIsEmpty, RunInv, RecogEvent
    PROVE  RunInv'
<1>1. Flight /\ ChannelTypeOK
  BY DEF ChannelInv
<1>2. TakeEngineMessage /\ Received.kind = "event"
  BY DEF RecogEvent, recog_event_start_of_input, recog_event_recognition_complete,
     recog_event_interpretation_complete, EventNamed
<1>3. ASSUME NEW passed, NEW rstate, TellClient(passed, rstate), UNCHANGED sm_vars,
             \/ IsCompletion(Received, recog.id) => StopInProgress
             \/ state # "RECOGNIZING"
      PROVE  RunInv'
  BY <1>1, <1>2, <1>3, TakeRuns DEF TellClient
<1>4. CASE recog_event_start_of_input
  BY <1>3, <1>4 DEF recog_event_start_of_input, EventNamed, IsCompletion
<1>5. CASE recog_event_interpretation_complete
  BY <1>3, <1>5 DEF recog_event_interpretation_complete, EventNamed, IsCompletion
<1>6. CASE recog_event_recognition_complete
  <2>1. CASE ~(EventOfRecog /\ ~StopInProgress)
    <3>1. state = "RECOGNIZING" => recog # NoRequest
      BY DEF IdleIsEmpty
    <3>2. IsCompletion(Received, recog.id) /\ state = "RECOGNIZING" => StopInProgress
      BY <2>1, <3>1 DEF EventOfRecog, IsCompletion
    <3> QED
      BY <1>3, <1>6, <2>1, <3>2 DEF recog_event_recognition_complete
  <2>2. CASE EventOfRecog /\ ~StopInProgress
    <3>1. CompleteAndNext /\ state' # "RECOGNIZING"
      BY <1>6, <2>2 DEF recog_event_recognition_complete
    <3>2. CASE queue = <<>>
      BY <1>1, <1>2, <3>1, <3>2, TakeRuns DEF CompleteAndNext, Runs
    <3>3. CASE queue # <<>>
      <4>1. queue \in Seq(QueuedRequest)
        BY <1>1 DEF ChannelTypeOK
      <4>2. PICK m : m = Head(queue)
        OBVIOUS
      <4>3. m = queue[1] /\ 1 \in DOMAIN queue /\ m \in QueuedRequest
        BY <3>3, <4>1, <4>2
      <4>4. m.id \in Held /\ m.method \notin Stopping
        BY <4>3, RequestTypes DEF Held, Queueing, Stopping
      <4>5. m.id \notin Out
        BY <2>2, <4>4, WaitingIsNotOut
      <4>6. active_request' = m /\ engine_in' = engine_in \cup {m}
        BY <3>1, <3>3, <4>2 DEF CompleteAndNext, request_dispatch
      <4>7. server_in # <<>> /\ server_in' = Tail(server_in) /\ in_progress' = in_progress
        BY <1>2 DEF TakeEngineMessage
      <4> QED
        BY <1>1, <2>2, <3>1, <4>4, <4>5, <4>6, <4>7, DispatchRuns
    <3> QED
      BY <3>2, <3>3
  <2> QED
    BY <2>1, <2>2
<1> QED
  BY <1>4, <1>5, <1>6 DEF RecogEvent

(* Every step keeps it.                                                    *)
LEMMA NextRunInv ==
    ASSUME ChannelInv(Current), TypeOK, IdleIsEmpty, StopFindsRecognition, RunInv,
           [Next]_vars
    PROVE  RunInv'
<1>1. PICK c : c = Current /\ ChannelInv(c)
  OBVIOUS
<1>2. Flight /\ ChannelTypeOK
  BY <1>1 DEF ChannelInv
<1>3. ASSUME UNCHANGED <<active_request, engine_in, in_progress, server_in>>,
             UNCHANGED sm_vars
      PROVE  RunInv'
  <2>1. StopIsActive'
    BY <1>3 DEF RunInv, StopIsActive, StopInProgress, Out, Answers
  <2>2. StartIsTrue'
    BY <1>3 DEF RunInv, StartIsTrue, Completing
  <2>3. Runs'
    BY <1>3 DEF RunInv, Runs, Completing, StopInProgress, sm_vars
  <2> QED
    BY <2>1, <2>2, <2>3 DEF RunInv
<1>4. nested => ~StopInProgress
  <2>1. Turns(c)
    BY <1>1 DEF ChannelInv
  <2> QED
    BY <2>1 DEF Turns, StopInProgress, Internal, Queueing, NoRequest
<1>5. CASE Client
  BY <1>3, <1>5 DEF Client, ChannelClient, ClientRequest, ClientTerminate,
     SignalingMessageProcess, machine_vars, engine_vars
<1>6. CASE SessionDeactivate
  <2>1. DeactivateChannel(c) /\ UNCHANGED sm_vars
    BY <1>1, <1>6 DEF SessionDeactivate, Current
  <2>2. nested /\ session_request.method = "TERMINATE" /\ UNCHANGED <<in_progress, server_in>>
    BY <2>1 DEF DeactivateChannel
  <2>3. CASE c = NoRequest
    BY <1>3, <2>1, <2>2, <2>3 DEF DeactivateChannel
  <2>4. CASE c # NoRequest
    <3>1. PICK m : m = [id |-> c.id + 1, method |-> "STOP", sel |-> {}, kill |-> FALSE]
      OBVIOUS
    <3>2. /\ m.id = c.id + 1 /\ m.method = "STOP"
          /\ active_request' = m /\ engine_in' = engine_in \cup {m}
      BY <2>1, <2>4, <3>1 DEF DeactivateChannel, request_dispatch
    <3>3. c.id + 1 \notin Out
      <4>1. ~Internal
        BY <1>4, <2>2 DEF Internal, StopInProgress
      <4>2. session_request.id = 0
        BY <1>1, <2>2 DEF ChannelInv, Turns, NoRequest, TerminateRequest
      <4>3. \A o \in Out : o <= c.id
        BY <1>1, <1>2, <2>4, <4>1, <4>2 DEF ChannelInv, Order, Flight
      <4>4. c.id \in Nat
        BY <1>1, IdTypes DEF ChannelInv
      <4> QED
        BY <4>3, <4>4
    <3> QED
      BY <1>2, <1>4, <2>1, <2>2, <3>2, <3>3, DispatchRuns
  <2> QED
    BY <2>3, <2>4
<1>7. CASE RecogRequest
  <2>1. nested
    BY <1>7 DEF RecogRequest, recog_request_params, recog_request_define_grammar,
       recog_request_recognize, recog_request_interpret, recog_request_get_result,
       recog_request_recognition_start_timers, recog_request_stop, Handling
  <2> QED
    BY <1>1, <1>4, <1>7, <2>1, RequestRuns
<1>8. CASE RecogResponse
  BY <1>1, <1>8, ResponseRuns
<1>9. CASE RecogEvent
  BY <1>1, <1>9, EventRuns
<1>10. CASE Engine
  BY <1>2, <1>10, EngineRuns DEF Engine
<1>11. CASE UNCHANGED vars
  BY <1>3, <1>11 DEF vars, channel_vars, machine_vars, engine_vars
<1> QED
  BY <1>5, <1>6, <1>7, <1>8, <1>9, <1>10, <1>11 DEF Next, ServerTask

(* A RECOGNIZING channel never waits in vain: once nothing is in flight,   *)
(* the engine runs its recognition.  A completion that is ignored (l. 350) *)
(* leaves a STOP whose response ends the recognition, and a response that  *)
(* starts one is not older than what the engine has.                       *)
THEOREM EngineRunsRecognition == Spec => []RecognizingInEngine
<1> DEFINE I == /\ ChannelInv(Current) /\ IdleIsEmpty /\ TypeOK /\ StopFindsRecognition
                /\ RunInv
<1>1. Init => RunInv
  BY DEF Init, ChannelInit, RunInv, StopIsActive, StartIsTrue, Runs, StopInProgress, NoRequest
<1>2. I /\ [Next]_vars => RunInv'
  BY NextRunInv
<1>3. I => RecognizingInEngine
  <2> SUFFICES ASSUME I, state = "RECOGNIZING", engine_in = {}, server_in = <<>>
               PROVE  recog \in in_progress
    BY DEF RecognizingInEngine
  <2>1. Out = {} /\ DOMAIN server_in = {}
    BY DEF Out, Answers
  <2>2. ~StopInProgress /\ ~Completing(recog.id, 0)
    BY <2>1 DEF RunInv, StopIsActive, Completing
  <2> QED
    BY <2>2 DEF RunInv, Runs
<1> QED
  BY <1>1, <1>2, <1>3, RecogChannelInv, TypeCorrect, StopAlwaysFindsRecognition, PTL DEF Spec

-----------------------------------------------------------------------------
(* The events of an engine, in the order in which it sends them.           *)

(* The requests that the engine has to answer, and those it has begun: it  *)
(* works on them or told something of them.                                *)
Asked == {r.id : r \in engine_in}
Begun ==
    {r.id : r \in in_progress}
        \cup {server_in[k].id : k \in {l \in DOMAIN server_in : server_in[l].kind = "event"}}

(* The requests that the state machine has not seen.                       *)
Handled == IF nested /\ session_request # TerminateRequest THEN {session_request.id} ELSE {}
Waiting ==
    Handled \cup {request_queue[k].id :
                     k \in {l \in DOMAIN request_queue : request_queue[l] # TerminateRequest}}

(* What is about an interpretation, and an event that is the last one.     *)
Interprets(m) == m.method \in {"INTERPRET", "INTERPRETATION-COMPLETE"}
Final(m) == m.kind = "event" /\ m.method \notin {"SPEECH-MARKER", "START-OF-INPUT"}

(* The events of a request come after its response, and its completion     *)
(* after everything else.                                                  *)
EventOrder ==
    /\ \A k, l \in DOMAIN server_in : k < l /\ server_in[k].id = server_in[l].id =>
          /\ server_in[k].kind = "event" => server_in[l].kind # "response"
          /\ ~Final(server_in[k])
    /\ \A k \in DOMAIN server_in, r \in in_progress :
          server_in[k].id = r.id => ~Final(server_in[k])

(* The messages about one request agree on what it is.                     *)
EventKinds ==
    /\ \A k, l \in DOMAIN server_in :
          server_in[k].id = server_in[l].id
             => (Interprets(server_in[k]) <=> Interprets(server_in[l]))
    /\ \A k \in DOMAIN server_in, r \in in_progress :
          server_in[k].id = r.id => (Interprets(server_in[k]) <=> Interprets(r))

(* What is begun is neither to be answered nor pending, and was sent       *)
(* before everything that the state machine has not seen.                  *)
BegunBefore ==
    /\ \A q, r \in in_progress : q.id = r.id => q = r
    /\ Begun \cap (Asked \cup Held) = {}
    /\ \A b \in Begun : b < next_id /\ \A w \in Waiting : b < w

EventInv == EventOrder /\ EventKinds /\ BegunBefore

(* The recognition in progress is no interpretation.                       *)
OwnEvents(cur) ==
    cur # NoRequest =>
        /\ \A r \in in_progress : r.id = cur.id => ~Interprets(r)
        /\ \A k \in DOMAIN server_in : server_in[k].id = cur.id => ~Interprets(server_in[k])

(* The state machine is done with request i, the engine is, and the client *)
(* knows.                                                                  *)
Done(i) ==
    /\ i \in Ids /\ i < next_id /\ \A w \in Waiting : i < w
    /\ i \notin Out /\ i \notin Held
Past(i) == Done(i) /\ i \notin Begun /\ view[i] = "COMPLETE"

StoryInv ==
    active => /\ EventInv /\ OwnEvents(Current)
              /\ state = "RECOGNIZED" => Past(recog.id)

(* What a step of the server task or of the client does to all this: it    *)
(* takes a message at most, and gives the engine what waited.              *)
ServerStep ==
    /\ in_progress' = in_progress
    /\ server_in' = server_in \/ (server_in # <<>> /\ server_in' = Tail(server_in))
    /\ Asked' \subseteq Asked \cup Held \cup Handled
    /\ Held' \subseteq Held \cup Handled
    /\ next_id' \in Nat /\ next_id' >= next_id
    /\ Waiting' \subseteq Waiting \cup {next_id}

(* The types of the numbers.                                               *)
LEMMA StoryTypes ==
    ASSUME ChannelTypeOK
    PROVE  /\ Begun \subseteq Nat /\ Asked \subseteq Out /\ Out \subseteq Nat
           /\ Held \subseteq Nat /\ next_id \in Nat /\ Waiting \subseteq Nat
           /\ \A k \in DOMAIN server_in : k \in Nat /\ server_in[k].id \in Nat
           /\ \A k \in DOMAIN server_in : server_in[k].kind = "event" => server_in[k].id \in Begun
           /\ \A k \in DOMAIN server_in :
                 server_in[k].kind = "event" \/ server_in[k].kind = "response"
<1>1. \A r \in in_progress : r.id \in Nat
  BY DEF ChannelTypeOK, Request
<1>2. server_in \in Seq(EngineMessage)
  BY DEF ChannelTypeOK
<1>3. \A m \in EngineMessage : m.id \in Nat /\ (m.kind = "event" \/ m.kind = "response")
  BY DEF EngineMessage
<1>4. \A k \in DOMAIN server_in : k \in Nat /\ server_in[k] \in EngineMessage
  BY <1>2
<1>5. Begun \subseteq Nat
  BY <1>1, <1>3, <1>4 DEF Begun
<1>6. Waiting \subseteq Nat
  BY IdTypes DEF Waiting, Handled
<1> QED
  BY <1>3, <1>4, <1>5, <1>6, IdTypes DEF Asked, Out, Begun

(* A step of the server leaves a part of the messages, in their order.     *)
LEMMA ServerMessages ==
    ASSUME ChannelTypeOK, ServerStep
    PROVE  /\ \E n \in Nat : \A k \in DOMAIN server_in' :
                 k \in Nat /\ k + n \in DOMAIN server_in /\ server_in'[k] = server_in[k + n]
           /\ Begun' \subseteq Begun
<1>1. \E n \in Nat : \A k \in DOMAIN server_in' :
         k \in Nat /\ k + n \in DOMAIN server_in /\ server_in'[k] = server_in[k + n]
  <2>1. CASE server_in' = server_in
    <3>1. \A k \in DOMAIN server_in : k \in Nat /\ k + 0 = k
      BY StoryTypes
    <3> QED
      BY <2>1, <3>1
  <2>2. CASE server_in # <<>> /\ server_in' = Tail(server_in)
    BY <2>2, TakenMessages
  <2> QED
    BY <2>1, <2>2 DEF ServerStep
<1>2. Begun' \subseteq Begun
  BY <1>1 DEF Begun, ServerStep
<1> QED
  BY <1>1, <1>2

(* The order of the events survives a step of the server.                  *)
LEMMA ServerEvents ==
    ASSUME ChannelTypeOK, EventInv, ServerStep
    PROVE  EventInv'
<1>1. PICK n \in Nat : \A k \in DOMAIN server_in' :
         k \in Nat /\ k + n \in DOMAIN server_in /\ server_in'[k] = server_in[k + n]
  BY ServerMessages
<1>2. Begun' \subseteq Begun /\ in_progress' = in_progress
  BY ServerMessages DEF ServerStep
<1>3. \A k, l \in DOMAIN server_in' : k < l => k + n < l + n
  BY <1>1
<1>4. EventOrder'
  BY <1>1, <1>2, <1>3 DEF EventInv, EventOrder, Final
<1>5. EventKinds'
  BY <1>1, <1>2 DEF EventInv, EventKinds, Interprets
<1>6. BegunBefore'
  <2>1. \A q, r \in in_progress' : q.id = r.id => q = r
    BY <1>2 DEF EventInv, BegunBefore
  <2>2. ASSUME NEW b \in Begun'
        PROVE  b < next_id /\ \A w \in Waiting : b < w
    BY <1>2 DEF EventInv, BegunBefore
  <2>3. Handled \subseteq Waiting /\ Waiting \subseteq Nat /\ next_id \in Nat /\ Begun \subseteq Nat
    BY StoryTypes DEF Waiting
  <2>4. ASSUME NEW b \in Begun', b \in Asked' \cup Held' PROVE FALSE
    <3>1. b \in Asked \cup Held \/ b \in Handled
      BY <2>4 DEF ServerStep
    <3>2. b \notin Asked \cup Held
      BY <1>2 DEF EventInv, BegunBefore
    <3>3. b < b /\ b \in Nat
      BY <1>2, <2>2, <2>3, <3>1, <3>2
    <3> QED
      BY <3>3
  <2>5. ASSUME NEW b \in Begun' PROVE b < next_id' /\ \A w \in Waiting' : b < w
    <3>1. b < next_id /\ (\A w \in Waiting : b < w) /\ b \in Nat
      BY <1>2, <2>2, <2>3
    <3>2. next_id' \in Nat /\ next_id' >= next_id /\ Waiting' \subseteq Waiting \cup {next_id}
      BY DEF ServerStep
    <3>3. b < next_id'
      BY <2>3, <3>1, <3>2
    <3> QED
      BY <3>1, <3>2, <3>3
  <2> QED
    BY <2>1, <2>4, <2>5 DEF BegunBefore
<1> QED
  BY <1>4, <1>5, <1>6 DEF EventInv

(* So do the events of the request in progress.                            *)
LEMMA ServerOwn ==
    ASSUME ChannelTypeOK, ServerStep, NEW c, OwnEvents(c)
    PROVE  OwnEvents(c)'
  BY ServerMessages DEF OwnEvents, ServerStep, Interprets

(* What is done stays done.                                                *)
LEMMA ServerDone ==
    ASSUME ChannelTypeOK, ServerStep, NEW i, Done(i)
    PROVE  Done(i)'
<1>1. i \in Ids /\ i \in Nat /\ i < next_id /\ i < next_id'
  <2>1. i \in Nat
    BY DEF Done, Ids
  <2> QED
    BY <2>1, StoryTypes DEF Done, ServerStep
<1>2. \A w \in Waiting' : i < w
  BY <1>1 DEF Done, ServerStep
<1>3. i \notin Asked \cup Held \cup Handled
  <2>1. i \notin Handled
    BY <1>1 DEF Done, Waiting
  <2> QED
    BY <2>1, StoryTypes DEF Done
<1>4. i \notin Held' /\ i \notin Asked'
  BY <1>3 DEF ServerStep
<1>5. i \notin Out'
  <2>1. PICK n \in Nat : \A k \in DOMAIN server_in' :
           k \in Nat /\ k + n \in DOMAIN server_in /\ server_in'[k] = server_in[k + n]
    BY ServerMessages
  <2>2. \A m \in Answers' : m \in Answers
    BY <2>1 DEF Answers
  <2>3. \A m \in Answers : m.id # i
    BY DEF Done, Out
  <2> QED
    BY <1>4, <2>2, <2>3 DEF Out, Asked
<1> QED
  BY <1>1, <1>2, <1>4, <1>5 DEF Done

(* What is over stays over.                                                *)
LEMMA ServerPast ==
    ASSUME ChannelTypeOK, ChannelTypeOK', ServerStep, Forward, NEW i, Past(i)
    PROVE  Past(i)'
<1>1. Done(i)' /\ i \in Ids
  BY ServerDone DEF Past, Done
<1>2. i \notin Begun'
  BY ServerMessages DEF Past
<1>3. view'[i] = "COMPLETE"
  <2>1. Rank(view[i]) <= Rank(view'[i])
    BY <1>1 DEF Forward
  <2>2. view'[i] \in Views /\ Rank("COMPLETE") = 4 /\ view[i] = "COMPLETE"
    BY <1>1 DEF ChannelTypeOK, Rank, Past
  <2>3. \A v \in Views : v # "COMPLETE" => Rank(v) \in {0, 1, 2, 3}
    BY DEF Views, Rank
  <2> HIDE DEF Rank
  <2> QED
    BY <2>1, <2>2, <2>3
<1> QED
  BY <1>1, <1>2, <1>3 DEF Past

(* An engine answers before it begins, and ends what it has begun once.    *)
LEMMA EngineStory ==
    ASSUME NEW c, ChannelInv(c), active, EventInv, OwnEvents(c),
           EngineAnswer \/ EngineComplete \/ EngineMarker
    PROVE  EventInv' /\ OwnEvents(c)' /\ \A i : Past(i) => Past(i)'
<1>1. ChannelTypeOK /\ server_in \in Seq(EngineMessage) /\ Flight
  BY DEF ChannelInv, ChannelTypeOK
<1>2. /\ UNCHANGED <<active_request, queue, deferred, nested, session_request>>
      /\ UNCHANGED <<request_queue, next_id, view>>
  BY DEF EngineAnswer, EngineComplete, EngineMarker, EngineRespond, EngineFinish, EngineMark,
     machine_vars, session_vars, stack_vars, client_vars
<1>3. Held' = Held /\ Waiting' = Waiting /\ Out' = Out /\ next_id' = next_id
  BY <1>1, <1>2, EngineFlight DEF Held, Waiting, Handled
<1>4. /\ \A k \in DOMAIN server_in : k \in Nat /\ (server_in[k].kind = "event" => server_in[k].id \in Begun)
      /\ \A k \in DOMAIN server_in : server_in[k].kind = "event" \/ server_in[k].kind = "response"
      /\ \A r \in in_progress : r.id \in Begun
  BY <1>1, StoryTypes DEF Begun
<1>5. c # NoRequest => c.id \notin Out
  BY KnownIs
<1>6. PICK n : n = Len(server_in) + 1
  OBVIOUS
<1>7. ASSUME NEW m, server_in' = Append(server_in, m)
      PROVE  /\ DOMAIN server_in' = DOMAIN server_in \cup {n}
             /\ \A k \in DOMAIN server_in : server_in'[k] = server_in[k] /\ k < n /\ ~(n < k)
             /\ server_in'[n] = m /\ ~(n < n)
  BY <1>1, <1>6, <1>7
<1>8. CASE EngineAnswer
  <2>1. PICK r \in engine_in, reply \in Replies : EngineRespond(r, reply)
    BY <1>8 DEF EngineAnswer
  <2>2. PICK m : m = [kind |-> "response", id |-> r.id, method |-> r.method, reply |-> reply]
    OBVIOUS
  <2>3. /\ m.kind = "response" /\ m.id = r.id /\ ~Final(m)
        /\ Interprets(m) <=> Interprets(r)
        /\ server_in' = Append(server_in, m) /\ engine_in' = engine_in \ {r}
        /\ in_progress' \subseteq in_progress \cup {r}
    BY <2>1, <2>2 DEF EngineRespond, EngineSend, Final, Interprets
  <2>4. /\ DOMAIN server_in' = DOMAIN server_in \cup {n}
        /\ \A k \in DOMAIN server_in : server_in'[k] = server_in[k] /\ k < n /\ ~(n < k)
        /\ server_in'[n] = m /\ ~(n < n)
    BY <1>7, <2>3
  <2>5. r.id \in Asked /\ r.id \in Out /\ r.id \notin Begun
    BY DEF Asked, Out, EventInv, BegunBefore
  <2>6. \A k \in DOMAIN server_in : server_in[k].id # r.id
    BY <1>1, <1>4, <2>5 DEF Flight, Answers
  <2>7. \A q \in in_progress : q.id # r.id
    BY <1>4, <2>5
  <2>8. EventOrder'
    BY <2>3, <2>4, <2>6, <2>7 DEF EventInv, EventOrder
  <2>9. EventKinds'
    BY <2>3, <2>4, <2>6, <2>7 DEF EventInv, EventKinds
  <2>10. Begun' \subseteq Begun \cup {r.id}
    BY <2>3, <2>4 DEF Begun
  <2>11. r.id \notin Asked' /\ r.id \notin Held' /\ Asked' \subseteq Asked
    BY <1>1, <1>3, <2>3, <2>5, KnownIs DEF Asked, Flight
  <2>12. r.id < next_id /\ \A w \in Waiting : r.id < w
    <3>1. r.id < next_id
      BY <2>5, KnownIs
    <3>2. \A w \in Handled : r.id < w
      BY <2>5 DEF Handled, ChannelInv, Fresh, Known
    <3>3. \A k \in DOMAIN request_queue :
             request_queue[k] # TerminateRequest => r.id < request_queue[k].id
      BY <2>5, KnownIs
    <3> QED
      BY <3>1, <3>2, <3>3 DEF Waiting
  <2>13. BegunBefore'
    <3>1. \A p, q \in in_progress' : p.id = q.id => p = q
      BY <2>3, <2>7 DEF EventInv, BegunBefore
    <3>2. Begun' \cap (Asked' \cup Held') = {}
      BY <1>3, <2>10, <2>11 DEF EventInv, BegunBefore
    <3>3. \A b \in Begun' : b < next_id' /\ \A w \in Waiting' : b < w
      BY <1>3, <2>10, <2>12 DEF EventInv, BegunBefore
    <3> QED
      BY <3>1, <3>2, <3>3 DEF BegunBefore
  <2>14. OwnEvents(c)'
    BY <1>5, <2>3, <2>4, <2>5 DEF OwnEvents
  <2>15. \A i : Past(i) => Past(i)'
    BY <1>2, <1>3, <2>5, <2>10 DEF Past, Done
  <2> QED
    BY <2>8, <2>9, <2>13, <2>14, <2>15 DEF EventInv
<1>9. ASSUME NEW r \in in_progress, NEW m, server_in' = Append(server_in, m),
             m.kind = "event", m.id = r.id, Interprets(m) <=> Interprets(r),
             engine_in' = engine_in, in_progress' \subseteq in_progress,
             Final(m) => r \notin in_progress'
      PROVE  EventInv' /\ OwnEvents(c)' /\ \A i : Past(i) => Past(i)'
  <2>1. /\ DOMAIN server_in' = DOMAIN server_in \cup {n}
        /\ \A k \in DOMAIN server_in : server_in'[k] = server_in[k] /\ k < n /\ ~(n < k)
        /\ server_in'[n] = m /\ ~(n < n)
    BY <1>7, <1>9
  <2>2. \A k \in DOMAIN server_in : server_in[k].id = r.id =>
           ~Final(server_in[k]) /\ (Interprets(server_in[k]) <=> Interprets(m))
    BY <1>9 DEF EventInv, EventOrder, EventKinds
  <2>3. \A q \in in_progress : q.id = r.id => q = r
    BY DEF EventInv, BegunBefore
  <2>4. EventOrder'
    BY <1>9, <2>1, <2>2, <2>3 DEF EventInv, EventOrder
  <2>5. EventKinds'
    BY <1>9, <2>1, <2>2, <2>3 DEF EventInv, EventKinds
  <2>6. Begun' \subseteq Begun /\ Asked' = Asked
    <3>1. r.id \in Begun
      BY <1>4
    <3> QED
      BY <1>9, <2>1, <3>1 DEF Begun, Asked
  <2>7. BegunBefore'
    <3>1. \A p, q \in in_progress' : p.id = q.id => p = q
      BY <1>9 DEF EventInv, BegunBefore
    <3> QED
      BY <1>3, <2>6, <3>1 DEF EventInv, BegunBefore
  <2>8. OwnEvents(c)'
    BY <1>9, <2>1 DEF OwnEvents
  <2>9. \A i : Past(i) => Past(i)'
    BY <1>2, <1>3, <2>6 DEF Past, Done
  <2> QED
    BY <2>4, <2>5, <2>7, <2>8, <2>9 DEF EventInv
<1>10. \A r \in in_progress : r.method \in Starting
  BY <1>1 DEF ChannelTypeOK
<1>11. CASE EngineComplete
  <2>1. PICK r \in in_progress : EngineFinish(r)
    BY <1>11 DEF EngineComplete
  <2>2. PICK m : m = [kind |-> "event", id |-> r.id, method |-> CompletionEvent(r.method),
                      reply |-> "IN-PROGRESS"]
    OBVIOUS
  <2>3. Interprets(m) <=> Interprets(r)
    BY <1>10, <2>2 DEF Interprets, CompletionEvent, Starting
  <2>4. /\ server_in' = Append(server_in, m) /\ engine_in' = engine_in /\ m.kind = "event"
        /\ m.id = r.id /\ in_progress' = in_progress \ {r}
    BY <2>1, <2>2 DEF EngineFinish, EngineEvent, EngineSend
  <2> QED
    BY <1>9, <2>3, <2>4
<1>12. CASE EngineMarker
  <2>1. PICK r \in in_progress : EngineMark(r)
    BY <1>12 DEF EngineMarker
  <2>2. PICK m : m = [kind |-> "event", id |-> r.id, method |-> MarkerEvent(r.method),
                      reply |-> "IN-PROGRESS"]
    OBVIOUS
  <2>3. r.method # "INTERPRET"
    BY <2>1 DEF EngineMark
  <2>4. (Interprets(m) <=> Interprets(r)) /\ ~Final(m)
    BY <1>10, <2>2, <2>3 DEF Interprets, MarkerEvent, Starting, Final
  <2>5. /\ server_in' = Append(server_in, m) /\ engine_in' = engine_in /\ m.kind = "event"
        /\ m.id = r.id /\ in_progress' = in_progress
    BY <2>1, <2>2 DEF EngineMark, EngineEvent, EngineSend
  <2> QED
    BY <1>9, <2>4, <2>5
<1> QED
  BY <1>8, <1>11, <1>12

(* What the session pops was waiting.                                      *)
LEMMA PopWaiting ==
    ASSUME ChannelTypeOK, PopSessionRequest
    PROVE  Waiting' \subseteq Waiting
<1>1. request_queue \in Seq(Request)
  BY DEF ChannelTypeOK
<1>2. CASE request_queue = <<>>
  BY <1>2 DEF PopSessionRequest, Waiting, Handled
<1>3. CASE request_queue # <<>>
  <2>1. Head(request_queue) = request_queue[1] /\ 1 \in DOMAIN request_queue
    BY <1>1, <1>3
  <2>2. \A k \in DOMAIN Tail(request_queue) :
           k + 1 \in DOMAIN request_queue /\ Tail(request_queue)[k] = request_queue[k + 1]
    BY <1>1, <1>3
  <2>3. session_request' = request_queue[1] /\ request_queue' = Tail(request_queue)
    BY <1>3, <2>1 DEF PopSessionRequest
  <2>4. Handled' \subseteq Waiting
    BY <2>1, <2>3 DEF Handled, Waiting
  <2>5. \A k \in DOMAIN request_queue' :
           request_queue'[k] # TerminateRequest => request_queue'[k].id \in Waiting
    BY <2>2, <2>3 DEF Waiting
  <2> QED
    BY <2>4, <2>5 DEF Waiting
<1> QED
  BY <1>2, <1>3

(* A response to the client changes nothing else that waits.               *)
LEMMA ResponseWaiting ==
    ASSUME ChannelTypeOK, active, NEW id, NEW rstate, NEW ended,
           response_dispatch(id, rstate, ended)
    PROVE  Waiting' \subseteq Waiting /\ next_id' = next_id
  BY PopWaiting DEF response_dispatch

(* The client.                                                             *)
LEMMA ClientStep ==
    ASSUME ChannelTypeOK, ChannelTypeOK', ChannelClient
    PROVE  ServerStep
<1>1. request_queue \in Seq(Request) /\ next_id \in Nat /\ next_id' \in Nat
  BY IdTypes DEF ChannelTypeOK
<1>2. ASSUME NEW m, SignalingMessageProcess(m), m = TerminateRequest \/ m.id = next_id,
             next_id' = next_id \/ next_id' = next_id + 1
      PROVE  ServerStep
  <2>1. UNCHANGED <<engine_in, in_progress, server_in, queue, deferred>> /\ ~nested
    BY <1>2 DEF SignalingMessageProcess, Busy, engine_vars, machine_vars
  <2>2. Asked' = Asked /\ Held' = Held
    BY <2>1 DEF Asked, Held
  <2>3. Waiting' \subseteq Waiting \cup {next_id}
    <3>1. CASE session_request # NoRequest
      <4>1. request_queue' = Append(request_queue, m) /\ ~nested'
        BY <1>2, <2>1, <3>1 DEF SignalingMessageProcess
      <4>2. \A k \in DOMAIN Append(request_queue, m) :
               \/ k \in DOMAIN request_queue /\ Append(request_queue, m)[k] = request_queue[k]
               \/ Append(request_queue, m)[k] = m
        BY <1>1
      <4> QED
        BY <1>2, <4>1, <4>2 DEF Waiting, Handled
    <3>2. CASE session_request = NoRequest
      BY <1>2, <3>2 DEF SignalingMessageProcess, Waiting, Handled
    <3> QED
      BY <3>1, <3>2
  <2>4. next_id' >= next_id
    BY <1>1, <1>2
  <2> QED
    BY <1>1, <2>1, <2>2, <2>3, <2>4 DEF ServerStep
<1>3. CASE ClientTerminate
  BY <1>2, <1>3 DEF ClientTerminate
<1>4. ASSUME NEW method, NEW sel, NEW kill, ClientRequest(method, sel, kill)
      PROVE  ServerStep
  <2>1. PICK m : m = [id |-> next_id, method |-> method, sel |-> sel, kill |-> kill]
    OBVIOUS
  <2>2. SignalingMessageProcess(m) /\ m.id = next_id /\ next_id' = next_id + 1
    BY <1>4, <2>1 DEF ClientRequest
  <2> QED
    BY <1>2, <2>2
<1> QED
  BY <1>3, <1>4 DEF ChannelClient

(* The handlers of requests.                                               *)
LEMMA RequestStep ==
    ASSUME NEW c, ChannelInv(c), RecogRequest
    PROVE  ServerStep
<1>1. nested /\ session_request.method \in Methods
  BY DEF RecogRequest, recog_request_params, recog_request_define_grammar,
     recog_request_recognize, recog_request_interpret, recog_request_get_result,
     recog_request_recognition_start_timers, recog_request_stop, Handling, Methods,
     RecogMethods
<1>2. active /\ session_request # TerminateRequest /\ ChannelTypeOK /\ Sorted
  BY <1>1, HandledIs DEF ChannelInv
<1>3. Handled = {session_request.id} /\ next_id \in Nat
  BY <1>1, <1>2, IdTypes DEF Handled
<1>4. ASSUME DispatchAndReturn(session_request), UNCHANGED queue PROVE ServerStep
  <2>1. /\ engine_in' = engine_in \cup {session_request} /\ ~nested'
        /\ UNCHANGED <<in_progress, server_in, deferred, session_request, request_queue, next_id>>
    BY <1>4 DEF DispatchAndReturn, request_dispatch, session_vars, client_vars
  <2>2. Asked' \subseteq Asked \cup Handled /\ Held' = Held
    BY <1>3, <1>4, <2>1 DEF Asked, Held
  <2>3. Waiting' \subseteq Waiting
    BY <2>1 DEF Waiting, Handled
  <2> QED
    BY <1>3, <2>1, <2>2, <2>3 DEF ServerStep
<1>5. ASSUME NEW id, NEW rstate, NEW ended, RespondAndReturn(id, rstate, ended),
             Held' \subseteq Held \cup {session_request.id}
      PROVE  ServerStep
  <2>1. UNCHANGED <<engine_in, in_progress, server_in>>
    BY <1>5 DEF RespondAndReturn, engine_vars
  <2>2. Waiting' \subseteq Waiting /\ next_id' = next_id
    BY <1>2, <1>5, ResponseWaiting DEF RespondAndReturn
  <2>3. Asked' = Asked
    BY <2>1 DEF Asked
  <2> QED
    BY <1>3, <1>5, <2>1, <2>2, <2>3 DEF ServerStep
<1>6. ASSUME NEW forward, ForwardOrRespond(forward) PROVE ServerStep
  <2>1. CASE forward
    BY <1>4, <1>6, <2>1 DEF ForwardOrRespond
  <2>2. CASE ~forward
    <3>1. RespondAndReturn(session_request.id, "COMPLETE", {}) /\ queue' = queue
      BY <1>6, <2>2 DEF ForwardOrRespond
    <3>2. Held' = Held
      BY <3>1 DEF RespondAndReturn, Held
    <3> QED
      BY <1>5, <3>1, <3>2
  <2> QED
    BY <2>1, <2>2
<1>7. CASE recog_request_recognize
  <2>1. PICK occupied \in BOOLEAN : StartOrQueue(occupied)
    BY <1>7 DEF recog_request_recognize
  <2>2. CASE ~occupied
    BY <1>4, <2>1, <2>2 DEF StartOrQueue
  <2>3. CASE occupied
    <3>1. /\ queue' = Append(queue, session_request)
          /\ RespondAndReturn(session_request.id, "PENDING", {})
      BY <2>1, <2>3 DEF StartOrQueue
    <3>2. queue \in Seq(QueuedRequest)
      BY <1>2 DEF ChannelTypeOK
    <3>3. \A k \in DOMAIN queue' : \/ k \in DOMAIN queue /\ queue'[k] = queue[k]
                                   \/ queue'[k] = session_request
      BY <3>1, <3>2
    <3>4. Held' \subseteq Held \cup {session_request.id}
      BY <3>1, <3>3 DEF RespondAndReturn, Held
    <3> QED
      BY <1>5, <3>1, <3>4
  <2> QED
    BY <2>2, <2>3
<1>8. CASE recog_request_stop
  <2>1. PICK forward \in BOOLEAN : StopOrRemove(forward)
    BY <1>8 DEF recog_request_stop
  <2>2. CASE forward
    BY <1>4, <2>1, <2>2 DEF StopOrRemove
  <2>3. CASE ~forward
    <3>1. /\ queue' = Remaining(session_request.sel)
          /\ RespondAndReturn(session_request.id, "COMPLETE", RemovedIds(session_request.sel))
      BY <2>1, <2>3 DEF StopOrRemove
    <3>2. deferred' = deferred
      BY <3>1 DEF RespondAndReturn
    <3>3. Held' \subseteq Held
      BY <1>2, <3>1, <3>2, RemainingHeld
    <3> QED
      BY <1>5, <3>1, <3>3
  <2> QED
    BY <2>2, <2>3
<1> QED
  BY <1>6, <1>7, <1>8 DEF RecogRequest, recog_request_params, recog_request_define_grammar,
     recog_request_interpret, recog_request_get_result, recog_request_recognition_start_timers

(* The handlers of the messages of the engine.                             *)
LEMMA TakeStep ==
    ASSUME ChannelTypeOK, TakeEngineMessage, Asked' \subseteq Asked \cup Held,
           Held' \subseteq Held, next_id' = next_id, Waiting' \subseteq Waiting
    PROVE  ServerStep
<1>1. next_id \in Nat /\ next_id >= next_id
  BY IdTypes
<1> QED
  BY <1>1 DEF TakeEngineMessage, ServerStep

(* The handlers of responses.                                              *)
LEMMA ResponseStep ==
    ASSUME NEW c, ChannelInv(c), RecogResponse, active
    PROVE  ServerStep
<1>1. ChannelTypeOK /\ Sorted
  BY DEF ChannelInv
<1>2. ASSUME UNCHANGED <<session_request, request_queue, nested>> PROVE Waiting' = Waiting
  BY <1>2 DEF Waiting, Handled
<1>3. ASSUME UNCHANGED <<queue, deferred>> PROVE Held' = Held
  BY <1>3 DEF Held
<1>4. ASSUME engine_in' = engine_in PROVE Asked' = Asked
  BY <1>4 DEF Asked
<1>5. ASSUME NEW methods, ResponseTo(methods), NEW rstate, PassOn(rstate) PROVE ServerStep
  BY <1>1, <1>3, <1>4, <1>5, ResponseWaiting, TakeStep DEF PassOn, ResponseTo
<1>6. CASE UnexpectedResponse
  BY <1>1, <1>2, <1>3, <1>4, <1>6, TakeStep DEF UnexpectedResponse, IgnoreResponse,
     machine_vars, session_vars, stack_vars, client_vars
<1>7. CASE recog_response_plain \/ recog_response_interpret
  BY <1>5, <1>7 DEF recog_response_plain, recog_response_interpret
<1>8. CASE recog_response_recognize
  <2>1. CASE is_pending
    BY <1>1, <1>2, <1>3, <1>4, <1>8, <2>1, TakeStep DEF recog_response_recognize, ResponseTo,
       session_vars, stack_vars, client_vars
  <2>2. CASE ~is_pending
    BY <1>5, <1>8, <2>2 DEF recog_response_recognize
  <2> QED
    BY <2>1, <2>2
<1>9. CASE recog_response_stop
  <2>1. TakeEngineMessage /\ engine_in' = engine_in
    BY <1>9 DEF recog_response_stop, ResponseTo
  <2>2. CASE recog = NoRequest
    <3>1. UNCHANGED <<session_request, request_queue, nested, queue, deferred, next_id>>
      BY <1>9, <2>2 DEF recog_response_stop, NullDereference, machine_vars, session_vars,
         client_vars
    <3> QED
      BY <1>1, <1>2, <1>3, <1>4, <2>1, <3>1, TakeStep
  <2>3. CASE recog # NoRequest
    <3>1. EndByStop(recog)
      BY <1>9, <2>3 DEF recog_response_stop
    <3>2. Waiting' \subseteq Waiting /\ next_id' = next_id
      BY <1>1, <3>1, ResponseWaiting DEF EndByStop
    <3>3. PICK rest : rest = Remaining(active_request.sel)
      OBVIOUS
    <3>4. /\ rest \in Seq(QueuedRequest)
          /\ \A k \in DOMAIN rest : rest[k].id \in Held
      BY <1>1, <3>3, RemainingIs DEF Held
    <3>5. Held' \subseteq Held
      <4>1. CASE rest = <<>>
        BY <3>1, <3>3, <4>1 DEF EndByStop, Held
      <4>2. CASE rest # <<>>
        <5>1. queue' = Tail(rest) /\ deferred' = Head(rest)
          BY <3>1, <3>3, <4>2 DEF EndByStop
        <5>2. Head(rest) = rest[1] /\ 1 \in DOMAIN rest
          BY <3>4, <4>2
        <5>3. \A k \in DOMAIN Tail(rest) : k + 1 \in DOMAIN rest /\ Tail(rest)[k] = rest[k + 1]
          BY <3>4, <4>2
        <5> QED
          BY <3>4, <5>1, <5>2, <5>3 DEF Held
      <4> QED
        BY <4>1, <4>2
    <3> QED
      BY <1>1, <1>4, <2>1, <3>2, <3>5, TakeStep
  <2> QED
    BY <2>2, <2>3
<1>10. CASE RecogDeferred
  <2>1. /\ deferred # NoRequest /\ engine_in' = engine_in \cup {deferred} /\ deferred' = NoRequest
        /\ UNCHANGED <<queue, session_request, request_queue, nested, in_progress, server_in, next_id>>
    BY <1>10 DEF RecogDeferred, DispatchDeferred, request_dispatch, session_vars, client_vars
  <2>2. Asked' \subseteq Asked \cup Held /\ Held' \subseteq Held
    BY <2>1 DEF Asked, Held
  <2>3. next_id \in Nat /\ next_id >= next_id
    BY <1>1, IdTypes
  <2> QED
    BY <1>2, <2>1, <2>2, <2>3 DEF ServerStep
<1> QED
  BY <1>6, <1>7, <1>8, <1>9, <1>10 DEF RecogResponse

(* The handlers of events.                                                 *)
LEMMA EventStep ==
    ASSUME ChannelTypeOK, RecogEvent
    PROVE  ServerStep
<1>1. /\ TakeEngineMessage
      /\ UNCHANGED <<session_request, request_queue, nested, deferred>>
  BY DEF RecogEvent, recog_event_start_of_input, recog_event_recognition_complete,
     recog_event_interpretation_complete, EventNamed, session_vars, stack_vars
<1>2. Waiting' = Waiting
  BY <1>1 DEF Waiting, Handled
<1>3. ASSUME NEW passed, NEW rstate, TellClient(passed, rstate) PROVE ServerStep
  <2>1. next_id' = next_id /\ queue' = queue /\ engine_in' = engine_in
    BY <1>3 DEF TellClient, event_dispatch, client_vars
  <2>2. Asked' = Asked /\ Held' = Held
    BY <1>1, <2>1 DEF Asked, Held
  <2> QED
    BY <1>1, <1>2, <2>1, <2>2, TakeStep
<1>4. ASSUME CompleteAndNext PROVE ServerStep
  <2>1. next_id' = next_id
    BY <1>4 DEF CompleteAndNext, event_dispatch
  <2>2. Asked' \subseteq Asked \cup Held /\ Held' \subseteq Held
    <3>1. CASE queue = <<>>
      BY <1>1, <1>4, <3>1 DEF CompleteAndNext, Asked, Held
    <3>2. CASE queue # <<>>
      <4>1. queue \in Seq(QueuedRequest)
        BY DEF ChannelTypeOK
      <4>2. queue' = Tail(queue) /\ engine_in' = engine_in \cup {Head(queue)}
        BY <1>4, <3>2 DEF CompleteAndNext, request_dispatch
      <4>3. Head(queue) = queue[1] /\ 1 \in DOMAIN queue
        BY <3>2, <4>1
      <4>4. \A k \in DOMAIN Tail(queue) : k + 1 \in DOMAIN queue /\ Tail(queue)[k] = queue[k + 1]
        BY <3>2, <4>1
      <4>5. Asked' \subseteq Asked \cup Held
        BY <4>2, <4>3 DEF Asked, Held
      <4>6. Held' \subseteq Held
        BY <1>1, <4>2, <4>4 DEF Held
      <4> QED
        BY <4>5, <4>6
    <3> QED
      BY <3>1, <3>2
  <2> QED
    BY <1>1, <1>2, <2>1, <2>2, TakeStep
<1> QED
  BY <1>3, <1>4 DEF RecogEvent, recog_event_start_of_input, recog_event_recognition_complete,
     recog_event_interpretation_complete

-----------------------------------------------------------------------------
(* What the client is told of the requests of a recognizer channel: the    *)
(* recognition in progress was not reported ended.  (One that waited may   *)
(* still be PENDING for the client.)                                       *)
RecogView == ViewInv(Current, {"sent", "PENDING", "IN-PROGRESS"})

(* An interpretation is reported ended (l. 377-385): no other is.          *)
LEMMA InterpretedView ==
    ASSUME NEW c, NEW told, ChannelInv(c), ViewInv(c, told), active => EventInv,
           active => OwnEvents(c), EventNamed("INTERPRETATION-COMPLETE"),
           TellClient(TRUE, "COMPLETE")
    PROVE  ViewInv(c, told)' /\ Forward
<1>1. /\ TakeEngineMessage /\ server_in # <<>> /\ server_in' = Tail(server_in) /\ ~nested
      /\ Received.kind = "event" /\ Received.method = "INTERPRETATION-COMPLETE"
      /\ UNCHANGED <<active, session_request, request_queue, nested, deferred>>
  BY DEF EventNamed, TakeEngineMessage, Busy, session_vars, stack_vars
<1>2. /\ UNCHANGED <<engine_in, queue, next_id>>
      /\ \A i \in Ids : view'[i] = IF active /\ i = Received.id THEN "COMPLETE" ELSE view[i]
  BY DEF TellClient, event_dispatch
<1>3. ChannelTypeOK
  BY DEF ChannelInv
<1>4. Received = server_in[1] /\ 1 \in DOMAIN server_in
  BY <1>1, <1>3, TakenMessages
<1>5. Held' = Held /\ Out' \subseteq Out
  <2>1. Out' = Out
    BY <1>1, <1>2, <1>3, TakeIs DEF ChannelInv
  <2> QED
    BY <1>1, <1>2, <2>1 DEF Held
<1>6. PICK e : e = Received.id
  OBVIOUS
<1>7. CASE ~active
  <2>1. ~active' /\ (\A i \in Ids : view'[i] = view[i]) /\ (c # NoRequest => c.id # 0)
    BY <1>1, <1>2, <1>7 DEF ViewInv
  <2> QED
    BY <1>2, <2>1, InactiveView
<1>8. CASE active
  <2>1. e \in Begun /\ e \notin Asked /\ e \notin Held /\ e < next_id /\ (\A w \in Waiting : e < w)
    BY <1>1, <1>3, <1>4, <1>6, <1>8, StoryTypes DEF EventInv, BegunBefore
  <2>2. e \notin Out
    <3>1. \A l \in DOMAIN server_in : l # 1 => l > 1
      BY <1>3, <1>1, TakenMessages
    <3>2. \A l \in DOMAIN server_in :
             server_in[l].kind = "response" => server_in[l].id # e
      BY <1>1, <1>4, <1>6, <1>8, <3>1 DEF EventInv, EventOrder
    <3> QED
      BY <2>1, <3>2 DEF Out, Answers, Asked
  <2>3. c # NoRequest => c.id # e
    BY <1>1, <1>4, <1>6, <1>8 DEF OwnEvents, Interprets
  <2>4. \A k \in DOMAIN request_queue :
           request_queue[k] # TerminateRequest => request_queue[k].id # e
    <3>1. e \in Nat
      BY <1>3, <2>1, StoryTypes
    <3> QED
      BY <2>1, <3>1 DEF Waiting
  <2>5. /\ \A o \in Out \cup Held : o \in Ids
        /\ c # NoRequest => c.id \in Ids
        /\ session_request.id \in Out => session_request.id \in Ids
        /\ \A k \in DOMAIN request_queue : request_queue[k] # TerminateRequest =>
              request_queue[k].id \in Ids
    BY <1>8, KnownIs DEF ViewInv
  <2>6. \A i \in Ids : i >= next_id => view'[i] = "unsent"
    <3>1. e \in Nat /\ next_id \in Nat /\ Ids \subseteq Nat
      BY <1>3, <2>1, StoryTypes DEF Ids
    <3>2. \A i \in Ids : i >= next_id => i # e
      BY <2>1, <3>1
    <3> QED
      BY <1>2, <1>6, <3>2 DEF ViewInv
  <2>7. /\ \A o \in Out' : view'[o] \in {"sent", "PENDING"}
        /\ \A h \in Held' : view'[h] = "PENDING"
        /\ c # NoRequest => view'[c.id] \in told
        /\ session_request.id \in Out' => view'[session_request.id] = "sent"
        /\ \A k \in DOMAIN request_queue : request_queue[k] # TerminateRequest =>
              view'[request_queue[k].id] = "sent"
    BY <1>2, <1>5, <1>6, <1>8, <2>1, <2>2, <2>3, <2>4, <2>5 DEF ViewInv
  <2>8. ViewInv(c, told)'
    BY <1>1, <1>2, <2>6, <2>7 DEF ViewInv
  <2>9. Forward
    BY <1>2, <1>3, ForwardSteps
  <2> QED
    BY <2>8, <2>9
<1> QED
  BY <1>7, <1>8

(* Every step keeps what the client is told, and takes nothing back.       *)
LEMMA NextRecogView ==
    ASSUME TypeOK, IdleIsEmpty, StopFindsRecognition, ChannelInv(Current), StoryInv,
           RecogView, [Next]_vars
    PROVE  RecogView' /\ Forward
<1>1. PICK c, d, told : /\ c = Current /\ d = Current'
                        /\ told = {"sent", "PENDING", "IN-PROGRESS"}
  OBVIOUS
<1>2. SUFFICES ViewInv(d, told)' /\ Forward
  BY <1>1 DEF RecogView
<1>3. ChannelInv(c) /\ ViewInv(c, told)
  BY <1>1 DEF RecogView
<1>4. UNCHANGED sm_vars => d = c
  BY <1>1 DEF sm_vars, Current
<1>5. BecomeIdle \/ state' = "RECOGNIZED" => d = NoRequest
  BY <1>1 DEF BecomeIdle, Current
<1>6. DiscardResult => d = c
  BY <1>1, <1>4 DEF BecomeIdle, Current, DiscardResult
<1>7. CASE Client
  <2>1. ChannelInv(c)' /\ ChannelClient
    BY <1>3, <1>7, ClientInv DEF Client
  <2> QED
    BY <1>3, <1>4, <1>7, <2>1, ClientView DEF Client
<1>8. CASE SessionDeactivate
  <2>1. DeactivateChannel(c)
    BY <1>1, <1>8 DEF SessionDeactivate, Current
  <2> QED
    BY <1>3, <1>4, <1>8, <2>1, DeactivateView DEF SessionDeactivate
<1>9. CASE RecogRequest
  <2>1. nested /\ session_request.method \in Methods
    BY <1>9 DEF RecogRequest, recog_request_params, recog_request_define_grammar,
       recog_request_recognize, recog_request_interpret, recog_request_get_result,
       recog_request_recognition_start_timers, recog_request_stop, Handling, Methods,
       RecogMethods
  <2>2. CASE recog_request_recognize
    <3>1. session_request.method \in Queueing /\ UNCHANGED sm_vars
      BY <2>2 DEF recog_request_recognize, Handling, Queueing
    <3>2. PICK occupied \in BOOLEAN : occupied = (state = "RECOGNIZING")
      OBVIOUS
    <3>3. StartOrQueue(occupied)
      BY <2>2, <3>2 DEF recog_request_recognize
    <3>4. occupied => c # NoRequest
      BY <1>1, <3>2 DEF Current, IdleIsEmpty
    <3> QED
      BY <1>3, <1>4, <2>1, <3>1, <3>3, <3>4, StartOrQueueView
  <2>3. CASE recog_request_stop
    BY <1>3, <1>6, <2>1, <2>3, StopOrRemoveView DEF recog_request_stop
  <2>4. ASSUME NEW forward \in BOOLEAN, ForwardOrRespond(forward),
               UNCHANGED sm_vars \/ DiscardResult
        PROVE  ViewInv(d, told)' /\ Forward
    BY <1>3, <1>4, <1>6, <2>1, <2>4, ForwardOrRespondView
  <2> QED
    BY <1>9, <2>2, <2>3, <2>4 DEF RecogRequest, recog_request_params,
       recog_request_define_grammar, recog_request_interpret, recog_request_get_result,
       recog_request_recognition_start_timers
<1>10. CASE RecogResponse
  <2>1. CASE UnexpectedResponse
    BY <1>3, <1>4, <2>1, IgnoreView DEF UnexpectedResponse
  <2>2. CASE recog_response_plain
    <3> DEFINE plain == {"SET-PARAMS", "GET-PARAMS", "DEFINE-GRAMMAR", "GET-RESULT",
                         "START-INPUT-TIMERS"}
    <3>1. ResponseTo(plain) /\ PassOn("COMPLETE") /\ UNCHANGED sm_vars
      BY <2>2 DEF recog_response_plain
    <3>2. plain \cap Queueing = {} /\ "STOP" \notin plain
      BY DEF Queueing
    <3> HIDE DEF plain
    <3> QED
      BY <1>3, <1>4, <3>1, <3>2, PassOnView
  <2>3. CASE recog_response_recognize
    <3>1. /\ ResponseTo({"RECOGNIZE"}) /\ {"RECOGNIZE"} \in SUBSET Queueing
          /\ "STOP" \notin {"RECOGNIZE"}
      BY <2>3 DEF recog_response_recognize, Queueing
    <3>2. d = c \/ (d = active_request /\ Received.reply = "IN-PROGRESS")
      BY <1>1, <1>4, <2>3 DEF recog_response_recognize, Current
    <3>3. CASE is_pending
      <4>1. /\ UNCHANGED <<active, nested, session_request, queue, deferred, request_queue>>
            /\ UNCHANGED <<next_id, view>>
        BY <2>3, <3>3 DEF recog_response_recognize, session_vars, stack_vars, client_vars
      <4>2. active => view[active_request.id] \in told
        BY <1>1, <1>3, <3>1, AcceptedIs DEF ViewInv
      <4> QED
        BY <1>3, <3>1, <3>2, <3>3, <4>1, <4>2, PendingView
    <3>4. CASE ~is_pending
      <4>1. PassOn(StartedState)
        BY <2>3, <3>4 DEF recog_response_recognize
      <4>2. PICK rstate \in {"IN-PROGRESS", "COMPLETE"} :
               /\ rstate = StartedState
               /\ Received.reply = "IN-PROGRESS" => rstate = "IN-PROGRESS"
        BY DEF StartedState
      <4>3. /\ d = c \/ (d = active_request /\ {"RECOGNIZE"} \subseteq Queueing /\ rstate \in told)
            /\ PassOn(rstate)
        BY <1>1, <3>1, <3>2, <4>1, <4>2
      <4> QED
        BY <1>3, <3>1, <3>4, <4>3, PassOnView
    <3> QED
      BY <3>3, <3>4
  <2>4. CASE recog_response_interpret
    <3>1. PICK rstate \in {"IN-PROGRESS", "COMPLETE"} : rstate = StartedState
      BY DEF StartedState
    <3>2. ResponseTo({"INTERPRET"}) /\ PassOn(rstate) /\ UNCHANGED sm_vars
      BY <2>4, <3>1 DEF recog_response_interpret
    <3>3. {"INTERPRET"} \cap Queueing = {} /\ "STOP" \notin {"INTERPRET"}
      BY DEF Queueing
    <3> QED
      BY <1>3, <1>4, <3>2, <3>3, PassOnView
  <2>5. CASE recog_response_stop
    <3>1. ResponseTo({"STOP"})
      BY <2>5 DEF recog_response_stop
    <3>2. active_request.method = "STOP"
      BY <1>3, <3>1, AcceptedIs
    <3>3. recog # NoRequest /\ c = recog
      BY <1>1, <3>2 DEF StopFindsRecognition, IdleIsEmpty, Current
    <3>4. EndByStop(c) /\ d = NoRequest
      BY <1>5, <2>5, <3>3 DEF recog_response_stop
    <3> QED
      BY <1>3, <3>1, <3>3, <3>4, EndByStopView
  <2>6. CASE RecogDeferred
    <3>1. c = NoRequest
      BY <1>3, <2>6 DEF RecogDeferred, DispatchDeferred, ChannelInv, Turns
    <3> QED
      BY <1>3, <1>4, <2>6, <3>1, DeferredView DEF RecogDeferred
  <2> QED
    BY <1>10, <2>1, <2>2, <2>3, <2>4, <2>5, <2>6 DEF RecogResponse
<1>11. CASE RecogEvent
  <2>1. /\ TakeEngineMessage /\ server_in # <<>> /\ server_in' = Tail(server_in)
        /\ Received.kind = "event" /\ active' = active
    BY <1>11 DEF RecogEvent, recog_event_start_of_input, recog_event_recognition_complete,
       recog_event_interpretation_complete, EventNamed, TakeEngineMessage
  <2>2. active /\ EventOfRecog => c = recog /\ c # NoRequest /\ Received.id = c.id
    <3>1. ChannelTypeOK
      BY <1>3 DEF ChannelInv
    <3>2. Received.id \in Begun
      <4>1. Received = server_in[1] /\ 1 \in DOMAIN server_in
        BY <2>1, <3>1, TakenMessages
      <4> QED
        BY <2>1, <3>1, <4>1, StoryTypes
    <3>3. active /\ EventOfRecog => state = "RECOGNIZING"
      BY <3>2 DEF EventOfRecog, IdleIsEmpty, TypeOK, StoryInv, Past
    <3> QED
      BY <1>1, <3>3 DEF EventOfRecog, Current
  <2>3. ASSUME ~active, NEW id, NEW rstate, event_dispatch(id, rstate), d = c \/ d = NoRequest
        PROVE  ViewInv(d, told)' /\ Forward
    <3>1. ~active' /\ next_id' = next_id /\ (\A i \in Ids : view'[i] = view[i])
      BY <2>1, <2>3 DEF event_dispatch
    <3>2. d # NoRequest => d.id # 0
      BY <1>3, <2>3 DEF ViewInv
    <3> QED
      BY <1>3, <3>1, <3>2, InactiveView
  <2>4. CASE recog_event_start_of_input
    <3>1. /\ EventNamed("START-OF-INPUT") /\ TellClient(EventOfRecog, "IN-PROGRESS")
          /\ EventOfRecog \in BOOLEAN /\ d = c
      BY <1>4, <2>4 DEF recog_event_start_of_input, EventOfRecog
    <3>2. CASE active \/ ~EventOfRecog
      <4>1. "COMPLETE" \notin told /\ "IN-PROGRESS" \in told
        BY <1>1
      <4> QED
        BY <1>3, <2>2, <3>1, <3>2, <4>1, TellClientView
    <3>3. CASE ~active /\ EventOfRecog
      BY <2>3, <3>1, <3>3 DEF TellClient
    <3> QED
      BY <3>2, <3>3
  <2>5. CASE recog_event_recognition_complete
    <3>1. CASE EventOfRecog /\ ~StopInProgress
      <4>1. EventNamed("RECOGNITION-COMPLETE") /\ CompleteAndNext /\ d = NoRequest
        BY <1>5, <2>5, <3>1 DEF recog_event_recognition_complete
      <4>2. CASE active
        BY <1>3, <2>2, <3>1, <4>1, <4>2, CompleteView
      <4>3. CASE ~active
        BY <2>3, <4>1, <4>3 DEF CompleteAndNext
      <4> QED
        BY <4>2, <4>3
    <3>2. CASE ~(EventOfRecog /\ ~StopInProgress)
      BY <1>3, <1>4, <2>5, <3>2, TellClientView DEF recog_event_recognition_complete
    <3> QED
      BY <3>1, <3>2
  <2>6. CASE recog_event_interpretation_complete
    <3>1. (active => EventInv) /\ (active => OwnEvents(c))
      BY <1>1 DEF StoryInv
    <3> QED
      BY <1>3, <1>4, <2>6, <3>1, InterpretedView DEF recog_event_interpretation_complete
  <2> QED
    BY <1>11, <2>4, <2>5, <2>6 DEF RecogEvent
<1>12. CASE Engine
  BY <1>3, <1>4, <1>12, EngineView DEF Engine
<1>13. CASE UNCHANGED vars
  BY <1>3, <1>4, <1>13, StutterView DEF vars
<1> QED
  BY <1>7, <1>8, <1>9, <1>10, <1>11, <1>12, <1>13 DEF Next, ServerTask

(* Every step keeps the story of the events.                               *)
LEMMA NextStoryInv ==
    ASSUME TypeOK, IdleIsEmpty, ChannelInv(Current), ChannelInv(Current)', StoryInv,
           RecogView, Forward, [Next]_vars
    PROVE  StoryInv'
<1>1. PICK c, d, i : c = Current /\ d = Current' /\ i = recog.id
  OBVIOUS
<1>2. ChannelInv(c) /\ ChannelTypeOK /\ ChannelTypeOK'
  BY <1>1 DEF ChannelInv
<1>3. CASE ~active'
  BY <1>3 DEF StoryInv
<1>4. CASE UNCHANGED vars
  <2>1. UNCHANGED <<active, state, recog>>
    BY <1>4 DEF vars, channel_vars, machine_vars, sm_vars
  <2>2. EventInv => EventInv'
    BY <1>4 DEF EventInv, EventOrder, EventKinds, BegunBefore, Begun, Asked, Held, Waiting,
       Handled, vars, channel_vars, machine_vars, session_vars, stack_vars, engine_vars,
       client_vars
  <2>3. OwnEvents(Current) => OwnEvents(Current)'
    BY <1>4, <2>1 DEF OwnEvents, Current, vars, channel_vars, engine_vars
  <2>4. Past(recog.id) => Past(recog.id)'
    BY <1>4, <2>1 DEF Past, Done, Begun, Out, Answers, Held, Waiting, Handled, vars,
       channel_vars, machine_vars, session_vars, stack_vars, engine_vars, client_vars
  <2> QED
    BY <2>1, <2>2, <2>3, <2>4 DEF StoryInv
<1>5. CASE active' /\ Next
  <2>1. active
    BY <1>5 DEF Next, Client, ChannelClient, ClientRequest, ClientTerminate,
       SignalingMessageProcess, ServerTask, SessionDeactivate, DeactivateChannel, RecogRequest,
       recog_request_params, recog_request_define_grammar, recog_request_recognize,
       recog_request_interpret, recog_request_get_result,
       recog_request_recognition_start_timers, recog_request_stop, ForwardOrRespond,
       StartOrQueue, StopOrRemove, RecogResponse, UnexpectedResponse, IgnoreResponse,
       recog_response_plain, recog_response_recognize, recog_response_interpret,
       recog_response_stop, RecogDeferred, DispatchDeferred, PassOn, EndByStop,
       NullDereference, RecogEvent, recog_event_start_of_input,
       recog_event_recognition_complete, recog_event_interpretation_complete, EventNamed,
       Engine, EngineAnswer, EngineComplete, EngineMarker, EngineRespond, EngineFinish,
       EngineMark, machine_vars
  <2>2. EventInv /\ OwnEvents(c) /\ (state = "RECOGNIZED" => Past(i))
    BY <1>1, <2>1 DEF StoryInv
  <2>3. CASE Engine
    <3>1. EventInv' /\ OwnEvents(c)' /\ (Past(i) => Past(i)') /\ UNCHANGED <<state, recog>>
      BY <1>2, <2>1, <2>2, <2>3, EngineStory DEF Engine, sm_vars
    <3>2. d = c /\ i = recog'.id
      BY <1>1, <3>1 DEF Current
    <3> QED
      BY <1>1, <2>2, <3>1, <3>2 DEF StoryInv
  <2>4. CASE Client \/ RecogRequest \/ RecogResponse \/ RecogEvent
    <3>1. ServerStep
      BY <1>2, <2>1, <2>4, ClientStep, RequestStep, ResponseStep, EventStep DEF Client
    <3>2. EventInv'
      BY <1>2, <2>2, <3>1, ServerEvents
    <3>3. CASE recog_response_recognize /\ Received.reply = "IN-PROGRESS"
      <4>1. d = active_request /\ state' = "RECOGNIZING" /\ ResponseTo({"RECOGNIZE"})
        BY <1>1, <3>3 DEF recog_response_recognize, Current
      <4>2. server_in # <<>> /\ server_in' = Tail(server_in)
        BY <4>1 DEF ResponseTo, TakeEngineMessage
      <4>3. Received = server_in[1] /\ 1 \in DOMAIN server_in
        BY <1>2, <4>2, TakenMessages
      <4>4. Received.id = d.id /\ Received.method = "RECOGNIZE"
        BY <4>1 DEF ResponseTo, Expected
      <4>5. ~Interprets(Received)
        BY <4>4 DEF Interprets
      <4>6. OwnEvents(d)
        BY <2>2, <4>3, <4>4, <4>5 DEF OwnEvents, EventInv, EventKinds
      <4>7. OwnEvents(d)'
        BY <1>2, <3>1, <4>6, ServerOwn
      <4> QED
        BY <1>1, <3>2, <4>1, <4>7 DEF StoryInv
    <3>4. CASE recog_event_recognition_complete /\ EventOfRecog /\ ~StopInProgress
      <4>1. /\ EventNamed("RECOGNITION-COMPLETE") /\ CompleteAndNext
            /\ state' = "RECOGNIZED" /\ recog' = recog
        BY <3>4 DEF recog_event_recognition_complete
      <4>2. /\ server_in # <<>> /\ server_in' = Tail(server_in) /\ Received.kind = "event"
            /\ Final(Received) /\ Received.id = i /\ in_progress' = in_progress
        BY <1>1, <3>4, <4>1 DEF EventNamed, TakeEngineMessage, Final, EventOfRecog
      <4>3. Received = server_in[1] /\ 1 \in DOMAIN server_in /\ i \in Begun
        <5>1. Received = server_in[1] /\ 1 \in DOMAIN server_in
          BY <1>2, <4>2, TakenMessages
        <5> QED
          BY <1>2, <4>2, <5>1, StoryTypes
      <4>4. c = recog /\ c # NoRequest /\ i = c.id
        BY <1>1, <2>2, <3>4, <4>3 DEF Current, EventOfRecog, IdleIsEmpty, TypeOK, Past
      <4>5. Done(i)
        <5>1. i # 0 /\ i \in Ids /\ i < next_id /\ i \notin Out /\ i \notin Held
          BY <1>1, <1>2, <2>1, <4>4, KnownIs DEF RecogView, ViewInv
        <5>2. \A w \in Waiting : i < w
          BY <2>2, <4>3 DEF EventInv, BegunBefore
        <5> QED
          BY <5>1, <5>2 DEF Done
      <4>6. Done(i)' /\ i \in Ids
        BY <1>2, <3>1, <4>5, ServerDone DEF Done
      <4>7. i \notin Begun'
        <5>1. \A r \in in_progress : r.id # i
          BY <2>2, <4>2, <4>3 DEF EventInv, EventOrder
        <5>2. \A l \in DOMAIN server_in : l > 1 => server_in[l].id # i
          BY <2>2, <4>2, <4>3 DEF EventInv, EventOrder
        <5>3. \A k \in DOMAIN server_in' : server_in'[k].id # i
          <6>1. ASSUME NEW k \in DOMAIN server_in' PROVE server_in'[k].id # i
            <7>1. k \in Nat /\ k >= 1 /\ k + 1 \in DOMAIN server_in /\ server_in'[k] = server_in[k + 1]
              BY <1>2, <4>2, TakenMessages
            <7>2. k + 1 > 1
              BY <7>1
            <7> QED
              BY <5>2, <7>1, <7>2
          <6> QED
            BY <6>1
        <5> QED
          BY <4>2, <5>1, <5>3 DEF Begun
      <4>8. view'[i] = "COMPLETE"
        BY <2>1, <4>1, <4>2, <4>6 DEF CompleteAndNext, event_dispatch
      <4>9. Past(i)' /\ recog'.id = i
        BY <1>1, <4>1, <4>6, <4>7, <4>8 DEF Past
      <4>10. OwnEvents(d)'
        BY <1>1, <4>1 DEF OwnEvents, Current
      <4> QED
        BY <1>1, <3>2, <4>9, <4>10 DEF StoryInv
    <3>5. CASE UNCHANGED sm_vars \/ (BecomeIdle /\ d = NoRequest)
      <4>1. CASE BecomeIdle /\ d = NoRequest
        <5>1. OwnEvents(d)' /\ state' # "RECOGNIZED"
          BY <4>1 DEF OwnEvents, BecomeIdle
        <5> QED
          BY <1>1, <3>2, <5>1 DEF StoryInv
      <4>2. CASE UNCHANGED sm_vars
        <5>1. d = c /\ recog'.id = i /\ state' = state
          BY <1>1, <4>2 DEF sm_vars, Current
        <5>2. OwnEvents(c)' /\ (Past(i) => Past(i)')
          BY <1>2, <2>2, <3>1, ServerOwn, ServerPast
        <5> QED
          BY <1>1, <2>2, <3>2, <5>1, <5>2 DEF StoryInv
      <4> QED
        BY <3>5, <4>1, <4>2
    <3>6. BecomeIdle => d = NoRequest
      BY <1>1 DEF BecomeIdle, Current
    <3>7. \/ recog_response_recognize /\ Received.reply = "IN-PROGRESS"
          \/ recog_event_recognition_complete /\ EventOfRecog /\ ~StopInProgress
          \/ UNCHANGED sm_vars \/ BecomeIdle
      BY <2>4 DEF Client, RecogRequest, recog_request_params, recog_request_define_grammar,
         recog_request_recognize, recog_request_interpret, recog_request_get_result,
         recog_request_recognition_start_timers, recog_request_stop, DiscardResult,
         RecogResponse, UnexpectedResponse, recog_response_plain, recog_response_recognize,
         recog_response_interpret, recog_response_stop, RecogDeferred, RecogEvent,
         recog_event_start_of_input, recog_event_recognition_complete,
         recog_event_interpretation_complete
    <3> QED
      BY <3>3, <3>4, <3>5, <3>6, <3>7
  <2>5. ~SessionDeactivate
    BY <1>5 DEF SessionDeactivate, DeactivateChannel
  <2> QED
    BY <1>5, <2>3, <2>4, <2>5 DEF Next, ServerTask
<1> QED
  BY <1>3, <1>4, <1>5

(* The inductive invariant of a recognizer channel.                        *)
RecogInv ==
    /\ TypeOK /\ ChannelInv(Current) /\ IdleIsEmpty /\ StopFindsRecognition
    /\ RecogView /\ StoryInv

(* It holds initially.                                                     *)
LEMMA InitRecogInv == Init => RecogInv
<1> SUFFICES ASSUME Init PROVE RecogInv
  OBVIOUS
<1>1. /\ Current = NoRequest /\ ChannelInv(NoRequest)
      /\ ViewInv(NoRequest, {"sent", "PENDING", "IN-PROGRESS"})
  BY InitInv, InitView DEF Init, Current
<1>2. TypeOK /\ StopFindsRecognition /\ IdleIsEmpty
  BY InitTypeOK, InitStopFindsRecognition DEF Init, IdleIsEmpty
<1>3. in_progress = {} /\ DOMAIN server_in = {} /\ state # "RECOGNIZED"
  BY DEF Init, ChannelInit
<1>4. EventInv
  BY <1>3 DEF EventInv, EventOrder, EventKinds, BegunBefore, Begun
<1>5. StoryInv
  BY <1>1, <1>3, <1>4 DEF StoryInv, OwnEvents
<1> QED
  BY <1>1, <1>2, <1>5 DEF RecogInv, RecogView

(* Every step keeps it, and takes back nothing that the client was told.   *)
LEMMA NextRecogInv == RecogInv /\ [Next]_vars => RecogInv' /\ Forward
<1> SUFFICES ASSUME RecogInv, [Next]_vars PROVE RecogInv' /\ Forward
  OBVIOUS
<1>1. TypeOK' /\ StopFindsRecognition'
  BY NextTypeOK, NextStopFindsRecognition DEF RecogInv
<1>2. ChannelInv(Current)' /\ IdleIsEmpty'
  BY NextChannelInv, NextIdleIsEmpty DEF RecogInv
<1>3. RecogView' /\ Forward
  BY NextRecogView DEF RecogInv
<1>4. StoryInv'
  BY <1>2, <1>3, NextStoryInv DEF RecogInv
<1> QED
  BY <1>1, <1>2, <1>3, <1>4 DEF RecogInv

(* What the client believes is what the state machine holds: a recognition *)
(* in progress was not reported ended, one whose result is kept was, and   *)
(* the queued ones are PENDING in the order in which the client sent them. *)
THEOREM ClientBelievesMachine == Spec => []MachineMatchesClient
<1>1. RecogInv => MachineMatchesClient
  <2> SUFFICES ASSUME RecogInv PROVE MachineMatchesClient
    OBVIOUS
  <2>1. state = "IDLE" <=> recog = NoRequest
    BY DEF RecogInv, IdleIsEmpty
  <2>2. active /\ state = "RECOGNIZING" => view[recog.id] # "COMPLETE"
    BY <2>1 DEF RecogInv, RecogView, ViewInv, Current
  <2>3. active /\ state = "RECOGNIZED" => view[recog.id] = "COMPLETE"
    BY DEF RecogInv, StoryInv, Past
  <2>4. \A k \in DOMAIN queue : queue[k].id \in Held
    BY DEF Held
  <2>5. \A k \in DOMAIN queue : active => view[queue[k].id] = "PENDING"
    BY <2>4 DEF RecogInv, RecogView, ViewInv
  <2>6. \A k, l \in DOMAIN queue : k < l => queue[k].id < queue[l].id
    BY DEF RecogInv, ChannelInv, Sorted
  <2> QED
    BY <2>1, <2>2, <2>3, <2>5, <2>6 DEF MachineMatchesClient
<1> QED
  BY <1>1, InitRecogInv, NextRecogInv, PTL DEF Spec

(* The client is never told less of a request than it was told before: no  *)
(* START-OF-INPUT passes (l. 317-331) for a recognition whose end was      *)
(* reported, although its result, and so its id, is kept; the end of an    *)
(* interpretation (l. 377-385) is passed on unchecked, and is told once.   *)
THEOREM NothingTakenBack == Spec => NeverBackwards
<1>1. RecogInv /\ [Next]_vars => [Forward]_view
  BY NextRecogInv
<1> QED
  BY <1>1, InitRecogInv, NextRecogInv, PTL DEF Spec, NeverBackwards, Forward
=============================================================================
