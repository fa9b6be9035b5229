----------------------- MODULE SynthStateMachineProofs -----------------------
(***************************************************************************)
(* The synthesizer channel, for any number of requests, any set of methods *)
(* and any engine: its types; the speaker that STOP and BARGE-IN-OCCURRED  *)
(* rely on while they wait for the engine; one response to each request;   *)
(* what the client was told (SynthInv, the inductive invariant); and no    *)
(* NULL dereference for a client without PAUSE, RESUME and CONTROL.  The   *)
(* demo synthesizer is such an engine (DemoInv), and with a client that    *)
(* starts one SPEAK at a time the engine renders what the state machine    *)
(* holds (SerialInv).                                                      *)
(***************************************************************************)
EXTENDS DemoSynthEngine, MrcpChannelProofs

(* The fields of the synthesizer state machine itself.                     *)
MachineType == state \in {"IDLE", "SPEAKING", "PAUSED"} /\ speaker \in Request

(* Every handler of a client request keeps the types.                      *)
LEMMA RequestTypeOK ==
    ASSUME TypeOK, SynthRequest
    PROVE  TypeOK'
<1>1. session_request \in MrcpRequest
  <2>1. session_request \in Request
    BY DEF TypeOK, ChannelTypeOK
  <2>2. session_request.method \in Methods
    BY DEF SynthRequest, synth_request_params, synth_request_speak, synth_request_stop,
       synth_request_pause, synth_request_resume, synth_request_barge_in_occurred,
       synth_request_control, synth_request_define_lexicon, Handling, Methods,
       SynthMethods
  <2> QED
    BY <2>1, <2>2 DEF MrcpRequest
<1>2. MachineType'
  BY DEF TypeOK, MachineType, SynthRequest, synth_request_params, synth_request_speak,
     synth_request_stop, synth_request_pause, synth_request_resume,
     synth_request_barge_in_occurred, synth_request_control,
     synth_request_define_lexicon, sm_vars
<1>3. CASE synth_request_speak
  <2>1. session_request \in QueuedRequest
    BY <1>1, <1>3 DEF synth_request_speak, Handling, MrcpRequest, QueuedRequest, Queueing
  <2> QED
    BY <1>2, <1>3, <2>1, StartOrQueueType DEF synth_request_speak, TypeOK, MachineType
<1>4. CASE synth_request_stop
  BY <1>1, <1>2, <1>4, StopOrRemoveType DEF synth_request_stop, TypeOK, MachineType
<1>5. CASE \E forward \in BOOLEAN : ForwardOrRespond(forward)
  BY <1>1, <1>2, <1>5, ForwardOrRespondType DEF TypeOK, MachineType
<1> QED
  BY <1>3, <1>4, <1>5 DEF SynthRequest, synth_request_params, synth_request_pause,
     synth_request_resume, synth_request_barge_in_occurred, synth_request_control,
     synth_request_define_lexicon

(* Every handler of a response keeps the types.                            *)
LEMMA ResponseTypeOK ==
    ASSUME TypeOK, SynthResponse
    PROVE  TypeOK'
<1> USE ViewTypes
<1>1. ChannelTypeOK /\ MachineType
  BY DEF TypeOK, MachineType
<1>2. SUFFICES ChannelTypeOK' /\ MachineType'
  BY DEF TypeOK, MachineType
<1>3. BecomeIdle => MachineType'
  BY RequestTypes DEF BecomeIdle, MachineType
<1>4. UNCHANGED sm_vars => MachineType'
  BY <1>1 DEF sm_vars, MachineType
<1>5. CASE UnexpectedResponse
  BY <1>1, <1>4, <1>5, IgnoreType DEF UnexpectedResponse
<1>6. CASE synth_response_plain
  BY <1>1, <1>4, <1>6, PassOnType DEF synth_response_plain
<1>7. CASE synth_response_speak
  <2>1. ResponseTo({"SPEAK"})
    BY <1>7 DEF synth_response_speak
  <2>2. MachineType'
    BY <1>1, <1>4, <1>7 DEF synth_response_speak, MachineType, ChannelTypeOK
  <2>3. CASE is_pending
    <3>1. /\ event_dispatch(active_request.id, "IN-PROGRESS")
          /\ is_pending' = FALSE
          /\ UNCHANGED <<active_request, active, queue>>
          /\ UNCHANGED <<session_state, session_request, request_queue>>
          /\ UNCHANGED <<nested, deferred, crashed>>
      BY <1>7, <2>3 DEF synth_response_speak, session_vars, stack_vars
    <3> QED
      BY <1>1, <2>1, <2>2, <3>1, ResponseToType, EventDispatchType DEF ChannelTypeOK
  <2>4. CASE ~is_pending
    <3>1. PassOn(StartedState) /\ StartedState \in Views
      BY <1>7, <2>4 DEF synth_response_speak, StartedState
    <3> QED
      BY <1>1, <2>1, <2>2, <3>1, PassOnType
  <2> QED
    BY <2>3, <2>4
<1>8. CASE synth_response_stop
  BY <1>1, <1>3, <1>4, <1>8, NullType, EndByStopType DEF synth_response_stop
<1>9. CASE SynthDeferred
  BY <1>1, <1>4, <1>9, DeferredType DEF SynthDeferred
<1>10. ASSUME NEW new \in {"SPEAKING", "PAUSED"}, NEW methods, ResponseTo(methods),
              PauseOrResume(new)
       PROVE  ChannelTypeOK' /\ MachineType'
  <2>1. CASE Received.reply # "FAILED" /\ speaker = NoRequest
    BY <1>1, <1>4, <1>10, <2>1, NullType DEF PauseOrResume
  <2>2. CASE ~(Received.reply # "FAILED" /\ speaker = NoRequest)
    <3>1. PassOn("COMPLETE") /\ MachineType'
      BY <1>1, <1>10, <2>2 DEF PauseOrResume, MachineType
    <3> QED
      BY <1>1, <1>10, <3>1, PassOnType
  <2> QED
    BY <2>1, <2>2
<1>11. CASE synth_response_pause
  BY <1>10, <1>11 DEF synth_response_pause
<1>12. CASE synth_response_resume
  BY <1>10, <1>12 DEF synth_response_resume
<1>13. CASE synth_response_barge_in_occurred
  <2>1. ResponseTo({"BARGE-IN-OCCURRED"})
    BY <1>13 DEF synth_response_barge_in_occurred
  <2>2. CASE speaker = NoRequest
    BY <1>1, <1>4, <1>13, <2>1, <2>2, NullType DEF synth_response_barge_in_occurred
  <2>3. CASE speaker # NoRequest
    <3> DEFINE ended == {speaker.id} \cup RemovedIds(active_request.sel)
    <3>1. /\ response_dispatch(Received.id, "COMPLETE", ended)
          /\ queue' = Remaining(active_request.sel) /\ BecomeIdle
          /\ UNCHANGED <<active, is_pending, deferred, crashed>>
      BY <1>13, <2>3 DEF synth_response_barge_in_occurred
    <3>2. queue' \in Seq(QueuedRequest) /\ deferred' \in QueuedRequest \cup {NoRequest}
      BY <1>1, <3>1, RemainingType DEF ChannelTypeOK
    <3> HIDE DEF ended
    <3> QED
      BY <1>1, <1>3, <2>1, <3>1, <3>2, AnswerType
  <2> QED
    BY <2>2, <2>3
<1>14. CASE synth_response_control
  BY <1>1, <1>4, <1>14, NullType, PassOnType DEF synth_response_control
<1> QED
  BY <1>5, <1>6, <1>7, <1>8, <1>9, <1>11, <1>12, <1>13, <1>14 DEF SynthResponse

(* Every handler of an event keeps the types.                              *)
LEMMA EventTypeOK ==
    ASSUME TypeOK, SynthEvent
    PROVE  TypeOK'
<1>1. CASE synth_event_speech_marker
  BY <1>1, TellClientType, ViewTypes DEF synth_event_speech_marker, TypeOK, sm_vars
<1>2. CASE synth_event_speak_complete
  <2>1. CASE EventOfSpeaker /\ ~StopInProgress
    BY <1>2, <2>1, CompleteType, RequestTypes
       DEF synth_event_speak_complete, TypeOK, BecomeIdle
  <2>2. CASE ~(EventOfSpeaker /\ ~StopInProgress)
    BY <1>2, <2>2, TellClientType, ViewTypes DEF synth_event_speak_complete, TypeOK, sm_vars
  <2> QED
    BY <2>1, <2>2
<1> QED
  BY <1>1, <1>2 DEF SynthEvent

(* The initial state is well typed.                                        *)
LEMMA InitTypeOK == Init => TypeOK
  BY InitType, RequestTypes DEF Init, TypeOK

(* Every step keeps the types.                                             *)
LEMMA NextTypeOK == TypeOK /\ [Next]_vars => TypeOK'
<1> SUFFICES ASSUME TypeOK, [Next]_vars PROVE TypeOK'
  OBVIOUS
<1>1. CASE Client
  BY <1>1, ClientType DEF Client, TypeOK, sm_vars
<1>2. CASE SessionDeactivate
  BY <1>2, DeactivateType DEF SessionDeactivate, TypeOK, sm_vars
<1>3. CASE SynthRequest
  BY <1>3, RequestTypeOK
<1>4. CASE SynthResponse
  BY <1>4, ResponseTypeOK
<1>5. CASE SynthEvent
  BY <1>5, EventTypeOK
<1>6. CASE Engine
  BY <1>6, EngineType DEF Engine, TypeOK, sm_vars
<1>7. CASE UNCHANGED vars
  BY <1>7, StutterType DEF vars, TypeOK, sm_vars
<1> QED
  BY <1>1, <1>2, <1>3, <1>4, <1>5, <1>6, <1>7 DEF Next, ServerTask

(* Type correctness: in particular only requests that may wait are queued  *)
(* in the state machine, and only MRCP requests reach an engine.           *)
THEOREM TypeCorrect == Spec => []TypeOK
  BY InitTypeOK, NextTypeOK, PTL DEF Spec

-----------------------------------------------------------------------------
(* Nothing is the active request in the initial state.                     *)
LEMMA InitStopFindsSpeaker == Init => StopFindsSpeaker
  BY DEF Init, ChannelInit, StopFindsSpeaker, NoRequest, Stopping

(* Once no request or a request that was queued is the active one, nothing *)
(* is asked of the speaker.                                                *)
LEMMA NoStopActive ==
    active_request' = NoRequest \/ active_request' \in QueuedRequest => StopFindsSpeaker'
  BY RequestTypes DEF StopFindsSpeaker, NoRequest, Stopping, Queueing

(* Whatever leaves the active request and the speaker alone.               *)
LEMMA SameSpeaker ==
    StopFindsSpeaker /\ active_request' = active_request /\ speaker' = speaker
        => StopFindsSpeaker'
  BY DEF StopFindsSpeaker

(* Every step keeps the speaker that STOP or BARGE-IN-OCCURRED needs.      *)
LEMMA NextStopFindsSpeaker ==
    TypeOK /\ StopFindsSpeaker /\ [Next]_vars => StopFindsSpeaker'
<1> SUFFICES ASSUME TypeOK, StopFindsSpeaker, [Next]_vars PROVE StopFindsSpeaker'
  OBVIOUS
<1>1. ChannelTypeOK
  BY DEF TypeOK
<1>2. CASE Client
  BY <1>1, <1>2, ClientType, SameSpeaker DEF Client, sm_vars
<1>3. CASE SessionDeactivate
  <2>1. CASE speaker # NoRequest
    BY <1>3, <2>1 DEF SessionDeactivate, DeactivateChannel, StopFindsSpeaker, sm_vars
  <2>2. CASE speaker = NoRequest
    BY <1>3, <2>2, SameSpeaker DEF SessionDeactivate, DeactivateChannel, sm_vars
  <2> QED
    BY <2>1, <2>2
<1>4. CASE SynthRequest
  <2>1. speaker' = speaker
    BY <1>4 DEF SynthRequest, synth_request_params, synth_request_speak,
       synth_request_stop, synth_request_pause, synth_request_resume,
       synth_request_barge_in_occurred, synth_request_control,
       synth_request_define_lexicon, sm_vars
  <2>2. ASSUME NEW id, NEW rstate, NEW ended, RespondAndReturn(id, rstate, ended)
        PROVE  StopFindsSpeaker'
    BY <2>2, NoStopActive DEF RespondAndReturn, response_dispatch
  <2>3. ASSUME DispatchAndReturn(session_request),
               session_request.method \in Stopping => speaker # NoRequest
        PROVE  StopFindsSpeaker'
    BY <2>1, <2>3 DEF DispatchAndReturn, request_dispatch, StopFindsSpeaker
  <2>4. CASE synth_request_params
    BY <2>3, <2>4 DEF synth_request_params, Handling, ForwardOrRespond, Stopping
  <2>5. CASE synth_request_speak
    BY <2>2, <2>3, <2>5 DEF synth_request_speak, StartOrQueue, Handling, Stopping
  <2>6. CASE synth_request_stop
    BY <2>2, <2>3, <2>6 DEF synth_request_stop, StopOrRemove
  <2>7. CASE synth_request_pause
    BY <2>2, <2>3, <2>7 DEF synth_request_pause, ForwardOrRespond
  <2>8. CASE synth_request_resume
    BY <2>2, <2>3, <2>8 DEF synth_request_resume, ForwardOrRespond
  <2>9. CASE synth_request_barge_in_occurred
    BY <2>2, <2>3, <2>9 DEF synth_request_barge_in_occurred, ForwardOrRespond
  <2>10. CASE synth_request_control
    BY <2>2, <2>3, <2>10 DEF synth_request_control, Handling, ForwardOrRespond, Stopping
  <2>11. CASE synth_request_define_lexicon
    BY <2>2, <2>3, <2>11
       DEF synth_request_define_lexicon, Handling, ForwardOrRespond, Stopping
  <2> QED
    BY <1>4, <2>4, <2>5, <2>6, <2>7, <2>8, <2>9, <2>10, <2>11 DEF SynthRequest
<1>5. CASE SynthResponse
  <2>1. ASSUME NEW id, NEW rstate, NEW ended, response_dispatch(id, rstate, ended)
        PROVE  StopFindsSpeaker'
    BY <2>1, NoStopActive DEF response_dispatch
  <2>2. ASSUME NullDereference, UNCHANGED sm_vars PROVE StopFindsSpeaker'
    BY <2>2, SameSpeaker DEF NullDereference, machine_vars, sm_vars
  <2>3. CASE UnexpectedResponse
    BY <2>3, SameSpeaker DEF UnexpectedResponse, IgnoreResponse, machine_vars, sm_vars
  <2>4. CASE synth_response_plain
    BY <2>1, <2>4 DEF synth_response_plain, PassOn
  <2>5. CASE synth_response_speak
    <3>1. CASE is_pending
      <4>1. active_request' = active_request
        BY <2>5, <3>1 DEF synth_response_speak
      <4>2. active_request # NoRequest
        BY <2>5 DEF synth_response_speak, ResponseTo, Expected
      <4>3. speaker' = active_request \/ speaker' = speaker
        BY <2>5 DEF synth_response_speak, sm_vars
      <4> QED
        BY <4>1, <4>2, <4>3 DEF StopFindsSpeaker
    <3>2. CASE ~is_pending
      BY <2>1, <2>5, <3>2 DEF synth_response_speak, PassOn
    <3> QED
      BY <3>1, <3>2
  <2>6. CASE synth_response_stop
    BY <2>1, <2>2, <2>6 DEF synth_response_stop, EndByStop
  <2>7. CASE SynthDeferred
    BY <1>1, <2>7, DeferredType, NoStopActive DEF SynthDeferred
  <2>8. CASE synth_response_pause
    BY <2>1, <2>2, <2>8 DEF synth_response_pause, PauseOrResume, PassOn
  <2>9. CASE synth_response_resume
    BY <2>1, <2>2, <2>9 DEF synth_response_resume, PauseOrResume, PassOn
  <2>10. CASE synth_response_barge_in_occurred
    BY <2>1, <2>2, <2>10 DEF synth_response_barge_in_occurred
  <2>11. CASE synth_response_control
    BY <2>1, <2>2, <2>11 DEF synth_response_control, PassOn
  <2> QED
    BY <1>5, <2>3, <2>4, <2>5, <2>6, <2>7, <2>8, <2>9, <2>10, <2>11 DEF SynthResponse
<1>6. CASE SynthEvent
  <2>1. ASSUME NEW passed, NEW rstate, TellClient(passed, rstate), UNCHANGED sm_vars
        PROVE  StopFindsSpeaker'
    BY <2>1, SameSpeaker DEF TellClient, sm_vars
  <2>2. CASE synth_event_speech_marker
    BY <2>1, <2>2 DEF synth_event_speech_marker
  <2>3. CASE synth_event_speak_complete
    <3>1. CASE EventOfSpeaker /\ ~StopInProgress
      <4>1. active_request' = active_request \/ active_request' \in QueuedRequest
        BY <1>1, <2>3, <3>1, CompleteType DEF synth_event_speak_complete
      <4>2. active_request' = active_request => StopFindsSpeaker'
        BY <3>1 DEF StopInProgress, StopFindsSpeaker
      <4> QED
        BY <4>1, <4>2, NoStopActive
    <3>2. CASE ~(EventOfSpeaker /\ ~StopInProgress)
      BY <2>1, <2>3, <3>2 DEF synth_event_speak_complete
    <3> QED
      BY <3>1, <3>2
  <2> QED
    BY <1>6, <2>2, <2>3 DEF SynthEvent
<1>7. CASE Engine
  BY <1>1, <1>7, EngineType, SameSpeaker DEF Engine, sm_vars
<1>8. CASE UNCHANGED vars
  BY <1>8, SameSpeaker DEF vars, channel_vars, machine_vars, sm_vars
<1> QED
  BY <1>2, <1>3, <1>4, <1>5, <1>6, <1>7, <1>8 DEF Next, ServerTask

(* synth_response_stop and synth_response_barge_in_occurred never read     *)
(* through a NULL speaker, whatever the engine and the client interleave:  *)
(* SPEAK-COMPLETE is ignored while one of them is expected (l. 421-434).   *)
THEOREM StopAlwaysFindsSpeaker == Spec => []StopFindsSpeaker
<1>1. TypeOK /\ StopFindsSpeaker /\ [Next]_vars => (TypeOK /\ StopFindsSpeaker)'
  BY NextTypeOK, NextStopFindsSpeaker
<1>2. Init => TypeOK /\ StopFindsSpeaker
  BY InitTypeOK, InitStopFindsSpeaker
<1> QED
  BY <1>1, <1>2, PTL DEF Spec

-----------------------------------------------------------------------------
(* Every step keeps the invariant of the channel, with the speaker as its  *)
(* in-progress request.                                                    *)
LEMMA NextChannelInv ==
    ASSUME ChannelInv(speaker), [Next]_vars
    PROVE  ChannelInv(speaker)'
<1>1. PICK c, d : c = speaker /\ d = speaker'
  OBVIOUS
<1>2. SUFFICES ChannelInv(d)'
  BY <1>1
<1>3. ChannelInv(c)
  BY <1>1
<1>4. UNCHANGED sm_vars => d = c
  BY <1>1 DEF sm_vars
<1>5. BecomeIdle => d = NoRequest
  BY <1>1 DEF BecomeIdle
<1>6. CASE Client
  BY <1>3, <1>4, <1>6, ClientInv DEF Client
<1>7. CASE SessionDeactivate
  BY <1>1, <1>3, <1>4, <1>7, DeactivateInv DEF SessionDeactivate
<1>8. CASE SynthRequest
  <2>1. UNCHANGED sm_vars /\ nested /\ session_request.method \in Methods
    BY <1>8 DEF SynthRequest, synth_request_params, synth_request_speak, synth_request_stop,
       synth_request_pause, synth_request_resume, synth_request_barge_in_occurred,
       synth_request_control, synth_request_define_lexicon, Handling, Methods, SynthMethods
  <2>2. CASE synth_request_speak
    <3>1. session_request.method \in Queueing /\ StartOrQueue(speaker # NoRequest)
      BY <2>2 DEF synth_request_speak, Handling, Queueing
    <3> QED
      BY <1>1, <1>3, <1>4, <2>1, <3>1, StartOrQueueInv
  <2>3. CASE synth_request_stop
    BY <1>3, <1>4, <2>1, <2>3, StopOrRemoveInv DEF synth_request_stop
  <2>4. CASE \E forward \in BOOLEAN : ForwardOrRespond(forward)
    BY <1>3, <1>4, <2>1, <2>4, ForwardOrRespondInv
  <2> QED
    BY <1>8, <2>2, <2>3, <2>4 DEF SynthRequest, synth_request_params, synth_request_pause,
       synth_request_resume, synth_request_barge_in_occurred, synth_request_control,
       synth_request_define_lexicon
<1>9. CASE SynthResponse
  <2>1. CASE UnexpectedResponse
    BY <1>3, <1>4, <2>1, IgnoreInv DEF UnexpectedResponse
  <2>2. ASSUME NEW methods, ResponseTo(methods), NullDereference, UNCHANGED sm_vars
        PROVE  ChannelInv(d)'
    BY <1>3, <1>4, <2>2, NullInv
  <2>3. ASSUME NEW methods, methods \cap Queueing = {}, "STOP" \notin methods,
               ResponseTo(methods), PassOn("COMPLETE"), d = c
        PROVE  ChannelInv(d)'
    BY <1>3, <2>3, PassOnInv, ViewTypes
  <2>4. CASE synth_response_plain
    BY <1>4, <2>3, <2>4 DEF synth_response_plain, Queueing
  <2>5. CASE synth_response_speak
    <3>1. ResponseTo({"SPEAK"}) /\ {"SPEAK"} \subseteq Queueing
      BY <2>5 DEF synth_response_speak, Queueing
    <3>2. d = c \/ d = active_request
      BY <1>1, <2>5 DEF synth_response_speak, sm_vars
    <3>3. CASE is_pending
      <4>1. /\ event_dispatch(active_request.id, "IN-PROGRESS") /\ is_pending' = FALSE
            /\ UNCHANGED <<active_request, active, queue>>
            /\ UNCHANGED <<session_state, session_request, request_queue>>
            /\ UNCHANGED <<nested, deferred, crashed>>
        BY <2>5, <3>3 DEF synth_response_speak, session_vars, stack_vars
      <4>2. ChannelTypeOK'
        BY <1>3, <3>1, <4>1, ResponseToType, EventDispatchType, ViewTypes
           DEF ChannelInv, ChannelTypeOK
      <4>3. UNCHANGED <<next_id, responses>>
        BY <4>1 DEF event_dispatch
      <4> QED
        BY <1>3, <3>1, <3>2, <3>3, <4>1, <4>2, <4>3, PendingInv
    <3>4. CASE ~is_pending
      <4>1. PassOn(StartedState) /\ StartedState \in Views /\ "STOP" \notin {"SPEAK"}
        BY <2>5, <3>4, ViewTypes DEF synth_response_speak, StartedState
      <4> QED
        BY <1>3, <3>1, <3>2, <3>4, <4>1, PassOnInv
    <3> QED
      BY <3>3, <3>4
  <2>6. CASE synth_response_stop
    BY <1>3, <1>5, <2>2, <2>6, EndByStopInv DEF synth_response_stop
  <2>7. CASE SynthDeferred
    <3>1. c = NoRequest
      BY <1>3, <2>7 DEF SynthDeferred, DispatchDeferred, ChannelInv, Turns
    <3> QED
      BY <1>3, <1>4, <2>7, <3>1, DeferredInv DEF SynthDeferred
  <2>8. ASSUME NEW new, NEW methods, methods \cap Queueing = {}, "STOP" \notin methods,
               ResponseTo(methods), PauseOrResume(new)
        PROVE  ChannelInv(d)'
    BY <1>1, <2>2, <2>3, <2>8 DEF PauseOrResume
  <2>9. CASE synth_response_pause
    BY <2>8, <2>9 DEF synth_response_pause, Queueing
  <2>10. CASE synth_response_resume
    BY <2>8, <2>10 DEF synth_response_resume, Queueing
  <2>11. CASE synth_response_barge_in_occurred
    <3>1. CASE speaker = NoRequest
      BY <2>2, <2>11, <3>1 DEF synth_response_barge_in_occurred
    <3>2. CASE speaker # NoRequest
      <4>1. PICK ended : ended = {speaker.id} \cup RemovedIds(active_request.sel)
        OBVIOUS
      <4>2. /\ ResponseTo({"BARGE-IN-OCCURRED"})
            /\ response_dispatch(Received.id, "COMPLETE", ended)
            /\ queue' = Remaining(active_request.sel) /\ d = NoRequest
            /\ UNCHANGED <<active, is_pending, deferred, crashed>>
        BY <1>5, <2>11, <3>2, <4>1 DEF synth_response_barge_in_occurred
      <4> QED
        BY <1>3, <4>2, EndByBargeInInv
    <3> QED
      BY <3>1, <3>2
  <2>12. CASE synth_response_control
    BY <1>4, <2>2, <2>3, <2>12 DEF synth_response_control, Queueing
  <2> QED
    BY <1>9, <2>1, <2>4, <2>5, <2>6, <2>7, <2>9, <2>10, <2>11, <2>12 DEF SynthResponse
<1>10. CASE SynthEvent
  <2>1. CASE synth_event_speech_marker
    BY <1>3, <1>4, <2>1, TellClientInv, ViewTypes DEF synth_event_speech_marker
  <2>2. CASE synth_event_speak_complete
    <3>1. CASE EventOfSpeaker /\ ~StopInProgress
      <4>1. ~Internal
        BY <3>1 DEF StopInProgress, Stopping, Internal
      <4> QED
        BY <1>3, <1>5, <2>2, <3>1, <4>1, CompleteInv DEF synth_event_speak_complete
    <3>2. CASE ~(EventOfSpeaker /\ ~StopInProgress)
      BY <1>3, <1>4, <2>2, <3>2, TellClientInv, ViewTypes DEF synth_event_speak_complete
    <3> QED
      BY <3>1, <3>2
  <2> QED
    BY <1>10, <2>1, <2>2 DEF SynthEvent
<1>11. CASE Engine
  BY <1>3, <1>4, <1>11, EngineInv DEF Engine
<1>12. CASE UNCHANGED vars
  BY <1>3, <1>4, <1>12, StutterInv DEF vars
<1> QED
  BY <1>6, <1>7, <1>8, <1>9, <1>10, <1>11, <1>12 DEF Next, ServerTask

(* The channel of a synthesizer keeps the invariant.                       *)
LEMMA SynthChannelInv == Spec => []ChannelInv(speaker)
<1>1. Init => ChannelInv(speaker)
  <2> SUFFICES ASSUME Init PROVE ChannelInv(speaker)
    OBVIOUS
  <2>1. ChannelInv(NoRequest) /\ speaker = NoRequest
    BY InitInv DEF Init
  <2> QED
    BY <2>1
<1>2. ChannelInv(speaker) /\ [Next]_vars => ChannelInv(speaker)'
  BY NextChannelInv
<1> QED
  BY <1>1, <1>2, PTL DEF Spec

(* A response that passes the id check of synth_response_dispatch (l. 512) *)
(* is the response to the active request, although the deactivation of the *)
(* channel numbers its STOP itself (one above the speaker): no request of  *)
(* the client that is still in flight can have that number.                *)
THEOREM ResponsesMatch == Spec => []ResponseMatchesRequest
<1>1. ChannelInv(speaker) => ResponseMatchesRequest
  BY InvImplies
<1> QED
  BY <1>1, SynthChannelInv, PTL

(* No request of the client is answered twice, pipelined or not.           *)
THEOREM AnsweredOnce == Spec => []AtMostOneResponse
<1>1. ChannelInv(speaker) => AtMostOneResponse
  BY InvImplies
<1> QED
  BY <1>1, SynthChannelInv, PTL

-----------------------------------------------------------------------------
(* What the client is told of the requests of a synthesizer channel: the   *)
(* speaker is the one request that was reported IN-PROGRESS.               *)
SpeakerView == ViewInv(speaker, {"IN-PROGRESS"})

(* Every step keeps it, and takes nothing back.                            *)
LEMMA NextSpeakerView ==
    ASSUME ChannelInv(speaker), SpeakerView, [Next]_vars
    PROVE  SpeakerView' /\ Forward
<1>1. PICK c, d, told : c = speaker /\ d = speaker' /\ told = {"IN-PROGRESS"}
  OBVIOUS
<1>2. SUFFICES ViewInv(d, told)' /\ Forward
  BY <1>1 DEF SpeakerView
<1>3. ChannelInv(c) /\ ViewInv(c, told)
  BY <1>1 DEF SpeakerView
<1>4. UNCHANGED sm_vars => d = c
  BY <1>1 DEF sm_vars
<1>5. BecomeIdle => d = NoRequest
  BY <1>1 DEF BecomeIdle
<1>6. CASE Client
  <2>1. ChannelInv(c)' /\ ChannelClient
    BY <1>3, <1>6, ClientInv DEF Client
  <2> QED
    BY <1>3, <1>4, <1>6, <2>1, ClientView DEF Client
<1>7. CASE SessionDeactivate
  BY <1>1, <1>3, <1>4, <1>7, DeactivateView DEF SessionDeactivate
<1>8. CASE SynthRequest
  <2>1. UNCHANGED sm_vars /\ nested /\ session_request.method \in Methods
    BY <1>8 DEF SynthRequest, synth_request_params, synth_request_speak, synth_request_stop,
       synth_request_pause, synth_request_resume, synth_request_barge_in_occurred,
       synth_request_control, synth_request_define_lexicon, Handling, Methods, SynthMethods
  <2>2. CASE synth_request_speak
    <3>1. session_request.method \in Queueing /\ StartOrQueue(speaker # NoRequest)
      BY <2>2 DEF synth_request_speak, Handling, Queueing
    <3> QED
      BY <1>1, <1>3, <1>4, <2>1, <3>1, StartOrQueueView
  <2>3. CASE synth_request_stop
    BY <1>3, <1>4, <2>1, <2>3, StopOrRemoveView DEF synth_request_stop
  <2>4. CASE \E forward \in BOOLEAN : ForwardOrRespond(forward)
    BY <1>3, <1>4, <2>1, <2>4, ForwardOrRespondView
  <2> QED
    BY <1>8, <2>2, <2>3, <2>4 DEF SynthRequest, synth_request_params, synth_request_pause,
       synth_request_resume, synth_request_barge_in_occurred, synth_request_control,
       synth_request_define_lexicon
<1>9. CASE SynthResponse
  <2>1. CASE UnexpectedResponse
    BY <1>3, <1>4, <2>1, IgnoreView DEF UnexpectedResponse
  <2>2. ASSUME NEW methods, ResponseTo(methods), NullDereference, UNCHANGED sm_vars
        PROVE  ViewInv(d, told)' /\ Forward
    BY <1>3, <1>4, <2>2, NullView
  <2>3. ASSUME NEW methods, methods \cap Queueing = {}, "STOP" \notin methods,
               ResponseTo(methods), PassOn("COMPLETE"), d = c
        PROVE  ViewInv(d, told)' /\ Forward
    BY <1>3, <2>3, PassOnView
  <2>4. CASE synth_response_plain
    BY <1>4, <2>3, <2>4 DEF synth_response_plain, Queueing
  <2>5. CASE synth_response_speak
    <3>1. ResponseTo({"SPEAK"}) /\ {"SPEAK"} \in SUBSET Queueing /\ "STOP" \notin {"SPEAK"}
      BY <2>5 DEF synth_response_speak, Queueing
    <3>2. d = c \/ (d = active_request /\ Received.reply = "IN-PROGRESS")
      BY <1>1, <2>5 DEF synth_response_speak, sm_vars
    <3>3. CASE is_pending
      <4>1. /\ event_dispatch(active_request.id, "IN-PROGRESS")
            /\ UNCHANGED <<active, nested, session_request, queue, deferred, request_queue>>
        <5>1. /\ event_dispatch(active_request.id, "IN-PROGRESS")
              /\ UNCHANGED <<active, queue, session_vars, stack_vars>>
          BY <2>5, <3>3 DEF synth_response_speak
        <5> QED
          BY <5>1 DEF session_vars, stack_vars
      <4>2. next_id' = next_id
        BY <4>1 DEF event_dispatch
      <4>3. active => active_request.id \in Ids
        BY <1>3, <3>1, AcceptedIs, KnownIs
      <4>4. /\ \A i \in Ids : i # active_request.id \/ ~active => view'[i] = view[i]
            /\ active => view'[active_request.id] = "IN-PROGRESS"
        BY <4>1, <4>3 DEF event_dispatch
      <4>5. d = c \/ (d = active_request /\ (active => view'[active_request.id] \in told))
        BY <1>1, <3>2, <4>4
      <4> QED
        BY <1>3, <3>1, <3>3, <4>1, <4>2, <4>4, <4>5, PendingView
    <3>4. CASE ~is_pending
      <4>1. PassOn(StartedState)
        BY <2>5, <3>4 DEF synth_response_speak
      <4>2. PICK rstate \in {"IN-PROGRESS", "COMPLETE"} :
               /\ rstate = StartedState
               /\ Received.reply = "IN-PROGRESS" => rstate = "IN-PROGRESS"
        BY DEF StartedState
      <4>3. d = c \/ (d = active_request /\ {"SPEAK"} \subseteq Queueing /\ rstate \in told)
        BY <1>1, <3>1, <3>2, <4>2
      <4>4. PassOn(rstate)
        BY <4>1, <4>2
      <4> QED
        BY <1>3, <3>1, <3>4, <4>3, <4>4, PassOnView
    <3> QED
      BY <3>3, <3>4
  <2>6. CASE synth_response_stop
    BY <1>1, <1>3, <1>5, <2>2, <2>6, EndByStopView DEF synth_response_stop
  <2>7. CASE SynthDeferred
    <3>1. c = NoRequest
      BY <1>3, <2>7 DEF SynthDeferred, DispatchDeferred, ChannelInv, Turns
    <3> QED
      BY <1>3, <1>4, <2>7, <3>1, DeferredView DEF SynthDeferred
  <2>8. ASSUME NEW new, NEW methods, methods \cap Queueing = {}, "STOP" \notin methods,
               ResponseTo(methods), PauseOrResume(new)
        PROVE  ViewInv(d, told)' /\ Forward
    BY <1>1, <2>2, <2>3, <2>8 DEF PauseOrResume
  <2>9. CASE synth_response_pause
    BY <2>8, <2>9 DEF synth_response_pause, Queueing
  <2>10. CASE synth_response_resume
    BY <2>8, <2>10 DEF synth_response_resume, Queueing
  <2>11. CASE synth_response_barge_in_occurred
    <3>1. CASE speaker = NoRequest
      BY <2>2, <2>11, <3>1 DEF synth_response_barge_in_occurred
    <3>2. CASE speaker # NoRequest
      <4>1. PICK ended : ended = {c.id} \cup RemovedIds(active_request.sel)
        OBVIOUS
      <4>2. /\ ResponseTo({"BARGE-IN-OCCURRED"}) /\ c # NoRequest
            /\ response_dispatch(Received.id, "COMPLETE", ended)
            /\ queue' = Remaining(active_request.sel) /\ d = NoRequest
            /\ UNCHANGED <<active, is_pending, deferred, crashed>>
        BY <1>1, <1>5, <2>11, <3>2, <4>1 DEF synth_response_barge_in_occurred
      <4> QED
        BY <1>3, <4>1, <4>2, EndByBargeInView
    <3> QED
      BY <3>1, <3>2
  <2>12. CASE synth_response_control
    BY <1>4, <2>2, <2>3, <2>12 DEF synth_response_control, Queueing
  <2> QED
    BY <1>9, <2>1, <2>4, <2>5, <2>6, <2>7, <2>9, <2>10, <2>11, <2>12 DEF SynthResponse
<1>10. CASE SynthEvent
  <2>1. CASE synth_event_speech_marker
    <3>1. EventOfSpeaker => /\ c # NoRequest /\ Received.id = c.id
                            /\ "COMPLETE" \notin told /\ "IN-PROGRESS" \in told
      BY <1>1 DEF EventOfSpeaker
    <3>2. /\ EventNamed("SPEECH-MARKER") /\ TellClient(EventOfSpeaker, "IN-PROGRESS")
          /\ EventOfSpeaker \in BOOLEAN /\ d = c
      BY <1>4, <2>1 DEF synth_event_speech_marker, EventOfSpeaker
    <3> QED
      BY <1>3, <3>1, <3>2, TellClientView
  <2>2. CASE synth_event_speak_complete
    <3>1. CASE EventOfSpeaker /\ ~StopInProgress
      BY <1>1, <1>3, <1>5, <2>2, <3>1, CompleteView
         DEF synth_event_speak_complete, EventOfSpeaker
    <3>2. CASE ~(EventOfSpeaker /\ ~StopInProgress)
      BY <1>3, <1>4, <2>2, <3>2, TellClientView DEF synth_event_speak_complete
    <3> QED
      BY <3>1, <3>2
  <2> QED
    BY <1>10, <2>1, <2>2 DEF SynthEvent
<1>11. CASE Engine
  BY <1>3, <1>4, <1>11, EngineView DEF Engine
<1>12. CASE UNCHANGED vars
  BY <1>3, <1>4, <1>12, StutterView DEF vars
<1> QED
  BY <1>6, <1>7, <1>8, <1>9, <1>10, <1>11, <1>12 DEF Next, ServerTask

(* IDLE means that there is no speaker (synth_state_change).               *)
IdleIsSilent == state = "IDLE" <=> speaker = NoRequest

(* Every step keeps the two together.                                      *)
LEMMA NextIdleIsSilent ==
    ASSUME TypeOK, IdleIsSilent, [Next]_vars
    PROVE  IdleIsSilent'
<1>1. UNCHANGED sm_vars => IdleIsSilent'
  BY DEF sm_vars, IdleIsSilent
<1>2. BecomeIdle => IdleIsSilent'
  BY DEF BecomeIdle, IdleIsSilent
<1>3. CASE Client \/ SessionDeactivate \/ Engine \/ UNCHANGED vars
  BY <1>1, <1>3 DEF Client, SessionDeactivate, Engine, vars
<1>4. CASE SynthRequest
  BY <1>1, <1>4 DEF SynthRequest, synth_request_params, synth_request_speak,
     synth_request_stop, synth_request_pause, synth_request_resume,
     synth_request_barge_in_occurred, synth_request_control, synth_request_define_lexicon
<1>5. CASE SynthResponse
  <2>1. CASE UnexpectedResponse \/ synth_response_plain \/ SynthDeferred
                \/ synth_response_control
    BY <1>1, <2>1 DEF UnexpectedResponse, synth_response_plain, SynthDeferred,
       synth_response_control
  <2>2. CASE synth_response_speak
    <3>1. active_request # NoRequest
      BY <2>2 DEF synth_response_speak, ResponseTo, Expected
    <3> QED
      BY <1>1, <2>2, <3>1 DEF synth_response_speak, IdleIsSilent
  <2>3. CASE synth_response_stop
    BY <1>1, <1>2, <2>3 DEF synth_response_stop
  <2>4. ASSUME NEW new \in {"PAUSED", "SPEAKING"}, PauseOrResume(new)
        PROVE  IdleIsSilent'
    BY <1>1, <2>4 DEF PauseOrResume, IdleIsSilent
  <2>5. CASE synth_response_pause \/ synth_response_resume
    BY <2>4, <2>5 DEF synth_response_pause, synth_response_resume
  <2>6. CASE synth_response_barge_in_occurred
    BY <1>1, <1>2, <2>6 DEF synth_response_barge_in_occurred
  <2> QED
    BY <1>5, <2>1, <2>2, <2>3, <2>5, <2>6 DEF SynthResponse
<1>6. CASE SynthEvent
  BY <1>1, <1>2, <1>6 DEF SynthEvent, synth_event_speech_marker, synth_event_speak_complete
<1> QED
  BY <1>3, <1>4, <1>5, <1>6 DEF Next, ServerTask

(* The inductive invariant of a synthesizer channel.                       *)
SynthInv == TypeOK /\ ChannelInv(speaker) /\ SpeakerView /\ IdleIsSilent

(* It holds initially.                                                     *)
LEMMA InitSynthInv == Init => SynthInv
<1> SUFFICES ASSUME Init PROVE SynthInv
  OBVIOUS
<1>1. ChannelInv(NoRequest) /\ ViewInv(NoRequest, {"IN-PROGRESS"}) /\ speaker = NoRequest
  BY InitInv, InitView DEF Init
<1>2. IdleIsSilent
  BY DEF Init, IdleIsSilent
<1> QED
  BY <1>1, <1>2, InitTypeOK DEF SynthInv, SpeakerView

(* Every step keeps it, and takes back nothing that the client was told.   *)
LEMMA NextSynthInv == SynthInv /\ [Next]_vars => SynthInv' /\ Forward
  BY NextTypeOK, NextChannelInv, NextSpeakerView, NextIdleIsSilent DEF SynthInv

(* What the client believes is what the state machine holds: the speaker   *)
(* was reported IN-PROGRESS, the queued SPEAKs PENDING, and they are in    *)
(* the order in which the client sent them.                                *)
THEOREM ClientBelievesMachine == Spec => []MachineMatchesClient
<1>1. SynthInv => MachineMatchesClient
  <2> SUFFICES ASSUME SynthInv PROVE MachineMatchesClient
    OBVIOUS
  <2>1. state = "IDLE" <=> speaker = NoRequest
    BY DEF SynthInv, IdleIsSilent
  <2>2. active /\ speaker # NoRequest => view[speaker.id] = "IN-PROGRESS"
    BY DEF SynthInv, SpeakerView, ViewInv
  <2>3. \A k \in DOMAIN queue : queue[k].id \in Held
    BY DEF Held
  <2>4. \A k \in DOMAIN queue : active => view[queue[k].id] = "PENDING"
    BY <2>3 DEF SynthInv, SpeakerView, ViewInv
  <2>5. \A k, l \in DOMAIN queue : k < l => queue[k].id < queue[l].id
    BY DEF SynthInv, ChannelInv, Sorted
  <2> QED
    BY <2>1, <2>2, <2>4, <2>5 DEF MachineMatchesClient
<1> QED
  BY <1>1, InitSynthInv, NextSynthInv, PTL DEF Spec

(* The client is never told less of a request than it was told before: no  *)
(* marker of a SPEAK and no IN-PROGRESS after its end was reported, no     *)
(* PENDING after it was started.                                           *)
THEOREM NothingTakenBack == Spec => NeverBackwards
<1>1. SynthInv /\ [Next]_vars => [Forward]_view
  BY NextSynthInv
<1> QED
  BY <1>1, InitSynthInv, NextSynthInv, PTL DEF Spec, NeverBackwards, Forward

-----------------------------------------------------------------------------
(* The session holds requests of the methods that the client uses.         *)
FromClient ==
    /\ session_request.method \in ClientMethods \cup {"TERMINATE", "NONE"}
    /\ \A k \in DOMAIN request_queue :
          request_queue[k].method \in ClientMethods \cup {"TERMINATE"}

(* Every step keeps it.                                                    *)
LEMMA NextFromClient ==
    ASSUME TypeOK, FromClient, [Next]_vars
    PROVE  FromClient'
<1>1. request_queue \in Seq(Request)
  BY DEF TypeOK, ChannelTypeOK
<1>2. ASSUME UNCHANGED session_vars PROVE FromClient'
  BY <1>2 DEF session_vars, FromClient
<1>3. ASSUME UNCHANGED <<session_request, request_queue>> PROVE FromClient'
  BY <1>3 DEF FromClient
<1>4. ASSUME PopSessionRequest PROVE FromClient'
  <2>1. CASE request_queue = <<>>
    BY <1>4, <2>1 DEF PopSessionRequest, FromClient, NoRequest
  <2>2. CASE request_queue # <<>>
    <3>1. Head(request_queue) = request_queue[1] /\ 1 \in DOMAIN request_queue
      BY <1>1, <2>2
    <3>2. \A k \in DOMAIN Tail(request_queue) :
             /\ k + 1 \in DOMAIN request_queue
             /\ Tail(request_queue)[k] = request_queue[k + 1]
      BY <1>1, <2>2
    <3> QED
      BY <1>4, <2>2, <3>1, <3>2 DEF PopSessionRequest, FromClient
  <2> QED
    BY <2>1, <2>2
<1>5. ASSUME NEW id, NEW rstate, NEW ended, response_dispatch(id, rstate, ended)
      PROVE  FromClient'
  BY <1>3, <1>4, <1>5 DEF response_dispatch, OnDeactivate
<1>6. CASE Client
  <2>1. ASSUME NEW m, m.method \in ClientMethods \cup {"TERMINATE"}, m \in Request,
               SignalingMessageProcess(m)
        PROVE  FromClient'
    <3>1. CASE session_request # NoRequest
      <4>1. request_queue' = Append(request_queue, m) /\ session_request' = session_request
        BY <2>1, <3>1 DEF SignalingMessageProcess
      <4>2. \A k \in DOMAIN Append(request_queue, m) :
               \/ k \in DOMAIN request_queue /\ Append(request_queue, m)[k] = request_queue[k]
               \/ Append(request_queue, m)[k] = m
        BY <1>1, <2>1
      <4> QED
        BY <2>1, <4>1, <4>2 DEF FromClient
    <3>2. CASE session_request = NoRequest
      BY <2>1, <3>2 DEF SignalingMessageProcess, FromClient
    <3> QED
      BY <3>1, <3>2
  <2>2. CASE ClientTerminate
    BY <2>1, <2>2, RequestTypes DEF ClientTerminate, TerminateRequest
  <2>3. ASSUME NEW method \in ClientMethods, NEW kill,
               NEW sel \in IF method \in Stopping THEN SUBSET (1..(next_id - 1)) ELSE {{}},
               kill \in IF method = "BARGE-IN-OCCURRED" THEN BOOLEAN ELSE {FALSE},
               ClientRequest(method, sel, kill)
        PROVE  FromClient'
    <3> DEFINE m == [id |-> next_id, method |-> method, sel |-> sel, kill |-> kill]
    <3>1. SignalingMessageProcess(m) /\ m.method = method
      BY <2>3 DEF ClientRequest
    <3>2. next_id \in Nat /\ sel \in SUBSET Nat /\ kill \in BOOLEAN /\ method \in Methods
      <4>1. next_id \in 1..(MaxId + 1)
        BY DEF TypeOK, ChannelTypeOK
      <4>2. method \in Methods
        BY <2>3, SynthMethodsAssumption DEF Methods
      <4>3. next_id \in Nat /\ 1..(next_id - 1) \subseteq Nat
        BY <4>1, ConstantsAssumption
      <4>4. sel \in SUBSET Nat /\ kill \in BOOLEAN
        BY <2>3, <4>3
      <4> QED
        BY <4>2, <4>3, <4>4
    <3>3. m \in Request
      BY <3>2 DEF Request
    <3> QED
      BY <2>1, <2>3, <3>1, <3>3
  <2> QED
    BY <1>6, <2>2, <2>3 DEF Client, ChannelClient
<1>7. CASE SessionDeactivate
  BY <1>3, <1>7 DEF SessionDeactivate, DeactivateChannel
<1>8. CASE SynthRequest
  <2>1. ASSUME DispatchAndReturn(session_request) PROVE FromClient'
    BY <1>2, <2>1 DEF DispatchAndReturn
  <2>2. ASSUME NEW id, NEW rstate, NEW ended, RespondAndReturn(id, rstate, ended)
        PROVE  FromClient'
    BY <1>5, <2>2 DEF RespondAndReturn
  <2> QED
    BY <1>8, <2>1, <2>2 DEF SynthRequest, synth_request_params, synth_request_speak,
       synth_request_stop, synth_request_pause, synth_request_resume,
       synth_request_barge_in_occurred, synth_request_control,
       synth_request_define_lexicon, ForwardOrRespond, StartOrQueue, StopOrRemove
<1>9. CASE SynthResponse
  <2>1. ASSUME NullDereference PROVE FromClient'
    BY <1>2, <2>1 DEF NullDereference
  <2>2. ASSUME NEW rstate, PassOn(rstate) PROVE FromClient'
    BY <1>5, <2>2 DEF PassOn
  <2>3. CASE UnexpectedResponse \/ SynthDeferred
    BY <1>2, <2>3 DEF UnexpectedResponse, IgnoreResponse, SynthDeferred, DispatchDeferred
  <2>4. CASE synth_response_plain \/ synth_response_control
    BY <2>1, <2>2, <2>4 DEF synth_response_plain, synth_response_control
  <2>5. CASE synth_response_speak
    BY <1>2, <2>2, <2>5 DEF synth_response_speak
  <2>6. CASE synth_response_stop \/ synth_response_barge_in_occurred
    BY <1>5, <2>1, <2>6 DEF synth_response_stop, EndByStop, synth_response_barge_in_occurred
  <2>7. CASE synth_response_pause \/ synth_response_resume
    BY <2>1, <2>2, <2>7 DEF synth_response_pause, synth_response_resume, PauseOrResume
  <2> QED
    BY <1>9, <2>3, <2>4, <2>5, <2>6, <2>7 DEF SynthResponse
<1>10. CASE SynthEvent
  BY <1>2, <1>10 DEF SynthEvent, synth_event_speech_marker, synth_event_speak_complete,
     EventNamed
<1>11. CASE Engine
  BY <1>2, <1>11 DEF Engine, EngineAnswer, EngineComplete, EngineMarker, EngineRespond,
     EngineFinish, EngineMark
<1>12. CASE UNCHANGED vars
  BY <1>2, <1>12 DEF vars, channel_vars
<1> QED
  BY <1>6, <1>7, <1>8, <1>9, <1>10, <1>11, <1>12 DEF Next, ServerTask

(* The requests whose response handler reads the speaker without the guard *)
(* of the request handler still holding.                                   *)
Unguarded == {"PAUSE", "RESUME", "CONTROL"}

(* The handlers of the responses to other requests read no speaker, or are *)
(* the two that always find it.                                            *)
LEMMA OnlyUnguardedCrash ==
    ASSUME ChannelInv(speaker), StopFindsSpeaker, [Next]_vars, crashed' # crashed
    PROVE  session_request.method \in Unguarded
<1>1. PICK c : c = speaker /\ ChannelInv(c)
  OBVIOUS
<1>2. SynthResponse
  <2>1. CASE Client
    BY <2>1 DEF Client, ChannelClient, ClientRequest, ClientTerminate,
       SignalingMessageProcess
  <2>2. CASE SessionDeactivate
    BY <2>2 DEF SessionDeactivate, DeactivateChannel
  <2>3. CASE SynthRequest
    BY <2>3 DEF SynthRequest, synth_request_params, synth_request_speak,
       synth_request_stop, synth_request_pause, synth_request_resume,
       synth_request_barge_in_occurred, synth_request_control,
       synth_request_define_lexicon, ForwardOrRespond, StartOrQueue, StopOrRemove,
       DispatchAndReturn, RespondAndReturn
  <2>4. CASE SynthEvent
    BY <2>4 DEF SynthEvent, synth_event_speech_marker, synth_event_speak_complete,
       EventNamed, stack_vars
  <2>5. CASE Engine
    BY <2>5 DEF Engine, EngineAnswer, EngineComplete, EngineMarker, EngineRespond,
       EngineFinish, EngineMark, stack_vars
  <2>6. CASE UNCHANGED vars
    BY <2>6 DEF vars, channel_vars, stack_vars
  <2> QED
    BY <2>1, <2>2, <2>3, <2>4, <2>5, <2>6 DEF Next, ServerTask
<1>3. PICK methods : /\ ResponseTo(methods) /\ NullDereference /\ speaker = NoRequest
                     /\ methods \subseteq Unguarded \cup Stopping
  <2>1. CASE UnexpectedResponse \/ synth_response_plain \/ SynthDeferred
    BY <2>1 DEF UnexpectedResponse, IgnoreResponse, synth_response_plain, PassOn,
       SynthDeferred, DispatchDeferred, stack_vars
  <2>2. CASE synth_response_speak
    BY <2>2 DEF synth_response_speak, PassOn, stack_vars
  <2>3. CASE synth_response_stop
    BY <2>3 DEF synth_response_stop, EndByStop, Stopping
  <2>4. CASE synth_response_pause
    BY <2>4 DEF synth_response_pause, PauseOrResume, PassOn, Unguarded
  <2>5. CASE synth_response_resume
    BY <2>5 DEF synth_response_resume, PauseOrResume, PassOn, Unguarded
  <2>6. CASE synth_response_barge_in_occurred
    BY <2>6 DEF synth_response_barge_in_occurred, Stopping
  <2>7. CASE synth_response_control
    BY <2>7 DEF synth_response_control, PassOn, Unguarded
  <2> QED
    BY <1>2, <2>1, <2>2, <2>3, <2>4, <2>5, <2>6, <2>7 DEF SynthResponse
<1>4. /\ active_request.method \in methods
      /\ \/ active_request = session_request
         \/ active_request.method \in Queueing
         \/ Internal
  BY <1>1, <1>3, AcceptedIs
<1>5. active_request.method \notin Stopping
  BY <1>3 DEF StopFindsSpeaker
<1> QED
  BY <1>3, <1>4, <1>5 DEF Internal, Queueing, Unguarded, Stopping

(* Without PAUSE, RESUME and CONTROL no response handler reads a NULL      *)
(* speaker, pipelined or not and whatever the engine does: the handlers of *)
(* STOP and BARGE-IN-OCCURRED find what their requests found.  (With them  *)
(* one does: their guard may be stale when the response comes.)            *)
THEOREM SynthNeverNull ==
    ASSUME ClientMethods \cap Unguarded = {}
    PROVE  Spec => []NoNullDereference
<1> DEFINE I == /\ ChannelInv(speaker) /\ TypeOK /\ StopFindsSpeaker
                /\ FromClient /\ NoNullDereference
<1>1. Init => FromClient /\ NoNullDereference
  BY DEF Init, ChannelInit, FromClient, NoNullDereference, NoRequest
<1>2. I /\ [Next]_vars => FromClient' /\ NoNullDereference'
  <2> SUFFICES ASSUME I, [Next]_vars PROVE FromClient' /\ NoNullDereference'
    OBVIOUS
  <2>1. FromClient'
    BY NextFromClient
  <2>2. session_request.method \notin Unguarded
    BY DEF FromClient, Unguarded
  <2>3. NoNullDereference'
    BY <2>2, OnlyUnguardedCrash DEF NoNullDereference
  <2> QED
    BY <2>1, <2>3
<1> QED
  BY <1>1, <1>2, SynthChannelInv, TypeCorrect, StopAlwaysFindsSpeaker, PTL DEF Spec


-----------------------------------------------------------------------------
(* What the server task and the engine of a synthesizer exchange.          *)

(* The requests that wait in the state machine.                            *)
Pending == {queue[k] : k \in DOMAIN queue}
               \cup (IF deferred = NoRequest THEN {} ELSE {deferred})

(* Only SPEAKs wait and are rendered, and only requests of a synthesizer   *)
(* reach the engine.                                                       *)
OnlySynth ==
    /\ FromClient
    /\ \A r \in Pending : r.method = "SPEAK"
    /\ \A r \in engine_in : r.method \in SynthMethods
    /\ \A r \in in_progress : r.method = "SPEAK"

(* While the engine has a STOP or BARGE-IN-OCCURRED to answer, it is the   *)
(* active request, and the server task is about to send nothing else.      *)
StopAlone ==
    \A r \in engine_in : r.method \in Stopping =>
        /\ active_request = r
        /\ ~nested /\ deferred = NoRequest /\ session_request # NoRequest

(* Request i is older than everything that may still go to the engine.     *)
Begun(i) ==
    /\ ~Internal => \A r \in Pending : r.id # i
    /\ active =>
        /\ i < next_id
        /\ nested /\ session_request # TerminateRequest => i < session_request.id
        /\ \A k \in DOMAIN request_queue :
              request_queue[k] # TerminateRequest => i < request_queue[k].id

(* The SPEAKs the engine renders have ids of their own, which no SPEAK it  *)
(* has still to start will have.                                           *)
Rendered ==
    /\ \A q, r \in in_progress : q.id = r.id => q = r
    /\ \A r \in in_progress :
          /\ r.id # 0 /\ Begun(r.id)
          /\ \A q \in engine_in : q.method = "SPEAK" => q.id # r.id

(* A request that a step of the server task sends to the engine: the one   *)
(* it handles, one that waited, or the STOP of a deactivation.             *)
MaySend(m) ==
    \/ /\ nested /\ m = session_request /\ m.method \in SynthMethods
       /\ m.method \in Stopping => speaker # NoRequest
    \/ /\ m \in Pending /\ ~Internal /\ ~nested
       /\ deferred # NoRequest \/ ~StopInProgress
    \/ nested /\ m.method = "STOP" /\ speaker # NoRequest

(* What a step of the server task does to all of that.                     *)
Moves ==
    /\ in_progress' = in_progress /\ next_id' = next_id /\ (active' => active)
    /\ Pending' \subseteq Pending \cup (IF Handling("SPEAK") THEN {session_request} ELSE {})
    /\ Internal => Internal' \/ Pending' = {}
    /\ \/ UNCHANGED <<session_request, request_queue>> /\ (nested' => nested)
       \/ active /\ PopSessionRequest
    /\ \/ engine_in' = engine_in
       \/ \E m : request_dispatch(m) /\ MaySend(m) /\ ~nested'
                    /\ UNCHANGED session_request /\ deferred' \in {deferred, NoRequest}
    /\ \/ UNCHANGED <<engine_in, active_request, nested, deferred, session_request>>
       \/ nested \/ deferred # NoRequest \/ ~StopInProgress
       \/ \E m \in Answers : m.id = active_request.id

(* The handlers of client requests.                                        *)
LEMMA RequestMoves ==
    ASSUME ChannelInv(speaker), SynthRequest
    PROVE  Moves
<1>1. nested /\ session_request.method \in SynthMethods
  BY DEF SynthRequest, synth_request_params, synth_request_speak, synth_request_stop,
     synth_request_pause, synth_request_resume, synth_request_barge_in_occurred,
     synth_request_control, synth_request_define_lexicon, Handling, SynthMethods
<1>2. PICK c : c = speaker /\ ChannelInv(c)
  OBVIOUS
<1>3. active /\ ~Internal
  BY <1>1, <1>2, HandledIs DEF Methods, Internal
<1>4. ASSUME DispatchAndReturn(session_request), UNCHANGED <<active, queue>>,
             session_request.method \in Stopping => speaker # NoRequest
      PROVE  Moves
  <2>1. Pending' = Pending
    BY <1>4 DEF DispatchAndReturn, Pending
  <2>2. /\ in_progress' = in_progress /\ next_id' = next_id /\ nested' = FALSE
        /\ UNCHANGED <<session_request, request_queue, deferred>>
        /\ request_dispatch(session_request)
    BY <1>4 DEF DispatchAndReturn, client_vars, session_vars
  <2>3. MaySend(session_request)
    BY <1>1, <1>4 DEF MaySend
  <2> QED
    BY <1>1, <1>3, <1>4, <2>1, <2>2, <2>3 DEF Moves
<1>5. ASSUME NEW id, NEW rstate, NEW ended, RespondAndReturn(id, rstate, ended),
             active' = active,
             Pending' \subseteq Pending \cup (IF Handling("SPEAK") THEN {session_request} ELSE {})
      PROVE  Moves
  <2>1. /\ in_progress' = in_progress /\ next_id' = next_id /\ engine_in' = engine_in
        /\ PopSessionRequest
    BY <1>3, <1>5 DEF RespondAndReturn, response_dispatch, engine_vars
  <2> QED
    BY <1>1, <1>3, <1>5, <2>1 DEF Moves
<1>6. ASSUME NEW forward, ForwardOrRespond(forward),
             forward /\ session_request.method \in Stopping => speaker # NoRequest
      PROVE  Moves
  <2>1. CASE forward
    BY <1>4, <1>6, <2>1 DEF ForwardOrRespond
  <2>2. CASE ~forward
    <3>1. Pending' = Pending
      BY <1>6, <2>2 DEF ForwardOrRespond, RespondAndReturn, Pending
    <3> QED
      BY <1>5, <1>6, <2>2, <3>1 DEF ForwardOrRespond
  <2> QED
    BY <2>1, <2>2
<1>7. CASE synth_request_speak
  <2>1. CASE speaker = NoRequest
    BY <1>4, <1>7, <2>1 DEF synth_request_speak, Handling, StartOrQueue, Stopping
  <2>2. CASE speaker # NoRequest
    <3>1. /\ queue' = Append(queue, session_request) /\ UNCHANGED <<active, deferred>>
          /\ RespondAndReturn(session_request.id, "PENDING", {}) /\ Handling("SPEAK")
      BY <1>7, <2>2 DEF synth_request_speak, StartOrQueue, RespondAndReturn
    <3>2. queue \in Seq(QueuedRequest)
      BY DEF ChannelInv, ChannelTypeOK
    <3>3. \A k \in DOMAIN queue' :
             \/ k \in DOMAIN queue /\ queue'[k] = queue[k]
             \/ queue'[k] = session_request
      BY <3>1, <3>2
    <3>4. Pending' \subseteq Pending \cup {session_request}
      BY <3>1, <3>3 DEF Pending
    <3> QED
      BY <1>5, <3>1, <3>4
  <2> QED
    BY <2>1, <2>2
<1>8. CASE synth_request_stop
  <2>1. PICK forward \in BOOLEAN : /\ forward = (speaker # NoRequest /\ Selects(session_request, speaker))
                                   /\ StopOrRemove(forward)
    BY <1>8 DEF synth_request_stop
  <2>2. CASE forward
    BY <1>4, <2>1, <2>2 DEF StopOrRemove
  <2>3. CASE ~forward
    <3>1. PICK ended : ended = RemovedIds(session_request.sel)
      OBVIOUS
    <3>2. /\ queue' = Remaining(session_request.sel) /\ UNCHANGED <<active, deferred>>
          /\ RespondAndReturn(session_request.id, "COMPLETE", ended)
      BY <2>1, <2>3, <3>1 DEF StopOrRemove, RespondAndReturn
    <3>3. \A k \in DOMAIN queue' : \E i \in DOMAIN queue : queue'[k] = queue[i]
      BY <3>2, RemainingIs DEF ChannelInv
    <3>4. Pending' \subseteq Pending
      BY <3>2, <3>3 DEF Pending
    <3> QED
      BY <1>5, <3>2, <3>4
  <2> QED
    BY <2>2, <2>3
<1>9. CASE synth_request_barge_in_occurred
  BY <1>6, <1>9 DEF synth_request_barge_in_occurred
<1>10. CASE \/ synth_request_params \/ synth_request_pause \/ synth_request_resume
            \/ synth_request_control \/ synth_request_define_lexicon
  <2>1. session_request.method \notin Stopping
    BY <1>10 DEF synth_request_params, synth_request_pause, synth_request_resume,
       synth_request_control, synth_request_define_lexicon, Handling, Stopping
  <2> QED
    BY <1>6, <1>10, <2>1 DEF synth_request_params, synth_request_pause, synth_request_resume,
       synth_request_control, synth_request_define_lexicon
<1> QED
  BY <1>7, <1>8, <1>9, <1>10 DEF SynthRequest

(* A response of the engine that is accepted and passed on.                *)
LEMMA AcceptedMoves ==
    ASSUME ChannelInv(speaker), NEW methods, ResponseTo(methods), active' = active,
           NEW rstate, NEW ended, response_dispatch(Received.id, rstate, ended),
           Pending' \subseteq Pending, Internal => Pending' = {}
    PROVE  Moves
<1>1. PICK c : c = speaker /\ ChannelInv(c)
  OBVIOUS
<1>2. /\ ~nested /\ engine_in' = engine_in /\ TakeEngineMessage
      /\ active_request.id = Received.id
  BY <1>1, AcceptedIs
<1>3. Received \in Answers
  BY <1>2, TakeIs DEF ChannelInv, ResponseTo
<1>4. in_progress' = in_progress
  BY <1>2 DEF TakeEngineMessage
<1>5. next_id' = next_id
  BY DEF response_dispatch, OnDeactivate
<1>6. \/ UNCHANGED <<session_request, request_queue>> /\ (nested' => nested)
      \/ active /\ PopSessionRequest
  BY DEF response_dispatch, OnDeactivate
<1> QED
  BY <1>2, <1>3, <1>4, <1>5, <1>6 DEF Moves

(* A step that only takes a message.                                       *)
LEMMA TakenMoves ==
    ASSUME in_progress' = in_progress, next_id' = next_id,
           UNCHANGED <<active, active_request, queue, session_request, request_queue, nested,
                       deferred, engine_in>>
    PROVE  Moves
<1>1. Pending' = Pending /\ Internal' = Internal
  BY DEF Pending, Internal
<1> QED
  BY <1>1 DEF Moves

(* The handlers of responses.                                              *)
LEMMA ResponseMoves ==
    ASSUME ChannelInv(speaker), SynthResponse
    PROVE  Moves
<1>1. CASE UnexpectedResponse
  BY <1>1, TakenMoves DEF UnexpectedResponse, IgnoreResponse, TakeEngineMessage, machine_vars,
     session_vars, stack_vars, client_vars
<1>2. ASSUME NEW methods, ResponseTo(methods), NullDereference PROVE Moves
  BY <1>2, TakenMoves DEF ResponseTo, NullDereference, TakeEngineMessage, machine_vars,
     session_vars, stack_vars, client_vars
<1>3. ASSUME NEW methods, "STOP" \notin methods, ResponseTo(methods), NEW rstate,
             PassOn(rstate)
      PROVE  Moves
  <2>1. PICK c : c = speaker /\ ChannelInv(c)
    OBVIOUS
  <2>2. active_request.method \in methods
    BY <1>3, <2>1, AcceptedIs
  <2>3. ~Internal
    BY <1>3, <2>2 DEF Internal
  <2>4. PICK ended : ended = {} /\ response_dispatch(Received.id, rstate, ended)
    BY <1>3 DEF PassOn
  <2>5. Pending' = Pending /\ active' = active
    BY <1>3 DEF PassOn, Pending
  <2> QED
    BY <1>3, <2>3, <2>4, <2>5, AcceptedMoves
<1>4. CASE synth_response_plain
  BY <1>3, <1>4 DEF synth_response_plain
<1>5. CASE synth_response_speak
  <2>1. ResponseTo({"SPEAK"}) /\ "STOP" \notin {"SPEAK"}
    BY <1>5 DEF synth_response_speak
  <2>2. CASE is_pending
    BY <1>5, <2>1, <2>2, TakenMoves DEF synth_response_speak, ResponseTo, TakeEngineMessage,
       event_dispatch, session_vars, stack_vars
  <2>3. CASE ~is_pending
    BY <1>3, <1>5, <2>1, <2>3 DEF synth_response_speak
  <2> QED
    BY <2>2, <2>3
<1>6. CASE synth_response_stop
  <2>1. CASE speaker = NoRequest
    BY <1>2, <1>6, <2>1 DEF synth_response_stop
  <2>2. CASE speaker # NoRequest
    <3>1. PICK c, rest, ended :
             /\ c = speaker /\ ChannelInv(c) /\ rest = Remaining(active_request.sel)
             /\ ended = {speaker.id} \cup RemovedIds(active_request.sel)
      OBVIOUS
    <3>2. /\ ResponseTo({"STOP"}) /\ active' = active
          /\ response_dispatch(Received.id, "COMPLETE", ended)
          /\ \/ rest = <<>> /\ queue' = <<>> /\ deferred' = deferred
             \/ rest # <<>> /\ queue' = Tail(rest) /\ deferred' = Head(rest)
      BY <1>6, <2>2, <3>1 DEF synth_response_stop, EndByStop
    <3>3. deferred = NoRequest
      BY <3>1, <3>2, AcceptedIs
    <3>4. /\ rest \in Seq(QueuedRequest)
          /\ \A k \in DOMAIN rest : \E i \in DOMAIN queue : rest[k] = queue[i]
          /\ active_request.sel = {} => rest = <<>>
      BY <3>1, RemainingIs DEF ChannelInv
    <3>5. CASE rest = <<>>
      <4>1. Pending' = {}
        BY <3>2, <3>3, <3>5 DEF Pending
      <4> QED
        BY <3>2, <4>1, AcceptedMoves
    <3>6. CASE rest # <<>>
      <4>1. /\ \A k \in DOMAIN Tail(rest) : k + 1 \in DOMAIN rest /\ Tail(rest)[k] = rest[k + 1]
            /\ 1 \in DOMAIN rest /\ Head(rest) = rest[1]
        BY <3>4, <3>6
      <4>2. Pending' \subseteq Pending
        BY <3>2, <3>4, <3>6, <4>1 DEF Pending
      <4>3. ~Internal
        BY <3>1, <3>4, <3>6 DEF ChannelInv, Turns, Internal, NoRequest, Queueing
      <4> QED
        BY <3>2, <4>2, <4>3, AcceptedMoves
    <3> QED
      BY <3>5, <3>6
  <2> QED
    BY <2>1, <2>2
<1>7. CASE SynthDeferred
  <2>1. /\ deferred # NoRequest /\ ~nested /\ request_dispatch(deferred) /\ deferred' = NoRequest
        /\ UNCHANGED <<active, queue, nested, session_request, request_queue, in_progress,
                       next_id>>
    BY <1>7 DEF SynthDeferred, DispatchDeferred, session_vars, client_vars
  <2>2. ~Internal /\ deferred \in Pending /\ Pending' \subseteq Pending
    BY <2>1 DEF Pending, ChannelInv, Turns, Internal, NoRequest, Queueing
  <2>3. MaySend(deferred)
    BY <2>1, <2>2 DEF MaySend
  <2> QED
    BY <2>1, <2>2, <2>3 DEF Moves
<1>8. CASE synth_response_pause \/ synth_response_resume
  <2>1. PICK methods \in {{"PAUSE"}, {"RESUME"}}, new \in {"PAUSED", "SPEAKING"} :
           ResponseTo(methods) /\ PauseOrResume(new)
    BY <1>8 DEF synth_response_pause, synth_response_resume
  <2>2. "STOP" \notin methods
    BY <2>1
  <2> QED
    BY <1>2, <1>3, <2>1, <2>2 DEF PauseOrResume
<1>9. CASE synth_response_barge_in_occurred
  <2>1. CASE speaker = NoRequest
    BY <1>2, <1>9, <2>1 DEF synth_response_barge_in_occurred
  <2>2. CASE speaker # NoRequest
    <3>1. PICK c, ended :
             /\ c = speaker /\ ChannelInv(c)
             /\ ended = {speaker.id} \cup RemovedIds(active_request.sel)
      OBVIOUS
    <3>2. /\ ResponseTo({"BARGE-IN-OCCURRED"}) /\ active' = active
          /\ response_dispatch(Received.id, "COMPLETE", ended)
          /\ queue' = Remaining(active_request.sel) /\ deferred' = deferred
      BY <1>9, <2>2, <3>1 DEF synth_response_barge_in_occurred
    <3>3. \A k \in DOMAIN queue' : \E i \in DOMAIN queue : queue'[k] = queue[i]
      BY <3>2, RemainingIs DEF ChannelInv
    <3>4. Pending' \subseteq Pending
      BY <3>2, <3>3 DEF Pending
    <3>5. active_request.method \in {"BARGE-IN-OCCURRED"}
      BY <3>1, <3>2, AcceptedIs
    <3> QED
      BY <3>2, <3>4, <3>5, AcceptedMoves DEF Internal
  <2> QED
    BY <2>1, <2>2
<1>10. CASE synth_response_control
  BY <1>2, <1>3, <1>10 DEF synth_response_control
<1> QED
  BY <1>1, <1>4, <1>5, <1>6, <1>7, <1>8, <1>9, <1>10 DEF SynthResponse

(* Every step of the server task.                                          *)
LEMMA ServerMoves ==
    ASSUME ChannelInv(speaker), ServerTask
    PROVE  Moves
<1>1. CASE SessionDeactivate
  <2>1. /\ nested /\ active' = FALSE /\ nested' = FALSE
        /\ UNCHANGED <<queue, session_request, request_queue, deferred, in_progress, next_id>>
    BY <1>1 DEF SessionDeactivate, DeactivateChannel, client_vars
  <2>2. Pending' = Pending /\ ~Internal
    BY <2>1 DEF Pending, Internal, ChannelInv, Turns
  <2>3. CASE speaker = NoRequest
    <3>1. engine_in' = engine_in
      BY <1>1, <2>3 DEF SessionDeactivate, DeactivateChannel
    <3> QED
      BY <2>1, <2>2, <3>1 DEF Moves
  <2>4. CASE speaker # NoRequest
    <3>1. PICK m : /\ m = [id |-> speaker.id + 1, method |-> "STOP", sel |-> {}, kill |-> FALSE]
                   /\ request_dispatch(m)
      BY <1>1, <2>4 DEF SessionDeactivate, DeactivateChannel
    <3>2. MaySend(m)
      BY <2>1, <2>4, <3>1 DEF MaySend
    <3> QED
      BY <2>1, <2>2, <3>1, <3>2 DEF Moves
  <2> QED
    BY <2>3, <2>4
<1>2. CASE SynthRequest
  BY <1>2, RequestMoves
<1>3. CASE SynthResponse
  BY <1>3, ResponseMoves
<1>4. CASE SynthEvent
  <2>1. ASSUME NEW name, NEW passed, NEW rstate, EventNamed(name), TellClient(passed, rstate)
        PROVE  Moves
    BY <2>1, TakenMoves DEF EventNamed, TellClient, TakeEngineMessage, event_dispatch,
       session_vars, stack_vars, client_vars
  <2>2. CASE EventNamed("SPEAK-COMPLETE") /\ CompleteAndNext /\ ~StopInProgress
    <3>1. CASE queue = <<>>
      BY <2>2, <3>1, TakenMoves DEF EventNamed, CompleteAndNext, TakeEngineMessage,
         event_dispatch, session_vars, stack_vars
    <3>2. CASE queue # <<>>
      <4>1. queue \in Seq(QueuedRequest)
        BY DEF ChannelInv, ChannelTypeOK
      <4>2. /\ 1 \in DOMAIN queue /\ Head(queue) = queue[1]
            /\ \A k \in DOMAIN Tail(queue) : k + 1 \in DOMAIN queue /\ Tail(queue)[k] = queue[k + 1]
        BY <3>2, <4>1
      <4>3. /\ queue' = Tail(queue) /\ request_dispatch(Head(queue))
            /\ UNCHANGED <<active, nested, deferred, session_request, request_queue,
                           in_progress, next_id>>
            /\ ~nested
        BY <2>2, <3>2 DEF EventNamed, CompleteAndNext, TakeEngineMessage, event_dispatch,
           session_vars, stack_vars, Busy
      <4>4. Pending' \subseteq Pending /\ Head(queue) \in Pending
        BY <4>2, <4>3 DEF Pending
      <4>5. ~Internal
        BY <2>2 DEF StopInProgress, Internal, Stopping
      <4>6. MaySend(Head(queue))
        BY <2>2, <4>3, <4>4, <4>5 DEF MaySend
      <4> QED
        BY <2>2, <4>3, <4>4, <4>5, <4>6 DEF Moves
    <3> QED
      BY <3>1, <3>2
  <2> QED
    BY <1>4, <2>1, <2>2 DEF SynthEvent, synth_event_speech_marker, synth_event_speak_complete
<1> QED
  BY <1>1, <1>2, <1>3, <1>4 DEF ServerTask

(* A request that has begun stays older than what may still be sent.       *)
LEMMA BegunKept ==
    ASSUME ChannelInv(speaker), Moves, NEW i \in Nat, Begun(i)
    PROVE  Begun(i)'
<1>1. active /\ Handling("SPEAK") => session_request # TerminateRequest
  BY DEF Handling, TerminateRequest
<1>2. Handling("SPEAK") => active
  BY DEF Handling, ChannelInv, Turns
<1>3. Handling("SPEAK") => session_request.id # i
  <2>1. session_request.id \in Nat
    BY IdTypes DEF ChannelInv
  <2> QED
    BY <1>1, <1>2, <2>1 DEF Begun, Handling
<1>4. ~Internal' => \A r \in Pending' : r.id # i
  <2>1. CASE Internal
    BY <2>1 DEF Moves
  <2>2. CASE ~Internal
    BY <1>3, <2>2 DEF Moves, Begun
  <2> QED
    BY <2>1, <2>2
<1>5. ASSUME active'
      PROVE  /\ i < next_id'
             /\ nested' /\ session_request' # TerminateRequest => i < session_request'.id
             /\ \A k \in DOMAIN request_queue' :
                   request_queue'[k] # TerminateRequest => i < request_queue'[k].id
  <2>1. active /\ next_id' = next_id
    BY <1>5 DEF Moves
  <2>2. CASE UNCHANGED <<session_request, request_queue>> /\ (nested' => nested)
    BY <2>1, <2>2 DEF Begun
  <2>3. CASE PopSessionRequest
    <3>1. request_queue \in Seq(Request)
      BY DEF ChannelInv, ChannelTypeOK
    <3>2. CASE request_queue = <<>>
      <4>1. nested' = FALSE /\ DOMAIN request_queue' = {}
        BY <2>3, <3>2 DEF PopSessionRequest
      <4> QED
        BY <2>1, <4>1 DEF Begun
    <3>3. CASE request_queue # <<>>
      <4>1. session_request' = Head(request_queue) /\ request_queue' = Tail(request_queue)
        BY <2>3, <3>3 DEF PopSessionRequest
      <4>2. 1 \in DOMAIN request_queue /\ session_request' = request_queue[1]
        BY <3>1, <3>3, <4>1
      <4>3. \A k \in DOMAIN request_queue' :
               k + 1 \in DOMAIN request_queue /\ request_queue'[k] = request_queue[k + 1]
        BY <3>1, <3>3, <4>1
      <4> QED
        BY <2>1, <4>2, <4>3 DEF Begun
    <3> QED
      BY <3>2, <3>3
  <2> QED
    BY <2>2, <2>3 DEF Moves
<1> QED
  BY <1>4, <1>5 DEF Begun

(* A request of the client is newer than what has begun.                   *)
LEMMA BegunBefore ==
    ASSUME ChannelTypeOK, NEW i \in Nat, Begun(i), ChannelClient
    PROVE  Begun(i)'
<1>1. PICK m : /\ SignalingMessageProcess(m)
               /\ \/ m = TerminateRequest /\ next_id' = next_id
                  \/ m.id = next_id /\ next_id' = next_id + 1
  <2>1. CASE ClientTerminate
    BY <2>1 DEF ClientTerminate
  <2>2. ASSUME NEW method, NEW sel, NEW kill, ClientRequest(method, sel, kill)
        PROVE  \E m : /\ SignalingMessageProcess(m)
                      /\ m.id = next_id /\ next_id' = next_id + 1
    <3>1. PICK m : m = [id |-> next_id, method |-> method, sel |-> sel, kill |-> kill]
      OBVIOUS
    <3>2. SignalingMessageProcess(m) /\ m.id = next_id /\ next_id' = next_id + 1
      BY <2>2, <3>1 DEF ClientRequest
    <3> QED
      BY <3>2
  <2> QED
    BY <2>1, <2>2 DEF ChannelClient
<1>2. UNCHANGED <<active, active_request, queue, deferred>>
  BY <1>1 DEF SignalingMessageProcess, machine_vars
<1>3. Pending' = Pending /\ Internal' = Internal
  BY <1>2 DEF Pending, Internal
<1>4. next_id \in Nat /\ request_queue \in Seq(Request)
  BY IdTypes DEF ChannelTypeOK
<1>5. SUFFICES ASSUME active
               PROVE  /\ i < next_id'
                      /\ nested' /\ session_request' # TerminateRequest => i < session_request'.id
                      /\ \A k \in DOMAIN request_queue' :
                            request_queue'[k] # TerminateRequest => i < request_queue'[k].id
  BY <1>2, <1>3 DEF Begun
<1>6. i < next_id /\ i < next_id' /\ (m # TerminateRequest => i < m.id)
  BY <1>1, <1>4, <1>5 DEF Begun
<1>7. CASE session_request # NoRequest
  <2>1. request_queue' = Append(request_queue, m) /\ UNCHANGED <<session_request, nested>>
    BY <1>1, <1>7 DEF SignalingMessageProcess
  <2>2. \A k \in DOMAIN request_queue' :
           \/ k \in DOMAIN request_queue /\ request_queue'[k] = request_queue[k]
           \/ request_queue'[k] = m
    BY <1>4, <2>1
  <2> QED
    BY <1>5, <1>6, <2>1, <2>2 DEF Begun
<1>8. CASE session_request = NoRequest
  BY <1>1, <1>5, <1>6, <1>8 DEF SignalingMessageProcess, Begun
<1> QED
  BY <1>7, <1>8

(* A request of the engine has begun.                                      *)
LEMMA SentHasBegun ==
    ASSUME ChannelInv(speaker), NEW r \in engine_in
    PROVE  r.id \in Nat /\ r.id # 0 /\ Begun(r.id)
<1>1. PICK i : i = r.id /\ i \in Out /\ i \in Nat
  BY IdTypes DEF ChannelInv, Out
<1>2. i # 0
  BY <1>1 DEF ChannelInv, Flight
<1>3. \A q \in Pending : q.id \in Held
  BY DEF Pending, Held
<1>4. ~Internal => i \notin Held
  <2>1. session_request.id \in Nat /\ Held \subseteq Nat
    BY IdTypes DEF ChannelInv
  <2> QED
    BY <1>1, <1>2, <2>1 DEF ChannelInv, Order
<1>5. active => /\ i < next_id
                /\ nested /\ session_request # TerminateRequest => i < session_request.id
                /\ \A k \in DOMAIN request_queue :
                      request_queue[k] # TerminateRequest => i < request_queue[k].id
  BY <1>1 DEF ChannelInv, Fresh, Later, Known
<1> QED
  BY <1>1, <1>2, <1>3, <1>4, <1>5 DEF Begun

(* What a step of the server task sends is no SPEAK that is rendered.      *)
LEMMA SendsNew ==
    ASSUME ChannelInv(speaker), OnlySynth, NEW m, MaySend(m), m.method = "SPEAK",
           NEW i \in Nat, Begun(i)
    PROVE  m.id # i
<1>1. CASE nested /\ m = session_request
  <2>1. active /\ session_request # TerminateRequest
    BY <1>1 DEF ChannelInv, Turns, TerminateRequest
  <2>2. session_request.id \in Nat
    BY IdTypes DEF ChannelInv
  <2> QED
    BY <1>1, <2>1, <2>2 DEF Begun
<1>2. CASE m \in Pending /\ ~Internal
  BY <1>2 DEF Begun
<1> QED
  BY <1>1, <1>2 DEF MaySend

(* The methods of what is exchanged.                                       *)
LEMMA NextOnlySynth ==
    ASSUME SynthInv, OnlySynth, [Next]_vars
    PROVE  OnlySynth'
<1>1. FromClient'
  BY NextFromClient DEF SynthInv, OnlySynth
<1>2. /\ \A r \in Pending : r.method = "SPEAK"
      /\ \A r \in engine_in : r.method \in SynthMethods
      /\ \A r \in in_progress : r.method = "SPEAK"
  BY DEF OnlySynth
<1>3. CASE ServerTask
  <2>1. Moves
    BY <1>3, ServerMoves DEF SynthInv
  <2>2. \A r \in Pending' : r.method = "SPEAK"
    BY <1>2, <2>1 DEF Moves, Handling
  <2>3. ASSUME NEW m, MaySend(m) PROVE m.method \in SynthMethods
    BY <1>2, <2>3 DEF MaySend, SynthMethods
  <2>4. \A r \in engine_in' : r.method \in SynthMethods
    BY <1>2, <2>1, <2>3 DEF Moves, request_dispatch
  <2> QED
    BY <1>1, <1>2, <2>1, <2>2, <2>4 DEF OnlySynth, Moves
<1>4. CASE Client
  <2>1. UNCHANGED <<queue, deferred, engine_in, in_progress>>
    BY <1>4 DEF Client, ChannelClient, ClientRequest, ClientTerminate,
       SignalingMessageProcess, machine_vars, engine_vars
  <2> QED
    BY <1>1, <1>2, <2>1 DEF OnlySynth, Pending
<1>5. CASE Engine
  <2>1. UNCHANGED <<queue, deferred>> /\ engine_in' \subseteq engine_in
    BY <1>5 DEF Engine, EngineAnswer, EngineComplete, EngineMarker, EngineRespond, EngineMark,
       EngineFinish, machine_vars, stack_vars
  <2>2. \A r \in in_progress' :
           \/ r \in in_progress
           \/ r \in engine_in /\ r.method \in Starting
    BY <1>5 DEF Engine, EngineAnswer, EngineComplete, EngineMarker, EngineRespond, EngineMark,
       EngineFinish
  <2>3. \A r \in in_progress' : r.method = "SPEAK"
    BY <1>2, <2>2 DEF Starting, SynthMethods
  <2> QED
    BY <1>1, <1>2, <2>1, <2>3 DEF OnlySynth, Pending
<1>6. CASE UNCHANGED vars
  BY <1>1, <1>2, <1>6 DEF OnlySynth, Pending, vars, channel_vars, machine_vars, stack_vars,
     engine_vars
<1> QED
  BY <1>3, <1>4, <1>5, <1>6 DEF Next

(* A STOP or BARGE-IN-OCCURRED that is not answered stays alone.           *)
LEMMA NextStopAlone ==
    ASSUME SynthInv, StopAlone, OnlySynth, [Next]_vars
    PROVE  StopAlone'
<1>1. CASE ServerTask
  <2>1. Moves
    BY <1>1, ServerMoves DEF SynthInv
  <2>2. CASE \E r \in engine_in : r.method \in Stopping
    <3>1. PICK r \in engine_in : r.method \in Stopping
      BY <2>2
    <3>2. /\ active_request = r /\ ~nested /\ deferred = NoRequest /\ StopInProgress
      BY <3>1 DEF StopAlone, StopInProgress
    <3>3. \A m \in Answers : m.id # active_request.id
      BY <3>2 DEF SynthInv, ChannelInv, Flight
    <3>4. UNCHANGED <<engine_in, active_request, nested, deferred, session_request>>
      BY <2>1, <3>2, <3>3 DEF Moves
    <3> QED
      BY <3>4 DEF StopAlone
  <2>3. CASE \A r \in engine_in : r.method \notin Stopping
    <3>1. CASE engine_in' = engine_in
      BY <2>3, <3>1 DEF StopAlone
    <3>2. ASSUME NEW m, request_dispatch(m), MaySend(m), ~nested', UNCHANGED session_request,
                 deferred' \in {deferred, NoRequest}
          PROVE  StopAlone'
      <4>1. \A r \in engine_in' : r.method \in Stopping => r = m
        BY <2>3, <3>2 DEF request_dispatch
      <4>2. m.method \in Stopping => nested /\ speaker # NoRequest
        BY <3>2 DEF MaySend, OnlySynth, Stopping
      <4>3. m.method \in Stopping => deferred = NoRequest /\ session_request # NoRequest
        BY <4>2 DEF SynthInv, ChannelInv, Turns
      <4> QED
        BY <3>2, <4>1, <4>3 DEF StopAlone, request_dispatch
    <3> QED
      BY <2>1, <3>1, <3>2 DEF Moves
  <2> QED
    BY <2>2, <2>3
<1>2. CASE Client
  <2>1. PICK m : SignalingMessageProcess(m)
    BY <1>2 DEF Client, ChannelClient, ClientRequest, ClientTerminate
  <2>2. UNCHANGED <<engine_in, active_request, deferred>>
    BY <2>1 DEF SignalingMessageProcess, machine_vars, engine_vars
  <2>3. session_request # NoRequest => UNCHANGED <<session_request, nested>>
    BY <2>1 DEF SignalingMessageProcess
  <2> QED
    BY <2>2, <2>3 DEF StopAlone
<1>3. CASE Engine
  <2>1. /\ UNCHANGED <<active_request, nested, deferred, session_request>>
        /\ engine_in' \subseteq engine_in
    BY <1>3 DEF Engine, EngineAnswer, EngineComplete, EngineMarker, EngineRespond, EngineMark,
       EngineFinish, machine_vars, stack_vars, session_vars
  <2> QED
    BY <2>1 DEF StopAlone
<1>4. CASE UNCHANGED vars
  BY <1>4 DEF StopAlone, vars, channel_vars, machine_vars, stack_vars, session_vars,
     engine_vars
<1> QED
  BY <1>1, <1>2, <1>3, <1>4 DEF Next

(* The SPEAKs in progress stay apart from each other and from what may     *)
(* still be started.                                                       *)
LEMMA NextRendered ==
    ASSUME SynthInv, OnlySynth, Rendered, [Next]_vars
    PROVE  Rendered'
<1>0. \A r \in in_progress : r.id \in Nat
  BY IdTypes DEF SynthInv, ChannelInv, ChannelTypeOK
<1>1. CASE ServerTask
  <2>1. Moves
    BY <1>1, ServerMoves DEF SynthInv
  <2>2. ASSUME NEW r \in in_progress
        PROVE  /\ Begun(r.id)'
               /\ \A q \in engine_in' : q.method = "SPEAK" => q.id # r.id
    <3>1. PICK i \in Nat : i = r.id /\ Begun(i)
      BY <1>0 DEF Rendered
    <3>2. Begun(i)'
      BY <2>1, <3>1, BegunKept DEF SynthInv
    <3>3. ASSUME NEW m, MaySend(m), m.method = "SPEAK" PROVE m.id # i
      BY <3>1, <3>3, SendsNew DEF SynthInv
    <3>4. \A q \in engine_in : q.method = "SPEAK" => q.id # i
      BY <3>1 DEF Rendered
    <3>5. \A q \in engine_in' : q.method = "SPEAK" => q.id # i
      BY <2>1, <3>3, <3>4 DEF Moves, request_dispatch
    <3>6. r' = r
      OBVIOUS
    <3> QED
      BY <3>1, <3>2, <3>5
  <2> QED
    BY <2>1, <2>2 DEF Rendered, Moves
<1>2. CASE Client
  <2>1. UNCHANGED <<engine_in, in_progress>>
    BY <1>2 DEF Client, ChannelClient, ClientRequest, ClientTerminate,
       SignalingMessageProcess, engine_vars
  <2>2. ASSUME NEW i \in Nat, Begun(i) PROVE Begun(i)'
    BY <1>2, <2>2, BegunBefore DEF Client, SynthInv, ChannelInv
  <2> QED
    BY <1>0, <2>1, <2>2 DEF Rendered
<1>3. CASE Engine
  <2>1. UNCHANGED <<active, active_request, queue, deferred, nested, next_id, session_request,
                    request_queue>>
    BY <1>3 DEF Engine, EngineAnswer, EngineComplete, EngineMarker, EngineRespond, EngineMark,
       EngineFinish, machine_vars, stack_vars, session_vars, client_vars
  <2>2. ASSUME NEW i, Begun(i) PROVE Begun(i)'
    BY <2>1, <2>2 DEF Begun, Pending, Internal
  <2>3. CASE engine_in' \subseteq engine_in /\ in_progress' \subseteq in_progress
    BY <2>2, <2>3 DEF Rendered
  <2>4. CASE \E r \in engine_in : /\ engine_in' = engine_in \ {r} /\ r.method \in Starting
                                  /\ in_progress' = in_progress \cup {r}
    <3>1. PICK r \in engine_in : /\ engine_in' = engine_in \ {r} /\ r.method \in Starting
                                 /\ in_progress' = in_progress \cup {r}
      BY <2>4
    <3>2. r.method = "SPEAK"
      BY <3>1 DEF OnlySynth, Starting, SynthMethods
    <3>3. r.id # 0 /\ Begun(r.id)
      BY SentHasBegun DEF SynthInv
    <3>4. \A q \in engine_in' : q.id # r.id
      BY <3>1 DEF SynthInv, ChannelInv, Flight
    <3>5. \A q \in in_progress : q.id # r.id
      BY <3>2 DEF Rendered
    <3> QED
      BY <2>2, <3>1, <3>3, <3>4, <3>5 DEF Rendered
  <2> QED
    BY <1>3, <2>3, <2>4 DEF Engine, EngineAnswer, EngineComplete, EngineMarker, EngineRespond,
       EngineMark, EngineFinish
<1>4. CASE UNCHANGED vars
  BY <1>4 DEF Rendered, Begun, Pending, Internal, vars, channel_vars, machine_vars,
     stack_vars, session_vars, engine_vars, client_vars
<1> QED
  BY <1>1, <1>2, <1>3, <1>4 DEF Next

(* The invariant of the two sides together.                                *)
ExchangeInv == SynthInv /\ OnlySynth /\ StopAlone /\ Rendered

(* It holds initially.                                                     *)
LEMMA InitExchangeInv == Init => ExchangeInv
<1> SUFFICES ASSUME Init PROVE ExchangeInv
  OBVIOUS
<1>1. /\ queue = <<>> /\ deferred = NoRequest /\ engine_in = {} /\ in_progress = {}
      /\ session_request = NoRequest /\ request_queue = <<>>
  BY DEF Init, ChannelInit
<1>2. DOMAIN queue = {} /\ DOMAIN request_queue = {} /\ NoRequest.method = "NONE"
  BY <1>1 DEF NoRequest
<1> QED
  BY <1>1, <1>2, InitSynthInv DEF ExchangeInv, OnlySynth, FromClient, Pending, StopAlone,
     Rendered

(* Every step of the server task, the client or any engine keeps it.       *)
LEMMA NextExchangeInv == ExchangeInv /\ [Next]_vars => ExchangeInv'
  BY NextSynthInv, NextOnlySynth, NextStopAlone, NextRendered DEF ExchangeInv

-----------------------------------------------------------------------------
(* The demo synthesizer.                                                   *)

(* The consumer task: its messages are requests that are not answered, a   *)
(* STOP or BARGE-IN-OCCURRED is the last of them, and the request that it  *)
(* handles is not answered or has just been started.                       *)
TaskInv ==
    /\ task_in \in Seq(MrcpRequest)
    /\ task_pc \in {"idle", "reply", "set"}
    /\ \A k \in DOMAIN task_in :
          /\ task_in[k] \in engine_in
          /\ task_in[k].method \in Stopping => k = Len(task_in)
    /\ \A k, l \in DOMAIN task_in : task_in[k] = task_in[l] => k = l
    /\ task_pc = "reply" =>
          /\ task_request \in engine_in /\ task_request.method \notin Stopping
          /\ \A k \in DOMAIN task_in : task_in[k] # task_request
    /\ task_pc = "set" => task_request \in in_progress

(* Id i is that of a SPEAK in progress, which the consumer task is not     *)
(* about to make the active one.                                           *)
Ongoing(i) ==
    /\ \E r \in in_progress : r.id = i
    /\ task_pc = "set" => task_request.id # i

(* The media thread, unless it is about to reset the fields: the response  *)
(* it will send is of a STOP or BARGE-IN-OCCURRED that is not answered and *)
(* after which the consumer task got nothing; the SPEAK that it will end   *)
(* and the one whose end it reports are in progress.                       *)
MediaInv ==
    /\ mpf_pc \in {"idle", "clear", "send"}
    /\ mpf_pc # "clear" /\ stop_response # NoRequest =>
          /\ stop_response \in engine_in /\ stop_response.method \in Stopping
          /\ task_in = <<>> /\ task_pc = "idle"
    /\ mpf_pc # "clear" /\ speak_request # 0 => Ongoing(speak_request)
    /\ mpf_pc = "send" => Ongoing(mpf_event) /\ mpf_event # speak_request

DemoInv == ExchangeInv /\ TaskInv /\ MediaInv

(* Every step of the plugin is a step that an engine may take.             *)
LEMMA DemoStep ==
    ASSUME EngineMayFail, DemoInv, [DemoNext]_demo_vars
    PROVE  [Next]_vars
<1>1. CASE DemoClient \/ DemoServerTask
  BY <1>1 DEF DemoClient, DemoServerTask, Next
<1>2. CASE DemoRequestDispatch \/ DemoSpeakSet \/ StreamReadClear \/ StreamReadCompleted
              \/ UNCHANGED demo_vars
  BY <1>2 DEF DemoRequestDispatch, DemoSpeakSet, StreamReadClear, StreamReadCompleted, demo_vars
<1>3. CASE DemoReply
  <2>1. /\ task_request \in engine_in /\ task_request.method \notin Stopping
        /\ task_request.method \in SynthMethods
    BY <1>3 DEF DemoReply, DemoInv, TaskInv, ExchangeInv, OnlySynth
  <2>2. PICK reply \in IF task_request.method = "SPEAK" THEN {"FAILED", "IN-PROGRESS"}
                       ELSE {"COMPLETE"} :
           /\ DemoRespond(task_request, reply)
           /\ in_progress' = IF reply = "IN-PROGRESS" THEN in_progress \cup {task_request}
                             ELSE in_progress
    BY <1>3 DEF DemoReply
  <2>3. reply \in Replies /\ (reply = "IN-PROGRESS" <=> (task_request.method \in Starting
                                                         /\ reply # "FAILED"))
    BY <2>1, <2>2 DEF Replies, Starting, SynthMethods
  <2>4. EngineRespond(task_request, reply) /\ UNCHANGED sm_vars
    BY <2>1, <2>2, <2>3 DEF EngineRespond, DemoRespond
  <2> QED
    BY <2>1, <2>3, <2>4 DEF Next, Engine, EngineAnswer
<1>4. CASE StreamReadStop
  <2>1. stop_response \in engine_in /\ stop_response.method \in Stopping
    BY <1>4 DEF StreamReadStop, DemoInv, MediaInv
  <2>2. {q \in in_progress : q.method = "INTERPRET"} = {}
    BY DEF DemoInv, ExchangeInv, OnlySynth
  <2>3. DemoRespond(stop_response, "COMPLETE") /\ in_progress' = {}
    BY <1>4 DEF StreamReadStop
  <2>4. EngineRespond(stop_response, "COMPLETE") /\ UNCHANGED sm_vars
    BY <2>1, <2>2, <2>3 DEF EngineRespond, DemoRespond, Stopping, Starting
  <2> QED
    BY <2>1, <2>4 DEF Next, Engine, EngineAnswer, Replies
<1>5. CASE StreamReadEvent
  <2>1. PICK r \in in_progress : r.id = mpf_event
    BY <1>5 DEF StreamReadEvent, DemoInv, MediaInv, Ongoing
  <2>2. r.method = "SPEAK" /\ CompletionEvent(r.method) = "SPEAK-COMPLETE"
    BY DEF DemoInv, ExchangeInv, OnlySynth, CompletionEvent
  <2>3. {q \in in_progress : q.id # mpf_event} = in_progress \ {r}
    BY <2>1 DEF DemoInv, ExchangeInv, Rendered
  <2>4. EngineFinish(r) /\ UNCHANGED sm_vars
    BY <1>5, <2>1, <2>2, <2>3 DEF StreamReadEvent, EngineFinish, EngineEvent
  <2> QED
    BY <2>4 DEF Next, Engine, EngineComplete
<1> QED
  BY <1>1, <1>2, <1>3, <1>4, <1>5 DEF DemoNext, DemoTask, DemoStreamRead

(* The server task signals its request to the consumer task.               *)
LEMMA SignalKeeps ==
    ASSUME DemoInv, ExchangeInv', DemoServerTask
    PROVE  TaskInv' /\ MediaInv'
<1>1. Moves /\ UNCHANGED <<plugin_vars, thread_vars>> /\ DemoMsgSignal
  BY ServerMoves DEF DemoServerTask, DemoInv, ExchangeInv, SynthInv
<1>2. UNCHANGED <<speak_request, stop_response, task_pc, task_request, mpf_pc, mpf_event,
                  in_progress>>
  BY <1>1 DEF plugin_vars, thread_vars, Moves
<1>3. \A i : Ongoing(i) => Ongoing(i)'
  BY <1>2 DEF Ongoing
<1>4. CASE engine_in' = engine_in
  <2>1. task_in' = task_in
    BY <1>1, <1>4 DEF DemoMsgSignal
  <2> QED
    BY <1>2, <1>3, <1>4, <2>1 DEF DemoInv, TaskInv, MediaInv
<1>5. CASE engine_in' # engine_in
  <2>1. PICK m : request_dispatch(m) /\ MaySend(m)
    BY <1>1, <1>5 DEF Moves
  <2>2. engine_in' = engine_in \cup {m} /\ m \notin engine_in
    BY <1>5, <2>1 DEF request_dispatch
  <2>3. \A r \in engine_in : r.method \notin Stopping
    BY <2>1 DEF MaySend, DemoInv, ExchangeInv, StopAlone, StopInProgress
  <2>4. task_in' = Append(task_in, m)
    <3>1. \E r \in engine_in' : r \notin engine_in
      BY <2>2
    <3>2. m = CHOOSE r \in engine_in' : r \notin engine_in
      BY <2>2
    <3> QED
      BY <1>1, <3>1, <3>2 DEF DemoMsgSignal
  <2>5. m \in MrcpRequest
    BY <2>2 DEF ExchangeInv, SynthInv, ChannelInv, ChannelTypeOK
  <2>6. task_in \in Seq(MrcpRequest)
    BY DEF DemoInv, TaskInv
  <2>7. /\ task_in' \in Seq(MrcpRequest)
        /\ DOMAIN task_in = 1..Len(task_in) /\ Len(task_in) \in Nat
        /\ DOMAIN task_in' = 1..(Len(task_in) + 1) /\ Len(task_in') = Len(task_in) + 1
        /\ \A k \in DOMAIN task_in : task_in'[k] = task_in[k]
        /\ task_in'[Len(task_in) + 1] = m
    BY <2>4, <2>5, <2>6
  <2>8. \A k \in DOMAIN task_in' : k \in DOMAIN task_in \/ k = Len(task_in')
    BY <2>7
  <2>9. \A k \in DOMAIN task_in :
           /\ task_in'[k] \in engine_in /\ task_in'[k] # m
           /\ task_in'[k].method \notin Stopping
    BY <2>2, <2>3, <2>7 DEF DemoInv, TaskInv
  <2>10. \A k \in DOMAIN task_in' :
            /\ task_in'[k] \in engine_in'
            /\ task_in'[k].method \in Stopping => k = Len(task_in')
    BY <2>2, <2>7, <2>8, <2>9
  <2>11. \A k, l \in DOMAIN task_in' : task_in'[k] = task_in'[l] => k = l
    <3>1. \A k, l \in DOMAIN task_in : task_in[k] = task_in[l] => k = l
      BY DEF DemoInv, TaskInv
    <3> QED
      BY <2>7, <2>8, <2>9, <3>1
  <2>12. TaskInv'
    <3>1. task_pc = "reply" => task_request \in engine_in /\ task_request # m
      BY <2>2 DEF DemoInv, TaskInv
    <3>2. task_pc = "reply" => \A k \in DOMAIN task_in' : task_in'[k] # task_request
      BY <2>7, <2>8, <3>1 DEF DemoInv, TaskInv
    <3> QED
      BY <1>2, <2>2, <2>7, <2>10, <2>11, <3>2 DEF DemoInv, TaskInv
  <2>13. mpf_pc = "clear" \/ stop_response = NoRequest
    BY <2>3 DEF DemoInv, MediaInv
  <2>14. MediaInv'
    BY <1>2, <1>3, <2>13 DEF DemoInv, MediaInv
  <2> QED
    BY <2>12, <2>14
<1> QED
  BY <1>4, <1>5

(* The steps of the consumer task.                                         *)
LEMMA TaskKeeps ==
    ASSUME DemoInv, DemoTask
    PROVE  TaskInv' /\ MediaInv'
<1>0. task_in \in Seq(MrcpRequest)
  BY DEF DemoInv, TaskInv
<1>1. CASE DemoRequestDispatch
  <2>1. PICK r : r = Head(task_in)
    OBVIOUS
  <2>2. /\ task_pc = "idle" /\ task_in # <<>> /\ task_in' = Tail(task_in)
        /\ UNCHANGED <<engine_in, in_progress, speak_request, mpf_pc, mpf_event>>
    BY <1>1 DEF DemoRequestDispatch, vars, channel_vars, engine_vars
  <2>3. /\ r = task_in[1] /\ 1 \in DOMAIN task_in
        /\ task_in' \in Seq(MrcpRequest) /\ Len(task_in') = Len(task_in) - 1
        /\ DOMAIN task_in' = 1..(Len(task_in) - 1) /\ Len(task_in) \in Nat
        /\ \A k \in DOMAIN task_in' :
              k + 1 \in DOMAIN task_in /\ k + 1 # 1 /\ task_in'[k] = task_in[k + 1]
    BY <1>0, <2>1, <2>2
  <2>4. r \in engine_in /\ (r.method \in Stopping => Len(task_in) = 1)
    BY <2>3 DEF DemoInv, TaskInv
  <2>5. \A k \in DOMAIN task_in' :
           /\ task_in'[k] \in engine_in /\ task_in'[k] # r
           /\ task_in'[k].method \in Stopping => k = Len(task_in')
    <3> SUFFICES ASSUME NEW k \in DOMAIN task_in'
                 PROVE  /\ task_in'[k] \in engine_in /\ task_in'[k] # r
                        /\ task_in'[k].method \in Stopping => k = Len(task_in')
      OBVIOUS
    <3>1. /\ k + 1 \in DOMAIN task_in /\ k + 1 # 1 /\ task_in'[k] = task_in[k + 1] /\ k \in Nat
      BY <2>3
    <3>2. task_in[k + 1] \in engine_in /\ task_in[k + 1] # task_in[1]
      BY <2>3, <3>1 DEF DemoInv, TaskInv
    <3>3. task_in[k + 1].method \in Stopping => k + 1 = Len(task_in)
      BY <3>1 DEF DemoInv, TaskInv
    <3> QED
      BY <2>3, <3>1, <3>2, <3>3
  <2>6. \A k, l \in DOMAIN task_in' : task_in'[k] = task_in'[l] => k = l
    <3>1. \A k, l \in DOMAIN task_in : task_in[k] = task_in[l] => k = l
      BY DEF DemoInv, TaskInv
    <3>2. \A k, l \in DOMAIN task_in' : k + 1 = l + 1 => k = l
      BY <2>3
    <3> QED
      BY <2>3, <3>1, <3>2
  <2>7. mpf_pc # "clear" => stop_response = NoRequest
    BY <2>2 DEF DemoInv, MediaInv
  <2>8. CASE r.method \in Stopping
    <3>1. stop_response' = r /\ UNCHANGED <<task_pc, task_request>>
      BY <1>1, <2>1, <2>8 DEF DemoRequestDispatch
    <3>2. task_in' = <<>>
      BY <2>3, <2>4, <2>8
    <3>3. TaskInv'
      BY <2>2, <2>3, <2>5, <2>6, <3>1 DEF DemoInv, TaskInv
    <3>4. MediaInv'
      BY <2>2, <2>4, <2>8, <3>1, <3>2 DEF DemoInv, MediaInv, Ongoing
    <3> QED
      BY <3>3, <3>4
  <2>9. CASE r.method \notin Stopping
    <3>1. task_pc' = "reply" /\ task_request' = r /\ stop_response' = stop_response
      BY <1>1, <2>1, <2>9 DEF DemoRequestDispatch
    <3>2. TaskInv'
      BY <2>2, <2>3, <2>4, <2>5, <2>6, <2>9, <3>1 DEF DemoInv, TaskInv
    <3>3. MediaInv'
      BY <2>2, <2>7, <3>1 DEF DemoInv, MediaInv, Ongoing
    <3> QED
      BY <3>2, <3>3
  <2> QED
    BY <2>8, <2>9
<1>2. CASE DemoReply
  <2>1. PICK reply :
           /\ reply \in IF task_request.method = "SPEAK" THEN {"FAILED", "IN-PROGRESS"}
                        ELSE {"COMPLETE"}
           /\ DemoRespond(task_request, reply)
           /\ in_progress' = IF reply = "IN-PROGRESS" THEN in_progress \cup {task_request}
                             ELSE in_progress
           /\ task_pc' = IF reply = "IN-PROGRESS" THEN "set" ELSE "idle"
    BY <1>2 DEF DemoReply
  <2>2. /\ task_pc = "reply" /\ engine_in' = engine_in \ {task_request}
        /\ UNCHANGED <<task_in, speak_request, stop_response, task_request, mpf_pc, mpf_event>>
    BY <1>2 DEF DemoReply, DemoRespond, plugin_vars
  <2>3. task_request \in engine_in
    BY <2>2 DEF DemoInv, TaskInv
  <2>4. reply = "IN-PROGRESS" => \A r \in in_progress : r.id # task_request.id
    BY <2>1, <2>3 DEF DemoInv, ExchangeInv, Rendered
  <2>5. TaskInv'
    BY <2>1, <2>2 DEF DemoInv, TaskInv
  <2>6. mpf_pc # "clear" => stop_response = NoRequest
    BY <2>2 DEF DemoInv, MediaInv
  <2>7. ASSUME NEW i, Ongoing(i) PROVE Ongoing(i)'
    BY <2>1, <2>2, <2>4, <2>7 DEF Ongoing
  <2>8. MediaInv'
    BY <2>2, <2>6, <2>7 DEF DemoInv, MediaInv
  <2> QED
    BY <2>5, <2>8
<1>3. CASE DemoSpeakSet
  <2>1. /\ task_pc = "set" /\ speak_request' = task_request.id /\ task_pc' = "idle"
        /\ UNCHANGED <<engine_in, in_progress, task_in, stop_response, task_request, mpf_pc,
                       mpf_event>>
    BY <1>3 DEF DemoSpeakSet, vars, channel_vars, engine_vars
  <2>2. TaskInv'
    BY <2>1 DEF DemoInv, TaskInv
  <2>3. task_request \in in_progress
    BY <2>1 DEF DemoInv, TaskInv
  <2>4. ASSUME NEW i, Ongoing(i) PROVE Ongoing(i)' /\ i # task_request.id
    BY <2>1, <2>4 DEF Ongoing
  <2>5. Ongoing(speak_request)'
    BY <2>1, <2>3 DEF Ongoing
  <2>6. mpf_pc # "clear" => stop_response = NoRequest
    BY <2>1 DEF DemoInv, MediaInv
  <2>7. MediaInv'
    BY <2>1, <2>4, <2>5, <2>6 DEF DemoInv, MediaInv
  <2> QED
    BY <2>2, <2>7
<1> QED
  BY <1>1, <1>2, <1>3 DEF DemoTask

(* The steps of the media thread.                                          *)
LEMMA MediaKeeps ==
    ASSUME DemoInv, DemoStreamRead
    PROVE  TaskInv' /\ MediaInv'
<1>1. CASE StreamReadStop
  <2>1. /\ mpf_pc = "idle" /\ stop_response # NoRequest /\ mpf_pc' = "clear"
        /\ UNCHANGED <<task_in, task_pc, task_request>>
    BY <1>1 DEF StreamReadStop
  <2>2. task_in = <<>> /\ task_pc = "idle"
    BY <2>1 DEF DemoInv, MediaInv
  <2>3. DOMAIN task_in = {}
    BY <2>2
  <2> QED
    BY <2>1, <2>2, <2>3 DEF DemoInv, TaskInv, MediaInv
<1>2. CASE StreamReadClear
  <2>1. /\ stop_response' = NoRequest /\ speak_request' = 0 /\ mpf_pc' = "idle"
        /\ UNCHANGED <<engine_in, in_progress, task_in, task_pc, task_request>>
    BY <1>2 DEF StreamReadClear, vars, channel_vars, engine_vars
  <2> QED
    BY <2>1 DEF DemoInv, TaskInv, MediaInv
<1>3. CASE StreamReadCompleted
  <2>1. /\ mpf_pc = "idle" /\ speak_request # 0 /\ mpf_event' = speak_request
        /\ speak_request' = 0 /\ mpf_pc' = "send"
        /\ UNCHANGED <<engine_in, in_progress, task_in, task_pc, task_request, stop_response>>
    BY <1>3 DEF StreamReadCompleted, vars, channel_vars, engine_vars
  <2>2. Ongoing(mpf_event)'
    BY <2>1 DEF DemoInv, MediaInv, Ongoing
  <2> QED
    BY <2>1, <2>2 DEF DemoInv, TaskInv, MediaInv
<1>4. CASE StreamReadEvent
  <2>1. /\ mpf_pc = "send" /\ mpf_pc' = "idle"
        /\ in_progress' = {r \in in_progress : r.id # mpf_event}
        /\ UNCHANGED <<engine_in, task_in, task_pc, task_request, stop_response, speak_request>>
    BY <1>4 DEF StreamReadEvent, plugin_vars
  <2>2. Ongoing(mpf_event) /\ mpf_event # speak_request
    BY <2>1 DEF DemoInv, MediaInv
  <2>3. Ongoing(speak_request) => Ongoing(speak_request)'
    BY <2>1, <2>2 DEF Ongoing
  <2>4. task_pc = "set" => task_request \in in_progress'
    BY <2>1, <2>2 DEF DemoInv, TaskInv, Ongoing
  <2> QED
    BY <2>1, <2>3, <2>4 DEF DemoInv, TaskInv, MediaInv
<1> QED
  BY <1>1, <1>2, <1>3, <1>4 DEF DemoStreamRead

(* Every step keeps the invariant of the plugin.                           *)
LEMMA NextDemoInv ==
    ASSUME EngineMayFail, DemoInv, [DemoNext]_demo_vars
    PROVE  DemoInv'
<1>1. ExchangeInv'
  BY DemoStep, NextExchangeInv DEF DemoInv
<1>2. CASE DemoServerTask
  BY <1>1, <1>2, SignalKeeps DEF DemoInv
<1>3. CASE DemoTask
  BY <1>1, <1>3, TaskKeeps DEF DemoInv
<1>4. CASE DemoStreamRead
  BY <1>1, <1>4, MediaKeeps DEF DemoInv
<1>5. CASE DemoClient \/ UNCHANGED demo_vars
  <2>1. UNCHANGED <<engine_in, in_progress>>
    BY <1>5 DEF DemoClient, Client, ChannelClient, ClientRequest, ClientTerminate,
       SignalingMessageProcess, engine_vars, demo_vars, vars, channel_vars
  <2>2. UNCHANGED <<task_in, plugin_vars, thread_vars>>
    BY <1>5 DEF DemoClient, demo_vars
  <2>3. TaskInv' /\ MediaInv'
    BY <2>1, <2>2 DEF DemoInv, TaskInv, MediaInv, Ongoing, plugin_vars, thread_vars
  <2> QED
    BY <1>1, <2>3 DEF DemoInv
<1> QED
  BY <1>2, <1>3, <1>4, <1>5 DEF DemoNext

(* The demo synthesizer keeps the contract of an engine that may fail,     *)
(* whatever its two threads, which share their fields without a lock,      *)
(* interleave with each other and with the server task: no request is      *)
(* answered twice or without having been sent, and SPEAK-COMPLETE is       *)
(* raised once, and only for a SPEAK in progress that was not stopped.     *)
THEOREM DemoIsEngine ==
    ASSUME EngineMayFail
    PROVE  DemoSpec => DemoImplementsEngine
<1>1. DemoInit => DemoInv
  <2> SUFFICES ASSUME DemoInit PROVE DemoInv
    OBVIOUS
  <2>1. ExchangeInv
    BY InitExchangeInv DEF DemoInit
  <2>2. /\ task_in = <<>> /\ task_pc = "idle" /\ mpf_pc = "idle" /\ speak_request = 0
        /\ stop_response = NoRequest
    BY DEF DemoInit
  <2>3. DOMAIN task_in = {} /\ task_in \in Seq(MrcpRequest)
    BY <2>2
  <2> QED
    BY <2>1, <2>2, <2>3 DEF DemoInv, TaskInv, MediaInv
<1>2. DemoInv /\ [DemoNext]_demo_vars => DemoInv'
  BY NextDemoInv
<1>3. DemoInv /\ [DemoNext]_demo_vars => [Next]_vars
  BY DemoStep
<1>4. DemoInit => Init
  BY DEF DemoInit
<1> QED
  BY <1>1, <1>2, <1>3, <1>4, PTL DEF DemoSpec, DemoImplementsEngine, Spec


-----------------------------------------------------------------------------
(* A client that starts a SPEAK only when everything before it has ended.  *)

(* The engine started the SPEAK; it ended what was in progress.            *)
Starts(m) == m.kind = "response" /\ m.method = "SPEAK" /\ m.reply = "IN-PROGRESS"
Ends(m) == m.method \in Stopping \cup {"SPEAK-COMPLETE"}
NoAnswers(s) == \A k \in DOMAIN s : s[k].kind # "response"

(* The messages s in flight tell the difference between the speaker cur    *)
(* and the SPEAKs ip that the engine renders; act is the active request.   *)
RendersOne(s, cur, act, ip) ==
    /\ act.method = "SPEAK" => cur = NoRequest
    /\ \A r \in ip : r = cur \/ (r = act /\ \E k \in DOMAIN s : Starts(s[k]))
EventsOf(s, cur, act) ==
    \A k \in DOMAIN s : s[k].kind = "event" =>
        \/ cur # NoRequest /\ s[k].id = cur.id
        \/ /\ cur = NoRequest /\ s[k].id = act.id
           /\ \E j \in DOMAIN s : j < k /\ Starts(s[j])
NothingAfter(s, ip) ==
    \A k \in DOMAIN s : Ends(s[k]) =>
        /\ ip = {}
        /\ \A l \in DOMAIN s : k < l => s[l].kind # "event"
EndIsTold(s, cur, act, ip) ==
    ip = {} =>
        /\ cur # NoRequest => \/ act.method \in Stopping
                              \/ \E k \in DOMAIN s : s[k].method = "SPEAK-COMPLETE"
        /\ (\E k \in DOMAIN s : Starts(s[k])) =>
              \E k \in DOMAIN s : s[k].method = "SPEAK-COMPLETE"
Flow(s, cur, act, ip) ==
    /\ RendersOne(s, cur, act, ip) /\ EventsOf(s, cur, act)
    /\ NothingAfter(s, ip) /\ EndIsTold(s, cur, act, ip)

(* The first message is taken.                                             *)
LEMMA TailIs ==
    ASSUME NEW s \in Seq(EngineMessage), s # <<>>, NEW t, t = Tail(s)
    PROVE  /\ t \in Seq(EngineMessage) /\ DOMAIN s \subseteq Nat /\ DOMAIN t \subseteq Nat
           /\ 1 \in DOMAIN s /\ Head(s) = s[1] /\ \A k \in DOMAIN s : ~(k < 1)
           /\ \A k \in DOMAIN t : k + 1 \in DOMAIN s /\ 1 < k + 1 /\ t[k] = s[k + 1]
           /\ \A k \in DOMAIN s : k # 1 => k - 1 \in DOMAIN t /\ t[k - 1] = s[k]
           /\ \A k, l \in DOMAIN t : k < l => k + 1 < l + 1
           /\ \A k, l \in DOMAIN s : k < l => k - 1 < l - 1
  OBVIOUS

(* A message is added.                                                     *)
LEMMA AppendIs ==
    ASSUME NEW s \in Seq(EngineMessage), NEW m \in EngineMessage, NEW t, t = Append(s, m)
    PROVE  /\ t \in Seq(EngineMessage) /\ DOMAIN s \subseteq DOMAIN t
           /\ \A k \in DOMAIN s : t[k] = s[k] /\ k < Len(t)
           /\ Len(t) \in DOMAIN t /\ t[Len(t)] = m
           /\ \A k \in DOMAIN t : k \in DOMAIN s \/ k = Len(t)
           /\ \A k \in DOMAIN t : ~(Len(t) < k)
  OBVIOUS

(* With no answer in flight another request becomes the active one.        *)
LEMMA FlowIdle ==
    ASSUME NEW s, NEW cur, NEW act, NEW ip, Flow(s, cur, act, ip), NoAnswers(s),
           act.method \notin Stopping, NEW act2, act2.method = "SPEAK" => cur = NoRequest
    PROVE  Flow(s, cur, act2, ip)
<1>1. \A k \in DOMAIN s : ~Starts(s[k])
  BY DEF NoAnswers, Starts
<1>2. RendersOne(s, cur, act2, ip)
  BY <1>1 DEF Flow, RendersOne
<1>3. EventsOf(s, cur, act2)
  BY <1>1 DEF Flow, EventsOf
<1>4. NothingAfter(s, ip)
  BY DEF Flow
<1>5. EndIsTold(s, cur, act2, ip)
  BY <1>1 DEF Flow, EndIsTold
<1> QED
  BY <1>2, <1>3, <1>4, <1>5 DEF Flow

(* A response that neither starts nor ends a SPEAK is taken.               *)
LEMMA FlowPlain ==
    ASSUME NEW s \in Seq(EngineMessage), NEW cur, NEW act, NEW ip, Flow(s, cur, act, ip),
           s # <<>>, NEW t, t = Tail(s), NoAnswers(t), Head(s).kind = "response",
           ~Starts(Head(s)), ~Ends(Head(s)), act.method \notin Stopping
    PROVE  Flow(t, cur, NoRequest, ip)
<1>1. /\ 1 \in DOMAIN s /\ Head(s) = s[1] /\ \A k \in DOMAIN s : ~(k < 1)
      /\ \A k \in DOMAIN t : k + 1 \in DOMAIN s /\ 1 < k + 1 /\ t[k] = s[k + 1]
      /\ \A k \in DOMAIN s : k # 1 => k - 1 \in DOMAIN t /\ t[k - 1] = s[k]
      /\ \A k, l \in DOMAIN t : k < l => k + 1 < l + 1
  BY TailIs
<1>2. \A k \in DOMAIN s : ~Starts(s[k])
  BY <1>1 DEF NoAnswers, Starts
<1>3. \A k \in DOMAIN t : ~Starts(t[k])
  BY DEF NoAnswers, Starts
<1>4. RendersOne(t, cur, NoRequest, ip)
  BY <1>2 DEF Flow, RendersOne, NoRequest
<1>5. EventsOf(t, cur, NoRequest)
  BY <1>1, <1>2 DEF Flow, EventsOf
<1>6. NothingAfter(t, ip)
  BY <1>1 DEF Flow, NothingAfter
<1>7. EndIsTold(t, cur, NoRequest, ip)
  BY <1>1, <1>3 DEF Flow, EndIsTold, Ends
<1> QED
  BY <1>4, <1>5, <1>6, <1>7 DEF Flow

(* The response that starts a SPEAK is taken: it becomes the speaker.      *)
LEMMA FlowStart ==
    ASSUME NEW s \in Seq(EngineMessage), NEW act, NEW ip, Flow(s, NoRequest, act, ip),
           s # <<>>, NEW t, t = Tail(s), NoAnswers(t), Starts(Head(s)), act # NoRequest,
           NoRequest \notin ip
    PROVE  Flow(t, act, NoRequest, ip)
<1>1. /\ 1 \in DOMAIN s /\ Head(s) = s[1]
      /\ \A k \in DOMAIN t : k + 1 \in DOMAIN s /\ 1 < k + 1 /\ t[k] = s[k + 1]
      /\ \A k \in DOMAIN s : k # 1 => k - 1 \in DOMAIN t /\ t[k - 1] = s[k]
      /\ \A k, l \in DOMAIN t : k < l => k + 1 < l + 1
  BY TailIs
<1>2. \A k \in DOMAIN t : ~Starts(t[k])
  BY DEF NoAnswers, Starts
<1>3. RendersOne(t, act, NoRequest, ip)
  BY DEF Flow, RendersOne, NoRequest
<1>4. EventsOf(t, act, NoRequest)
  BY <1>1 DEF Flow, EventsOf
<1>5. NothingAfter(t, ip)
  BY <1>1 DEF Flow, NothingAfter
<1>6. EndIsTold(t, act, NoRequest, ip)
  <2>1. s[1].method # "SPEAK-COMPLETE"
    BY <1>1 DEF Starts
  <2>2. ip = {} => \E k \in DOMAIN s : s[k].method = "SPEAK-COMPLETE"
    BY <1>1 DEF Flow, EndIsTold
  <2>3. ip = {} => \E k \in DOMAIN t : t[k].method = "SPEAK-COMPLETE"
    BY <1>1, <2>1, <2>2
  <2> QED
    BY <2>3 DEF EndIsTold
<1> QED
  BY <1>3, <1>4, <1>5, <1>6 DEF Flow

(* The message that ends the speaker is taken.                             *)
LEMMA FlowEnd ==
    ASSUME NEW s \in Seq(EngineMessage), NEW cur, NEW act, NEW ip, Flow(s, cur, act, ip),
           s # <<>>, NEW t, t = Tail(s), Ends(Head(s)), \A k \in DOMAIN t : ~Starts(t[k]),
           NEW act2
    PROVE  Flow(t, NoRequest, act2, ip) /\ ip = {}
<1>1. /\ 1 \in DOMAIN s /\ Head(s) = s[1]
      /\ \A k \in DOMAIN t : k + 1 \in DOMAIN s /\ 1 < k + 1 /\ t[k] = s[k + 1]
  BY TailIs
<1>2. ip = {} /\ \A k \in DOMAIN t : t[k].kind # "event"
  BY <1>1 DEF Flow, NothingAfter
<1>3. RendersOne(t, NoRequest, act2, ip)
  BY <1>2 DEF RendersOne
<1>4. EventsOf(t, NoRequest, act2)
  BY <1>2 DEF EventsOf
<1>5. NothingAfter(t, ip)
  BY <1>2 DEF NothingAfter
<1>6. EndIsTold(t, NoRequest, act2, ip)
  BY DEF EndIsTold
<1> QED
  BY <1>2, <1>3, <1>4, <1>5, <1>6 DEF Flow

(* An event is always of the speaker; one that changes nothing is taken.   *)
LEMMA FlowEvent ==
    ASSUME NEW s \in Seq(EngineMessage), NEW cur, NEW act, NEW ip, Flow(s, cur, act, ip),
           s # <<>>, NEW t, t = Tail(s), Head(s).kind = "event",
           \A k \in DOMAIN s : Starts(s[k]) => act.method = "SPEAK"
    PROVE  /\ cur # NoRequest /\ Head(s).id = cur.id /\ act.method # "SPEAK"
           /\ \A k \in DOMAIN t : ~Starts(t[k])
           /\ act.method \in Stopping \/ Head(s).method # "SPEAK-COMPLETE"
                 => Flow(t, cur, act, ip)
<1>1. /\ 1 \in DOMAIN s /\ Head(s) = s[1] /\ \A k \in DOMAIN s : ~(k < 1)
      /\ \A k \in DOMAIN t : k + 1 \in DOMAIN s /\ 1 < k + 1 /\ t[k] = s[k + 1]
      /\ \A k \in DOMAIN s : k # 1 => k - 1 \in DOMAIN t /\ t[k - 1] = s[k]
      /\ \A k, l \in DOMAIN t : k < l => k + 1 < l + 1
  BY TailIs
<1>2. cur # NoRequest /\ Head(s).id = cur.id
  BY <1>1 DEF Flow, EventsOf
<1>3. act.method # "SPEAK"
  BY <1>2 DEF Flow, RendersOne
<1>4. (\A k \in DOMAIN s : ~Starts(s[k])) /\ (\A k \in DOMAIN t : ~Starts(t[k]))
  BY <1>1, <1>3
<1>5. RendersOne(t, cur, act, ip)
  BY <1>3, <1>4 DEF Flow, RendersOne
<1>6. EventsOf(t, cur, act)
  BY <1>1, <1>2 DEF Flow, EventsOf
<1>7. NothingAfter(t, ip)
  BY <1>1 DEF Flow, NothingAfter
<1>8. ASSUME act.method \in Stopping \/ Head(s).method # "SPEAK-COMPLETE"
      PROVE  EndIsTold(t, cur, act, ip)
  BY <1>1, <1>4, <1>8 DEF Flow, EndIsTold
<1> QED
  BY <1>2, <1>3, <1>4, <1>5, <1>6, <1>7, <1>8 DEF Flow

(* The engine answers a request that neither starts nor ends a SPEAK.      *)
LEMMA FlowAnswered ==
    ASSUME NEW s \in Seq(EngineMessage), NEW cur, NEW act, NEW ip, Flow(s, cur, act, ip),
           NEW m \in EngineMessage, m.kind = "response", ~Starts(m), ~Ends(m),
           NEW t, t = Append(s, m)
    PROVE  Flow(t, cur, act, ip)
<1>1. /\ DOMAIN s \subseteq DOMAIN t /\ \A k \in DOMAIN s : t[k] = s[k]
      /\ \A k \in DOMAIN t : k \in DOMAIN s \/ t[k] = m
  BY AppendIs
<1>2. RendersOne(t, cur, act, ip)
  BY <1>1 DEF Flow, RendersOne
<1>3. EventsOf(t, cur, act)
  BY <1>1 DEF Flow, EventsOf
<1>4. NothingAfter(t, ip)
  BY <1>1 DEF Flow, NothingAfter
<1>5. EndIsTold(t, cur, act, ip)
  BY <1>1 DEF Flow, EndIsTold
<1> QED
  BY <1>2, <1>3, <1>4, <1>5 DEF Flow

(* The engine starts the active SPEAK.                                     *)
LEMMA FlowStarted ==
    ASSUME NEW s \in Seq(EngineMessage), NEW cur, NEW act, NEW ip, Flow(s, cur, act, ip),
           NEW m \in EngineMessage, Starts(m), act.method = "SPEAK", NoAnswers(s),
           NoRequest \notin ip, NEW t, t = Append(s, m)
    PROVE  Flow(t, cur, act, ip \cup {act})
<1>1. /\ DOMAIN s \subseteq DOMAIN t /\ \A k \in DOMAIN s : t[k] = s[k]
      /\ Len(t) \in DOMAIN t /\ t[Len(t)] = m
      /\ \A k \in DOMAIN t : k \in DOMAIN s \/ t[k] = m
  BY AppendIs
<1>2. cur = NoRequest /\ \A k \in DOMAIN s : ~Starts(s[k])
  BY DEF Flow, RendersOne, NoAnswers, Starts
<1>3. ip = {}
  BY <1>2 DEF Flow, RendersOne
<1>4. RendersOne(t, cur, act, ip \cup {act})
  BY <1>1, <1>2, <1>3 DEF RendersOne
<1>5. \A k \in DOMAIN t : t[k].kind # "event" /\ ~Ends(t[k])
  <2>1. ~Ends(m) /\ m.kind # "event"
    BY DEF Starts, Ends, Stopping
  <2>2. \A k \in DOMAIN s : s[k].kind # "event"
    BY <1>2 DEF Flow, EventsOf
  <2>3. \A k \in DOMAIN s : s[k] \in EngineMessage
    OBVIOUS
  <2>4. \A n \in EngineMessage : n.kind = "event" \/ n.kind = "response"
    BY DEF EngineMessage
  <2>5. DOMAIN s = {}
    BY <2>2, <2>3, <2>4 DEF NoAnswers
  <2> QED
    BY <1>1, <2>1, <2>5
<1>6. EventsOf(t, cur, act)
  BY <1>5 DEF EventsOf
<1>7. NothingAfter(t, ip \cup {act})
  BY <1>5 DEF NothingAfter
<1>8. EndIsTold(t, cur, act, ip \cup {act})
  BY DEF EndIsTold
<1> QED
  BY <1>4, <1>6, <1>7, <1>8 DEF Flow

(* The engine answers STOP or BARGE-IN-OCCURRED: it renders nothing.       *)
LEMMA FlowStopped ==
    ASSUME NEW s \in Seq(EngineMessage), NEW cur, NEW act, NEW ip, Flow(s, cur, act, ip),
           NEW m \in EngineMessage, m.kind = "response", m.method \in Stopping,
           act.method \in Stopping, NoAnswers(s), NEW t, t = Append(s, m)
    PROVE  Flow(t, cur, act, {})
<1>1. /\ DOMAIN s \subseteq DOMAIN t /\ \A k \in DOMAIN s : t[k] = s[k] /\ k < Len(t)
      /\ t[Len(t)] = m
      /\ \A k \in DOMAIN t : k \in DOMAIN s \/ k = Len(t)
      /\ \A k \in DOMAIN t : ~(Len(t) < k)
  BY AppendIs
<1>2. \A k \in DOMAIN t : ~Starts(t[k])
  <2>1. ~Starts(m)
    BY DEF Starts, Stopping
  <2> QED
    BY <1>1, <2>1 DEF NoAnswers, Starts
<1>3. RendersOne(t, cur, act, {})
  BY DEF Flow, RendersOne
<1>4. EventsOf(t, cur, act)
  BY <1>1 DEF Flow, EventsOf
<1>5. NothingAfter(t, {})
  <2>1. \A l \in DOMAIN t : t[l].kind = "event" => l \in DOMAIN s
    BY <1>1
  <2>2. \A k, l \in DOMAIN s : Ends(s[k]) /\ k < l => s[l].kind # "event"
    BY DEF Flow, NothingAfter
  <2> QED
    BY <1>1, <2>1, <2>2 DEF NothingAfter
<1>6. EndIsTold(t, cur, act, {})
  BY <1>2 DEF EndIsTold
<1> QED
  BY <1>3, <1>4, <1>5, <1>6 DEF Flow

(* The engine raises an event of the SPEAK it renders, or ends it.         *)
LEMMA FlowRaised ==
    ASSUME NEW s \in Seq(EngineMessage), NEW cur, NEW act, NEW ip, Flow(s, cur, act, ip),
           \A k \in DOMAIN s : Starts(s[k]) => act.method = "SPEAK",
           NEW r \in ip, NoRequest \notin ip, NEW m \in EngineMessage, m.kind = "event",
           m.id = r.id, NEW jp,
           \/ m.method = "SPEAK-COMPLETE" /\ jp = ip \ {r}
           \/ m.method = "SPEECH-MARKER" /\ jp = ip,
           NEW t, t = Append(s, m)
    PROVE  Flow(t, cur, act, jp)
<1>1. /\ DOMAIN s \subseteq DOMAIN t /\ \A k \in DOMAIN s : t[k] = s[k] /\ k < Len(t)
      /\ Len(t) \in DOMAIN t /\ t[Len(t)] = m
      /\ \A k \in DOMAIN t : k \in DOMAIN s \/ k = Len(t)
      /\ \A k \in DOMAIN t : ~(Len(t) < k)
  BY AppendIs
<1>2. ip = {r} /\ (jp = ip \/ jp = {})
  BY DEF Flow, RendersOne
<1>3. \/ cur # NoRequest /\ r = cur
      \/ cur = NoRequest /\ r = act /\ \E k \in DOMAIN s : Starts(s[k])
  BY DEF Flow, RendersOne
<1>4. ~Starts(m)
  BY DEF Starts
<1>5. RendersOne(t, cur, act, jp)
  BY <1>1, <1>2 DEF Flow, RendersOne
<1>6. EventsOf(t, cur, act)
  <2>1. \A k \in DOMAIN s : s[k].kind = "event" =>
           \/ cur # NoRequest /\ s[k].id = cur.id
           \/ /\ cur = NoRequest /\ s[k].id = act.id
              /\ \E j \in DOMAIN s : j < k /\ Starts(s[j])
    BY DEF Flow, EventsOf
  <2>2. \/ cur # NoRequest /\ m.id = cur.id
        \/ /\ cur = NoRequest /\ m.id = act.id
           /\ \E j \in DOMAIN t : j < Len(t) /\ Starts(t[j])
    BY <1>1, <1>3
  <2> QED
    BY <1>1, <2>1, <2>2 DEF EventsOf
<1>7. NothingAfter(t, jp)
  <2>1. \A k \in DOMAIN s : ~Ends(s[k])
    BY DEF Flow, NothingAfter
  <2>2. Ends(m) => jp = {}
    BY <1>2 DEF Ends, Stopping
  <2> QED
    BY <1>1, <2>1, <2>2 DEF NothingAfter
<1>8. EndIsTold(t, cur, act, jp)
  BY <1>1, <1>2 DEF EndIsTold
<1> QED
  BY <1>5, <1>6, <1>7, <1>8 DEF Flow

(* A SPEAK waits in the session; there is one at most.                     *)
SpeakWaits ==
    \/ nested /\ session_request.method = "SPEAK"
    \/ \E k \in DOMAIN request_queue : request_queue[k].method = "SPEAK"
OneWaits ==
    /\ \A k, l \in DOMAIN request_queue :
          request_queue[k].method = "SPEAK" /\ request_queue[l].method = "SPEAK" => k = l
    /\ nested /\ session_request.method = "SPEAK" =>
          \A k \in DOMAIN request_queue : request_queue[k].method # "SPEAK"

(* While it waits nothing else is, or will be, in progress.                *)
Alone ==
    active =>
        /\ OneWaits
        /\ SpeakWaits =>
              /\ speaker = NoRequest /\ in_progress = {} /\ active_request.method # "SPEAK"
              /\ \A k \in DOMAIN server_in : server_in[k].kind # "event"

(* The request in flight, if any, is the active one.                       *)
OneOut ==
    /\ \A r \in engine_in : r = active_request
    /\ \A k \in DOMAIN server_in :
          server_in[k].kind = "response" => server_in[k].id = active_request.id
    /\ active_request # NoRequest => active_request.id \in Out

NoneWaits == queue = <<>> /\ deferred = NoRequest /\ ~is_pending

(* The invariant of a channel whose client is serial.                      *)
SerialInv ==
    /\ NoneWaits /\ OneOut /\ Alone
    /\ Flow(server_in, speaker, active_request, in_progress)

(* What follows from the invariant.                                        *)
LEMMA SerialIs ==
    ASSUME ExchangeInv, SerialInv
    PROVE  /\ NoRequest \notin in_progress
           /\ \A k \in DOMAIN server_in :
                 Starts(server_in[k]) => active_request.method = "SPEAK"
           /\ nested => active_request = NoRequest
           /\ active_request = NoRequest => engine_in = {} /\ NoAnswers(server_in)
           /\ engine_in # {} => engine_in = {active_request} /\ NoAnswers(server_in)
<1>1. NoRequest \notin in_progress
  BY DEF ExchangeInv, OnlySynth, NoRequest
<1>2. \A k \in DOMAIN server_in : server_in[k].kind = "response" =>
         server_in[k] \in Answers /\ server_in[k].id \in Out
  BY DEF Answers, Out
<1>3. \A k \in DOMAIN server_in : Starts(server_in[k]) => active_request.method = "SPEAK"
  BY <1>2 DEF Starts, SerialInv, OneOut, ExchangeInv, SynthInv, ChannelInv, Flight
<1>4. nested => active_request = NoRequest
  BY DEF SerialInv, NoneWaits, OneOut, ExchangeInv, SynthInv, ChannelInv, Turns, Internal
<1>5. 0 \notin Out /\ NoRequest.id = 0
  BY DEF ExchangeInv, SynthInv, ChannelInv, Flight, NoRequest
<1>6. \A r \in engine_in : r.id \in Out
  BY DEF Out
<1>7. ASSUME active_request = NoRequest PROVE engine_in = {} /\ NoAnswers(server_in)
  BY <1>2, <1>5, <1>6, <1>7 DEF SerialInv, OneOut, NoAnswers
<1>8. ASSUME engine_in # {} PROVE engine_in = {active_request} /\ NoAnswers(server_in)
  <2>1. engine_in = {active_request}
    BY <1>8 DEF SerialInv, OneOut
  <2>2. \A m \in Answers : m.id # active_request.id
    BY <2>1 DEF ExchangeInv, SynthInv, ChannelInv, Flight
  <2> QED
    BY <1>2, <2>1, <2>2 DEF SerialInv, OneOut, NoAnswers
<1> QED
  BY <1>1, <1>3, <1>4, <1>7, <1>8

(* Every response is expected, and with it nothing is in flight any more.  *)
LEMMA SerialAnswer ==
    ASSUME ExchangeInv, SerialInv, TakeEngineMessage, Received.kind = "response"
    PROVE  /\ Expected /\ engine_in = {} /\ NoAnswers(server_in')
           /\ active_request.method = Received.method
<1>1. server_in \in Seq(EngineMessage) /\ server_in # <<>> /\ server_in' = Tail(server_in)
  BY DEF TakeEngineMessage, ExchangeInv, SynthInv, ChannelInv, ChannelTypeOK
<1>2. PICK s, t : s = server_in /\ t = server_in'
  OBVIOUS
<1>3. /\ 1 \in DOMAIN s /\ Received = s[1]
      /\ \A k \in DOMAIN t : k + 1 \in DOMAIN s /\ 1 < k + 1 /\ t[k] = s[k + 1]
  BY <1>1, <1>2, TailIs DEF Received
<1>4. Received.id = active_request.id /\ Received \in Answers /\ Received.id # 0
  BY <1>2, <1>3 DEF SerialInv, OneOut, Answers, Out, ExchangeInv, SynthInv, ChannelInv, Flight
<1>5. Expected
  BY <1>4 DEF Expected, NoRequest
<1>6. engine_in = {}
  BY <1>4, SerialIs DEF ExchangeInv, SynthInv, ChannelInv, Flight
<1>7. NoAnswers(t)
  <2>1. \A k \in DOMAIN t : t[k].kind = "response" => t[k].id = active_request.id
    BY <1>2, <1>3 DEF SerialInv, OneOut
  <2>2. \A k, l \in DOMAIN s : s[k].kind = "response" /\ s[l].kind = "response" /\ k # l =>
           s[k].id # s[l].id
    BY <1>2 DEF ExchangeInv, SynthInv, ChannelInv, Flight
  <2>3. DOMAIN t \subseteq Nat
    BY <1>1, <1>2, TailIs
  <2>4. \A k \in DOMAIN t : k + 1 # 1
    BY <1>3, <2>3
  <2> QED
    BY <1>3, <1>4, <2>1, <2>2, <2>4 DEF NoAnswers
<1>8. active_request.method = Received.method
  BY <1>4 DEF ExchangeInv, SynthInv, ChannelInv, Flight
<1> QED
  BY <1>2, <1>5, <1>6, <1>7, <1>8

(* Nothing is in flight after a step.                                      *)
LEMMA NoneOut ==
    ASSUME engine_in' = {}, NoAnswers(server_in'), active_request' = NoRequest
    PROVE  OneOut'
  BY DEF OneOut, NoAnswers

(* Only what a step sent is in flight after it.                            *)
LEMMA SentOut ==
    ASSUME NEW m, engine_in' = {m}, NoAnswers(server_in'), active_request' = m
    PROVE  OneOut'
<1>1. active_request'.id \in Out'
  BY DEF Out
<1> QED
  BY <1>1 DEF OneOut, NoAnswers

(* No SPEAK joins the session by a step of the server task.                *)
LEMMA WaitsKept ==
    ASSUME ExchangeInv, Moves, active'
    PROVE  active /\ (SpeakWaits' => SpeakWaits) /\ (OneWaits => OneWaits')
<1>1. active
  BY DEF Moves
<1>2. CASE UNCHANGED <<session_request, request_queue>> /\ (nested' => nested)
  BY <1>1, <1>2 DEF SpeakWaits, OneWaits
<1>3. CASE PopSessionRequest
  <2>1. request_queue \in Seq(Request)
    BY DEF ExchangeInv, SynthInv, ChannelInv, ChannelTypeOK
  <2>2. CASE request_queue = <<>>
    <3>1. nested' = FALSE /\ DOMAIN request_queue' = {}
      BY <1>3, <2>2 DEF PopSessionRequest
    <3> QED
      BY <1>1, <3>1 DEF SpeakWaits, OneWaits
  <2>3. CASE request_queue # <<>>
    <3>1. session_request' = Head(request_queue) /\ request_queue' = Tail(request_queue)
      BY <1>3, <2>3 DEF PopSessionRequest
    <3>2. 1 \in DOMAIN request_queue /\ session_request' = request_queue[1]
      BY <2>1, <2>3, <3>1
    <3>3. \A k \in DOMAIN request_queue' :
             /\ k + 1 \in DOMAIN request_queue /\ k + 1 # 1 /\ k \in Nat
             /\ request_queue'[k] = request_queue[k + 1]
      BY <2>1, <2>3, <3>1
    <3>4. \A k, l \in DOMAIN request_queue' : k + 1 = l + 1 => k = l
      BY <3>3
    <3>5. SpeakWaits' => SpeakWaits
      BY <3>2, <3>3 DEF SpeakWaits
    <3>6. ASSUME OneWaits PROVE OneWaits'
      <4>1. \A k, l \in DOMAIN request_queue :
               request_queue[k].method = "SPEAK" /\ request_queue[l].method = "SPEAK" => k = l
        BY <3>6 DEF OneWaits
      <4> QED
        BY <3>2, <3>3, <3>4, <4>1 DEF OneWaits
    <3> QED
      BY <1>1, <3>5, <3>6
  <2> QED
    BY <2>2, <2>3
<1> QED
  BY <1>2, <1>3 DEF Moves

(* A step of the server task that starts nothing leaves the SPEAK alone.   *)
LEMMA AloneKept ==
    ASSUME ExchangeInv, Alone, Moves, active' /\ SpeakWaits' =>
              /\ speaker' = speaker \/ speaker' = NoRequest
              /\ active_request'.method # "SPEAK"
              /\ \A k \in DOMAIN server_in' : \E l \in DOMAIN server_in :
                    server_in'[k] = server_in[l]
    PROVE  Alone'
  BY WaitsKept DEF Alone, Moves

(* The handlers of client requests and the deactivation.                   *)
LEMMA SerialNested ==
    ASSUME ExchangeInv, SerialInv, SynthRequest \/ SessionDeactivate
    PROVE  SerialInv'
<1>1. nested /\ UNCHANGED <<server_in, in_progress, speaker>>
  BY DEF SynthRequest, synth_request_params, synth_request_speak, synth_request_stop,
     synth_request_pause, synth_request_resume, synth_request_barge_in_occurred,
     synth_request_control, synth_request_define_lexicon, Handling, sm_vars,
     SessionDeactivate, DeactivateChannel, ForwardOrRespond, StartOrQueue, StopOrRemove,
     DispatchAndReturn, RespondAndReturn, engine_vars
<1>2. active_request = NoRequest /\ engine_in = {} /\ NoAnswers(server_in)
  BY <1>1, SerialIs
<1>3. Moves /\ active
  BY <1>1, ServerMoves DEF ServerTask, ExchangeInv, SynthInv, ChannelInv, Turns
<1>4. NoneWaits /\ queue \in Seq(QueuedRequest) /\ Sorted /\ ChannelTypeOK
  BY DEF SerialInv, ExchangeInv, SynthInv, ChannelInv, ChannelTypeOK
<1>5. NoRequest.method \notin Stopping /\ NoRequest.method # "SPEAK"
  BY DEF NoRequest, Stopping
<1>6. ASSUME NEW m, request_dispatch(m), UNCHANGED <<queue, deferred, is_pending>>,
             m.method = "SPEAK" => /\ Handling("SPEAK") /\ nested' = FALSE
                                   /\ UNCHANGED <<session_request, request_queue>>
      PROVE  SerialInv'
  <2>1. OneOut'
    BY <1>1, <1>2, <1>6, SentOut DEF request_dispatch
  <2>2. m.method = "SPEAK" => speaker = NoRequest
    BY <1>3, <1>6 DEF SerialInv, Alone, SpeakWaits, Handling
  <2>3. Flow(server_in, speaker, m, in_progress)
    BY <1>2, <1>5, <2>2, FlowIdle DEF SerialInv
  <2>4. Flow(server_in, speaker, active_request, in_progress)'
    BY <1>1, <1>6, <2>3 DEF request_dispatch
  <2>5. m.method = "SPEAK" => ~SpeakWaits'
    BY <1>3, <1>6 DEF SerialInv, Alone, OneWaits, SpeakWaits, Handling
  <2>6. Alone'
    BY <1>1, <1>3, <1>6, <2>5, AloneKept DEF SerialInv, request_dispatch
  <2> QED
    BY <1>4, <1>6, <2>1, <2>4, <2>6 DEF SerialInv, NoneWaits
<1>7. ASSUME queue' = <<>>, UNCHANGED <<deferred, is_pending, engine_in, active_request>>
      PROVE  SerialInv'
  <2>1. OneOut'
    BY <1>1, <1>2, <1>7, NoneOut
  <2>2. Flow(server_in, speaker, active_request, in_progress)'
    BY <1>1, <1>7 DEF SerialInv
  <2>3. Alone'
    BY <1>1, <1>2, <1>3, <1>5, <1>7, AloneKept DEF SerialInv
  <2> QED
    BY <1>4, <1>7, <2>1, <2>2, <2>3 DEF SerialInv, NoneWaits
<1>8. ASSUME DispatchAndReturn(session_request), UNCHANGED <<queue, is_pending>>
      PROVE  SerialInv'
  BY <1>1, <1>6, <1>8 DEF DispatchAndReturn, Handling, session_vars
<1>9. ASSUME NEW id, NEW rstate, NEW ended, RespondAndReturn(id, rstate, ended),
             queue' = <<>>, UNCHANGED is_pending
      PROVE  SerialInv'
  BY <1>2, <1>7, <1>9 DEF RespondAndReturn, response_dispatch, engine_vars
<1>10. ASSUME NEW forward, ForwardOrRespond(forward) PROVE SerialInv'
  <2>1. CASE forward
    BY <1>8, <1>10, <2>1 DEF ForwardOrRespond
  <2>2. CASE ~forward
    BY <1>4, <1>9, <1>10, <2>2 DEF ForwardOrRespond, NoneWaits
  <2> QED
    BY <2>1, <2>2
<1>11. CASE synth_request_speak
  <2>1. speaker = NoRequest
    BY <1>3, <1>11 DEF synth_request_speak, SerialInv, Alone, SpeakWaits, Handling
  <2> QED
    BY <1>8, <1>11, <2>1 DEF synth_request_speak, StartOrQueue
<1>12. CASE synth_request_stop
  <2>1. PICK forward : StopOrRemove(forward)
    BY <1>12 DEF synth_request_stop
  <2>2. CASE forward
    BY <1>8, <2>1, <2>2 DEF StopOrRemove
  <2>3. CASE ~forward
    <3>1. PICK ended : /\ RespondAndReturn(session_request.id, "COMPLETE", ended)
                       /\ queue' = Remaining(session_request.sel) /\ UNCHANGED is_pending
      BY <2>1, <2>3 DEF StopOrRemove
    <3>2. /\ queue' \in Seq(QueuedRequest)
          /\ \A k \in DOMAIN queue' : \E i \in DOMAIN queue : queue'[k] = queue[i]
      BY <1>4, <3>1, RemainingIs
    <3>3. DOMAIN queue = {}
      BY <1>4 DEF NoneWaits
    <3>4. queue' = <<>>
      BY <3>2, <3>3
    <3> QED
      BY <1>9, <3>1, <3>4
  <2> QED
    BY <2>2, <2>3
<1>13. CASE SessionDeactivate
  <2>1. UNCHANGED <<queue, deferred, is_pending>>
    BY <1>13 DEF SessionDeactivate, DeactivateChannel
  <2>2. CASE speaker = NoRequest
    BY <1>4, <1>7, <1>13, <2>1, <2>2 DEF SessionDeactivate, DeactivateChannel, NoneWaits
  <2>3. CASE speaker # NoRequest
    <3>1. PICK m : /\ m = [id |-> speaker.id + 1, method |-> "STOP", sel |-> {}, kill |-> FALSE]
                   /\ request_dispatch(m)
      BY <1>13, <2>3 DEF SessionDeactivate, DeactivateChannel
    <3> QED
      BY <1>6, <2>1, <3>1
  <2> QED
    BY <2>2, <2>3
<1> QED
  BY <1>10, <1>11, <1>12, <1>13 DEF SynthRequest, synth_request_params, synth_request_pause,
     synth_request_resume, synth_request_barge_in_occurred, synth_request_control,
     synth_request_define_lexicon

(* The handlers of responses.                                              *)
LEMMA SerialResponse ==
    ASSUME ExchangeInv, SerialInv, SynthResponse
    PROVE  crashed' \/ SerialInv'
<1>1. ~SynthDeferred
  BY DEF SynthDeferred, DispatchDeferred, SerialInv, NoneWaits
<1>2. PICK methods : TakeEngineMessage /\ Received.kind = "response"
                        /\ (UnexpectedResponse \/ ResponseTo(methods))
  BY <1>1 DEF SynthResponse, UnexpectedResponse, IgnoreResponse, synth_response_plain,
     synth_response_speak, synth_response_stop, synth_response_pause, synth_response_resume,
     synth_response_barge_in_occurred, synth_response_control, ResponseTo
<1>3. /\ Expected /\ engine_in = {} /\ NoAnswers(server_in')
      /\ active_request.method = Received.method /\ active_request # NoRequest
  BY <1>2, SerialAnswer DEF Expected
<1>4. ~UnexpectedResponse
  BY <1>3 DEF UnexpectedResponse, IgnoreResponse
<1>5. /\ server_in \in Seq(EngineMessage) /\ server_in # <<>> /\ server_in' = Tail(server_in)
      /\ in_progress' = in_progress /\ engine_in' = {}
  BY <1>2, <1>3, <1>4 DEF TakeEngineMessage, ExchangeInv, SynthInv, ChannelInv, ChannelTypeOK,
     ResponseTo
<1>6. PICK s, t : s = server_in /\ t = server_in'
  OBVIOUS
<1>7. /\ s \in Seq(EngineMessage) /\ s # <<>> /\ t = Tail(s) /\ NoAnswers(t)
      /\ Head(s) = Received /\ Head(s).kind = "response"
  BY <1>2, <1>3, <1>5, <1>6 DEF Received
<1>8. \A k \in DOMAIN t : \E l \in DOMAIN s : t[k] = s[l]
  BY <1>7, TailIs
<1>9. Moves
  BY ServerMoves DEF ServerTask, ExchangeInv, SynthInv
<1>10. Received.method # "SPEAK-COMPLETE"
  <2>1. \A m \in EngineMessage : m.kind = "response" => m.method \in Methods
    BY DEF EngineMessage, Events
  <2>2. Received \in EngineMessage
    BY <1>7
  <2> QED
    BY <1>2, <2>1, <2>2 DEF Methods, SynthMethods, RecogMethods, RecorderMethods, VerifierMethods
<1>11. NoneWaits /\ Sorted /\ ChannelTypeOK /\ DOMAIN queue = {}
  <2>1. NoneWaits /\ Sorted /\ ChannelTypeOK
    BY DEF SerialInv, ExchangeInv, SynthInv, ChannelInv
  <2> QED
    BY <2>1 DEF NoneWaits
<1>12. ASSUME active_request' = NoRequest, queue' = <<>>, UNCHANGED <<deferred, is_pending>>,
              Flow(t, speaker', NoRequest, in_progress),
              speaker' = speaker \/ speaker' = NoRequest \/ active_request.method = "SPEAK"
       PROVE  SerialInv'
  <2>1. NoneWaits'
    BY <1>11, <1>12 DEF NoneWaits
  <2>2. OneOut'
    BY <1>3, <1>5, <1>12, NoneOut
  <2>3. Flow(server_in, speaker, active_request, in_progress)'
    BY <1>5, <1>6, <1>12
  <2>4. NoRequest.method # "SPEAK"
    BY DEF NoRequest
  <2>5. active' /\ SpeakWaits' => active_request.method # "SPEAK"
    BY <1>9, WaitsKept DEF SerialInv, Alone
  <2>6. Alone'
    BY <1>6, <1>8, <1>9, <1>12, <2>4, <2>5, AloneKept DEF SerialInv
  <2> QED
    BY <2>1, <2>2, <2>3, <2>6 DEF SerialInv
<1>13. ASSUME NEW rstate, PassOn(rstate)
       PROVE  active_request' = NoRequest /\ queue' = <<>> /\ UNCHANGED <<deferred, is_pending>>
  BY <1>11, <1>13 DEF PassOn, response_dispatch, NoneWaits
<1>14. Flow(s, speaker, active_request, in_progress)
  BY <1>6 DEF SerialInv
<1>15. ASSUME ~Starts(Received), Received.method \notin Stopping, speaker' = speaker,
              NEW rstate, PassOn(rstate)
       PROVE  SerialInv'
  <2>1. Flow(t, speaker, NoRequest, in_progress)
    BY <1>3, <1>7, <1>10, <1>14, <1>15, FlowPlain DEF Ends
  <2> QED
    BY <1>12, <1>13, <1>15, <2>1
<1>16. CASE synth_response_plain
  BY <1>15, <1>16 DEF synth_response_plain, ResponseTo, Starts, Stopping, sm_vars
<1>17. CASE synth_response_speak
  <2>1. PassOn(StartedState) /\ Received.method = "SPEAK"
    BY <1>11, <1>17 DEF synth_response_speak, NoneWaits, ResponseTo
  <2>2. CASE Received.reply = "IN-PROGRESS"
    <3>1. speaker' = active_request
      BY <1>17, <2>2 DEF synth_response_speak
    <3>2. speaker = NoRequest
      BY <1>3, <1>14, <2>1 DEF Flow, RendersOne
    <3>3. Flow(s, NoRequest, active_request, in_progress)
      BY <1>14, <3>2
    <3>4. Starts(Head(s)) /\ NoRequest \notin in_progress
      BY <1>7, <2>1, <2>2, SerialIs DEF Starts
    <3>5. Flow(t, active_request, NoRequest, in_progress)
      BY <1>3, <1>7, <3>3, <3>4, FlowStart
    <3>6. Flow(t, speaker', NoRequest, in_progress)
      BY <3>1, <3>5
    <3> QED
      BY <1>3, <1>12, <1>13, <2>1, <3>6
  <2>3. CASE Received.reply # "IN-PROGRESS"
    BY <1>15, <1>17, <2>1, <2>3 DEF synth_response_speak, Starts, Stopping, sm_vars
  <2> QED
    BY <2>2, <2>3
<1>18. ASSUME Received.method \in Stopping, BecomeIdle, active_request' = NoRequest,
              queue' = <<>>, UNCHANGED <<deferred, is_pending>>
       PROVE  SerialInv'
  <2>1. Ends(Head(s)) /\ \A k \in DOMAIN t : ~Starts(t[k])
    BY <1>7, <1>18 DEF Ends, Starts, NoAnswers
  <2>2. Flow(t, NoRequest, NoRequest, in_progress)
    BY <1>7, <1>14, <2>1, FlowEnd
  <2> QED
    BY <1>12, <1>18, <2>2 DEF BecomeIdle
<1>19. ASSUME NEW rest, rest = Remaining(active_request.sel) PROVE rest = <<>>
  <2>1. /\ rest \in Seq(QueuedRequest)
        /\ \A k \in DOMAIN rest : \E i \in DOMAIN queue : rest[k] = queue[i]
    BY <1>11, <1>19, RemainingIs
  <2>2. DOMAIN rest = {}
    BY <1>11, <2>1
  <2> QED
    BY <2>1, <2>2
<1>20. CASE synth_response_stop
  <2>1. CASE speaker = NoRequest
    BY <1>20, <2>1 DEF synth_response_stop, NullDereference
  <2>2. CASE speaker # NoRequest
    <3>1. EndByStop(speaker) /\ BecomeIdle /\ Received.method \in Stopping
      BY <1>20, <2>2 DEF synth_response_stop, ResponseTo, Stopping
    <3>2. /\ active_request' = NoRequest /\ queue' = <<>> /\ UNCHANGED <<deferred, is_pending>>
      BY <1>19, <3>1 DEF EndByStop, response_dispatch
    <3> QED
      BY <1>18, <3>1, <3>2
  <2> QED
    BY <2>1, <2>2
<1>21. CASE synth_response_barge_in_occurred
  <2>1. CASE speaker = NoRequest
    BY <1>21, <2>1 DEF synth_response_barge_in_occurred, NullDereference
  <2>2. CASE speaker # NoRequest
    <3>1. /\ BecomeIdle /\ Received.method \in Stopping /\ active_request' = NoRequest
          /\ queue' = Remaining(active_request.sel) /\ UNCHANGED <<deferred, is_pending>>
      BY <1>21, <2>2 DEF synth_response_barge_in_occurred, ResponseTo, Stopping,
         response_dispatch
    <3> QED
      BY <1>18, <1>19, <3>1
  <2> QED
    BY <2>1, <2>2
<1>22. CASE synth_response_pause \/ synth_response_resume
  <2>1. PICK new : PauseOrResume(new) /\ Received.method \in {"PAUSE", "RESUME"}
    BY <1>22 DEF synth_response_pause, synth_response_resume, ResponseTo
  <2> QED
    BY <1>15, <2>1 DEF PauseOrResume, NullDereference, Starts, Stopping
<1>23. CASE synth_response_control
  BY <1>15, <1>23 DEF synth_response_control, NullDereference, ResponseTo, Starts, Stopping,
     sm_vars
<1> QED
  BY <1>1, <1>4, <1>16, <1>17, <1>20, <1>21, <1>22, <1>23 DEF SynthResponse

(* The handlers of events.                                                 *)
LEMMA SerialEvent ==
    ASSUME ExchangeInv, SerialInv, SynthEvent
    PROVE  SerialInv'
<1>1. PICK name \in {"SPEECH-MARKER", "SPEAK-COMPLETE"} : EventNamed(name)
  BY DEF SynthEvent, synth_event_speech_marker, synth_event_speak_complete
<1>2. /\ TakeEngineMessage /\ Received.kind = "event" /\ Received.method = name
      /\ deferred' = deferred
  BY <1>1 DEF EventNamed, stack_vars
<1>3. /\ server_in \in Seq(EngineMessage) /\ server_in # <<>> /\ server_in' = Tail(server_in)
      /\ in_progress' = in_progress
  BY <1>2 DEF TakeEngineMessage, ExchangeInv, SynthInv, ChannelInv, ChannelTypeOK
<1>4. PICK s, t : s = server_in /\ t = server_in'
  OBVIOUS
<1>5. /\ s \in Seq(EngineMessage) /\ s # <<>> /\ t = Tail(s)
      /\ Head(s) = Received /\ Head(s).kind = "event" /\ Head(s).method = name
      /\ Flow(s, speaker, active_request, in_progress)
      /\ \A k \in DOMAIN s : Starts(s[k]) => active_request.method = "SPEAK"
  BY <1>2, <1>3, <1>4, SerialIs DEF Received, SerialInv
<1>6. /\ speaker # NoRequest /\ Received.id = speaker.id /\ active_request.method # "SPEAK"
      /\ \A k \in DOMAIN t : ~Starts(t[k])
      /\ active_request.method \in Stopping \/ name # "SPEAK-COMPLETE"
            => Flow(t, speaker, active_request, in_progress)
  BY <1>5, FlowEvent
<1>7. \A k \in DOMAIN t : \E l \in DOMAIN s : t[k] = s[l]
  BY <1>5, TailIs
<1>8. Moves
  BY ServerMoves DEF ServerTask, ExchangeInv, SynthInv
<1>9. NoneWaits
  BY DEF SerialInv
<1>10. ASSUME UNCHANGED <<active_request, queue, is_pending, engine_in>>,
              Flow(t, speaker', active_request, in_progress),
              speaker' = speaker \/ speaker' = NoRequest
       PROVE  SerialInv'
  <2>1. NoneWaits'
    BY <1>2, <1>9, <1>10 DEF NoneWaits
  <2>2. Out' = Out
    BY <1>2, <1>10, TakeIs DEF ExchangeInv, SynthInv, ChannelInv
  <2>3. OneOut'
    BY <1>4, <1>7, <1>10, <2>2 DEF SerialInv, OneOut
  <2>4. Flow(server_in, speaker, active_request, in_progress)'
    BY <1>3, <1>4, <1>10
  <2>5. Alone'
    BY <1>4, <1>6, <1>7, <1>8, <1>10, AloneKept DEF SerialInv
  <2> QED
    BY <2>1, <2>3, <2>4, <2>5 DEF SerialInv
<1>11. CASE synth_event_speech_marker
  <2>1. name # "SPEAK-COMPLETE"
    BY <1>2, <1>11 DEF synth_event_speech_marker, EventNamed
  <2> QED
    BY <1>6, <1>10, <1>11, <2>1 DEF synth_event_speech_marker, TellClient, sm_vars
<1>12. CASE synth_event_speak_complete
  <2>1. name = "SPEAK-COMPLETE" /\ EventOfSpeaker
    BY <1>2, <1>6, <1>12 DEF synth_event_speak_complete, EventNamed, EventOfSpeaker
  <2>2. CASE StopInProgress
    <3>1. UNCHANGED <<active_request, queue, is_pending, engine_in, speaker>>
      BY <1>12, <2>2 DEF synth_event_speak_complete, TellClient, sm_vars
    <3> QED
      BY <1>6, <1>10, <2>2, <3>1 DEF StopInProgress
  <2>3. CASE ~StopInProgress
    <3>1. CompleteAndNext /\ BecomeIdle
      BY <1>12, <2>1, <2>3 DEF synth_event_speak_complete
    <3>2. UNCHANGED <<active_request, queue, is_pending, engine_in>> /\ speaker' = NoRequest
      BY <1>9, <3>1 DEF CompleteAndNext, BecomeIdle, NoneWaits
    <3>3. Ends(Head(s))
      BY <1>5, <2>1 DEF Ends
    <3>4. Flow(t, NoRequest, active_request, in_progress)
      BY <1>5, <1>6, <3>3, FlowEnd
    <3> QED
      BY <1>10, <3>2, <3>4
  <2> QED
    BY <2>2, <2>3
<1> QED
  BY <1>11, <1>12 DEF SynthEvent


(* When everything the client sent has ended, nothing goes on.             *)
LEMMA QuietIs ==
    ASSUME ExchangeInv, SerialInv, ~nested, active,
           \A i \in Ids : view[i] \in {"unsent", "COMPLETE"}
    PROVE  /\ ~SpeakWaits /\ speaker = NoRequest /\ in_progress = {}
           /\ active_request = NoRequest
           /\ \A k \in DOMAIN server_in : server_in[k].kind # "event"
<1>1. ChannelInv(speaker) /\ ViewInv(speaker, {"IN-PROGRESS"})
  BY DEF ExchangeInv, SynthInv, SpeakerView
<1>2. Out = {}
  <2>1. \A o \in Out : o \in Ids /\ view[o] \in {"sent", "PENDING"}
    BY <1>1, KnownIs DEF ViewInv
  <2> QED
    BY <2>1
<1>3. active_request = NoRequest
  BY <1>2 DEF SerialInv, OneOut
<1>4. speaker = NoRequest
  <2>1. speaker # NoRequest => speaker.id \in Ids /\ view[speaker.id] = "IN-PROGRESS"
    BY <1>1, KnownIs DEF ViewInv
  <2> QED
    BY <2>1
<1>5. NoAnswers(server_in) /\ NoRequest \notin in_progress
  BY <1>3, SerialIs
<1>6. \A k \in DOMAIN server_in : ~Starts(server_in[k])
  BY <1>5 DEF NoAnswers, Starts
<1>7. in_progress = {}
  BY <1>4, <1>5, <1>6 DEF SerialInv, Flow, RendersOne
<1>8. \A k \in DOMAIN server_in : server_in[k].kind # "event"
  BY <1>4, <1>6 DEF SerialInv, Flow, EventsOf
<1>9. ~SpeakWaits
  <2>1. TerminateRequest.method # "SPEAK"
    BY DEF TerminateRequest
  <2>2. \A k \in DOMAIN request_queue : request_queue[k] # TerminateRequest =>
           request_queue[k].id \in Ids /\ view[request_queue[k].id] = "sent"
    BY <1>1, KnownIs DEF ViewInv
  <2> QED
    BY <2>1, <2>2 DEF SpeakWaits
<1> QED
  BY <1>3, <1>4, <1>7, <1>8, <1>9

(* A request or a termination of the session arrives.                      *)
LEMMA ArrivalIs ==
    ASSUME ChannelTypeOK, NEW m, SignalingMessageProcess(m), OneWaits,
           m.method = "SPEAK" => ~SpeakWaits
    PROVE  OneWaits' /\ (SpeakWaits' => SpeakWaits \/ m.method = "SPEAK")
<1>1. ~nested /\ request_queue \in Seq(Request)
  BY DEF SignalingMessageProcess, Busy, ChannelTypeOK
<1>2. CASE session_request # NoRequest
  <2>1. request_queue' = Append(request_queue, m) /\ UNCHANGED <<session_request, nested>>
    BY <1>2 DEF SignalingMessageProcess
  <2>2. PICK q, r : q = request_queue /\ r = request_queue'
    OBVIOUS
  <2>3. /\ DOMAIN q \subseteq DOMAIN r /\ \A k \in DOMAIN q : r[k] = q[k]
        /\ r[Len(r)] = m
        /\ \A k \in DOMAIN r : k \in DOMAIN q \/ k = Len(r)
    BY <1>1, <2>1, <2>2
  <2>4. \A k, l \in DOMAIN r : r[k].method = "SPEAK" /\ r[l].method = "SPEAK" => k = l
    <3>1. \A k, l \in DOMAIN q : q[k].method = "SPEAK" /\ q[l].method = "SPEAK" => k = l
      BY <2>2 DEF OneWaits
    <3>2. m.method = "SPEAK" => \A k \in DOMAIN q : q[k].method # "SPEAK"
      BY <2>2 DEF SpeakWaits
    <3> QED
      BY <2>3, <3>1, <3>2
  <2>5. OneWaits'
    BY <1>1, <2>1, <2>2, <2>4 DEF OneWaits
  <2>6. SpeakWaits' => SpeakWaits \/ m.method = "SPEAK"
    BY <1>1, <2>1, <2>2, <2>3 DEF SpeakWaits
  <2> QED
    BY <2>5, <2>6
<1>3. CASE session_request = NoRequest
  <2>1. session_request' = m /\ request_queue' = request_queue
    BY <1>3 DEF SignalingMessageProcess
  <2>2. OneWaits'
    BY <2>1 DEF OneWaits, SpeakWaits
  <2>3. SpeakWaits' => SpeakWaits \/ m.method = "SPEAK"
    BY <2>1 DEF SpeakWaits
  <2> QED
    BY <2>2, <2>3
<1> QED
  BY <1>2, <1>3

(* The client and the termination of the session.                          *)
LEMMA SerialClient ==
    ASSUME ~Pipelined, ExchangeInv, SerialInv, Client
    PROVE  SerialInv'
<1>1. PICK m : /\ SignalingMessageProcess(m)
               /\ m.method = "SPEAK" => \A i \in Ids : view[i] \in {"unsent", "COMPLETE"}
  <2>1. CASE ClientTerminate
    BY <2>1 DEF ClientTerminate, TerminateRequest
  <2>2. ASSUME NEW method, NEW sel, NEW kill, ClientRequest(method, sel, kill)
        PROVE  \E m : /\ SignalingMessageProcess(m)
                      /\ m.method = "SPEAK" => \A i \in Ids : view[i] \in {"unsent", "COMPLETE"}
    <3>1. PICK m : /\ m = [id |-> next_id, method |-> method, sel |-> sel, kill |-> kill]
                   /\ SignalingMessageProcess(m)
      BY <2>2 DEF ClientRequest
    <3>2. method = "SPEAK" => \A i \in Ids : view[i] \in {"unsent", "COMPLETE"}
      BY <2>2 DEF ClientRequest, Starting
    <3>3. m.method = method
      BY <3>1
    <3> QED
      BY <3>1, <3>2, <3>3
  <2> QED
    BY <2>1, <2>2 DEF Client, ChannelClient
<1>2. /\ UNCHANGED <<active, is_pending, active_request, queue, deferred, speaker>>
      /\ UNCHANGED <<engine_in, in_progress, server_in>> /\ ~nested
  BY <1>1 DEF SignalingMessageProcess, machine_vars, engine_vars, Client, sm_vars, Busy
<1>3. NoneWaits' /\ Flow(server_in, speaker, active_request, in_progress)'
  BY <1>2 DEF SerialInv, NoneWaits
<1>4. OneOut'
  <2>1. Out' = Out
    BY <1>2 DEF Out, Answers
  <2> QED
    BY <1>2, <2>1 DEF SerialInv, OneOut
<1>5. ASSUME active PROVE OneWaits /\ (SpeakWaits => speaker = NoRequest /\ in_progress = {}
              /\ active_request.method # "SPEAK"
              /\ \A k \in DOMAIN server_in : server_in[k].kind # "event")
  BY <1>5 DEF SerialInv, Alone
<1>6. ASSUME active, m.method = "SPEAK"
      PROVE  /\ ~SpeakWaits /\ speaker = NoRequest /\ in_progress = {}
             /\ active_request.method # "SPEAK"
             /\ \A k \in DOMAIN server_in : server_in[k].kind # "event"
  BY <1>1, <1>2, <1>6, QuietIs DEF NoRequest
<1>7. ASSUME active PROVE OneWaits' /\ (SpeakWaits' => SpeakWaits \/ m.method = "SPEAK")
  BY <1>1, <1>5, <1>6, <1>7, ArrivalIs DEF ExchangeInv, SynthInv, ChannelInv
<1>8. Alone'
  BY <1>2, <1>5, <1>6, <1>7 DEF Alone
<1> QED
  BY <1>3, <1>4, <1>8 DEF SerialInv


(* The engine sends a message that fits what is in flight.                 *)
LEMMA SerialSent ==
    ASSUME SerialInv, NEW m \in EngineMessage, NEW s \in Seq(EngineMessage), NEW t,
           s = server_in, t = server_in', t = Append(s, m),
           UNCHANGED <<active, is_pending, active_request, queue, deferred, speaker>>,
           UNCHANGED <<nested, session_request, request_queue>>,
           engine_in' \subseteq engine_in, Out' = Out,
           m.kind = "response" => m.id = active_request.id,
           Flow(t, speaker, active_request, in_progress'),
           active /\ SpeakWaits => in_progress' = {} /\ m.kind # "event"
    PROVE  SerialInv'
<1>1. \A k \in DOMAIN t : t[k] = m \/ (k \in DOMAIN s /\ t[k] = s[k])
  BY AppendIs
<1>2. NoneWaits' /\ Flow(server_in, speaker, active_request, in_progress)'
  BY DEF SerialInv, NoneWaits
<1>3. OneOut'
  BY <1>1 DEF SerialInv, OneOut
<1>4. Alone'
  <2>1. (SpeakWaits' <=> SpeakWaits) /\ (OneWaits' <=> OneWaits)
    BY DEF SpeakWaits, OneWaits
  <2> QED
    BY <1>1, <2>1 DEF SerialInv, Alone
<1> QED
  BY <1>2, <1>3, <1>4 DEF SerialInv

(* The steps of the engine.                                                *)
LEMMA SerialEngine ==
    ASSUME ExchangeInv, SerialInv, Engine
    PROVE  SerialInv'
<1>1. /\ ChannelTypeOK /\ Flight
      /\ UNCHANGED <<active, is_pending, active_request, queue, deferred, speaker>>
      /\ UNCHANGED <<nested, session_request, request_queue>>
  BY DEF ExchangeInv, SynthInv, ChannelInv, Engine, sm_vars, EngineAnswer, EngineComplete,
     EngineMarker, EngineRespond, EngineFinish, EngineMark, machine_vars, session_vars,
     stack_vars
<1>2. Out' = Out
  BY <1>1, EngineFlight DEF Engine
<1>3. PICK s, t : s = server_in /\ t = server_in'
  OBVIOUS
<1>4. /\ s \in Seq(EngineMessage) /\ Flow(s, speaker, active_request, in_progress)
      /\ NoRequest \notin in_progress
      /\ \A k \in DOMAIN s : Starts(s[k]) => active_request.method = "SPEAK"
  BY <1>1, <1>3, SerialIs DEF ChannelTypeOK, SerialInv
<1>5. /\ \A r \in in_progress : r.method = "SPEAK" /\ r.id \in Nat
      /\ \A r \in engine_in : r.method \in SynthMethods /\ r.method \in Methods /\ r.id \in Nat
  <2>1. \A r \in in_progress : r \in Request
    BY <1>1 DEF ChannelTypeOK
  <2>2. \A r \in engine_in : r \in Request /\ r.method \in Methods
    BY <1>1 DEF ChannelTypeOK, MrcpRequest
  <2>3. \A r \in Request : r.id \in Nat
    BY DEF Request
  <2> QED
    BY <2>1, <2>2, <2>3 DEF ExchangeInv, OnlySynth
<1>6. active /\ SpeakWaits => in_progress = {} /\ active_request.method # "SPEAK"
  BY DEF SerialInv, Alone
<1>7. CASE EngineAnswer
  <2>1. PICK r \in engine_in, reply \in Replies : EngineRespond(r, reply)
    BY <1>7 DEF EngineAnswer
  <2>2. r = active_request /\ NoAnswers(s)
    BY <1>3, SerialIs
  <2>3. PICK m : m = [kind |-> "response", id |-> r.id, method |-> r.method, reply |-> reply]
    OBVIOUS
  <2>4. m \in EngineMessage
    BY <1>5, <2>3 DEF EngineMessage
  <2>5. /\ m.kind = "response" /\ m.id = r.id /\ m.method = r.method /\ m.reply = reply
    BY <2>3
  <2>6. t = Append(s, m) /\ engine_in' \subseteq engine_in
    BY <1>3, <2>1, <2>3 DEF EngineRespond, EngineSend
  <2>7. reply = "IN-PROGRESS" => r.method = "SPEAK"
    BY <1>5, <2>1 DEF EngineRespond, Starting, SynthMethods
  <2>8. /\ r.method # "SPEAK-COMPLETE" /\ "SPEAK" \notin Stopping
    BY <1>5 DEF SynthMethods, Stopping
  <2>9. Flow(t, speaker, active_request, in_progress')
    <3>1. CASE reply = "IN-PROGRESS"
      <4>1. in_progress' = in_progress \cup {active_request}
        BY <2>1, <2>2, <3>1 DEF EngineRespond
      <4>2. Starts(m) /\ active_request.method = "SPEAK"
        BY <2>2, <2>5, <2>7, <3>1 DEF Starts
      <4>3. Flow(t, speaker, active_request, in_progress \cup {active_request})
        BY <1>4, <2>2, <2>4, <2>6, <4>2, FlowStarted
      <4> QED
        BY <4>1, <4>3
    <3>2. CASE reply # "IN-PROGRESS" /\ r.method \in Stopping
      <4>1. in_progress' = {}
        BY <1>5, <2>1, <3>2 DEF EngineRespond
      <4>2. Flow(t, speaker, active_request, {})
        BY <1>4, <2>2, <2>4, <2>5, <2>6, <3>2, FlowStopped
      <4> QED
        BY <4>1, <4>2
    <3>3. CASE reply # "IN-PROGRESS" /\ r.method \notin Stopping
      <4>1. in_progress' = in_progress
        BY <2>1, <3>3 DEF EngineRespond
      <4>2. ~Starts(m) /\ ~Ends(m)
        BY <2>5, <2>8, <3>3 DEF Starts, Ends
      <4>3. Flow(t, speaker, active_request, in_progress)
        BY <1>4, <2>4, <2>5, <2>6, <4>2, FlowAnswered
      <4> QED
        BY <4>1, <4>3
    <3> QED
      BY <3>1, <3>2, <3>3
  <2>10. ASSUME active, SpeakWaits PROVE in_progress' = {}
    BY <1>6, <2>1, <2>2, <2>7, <2>10 DEF EngineRespond
  <2> QED
    BY <1>1, <1>2, <1>3, <1>4, <2>2, <2>4, <2>5, <2>6, <2>9, <2>10, SerialSent
<1>8. ASSUME NEW r \in in_progress, NEW name, EngineEvent(r, name), engine_in' = engine_in,
             \/ name = "SPEAK-COMPLETE" /\ in_progress' = in_progress \ {r}
             \/ name = "SPEECH-MARKER" /\ in_progress' = in_progress
      PROVE  SerialInv'
  <2>1. PICK m : m = [kind |-> "event", id |-> r.id, method |-> name, reply |-> "IN-PROGRESS"]
    OBVIOUS
  <2>2. m \in EngineMessage
    BY <1>5, <1>8, <2>1 DEF EngineMessage, Events
  <2>3. m.kind = "event" /\ m.id = r.id /\ m.method = name
    BY <2>1
  <2>4. t = Append(s, m)
    BY <1>3, <1>8, <2>1 DEF EngineEvent, EngineSend
  <2>5. PICK ip, jp : ip = in_progress /\ jp = in_progress'
    OBVIOUS
  <2>6. \/ m.method = "SPEAK-COMPLETE" /\ jp = ip \ {r}
        \/ m.method = "SPEECH-MARKER" /\ jp = ip
    BY <1>8, <2>3, <2>5
  <2>7. Flow(t, speaker, active_request, jp)
    BY <1>4, <1>8, <2>2, <2>3, <2>4, <2>5, <2>6, FlowRaised
  <2>8. ~(active /\ SpeakWaits)
    BY <1>6, <1>8
  <2> QED
    BY <1>1, <1>2, <1>3, <1>4, <1>8, <2>2, <2>3, <2>4, <2>5, <2>7, <2>8, SerialSent
<1>9. CASE EngineComplete
  <2>1. PICK r \in in_progress : EngineFinish(r)
    BY <1>9 DEF EngineComplete
  <2>2. CompletionEvent(r.method) = "SPEAK-COMPLETE"
    BY <1>5 DEF CompletionEvent
  <2> QED
    BY <1>8, <2>1, <2>2 DEF EngineFinish
<1>10. CASE EngineMarker
  <2>1. PICK r \in in_progress : EngineMark(r)
    BY <1>10 DEF EngineMarker
  <2>2. MarkerEvent(r.method) = "SPEECH-MARKER"
    BY <1>5 DEF MarkerEvent
  <2> QED
    BY <1>8, <2>1, <2>2 DEF EngineMark
<1> QED
  BY <1>7, <1>9, <1>10 DEF Engine

(* A NULL dereference is the end.                                          *)
LEMMA CrashStays ==
    ASSUME crashed, [Next]_vars
    PROVE  crashed'
<1>1. Busy
  BY DEF Busy
<1>2. ~ServerTask \/ crashed' = crashed
  BY <1>1 DEF ServerTask, SessionDeactivate, DeactivateChannel, SynthRequest,
     synth_request_params, synth_request_speak, synth_request_stop,
     synth_request_pause, synth_request_resume, synth_request_barge_in_occurred,
     synth_request_control, synth_request_define_lexicon, ForwardOrRespond, StartOrQueue,
     StopOrRemove, DispatchAndReturn, RespondAndReturn, SynthResponse, UnexpectedResponse,
     IgnoreResponse, synth_response_plain, synth_response_speak, synth_response_stop,
     SynthDeferred, DispatchDeferred, synth_response_pause, synth_response_resume,
     synth_response_barge_in_occurred, synth_response_control, ResponseTo,
     TakeEngineMessage, SynthEvent, synth_event_speech_marker, synth_event_speak_complete,
     EventNamed, stack_vars
<1>3. CASE Client
  BY <1>1, <1>3 DEF Client, ChannelClient, ClientRequest, ClientTerminate,
     SignalingMessageProcess
<1>4. CASE Engine
  BY <1>4 DEF Engine, EngineAnswer, EngineComplete, EngineMarker, EngineRespond,
     EngineFinish, EngineMark, stack_vars
<1>5. CASE UNCHANGED vars
  BY <1>5 DEF vars, channel_vars, stack_vars
<1> QED
  BY <1>2, <1>3, <1>4, <1>5 DEF Next

(* It holds initially.                                                     *)
LEMMA InitSerial == Init => SerialInv
<1> SUFFICES ASSUME Init PROVE SerialInv
  OBVIOUS
<1>1. /\ queue = <<>> /\ deferred = NoRequest /\ is_pending = FALSE /\ engine_in = {}
      /\ active_request = NoRequest /\ in_progress = {} /\ nested = FALSE
      /\ server_in = <<>> /\ request_queue = <<>> /\ speaker = NoRequest
  BY DEF Init, ChannelInit
<1>2. DOMAIN server_in = {} /\ DOMAIN request_queue = {}
  BY <1>1
<1>3. NoneWaits /\ OneOut /\ Alone
  BY <1>1, <1>2 DEF NoneWaits, OneOut, Alone, OneWaits, SpeakWaits
<1>4. Flow(server_in, speaker, active_request, in_progress)
  BY <1>1, <1>2 DEF Flow, RendersOne, EventsOf, NothingAfter, EndIsTold
<1> QED
  BY <1>3, <1>4 DEF SerialInv

(* Every step keeps it, unless a handler dereferences NULL.                *)
LEMMA NextSerial ==
    ASSUME ~Pipelined, ExchangeInv, crashed \/ SerialInv, [Next]_vars
    PROVE  crashed' \/ SerialInv'
<1>1. CASE crashed
  BY <1>1, CrashStays
<1>2. CASE SerialInv
  <2>1. CASE Client
    BY <1>2, <2>1, SerialClient
  <2>2. CASE ServerTask
    BY <1>2, <2>2, SerialNested, SerialResponse, SerialEvent DEF ServerTask
  <2>3. CASE Engine
    BY <1>2, <2>3, SerialEngine
  <2>4. CASE UNCHANGED vars
    <3>1. /\ UNCHANGED <<active, is_pending, active_request, queue, deferred, speaker>>
          /\ UNCHANGED <<engine_in, in_progress, server_in>>
          /\ UNCHANGED <<nested, session_request, request_queue>>
      BY <2>4 DEF vars, channel_vars, machine_vars, session_vars, stack_vars, engine_vars,
         sm_vars
    <3>2. NoneWaits' /\ Flow(server_in, speaker, active_request, in_progress)'
      BY <1>2, <3>1 DEF SerialInv, NoneWaits
    <3>3. OneOut'
      BY <1>2, <3>1 DEF SerialInv, OneOut, Out, Answers
    <3>4. Alone'
      BY <1>2, <3>1 DEF SerialInv, Alone, OneWaits, SpeakWaits
    <3> QED
      BY <3>2, <3>3, <3>4 DEF SerialInv
  <2> QED
    BY <2>1, <2>2, <2>3, <2>4 DEF Next
<1> QED
  BY <1>1, <1>2

(* The engine and the state machine of a client that starts a SPEAK only   *)
(* when all before it has ended agree whenever nothing is in flight: no    *)
(* SPEAK that the engine renders is forgotten (synth_response_stop,        *)
(* synth_event_speak_complete), and none that has ended stays the speaker, *)
(* in whatever order STOP, BARGE-IN-OCCURRED and SPEAK-COMPLETE cross.     *)
THEOREM SerialEngineAgrees == ASSUME ~Pipelined PROVE Spec => []EngineAgrees
<1>1. Init => ExchangeInv /\ (crashed \/ SerialInv)
  BY InitExchangeInv, InitSerial
<1>2. ExchangeInv /\ (crashed \/ SerialInv) /\ [Next]_vars
         => ExchangeInv' /\ (crashed' \/ SerialInv')
  BY NextExchangeInv, NextSerial
<1>3. ExchangeInv /\ (crashed \/ SerialInv) => EngineAgrees
  <2> SUFFICES ASSUME ExchangeInv, SerialInv, ~Busy, engine_in = {}, server_in = <<>>
               PROVE  in_progress = IF speaker = NoRequest THEN {} ELSE {speaker}
    BY DEF EngineAgrees, Busy
  <2>1. DOMAIN server_in = {}
    OBVIOUS
  <2>2. Out = {}
    BY <2>1 DEF Out, Answers
  <2>3. active_request = NoRequest /\ active_request.method \notin Stopping
    BY <2>2 DEF SerialInv, OneOut, NoRequest, Stopping
  <2>4. \A r \in in_progress : r = speaker
    BY <2>1 DEF SerialInv, Flow, RendersOne
  <2>5. speaker # NoRequest => in_progress # {}
    BY <2>1, <2>3 DEF SerialInv, Flow, EndIsTold
  <2>6. NoRequest \notin in_progress
    BY SerialIs
  <2> QED
    BY <2>4, <2>5, <2>6
<1>4. ExchangeInv /\ (crashed \/ SerialInv) /\ [Next]_vars
         => (ExchangeInv /\ (crashed \/ SerialInv))'
  BY <1>2
<1> QED
  BY <1>1, <1>3, <1>4, PTL DEF Spec
=============================================================================
