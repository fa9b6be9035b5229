-------------------------- MODULE RecogStateMachine --------------------------
(***************************************************************************)
(* A recognizer channel: the recognizer state machine                      *)
(* (libs/mrcp-engine/src/mrcp_recog_state_machine.c) between the session   *)
(* and any recognizer engine of MrcpChannel.  Line numbers in the comments *)
(* are those of that file.                                                 *)
(***************************************************************************)
EXTENDS MrcpChannel

ASSUME RecogMethodsAssumption == ClientMethods \subseteq RecogMethods

VARIABLES
    state,      \* IDLE, RECOGNIZING or RECOGNIZED
    recog       \* in-progress RECOGNIZE request, kept until IDLE

sm_vars == <<state, recog>>
vars == <<channel_vars, sm_vars>>

(* recog_state_change: IDLE resets the request.                            *)
BecomeIdle == state' = "IDLE" /\ recog' = NoRequest

(* RECOGNIZED: a new grammar or a STOP discards the result.                *)
DiscardResult ==
    IF state = "RECOGNIZED" THEN BecomeIdle ELSE UNCHANGED sm_vars

Init ==
    /\ ChannelInit
    /\ state = "IDLE"
    /\ recog = NoRequest

Client == ChannelClient /\ UNCHANGED sm_vars

(* recog_state_deactivate                                                  *)
SessionDeactivate ==
    /\ DeactivateChannel(IF state = "RECOGNIZING" THEN recog ELSE NoRequest)
    /\ UNCHANGED sm_vars

-----------------------------------------------------------------------------
(* Requests from the client.                                               *)

recog_request_params ==
    /\ Handling("SET-PARAMS") \/ Handling("GET-PARAMS")
    /\ ForwardOrRespond(TRUE)
    /\ UNCHANGED sm_vars

recog_request_define_grammar ==
    /\ Handling("DEFINE-GRAMMAR")
    /\ ForwardOrRespond(state # "RECOGNIZING")
    /\ DiscardResult

recog_request_recognize ==
    /\ Handling("RECOGNIZE")
    /\ StartOrQueue(state = "RECOGNIZING")
    /\ UNCHANGED sm_vars

recog_request_interpret ==
    /\ Handling("INTERPRET")
    /\ ForwardOrRespond(TRUE)
    /\ UNCHANGED sm_vars

recog_request_get_result ==
    /\ Handling("GET-RESULT")
    /\ ForwardOrRespond(state = "RECOGNIZED")
    /\ UNCHANGED sm_vars

recog_request_recognition_start_timers ==
    /\ Handling("START-INPUT-TIMERS")
    /\ ForwardOrRespond(state = "RECOGNIZING")
    /\ UNCHANGED sm_vars

StopUnlessRecognized ==    \* defect: IDLE is taken for RECOGNIZING
    /\ Handling("STOP")
    /\ StopOrRemove(state # "RECOGNIZED" /\ Selects(session_request, recog))
    /\ DiscardResult
recog_request_stop ==
    /\ Handling("STOP")
    /\ StopOrRemove(state = "RECOGNIZING" /\ Selects(session_request, recog))
    /\ DiscardResult

RecogRequest ==
    \/ recog_request_params
    \/ recog_request_define_grammar
    \/ recog_request_recognize
    \/ recog_request_interpret
    \/ recog_request_get_result
    \/ recog_request_recognition_start_timers
    \/ recog_request_stop

-----------------------------------------------------------------------------
(* Responses from the engine.                                              *)

UnexpectedResponse == IgnoreResponse /\ UNCHANGED sm_vars

recog_response_plain ==
    /\ ResponseTo({"SET-PARAMS", "GET-PARAMS", "DEFINE-GRAMMAR", "GET-RESULT",
                   "START-INPUT-TIMERS"})
    /\ PassOn("COMPLETE")
    /\ UNCHANGED sm_vars

(* A RECOGNIZE taken from the queue was answered PENDING: no response goes *)
(* to its client, and it stays the active request.                         *)
recog_response_recognize ==
    /\ ResponseTo({"RECOGNIZE"})
    /\ IF Received.reply = "IN-PROGRESS"
       THEN recog' = active_request /\ state' = "RECOGNIZING"
       ELSE UNCHANGED sm_vars
    /\ IF is_pending
       THEN /\ is_pending' = FALSE
            /\ UNCHANGED <<active, active_request, queue, session_vars, stack_vars,
                           client_vars>>
       ELSE PassOn(StartedState)

recog_response_interpret ==
    /\ ResponseTo({"INTERPRET"})
    /\ PassOn(StartedState)
    /\ UNCHANGED sm_vars

recog_response_stop ==
    /\ ResponseTo({"STOP"})
    /\ IF recog = NoRequest
       THEN NullDereference /\ UNCHANGED sm_vars
       ELSE EndByStop(recog) /\ BecomeIdle

RecogDeferred == DispatchDeferred /\ UNCHANGED sm_vars

RecogResponse ==
    \/ UnexpectedResponse
    \/ recog_response_plain
    \/ recog_response_recognize
    \/ recog_response_interpret
    \/ recog_response_stop
    \/ RecogDeferred

-----------------------------------------------------------------------------
(* Events from the engine.                                                 *)

EventOfRecog == recog # NoRequest /\ recog.id = Received.id

recog_event_start_of_input ==
    /\ EventNamed("START-OF-INPUT")
    /\ TellClient(EventOfRecog, "IN-PROGRESS")
    /\ UNCHANGED sm_vars

(* RECOGNITION-COMPLETE is ignored while STOP waits for its response.      *)
AnyInProgress == active_request # NoRequest    \* defect: whatever waits
NoneInProgress == FALSE                        \* defect: never ignored
StopInProgress == active_request.method = "STOP"

recog_event_recognition_complete ==
    /\ EventNamed("RECOGNITION-COMPLETE")
    /\ IF EventOfRecog /\ ~StopInProgress
       THEN /\ CompleteAndNext
            /\ state' = "RECOGNIZED"
            /\ UNCHANGED recog
       ELSE TellClient(FALSE, "COMPLETE") /\ UNCHANGED sm_vars

recog_event_interpretation_complete ==
    /\ EventNamed("INTERPRETATION-COMPLETE")
    /\ TellClient(TRUE, "COMPLETE")
    /\ UNCHANGED sm_vars

RecogEvent ==
    \/ recog_event_start_of_input
    \/ recog_event_recognition_complete
    \/ recog_event_interpretation_complete

-----------------------------------------------------------------------------
ServerTask == SessionDeactivate \/ RecogRequest \/ RecogResponse \/ RecogEvent

Engine == (EngineAnswer \/ EngineComplete \/ EngineMarker) /\ UNCHANGED sm_vars

Next == Client \/ ServerTask \/ Engine

Spec == Init /\ [][Next]_vars

-----------------------------------------------------------------------------
(* Types: in particular only RECOGNIZE and SPEAK may wait in the queue.    *)
TypeOK ==
    /\ ChannelTypeOK
    /\ state \in {"IDLE", "RECOGNIZING", "RECOGNIZED"}
    /\ recog \in Request

(* What the client believes is what the state machine holds: a recognition *)
(* in progress was not reported ended, one whose result is kept was, and   *)
(* every queued RECOGNIZE (l. 54) is PENDING, in the order of the client.  *)
MachineMatchesClient ==
    /\ state = "IDLE" <=> recog = NoRequest
    /\ active /\ state = "RECOGNIZING" => view[recog.id] # "COMPLETE"
    /\ active /\ state = "RECOGNIZED" => view[recog.id] = "COMPLETE"
    /\ \A k \in DOMAIN queue :
          /\ active => view[queue[k].id] = "PENDING"
          /\ \A l \in DOMAIN queue : k < l => queue[k].id < queue[l].id

(* While STOP waits for the engine its recognition stays in progress:      *)
(* RECOGNITION-COMPLETE is ignored until then (l. 350), so the client is   *)
(* not told twice that it ended and the response handler finds it (l. 299).*)
StopFindsRecognition == active_request.method = "STOP" => state = "RECOGNIZING"

(* A result that is being fetched (l. 192) is not replaced by the pending  *)
(* RECOGNIZE that was sent to the engine when the result came: its         *)
(* response is not expected any more.                                      *)
ResultNotReplaced == active_request.method = "GET-RESULT" => state = "RECOGNIZED"

(* The state machine never waits for a recognition that the engine is not  *)
(* running: once nothing is in flight, a RECOGNIZING channel has its       *)
(* request in the engine, although completions may be ignored (l. 336-355).*)
RecognizingInEngine ==
    state = "RECOGNIZING" /\ ~Busy /\ engine_in = {} /\ server_in = <<>>
        => recog \in in_progress
=============================================================================
