------------------------ MODULE RecorderStateMachine ------------------------
(***************************************************************************)
(* A recorder channel: the recorder state machine                          *)
(* (libs/mrcp-engine/src/mrcp_recorder_state_machine.c) between the        *)
(* session and any recorder engine of MrcpChannel.  It rejects a second    *)
(* RECORD instead of queueing it; the active-request-id-list of STOP is    *)
(* not looked at.                                                          *)
(***************************************************************************)
EXTENDS MrcpChannel

VARIABLES
    state,      \* IDLE or RECORDING
    record      \* in-progress RECORD request

sm_vars == <<state, record>>
vars == <<channel_vars, sm_vars>>

(* recorder_state_change: IDLE resets the request.                         *)
BecomeIdle == state' = "IDLE" /\ record' = NoRequest

Init ==
    /\ ChannelInit
    /\ state = "IDLE"
    /\ record = NoRequest

Client == ChannelClient /\ UNCHANGED sm_vars

(* recorder_state_deactivate                                               *)
SessionDeactivate ==
    /\ DeactivateChannel(IF state = "RECORDING" THEN record ELSE NoRequest)
    /\ UNCHANGED sm_vars

-----------------------------------------------------------------------------
(* Requests from the client.                                               *)

recorder_request_params ==
    /\ Handling("SET-PARAMS") \/ Handling("GET-PARAMS")
    /\ ForwardOrRespond(TRUE)
    /\ UNCHANGED sm_vars

recorder_request_record ==
    /\ Handling("RECORD")
    /\ ForwardOrRespond(state # "RECORDING")
    /\ UNCHANGED sm_vars

recorder_request_stop ==
    /\ Handling("STOP")
    /\ ForwardOrRespond(state = "RECORDING")
    /\ UNCHANGED sm_vars

recorder_request_start_timers ==
    /\ Handling("START-INPUT-TIMERS")
    /\ ForwardOrRespond(state = "RECORDING")
    /\ UNCHANGED sm_vars

RecorderRequest ==
    \/ recorder_request_params
    \/ recorder_request_record
    \/ recorder_request_stop
    \/ recorder_request_start_timers

-----------------------------------------------------------------------------
(* Responses from the engine.                                              *)

UnexpectedResponse == IgnoreResponse /\ UNCHANGED sm_vars

recorder_response_plain ==
    /\ ResponseTo({"SET-PARAMS", "GET-PARAMS", "START-INPUT-TIMERS"})
    /\ PassOn("COMPLETE")
    /\ UNCHANGED sm_vars

RecordAlwaysStarts ==    \* defect: a refused RECORD is taken to be in progress
    /\ ResponseTo({"RECORD"})
    /\ record' = active_request /\ state' = "RECORDING"
    /\ PassOn(StartedState)
recorder_response_record ==
    /\ ResponseTo({"RECORD"})
    /\ IF Received.reply = "IN-PROGRESS"
       THEN record' = active_request /\ state' = "RECORDING"
       ELSE UNCHANGED sm_vars
    /\ PassOn(StartedState)

recorder_response_stop ==
    /\ ResponseTo({"STOP"})
    /\ IF record = NoRequest
       THEN NullDereference /\ UNCHANGED sm_vars
       ELSE /\ BecomeIdle
            /\ response_dispatch(Received.id, "COMPLETE", {record.id})
            /\ UNCHANGED <<active, is_pending, queue, deferred, crashed>>

RecorderResponse ==
    \/ UnexpectedResponse
    \/ recorder_response_plain
    \/ recorder_response_record
    \/ recorder_response_stop

-----------------------------------------------------------------------------
(* Events from the engine.                                                 *)

EventOfRecord == record # NoRequest /\ record.id = Received.id

recorder_event_start_of_input ==
    /\ EventNamed("START-OF-INPUT")
    /\ TellClient(EventOfRecord, "IN-PROGRESS")
    /\ UNCHANGED sm_vars

(* RECORD-COMPLETE is ignored while STOP waits for its response.           *)
NeverIgnored == FALSE    \* defect: it is not
StopInProgress == active_request.method = "STOP"

recorder_event_record_complete ==
    /\ EventNamed("RECORD-COMPLETE")
    /\ IF EventOfRecord /\ ~StopInProgress
       THEN TellClient(TRUE, "COMPLETE") /\ BecomeIdle
       ELSE TellClient(FALSE, "COMPLETE") /\ UNCHANGED sm_vars

RecorderEvent == recorder_event_start_of_input \/ recorder_event_record_complete

-----------------------------------------------------------------------------
ServerTask == SessionDeactivate \/ RecorderRequest \/ RecorderResponse \/ RecorderEvent

Engine == (EngineAnswer \/ EngineComplete \/ EngineMarker) /\ UNCHANGED sm_vars

Next == Client \/ ServerTask \/ Engine

-----------------------------------------------------------------------------
(* The recorder, its client and its engine agree: a recording in progress  *)
(* is one the client has not been told the end of, and once nothing is in  *)
(* flight the engine works on exactly that recording, although a refused   *)
(* RECORD, a completion that crosses a STOP and a deactivation all leave   *)
(* by other paths (mrcp_recorder_state_machine.c 133, 155 and 200).        *)
RecorderAgrees ==
    /\ state = "RECORDING" <=> record # NoRequest
    /\ active /\ state = "RECORDING" => view[record.id] # "COMPLETE"
    /\ ~Busy /\ engine_in = {} /\ server_in = <<>> =>
          in_progress = IF state = "RECORDING" THEN {record} ELSE {}

(* While STOP waits for the engine its recording stays in progress, so the *)
(* response handler finds it (mrcp_recorder_state_machine.c 159).          *)
StopFindsRecord == active_request.method = "STOP" => state = "RECORDING"
=============================================================================
