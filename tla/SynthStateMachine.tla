-------------------------- MODULE SynthStateMachine --------------------------
(***************************************************************************)
(* A synthesizer channel: the synthesizer state machine                    *)
(* (libs/mrcp-engine/src/mrcp_synth_state_machine.c) between the session   *)
(* and any synthesizer engine of MrcpChannel.  Line numbers in the         *)
(* comments are those of that file.                                        *)
(***************************************************************************)
EXTENDS MrcpChannel

ASSUME SynthMethodsAssumption == ClientMethods \subseteq SynthMethods

VARIABLES
    state,      \* IDLE, SPEAKING or PAUSED
    speaker     \* in-progress SPEAK request

sm_vars == <<state, speaker>>
vars == <<channel_vars, sm_vars>>

(* synth_state_change: IDLE resets the speaker.                            *)
BecomeIdle == state' = "IDLE" /\ speaker' = NoRequest

Init ==
    /\ ChannelInit
    /\ state = "IDLE"
    /\ speaker = NoRequest

Client == ChannelClient /\ UNCHANGED sm_vars

(* synth_state_deactivate                                                  *)
SessionDeactivate == DeactivateChannel(speaker) /\ UNCHANGED sm_vars

-----------------------------------------------------------------------------
(* Requests from the client.                                               *)

synth_request_params ==
    /\ Handling("SET-PARAMS") \/ Handling("GET-PARAMS")
    /\ ForwardOrRespond(TRUE)
    /\ UNCHANGED sm_vars

synth_request_speak ==
    /\ Handling("SPEAK")
    /\ StartOrQueue(speaker # NoRequest)
    /\ UNCHANGED sm_vars

synth_request_stop ==
    /\ Handling("STOP")
    /\ StopOrRemove(speaker # NoRequest /\ Selects(session_request, speaker))
    /\ UNCHANGED sm_vars

synth_request_pause ==
    /\ Handling("PAUSE")
    /\ ForwardOrRespond(speaker # NoRequest /\ state = "SPEAKING")
    /\ UNCHANGED sm_vars

synth_request_resume ==
    /\ Handling("RESUME")
    /\ ForwardOrRespond(speaker # NoRequest /\ state = "PAUSED")
    /\ UNCHANGED sm_vars

synth_request_barge_in_occurred ==
    /\ Handling("BARGE-IN-OCCURRED")
    /\ ForwardOrRespond(speaker # NoRequest /\ session_request.kill)
    /\ UNCHANGED sm_vars

synth_request_control ==
    /\ Handling("CONTROL")
    /\ ForwardOrRespond(state = "SPEAKING")
    /\ UNCHANGED sm_vars

synth_request_define_lexicon ==
    /\ Handling("DEFINE-LEXICON")
    /\ ForwardOrRespond(state = "IDLE")
    /\ UNCHANGED sm_vars

SynthRequest ==
    \/ synth_request_params
    \/ synth_request_speak
    \/ synth_request_stop
    \/ synth_request_pause
    \/ synth_request_resume
    \/ synth_request_barge_in_occurred
    \/ synth_request_control
    \/ synth_request_define_lexicon

-----------------------------------------------------------------------------
(* Responses from the engine.                                              *)

UnexpectedResponse == IgnoreResponse /\ UNCHANGED sm_vars

synth_response_plain ==
    /\ ResponseTo({"SET-PARAMS", "GET-PARAMS", "DEFINE-LEXICON"})
    /\ PassOn("COMPLETE")
    /\ UNCHANGED sm_vars

(* A SPEAK taken from the queue was answered PENDING: its client is told   *)
(* with SPEECH-MARKER, whatever the engine answered.                       *)
SpeakerAlways ==    \* defect: request_state and is_pending are not looked at
    /\ ResponseTo({"SPEAK"})
    /\ speaker' = active_request /\ state' = "SPEAKING"
    /\ is_pending' = FALSE
    /\ response_dispatch(Received.id, "IN-PROGRESS", {})
    /\ UNCHANGED <<active, queue, deferred, crashed>>
synth_response_speak ==
    /\ ResponseTo({"SPEAK"})
    /\ IF Received.reply = "IN-PROGRESS"
       THEN speaker' = active_request /\ state' = "SPEAKING"
       ELSE UNCHANGED sm_vars
    /\ IF is_pending
       THEN /\ is_pending' = FALSE
            /\ event_dispatch(active_request.id, "IN-PROGRESS")
            /\ UNCHANGED <<active_request, active, queue, session_vars, stack_vars>>
       ELSE PassOn(StartedState)

synth_response_stop ==
    /\ ResponseTo({"STOP"})
    /\ IF speaker = NoRequest
       THEN NullDereference /\ UNCHANGED sm_vars
       ELSE EndByStop(speaker) /\ BecomeIdle

SynthDeferred == DispatchDeferred /\ UNCHANGED sm_vars

(* PAUSE and RESUME: a successful one changes the state.                   *)
PauseOrResume(new) ==
    IF Received.reply # "FAILED" /\ speaker = NoRequest
    THEN NullDereference /\ UNCHANGED sm_vars
    ELSE /\ state' = IF Received.reply # "FAILED" THEN new ELSE state
         /\ PassOn("COMPLETE")
         /\ UNCHANGED speaker

synth_response_pause == ResponseTo({"PAUSE"}) /\ PauseOrResume("PAUSED")

synth_response_resume == ResponseTo({"RESUME"}) /\ PauseOrResume("SPEAKING")

(* The pending requests that are not listed stay in the queue.             *)
synth_response_barge_in_occurred ==
    /\ ResponseTo({"BARGE-IN-OCCURRED"})
    /\ IF speaker = NoRequest
       THEN NullDereference /\ UNCHANGED sm_vars
       ELSE /\ BecomeIdle
            /\ queue' = Remaining(active_request.sel)
            /\ response_dispatch(Received.id, "COMPLETE",
                   {speaker.id} \cup RemovedIds(active_request.sel))
            /\ UNCHANGED <<active, is_pending, deferred, crashed>>

synth_response_control ==
    /\ ResponseTo({"CONTROL"})
    /\ IF speaker = NoRequest THEN NullDereference ELSE PassOn("COMPLETE")
    /\ UNCHANGED sm_vars

SynthResponse ==
    \/ UnexpectedResponse
    \/ synth_response_plain
    \/ synth_response_speak
    \/ synth_response_stop
    \/ SynthDeferred
    \/ synth_response_pause
    \/ synth_response_resume
    \/ synth_response_barge_in_occurred
    \/ synth_response_control

-----------------------------------------------------------------------------
(* Events from the engine.                                                 *)

EventOfSpeaker == speaker # NoRequest /\ speaker.id = Received.id

synth_event_speech_marker ==
    /\ EventNamed("SPEECH-MARKER")
    /\ TellClient(EventOfSpeaker, "IN-PROGRESS")
    /\ UNCHANGED sm_vars

(* SPEAK-COMPLETE is ignored while STOP or BARGE-IN-OCCURRED is answered.  *)
OnlyStopInProgress == active_request.method = "STOP"    \* defect: no barge-in
StopInProgress == active_request.method \in Stopping

synth_event_speak_complete ==
    /\ EventNamed("SPEAK-COMPLETE")
    /\ IF EventOfSpeaker /\ ~StopInProgress
       THEN CompleteAndNext /\ BecomeIdle
       ELSE TellClient(FALSE, "COMPLETE") /\ UNCHANGED sm_vars

SynthEvent == synth_event_speech_marker \/ synth_event_speak_complete

-----------------------------------------------------------------------------
ServerTask == SessionDeactivate \/ SynthRequest \/ SynthResponse \/ SynthEvent

Engine == (EngineAnswer \/ EngineComplete \/ EngineMarker) /\ UNCHANGED sm_vars

Next == Client \/ ServerTask \/ Engine

Spec == Init /\ [][Next]_vars

(* The server task never stops taking messages, an engine answers every    *)
(* request and ends every SPEAK.                                           *)
Fairness ==
    /\ WF_vars(ServerTask)
    /\ WF_vars(EngineAnswer /\ UNCHANGED sm_vars)
    /\ WF_vars(EngineComplete /\ UNCHANGED sm_vars)

FairSpec == Spec /\ Fairness

-----------------------------------------------------------------------------
(* Types: in particular only requests that may wait are in the queue.      *)
TypeOK ==
    /\ ChannelTypeOK
    /\ state \in {"IDLE", "SPEAKING", "PAUSED"}
    /\ speaker \in Request

(* What the client believes is what the state machine holds: the in-       *)
(* progress SPEAK (l. 51) was reported IN-PROGRESS, every queued SPEAK     *)
(* (l. 53) PENDING, in the order the client sent them, and IDLE means that *)
(* there is no speaker (synth_state_change).                               *)
MachineMatchesClient ==
    /\ state = "IDLE" <=> speaker = NoRequest
    /\ active /\ speaker # NoRequest => view[speaker.id] = "IN-PROGRESS"
    /\ \A k \in DOMAIN queue :
          /\ active => view[queue[k].id] = "PENDING"
          /\ \A l \in DOMAIN queue : k < l => queue[k].id < queue[l].id

(* While STOP or BARGE-IN-OCCURRED waits for the engine, the speaker its   *)
(* response handler dereferences (l. 228, 342) is there: SPEAK-COMPLETE is *)
(* ignored until then (l. 421-434) and nothing else ends it.               *)
StopFindsSpeaker == active_request.method \in Stopping => speaker # NoRequest

(* Once nothing is in flight, the engine renders exactly the speaker.      *)
EngineAgrees ==
    ~Busy /\ engine_in = {} /\ server_in = <<>>
        => in_progress = IF speaker = NoRequest THEN {} ELSE {speaker}

=============================================================================
