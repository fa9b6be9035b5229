------------------------ MODULE VerifierStateMachine ------------------------
(***************************************************************************)
(* A verifier channel: the verifier state machine                          *)
(* (libs/mrcp-engine/src/mrcp_verifier_state_machine.c) between the        *)
(* session and any verifier engine of MrcpChannel.  VERIFY belongs between *)
(* START-SESSION and END-SESSION and is rejected, never queued, while one  *)
(* is in progress.                                                         *)
(***************************************************************************)
EXTENDS MrcpChannel

VARIABLES
    state,      \* IDLE, OPENED or VERIFYING
    verify      \* last VERIFY sent to the engine, kept until IDLE

sm_vars == <<state, verify>>
vars == <<channel_vars, sm_vars>>

Init ==
    /\ ChannelInit
    /\ state = "IDLE"
    /\ verify = NoRequest

Client == ChannelClient /\ UNCHANGED sm_vars

(* verifier_state_deactivate                                               *)
SessionDeactivate ==
    /\ DeactivateChannel(IF state = "VERIFYING" THEN verify ELSE NoRequest)
    /\ UNCHANGED sm_vars

-----------------------------------------------------------------------------
(* Requests from the client: the states in which each goes to the engine;  *)
(* in the others it is answered at once.                                   *)

ForwardIf(methods, states) ==
    /\ \E method \in methods : Handling(method)
    /\ ForwardOrRespond(state \in states)
    /\ UNCHANGED sm_vars

verifier_request_plain ==
    ForwardIf({"SET-PARAMS", "GET-PARAMS", "VERIFY-ROLLBACK", "CLEAR-BUFFER"},
              {"IDLE", "OPENED", "VERIFYING"})
StartSessionAlways ==    \* defect: also in the middle of a verification
    ForwardIf({"START-SESSION"}, {"IDLE", "OPENED", "VERIFYING"})
verifier_request_start_session == ForwardIf({"START-SESSION"}, {"IDLE", "OPENED"})
verifier_request_end_session == ForwardIf({"END-SESSION"}, {"OPENED", "VERIFYING"})
verifier_request_voiceprint ==
    ForwardIf({"QUERY-VOICEPRINT", "DELETE-VOICEPRINT"}, {"OPENED", "VERIFYING"})
verifier_request_start_input_timers == ForwardIf({"START-INPUT-TIMERS"}, {"OPENED"})
verifier_request_get_intermidiate_result ==
    ForwardIf({"GET-INTERMEDIATE-RESULT"}, {"VERIFYING"})
verifier_request_stop == ForwardIf({"STOP"}, {"VERIFYING"})

VerifyMethods == {"VERIFY", "VERIFY-FROM-BUFFER"}
verifier_request_verify ==
    /\ \E method \in VerifyMethods : Handling(method)
    /\ ForwardOrRespond(state = "OPENED")
    /\ verify' = IF state = "OPENED" THEN session_request ELSE verify
    /\ UNCHANGED state

VerifierRequest ==
    \/ verifier_request_plain
    \/ verifier_request_start_session
    \/ verifier_request_end_session
    \/ verifier_request_voiceprint
    \/ verifier_request_start_input_timers
    \/ verifier_request_get_intermidiate_result
    \/ verifier_request_stop
    \/ verifier_request_verify

-----------------------------------------------------------------------------
(* Responses from the engine.  Whether it refused is not looked at.        *)

UnexpectedResponse == IgnoreResponse /\ UNCHANGED sm_vars

verifier_response_plain ==
    /\ ResponseTo({"SET-PARAMS", "GET-PARAMS", "VERIFY-ROLLBACK", "CLEAR-BUFFER",
                   "QUERY-VOICEPRINT", "DELETE-VOICEPRINT", "START-INPUT-TIMERS",
                   "GET-INTERMEDIATE-RESULT"})
    /\ PassOn("COMPLETE")
    /\ UNCHANGED sm_vars

verifier_response_start_session ==
    /\ ResponseTo({"START-SESSION"})
    /\ PassOn("COMPLETE")
    /\ state' = "OPENED"
    /\ UNCHANGED verify

verifier_response_end_session ==
    /\ ResponseTo({"END-SESSION"})
    /\ PassOn("COMPLETE")
    /\ state' = "IDLE" /\ verify' = NoRequest

verifier_response_verify ==
    /\ ResponseTo(VerifyMethods)
    /\ PassOn(StartedState)
    /\ state' = "VERIFYING"
    /\ UNCHANGED verify

verifier_response_stop ==
    /\ ResponseTo({"STOP"})
    /\ IF verify = NoRequest
       THEN NullDereference /\ UNCHANGED sm_vars
       ELSE /\ state' = "OPENED"
            /\ response_dispatch(Received.id, "COMPLETE", {verify.id})
            /\ UNCHANGED <<active, is_pending, queue, deferred, crashed, verify>>

VerifierResponse ==
    \/ UnexpectedResponse
    \/ verifier_response_plain
    \/ verifier_response_start_session
    \/ verifier_response_end_session
    \/ verifier_response_verify
    \/ verifier_response_stop

-----------------------------------------------------------------------------
(* Events from the engine.                                                 *)

EventOfVerify == verify # NoRequest /\ verify.id = Received.id

verifier_event_start_of_input ==
    /\ EventNamed("START-OF-INPUT")
    /\ TellClient(EventOfVerify, "IN-PROGRESS")
    /\ UNCHANGED sm_vars

(* VERIFICATION-COMPLETE is ignored while STOP waits for its response.     *)
StopInProgress == active_request.method = "STOP"

verifier_event_verification_complete ==
    /\ EventNamed("VERIFICATION-COMPLETE")
    /\ IF EventOfVerify /\ ~StopInProgress
       THEN TellClient(TRUE, "COMPLETE") /\ state' = "OPENED"
       ELSE TellClient(FALSE, "COMPLETE") /\ UNCHANGED state
    /\ UNCHANGED verify

VerifierEvent == verifier_event_start_of_input \/ verifier_event_verification_complete

-----------------------------------------------------------------------------
ServerTask == SessionDeactivate \/ VerifierRequest \/ VerifierResponse \/ VerifierEvent

Engine == (EngineAnswer \/ EngineComplete \/ EngineMarker) /\ UNCHANGED sm_vars

Next == Client \/ ServerTask \/ Engine

-----------------------------------------------------------------------------
(* A verification the engine still works on is one the verifier is in, or  *)
(* one that an END-SESSION left behind: once nothing is in flight, no      *)
(* completion or STOP has taken the machine out of VERIFYING too early     *)
(* (mrcp_verifier_state_machine.c 186, 251 and 319).                       *)
VerifierAgrees ==
    /\ state = "IDLE" => verify = NoRequest
    /\ state = "VERIFYING" => verify # NoRequest
    /\ ~Busy /\ engine_in = {} /\ server_in = <<>> /\ verify \in in_progress
          => state = "VERIFYING" /\ (active => view[verify.id] = "IN-PROGRESS")

(* While STOP waits for the engine its verification stays the one of the   *)
(* machine, so the response handler finds it                               *)
(* (mrcp_verifier_state_machine.c 255).                                    *)
StopFindsVerify == active_request.method = "STOP" => state = "VERIFYING"
=============================================================================
