--------------------------- MODULE DemoSynthEngine ---------------------------
(***************************************************************************)
(* The demo synthesizer plugin (plugins/demo-synth/src/demo_synth_engine.c)*)
(* behind the synthesizer state machine.  Two threads share the fields of  *)
(* demo_synth_channel_t without a lock: the consumer task of the engine,   *)
(* which takes the requests the server task signals to it in order, and    *)
(* the media thread, which calls demo_synth_stream_read every 10 ms.       *)
(*                                                                         *)
(* The module adds the plugin's variables to SynthStateMachine and has its *)
(* two threads in place of the engine of that module; that they keep the   *)
(* contract of that engine is a property (DemoImplementsEngine).           *)
(***************************************************************************)
EXTENDS SynthStateMachine

VARIABLES
    task_in,        \* messages of the consumer task, in order
    speak_request,  \* id of the active SPEAK request (0: none)
    stop_response,  \* the request whose response the media thread sends
    paused,
    task_pc,        \* "idle", "reply" or "set": where the consumer task is
    task_request,   \* request the consumer task handles
    mpf_pc,         \* "idle", "clear" or "send": where the media thread is
    mpf_event       \* id of the SPEAK-COMPLETE event being sent

plugin_vars == <<speak_request, stop_response, paused>>
thread_vars == <<task_pc, task_request, mpf_pc, mpf_event>>
demo_vars == <<vars, task_in, plugin_vars, thread_vars>>

DemoInit ==
    /\ Init
    /\ task_in = <<>>
    /\ speak_request = 0
    /\ stop_response = NoRequest
    /\ paused = FALSE
    /\ task_pc = "idle" /\ task_request = NoRequest
    /\ mpf_pc = "idle" /\ mpf_event = 0

(* demo_synth_msg_signal: what the state machine sends to the engine is    *)
(* signalled to the consumer task.                                         *)
DemoMsgSignal ==
    task_in' = IF \E r \in engine_in' : r \notin engine_in
               THEN Append(task_in, CHOOSE r \in engine_in' : r \notin engine_in)
               ELSE task_in

DemoServerTask ==
    /\ ServerTask
    /\ DemoMsgSignal
    /\ UNCHANGED <<plugin_vars, thread_vars>>

DemoClient == Client /\ UNCHANGED <<task_in, plugin_vars, thread_vars>>

(* mrcp_engine_channel_message_send of a response.                         *)
DemoRespond(r, reply) ==
    /\ EngineSend([kind |-> "response", id |-> r.id, method |-> r.method,
                   reply |-> reply])
    /\ engine_in' = engine_in \ {r}
    /\ UNCHANGED <<machine_vars, sm_vars, session_vars, stack_vars, client_vars>>

-----------------------------------------------------------------------------
(* Consumer task.                                                          *)

(* demo_synth_channel_stop keeps the response for the media thread; PAUSE  *)
(* and RESUME set the flag before they respond.                            *)
DemoRequestDispatch ==
    /\ task_pc = "idle" /\ task_in # <<>>
    /\ LET r == Head(task_in) IN
       /\ IF r.method \in Stopping
          THEN /\ stop_response' = r
               /\ UNCHANGED <<task_pc, task_request>>
          ELSE /\ task_pc' = "reply" /\ task_request' = r
               /\ UNCHANGED stop_response
       /\ paused' = CASE r.method = "PAUSE" -> TRUE
                      [] r.method = "RESUME" -> FALSE
                      [] OTHER -> paused
    /\ task_in' = Tail(task_in)
    /\ UNCHANGED <<vars, speak_request, mpf_pc, mpf_event>>

(* mrcp_engine_channel_message_send of the response: a SPEAK fails without *)
(* a codec descriptor, CONTROL and DEFINE-LEXICON are not handled but      *)
(* answered.                                                               *)
DemoReply ==
    /\ task_pc = "reply"
    /\ \E reply \in (IF task_request.method = "SPEAK" THEN {"FAILED", "IN-PROGRESS"}
                      ELSE {"COMPLETE"}) :
          /\ DemoRespond(task_request, reply)
          /\ in_progress' = IF reply = "IN-PROGRESS" THEN in_progress \cup {task_request}
                            ELSE in_progress
          /\ task_pc' = IF reply = "IN-PROGRESS" THEN "set" ELSE "idle"
    /\ UNCHANGED <<task_in, plugin_vars, task_request, mpf_pc, mpf_event>>

(* The SPEAK becomes active after its response was sent.                   *)
DemoSpeakSet ==
    /\ task_pc = "set"
    /\ speak_request' = task_request.id
    /\ task_pc' = "idle"
    /\ UNCHANGED <<vars, task_in, stop_response, paused, task_request, mpf_pc,
                   mpf_event>>

DemoTask == DemoRequestDispatch \/ DemoReply \/ DemoSpeakSet

-----------------------------------------------------------------------------
(* Media thread: demo_synth_stream_read.                                   *)

StreamReadStop ==
    /\ mpf_pc = "idle" /\ stop_response # NoRequest
    /\ DemoRespond(stop_response, "COMPLETE")
    /\ in_progress' = {}
    /\ mpf_pc' = "clear"
    /\ UNCHANGED <<task_in, plugin_vars, task_pc, task_request, mpf_event>>

(* Only after the response is out are the fields reset; what the other     *)
(* thread writes between two of the three writes is as if before or after. *)
StreamReadClear ==
    /\ mpf_pc = "clear"
    /\ stop_response' = NoRequest
    /\ speak_request' = 0
    /\ paused' = FALSE
    /\ mpf_pc' = "idle"
    /\ UNCHANGED <<vars, task_in, task_pc, task_request, mpf_event>>

(* The speech is over: the event is made and speak_request cleared, ...    *)
CompletedNotCleared ==    \* defect: speak_request is not cleared
    /\ mpf_pc = "idle" /\ stop_response = NoRequest
    /\ speak_request # 0 /\ ~paused
    /\ mpf_event' = speak_request
    /\ mpf_pc' = "send"
    /\ UNCHANGED <<vars, task_in, plugin_vars, task_pc, task_request>>
StreamReadCompleted ==
    /\ mpf_pc = "idle" /\ stop_response = NoRequest
    /\ speak_request # 0 /\ ~paused
    /\ mpf_event' = speak_request
    /\ speak_request' = 0
    /\ mpf_pc' = "send"
    /\ UNCHANGED <<vars, task_in, stop_response, paused, task_pc, task_request>>

(* ... and only then is SPEAK-COMPLETE sent.                               *)
StreamReadEvent ==
    /\ mpf_pc = "send"
    /\ EngineSend([kind |-> "event", id |-> mpf_event, method |-> "SPEAK-COMPLETE",
                   reply |-> "IN-PROGRESS"])
    /\ in_progress' = {r \in in_progress : r.id # mpf_event}
    /\ mpf_pc' = "idle"
    /\ UNCHANGED <<machine_vars, sm_vars, session_vars, stack_vars, client_vars,
                   engine_in>>
    /\ UNCHANGED <<task_in, plugin_vars, task_pc, task_request, mpf_event>>

DemoStreamRead ==
    \/ StreamReadStop \/ StreamReadClear \/ StreamReadCompleted \/ StreamReadEvent

-----------------------------------------------------------------------------
DemoNext == DemoClient \/ DemoServerTask \/ DemoTask \/ DemoStreamRead

(* The three threads are scheduled; speech of finite length ends.          *)
DemoSpec ==
    /\ DemoInit /\ [][DemoNext]_demo_vars
    /\ WF_demo_vars(DemoServerTask)
    /\ WF_demo_vars(DemoTask)
    /\ WF_demo_vars(DemoStreamRead)

-----------------------------------------------------------------------------
(* The plugin keeps the contract of a synthesizer engine: whatever the two *)
(* threads interleave, no request is answered twice, and SPEAK-COMPLETE is *)
(* raised once and only for a SPEAK in progress that was not stopped.      *)
DemoImplementsEngine == Spec

=============================================================================
