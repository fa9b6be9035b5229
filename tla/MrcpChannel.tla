----------------------------- MODULE MrcpChannel -----------------------------
(***************************************************************************)
(* What the server sides of all MRCP channels have in common:              *)
(*                                                                         *)
(*   - the part of the server session that feeds a channel: one control    *)
(*     request of a session is processed at a time, the next one is popped *)
(*     when a response goes to the client                                  *)
(*       (libs/mrcp-server/src/mrcp_server_session.c),                     *)
(*   - the dispatchers and the queue of pending requests that the state    *)
(*     machines of the resources share line by line                        *)
(*       (libs/mrcp-engine/src/mrcp_synth_state_machine.c,                 *)
(*        mrcp_recog_state_machine.c; the recorder and the verifier have   *)
(*        no such queue),                                                  *)
(*   - the contract of an engine: every request is answered                *)
(*     asynchronously, at any later time, and a request in progress raises *)
(*     events until it completes or is stopped (mrcp_engine_types.h).      *)
(*                                                                         *)
(* The state machine and the session run in the server task.  A response   *)
(* to the client makes the session pop and process its next request inside *)
(* the dispatch call, before the handler that responded returns; `nested'  *)
(* and `deferred' are that call stack, and the server task takes no other  *)
(* message while it is non-empty (Busy).                                   *)
(***************************************************************************)
EXTENDS Integers, Sequences, FiniteSets, ObjList

CONSTANTS
    MaxId,          \* bound: number of requests the client ever sends
    ClientMethods,  \* methods the client uses
    EngineMayFail,  \* TRUE: the engine may answer METHOD-FAILED
    Pipelined,      \* TRUE: the client sends SPEAKs and RECOGNIZEs before
                    \* earlier ones end
    MaxInFlight     \* bound: an engine raises no marker beyond that many messages

SynthMethods == {"SET-PARAMS", "GET-PARAMS", "SPEAK", "STOP", "PAUSE", "RESUME",
                 "BARGE-IN-OCCURRED", "CONTROL", "DEFINE-LEXICON"}
RecogMethods == {"SET-PARAMS", "GET-PARAMS", "DEFINE-GRAMMAR", "RECOGNIZE",
                 "INTERPRET", "GET-RESULT", "START-INPUT-TIMERS", "STOP"}
RecorderMethods == {"SET-PARAMS", "GET-PARAMS", "RECORD", "STOP", "START-INPUT-TIMERS"}
VerifierMethods == {"SET-PARAMS", "GET-PARAMS", "START-SESSION", "END-SESSION",
                    "QUERY-VOICEPRINT", "DELETE-VOICEPRINT", "VERIFY",
                    "VERIFY-FROM-BUFFER", "VERIFY-ROLLBACK", "STOP", "CLEAR-BUFFER",
                    "START-INPUT-TIMERS", "GET-INTERMEDIATE-RESULT"}
Methods == SynthMethods \cup RecogMethods \cup RecorderMethods \cup VerifierMethods

(* Requests that stay in progress after their response, those that wait in *)
(* the queue of a state machine, and those that end what is in progress.   *)
Starting == {"SPEAK", "RECOGNIZE", "INTERPRET", "RECORD", "VERIFY", "VERIFY-FROM-BUFFER"}
Queueing == {"SPEAK", "RECOGNIZE"}
Stopping == {"STOP", "BARGE-IN-OCCURRED"}

ASSUME ConstantsAssumption ==
    /\ MaxId \in Nat \ {0}
    /\ ClientMethods \subseteq Methods
    /\ EngineMayFail \in BOOLEAN
    /\ Pipelined \in BOOLEAN
    /\ MaxInFlight \in Nat

Ids == 1..MaxId

(* A request: its id, method, the active-request-id-list of STOP and       *)
(* BARGE-IN-OCCURRED ({}: header absent) and the kill-on-barge-in flag.    *)
Request == [id : Nat, method : Methods \cup {"TERMINATE", "NONE"},
            sel : SUBSET Nat, kill : BOOLEAN]

NoRequest == [id |-> 0, method |-> "NONE", sel |-> {}, kill |-> FALSE]

(* The requests of MRCP, and those among them that may be queued.          *)
MrcpRequest == {r \in Request : r.method \in Methods}
QueuedRequest == {r \in Request : r.method \in Queueing}

(* SIGNALING_MESSAGE_TERMINATE shares the session's request queue.         *)
TerminateRequest ==
    [id |-> 0, method |-> "TERMINATE", sel |-> {}, kill |-> FALSE]

(* What an engine sends: a response carries the method of its request and  *)
(* the request state the engine reports, an event carries its name.        *)
MarkerEvent(method) ==
    IF method = "SPEAK" THEN "SPEECH-MARKER" ELSE "START-OF-INPUT"
CompletionEvent(method) ==
    CASE method = "SPEAK" -> "SPEAK-COMPLETE"
      [] method = "RECOGNIZE" -> "RECOGNITION-COMPLETE"
      [] method = "INTERPRET" -> "INTERPRETATION-COMPLETE"
      [] method = "RECORD" -> "RECORD-COMPLETE"
      [] OTHER -> "VERIFICATION-COMPLETE"
Events == {"SPEECH-MARKER", "START-OF-INPUT", "SPEAK-COMPLETE",
           "RECOGNITION-COMPLETE", "INTERPRETATION-COMPLETE", "RECORD-COMPLETE",
           "VERIFICATION-COMPLETE"}
Replies == {"FAILED", "COMPLETE", "IN-PROGRESS"}
EngineMessage ==
    [kind : {"response"}, id : Nat, method : Methods, reply : Replies]
        \cup [kind : {"event"}, id : Nat, method : Events, reply : {"IN-PROGRESS"}]

(* What the client knows about a request of its own.                       *)
Views == {"unsent", "sent", "PENDING", "IN-PROGRESS", "COMPLETE"}

VARIABLES
    \* the fields common to the state machines
    active,          \* base.active
    is_pending,      \* active_request was taken from the pending queue
    active_request,  \* request sent to the engine
    queue,           \* pending requests
    \* mrcp_server_session_t
    session_state,   \* OPEN, DEACTIVATING or TERMINATING
    session_request, \* session->active_request
    request_queue,   \* session->request_queue
    \* call stack of the server task
    nested,          \* session_request was popped: its handler runs next
    deferred,        \* pending request a STOP response handler still dispatches
    crashed,         \* a NULL in-progress request was dereferenced
    \* engine
    engine_in,       \* requests the engine has not answered yet
    in_progress,     \* requests the engine works on after its response
    server_in,       \* messages from the engine to the server task
    \* client
    next_id,         \* id of the next client request
    view,            \* what the client was told about each request
    responses,       \* number of responses sent for each request
    deactivations    \* number of on_deactivate callbacks

machine_vars == <<active, is_pending, active_request, queue>>
session_vars == <<session_state, session_request, request_queue>>
stack_vars == <<nested, deferred, crashed>>
engine_vars == <<engine_in, in_progress, server_in>>
client_vars == <<next_id, view, responses, deactivations>>
channel_vars == <<machine_vars, session_vars, stack_vars, engine_vars, client_vars>>

ChannelInit ==
    /\ active = TRUE
    /\ is_pending = FALSE
    /\ active_request = NoRequest
    /\ queue = <<>>
    /\ session_state = "OPEN"
    /\ session_request = NoRequest
    /\ request_queue = <<>>
    /\ nested = FALSE
    /\ deferred = NoRequest
    /\ crashed = FALSE
    /\ engine_in = {}
    /\ in_progress = {}
    /\ server_in = <<>>
    /\ next_id = 1
    /\ view = [i \in Ids |-> "unsent"]
    /\ responses = [i \in Ids |-> 0]
    /\ deactivations = 0

(* The server task is inside a handler (or gone).                          *)
Busy == nested \/ deferred # NoRequest \/ crashed

-----------------------------------------------------------------------------
(* Dispatchers.                                                            *)

(* The request goes to the engine.                                         *)
request_dispatch(m) ==
    /\ active_request' = m
    /\ engine_in' = engine_in \cup {m}

(* A dispatch to the engine that ends the handler of the session request.  *)
DispatchAndReturn(m) ==
    /\ request_dispatch(m)
    /\ nested' = FALSE
    /\ UNCHANGED <<session_vars, deferred, crashed, in_progress, server_in,
                   client_vars>>

(* The session pops its next request and processes it at once.             *)
PopSessionRequestIdle ==    \* defect: the popped request is not dispatched
    /\ session_request' = IF request_queue = <<>> THEN NoRequest ELSE Head(request_queue)
    /\ request_queue' = IF request_queue = <<>> THEN <<>> ELSE Tail(request_queue)
    /\ nested' = FALSE
    /\ UNCHANGED session_state
PopSessionRequest ==
    /\ IF request_queue = <<>>
       THEN /\ session_request' = NoRequest
            /\ request_queue' = <<>>
            /\ nested' = FALSE
       ELSE /\ session_request' = Head(request_queue)
            /\ request_queue' = Tail(request_queue)
            /\ nested' = TRUE
    /\ UNCHANGED session_state

(* state_machine_on_deactivate: one subrequest of DEACTIVATING is done.    *)
OnDeactivateStalls ==    \* defect: the session does not go on
    /\ deactivations' = deactivations + 1
    /\ nested' = FALSE
    /\ UNCHANGED <<session_vars, next_id, view, responses>>
OnDeactivate ==
    /\ deactivations' = deactivations + 1
    /\ session_state' = "TERMINATING"
    /\ nested' = FALSE
    /\ UNCHANGED <<session_request, request_queue, next_id, view, responses>>

(* The response to request `id': the client learns rstate and that the     *)
(* requests in `ended' (the active-request-id-list) are over.              *)
response_dispatch(id, rstate, ended) ==
    /\ active_request' = NoRequest
    /\ IF ~active
       THEN OnDeactivate
       ELSE /\ PopSessionRequest
            /\ responses' = [i \in Ids |-> responses[i] + (IF i = id THEN 1 ELSE 0)]
            /\ view' = [i \in Ids |-> IF i = id THEN rstate
                                      ELSE IF i \in ended THEN "COMPLETE"
                                      ELSE view[i]]
            /\ UNCHANGED <<next_id, deactivations>>

(* An immediate response: the engine is not involved.                      *)
RespondAndReturn(id, rstate, ended) ==
    /\ response_dispatch(id, rstate, ended)
    /\ UNCHANGED <<deferred, crashed, engine_vars>>

(* An event is dropped once the state machine is deactivated.              *)
event_dispatch(id, rstate) ==
    /\ view' = [i \in Ids |-> IF active /\ i = id THEN rstate ELSE view[i]]
    /\ UNCHANGED <<next_id, responses, deactivations>>

-----------------------------------------------------------------------------
(* Session: requests of the client and termination.                        *)

(* mrcp_server_signaling_message_process                                   *)
SignalingMessageAtOnce(m) ==    \* defect: requests are not queued
    /\ ~Busy
    /\ session_request' = m
    /\ nested' = TRUE
    /\ UNCHANGED <<machine_vars, session_state, request_queue, deferred, crashed,
                   engine_vars, responses, deactivations>>
SignalingMessageProcess(m) ==
    /\ ~Busy
    /\ IF session_request # NoRequest
       THEN /\ request_queue' = Append(request_queue, m)
            /\ UNCHANGED <<session_request, nested>>
       ELSE /\ session_request' = m
            /\ nested' = TRUE
            /\ UNCHANGED request_queue
    /\ UNCHANGED <<machine_vars, session_state, deferred, crashed, engine_vars,
                   responses, deactivations>>

(* The client: a request with a fresh id.  Without pipelining it starts    *)
(* something only when everything before it has ended.                     *)
ClientRequest(method, sel, kill) ==
    /\ next_id \in Ids
    /\ method \in Starting /\ ~Pipelined => \A i \in Ids : view[i] \in {"unsent", "COMPLETE"}
    /\ next_id' = next_id + 1
    /\ view' = [view EXCEPT ![next_id] = "sent"]
    /\ SignalingMessageProcess(
           [id |-> next_id, method |-> method, sel |-> sel, kill |-> kill])

ClientTerminate ==
    /\ \A i \in DOMAIN request_queue : request_queue[i] # TerminateRequest
    /\ session_request # TerminateRequest
    /\ SignalingMessageProcess(TerminateRequest)
    /\ UNCHANGED <<next_id, view>>

(* STOP and BARGE-IN-OCCURRED may list earlier requests.                   *)
ChannelClient ==
    \/ \E method \in ClientMethods :
         \E sel \in (IF method \in Stopping THEN SUBSET (1..(next_id - 1)) ELSE {{}}) :
         \E kill \in (IF method = "BARGE-IN-OCCURRED" THEN BOOLEAN ELSE {FALSE}) :
             ClientRequest(method, sel, kill)
    \/ ClientTerminate

(* mrcp_server_session_deactivate with the deactivate handler of the state *)
(* machine: an internal STOP numbered after the in-progress request, or    *)
(* nothing to stop.                                                        *)
DeactivateChannel(current) ==
    /\ nested
    /\ session_request.method = "TERMINATE"
    /\ active' = FALSE
    /\ nested' = FALSE
    /\ IF current # NoRequest
       THEN /\ request_dispatch([id |-> current.id + 1, method |-> "STOP",
                                 sel |-> {}, kill |-> FALSE])
            /\ session_state' = "DEACTIVATING"
       ELSE /\ session_state' = "TERMINATING"
            /\ UNCHANGED <<active_request, engine_in>>
    /\ UNCHANGED <<is_pending, queue, session_request, request_queue, deferred,
                   crashed, in_progress, server_in, client_vars>>

-----------------------------------------------------------------------------
(* Handlers of client requests.                                            *)

(* The handler of a client request runs (the table of request methods).    *)
HandlingAny(method) ==    \* defect: the handler is not looked up by method
    nested /\ session_request.method \in Methods
Handling(method) == nested /\ session_request.method = method

(* A request that leaves the queue alone: sent to the engine or answered.  *)
ForwardOrRespond(forward) ==
    /\ IF forward
       THEN DispatchAndReturn(session_request)
       ELSE RespondAndReturn(session_request.id, "COMPLETE", {})
    /\ UNCHANGED <<active, is_pending, queue>>

(* SPEAK and RECOGNIZE are queued while one of them is in progress.        *)
StartOrQueue(occupied) ==
    /\ IF occupied
       THEN /\ queue' = Append(queue, session_request)
            /\ RespondAndReturn(session_request.id, "PENDING", {})
       ELSE /\ DispatchAndReturn(session_request)
            /\ UNCHANGED queue
    /\ UNCHANGED <<active, is_pending>>

(* synth_pending_requests_remove: all pending requests, or the listed ones *)
Removed(sel) ==
    {i \in DOMAIN queue : sel = {} \/ queue[i].id \in sel}
RemovedIds(sel) == {queue[i].id : i \in Removed(sel)}
RemainingAll(sel) == queue    \* defect: nothing is unlinked
Remaining(sel) == KeepAt(queue, DOMAIN queue \ Removed(sel))

(* A STOP names request r, or names none at all.                           *)
Selects(m, r) == m.sel = {} \/ r.id \in m.sel

(* STOP goes to the engine or removes pending requests only.               *)
StopOrRemove(forward) ==
    /\ IF forward
       THEN /\ DispatchAndReturn(session_request)
            /\ UNCHANGED queue
       ELSE /\ queue' = Remaining(session_request.sel)
            /\ RespondAndReturn(session_request.id, "COMPLETE",
                                RemovedIds(session_request.sel))
    /\ UNCHANGED <<active, is_pending>>

-----------------------------------------------------------------------------
(* Messages of the engine.                                                 *)

Received == Head(server_in)

TakeEngineMessage ==
    /\ ~Busy
    /\ server_in # <<>>
    /\ server_in' = Tail(server_in)
    /\ UNCHANGED in_progress

(* The checks before the handler of a response is called.                  *)
ExpectedAny == active_request # NoRequest    \* defect: ids are not compared
Expected == active_request # NoRequest /\ active_request.id = Received.id

ResponseTo(methods) ==
    /\ TakeEngineMessage
    /\ Received.kind = "response" /\ Received.method \in methods
    /\ Expected
    /\ UNCHANGED engine_in

(* Unexpected response: no active request, or its id does not match.       *)
IgnoreResponse ==
    /\ TakeEngineMessage
    /\ Received.kind = "response" /\ ~Expected
    /\ UNCHANGED <<engine_in, machine_vars, session_vars, stack_vars, client_vars>>

(* The handler reads the request_id of a NULL in-progress request.         *)
NullDereference ==
    /\ crashed' = TRUE
    /\ UNCHANGED <<machine_vars, session_vars, nested, deferred, client_vars>>

(* A response that is passed on, with the request state the engine gave.   *)
PassOn(rstate) ==
    /\ response_dispatch(Received.id, rstate, {})
    /\ UNCHANGED <<active, is_pending, queue, deferred, crashed>>

(* The state of a request that the engine may have started.                *)
StartedState == IF Received.reply = "IN-PROGRESS" THEN "IN-PROGRESS" ELSE "COMPLETE"

(* The response to STOP ends the in-progress request.  The first request   *)
(* that stays pending is popped before the response is dispatched, and     *)
(* dispatched itself after that call has returned.                         *)
EndByStop(current) ==
    LET sel == active_request.sel
        rest == Remaining(sel)
    IN /\ IF rest = <<>>
          THEN queue' = <<>> /\ UNCHANGED deferred
          ELSE queue' = Tail(rest) /\ deferred' = Head(rest)
       /\ response_dispatch(Received.id, "COMPLETE", {current.id} \cup RemovedIds(sel))
       /\ UNCHANGED <<active, is_pending, crashed>>

(* The rest of the STOP response handler.                                  *)
DispatchDeferred ==
    /\ deferred # NoRequest /\ ~nested /\ ~crashed
    /\ is_pending' = TRUE
    /\ request_dispatch(deferred)
    /\ deferred' = NoRequest
    /\ UNCHANGED <<active, queue, session_vars, nested, crashed, in_progress,
                   server_in, client_vars>>

EventNamed(name) ==
    /\ TakeEngineMessage
    /\ Received.kind = "event" /\ Received.method = name
    /\ UNCHANGED <<session_vars, stack_vars, active>>

(* An event that only tells the client, if it is passed on at all.         *)
TellClient(passed, rstate) ==
    /\ IF passed THEN event_dispatch(Received.id, rstate) ELSE UNCHANGED client_vars
    /\ UNCHANGED <<is_pending, active_request, queue, engine_in>>

(* The in-progress request completes: the client is told, and the first    *)
(* pending request goes to the engine.                                     *)
CompleteAndNext ==
    /\ event_dispatch(Received.id, "COMPLETE")
    /\ IF queue = <<>>
       THEN UNCHANGED <<queue, is_pending, active_request, engine_in>>
       ELSE /\ queue' = Tail(queue)
            /\ is_pending' = TRUE
            /\ request_dispatch(Head(queue))

-----------------------------------------------------------------------------
(* Any engine.                                                             *)

EngineSend(m) == server_in' = Append(server_in, m)

EngineEvent(r, name) ==
    EngineSend([kind |-> "event", id |-> r.id, method |-> name, reply |-> "IN-PROGRESS"])

(* The answer to r; STOP and BARGE-IN-OCCURRED end what is in progress,    *)
(* interpretations aside.                                                  *)
EngineRespond(r, reply) ==
    /\ r \in engine_in
    /\ engine_in' = engine_in \ {r}
    /\ reply = "FAILED" => EngineMayFail /\ r.method \notin Stopping
    /\ reply = "IN-PROGRESS" <=> (r.method \in Starting /\ reply # "FAILED")
    /\ EngineSend([kind |-> "response", id |-> r.id, method |-> r.method,
                   reply |-> reply])
    /\ in_progress' = IF reply = "IN-PROGRESS" THEN in_progress \cup {r}
                      ELSE IF r.method \in Stopping
                           THEN {q \in in_progress : q.method = "INTERPRET"}
                      ELSE in_progress
    /\ UNCHANGED <<machine_vars, session_vars, stack_vars, client_vars>>

EngineMark(r) ==
    /\ r.method # "INTERPRET"
    /\ Len(server_in) < MaxInFlight
    /\ EngineEvent(r, MarkerEvent(r.method))
    /\ UNCHANGED <<machine_vars, session_vars, stack_vars, client_vars, engine_in,
                   in_progress>>

EngineFinish(r) ==
    /\ in_progress' = in_progress \ {r}
    /\ EngineEvent(r, CompletionEvent(r.method))
    /\ UNCHANGED <<machine_vars, session_vars, stack_vars, client_vars, engine_in>>

EngineAnswer == \E r \in engine_in : \E reply \in Replies : EngineRespond(r, reply)

EngineComplete == \E r \in in_progress : EngineFinish(r)

EngineMarker == \E r \in in_progress : EngineMark(r)

-----------------------------------------------------------------------------
(* The types of the variables, one conjunct each.                          *)
ChannelTypeOK ==
    /\ active \in BOOLEAN
    /\ is_pending \in BOOLEAN
    /\ active_request \in Request
    /\ queue \in Seq(QueuedRequest)
    /\ session_state \in {"OPEN", "DEACTIVATING", "TERMINATING"}
    /\ session_request \in Request
    /\ request_queue \in Seq(Request)
    /\ nested \in BOOLEAN
    /\ deferred \in QueuedRequest \cup {NoRequest}
    /\ crashed \in BOOLEAN
    /\ engine_in \subseteq MrcpRequest
    /\ in_progress \subseteq {r \in Request : r.method \in Starting}
    /\ server_in \in Seq(EngineMessage)
    /\ next_id \in 1..(MaxId + 1)
    /\ view \in [Ids -> Views]
    /\ responses \in [Ids -> Nat]
    /\ deactivations \in Nat

(* A response that passes the id check (mrcp_synth_state_machine.c 512,    *)
(* mrcp_recog_state_machine.c 442) answers the active request: no other    *)
(* message in flight carries its id, although deactivation numbers its     *)
(* internal STOP itself.                                                   *)
ResponseMatchesRequest ==
    \A k \in DOMAIN server_in :
        server_in[k].kind = "response" /\ server_in[k].id = active_request.id
            => server_in[k].method = active_request.method

(* No request of the client is answered twice, although a queued one has   *)
(* two: PENDING at once, and the one of the engine, which is not sent on.  *)
AtMostOneResponse == \A i \in Ids : responses[i] <= 1

Rank(v) == CASE v = "unsent" -> 0 [] v = "sent" -> 1 [] v = "PENDING" -> 2
             [] v = "IN-PROGRESS" -> 3 [] v = "COMPLETE" -> 4

(* What the client was told about a request is never taken back: no        *)
(* marker, no IN-PROGRESS after a request was reported ended.              *)
NeverBackwards == [][\A i \in Ids : Rank(view[i]) <= Rank(view'[i])]_view

(* No response handler dereferences a NULL in-progress request: requests   *)
(* about what is in progress are sent to the engine only when there is     *)
(* something, else "found no in-progress SPEAK request, sending immediate  *)
(* response" (mrcp_synth_state_machine.c 356; recognizer: 288).            *)
NoNullDereference == ~crashed

(* Every request is answered unless the session is being terminated.       *)
EveryRequestAnswered ==
    \A i \in Ids :
        view[i] = "sent" ~> (responses[i] = 1 \/ session_state # "OPEN")

(* A termination of the session always gets past the state machine.        *)
TerminationProceeds ==
    session_request = TerminateRequest ~> session_state = "TERMINATING"
=============================================================================
