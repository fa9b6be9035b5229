# UniMRCP server: TLA+ models, checks and proofs

UniMRCP is an implementation of MRCP (v1 over RTSP, v2 over SIP), the protocol
by which a telephony client uses speech synthesizers, recognizers, recorders
and verifiers. This directory models the core of the server: the session that
coordinates the media engine, the control connections and the speech engines
of a call, the state machines of the four kinds of channel, the demo
synthesizer and the Alibaba recognizer that stand behind them, the MRCPv2
connection agent, and the poller task with its message queue and timers that
the agent runs in. Paths below are relative to `src/unimrcp-1.6.0/`.

## 1. Inventory

| Part | State it keeps | Operations | Interacts with |
|---|---|---|---|
| server session, `libs/mrcp-server/src/mrcp_server_session.c` | session state, active signaling request and queue, subrequest count, offer / answer, channels, RTP termination slots | offer, control message, terminate; replies of the media engine, connection agent, engines, state machines | everything below, by task messages |
| synthesizer state machine, `libs/mrcp-engine/src/mrcp_synth_state_machine.c` | IDLE / SPEAKING / PAUSED, active request, speaker, queue of pending SPEAKs | nine requests, nine responses, two events, deactivate | session (virtual callbacks), engine |
| recognizer state machine, `libs/mrcp-engine/src/mrcp_recog_state_machine.c` | IDLE / RECOGNIZING / RECOGNIZED, active request, recog, queue of pending RECOGNIZEs | eight requests, eight responses, three events, deactivate | session (virtual callbacks), engine |
| recorder state machine, `libs/mrcp-engine/src/mrcp_recorder_state_machine.c` | IDLE / RECORDING, active request, record | five requests, five responses, two events, deactivate | session, engine |
| verifier state machine, `libs/mrcp-engine/src/mrcp_verifier_state_machine.c` | IDLE / OPENED / VERIFYING, active request, verify | thirteen requests, thirteen responses, two events, deactivate | session, engine |
| engine interface, `libs/mrcp-engine/include/` | engine channel, `is_open`, channel count | virtual open / close / request; open, close and message events | session, plugins |
| Alibaba plugins, `plugins/alirecog/`, `plugins/alisynth/` | pools of channels, per channel a mutex, a frame queue, running flags, the current MRCP channel | requests in a consumer task, frames in the media thread, a worker thread per utterance, callbacks of the cloud SDK | engine interface, media engine, SDK |
| demo plugins, `plugins/` | active request, stop response, flags shared by two threads | requests in a consumer task, stream read / write in the media thread | engine interface, media engine |
| connection agent, `libs/mrcpv2-transport/src/mrcp_server_connection.c` | connections, channel table, pending channel table, inactivity and termination timers | channel add / modify / remove, accept, message receive, disconnect, timers | session, TCP |
| server task, `libs/mrcp-server/src/mrcp_server.c` | session table, agents, engines | message dispatch, start, shutdown | all tasks |
| media engine, `libs/mpf/` | contexts, terminations, associations, jitter buffers | add / modify / subtract, topology, 10 ms clock | session, plugins |
| client stack, `libs/mrcp-client/`, `mrcp_client_connection.c` | mirror of the server session, with per-request timers | application requests, answers | signaling agents |
| RTSP stack, `libs/uni-rtsp/`; signaling agents, `modules/` | RTSP sessions and request queues; SIP dialogs | SETUP, ANNOUNCE, TEARDOWN; INVITE, BYE | session |
| tasks and timers, `libs/apr-toolkit/` | message queues, timer queue, object lists | signal, process, start, terminate | all |
| configuration, command line applications, vendored APR, expat, Sofia-SIP | | | |

What is hard here. The server task, the media thread, the poller of the
connection agent and a consumer task per engine exchange asynchronous messages;
a response may be overtaken by an event of another thread, a request may be
with an engine when the session is terminated, replies of three threads to one
offer arrive in any order, and handlers re-enter the session: sending a
response makes the session pop and process the next request before the handler
that responded returns. Plugins share fields between two threads without a
lock. `PROJECT.json` lists the hazards at their lines.

What makes each part correct. A session serves its signaling messages one at a
time, in order, and ends with nothing left behind; its subrequest count is
exact. A state machine tells the client the truth: a request has one response,
its state never goes back, the queue holds what the client was told is PENDING.
An engine answers every request once and raises no event for what it ended. A
connection is freed exactly once, when neither the agent nor a channel can reach
it any more, and a closed one is freed at last. A poller task loses no message,
and its timers expire when they are due by the time its queue was told of. A
pool of channels loses none of them, and what a pooled channel reports belongs
to the request it worked on.

## 2. Modules

### MrcpChannel

What all channels share: the session's request queue as far as a channel sees
it, the dispatchers and the queue of pending requests that the state machines
have in common almost line by line, and any engine. `active`, `is_pending`,
`active_request` and `queue` are fields of `mrcp_synth_state_machine_t` and
`mrcp_recog_state_machine_t` under their own names; `session_request`,
`request_queue` are `session->active_request`, `session->request_queue`.

* The nested call. `response_dispatch` ends in
  `state_machine_on_message_dispatch`, which pops the next request and runs its
  handler. `nested` says that a popped request's handler runs next; `deferred`
  is the pending request that the STOP response handler has popped and
  dispatches when the nested call is back (`DispatchDeferred`). While either is
  set the server task takes no other message (`Busy`), so this is one call tree
  of one thread in several steps, not a new interleaving.
* A NULL dereference is the value `crashed`: the handlers of STOP,
  BARGE-IN-OCCURRED, PAUSE, RESUME and CONTROL responses read the request id of
  `speaker` or `recog`.
* The engine (`EngineRespond`, `EngineMark`, `EngineFinish`) answers what it
  was sent in any order and at any time, may refuse everything except STOP and
  BARGE-IN-OCCURRED, raises markers and one completion for what is in progress,
  and sends to the server task in order. A STOP ends what may be queued (SPEAK,
  RECOGNIZE), not an INTERPRET.
* `view` and `responses` are what the client has been told.
* A message's headers are reduced to the active-request-id-list (`sel`) and
  kill-on-barge-in; the property set of SET-PARAMS / GET-PARAMS is left out.

`Pipelined` separates two kinds of client. MRCP lets a client queue SPEAKs and
RECOGNIZEs, and most properties are checked for that client; those that the
code only keeps for a client that waits are checked with `Pipelined = FALSE`.

### SynthStateMachine, RecogStateMachine

One module per state machine on top of MrcpChannel, with the two fields of its
own (`state` and `speaker` or `recog`). Every handler of the method tables is
one action with the handler's name; handlers that only pass a response on are
one action together. The two differ where the code does: a recognizer keeps
`recog` in the state RECOGNIZED until a grammar, a STOP or the next RECOGNIZE
replaces it, swallows the response to a RECOGNIZE from the queue where a
synthesizer sends SPEECH-MARKER, and passes INTERPRETATION-COMPLETE on without
a check.

### ObjList

`apt_obj_list` as a sequence; `KeepAt` is what is left after a walk unlinks
elements (`synth_pending_requests_remove`, `recog_pending_requests_remove`) or
collects some of them (the channels and requests of an offer); the ring of the
timer queue is unlinked with it too. It is defined by
the enumeration of the kept positions and not by recursion so that it can be
proved about.

### DemoSynthEngine

Extends SynthStateMachine and replaces its engine by the plugin: the consumer
task (`DemoRequestDispatch`, `DemoReply`, `DemoSpeakSet`) and the media thread
(`StreamRead...`), which share `speak_request`, `stop_response` and `paused`
without a lock. An action ends where the other thread can see the difference:
before and after a message is sent, before and after a shared field is written.
`StreamReadClear` merges three consecutive writes; a write of the other thread
between them has the effect it would have before or after all of them.

### ServerSession, SignalingQueue, MCServerSession

ServerSession is one session of MRCPv1 or MRCPv2 (`Version`). `call` is the
call stack: a signaling message is to be dispatched, or the last subrequest was
answered and the session goes on (`advance`). `mpf_pending`, `agent_pending`,
`engine_pending`, `deact_pending` hold the subrequests of the four kinds of
helper; the media engine and the connection agent answer in order, engines in
any order. SignalingQueue is the abstract specification: a queue whose messages
are finished in order and that the termination closes. MCServerSession gives
the offers.

Abstractions: the media engine's container of responses is processed one reply
at a time (the code's loop allows nothing in between, so this is a superset);
every channel is associated with every audio medium (cmid groups are data);
`spare` is the set of engines with a free channel, chosen at each offer; an
engine's `open` accepts and answers later, positively or not. A V1 descriptor
names one resource, `port` stands for its `resource_state`. `ReceiveTerminate`
may happen repeatedly (BYE, disconnect and TEARDOWN may each ask for it).

The session sees little of the state machines of its channels, but what they
send to the engines by themselves it does not see at all, and that matters at
its end. `machines` keeps, for each channel, how many requests are queued
(`queue`), `is_pending`, whether `active_request` is a request from that queue
(`own_active`), and how many of those the engine has still to answer (`own`);
`in_progress` is the speaker, recog, record or verify. A completion sends the
next queued request at once (`EngineEvent`); the response to STOP pops it, lets
the session process its next message inside the response, and sends it after
that (`deferred`, `DispatchDeferred`). The response to a request of the client
may then be dropped because `active_request` is another request
(`ResponseIgnored`) or taken for the response to the queued one
(`ResponseSwallowed`): the session does not go on in either case. The kind of a
control message and of a channel is abstracted: any forwarded request may get
any treatment its response handlers have, so the behaviours are a superset of
those of the four machines, which have modules of their own. `self_sent` and
`overtaken` are history: which channels have sent a request by themselves, and
which had one with the engine, or were about to send one, when the session was
deactivated.

### RecorderStateMachine, VerifierStateMachine, MCRecorderVerifier

Built on MrcpChannel like the two machines above, one action per handler. They
have no queue: a second RECORD or VERIFY is rejected, so `queue` stays empty
and every request that may not be handled is answered at once
(`ForwardOrRespond`). The two differ where the code does: the recorder looks at
the response to RECORD and enters RECORDING only when it is IN-PROGRESS; the
verifier enters VERIFYING, OPENED and IDLE whatever the engine answered, and
keeps `verify` until END-SESSION. MCRecorderVerifier chooses one of the two
machines in the initial state and instantiates both over one set of variables,
so that one run covers both.

### ServerConnection, MCServerConnection

The MRCPv2 connection agent with the server task on one side and the network
on the other. `agent_queue` and `server_queue` are the message queues of the
two tasks (in order, and shown to be so by PollerTask for the agent's).
A connection's memory is a pool that either the agent destroys
(`mrcp_server_agent_connection_close`) or the server task, with the last channel
that used it (`mrcp_server_control_channel_destroy`); `freed` counts both.
Sessions are reduced to their use of the agent: offer, re-offer, termination,
and the BYE that `on_disconnect` asks for. Timers are in the set `timers` while
they are set, and may expire at any time. A connection nobody waits for is
rejected without a change of state. Failures of `accept` and of `malloc` are
left out, and so is the choice between a new and an existing connection, which
is the client's.

### TimerQueue, CyclicQueue, PollerTask, MCPollerTask

TimerQueue and CyclicQueue are `apt_timer_queue.c` and `apt_cyclic_queue.c` as
operators from a queue to the queue the C function leaves behind: the ring of
timers with unsigned times of `Width` bits, moved back at `RescheduleAt`
(0xFFFF in the code), and the circular buffer with `head` and `tail` that grows
by half. PollerTask is the loop of `apt_poller_task.c` over both: senders push
under the guard and then write to the pipe; the loop asks for the timeout,
polls, empties the pipe, pops until the queue is empty, serves the sockets and
advances the timers by the time of the poll. A handler sets or kills any timer
or none.

* The clock counts microseconds, as `apr_time_now`; the timer queue counts
  milliseconds and is advanced by the whole milliseconds since the poll began
  (`Passed`). The rest is forgotten (`Rest`), and so is all the time of a poll
  that fails (`PollFails`).
* The pipe holds bytes and is read `ReadSize` (512) at a time, as long as the
  reads are full. Reads block: after a multiple of `ReadSize` bytes the loop is
  in `drain` with an empty pipe until another thread writes to it. That a full
  pipe blocks the writer (64 KB of wakeups) is left out.
* The clock stands still while handlers run: their time counts as time of the
  poll. `MaxLate` bounds how late a poll, with a wait in `drain`, may end after
  its timeout; the theorems hold for every value of it that fits the width.
* `due`, `earliest` and `lost` are history variables: when a timer should expire
  for a reader of the code, the start of its poll plus its period, and the time
  since it was set that the queue was never told of.

### AliRecog, MCAliRecog

The recognizer plugin of this fork. Four kinds of thread meet in a pooled
`AliChannel`: the consumer task (RECOGNIZE and STOP), the media thread (frames,
the answer to STOP, stream close), a thread of the pool running `RecogMain`,
and the callback threads of the NLS SDK. The fields `m_Starting`, `m_Runing`,
`m_Ch`, `m_recogRequest`, the two pools of `AliChannelFactory` and the fields
`ch`, `recog_request`, `stop_response` of `Ali_recog_channel_t` have their own
names. An action ends where another thread can see the difference: at the end
of a critical section, around a message sent, around a wait in the frame queue.
One use is one RECOGNIZE with its worker and its SDK request; the SDK (external)
calls back with one result or failure and one close, and its release waits for
a callback that runs. `apr_queue` is modelled by its waits and wakeups: a push
into a full queue blocks, a pop from an empty one waits, an interrupt wakes who
waits at that moment and nobody later. `phase` stands for what the recognizer
state machine in front of the plugin lets through. A read through NULL stops
the behaviour (`crashed`). Left out: results, grammars, the record file, tokens
beyond their failure, the failure of `apr_thread_pool_push` (no memory; the
channel would be lost to both pools).

## 3. Runs

Passing:

* **synth_all** (four requests of any method, pipelined, one marker in flight,
  about 10^6 states). Type correctness; the machine holds what the client
  believes (`MachineMatchesClient`); the speaker is there while STOP or
  BARGE-IN-OCCURRED waits (`StopFindsSpeaker`); a response that passes the id
  check is the one that is waited for (`ResponseMatchesRequest`); one response
  per request; what the client was told is never taken back
  (`NeverBackwards`).
* **synth_serial** (three requests, one SPEAK at a time, no PAUSE, RESUME,
  CONTROL). No NULL speaker; a quiet engine renders exactly the speaker; every
  request is answered and every termination gets past the state machine.
* **recog_all** (four requests of any method but GET-PARAMS, pipelined, about
  5*10^5 states). `MachineMatchesClient`: a recognition in progress was not
  reported ended, a kept result was. `StopFindsRecognition`: RECOGNITION-COMPLETE
  never ends what a STOP with the engine is about. `ResultNotReplaced`: while
  GET-RESULT is with the engine the pending RECOGNIZE behind it does not take
  the result's place. `RecognizingInEngine`: no channel waits for a recognition
  that the engine has ended. No handler reads through NULL, for any client: the
  recognizer has none of the synthesizer's PAUSE, RESUME and CONTROL handlers.
* **demo_synth**. The demo plugin implements the engine contract
  (`DemoImplementsEngine`, the specification of SynthStateMachine as a property
  of DemoSpec; the variables have the same names, so the mapping is the
  identity).
* **session_v2** (five signaling messages), **session_v1** (six), one or two
  control media, control messages for any channel. `CountExact`: the count is the
  number of replies still to come. `AnswerPresent`: a reply that writes into the
  answer finds it. `OpenMatchesOffer`. `NothingLeftBehind` after termination:
  nothing is in an engine but the queued requests a machine had sent by itself
  when the session was deactivated (`overtaken`). The refinement of
  SignalingQueue (`ServesInOrder`) is checked for MRCPv1, and for MRCPv2 its
  progress: `EveryMessageServed` says that each message is finished, unless the
  session ends or a control message before it gets no response, in one of the
  three ways that `Unanswered` names (dropped, no engine channel, response lost
  to a queued request).

* **recorder_verifier** (four requests, pipelined, one marker in flight).
  `RecorderAgrees`: once nothing is in flight, machine, client and engine agree
  on what is in progress. `VerifierAgrees` says less, as the code does: if the
  engine verifies the request the machine knows, the machine is VERIFYING and the
  client knows; the two cases of section 6, in which the machine goes on without
  looking at the engine, are left out by it. `StopFindsRequest`: what a
  STOP with the engine is about stays in progress, so its response handler
  reads no NULL request. Every request is answered.
* **connection** (two sessions, one with two channels, two connections, two
  messages, one re-offer, both timers). `NoUseAfterFree`: what one task has
  freed the other cannot reach. `NoMessageAfterDestroy`: a destroyed channel is
  in no table and no queue. `ClosedIsOwned`: a closed connection is freed, used
  by some channel, or left to exactly one channel, never freed twice.
  `ClosedIsFreed`: it is freed at last, whatever the client does.
* **poller** (two senders, four messages, a queue of two, a pipe read two bytes
  at a time, two timers of periods 2 and 1 ms, a clock of half milliseconds up to
  2 ms, times moved back at 2). `QueueIsFifo`. `MessageProcessed`: no wakeup is
  lost but for a task that blocks for ever in a read of the empty pipe.
  `DueExpires`: no timer is left when it is due by the time the queue was told
  of. `NotTooEarly`: a timer runs for its period, counted from the start of the
  poll it was set in. `RingSorted`. `DueExpires` and `RingSorted` hold as long as
  no time is moved back below zero, which poller_timer_lost is about.
* **ali_recog** (two sessions, two pooled channels, a queue of one frame, two
  RECOGNIZEs, sessions symmetric, about 4*10^6 states). `PoolComplete`: no
  pooled channel is lost. `WorkHasWorker`: a channel that says it works has a
  worker that has not come to its end, or is about to get one.
  `CompletionNamesOwn`: RECOGNITION-COMPLETE names the RECOGNIZE whose SDK
  request produced it, except in two windows that the code leaves open and
  section 6 describes.

Violations, each a disagreement between the code and what it says of itself
(`findings` in PROJECT.json):

* **synth_null_speaker**: SPEAK-COMPLETE overtakes the answer to a PAUSE,
  RESUME or CONTROL that was forwarded for the SPEAK.
* **poller_timer_lost**: the poll in which the elapsed time reaches the limit
  ends when a long timer is due; a handler of that poll has set a short timer,
  whose time counts from the elapsed time before the poll. `apt_timers_reschedule`
  subtracts the elapsed time, with that poll, from both: the short timer's
  unsigned time wraps around, the long one's is 0 and stands behind it in the
  ring, where the loop that looks for elapsed timers does not get.

Bounds. `MaxId` requests: two SPEAKs or RECOGNIZEs (one in progress, one
pending), a STOP or BARGE-IN-OCCURRED that lists some of them and one request
that is popped inside the response need four. `MaxInFlight` only limits markers,
which can be repeated without end; responses and completions are bounded by the
requests. `MaxMessages` = 5 covers an offer, three control messages for one
channel (in progress, queued, and a STOP that sends the queued one) and the
termination, in any order; the sixth of MRCPv1 is a second SETUP or a TEARDOWN.
For the poller, a queue of two that is full, wraps around and is copied into a
larger one. `MaxClock` lets a timer expire, be set again in a poll and see its
time moved back once, and half milliseconds are cut off in two polls; two bytes
per read let one full read empty the pipe, or leave one byte. Two connections
and three channels cover a connection shared by two sessions or by two channels
of one, and a session whose channels use two connections. Two RECOGNIZEs over
two pooled channels cover one channel used twice and both used at once; a frame
queue of one is full after one frame.

Fairness. `WF(ServerTask)`, `WF(DemoTask)`, `WF(DemoStreamRead)`: a task with a
message in its queue runs, and the media clock ticks. `WF(EngineAnswer)`,
`WF(EngineComplete)`: an engine answers what it accepted, and speech ends; this
is what `mrcp_engine_types.h` asks of a plugin. For the session,
`WF(Dispatch \/ Replies \/ EngineMessage \/ DispatchDeferred \/ Continue)`: the
threads answer and the server task takes the answers; completions and the
answers to requests a machine sent by itself are not needed. The
connection agent and the server task process their messages, a timer that is
set expires (the poller run shows that it does, later by the time lost, while no
time underflows and the task is not blocked at the pipe), and
the SIP agent sends the BYE it was asked for. The poller's loop runs, a sender
that has pushed goes on to write to the pipe, and polls of a pipe that holds a
byte do not fail for ever (`SF`: a poll may fail in between, and a failed poll
is repeated at once). Nothing is assumed of the
client, of the senders or of the sockets. Deadlock is not checked: a channel
whose client has stopped may stop, a media thread of the Alibaba plugin may
block for good (section 6).

## 4. Proofs

`tlapm` checks every leaf; nothing is assumed but the named assumptions on the
constants (`ConstantsAssumption`, `SessionConstantsAssumption`,
`ConnectionConstantsAssumption`, `PollerAssumption`, `TimesFit`,
`AliAssumption`), which TLC evaluates on every run. Every theorem below holds
for any number of requests, sessions, channels, connections, messages or uses,
and for any engine the model allows. The inductive invariants were first checked
by TLC on the instances of section 3.

### Lists (ObjListProofs)

For every list and every set of positions, `KeepAt` is a list of elements of the
same set (`KeepAtType`), its elements are those at the kept positions
(`KeepAtElements`), and they keep their order (`KeepAtOrder`). The enumeration
of the positions exists by taking the least counterexample (`LeastNat`, from the
well-foundedness of `<`).

### MRCP channels (MrcpChannelProofs)

One lemma for each building block of a handler, the client, the deactivation and
any engine, and for each of three facts:

* `ChannelTypeOK`.
* `ChannelInv(cur)`, where `cur` is the request in progress of the state machine.
  It says where each request is: with the engine or in an answer of the engine
  (`Out`), in the list of the state machine (`Held`), in the queue of the
  session, or being handled; each is in one place (`Flight`), the ids are sorted
  there (`Sorted`), the places are served in turn (`Turns`, `Order`), and the
  response counters agree with the place (`Fresh`). This is what makes "answered
  once" inductive: alone, `AtMostOneResponse` is lost at the first step that
  responds.
* `ViewInv(cur, told)` and `Forward`: what the client was told of the requests in
  each place, and that no step tells it less. `told` is what it may know of `cur`.

### Synthesizer (SynthStateMachineProofs)

* `TypeCorrect`, `StopAlwaysFindsSpeaker`: STOP and BARGE-IN-OCCURRED reach
  `active_request` only under `speaker # NoRequest` or by the deactivation of a
  machine with a speaker; `DispatchDeferred` and SPEAK-COMPLETE dispatch queued
  requests only, which is why `TypeOK` says that `queue` and `deferred` hold
  requests that may wait; and the steps that end the speaker either answer the
  active request or are blocked by `StopInProgress`.
* `ResponsesMatch`, `AnsweredOnce`: from `ChannelInv(speaker)`.
* `ClientBelievesMachine`, `NothingTakenBack`: from
  `SynthInv == TypeOK /\ ChannelInv(speaker) /\ SpeakerView /\ IdleIsSilent`,
  where `SpeakerView` is `ViewInv(speaker, {"IN-PROGRESS"})`.
* `SynthNeverNull`: `Spec => []NoNullDereference` under the hypothesis that the
  client sends no PAUSE, RESUME or CONTROL. The hypothesis is not a convenience:
  with them the property is false (run synth_null_speaker), so the theorem says
  that these three handlers are the only ones that can crash
  (`OnlyUnguardedCrash`).
* `DemoIsEngine` (`DemoSpec => DemoImplementsEngine`): the module extends
  DemoSynthEngine, and the refinement mapping is the identity, so every step of
  the plugin has to be a step of an engine or leave the variables of the channel
  alone (`DemoStep`). That needs to know what the plugin may still hold when it
  answers. `ExchangeInv` says what the server task and any engine exchange: only
  SPEAKs wait and are rendered (`OnlySynth`), a STOP or BARGE-IN-OCCURRED with
  the engine is the active request and nothing follows it (`StopAlone`), and the
  id of a rendered SPEAK is older than everything still to be sent (`Rendered`).
  `TaskInv`: what is in the consumer task's queue or in its hands is not answered
  yet. `MediaInv`: `stop_response` is an unanswered stop, and while the media
  thread is about to raise SPEAK-COMPLETE its SPEAK is in progress. The
  hypothesis `EngineMayFail` is the contract of a plugin that refuses, which this
  one does.
* `SerialEngineAgrees`: `Spec => []EngineAgrees` if `~Pipelined`. With a
  pipelining client the property is false (section 6: a STOP that meets a
  pending SPEAK on its way to the engine).
  `EngineAgrees` speaks of a moment at which nothing is in flight; its inductive
  form has to say what the messages in flight stand for. `Flow` does: the engine
  renders at most one SPEAK, the speaker or the active request whose IN-PROGRESS
  is in flight (`RendersOne`); every event is of that SPEAK and after its
  IN-PROGRESS (`EventsOf`); nothing follows the message that ends it
  (`NothingAfter`); and if the engine renders nothing, a completion or a stop
  says so to the machine (`EndIsTold`). One lemma for each way to take or add a
  message keeps `Flow`, over plain sequences. `SerialInv` adds that one request
  at most is out (`OneOut`), nothing is queued in the machine (`NoneWaits`) and a
  SPEAK that waits in the session is alone (`Alone`), which is where the client's
  view (`SpeakerView`) comes in: it sends a SPEAK when it has seen the end of all
  others. After a NULL dereference, which PAUSE, RESUME and CONTROL can still
  cause, the server task is gone and the invariant is `crashed \/ SerialInv`.

### Recognizer (RecogStateMachineProofs)

* `TypeCorrect`, `StopAlwaysFindsRecognition`, along the argument of the
  synthesizer; here the steps that leave RECOGNIZING are the response to STOP and
  RECOGNITION-COMPLETE.
* `ResponsesMatch`, `AnsweredOnce`, `ResultStays` and `RecogNeverNull`, which
  needs no hypothesis here: a response that is handled answers the active
  request, and the active request was sent under the guard its response needs.
* `EngineRunsRecognition`: from `RunInv == StopIsActive /\ StartIsTrue /\ Runs`.
  A RECOGNIZING machine has its request in the engine, or its completion is in
  flight, or STOP is the active request; `StartIsTrue` is the same for a
  recognition whose IN-PROGRESS response is still in flight, where the
  completion has to come after it.
* `ClientBelievesMachine`, `NothingTakenBack`: the recognizer passes on
  INTERPRETATION-COMPLETE without looking at its id, and START-OF-INPUT for any
  recognition it still has the id of, so that "never backwards" depends on the
  order of the engine's own events. `StoryInv` states it: no event follows the
  completion of its request (`EventOrder`), an event of an interpretation does
  not name the recognition (`OwnEvents`), what the engine began is neither
  waiting nor to come (`BegunBefore`), and a kept result is of a request that is
  over everywhere (`Past`).

### Session (ServerSessionProofs)

`IInv == StateType /\ CountExact /\ Waits /\ Messages /\ Stages /\ Closes`, for
any offers, resources, engines and order of replies; `MachinesType` and `Ends`,
about the state machines, are invariants on top of it.

* `Waits` is what makes `CountExact` inductive. A reply about a termination or a
  control channel is counted only if its waiting flag is set, so a flag that is
  reset too early, or two requests about one termination, would lose a count:
  the requests to the media engine are about different terminations and each
  flag is set (`Aimed`), the same holds for the connection agent (`Named`), and
  nothing is outstanding while the server task dispatches or goes on (`Quiet`).
  The offer and the termination establish it for the lists they send
  (`OfferMpfIs`, `OfferAgentIs`, `TerminationsAre`), on the facts about `KeepAt`.
* `Messages` and `Stages` say what the active request is in each state of the
  session; with `OutstandingIs` they give `SessionAnswerPresent`.
* `Closes`: what an engine has opened is open for the session or being closed,
  and the termination stops what is in progress before it closes. `Ends` is about
  the state machines: from the deactivation on, a channel that is not `overtaken`
  has nothing with its engine and sends nothing (`Stopped`), because a machine
  without a request in progress is the only one that is not sent STOP, and STOP
  empties the queue of the others. Together they give
  `SessionNothingLeftBehind`.
* `SessionServesInOrder` (`Spec => ServesInOrder`): every step is `Accept`,
  `Finish` or `Close` of SignalingQueue or leaves `Pending` alone
  (`SessionStep`); it needs `IInv` to know that a message that is popped is not
  the termination and that an idle session has an empty queue.
* `SessionOpenMatchesOffer` has one more invariant, `Paired` (a channel's id is
  its position), and a hypothesis, `KnownOffers`: every offered resource is one
  of the resource factory. Without it the property is false, as section 6 says;
  the run session_v2 offers known resources.

### Connection agent (ServerConnectionProofs)

`IInv == TypeOK /\ Tables /\ Sockets /\ Owned /\ Queues /\ Stages` gives
`ConnectionTypeCorrect`, `FreedIsUnreachable`, `DestroyedIsSilent` and
`ClosedHasOneOwner`. `Tables`: a channel is in the table of a connection exactly
if it refers to it and was not removed, and `access_count` is the size of the
table. `Owned`: who has to free a connection. `Queues`: REMOVE is the last
message about its channel in either queue, and each request or answer is one the
session waits for. `Stages`: what the stage of a session says of its channels;
it is what carries "no message names it" over to the moment the server task
destroys the channel.

### Message queue and timers of a task (PollerTaskProofs)

`MessagesInOrder`: push, pop and resize of the cyclic queue keep `Nth`; the two
lemmas on modular arithmetic say that steps around the ring commute with the
head (`AroundNext`) and that fewer steps than places never meet
(`AroundDistinct`).

The timers. A timer holds a time relative to `elapsed_time` of its queue, which
lags behind the clock during a poll, starts again from zero when the queue is
empty and is moved back, with all times, at `RescheduleAt`. `Reached` is the
clock time that `elapsed_time` stands for, and both directions compare
`scheduled - elapsed` with clock time minus `Reached`.

* `TimersNotTooEarly`, from `EarlyInv == TimersType /\ NotEarlier`: the queue
  counts a timer at least as long as it has to run. It holds with no condition:
  moving a time back below zero only makes it larger.
* `TimerRingSorted`, `DueTimersExpire`, from `DueInv == EarlyInv /\ (underflow
  \/ OnTime)`: the ring ascends with no timer twice (`Sorted`), a timer that has
  a time is in it (`InRing`), no time is further ahead than its period
  (`Within`), outside the expiry loop no time has passed (`Ahead`), the queue
  counts no timer too long but for the time lost (`NotLater`), and the poll is
  no longer than the first timer allows (`PollInTime`). `underflow` is the event
  of the run poller_timer_lost; without excluding it the two are false.
  `DueTimersExpire` bounds the delay of a timer by `lost`; that `lost` is what
  the code forgets, and no more, is in the steps that add to it: `Tick` outside
  a poll that counts, `PollFails`, and `Advance`, which adds less than 1 ms.
* `TimesFit` is the assumption that sums of times do not wrap around: the limit
  of moving back, a period and the lateness of a poll together fit the width
  (0xFFFF ms and timeouts of seconds or minutes are far below 2^32 ms).

### Alibaba recognizer (AliRecogProofs)

`AliTypeCorrect`, `NoChannelLost`, `WorkEnds` and `CompletionsOwn`, from one
`IInv`. `UsesInOrder` and `RequestKnown` relate a worker, its SDK request and the
channel that knows it; `TaskSession` says whose channel a RECOGNIZE in the making
has; `OwnResult` is `CompletionNamesOwn` with its reason: outside the two
windows, a use that may still report a result is what the session of its channel
recognizes.

### Only model-checked

* Liveness under fairness: every `~>` property and `EveryMessageServed`
  (out of the prover's reach).
* The invariants of the recorder and the verifier (`RecorderAgrees`,
  `VerifierAgrees`, `StopFindsRequest`). No obstacle is known: `ChannelInv` and
  `ViewInv` of MrcpChannelProofs apply to them, and the argument is the one of
  `SerialInv` without its queue. It is not done.
* `NoneOverdue` and `NoNullDereference` for every client are false; the two
  violation runs show how.

## 5. Plan

Done so far: the four state machines, the session, the demo synthesizer, the
connection agent, the poller task with its two queues, the Alibaba recognizer;
the proofs of section 4.

1. Proofs: `StopFindsRecord` and `StopFindsVerify`, then `RecorderAgrees` and
   `VerifierAgrees`, on the lemmas of MrcpChannelProofs.
2. Server task: the session table and shutdown while sessions are live.
3. Client session with request timers, composed with the server session
   through SignalingQueue.
4. Alibaba synthesizer plugin, which has the structure of the recognizer.
5. Jitter buffer of the media engine against a reference definition.

## 6. Known deviations

What the code does that a reader would not expect, met while modelling. Where a
property above excludes such a case it says so in its comment.

* Synthesizer. `is_pending` is set with the dispatch of a pending SPEAK and
  reset by the response to a SPEAK (`mrcp_synth_state_machine.c` 152, 450); a
  SPEAK of the client dispatched in between takes it over and is not answered.
  An immediate response resets `active_request` (69) whatever it is: a STOP
  between the dispatch of a pending SPEAK and the engine's response to it finds
  no speaker and is answered at once, the response to the SPEAK is dropped as
  unexpected, and the engine renders a SPEAK the machine does not know.
  The NULL speaker is the run synth_null_speaker.
* Verifier. A refused VERIFY leaves the machine VERIFYING
  (`mrcp_verifier_state_machine.c` 198); END-SESSION during a VERIFY leaves the
  verification running in the engine, and its completion is dropped (146, 321).
* Demo synthesizer. STOP is answered before `speak_request` is reset
  (`demo_synth_engine.c` 470); a SPEAK accepted in between is never rendered.
* Session. `is_open` stays TRUE when an engine refuses to open later
  (`mrcp_server_session.c` 351); after an unknown resource, channels and control
  media are paired by different positions (629); an MRCPv1 control message for a
  resource without a channel stays the active request for ever (565).
  A queued SPEAK or RECOGNIZE that its state machine sends to the engine by itself
  (`mrcp_synth_state_machine.c` 241, 451; `mrcp_recog_state_machine.c` 312, 372)
  has no signaling message behind it: a termination before the engine answers it
  finds no speaker (579) and the session ends with the request in the engine. The
  response to a request of the client in that time may be taken for its response,
  or be dropped; then the session's `active_request` is never popped and the
  session serves nothing more, the termination included.
* Poller task. Timers lose the part of each poll below a millisecond and all of a
  failed poll (`apt_poller_task.c` 274, 254): with wakeups less than 1 ms apart
  the queue does not advance at all. A multiple of 512 bytes in the pipe when the
  task reads it blocks the task until the next wakeup (`apt_pollset.c` 144).
* Timer queue: the run poller_timer_lost. With the default timeouts
  (`conf/unimrcpserver.xml` 91) it takes a poll of the agent that spans the
  limit of 65.5 s of elapsed time and the expiry of a timer.
* Connection agent. With `termination-timeout` 0 a connection that the client
  closed is freed only when its session ends by other means.
* Alibaba recognizer.
  - RECOGNIZE is answered, and its worker started, before `recog_request` is set
    (`Ali_recog_engine.cpp` 308): a completion in between names the previous
    request or reads NULL.
  - `Stop` lets the pool hand the channel out again although its `RecogMain` has
    not ended; when it does, it resets the fields of the new use
    (`Ali_channel.cpp` 490), and a completion of the old use goes to the new
    user of the channel.
  - `stream_close` and STOP act on the `ch` of the session's last RECOGNIZE,
    which may serve another session by then; a session that closes without a
    RECOGNIZE reads an uninitialized `ch` (`Ali_recog_engine.cpp` 380).
  - A worker that looked at `m_Starting` before `Stop` interrupts the queue waits
    in `apr_queue_pop` after it, with no second interrupt to come, and keeps a
    thread of the pool.
  - `WriteFrame` blocks the media thread when the queue is full
    (`Ali_channel.cpp` 209), for good when the worker has left its loop, against
    rule 5 at `Ali_recog_engine.cpp` 27; the queue holds pointers to frames
    whose buffers the media thread uses again.
  - Without a free channel the error message reads `ch->m_id` through NULL
    (`Ali_recog_engine.cpp` 302).

## 7. Not modelled

The repository is mostly third-party code: APR, APR-util with expat and
Sofia-SIP make up the bulk of its lines and are modelled only by what the
server uses of them (queues, mutexes, threads, TEARDOWN and BYE). Of the code of
its own, these parts are left out: message text formats and headers (data),
codecs, detectors and the RTP path of the media engine (signal data), SIP and
RTSP translation in `modules/` (driven by callbacks of the vendored stacks),
configuration loaders and command line applications (start-up and console), the
client stack, the server task's session table, the Alibaba synthesizer and the
jitter buffer (planned above), and the cloud SDK behind the Alibaba plugins,
which is a binary library.
