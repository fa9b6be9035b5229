---------------------------- MODULE ServerSession ----------------------------
(***************************************************************************)
(* One MRCP session of the server                                          *)
(* (libs/mrcp-server/src/mrcp_server_session.c): offers, control messages  *)
(* and the termination of a session are signaling messages, processed one  *)
(* at a time in the order of arrival.  An offer or a termination fans out  *)
(* into subrequests to three other threads:                                *)
(*                                                                         *)
(*   - the media engine (MPF), which adds, modifies and subtracts          *)
(*     terminations and changes the topology (mpf_engine.c),               *)
(*   - the MRCPv2 connection agent, which adds, modifies and removes       *)
(*     control channels (mrcp_server_connection.c),                        *)
(*   - the resource engines, which open and close engine channels and stop *)
(*     what is in progress (mrcp_engine_iface.h, mrcp_state_machine.h).    *)
(*                                                                         *)
(* The session counts the subrequests and goes on when the last one is     *)
(* answered.  The replies of different threads arrive in any order; those  *)
(* of one thread in the order of its requests.                             *)
(***************************************************************************)
EXTENDS ObjList, FiniteSets

CONSTANTS
    Version,       \* 1: MRCPv1 over RTSP, 2: MRCPv2 over SIP
    Known,         \* resources of the resource factory
    Engines,       \* resources with an engine in the profile
    Offers,        \* the offers the client makes
    Controls,      \* control messages: "none", "valid" or "any" (also for
                   \* channels without an engine channel or for no channel)
    MaxMessages    \* bound: signaling messages received in a behaviour

(* An offer: the control media (resource and port) and the number of audio *)
(* media.  In MRCPv1 a SETUP or TEARDOWN names one resource; the port then *)
(* stands for resource_state.                                              *)
ControlMedia == [res : Known \cup {"unknown"}, port : {0, 1}]
Offer == [ctl : Seq(ControlMedia), audio : Nat]
NoOffer == [ctl |-> <<>>, audio |-> 0]

ASSUME SessionConstantsAssumption ==
    /\ Version \in {1, 2}
    /\ Engines \subseteq Known /\ "unknown" \notin Known
    /\ Offers \subseteq Offer
    /\ \A o \in Offers : o.ctl # <<>>
    /\ Controls \in {"none", "valid", "any"}
    /\ MaxMessages \in Nat

Statuses == {"none", "OK", "NO_SUCH_RESOURCE", "UNACCEPTABLE_RESOURCE",
             "UNAVAILABLE_RESOURCE"}

(* Signaling messages: an offer, a control message for a channel (0: for a *)
(* resource that has no channel), the termination.                         *)
SigMessage ==
    [type : {"OFFER"}, offer : Offer, ch : {0}]
        \cup [type : {"CONTROL"}, offer : {NoOffer}, ch : Nat]
        \cup [type : {"TERMINATE", "NONE"}, offer : {NoOffer}, ch : {0}]
NoMessage == [type |-> "NONE", offer |-> NoOffer, ch |-> 0]
OfferMessage(o) == [type |-> "OFFER", offer |-> o, ch |-> 0]
ControlMessage(c) == [type |-> "CONTROL", offer |-> NoOffer, ch |-> c]
TerminateMessage == [type |-> "TERMINATE", offer |-> NoOffer, ch |-> 0]

(* mrcp_channel_t: position of its control media in the offer it was       *)
(* created for, resource, engine channel (there / open), waiting flags and *)
(* whether a request is in progress in its state machine.                  *)
Channel == [id : Nat, res : Known, engine : BOOLEAN, open : BOOLEAN,
            waiting_for_channel : BOOLEAN, waiting_for_termination : BOOLEAN,
            in_progress : BOOLEAN]

(* What the session does not see of the state machine of a channel: the    *)
(* requests in its queue, its is_pending flag, whether its active_request  *)
(* is one it took from that queue and sent to the engine by itself, and    *)
(* how many of those the engine has still to answer.                       *)
Machine == [queue : Nat, is_pending : BOOLEAN, own_active : BOOLEAN, own : Nat]
IdleMachine == [queue |-> 0, is_pending |-> FALSE, own_active |-> FALSE, own |-> 0]

(* Requests to the media engine: which termination they are about.         *)
Target == {"topology", "rtp", "channel"}
MpfCommand == [cmd : {"ADD", "MODIFY", "SUBTRACT", "OTHER"}, target : Target, i : Nat]
Topology == [cmd |-> "OTHER", target |-> "topology", i |-> 0]

VARIABLES
    state,             \* session->state
    subrequest_count,
    active_request,    \* signaling message being processed
    request_queue,
    call,              \* what the server task does next: "dispatch" the active
                       \* request, "advance" the session after its last
                       \* subrequest, or take any message ("none")
    context,           \* the media context exists
    offer, last_offer, \* session->offer, session->last_offer
    status,            \* status of session->answer ("none": no answer)
    last_status,       \* status of session->last_answer
    channels,          \* sequence of mrcp_channel_t
    machines,          \* their state machines
    slots,             \* `waiting' flag of each RTP termination slot
    mpf_pending,       \* requests the media engine has to answer
    agent_pending,     \* channels whose add/modify/remove is to be answered
    engine_pending,    \* channels whose open or close is to be answered
    deact_pending,     \* channels whose state machine is being deactivated
    opened,            \* channels their engine has opened and not closed
    control_pending,   \* channel whose control request is with its engine
    deferred,          \* channel that sends a popped request once the call its
                       \* STOP response made has returned (0: none)
    received,          \* number of signaling messages received
    completed,         \* number of them completed
    destroyed,         \* terminate_send was called
    self_sent,         \* history: channels that sent a queued request themselves
    overtaken          \* history: channels that had one with the engine, or were
                       \* about to send one, when the session was deactivated

request_vars == <<active_request, request_queue, call>>
media_vars == <<context, channels, slots>>
offer_vars == <<offer, last_offer, status, last_status>>
pending_vars == <<mpf_pending, agent_pending, engine_pending, opened, deact_pending>>
machine_vars == <<machines, deferred, self_sent, overtaken>>
vars == <<state, subrequest_count, request_vars, media_vars, offer_vars,
          pending_vars, control_pending, received, completed, destroyed, machine_vars>>

Init ==
    /\ state = "NONE"
    /\ subrequest_count = 0
    /\ active_request = NoMessage
    /\ request_queue = <<>>
    /\ call = "none"
    /\ context = FALSE
    /\ offer = NoOffer /\ last_offer = NoOffer
    /\ status = "none" /\ last_status = "none"
    /\ channels = <<>>
    /\ slots = <<>>
    /\ mpf_pending = <<>> /\ agent_pending = <<>>
    /\ engine_pending = {} /\ opened = {} /\ deact_pending = {}
    /\ control_pending = 0
    /\ received = 0 /\ completed = 0
    /\ destroyed = FALSE
    /\ machines = <<>> /\ deferred = 0
    /\ self_sent = {} /\ overtaken = {}

-----------------------------------------------------------------------------
(* Queue of signaling messages.                                            *)

(* mrcp_server_signaling_message_process                                   *)
ReceiveInFront(m) ==    \* defect: the message is queued at the front
    /\ call = "none" /\ deferred = 0 /\ ~destroyed
    /\ received < MaxMessages
    /\ received' = received + 1
    /\ IF active_request # NoMessage
       THEN /\ request_queue' = <<m>> \o request_queue
            /\ UNCHANGED <<active_request, call>>
       ELSE /\ active_request' = m
            /\ call' = "dispatch"
            /\ UNCHANGED request_queue
    /\ UNCHANGED <<state, subrequest_count, media_vars, offer_vars, pending_vars,
                   control_pending, completed, destroyed, machine_vars>>
Receive(m) ==
    /\ call = "none" /\ deferred = 0 /\ ~destroyed
    /\ received < MaxMessages
    /\ received' = received + 1
    /\ IF active_request # NoMessage
       THEN /\ request_queue' = Append(request_queue, m)
            /\ UNCHANGED <<active_request, call>>
       ELSE /\ active_request' = m
            /\ call' = "dispatch"
            /\ UNCHANGED request_queue
    /\ UNCHANGED <<state, subrequest_count, media_vars, offer_vars, pending_vars,
                   control_pending, completed, destroyed, machine_vars>>

(* The RTSP server passes a TEARDOWN on while another resource is left.    *)
ReceiveOffer ==
    \E o \in Offers :
        /\ Version = 1 /\ o.ctl[1].port = 0 => channels # <<>>
        /\ Receive(OfferMessage(o))

(* MRCPv2 finds the channel by the connection; MRCPv1 may name a resource  *)
(* that was not set up.                                                    *)
ReceiveControl ==
    \E c \in 0..Len(channels) :
        /\ Controls # "none"
        /\ c = 0 => Controls = "any" /\ Version = 1
        /\ Controls = "valid" => channels[c].engine
        /\ Receive(ControlMessage(c))

ReceiveTerminate == Receive(TerminateMessage)

(* The message is done: the next one is popped and dispatched at once.     *)
PopRequestIdle ==    \* defect: the popped message is not dispatched
    /\ completed' = completed + 1
    /\ active_request' = IF request_queue = <<>> THEN NoMessage ELSE Head(request_queue)
    /\ request_queue' = IF request_queue = <<>> THEN <<>> ELSE Tail(request_queue)
    /\ call' = "none"
PopRequest ==
    /\ completed' = completed + 1
    /\ IF request_queue = <<>>
       THEN /\ active_request' = NoMessage
            /\ call' = "none"
            /\ UNCHANGED request_queue
       ELSE /\ active_request' = Head(request_queue)
            /\ request_queue' = Tail(request_queue)
            /\ call' = "dispatch"

(* mrcp_server_session_answer_send of the answer with status st to o       *)
answer_send(o, st) ==
    /\ last_offer' = o /\ last_status' = st
    /\ offer' = NoOffer /\ status' = "none"
    /\ PopRequest

-----------------------------------------------------------------------------
(* Offer.                                                                  *)

(* Control media of o that mrcp_server_channel_create is called for; spare *)
(* are the resources whose engine has a channel left.                      *)
ChannelFor(res) == \E k \in DOMAIN channels : channels[k].res = res
Created(o) ==
    {i \in DOMAIN o.ctl : IF Version = 1 THEN o.ctl[i].port = 1 /\ ~ChannelFor(o.ctl[i].res)
                          ELSE i > Len(channels)}

NewChannel(o, i, spare) ==
    LET engine == o.ctl[i].res \in spare IN
    [id |-> i, res |-> o.ctl[i].res, engine |-> engine, open |-> FALSE,
     waiting_for_channel |-> Version = 2, waiting_for_termination |-> engine,
     in_progress |-> FALSE]

(* A channel is kept when its resource is known; MRCPv1 wants the engine   *)
(* channel too.                                                            *)
Kept(o, spare) ==
    {i \in Created(o) : /\ o.ctl[i].res \in Known
                        /\ Version = 1 => o.ctl[i].res \in spare}

NewChannels(o, spare) ==
    KeepAt([i \in 1..Len(o.ctl) |-> NewChannel(o, i, spare)], Kept(o, spare))

(* The answer reports the last channel that could not be created.          *)
OfferStatus(o, spare) ==
    LET failed == {i \in Created(o) : o.ctl[i].res \notin spare}
    IN IF failed = {} THEN "OK"
       ELSE LET last == CHOOSE i \in failed : \A j \in failed : j <= i
            IN IF o.ctl[last].res \in Known THEN "UNACCEPTABLE_RESOURCE"
               ELSE "NO_SUCH_RESOURCE"

Minimum(a, b) == IF a < b THEN a ELSE b

(* mrcp_server_control_media_offer_process: existing channels are modified *)
(* as far as the offer goes, new ones are added.                           *)
Modified(o) == IF Version = 2 THEN Minimum(Len(channels), Len(o.ctl)) ELSE 0

OfferChannels(o, spare) ==
    [k \in 1..Len(channels) |->
        IF k <= Modified(o) THEN [channels[k] EXCEPT !.waiting_for_channel = TRUE]
        ELSE channels[k]] \o NewChannels(o, spare)

AgentRequests(o, spare) ==
    [k \in 1..Modified(o) |-> k]
        \o (IF Version = 1 THEN <<>>
            ELSE [k \in 1..Len(NewChannels(o, spare)) |-> Len(channels) + k])

(* mrcp_server_av_media_offer_process; a rejected MRCPv1 resource skips it *)
Audio(o, spare) ==
    IF Version = 1 /\ Created(o) # Kept(o, spare) THEN 0 ELSE o.audio

OfferSlots(n) ==
    [k \in 1..(IF n > Len(slots) THEN n ELSE Len(slots)) |->
        IF k <= n THEN TRUE ELSE slots[k]]

(* Requests to the media engine: reset, terminations of the new channels,  *)
(* RTP terminations with their associations, topology.                     *)
EngineChannels(chs) == {k \in DOMAIN chs : chs[k].engine}
MpfRequests(o, spare) ==
    LET new == NewChannels(o, spare)
        n == Audio(o, spare)
        associations == n * Cardinality(EngineChannels(OfferChannels(o, spare)))
    IN <<Topology>>
       \o KeepAt([k \in 1..Len(new) |-> [cmd |-> "ADD", target |-> "channel",
                                         i |-> Len(channels) + k]], EngineChannels(new))
       \o [k \in 1..n |-> [cmd |-> IF k <= Len(slots) THEN "MODIFY" ELSE "ADD",
                            target |-> "rtp", i |-> k]]
       \o [k \in 1..associations |-> Topology]
       \o <<Topology>>

(* mrcp_server_session_offer_process: an offer identical to the last one   *)
(* gets the last answer.                                                   *)
RepeatedCounts(o) ==    \* defect: only the numbers of media are compared
    /\ last_offer # NoOffer
    /\ Len(o.ctl) = Len(last_offer.ctl) /\ o.audio = last_offer.audio
RepeatedOffer(o) == last_offer # NoOffer /\ o = last_offer

OfferAgain ==
    /\ call = "dispatch" /\ active_request.type = "OFFER"
    /\ RepeatedOffer(active_request.offer)
    /\ answer_send(active_request.offer, last_status)
    /\ UNCHANGED <<state, subrequest_count, media_vars, pending_vars,
                   control_pending, received, destroyed, machine_vars>>

OfferProcess ==
    /\ call = "dispatch" /\ active_request.type = "OFFER"
    /\ ~RepeatedOffer(active_request.offer)
    /\ context' = TRUE
    /\ \E spare \in SUBSET Engines : LET o == active_request.offer IN
          /\ offer' = o
          /\ status' = OfferStatus(o, spare)
          /\ channels' = OfferChannels(o, spare)
          /\ machines' = machines \o [k \in 1..Len(NewChannels(o, spare)) |-> IdleMachine]
          /\ slots' = OfferSlots(Audio(o, spare))
          /\ mpf_pending' = mpf_pending \o MpfRequests(o, spare)
          /\ agent_pending' = agent_pending \o AgentRequests(o, spare)
          /\ subrequest_count' = Len(MpfRequests(o, spare)) + Len(AgentRequests(o, spare))
    /\ state' = "GENERATING_ANSWER"
    /\ call' = "none"
    /\ UNCHANGED <<active_request, request_queue, last_offer, last_status,
                   engine_pending, opened, deact_pending, control_pending,
                   received, completed, destroyed, deferred, self_sent, overtaken>>

-----------------------------------------------------------------------------
(* Control messages: mrcp_server_on_message_receive and the state machine. *)

(* No channel or no state machine: the message is dropped.                 *)
HasStateMachine(c) == c # 0 /\ channels[c].res \in Engines

ControlDropped ==
    /\ call = "dispatch" /\ active_request.type = "CONTROL"
    /\ ~HasStateMachine(active_request.ch)
    /\ call' = "none"
    /\ UNCHANGED <<state, subrequest_count, active_request, request_queue,
                   media_vars, offer_vars, pending_vars, control_pending,
                   received, completed, destroyed, machine_vars>>

(* The state machine answers by itself: a SPEAK or RECOGNIZE is put into   *)
(* its queue while another one is in progress, a STOP takes some away; ... *)
ControlAnswered ==
    /\ call = "dispatch" /\ active_request.type = "CONTROL"
    /\ HasStateMachine(active_request.ch)
    /\ LET c == active_request.ch
           most == machines[c].queue + (IF channels[c].in_progress THEN 1 ELSE 0)
       IN \E n \in 0..most :
              machines' = [machines EXCEPT ![c] = [@ EXCEPT !.queue = n, !.own_active = FALSE]]
    /\ PopRequest
    /\ UNCHANGED <<state, subrequest_count, media_vars, offer_vars, pending_vars,
                   control_pending, received, destroyed, deferred, self_sent, overtaken>>

(* ... or the request goes to the engine channel, if there is one.         *)
ControlForwarded ==
    /\ call = "dispatch" /\ active_request.type = "CONTROL"
    /\ HasStateMachine(active_request.ch)
    /\ control_pending' =
          IF channels[active_request.ch].engine THEN active_request.ch ELSE control_pending
    /\ machines' = [machines EXCEPT ![active_request.ch].own_active = FALSE]
    /\ call' = "none"
    /\ UNCHANGED <<state, subrequest_count, active_request, request_queue,
                   media_vars, offer_vars, pending_vars, received, completed,
                   destroyed, deferred, self_sent, overtaken>>

(* The engine answers the request of the session.  The state machine looks *)
(* at it if its active_request is still this request:                      *)
(*   - it is not: the response is dropped,                                 *)
(*   - SPEAK, RECOGNIZE: in progress or refused; a stale is_pending        *)
(*     swallows the response,                                              *)
(*   - STOP, BARGE-IN-OCCURRED: ends what is in progress and takes         *)
(*     requests out of the queue; STOP then sends the first one that is    *)
(*     left, after the call that gives the client its response,            *)
(*   - the others change nothing the session depends on.                   *)
(* The session goes on with its queue when the client gets the response.   *)
ResponseIgnored(c) ==
    /\ machines[c].own_active
    /\ UNCHANGED <<channels, machines, deferred, request_vars, completed>>
ResponseSwallowed(c) ==
    /\ ~machines[c].own_active /\ machines[c].is_pending /\ ~channels[c].in_progress
    /\ \E b \in BOOLEAN : channels' = [channels EXCEPT ![c].in_progress = b]
    /\ machines' = [machines EXCEPT ![c].is_pending = FALSE]
    /\ UNCHANGED <<deferred, request_vars, completed>>
ResponseStarts(c) ==
    /\ ~machines[c].own_active /\ ~machines[c].is_pending /\ ~channels[c].in_progress
    /\ \E b \in BOOLEAN : channels' = [channels EXCEPT ![c].in_progress = b]
    /\ PopRequest
    /\ UNCHANGED <<machines, deferred>>
ResponseStops(c) ==
    /\ ~machines[c].own_active /\ channels[c].in_progress
    /\ channels' = [channels EXCEPT ![c].in_progress = FALSE]
    /\ \E n \in 0..machines[c].queue :
          \/ /\ machines' = [machines EXCEPT ![c].queue = n]
             /\ UNCHANGED deferred
          \/ /\ n > 0
             /\ machines' = [machines EXCEPT ![c].queue = n - 1]
             /\ deferred' = c
    /\ PopRequest
ResponseOther(c) ==
    /\ ~machines[c].own_active
    /\ PopRequest
    /\ UNCHANGED <<channels, machines, deferred>>

EngineMessage ==
    /\ call = "none" /\ deferred = 0 /\ ~destroyed /\ control_pending # 0
    /\ \/ ResponseIgnored(control_pending)
       \/ ResponseSwallowed(control_pending)
       \/ ResponseStarts(control_pending)
       \/ ResponseStops(control_pending)
       \/ ResponseOther(control_pending)
    /\ control_pending' = 0
    /\ UNCHANGED <<state, subrequest_count, context, slots, offer_vars,
                   pending_vars, received, destroyed, self_sent, overtaken>>

(* The state machine sends a request of its queue to the engine.  No       *)
(* signaling message of the session stands for it.                         *)
Sends(m) == [m EXCEPT !.own = @ + 1, !.is_pending = TRUE, !.own_active = TRUE]

(* An in-progress request completes by itself (event of the engine), unless*)
(* its state machine waits for the answer to STOP; the next one follows.   *)
EngineEvent ==
    /\ call = "none" /\ deferred = 0 /\ ~destroyed
    /\ \E c \in DOMAIN channels \ deact_pending :
          /\ channels[c].in_progress
          /\ channels' = [channels EXCEPT ![c].in_progress = FALSE]
          /\ \/ /\ machines[c].queue = 0
                /\ UNCHANGED <<machines, self_sent>>
             \/ /\ machines[c].queue > 0
                /\ machines' = [machines EXCEPT ![c] =
                                    Sends([machines[c] EXCEPT !.queue = @ - 1])]
                /\ self_sent' = self_sent \cup {c}
    /\ UNCHANGED <<state, subrequest_count, request_vars, context, slots,
                   offer_vars, pending_vars, control_pending, received, completed,
                   destroyed, deferred, overtaken>>

(* The end of the handler of the STOP response.                            *)
DispatchDeferred ==
    /\ call = "none" /\ deferred # 0
    /\ machines' = [machines EXCEPT ![deferred] = Sends(@)]
    /\ self_sent' = self_sent \cup {deferred}
    /\ deferred' = 0
    /\ UNCHANGED <<state, subrequest_count, request_vars, media_vars, offer_vars,
                   pending_vars, control_pending, received, completed, destroyed,
                   overtaken>>

(* The engine answers a request a state machine sent by itself: the answer *)
(* is swallowed, or dropped when active_request is another request by now. *)
OwnAnswered ==
    /\ call = "none" /\ deferred = 0 /\ ~destroyed
    /\ \E c \in DOMAIN channels : LET m == machines[c] IN
          /\ m.own > 0
          /\ \/ /\ m.own_active /\ m.is_pending
                /\ \E b \in BOOLEAN :
                      channels' = [channels EXCEPT ![c].in_progress = @ \/ b]
                /\ machines' = [machines EXCEPT ![c] =
                                    [m EXCEPT !.own = @ - 1, !.is_pending = FALSE]]
             \/ /\ ~(m.own_active /\ m.is_pending) \/ m.own > 1
                /\ machines' = [machines EXCEPT ![c].own = @ - 1]
                /\ UNCHANGED channels
    /\ UNCHANGED <<state, subrequest_count, request_vars, context, slots,
                   offer_vars, pending_vars, control_pending, received, completed,
                   destroyed, deferred, self_sent, overtaken>>

-----------------------------------------------------------------------------
(* Replies to subrequests.                                                 *)

(* mrcp_server_session_subrequest_remove                                   *)
subrequest_remove_early ==    \* defect: goes on one reply early
    IF subrequest_count = 0
    THEN UNCHANGED <<subrequest_count, call>>
    ELSE /\ subrequest_count' = subrequest_count - 1
         /\ call' = IF subrequest_count = 2 THEN "advance" ELSE "none"
subrequest_keep ==    \* defect: the count is not decremented
    /\ UNCHANGED subrequest_count
    /\ call' = IF subrequest_count = 1 THEN "advance" ELSE "none"
subrequest_remove ==
    IF subrequest_count = 0
    THEN UNCHANGED <<subrequest_count, call>>
    ELSE /\ subrequest_count' = subrequest_count - 1
         /\ call' = IF subrequest_count = 1 THEN "advance" ELSE "none"

no_remove == UNCHANGED <<subrequest_count, call>>

Reply ==
    /\ call = "none" /\ deferred = 0 /\ ~destroyed
    /\ UNCHANGED <<state, active_request, request_queue, context, offer,
                   last_offer, last_status, control_pending, received, completed,
                   destroyed, deferred, self_sent, overtaken>>

(* mrcp_server_mpf_message_process: terminations have a waiting flag.      *)
OnMpfResponse ==
    /\ Reply
    /\ mpf_pending # <<>>
    /\ mpf_pending' = Tail(mpf_pending)
    /\ LET m == Head(mpf_pending) IN
       \/ /\ m.target = "topology"
          /\ subrequest_remove
          /\ UNCHANGED <<channels, slots>>
       \/ /\ m.target = "rtp"
          /\ IF slots[m.i] THEN subrequest_remove ELSE no_remove
          /\ slots' = [slots EXCEPT ![m.i] = FALSE]
          /\ UNCHANGED channels
       \/ /\ m.target = "channel"
          /\ IF channels[m.i].waiting_for_termination THEN subrequest_remove ELSE no_remove
          /\ channels' = [channels EXCEPT ![m.i].waiting_for_termination = FALSE]
          /\ UNCHANGED slots
    /\ UNCHANGED <<status, agent_pending, engine_pending, opened, deact_pending, machines>>

(* mrcp_server_on_channel_modify, mrcp_server_on_channel_remove            *)
OnChannelReply ==
    /\ Reply
    /\ agent_pending # <<>>
    /\ agent_pending' = Tail(agent_pending)
    /\ LET c == Head(agent_pending) IN
       /\ IF channels[c].waiting_for_channel THEN subrequest_remove ELSE no_remove
       /\ channels' = [channels EXCEPT ![c].waiting_for_channel = FALSE]
    /\ UNCHANGED <<status, slots, mpf_pending, engine_pending, opened, deact_pending, machines>>

(* mrcp_server_on_engine_channel_open (the engine may refuse) and _close   *)
OnEngineChannelReply ==
    /\ Reply
    /\ \E c \in engine_pending :
          /\ engine_pending' = engine_pending \ {c}
          /\ \/ /\ channels[c].open
                /\ opened' = opened \cup {c}
                /\ UNCHANGED status
             \/ /\ channels[c].open
                /\ status' = "UNAVAILABLE_RESOURCE"
                /\ UNCHANGED opened
             \/ /\ ~channels[c].open
                /\ opened' = opened \ {c}
                /\ UNCHANGED status
    /\ subrequest_remove
    /\ UNCHANGED <<channels, slots, mpf_pending, agent_pending, deact_pending, machines>>

(* state_machine_on_deactivate, after the response to STOP has emptied the *)
(* queue of the state machine.                                             *)
OnDeactivate ==
    /\ Reply
    /\ \E c \in deact_pending :
          /\ deact_pending' = deact_pending \ {c}
          /\ channels' = [channels EXCEPT ![c].in_progress = FALSE]
          /\ machines' = [machines EXCEPT ![c].queue = 0]
    /\ subrequest_remove
    /\ UNCHANGED <<status, slots, mpf_pending, agent_pending, engine_pending, opened>>

-----------------------------------------------------------------------------
(* What follows the last subrequest.                                       *)

Advance(st) == call = "advance" /\ state = st

(* mrcp_server_engine_channels_update: open or close the engine channels   *)
(* according to the offer; MRCPv2 pairs them by position.                  *)
ToOpen(k) ==
    /\ channels[k].engine /\ ~channels[k].open
    /\ IF Version = 1 THEN channels[k].res = offer.ctl[1].res
       ELSE k <= Len(offer.ctl) /\ offer.ctl[k].port = 1
ToClose(k) ==
    /\ Version = 2 /\ channels[k].engine /\ channels[k].open
    /\ k <= Len(offer.ctl) /\ offer.ctl[k].port = 0

EngineChannelsUpdate ==
    /\ Advance("GENERATING_ANSWER")
    /\ state' = "INITIALIZING"
    /\ LET changed == {k \in DOMAIN channels : ToOpen(k) \/ ToClose(k)} IN
       /\ engine_pending' = engine_pending \cup changed
       /\ subrequest_count' = Cardinality(changed)
       /\ channels' = [k \in DOMAIN channels |->
                          [channels[k] EXCEPT !.open = IF k \in changed THEN ~@ ELSE @]]
       /\ call' = IF changed = {} THEN "advance" ELSE "none"
    /\ UNCHANGED <<active_request, request_queue, context, slots, offer_vars,
                   mpf_pending, agent_pending, opened, deact_pending,
                   control_pending, received, completed, destroyed, machine_vars>>

AnswerSend ==
    /\ Advance("INITIALIZING")
    /\ answer_send(offer, status)
    /\ UNCHANGED <<state, subrequest_count, media_vars, pending_vars,
                   control_pending, received, destroyed, machine_vars>>

(* mrcp_server_session_deactivate: STOP what is in progress.  A request    *)
(* the engine has and the state machine does not speak or recognize yet is *)
(* not stopped.                                                            *)
Deactivate ==
    /\ call = "dispatch" /\ active_request.type = "TERMINATE"
    /\ state' = "DEACTIVATING"
    /\ LET busy == {k \in DOMAIN channels : channels[k].in_progress} IN
       /\ deact_pending' = deact_pending \cup busy
       /\ subrequest_count' = Cardinality(busy)
       /\ call' = IF busy = {} THEN "advance" ELSE "none"
       /\ machines' = [k \in DOMAIN machines |->
              [machines[k] EXCEPT !.own_active = @ /\ k \notin busy]]
    /\ overtaken' = {k \in DOMAIN channels : machines[k].own > 0 \/ k = deferred}
    /\ UNCHANGED <<active_request, request_queue, media_vars, offer_vars,
                   mpf_pending, agent_pending, engine_pending, opened,
                   control_pending, received, completed, destroyed, deferred, self_sent>>

NothingToClose == {}    \* defect: engine channels are not closed
ToCloseAtEnd == {k \in DOMAIN channels : channels[k].engine /\ channels[k].open}

(* mrcp_server_session_terminate_process: every channel and termination    *)
(* that was added is removed, every open engine channel closed.            *)
TerminateProcess ==
    /\ Advance("DEACTIVATING")
    /\ state' = "TERMINATING"
    /\ LET subtracts == KeepAt([k \in 1..Len(channels) |->
                            [cmd |-> "SUBTRACT", target |-> "channel", i |-> k]],
                            EngineChannels(channels))
           mpf == (IF context THEN <<Topology>> ELSE <<>>)
                  \o subtracts
                  \o [k \in 1..Len(slots) |-> [cmd |-> "SUBTRACT", target |-> "rtp", i |-> k]]
           removes == IF Version = 2 THEN [k \in 1..Len(channels) |-> k] ELSE <<>>
           closes == ToCloseAtEnd
       IN /\ mpf_pending' = mpf_pending \o mpf
          /\ agent_pending' = agent_pending \o removes
          /\ engine_pending' = engine_pending \cup closes
          /\ subrequest_count' = Len(mpf) + Len(removes) + Cardinality(closes)
          /\ channels' = [k \in DOMAIN channels |->
                 [channels[k] EXCEPT !.waiting_for_channel = Version = 2,
                                     !.waiting_for_termination = channels[k].engine,
                                     !.open = FALSE]]
          /\ call' = IF mpf = <<>> /\ removes = <<>> /\ closes = {} THEN "advance" ELSE "none"
    /\ slots' = [k \in DOMAIN slots |-> TRUE]
    /\ UNCHANGED <<active_request, request_queue, context, offer_vars, opened,
                   deact_pending, control_pending, received, completed, destroyed,
                   machine_vars>>

(* mrcp_server_session_terminate_send: the session is gone, with whatever  *)
(* is left in its queue.                                                   *)
TerminateSend ==
    /\ Advance("TERMINATING")
    /\ destroyed' = TRUE
    /\ completed' = completed + 1
    /\ call' = "none"
    /\ UNCHANGED <<state, subrequest_count, active_request, request_queue,
                   media_vars, offer_vars, pending_vars, control_pending, received,
                   machine_vars>>

-----------------------------------------------------------------------------
Client == ReceiveOffer \/ ReceiveControl \/ ReceiveTerminate

Dispatch ==
    \/ OfferAgain \/ OfferProcess \/ Deactivate
    \/ ControlDropped \/ ControlAnswered \/ ControlForwarded

Replies ==
    OnMpfResponse \/ OnChannelReply \/ OnEngineChannelReply \/ OnDeactivate

Continue == EngineChannelsUpdate \/ AnswerSend \/ TerminateProcess \/ TerminateSend

Engine == EngineMessage \/ EngineEvent \/ OwnAnswered

Next == Client \/ Dispatch \/ Replies \/ Engine \/ DispatchDeferred \/ Continue

Spec == Init /\ [][Next]_vars

(* The threads answer, and the server task takes what they answer.         *)
Fairness == WF_vars(Dispatch \/ Replies \/ EngineMessage \/ DispatchDeferred \/ Continue)

FairSpec == Spec /\ Fairness

-----------------------------------------------------------------------------
StateType ==
    /\ state \in {"NONE", "GENERATING_ANSWER", "INITIALIZING", "DEACTIVATING",
                  "TERMINATING"}
    /\ subrequest_count \in Nat
    /\ active_request \in SigMessage
    /\ request_queue \in Seq(SigMessage)
    /\ call \in {"none", "dispatch", "advance"}
    /\ context \in BOOLEAN /\ destroyed \in BOOLEAN
    /\ offer \in Offer /\ last_offer \in Offer
    /\ status \in Statuses /\ last_status \in Statuses
    /\ channels \in Seq(Channel)
    /\ slots \in Seq(BOOLEAN)
    /\ mpf_pending \in Seq(MpfCommand)
    /\ agent_pending \in Seq(DOMAIN channels)
    /\ engine_pending \subseteq DOMAIN channels
    /\ deact_pending \subseteq DOMAIN channels
    /\ opened \subseteq DOMAIN channels
    /\ control_pending \in Nat
    /\ received \in Nat /\ completed \in Nat
MachinesType ==
    /\ machines \in Seq(Machine) /\ Len(machines) = Len(channels)
    /\ deferred \in {0} \cup DOMAIN channels
    /\ self_sent \subseteq DOMAIN channels /\ overtaken \subseteq DOMAIN channels
TypeOK == StateType /\ MachinesType

Outstanding ==
    Len(mpf_pending) + Len(agent_pending) + Cardinality(engine_pending)
        + Cardinality(deact_pending)

(* The session knows exactly what it waits for: subrequest_count is the    *)
(* number of replies that are still to come, whatever the order in which   *)
(* the three threads answer, so no step is taken early and none is missed  *)
(* (the "error case" branches, l. 233 and 248, are never taken).           *)
CountExact == subrequest_count = Outstanding

(* A reply that writes into session->answer (l. 307, 358, 1070) finds it:  *)
(* while an offer is processed its answer exists, and nothing but an offer *)
(* is processed then.                                                      *)
AnswerPresent ==
    state \in {"GENERATING_ANSWER", "INITIALIZING"} /\ Outstanding > 0
        => status # "none" /\ active_request = OfferMessage(offer)

(* A destroyed session left nothing behind: no reply is still to come to   *)
(* it, every engine channel is closed, nothing is in progress (l. 982-1008)*)
(* but what the deactivation could not see: a queued SPEAK or RECOGNIZE    *)
(* that its state machine had sent to the engine by itself and that was    *)
(* not answered when the session was deactivated.                          *)
NothingLeftBehind ==
    destroyed => /\ Outstanding = 0 /\ control_pending = 0
                 /\ opened = {}
                 /\ \A k \in DOMAIN channels : ~channels[k].open
                 /\ \A k \in DOMAIN channels \ overtaken :
                        ~channels[k].in_progress /\ machines[k].own = 0

(* Between requests, the engine channel of a control media is open exactly *)
(* if the last offer gave it a port; a channel remembers its media in id,  *)
(* "media descriptor id (position in session descriptor)" (l. 52).         *)
OpenMatchesOffer ==
    Version = 2 /\ active_request = NoMessage =>
        \A k \in DOMAIN channels : LET i == channels[k].id IN
            channels[k].engine /\ i \in DOMAIN last_offer.ctl =>
                (channels[k].open <=> last_offer.ctl[i].port = 1)

(* The client sees a session that serves its messages in order, one at a   *)
(* time, and ends with the termination.                                    *)
Pending ==
    IF active_request = NoMessage \/ destroyed THEN <<>>
    ELSE <<active_request>> \o request_queue
Queue == INSTANCE SignalingQueue WITH
    Message <- SigMessage \ {NoMessage}, Terminate <- TerminateMessage,
    pending <- Pending, closed <- destroyed
ServesInOrder == Queue!Spec

(* A control message the session will never finish: it was dropped, went   *)
(* to a channel without an engine channel, or its response was lost in a   *)
(* state machine that has sent a queued request by itself (the response is *)
(* taken for that request's, or no longer matches active_request).         *)
Unanswered ==
    /\ call = "none" /\ deferred = 0 /\ control_pending = 0
    /\ active_request.type = "CONTROL"
    /\ LET c == active_request.ch IN c = 0 \/ ~channels[c].engine \/ c \in self_sent

(* ... and every message is finished, whatever order the threads answer in,*)
(* unless the session ends before it or is stopped by a control message    *)
(* that is never answered.                                                 *)
EveryMessageServed ==
    \A n \in 0..(MaxMessages - 1) :
        received > n ~> completed > n \/ destroyed \/ Unanswered
=============================================================================
