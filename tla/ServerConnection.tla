-------------------------- MODULE ServerConnection --------------------------
(***************************************************************************)
(* The MRCPv2 connection agent of the server                               *)
(* (libs/mrcpv2-transport/src/mrcp_server_connection.c, mrcp_connection.c) *)
(* and the life of connections and control channels between three parties: *)
(*                                                                         *)
(*   - the agent, a poller task: it accepts TCP connections, associates    *)
(*     the control channels with them that messages name, and closes       *)
(*     connections when the peer or a timer says so,                       *)
(*   - the server task, whose sessions add, modify and remove control      *)
(*     channels by messages to the agent, and destroy them,                *)
(*   - the client, which connects, sends messages and disconnects, and the *)
(*     SIP agent, which terminates sessions.                               *)
(*                                                                         *)
(* A connection is memory of its own (a pool).  It is freed by the agent,  *)
(* when it closes the connection and no channel uses it, or else by the    *)
(* server task, when it destroys the channel that used it last.            *)
(*                                                                         *)
(* A timer that is set may expire at any time: the agent does not depend   *)
(* on how long its timers run.  The connection type of the answer to an    *)
(* offer is left out; the client may use any connection for any channel.   *)
(***************************************************************************)
EXTENDS Integers, Sequences, FiniteSets

CONSTANTS
    Sessions,            \* MRCP sessions
    Channels,            \* control channels
    ChannelsOf,          \* the channels of each session, in their order
    Connections,         \* TCP connections, each used once
    InactivityTimeout,   \* TRUE: agent->inactivity_timeout is not 0
    TerminationTimeout,  \* TRUE: agent->termination_timeout is not 0
    MaxReceived,         \* bound: messages received from the client
    MaxModified          \* bound: re-offers

NULL == "NULL"

ASSUME ConnectionConstantsAssumption ==
    /\ ChannelsOf \in [Sessions -> Seq(Channels)]
    /\ \A ch \in Channels : \E s \in Sessions :
          \E i \in DOMAIN ChannelsOf[s] : ChannelsOf[s][i] = ch
    /\ \A s, t \in Sessions : \A i \in DOMAIN ChannelsOf[s], j \in DOMAIN ChannelsOf[t] :
          ChannelsOf[s][i] = ChannelsOf[t][j] => s = t /\ i = j
    /\ NULL \notin Connections
    /\ InactivityTimeout \in BOOLEAN /\ TerminationTimeout \in BOOLEAN
    /\ MaxReceived \in Nat /\ MaxModified \in Nat

Own(s) == {ChannelsOf[s][i] : i \in DOMAIN ChannelsOf[s]}
SessionOf(ch) == CHOOSE s \in Sessions : ch \in Own(s)

AgentMessage == [type : {"ADD", "MODIFY", "REMOVE", "SEND"}, channel : Channels]
ServerMessage ==
    [type : {"ADD", "MODIFY", "REMOVE", "RECEIVE", "DISCONNECT"}, channel : Channels]

VARIABLES
    \* mrcp_connection_agent_t
    connection_list,   \* connections in the ring of the agent
    pending,           \* pending_channel_table
    \* mrcp_connection_t
    sock,              \* "none", "open" or "closed"
    access_count,
    channel_table,
    timers,            \* the timers of a connection that are set
    freed,             \* how often the pool of a connection was destroyed
    \* mrcp_control_channel_t
    connection,        \* connection of a channel
    removed,
    destroyed,         \* the channel was destroyed, with its session
    \* messages between the tasks
    agent_queue,       \* to the connection agent
    server_queue,      \* to the server task
    \* mrcp_server_session_t
    state,             \* stage of each session
    waiting,           \* channels whose waiting_for_channel is set
    bye,               \* sessions the SIP agent was asked to terminate
    received, modified

agent_vars == <<connection_list, pending>>
conn_vars == <<sock, access_count, channel_table, timers, freed>>
channel_vars == <<connection, removed, destroyed>>
session_vars == <<state, waiting, bye, modified>>
vars == <<agent_vars, conn_vars, channel_vars, agent_queue, server_queue,
          session_vars, received>>

Init ==
    /\ connection_list = {} /\ pending = {}
    /\ sock = [c \in Connections |-> "none"]
    /\ access_count = [c \in Connections |-> 0]
    /\ channel_table = [c \in Connections |-> {}]
    /\ timers = [c \in Connections |-> {}]
    /\ freed = [c \in Connections |-> 0]
    /\ connection = [ch \in Channels |-> NULL]
    /\ removed = [ch \in Channels |-> FALSE]
    /\ destroyed = [ch \in Channels |-> FALSE]
    /\ agent_queue = <<>> /\ server_queue = <<>>
    /\ state = [s \in Sessions |-> "idle"]
    /\ waiting = {} /\ bye = {}
    /\ received = 0 /\ modified = 0

-----------------------------------------------------------------------------
(* The server task.                                                        *)

(* A request for every channel of a session, sent in one handler.          *)
ToAgent(type, s) ==
    agent_queue' = agent_queue \o [i \in DOMAIN ChannelsOf[s] |->
                                       [type |-> type, channel |-> ChannelsOf[s][i]]]

(* The first offer creates the channels and adds them, a later one         *)
(* modifies them.  A session processes one signaling message at a time.    *)
ServerOffer(s) ==
    /\ state[s] = "idle"
    /\ state' = [state EXCEPT ![s] = "answering"]
    /\ waiting' = waiting \cup Own(s)
    /\ ToAgent("ADD", s)
    /\ UNCHANGED <<agent_vars, conn_vars, channel_vars, server_queue, bye, modified,
                   received>>
ServerReoffer(s) ==
    /\ state[s] = "open"
    /\ modified < MaxModified
    /\ modified' = modified + 1
    /\ state' = [state EXCEPT ![s] = "modifying"]
    /\ waiting' = waiting \cup Own(s)
    /\ ToAgent("MODIFY", s)
    /\ UNCHANGED <<agent_vars, conn_vars, channel_vars, server_queue, bye, received>>

(* mrcp_server_session_terminate_process: the client or the SIP agent ends *)
(* the session.                                                            *)
ServerTerminate(s) ==
    /\ state[s] = "open"
    /\ state' = [state EXCEPT ![s] = "terminating"]
    /\ waiting' = waiting \cup Own(s)
    /\ ToAgent("REMOVE", s)
    /\ UNCHANGED <<agent_vars, conn_vars, channel_vars, server_queue, bye, modified,
                   received>>

(* mrcp_server_session_terminate_send, when the last subrequest has been   *)
(* answered: every control channel is destroyed, and with it the           *)
(* connection it was left with (mrcp_server_control_channel_destroy).      *)
ServerTerminateSend(s) ==
    /\ state[s] = "terminating"
    /\ waiting \cap Own(s) = {}
    /\ state' = [state EXCEPT ![s] = "gone"]
    /\ freed' = [c \in Connections |-> freed[c] + Cardinality(
                     {ch \in Own(s) : removed[ch] /\ connection[ch] = c})]
    /\ connection' = [ch \in Channels |->
                         IF ch \in Own(s) /\ removed[ch] THEN NULL ELSE connection[ch]]
    /\ destroyed' = [ch \in Channels |-> destroyed[ch] \/ ch \in Own(s)]
    /\ UNCHANGED <<agent_vars, sock, access_count, channel_table, timers, removed,
                   agent_queue, server_queue, waiting, bye, modified, received>>

(* The server task takes a message of the agent.  A response ends the wait *)
(* for its channel; the session is answered when it waits for none.        *)
TakeServerMessage(type) ==
    /\ server_queue # <<>>
    /\ Head(server_queue).type = type
    /\ server_queue' = Tail(server_queue)
    /\ UNCHANGED <<agent_vars, conn_vars, channel_vars, modified, received>>
OnChannelResponse(type) ==
    LET ch == Head(server_queue).channel
        s == SessionOf(ch)
    IN /\ TakeServerMessage(type)
       /\ waiting' = waiting \ {ch}
       /\ state' = IF state[s] \in {"answering", "modifying"} /\ waiting' \cap Own(s) = {}
                   THEN [state EXCEPT ![s] = "open"] ELSE state
       /\ UNCHANGED <<agent_queue, bye>>
OnChannelModify == \E type \in {"ADD", "MODIFY"} : OnChannelResponse(type)
OnChannelRemove == OnChannelResponse("REMOVE")

(* A request is answered by the session, unless it waits behind another    *)
(* signaling message or the session ends.                                  *)
OnChannelMessage ==
    LET ch == Head(server_queue).channel
    IN /\ TakeServerMessage("RECEIVE")
       /\ agent_queue' = IF state[SessionOf(ch)] = "open"
                         THEN Append(agent_queue, [type |-> "SEND", channel |-> ch])
                         ELSE agent_queue
       /\ UNCHANGED <<state, waiting, bye>>

(* mrcp_server_on_disconnect: the SIP agent is told to end the session.    *)
OnDisconnect ==
    LET s == SessionOf(Head(server_queue).channel)
    IN /\ TakeServerMessage("DISCONNECT")
       /\ bye' = IF state[s] = "terminating" THEN bye ELSE bye \cup {s}
       /\ UNCHANGED <<agent_queue, state, waiting>>

-----------------------------------------------------------------------------
(* The connection agent: messages of the server task.                      *)

TakeAgentMessage(type) ==
    /\ agent_queue # <<>>
    /\ Head(agent_queue).type = type
    /\ agent_queue' = Tail(agent_queue)
    /\ UNCHANGED <<session_vars, received>>
Request == Head(agent_queue).channel
Respond == server_queue' = Append(server_queue, Head(agent_queue))

AgentChannelAdd ==
    /\ TakeAgentMessage("ADD")
    /\ pending' = pending \cup {Request}
    /\ Respond
    /\ UNCHANGED <<connection_list, conn_vars, channel_vars>>

AgentChannelModify ==
    /\ TakeAgentMessage("MODIFY")
    /\ Respond
    /\ UNCHANGED <<agent_vars, conn_vars, channel_vars>>

(* The last channel of a closed connection keeps it, to be destroyed with  *)
(* the channel, and its termination timer is killed.                       *)
RemoveKeepsTimer(c) ==    \* defect: the termination timer is not killed
    /\ channel_table' = [channel_table EXCEPT ![c] = @ \ {Request}]
    /\ access_count' = [access_count EXCEPT ![c] = @ - 1]
    /\ IF access_count[c] = 1 /\ sock[c] = "closed"
       THEN /\ removed' = [removed EXCEPT ![Request] = TRUE]
            /\ UNCHANGED <<connection, timers>>
       ELSE /\ connection' = [connection EXCEPT ![Request] = NULL]
            /\ UNCHANGED <<removed, timers>>
RemoveForgetsConnection(c) ==    \* defect: the connection is never marked
    /\ channel_table' = [channel_table EXCEPT ![c] = @ \ {Request}]
    /\ access_count' = [access_count EXCEPT ![c] = @ - 1]
    /\ connection' = [connection EXCEPT ![Request] = NULL]
    /\ UNCHANGED <<removed, timers>>
RemoveFromConnection(c) ==
    /\ channel_table' = [channel_table EXCEPT ![c] = @ \ {Request}]
    /\ access_count' = [access_count EXCEPT ![c] = @ - 1]
    /\ IF access_count[c] = 1 /\ sock[c] = "closed"
       THEN /\ removed' = [removed EXCEPT ![Request] = TRUE]
            /\ timers' = [timers EXCEPT ![c] = @ \ {"termination"}]
            /\ UNCHANGED connection
       ELSE /\ connection' = [connection EXCEPT ![Request] = NULL]
            /\ UNCHANGED <<removed, timers>>
AgentRemoveLeavesPending ==    \* defect: the pending table is not cleaned
    /\ TakeAgentMessage("REMOVE")
    /\ IF connection[Request] # NULL
       THEN RemoveFromConnection(connection[Request])
       ELSE UNCHANGED <<channel_table, access_count, connection, removed, timers>>
    /\ Respond
    /\ UNCHANGED <<connection_list, pending, sock, freed, destroyed>>
AgentChannelRemove ==
    /\ TakeAgentMessage("REMOVE")
    /\ IF connection[Request] # NULL
       THEN /\ RemoveFromConnection(connection[Request])
            /\ UNCHANGED pending
       ELSE /\ pending' = pending \ {Request}
            /\ UNCHANGED <<channel_table, access_count, connection, removed, timers>>
    /\ Respond
    /\ UNCHANGED <<connection_list, sock, freed, destroyed>>

(* A message is written to the socket of the channel's connection, if      *)
(* there is one.                                                           *)
AgentMessageSend ==
    /\ TakeAgentMessage("SEND")
    /\ UNCHANGED <<agent_vars, conn_vars, channel_vars, server_queue>>

-----------------------------------------------------------------------------
(* The connection agent: sockets and timers.                               *)

(* A connection nobody waits for is rejected: nothing changes.             *)
AgentAccept(c) ==
    /\ sock[c] = "none"
    /\ pending # {}
    /\ sock' = [sock EXCEPT ![c] = "open"]
    /\ connection_list' = connection_list \cup {c}
    /\ timers' = [timers EXCEPT ![c] = IF InactivityTimeout THEN {"inactivity"} ELSE {}]
    /\ UNCHANGED <<pending, access_count, channel_table, freed, channel_vars,
                   agent_queue, server_queue, session_vars, received>>

(* A message for channel ch arrives on c: mrcp_connection_channel_associate*)
(* moves a pending channel to the connection; the inactivity timer is set  *)
(* again.  The client names channels it got an answer for.                 *)
AgentReceive(c, ch) ==
    /\ sock[c] = "open"
    /\ ch \in channel_table[c] \cup pending
    /\ state[SessionOf(ch)] \notin {"idle", "answering"}
    /\ received < MaxReceived
    /\ received' = received + 1
    /\ IF ch \in channel_table[c]
       THEN UNCHANGED <<pending, channel_table, connection, access_count>>
       ELSE /\ pending' = pending \ {ch}
            /\ channel_table' = [channel_table EXCEPT ![c] = @ \cup {ch}]
            /\ connection' = [connection EXCEPT ![ch] = c]
            /\ access_count' = [access_count EXCEPT ![c] = @ + 1]
    /\ timers' = IF InactivityTimeout
                 THEN [timers EXCEPT ![c] = @ \cup {"inactivity"}] ELSE timers
    /\ server_queue' = Append(server_queue, [type |-> "RECEIVE", channel |-> ch])
    /\ UNCHANGED <<connection_list, sock, freed, removed, destroyed, agent_queue,
                   session_vars>>

(* mrcp_connection_disconnect_raise: in the order of the hash table, any.  *)
DisconnectRaise(c) ==
    \E order \in [1..Cardinality(channel_table[c]) -> channel_table[c]] :
        /\ \A ch \in channel_table[c] : \E i \in DOMAIN order : order[i] = ch
        /\ server_queue' = server_queue \o [i \in DOMAIN order |->
                               [type |-> "DISCONNECT", channel |-> order[i]]]

(* mrcp_server_agent_connection_close                                      *)
CloseTellsNobody(c, timedout) ==    \* defect: no termination timer is set
    /\ sock' = [sock EXCEPT ![c] = "closed"]
    /\ connection_list' = connection_list \ {c}
    /\ timers' = [timers EXCEPT ![c] = @ \ {"inactivity"}]
    /\ freed' = [freed EXCEPT ![c] = @ + (IF access_count[c] = 0 THEN 1 ELSE 0)]
    /\ IF timedout THEN DisconnectRaise(c) ELSE UNCHANGED server_queue
ConnectionClose(c, timedout) ==
    /\ sock' = [sock EXCEPT ![c] = "closed"]
    /\ connection_list' = connection_list \ {c}
    /\ timers' = [timers EXCEPT ![c] =
           (@ \ {"inactivity"}) \cup
           (IF access_count[c] > 0 /\ ~timedout /\ TerminationTimeout
            THEN {"termination"} ELSE {})]
    /\ freed' = [freed EXCEPT ![c] = @ + (IF access_count[c] = 0 THEN 1 ELSE 0)]
    /\ IF access_count[c] > 0 /\ timedout
       THEN DisconnectRaise(c) ELSE UNCHANGED server_queue
Close(c, timedout) ==
    /\ ConnectionClose(c, timedout)
    /\ UNCHANGED <<pending, access_count, channel_table, channel_vars, agent_queue,
                   session_vars, received>>

(* The peer disconnects, or the inactivity timer expires.                  *)
AgentPeerDisconnected(c) == sock[c] = "open" /\ Close(c, FALSE)
InactivityTimerProc(c) == "inactivity" \in timers[c] /\ Close(c, TRUE)

(* The termination timer expires: nobody removed the channels in time.     *)
TerminationTimerProc(c) ==
    /\ "termination" \in timers[c]
    /\ timers' = [timers EXCEPT ![c] = @ \ {"termination"}]
    /\ DisconnectRaise(c)
    /\ UNCHANGED <<agent_vars, sock, access_count, channel_table, freed, channel_vars,
                   agent_queue, session_vars, received>>

-----------------------------------------------------------------------------
Server ==
    \/ OnChannelModify \/ OnChannelRemove \/ OnChannelMessage \/ OnDisconnect
Agent ==
    \/ AgentChannelAdd \/ AgentChannelModify \/ AgentChannelRemove \/ AgentMessageSend

Next ==
    \/ Server \/ Agent
    \/ \E s \in Sessions :
          \/ ServerOffer(s) \/ ServerReoffer(s)
          \/ ServerTerminate(s) \/ ServerTerminateSend(s)
    \/ \E c \in Connections :
          \/ AgentAccept(c) \/ AgentPeerDisconnected(c)
          \/ \E ch \in Channels : AgentReceive(c, ch)
          \/ InactivityTimerProc(c) \/ TerminationTimerProc(c)

(* Both tasks process their messages, a termination that all parties have  *)
(* answered is completed, a timer that is set expires, and the SIP agent   *)
(* terminates a session it was asked to terminate.  Nothing is assumed of  *)
(* the client.                                                             *)
Fairness ==
    /\ WF_vars(Server) /\ WF_vars(Agent)
    /\ \A s \in Sessions :
          WF_vars(ServerTerminateSend(s)) /\ WF_vars(s \in bye /\ ServerTerminate(s))
    /\ \A c \in Connections : WF_vars(TerminationTimerProc(c))

Spec == Init /\ [][Next]_vars /\ Fairness

-----------------------------------------------------------------------------
(* The types of the variables.                                             *)
TypeOK ==
    /\ connection_list \subseteq Connections
    /\ pending \subseteq Channels
    /\ sock \in [Connections -> {"none", "open", "closed"}]
    /\ access_count \in [Connections -> Nat]
    /\ channel_table \in [Connections -> SUBSET Channels]
    /\ timers \in [Connections -> SUBSET {"inactivity", "termination"}]
    /\ freed \in [Connections -> Nat]
    /\ connection \in [Channels -> Connections \cup {NULL}]
    /\ removed \in [Channels -> BOOLEAN]
    /\ destroyed \in [Channels -> BOOLEAN]
    /\ agent_queue \in Seq(AgentMessage)
    /\ server_queue \in Seq(ServerMessage)
    /\ state \in [Sessions ->
          {"idle", "answering", "open", "modifying", "terminating", "gone"}]
    /\ waiting \subseteq Channels
    /\ bye \subseteq Sessions
    /\ received \in 0..MaxReceived
    /\ modified \in 0..MaxModified

(* A connection that is freed, by either task, is out of reach of the      *)
(* other: it is in no list, none of its timers is set, no channel that     *)
(* lives refers to it (mrcp_server_connection.c 282 and 657).              *)
NoUseAfterFree ==
    \A c \in Connections : freed[c] > 0 =>
        /\ c \notin connection_list
        /\ timers[c] = {}
        /\ channel_table[c] = {}
        /\ \A ch \in Channels : ~destroyed[ch] => connection[ch] # c

(* When the server task destroys the channels of a session, the agent has  *)
(* let go of them: no table and no message in either direction names them  *)
(* (mrcp_server_session.c 982; the session waited for the answers to       *)
(* REMOVE only).                                                           *)
NoMessageAfterDestroy ==
    \A ch \in Channels : destroyed[ch] =>
        /\ ch \notin pending
        /\ \A c \in Connections : ch \notin channel_table[c]
        /\ \A i \in DOMAIN agent_queue : agent_queue[i].channel # ch
        /\ \A i \in DOMAIN server_queue : server_queue[i].channel # ch

(* No connection is freed twice, and a closed one is freed, still used by  *)
(* some channel, or left to exactly one channel that will free it          *)
(* (mrcp_server_connection.c 536 and 645).                                 *)
Keepers(c) == {ch \in Channels : removed[ch] /\ connection[ch] = c}
ClosedIsOwned ==
    \A c \in Connections :
        /\ sock[c] = "closed" =>
              freed[c] + Cardinality(Keepers(c))
                  = (IF channel_table[c] = {} THEN 1 ELSE 0)
        /\ sock[c] # "closed" => freed[c] = 0 /\ Keepers(c) = {}

(* A closed connection is freed at last, whatever the client does: the     *)
(* termination timer or the expired inactivity timer makes the sessions    *)
(* end that still use it (mrcp_server_connection.c 549 and 590).           *)
ClosedIsFreed ==
    \A c \in Connections : sock[c] = "closed" ~> freed[c] = 1
=============================================================================
