----------------------- MODULE ServerConnectionProofs -----------------------
(***************************************************************************)
(* The connection agent for any number of sessions, channels and           *)
(* connections: no connection is used after it is freed or freed twice,    *)
(* and no message names a channel that was destroyed.                      *)
(***************************************************************************)
EXTENDS ServerConnection, FiniteSetTheorems, TLAPS

Control == {"ADD", "MODIFY", "REMOVE"}

(* The tables of the agent agree with what the channels point at.          *)
Tables ==
    /\ \A ch \in Channels, c \in Connections :
          ch \in channel_table[c] <=> connection[ch] = c /\ ~removed[ch]
    /\ \A ch \in pending : connection[ch] = NULL /\ ~removed[ch]
    /\ \A c \in Connections :
          IsFiniteSet(channel_table[c]) /\ access_count[c] = Cardinality(channel_table[c])

(* The sockets, the ring of the agent and the timers agree.                *)
Sockets ==
    \A c \in Connections :
        /\ c \in connection_list <=> sock[c] = "open"
        /\ "inactivity" \in timers[c] => sock[c] = "open"
        /\ "termination" \in timers[c] => sock[c] = "closed" /\ channel_table[c] # {}
        /\ sock[c] = "none" => channel_table[c] = {}

(* Who has to free a connection: nobody yet, the one channel it was left   *)
(* to, or nobody any more.                                                 *)
Keeps(ch, c) == removed[ch] /\ connection[ch] = c
Owned ==
    \A c \in Connections :
        /\ freed[c] \in {0, 1}
        /\ sock[c] # "closed" \/ channel_table[c] # {} => freed[c] = 0
        /\ \A ch \in Channels : Keeps(ch, c) =>
              /\ sock[c] = "closed" /\ channel_table[c] = {} /\ freed[c] = 0
              /\ \A other \in Channels : Keeps(other, c) => other = ch
        /\ sock[c] = "closed" /\ channel_table[c] = {} /\ freed[c] = 0 =>
              \E ch \in Channels : Keeps(ch, c)

(* The messages of a queue.                                                *)
Msgs(q) == {q[i] : i \in DOMAIN q}

(* A queue is orderly when a session waits for each of the requests and    *)
(* responses in it, there is one of them for each channel, REMOVE is the   *)
(* last word on its channel, and the session is at the stage of the        *)
(* request.                                                                *)
Orderly(q, w, st) ==
    /\ \A i \in DOMAIN q : q[i].type \in Control => q[i].channel \in w
    /\ \A i, j \in DOMAIN q :
          q[i].type \in Control /\ q[j].type \in Control /\ i # j
             => q[i].channel # q[j].channel
    /\ \A i, j \in DOMAIN q : i < j /\ q[i].type = "REMOVE" => q[j].channel # q[i].channel
    /\ \A i \in DOMAIN q :
          /\ q[i].type = "REMOVE" => st[SessionOf(q[i].channel)] = "terminating"
          /\ q[i].type \in {"ADD", "MODIFY"} =>
                st[SessionOf(q[i].channel)] \in {"answering", "modifying"}

(* The agent has let go of channel ch, and will not hear of it again.      *)
Released(ch) ==
    /\ ch \notin pending
    /\ \A c \in Connections : ch \notin channel_table[c]
    /\ \A m \in Msgs(agent_queue) : m.channel # ch

(* The server task has no message about ch.                                *)
Silent(ch) == \A m \in Msgs(server_queue) : m.channel # ch

(* Both queues are orderly, together too; a channel is added once, and     *)
(* the agent has let go of a channel when it answers REMOVE.               *)
Queues ==
    /\ Orderly(agent_queue, waiting, state)
    /\ Orderly(server_queue, waiting, state)
    /\ \A m \in Msgs(agent_queue), n \in Msgs(server_queue) :
          m.type \in Control /\ n.type \in Control => m.channel # n.channel
    /\ \A m \in Msgs(agent_queue) : m.type = "ADD" =>
          connection[m.channel] = NULL /\ ~removed[m.channel] /\ m.channel \notin pending
    /\ \A m \in Msgs(server_queue) : m.type = "REMOVE" => Released(m.channel)

(* What the stage of its session says of a channel.                        *)
Stages ==
    \A ch \in Channels :
        LET st == state[SessionOf(ch)] IN
        /\ st = "idle" => /\ Released(ch) /\ Silent(ch) /\ ch \notin waiting
                          /\ connection[ch] = NULL /\ ~removed[ch]
        /\ st = "open" => ch \notin waiting
        /\ st = "terminating" /\ ch \notin waiting => Released(ch) /\ Silent(ch)
        /\ st = "gone" => Released(ch) /\ Silent(ch) /\ ch \notin waiting
        /\ removed[ch] => st \in {"terminating", "gone"} /\ Released(ch)
        /\ destroyed[ch] => st = "gone"

IInv == TypeOK /\ Tables /\ Sockets /\ Owned /\ Queues /\ Stages

-----------------------------------------------------------------------------
(* Every channel belongs to one session.                                   *)
LEMMA SessionOfIs ==
    /\ \A s \in Sessions : Own(s) \subseteq Channels
    /\ \A ch \in Channels : SessionOf(ch) \in Sessions /\ ch \in Own(SessionOf(ch))
    /\ \A s \in Sessions : \A ch \in Own(s) : SessionOf(ch) = s
<1>1. \A s \in Sessions : Own(s) \subseteq Channels
  BY ConnectionConstantsAssumption DEF Own
<1>2. \A ch \in Channels : \E s \in Sessions : ch \in Own(s)
  BY ConnectionConstantsAssumption DEF Own
<1>3. \A ch \in Channels : SessionOf(ch) \in Sessions /\ ch \in Own(SessionOf(ch))
  BY <1>2 DEF SessionOf
<1>4. \A s, t \in Sessions : \A ch : ch \in Own(s) /\ ch \in Own(t) => s = t
  BY ConnectionConstantsAssumption DEF Own
<1>5. \A s \in Sessions : \A ch \in Own(s) : SessionOf(ch) = s
  BY <1>1, <1>3, <1>4
<1> QED
  BY <1>1, <1>3, <1>5

(* The requests of one handler, one for each channel of the session.       *)
Asked(type, s) == [i \in DOMAIN ChannelsOf[s] |-> [type |-> type, channel |-> ChannelsOf[s][i]]]

(* The control messages of one fan-out: one per channel of the session, in *)
(* order.                                                                  *)
LEMMA AskedIs ==
    ASSUME NEW s \in Sessions, NEW type \in Control
    PROVE  /\ Asked(type, s) \in Seq(AgentMessage)
           /\ DOMAIN Asked(type, s) = DOMAIN ChannelsOf[s]
           /\ \A i \in DOMAIN Asked(type, s) :
                 Asked(type, s)[i] = [type |-> type, channel |-> ChannelsOf[s][i]]
           /\ \A m \in Msgs(Asked(type, s)) : m.type = type /\ m.channel \in Own(s)
<1>1. ChannelsOf[s] \in Seq(Channels)
  BY ConnectionConstantsAssumption
<1>2. /\ DOMAIN ChannelsOf[s] = 1..Len(ChannelsOf[s]) /\ Len(ChannelsOf[s]) \in Nat
      /\ \A i \in DOMAIN ChannelsOf[s] : ChannelsOf[s][i] \in Channels
  BY <1>1
<1>3. \A i \in DOMAIN ChannelsOf[s] :
         [type |-> type, channel |-> ChannelsOf[s][i]] \in AgentMessage
  BY <1>2 DEF AgentMessage, Control
<1>4. Asked(type, s) \in Seq(AgentMessage)
  BY <1>2, <1>3 DEF Asked
<1>5. /\ DOMAIN Asked(type, s) = DOMAIN ChannelsOf[s]
      /\ \A i \in DOMAIN Asked(type, s) :
            Asked(type, s)[i] = [type |-> type, channel |-> ChannelsOf[s][i]]
  BY DEF Asked
<1>6. ASSUME NEW m \in Msgs(Asked(type, s))
      PROVE  m.type = type /\ m.channel \in Own(s)
  <2>1. PICK i \in DOMAIN Asked(type, s) : m = Asked(type, s)[i]
    BY DEF Msgs
  <2>2. m = [type |-> type, channel |-> ChannelsOf[s][i]] /\ i \in DOMAIN ChannelsOf[s]
    BY <1>5, <2>1
  <2> QED
    BY <2>2 DEF Own
<1> QED
  BY <1>4, <1>5, <1>6

-----------------------------------------------------------------------------
(* Queues.                                                                 *)

(* What is left of a message queue once its first message is taken.        *)
LEMMA TailIs ==
    ASSUME NEW M, NEW q \in Seq(M), q # <<>>
    PROVE  /\ Tail(q) \in Seq(M) /\ Head(q) \in M
           /\ DOMAIN q = 1..Len(q) /\ Len(q) \in Nat /\ 1 \in DOMAIN q /\ Head(q) = q[1]
           /\ DOMAIN Tail(q) = 1..(Len(q) - 1)
           /\ \A i \in DOMAIN Tail(q) : i + 1 \in DOMAIN q /\ Tail(q)[i] = q[i + 1]
           /\ Msgs(Tail(q)) \subseteq Msgs(q) /\ Head(q) \in Msgs(q)
           /\ Msgs(q) = Msgs(Tail(q)) \cup {Head(q)}
<1>1. /\ Tail(q) \in Seq(M) /\ Head(q) \in M
      /\ DOMAIN q = 1..Len(q) /\ Len(q) \in Nat /\ 1 \in DOMAIN q /\ Head(q) = q[1]
      /\ DOMAIN Tail(q) = 1..(Len(q) - 1)
  OBVIOUS
<1>2. \A i \in DOMAIN Tail(q) : i + 1 \in DOMAIN q /\ Tail(q)[i] = q[i + 1]
  OBVIOUS
<1>3. Msgs(Tail(q)) \subseteq Msgs(q) /\ Head(q) \in Msgs(q)
  BY <1>1, <1>2 DEF Msgs
<1>4. ASSUME NEW i \in DOMAIN q, i # 1
      PROVE  q[i] \in Msgs(Tail(q))
  <2>1. i - 1 \in DOMAIN Tail(q) /\ i \in Int
    BY <1>1, <1>4
  <2>2. Tail(q)[i - 1] = q[i]
    BY <2>1, <1>2
  <2> QED
    BY <2>1, <2>2 DEF Msgs
<1>5. Msgs(q) \subseteq Msgs(Tail(q)) \cup {Head(q)}
  BY <1>1, <1>4 DEF Msgs
<1> QED
  BY <1>1, <1>2, <1>3, <1>5

(* A message queue with messages added behind: the old ones keep their     *)
(* places.                                                                 *)
LEMMA JoinIs ==
    ASSUME NEW M, NEW q \in Seq(M), NEW f \in Seq(M)
    PROVE  /\ q \o f \in Seq(M)
           /\ \A i \in DOMAIN (q \o f) :
                 \/ i \in DOMAIN q /\ (q \o f)[i] = q[i]
                 \/ i > Len(q) /\ i - Len(q) \in DOMAIN f /\ (q \o f)[i] = f[i - Len(q)]
           /\ DOMAIN q = 1..Len(q) /\ Len(q) \in Nat /\ DOMAIN (q \o f) \subseteq Nat
           /\ Msgs(q \o f) = Msgs(q) \cup Msgs(f)
<1>1. /\ q \o f \in Seq(M) /\ DOMAIN q = 1..Len(q) /\ Len(q) \in Nat
      /\ DOMAIN f = 1..Len(f) /\ Len(f) \in Nat
      /\ Len(q \o f) = Len(q) + Len(f) /\ DOMAIN (q \o f) = 1..(Len(q) + Len(f))
  OBVIOUS
<1>2. \A i \in 1..(Len(q) + Len(f)) :
         (q \o f)[i] = IF i <= Len(q) THEN q[i] ELSE f[i - Len(q)]
  OBVIOUS
<1>3. ASSUME NEW i \in DOMAIN (q \o f)
      PROVE  \/ i \in DOMAIN q /\ (q \o f)[i] = q[i]
             \/ i > Len(q) /\ i - Len(q) \in DOMAIN f /\ (q \o f)[i] = f[i - Len(q)]
  <2>1. CASE i <= Len(q)
    BY <1>1, <1>2, <2>1
  <2>2. CASE i > Len(q)
    BY <1>1, <1>2, <2>2
  <2> QED
    BY <1>1, <2>1, <2>2
<1>4. Msgs(q \o f) \subseteq Msgs(q) \cup Msgs(f)
  BY <1>3 DEF Msgs
<1>5. ASSUME NEW i \in DOMAIN q PROVE q[i] \in Msgs(q \o f)
  <2>1. i \in DOMAIN (q \o f) /\ (q \o f)[i] = q[i]
    BY <1>1, <1>2
  <2> QED
    BY <2>1 DEF Msgs
<1>6. ASSUME NEW i \in DOMAIN f PROVE f[i] \in Msgs(q \o f)
  <2>1. /\ Len(q) + i \in 1..(Len(q) + Len(f)) /\ ~(Len(q) + i <= Len(q))
        /\ (Len(q) + i) - Len(q) = i
    BY <1>1
  <2>2. (q \o f)[Len(q) + i] = f[i]
    BY <1>2, <2>1
  <2> QED
    BY <1>1, <2>1, <2>2 DEF Msgs
<1>7. Msgs(q) \cup Msgs(f) \subseteq Msgs(q \o f)
  BY <1>5, <1>6 DEF Msgs
<1> QED
  BY <1>1, <1>3, <1>4, <1>7

(* Appending a message is joining a queue of one.                          *)
LEMMA OneIs ==
    ASSUME NEW M, NEW q \in Seq(M), NEW x \in M
    PROVE  /\ Append(q, x) = q \o <<x>> /\ <<x>> \in Seq(M)
           /\ DOMAIN <<x>> = {1} /\ <<x>>[1] = x /\ Msgs(<<x>>) = {x}
<1>1. /\ Append(q, x) = q \o <<x>> /\ <<x>> \in Seq(M)
      /\ DOMAIN <<x>> = {1} /\ <<x>>[1] = x
  OBVIOUS
<1> QED
  BY <1>1 DEF Msgs

(* Taking the first message of an orderly queue.                           *)
LEMMA OrderlyTail ==
    ASSUME NEW M, NEW q \in Seq(M), q # <<>>, NEW w, NEW st, Orderly(q, w, st)
    PROVE  /\ Orderly(Tail(q), w, st)
           /\ Head(q).type \in Control =>
                 \A m \in Msgs(Tail(q)) : m.type \in Control => m.channel # Head(q).channel
           /\ Head(q).type = "REMOVE" =>
                 \A m \in Msgs(Tail(q)) : m.channel # Head(q).channel
<1>1. /\ DOMAIN q = 1..Len(q) /\ Len(q) \in Nat /\ 1 \in DOMAIN q /\ Head(q) = q[1]
      /\ DOMAIN Tail(q) = 1..(Len(q) - 1)
      /\ \A i \in DOMAIN Tail(q) : i + 1 \in DOMAIN q /\ Tail(q)[i] = q[i + 1]
  BY TailIs
<1>2. \A i, j \in DOMAIN Tail(q) :
         /\ i \in Int /\ j \in Int /\ (i # j => i + 1 # j + 1) /\ (i < j => i + 1 < j + 1)
         /\ 1 < i + 1 /\ 1 # i + 1
  BY <1>1
<1>3. Orderly(Tail(q), w, st)
  BY <1>1, <1>2 DEF Orderly
<1>4. \A i \in DOMAIN Tail(q) :
         /\ Head(q).type \in Control /\ Tail(q)[i].type \in Control
               => Tail(q)[i].channel # Head(q).channel
         /\ Head(q).type = "REMOVE" => Tail(q)[i].channel # Head(q).channel
  BY <1>1, <1>2 DEF Orderly
<1> QED
  BY <1>3, <1>4 DEF Msgs

(* Appending messages to an orderly queue.                                 *)
LEMMA OrderlyJoin ==
    ASSUME NEW M, NEW q \in Seq(M), NEW f \in Seq(M), NEW w, NEW st,
           Orderly(q, w, st), Orderly(f, w, st),
           \A m \in Msgs(q), n \in Msgs(f) :
               m.type = "REMOVE" \/ (m.type \in Control /\ n.type \in Control)
                  => m.channel # n.channel
    PROVE  Orderly(q \o f, w, st)
<1> DEFINE r == q \o f
<1>1. /\ \A i \in DOMAIN r :
           \/ i \in DOMAIN q /\ r[i] = q[i]
           \/ i > Len(q) /\ i - Len(q) \in DOMAIN f /\ r[i] = f[i - Len(q)]
      /\ DOMAIN q = 1..Len(q) /\ Len(q) \in Nat /\ DOMAIN r \subseteq Nat
  BY JoinIs
<1>2. \A i \in DOMAIN q, j \in DOMAIN f :
         q[i].type = "REMOVE" \/ (q[i].type \in Control /\ f[j].type \in Control)
            => q[i].channel # f[j].channel
  BY DEF Msgs
<1> HIDE DEF r
<1>3. \A i \in DOMAIN r :
         /\ r[i].type \in Control => r[i].channel \in w
         /\ r[i].type = "REMOVE" => st[SessionOf(r[i].channel)] = "terminating"
         /\ r[i].type \in {"ADD", "MODIFY"} =>
               st[SessionOf(r[i].channel)] \in {"answering", "modifying"}
  BY <1>1 DEF Orderly
<1>4. ASSUME NEW i \in DOMAIN r, NEW j \in DOMAIN r,
             r[i].type \in Control, r[j].type \in Control, i # j
      PROVE  r[i].channel # r[j].channel
  <2>1. CASE i \in DOMAIN q /\ r[i] = q[i] /\ j \in DOMAIN q /\ r[j] = q[j]
    BY <1>4, <2>1 DEF Orderly
  <2>2. CASE i \in DOMAIN q /\ r[i] = q[i] /\ j - Len(q) \in DOMAIN f /\ r[j] = f[j - Len(q)]
    BY <1>2, <1>4, <2>2
  <2>3. CASE j \in DOMAIN q /\ r[j] = q[j] /\ i - Len(q) \in DOMAIN f /\ r[i] = f[i - Len(q)]
    BY <1>2, <1>4, <2>3
  <2>4. CASE /\ i - Len(q) \in DOMAIN f /\ r[i] = f[i - Len(q)]
             /\ j - Len(q) \in DOMAIN f /\ r[j] = f[j - Len(q)]
    <3>1. i - Len(q) # j - Len(q)
      BY <1>1, <1>4
    <3> QED
      BY <1>4, <2>4, <3>1 DEF Orderly
  <2> QED
    BY <1>1, <2>1, <2>2, <2>3, <2>4
<1>5. ASSUME NEW i \in DOMAIN r, NEW j \in DOMAIN r, i < j, r[i].type = "REMOVE"
      PROVE  r[j].channel # r[i].channel
  <2>1. CASE i \in DOMAIN q /\ r[i] = q[i] /\ j \in DOMAIN q /\ r[j] = q[j]
    BY <1>5, <2>1 DEF Orderly
  <2>2. CASE i \in DOMAIN q /\ r[i] = q[i] /\ j - Len(q) \in DOMAIN f /\ r[j] = f[j - Len(q)]
    BY <1>2, <1>5, <2>2
  <2>3. CASE j \in DOMAIN q /\ i > Len(q)
    BY <1>1, <1>5, <2>3
  <2>4. CASE /\ i - Len(q) \in DOMAIN f /\ r[i] = f[i - Len(q)]
             /\ j - Len(q) \in DOMAIN f /\ r[j] = f[j - Len(q)]
    <3>1. i - Len(q) < j - Len(q)
      BY <1>1, <1>5
    <3> QED
      BY <1>5, <2>4, <3>1 DEF Orderly
  <2> QED
    BY <1>1, <2>1, <2>2, <2>3, <2>4
<1>6. Orderly(r, w, st)
  BY <1>3, <1>4, <1>5 DEF Orderly
<1> QED
  BY <1>6 DEF r

(* One message, that is neither a request nor a response, or is one.       *)
LEMMA OrderlyOne ==
    ASSUME NEW M, NEW q \in Seq(M), NEW x \in M, NEW w, NEW st, Orderly(q, w, st),
           \A m \in Msgs(q) :
               m.type = "REMOVE" \/ (m.type \in Control /\ x.type \in Control)
                  => m.channel # x.channel,
           x.type \in Control =>
               /\ x.channel \in w
               /\ x.type = "REMOVE" => st[SessionOf(x.channel)] = "terminating"
               /\ x.type \in {"ADD", "MODIFY"} =>
                     st[SessionOf(x.channel)] \in {"answering", "modifying"}
    PROVE  /\ Append(q, x) \in Seq(M)
           /\ Orderly(Append(q, x), w, st)
           /\ Msgs(Append(q, x)) = Msgs(q) \cup {x}
<1>1. /\ Append(q, x) = q \o <<x>> /\ <<x>> \in Seq(M)
      /\ DOMAIN <<x>> = {1} /\ <<x>>[1] = x /\ Msgs(<<x>>) = {x}
  BY OneIs
<1> DEFINE f == <<x>>
<1>2. DOMAIN f = {1} /\ f[1] = x /\ Msgs(f) = {x} /\ f \in Seq(M)
  BY <1>1
<1> HIDE DEF f
<1>3. Orderly(f, w, st)
  BY <1>2 DEF Orderly, Control
<1>4. Orderly(q \o f, w, st)
  BY <1>2, <1>3, OrderlyJoin
<1>5. q \o f \in Seq(M) /\ Msgs(q \o f) = Msgs(q) \cup {x}
  BY <1>2, JoinIs
<1> QED
  BY <1>1, <1>4, <1>5 DEF f

(* What an orderly queue needs of the sessions.                            *)
LEMMA OrderlyWith ==
    ASSUME NEW q, NEW w, NEW st, NEW w2, NEW st2, Orderly(q, w, st),
           \A m \in Msgs(q) : m.type \in Control =>
               m.channel \in w2 /\ st2[SessionOf(m.channel)] = st[SessionOf(m.channel)]
    PROVE  Orderly(q, w2, st2)
<1>1. \A i \in DOMAIN q : q[i].type \in Control =>
         q[i].channel \in w2 /\ st2[SessionOf(q[i].channel)] = st[SessionOf(q[i].channel)]
  BY DEF Msgs
<1> QED
  BY <1>1 DEF Orderly, Control

-----------------------------------------------------------------------------
(* The server task.                                                        *)

(* The facts about the queues that every step uses.                        *)
LEMMA QueueTypes ==
    ASSUME TypeOK
    PROVE  /\ agent_queue \in Seq(AgentMessage) /\ server_queue \in Seq(ServerMessage)
           /\ \A m \in Msgs(agent_queue) : m \in AgentMessage /\ m.channel \in Channels
           /\ \A m \in Msgs(server_queue) : m \in ServerMessage /\ m.channel \in Channels
<1>1. agent_queue \in Seq(AgentMessage) /\ server_queue \in Seq(ServerMessage)
  BY DEF TypeOK
<1>2. \A m \in AgentMessage : m.channel \in Channels
  BY DEF AgentMessage
<1>3. \A m \in ServerMessage : m.channel \in Channels
  BY DEF ServerMessage
<1>4. ASSUME NEW M, NEW q \in Seq(M) PROVE \A m \in Msgs(q) : m \in M
  BY DEF Msgs
<1> QED
  BY <1>1, <1>2, <1>3, <1>4

(* What an offer or a termination does: the session leaves a stage in      *)
(* which it waits for none of its channels.                                *)
Asks(s, type, next) ==
    /\ state' = [state EXCEPT ![s] = next]
    /\ waiting' = waiting \cup Own(s)
    /\ agent_queue' = agent_queue \o Asked(type, s)
    /\ UNCHANGED <<agent_vars, conn_vars, channel_vars, server_queue, bye, received>>

(* A fan-out to the connection agent, whatever the offer was, keeps the    *)
(* invariant.                                                              *)
LEMMA AsksKeeps ==
    ASSUME IInv, NEW s \in Sessions, NEW type \in Control, NEW next, Asks(s, type, next),
           modified' \in 0..MaxModified,
           \/ state[s] = "idle" /\ type = "ADD" /\ next = "answering"
           \/ state[s] = "open" /\ type = "MODIFY" /\ next = "modifying"
           \/ state[s] = "open" /\ type = "REMOVE" /\ next = "terminating"
    PROVE  IInv'
<1> DEFINE f == Asked(type, s)
<1>1. /\ f \in Seq(AgentMessage) /\ DOMAIN f = DOMAIN ChannelsOf[s]
      /\ \A i \in DOMAIN f : f[i] = [type |-> type, channel |-> ChannelsOf[s][i]]
      /\ \A m \in Msgs(f) : m.type = type /\ m.channel \in Own(s)
  BY AskedIs
<1>2. /\ agent_queue \in Seq(AgentMessage)
      /\ \A m \in Msgs(agent_queue) : m \in AgentMessage /\ m.channel \in Channels
      /\ \A m \in Msgs(server_queue) : m \in ServerMessage /\ m.channel \in Channels
  BY QueueTypes DEF IInv
<1>3. agent_queue' = agent_queue \o f
  BY DEF Asks
<1> HIDE DEF f
<1>4. /\ agent_queue \o f \in Seq(AgentMessage)
      /\ Msgs(agent_queue \o f) = Msgs(agent_queue) \cup Msgs(f)
  BY <1>1, <1>2, JoinIs
<1>5. \A ch \in Own(s) : /\ ch \in Channels /\ SessionOf(ch) = s /\ ch \notin waiting
                         /\ state[SessionOf(ch)] = state[s]
  BY SessionOfIs DEF IInv, Stages
<1>6. /\ state' = [state EXCEPT ![s] = next]
      /\ state \in [Sessions ->
            {"idle", "answering", "open", "modifying", "terminating", "gone"}]
  BY DEF Asks, IInv, TypeOK
<1>7. \A ch \in Channels : /\ ch \in Own(s) => state'[SessionOf(ch)] = next
                           /\ ch \notin Own(s) => state'[SessionOf(ch)] = state[SessionOf(ch)]
  BY <1>6, SessionOfIs
<1>8. /\ \A m \in Msgs(agent_queue) : m.type \in Control => m.channel \notin Own(s)
      /\ \A m \in Msgs(server_queue) : m.type \in Control => m.channel \notin Own(s)
  BY <1>2, <1>5 DEF IInv, Queues, Orderly, Msgs
<1>9. waiting' = waiting \cup Own(s)
  BY DEF Asks
<1>10. Orderly(agent_queue, waiting', state') /\ Orderly(server_queue, waiting', state')
  <2>1. \A m \in Msgs(agent_queue) : m.type \in Control =>
           m.channel \in waiting /\ state'[SessionOf(m.channel)] = state[SessionOf(m.channel)]
    BY <1>2, <1>7, <1>8 DEF IInv, Queues, Orderly, Msgs
  <2>2. \A m \in Msgs(server_queue) : m.type \in Control =>
           m.channel \in waiting /\ state'[SessionOf(m.channel)] = state[SessionOf(m.channel)]
    BY <1>2, <1>7, <1>8 DEF IInv, Queues, Orderly, Msgs
  <2>3. Orderly(agent_queue, waiting, state) /\ Orderly(server_queue, waiting, state)
    BY DEF IInv, Queues
  <2>4. \A m : m \in waiting => m \in waiting'
    BY <1>9
  <2> QED
    BY <2>1, <2>2, <2>3, <2>4, OrderlyWith
<1>11. Orderly(f, waiting', state')
  <2>1. \A i, j \in DOMAIN f : i # j => f[i].channel # f[j].channel
    BY <1>1, ConnectionConstantsAssumption
  <2>2. \A i \in DOMAIN f : f[i] \in Msgs(f)
    BY DEF Msgs
  <2>3. DOMAIN f \subseteq Int
    BY <1>1
  <2>4. \A i \in DOMAIN f : /\ f[i].type = type /\ f[i].channel \in waiting'
                            /\ state'[SessionOf(f[i].channel)] = next
    BY <1>1, <1>5, <1>7, <1>9, <2>2
  <2> QED
    BY <2>1, <2>3, <2>4 DEF Orderly, Control
<1>12. Orderly(agent_queue', waiting', state')
  <2>1. \A m \in Msgs(agent_queue), n \in Msgs(f) :
               m.type = "REMOVE" \/ (m.type \in Control /\ n.type \in Control)
                  => m.channel # n.channel
    BY <1>1, <1>8 DEF Control
  <2> QED
    BY <1>1, <1>2, <1>3, <1>10, <1>11, <2>1, OrderlyJoin
<1>13. /\ UNCHANGED <<agent_vars, conn_vars, channel_vars, server_queue, bye, received>>
       /\ Msgs(agent_queue') = Msgs(agent_queue) \cup Msgs(f)
  BY <1>3, <1>4 DEF Asks
<1>14. TypeOK'
  <2>1. next \in {"answering", "modifying", "terminating"}
    OBVIOUS
  <2> QED
    BY <1>3, <1>4, <1>5, <1>6, <1>9, <1>13, <2>1
       DEF IInv, TypeOK, agent_vars, conn_vars, channel_vars
<1>15. Tables' /\ Sockets' /\ Owned'
  BY <1>13 DEF IInv, Tables, Sockets, Owned, Keeps, agent_vars, conn_vars, channel_vars
<1>16. \A ch \in Channels : ch \notin Own(s) => (Released(ch)' <=> Released(ch))
  BY <1>1, <1>13 DEF Released, agent_vars, conn_vars
<1>17. Queues'
  <2>1. Orderly(agent_queue, waiting, state)' /\ Orderly(server_queue, waiting, state)'
    BY <1>10, <1>12, <1>13
  <2>2. \A m \in Msgs(agent_queue'), n \in Msgs(server_queue') :
          m.type \in Control /\ n.type \in Control => m.channel # n.channel
    BY <1>1, <1>8, <1>13 DEF IInv, Queues
  <2>3. \A m \in Msgs(agent_queue') : m.type = "ADD" =>
          connection'[m.channel] = NULL /\ ~removed'[m.channel] /\ m.channel \notin pending'
    BY <1>1, <1>5, <1>13 DEF IInv, Queues, Stages, Released, agent_vars, channel_vars
  <2>4. \A m \in Msgs(server_queue') : m.type = "REMOVE" => Released(m.channel)'
    BY <1>2, <1>8, <1>13, <1>16 DEF IInv, Queues, Control
  <2> QED
    BY <2>1, <2>2, <2>3, <2>4 DEF Queues
<1>18. Stages'
  <2>1. \A ch \in Channels : ch \in Own(s) =>
           ~destroyed[ch] /\ ~removed[ch] /\ next \notin {"idle", "open", "gone"}
    BY <1>5 DEF IInv, Stages
  <2>2. \A ch \in Channels : ch \notin Own(s) => (ch \in waiting' <=> ch \in waiting)
    BY <1>9
  <2>3. \A ch \in Channels : Silent(ch)' <=> Silent(ch)
    BY <1>13 DEF Silent
  <2>4. \A ch \in Own(s) : ch \in waiting'
    BY <1>9
  <2> QED
    BY <1>7, <1>13, <1>16, <2>1, <2>2, <2>3, <2>4 DEF IInv, Stages, channel_vars
<1> QED
  BY <1>14, <1>15, <1>17, <1>18 DEF IInv

(* The three fan-outs of the server task.                                  *)
LEMMA OfferKeeps ==
    ASSUME IInv, NEW s \in Sessions,
           ServerOffer(s) \/ ServerReoffer(s) \/ ServerTerminate(s)
    PROVE  IInv'
<1>1. modified \in 0..MaxModified /\ MaxModified \in Nat
  BY ConnectionConstantsAssumption DEF IInv, TypeOK
<1>2. CASE ServerOffer(s)
  <2>1. /\ Asks(s, "ADD", "answering") /\ state[s] = "idle" /\ modified' = modified
    BY <1>2 DEF ServerOffer, ToAgent, Asks, Asked
  <2> QED
    BY <1>1, <2>1, AsksKeeps DEF Control
<1>3. CASE ServerReoffer(s)
  <2>1. /\ Asks(s, "MODIFY", "modifying") /\ state[s] = "open"
        /\ modified < MaxModified /\ modified' = modified + 1
    BY <1>3 DEF ServerReoffer, ToAgent, Asks, Asked
  <2>2. modified' \in 0..MaxModified
    BY <1>1, <2>1
  <2> QED
    BY <2>1, <2>2, AsksKeeps DEF Control
<1>4. CASE ServerTerminate(s)
  <2>1. /\ Asks(s, "REMOVE", "terminating") /\ state[s] = "open" /\ modified' = modified
    BY <1>4 DEF ServerTerminate, ToAgent, Asks, Asked
  <2> QED
    BY <1>1, <2>1, AsksKeeps DEF Control
<1> QED
  BY <1>2, <1>3, <1>4

(* Destroying the channels of a session frees the connections they were    *)
(* left with, each once.                                                   *)
LEMMA TerminateSendKeeps ==
    ASSUME IInv, NEW s \in Sessions, ServerTerminateSend(s)
    PROVE  IInv'
<1> DEFINE mine(c) == {ch \in Own(s) : removed[ch] /\ connection[ch] = c}
<1>1. /\ state[s] = "terminating" /\ waiting \cap Own(s) = {}
      /\ state' = [state EXCEPT ![s] = "gone"]
      /\ freed' = [c \in Connections |-> freed[c] + Cardinality(mine(c))]
      /\ connection' = [ch \in Channels |->
                           IF ch \in Own(s) /\ removed[ch] THEN NULL ELSE connection[ch]]
      /\ destroyed' = [ch \in Channels |-> destroyed[ch] \/ ch \in Own(s)]
      /\ UNCHANGED <<agent_vars, sock, access_count, channel_table, timers, removed,
                     agent_queue, server_queue, waiting, bye, modified, received>>
  BY DEF ServerTerminateSend
<1>2. TypeOK /\ Tables /\ Sockets /\ Owned /\ Queues /\ Stages
  BY DEF IInv
<1>3. \A ch \in Own(s) : /\ ch \in Channels /\ SessionOf(ch) = s
                         /\ ch \notin waiting /\ Released(ch) /\ Silent(ch)
  BY <1>1, <1>2, SessionOfIs DEF Stages
<1>4. ASSUME NEW c \in Connections
      PROVE  /\ (\E ch \in Own(s) : Keeps(ch, c)) => freed'[c] = 1 /\ freed[c] = 0
             /\ ~(\E ch \in Own(s) : Keeps(ch, c)) => freed'[c] = freed[c]
  <2>1. freed'[c] = freed[c] + Cardinality(mine(c)) /\ freed[c] \in Nat
    BY <1>1, <1>2 DEF TypeOK
  <2>2. CASE \E ch \in Own(s) : Keeps(ch, c)
    <3>1. PICK ch \in Own(s) : Keeps(ch, c)
      BY <2>2
    <3>2. mine(c) = {ch} /\ freed[c] = 0
      BY <1>2, <1>3, <3>1 DEF Owned, Keeps
    <3>3. Cardinality(mine(c)) = 1
      BY <3>2, FS_Singleton
    <3> QED
      BY <2>1, <2>2, <3>2, <3>3
  <2>3. CASE ~(\E ch \in Own(s) : Keeps(ch, c))
    <3>1. mine(c) = {}
      BY <2>3 DEF Keeps
    <3>2. Cardinality(mine(c)) = 0
      BY <3>1, FS_EmptySet
    <3> QED
      BY <2>1, <2>3, <3>2
  <2> QED
    BY <2>2, <2>3
<1>5. ASSUME NEW c \in Connections PROVE freed'[c] \in Nat
  <2>1. freed'[c] = 1 \/ freed'[c] = freed[c]
    BY <1>4
  <2> QED
    BY <1>2, <2>1 DEF TypeOK
<1>6. freed' \in [Connections -> Nat]
  BY <1>1, <1>5
<1> HIDE DEF mine
<1>7. TypeOK'
  BY <1>1, <1>2, <1>6 DEF TypeOK, agent_vars
<1>9. \A c \in Connections : c # NULL
  BY ConnectionConstantsAssumption
<1>10. Tables'
  BY <1>1, <1>2, <1>9 DEF TypeOK, Tables, agent_vars
<1>11. Sockets'
  BY <1>1, <1>2 DEF Sockets, agent_vars
<1>12. \A ch \in Channels, c \in Connections : Keeps(ch, c)' <=> Keeps(ch, c) /\ ch \notin Own(s)
  BY <1>1, <1>2, <1>9 DEF TypeOK, Keeps
<1>13. Owned'
  <2> SUFFICES ASSUME NEW c \in Connections
               PROVE  /\ freed'[c] \in {0, 1}
                      /\ sock[c] # "closed" \/ channel_table[c] # {} => freed'[c] = 0
                      /\ \A ch \in Channels : Keeps(ch, c)' =>
                           /\ sock[c] = "closed" /\ channel_table[c] = {} /\ freed'[c] = 0
                           /\ \A other \in Channels : Keeps(other, c)' => other = ch
                      /\ sock[c] = "closed" /\ channel_table[c] = {} /\ freed'[c] = 0 =>
                           \E ch \in Channels : Keeps(ch, c)'
    BY <1>1 DEF Owned
  <2>1. CASE \E ch \in Own(s) : Keeps(ch, c)
    BY <1>2, <1>3, <1>4, <1>12, <2>1 DEF Owned
  <2>2. CASE ~(\E ch \in Own(s) : Keeps(ch, c))
    BY <1>2, <1>4, <1>12, <2>2 DEF Owned
  <2> QED
    BY <2>1, <2>2
<1>14. \A ch \in Channels : (Released(ch)' <=> Released(ch)) /\ (Silent(ch)' <=> Silent(ch))
  BY <1>1 DEF Released, Silent, agent_vars
<1>15. state \in [Sessions ->
          {"idle", "answering", "open", "modifying", "terminating", "gone"}]
  BY <1>2 DEF TypeOK
<1>16. \A ch \in Channels : /\ ch \in Own(s) => state'[SessionOf(ch)] = "gone"
                            /\ ch \notin Own(s) => state'[SessionOf(ch)] = state[SessionOf(ch)]
  BY <1>1, <1>15, SessionOfIs
<1>17. /\ \A m \in Msgs(agent_queue) : m.channel \in Channels /\ m.channel \notin Own(s)
       /\ \A m \in Msgs(server_queue) : m.channel \in Channels /\ m.channel \notin Own(s)
  BY <1>2, <1>3, QueueTypes DEF Released, Silent
<1>18. Queues'
  <2>1. /\ \A m \in Msgs(agent_queue) : m.type \in Control =>
             m.channel \in waiting /\ state'[SessionOf(m.channel)] = state[SessionOf(m.channel)]
        /\ \A m \in Msgs(server_queue) : m.type \in Control =>
             m.channel \in waiting /\ state'[SessionOf(m.channel)] = state[SessionOf(m.channel)]
    BY <1>2, <1>16, <1>17 DEF Queues, Orderly, Msgs
  <2>2. Orderly(agent_queue, waiting, state) /\ Orderly(server_queue, waiting, state)
    BY <1>2 DEF Queues
  <2>3. Orderly(agent_queue, waiting, state') /\ Orderly(server_queue, waiting, state')
    BY <2>1, <2>2, OrderlyWith
  <2>4. \A m \in Msgs(agent_queue) : m.type = "ADD" =>
            connection'[m.channel] = NULL /\ ~removed[m.channel] /\ m.channel \notin pending
    BY <1>1, <1>2, <1>17 DEF Queues
  <2> QED
    BY <1>1, <1>2, <1>14, <1>17, <2>3, <2>4 DEF Queues, agent_vars
<1>19. Stages'
  BY <1>1, <1>2, <1>3, <1>14, <1>16 DEF Stages
<1> QED
  BY <1>7, <1>10, <1>11, <1>13, <1>18, <1>19 DEF IInv

(* The server task takes a message.                                        *)
LEMMA TakeServerIs ==
    ASSUME IInv, NEW type, TakeServerMessage(type)
    PROVE  /\ server_queue' \in Seq(ServerMessage)
           /\ Head(server_queue) \in Msgs(server_queue)
           /\ Head(server_queue).type = type /\ Head(server_queue).channel \in Channels
           /\ Msgs(server_queue') \subseteq Msgs(server_queue)
           /\ Orderly(server_queue', waiting, state)
           /\ type \in Control => \A m \in Msgs(server_queue') :
                 m.type \in Control => m.channel # Head(server_queue).channel
           /\ type = "REMOVE" =>
                 \A m \in Msgs(server_queue') : m.channel # Head(server_queue).channel
           /\ \A m \in Msgs(server_queue) : m.channel \in Channels
<1>1. /\ server_queue # <<>> /\ Head(server_queue).type = type
      /\ server_queue' = Tail(server_queue)
  BY DEF TakeServerMessage
<1>2. /\ server_queue \in Seq(ServerMessage)
      /\ \A m \in Msgs(server_queue) : m.channel \in Channels
      /\ Orderly(server_queue, waiting, state)
  BY QueueTypes DEF IInv, Queues
<1>3. /\ Tail(server_queue) \in Seq(ServerMessage)
      /\ Head(server_queue) \in Msgs(server_queue)
      /\ Msgs(Tail(server_queue)) \subseteq Msgs(server_queue)
  BY <1>1, <1>2, TailIs
<1>4. /\ Orderly(Tail(server_queue), waiting, state)
      /\ type \in Control => \A m \in Msgs(Tail(server_queue)) :
            m.type \in Control => m.channel # Head(server_queue).channel
      /\ type = "REMOVE" =>
            \A m \in Msgs(Tail(server_queue)) : m.channel # Head(server_queue).channel
  BY <1>1, <1>2, OrderlyTail
<1> QED
  BY <1>1, <1>2, <1>3, <1>4

(* A response ends the wait for its channel, and is the only one.          *)
LEMMA ResponseKeeps ==
    ASSUME IInv, NEW type \in Control, OnChannelResponse(type)
    PROVE  IInv'
<1>0. PICK ch, s : ch = Head(server_queue).channel /\ s = SessionOf(ch)
  OBVIOUS
<1>1. /\ TakeServerMessage(type)
      /\ waiting' = waiting \ {ch}
      /\ state' = IF state[s] \in {"answering", "modifying"} /\ waiting' \cap Own(s) = {}
                  THEN [state EXCEPT ![s] = "open"] ELSE state
      /\ UNCHANGED <<agent_queue, bye>>
  BY <1>0 DEF OnChannelResponse
<1>2. UNCHANGED <<agent_vars, conn_vars, channel_vars, modified, received>>
  BY <1>1 DEF TakeServerMessage
<1>3. /\ server_queue' \in Seq(ServerMessage)
      /\ Head(server_queue) \in Msgs(server_queue)
      /\ Head(server_queue).type = type /\ ch \in Channels
      /\ Msgs(server_queue') \subseteq Msgs(server_queue)
      /\ Orderly(server_queue', waiting, state)
      /\ \A m \in Msgs(server_queue') : m.type \in Control => m.channel # ch
      /\ type = "REMOVE" => \A m \in Msgs(server_queue') : m.channel # ch
      /\ \A m \in Msgs(server_queue) : m.channel \in Channels
  BY <1>0, <1>1, TakeServerIs
<1>4. TypeOK /\ Tables /\ Sockets /\ Owned /\ Queues /\ Stages
  BY DEF IInv
<1>5. /\ \A m \in Msgs(agent_queue) : m.type \in Control => m.channel # ch
      /\ \A m \in Msgs(agent_queue) : m.channel \in Channels
      /\ type = "REMOVE" => Released(ch) /\ state[s] = "terminating"
      /\ type # "REMOVE" => state[s] \in {"answering", "modifying"}
  <2>1. \A m \in Msgs(server_queue) :
           /\ m.type = "REMOVE" => state[SessionOf(m.channel)] = "terminating"
           /\ m.type \in {"ADD", "MODIFY"} =>
                 state[SessionOf(m.channel)] \in {"answering", "modifying"}
    BY <1>4 DEF Queues, Orderly, Msgs
  <2> QED
    BY <1>0, <1>3, <1>4, <2>1, QueueTypes DEF Queues, Control
<1>6. s \in Sessions /\ \A k \in Channels : SessionOf(k) = s <=> k \in Own(s)
  BY <1>0, <1>3, SessionOfIs
<1>7. state \in [Sessions ->
          {"idle", "answering", "open", "modifying", "terminating", "gone"}]
  BY <1>4 DEF TypeOK
<1>8. \A k \in Channels :
         \/ state'[SessionOf(k)] = state[SessionOf(k)]
         \/ /\ state[SessionOf(k)] \in {"answering", "modifying"}
            /\ state'[SessionOf(k)] = "open" /\ k \notin waiting'
  BY <1>1, <1>6, <1>7, SessionOfIs
<1>9. TypeOK'
  <2>1. state' \in [Sessions ->
          {"idle", "answering", "open", "modifying", "terminating", "gone"}]
    BY <1>1, <1>7
  <2> QED
    BY <1>1, <1>2, <1>3, <1>4, <2>1 DEF TypeOK, agent_vars, conn_vars, channel_vars
<1>10. Tables' /\ Sockets' /\ Owned'
  BY <1>2, <1>4 DEF Tables, Sockets, Owned, Keeps, agent_vars, conn_vars, channel_vars
<1>11. \A k \in Channels : (Released(k)' <=> Released(k)) /\ (Silent(k) => Silent(k)')
  BY <1>1, <1>2, <1>3 DEF Released, Silent, agent_vars, conn_vars
<1>12. Queues'
  <2>1. /\ \A m \in Msgs(agent_queue) : m.type \in Control => m.channel \in waiting'
        /\ \A m \in Msgs(server_queue') : m.type \in Control => m.channel \in waiting'
    BY <1>1, <1>3, <1>4, <1>5 DEF Queues, Orderly, Msgs
  <2>2. /\ \A m \in Msgs(agent_queue) : m.type \in Control =>
             m.channel \in waiting' /\ state'[SessionOf(m.channel)] = state[SessionOf(m.channel)]
        /\ \A m \in Msgs(server_queue') : m.type \in Control =>
             m.channel \in waiting' /\ state'[SessionOf(m.channel)] = state[SessionOf(m.channel)]
    BY <1>3, <1>5, <1>8, <2>1
  <2>3. Orderly(agent_queue, waiting, state)
    BY <1>4 DEF Queues
  <2>4. Orderly(agent_queue, waiting', state') /\ Orderly(server_queue', waiting', state')
    BY <1>3, <2>2, <2>3, OrderlyWith
  <2> QED
    BY <1>1, <1>2, <1>3, <1>4, <1>11, <2>4 DEF Queues, agent_vars, channel_vars
<1>13. Stages'
  <2>1. type = "REMOVE" => Released(ch)' /\ Silent(ch)'
    BY <1>3, <1>5, <1>11 DEF Silent
  <2>2. \A k \in Channels : k # ch => (k \in waiting' <=> k \in waiting)
    BY <1>1
  <2>3. type # "REMOVE" =>
           state'[SessionOf(ch)] \in {"answering", "modifying", "open"} /\ ch \notin waiting'
    BY <1>0, <1>1, <1>3, <1>5, <1>8
  <2>4. ASSUME NEW k \in Channels
        PROVE  LET st == state'[SessionOf(k)] IN
               /\ st = "idle" => /\ Released(k)' /\ Silent(k)' /\ k \notin waiting'
                                 /\ connection'[k] = NULL /\ ~removed'[k]
               /\ st = "open" => k \notin waiting'
               /\ st = "terminating" /\ k \notin waiting' => Released(k)' /\ Silent(k)'
               /\ st = "gone" => Released(k)' /\ Silent(k)' /\ k \notin waiting'
               /\ removed'[k] => st \in {"terminating", "gone"} /\ Released(k)'
               /\ destroyed'[k] => st = "gone"
    <3>1. CASE k = ch
      <4>1. CASE type = "REMOVE"
        <5>1. state'[s] = "terminating"
          BY <1>1, <1>5, <4>1
        <5> QED
          BY <1>2, <1>4, <1>5, <2>1, <1>0, <3>1, <4>1, <5>1 DEF Stages, channel_vars
      <4>2. CASE type # "REMOVE"
        BY <1>2, <1>4, <1>5, <2>3, <1>0, <3>1, <4>2 DEF Stages, channel_vars
      <4> QED
        BY <4>1, <4>2
    <3>2. CASE k # ch /\ state'[SessionOf(k)] = state[SessionOf(k)]
      BY <1>2, <1>4, <1>11, <2>2, <3>2 DEF Stages, channel_vars
    <3>3. CASE k # ch /\ state'[SessionOf(k)] # state[SessionOf(k)]
      BY <1>2, <1>4, <1>8, <3>3 DEF Stages, channel_vars
    <3> QED
      BY <3>1, <3>2, <3>3
  <2> QED
    BY <2>4 DEF Stages
<1> QED
  BY <1>9, <1>10, <1>12, <1>13 DEF IInv

(* A request is answered only while its session is open: nothing follows   *)
(* REMOVE.                                                                 *)
LEMMA MessageKeeps ==
    ASSUME IInv, OnChannelMessage
    PROVE  IInv'
<1>0. PICK ch, x : ch = Head(server_queue).channel /\ x = [type |-> "SEND", channel |-> ch]
  OBVIOUS
<1>1. /\ TakeServerMessage("RECEIVE")
      /\ agent_queue' = IF state[SessionOf(ch)] = "open" THEN Append(agent_queue, x)
                                                         ELSE agent_queue
      /\ UNCHANGED <<state, waiting, bye>>
  BY <1>0 DEF OnChannelMessage
<1>2. UNCHANGED <<agent_vars, conn_vars, channel_vars, modified, received>>
  BY <1>1 DEF TakeServerMessage
<1>3. /\ server_queue' \in Seq(ServerMessage) /\ ch \in Channels
      /\ Msgs(server_queue') \subseteq Msgs(server_queue)
      /\ Orderly(server_queue', waiting, state)
      /\ \A m \in Msgs(server_queue) : m.channel \in Channels
  BY <1>0, <1>1, TakeServerIs
<1>4. TypeOK /\ Tables /\ Sockets /\ Owned /\ Queues /\ Stages
  BY DEF IInv
<1>5. /\ agent_queue' \in Seq(AgentMessage)
      /\ Orderly(agent_queue', waiting, state)
      /\ \A m \in Msgs(agent_queue') :
            m \in Msgs(agent_queue) \/ (m = x /\ state[SessionOf(ch)] = "open")
  <2>1. agent_queue \in Seq(AgentMessage) /\ Orderly(agent_queue, waiting, state)
    BY <1>4, QueueTypes DEF Queues
  <2>2. CASE state[SessionOf(ch)] = "open"
    <3>1. x \in AgentMessage /\ x.type \notin Control /\ x.channel = ch
      BY <1>0, <1>3 DEF AgentMessage, Control
    <3>2. \A m \in Msgs(agent_queue) : m.type = "REMOVE" => m.channel # x.channel
      BY <2>1, <2>2, <3>1 DEF Orderly, Msgs
    <3>3. /\ Append(agent_queue, x) \in Seq(AgentMessage)
          /\ Orderly(Append(agent_queue, x), waiting, state)
          /\ Msgs(Append(agent_queue, x)) = Msgs(agent_queue) \cup {x}
      BY <2>1, <3>1, <3>2, OrderlyOne
    <3> QED
      BY <1>1, <2>2, <3>3
  <2>3. CASE state[SessionOf(ch)] # "open"
    BY <1>1, <2>1, <2>3
  <2> QED
    BY <2>2, <2>3
<1>6. x.type \notin Control /\ x.type # "ADD" /\ x.channel = ch
  BY <1>0 DEF Control
<1>7. TypeOK' /\ Tables' /\ Sockets' /\ Owned'
  <2>1. TypeOK'
    BY <1>1, <1>2, <1>3, <1>4, <1>5 DEF TypeOK, agent_vars, session_vars, conn_vars, channel_vars
  <2>2. Tables' /\ Sockets' /\ Owned'
    BY <1>1, <1>2, <1>3, <1>4, <1>5 DEF Tables, Sockets, Owned, Keeps, agent_vars, conn_vars, channel_vars
  <2> QED
    BY <2>1, <2>2
<1>8. \A k \in Channels : /\ Silent(k) => Silent(k)'
                          /\ Released(k) /\ state[SessionOf(k)] # "open" => Released(k)'
  BY <1>2, <1>3, <1>5, <1>6 DEF Released, Silent, agent_vars, conn_vars
<1>9. Queues'
  <2>1. \A m \in Msgs(server_queue') : m.type = "REMOVE" =>
           Released(m.channel) /\ state[SessionOf(m.channel)] = "terminating"
    BY <1>3, <1>4 DEF Queues, Orderly, Msgs
  <2> QED
    BY <1>1, <1>2, <1>3, <1>4, <1>5, <1>6, <1>8, <2>1 DEF Queues, agent_vars, channel_vars
<1>10. Stages'
  BY <1>1, <1>2, <1>4, <1>8 DEF Stages, channel_vars
<1> QED
  BY <1>7, <1>9, <1>10 DEF IInv

(* The disconnect event taken by the server task.                          *)
LEMMA DisconnectKeeps ==
    ASSUME IInv, OnDisconnect
    PROVE  IInv'
<1>0. PICK s : s = SessionOf(Head(server_queue).channel)
  OBVIOUS
<1>1. /\ TakeServerMessage("DISCONNECT")
      /\ bye' = IF state[s] = "terminating" THEN bye ELSE bye \cup {s}
      /\ UNCHANGED <<agent_queue, state, waiting>>
  BY <1>0 DEF OnDisconnect
<1>2. UNCHANGED <<agent_vars, conn_vars, channel_vars, modified, received>>
  BY <1>1 DEF TakeServerMessage
<1>3. /\ server_queue' \in Seq(ServerMessage) /\ s \in Sessions
      /\ Msgs(server_queue') \subseteq Msgs(server_queue)
      /\ Orderly(server_queue', waiting, state)
      /\ \A m \in Msgs(server_queue) : m.channel \in Channels
  BY <1>0, <1>1, TakeServerIs, SessionOfIs
<1>4. TypeOK /\ Tables /\ Sockets /\ Owned /\ Queues /\ Stages
  BY DEF IInv
<1>5. TypeOK' /\ Tables' /\ Sockets' /\ Owned'
  <2>1. TypeOK'
    BY <1>1, <1>2, <1>3, <1>4 DEF TypeOK, agent_vars, session_vars, conn_vars, channel_vars
  <2>2. Tables' /\ Sockets' /\ Owned'
    BY <1>1, <1>2, <1>3, <1>4 DEF Tables, Sockets, Owned, Keeps, agent_vars, conn_vars, channel_vars
  <2> QED
    BY <2>1, <2>2
<1>6. \A k \in Channels : (Silent(k) => Silent(k)') /\ (Released(k)' <=> Released(k))
  BY <1>1, <1>2, <1>3 DEF Released, Silent, agent_vars, conn_vars
<1>7. Queues'
  BY <1>1, <1>2, <1>3, <1>4, <1>6 DEF Queues, agent_vars, channel_vars
<1>8. Stages'
  BY <1>1, <1>2, <1>4, <1>6 DEF Stages, channel_vars
<1> QED
  BY <1>5, <1>7, <1>8 DEF IInv

-----------------------------------------------------------------------------
(* The connection agent: messages of the server task.                      *)

(* What the agent knows of the message it takes, and of those still behind *)
(* it.                                                                     *)
LEMMA TakeAgentIs ==
    ASSUME IInv, NEW type, TakeAgentMessage(type)
    PROVE  /\ agent_queue' \in Seq(AgentMessage)
           /\ Head(agent_queue) \in Msgs(agent_queue) /\ Head(agent_queue) \in AgentMessage
           /\ Head(agent_queue).type = type /\ Request \in Channels
           /\ Msgs(agent_queue') \subseteq Msgs(agent_queue)
           /\ Orderly(agent_queue', waiting, state)
           /\ type \in Control => \A m \in Msgs(agent_queue') :
                 m.type \in Control => m.channel # Request
           /\ type = "REMOVE" => \A m \in Msgs(agent_queue') : m.channel # Request
           /\ UNCHANGED <<session_vars, received>>
<1>1. /\ agent_queue # <<>> /\ Head(agent_queue).type = type
      /\ agent_queue' = Tail(agent_queue) /\ UNCHANGED <<session_vars, received>>
  BY DEF TakeAgentMessage
<1>2. /\ agent_queue \in Seq(AgentMessage)
      /\ \A m \in Msgs(agent_queue) : m.channel \in Channels
      /\ Orderly(agent_queue, waiting, state)
  BY QueueTypes DEF IInv, Queues
<1>3. /\ Tail(agent_queue) \in Seq(AgentMessage)
      /\ Head(agent_queue) \in Msgs(agent_queue) /\ Head(agent_queue) \in AgentMessage
      /\ Msgs(Tail(agent_queue)) \subseteq Msgs(agent_queue)
  BY <1>1, <1>2, TailIs
<1>4. /\ Orderly(Tail(agent_queue), waiting, state)
      /\ type \in Control => \A m \in Msgs(Tail(agent_queue)) :
            m.type \in Control => m.channel # Head(agent_queue).channel
      /\ type = "REMOVE" =>
            \A m \in Msgs(Tail(agent_queue)) : m.channel # Head(agent_queue).channel
  BY <1>1, <1>2, OrderlyTail
<1> QED
  BY <1>1, <1>2, <1>3, <1>4 DEF Request

(* The agent answers a request with the request itself.                    *)
LEMMA RespondIs ==
    ASSUME IInv, NEW type \in Control, TakeAgentMessage(type), Respond
    PROVE  /\ server_queue' \in Seq(ServerMessage)
           /\ Orderly(server_queue', waiting, state)
           /\ Msgs(server_queue') = Msgs(server_queue) \cup {Head(agent_queue)}
           /\ \A m \in Msgs(agent_queue'), n \in Msgs(server_queue') :
                 m.type \in Control /\ n.type \in Control => m.channel # n.channel
           /\ \A n \in Msgs(server_queue) : n.type \in Control => n.channel # Request
           /\ \A n \in Msgs(server_queue) : n.channel \in Channels
           /\ Request \in waiting
           /\ type = "REMOVE" => state[SessionOf(Request)] = "terminating"
           /\ type \in {"ADD", "MODIFY"} =>
                 state[SessionOf(Request)] \in {"answering", "modifying"}
<1> DEFINE x == Head(agent_queue)
<1>1. /\ x \in Msgs(agent_queue) /\ x \in AgentMessage
      /\ x.type = type /\ Request \in Channels /\ x.channel = Request
      /\ Msgs(agent_queue') \subseteq Msgs(agent_queue)
      /\ \A m \in Msgs(agent_queue') : m.type \in Control => m.channel # Request
  BY TakeAgentIs DEF Request
<1>2. /\ server_queue \in Seq(ServerMessage) /\ Orderly(server_queue, waiting, state)
      /\ Orderly(agent_queue, waiting, state)
      /\ \A n \in Msgs(server_queue) : n.channel \in Channels
      /\ \A m \in Msgs(agent_queue), n \in Msgs(server_queue) :
            m.type \in Control /\ n.type \in Control => m.channel # n.channel
  BY QueueTypes DEF IInv, Queues
<1>3. server_queue' = Append(server_queue, x)
  BY DEF Respond
<1> HIDE DEF x
<1>4. x \in ServerMessage
  BY <1>1 DEF AgentMessage, ServerMessage, Control
<1>5. /\ x.channel \in waiting
      /\ x.type = "REMOVE" => state[SessionOf(x.channel)] = "terminating"
      /\ x.type \in {"ADD", "MODIFY"} =>
            state[SessionOf(x.channel)] \in {"answering", "modifying"}
  BY <1>1, <1>2 DEF Orderly, Msgs
<1>6. \A n \in Msgs(server_queue) : n.type \in Control => n.channel # x.channel
  BY <1>1, <1>2
<1>7. /\ Append(server_queue, x) \in Seq(ServerMessage)
      /\ Orderly(Append(server_queue, x), waiting, state)
      /\ Msgs(Append(server_queue, x)) = Msgs(server_queue) \cup {x}
  <2>1. \A m \in Msgs(server_queue) :
               m.type = "REMOVE" \/ (m.type \in Control /\ x.type \in Control)
                  => m.channel # x.channel
    BY <1>6 DEF Control
  <2> QED
    BY <1>2, <1>4, <1>5, <2>1, OrderlyOne
<1>8. \A m \in Msgs(agent_queue'), n \in Msgs(server_queue') :
         m.type \in Control /\ n.type \in Control => m.channel # n.channel
  BY <1>1, <1>2, <1>3, <1>7
<1> QED
  BY <1>1, <1>2, <1>3, <1>5, <1>6, <1>7, <1>8 DEF x

(* mrcp_server_agent_channel_add                                           *)
LEMMA AddKeeps ==
    ASSUME IInv, AgentChannelAdd
    PROVE  IInv'
<1>0. PICK ch : ch = Request
  OBVIOUS
<1>1. /\ TakeAgentMessage("ADD") /\ Respond /\ pending' = pending \cup {ch}
      /\ UNCHANGED <<connection_list, conn_vars, channel_vars>>
  BY <1>0 DEF AgentChannelAdd
<1>2. /\ agent_queue' \in Seq(AgentMessage) /\ ch \in Channels
      /\ Head(agent_queue) \in Msgs(agent_queue) /\ Head(agent_queue).type = "ADD"
      /\ Head(agent_queue).channel = ch
      /\ Msgs(agent_queue') \subseteq Msgs(agent_queue)
      /\ Orderly(agent_queue', waiting, state)
      /\ \A m \in Msgs(agent_queue') : m.type \in Control => m.channel # ch
      /\ UNCHANGED <<session_vars, received>>
  BY <1>0, <1>1, TakeAgentIs DEF Control, Request
<1>3. /\ server_queue' \in Seq(ServerMessage)
      /\ Orderly(server_queue', waiting, state)
      /\ Msgs(server_queue') = Msgs(server_queue) \cup {Head(agent_queue)}
      /\ \A m \in Msgs(agent_queue'), n \in Msgs(server_queue') :
            m.type \in Control /\ n.type \in Control => m.channel # n.channel
      /\ \A n \in Msgs(server_queue) : n.type \in Control => n.channel # ch
      /\ \A n \in Msgs(server_queue) : n.channel \in Channels
      /\ ch \in waiting /\ state[SessionOf(ch)] \in {"answering", "modifying"}
  BY <1>0, <1>1, RespondIs DEF Control
<1>4. TypeOK /\ Tables /\ Sockets /\ Owned /\ Queues /\ Stages
  BY DEF IInv
<1>5. connection[ch] = NULL /\ ~removed[ch]
  BY <1>2, <1>4 DEF Queues
<1>6. TypeOK'
  BY <1>1, <1>2, <1>3, <1>4
     DEF TypeOK, session_vars, conn_vars, channel_vars
<1>7. Tables' /\ Sockets' /\ Owned'
  BY <1>1, <1>4, <1>5 DEF Tables, Sockets, Owned, Keeps, conn_vars, channel_vars
<1>8. \A k \in Channels : k # ch => /\ Released(k) => Released(k)'
                                    /\ Silent(k) => Silent(k)'
  BY <1>1, <1>2, <1>3 DEF Released, Silent, conn_vars
<1>9. Queues'
  <2>1. \A m \in Msgs(agent_queue') : m.type = "ADD" =>
          connection'[m.channel] = NULL /\ ~removed'[m.channel] /\ m.channel \notin pending'
    BY <1>1, <1>2, <1>4 DEF Queues, Control, channel_vars
  <2>2. \A m \in Msgs(server_queue') : m.type = "REMOVE" => Released(m.channel)'
    BY <1>2, <1>3, <1>4, <1>8 DEF Queues, Control
  <2> QED
    BY <1>2, <1>3, <2>1, <2>2 DEF Queues, session_vars
<1>10. Stages'
  BY <1>1, <1>2, <1>3, <1>4, <1>5, <1>8 DEF Stages, session_vars, channel_vars
<1> QED
  BY <1>6, <1>7, <1>9, <1>10 DEF IInv

(* mrcp_server_agent_channel_modify                                        *)
LEMMA ModifyKeeps ==
    ASSUME IInv, AgentChannelModify
    PROVE  IInv'
<1>0. PICK ch : ch = Request
  OBVIOUS
<1>1. /\ TakeAgentMessage("MODIFY") /\ Respond
      /\ UNCHANGED <<agent_vars, conn_vars, channel_vars>>
  BY DEF AgentChannelModify
<1>2. /\ agent_queue' \in Seq(AgentMessage) /\ ch \in Channels
      /\ Head(agent_queue).type = "MODIFY" /\ Head(agent_queue).channel = ch
      /\ Msgs(agent_queue') \subseteq Msgs(agent_queue)
      /\ Orderly(agent_queue', waiting, state)
      /\ UNCHANGED <<session_vars, received>>
  BY <1>0, <1>1, TakeAgentIs DEF Control, Request
<1>3. /\ server_queue' \in Seq(ServerMessage)
      /\ Orderly(server_queue', waiting, state)
      /\ Msgs(server_queue') = Msgs(server_queue) \cup {Head(agent_queue)}
      /\ \A m \in Msgs(agent_queue'), n \in Msgs(server_queue') :
            m.type \in Control /\ n.type \in Control => m.channel # n.channel
      /\ \A n \in Msgs(server_queue) : n.channel \in Channels
      /\ ch \in waiting /\ state[SessionOf(ch)] \in {"answering", "modifying"}
  BY <1>0, <1>1, RespondIs DEF Control
<1>4. TypeOK /\ Tables /\ Sockets /\ Owned /\ Queues /\ Stages
  BY DEF IInv
<1>5. TypeOK' /\ Tables' /\ Sockets' /\ Owned'
  <2>1. TypeOK'
    BY <1>1, <1>2, <1>3, <1>4 DEF TypeOK, agent_vars, session_vars, conn_vars, channel_vars
  <2>2. Tables' /\ Sockets' /\ Owned'
    BY <1>1, <1>2, <1>3, <1>4 DEF Tables, Sockets, Owned, Keeps, agent_vars, conn_vars, channel_vars
  <2> QED
    BY <2>1, <2>2
<1>6. \A k \in Channels : /\ Released(k) => Released(k)'
                          /\ k # ch => (Silent(k) => Silent(k)')
  BY <1>1, <1>2, <1>3 DEF Released, Silent, agent_vars, conn_vars
<1>7. Queues'
  BY <1>1, <1>2, <1>3, <1>4, <1>6
     DEF Queues, Control, agent_vars, session_vars, channel_vars
<1>8. Stages'
  BY <1>1, <1>2, <1>3, <1>4, <1>6 DEF Stages, session_vars, channel_vars
<1> QED
  BY <1>5, <1>7, <1>8 DEF IInv

(* mrcp_server_agent_messsage_send                                         *)
LEMMA SendKeeps ==
    ASSUME IInv, AgentMessageSend
    PROVE  IInv'
<1>1. /\ TakeAgentMessage("SEND")
      /\ UNCHANGED <<agent_vars, conn_vars, channel_vars, server_queue>>
  BY DEF AgentMessageSend
<1>2. /\ agent_queue' \in Seq(AgentMessage)
      /\ Msgs(agent_queue') \subseteq Msgs(agent_queue)
      /\ Orderly(agent_queue', waiting, state)
      /\ UNCHANGED <<session_vars, received>>
  BY <1>1, TakeAgentIs
<1>3. TypeOK /\ Tables /\ Sockets /\ Owned /\ Queues /\ Stages
  BY DEF IInv
<1>4. TypeOK' /\ Tables' /\ Sockets' /\ Owned'
  <2>1. TypeOK'
    BY <1>1, <1>2, <1>3 DEF TypeOK, agent_vars, session_vars, conn_vars, channel_vars
  <2>2. Tables' /\ Sockets' /\ Owned'
    BY <1>1, <1>2, <1>3 DEF Tables, Sockets, Owned, Keeps, agent_vars, conn_vars, channel_vars
  <2> QED
    BY <2>1, <2>2
<1>5. \A k \in Channels : (Released(k) => Released(k)') /\ (Silent(k) => Silent(k)')
  BY <1>1, <1>2 DEF Released, Silent, agent_vars, conn_vars
<1>6. \A m \in Msgs(server_queue) : m.channel \in Channels
  BY <1>3, QueueTypes
<1>7. Queues'
  BY <1>1, <1>2, <1>3, <1>5, <1>6 DEF Queues, agent_vars, session_vars, channel_vars
<1>8. Stages'
  BY <1>1, <1>2, <1>3, <1>5 DEF Stages, session_vars, channel_vars
<1> QED
  BY <1>4, <1>7, <1>8 DEF IInv

(* What removing channel ch from connection c does to the tables.          *)
LEMMA RemoveFromIs ==
    ASSUME IInv, NEW c \in Connections, Request \in channel_table[c], RemoveFromConnection(c)
    PROVE  /\ Request \in Channels /\ access_count[c] \in Nat \ {0}
           /\ channel_table' = [channel_table EXCEPT ![c] = @ \ {Request}]
           /\ IsFiniteSet(channel_table[c] \ {Request})
           /\ access_count' = [access_count EXCEPT ![c] = @ - 1]
           /\ Cardinality(channel_table[c] \ {Request}) = access_count[c] - 1
           /\ access_count[c] = 1 <=> channel_table[c] \ {Request} = {}
<1>1. /\ channel_table' = [channel_table EXCEPT ![c] = @ \ {Request}]
      /\ access_count' = [access_count EXCEPT ![c] = @ - 1]
  BY DEF RemoveFromConnection
<1>2. /\ channel_table[c] \subseteq Channels /\ access_count[c] \in Nat
      /\ IsFiniteSet(channel_table[c]) /\ access_count[c] = Cardinality(channel_table[c])
  BY DEF IInv, TypeOK, Tables
<1>3. /\ IsFiniteSet(channel_table[c] \ {Request})
      /\ Cardinality(channel_table[c] \ {Request}) = Cardinality(channel_table[c]) - 1
  BY <1>2, FS_RemoveElement
<1>4. /\ Cardinality(channel_table[c] \ {Request}) = 0 <=> channel_table[c] \ {Request} = {}
      /\ Cardinality(channel_table[c]) = 0 <=> channel_table[c] = {}
  BY <1>2, <1>3, FS_EmptySet
<1> QED
  BY <1>1, <1>2, <1>3, <1>4

(* After REMOVE the agent knows nothing of the channel; the connection it  *)
(* was the last one of is left to it.                                      *)
LEMMA RemoveKeeps ==
    ASSUME IInv, AgentChannelRemove
    PROVE  IInv'
<1>0. PICK ch : ch = Request
  OBVIOUS
<1>1. /\ TakeAgentMessage("REMOVE") /\ Respond
      /\ IF connection[ch] # NULL
         THEN RemoveFromConnection(connection[ch]) /\ UNCHANGED pending
         ELSE /\ pending' = pending \ {ch}
              /\ UNCHANGED <<channel_table, access_count, connection, removed, timers>>
      /\ UNCHANGED <<connection_list, sock, freed, destroyed>>
  BY <1>0 DEF AgentChannelRemove
<1>2. /\ agent_queue' \in Seq(AgentMessage) /\ ch \in Channels
      /\ Head(agent_queue) \in Msgs(agent_queue)
      /\ Head(agent_queue).type = "REMOVE" /\ Head(agent_queue).channel = ch
      /\ Msgs(agent_queue') \subseteq Msgs(agent_queue)
      /\ Orderly(agent_queue', waiting, state)
      /\ \A m \in Msgs(agent_queue') : m.channel # ch
      /\ UNCHANGED <<session_vars, received>>
  BY <1>0, <1>1, TakeAgentIs DEF Control, Request
<1>3. /\ server_queue' \in Seq(ServerMessage)
      /\ Orderly(server_queue', waiting, state)
      /\ Msgs(server_queue') = Msgs(server_queue) \cup {Head(agent_queue)}
      /\ \A m \in Msgs(agent_queue'), n \in Msgs(server_queue') :
            m.type \in Control /\ n.type \in Control => m.channel # n.channel
      /\ \A n \in Msgs(server_queue) : n.channel \in Channels
      /\ ch \in waiting /\ state[SessionOf(ch)] = "terminating"
  BY <1>0, <1>1, RespondIs DEF Control
<1>4. TypeOK /\ Tables /\ Sockets /\ Owned /\ Queues /\ Stages
  BY DEF IInv
<1>5. ~removed[ch] /\ ~destroyed[ch] /\ \A c \in Connections : c # NULL
  BY <1>2, <1>3, <1>4, ConnectionConstantsAssumption DEF Stages, Released
<1>6. /\ TypeOK' /\ Tables' /\ Sockets' /\ Owned'
      /\ pending' \subseteq pending /\ ch \notin pending'
      /\ \A c \in Connections : channel_table'[c] \subseteq channel_table[c] /\ ch \notin channel_table'[c]
      /\ \A k \in Channels : /\ connection[k] = NULL => connection'[k] = NULL
                             /\ k # ch => (removed'[k] <=> removed[k])
  <2>1. CASE connection[ch] = NULL
    <3>1. /\ pending' = pending \ {ch}
          /\ UNCHANGED <<channel_table, access_count, connection, removed, timers,
                         connection_list, sock, freed, destroyed>>
      BY <1>1, <2>1
    <3>2. TypeOK'
      BY <1>2, <1>3, <1>4, <3>1 DEF TypeOK, session_vars
    <3>3. Tables' /\ Sockets' /\ Owned'
      BY <1>4, <3>1 DEF Tables, Sockets, Owned, Keeps
    <3> QED
      BY <1>2, <1>4, <1>5, <2>1, <3>1, <3>2, <3>3 DEF Tables
  <2>2. CASE connection[ch] # NULL
    <3>1. PICK c \in Connections : c = connection[ch]
      BY <1>2, <1>4, <2>2 DEF TypeOK
    <3>2. /\ RemoveFromConnection(c)
          /\ UNCHANGED <<pending, connection_list, sock, freed, destroyed>>
      BY <1>1, <2>2, <3>1
    <3>3. /\ \A d \in Connections : ch \in channel_table[d] <=> d = c
          /\ ch \notin pending
      BY <1>2, <1>4, <1>5, <2>2, <3>1 DEF Tables
    <3>4. /\ access_count[c] \in Nat \ {0}
          /\ channel_table' = [channel_table EXCEPT ![c] = @ \ {ch}]
          /\ IsFiniteSet(channel_table[c] \ {ch})
          /\ access_count' = [access_count EXCEPT ![c] = @ - 1]
          /\ Cardinality(channel_table[c] \ {ch}) = access_count[c] - 1
          /\ access_count[c] = 1 <=> channel_table[c] \ {ch} = {}
      BY <1>0, <3>2, <3>3, RemoveFromIs
    <3>5. /\ access_count[c] - 1 \in Nat
          /\ \A d \in Connections :
                /\ channel_table'[d] = (IF d = c THEN channel_table[c] \ {ch} ELSE channel_table[d])
                /\ access_count'[d] = (IF d = c THEN access_count[c] - 1 ELSE access_count[d])
      BY <1>4, <3>4 DEF TypeOK
    <3>6. /\ access_count' \in [Connections -> Nat]
          /\ channel_table' \in [Connections -> SUBSET Channels]
      BY <1>4, <3>4, <3>5 DEF TypeOK
    <3>9. ASSUME NEW d \in Connections
          PROVE  /\ IsFiniteSet(channel_table'[d])
                 /\ access_count'[d] = Cardinality(channel_table'[d])
      <4>1. CASE d = c
        <5>1. channel_table'[d] = channel_table[c] \ {ch} /\ access_count'[d] = access_count[c] - 1
          BY <3>5, <4>1
        <5> QED
          BY <3>4, <5>1
      <4>2. CASE d # c
        <5>1. channel_table'[d] = channel_table[d] /\ access_count'[d] = access_count[d]
          BY <3>5, <4>2
        <5> QED
          BY <1>4, <5>1 DEF Tables
      <4> QED
        BY <4>1, <4>2
    <3>7. CASE access_count[c] = 1 /\ sock[c] = "closed"
      <4>1. /\ removed' = [removed EXCEPT ![ch] = TRUE]
            /\ timers' = [timers EXCEPT ![c] = @ \ {"termination"}]
            /\ connection' = connection
        BY <1>0, <3>2, <3>7 DEF RemoveFromConnection
      <4>2. TypeOK'
        BY <1>2, <1>3, <1>4, <3>2, <3>6, <4>1 DEF TypeOK, session_vars
      <4>3. \A k \in Channels : removed'[k] <=> removed[k] \/ k = ch
        BY <1>2, <1>4, <4>1 DEF TypeOK
      <4>4. Tables'
        <5>1. \A k \in Channels, d \in Connections :
                 k \in channel_table'[d] <=> connection'[k] = d /\ ~removed'[k]
          BY <1>4, <3>1, <3>5, <4>1, <4>3 DEF Tables
        <5>2. \A k \in pending' : connection'[k] = NULL /\ ~removed'[k]
          BY <1>4, <3>2, <3>3, <4>1, <4>3 DEF Tables, TypeOK
        <5> QED
          BY <3>9, <5>1, <5>2 DEF Tables
      <4>5. \A d \in Connections :
               timers'[d] = (IF d = c THEN timers[c] \ {"termination"} ELSE timers[d])
        BY <1>4, <4>1 DEF TypeOK
      <4>6. Sockets'
        BY <1>4, <3>2, <3>5, <4>5 DEF Sockets
      <4>7. \A k \in Channels, d \in Connections :
               Keeps(k, d)' <=> Keeps(k, d) \/ (k = ch /\ d = c)
        BY <3>1, <4>1, <4>3 DEF Keeps
      <4>8. channel_table[c] # {} /\ channel_table'[c] = {} /\ sock[c] = "closed"
        BY <3>3, <3>4, <3>5, <3>7
      <4>9. Owned'
        <5> SUFFICES ASSUME NEW d \in Connections
               PROVE  /\ freed[d] \in {0, 1}
                      /\ sock[d] # "closed" \/ channel_table'[d] # {} => freed[d] = 0
                      /\ \A k \in Channels : Keeps(k, d)' =>
                           /\ sock[d] = "closed" /\ channel_table'[d] = {} /\ freed[d] = 0
                           /\ \A other \in Channels : Keeps(other, d)' => other = k
                      /\ sock[d] = "closed" /\ channel_table'[d] = {} /\ freed[d] = 0 =>
                           \E k \in Channels : Keeps(k, d)'
          BY <3>2 DEF Owned
        <5>1. CASE d = c
          BY <1>2, <1>4, <4>7, <4>8, <5>1 DEF Owned
        <5>2. CASE d # c
          BY <1>4, <3>5, <4>7, <5>2 DEF Owned
        <5> QED
          BY <5>1, <5>2
      <4> QED
        BY <3>2, <3>3, <3>5, <4>1, <4>2, <4>3, <4>4, <4>6, <4>9
    <3>8. CASE ~(access_count[c] = 1 /\ sock[c] = "closed")
      <4>1. /\ connection' = [connection EXCEPT ![ch] = NULL]
            /\ UNCHANGED <<removed, timers>>
        BY <1>0, <3>2, <3>8 DEF RemoveFromConnection
      <4>2. TypeOK'
        BY <1>2, <1>3, <1>4, <3>2, <3>6, <4>1 DEF TypeOK, session_vars
      <4>3. \A k \in Channels : connection'[k] = (IF k = ch THEN NULL ELSE connection[k])
        BY <1>2, <1>4, <4>1 DEF TypeOK
      <4>4. Tables'
        <5>1. \A k \in Channels, d \in Connections :
                 k \in channel_table'[d] <=> connection'[k] = d /\ ~removed'[k]
          BY <1>4, <1>5, <3>1, <3>3, <3>5, <4>1, <4>3 DEF Tables
        <5>2. \A k \in pending' : connection'[k] = NULL /\ ~removed'[k]
          BY <1>4, <3>2, <3>3, <4>1, <4>3 DEF Tables, TypeOK
        <5> QED
          BY <3>9, <5>1, <5>2 DEF Tables
      <4>5. /\ channel_table[c] # {}
            /\ sock[c] = "closed" => channel_table'[c] # {}
        BY <3>3, <3>4, <3>5, <3>8
      <4>6. Sockets'
        BY <1>4, <3>2, <3>5, <4>1, <4>5 DEF Sockets
      <4>7. \A k \in Channels, d \in Connections : Keeps(k, d)' <=> Keeps(k, d)
        BY <1>5, <4>1, <4>3 DEF Keeps
      <4>8. Owned'
        <5> SUFFICES ASSUME NEW d \in Connections
               PROVE  /\ freed[d] \in {0, 1}
                      /\ sock[d] # "closed" \/ channel_table'[d] # {} => freed[d] = 0
                      /\ \A k \in Channels : Keeps(k, d)' =>
                           /\ sock[d] = "closed" /\ channel_table'[d] = {} /\ freed[d] = 0
                           /\ \A other \in Channels : Keeps(other, d)' => other = k
                      /\ sock[d] = "closed" /\ channel_table'[d] = {} /\ freed[d] = 0 =>
                           \E k \in Channels : Keeps(k, d)'
          BY <3>2 DEF Owned
        <5>1. CASE d = c
          BY <1>4, <4>5, <4>7, <5>1 DEF Owned
        <5>2. CASE d # c
          BY <1>4, <3>5, <4>7, <5>2 DEF Owned
        <5> QED
          BY <5>1, <5>2
      <4> QED
        BY <3>2, <3>3, <3>5, <4>1, <4>2, <4>3, <4>4, <4>6, <4>8
    <3> QED
      BY <3>7, <3>8
  <2> QED
    BY <2>1, <2>2
<1>7. \A k \in Channels : /\ Released(k) \/ k = ch => Released(k)'
                          /\ k # ch => (Silent(k) => Silent(k)')
  BY <1>2, <1>3, <1>6 DEF Released, Silent
<1>8. Queues'
  <2>1. \A m \in Msgs(agent_queue') : m.type = "ADD" =>
          connection'[m.channel] = NULL /\ ~removed'[m.channel] /\ m.channel \notin pending'
    BY <1>2, <1>4, <1>6, QueueTypes DEF Queues
  <2>2. \A m \in Msgs(server_queue') : m.type = "REMOVE" => Released(m.channel)'
    BY <1>2, <1>3, <1>4, <1>7 DEF Queues
  <2> QED
    BY <1>2, <1>3, <2>1, <2>2 DEF Queues, session_vars
<1>9. Stages'
  BY <1>1, <1>2, <1>3, <1>4, <1>5, <1>6, <1>7 DEF Stages, session_vars
<1> QED
  BY <1>6, <1>8, <1>9 DEF IInv

-----------------------------------------------------------------------------
(* The connection agent: sockets and timers.                               *)

(* The agent tells the server task of channels it holds: their sessions    *)
(* have not been told that they are removed.                               *)
LEMMA TellsKeeps ==
    ASSUME IInv, NEW f \in Seq(ServerMessage), server_queue' = server_queue \o f,
           \A m \in Msgs(f) : m.type \notin Control /\ ~Released(m.channel),
           UNCHANGED <<agent_queue, state, waiting, removed, destroyed>>,
           \A k \in Channels : Released(k) => Released(k)',
           pending' \subseteq pending,
           \A k \in Channels : connection'[k] # connection[k] => k \in pending
    PROVE  server_queue' \in Seq(ServerMessage) /\ Queues' /\ Stages'
<1>1. TypeOK /\ Queues /\ Stages
  BY DEF IInv
<1>2. /\ server_queue \in Seq(ServerMessage)
      /\ \A m \in Msgs(server_queue) : m.channel \in Channels
      /\ \A m \in Msgs(agent_queue) : m.channel \in Channels
  BY <1>1, QueueTypes
<1>3. /\ server_queue' \in Seq(ServerMessage)
      /\ Msgs(server_queue') = Msgs(server_queue) \cup Msgs(f)
  BY <1>2, JoinIs
<1>4. Orderly(server_queue', waiting, state)
  <2>1. \A i \in DOMAIN f : f[i].type \notin Control
    BY DEF Msgs
  <2>2. Orderly(f, waiting, state)
    BY <2>1 DEF Orderly, Control
  <2>3. Orderly(server_queue, waiting, state)
    BY <1>1 DEF Queues
  <2>4. \A m \in Msgs(server_queue), n \in Msgs(f) :
               m.type = "REMOVE" \/ (m.type \in Control /\ n.type \in Control)
                  => m.channel # n.channel
    BY <1>1 DEF Queues
  <2> QED
    BY <1>2, <2>2, <2>3, <2>4, OrderlyJoin
<1>5. Queues'
  <2>1. \A m \in Msgs(agent_queue) : m.type = "ADD" =>
          connection'[m.channel] = NULL /\ ~removed'[m.channel] /\ m.channel \notin pending'
    BY <1>1, <1>2 DEF Queues
  <2>2. \A m \in Msgs(server_queue') : m.type = "REMOVE" => Released(m.channel)'
    BY <1>1, <1>2, <1>3 DEF Queues, Control
  <2>3. \A m \in Msgs(agent_queue), n \in Msgs(server_queue') :
          m.type \in Control /\ n.type \in Control => m.channel # n.channel
    BY <1>1, <1>3 DEF Queues
  <2> QED
    BY <1>1, <1>4, <2>1, <2>2, <2>3 DEF Queues
<1>6. \A k \in Channels : Released(k) /\ Silent(k) => Silent(k)'
  BY <1>3 DEF Silent
<1>7. \A k \in Channels : Released(k) => connection'[k] = connection[k]
  BY DEF Released
<1>8. Stages'
  BY <1>1, <1>6, <1>7 DEF Stages
<1> QED
  BY <1>3, <1>5, <1>8

(* A step that leaves both queues, the sessions and the channels'          *)
(* connections alone.                                                      *)
LEMMA SilentKeeps ==
    ASSUME IInv,
           UNCHANGED <<agent_queue, server_queue, state, waiting, removed, destroyed,
                       connection, pending, channel_table>>
    PROVE  Queues' /\ Stages'
<1>1. \A k \in Channels : (Released(k)' <=> Released(k)) /\ (Silent(k)' <=> Silent(k))
  BY DEF Released, Silent
<1>2. \A m \in Msgs(server_queue) : m.channel \in Channels
  BY QueueTypes DEF IInv
<1> QED
  BY <1>1, <1>2 DEF IInv, Queues, Stages

(* mrcp_server_agent_connection_accept                                     *)
LEMMA AcceptKeeps ==
    ASSUME IInv, NEW c \in Connections, AgentAccept(c)
    PROVE  IInv'
<1>1. /\ sock[c] = "none"
      /\ sock' = [sock EXCEPT ![c] = "open"]
      /\ connection_list' = connection_list \cup {c}
      /\ timers' = [timers EXCEPT ![c] = IF InactivityTimeout THEN {"inactivity"} ELSE {}]
      /\ UNCHANGED <<pending, access_count, channel_table, freed, channel_vars,
                     agent_queue, server_queue, session_vars, received>>
  BY DEF AgentAccept
<1>2. TypeOK /\ Tables /\ Sockets /\ Owned /\ Queues /\ Stages
  BY DEF IInv
<1>3. Queues' /\ Stages'
  BY <1>1, SilentKeeps DEF channel_vars, session_vars
<1>4. TypeOK'
  BY <1>1, <1>2 DEF TypeOK, channel_vars, session_vars
<1>5. /\ \A d \in Connections : sock'[d] = (IF d = c THEN "open" ELSE sock[d])
      /\ \A d \in Connections : d # c => timers'[d] = timers[d]
      /\ "termination" \notin timers'[c]
  BY <1>1, <1>2 DEF TypeOK
<1>6. Tables' /\ Sockets' /\ Owned'
  <2>1. Tables'
    BY <1>1, <1>2 DEF Tables, channel_vars
  <2>2. Sockets'
    BY <1>1, <1>2, <1>5 DEF Sockets
  <2>3. Owned'
    BY <1>1, <1>2, <1>5 DEF Owned, Keeps, channel_vars
  <2> QED
    BY <2>1, <2>2, <2>3
<1> QED
  BY <1>3, <1>4, <1>6 DEF IInv

(* A channel that is pending joins the connection.                         *)
LEMMA ReceiveKeeps ==
    ASSUME IInv, NEW c \in Connections, NEW ch \in Channels, AgentReceive(c, ch)
    PROVE  IInv'
<1>1. /\ sock[c] = "open" /\ ch \in channel_table[c] \cup pending
      /\ received < MaxReceived /\ received' = received + 1
      /\ IF ch \in channel_table[c]
         THEN UNCHANGED <<pending, channel_table, connection, access_count>>
         ELSE /\ pending' = pending \ {ch}
              /\ channel_table' = [channel_table EXCEPT ![c] = @ \cup {ch}]
              /\ connection' = [connection EXCEPT ![ch] = c]
              /\ access_count' = [access_count EXCEPT ![c] = @ + 1]
      /\ timers' = IF InactivityTimeout
                   THEN [timers EXCEPT ![c] = @ \cup {"inactivity"}] ELSE timers
      /\ server_queue' = Append(server_queue, [type |-> "RECEIVE", channel |-> ch])
      /\ UNCHANGED <<connection_list, sock, freed, removed, destroyed, agent_queue,
                     session_vars>>
  BY DEF AgentReceive
<1>2. TypeOK /\ Tables /\ Sockets /\ Owned /\ Queues /\ Stages
  BY DEF IInv
<1>3. \A d \in Connections : d # NULL
  BY ConnectionConstantsAssumption
<1>4. /\ connection' \in [Channels -> Connections \cup {NULL}]
      /\ access_count' \in [Connections -> Nat]
      /\ channel_table' \in [Connections -> SUBSET Channels]
      /\ pending' \subseteq pending
      /\ \A k \in Channels : connection'[k] # connection[k] => k \in pending
      /\ \A d \in Connections, k \in Channels :
            k \in channel_table'[d] <=> k \in channel_table[d] \/ (k = ch /\ d = c)
      /\ \A d \in Connections : d # c => channel_table'[d] = channel_table[d]
      /\ \A d \in Connections : /\ IsFiniteSet(channel_table'[d])
                                /\ access_count'[d] = Cardinality(channel_table'[d])
  <2>1. CASE ch \in channel_table[c]
    BY <1>1, <1>2, <2>1 DEF TypeOK, Tables
  <2>2. CASE ch \notin channel_table[c]
    <3>1. /\ pending' = pending \ {ch} /\ ch \in pending
          /\ channel_table' = [channel_table EXCEPT ![c] = @ \cup {ch}]
          /\ connection' = [connection EXCEPT ![ch] = c]
          /\ access_count' = [access_count EXCEPT ![c] = @ + 1]
      BY <1>1, <2>2
    <3>2. /\ IsFiniteSet(channel_table[c] \cup {ch})
          /\ Cardinality(channel_table[c] \cup {ch}) = access_count[c] + 1
      <4>1. IsFiniteSet(channel_table[c]) /\ access_count[c] = Cardinality(channel_table[c])
        BY <1>2 DEF Tables
      <4>2. /\ IsFiniteSet(channel_table[c] \cup {ch})
            /\ Cardinality(channel_table[c] \cup {ch}) = Cardinality(channel_table[c]) + 1
        BY <2>2, <4>1, FS_AddElement
      <4> QED
        BY <4>1, <4>2
    <3>3. /\ connection' \in [Channels -> Connections \cup {NULL}]
          /\ access_count' \in [Connections -> Nat]
          /\ channel_table' \in [Connections -> SUBSET Channels]
          /\ \A k \in Channels : connection'[k] # connection[k] => k \in pending
          /\ \A d \in Connections :
                channel_table'[d] = (IF d = c THEN channel_table[c] \cup {ch} ELSE channel_table[d])
          /\ \A d \in Connections :
                access_count'[d] = (IF d = c THEN access_count[c] + 1 ELSE access_count[d])
      BY <1>2, <3>1 DEF TypeOK
    <3>4. ASSUME NEW d \in Connections
          PROVE  /\ IsFiniteSet(channel_table'[d])
                 /\ access_count'[d] = Cardinality(channel_table'[d])
      <4>1. CASE d = c
        <5>1. channel_table'[d] = channel_table[c] \cup {ch} /\ access_count'[d] = access_count[c] + 1
          BY <3>3, <4>1
        <5> QED
          BY <3>2, <5>1
      <4>2. CASE d # c
        <5>1. channel_table'[d] = channel_table[d] /\ access_count'[d] = access_count[d]
          BY <3>3, <4>2
        <5> QED
          BY <1>2, <5>1 DEF Tables
      <4> QED
        BY <4>1, <4>2
    <3> QED
      BY <3>1, <3>3, <3>4
  <2> QED
    BY <2>1, <2>2
<1>5. \A k \in Channels : connection'[k] = (IF k = ch THEN c ELSE connection[k])
  BY <1>1, <1>2 DEF TypeOK, Tables
<1>6. ch \notin pending' /\ ~removed[ch] /\ freed[c] = 0
  BY <1>1, <1>2, <1>3 DEF Tables, Owned
<1>7. ~Released(ch)
  BY <1>1 DEF Released
<1>8. \A k \in Channels : Released(k) => Released(k)'
  BY <1>1, <1>4, <1>7 DEF Released
<1>9. server_queue' \in Seq(ServerMessage) /\ Queues' /\ Stages'
  <2>1. PICK x : x = [type |-> "RECEIVE", channel |-> ch]
    OBVIOUS
  <2>2. x \in ServerMessage /\ x.type \notin Control /\ x.channel = ch
    BY <2>1 DEF ServerMessage, Control
  <2>3. server_queue \in Seq(ServerMessage)
    BY <1>2 DEF TypeOK
  <2>4. /\ Append(server_queue, x) = server_queue \o <<x>>
        /\ <<x>> \in Seq(ServerMessage) /\ Msgs(<<x>>) = {x}
    BY <2>2, <2>3, OneIs
  <2>5. \A m \in Msgs(<<x>>) : m.type \notin Control /\ ~Released(m.channel)
    BY <1>7, <2>2, <2>4
  <2>6. server_queue' = server_queue \o <<x>>
    BY <1>1, <2>1, <2>4
  <2>7. UNCHANGED <<agent_queue, state, waiting, removed, destroyed>>
    BY <1>1 DEF session_vars
  <2> QED
    BY <1>4, <1>8, <2>4, <2>5, <2>6, <2>7, TellsKeeps
<1>10. TypeOK'
  <2>1. received' \in 0..MaxReceived
    BY <1>1, <1>2, ConnectionConstantsAssumption DEF TypeOK
  <2>2. timers' \in [Connections -> SUBSET {"inactivity", "termination"}]
    BY <1>1, <1>2 DEF TypeOK
  <2> QED
    BY <1>1, <1>2, <1>4, <1>9, <2>1, <2>2 DEF TypeOK, session_vars
<1>11. Tables'
  <2>1. \A k \in Channels, d \in Connections :
           k \in channel_table'[d] <=> connection'[k] = d /\ ~removed'[k]
    BY <1>1, <1>2, <1>3, <1>4, <1>5, <1>6 DEF Tables
  <2>2. \A k \in pending' : connection'[k] = NULL /\ ~removed'[k]
    BY <1>1, <1>2, <1>4, <1>5, <1>6 DEF Tables, TypeOK
  <2> QED
    BY <1>4, <2>1, <2>2 DEF Tables
<1>12. Sockets'
  <2>1. /\ \A d \in Connections : d # c => timers'[d] = timers[d]
        /\ "termination" \in timers'[c] => "termination" \in timers[c]
    BY <1>1, <1>2 DEF TypeOK
  <2> QED
    BY <1>1, <1>2, <1>4, <2>1 DEF Sockets
<1>13. Owned'
  <2>1. \A k \in Channels, d \in Connections : Keeps(k, d)' <=> Keeps(k, d)
    BY <1>1, <1>5, <1>6 DEF Keeps
  <2>2. \A d \in Connections : sock[d] = "closed" => channel_table'[d] = channel_table[d]
    BY <1>1, <1>4
  <2>3. ASSUME NEW d \in Connections, d # c
        PROVE  channel_table'[d] = channel_table[d]
    BY <1>4, <2>3
  <2>4. \A k \in Channels : ~Keeps(k, c)
    BY <1>1, <1>2 DEF Owned
  <2> QED
    BY <1>1, <1>2, <1>6, <2>1, <2>3, <2>4 DEF Owned
<1> QED
  BY <1>9, <1>10, <1>11, <1>12, <1>13 DEF IInv

(* The disconnect events of a connection name channels in its table.       *)
LEMMA RaiseIs ==
    ASSUME IInv, NEW c \in Connections, DisconnectRaise(c)
    PROVE  \E f \in Seq(ServerMessage) :
              /\ server_queue' = server_queue \o f
              /\ \A m \in Msgs(f) : m.type \notin Control /\ ~Released(m.channel)
<1>1. PICK order \in [1..Cardinality(channel_table[c]) -> channel_table[c]] :
         server_queue' = server_queue \o [i \in DOMAIN order |->
                             [type |-> "DISCONNECT", channel |-> order[i]]]
  BY DEF DisconnectRaise
<1>2. Cardinality(channel_table[c]) \in Nat /\ channel_table[c] \subseteq Channels
  BY FS_CardinalityType DEF IInv, Tables, TypeOK
<1> DEFINE f == [i \in DOMAIN order |-> [type |-> "DISCONNECT", channel |-> order[i]]]
<1>3. \A i \in DOMAIN order :
         /\ [type |-> "DISCONNECT", channel |-> order[i]] \in ServerMessage
         /\ order[i] \in channel_table[c]
  BY <1>1, <1>2 DEF ServerMessage
<1>4. f \in [1..Cardinality(channel_table[c]) -> ServerMessage]
  BY <1>1, <1>3
<1>5. f \in Seq(ServerMessage)
  BY <1>2, <1>4
<1>6. ASSUME NEW m \in Msgs(f) PROVE m.type \notin Control /\ ~Released(m.channel)
  <2>1. PICK i \in DOMAIN f : m = f[i]
    BY DEF Msgs
  <2>2. m = [type |-> "DISCONNECT", channel |-> order[i]] /\ i \in DOMAIN order
    BY <2>1
  <2>3. m.type = "DISCONNECT" /\ m.channel \in channel_table[c]
    BY <1>3, <2>2
  <2> QED
    BY <2>3 DEF Control, Released
<1> QED
  BY <1>1, <1>5, <1>6

(* The messages of a connection that closes or whose timer expires.        *)
LEMMA RaiseKeeps ==
    ASSUME IInv, NEW c \in Connections, DisconnectRaise(c) \/ UNCHANGED server_queue,
           UNCHANGED <<agent_queue, state, waiting, channel_vars, pending, channel_table>>
    PROVE  server_queue' \in Seq(ServerMessage) /\ Queues' /\ Stages'
<1>1. CASE UNCHANGED server_queue
  BY <1>1, SilentKeeps DEF IInv, TypeOK, channel_vars
<1>2. CASE DisconnectRaise(c)
  <2>1. PICK f \in Seq(ServerMessage) :
           /\ server_queue' = server_queue \o f
           /\ \A m \in Msgs(f) : m.type \notin Control /\ ~Released(m.channel)
    BY <1>2, RaiseIs
  <2>2. \A k \in Channels : Released(k) => Released(k)'
    BY DEF Released
  <2> QED
    BY <2>1, <2>2, TellsKeeps DEF channel_vars
<1> QED
  BY <1>1, <1>2

(* A connection without channels is freed when it closes, any other by its *)
(* last channel.                                                           *)
LEMMA CloseKeeps ==
    ASSUME IInv, NEW c \in Connections, NEW timedout \in BOOLEAN, sock[c] = "open",
           Close(c, timedout)
    PROVE  IInv'
<1>1. /\ sock' = [sock EXCEPT ![c] = "closed"]
      /\ connection_list' = connection_list \ {c}
      /\ timers' = [timers EXCEPT ![c] =
             (@ \ {"inactivity"}) \cup
             (IF access_count[c] > 0 /\ ~timedout /\ TerminationTimeout
              THEN {"termination"} ELSE {})]
      /\ freed' = [freed EXCEPT ![c] = @ + (IF access_count[c] = 0 THEN 1 ELSE 0)]
      /\ DisconnectRaise(c) \/ UNCHANGED server_queue
      /\ UNCHANGED <<pending, access_count, channel_table, channel_vars, agent_queue,
                     session_vars, received>>
  BY DEF Close, ConnectionClose
<1>2. TypeOK /\ Tables /\ Sockets /\ Owned /\ Queues /\ Stages
  BY DEF IInv
<1>3. server_queue' \in Seq(ServerMessage) /\ Queues' /\ Stages'
  BY <1>1, RaiseKeeps DEF session_vars
<1>4. freed[c] = 0 /\ access_count[c] \in Nat
  BY <1>2 DEF Owned, TypeOK
<1>5. access_count[c] = 0 <=> channel_table[c] = {}
  <2>1. IsFiniteSet(channel_table[c]) /\ access_count[c] = Cardinality(channel_table[c])
    BY <1>2 DEF Tables
  <2> QED
    BY <2>1, FS_EmptySet
<1>6. \A d \in Connections :
         /\ sock'[d] = (IF d = c THEN "closed" ELSE sock[d])
         /\ freed'[d] = (IF d = c THEN (IF access_count[c] = 0 THEN 1 ELSE 0) ELSE freed[d])
         /\ d # c => timers'[d] = timers[d]
  BY <1>1, <1>2, <1>4 DEF TypeOK
<1>7. /\ "inactivity" \notin timers'[c]
      /\ "termination" \in timers'[c] => access_count[c] > 0
  BY <1>1, <1>2 DEF TypeOK, Sockets
<1>8. TypeOK'
  <2>1. freed' \in [Connections -> Nat]
    BY <1>1, <1>2, <1>4 DEF TypeOK
  <2>2. timers' \in [Connections -> SUBSET {"inactivity", "termination"}]
    BY <1>1, <1>2 DEF TypeOK
  <2> QED
    BY <1>1, <1>2, <1>3, <2>1, <2>2 DEF TypeOK, channel_vars, session_vars
<1>9. Tables'
  BY <1>1, <1>2 DEF Tables, channel_vars
<1>10. Sockets'
  BY <1>1, <1>2, <1>4, <1>5, <1>6, <1>7 DEF Sockets
<1>11. Owned'
  <2>1. \A k \in Channels, d \in Connections : Keeps(k, d)' <=> Keeps(k, d)
    BY <1>1 DEF Keeps, channel_vars
  <2>2. \A k \in Channels : ~Keeps(k, c)
    BY <1>2 DEF Owned
  <2> QED
    BY <1>1, <1>2, <1>5, <1>6, <2>1, <2>2 DEF Owned
<1> QED
  BY <1>3, <1>8, <1>9, <1>10, <1>11 DEF IInv

(* mrcp_server_termination_timer_proc                                      *)
LEMMA TimerKeeps ==
    ASSUME IInv, NEW c \in Connections, TerminationTimerProc(c)
    PROVE  IInv'
<1>1. /\ timers' = [timers EXCEPT ![c] = @ \ {"termination"}]
      /\ DisconnectRaise(c)
      /\ UNCHANGED <<agent_vars, sock, access_count, channel_table, freed, channel_vars,
                     agent_queue, session_vars, received>>
  BY DEF TerminationTimerProc
<1>2. TypeOK /\ Tables /\ Sockets /\ Owned /\ Queues /\ Stages
  BY DEF IInv
<1>3. server_queue' \in Seq(ServerMessage) /\ Queues' /\ Stages'
  BY <1>1, RaiseKeeps DEF agent_vars, session_vars
<1>4. TypeOK'
  BY <1>1, <1>2, <1>3 DEF TypeOK, agent_vars, channel_vars, session_vars
<1>5. \A d \in Connections : timers'[d] \subseteq timers[d]
  BY <1>1, <1>2 DEF TypeOK
<1>6. Tables' /\ Sockets' /\ Owned'
  <2>1. Tables' /\ Owned'
    BY <1>1, <1>2 DEF Tables, Owned, Keeps, agent_vars, channel_vars
  <2>2. Sockets'
    BY <1>1, <1>2, <1>5 DEF Sockets, agent_vars
  <2> QED
    BY <2>1, <2>2
<1> QED
  BY <1>3, <1>4, <1>6 DEF IInv

-----------------------------------------------------------------------------
(* The invariant holds when the server starts, ...                         *)
LEMMA InitIInv == Init => IInv
<1> SUFFICES ASSUME Init PROVE IInv
  OBVIOUS
<1>1. TypeOK
  BY ConnectionConstantsAssumption DEF Init, TypeOK
<1>2. Msgs(agent_queue) = {} /\ Msgs(server_queue) = {}
  BY DEF Init, Msgs
<1>3. Tables
  BY FS_EmptySet, ConnectionConstantsAssumption DEF Init, Tables
<1>4. Sockets /\ Owned
  BY DEF Init, Sockets, Owned, Keeps
<1>5. Queues
  BY <1>2 DEF Init, Queues, Orderly
<1>6. Stages
  BY <1>2, SessionOfIs DEF Init, Stages, Released, Silent
<1> QED
  BY <1>1, <1>3, <1>4, <1>5, <1>6 DEF IInv

(* ... and every step keeps it: one case per action of the two threads.    *)
LEMMA NextIInv == IInv /\ [Next]_vars => IInv'
<1> SUFFICES ASSUME IInv, [Next]_vars PROVE IInv'
  OBVIOUS
<1>1. CASE Server
  <2>1. CASE OnChannelModify
    BY <2>1, ResponseKeeps DEF OnChannelModify, Control
  <2>2. CASE OnChannelRemove
    BY <2>2, ResponseKeeps DEF OnChannelRemove, Control
  <2> QED
    BY <1>1, <2>1, <2>2, MessageKeeps, DisconnectKeeps DEF Server
<1>2. CASE Agent
  BY <1>2, AddKeeps, ModifyKeeps, RemoveKeeps, SendKeeps DEF Agent
<1>3. CASE \E s \in Sessions : \/ ServerOffer(s) \/ ServerReoffer(s)
                               \/ ServerTerminate(s) \/ ServerTerminateSend(s)
  BY <1>3, OfferKeeps, TerminateSendKeeps
<1>4. ASSUME NEW c \in Connections,
             \/ AgentAccept(c) \/ AgentPeerDisconnected(c)
             \/ \E ch \in Channels : AgentReceive(c, ch)
             \/ InactivityTimerProc(c) \/ TerminationTimerProc(c)
      PROVE  IInv'
  <2>1. CASE AgentPeerDisconnected(c)
    BY <2>1, CloseKeeps DEF AgentPeerDisconnected
  <2>2. CASE InactivityTimerProc(c)
    <3>1. sock[c] = "open" /\ Close(c, TRUE)
      BY <2>2 DEF InactivityTimerProc, IInv, Sockets
    <3> QED
      BY <3>1, CloseKeeps
  <2> QED
    BY <1>4, <2>1, <2>2, AcceptKeeps, ReceiveKeeps, TimerKeeps
<1>5. CASE UNCHANGED vars
  <2>1. TypeOK'
    BY <1>5 DEF IInv, TypeOK, vars, agent_vars, conn_vars, channel_vars, session_vars
  <2>2. Tables' /\ Sockets' /\ Owned'
    BY <1>5 DEF IInv, Tables, Sockets, Owned, Keeps, vars, agent_vars, conn_vars, channel_vars
  <2>3. Queues' /\ Stages'
    BY <1>5, SilentKeeps DEF vars, agent_vars, conn_vars, channel_vars, session_vars
  <2> QED
    BY <2>1, <2>2, <2>3 DEF IInv
<1> QED
  BY <1>1, <1>2, <1>3, <1>4, <1>5 DEF Next

(* The variables of the agent and of the sessions keep their types.        *)
THEOREM ConnectionTypeCorrect == Spec => []TypeOK
<1>1. IInv => TypeOK
  BY DEF IInv
<1> QED
  BY <1>1, InitIInv, NextIInv, PTL DEF Spec

(* A connection that is freed, by either task, is out of reach of the      *)
(* other: it is in no list, none of its timers is set, no channel that     *)
(* lives refers to it (mrcp_server_connection.c 282 and 657).              *)
THEOREM FreedIsUnreachable == Spec => []NoUseAfterFree
<1>1. IInv => NoUseAfterFree
  <2> SUFFICES ASSUME IInv, NEW c \in Connections, freed[c] > 0
               PROVE  /\ c \notin connection_list /\ timers[c] = {} /\ channel_table[c] = {}
                      /\ \A ch \in Channels : ~destroyed[ch] => connection[ch] # c
    BY DEF NoUseAfterFree
  <2>1. freed[c] # 0 /\ sock[c] = "closed" /\ channel_table[c] = {}
    BY DEF IInv, TypeOK, Owned
  <2>2. c \notin connection_list /\ timers[c] = {}
    <3>1. timers[c] \subseteq {"inactivity", "termination"}
      BY DEF IInv, TypeOK
    <3>2. c \notin connection_list /\ "inactivity" \notin timers[c] /\ "termination" \notin timers[c]
      BY <2>1 DEF IInv, Sockets
    <3> QED
      BY <3>1, <3>2
  <2>3. ASSUME NEW ch \in Channels PROVE connection[ch] # c
    <3>1. ~Keeps(ch, c) /\ ch \notin channel_table[c]
      BY <2>1 DEF IInv, Owned
    <3> QED
      BY <3>1 DEF IInv, Tables, Keeps
  <2> QED
    BY <2>1, <2>2, <2>3
<1> QED
  BY <1>1, InitIInv, NextIInv, PTL DEF Spec

(* When the server task destroys the channels of a session, the agent has  *)
(* let go of them: no table and no message in either direction names them  *)
(* (mrcp_server_session.c 982).                                            *)
THEOREM DestroyedIsSilent == Spec => []NoMessageAfterDestroy
<1>1. IInv => NoMessageAfterDestroy
  <2> SUFFICES ASSUME IInv, NEW ch \in Channels, destroyed[ch]
               PROVE  /\ ch \notin pending
                      /\ \A c \in Connections : ch \notin channel_table[c]
                      /\ \A i \in DOMAIN agent_queue : agent_queue[i].channel # ch
                      /\ \A i \in DOMAIN server_queue : server_queue[i].channel # ch
    BY DEF NoMessageAfterDestroy
  <2>1. Released(ch) /\ Silent(ch)
    BY DEF IInv, Stages
  <2> QED
    BY <2>1 DEF Released, Silent, Msgs
<1> QED
  BY <1>1, InitIInv, NextIInv, PTL DEF Spec

(* No connection is freed twice, and a closed one is freed, still used by  *)
(* some channel, or left to exactly one channel that will free it          *)
(* (mrcp_server_connection.c 536 and 645).                                 *)
THEOREM ClosedHasOneOwner == Spec => []ClosedIsOwned
<1>1. IInv => ClosedIsOwned
  <2> SUFFICES ASSUME IInv, NEW c \in Connections
               PROVE  /\ sock[c] = "closed" =>
                            freed[c] + Cardinality(Keepers(c))
                                = (IF channel_table[c] = {} THEN 1 ELSE 0)
                      /\ sock[c] # "closed" => freed[c] = 0 /\ Keepers(c) = {}
    BY DEF ClosedIsOwned
  <2>1. /\ freed[c] \in {0, 1}
        /\ sock[c] # "closed" \/ channel_table[c] # {} => freed[c] = 0
        /\ \A ch \in Channels : Keeps(ch, c) =>
              /\ sock[c] = "closed" /\ channel_table[c] = {} /\ freed[c] = 0
              /\ \A other \in Channels : Keeps(other, c) => other = ch
        /\ sock[c] = "closed" /\ channel_table[c] = {} /\ freed[c] = 0 =>
              \E ch \in Channels : Keeps(ch, c)
    BY DEF IInv, Owned
  <2>2. Keepers(c) = {ch \in Channels : Keeps(ch, c)}
    BY DEF Keepers, Keeps
  <2>3. CASE \E ch \in Channels : Keeps(ch, c)
    <3>1. PICK ch \in Channels : Keeps(ch, c)
      BY <2>3
    <3>2. Keepers(c) = {ch}
      BY <2>1, <2>2, <3>1
    <3>3. Cardinality(Keepers(c)) = 1
      BY <3>2, FS_Singleton
    <3> QED
      BY <2>1, <3>1, <3>3
  <2>4. CASE ~(\E ch \in Channels : Keeps(ch, c))
    <3>1. Keepers(c) = {}
      BY <2>2, <2>4
    <3>2. Cardinality(Keepers(c)) = 0
      BY <3>1, FS_EmptySet
    <3> QED
      BY <2>1, <2>4, <3>1, <3>2
  <2> QED
    BY <2>3, <2>4
<1> QED
  BY <1>1, InitIInv, NextIInv, PTL DEF Spec
=============================================================================
