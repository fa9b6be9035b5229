------------------------- MODULE ServerSessionProofs -------------------------
(***************************************************************************)
(* The server session for any offers, resources and engines: it knows      *)
(* exactly what it waits for, leaves nothing behind, and serves its        *)
(* signaling messages in order (SignalingQueue).                           *)
(***************************************************************************)
EXTENDS ServerSession, ObjListProofs, FiniteSetTheorems

(* Two requests to the media engine about the same termination.            *)
SameAim(m, n) == m.target = n.target /\ m.i = n.i /\ m.target # "topology"

(* The requests q are about different terminations, and the session waits  *)
(* for each of them.                                                       *)
Aimed(q, chs, sl) ==
    /\ q \in Seq(MpfCommand)
    /\ \A k, l \in DOMAIN q : k # l => ~SameAim(q[k], q[l])
    /\ \A k \in DOMAIN q :
          /\ q[k].target = "rtp" => q[k].i \in DOMAIN sl /\ sl[q[k].i]
          /\ q[k].target = "channel" =>
                q[k].i \in DOMAIN chs /\ chs[q[k].i].waiting_for_termination

(* The same for the requests to the connection agent.                      *)
Named(q, chs) ==
    /\ q \in Seq(DOMAIN chs)
    /\ \A k, l \in DOMAIN q : k # l => q[k] # q[l]
    /\ \A k \in DOMAIN q : chs[q[k]].waiting_for_channel

(* Nothing is to be answered.                                              *)
Quiet ==
    /\ mpf_pending = <<>> /\ agent_pending = <<>>
    /\ engine_pending = {} /\ deact_pending = {}

(* What the replies to come find.                                          *)
Waits ==
    /\ Aimed(mpf_pending, channels, slots)
    /\ Named(agent_pending, channels)
    /\ call # "none" \/ active_request.type \in {"NONE", "CONTROL"} => Quiet

(* The signaling messages that are not done.                               *)
IsMessage(m, chs) ==
    /\ m # NoMessage
    /\ m.type = "OFFER" => m.offer \in Offers
    /\ m.type = "CONTROL" => m.ch \in 0..Len(chs)
Messages ==
    /\ \A k \in DOMAIN request_queue : IsMessage(request_queue[k], channels)
    /\ active_request # NoMessage => IsMessage(active_request, channels)
    /\ active_request = NoMessage => request_queue = <<>> /\ call = "none"

(* What the state of the session says of the message it processes.         *)
Stages ==
    /\ state = "NONE" =>
          channels = <<>> /\ Quiet /\ call # "advance" /\ offer = NoOffer
    /\ state = "GENERATING_ANSWER" => offer # NoOffer
    /\ state = "INITIALIZING" /\ (~Quiet \/ call = "advance") => offer # NoOffer
    /\ offer # NoOffer =>
          /\ active_request = OfferMessage(offer) /\ status # "none"
          /\ state \in {"GENERATING_ANSWER", "INITIALIZING"} /\ call # "dispatch"
    /\ state \in {"DEACTIVATING", "TERMINATING"} =>
          active_request = TerminateMessage /\ call # "dispatch"
    /\ control_pending # 0 =>
          /\ control_pending \in DOMAIN channels
          /\ active_request.type = "CONTROL" /\ call = "none"
    /\ destroyed => state = "TERMINATING" /\ call = "none" /\ Quiet

(* An engine channel that was opened is still open or being closed, and    *)
(* the end of a session closes everything.                                 *)
Closes ==
    /\ \A c \in opened :
          channels[c].engine /\ (channels[c].open \/ c \in engine_pending)
    /\ \A c \in engine_pending : channels[c].engine
    /\ state = "TERMINATING" => \A k \in DOMAIN channels : ~channels[k].open

IInv == StateType /\ CountExact /\ Waits /\ Messages /\ Stages /\ Closes

(* Once the session is deactivated, a channel is being stopped or nothing  *)
(* is in progress on it, unless a request that its state machine sent by   *)
(* itself overtook the deactivation.                                       *)
Stopped(k) ==
    /\ machines[k].own = 0 /\ k # deferred
    /\ channels[k].in_progress => k \in deact_pending
Ends ==
    /\ MachinesType
    /\ state \in {"DEACTIVATING", "TERMINATING"} =>
          \A k \in DOMAIN channels : k \in overtaken \/ Stopped(k)

(* The engine channels are open as offer o says.                           *)
Agrees(o) ==
    \A k \in DOMAIN channels :
        channels[k].engine /\ k \in DOMAIN o.ctl =>
            (channels[k].open <=> o.ctl[k].port = 1)

(* Channels and control media are paired by their positions.               *)
Paired ==
    /\ \A k \in DOMAIN channels : channels[k].id = k
    /\ state = "INITIALIZING" /\ offer # NoOffer => Agrees(offer)
    /\ state \in {"NONE", "INITIALIZING"} /\ offer = NoOffer => Agrees(last_offer)

-----------------------------------------------------------------------------
(* Sequences.                                                              *)

(* What is left of a queue once its first element is taken.                *)
LEMMA TailIs ==
    ASSUME NEW M, NEW q \in Seq(M), q # <<>>
    PROVE  /\ Tail(q) \in Seq(M) /\ Head(q) \in M /\ Len(Tail(q)) = Len(q) - 1
           /\ 1 \in DOMAIN q /\ Head(q) = q[1] /\ Len(q) \in Nat \ {0}
           /\ \A k \in DOMAIN Tail(q) :
                 k \in Nat /\ k + 1 \in DOMAIN q /\ k + 1 # 1 /\ Tail(q)[k] = q[k + 1]
<1>1. Len(q) \in Nat \ {0} /\ DOMAIN q = 1..Len(q)
  OBVIOUS
<1>2. Tail(q) \in Seq(M) /\ Head(q) \in M /\ Len(Tail(q)) = Len(q) - 1
  OBVIOUS
<1>3. DOMAIN Tail(q) = 1..(Len(q) - 1)
  BY <1>1, <1>2
<1>4. \A k \in 1..(Len(q) - 1) : Tail(q)[k] = q[k + 1]
  BY <1>1
<1> QED
  BY <1>1, <1>2, <1>3, <1>4

(* The element at each position of two queues joined.                      *)
LEMMA JoinAt ==
    ASSUME NEW M, NEW q \in Seq(M), NEW r \in Seq(M)
    PROVE  \A k \in 1..(Len(q) + Len(r)) :
              (q \o r)[k] = IF k <= Len(q) THEN q[k] ELSE r[k - Len(q)]
  OBVIOUS

(* The elements of two queues joined are those of the one and the other.   *)
LEMMA JoinIs ==
    ASSUME NEW M, NEW q \in Seq(M), NEW r \in Seq(M)
    PROVE  /\ q \o r \in Seq(M) /\ Len(q \o r) = Len(q) + Len(r)
           /\ \A k \in DOMAIN (q \o r) :
                 \/ k \in DOMAIN q /\ (q \o r)[k] = q[k]
                 \/ /\ k - Len(q) \in DOMAIN r /\ (q \o r)[k] = r[k - Len(q)]
                    /\ k > Len(q)
           /\ Len(q) \in Nat /\ DOMAIN q = 1..Len(q)
           /\ Len(r) \in Nat /\ DOMAIN r = 1..Len(r)
           /\ DOMAIN (q \o r) = 1..(Len(q) + Len(r))
<1>1. /\ Len(q) \in Nat /\ DOMAIN q = 1..Len(q)
      /\ Len(r) \in Nat /\ DOMAIN r = 1..Len(r)
  OBVIOUS
<1>2. q \o r \in Seq(M) /\ Len(q \o r) = Len(q) + Len(r)
  OBVIOUS
<1>3. DOMAIN (q \o r) = 1..(Len(q) + Len(r))
  BY <1>2, <1>1
<1>4. \A k \in 1..(Len(q) + Len(r)) :
         (q \o r)[k] = IF k <= Len(q) THEN q[k] ELSE r[k - Len(q)]
  BY JoinAt
<1> QED
  BY <1>1, <1>2, <1>3, <1>4

(* The list [k \in 1..n |-> F(k)] of elements of M.                        *)
LEMMA ListIs ==
    ASSUME NEW M, NEW n \in Nat, NEW f, f = [k \in 1..n |-> f[k]],
           \A k \in 1..n : f[k] \in M
    PROVE  f \in Seq(M) /\ Len(f) = n /\ DOMAIN f = 1..n
<1>1. f \in [1..n -> M]
  OBVIOUS
<1> QED
  BY <1>1

(* q has elements of s at positions in keep, in their order.               *)
KeptOf(q, s, keep) ==
    /\ \A k \in DOMAIN q : \E i \in keep : q[k] = s[i]
    /\ \A k, l \in DOMAIN q : k < l =>
          \E i, j \in keep : i < j /\ q[k] = s[i] /\ q[l] = s[j]

(* The elements kept of a list, and their order.                           *)
LEMMA KeptAre ==
    ASSUME NEW S, NEW s \in Seq(S), NEW keep, keep \subseteq DOMAIN s
    PROVE  KeepAt(s, keep) \in Seq(S) /\ KeptOf(KeepAt(s, keep), s, keep)
<1> DEFINE kept == KeepAt(s, keep)
<1>1. kept \in Seq(S)
  BY KeepAtType
<1>2. {kept[k] : k \in DOMAIN kept} = {s[i] : i \in keep}
  BY KeepAtElements
<1>3. \A k, l \in DOMAIN kept : k < l =>
         \E i, j \in keep : i < j /\ kept[k] = s[i] /\ kept[l] = s[j]
  BY KeepAtOrder
<1> HIDE DEF kept
<1>4. \A k \in DOMAIN kept : \E i \in keep : kept[k] = s[i]
  BY <1>2
<1>5. KeptOf(kept, s, keep)
  BY <1>3, <1>4 DEF KeptOf
<1> QED
  BY <1>1, <1>5 DEF kept

(* Keeping the positions behind n numbers them from 1 again.               *)
LEMMA KeepAtBehind ==
    ASSUME NEW S, NEW s \in Seq(S), NEW n \in Nat, NEW keep,
           keep = {i \in DOMAIN s : i > n}
    PROVE  \A k \in DOMAIN KeepAt(s, keep) :
              n + k \in keep /\ KeepAt(s, keep)[k] = s[n + k]
<1>1. PICK f : f = Enumeration(keep, Len(s))
  OBVIOUS
<1>2. Len(s) \in Nat /\ DOMAIN s = 1..Len(s) /\ keep \subseteq 1..Len(s)
  OBVIOUS
<1>3. PICK m \in 0..Len(s) : f \in [1..m -> keep]
  BY <1>1, <1>2, EnumerationIs
<1>4. /\ \A i \in keep : \E k \in 1..m : f[k] = i
      /\ \A k, l \in 1..m : k < l => f[k] < f[l]
  <2>1. Enumerates(f, keep)
    BY <1>1, <1>2, EnumerationIs
  <2>2. DOMAIN f = 1..m
    BY <1>3
  <2> QED
    BY <2>1, <2>2 DEF Enumerates
<1>5. \A k \in 1..m : f[k] \in keep /\ f[k] \in Nat /\ f[k] > n /\ f[k] <= Len(s)
  BY <1>2, <1>3
<1>6. \A k \in 1..m : f[k] = n + k
  <2> DEFINE Bad == {k \in 1..m : f[k] # n + k}
  <2>1. SUFFICES ASSUME Bad # {} PROVE FALSE
    OBVIOUS
  <2>2. PICK x \in Bad : \A y \in Bad : x <= y
    <3>1. Bad \subseteq Nat
      BY <1>3
    <3> HIDE DEF Bad
    <3> QED
      BY <2>1, <3>1, LeastNat
  <2>3. x \in 1..m /\ f[x] # n + x /\ \A y \in 1..m : y < x => f[y] = n + y
    BY <2>2, <1>3
  <2>4. x \in Nat /\ x >= 1 /\ x <= m /\ m \in Nat
    BY <2>3, <1>3
  <2> HIDE DEF Bad
  <2>5. f[x] >= n + x
    <3>1. CASE x = 1
      BY <3>1, <1>5, <2>3
    <3>2. CASE x # 1
      <4>1. x - 1 \in 1..m /\ x - 1 < x
        BY <2>4, <3>2
      <4>2. f[x - 1] = n + (x - 1) /\ f[x - 1] < f[x]
        BY <4>1, <2>3, <1>4
      <4> QED
        BY <4>2, <2>4, <2>3, <1>5
    <3> QED
      BY <3>1, <3>2
  <2>6. n + x < f[x]
    <3>1. f[x] \in Nat
      BY <2>3, <1>5
    <3> QED
      BY <3>1, <2>3, <2>4, <2>5
  <2>7. n + x \in keep
    BY <2>6, <2>4, <2>3, <1>5, <1>2
  <2>8. PICK l \in 1..m : f[l] = n + x
    BY <2>7, <1>4
  <2>9. CASE l < x
    BY <2>9, <2>8, <2>3, <2>4
  <2>10. CASE l = x
    BY <2>10, <2>8, <2>3
  <2>11. CASE x < l
    <3>1. f[x] < f[l]
      BY <2>11, <2>3, <2>8, <1>4
    <3> QED
      BY <3>1, <2>6, <2>8, <2>3, <2>4, <1>5
  <2> QED
    BY <2>4, <2>8, <2>9, <2>10, <2>11
<1>7. KeepAt(s, keep) = [k \in 1..m |-> s[f[k]]]
  BY <1>1, <1>3 DEF KeepAt
<1> QED
  BY <1>3, <1>5, <1>6, <1>7

-----------------------------------------------------------------------------
(* Requests and replies.                                                   *)

(* A reply about nothing in particular leaves the others as they are.      *)
LEMMA AimedTail ==
    ASSUME NEW q, NEW chs, NEW sl, Aimed(q, chs, sl), q # <<>>
    PROVE  Aimed(Tail(q), chs, sl) /\ Head(q) \in MpfCommand
<1>1. q \in Seq(MpfCommand)
  BY DEF Aimed
<1>2. /\ Tail(q) \in Seq(MpfCommand) /\ Head(q) \in MpfCommand
      /\ \A k \in DOMAIN Tail(q) :
            k \in Nat /\ k + 1 \in DOMAIN q /\ Tail(q)[k] = q[k + 1]
  BY <1>1, TailIs
<1>3. \A k, l \in DOMAIN Tail(q) : k # l => k + 1 # l + 1
  BY <1>2
<1> QED
  BY <1>2, <1>3 DEF Aimed

(* The other requests are not about the termination of the first one.      *)
LEMMA HeadAim ==
    ASSUME NEW q, NEW chs, NEW sl, Aimed(q, chs, sl), q # <<>>
    PROVE  /\ \A k \in DOMAIN Tail(q) : ~SameAim(Tail(q)[k], Head(q))
           /\ Head(q).target = "rtp" => Head(q).i \in DOMAIN sl /\ sl[Head(q).i]
           /\ Head(q).target = "channel" =>
                 Head(q).i \in DOMAIN chs /\ chs[Head(q).i].waiting_for_termination
<1>1. q \in Seq(MpfCommand)
  BY DEF Aimed
<1>2. /\ 1 \in DOMAIN q /\ Head(q) = q[1]
      /\ \A k \in DOMAIN Tail(q) : k + 1 \in DOMAIN q /\ k + 1 # 1 /\ Tail(q)[k] = q[k + 1]
  BY <1>1, TailIs
<1> QED
  BY <1>2 DEF Aimed

(* Requests stay aimed as long as their waiting flags stay set.            *)
LEMMA AimedKept ==
    ASSUME NEW q, NEW chs, NEW sl, Aimed(q, chs, sl), NEW chs2, NEW sl2,
           \A k \in DOMAIN q :
              /\ q[k].target = "rtp" => q[k].i \in DOMAIN sl2 /\ sl2[q[k].i]
              /\ q[k].target = "channel" =>
                    q[k].i \in DOMAIN chs2 /\ chs2[q[k].i].waiting_for_termination
    PROVE  Aimed(q, chs2, sl2)
  BY DEF Aimed

(* Requests about different terminations, one list behind the other.       *)
LEMMA AimedJoin ==
    ASSUME NEW q, NEW r, NEW chs, NEW sl, Aimed(q, chs, sl), Aimed(r, chs, sl),
           \A k \in DOMAIN q, l \in DOMAIN r : ~SameAim(q[k], r[l])
    PROVE  Aimed(q \o r, chs, sl)
<1>1. q \in Seq(MpfCommand) /\ r \in Seq(MpfCommand)
  BY DEF Aimed
<1>2. PICK n, t : n = Len(q) /\ t = q \o r
  OBVIOUS
<1>3. /\ t \in Seq(MpfCommand) /\ n \in Nat /\ DOMAIN q = 1..n
      /\ DOMAIN t \subseteq Int /\ DOMAIN r \subseteq Int
      /\ \A k \in DOMAIN t :
            \/ k \in DOMAIN q /\ t[k] = q[k]
            \/ k - n \in DOMAIN r /\ t[k] = r[k - n] /\ k > n
  BY <1>1, <1>2, JoinIs
<1>4. ASSUME NEW k \in DOMAIN t, NEW l \in DOMAIN t, k # l, SameAim(t[k], t[l])
      PROVE  FALSE
  <2>1. CASE k \in DOMAIN q /\ t[k] = q[k] /\ l \in DOMAIN q /\ t[l] = q[l]
    BY <1>4, <2>1 DEF Aimed
  <2>2. CASE /\ k \in DOMAIN q /\ t[k] = q[k]
             /\ l - n \in DOMAIN r /\ t[l] = r[l - n]
    BY <1>4, <2>2
  <2>3. CASE /\ l \in DOMAIN q /\ t[l] = q[l]
             /\ k - n \in DOMAIN r /\ t[k] = r[k - n]
    BY <1>4, <2>3 DEF SameAim
  <2>4. CASE /\ k - n \in DOMAIN r /\ t[k] = r[k - n]
             /\ l - n \in DOMAIN r /\ t[l] = r[l - n]
    <3>1. k - n # l - n
      BY <1>3, <1>4
    <3> QED
      BY <1>4, <2>4, <3>1 DEF Aimed
  <2> QED
    BY <1>3, <2>1, <2>2, <2>3, <2>4
<1>5. \A k \in DOMAIN t :
         /\ t[k].target = "rtp" => t[k].i \in DOMAIN sl /\ sl[t[k].i]
         /\ t[k].target = "channel" =>
               t[k].i \in DOMAIN chs /\ chs[t[k].i].waiting_for_termination
  BY <1>3 DEF Aimed
<1> QED
  BY <1>2, <1>3, <1>4, <1>5 DEF Aimed

(* A reply of the connection agent, likewise.                              *)
LEMMA NamedTail ==
    ASSUME NEW q, NEW chs, Named(q, chs), q # <<>>
    PROVE  /\ Named(Tail(q), chs)
           /\ \A k \in DOMAIN Tail(q) : Tail(q)[k] # Head(q)
           /\ Head(q) \in DOMAIN chs /\ chs[Head(q)].waiting_for_channel
<1>1. q \in Seq(DOMAIN chs)
  BY DEF Named
<1>2. /\ Tail(q) \in Seq(DOMAIN chs) /\ Head(q) \in DOMAIN chs
      /\ 1 \in DOMAIN q /\ Head(q) = q[1]
      /\ \A k \in DOMAIN Tail(q) :
            k \in Nat /\ k + 1 \in DOMAIN q /\ k + 1 # 1 /\ Tail(q)[k] = q[k + 1]
  BY <1>1, TailIs
<1>3. \A k, l \in DOMAIN Tail(q) : k # l => k + 1 # l + 1
  BY <1>2
<1> QED
  BY <1>2, <1>3 DEF Named

(* They stay named as long as their waiting flags stay set.                *)
LEMMA NamedKept ==
    ASSUME NEW q, NEW chs, Named(q, chs), NEW chs2, DOMAIN chs2 = DOMAIN chs,
           \A k \in DOMAIN q : chs2[q[k]].waiting_for_channel
    PROVE  Named(q, chs2)
  BY DEF Named

(* Positions of channels, one list behind the other.                       *)
LEMMA NamedJoin ==
    ASSUME NEW q, NEW r, NEW chs, Named(q, chs), Named(r, chs),
           \A k \in DOMAIN q, l \in DOMAIN r : q[k] # r[l]
    PROVE  Named(q \o r, chs)
<1>1. q \in Seq(DOMAIN chs) /\ r \in Seq(DOMAIN chs)
  BY DEF Named
<1>2. PICK n, t : n = Len(q) /\ t = q \o r
  OBVIOUS
<1>3. /\ t \in Seq(DOMAIN chs) /\ n \in Nat /\ DOMAIN t \subseteq Int
      /\ \A k \in DOMAIN t :
            \/ k \in DOMAIN q /\ t[k] = q[k]
            \/ k - n \in DOMAIN r /\ t[k] = r[k - n]
  BY <1>1, <1>2, JoinIs
<1>4. \A k, l \in DOMAIN t : k # l => k - n # l - n
  BY <1>3
<1>5. \A k, l \in DOMAIN t : k # l => t[k] # t[l]
  BY <1>3, <1>4 DEF Named
<1>6. \A k \in DOMAIN t : chs[t[k]].waiting_for_channel
  BY <1>3 DEF Named
<1> QED
  BY <1>2, <1>3, <1>5, <1>6 DEF Named

(* Sets of positions are finite.                                           *)
LEMMA PositionsAre ==
    ASSUME NEW n \in Nat, NEW E, E \subseteq 1..n
    PROVE  /\ IsFiniteSet(E) /\ Cardinality(E) \in Nat
           /\ Cardinality(E) = 0 <=> E = {}
<1>1. IsFiniteSet(1..n)
  BY FS_Interval
<1>2. IsFiniteSet(E)
  BY <1>1, FS_Subset
<1> QED
  BY <1>2, FS_CardinalityType, FS_EmptySet

(* Nothing is outstanding exactly if nothing is to be answered.            *)
LEMMA OutstandingIs ==
    ASSUME StateType
    PROVE  /\ Len(mpf_pending) \in Nat /\ Len(agent_pending) \in Nat
           /\ IsFiniteSet(engine_pending) /\ IsFiniteSet(deact_pending)
           /\ Cardinality(engine_pending) \in Nat /\ Cardinality(deact_pending) \in Nat
           /\ Outstanding \in Nat /\ (Outstanding = 0 <=> Quiet)
<1>1. Len(channels) \in Nat /\ DOMAIN channels = 1..Len(channels)
  BY DEF StateType
<1>2. engine_pending \subseteq 1..Len(channels) /\ deact_pending \subseteq 1..Len(channels)
  BY <1>1 DEF StateType
<1>3. /\ IsFiniteSet(engine_pending) /\ Cardinality(engine_pending) \in Nat
      /\ Cardinality(engine_pending) = 0 <=> engine_pending = {}
  BY <1>1, <1>2, PositionsAre
<1>4. /\ IsFiniteSet(deact_pending) /\ Cardinality(deact_pending) \in Nat
      /\ Cardinality(deact_pending) = 0 <=> deact_pending = {}
  BY <1>1, <1>2, PositionsAre
<1>5. /\ Len(mpf_pending) \in Nat /\ Len(agent_pending) \in Nat
      /\ Len(mpf_pending) = 0 <=> mpf_pending = <<>>
      /\ Len(agent_pending) = 0 <=> agent_pending = <<>>
  BY DEF StateType
<1> QED
  BY <1>3, <1>4, <1>5 DEF Outstanding, Quiet

-----------------------------------------------------------------------------
(* Signaling messages.                                                     *)

(* The messages and their types are told apart.                            *)
LEMMA MessageTypes ==
    /\ NoOffer \in Offer /\ NoMessage \in SigMessage /\ TerminateMessage \in SigMessage
    /\ NoMessage.type = "NONE" /\ TerminateMessage.type = "TERMINATE"
    /\ \A o : OfferMessage(o).type = "OFFER" /\ OfferMessage(o).offer = o
    /\ \A o \in Offers : o \in Offer /\ o # NoOffer /\ OfferMessage(o) \in SigMessage
    /\ \A c \in Nat : ControlMessage(c) \in SigMessage /\ ControlMessage(c).ch = c
    /\ \A c : ControlMessage(c).type = "CONTROL"
    /\ \A m \in SigMessage :
          /\ m.type \in {"NONE", "OFFER", "CONTROL", "TERMINATE"}
          /\ m.type = "NONE" => m = NoMessage
          /\ m.type = "TERMINATE" => m = TerminateMessage
          /\ m.type = "OFFER" => m = OfferMessage(m.offer)
          /\ m.type = "CONTROL" => m.ch \in Nat
<1>1. NoOffer \in Offer
  BY DEF NoOffer, Offer
<1>2. \A o \in Offers : o \in Offer /\ o # NoOffer
  BY SessionConstantsAssumption DEF NoOffer
<1>3. /\ NoMessage \in SigMessage /\ TerminateMessage \in SigMessage
      /\ \A o \in Offer : OfferMessage(o) \in SigMessage
      /\ \A c \in Nat : ControlMessage(c) \in SigMessage
  BY <1>1 DEF NoMessage, TerminateMessage, OfferMessage, ControlMessage, SigMessage
<1>4. \A m \in SigMessage :
          /\ m.type \in {"NONE", "OFFER", "CONTROL", "TERMINATE"}
          /\ m.type = "NONE" => m = NoMessage
          /\ m.type = "TERMINATE" => m = TerminateMessage
          /\ m.type = "OFFER" => m = OfferMessage(m.offer)
          /\ m.type = "CONTROL" => m.ch \in Nat
  BY DEF NoMessage, TerminateMessage, OfferMessage, SigMessage
<1>5. /\ NoMessage.type = "NONE" /\ TerminateMessage.type = "TERMINATE"
      /\ \A o : OfferMessage(o).type = "OFFER" /\ OfferMessage(o).offer = o
      /\ \A c : ControlMessage(c).type = "CONTROL" /\ ControlMessage(c).ch = c
  BY DEF NoMessage, TerminateMessage, OfferMessage, ControlMessage
<1> QED
  BY <1>1, <1>2, <1>3, <1>4, <1>5

(* While no offer is processed and the session does not end, it is at      *)
(* rest.                                                                   *)
LEMMA AtRest ==
    ASSUME IInv, call = "dispatch" \/ active_request.type \in {"NONE", "CONTROL"}
    PROVE  /\ Quiet /\ offer = NoOffer /\ ~destroyed
           /\ state \in {"NONE", "INITIALIZING"} /\ call # "advance"
<1>1. Quiet
  BY DEF IInv, Waits
<1>2. offer = NoOffer
  BY MessageTypes DEF IInv, Stages
<1>3. state \notin {"DEACTIVATING", "TERMINATING"}
  BY MessageTypes DEF IInv, Stages
<1>4. state \in {"NONE", "INITIALIZING"} /\ ~destroyed
  BY <1>2, <1>3 DEF IInv, Stages, StateType
<1>5. call # "advance"
  BY <1>2, <1>4 DEF IInv, Stages
<1> QED
  BY <1>1, <1>2, <1>4, <1>5

(* The number of channels does not go down, so messages stay messages.     *)
LEMMA StillMessages ==
    ASSUME NEW m, NEW chs, NEW chs2, IsMessage(m, chs), Len(chs) \in Nat,
           Len(chs2) \in Nat, Len(chs) <= Len(chs2)
    PROVE  IsMessage(m, chs2)
  BY DEF IsMessage

(* A new signaling message is queued behind the others, or dispatched.     *)
LEMMA ReceiveKeeps ==
    ASSUME IInv, NEW m \in SigMessage, IsMessage(m, channels), Receive(m)
    PROVE  IInv'
<1>1. /\ call = "none" /\ ~destroyed /\ received' = received + 1
      /\ UNCHANGED <<state, subrequest_count, media_vars, offer_vars, pending_vars,
                     control_pending, completed, destroyed>>
  BY DEF Receive
<1>2. /\ UNCHANGED <<context, channels, slots, offer, last_offer, status, last_status>>
      /\ UNCHANGED <<mpf_pending, agent_pending, engine_pending, opened, deact_pending>>
      /\ UNCHANGED <<state, subrequest_count, control_pending, completed, destroyed>>
  BY <1>1 DEF media_vars, offer_vars, pending_vars
<1>3. CountExact' /\ Quiet' = Quiet /\ Closes'
  BY <1>2 DEF IInv, CountExact, Outstanding, Quiet, Closes
<1>4. Aimed(mpf_pending, channels, slots)' /\ Named(agent_pending, channels)'
  BY <1>2 DEF IInv, Waits
<1>5. active_request \in SigMessage /\ request_queue \in Seq(SigMessage)
  BY DEF IInv, StateType
<1>6. CASE active_request # NoMessage
  <2>1. /\ request_queue' = Append(request_queue, m)
        /\ active_request' = active_request /\ call' = call
    BY <1>6 DEF Receive
  <2>2. /\ request_queue' \in Seq(SigMessage)
        /\ \A k \in DOMAIN request_queue' :
              \/ k \in DOMAIN request_queue /\ request_queue'[k] = request_queue[k]
              \/ request_queue'[k] = m
    BY <2>1, <1>5
  <2>3. StateType'
    BY <1>1, <1>2, <2>1, <2>2 DEF IInv, StateType
  <2>4. Waits' /\ Stages'
    BY <1>2, <1>3, <1>4, <2>1 DEF IInv, Waits, Stages
  <2>5. Messages'
    BY <1>2, <1>6, <2>1, <2>2 DEF IInv, Messages
  <2> QED
    BY <1>3, <2>3, <2>4, <2>5 DEF IInv
<1>7. CASE active_request = NoMessage
  <2>1. request_queue' = request_queue /\ active_request' = m /\ call' = "dispatch"
    BY <1>7 DEF Receive
  <2>2. /\ Quiet /\ offer = NoOffer /\ ~destroyed
        /\ state \in {"NONE", "INITIALIZING"} /\ call # "advance"
    BY <1>7, AtRest, MessageTypes
  <2>3. control_pending = 0
    BY <1>7, MessageTypes DEF IInv, Stages
  <2>4. StateType'
    BY <1>1, <1>2, <2>1 DEF IInv, StateType
  <2>5. Waits' /\ Stages'
    BY <1>2, <1>3, <1>4, <2>1, <2>2, <2>3 DEF IInv, Waits, Stages
  <2>6. Messages'
    BY <1>2, <1>7, <2>1 DEF IInv, Messages, IsMessage
  <2> QED
    BY <1>3, <2>4, <2>5, <2>6 DEF IInv
<1> QED
  BY <1>6, <1>7

(* Every message a client sends is one.                                    *)
LEMMA ClientKeeps ==
    ASSUME IInv, Client
    PROVE  IInv'
<1>1. CASE ReceiveOffer
  <2>1. PICK o \in Offers : Receive(OfferMessage(o))
    BY <1>1 DEF ReceiveOffer
  <2>2. OfferMessage(o) \in SigMessage /\ IsMessage(OfferMessage(o), channels)
    BY MessageTypes DEF IsMessage
  <2> QED
    BY <2>1, <2>2, ReceiveKeeps
<1>2. CASE ReceiveControl
  <2>1. PICK c \in 0..Len(channels) : Receive(ControlMessage(c))
    BY <1>2 DEF ReceiveControl
  <2>2. c \in Nat
    BY DEF IInv, StateType
  <2>3. ControlMessage(c) \in SigMessage /\ IsMessage(ControlMessage(c), channels)
    BY <2>2, MessageTypes DEF IsMessage
  <2> QED
    BY <2>1, <2>3, ReceiveKeeps
<1>3. CASE ReceiveTerminate
  <2>1. TerminateMessage \in SigMessage /\ IsMessage(TerminateMessage, channels)
    BY MessageTypes DEF IsMessage
  <2> QED
    BY <1>3, <2>1, ReceiveKeeps DEF ReceiveTerminate
<1> QED
  BY <1>1, <1>2, <1>3 DEF Client

(* A message is done: the session is at rest, or dispatches the next one.  *)
LEMMA PopKeeps ==
    ASSUME IInv, PopRequest, Quiet, ~destroyed, active_request # NoMessage,
           state \in {"NONE", "INITIALIZING"},
           UNCHANGED <<state, subrequest_count, context, slots, pending_vars,
                       received, destroyed>>,
           offer' = NoOffer, last_offer' \in Offer, last_status' \in Statuses,
           status' \in Statuses, control_pending' = 0,
           channels' \in Seq(Channel), DOMAIN channels' = DOMAIN channels,
           \A k \in DOMAIN channels :
              channels'[k].engine = channels[k].engine /\ channels'[k].open = channels[k].open
    PROVE  IInv'
<1>1. UNCHANGED <<mpf_pending, agent_pending, engine_pending, opened, deact_pending>>
  BY DEF pending_vars
<1>2. CountExact' /\ Quiet'
  BY <1>1 DEF IInv, CountExact, Outstanding, Quiet
<1>3. Len(channels) \in Nat /\ Len(channels') = Len(channels)
  BY DEF IInv, StateType
<1>4. request_queue \in Seq(SigMessage)
  BY DEF IInv, StateType
<1>5. /\ active_request' \in SigMessage /\ request_queue' \in Seq(SigMessage)
      /\ call' \in {"none", "dispatch"}
      /\ \A k \in DOMAIN request_queue' : IsMessage(request_queue'[k], channels)
      /\ active_request' # NoMessage => IsMessage(active_request', channels)
      /\ active_request' = NoMessage => request_queue' = <<>> /\ call' = "none"
      /\ active_request' # NoMessage => call' = "dispatch"
      /\ completed' = completed + 1
  <2>1. CASE request_queue = <<>>
    BY <2>1, <1>4, MessageTypes DEF PopRequest
  <2>2. CASE request_queue # <<>>
    <3>1. /\ active_request' = Head(request_queue) /\ request_queue' = Tail(request_queue)
          /\ call' = "dispatch" /\ completed' = completed + 1
      BY <2>2 DEF PopRequest
    <3>2. /\ Head(request_queue) \in SigMessage /\ Tail(request_queue) \in Seq(SigMessage)
          /\ 1 \in DOMAIN request_queue /\ Head(request_queue) = request_queue[1]
          /\ \A k \in DOMAIN Tail(request_queue) :
                /\ k + 1 \in DOMAIN request_queue
                /\ Tail(request_queue)[k] = request_queue[k + 1]
      BY <2>2, <1>4, TailIs
    <3>3. \A k \in DOMAIN request_queue : IsMessage(request_queue[k], channels)
      BY DEF IInv, Messages
    <3>4. active_request' # NoMessage
      BY <3>1, <3>2, <3>3 DEF IsMessage
    <3> QED
      BY <3>1, <3>2, <3>3, <3>4
  <2> QED
    BY <2>1, <2>2
<1>6. Messages'
  BY <1>3, <1>5, StillMessages DEF Messages
<1>7. StateType'
  <2>1. /\ agent_pending' \in Seq(DOMAIN channels') /\ opened' \subseteq DOMAIN channels'
        /\ engine_pending' \subseteq DOMAIN channels'
        /\ deact_pending' \subseteq DOMAIN channels'
    BY <1>1 DEF IInv, StateType
  <2>2. /\ completed' \in Nat /\ received' \in Nat /\ subrequest_count' \in Nat
        /\ slots' \in Seq(BOOLEAN) /\ mpf_pending' \in Seq(MpfCommand)
        /\ context' \in BOOLEAN /\ destroyed' \in BOOLEAN
    BY <1>1, <1>5 DEF IInv, StateType
  <2> QED
    BY <1>5, <2>1, <2>2, MessageTypes DEF StateType
<1>8. Waits'
  <2>1. mpf_pending' = <<>> /\ agent_pending' = <<>>
    BY <1>2 DEF Quiet
  <2> QED
    BY <1>2, <2>1 DEF Waits, Aimed, Named
<1>9. Stages'
  <2>1. state = "NONE" => channels' = <<>>
    BY <1>3 DEF IInv, Stages
  <2> QED
    BY <1>2, <1>5, <2>1 DEF Stages
<1>10. Closes'
  BY <1>1, <1>7 DEF IInv, Closes, StateType
<1> QED
  BY <1>2, <1>6, <1>7, <1>8, <1>9, <1>10 DEF IInv

(* An offer that is repeated, a control message that the state machine     *)
(* answers itself, and the answer to an offer.                             *)
LEMMA AnswerKeeps ==
    ASSUME IInv, OfferAgain \/ ControlAnswered \/ AnswerSend
    PROVE  IInv'
<1>1. \A k \in DOMAIN channels :
         UNCHANGED channels =>
            channels'[k].engine = channels[k].engine /\ channels'[k].open = channels[k].open
  OBVIOUS
<1>2. /\ channels \in Seq(Channel) /\ last_offer \in Offer /\ offer \in Offer
      /\ last_status \in Statuses /\ status \in Statuses /\ active_request \in SigMessage
      /\ "none" \in Statuses
  BY DEF IInv, StateType, Statuses
<1>3. CASE OfferAgain
  <2>1. /\ Quiet /\ ~destroyed /\ state \in {"NONE", "INITIALIZING"}
        /\ active_request # NoMessage
    BY <1>3, AtRest, MessageTypes DEF OfferAgain
  <2>2. control_pending = 0
    BY <1>3 DEF OfferAgain, IInv, Stages
  <2>3. active_request.offer \in Offer
    BY <1>3, <2>1, MessageTypes DEF OfferAgain, IInv, Messages, IsMessage
  <2>4. /\ PopRequest /\ offer' = NoOffer /\ last_offer' \in Offer
        /\ last_status' \in Statuses /\ status' \in Statuses
        /\ UNCHANGED <<state, subrequest_count, context, channels, slots, pending_vars,
                       control_pending, received, destroyed>>
    BY <1>2, <1>3, <2>3 DEF OfferAgain, answer_send, media_vars
  <2> QED
    BY <1>1, <1>2, <2>1, <2>2, <2>4, PopKeeps
<1>4. CASE ControlAnswered
  <2>1. /\ Quiet /\ ~destroyed /\ state \in {"NONE", "INITIALIZING"}
        /\ active_request # NoMessage /\ offer = NoOffer
    BY <1>4, AtRest, MessageTypes DEF ControlAnswered
  <2>2. control_pending = 0
    BY <1>4 DEF ControlAnswered, IInv, Stages
  <2>3. /\ PopRequest /\ UNCHANGED <<offer, last_offer, last_status, status>>
        /\ UNCHANGED <<state, subrequest_count, context, channels, slots, pending_vars,
                       control_pending, received, destroyed>>
    BY <1>4 DEF ControlAnswered, media_vars, offer_vars
  <2> QED
    BY <1>1, <1>2, <2>1, <2>2, <2>3, PopKeeps
<1>5. CASE AnswerSend
  <2>1. call = "advance" /\ state = "INITIALIZING"
    BY <1>5 DEF AnswerSend, Advance
  <2>2. Quiet /\ ~destroyed /\ control_pending = 0 /\ active_request # NoMessage
    BY <2>1, MessageTypes DEF IInv, Waits, Stages
  <2>3. /\ PopRequest /\ offer' = NoOffer /\ last_offer' \in Offer
        /\ last_status' \in Statuses /\ status' \in Statuses
        /\ UNCHANGED <<state, subrequest_count, context, channels, slots, pending_vars,
                       control_pending, received, destroyed>>
    BY <1>2, <1>5 DEF AnswerSend, answer_send, media_vars
  <2> QED
    BY <1>1, <1>2, <2>1, <2>2, <2>3, PopKeeps
<1> QED
  BY <1>3, <1>4, <1>5

(* One channel of the session changes.                                     *)
LEMMA ChannelSet ==
    ASSUME NEW chs \in Seq(Channel), NEW c \in DOMAIN chs, NEW x \in Channel, NEW chs2,
           chs2 = [chs EXCEPT ![c] = x]
    PROVE  /\ chs2 \in Seq(Channel) /\ DOMAIN chs2 = DOMAIN chs
           /\ Len(chs2) = Len(chs) /\ Len(chs) \in Nat /\ chs2[c] = x
           /\ \A k \in DOMAIN chs : k # c => chs2[k] = chs[k]
<1>1. chs \in [1..Len(chs) -> Channel] /\ Len(chs) \in Nat /\ DOMAIN chs = 1..Len(chs)
  OBVIOUS
<1>2. chs2 \in [1..Len(chs) -> Channel]
  BY <1>1
<1>3. chs2 \in Seq(Channel) /\ Len(chs2) = Len(chs)
  BY <1>1, <1>2
<1> QED
  BY <1>1, <1>2, <1>3

(* A control message that stays the active request.                        *)
LEMMA ControlKeeps ==
    ASSUME IInv, ControlDropped \/ ControlForwarded
    PROVE  IInv'
<1>1. call = "dispatch" /\ active_request.type = "CONTROL" /\ call' = "none"
  BY DEF ControlDropped, ControlForwarded
<1>2. Quiet /\ ~destroyed /\ state \in {"NONE", "INITIALIZING"} /\ offer = NoOffer
  BY <1>1, AtRest
<1>3. /\ UNCHANGED <<context, channels, slots, offer, last_offer, status, last_status>>
      /\ UNCHANGED <<mpf_pending, agent_pending, engine_pending, opened, deact_pending>>
      /\ UNCHANGED <<state, subrequest_count, received, completed, destroyed>>
      /\ UNCHANGED <<active_request, request_queue>>
  BY DEF ControlDropped, ControlForwarded, media_vars, offer_vars, pending_vars
<1>4. control_pending = 0
  BY <1>1 DEF IInv, Stages
<1>5. active_request # NoMessage /\ active_request \in SigMessage
  BY <1>1, MessageTypes DEF IInv, StateType
<1>6. control_pending' # 0 => control_pending' \in DOMAIN channels
  <2>1. CASE ControlDropped
    BY <2>1, <1>4 DEF ControlDropped
  <2>2. CASE ControlForwarded
    <3>1. active_request.ch \in 0..Len(channels) /\ active_request.ch # 0
      BY <1>1, <1>5, <2>2 DEF ControlForwarded, HasStateMachine, IInv, Messages, IsMessage
    <3>2. active_request.ch \in DOMAIN channels
      BY <3>1 DEF IInv, StateType
    <3> QED
      BY <3>2, <2>2, <1>4 DEF ControlForwarded
  <2> QED
    BY <2>1, <2>2
<1>7. CountExact' /\ Quiet' /\ Closes'
  BY <1>2, <1>3 DEF IInv, CountExact, Outstanding, Quiet, Closes
<1>8. control_pending' \in Nat
  BY <1>6, <1>3 DEF IInv, StateType
<1>9. StateType'
  BY <1>1, <1>3, <1>8 DEF IInv, StateType
<1>10. Waits' /\ Messages'
  BY <1>1, <1>3, <1>5, <1>7 DEF IInv, Waits, Messages
<1>11. Stages'
  BY <1>1, <1>2, <1>3, <1>6, <1>7 DEF IInv, Stages
<1> QED
  BY <1>7, <1>9, <1>10, <1>11 DEF IInv

-----------------------------------------------------------------------------
(* Replies.                                                                *)

(* A reply that was waited for: one less is outstanding, and the session   *)
(* goes on after the last one.                                             *)
LEMMA ReplyKeeps ==
    ASSUME IInv, Reply, subrequest_remove, Outstanding > 0, Outstanding' = Outstanding - 1,
           channels' \in Seq(Channel), DOMAIN channels' = DOMAIN channels,
           Len(channels') = Len(channels),
           \A k \in DOMAIN channels :
              /\ channels'[k].engine = channels[k].engine
              /\ channels'[k].open = channels[k].open
              /\ channels'[k].in_progress => channels[k].in_progress
           , slots' \in Seq(BOOLEAN),
           Aimed(mpf_pending, channels, slots)', Named(agent_pending, channels)',
           engine_pending' \subseteq engine_pending, deact_pending' \subseteq deact_pending,
           opened' \subseteq DOMAIN channels,
           status' \in Statuses, status # "none" => status' # "none",
           \A c \in opened' :
              channels[c].engine /\ (channels[c].open \/ c \in engine_pending'),
           \A k \in DOMAIN channels :
              channels'[k].in_progress /\ k \in deact_pending => k \in deact_pending'
    PROVE  IInv'
<1>1. /\ call = "none" /\ ~destroyed
      /\ UNCHANGED <<state, active_request, request_queue, context, offer,
                     last_offer, last_status, control_pending, received, completed,
                     destroyed>>
  BY DEF Reply
<1>2. Outstanding \in Nat /\ ~Quiet /\ subrequest_count = Outstanding
  BY OutstandingIs DEF IInv, CountExact
<1>3. /\ subrequest_count' = subrequest_count - 1
      /\ call' = IF subrequest_count = 1 THEN "advance" ELSE "none"
  BY <1>2 DEF subrequest_remove
<1>4. CountExact'
  BY <1>2, <1>3 DEF CountExact
<1>5. /\ mpf_pending' \in Seq(MpfCommand) /\ agent_pending' \in Seq(DOMAIN channels')
      /\ engine_pending' \subseteq DOMAIN channels' /\ deact_pending' \subseteq DOMAIN channels'
      /\ Len(channels') \in Nat /\ DOMAIN channels' = 1..Len(channels')
  BY DEF Aimed, Named, IInv, StateType
<1>6. Outstanding' = 0 => Quiet'
  <2>1. PICK q, r, E, D, n, N : /\ q = mpf_pending' /\ r = agent_pending'
                                /\ E = engine_pending' /\ D = deact_pending'
                                /\ n = Len(channels') /\ N = DOMAIN channels'
    OBVIOUS
  <2>2. /\ q \in Seq(MpfCommand) /\ r \in Seq(N) /\ n \in Nat
        /\ E \subseteq 1..n /\ D \subseteq 1..n
    BY <1>5, <2>1
  <2>3. Cardinality(E) \in Nat /\ (Cardinality(E) = 0 <=> E = {})
    BY <2>2, PositionsAre
  <2>4. Cardinality(D) \in Nat /\ (Cardinality(D) = 0 <=> D = {})
    BY <2>2, PositionsAre
  <2>5. /\ Len(q) \in Nat /\ (Len(q) = 0 <=> q = <<>>)
        /\ Len(r) \in Nat /\ (Len(r) = 0 <=> r = <<>>)
    BY <2>2
  <2>6. Len(q) + Len(r) + Cardinality(E) + Cardinality(D) = 0
           => q = <<>> /\ r = <<>> /\ E = {} /\ D = {}
    BY <2>3, <2>4, <2>5
  <2> QED
    BY <2>1, <2>6 DEF Outstanding, Quiet
<1>7. active_request.type \notin {"NONE", "CONTROL"} /\ active_request # NoMessage
  BY <1>2, MessageTypes DEF IInv, Waits
<1>8. StateType'
  <2>1. subrequest_count' \in Nat /\ call' \in {"none", "dispatch", "advance"}
    BY <1>2, <1>3
  <2>2. opened' \subseteq DOMAIN channels'
    OBVIOUS
  <2> QED
    BY <1>1, <1>5, <2>1, <2>2 DEF IInv, StateType
<1>9. Waits'
  <2>1. call' # "none" => Quiet'
    BY <1>2, <1>3, <1>6
  <2> QED
    BY <1>1, <1>7, <2>1 DEF Waits
<1>10. Messages'
  <2>1. \A m : IsMessage(m, channels) => IsMessage(m, channels')
    BY DEF IsMessage
  <2> QED
    BY <1>1, <1>7, <2>1 DEF IInv, Messages
<1>11. Stages'
  <2>1. state # "NONE" /\ control_pending = 0
    BY <1>2, <1>7 DEF IInv, Stages
  <2>2. state = "INITIALIZING" => offer # NoOffer
    BY <1>2 DEF IInv, Stages
  <2>3. call' # "dispatch"
    BY <1>3
  <2> QED
    BY <1>1, <2>1, <2>2, <2>3 DEF IInv, Stages
<1>12. Closes'
  <2>1. engine_pending \subseteq DOMAIN channels /\ \A c \in engine_pending : channels[c].engine
    BY DEF IInv, StateType, Closes
  <2>2. /\ \A c \in opened' :
              channels'[c].engine /\ (channels'[c].open \/ c \in engine_pending')
        /\ \A c \in engine_pending' : channels'[c].engine
    BY <2>1
  <2> QED
    BY <1>1, <2>2 DEF IInv, Closes
<1> QED
  BY <1>4, <1>8, <1>9, <1>10, <1>11, <1>12 DEF IInv

(* The media engine answers: the termination was waited for.               *)
LEMMA MpfKeeps ==
    ASSUME IInv, OnMpfResponse
    PROVE  IInv'
<1>1. /\ Reply /\ mpf_pending # <<>> /\ mpf_pending' = Tail(mpf_pending)
      /\ UNCHANGED <<status, agent_pending, engine_pending, opened, deact_pending>>
  BY DEF OnMpfResponse
<1>2. PICK m : m = Head(mpf_pending)
  OBVIOUS
<1>3. Aimed(mpf_pending, channels, slots)
  BY DEF IInv, Waits
<1>4. /\ Aimed(Tail(mpf_pending), channels, slots) /\ m \in MpfCommand
  BY <1>1, <1>2, <1>3, AimedTail
<1>5. /\ \A k \in DOMAIN Tail(mpf_pending) : ~SameAim(Tail(mpf_pending)[k], m)
      /\ m.target = "rtp" => m.i \in DOMAIN slots /\ slots[m.i]
      /\ m.target = "channel" =>
            m.i \in DOMAIN channels /\ channels[m.i].waiting_for_termination
  BY <1>1, <1>2, <1>3, HeadAim
<1>6. /\ Outstanding > 0 /\ Outstanding' = Outstanding - 1
  <2>1. /\ Len(Tail(mpf_pending)) = Len(mpf_pending) - 1 /\ Len(mpf_pending) \in Nat \ {0}
    BY <1>1, TailIs DEF IInv, StateType
  <2>2. /\ Len(agent_pending) \in Nat
        /\ Cardinality(engine_pending) \in Nat /\ Cardinality(deact_pending) \in Nat
    BY OutstandingIs DEF IInv
  <2> QED
    BY <1>1, <2>1, <2>2 DEF Outstanding
<1>7. /\ channels \in Seq(Channel) /\ slots \in Seq(BOOLEAN) /\ status \in Statuses
      /\ opened \subseteq DOMAIN channels /\ Named(agent_pending, channels)
      /\ \A c \in opened :
            channels[c].engine /\ (channels[c].open \/ c \in engine_pending)
  BY DEF IInv, StateType, Waits, Closes
<1>8. CASE m.target = "topology" /\ subrequest_remove /\ UNCHANGED <<channels, slots>>
  BY <1>1, <1>4, <1>6, <1>7, <1>8, ReplyKeeps
<1>9. CASE /\ m.target = "rtp" /\ UNCHANGED channels
           /\ IF slots[m.i] THEN subrequest_remove ELSE no_remove
           /\ slots' = [slots EXCEPT ![m.i] = FALSE]
  <2>1. subrequest_remove
    BY <1>5, <1>9
  <2>2. /\ slots' \in Seq(BOOLEAN) /\ DOMAIN slots' = DOMAIN slots
        /\ \A k \in DOMAIN slots : k # m.i => slots'[k] = slots[k]
    BY <1>5, <1>7, <1>9
  <2>3. Aimed(mpf_pending', channels', slots')
    <3>1. \A k \in DOMAIN Tail(mpf_pending) :
             Tail(mpf_pending)[k].target = "rtp" => Tail(mpf_pending)[k].i # m.i
      BY <1>5, <1>9 DEF SameAim
    <3>2. \A k \in DOMAIN Tail(mpf_pending) :
             /\ Tail(mpf_pending)[k].target = "rtp" =>
                   /\ Tail(mpf_pending)[k].i \in DOMAIN slots'
                   /\ slots'[Tail(mpf_pending)[k].i]
             /\ Tail(mpf_pending)[k].target = "channel" =>
                   /\ Tail(mpf_pending)[k].i \in DOMAIN channels
                   /\ channels[Tail(mpf_pending)[k].i].waiting_for_termination
      BY <1>4, <2>2, <3>1 DEF Aimed
    <3> QED
      BY <1>1, <1>4, <1>9, <3>2, AimedKept
  <2> QED
    BY <1>1, <1>6, <1>7, <1>9, <2>1, <2>2, <2>3, ReplyKeeps
<1>10. CASE /\ m.target = "channel" /\ UNCHANGED slots
            /\ IF channels[m.i].waiting_for_termination THEN subrequest_remove ELSE no_remove
            /\ channels' = [channels EXCEPT ![m.i].waiting_for_termination = FALSE]
  <2>1. subrequest_remove /\ m.i \in DOMAIN channels /\ channels[m.i] \in Channel
    BY <1>5, <1>7, <1>10
  <2>2. PICK x : x = [channels[m.i] EXCEPT !.waiting_for_termination = FALSE]
    OBVIOUS
  <2>3. /\ x \in Channel /\ x.engine = channels[m.i].engine /\ x.open = channels[m.i].open
        /\ x.in_progress = channels[m.i].in_progress
        /\ x.waiting_for_channel = channels[m.i].waiting_for_channel
    BY <2>1, <2>2 DEF Channel
  <2>4. /\ channels' \in Seq(Channel) /\ DOMAIN channels' = DOMAIN channels
        /\ Len(channels') = Len(channels) /\ channels'[m.i] = x
        /\ \A k \in DOMAIN channels : k # m.i => channels'[k] = channels[k]
    <3>1. channels' = [channels EXCEPT ![m.i] = x]
      BY <1>10, <2>2
    <3> QED
      BY <1>7, <2>1, <2>3, <3>1, ChannelSet
  <2>5. Aimed(mpf_pending', channels', slots')
    <3>1. \A k \in DOMAIN Tail(mpf_pending) :
             Tail(mpf_pending)[k].target = "channel" => Tail(mpf_pending)[k].i # m.i
      BY <1>5, <1>10 DEF SameAim
    <3>2. \A k \in DOMAIN Tail(mpf_pending) :
             /\ Tail(mpf_pending)[k].target = "rtp" =>
                   /\ Tail(mpf_pending)[k].i \in DOMAIN slots
                   /\ slots[Tail(mpf_pending)[k].i]
             /\ Tail(mpf_pending)[k].target = "channel" =>
                   /\ Tail(mpf_pending)[k].i \in DOMAIN channels'
                   /\ channels'[Tail(mpf_pending)[k].i].waiting_for_termination
      BY <1>4, <2>4, <3>1 DEF Aimed
    <3> QED
      BY <1>1, <1>4, <1>10, <3>2, AimedKept
  <2>6. Named(agent_pending', channels')
    <3>1. \A k \in DOMAIN agent_pending :
             channels'[agent_pending[k]].waiting_for_channel
      BY <1>7, <2>3, <2>4 DEF Named
    <3> QED
      BY <1>1, <1>7, <2>4, <3>1, NamedKept
  <2>7. \A k \in DOMAIN channels :
           /\ channels'[k].engine = channels[k].engine
           /\ channels'[k].open = channels[k].open
           /\ channels'[k].in_progress => channels[k].in_progress
    BY <2>3, <2>4
  <2> QED
    BY <1>1, <1>6, <1>7, <1>10, <2>1, <2>4, <2>5, <2>6, <2>7, ReplyKeeps
<1> QED
  BY <1>2, <1>8, <1>9, <1>10 DEF OnMpfResponse

(* The connection agent answers: the channel was waited for.               *)
LEMMA ChannelReplyKeeps ==
    ASSUME IInv, OnChannelReply
    PROVE  IInv'
<1>1. PICK c : c = Head(agent_pending)
  OBVIOUS
<1>2. /\ Reply /\ agent_pending # <<>> /\ agent_pending' = Tail(agent_pending)
      /\ IF channels[c].waiting_for_channel THEN subrequest_remove ELSE no_remove
      /\ channels' = [channels EXCEPT ![c].waiting_for_channel = FALSE]
      /\ UNCHANGED <<status, slots, mpf_pending, engine_pending, opened, deact_pending>>
  BY <1>1 DEF OnChannelReply
<1>3. Aimed(mpf_pending, channels, slots) /\ Named(agent_pending, channels)
  BY DEF IInv, Waits
<1>4. /\ Named(Tail(agent_pending), channels)
      /\ \A k \in DOMAIN Tail(agent_pending) : Tail(agent_pending)[k] # c
      /\ c \in DOMAIN channels /\ channels[c].waiting_for_channel
  BY <1>1, <1>2, <1>3, NamedTail
<1>5. /\ Outstanding > 0 /\ Outstanding' = Outstanding - 1
  <2>1. /\ Len(Tail(agent_pending)) = Len(agent_pending) - 1
        /\ Len(agent_pending) \in Nat \ {0}
    BY <1>2, TailIs DEF IInv, StateType
  <2>2. /\ Len(mpf_pending) \in Nat
        /\ Cardinality(engine_pending) \in Nat /\ Cardinality(deact_pending) \in Nat
    BY OutstandingIs DEF IInv
  <2> QED
    BY <1>2, <2>1, <2>2 DEF Outstanding
<1>6. /\ channels \in Seq(Channel) /\ slots \in Seq(BOOLEAN) /\ status \in Statuses
      /\ opened \subseteq DOMAIN channels
      /\ \A k \in opened :
            channels[k].engine /\ (channels[k].open \/ k \in engine_pending)
  BY DEF IInv, StateType, Closes
<1>7. PICK x : x = [channels[c] EXCEPT !.waiting_for_channel = FALSE]
  OBVIOUS
<1>8. /\ x \in Channel /\ x.engine = channels[c].engine /\ x.open = channels[c].open
      /\ x.in_progress = channels[c].in_progress
      /\ x.waiting_for_termination = channels[c].waiting_for_termination
  <2>1. channels[c] \in Channel
    BY <1>4, <1>6
  <2> QED
    BY <1>7, <2>1 DEF Channel
<1>9. /\ channels' \in Seq(Channel) /\ DOMAIN channels' = DOMAIN channels
      /\ Len(channels') = Len(channels) /\ channels'[c] = x
      /\ \A k \in DOMAIN channels : k # c => channels'[k] = channels[k]
  <2>1. channels' = [channels EXCEPT ![c] = x]
    BY <1>2, <1>7
  <2> QED
    BY <1>4, <1>6, <1>8, <2>1, ChannelSet
<1>10. Aimed(mpf_pending', channels', slots')
  <2>1. \A k \in DOMAIN mpf_pending :
           /\ mpf_pending[k].target = "rtp" =>
                 mpf_pending[k].i \in DOMAIN slots /\ slots[mpf_pending[k].i]
           /\ mpf_pending[k].target = "channel" =>
                 /\ mpf_pending[k].i \in DOMAIN channels'
                 /\ channels'[mpf_pending[k].i].waiting_for_termination
    BY <1>3, <1>8, <1>9 DEF Aimed
  <2> QED
    BY <1>2, <1>3, <2>1, AimedKept
<1>11. Named(agent_pending', channels')
  <2>1. \A k \in DOMAIN Tail(agent_pending) :
           Tail(agent_pending)[k] \in DOMAIN channels
    BY <1>4 DEF Named
  <2>2. \A k \in DOMAIN Tail(agent_pending) :
           channels'[Tail(agent_pending)[k]].waiting_for_channel
    BY <1>4, <1>9, <2>1 DEF Named
  <2>3. PICK t : t = Tail(agent_pending)
    OBVIOUS
  <2>4. Named(t, channels) /\ \A k \in DOMAIN t : channels'[t[k]].waiting_for_channel
    BY <1>4, <2>2, <2>3
  <2>5. DOMAIN channels' = DOMAIN channels
    BY <1>9
  <2>6. Named(t, channels')
    BY <2>4, <2>5, NamedKept
  <2> QED
    BY <1>2, <2>3, <2>6
<1>12. \A k \in DOMAIN channels :
          /\ channels'[k].engine = channels[k].engine
          /\ channels'[k].open = channels[k].open
          /\ channels'[k].in_progress => channels[k].in_progress
  BY <1>8, <1>9
<1> QED
  BY <1>2, <1>4, <1>5, <1>6, <1>9, <1>10, <1>11, <1>12, ReplyKeeps

(* An engine answers open or close.                                        *)
LEMMA EngineReplyKeeps ==
    ASSUME IInv, OnEngineChannelReply
    PROVE  IInv'
<1>1. PICK c \in engine_pending :
         /\ engine_pending' = engine_pending \ {c}
         /\ \/ /\ channels[c].open
               /\ opened' = opened \cup {c}
               /\ UNCHANGED status
            \/ /\ channels[c].open
               /\ status' = "UNAVAILABLE_RESOURCE"
               /\ UNCHANGED opened
            \/ /\ ~channels[c].open
               /\ opened' = opened \ {c}
               /\ UNCHANGED status
  BY DEF OnEngineChannelReply
<1>2. /\ Reply /\ subrequest_remove
      /\ UNCHANGED <<channels, slots, mpf_pending, agent_pending, deact_pending>>
  BY DEF OnEngineChannelReply
<1>3. Outstanding > 0 /\ Outstanding' = Outstanding - 1
  <2>1. /\ Len(mpf_pending) \in Nat /\ Len(agent_pending) \in Nat
        /\ IsFiniteSet(engine_pending) /\ Cardinality(engine_pending) \in Nat
        /\ Cardinality(deact_pending) \in Nat
    BY OutstandingIs DEF IInv
  <2>2. Cardinality(engine_pending \ {c}) = Cardinality(engine_pending) - 1
    BY <2>1, FS_RemoveElement
  <2>3. Cardinality(engine_pending \ {c}) \in Nat
    BY <2>1, FS_RemoveElement, FS_CardinalityType
  <2> QED
    BY <1>1, <1>2, <2>1, <2>2, <2>3 DEF Outstanding
<1>4. /\ channels \in Seq(Channel) /\ slots \in Seq(BOOLEAN) /\ status \in Statuses
      /\ opened \subseteq DOMAIN channels /\ engine_pending \subseteq DOMAIN channels
      /\ Aimed(mpf_pending, channels, slots) /\ Named(agent_pending, channels)
      /\ \A k \in opened :
            channels[k].engine /\ (channels[k].open \/ k \in engine_pending)
      /\ \A k \in engine_pending : channels[k].engine
      /\ "UNAVAILABLE_RESOURCE" \in Statuses
  BY DEF IInv, StateType, Waits, Closes, Statuses
<1>5. /\ opened' \subseteq DOMAIN channels
      /\ status' \in Statuses /\ (status # "none" => status' # "none")
      /\ \A k \in opened' : channels[k].engine /\ (channels[k].open \/ k \in engine_pending')
  BY <1>1, <1>4
<1> QED
  BY <1>1, <1>2, <1>3, <1>4, <1>5, ReplyKeeps

(* The state machine of a channel is deactivated.                          *)
LEMMA DeactivatedKeeps ==
    ASSUME IInv, OnDeactivate
    PROVE  IInv'
<1>1. PICK c \in deact_pending :
         /\ deact_pending' = deact_pending \ {c}
         /\ channels' = [channels EXCEPT ![c].in_progress = FALSE]
  BY DEF OnDeactivate
<1>2. /\ Reply /\ subrequest_remove
      /\ UNCHANGED <<status, slots, mpf_pending, agent_pending, engine_pending, opened>>
  BY DEF OnDeactivate
<1>3. Outstanding > 0 /\ Outstanding' = Outstanding - 1
  <2>1. /\ Len(mpf_pending) \in Nat /\ Len(agent_pending) \in Nat
        /\ Cardinality(engine_pending) \in Nat
        /\ IsFiniteSet(deact_pending) /\ Cardinality(deact_pending) \in Nat
    BY OutstandingIs DEF IInv
  <2>2. Cardinality(deact_pending \ {c}) = Cardinality(deact_pending) - 1
    BY <2>1, FS_RemoveElement
  <2>3. Cardinality(deact_pending \ {c}) \in Nat
    BY <2>1, FS_RemoveElement, FS_CardinalityType
  <2> QED
    BY <1>1, <1>2, <2>1, <2>2, <2>3 DEF Outstanding
<1>4. /\ channels \in Seq(Channel) /\ slots \in Seq(BOOLEAN) /\ status \in Statuses
      /\ opened \subseteq DOMAIN channels /\ c \in DOMAIN channels
      /\ Aimed(mpf_pending, channels, slots) /\ Named(agent_pending, channels)
      /\ \A k \in opened :
            channels[k].engine /\ (channels[k].open \/ k \in engine_pending)
  BY DEF IInv, StateType, Waits, Closes
<1>5. PICK x : x = [channels[c] EXCEPT !.in_progress = FALSE]
  OBVIOUS
<1>6. /\ x \in Channel /\ x.engine = channels[c].engine /\ x.open = channels[c].open
      /\ ~x.in_progress /\ x.waiting_for_channel = channels[c].waiting_for_channel
      /\ x.waiting_for_termination = channels[c].waiting_for_termination
  <2>1. channels[c] \in Channel
    BY <1>4
  <2> QED
    BY <1>5, <2>1 DEF Channel
<1>7. /\ channels' \in Seq(Channel) /\ DOMAIN channels' = DOMAIN channels
      /\ Len(channels') = Len(channels) /\ channels'[c] = x
      /\ \A k \in DOMAIN channels : k # c => channels'[k] = channels[k]
  <2>1. channels' = [channels EXCEPT ![c] = x]
    BY <1>1, <1>5
  <2> QED
    BY <1>4, <1>6, <2>1, ChannelSet
<1>8. /\ \A k \in DOMAIN channels :
            /\ channels'[k].engine = channels[k].engine
            /\ channels'[k].open = channels[k].open
            /\ channels'[k].in_progress => channels[k].in_progress
            /\ channels'[k].waiting_for_channel = channels[k].waiting_for_channel
            /\ channels'[k].waiting_for_termination = channels[k].waiting_for_termination
      /\ \A k \in DOMAIN channels :
            channels'[k].in_progress /\ k \in deact_pending => k \in deact_pending'
  BY <1>1, <1>6, <1>7
<1>9. Aimed(mpf_pending', channels', slots')
  <2>1. \A k \in DOMAIN mpf_pending :
           /\ mpf_pending[k].target = "rtp" =>
                 mpf_pending[k].i \in DOMAIN slots /\ slots[mpf_pending[k].i]
           /\ mpf_pending[k].target = "channel" =>
                 /\ mpf_pending[k].i \in DOMAIN channels'
                 /\ channels'[mpf_pending[k].i].waiting_for_termination
    BY <1>4, <1>7, <1>8 DEF Aimed
  <2> QED
    BY <1>2, <1>4, <2>1, AimedKept
<1>10. Named(agent_pending', channels')
  <2>1. \A k \in DOMAIN agent_pending : agent_pending[k] \in DOMAIN channels
    BY <1>4 DEF Named
  <2>2. \A k \in DOMAIN agent_pending : channels'[agent_pending[k]].waiting_for_channel
    BY <1>4, <1>8, <2>1 DEF Named
  <2> QED
    BY <1>2, <1>4, <1>7, <2>2, NamedKept
<1> QED
  BY <1>1, <1>2, <1>3, <1>4, <1>7, <1>8, <1>9, <1>10, ReplyKeeps

(* The waiting flags are all that the requests are about.                  *)
LEMMA FlagsKept ==
    ASSUME NEW q, NEW r, NEW chs, NEW sl, Aimed(q, chs, sl), Named(r, chs),
           NEW chs2, DOMAIN chs2 = DOMAIN chs,
           \A k \in DOMAIN chs :
              /\ chs2[k].waiting_for_channel = chs[k].waiting_for_channel
              /\ chs2[k].waiting_for_termination = chs[k].waiting_for_termination
    PROVE  Aimed(q, chs2, sl) /\ Named(r, chs2)
<1>1. Aimed(q, chs2, sl)
  BY DEF Aimed
<1>2. \A k \in DOMAIN r : r[k] \in DOMAIN chs
  BY DEF Named
<1>3. \A k \in DOMAIN r : chs2[r[k]].waiting_for_channel
  BY <1>2 DEF Named
<1> QED
  BY <1>1, <1>3, NamedKept

(* Nothing to answer is aimed and named.                                   *)
LEMMA QuietIs ==
    ASSUME NEW q, NEW r, NEW chs, NEW sl, q = <<>>, r = <<>>
    PROVE  Aimed(q, chs, sl) /\ Named(r, chs)
  BY DEF Aimed, Named

(* A request starts or ends to be in progress, and nothing else changes    *)
(* but what is with the engine.                                            *)
LEMMA ProgressKeeps ==
    ASSUME IInv, ~destroyed, NEW c \in DOMAIN channels, NEW b \in BOOLEAN,
           \/ channels' = [channels EXCEPT ![c].in_progress = b]
           \/ channels' = channels,
           control_pending' \in {0, control_pending},
           UNCHANGED <<state, subrequest_count, received, completed, destroyed>>,
           UNCHANGED <<active_request, request_queue, call, context, slots>>,
           UNCHANGED <<offer, last_offer, status, last_status>>,
           UNCHANGED <<mpf_pending, agent_pending, engine_pending, opened, deact_pending>>
    PROVE  IInv'
<1>1. channels \in Seq(Channel) /\ channels[c] \in Channel
  BY DEF IInv, StateType
<1>2. PICK x : /\ x = [channels[c] EXCEPT !.in_progress = b] \/ x = channels[c]
               /\ channels' = [channels EXCEPT ![c] = x]
  <2>1. CASE channels' = [channels EXCEPT ![c].in_progress = b]
    BY <2>1
  <2>2. CASE channels' = channels
    BY <1>1, <2>2
  <2> QED
    BY <2>1, <2>2
<1>3. /\ x \in Channel /\ x.engine = channels[c].engine /\ x.open = channels[c].open
      /\ x.waiting_for_channel = channels[c].waiting_for_channel
      /\ x.waiting_for_termination = channels[c].waiting_for_termination
  BY <1>1, <1>2 DEF Channel
<1>4. /\ channels' \in Seq(Channel) /\ DOMAIN channels' = DOMAIN channels
      /\ Len(channels') = Len(channels) /\ channels'[c] = x
      /\ \A k \in DOMAIN channels : k # c => channels'[k] = channels[k]
  BY <1>1, <1>2, <1>3, ChannelSet
<1>5. \A k \in DOMAIN channels :
         /\ channels'[k].engine = channels[k].engine
         /\ channels'[k].open = channels[k].open
         /\ channels'[k].waiting_for_channel = channels[k].waiting_for_channel
         /\ channels'[k].waiting_for_termination = channels[k].waiting_for_termination
  BY <1>3, <1>4
<1>6. CountExact' /\ Quiet' = Quiet
  BY DEF IInv, CountExact, Outstanding, Quiet
<1>7. StateType'
  <2>1. agent_pending' \in Seq(DOMAIN channels')
    BY <1>4 DEF IInv, StateType
  <2> QED
    BY <1>4, <2>1 DEF IInv, StateType
<1>8. Waits'
  <2>1. Aimed(mpf_pending, channels', slots) /\ Named(agent_pending, channels')
    BY <1>4, <1>5, FlagsKept DEF IInv, Waits
  <2> QED
    BY <1>6, <2>1 DEF IInv, Waits
<1>9. Messages'
  <2>1. \A m : IsMessage(m, channels) => IsMessage(m, channels')
    BY <1>4 DEF IsMessage
  <2> QED
    BY <2>1 DEF IInv, Messages
<1>10. Stages'
  <2>1. channels # <<>>
    BY <1>1
  <2> QED
    BY <1>4, <1>6, <2>1 DEF IInv, Stages
<1>11. Closes'
  <2>1. opened \subseteq DOMAIN channels /\ engine_pending \subseteq DOMAIN channels
    BY DEF IInv, StateType
  <2> QED
    BY <1>4, <1>5, <2>1 DEF IInv, Closes
<1> QED
  BY <1>6, <1>7, <1>8, <1>9, <1>10, <1>11 DEF IInv

(* What the response of an engine does to the session.                     *)
LEMMA ResponsesAre ==
    ASSUME EngineMessage
    PROVE  /\ \/ channels' = channels
              \/ \E b \in BOOLEAN :
                    channels' = [channels EXCEPT ![control_pending].in_progress = b]
           /\ PopRequest \/ UNCHANGED <<request_vars, completed>>
           /\ control_pending # 0 /\ control_pending' = 0 /\ ~destroyed
           /\ UNCHANGED <<state, subrequest_count, context, slots, offer_vars,
                          pending_vars, received, destroyed>>
<1>1. PICK c : c = control_pending
  OBVIOUS
<1>2. \/ ResponseIgnored(c) \/ ResponseSwallowed(c) \/ ResponseStarts(c)
      \/ ResponseStops(c) \/ ResponseOther(c)
  BY <1>1 DEF EngineMessage
<1>3. /\ \/ channels' = channels
         \/ \E b \in BOOLEAN : channels' = [channels EXCEPT ![c].in_progress = b]
      /\ PopRequest \/ UNCHANGED <<request_vars, completed>>
  <2>1. CASE ResponseIgnored(c) \/ ResponseOther(c)
    BY <2>1 DEF ResponseIgnored, ResponseOther
  <2>2. CASE ResponseSwallowed(c) \/ ResponseStarts(c)
    BY <2>2 DEF ResponseSwallowed, ResponseStarts
  <2>3. CASE ResponseStops(c)
    <3>1. channels' = [channels EXCEPT ![c].in_progress = FALSE] /\ PopRequest
      BY <2>3 DEF ResponseStops
    <3> QED
      BY <3>1
  <2> QED
    BY <1>2, <2>1, <2>2, <2>3
<1> QED
  BY <1>1, <1>3 DEF EngineMessage

(* The engine answers a control message.                                   *)
LEMMA EngineMessageKeeps ==
    ASSUME IInv, EngineMessage
    PROVE  IInv'
<1>0. /\ control_pending # 0 /\ control_pending' = 0 /\ ~destroyed
      /\ PopRequest \/ UNCHANGED <<request_vars, completed>>
      /\ UNCHANGED <<state, subrequest_count, context, slots, received, destroyed>>
      /\ UNCHANGED <<offer, last_offer, status, last_status>>
      /\ UNCHANGED <<mpf_pending, agent_pending, engine_pending, opened, deact_pending>>
  BY ResponsesAre DEF offer_vars, pending_vars
<1>1. /\ control_pending \in DOMAIN channels
      /\ active_request.type = "CONTROL" /\ active_request # NoMessage
  BY <1>0, MessageTypes DEF IInv, Stages
<1>2. Quiet /\ state \in {"NONE", "INITIALIZING"} /\ offer = NoOffer
  BY <1>1, AtRest
<1>3. PICK b \in BOOLEAN :
         \/ channels' = [channels EXCEPT ![control_pending].in_progress = b]
         \/ channels' = channels
  BY ResponsesAre
<1>4. CASE UNCHANGED <<request_vars, completed>>
  BY <1>0, <1>1, <1>3, <1>4, ProgressKeeps DEF request_vars
<1>5. CASE PopRequest
  <2>1. channels \in Seq(Channel)
    BY DEF IInv, StateType
  <2>2. /\ channels' \in Seq(Channel) /\ DOMAIN channels' = DOMAIN channels
        /\ \A k \in DOMAIN channels :
              channels'[k].engine = channels[k].engine /\ channels'[k].open = channels[k].open
    <3>1. channels[control_pending] \in Channel
      BY <1>1, <2>1
    <3>2. PICK x : x = [channels[control_pending] EXCEPT !.in_progress = b]
      OBVIOUS
    <3>3. /\ x \in Channel /\ x.engine = channels[control_pending].engine
          /\ x.open = channels[control_pending].open
      BY <3>1, <3>2 DEF Channel
    <3>4. channels' = [channels EXCEPT ![control_pending] = x] \/ channels' = channels
      BY <1>3, <3>2
    <3> QED
      BY <1>1, <2>1, <3>3, <3>4, ChannelSet
  <2>3. last_offer \in Offer /\ last_status \in Statuses /\ status \in Statuses
    BY DEF IInv, StateType
  <2>4. UNCHANGED pending_vars
    BY <1>0 DEF pending_vars
  <2> QED
    BY <1>0, <1>1, <1>2, <1>5, <2>2, <2>3, <2>4, PopKeeps
<1> QED
  BY <1>0, <1>4, <1>5

(* A request in progress ends by itself.                                   *)
LEMMA EngineEventKeeps ==
    ASSUME IInv, EngineEvent
    PROVE  IInv'
<1>1. PICK c \in DOMAIN channels : channels' = [channels EXCEPT ![c].in_progress = FALSE]
  BY DEF EngineEvent
<1>2. /\ ~destroyed
      /\ UNCHANGED <<state, subrequest_count, control_pending, received, completed, destroyed>>
      /\ UNCHANGED <<active_request, request_queue, call, context, slots>>
      /\ UNCHANGED <<offer, last_offer, status, last_status>>
      /\ UNCHANGED <<mpf_pending, agent_pending, engine_pending, opened, deact_pending>>
  BY DEF EngineEvent, request_vars, offer_vars, pending_vars
<1> QED
  BY <1>1, <1>2, ProgressKeeps

(* What the answer to a request of a state machine itself does.            *)
LEMMA OwnAnsweredIs ==
    ASSUME IInv, OwnAnswered
    PROVE  \E c \in DOMAIN channels : \E b, m :
              /\ b \in BOOLEAN /\ machines[c].own > 0
              /\ \/ m = [machines[c] EXCEPT !.own = @ - 1, !.is_pending = FALSE]
                 \/ m = [machines[c] EXCEPT !.own = @ - 1]
              /\ machines' = [machines EXCEPT ![c] = m]
              /\ \/ channels' = [channels EXCEPT ![c].in_progress = b]
                 \/ channels' = channels
<1>1. PICK c \in DOMAIN channels :
         /\ machines[c].own > 0
         /\ \/ /\ \E b \in BOOLEAN :
                     channels' = [channels EXCEPT ![c].in_progress = @ \/ b]
               /\ machines' = [machines EXCEPT ![c] =
                                  [machines[c] EXCEPT !.own = @ - 1, !.is_pending = FALSE]]
            \/ /\ machines' = [machines EXCEPT ![c].own = @ - 1]
               /\ channels' = channels
  BY DEF OwnAnswered
<1>2. channels[c].in_progress \in BOOLEAN
  <2>1. channels[c] \in Channel
    BY DEF IInv, StateType
  <2> QED
    BY <2>1 DEF Channel
<1>3. PICK m, n : /\ m = [machines[c] EXCEPT !.own = @ - 1]
                  /\ n = [machines[c] EXCEPT !.own = @ - 1, !.is_pending = FALSE]
  OBVIOUS
<1>4. CASE machines' = [machines EXCEPT ![c].own = @ - 1] /\ channels' = channels
  <2>1. machines' = [machines EXCEPT ![c] = m] /\ TRUE \in BOOLEAN
    BY <1>3, <1>4
  <2> QED
    BY <1>1, <1>3, <1>4, <2>1
<1>5. CASE /\ \E b \in BOOLEAN : channels' = [channels EXCEPT ![c].in_progress = @ \/ b]
           /\ machines' = [machines EXCEPT ![c] =
                              [machines[c] EXCEPT !.own = @ - 1, !.is_pending = FALSE]]
  <2>1. PICK a \in BOOLEAN : channels' = [channels EXCEPT ![c].in_progress = @ \/ a]
    BY <1>5
  <2>2. PICK b \in BOOLEAN : b = (channels[c].in_progress \/ a)
    BY <1>2
  <2>3. channels' = [channels EXCEPT ![c].in_progress = b]
    BY <2>1, <2>2
  <2>4. machines' = [machines EXCEPT ![c] = n]
    BY <1>3, <1>5
  <2> QED
    BY <1>1, <1>3, <2>2, <2>3, <2>4
<1> QED
  BY <1>1, <1>4, <1>5

(* An engine answers a request of a state machine itself.                  *)
LEMMA OwnAnsweredKeeps ==
    ASSUME IInv, OwnAnswered
    PROVE  IInv'
<1>1. PICK c \in DOMAIN channels, b \in BOOLEAN :
         channels' = [channels EXCEPT ![c].in_progress = b] \/ channels' = channels
  BY OwnAnsweredIs
<1>2. /\ ~destroyed
      /\ UNCHANGED <<state, subrequest_count, control_pending, received, completed, destroyed>>
      /\ UNCHANGED <<active_request, request_queue, call, context, slots>>
      /\ UNCHANGED <<offer, last_offer, status, last_status>>
      /\ UNCHANGED <<mpf_pending, agent_pending, engine_pending, opened, deact_pending>>
  BY DEF OwnAnswered, request_vars, offer_vars, pending_vars
<1> QED
  BY <1>1, <1>2, ProgressKeeps

(* Nothing changes that the invariant is about.                            *)
LEMMA SameKeeps ==
    ASSUME IInv,
           UNCHANGED <<state, subrequest_count, control_pending, received, completed>>,
           UNCHANGED <<active_request, request_queue, call, context, channels, slots>>,
           UNCHANGED <<offer, last_offer, status, last_status, destroyed>>,
           UNCHANGED <<mpf_pending, agent_pending, engine_pending, opened, deact_pending>>
    PROVE  IInv'
  BY DEF IInv, StateType, CountExact, Outstanding, Waits, Messages, Stages, Closes, Quiet

-----------------------------------------------------------------------------
(* The steps of a session.                                                 *)

(* A step that is taken when nothing is outstanding and asks the engines   *)
(* only: what it asks is what it counts.                                   *)
LEMMA AsksEngines ==
    ASSUME IInv, Quiet, ~destroyed, active_request # NoMessage,
           active_request.type \notin {"NONE", "CONTROL"},
           NEW asked, asked \subseteq DOMAIN channels,
           subrequest_count' = Cardinality(asked),
           call' = IF asked = {} THEN "advance" ELSE "none",
           \/ engine_pending' = asked /\ deact_pending' = {}
           \/ engine_pending' = {} /\ deact_pending' = asked,
           UNCHANGED <<active_request, request_queue, context, slots, offer_vars,
                       mpf_pending, agent_pending, opened, control_pending, received,
                       completed, destroyed>>,
           state' \in {"INITIALIZING", "DEACTIVATING"},
           channels' \in Seq(Channel), DOMAIN channels' = DOMAIN channels,
           Len(channels') = Len(channels)
    PROVE  StateType' /\ CountExact' /\ Waits' /\ Messages' /\ (Quiet' <=> asked = {})
<1>1. /\ UNCHANGED <<active_request, request_queue, context, slots>>
      /\ UNCHANGED <<offer, last_offer, status, last_status>>
      /\ UNCHANGED <<mpf_pending, agent_pending, opened, control_pending, received>>
      /\ UNCHANGED <<completed, destroyed>>
  BY DEF offer_vars
<1>2. /\ mpf_pending' = <<>> /\ agent_pending' = <<>>
  BY <1>1 DEF Quiet
<1>3. /\ Len(channels) \in Nat /\ DOMAIN channels = 1..Len(channels)
  BY DEF IInv, StateType
<1>4. Cardinality(asked) \in Nat /\ (Cardinality(asked) = 0 <=> asked = {})
  BY <1>3, PositionsAre
<1>5. Outstanding' = Cardinality(asked)
  <2>1. Cardinality({}) = 0 /\ Len(mpf_pending') = 0 /\ Len(agent_pending') = 0
    BY <1>2, FS_EmptySet
  <2>2. CASE engine_pending' = asked /\ deact_pending' = {}
    BY <1>4, <2>1, <2>2 DEF Outstanding
  <2>3. CASE engine_pending' = {} /\ deact_pending' = asked
    BY <1>4, <2>1, <2>3 DEF Outstanding
  <2> QED
    BY <2>2, <2>3
<1>6. StateType'
  <2>1. agent_pending' \in Seq(DOMAIN channels')
    BY <1>2
  <2> QED
    BY <1>1, <1>4, <2>1 DEF IInv, StateType
<1>7. Quiet' <=> asked = {}
  BY <1>2 DEF Quiet
<1>8. Waits'
  <2>1. Aimed(mpf_pending', channels', slots') /\ Named(agent_pending', channels')
    BY <1>2, QuietIs
  <2> QED
    BY <1>1, <1>7, <2>1 DEF Waits
<1>9. Messages'
  <2>1. \A m : IsMessage(m, channels) => IsMessage(m, channels')
    BY DEF IsMessage
  <2> QED
    BY <1>1, <2>1 DEF IInv, Messages
<1> QED
  BY <1>5, <1>6, <1>7, <1>8, <1>9 DEF CountExact

(* mrcp_server_engine_channels_update: what is opened or closed is counted.*)
LEMMA UpdateKeeps ==
    ASSUME IInv, EngineChannelsUpdate
    PROVE  IInv'
<1>1. PICK changed : changed = {k \in DOMAIN channels : ToOpen(k) \/ ToClose(k)}
  OBVIOUS
<1>2. /\ call = "advance" /\ state = "GENERATING_ANSWER" /\ state' = "INITIALIZING"
      /\ engine_pending' = engine_pending \cup changed
      /\ subrequest_count' = Cardinality(changed)
      /\ channels' = [k \in DOMAIN channels |->
                         [channels[k] EXCEPT !.open = IF k \in changed THEN ~@ ELSE @]]
      /\ call' = IF changed = {} THEN "advance" ELSE "none"
      /\ UNCHANGED <<active_request, request_queue, context, slots, offer_vars,
                     mpf_pending, agent_pending, opened, deact_pending,
                     control_pending, received, completed, destroyed>>
  BY <1>1 DEF EngineChannelsUpdate, Advance
<1>3. Quiet /\ ~destroyed /\ offer # NoOffer /\ control_pending = 0
  BY <1>2 DEF IInv, Waits, Stages
<1>4. /\ active_request = OfferMessage(offer) /\ active_request # NoMessage
      /\ active_request.type \notin {"NONE", "CONTROL"} /\ status # "none"
  BY <1>3, MessageTypes DEF IInv, Stages
<1>5. /\ changed \subseteq DOMAIN channels /\ \A k \in changed : channels[k].engine
      /\ engine_pending' = changed /\ deact_pending' = {}
  BY <1>1, <1>2, <1>3 DEF ToOpen, ToClose, Quiet
<1>6. /\ channels \in Seq(Channel) /\ Len(channels) \in Nat
      /\ DOMAIN channels = 1..Len(channels)
  BY DEF IInv, StateType
<1>7. \A k \in DOMAIN channels :
         /\ channels'[k] \in Channel
         /\ channels'[k].engine = channels[k].engine
         /\ k \notin changed => channels'[k].open = channels[k].open
  <2> SUFFICES ASSUME NEW k \in DOMAIN channels
               PROVE  /\ channels'[k] \in Channel
                      /\ channels'[k].engine = channels[k].engine
                      /\ k \notin changed => channels'[k].open = channels[k].open
    OBVIOUS
  <2>1. channels[k] \in Channel
    BY <1>6
  <2>2. channels'[k] = [channels[k] EXCEPT !.open =
                           IF k \in changed THEN ~channels[k].open ELSE channels[k].open]
    BY <1>2
  <2> QED
    BY <2>1, <2>2 DEF Channel
<1>8. /\ channels' \in Seq(Channel) /\ DOMAIN channels' = DOMAIN channels
      /\ Len(channels') = Len(channels)
  <2>1. channels' \in [1..Len(channels) -> Channel]
    BY <1>2, <1>6, <1>7
  <2> QED
    BY <1>6, <2>1
<1>9. StateType' /\ CountExact' /\ Waits' /\ Messages' /\ (Quiet' <=> changed = {})
  BY <1>2, <1>3, <1>4, <1>5, <1>8, AsksEngines
<1>10. Stages'
  <2>1. UNCHANGED <<active_request, offer, status, control_pending, destroyed>>
    BY <1>2 DEF offer_vars
  <2> QED
    BY <1>2, <1>3, <1>4, <2>1 DEF Stages
<1>11. Closes'
  <2>1. /\ opened' = opened /\ opened \subseteq DOMAIN channels
        /\ \A c \in opened : channels[c].engine /\ channels[c].open
    BY <1>2, <1>3 DEF IInv, StateType, Closes, Quiet
  <2> QED
    BY <1>2, <1>5, <1>7, <2>1 DEF Closes
<1> QED
  BY <1>9, <1>10, <1>11 DEF IInv

(* mrcp_server_session_deactivate                                          *)
LEMMA DeactivateKeeps ==
    ASSUME IInv, Deactivate
    PROVE  IInv'
<1>1. PICK busy : busy = {k \in DOMAIN channels : channels[k].in_progress}
  OBVIOUS
<1>2. /\ call = "dispatch" /\ active_request.type = "TERMINATE" /\ state' = "DEACTIVATING"
      /\ deact_pending' = deact_pending \cup busy
      /\ subrequest_count' = Cardinality(busy)
      /\ call' = IF busy = {} THEN "advance" ELSE "none"
      /\ UNCHANGED <<active_request, request_queue, context, channels, slots, offer_vars,
                     mpf_pending, agent_pending, engine_pending, opened,
                     control_pending, received, completed, destroyed>>
  BY <1>1 DEF Deactivate, media_vars
<1>3. Quiet /\ ~destroyed /\ offer = NoOffer
  BY <1>2, AtRest
<1>4. /\ active_request = TerminateMessage /\ active_request # NoMessage
      /\ control_pending = 0
  BY <1>2, MessageTypes DEF IInv, StateType, Stages
<1>5. /\ channels \in Seq(Channel) /\ busy \subseteq DOMAIN channels
      /\ deact_pending' = busy /\ engine_pending' = {}
  BY <1>1, <1>2, <1>3 DEF IInv, StateType, Quiet
<1>6. StateType' /\ CountExact' /\ Waits' /\ Messages' /\ (Quiet' <=> busy = {})
  BY <1>2, <1>3, <1>4, <1>5, AsksEngines
<1>7. Stages'
  <2>1. UNCHANGED <<active_request, offer, status, control_pending, destroyed>>
    BY <1>2 DEF offer_vars
  <2> QED
    BY <1>2, <1>3, <1>4, <2>1 DEF Stages
<1>8. Closes'
  BY <1>1, <1>2, <1>5 DEF IInv, Closes
<1> QED
  BY <1>6, <1>7, <1>8 DEF IInv

(* mrcp_server_session_terminate_send                                      *)
LEMMA TerminateSendKeeps ==
    ASSUME IInv, TerminateSend
    PROVE  IInv'
<1>1. /\ call = "advance" /\ state = "TERMINATING" /\ destroyed' = TRUE
      /\ completed' = completed + 1 /\ call' = "none"
      /\ UNCHANGED <<state, subrequest_count, control_pending, received>>
      /\ UNCHANGED <<active_request, request_queue, context, channels, slots>>
      /\ UNCHANGED <<offer, last_offer, status, last_status>>
      /\ UNCHANGED <<mpf_pending, agent_pending, engine_pending, opened, deact_pending>>
  BY DEF TerminateSend, Advance, media_vars, offer_vars, pending_vars
<1>2. Quiet /\ active_request = TerminateMessage
  BY <1>1 DEF IInv, Waits, Stages
<1>3. active_request.type = "TERMINATE" /\ active_request # NoMessage
  BY <1>2, MessageTypes
<1>4. CountExact' /\ Quiet'
  BY <1>1, <1>2 DEF IInv, CountExact, Outstanding, Quiet
<1>5. StateType'
  BY <1>1 DEF IInv, StateType
<1>6. Waits' /\ Messages'
  BY <1>1, <1>3, <1>4 DEF IInv, Waits, Messages
<1>7. Stages' /\ Closes'
  BY <1>1, <1>2, <1>4 DEF IInv, Stages, Closes
<1> QED
  BY <1>4, <1>5, <1>6, <1>7 DEF IInv

-----------------------------------------------------------------------------
(* The requests of an offer and of a termination.                          *)

(* Topology requests are about no termination.                             *)
LEMMA TopologyIs ==
    ASSUME NEW n \in Nat, NEW chs, NEW sl
    PROVE  /\ Aimed([k \in 1..n |-> Topology], chs, sl)
           /\ \A k \in 1..n : [j \in 1..n |-> Topology][k].target = "topology"
           /\ DOMAIN [k \in 1..n |-> Topology] = 1..n
           /\ Aimed(<<Topology>>, chs, sl) /\ Len(<<Topology>>) = 1
           /\ DOMAIN <<Topology>> = {1} /\ <<Topology>>[1].target = "topology"
           /\ Aimed(<<>>, chs, sl) /\ DOMAIN <<>> = {}
<1>1. Topology \in MpfCommand /\ Topology.target = "topology"
  BY DEF Topology, MpfCommand, Target
<1>2. PICK f : f = [k \in 1..n |-> Topology]
  OBVIOUS
<1>3. f \in Seq(MpfCommand) /\ DOMAIN f = 1..n /\ \A k \in 1..n : f[k] = Topology
  BY <1>1, <1>2
<1>4. Aimed(f, chs, sl)
  BY <1>1, <1>3 DEF Aimed, SameAim
<1>5. PICK t : t = Topology
  OBVIOUS
<1>6. <<t>> \in Seq(MpfCommand) /\ DOMAIN <<t>> = {1} /\ <<t>>[1] = t /\ Len(<<t>>) = 1
  BY <1>1, <1>5
<1>7. Aimed(<<t>>, chs, sl)
  BY <1>1, <1>5, <1>6 DEF Aimed
<1>8. Aimed(<<>>, chs, sl) /\ DOMAIN <<>> = {}
  BY DEF Aimed
<1> QED
  BY <1>1, <1>2, <1>3, <1>4, <1>5, <1>6, <1>7, <1>8

(* One request for each RTP termination.                                   *)
LEMMA RtpIs ==
    ASSUME NEW n \in Nat, NEW f, f = [k \in 1..n |-> f[k]],
           \A k \in 1..n : f[k] \in MpfCommand /\ f[k].target = "rtp" /\ f[k].i = k,
           NEW chs, NEW sl, \A k \in 1..n : k \in DOMAIN sl /\ sl[k]
    PROVE  /\ Aimed(f, chs, sl) /\ DOMAIN f = 1..n
           /\ \A k \in DOMAIN f : f[k].target = "rtp"
<1>1. f \in Seq(MpfCommand) /\ DOMAIN f = 1..n
  BY ListIs
<1> QED
  BY <1>1 DEF Aimed, SameAim

(* One request for each channel, behind the first n, whose position in     *)
(* the list is kept.                                                       *)
LEMMA TerminationsAre ==
    ASSUME NEW n \in Nat, NEW m \in Nat, NEW s \in Seq(MpfCommand), DOMAIN s = 1..m,
           \A k \in 1..m : s[k].target = "channel" /\ s[k].i = n + k,
           NEW keep, keep \subseteq 1..m, NEW chs, NEW sl,
           \A k \in keep : n + k \in DOMAIN chs /\ chs[n + k].waiting_for_termination
    PROVE  /\ Aimed(KeepAt(s, keep), chs, sl)
           /\ \A k \in DOMAIN KeepAt(s, keep) : KeepAt(s, keep)[k].target = "channel"
<1>1. keep \subseteq DOMAIN s
  OBVIOUS
<1>2. PICK q : q = KeepAt(s, keep)
  OBVIOUS
<1>3. q \in Seq(MpfCommand) /\ KeptOf(q, s, keep)
  BY <1>1, <1>2, KeptAre
<1>4. \A k \in DOMAIN q : \E i \in keep : q[k] = s[i]
  BY <1>3 DEF KeptOf
<1>5. \A k, l \in DOMAIN q : k < l =>
         \E i, j \in keep : i < j /\ q[k] = s[i] /\ q[l] = s[j]
  BY <1>3, Zenon DEF KeptOf
<1>6. \A k, l \in DOMAIN q : k < l => q[k].i # q[l].i
  BY <1>5
<1>7. \A k, l \in DOMAIN q : k # l => k < l \/ l < k
  BY <1>3
<1>8. \A k, l \in DOMAIN q : k # l => ~SameAim(q[k], q[l])
  BY <1>6, <1>7 DEF SameAim
<1>9. \A k \in DOMAIN q :
          /\ q[k].target = "channel"
          /\ q[k].i \in DOMAIN chs /\ chs[q[k].i].waiting_for_termination
  BY <1>4
<1> QED
  BY <1>2, <1>3, <1>8, <1>9 DEF Aimed

(* A list of requests about channels, between topology requests, with the  *)
(* requests about RTP terminations behind it.                              *)
LEMMA AimedTogether ==
    ASSUME NEW a, NEW b, NEW c, NEW chs, NEW sl,
           Aimed(a, chs, sl), Aimed(b, chs, sl), Aimed(c, chs, sl),
           \A k \in DOMAIN a : a[k].target = "topology",
           \A k \in DOMAIN b : b[k].target = "channel",
           \A k \in DOMAIN c : c[k].target = "rtp"
    PROVE  Aimed(a \o b \o c, chs, sl)
<1>1. a \in Seq(MpfCommand) /\ b \in Seq(MpfCommand) /\ c \in Seq(MpfCommand)
  BY DEF Aimed
<1>2. Aimed(a \o b, chs, sl)
  BY AimedJoin DEF SameAim
<1>3. \A k \in DOMAIN (a \o b) : (a \o b)[k].target # "rtp"
  <2>1. \A k \in DOMAIN (a \o b) :
           \/ k \in DOMAIN a /\ (a \o b)[k] = a[k]
           \/ k - Len(a) \in DOMAIN b /\ (a \o b)[k] = b[k - Len(a)]
    BY <1>1, JoinIs
  <2> QED
    BY <2>1
<1>4. \A k \in DOMAIN (a \o b), l \in DOMAIN c : ~SameAim((a \o b)[k], c[l])
  BY <1>3 DEF SameAim
<1> QED
  BY <1>2, <1>4, AimedJoin

(* A step that is taken when nothing is outstanding and asks all threads:  *)
(* what it asks is what it counts.                                         *)
LEMMA AsksThreads ==
    ASSUME IInv, Quiet, ~destroyed, active_request # NoMessage,
           active_request.type \notin {"NONE", "CONTROL"},
           channels' \in Seq(Channel), Len(channels) <= Len(channels'),
           slots' \in Seq(BOOLEAN), NEW mpf, NEW agent, NEW closes,
           mpf_pending' = mpf, agent_pending' = agent,
           engine_pending' = closes, deact_pending' = {}, closes \subseteq DOMAIN channels',
           Aimed(mpf, channels', slots'), Named(agent, channels'),
           subrequest_count' = Len(mpf) + Len(agent) + Cardinality(closes),
           call' \in {"none", "advance"},
           call' = "advance" => mpf = <<>> /\ agent = <<>> /\ closes = {},
           state' \in {"GENERATING_ANSWER", "TERMINATING"},
           context' \in BOOLEAN, offer' \in Offer, status' \in Statuses,
           UNCHANGED <<active_request, request_queue, last_offer, last_status, opened,
                       control_pending, received, completed, destroyed>>
    PROVE  StateType' /\ CountExact' /\ Waits' /\ Messages'
<1>1. /\ Len(channels) \in Nat /\ DOMAIN channels = 1..Len(channels)
      /\ Len(channels') \in Nat /\ DOMAIN channels' = 1..Len(channels')
  BY DEF IInv, StateType
<1>2. DOMAIN channels \subseteq DOMAIN channels'
  BY <1>1
<1>3. Cardinality(closes) \in Nat
  BY <1>1, PositionsAre
<1>4. /\ mpf \in Seq(MpfCommand) /\ agent \in Seq(DOMAIN channels')
      /\ Len(mpf) \in Nat /\ Len(agent) \in Nat
  BY DEF Aimed, Named
<1>5. Outstanding' = Len(mpf) + Len(agent) + Cardinality(closes)
  BY <1>3, <1>4, FS_EmptySet DEF Outstanding
<1>6. StateType'
  <2>1. subrequest_count' \in Nat /\ opened' \subseteq DOMAIN channels'
    BY <1>2, <1>3, <1>4 DEF IInv, StateType
  <2> QED
    BY <1>4, <2>1 DEF IInv, StateType
<1>7. Waits'
  <2>1. call' # "none" => Quiet'
    BY DEF Quiet
  <2> QED
    BY <2>1 DEF Waits
<1>8. Messages'
  <2>1. \A m : IsMessage(m, channels) => IsMessage(m, channels')
    BY <1>1, StillMessages
  <2> QED
    BY <2>1 DEF IInv, Messages
<1> QED
  BY <1>5, <1>6, <1>7, <1>8 DEF CountExact

(* mrcp_server_session_terminate_process: every termination, channel and   *)
(* open engine channel is asked for, and waited for.                       *)
LEMMA TerminateKeeps ==
    ASSUME IInv, TerminateProcess
    PROVE  IInv'
<1>1. PICK subtracts, rtp, top, mpf, removes, closes :
         /\ subtracts = KeepAt([k \in 1..Len(channels) |->
                            [cmd |-> "SUBTRACT", target |-> "channel", i |-> k]],
                            EngineChannels(channels))
         /\ rtp = [k \in 1..Len(slots) |-> [cmd |-> "SUBTRACT", target |-> "rtp", i |-> k]]
         /\ top = (IF context THEN <<Topology>> ELSE <<>>)
         /\ mpf = top \o subtracts \o rtp
         /\ removes = IF Version = 2 THEN [k \in 1..Len(channels) |-> k] ELSE <<>>
         /\ closes = ToCloseAtEnd
  OBVIOUS
<1>2. /\ call = "advance" /\ state = "DEACTIVATING" /\ state' = "TERMINATING"
      /\ mpf_pending' = mpf_pending \o mpf
      /\ agent_pending' = agent_pending \o removes
      /\ engine_pending' = engine_pending \cup closes
      /\ subrequest_count' = Len(mpf) + Len(removes) + Cardinality(closes)
      /\ channels' = [k \in DOMAIN channels |->
             [channels[k] EXCEPT !.waiting_for_channel = Version = 2,
                                 !.waiting_for_termination = channels[k].engine,
                                 !.open = FALSE]]
      /\ call' = IF mpf = <<>> /\ removes = <<>> /\ closes = {} THEN "advance" ELSE "none"
      /\ slots' = [k \in DOMAIN slots |-> TRUE]
      /\ UNCHANGED <<active_request, request_queue, context, offer_vars, opened,
                     deact_pending, control_pending, received, completed, destroyed>>
  BY <1>1 DEF TerminateProcess, Advance
<1>3. /\ Quiet /\ ~destroyed /\ control_pending = 0
      /\ active_request = TerminateMessage /\ active_request # NoMessage
      /\ active_request.type \notin {"NONE", "CONTROL"} /\ offer = NoOffer
  BY <1>2, MessageTypes DEF IInv, Waits, Stages
<1>4. /\ channels \in Seq(Channel) /\ Len(channels) \in Nat
      /\ DOMAIN channels = 1..Len(channels)
      /\ slots \in Seq(BOOLEAN) /\ Len(slots) \in Nat /\ DOMAIN slots = 1..Len(slots)
  BY DEF IInv, StateType
<1>5. \A k \in DOMAIN channels :
         /\ channels'[k] \in Channel /\ channels'[k].engine = channels[k].engine
         /\ channels'[k].waiting_for_channel = (Version = 2)
         /\ channels'[k].waiting_for_termination = channels[k].engine
         /\ ~channels'[k].open /\ channels'[k].in_progress = channels[k].in_progress
  <2> SUFFICES ASSUME NEW k \in DOMAIN channels
               PROVE  /\ channels'[k] \in Channel /\ channels'[k].engine = channels[k].engine
                      /\ channels'[k].waiting_for_channel = (Version = 2)
                      /\ channels'[k].waiting_for_termination = channels[k].engine
                      /\ ~channels'[k].open
                      /\ channels'[k].in_progress = channels[k].in_progress
    OBVIOUS
  <2>1. PICK c, b : c = channels[k] /\ b = (Version = 2)
    OBVIOUS
  <2>2. b \in BOOLEAN
    BY <2>1
  <2>3. c \in Channel
    BY <1>4, <2>1
  <2>4. channels'[k] = [c EXCEPT !.waiting_for_channel = b,
                                 !.waiting_for_termination = c.engine,
                                 !.open = FALSE]
    BY <1>2, <2>1
  <2>5. /\ channels'[k] \in Channel /\ channels'[k].engine = c.engine
        /\ channels'[k].waiting_for_channel = b
        /\ channels'[k].waiting_for_termination = c.engine
        /\ ~channels'[k].open /\ channels'[k].in_progress = c.in_progress
    BY <2>2, <2>3, <2>4 DEF Channel
  <2> QED
    BY <2>1, <2>5
<1>6. /\ channels' \in Seq(Channel) /\ DOMAIN channels' = DOMAIN channels
      /\ Len(channels') = Len(channels)
  <2>1. channels' \in [1..Len(channels) -> Channel]
    BY <1>2, <1>4, <1>5
  <2> QED
    BY <1>4, <2>1
<1>7. /\ slots' \in Seq(BOOLEAN) /\ DOMAIN slots' = DOMAIN slots
      /\ \A k \in DOMAIN slots : slots'[k]
  <2>1. DOMAIN slots' = DOMAIN slots /\ \A k \in DOMAIN slots : slots'[k] = TRUE
    BY <1>2
  <2>2. PICK n : n = Len(slots)
    OBVIOUS
  <2>3. slots' \in [1..n -> BOOLEAN]
    BY <1>2, <1>4, <2>2
  <2>4. slots' \in Seq(BOOLEAN)
    BY <1>4, <2>2, <2>3
  <2> QED
    BY <2>1, <2>4
<1>8. Aimed(mpf, channels', slots')
  <2>1. PICK n, m : n = Len(channels) /\ m = Len(slots)
    OBVIOUS
  <2>2. /\ Aimed(subtracts, channels', slots')
        /\ \A k \in DOMAIN subtracts : subtracts[k].target = "channel"
    <3>1. EngineChannels(channels) \subseteq 1..n
      BY <1>4, <2>1 DEF EngineChannels
    <3>2. \A k \in EngineChannels(channels) :
             0 + k \in DOMAIN channels' /\ channels'[0 + k].waiting_for_termination
      BY <1>4, <1>5, <1>6 DEF EngineChannels
    <3>3. PICK s : s = [k \in 1..n |-> [cmd |-> "SUBTRACT", target |-> "channel", i |-> k]]
      OBVIOUS
    <3>4. n \in Nat /\ subtracts = KeepAt(s, EngineChannels(channels))
      BY <1>1, <1>4, <2>1, <3>3
    <3>5. /\ s = [k \in 1..n |-> s[k]]
          /\ \A k \in 1..n : s[k] \in MpfCommand /\ s[k].target = "channel" /\ s[k].i = 0 + k
      BY <3>3, <3>4 DEF MpfCommand, Target
    <3>6. s \in Seq(MpfCommand) /\ DOMAIN s = 1..n
      BY <3>4, <3>5, ListIs
    <3> QED
      BY <3>1, <3>2, <3>4, <3>5, <3>6, TerminationsAre
  <2>3. Aimed(rtp, channels', slots') /\ \A k \in DOMAIN rtp : rtp[k].target = "rtp"
    <3>1. /\ m \in Nat /\ rtp = [k \in 1..m |-> rtp[k]]
          /\ \A k \in 1..m : rtp[k] \in MpfCommand /\ rtp[k].target = "rtp" /\ rtp[k].i = k
      BY <1>1, <1>4, <2>1 DEF MpfCommand, Target
    <3>2. \A k \in 1..m : k \in DOMAIN slots' /\ slots'[k]
      BY <1>4, <1>7, <2>1
    <3> QED
      BY <3>1, <3>2, RtpIs
  <2>4. Aimed(top, channels', slots') /\ \A k \in DOMAIN top : top[k].target = "topology"
    <3>1. CASE context
      BY <1>1, <3>1, TopologyIs
    <3>2. CASE ~context
      BY <1>1, <3>2, TopologyIs
    <3> QED
      BY <3>1, <3>2
  <2>5. Aimed(top \o subtracts \o rtp, channels', slots')
    BY <2>2, <2>3, <2>4, AimedTogether
  <2> QED
    BY <1>1, <2>5
<1>9. Named(removes, channels')
  <2>1. CASE Version = 2
    <3>1. /\ removes = [k \in 1..Len(channels) |-> k]
      BY <1>1, <2>1
    <3>2. removes \in Seq(DOMAIN channels') /\ DOMAIN removes = DOMAIN channels
      BY <1>4, <1>6, <3>1
    <3> QED
      BY <1>4, <1>5, <2>1, <3>1, <3>2 DEF Named
  <2>2. CASE Version # 2
    BY <1>1, <2>2 DEF Named
  <2> QED
    BY <2>1, <2>2
<1>10. /\ mpf_pending' = mpf /\ agent_pending' = removes
       /\ engine_pending' = closes /\ deact_pending' = {}
       /\ closes \subseteq DOMAIN channels' /\ \A k \in closes : channels[k].engine
  <2>1. PICK N : N = DOMAIN channels'
    OBVIOUS
  <2>2. mpf \in Seq(MpfCommand) /\ removes \in Seq(N)
    BY <1>8, <1>9, <2>1 DEF Aimed, Named
  <2>3. <<>> \o mpf = mpf /\ <<>> \o removes = removes
    BY <2>2
  <2>4. mpf_pending = <<>> /\ agent_pending = <<>> /\ engine_pending = {} /\ deact_pending = {}
    BY <1>3 DEF Quiet
  <2>5. mpf_pending' = mpf /\ agent_pending' = removes
    BY <1>2, <2>3, <2>4
  <2>6. closes \subseteq DOMAIN channels /\ \A k \in closes : channels[k].engine
    BY <1>1 DEF ToCloseAtEnd
  <2> QED
    BY <1>2, <1>6, <2>4, <2>5, <2>6
<1>11. StateType' /\ CountExact' /\ Waits' /\ Messages'
  <2>1. /\ context' \in BOOLEAN /\ offer' \in Offer /\ status' \in Statuses
        /\ UNCHANGED <<active_request, request_queue, last_offer, last_status, opened,
                       control_pending, received, completed, destroyed>>
    BY <1>2 DEF offer_vars, IInv, StateType
  <2>2. /\ call' \in {"none", "advance"}
        /\ call' = "advance" => mpf = <<>> /\ removes = <<>> /\ closes = {}
    BY <1>2
  <2>3. Len(channels) <= Len(channels')
    BY <1>4, <1>6
  <2> QED
    BY <1>2, <1>3, <1>6, <1>7, <1>8, <1>9, <1>10, <2>1, <2>2, <2>3, AsksThreads
<1>12. Stages'
  <2>1. UNCHANGED <<active_request, offer, status, control_pending, destroyed>>
    BY <1>2 DEF offer_vars
  <2>2. state' = "TERMINATING" /\ call' # "dispatch"
    BY <1>2
  <2> QED
    BY <1>3, <2>1, <2>2 DEF Stages
<1>13. Closes'
  <2>1. /\ opened' = opened /\ opened \subseteq DOMAIN channels
        /\ \A c \in opened : channels[c].engine /\ channels[c].open
    BY <1>2, <1>3 DEF IInv, StateType, Closes, Quiet
  <2>2. opened \subseteq closes
    BY <1>1, <2>1 DEF ToCloseAtEnd
  <2>4. state' = "TERMINATING" /\ engine_pending' = closes
    BY <1>2, <1>10
  <2>5. \A k \in closes : channels'[k].engine
    BY <1>5, <1>6, <1>10
  <2> QED
    BY <1>5, <1>6, <2>1, <2>2, <2>4, <2>5 DEF Closes
<1> QED
  BY <1>11, <1>12, <1>13 DEF IInv


(* mrcp_server_channel_create: a new channel waits for the thread of its   *)
(* control channel and for its termination, if it has an engine channel.   *)
LEMMA NewChannelsIs ==
    ASSUME NEW o \in Offer, NEW spare, spare \subseteq Engines
    PROVE  /\ NewChannels(o, spare) \in Seq(Channel)
           /\ \A k \in DOMAIN NewChannels(o, spare) :
                 LET c == NewChannels(o, spare)[k] IN
                 /\ c.waiting_for_channel = (Version = 2)
                 /\ c.waiting_for_termination = c.engine
                 /\ ~c.open /\ ~c.in_progress
<1>1. PICK s, n, keep, new :
         /\ n = Len(o.ctl) /\ keep = Kept(o, spare)
         /\ s = [i \in 1..n |-> NewChannel(o, i, spare)]
         /\ new = NewChannels(o, spare)
  OBVIOUS
<1>2. o.ctl \in Seq(ControlMedia) /\ n \in Nat /\ DOMAIN o.ctl = 1..n
  BY <1>1 DEF Offer
<1>3. keep \subseteq 1..n /\ \A i \in keep : o.ctl[i].res \in Known
  BY <1>1, <1>2 DEF Kept, Created
<1>4. new = KeepAt(s, keep)
  BY <1>1 DEF NewChannels
<1>5. ASSUME NEW i \in 1..n
      PROVE  /\ s[i].waiting_for_channel = (Version = 2)
             /\ s[i].waiting_for_termination = s[i].engine
             /\ ~s[i].open /\ ~s[i].in_progress
             /\ i \in keep => s[i] \in Channel
  <2>1. PICK e, v, r : e = (o.ctl[i].res \in spare) /\ v = (Version = 2) /\ r = o.ctl[i].res
    OBVIOUS
  <2>2. e \in BOOLEAN /\ v \in BOOLEAN /\ i \in Nat /\ (i \in keep => r \in Known)
    BY <1>2, <1>3, <2>1
  <2>3. s[i] = [id |-> i, res |-> r, engine |-> e, open |-> FALSE,
                waiting_for_channel |-> v, waiting_for_termination |-> e,
                in_progress |-> FALSE]
    BY <1>1, <2>1 DEF NewChannel
  <2>4. /\ s[i].waiting_for_channel = v /\ s[i].waiting_for_termination = s[i].engine
        /\ ~s[i].open /\ ~s[i].in_progress
    BY <2>3
  <2>5. i \in keep => s[i] \in Channel
    BY <2>2, <2>3 DEF Channel
  <2> QED
    BY <2>1, <2>4, <2>5
<1>6. DOMAIN s = 1..n /\ s = [i \in 1..n |-> s[i]]
  BY <1>1
<1>7. PICK S : S = {s[i] : i \in 1..n}
  OBVIOUS
<1>8. s \in Seq(S)
  <2>1. \A i \in 1..n : s[i] \in S
    BY <1>7
  <2> QED
    BY <1>2, <1>6, <2>1, ListIs
<1>9. new \in Seq(S) /\ KeptOf(new, s, keep)
  BY <1>3, <1>4, <1>6, <1>8, KeptAre
<1>10. \A k \in DOMAIN new : \E i \in keep : new[k] = s[i]
  BY <1>9, Zenon DEF KeptOf
<1>11. \A k \in DOMAIN new :
          /\ new[k] \in Channel
          /\ new[k].waiting_for_channel = (Version = 2)
          /\ new[k].waiting_for_termination = new[k].engine
          /\ ~new[k].open /\ ~new[k].in_progress
  BY <1>3, <1>5, <1>10
<1>12. new \in Seq(Channel)
  BY <1>9, <1>11
<1> QED
  BY <1>1, <1>11, <1>12

(* mrcp_server_control_media_offer_process: the channels there are stay,   *)
(* some wait for the connection agent again; the new ones are behind them. *)
LEMMA OfferChannelsIs ==
    ASSUME channels \in Seq(Channel), NEW o \in Offer, NEW spare, spare \subseteq Engines,
           NEW chs, chs = OfferChannels(o, spare), NEW new, new = NewChannels(o, spare)
    PROVE  /\ chs \in Seq(Channel) /\ new \in Seq(Channel)
           /\ Len(channels) \in Nat /\ Len(new) \in Nat /\ DOMAIN new = 1..Len(new)
           /\ Modified(o) \in 0..Len(channels)
           /\ Len(chs) = Len(channels) + Len(new) /\ DOMAIN chs = 1..Len(chs)
           /\ \A k \in DOMAIN channels :
                 /\ chs[k].engine = channels[k].engine /\ chs[k].open = channels[k].open
                 /\ chs[k].id = channels[k].id
                 /\ k <= Modified(o) => chs[k].waiting_for_channel
           /\ \A k \in DOMAIN new : chs[Len(channels) + k] = new[k]
           /\ \A k \in DOMAIN chs : k \in DOMAIN channels \/ k - Len(channels) \in DOMAIN new
<1>0. PICK n, m : n = Len(channels) /\ m = Modified(o)
  OBVIOUS
<1>1. PICK old : /\ n = Len(channels) /\ m = Modified(o)
                 /\ old = [k \in 1..n |->
                       IF k <= m THEN [channels[k] EXCEPT !.waiting_for_channel = TRUE]
                       ELSE channels[k]]
  BY <1>0
<1>2. n \in Nat /\ DOMAIN channels = 1..n
  BY <1>1
<1>3. m \in 0..n
  <2>1. Len(o.ctl) \in Nat
    BY DEF Offer
  <2> QED
    BY <1>1, <1>2, <2>1 DEF Modified, Minimum
<1>4. \A k \in 1..n :
         /\ old[k] \in Channel
         /\ old[k].engine = channels[k].engine /\ old[k].open = channels[k].open
         /\ old[k].id = channels[k].id /\ (k <= m => old[k].waiting_for_channel)
  <2> SUFFICES ASSUME NEW k \in 1..n
               PROVE  /\ old[k] \in Channel
                      /\ old[k].engine = channels[k].engine /\ old[k].open = channels[k].open
                      /\ old[k].id = channels[k].id /\ (k <= m => old[k].waiting_for_channel)
    OBVIOUS
  <2>1. channels[k] \in Channel
    BY <1>2
  <2>2. CASE k <= m
    <3>1. old[k] = [channels[k] EXCEPT !.waiting_for_channel = TRUE]
      BY <1>1, <2>2
    <3> QED
      BY <2>1, <3>1 DEF Channel
  <2>3. CASE ~(k <= m)
    <3>1. old[k] = channels[k]
      BY <1>1, <2>3
    <3> QED
      BY <2>1, <2>3, <3>1
  <2> QED
    BY <2>2, <2>3
<1>5. old \in Seq(Channel) /\ Len(old) = n /\ DOMAIN old = 1..n
  <2>1. old = [k \in 1..n |-> old[k]]
    BY <1>1
  <2> QED
    BY <1>2, <1>4, <2>1, ListIs
<1>6. new \in Seq(Channel) /\ Len(new) \in Nat /\ DOMAIN new = 1..Len(new)
  BY NewChannelsIs
<1>7. chs = old \o new
  BY <1>1 DEF OfferChannels
<1>8. chs \in Seq(Channel) /\ Len(chs) = n + Len(new) /\ DOMAIN chs = 1..(n + Len(new))
  <2>1. /\ old \o new \in Seq(Channel) /\ Len(old \o new) = Len(old) + Len(new)
        /\ DOMAIN (old \o new) = 1..(Len(old) + Len(new))
    BY <1>5, <1>6, JoinIs
  <2> QED
    BY <1>5, <1>7, <2>1
<1>9. \A k \in 1..(n + Len(new)) : chs[k] = IF k <= n THEN old[k] ELSE new[k - n]
  <2>1. \A k \in 1..(Len(old) + Len(new)) :
           (old \o new)[k] = IF k <= Len(old) THEN old[k] ELSE new[k - Len(old)]
    BY <1>5, <1>6, JoinAt
  <2> QED
    BY <1>5, <1>7, <2>1
<1>10. \A k \in 1..n : chs[k] = old[k]
  BY <1>2, <1>6, <1>9
<1>11. \A k \in 1..Len(new) : chs[n + k] = new[k]
  BY <1>2, <1>6, <1>9
<1>12. \A k \in 1..(n + Len(new)) : k \in 1..n \/ k - n \in 1..Len(new)
  BY <1>2, <1>6
<1>13. \A k \in DOMAIN channels :
          /\ chs[k].engine = channels[k].engine /\ chs[k].open = channels[k].open
          /\ chs[k].id = channels[k].id
          /\ k <= m => chs[k].waiting_for_channel
  BY <1>2, <1>4, <1>10
<1> QED
  BY <1>1, <1>2, <1>3, <1>6, <1>8, <1>11, <1>12, <1>13


(* mrcp_server_av_media_offer_process: the terminations of the audio media *)
(* of the offer are waited for.                                            *)
LEMMA OfferSlotsIs ==
    ASSUME slots \in Seq(BOOLEAN), NEW n \in Nat, NEW sl, sl = OfferSlots(n)
    PROVE  sl \in Seq(BOOLEAN) /\ \A k \in 1..n : k \in DOMAIN sl /\ sl[k]
<1>1. PICK l, m : l = Len(slots) /\ m = IF n > l THEN n ELSE l
  OBVIOUS
<1>2. l \in Nat /\ DOMAIN slots = 1..l /\ m \in Nat /\ n <= m
  BY <1>1
<1>3. sl = [k \in 1..m |-> IF k <= n THEN TRUE ELSE slots[k]]
  BY <1>1 DEF OfferSlots
<1>4. DOMAIN sl = 1..m /\ sl = [k \in 1..m |-> sl[k]]
  BY <1>3
<1>5. \A k \in 1..m : k <= n \/ k \in 1..l
  BY <1>1, <1>2
<1>6. ASSUME NEW k \in 1..m PROVE sl[k] \in BOOLEAN
  <2>1. CASE k <= n
    BY <1>3, <2>1
  <2>2. CASE ~(k <= n)
    <3>1. sl[k] = slots[k] /\ k \in DOMAIN slots
      BY <1>2, <1>3, <1>5, <2>2
    <3> QED
      BY <3>1
  <2> QED
    BY <2>1, <2>2
<1>7. sl \in Seq(BOOLEAN)
  BY <1>2, <1>4, <1>6, ListIs
<1>8. \A k \in 1..n : k \in 1..m /\ k <= n
  BY <1>2
<1> QED
  BY <1>3, <1>4, <1>7, <1>8

(* The requests of an offer to the media engine are about different        *)
(* terminations, and each one is waited for.                               *)
LEMMA OfferMpfIs ==
    ASSUME channels \in Seq(Channel), slots \in Seq(BOOLEAN),
           NEW o \in Offer, NEW spare, spare \subseteq Engines,
           NEW chs, chs = OfferChannels(o, spare),
           NEW sl, sl = OfferSlots(Audio(o, spare))
    PROVE  Aimed(MpfRequests(o, spare), chs, sl)
<1>1. PICK new, n, old : new = NewChannels(o, spare) /\ n = Audio(o, spare) /\ old = Len(channels)
  OBVIOUS
<1>2. n \in Nat
  BY <1>1 DEF Audio, Offer
<1>3. /\ chs \in Seq(Channel) /\ new \in Seq(Channel) /\ old \in Nat
      /\ Len(new) \in Nat /\ DOMAIN new = 1..Len(new)
      /\ Len(chs) = old + Len(new) /\ DOMAIN chs = 1..Len(chs)
      /\ \A k \in DOMAIN new : chs[old + k] = new[k]
  BY <1>1, OfferChannelsIs
<1>4. PICK a : a = n * Cardinality(EngineChannels(chs))
  OBVIOUS
<1>5. a \in Nat
  <2>1. EngineChannels(chs) \subseteq 1..Len(chs) /\ Len(chs) \in Nat
    BY <1>3 DEF EngineChannels
  <2>2. Cardinality(EngineChannels(chs)) \in Nat
    BY <2>1, PositionsAre
  <2> QED
    BY <1>2, <1>4, <2>2
<1>6. PICK m, s, rtp :
         /\ m = Len(new)
         /\ s = [k \in 1..m |-> [cmd |-> "ADD", target |-> "channel", i |-> old + k]]
         /\ rtp = [k \in 1..n |-> [cmd |-> IF k <= Len(slots) THEN "MODIFY" ELSE "ADD",
                                   target |-> "rtp", i |-> k]]
  OBVIOUS
<1>7. PICK adds, tops : /\ adds = KeepAt(s, EngineChannels(new))
                        /\ tops = [k \in 1..a |-> Topology]
  OBVIOUS
<1>8. MpfRequests(o, spare) = <<Topology>> \o adds \o rtp \o tops \o <<Topology>>
  BY <1>1, <1>4, <1>6, <1>7 DEF MpfRequests
<1>9. Aimed(adds, chs, sl) /\ \A k \in DOMAIN adds : adds[k].target = "channel"
  <2>1. /\ m \in Nat /\ s = [k \in 1..m |-> s[k]]
        /\ \A k \in 1..m : s[k] \in MpfCommand /\ s[k].target = "channel" /\ s[k].i = old + k
    BY <1>3, <1>6 DEF MpfCommand, Target
  <2>2. s \in Seq(MpfCommand) /\ DOMAIN s = 1..m
    BY <2>1, ListIs
  <2>3. EngineChannels(new) \subseteq 1..m
    BY <1>3, <1>6 DEF EngineChannels
  <2>4. \A k \in EngineChannels(new) :
           old + k \in DOMAIN chs /\ chs[old + k].waiting_for_termination
    <3>1. \A k \in DOMAIN new : new[k].waiting_for_termination = new[k].engine
      BY <1>1, NewChannelsIs
    <3>2. \A k \in 1..m : old + k \in DOMAIN chs
      BY <1>3, <1>6
    <3> QED
      BY <1>3, <1>6, <3>1, <3>2 DEF EngineChannels
  <2>5. PICK keep : keep = EngineChannels(new)
    OBVIOUS
  <2>6. \A k \in 1..m : s[k].target = "channel" /\ s[k].i = old + k
    BY <2>1
  <2>7. m \in Nat /\ old \in Nat
    BY <1>3, <2>1
  <2>8. /\ Aimed(KeepAt(s, keep), chs, sl)
        /\ \A k \in DOMAIN KeepAt(s, keep) : KeepAt(s, keep)[k].target = "channel"
    BY <2>2, <2>3, <2>4, <2>5, <2>6, <2>7, TerminationsAre
  <2> QED
    BY <1>7, <2>5, <2>8
<1>10. Aimed(rtp, chs, sl) /\ \A k \in DOMAIN rtp : rtp[k].target = "rtp"
  <2>1. /\ rtp = [k \in 1..n |-> rtp[k]]
        /\ \A k \in 1..n : rtp[k] \in MpfCommand /\ rtp[k].target = "rtp" /\ rtp[k].i = k
    BY <1>2, <1>6 DEF MpfCommand, Target
  <2>2. \A k \in 1..n : k \in DOMAIN sl /\ sl[k]
    BY <1>1, <1>2, OfferSlotsIs
  <2> QED
    BY <1>2, <2>1, <2>2, RtpIs
<1>11. /\ Aimed(tops, chs, sl) /\ \A k \in DOMAIN tops : tops[k].target = "topology"
       /\ Aimed(<<Topology>>, chs, sl)
       /\ \A k \in DOMAIN <<Topology>> : <<Topology>>[k].target = "topology"
  BY <1>5, <1>7, TopologyIs
<1>12. Aimed(<<Topology>> \o adds \o rtp, chs, sl)
  BY <1>9, <1>10, <1>11, AimedTogether
<1>13. \A x, y : y.target = "topology" => ~SameAim(x, y)
  BY DEF SameAim
<1>14. PICK t : t = <<Topology>> \o adds \o rtp
  OBVIOUS
<1>15. PICK u, v : u = t \o tops /\ v = <<Topology>>
  OBVIOUS
<1>16. Aimed(u, chs, sl)
  BY <1>11, <1>12, <1>13, <1>14, <1>15, AimedJoin
<1>17. Aimed(u \o v, chs, sl)
  BY <1>11, <1>13, <1>15, <1>16, AimedJoin
<1> QED
  BY <1>8, <1>14, <1>15, <1>17

(* The requests of an offer to the connection agent are about different    *)
(* channels, and each one is waited for.                                   *)
LEMMA OfferAgentIs ==
    ASSUME channels \in Seq(Channel), NEW o \in Offer, NEW spare, spare \subseteq Engines,
           NEW chs, chs = OfferChannels(o, spare)
    PROVE  Named(AgentRequests(o, spare), chs)
<1>1. PICK new, n, m : new = NewChannels(o, spare) /\ n = Len(channels) /\ m = Modified(o)
  OBVIOUS
<1>2. /\ chs \in Seq(Channel) /\ n \in Nat /\ Len(new) \in Nat /\ DOMAIN new = 1..Len(new)
      /\ m \in 0..n /\ DOMAIN channels = 1..n
      /\ Len(chs) = n + Len(new) /\ DOMAIN chs = 1..(n + Len(new))
      /\ \A k \in DOMAIN channels : k <= m => chs[k].waiting_for_channel
      /\ \A k \in DOMAIN new : chs[n + k] = new[k]
  BY <1>1, OfferChannelsIs
<1>3. \A k \in DOMAIN new : new[k].waiting_for_channel = (Version = 2)
  BY <1>1, NewChannelsIs
<1>4. PICK mods, adds : /\ mods = [k \in 1..m |-> k]
                        /\ adds = IF Version = 1 THEN <<>> ELSE [k \in 1..Len(new) |-> n + k]
  OBVIOUS
<1>5. AgentRequests(o, spare) = mods \o adds
  BY <1>1, <1>4 DEF AgentRequests
<1>6. Named(mods, chs) /\ DOMAIN mods = 1..m /\ \A k \in 1..m : mods[k] = k
  <2>1. DOMAIN mods = 1..m /\ mods = [k \in 1..m |-> mods[k]] /\ \A k \in 1..m : mods[k] = k
    BY <1>4
  <2>2. \A k \in 1..m : k \in DOMAIN chs /\ k \in DOMAIN channels /\ k <= m
    BY <1>2
  <2>3. m \in Nat
    BY <1>2
  <2>4. mods \in Seq(DOMAIN chs)
    BY <2>1, <2>2, <2>3, ListIs
  <2>5. \A k \in DOMAIN mods : chs[mods[k]].waiting_for_channel
    BY <1>2, <2>1, <2>2
  <2>6. \A k, l \in DOMAIN mods : k # l => mods[k] # mods[l]
    BY <2>1
  <2> QED
    BY <2>1, <2>4, <2>5, <2>6 DEF Named
<1>7. Named(adds, chs) /\ \A k \in DOMAIN adds : adds[k] > n
  <2>1. CASE Version = 1
    <3>1. adds = <<>>
      BY <1>4, <2>1
    <3> QED
      BY <3>1 DEF Named
  <2>2. CASE Version = 2
    <3>1. PICK l : l = Len(new)
      OBVIOUS
    <3>2. /\ DOMAIN adds = 1..l /\ adds = [k \in 1..l |-> adds[k]]
          /\ \A k \in 1..l : adds[k] = n + k
      BY <1>4, <2>2, <3>1
    <3>3. \A k \in 1..l : n + k \in DOMAIN chs /\ k \in DOMAIN new /\ n + k > n
      BY <1>2, <3>1
    <3>4. l \in Nat
      BY <1>2, <3>1
    <3>5. \A k \in 1..l : adds[k] \in DOMAIN chs
      BY <3>2, <3>3
    <3>6. adds \in Seq(DOMAIN chs)
      BY <3>2, <3>4, <3>5, ListIs
    <3>7. ASSUME NEW k \in 1..l PROVE chs[adds[k]].waiting_for_channel
      <4>1. adds[k] = n + k /\ k \in DOMAIN new
        BY <3>2, <3>3
      <4>2. chs[adds[k]] = new[k]
        BY <1>2, <4>1
      <4> QED
        BY <1>3, <2>2, <4>1, <4>2
    <3>8. \A k, j \in DOMAIN adds : k # j => adds[k] # adds[j]
      <4>1. \A k, j \in 1..l : k # j => n + k # n + j
        BY <1>2, <3>4
      <4> QED
        BY <3>2, <4>1
    <3> QED
      BY <3>2, <3>3, <3>6, <3>7, <3>8 DEF Named
  <2> QED
    BY <2>1, <2>2, SessionConstantsAssumption
<1>8. \A k \in DOMAIN mods, l \in DOMAIN adds : mods[k] # adds[l]
  <2>1. \A k \in 1..m : k <= n
    BY <1>2
  <2> QED
    BY <1>2, <1>6, <1>7, <2>1
<1>9. Named(mods, chs) /\ Named(adds, chs)
  BY <1>6, <1>7
<1>10. Named(mods \o adds, chs)
  BY <1>8, <1>9, NamedJoin
<1> QED
  BY <1>5, <1>10

(* An offer is answered with a status.                                     *)
LEMMA OfferStatusIs ==
    ASSUME NEW o, NEW spare
    PROVE  OfferStatus(o, spare) \in Statuses /\ OfferStatus(o, spare) # "none"
  BY DEF OfferStatus, Statuses


(* mrcp_server_session_offer_process: what an offer asks the media engine  *)
(* and the connection agent is what it counts.                             *)
LEMMA OfferKeeps ==
    ASSUME IInv, OfferProcess
    PROVE  IInv'
<1>1. PICK o : o = active_request.offer
  OBVIOUS
<1>2. PICK spare \in SUBSET Engines :
         /\ offer' = o /\ status' = OfferStatus(o, spare)
         /\ channels' = OfferChannels(o, spare)
         /\ slots' = OfferSlots(Audio(o, spare))
         /\ mpf_pending' = mpf_pending \o MpfRequests(o, spare)
         /\ agent_pending' = agent_pending \o AgentRequests(o, spare)
         /\ subrequest_count' = Len(MpfRequests(o, spare)) + Len(AgentRequests(o, spare))
  BY <1>1 DEF OfferProcess
<1>3. /\ call = "dispatch" /\ active_request.type = "OFFER" /\ context' = TRUE
      /\ state' = "GENERATING_ANSWER" /\ call' = "none"
      /\ UNCHANGED <<active_request, request_queue, last_offer, last_status,
                     engine_pending, opened, deact_pending, control_pending,
                     received, completed, destroyed>>
  BY DEF OfferProcess
<1>4. /\ Quiet /\ ~destroyed /\ control_pending = 0
      /\ active_request # NoMessage
      /\ active_request.type \notin {"NONE", "CONTROL"}
      /\ active_request \in SigMessage
  <2>1. Quiet /\ ~destroyed
    BY <1>3, AtRest
  <2> QED
    BY <1>3, <2>1, MessageTypes DEF IInv, StateType, Stages
<1>5. o \in Offers /\ o \in Offer /\ o # NoOffer /\ active_request = OfferMessage(o)
  <2>1. o \in Offers
    BY <1>1, <1>3, <1>4 DEF IInv, Messages, IsMessage
  <2> QED
    BY <1>1, <1>3, <1>4, <2>1, MessageTypes
<1>6. /\ channels \in Seq(Channel) /\ slots \in Seq(BOOLEAN) /\ spare \subseteq Engines
      /\ Len(channels) \in Nat /\ opened \subseteq DOMAIN channels
      /\ DOMAIN channels = 1..Len(channels)
  BY DEF IInv, StateType
<1>7. PICK mpf, agent, n : /\ mpf = MpfRequests(o, spare) /\ agent = AgentRequests(o, spare)
                           /\ n = Len(NewChannels(o, spare))
  OBVIOUS
<1>8. Aimed(mpf, channels', slots') /\ Named(agent, channels')
  <2>1. Aimed(mpf, channels', slots')
    BY <1>2, <1>5, <1>6, <1>7, OfferMpfIs
  <2> QED
    BY <1>2, <1>5, <1>6, <1>7, <2>1, OfferAgentIs
<1>9. /\ channels' \in Seq(Channel) /\ n \in Nat
      /\ Len(channels') = Len(channels) + n
      /\ \A k \in DOMAIN channels :
            channels'[k].engine = channels[k].engine /\ channels'[k].open = channels[k].open
  BY <1>2, <1>5, <1>6, <1>7, OfferChannelsIs
<1>10. Len(channels) <= Len(channels')
  BY <1>6, <1>9
<1>11. slots' \in Seq(BOOLEAN)
  <2>1. Audio(o, spare) \in Nat
    BY <1>5 DEF Audio, Offer
  <2> QED
    BY <1>2, <1>6, <2>1, OfferSlotsIs
<1>12. /\ mpf_pending' = mpf /\ agent_pending' = agent
       /\ engine_pending' = {} /\ deact_pending' = {}
  <2>1. PICK N : N = DOMAIN channels'
    OBVIOUS
  <2>2. mpf \in Seq(MpfCommand) /\ agent \in Seq(N)
    BY <1>8, <2>1 DEF Aimed, Named
  <2>3. <<>> \o mpf = mpf /\ <<>> \o agent = agent
    BY <2>2
  <2> QED
    BY <1>2, <1>3, <1>4, <1>7, <2>3 DEF Quiet
<1>13. status' \in Statuses /\ status' # "none"
  BY <1>2, OfferStatusIs
<1>14. StateType' /\ CountExact' /\ Waits' /\ Messages'
  <2>1. PICK closes : closes = {}
    OBVIOUS
  <2>2. /\ closes \subseteq DOMAIN channels' /\ Cardinality(closes) = 0
        /\ engine_pending' = closes
    BY <1>12, <2>1, FS_EmptySet
  <2>3. Len(mpf) \in Nat /\ Len(agent) \in Nat
    BY <1>8 DEF Aimed, Named
  <2>4. subrequest_count' = Len(mpf) + Len(agent) + Cardinality(closes)
    BY <1>2, <1>7, <2>2, <2>3
  <2>5. /\ call' \in {"none", "advance"} /\ call' # "advance"
        /\ context' \in BOOLEAN /\ offer' \in Offer
        /\ state' \in {"GENERATING_ANSWER", "TERMINATING"}
        /\ UNCHANGED <<active_request, request_queue, last_offer, last_status, opened,
                       control_pending, received, completed, destroyed>>
    BY <1>2, <1>3, <1>5
  <2> QED
    BY <1>4, <1>8, <1>9, <1>10, <1>11, <1>12, <1>13, <2>2, <2>4, <2>5, AsksThreads
<1>15. Stages'
  BY <1>2, <1>3, <1>4, <1>5, <1>13 DEF Stages
<1>16. Closes'
  <2>1. \A c \in opened : channels[c].engine /\ channels[c].open
    BY <1>4 DEF IInv, Closes, Quiet
  <2> QED
    BY <1>3, <1>6, <1>9, <1>12, <2>1 DEF Closes
<1> QED
  BY <1>14, <1>15, <1>16 DEF IInv

-----------------------------------------------------------------------------
(* The inductive invariant.                                                *)

(* A new session waits for nothing.                                        *)
LEMMA InitIInv == Init => IInv
<1> SUFFICES ASSUME Init PROVE IInv
  OBVIOUS
<1>1. StateType
  <2>1. /\ NoOffer \in Offer /\ NoMessage \in SigMessage
        /\ "none" \in Statuses /\ "none" \in {"none", "dispatch", "advance"}
    BY MessageTypes DEF Statuses
  <2>2. /\ <<>> \in Seq(SigMessage) /\ <<>> \in Seq(Channel) /\ <<>> \in Seq(BOOLEAN)
        /\ <<>> \in Seq(MpfCommand) /\ <<>> \in Seq(DOMAIN channels)
    OBVIOUS
  <2>3. /\ state \in {"NONE", "GENERATING_ANSWER", "INITIALIZING", "DEACTIVATING",
                       "TERMINATING"}
        /\ subrequest_count \in Nat /\ control_pending \in Nat
        /\ received \in Nat /\ completed \in Nat
    BY DEF Init
  <2> QED
    BY <2>1, <2>2, <2>3 DEF Init, StateType
<1>2. Quiet
  BY DEF Init, Quiet
<1>3. CountExact
  BY <1>1, <1>2, OutstandingIs DEF Init, CountExact
<1>4. Waits
  BY <1>2, QuietIs DEF Init, Waits
<1>5. Messages /\ Stages /\ Closes
  BY <1>2 DEF Init, Messages, Stages, Closes
<1> QED
  BY <1>1, <1>3, <1>4, <1>5 DEF IInv

(* No step of the session, its client or its threads breaks the invariant. *)
LEMMA NextIInv == IInv /\ [Next]_vars => IInv'
<1> SUFFICES ASSUME IInv, [Next]_vars PROVE IInv'
  OBVIOUS
<1>1. CASE Client
  BY <1>1, ClientKeeps
<1>2. CASE Dispatch
  BY <1>2, AnswerKeeps, OfferKeeps, DeactivateKeeps, ControlKeeps DEF Dispatch
<1>3. CASE Replies
  BY <1>3, MpfKeeps, ChannelReplyKeeps, EngineReplyKeeps, DeactivatedKeeps DEF Replies
<1>4. CASE Engine
  BY <1>4, EngineMessageKeeps, EngineEventKeeps, OwnAnsweredKeeps DEF Engine
<1>6. CASE Continue
  BY <1>6, UpdateKeeps, AnswerKeeps, TerminateKeeps, TerminateSendKeeps DEF Continue
<1>7. CASE DispatchDeferred \/ UNCHANGED vars
  <2>1. /\ UNCHANGED <<state, subrequest_count, control_pending, received, completed>>
        /\ UNCHANGED <<active_request, request_queue, call, context, channels, slots>>
        /\ UNCHANGED <<offer, last_offer, status, last_status, destroyed>>
        /\ UNCHANGED <<mpf_pending, agent_pending, engine_pending, opened, deact_pending>>
    BY <1>7 DEF DispatchDeferred, vars, request_vars, media_vars, offer_vars, pending_vars
  <2> QED
    BY <2>1, SameKeeps
<1> QED
  BY <1>1, <1>2, <1>3, <1>4, <1>6, <1>7 DEF Next

(* So it holds in every state of the session.                              *)
LEMMA IInvHolds == Spec => []IInv
  BY InitIInv, NextIInv, PTL DEF Spec

-----------------------------------------------------------------------------
(* What the end of a session leaves in the engines.                        *)

(* Setting one state machine of a list.                                    *)
LEMMA MachineSet ==
    ASSUME NEW ms \in Seq(Machine), NEW c \in DOMAIN ms, NEW x \in Machine, NEW ms2,
           ms2 = [ms EXCEPT ![c] = x]
    PROVE  /\ ms2 \in Seq(Machine) /\ Len(ms2) = Len(ms) /\ ms2[c] = x
           /\ \A k \in DOMAIN ms : k # c => ms2[k] = ms[k]
<1>1. ms \in [1..Len(ms) -> Machine] /\ Len(ms) \in Nat /\ DOMAIN ms = 1..Len(ms)
  OBVIOUS
<1>2. ms2 \in [1..Len(ms) -> Machine]
  BY <1>1
<1>3. ms2 \in Seq(Machine) /\ Len(ms2) = Len(ms)
  BY <1>1, <1>2
<1> QED
  BY <1>1, <1>2, <1>3

(* Setting one flag of a channel.                                          *)
LEMMA OneFlagSet ==
    ASSUME NEW chs \in Seq(Channel), NEW c \in DOMAIN chs, NEW b, NEW chs2,
           \/ chs2 = [chs EXCEPT ![c].in_progress = b]
           \/ chs2 = [chs EXCEPT ![c].waiting_for_channel = b]
           \/ chs2 = [chs EXCEPT ![c].waiting_for_termination = b]
    PROVE  /\ DOMAIN chs2 = DOMAIN chs
           /\ \A k \in DOMAIN chs : k # c => chs2[k].in_progress = chs[k].in_progress
           /\ chs2[c].in_progress \in {b, chs[c].in_progress}
           /\ chs2 = [chs EXCEPT ![c].in_progress = b] => chs2[c].in_progress = b
<1>1. \A k \in DOMAIN chs : chs[k] \in Channel
  OBVIOUS
<1> QED
  BY <1>1 DEF Channel

(* The fields of a state machine that are set together.                    *)
LEMMA MachineFields ==
    ASSUME NEW m \in Machine, NEW n \in Nat
    PROVE  /\ [m EXCEPT !.queue = n, !.own_active = FALSE] \in Machine
           /\ [m EXCEPT !.own = n, !.is_pending = FALSE] \in Machine
           /\ [m EXCEPT !.own = n] \in Machine
           /\ [m EXCEPT !.own = n, !.is_pending = TRUE, !.own_active = TRUE] \in Machine
<1>1. PICK q, o, t : /\ q = [m EXCEPT !.queue = n] /\ o = [m EXCEPT !.own = n]
                     /\ t = [o EXCEPT !.is_pending = TRUE]
  OBVIOUS
<1>2. q \in Machine /\ o \in Machine
  BY <1>1 DEF Machine
<1>3. t \in Machine
  BY <1>1, <1>2 DEF Machine
<1>4. /\ [m EXCEPT !.queue = n, !.own_active = FALSE] = [q EXCEPT !.own_active = FALSE]
      /\ [m EXCEPT !.own = n, !.is_pending = FALSE] = [o EXCEPT !.is_pending = FALSE]
      /\ [m EXCEPT !.own = n, !.is_pending = TRUE, !.own_active = TRUE]
            = [t EXCEPT !.own_active = TRUE]
  BY <1>1
<1>5. /\ [q EXCEPT !.own_active = FALSE] \in Machine
      /\ [o EXCEPT !.is_pending = FALSE] \in Machine
      /\ [t EXCEPT !.own_active = TRUE] \in Machine
  BY <1>2, <1>3 DEF Machine
<1> QED
  BY <1>1, <1>2, <1>4, <1>5

(* The channels and their state machines are numbered alike.               *)
LEMMA MachinesAre ==
    ASSUME IInv, Ends
    PROVE  /\ channels \in Seq(Channel) /\ machines \in Seq(Machine)
           /\ Len(channels) \in Nat /\ Len(machines) = Len(channels)
           /\ DOMAIN channels = 1..Len(channels) /\ DOMAIN machines = DOMAIN channels
           /\ \A k \in DOMAIN channels : machines[k] \in Machine
<1>1. /\ channels \in Seq(Channel) /\ machines \in Seq(Machine)
      /\ Len(machines) = Len(channels)
  BY DEF IInv, StateType, Ends, MachinesType
<1> QED
  BY <1>1

(* The same channels have the same numbers.                                *)
LEMMA SameLength ==
    ASSUME IInv, IInv', DOMAIN channels' = DOMAIN channels
    PROVE  Len(channels') = Len(channels)
<1>1. /\ Len(channels) \in Nat /\ DOMAIN channels = 1..Len(channels)
      /\ Len(channels') \in Nat /\ DOMAIN channels' = 1..Len(channels')
  BY DEF IInv, StateType
<1> QED
  BY <1>1

(* A step that neither starts a request nor touches a state machine.       *)
LEMMA EndsSame ==
    ASSUME IInv, IInv', Ends, UNCHANGED machine_vars, UNCHANGED deact_pending,
           DOMAIN channels' = DOMAIN channels,
           \A k \in DOMAIN channels : channels'[k].in_progress = channels[k].in_progress,
           state' \in {"DEACTIVATING", "TERMINATING"} =>
              state \in {"DEACTIVATING", "TERMINATING"}
    PROVE  Ends'
<1>1. UNCHANGED <<machines, deferred, self_sent, overtaken>>
  BY DEF machine_vars
<1>2. MachinesType'
  BY <1>1, SameLength DEF Ends, MachinesType
<1> QED
  BY <1>1, <1>2 DEF Ends, Stopped

(* A step that touches one state machine before the session ends.          *)
LEMMA EndsOpen ==
    ASSUME IInv, IInv', Ends, NEW c \in DOMAIN channels, NEW m \in Machine,
           machines' = [machines EXCEPT ![c] = m],
           deferred' \in {deferred, 0, c}, UNCHANGED <<self_sent, overtaken>>,
           DOMAIN channels' = DOMAIN channels,
           state' \notin {"DEACTIVATING", "TERMINATING"}
    PROVE  Ends'
<1>1. machines' \in Seq(Machine) /\ Len(machines') = Len(machines)
  BY MachinesAre, MachineSet
<1>2. MachinesType'
  BY <1>1, SameLength DEF Ends, MachinesType
<1> QED
  BY <1>2 DEF Ends

(* A step about one channel, which may end what is in progress on it, or   *)
(* about one that overtook the deactivation.                               *)
LEMMA EndsOne ==
    ASSUME IInv, IInv', Ends, NEW c \in DOMAIN channels, NEW m \in Machine,
           machines' = [machines EXCEPT ![c] = m],
           DOMAIN channels' = DOMAIN channels,
           \A k \in DOMAIN channels :
              k # c => channels'[k].in_progress = channels[k].in_progress,
           deferred' \in {deferred, 0}, self_sent' \in {self_sent, self_sent \cup {c}},
           UNCHANGED <<state, overtaken>>,
           deact_pending' \in {deact_pending, deact_pending \ {c}},
           \/ state \notin {"DEACTIVATING", "TERMINATING"} \/ c \in overtaken
           \/ m.own = machines[c].own /\ ~channels'[c].in_progress
    PROVE  Ends'
<1>1. /\ machines' \in Seq(Machine) /\ Len(machines') = Len(machines) /\ machines'[c] = m
      /\ \A k \in DOMAIN channels : k # c => machines'[k] = machines[k]
  BY MachinesAre, MachineSet
<1>2. MachinesType'
  BY <1>1, SameLength DEF Ends, MachinesType
<1>3. ASSUME NEW k \in DOMAIN channels, state \in {"DEACTIVATING", "TERMINATING"},
             k \notin overtaken
      PROVE  Stopped(k)'
  <2>1. Stopped(k)
    BY <1>3 DEF Ends
  <2>2. k # 0 /\ k # deferred'
    BY <2>1, MachinesAre DEF Stopped
  <2>3. CASE k # c
    BY <1>1, <2>1, <2>2, <2>3 DEF Stopped
  <2>4. CASE k = c
    BY <1>1, <1>3, <2>1, <2>2, <2>4 DEF Stopped
  <2> QED
    BY <2>3, <2>4
<1> QED
  BY <1>2, <1>3 DEF Ends

(* A control message that the state machine takes.                         *)
LEMMA ControlEnds ==
    ASSUME IInv, IInv', Ends, ControlAnswered \/ ControlForwarded
    PROVE  Ends'
<1>1. PICK c : c = active_request.ch
  OBVIOUS
<1>2. /\ active_request.type = "CONTROL" /\ c # 0 /\ active_request # NoMessage
      /\ UNCHANGED <<state, channels, deferred, self_sent, overtaken>>
  BY <1>1, MessageTypes DEF ControlAnswered, ControlForwarded, HasStateMachine, media_vars
<1>3. c \in DOMAIN channels
  <2>1. c \in 0..Len(channels)
    BY <1>1, <1>2 DEF IInv, Messages, IsMessage
  <2> QED
    BY <1>2, <2>1, MachinesAre
<1>4. state' \notin {"DEACTIVATING", "TERMINATING"}
  BY <1>2, AtRest
<1>5. machines[c] \in Machine
  BY <1>3, MachinesAre
<1>6. PICK m \in Machine : machines' = [machines EXCEPT ![c] = m]
  <2>1. CASE ControlAnswered
    <3>1. PICK most :
             most = machines[c].queue + (IF channels[c].in_progress THEN 1 ELSE 0)
      OBVIOUS
    <3>2. most \in Nat
      BY <1>5, <3>1 DEF Machine
    <3>3. PICK n \in 0..most :
             machines' = [machines EXCEPT ![c] = [@ EXCEPT !.queue = n, !.own_active = FALSE]]
      BY <1>1, <2>1, <3>1 DEF ControlAnswered
    <3>4. [machines[c] EXCEPT !.queue = n, !.own_active = FALSE] \in Machine
      <4>1. n \in Nat
        BY <3>2
      <4> QED
        BY <1>5, <4>1, MachineFields
    <3> QED
      BY <3>3, <3>4
  <2>2. CASE ControlForwarded
    <3>1. machines' = [machines EXCEPT ![c] = [@ EXCEPT !.own_active = FALSE]]
      BY <1>1, <2>2 DEF ControlForwarded
    <3>2. [machines[c] EXCEPT !.own_active = FALSE] \in Machine
      BY <1>5 DEF Machine
    <3> QED
      BY <3>1, <3>2
  <2> QED
    BY <2>1, <2>2
<1> QED
  BY <1>2, <1>3, <1>4, <1>6, EndsOpen

(* What the response of an engine does to the state machine.               *)
LEMMA ResponseMachine ==
    ASSUME NEW c, machines[c] \in Machine, c \in DOMAIN machines,
           machines \in Seq(Machine),
           \/ ResponseIgnored(c) \/ ResponseSwallowed(c) \/ ResponseStarts(c)
           \/ ResponseStops(c) \/ ResponseOther(c)
    PROVE  /\ \E m \in Machine : machines' = [machines EXCEPT ![c] = m]
           /\ deferred' \in {deferred, c}
<1>1. CASE ResponseIgnored(c) \/ ResponseStarts(c) \/ ResponseOther(c)
  <2>1. machines' = machines /\ deferred' = deferred
    BY <1>1 DEF ResponseIgnored, ResponseStarts, ResponseOther
  <2>2. machines = [machines EXCEPT ![c] = machines[c]]
    OBVIOUS
  <2> QED
    BY <2>1, <2>2
<1>2. CASE ResponseSwallowed(c)
  <2>1. machines' = [machines EXCEPT ![c].is_pending = FALSE] /\ deferred' = deferred
    BY <1>2 DEF ResponseSwallowed
  <2>2. [machines[c] EXCEPT !.is_pending = FALSE] \in Machine
    BY DEF Machine
  <2> QED
    BY <2>1, <2>2
<1>3. CASE ResponseStops(c)
  <2>1. PICK n \in 0..machines[c].queue :
           \/ machines' = [machines EXCEPT ![c].queue = n] /\ deferred' = deferred
           \/ /\ n > 0 /\ machines' = [machines EXCEPT ![c].queue = n - 1]
              /\ deferred' = c
    BY <1>3 DEF ResponseStops
  <2>2. n \in Nat
    BY <2>1 DEF Machine
  <2>3. /\ [machines[c] EXCEPT !.queue = n] \in Machine
        /\ n > 0 => [machines[c] EXCEPT !.queue = n - 1] \in Machine
    BY <2>2 DEF Machine
  <2> QED
    BY <2>1, <2>3
<1> QED
  BY <1>1, <1>2, <1>3

(* The engine answers a control message.                                   *)
LEMMA EngineMessageEnds ==
    ASSUME IInv, IInv', Ends, EngineMessage
    PROVE  Ends'
<1>1. PICK c : c = control_pending
  OBVIOUS
<1>2. /\ c # 0 /\ UNCHANGED <<state, self_sent, overtaken>>
      /\ \/ ResponseIgnored(c) \/ ResponseSwallowed(c) \/ ResponseStarts(c)
         \/ ResponseStops(c) \/ ResponseOther(c)
  BY <1>1 DEF EngineMessage
<1>3. c \in DOMAIN channels /\ active_request.type = "CONTROL"
  BY <1>1, <1>2 DEF IInv, Stages
<1>4. state' \notin {"DEACTIVATING", "TERMINATING"}
  BY <1>2, <1>3, AtRest
<1>5. /\ \E m \in Machine : machines' = [machines EXCEPT ![c] = m]
      /\ deferred' \in {deferred, c}
  BY <1>2, <1>3, MachinesAre, ResponseMachine
<1>6. DOMAIN channels' = DOMAIN channels
  <2>1. PICK b : \/ channels' = [channels EXCEPT ![c].in_progress = b]
                 \/ channels' = channels
    BY <1>1, ResponsesAre
  <2> QED
    BY <2>1
<1> QED
  BY <1>2, <1>3, <1>4, <1>5, <1>6, EndsOpen

(* A state machine that sends a request has one more with the engine.      *)
LEMMA SendsIs ==
    ASSUME NEW m \in Machine
    PROVE  /\ Sends(m) \in Machine
           /\ m.queue > 0 => Sends([m EXCEPT !.queue = @ - 1]) \in Machine
<1>1. m.queue > 0 => [m EXCEPT !.queue = @ - 1] \in Machine
  BY DEF Machine
<1>2. ASSUME NEW x \in Machine
      PROVE  Sends(x) \in Machine
  <2>1. x.own + 1 \in Nat
    BY DEF Machine
  <2> QED
    BY <2>1, MachineFields DEF Sends
<1> QED
  BY <1>1, <1>2

(* A request in progress ends by itself, and the next one is sent.         *)
LEMMA EngineEventEnds ==
    ASSUME IInv, IInv', Ends, EngineEvent
    PROVE  Ends'
<1>1. PICK c \in DOMAIN channels \ deact_pending :
         /\ channels[c].in_progress
         /\ channels' = [channels EXCEPT ![c].in_progress = FALSE]
         /\ \/ UNCHANGED <<machines, self_sent>>
            \/ /\ machines[c].queue > 0
               /\ machines' = [machines EXCEPT ![c] =
                                   Sends([machines[c] EXCEPT !.queue = @ - 1])]
               /\ self_sent' = self_sent \cup {c}
  BY DEF EngineEvent
<1>2. UNCHANGED <<state, deact_pending, deferred, overtaken>>
  BY DEF EngineEvent, pending_vars
<1>3. machines[c] \in Machine /\ machines \in Seq(Machine) /\ channels \in Seq(Channel)
  BY MachinesAre
<1>4. PICK m \in Machine : machines' = [machines EXCEPT ![c] = m]
  <2>1. CASE machines' = machines
    BY <1>3, <2>1
  <2>2. CASE machines[c].queue > 0 /\ machines' = [machines EXCEPT ![c] =
                                         Sends([machines[c] EXCEPT !.queue = @ - 1])]
    BY <1>3, <2>2, SendsIs
  <2> QED
    BY <1>1, <2>1, <2>2
<1>5. /\ DOMAIN channels' = DOMAIN channels
      /\ \A k \in DOMAIN channels :
            k # c => channels'[k].in_progress = channels[k].in_progress
  BY <1>1, <1>3, OneFlagSet
<1>6. state \notin {"DEACTIVATING", "TERMINATING"} \/ c \in overtaken
  BY <1>1 DEF Ends, Stopped
<1>7. self_sent' \in {self_sent, self_sent \cup {c}}
  BY <1>1
<1> QED
  BY <1>1, <1>2, <1>4, <1>5, <1>6, <1>7, EndsOne

(* The end of the handler of a STOP response.                              *)
LEMMA DeferredEnds ==
    ASSUME IInv, IInv', Ends, DispatchDeferred
    PROVE  Ends'
<1>1. PICK c : c = deferred
  OBVIOUS
<1>2. /\ c # 0 /\ machines' = [machines EXCEPT ![c] = Sends(@)]
      /\ self_sent' = self_sent \cup {c} /\ deferred' = 0
      /\ UNCHANGED <<state, channels, deact_pending, overtaken>>
  BY <1>1 DEF DispatchDeferred, media_vars, pending_vars
<1>3. c \in DOMAIN channels
  BY <1>1, <1>2 DEF Ends, MachinesType
<1>4. Sends(machines[c]) \in Machine
  BY <1>3, MachinesAre, SendsIs
<1>5. state \notin {"DEACTIVATING", "TERMINATING"} \/ c \in overtaken
  BY <1>1, <1>3 DEF Ends, Stopped
<1>6. machines' = [machines EXCEPT ![c] = Sends(machines[c])]
  BY <1>2
<1> QED
  BY <1>2, <1>3, <1>4, <1>5, <1>6, EndsOne

(* An engine answers a request of a state machine itself.                  *)
LEMMA OwnAnsweredEnds ==
    ASSUME IInv, IInv', Ends, OwnAnswered
    PROVE  Ends'
<1>1. PICK c \in DOMAIN channels : \E b, m :
         /\ b \in BOOLEAN /\ machines[c].own > 0
         /\ \/ m = [machines[c] EXCEPT !.own = @ - 1, !.is_pending = FALSE]
            \/ m = [machines[c] EXCEPT !.own = @ - 1]
         /\ machines' = [machines EXCEPT ![c] = m]
         /\ \/ channels' = [channels EXCEPT ![c].in_progress = b]
            \/ channels' = channels
  BY OwnAnsweredIs
<1>2. PICK b, m :
         /\ b \in BOOLEAN /\ machines[c].own > 0
         /\ \/ m = [machines[c] EXCEPT !.own = @ - 1, !.is_pending = FALSE]
            \/ m = [machines[c] EXCEPT !.own = @ - 1]
         /\ machines' = [machines EXCEPT ![c] = m]
         /\ \/ channels' = [channels EXCEPT ![c].in_progress = b]
            \/ channels' = channels
  BY <1>1
<1>3. UNCHANGED <<state, deact_pending, deferred, self_sent, overtaken>>
  BY DEF OwnAnswered, pending_vars
<1>4. machines[c] \in Machine /\ channels \in Seq(Channel)
  BY MachinesAre
<1>5. m \in Machine
  <2>1. machines[c].own - 1 \in Nat
    BY <1>2, <1>4 DEF Machine
  <2> QED
    BY <1>2, <1>4, <2>1, MachineFields
<1>6. /\ DOMAIN channels' = DOMAIN channels
      /\ \A k \in DOMAIN channels :
            k # c => channels'[k].in_progress = channels[k].in_progress
  BY <1>2, <1>4, OneFlagSet
<1>7. state \notin {"DEACTIVATING", "TERMINATING"} \/ c \in overtaken
  <2>1. machines[c].own # 0
    BY <1>2, <1>4 DEF Machine
  <2> QED
    BY <2>1 DEF Ends, Stopped
<1> QED
  BY <1>2, <1>3, <1>5, <1>6, <1>7, EndsOne

(* What is in progress is stopped, and its state machine has nothing left. *)
LEMMA OnDeactivateEnds ==
    ASSUME IInv, IInv', Ends, OnDeactivate
    PROVE  Ends'
<1>1. PICK c \in deact_pending :
         /\ deact_pending' = deact_pending \ {c}
         /\ channels' = [channels EXCEPT ![c].in_progress = FALSE]
         /\ machines' = [machines EXCEPT ![c].queue = 0]
  BY DEF OnDeactivate
<1>2. UNCHANGED <<state, deferred, self_sent, overtaken>>
  BY DEF OnDeactivate, Reply
<1>3. c \in DOMAIN channels
  BY DEF IInv, StateType
<1>4. machines[c] \in Machine /\ channels \in Seq(Channel)
  BY <1>3, MachinesAre
<1>5. PICK m \in Machine : /\ machines' = [machines EXCEPT ![c] = m]
                           /\ m.own = machines[c].own
  <2>1. [machines[c] EXCEPT !.queue = 0] \in Machine
    BY <1>4 DEF Machine
  <2>2. [machines[c] EXCEPT !.queue = 0].own = machines[c].own
    BY <1>4 DEF Machine
  <2> QED
    BY <1>1, <2>1, <2>2
<1>6. /\ DOMAIN channels' = DOMAIN channels /\ ~channels'[c].in_progress
      /\ \A k \in DOMAIN channels :
            k # c => channels'[k].in_progress = channels[k].in_progress
  <2>1. channels'[c] = [channels[c] EXCEPT !.in_progress = FALSE] /\ channels[c] \in Channel
    BY <1>1, <1>3, <1>4
  <2>2. ~channels'[c].in_progress
    BY <2>1 DEF Channel
  <2> QED
    BY <1>1, <1>3, <1>4, <2>2, OneFlagSet
<1>7. deact_pending' \in {deact_pending, deact_pending \ {c}}
  BY <1>1
<1> QED
  BY <1>2, <1>3, <1>5, <1>6, <1>7, EndsOne

(* Everything that is in progress is asked to stop.                        *)
LEMMA DeactivateEnds ==
    ASSUME IInv, IInv', Ends, Deactivate
    PROVE  Ends'
<1>1. PICK busy : busy = {k \in DOMAIN channels : channels[k].in_progress}
  OBVIOUS
<1>2. /\ deact_pending' = deact_pending \cup busy
      /\ machines' = [k \in DOMAIN machines |->
             [machines[k] EXCEPT !.own_active = @ /\ k \notin busy]]
      /\ overtaken' = {k \in DOMAIN channels : machines[k].own > 0 \/ k = deferred}
      /\ UNCHANGED <<channels, deferred, self_sent>>
  BY <1>1 DEF Deactivate, media_vars
<1>3. \A k \in DOMAIN channels :
         machines'[k] \in Machine /\ machines'[k].own = machines[k].own
  <2> SUFFICES ASSUME NEW k \in DOMAIN channels
               PROVE  machines'[k] \in Machine /\ machines'[k].own = machines[k].own
    OBVIOUS
  <2>1. machines[k] \in Machine /\ k \in DOMAIN machines
    BY MachinesAre
  <2>2. machines'[k] = [machines[k] EXCEPT !.own_active =
                           (machines[k].own_active /\ k \notin busy)]
    BY <1>2, <2>1
  <2>3. (machines[k].own_active /\ k \notin busy) \in BOOLEAN
    OBVIOUS
  <2> QED
    BY <2>1, <2>2, <2>3 DEF Machine
<1>4. machines' \in Seq(Machine) /\ Len(machines') = Len(machines)
  <2>1. machines' \in [1..Len(machines) -> Machine]
    BY <1>2, <1>3, MachinesAre
  <2> QED
    BY <2>1, MachinesAre
<1>5. MachinesType'
  BY <1>2, <1>4 DEF Ends, MachinesType
<1>6. ASSUME NEW k \in DOMAIN channels, k \notin overtaken'
      PROVE  Stopped(k)'
  <2>1. machines[k].own = 0 /\ k # deferred
    BY <1>2, <1>6, MachinesAre DEF Machine
  <2>2. channels[k].in_progress => k \in deact_pending'
    BY <1>1, <1>2
  <2> QED
    BY <1>2, <1>3, <2>1, <2>2 DEF Stopped
<1> QED
  BY <1>2, <1>5, <1>6 DEF Ends

(* New channels have idle state machines.                                  *)
LEMMA OfferEnds ==
    ASSUME IInv, IInv', Ends, OfferProcess
    PROVE  Ends'
<1>1. PICK o : o = active_request.offer
  OBVIOUS
<1>2. PICK spare \in SUBSET Engines :
         /\ channels' = OfferChannels(o, spare)
         /\ machines' = machines \o [k \in 1..Len(NewChannels(o, spare)) |-> IdleMachine]
  BY <1>1 DEF OfferProcess
<1>3. /\ state' = "GENERATING_ANSWER" /\ UNCHANGED <<deferred, self_sent, overtaken>>
  BY DEF OfferProcess
<1>4. /\ Len(NewChannels(o, spare)) \in Nat
      /\ Len(channels') = Len(channels) + Len(NewChannels(o, spare))
  <2>1. o \in Offer
    <3>1. active_request.type = "OFFER"
      BY DEF OfferProcess
    <3>2. active_request # NoMessage
      BY <3>1, MessageTypes
    <3>3. o \in Offers
      BY <1>1, <3>1, <3>2 DEF IInv, Messages, IsMessage
    <3> QED
      BY <3>3, MessageTypes
  <2>2. channels \in Seq(Channel) /\ spare \subseteq Engines
    BY <1>2, MachinesAre
  <2> QED
    BY <1>2, <2>1, <2>2, OfferChannelsIs
<1>5. IdleMachine \in Machine
  BY DEF IdleMachine, Machine
<1>6. PICK new : new = [k \in 1..Len(NewChannels(o, spare)) |-> IdleMachine]
  OBVIOUS
<1>7. new \in Seq(Machine) /\ Len(new) = Len(NewChannels(o, spare))
  BY <1>4, <1>5, <1>6
<1>8. machines' \in Seq(Machine) /\ Len(machines') = Len(channels')
  BY <1>2, <1>4, <1>6, <1>7, MachinesAre, JoinIs
<1>9. DOMAIN channels \subseteq DOMAIN channels'
  BY <1>4, MachinesAre DEF IInv, StateType
<1>10. MachinesType'
  BY <1>3, <1>8, <1>9 DEF Ends, MachinesType
<1> QED
  BY <1>3, <1>10 DEF Ends

(* A reply about a termination or a control channel.                       *)
LEMMA ReplyEnds ==
    ASSUME IInv, IInv', Ends, OnMpfResponse \/ OnChannelReply \/ OnEngineChannelReply
    PROVE  Ends'
<1>1. UNCHANGED <<state, deact_pending, machine_vars>>
  BY DEF OnMpfResponse, OnChannelReply, OnEngineChannelReply, Reply, machine_vars
<1>2. \/ channels' = channels
      \/ \E c \in DOMAIN channels : \E b :
            \/ channels' = [channels EXCEPT ![c].waiting_for_channel = b]
            \/ channels' = [channels EXCEPT ![c].waiting_for_termination = b]
  <2>1. CASE OnMpfResponse
    <3>1. PICK m : m = Head(mpf_pending)
      OBVIOUS
    <3>2. mpf_pending # <<>>
      BY <2>1 DEF OnMpfResponse
    <3>3. m.target = "channel" => m.i \in DOMAIN channels
      BY <3>1, <3>2, HeadAim DEF IInv, Waits
    <3>4. \/ channels' = channels
          \/ /\ m.target = "channel"
             /\ channels' = [channels EXCEPT ![m.i].waiting_for_termination = FALSE]
      BY <2>1, <3>1 DEF OnMpfResponse
    <3> QED
      BY <3>3, <3>4
  <2>2. CASE OnChannelReply
    <3>1. PICK c : c = Head(agent_pending)
      OBVIOUS
    <3>2. /\ agent_pending # <<>>
          /\ channels' = [channels EXCEPT ![c].waiting_for_channel = FALSE]
      BY <2>2, <3>1 DEF OnChannelReply
    <3>3. c \in DOMAIN channels
      <4>1. agent_pending \in Seq(DOMAIN channels)
        BY DEF IInv, StateType
      <4> QED
        BY <3>1, <3>2, <4>1, TailIs
    <3> QED
      BY <3>2, <3>3
  <2>3. CASE OnEngineChannelReply
    BY <2>3 DEF OnEngineChannelReply
  <2> QED
    BY <2>1, <2>2, <2>3
<1>3. CASE channels' = channels
  BY <1>1, <1>3, EndsSame
<1>4. ASSUME NEW c \in DOMAIN channels, NEW b,
             \/ channels' = [channels EXCEPT ![c].waiting_for_channel = b]
             \/ channels' = [channels EXCEPT ![c].waiting_for_termination = b]
      PROVE  Ends'
  <2>1. channels[c] \in Channel /\ channels \in Seq(Channel)
    BY MachinesAre
  <2>2. /\ DOMAIN channels' = DOMAIN channels
        /\ \A k \in DOMAIN channels : channels'[k].in_progress = channels[k].in_progress
    BY <1>4, <2>1 DEF Channel
  <2> QED
    BY <1>1, <2>2, EndsSame
<1> QED
  BY <1>2, <1>3, <1>4

(* The engine channels are opened or closed, the rest is removed.          *)
LEMMA ContinueEnds ==
    ASSUME IInv, IInv', Ends, EngineChannelsUpdate \/ TerminateProcess
    PROVE  Ends'
<1>1. /\ UNCHANGED <<deact_pending, machine_vars>>
      /\ state' \in {"DEACTIVATING", "TERMINATING"} =>
            state \in {"DEACTIVATING", "TERMINATING"}
  BY DEF EngineChannelsUpdate, TerminateProcess, Advance
<1>2. \A k \in DOMAIN channels : channels[k] \in Channel
  BY MachinesAre
<1>3. CASE EngineChannelsUpdate
  <2>1. PICK changed : channels' = [k \in DOMAIN channels |->
                          [channels[k] EXCEPT !.open = IF k \in changed THEN ~@ ELSE @]]
    BY <1>3 DEF EngineChannelsUpdate
  <2>2. /\ DOMAIN channels' = DOMAIN channels
        /\ \A k \in DOMAIN channels : channels'[k].in_progress = channels[k].in_progress
    BY <1>2, <2>1 DEF Channel
  <2> QED
    BY <1>1, <2>2, EndsSame
<1>4. CASE TerminateProcess
  <2>1. channels' = [k \in DOMAIN channels |->
           [channels[k] EXCEPT !.waiting_for_channel = Version = 2,
                               !.waiting_for_termination = channels[k].engine,
                               !.open = FALSE]]
    BY <1>4 DEF TerminateProcess
  <2>2. /\ DOMAIN channels' = DOMAIN channels
        /\ \A k \in DOMAIN channels : channels'[k].in_progress = channels[k].in_progress
    BY <1>2, <2>1 DEF Channel
  <2> QED
    BY <1>1, <2>2, EndsSame
<1> QED
  BY <1>3, <1>4

(* Every step keeps what the end of the session relies on.                 *)
LEMMA NextEnds == IInv /\ IInv' /\ Ends /\ [Next]_vars => Ends'
<1> SUFFICES ASSUME IInv, IInv', Ends, [Next]_vars PROVE Ends'
  OBVIOUS
<1>1. CASE \/ Client \/ OfferAgain \/ ControlDropped \/ AnswerSend \/ TerminateSend
           \/ UNCHANGED vars
  <2>1. UNCHANGED <<state, channels, deact_pending, machine_vars>>
    BY <1>1 DEF Client, ReceiveOffer, ReceiveControl, ReceiveTerminate, Receive,
                OfferAgain, ControlDropped, AnswerSend, TerminateSend, vars, media_vars,
                pending_vars
  <2> QED
    BY <2>1, EndsSame
<1>2. CASE OfferProcess \/ Deactivate \/ ControlAnswered \/ ControlForwarded
  BY <1>2, OfferEnds, DeactivateEnds, ControlEnds
<1>3. CASE Replies
  BY <1>3, ReplyEnds, OnDeactivateEnds DEF Replies
<1>4. CASE Engine \/ DispatchDeferred
  BY <1>4, EngineMessageEnds, EngineEventEnds, OwnAnsweredEnds, DeferredEnds DEF Engine
<1>5. CASE EngineChannelsUpdate \/ TerminateProcess
  BY <1>5, ContinueEnds
<1> QED
  BY <1>1, <1>2, <1>3, <1>4, <1>5 DEF Next, Dispatch, Continue

(* So it holds in every state of the session.                              *)
LEMMA EndsHolds == Spec => []Ends
<1>1. Init => Ends
  BY DEF Init, Ends, MachinesType
<1> QED
  BY <1>1, IInvHolds, NextEnds, PTL DEF Spec

-----------------------------------------------------------------------------
(* What the session guarantees.                                            *)

(* Every variable keeps its type; in particular every reply is about a     *)
(* channel that is there.                                                  *)
THEOREM SessionTypeOK == Spec => []TypeOK
<1>1. IInv /\ Ends => TypeOK
  BY DEF IInv, Ends, TypeOK
<1> QED
  BY <1>1, IInvHolds, EndsHolds, PTL

(* subrequest_count is the number of replies that are still to come, for   *)
(* any offers and any order of the replies: the branches of                *)
(* mrcp_server_session_subrequest_remove that report an error are dead.    *)
THEOREM SessionCountExact == Spec => []CountExact
<1>1. IInv => CountExact
  BY DEF IInv
<1> QED
  BY <1>1, IInvHolds, PTL

(* The replies that write into session->answer find it, and find the offer *)
(* it answers as the active request.                                       *)
THEOREM SessionAnswerPresent == Spec => []AnswerPresent
<1>1. IInv => AnswerPresent
  <2> SUFFICES ASSUME IInv, state \in {"GENERATING_ANSWER", "INITIALIZING"}, Outstanding > 0
               PROVE  status # "none" /\ active_request = OfferMessage(offer)
    BY DEF AnswerPresent
  <2>1. ~Quiet
    BY OutstandingIs DEF IInv
  <2> QED
    BY <2>1 DEF IInv, Stages
<1> QED
  BY <1>1, IInvHolds, PTL

(* mrcp_server_session_terminate_send is called when every engine channel  *)
(* that was opened is closed and no thread has a reply left to send; what  *)
(* is still in progress then, or with an engine, is on channels whose      *)
(* state machine had sent a queued request by itself that the engine had   *)
(* not answered when the session was deactivated.                          *)
THEOREM SessionNothingLeftBehind == Spec => []NothingLeftBehind
<1>1. IInv /\ Ends => NothingLeftBehind
  <2> SUFFICES ASSUME IInv, Ends, destroyed
               PROVE  /\ Outstanding = 0 /\ control_pending = 0 /\ opened = {}
                      /\ \A k \in DOMAIN channels : ~channels[k].open
                      /\ \A k \in DOMAIN channels \ overtaken :
                            ~channels[k].in_progress /\ machines[k].own = 0
    BY DEF NothingLeftBehind
  <2>1. state = "TERMINATING" /\ Quiet
    BY DEF IInv, Stages
  <2>2. Outstanding = 0
    BY <2>1, OutstandingIs DEF IInv
  <2>3. control_pending = 0
    BY <2>1, MessageTypes DEF IInv, Stages
  <2>4. \A k \in DOMAIN channels : ~channels[k].open
    BY <2>1 DEF IInv, Closes
  <2>5. opened = {}
    BY <2>1, <2>4 DEF IInv, StateType, Closes, Quiet
  <2>6. \A k \in DOMAIN channels \ overtaken :
           ~channels[k].in_progress /\ machines[k].own = 0
    BY <2>1 DEF Ends, Stopped, Quiet
  <2> QED
    BY <2>2, <2>3, <2>4, <2>5, <2>6
<1> QED
  BY <1>1, IInvHolds, EndsHolds, PTL


-----------------------------------------------------------------------------
(* Refinement: the session serves its messages in order.                   *)

(* The messages that are not done are the active one and the queue.        *)
LEMMA PendingIs ==
    ASSUME IInv, ~destroyed
    PROVE  /\ Pending \in Seq(SigMessage \ {NoMessage})
           /\ active_request = NoMessage => Pending = <<>> /\ request_queue = <<>>
           /\ active_request # NoMessage =>
                 /\ Pending = <<active_request>> \o request_queue
                 /\ active_request \in SigMessage \ {NoMessage}
                 /\ request_queue \in Seq(SigMessage \ {NoMessage})
<1>1. request_queue \in Seq(SigMessage) /\ active_request \in SigMessage
  BY DEF IInv, StateType
<1>2. \A k \in DOMAIN request_queue : request_queue[k] \in SigMessage \ {NoMessage}
  BY <1>1 DEF IInv, Messages, IsMessage
<1>3. request_queue \in Seq(SigMessage \ {NoMessage})
  BY <1>1, <1>2
<1>4. CASE active_request = NoMessage
  BY <1>4 DEF IInv, Messages, Pending
<1>5. CASE active_request # NoMessage
  <2>1. PICK M, a, q : M = SigMessage \ {NoMessage} /\ a = active_request /\ q = request_queue
    OBVIOUS
  <2>2. a \in M /\ q \in Seq(M)
    BY <1>1, <1>3, <1>5, <2>1
  <2>3. <<a>> \o q \in Seq(M)
    BY <2>2
  <2>4. Pending = <<a>> \o q
    BY <1>5, <2>1 DEF Pending
  <2> QED
    BY <1>5, <2>1, <2>2, <2>3, <2>4
<1> QED
  BY <1>4, <1>5

(* A message behind the others is the one that was accepted last.          *)
LEMMA AppendIs ==
    ASSUME NEW M, NEW p \in Seq(M), NEW m \in M, NEW r, r = Append(p, m)
    PROVE  r \in Seq(M) /\ Len(r) = Len(p) + 1 /\ SubSeq(r, 1, Len(p)) = p
  OBVIOUS

(* A signaling message is accepted.                                        *)
LEMMA ReceiveAccepts ==
    ASSUME IInv, NEW m \in SigMessage \ {NoMessage}, Receive(m)
    PROVE  Queue!Accept
<1>1. ~destroyed /\ destroyed' = destroyed
  BY DEF Receive
<1>2. PICK M, p : M = SigMessage \ {NoMessage} /\ p = Pending
  OBVIOUS
<1>3. p \in Seq(M) /\ m \in M
  BY <1>1, <1>2, PendingIs
<1>4. Pending' = Append(p, m)
  <2>1. CASE active_request # NoMessage
    <3>1. PICK a, q : a = active_request /\ q = request_queue
      OBVIOUS
    <3>2. a \in M /\ q \in Seq(M) /\ p = <<a>> \o q
      BY <1>1, <1>2, <2>1, <3>1, PendingIs
    <3>3. Pending' = <<a>> \o Append(q, m)
      BY <1>1, <2>1, <3>1 DEF Receive, Pending
    <3>4. <<a>> \o Append(q, m) = Append(<<a>> \o q, m)
      BY <1>3, <3>2
    <3> QED
      BY <3>2, <3>3, <3>4
  <2>2. CASE active_request = NoMessage
    <3>1. p = <<>> /\ request_queue = <<>>
      BY <1>1, <1>2, <2>2, PendingIs
    <3>2. Pending' = <<m>> \o <<>>
      BY <1>1, <2>2, <3>1 DEF Receive, Pending
    <3>3. <<m>> \o <<>> = Append(<<>>, m)
      BY <1>3
    <3> QED
      BY <3>1, <3>2, <3>3
  <2> QED
    BY <2>1, <2>2
<1>5. Pending' \in Seq(M) /\ Len(Pending') = Len(p) + 1 /\ SubSeq(Pending', 1, Len(p)) = p
  BY <1>3, <1>4, AppendIs
<1> QED
  BY <1>1, <1>2, <1>5 DEF Queue!Accept

(* The active message is finished.                                         *)
LEMMA PopFinishes ==
    ASSUME IInv, PopRequest, ~destroyed, destroyed' = destroyed,
           active_request # NoMessage, active_request # TerminateMessage
    PROVE  Queue!Finish
<1>1. PICK M, a, q : M = SigMessage \ {NoMessage} /\ a = active_request /\ q = request_queue
  OBVIOUS
<1>2. a \in M /\ q \in Seq(M) /\ Pending = <<a>> \o q
  BY <1>1, PendingIs
<1>3. <<a>> \o q # <<>> /\ Head(<<a>> \o q) = a /\ Tail(<<a>> \o q) = q
  BY <1>2
<1>4. Pending' = q
  <2>1. CASE q = <<>>
    BY <1>1, <2>1 DEF PopRequest, Pending
  <2>2. CASE q # <<>>
    <3>1. Head(q) \in M /\ q = <<Head(q)>> \o Tail(q)
      BY <1>2, <2>2
    <3>2. active_request' = Head(q) /\ request_queue' = Tail(q)
      BY <1>1, <2>2 DEF PopRequest
    <3> QED
      BY <1>1, <3>1, <3>2 DEF Pending
  <2> QED
    BY <2>1, <2>2
<1> QED
  BY <1>1, <1>2, <1>3, <1>4 DEF Queue!Finish

(* The end of the session closes the queue.                                *)
LEMMA SendCloses ==
    ASSUME IInv, TerminateSend
    PROVE  Queue!Close
<1>1. call = "advance" /\ state = "TERMINATING" /\ destroyed'
  BY DEF TerminateSend, Advance
<1>2. ~destroyed /\ active_request = TerminateMessage /\ active_request # NoMessage
  BY <1>1, MessageTypes DEF IInv, Stages
<1>3. PICK M, a, q : M = SigMessage \ {NoMessage} /\ a = active_request /\ q = request_queue
  OBVIOUS
<1>4. a \in M /\ q \in Seq(M) /\ Pending = <<a>> \o q
  BY <1>2, <1>3, PendingIs
<1>5. <<a>> \o q # <<>> /\ Head(<<a>> \o q) = a
  BY <1>4
<1>6. Pending' = <<>> /\ destroyed' = TRUE
  BY <1>1 DEF Pending, TerminateSend
<1> QED
  BY <1>2, <1>3, <1>4, <1>5, <1>6 DEF Queue!Close

(* Every step of the session is a step of the queue or changes nothing in  *)
(* it.                                                                     *)
LEMMA SessionStep == IInv /\ [Next]_vars => [Queue!Next]_<<Pending, destroyed>>
<1> SUFFICES ASSUME IInv, [Next]_vars
             PROVE  Queue!Next \/ UNCHANGED <<Pending, destroyed>>
  OBVIOUS
<1>0. ASSUME UNCHANGED <<active_request, request_queue, destroyed>>
      PROVE  UNCHANGED <<Pending, destroyed>>
  BY <1>0 DEF Pending
<1>1. CASE Client
  <2>1. CASE ReceiveOffer
    <3>1. PICK o \in Offers : Receive(OfferMessage(o))
      BY <2>1 DEF ReceiveOffer
    <3>2. OfferMessage(o) \in SigMessage \ {NoMessage}
      BY MessageTypes
    <3> QED
      BY <3>1, <3>2, ReceiveAccepts DEF Queue!Next
  <2>2. CASE ReceiveControl
    <3>1. PICK c \in 0..Len(channels) : Receive(ControlMessage(c))
      BY <2>2 DEF ReceiveControl
    <3>2. c \in Nat
      BY DEF IInv, StateType
    <3>3. ControlMessage(c) \in SigMessage \ {NoMessage}
      BY <3>2, MessageTypes
    <3> QED
      BY <3>1, <3>3, ReceiveAccepts DEF Queue!Next
  <2>3. CASE ReceiveTerminate
    <3>1. TerminateMessage \in SigMessage \ {NoMessage}
      BY MessageTypes
    <3> QED
      BY <2>3, <3>1, ReceiveAccepts DEF Queue!Next, ReceiveTerminate
  <2> QED
    BY <1>1, <2>1, <2>2, <2>3 DEF Client
<1>2. CASE OfferAgain \/ ControlAnswered \/ AnswerSend
  <2>1. PopRequest /\ destroyed' = destroyed
    BY <1>2 DEF OfferAgain, ControlAnswered, AnswerSend, answer_send
  <2>2. active_request.type \in {"OFFER", "CONTROL"}
    <3>1. CASE AnswerSend
      <4>1. offer # NoOffer
        BY <3>1 DEF AnswerSend, Advance, IInv, Stages
      <4> QED
        BY <4>1, MessageTypes DEF IInv, Stages
    <3> QED
      BY <1>2, <3>1 DEF OfferAgain, ControlAnswered
  <2>3. ~destroyed /\ active_request # NoMessage /\ active_request # TerminateMessage
    BY <2>2, MessageTypes DEF IInv, Stages
  <2> QED
    BY <2>1, <2>3, PopFinishes DEF Queue!Next
<1>3. CASE EngineMessage
  <2>1. /\ PopRequest \/ UNCHANGED <<active_request, request_queue>>
        /\ ~destroyed /\ destroyed' = destroyed /\ control_pending # 0
    BY <1>3 DEF EngineMessage, ResponseIgnored, ResponseSwallowed, ResponseStarts,
                ResponseStops, ResponseOther, request_vars
  <2>2. active_request # NoMessage /\ active_request # TerminateMessage
    BY <2>1, MessageTypes DEF IInv, Stages
  <2> QED
    BY <1>0, <2>1, <2>2, PopFinishes DEF Queue!Next
<1>4. CASE OfferProcess \/ Deactivate \/ ControlDropped \/ ControlForwarded
  BY <1>0, <1>4 DEF OfferProcess, Deactivate, ControlDropped, ControlForwarded
<1>5. CASE Replies
  BY <1>0, <1>5
     DEF Replies, Reply, OnMpfResponse, OnChannelReply, OnEngineChannelReply, OnDeactivate
<1>6. CASE \/ EngineEvent \/ OwnAnswered \/ DispatchDeferred
           \/ EngineChannelsUpdate \/ TerminateProcess
  BY <1>0, <1>6 DEF EngineEvent, OwnAnswered, DispatchDeferred, EngineChannelsUpdate,
                    TerminateProcess, request_vars
<1>7. CASE TerminateSend
  BY <1>7, SendCloses DEF Queue!Next
<1>8. CASE UNCHANGED vars
  BY <1>0, <1>8 DEF vars, request_vars
<1> QED
  BY <1>1, <1>2, <1>3, <1>4, <1>5, <1>6, <1>7, <1>8 DEF Next, Dispatch, Engine, Continue

(* The session implements SignalingQueue: the signaling agent sees its     *)
(* messages finished one at a time, in the order of arrival, each once,    *)
(* until the termination closes the session.                               *)
THEOREM SessionServesInOrder == Spec => ServesInOrder
<1>1. Init => Queue!Init
  BY DEF Init, Queue!Init, Pending
<1> QED
  BY <1>1, SessionStep, IInvHolds, PTL DEF Spec, ServesInOrder, Queue!Spec


-----------------------------------------------------------------------------
(* MRCPv2 pairs engine channels and control media by position.  The code   *)
(* creates no channel for a resource that is unknown, after which the      *)
(* positions differ; for offers of known resources they agree.             *)

(* Every resource that is offered is one of the resource factory.          *)
KnownOffers == \A o \in Offers : \A i \in DOMAIN o.ctl : o.ctl[i].res \in Known

(* A step that changes only waiting flags and what is in progress.         *)
LEMMA FlagSet ==
    ASSUME NEW chs \in Seq(Channel), NEW c, NEW b, NEW chs2,
           \/ chs2 = [chs EXCEPT ![c].in_progress = b]
           \/ chs2 = [chs EXCEPT ![c].waiting_for_channel = b]
           \/ chs2 = [chs EXCEPT ![c].waiting_for_termination = b]
    PROVE  /\ DOMAIN chs2 = DOMAIN chs
           /\ \A k \in DOMAIN chs :
                 /\ chs2[k].id = chs[k].id /\ chs2[k].engine = chs[k].engine
                 /\ chs2[k].open = chs[k].open
<1>1. \A k \in DOMAIN chs : chs[k] \in Channel
  OBVIOUS
<1> QED
  BY <1>1 DEF Channel

(* Such a step does not disturb the pairing.                               *)
LEMMA PairedKept ==
    ASSUME Paired, UNCHANGED <<state, offer, last_offer>>,
           DOMAIN channels' = DOMAIN channels,
           \A k \in DOMAIN channels :
              /\ channels'[k].id = channels[k].id /\ channels'[k].engine = channels[k].engine
              /\ channels'[k].open = channels[k].open
    PROVE  Paired'
<1>1. /\ Agrees(offer) => Agrees(offer)'
      /\ Agrees(last_offer) => Agrees(last_offer)'
  BY DEF Agrees
<1> QED
  BY <1>1 DEF Paired

(* The new channels continue the numbering: position k of the channels is  *)
(* position k of the offer.                                                *)
LEMMA OfferPairs ==
    ASSUME IInv, Paired, Version = 2, KnownOffers, OfferProcess
    PROVE  Paired'
<1>1. PICK o : o = active_request.offer
  OBVIOUS
<1>2. PICK spare \in SUBSET Engines : channels' = OfferChannels(o, spare)
  BY <1>1 DEF OfferProcess
<1>3. state' = "GENERATING_ANSWER" /\ active_request.type = "OFFER" /\ call = "dispatch"
  BY DEF OfferProcess
<1>4. o \in Offers /\ o \in Offer
  <2>1. active_request # NoMessage
    BY <1>3, MessageTypes
  <2> QED
    BY <1>1, <1>3, <2>1, MessageTypes DEF IInv, Messages, IsMessage
<1>5. channels \in Seq(Channel) /\ spare \subseteq Engines
  BY DEF IInv, StateType
<1>6. PICK new, n : new = NewChannels(o, spare) /\ n = Len(channels)
  OBVIOUS
<1>7. /\ n \in Nat /\ DOMAIN channels = 1..n
      /\ \A k \in DOMAIN channels : channels'[k].id = channels[k].id
      /\ \A k \in DOMAIN new : channels'[n + k] = new[k]
      /\ \A k \in DOMAIN channels' : k \in DOMAIN channels \/ k - n \in DOMAIN new
      /\ DOMAIN channels' \subseteq Int
  BY <1>2, <1>4, <1>5, <1>6, OfferChannelsIs
<1>8. \A k \in DOMAIN new : new[k].id = n + k
  <2>1. PICK s, keep, l : /\ l = Len(o.ctl) /\ keep = Kept(o, spare)
                          /\ s = [i \in 1..l |-> NewChannel(o, i, spare)]
    OBVIOUS
  <2>2. o.ctl \in Seq(ControlMedia) /\ l \in Nat /\ DOMAIN o.ctl = 1..l
    BY <1>4, <2>1 DEF Offer
  <2>3. DOMAIN s = 1..l /\ s = [i \in 1..l |-> s[i]] /\ \A i \in 1..l : s[i].id = i
    BY <2>1 DEF NewChannel
  <2>4. keep = {i \in DOMAIN s : i > n}
    BY <1>4, <1>6, <2>1, <2>2, <2>3 DEF Kept, Created, KnownOffers
  <2>5. PICK S : S = {s[i] : i \in 1..l}
    OBVIOUS
  <2>6. s \in Seq(S)
    <3>1. \A i \in 1..l : s[i] \in S
      BY <2>5
    <3> QED
      BY <2>2, <2>3, <3>1, ListIs
  <2>7. new = KeepAt(s, keep)
    BY <1>6, <2>1 DEF NewChannels
  <2>8. \A k \in DOMAIN new : n + k \in keep /\ new[k] = s[n + k]
    BY <1>7, <2>4, <2>6, <2>7, KeepAtBehind
  <2> QED
    BY <2>3, <2>4, <2>8
<1>9. \A k \in DOMAIN channels' : channels'[k].id = k
  <2> SUFFICES ASSUME NEW k \in DOMAIN channels' PROVE channels'[k].id = k
    OBVIOUS
  <2>1. CASE k \in DOMAIN channels
    BY <1>7, <2>1 DEF Paired
  <2>2. CASE k - n \in DOMAIN new
    <3>1. n + (k - n) = k
      BY <1>7
    <3> QED
      BY <1>7, <1>8, <2>2, <3>1
  <2> QED
    BY <1>7, <2>1, <2>2
<1> QED
  BY <1>3, <1>9 DEF Paired

(* mrcp_server_engine_channels_update opens and closes as the offer says.  *)
LEMMA UpdatePairs ==
    ASSUME IInv, Paired, Version = 2, EngineChannelsUpdate
    PROVE  Paired'
<1>1. PICK changed : changed = {k \in DOMAIN channels : ToOpen(k) \/ ToClose(k)}
  OBVIOUS
<1>2. /\ call = "advance" /\ state = "GENERATING_ANSWER" /\ offer' = offer
      /\ channels' = [k \in DOMAIN channels |->
                         [channels[k] EXCEPT !.open = IF k \in changed THEN ~@ ELSE @]]
  BY <1>1 DEF EngineChannelsUpdate, Advance, offer_vars
<1>3. channels \in Seq(Channel) /\ offer \in Offer /\ offer # NoOffer
  BY <1>2 DEF IInv, StateType, Stages
<1>4. /\ DOMAIN offer.ctl = 1..Len(offer.ctl) /\ Len(offer.ctl) \in Nat
      /\ \A k \in DOMAIN offer.ctl : offer.ctl[k].port \in {0, 1}
  <2>1. offer.ctl \in Seq(ControlMedia)
    BY <1>3 DEF Offer
  <2>2. \A k \in DOMAIN offer.ctl : offer.ctl[k] \in ControlMedia
    BY <2>1
  <2>3. \A k \in DOMAIN offer.ctl : offer.ctl[k].port \in {0, 1}
    BY <2>2 DEF ControlMedia
  <2> QED
    BY <2>1, <2>3
<1>5. DOMAIN channels' = DOMAIN channels
  BY <1>2
<1>6. ASSUME NEW k \in DOMAIN channels
      PROVE  /\ channels'[k].id = channels[k].id
             /\ channels'[k].engine = channels[k].engine
             /\ channels'[k].open = IF k \in changed THEN ~channels[k].open
                                    ELSE channels[k].open
  <2>1. channels[k] \in Channel
    BY <1>3
  <2>2. channels'[k] = [channels[k] EXCEPT !.open =
                           IF k \in changed THEN ~channels[k].open ELSE channels[k].open]
    BY <1>2
  <2> QED
    BY <2>1, <2>2 DEF Channel
<1>7. ASSUME NEW k \in DOMAIN channels, channels[k].engine, k \in DOMAIN offer.ctl
      PROVE  channels'[k].open <=> offer.ctl[k].port = 1
  <2>0. channels[k] \in Channel
    BY <1>3
  <2>1. k <= Len(offer.ctl) /\ offer.ctl[k].port \in {0, 1} /\ channels[k].open \in BOOLEAN
    BY <1>4, <1>7, <2>0 DEF Channel
  <2>2. CASE offer.ctl[k].port = 1
    <3>1. k \in changed <=> ~channels[k].open
      BY <1>1, <1>7, <2>1, <2>2 DEF ToOpen, ToClose
    <3> QED
      BY <1>6, <2>1, <2>2, <3>1
  <2>3. CASE offer.ctl[k].port = 0
    <3>1. k \in changed <=> channels[k].open
      BY <1>1, <1>7, <2>1, <2>3 DEF ToOpen, ToClose
    <3>2. ~channels'[k].open
      BY <1>6, <2>1, <3>1
    <3> QED
      BY <2>3, <3>2
  <2> QED
    BY <2>1, <2>2, <2>3
<1>8. Agrees(offer)'
  BY <1>2, <1>5, <1>6, <1>7 DEF Agrees
<1> QED
  BY <1>2, <1>3, <1>5, <1>6, <1>8 DEF Paired

(* No step disturbs the pairing.                                           *)
LEMMA NextPaired ==
    ASSUME Version = 2, KnownOffers, IInv, Paired, [Next]_vars
    PROVE  Paired'
<1>1. channels \in Seq(Channel)
  BY DEF IInv, StateType
<1>2. ASSUME UNCHANGED <<state, offer, last_offer, channels>>
      PROVE  Paired'
  BY <1>2, PairedKept
<1>3. CASE \/ Client \/ ControlDropped \/ ControlAnswered \/ ControlForwarded
           \/ TerminateSend \/ DispatchDeferred
  <2>1. UNCHANGED <<state, offer, last_offer, channels>>
    BY <1>3 DEF Client, ReceiveOffer, ReceiveControl, ReceiveTerminate, Receive,
                ControlDropped, ControlAnswered, ControlForwarded, TerminateSend,
                DispatchDeferred,
                media_vars, offer_vars
  <2> QED
    BY <1>2, <2>1
<1>4. CASE OfferAgain
  <2>1. /\ offer' = NoOffer /\ last_offer' = last_offer /\ UNCHANGED <<state, channels>>
        /\ call = "dispatch"
    BY <1>4 DEF OfferAgain, RepeatedOffer, answer_send, media_vars
  <2>2. offer = NoOffer
    BY <2>1, AtRest
  <2> QED
    BY <1>2, <2>1, <2>2
<1>5. CASE OfferProcess
  BY <1>5, OfferPairs
<1>6. CASE EngineChannelsUpdate
  BY <1>6, UpdatePairs
<1>7. CASE AnswerSend
  <2>1. /\ state = "INITIALIZING" /\ call = "advance" /\ UNCHANGED <<state, channels>>
        /\ last_offer' = offer /\ offer' = NoOffer
    BY <1>7 DEF AnswerSend, Advance, answer_send, media_vars
  <2>2. offer # NoOffer
    BY <2>1 DEF IInv, Stages
  <2>3. Agrees(offer)
    BY <2>1, <2>2 DEF Paired
  <2>4. Agrees(last_offer)'
    BY <2>1, <2>3 DEF Agrees
  <2> QED
    BY <2>1, <2>4 DEF Paired
<1>8. CASE Deactivate
  <2>1. state' = "DEACTIVATING" /\ channels' = channels
    BY <1>8 DEF Deactivate, media_vars
  <2> QED
    BY <2>1 DEF Paired
<1>9. CASE TerminateProcess
  <2>1. /\ state' = "TERMINATING"
        /\ channels' = [k \in DOMAIN channels |->
               [channels[k] EXCEPT !.waiting_for_channel = Version = 2,
                                   !.waiting_for_termination = channels[k].engine,
                                   !.open = FALSE]]
    BY <1>9 DEF TerminateProcess
  <2>2. \A k \in DOMAIN channels : channels[k] \in Channel
    BY <1>1
  <2>3. \A k \in DOMAIN channels : channels'[k].id = channels[k].id
    BY <2>1, <2>2 DEF Channel
  <2> QED
    BY <2>1, <2>3 DEF Paired
<1>10. CASE Engine \/ OnChannelReply \/ OnDeactivate
  <2>1. UNCHANGED <<state, offer, last_offer>>
    BY <1>10 DEF Engine, EngineMessage, EngineEvent, OwnAnswered, OnChannelReply,
                 OnDeactivate, Reply, offer_vars
  <2>2. \/ channels' = channels
        \/ \E c, b : \/ channels' = [channels EXCEPT ![c].in_progress = b]
                     \/ channels' = [channels EXCEPT ![c].waiting_for_channel = b]
    <3>1. CASE EngineMessage
      BY <3>1, ResponsesAre
    <3>2. CASE OwnAnswered
      BY <3>2, OwnAnsweredIs
    <3> QED
      BY <1>10, <3>1, <3>2 DEF Engine, EngineEvent, OnChannelReply, OnDeactivate
  <2> SUFFICES ASSUME NEW c, NEW b,
                      \/ channels' = [channels EXCEPT ![c].in_progress = b]
                      \/ channels' = [channels EXCEPT ![c].waiting_for_channel = b]
               PROVE  Paired'
    BY <1>2, <2>1, <2>2
  <2>4. /\ DOMAIN channels' = DOMAIN channels
        /\ \A k \in DOMAIN channels :
              /\ channels'[k].id = channels[k].id
              /\ channels'[k].engine = channels[k].engine
              /\ channels'[k].open = channels[k].open
    <3>1. CASE channels' = [channels EXCEPT ![c].in_progress = b]
      BY <1>1, <3>1, FlagSet
    <3>2. CASE channels' = [channels EXCEPT ![c].waiting_for_channel = b]
      BY <1>1, <3>2, FlagSet
    <3> QED
      BY <3>1, <3>2
  <2> QED
    BY <2>1, <2>4, PairedKept
<1>11. CASE OnMpfResponse
  <2>1. UNCHANGED <<state, offer, last_offer>>
    BY <1>11 DEF OnMpfResponse, Reply
  <2>2. \/ channels' = channels
        \/ \E c, b : channels' = [channels EXCEPT ![c].waiting_for_termination = b]
    BY <1>11 DEF OnMpfResponse
  <2>3. CASE channels' = channels
    BY <1>2, <2>1, <2>3
  <2>4. CASE \E c, b : channels' = [channels EXCEPT ![c].waiting_for_termination = b]
    <3>1. PICK c, b : channels' = [channels EXCEPT ![c].waiting_for_termination = b]
      BY <2>4
    <3>2. /\ DOMAIN channels' = DOMAIN channels
          /\ \A k \in DOMAIN channels :
                /\ channels'[k].id = channels[k].id
                /\ channels'[k].engine = channels[k].engine
                /\ channels'[k].open = channels[k].open
      BY <1>1, <3>1, FlagSet
    <3> QED
      BY <2>1, <3>2, PairedKept
  <2> QED
    BY <2>2, <2>3, <2>4
<1>12. CASE OnEngineChannelReply
  <2>1. UNCHANGED <<state, offer, last_offer, channels>>
    BY <1>12 DEF OnEngineChannelReply, Reply
  <2> QED
    BY <1>2, <2>1
<1>13. CASE UNCHANGED vars
  <2>1. UNCHANGED <<state, offer, last_offer, channels>>
    BY <1>13 DEF vars, offer_vars, media_vars
  <2> QED
    BY <1>2, <2>1
<1> QED
  BY <1>3, <1>4, <1>5, <1>6, <1>7, <1>8, <1>9, <1>10, <1>11, <1>12, <1>13
     DEF Next, Dispatch, Replies, Engine, Continue

(* Between requests, the engine channel of every control media is open     *)
(* exactly if the last offer gave it a port, whatever offers of known      *)
(* resources came before, and whichever of their engines had a channel.    *)
THEOREM SessionOpenMatchesOffer ==
    ASSUME KnownOffers
    PROVE  Spec => []OpenMatchesOffer
<1>1. Version = 2 /\ Init => Paired
  BY DEF Init, Paired, Agrees
<1>2. Version = 2 /\ IInv /\ Paired /\ [Next]_vars => Paired'
  BY NextPaired
<1>3. IInv /\ (Version = 2 => Paired) => OpenMatchesOffer
  <2> SUFFICES ASSUME IInv, Version = 2, Paired, active_request = NoMessage,
                      NEW k \in DOMAIN channels, channels[k].engine,
                      channels[k].id \in DOMAIN last_offer.ctl
               PROVE  channels[k].open <=> last_offer.ctl[channels[k].id].port = 1
    BY DEF OpenMatchesOffer
  <2>1. state \in {"NONE", "INITIALIZING"} /\ offer = NoOffer
    BY AtRest, MessageTypes
  <2>2. Agrees(last_offer) /\ channels[k].id = k
    BY <2>1 DEF Paired
  <2> QED
    BY <2>2 DEF Agrees
<1> DEFINE P == Version = 2 => Paired
<1>4. Init => P
  BY <1>1
<1>5. IInv /\ P /\ [Next]_vars => P'
  BY <1>2
<1>6. IInv /\ P => OpenMatchesOffer
  BY <1>3
<1> QED
  BY <1>4, <1>5, <1>6, IInvHolds, PTL DEF Spec
=============================================================================
