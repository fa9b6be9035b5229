--------------------------- MODULE MCServerSession ---------------------------
(* Offers for model checking: one or two control media, at most one audio  *)
(* medium.  recog is a known resource for which no engine is registered.   *)
EXTENDS ServerSession

Media(res, port) == [res |-> res, port |-> port]
MCKnown == {"synth", "recog"}
MCEngines == {"synth"}
MCTwoEngines == {"synth", "recog"}

(* MRCPv2: a first offer, the same medium disabled, a second medium added. *)
MCOffersV2 ==
    {[ctl |-> <<Media("synth", 1)>>, audio |-> 1],
     [ctl |-> <<Media("synth", 0)>>, audio |-> 1],
     [ctl |-> <<Media("synth", 1), Media("recog", 1)>>, audio |-> 1]}

(* MRCPv1: SETUP of a resource, TEARDOWN (port 0) without media.           *)
MCOffersV1 ==
    {[ctl |-> <<Media(res, 1)>>, audio |-> 1] : res \in {"synth", "recog"}}
        \cup {[ctl |-> <<Media("unknown", 1)>>, audio |-> 1],
              [ctl |-> <<Media("synth", 0)>>, audio |-> 0]}
=============================================================================
