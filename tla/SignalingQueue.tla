--------------------------- MODULE SignalingQueue ---------------------------
(***************************************************************************)
(* What a server session promises to its signaling agent: the messages it  *)
(* accepts (offers, control messages, the termination) are finished one by *)
(* one, in the order of arrival, each exactly once; the termination closes *)
(* the session and whatever was accepted after it is dropped.              *)
(***************************************************************************)
EXTENDS Naturals, Sequences

CONSTANTS Message, Terminate

VARIABLES pending, closed

Init == pending = <<>> /\ closed = FALSE

(* A message is accepted at the end of the queue.                          *)
Accept ==
    /\ ~closed /\ pending' \in Seq(Message)
    /\ Len(pending') = Len(pending) + 1
    /\ SubSeq(pending', 1, Len(pending)) = pending
    /\ UNCHANGED closed

(* The oldest message is finished.                                         *)
Finish ==
    /\ ~closed /\ pending # <<>> /\ Head(pending) # Terminate
    /\ pending' = Tail(pending) /\ UNCHANGED closed

Close ==
    /\ ~closed /\ pending # <<>> /\ Head(pending) = Terminate
    /\ pending' = <<>> /\ closed' = TRUE

Next == Accept \/ Finish \/ Close

Spec == Init /\ [][Next]_<<pending, closed>>
=============================================================================
