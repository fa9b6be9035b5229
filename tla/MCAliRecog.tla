----------------------------- MODULE MCAliRecog -----------------------------
(***************************************************************************)
(* AliRecog for TLC: the sessions are interchangeable.                     *)
(***************************************************************************)
EXTENDS AliRecog, TLC

SessionSymmetry == Permutations(Sessions)

=============================================================================
