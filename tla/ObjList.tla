------------------------------- MODULE ObjList -------------------------------
(***************************************************************************)
(* The object list (libs/apr-toolkit/src/apt_obj_list.c) as a sequence:    *)
(* push_back is Append, pop_front is Head and Tail.  What is left when a   *)
(* walk over the list unlinks elements is defined here, by the positions   *)
(* that are kept.                                                          *)
(***************************************************************************)
EXTENDS Integers, Sequences

(* f lists the positions in keep, each once and in ascending order.        *)
Enumerates(f, keep) ==
    /\ \A i \in keep : \E k \in DOMAIN f : f[k] = i
    /\ \A k, l \in DOMAIN f : k < l => f[k] < f[l]

Enumeration(keep, n) ==
    CHOOSE f \in UNION {[1..m -> keep] : m \in 0..n} : Enumerates(f, keep)

(* The list after apt_list_elem_remove of every element that is not kept.  *)
KeepAt(s, keep) ==
    LET f == Enumeration(keep, Len(s)) IN [k \in DOMAIN f |-> s[f[k]]]
=============================================================================
