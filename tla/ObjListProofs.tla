---------------------------- MODULE ObjListProofs ----------------------------
(***************************************************************************)
(* What unlinking elements from a list leaves, for lists of any length.    *)
(* The existence of the enumeration is shown by the least length for which *)
(* there is none.                                                          *)
(***************************************************************************)
EXTENDS ObjList, WellFoundedInduction, TLAPS

(* Every non-empty set of naturals has a least element.                    *)
LEMMA LeastNat ==
    ASSUME NEW T, T \subseteq Nat, T # {}
    PROVE  \E x \in T : \A y \in T : x <= y
<1> DEFINE R == OpToRel(<, Nat)
<1>1. IsWellFoundedOn(R, Nat)
  BY NatLessThanWellFounded
<1>2. \A x, y \in Nat : y < x => <<y, x>> \in R
  BY DEF OpToRel
<1> HIDE DEF R
<1>3. PICK x \in T : \A y \in T : ~(<<y, x>> \in R)
  BY <1>1, WFMin
<1>4. ASSUME NEW y \in T PROVE x <= y
  <2>1. x \in Nat /\ y \in Nat
    OBVIOUS
  <2>2. ~(<<y, x>> \in R)
    BY <1>3
  <2>3. ~(y < x)
    BY <1>2, <2>1, <2>2
  <2> QED
    BY <2>1, <2>3
<1> QED
  BY <1>4

(* The positions kept of a list of length n can be listed in order.        *)
LEMMA EnumerationExists ==
    ASSUME NEW n \in Nat, NEW keep, keep \subseteq 1..n
    PROVE  \E m \in 0..n : \E f \in [1..m -> keep] : Enumerates(f, keep)
<1> DEFINE Upto(j) == keep \cap 1..j
           Listed(j) == \E m \in 0..j : \E f \in [1..m -> Upto(j)] :
                            Enumerates(f, Upto(j))
           Bad == {j \in Nat : ~Listed(j)}
<1>1. Listed(0)
  <2> DEFINE f == [k \in 1..0 |-> 0]
  <2>1. Upto(0) = {} /\ 1..0 = {}
    OBVIOUS
  <2>2. f \in [1..0 -> Upto(0)]
    BY <2>1
  <2>3. Enumerates(f, Upto(0))
    BY <2>1 DEF Enumerates
  <2>4. 0 \in 0..0
    OBVIOUS
  <2> HIDE DEF f, Upto
  <2> QED
    BY <2>2, <2>3, <2>4
<1>2. ASSUME NEW j \in Nat, Listed(j) PROVE Listed(j + 1)
  <2>1. PICK m \in 0..j : \E f \in [1..m -> Upto(j)] : Enumerates(f, Upto(j))
    BY <1>2
  <2>2. PICK f \in [1..m -> Upto(j)] : Enumerates(f, Upto(j))
    BY <2>1
  <2>3. CASE (j + 1) \notin keep
    <3>1. Upto(j + 1) = Upto(j)
      BY <2>3
    <3>2. m \in 0..(j + 1) /\ f \in [1..m -> Upto(j + 1)]
      BY <3>1
    <3>3. Enumerates(f, Upto(j + 1))
      BY <2>2, <3>1
    <3> HIDE DEF Upto
    <3> QED
      BY <3>2, <3>3
  <2>4. CASE (j + 1) \in keep
    <3> DEFINE g == [k \in 1..(m + 1) |-> IF k = m + 1 THEN j + 1 ELSE f[k]]
    <3>1. Upto(j + 1) = Upto(j) \cup {j + 1}
      BY <2>4
    <3>2. g \in [1..(m + 1) -> Upto(j + 1)]
      BY <3>1
    <3>3. ASSUME NEW i \in Upto(j + 1) PROVE \E k \in DOMAIN g : g[k] = i
      <4>1. CASE i = j + 1
        <5>1. (m + 1) \in DOMAIN g /\ g[m + 1] = i
          BY <4>1
        <5> QED
          BY <5>1
      <4>2. CASE i # j + 1
        <5>1. i \in Upto(j)
          BY <3>1, <4>2
        <5>2. PICK k \in DOMAIN f : f[k] = i
          BY <2>2, <5>1 DEF Enumerates
        <5>3. k \in 1..(m + 1) /\ k # m + 1 /\ g[k] = f[k]
          OBVIOUS
        <5> QED
          BY <5>2, <5>3
      <4> QED
        BY <4>1, <4>2
    <3>4. ASSUME NEW k \in DOMAIN g, NEW l \in DOMAIN g, k < l PROVE g[k] < g[l]
      <4>1. k \in 1..m /\ l \in 1..(m + 1) /\ g[k] = f[k] /\ f[k] \in 1..j
        BY <3>4
      <4>2. CASE l = m + 1
        BY <4>1, <4>2
      <4>3. CASE l # m + 1
        <5>1. l \in 1..m /\ g[l] = f[l]
          BY <4>1, <4>3
        <5>2. f[k] < f[l]
          BY <2>2, <3>4, <4>1, <5>1 DEF Enumerates
        <5> QED
          BY <4>1, <5>1, <5>2
      <4> QED
        BY <4>2, <4>3
    <3>5. Enumerates(g, Upto(j + 1))
      BY <3>3, <3>4 DEF Enumerates
    <3>6. (m + 1) \in 0..(j + 1)
      OBVIOUS
    <3> HIDE DEF g
    <3> QED
      BY <3>2, <3>5, <3>6
  <2> QED
    BY <2>3, <2>4
<1> HIDE DEF Listed
<1>3. Bad = {}
  <2> SUFFICES ASSUME Bad # {} PROVE FALSE
    OBVIOUS
  <2>1. PICK x \in Bad : \A y \in Bad : x <= y
    BY LeastNat
  <2>2. x \in Nat /\ x # 0
    BY <1>1
  <2>3. (x - 1) \in Nat /\ (x - 1) \notin Bad
    BY <2>1, <2>2
  <2>4. Listed((x - 1) + 1)
    BY <1>2, <2>3
  <2>5. (x - 1) + 1 = x
    BY <2>2
  <2> QED
    BY <2>4, <2>5
<1>4. Listed(n)
  BY <1>3
<1>5. Upto(n) = keep
  OBVIOUS
<1> QED
  BY <1>4, <1>5 DEF Listed

(* The enumeration of the positions kept of a list of length n.            *)
LEMMA EnumerationIs ==
    ASSUME NEW n \in Nat, NEW keep, keep \subseteq 1..n
    PROVE  /\ \E m \in 0..n : Enumeration(keep, n) \in [1..m -> keep]
           /\ Enumerates(Enumeration(keep, n), keep)
<1> DEFINE Candidates == UNION {[1..m -> keep] : m \in 0..n}
           e == Enumeration(keep, n)
<1>1. \E f \in Candidates : Enumerates(f, keep)
  BY EnumerationExists
<1>2. e \in Candidates /\ Enumerates(e, keep)
  BY <1>1 DEF Enumeration
<1> QED
  BY <1>2

(* Unlinking elements from a list of S leaves a list of S.                 *)
THEOREM KeepAtType ==
    ASSUME NEW S, NEW s \in Seq(S), NEW keep, keep \subseteq DOMAIN s
    PROVE  KeepAt(s, keep) \in Seq(S)
<1> DEFINE f == Enumeration(keep, Len(s))
<1>1. Len(s) \in Nat /\ DOMAIN s = 1..Len(s)
  OBVIOUS
<1>2. PICK m \in 0..Len(s) : f \in [1..m -> keep]
  BY <1>1, EnumerationIs
<1> HIDE DEF f
<1>3. \A k \in 1..m : s[f[k]] \in S
  BY <1>1, <1>2
<1>4. m \in Nat /\ DOMAIN f = 1..m
  BY <1>1, <1>2
<1>5. [k \in DOMAIN f |-> s[f[k]]] \in Seq(S)
  BY <1>3, <1>4
<1> QED
  BY <1>5 DEF KeepAt, f

(* It leaves exactly the elements that are kept.                           *)
THEOREM KeepAtElements ==
    ASSUME NEW S, NEW s \in Seq(S), NEW keep, keep \subseteq DOMAIN s
    PROVE  LET q == KeepAt(s, keep) IN
           {q[k] : k \in DOMAIN q} = {s[i] : i \in keep}
<1> DEFINE f == Enumeration(keep, Len(s))
           q == KeepAt(s, keep)
<1>1. Len(s) \in Nat /\ DOMAIN s = 1..Len(s)
  OBVIOUS
<1>2. (\E m \in 0..Len(s) : f \in [1..m -> keep]) /\ Enumerates(f, keep)
  BY <1>1, EnumerationIs
<1> HIDE DEF f
<1>3. q = [k \in DOMAIN f |-> s[f[k]]]
  BY DEF KeepAt, f
<1> HIDE DEF q
<1>4. ASSUME NEW k \in DOMAIN q PROVE q[k] \in {s[i] : i \in keep}
  BY <1>2, <1>3
<1>5. ASSUME NEW i \in keep PROVE \E k \in DOMAIN q : q[k] = s[i]
  BY <1>2, <1>3 DEF Enumerates
<1>6. {q[k] : k \in DOMAIN q} = {s[i] : i \in keep}
  BY <1>4, <1>5
<1> QED
  BY <1>6 DEF q

(* It leaves them in the order they had.                                   *)
THEOREM KeepAtOrder ==
    ASSUME NEW S, NEW s \in Seq(S), NEW keep, keep \subseteq DOMAIN s
    PROVE  LET q == KeepAt(s, keep) IN
           \A k, l \in DOMAIN q : k < l =>
              \E i, j \in keep : i < j /\ q[k] = s[i] /\ q[l] = s[j]
<1> DEFINE f == Enumeration(keep, Len(s))
           q == KeepAt(s, keep)
<1>1. Len(s) \in Nat /\ DOMAIN s = 1..Len(s)
  OBVIOUS
<1>2. (\E m \in 0..Len(s) : f \in [1..m -> keep]) /\ Enumerates(f, keep)
  BY <1>1, EnumerationIs
<1> HIDE DEF f
<1>3. q = [k \in DOMAIN f |-> s[f[k]]]
  BY DEF KeepAt, f
<1> HIDE DEF q
<1>4. ASSUME NEW k \in DOMAIN q, NEW l \in DOMAIN q, k < l
      PROVE  \E i, j \in keep : i < j /\ q[k] = s[i] /\ q[l] = s[j]
  <2>1. k \in DOMAIN f /\ l \in DOMAIN f /\ f[k] \in keep /\ f[l] \in keep
    BY <1>2, <1>3
  <2>2. f[k] < f[l]
    BY <1>2, <1>4, <2>1 DEF Enumerates
  <2> QED
    BY <1>3, <2>1, <2>2
<1> QED
  BY <1>4 DEF q
=============================================================================
