---------------------------- MODULE FoldInduction ----------------------------
(***************************************************************************)
(* Induction over a fold from the left.  The hub, the streams and the jobs *)
(* go through sequences with FoldLeft, which is defined by a recursive     *)
(* function; what such a fold computes is proved here once, for every      *)
(* operator and every predicate, and used through instances that give Op   *)
(* and P.                                                                  *)
(*                                                                         *)
(* c stands for whatever stays the same during the fold: the parameters of *)
(* the operator, the sequence, the first value.                            *)
(***************************************************************************)
EXTENDS Integers, FiniteSetsExt, WellFoundedInduction, TLAPS

CONSTANTS Op(_, _, _),   \* the next value, from the present one and an element
          P(_, _, _)     \* what is known of the value after k elements

(* A set of natural numbers that is not empty has a least element: the     *)
(* form in which induction on numbers is used below.                       *)
LEMMA LeastNumber ==
    ASSUME NEW T \in SUBSET Nat, T # {}
    PROVE  \E x \in T : \A y \in T : x <= y
<1>1. IsWellFoundedOn(OpToRel(<, Nat), Nat)
  BY NatLessThanWellFounded
<1>2. PICK x \in T : \A y \in T : ~(<<y, x>> \in OpToRel(<, Nat))
  BY <1>1, WFMin
<1>3. \A y \in T : ~(y < x)
  BY <1>2 DEF OpToRel
<1> QED BY <1>3

(* Min of FiniteSetsExt is that element.                                   *)
LEMMA MinIsLeast ==
    ASSUME NEW T \in SUBSET Nat, T # {}
    PROVE  Min(T) \in T /\ \A y \in T : Min(T) <= y
  BY LeastNumber DEF Min

(* A set with 0 and the successor of each of its numbers is Nat.           *)
LEMMA Climb ==
    ASSUME NEW T \in SUBSET Nat, 0 \in T, \A k \in T : k + 1 \in T
    PROVE  T = Nat
<1>1. SUFFICES ASSUME Nat \ T # {} PROVE FALSE
  OBVIOUS
<1>2. PICK x \in Nat \ T : \A y \in Nat \ T : x <= y
  BY <1>1, LeastNumber
<1>3. x # 0 /\ x - 1 \in Nat /\ ~(x <= x - 1) /\ (x - 1) + 1 = x
  BY <1>2
<1> QED BY <1>2, <1>3

LEMMA MaxIsLast ==
    ASSUME NEW k \in Nat, NEW s, s \subseteq 1..k, k \in s
    PROVE  Max(s) = k
<1>1. k \in s /\ \A y \in s : k >= y
  OBVIOUS
<1>2. \A x \in s : (\A y \in s : x >= y) => x = k
  OBVIOUS
<1> QED BY <1>1, <1>2 DEF Max

(* The recursive function that a fold is made of, on the sets of indices   *)
(* within S.                                                               *)
Iterates(c, base, seq, S, h) ==
    h = [s \in SUBSET S |->
            IF s = {} THEN base ELSE Op(c, h[s \ {Max(s)}], seq[Max(s)])]

(* FoldLeft of SequencesExt, spelled out.                                  *)
Fold(c, base, seq) == (CHOOSE h : Iterates(c, base, seq, DOMAIN seq, h))[DOMAIN seq]

(* There is such a function: the one for k + 1 indices comes from the one  *)
(* for k.                                                                  *)
LEMMA Iterated ==
    ASSUME NEW c, NEW base, NEW seq, NEW n \in Nat
    PROVE  \E h : Iterates(c, base, seq, 1..n, h)
<1>. DEFINE T == {k \in Nat : \E h : Iterates(c, base, seq, 1..k, h)}
<1>1. 0 \in T
  <2>. DEFINE h == [s \in SUBSET (1..0) |-> base]
  <2>1. 1..0 = {}
    OBVIOUS
  <2>2. Iterates(c, base, seq, 1..0, h)
    BY <2>1 DEF Iterates
  <2> QED BY <2>2
<1>2. ASSUME NEW k \in T PROVE k + 1 \in T
  <2>1. PICK h : Iterates(c, base, seq, 1..k, h)
    OBVIOUS
  <2>. DEFINE S == SUBSET (1..(k + 1))
              m == [s \in S |-> IF k + 1 \in s THEN Op(c, h[s \ {k + 1}], seq[k + 1]) ELSE h[s]]
  <2>2. ASSUME NEW s \in S
        PROVE  m[s] = IF s = {} THEN base ELSE Op(c, m[s \ {Max(s)}], seq[Max(s)])
    <3>1. CASE k + 1 \in s
      <4>1. Max(s) = k + 1
        <5>1. k + 1 \in Nat /\ s \subseteq 1..(k + 1)
          OBVIOUS
        <5> QED BY <3>1, <5>1, MaxIsLast
      <4>2. s \ {k + 1} \in S /\ k + 1 \notin s \ {k + 1}
        OBVIOUS
      <4>3. m[s \ {k + 1}] = h[s \ {k + 1}]
        BY <4>2
      <4>4. m[s] = Op(c, h[s \ {k + 1}], seq[k + 1])
        BY <3>1
      <4> QED BY <3>1, <4>1, <4>3, <4>4
    <3>2. CASE k + 1 \notin s
      <4>1. s \in SUBSET (1..k)
        BY <3>2
      <4>2. m[s] = h[s] /\ h[s] = IF s = {} THEN base ELSE Op(c, h[s \ {Max(s)}], seq[Max(s)])
        BY <2>1, <3>2, <4>1 DEF Iterates
      <4>3. s \ {Max(s)} \in S /\ k + 1 \notin s \ {Max(s)}
        BY <3>2
      <4>4. m[s \ {Max(s)}] = h[s \ {Max(s)}]
        BY <4>3
      <4> QED BY <4>2, <4>4
    <3> QED BY <3>1, <3>2
  <2>3. Iterates(c, base, seq, 1..(k + 1), m)
    <3>1. m = [s \in S |-> m[s]]
      OBVIOUS
    <3>. HIDE DEF m
    <3>2. [s \in S |-> m[s]]
            = [s \in S |-> IF s = {} THEN base ELSE Op(c, m[s \ {Max(s)}], seq[Max(s)])]
      BY <2>2
    <3> QED BY <3>1, <3>2 DEF Iterates
  <2> QED BY <2>3
<1>3. T = Nat
  BY <1>1, <1>2, Climb
<1> QED BY <1>3

(* What holds of the first value and is carried over by each element holds *)
(* of the result.                                                          *)
THEOREM FoldLeftInduction ==
    ASSUME NEW c, NEW base, NEW seq, NEW n \in Nat, DOMAIN seq = 1..n,
           P(c, 0, base),
           \A k \in 1..n : \A a : P(c, k - 1, a) => P(c, k, Op(c, a, seq[k]))
    PROVE  P(c, n, Fold(c, base, seq))
<1>. DEFINE iter == CHOOSE h : Iterates(c, base, seq, 1..n, h)
<1>1. Iterates(c, base, seq, 1..n, iter)
  BY Iterated
<1>2. Fold(c, base, seq) = iter[1..n]
  BY DEF Fold
<1>. HIDE DEF iter
<1>. DEFINE T == {k \in Nat : k \in 0..n => P(c, k, iter[1..k])}
<1>3. 0 \in T
  <2>1. 1..0 = {} /\ 1..0 \in SUBSET (1..n)
    OBVIOUS
  <2>2. iter[1..0] = base
    BY <1>1, <2>1 DEF Iterates
  <2> QED BY <2>2
<1>4. ASSUME NEW k \in T PROVE k + 1 \in T
  <2>1. SUFFICES ASSUME k + 1 \in 0..n PROVE P(c, k + 1, iter[1..(k + 1)])
    OBVIOUS
  <2>2. Max(1..(k + 1)) = k + 1 /\ 1..(k + 1) \in SUBSET (1..n) /\ 1..(k + 1) # {}
    BY SMTT(30), <2>1, MaxIsLast
  <2>3. (1..(k + 1)) \ {k + 1} = 1..k
    OBVIOUS
  <2>4. iter[1..(k + 1)] = Op(c, iter[1..k], seq[k + 1])
    BY <1>1, <2>2, <2>3 DEF Iterates
  <2>5. P(c, k, iter[1..k])
    BY <2>1
  <2>6. k + 1 \in 1..n /\ (k + 1) - 1 = k
    BY <2>1
  <2> QED BY <2>4, <2>5, <2>6
<1>5. T = Nat
  <2>. HIDE DEF T
  <2>1. T \in SUBSET Nat
    BY DEF T
  <2> QED BY <1>3, <1>4, <2>1, Climb
<1>6. P(c, n, iter[1..n])
  BY <1>5
<1> QED BY <1>2, <1>6
=============================================================================
