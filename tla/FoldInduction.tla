---------------------------- MODULE FoldInduction ----------------------------
(***************************************************************************)
(* What FoldLeft computes, place by place, for any operator: the module is *)
(* instantiated with the operator a fold is taken with.                    *)
(***************************************************************************)
EXTENDS Integers, Sequences, SequencesExt, WellFoundedInduction, TLAPS

CONSTANT op(_, _)

Fold(base, seq) == FoldLeft(op, base, seq)

\* Induction over the places, for a set in the place of a predicate.
LEMMA LessIsWellFounded ==
    \A T : T \subseteq Nat /\ T # {} => \E x \in T : \A y \in T : ~(y < x)
<1> SUFFICES ASSUME NEW T, T \subseteq Nat, T # {}
             PROVE  \E x \in T : \A y \in T : ~(y < x)
  OBVIOUS
<1>1. PICK x \in T : \A y \in T : ~(<<y, x>> \in OpToRel(<, Nat))
  BY NatLessThanWellFounded, WFMin
<1>2. ASSUME NEW y \in T, y < x PROVE <<y, x>> \in OpToRel(<, Nat)
  BY <1>2 DEF OpToRel
<1> QED
  BY <1>1, <1>2, Zenon

\* What holds before the first pass of a loop and is kept by every pass holds after each.
LEMMA PlacesInduction ==
    \A n \in Nat : \A S : 0 \in S /\ (\A k \in 1..n : k - 1 \in S => k \in S) => 0..n \subseteq S
<1> SUFFICES ASSUME NEW n \in Nat, NEW S, 0 \in S, \A k \in 1..n : k - 1 \in S => k \in S,
                    NEW j \in 0..n, j \notin S
             PROVE  FALSE
  OBVIOUS
<1> DEFINE Missing == {k \in 0..n : k \notin S}
<1>1. Missing \subseteq Nat /\ Missing # {}
  OBVIOUS
<1>2. PICK k \in Missing : \A i \in Missing : ~(i < k)
  <2> HIDE DEF Missing
  <2> QED
    BY <1>1, LessIsWellFounded
<1>3. k \in 1..n /\ k - 1 \in 0..n
  OBVIOUS
<1>4. k - 1 \notin Missing
  BY <1>2, <1>3
<1> QED
  BY <1>3, <1>4

\* The recursion over sets of places that FoldLeft is defined by, on the places up to m.
Iterates(g, base, seq, m) ==
    g = [s \in SUBSET (1..m) |-> IF s = {} THEN base ELSE op(g[s \ {Max(s)}], seq[Max(s)])]

\* The folded function on one more place applies op once more, to the last place.
LEMMA IterationExtends ==
    ASSUME NEW base, NEW seq, NEW m \in Nat, NEW g, Iterates(g, base, seq, m)
    PROVE  \E h : Iterates(h, base, seq, m + 1)
<1> DEFINE h == [s \in SUBSET (1..(m + 1)) |->
                   IF m + 1 \in s THEN op(g[s \ {m + 1}], seq[m + 1]) ELSE g[s]]
<1>1. ASSUME NEW s \in SUBSET (1..(m + 1)), m + 1 \in s
      PROVE  Max(s) = m + 1 /\ s \ {m + 1} \in SUBSET (1..m)
  <2>1. \A i \in s : m + 1 >= i
    OBVIOUS
  <2>2. \A x \in s : (\A y \in s : x >= y) => x = m + 1
    BY <1>1, <2>1
  <2> QED
    <3>1. m + 1 \in s
      BY <1>1
    <3>2. Max(s) = m + 1
      BY <2>1, <2>2, <3>1 DEF Max
    <3> QED
      BY <3>2
<1>2. ASSUME NEW s \in SUBSET (1..(m + 1)), m + 1 \notin s PROVE s \in SUBSET (1..m)
  BY <1>2
<1>3. ASSUME NEW s \in SUBSET (1..m), s # {} PROVE s \ {Max(s)} \in SUBSET (1..m)
  OBVIOUS
<1>4. ASSUME NEW s \in SUBSET (1..(m + 1))
      PROVE  h[s] = IF s = {} THEN base ELSE op(h[s \ {Max(s)}], seq[Max(s)])
  <2>1. CASE m + 1 \in s
    BY <1>1, <2>1
  <2>2. CASE m + 1 \notin s
    <3>1. h[s] = g[s] /\ s \in SUBSET (1..m)
      BY <1>2, <2>2
    <3>2. s # {} => h[s \ {Max(s)}] = g[s \ {Max(s)}]
      BY <2>2
    <3> QED
      BY <3>1, <3>2 DEF Iterates
  <2> QED
    BY <2>1, <2>2
<1>5. Iterates(h, base, seq, m + 1)
  <2> DEFINE r == [s \in SUBSET (1..(m + 1)) |->
                     IF s = {} THEN base ELSE op(h[s \ {Max(s)}], seq[Max(s)])]
  <2>1. h = r
    BY <1>4
  <2> HIDE DEF h
  <2> QED
    BY <2>1 DEF Iterates
<1> QED
  BY <1>5

\* A fold over m places exists as the sequence of what a loop holds after each pass.
LEMMA IterationExists ==
    ASSUME NEW base, NEW seq, NEW n \in Nat
    PROVE  \E g : Iterates(g, base, seq, n)
<1> DEFINE S == {m \in 0..n : \E g : Iterates(g, base, seq, m)}
<1>1. 0 \in S
  <2> DEFINE g == [s \in SUBSET (1..0) |-> base]
  <2>1. \A s \in SUBSET (1..0) : s = {}
    OBVIOUS
  <2>2. Iterates(g, base, seq, 0)
    BY <2>1 DEF Iterates
  <2> QED
    BY <2>2
<1>2. ASSUME NEW k \in 1..n, k - 1 \in S PROVE k \in S
  <2>1. k - 1 \in Nat /\ (k - 1) + 1 = k
    OBVIOUS
  <2>2. PICK g : Iterates(g, base, seq, k - 1)
    BY <1>2
  <2>3. \E h : Iterates(h, base, seq, (k - 1) + 1)
    BY <2>1, <2>2, IterationExtends
  <2> QED
    BY <2>1, <2>3
<1>3. 0..n \subseteq S
  <2> HIDE DEF S
  <2> QED
    BY <1>1, <1>2, PlacesInduction
<1> QED
  BY <1>3

\* g[k] is what has been accumulated of the first k items.
Stepwise(g, base, seq, n) == g[0] = base /\ \A k \in 1..n : g[k] = op(g[k - 1], seq[k])

\* A fold starts with base and takes the items in order.
THEOREM FoldSteps ==
    \A base, seq, n :
        n \in Nat /\ DOMAIN seq = 1..n =>
            \E g : Stepwise(g, base, seq, n) /\ Fold(base, seq) = g[n]
<1> TAKE base, seq, n
<1> HAVE n \in Nat /\ DOMAIN seq = 1..n
<1> DEFINE iter == CHOOSE f : Iterates(f, base, seq, n)
           g == [k \in 0..n |-> iter[1..k]]
<1>1. Iterates(iter, base, seq, n)
  BY IterationExists
<1>2. Fold(base, seq) = iter[1..n]
  BY DEF Fold, FoldLeft, MapThenFoldSet, Iterates
<1> HIDE DEF iter
<1>3. g[0] = base
  <2>1. 1..0 = {}
    OBVIOUS
  <2> QED
    BY <1>1, <2>1 DEF Iterates
<1>4. ASSUME NEW k \in 1..n PROVE g[k] = op(g[k - 1], seq[k])
  <2>1. 1..k # {} /\ 1..k \in SUBSET (1..n)
    <3>1. k \in 1..k
      OBVIOUS
    <3>2. \A j \in 1..k : j \in 1..n
      OBVIOUS
    <3> QED
      BY <3>1, <3>2
  <2>2. Max(1..k) = k
    <3>1. k \in 1..k /\ \A y \in 1..k : k >= y
      OBVIOUS
    <3>2. \A x \in 1..k : (\A y \in 1..k : x >= y) => x = k
      OBVIOUS
    <3> QED
      BY <3>1, <3>2 DEF Max
  <2>3. (1..k) \ {k} = 1..(k - 1)
    OBVIOUS
  <2>4. iter[1..k] = op(iter[(1..k) \ {k}], seq[k])
    BY <1>1, <2>1, <2>2 DEF Iterates
  <2>5. g[k] = iter[1..k] /\ g[k - 1] = iter[1..(k - 1)]
    OBVIOUS
  <2> QED
    BY <2>3, <2>4, <2>5
<1>5. Fold(base, seq) = g[n]
  BY <1>2
<1> HIDE DEF g
<1>6. Stepwise(g, base, seq, n)
  BY <1>3, <1>4 DEF Stepwise
<1> QED
  BY <1>5, <1>6
=============================================================================
