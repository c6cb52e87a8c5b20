----------------------------- MODULE LeechProofs -----------------------------
(***************************************************************************)
(* leechVM, the file: what was written of a value is read back as that     *)
(* value, whatever is written behind it, and a stream that ends before it  *)
(* does is noticed; what the front end builds of a text; that a dump is    *)
(* read back as the file that was written.                                 *)
(***************************************************************************)
EXTENDS LeechVM, FiniteSetTheorems, SequenceTheorems, TLAPS

IsSeq(s) == \E S : s \in Seq(S)

-----------------------------------------------------------------------------
(* Readers and what they promise.                                          *)

IsReader(r) ==
    /\ r = [s |-> r.s, at |-> r.at, failed |-> r.failed, v |-> r.v]
    /\ r.failed = FALSE /\ Len(r.s) \in Nat /\ r.at \in 1..(Len(r.s) + 1)
HasFailed(r) == r = [s |-> r.s, at |-> r.at, failed |-> TRUE, v |-> r.v]

\* From the place of r the stream is w, as far as it goes.
Ahead(r, w) == \A i \in 1..Len(w) : r.at + i - 1 <= Len(r.s) => r.s[r.at + i - 1] = w[i]
\* q has read w and found x in it, or the stream ends before w does.
Through(r, w, x, q) ==
    IF r.at + Len(w) <= Len(r.s) + 1
    THEN q = [s |-> r.s, at |-> r.at + Len(w), failed |-> FALSE, v |-> x]
    ELSE HasFailed(q)
\* q comes from r by a reader of what was written as w of x.
RestoredBy(r, w, x, q) ==
    /\ IsReader(r) /\ Ahead(r, w) => Through(r, w, x, q)
    /\ HasFailed(r) => HasFailed(q)

-----------------------------------------------------------------------------
(* The five kinds of items that are written and read one behind the other. *)

Kinds == {"primitive", "object", "string", "function", "instruction"}
IsObject(x) ==
    \/ IsPrimitive(x)
    \/ x = Tuple(x.v) /\ IsSeq(x.v) /\ \A k \in DOMAIN x.v : IsPrimitive(x.v[k])
IsMeta(m) ==
    /\ m = [addr |-> m.addr, argNum |-> m.argNum, cstPool |-> m.cstPool, names |-> m.names]
    /\ IsSeq(m.cstPool) /\ (\A k \in DOMAIN m.cstPool : IsObject(m.cstPool[k])) /\ IsSeq(m.names)
IsInstruction(x) == x = [op |-> x.op, arg |-> x.arg]

Item(kind, x) ==
    CASE kind = "primitive" -> IsPrimitive(x)
      [] kind = "object" -> IsObject(x)
      [] kind = "string" -> TRUE
      [] kind = "function" -> x = [name |-> x.name, meta |-> x.meta] /\ IsMeta(x.meta)
      [] kind = "instruction" -> IsInstruction(x)
Ser(kind, x) ==
    CASE kind = "primitive" -> SerializePrimitive(x)
      [] kind = "object" -> SerializeObj(x)
      [] kind = "string" -> SerializeString(x)
      [] kind = "function" -> SerializeString(x.name) \o SerializeFunc(x.meta)
      [] kind = "instruction" -> SerializeInstruction(x)
One(kind, r) ==
    CASE kind = "primitive" -> DeserializePrimitive(r)
      [] kind = "object" -> DeserializeObj(r)
      [] kind = "string" -> DeserializeString(r)
      [] kind = "function" -> DeserializeFunc(r)
      [] kind = "instruction" -> DeserializeInstruction(r)
SerMany(kind, items) == <<Len(items)>> \o Flat([n \in DOMAIN items |-> Ser(kind, items[n])])
Many(kind, r) ==
    CASE kind = "primitive" -> ReadMany(DeserializePrimitive, r)
      [] kind = "object" -> ReadMany(DeserializeObj, r)
      [] kind = "string" -> ReadMany(DeserializeString, r)
      [] kind = "function" -> ReadMany(DeserializeFunc, r)
      [] kind = "instruction" -> ReadMany(DeserializeInstruction, r)

\* What the reader of a kind promises: it reads back what was written of an item.
OneRestores(kind) ==
    /\ \A x : Item(kind, x) => IsSeq(Ser(kind, x))
    /\ \A r, x : Item(kind, x) => RestoredBy(r, Ser(kind, x), x, One(kind, r))

\* The folds of the file, step by step.
NextBy(acc, o) == IF acc.r.failed THEN acc ELSE [r |-> o, out |-> Append(acc.out, o.v)]
NextItem(kind, acc) == NextBy(acc, One(kind, acc.r))
NextPrimitive(acc, k) == NextBy(acc, DeserializePrimitive(acc.r))
NextObject(acc, k) == NextBy(acc, DeserializeObj(acc.r))
NextString(acc, k) == NextBy(acc, DeserializeString(acc.r))
NextFunction(acc, k) == NextBy(acc, DeserializeFunc(acc.r))
NextInstruction(acc, k) == NextBy(acc, DeserializeInstruction(acc.r))
Concat(acc, s) == acc \o s
ReadOn(acc, k) == Read(acc)

Primitives == INSTANCE FoldInduction WITH op <- NextPrimitive
Objects == INSTANCE FoldInduction WITH op <- NextObject
Strings == INSTANCE FoldInduction WITH op <- NextString
Funcs == INSTANCE FoldInduction WITH op <- NextFunction
Instructions == INSTANCE FoldInduction WITH op <- NextInstruction
Flattening == INSTANCE FoldInduction WITH op <- Concat
Skipping == INSTANCE FoldInduction WITH op <- ReadOn
PutFunc(acc, f) == With(acc, f.name, CopyMeta(f.meta))
Putting == INSTANCE FoldInduction WITH op <- PutFunc

\* h[k] is what Flat has of the first k sequences.
Pieces(h, seqs, m) == h[0] = <<>> /\ \A k \in 1..m : h[k] = h[k - 1] \o seqs[k]

\* How many items are read behind r, and what has been read of them: g[k] behind k.
Count(r) == IF Read(r).failed THEN 0 ELSE Read(r).v
Counted(kind, r, g) ==
    /\ g[0] = [r |-> Read(r), out |-> <<>>] /\ \A k \in 1..Count(r) : g[k] = NextItem(kind, g[k - 1])
    /\ Many(kind, r) = [g[Count(r)].r EXCEPT !.v = g[Count(r)].out]

-----------------------------------------------------------------------------
\* A list of the file has a length and items at its places.
LEMMA SeqFacts ==
    \A s : IsSeq(s) => /\ Len(s) \in Nat /\ DOMAIN s = 1..Len(s)
                       /\ \A i \in 1..Len(s) : s[i] = s[i]
  BY LenProperties DEF IsSeq

\* Places in the stream add up as they should.
LEMMA SumFacts ==
    \A a, b \in Nat : a <= a + b /\ a + b \in Nat /\ \A i \in 1..b : a + i \in 1..(a + b)
  OBVIOUS

\* At most is transitive, for places in the stream.
LEMMA OrderFacts == \A a, b, c \in Nat : a <= b /\ b <= c => a <= c
  OBVIOUS

\* c is s with t behind it.
Joins(c, s, t) ==
    /\ IsSeq(c) /\ Len(c) = Len(s) + Len(t)
    /\ \A i \in 1..Len(s) : c[i] = s[i]
    /\ \A i \in 1..Len(t) : c[Len(s) + i] = t[i]

\* Two parts written one after the other (serialize to one stream).
LEMMA ConcatFacts ==
    \A s, t : IsSeq(s) /\ IsSeq(t) =>
        /\ IsSeq(s \o t) /\ Len(s \o t) = Len(s) + Len(t)
        /\ \A i \in 1..Len(s) : (s \o t)[i] = s[i]
        /\ \A i \in 1..Len(t) : (s \o t)[Len(s) + i] = t[i]
<1> SUFFICES ASSUME NEW s, NEW t, NEW A, NEW B, s \in Seq(A), t \in Seq(B)
             PROVE  /\ IsSeq(s \o t) /\ Len(s \o t) = Len(s) + Len(t)
                    /\ \A i \in 1..Len(s) : (s \o t)[i] = s[i]
                    /\ \A i \in 1..Len(t) : (s \o t)[Len(s) + i] = t[i]
  BY DEF IsSeq
<1>1. s \in Seq(A \cup B) /\ t \in Seq(A \cup B)
  BY SeqMonotonic
<1>2. Len(s) \in Nat /\ Len(t) \in Nat
  BY LenProperties
<1> QED
  BY <1>1, <1>2, ConcatProperties DEF IsSeq

\* The stream of two parts is the first one and then the second one.
LEMMA Joining == \A s, t : IsSeq(s) /\ IsSeq(t) => Joins(s \o t, s, t)
  BY ConcatFacts DEF Joins

\* A list lies on the stream as its length and then its fields (serialize of a list).
LEMMA CountedFacts ==
    \A n, u : IsSeq(u) =>
        /\ IsSeq(<<n>> \o u) /\ Len(<<n>> \o u) = 1 + Len(u) /\ (<<n>> \o u)[1] = n
        /\ \A i \in 1..Len(u) : (<<n>> \o u)[1 + i] = u[i]
<1> TAKE n, u
<1> HAVE IsSeq(u)
<1> DEFINE one == <<n>>
<1>1. IsSeq(one) /\ Len(one) = 1 /\ one[1] = n
  <2>1. one \in Seq({n})
    OBVIOUS
  <2> QED
    BY <2>1 DEF IsSeq
<1> HIDE DEF one
<1>2. Joins(one \o u, one, u)
  BY <1>1, Joining, Zenon
<1>3. 1 \in 1..Len(one) /\ Len(one) = 1
  BY <1>1
<1>4. /\ IsSeq(one \o u) /\ Len(one \o u) = 1 + Len(u) /\ (one \o u)[1] = n
      /\ \A i \in 1..Len(u) : (one \o u)[1 + i] = u[i]
  BY <1>1, <1>2, <1>3 DEF Joins
<1> QED
  BY <1>4 DEF one

\* A reader that has failed is not one that stands at a place.
LEMMA FailFacts ==
    \A r, w : r = [s |-> r.s, at |-> r.at, failed |-> r.failed, v |-> r.v] =>
                [r EXCEPT !.failed = w] = [s |-> r.s, at |-> r.at, failed |-> w, v |-> r.v]
  OBVIOUS

\* The item of a reader is exchanged for another one.
LEMMA ValueFacts ==
    \A r, w : r = [s |-> r.s, at |-> r.at, failed |-> r.failed, v |-> r.v] =>
        [r EXCEPT !.v = w] = [s |-> r.s, at |-> r.at, failed |-> r.failed, v |-> w]
  OBVIOUS

\* A reader whose item is exchanged has still read what it read.
LEMMA ValueThrough ==
    ASSUME NEW r, NEW a, NEW b, NEW w, r = [s |-> a, at |-> b, failed |-> FALSE, v |-> r.v]
    PROVE  [r EXCEPT !.v = w] = [s |-> a, at |-> b, failed |-> FALSE, v |-> w]
<1>1. r.s = a /\ r.at = b /\ r.failed = FALSE
  OBVIOUS
<1>2. r = [s |-> r.s, at |-> r.at, failed |-> r.failed, v |-> r.v]
  BY <1>1, Zenon
<1>3. [r EXCEPT !.v = w] = [s |-> r.s, at |-> r.at, failed |-> r.failed, v |-> w]
  BY <1>2, ValueFacts, Zenon
<1> QED
  BY <1>1, <1>3, Zenon

\* A failed reader whose item is exchanged has still failed.
LEMMA ValueFailed == \A r, w : HasFailed(r) => HasFailed([r EXCEPT !.v = w])
<1> TAKE r, w
<1> HAVE HasFailed(r)
<1> DEFINE q == [r EXCEPT !.v = w]
<1>0. r = [s |-> r.s, at |-> r.at, failed |-> r.failed, v |-> r.v] /\ r.failed = TRUE
  BY DEF HasFailed
<1>1. q = [s |-> r.s, at |-> r.at, failed |-> TRUE, v |-> w]
  BY <1>0, ValueFacts, Zenon
<1> HIDE DEF q
<1>2. q.s = r.s /\ q.at = r.at /\ q.v = w
  BY <1>1
<1>3. q = [s |-> q.s, at |-> q.at, failed |-> TRUE, v |-> q.v]
  BY <1>1, <1>2, Zenon
<1> QED
  BY <1>3 DEF q, HasFailed

\* What Read does to a reader: a read past the end of the stream fails.
LEMMA ReadFacts ==
    \A r : /\ HasFailed(r) => HasFailed(Read(r))
           /\ IsReader(r) =>
                IF r.at <= Len(r.s)
                THEN Read(r) = [s |-> r.s, at |-> r.at + 1, failed |-> FALSE, v |-> r.s[r.at]]
                ELSE HasFailed(Read(r))
<1> TAKE r
<1>1. ASSUME HasFailed(r) PROVE HasFailed(Read(r))
  <2>1. r.failed = TRUE
    BY <1>1 DEF HasFailed
  <2>2. Read(r) = [r EXCEPT !.failed = TRUE]
    BY <2>1 DEF Read
  <2>3. r = [s |-> r.s, at |-> r.at, failed |-> r.failed, v |-> r.v]
    BY <1>1 DEF HasFailed
  <2>4. [r EXCEPT !.failed = TRUE] = [s |-> r.s, at |-> r.at, failed |-> TRUE, v |-> r.v]
    BY <2>3, FailFacts, Zenon
  <2> QED
    BY <2>1, <2>2, <2>4 DEF HasFailed
<1>2. ASSUME IsReader(r), r.at <= Len(r.s)
      PROVE  Read(r) = [s |-> r.s, at |-> r.at + 1, failed |-> FALSE, v |-> r.s[r.at]]
  <2>1. ~r.failed /\ ~(r.at > Len(r.s))
    BY <1>2 DEF IsReader
  <2>2. Read(r) = [r EXCEPT !.at = r.at + 1, !.v = r.s[r.at]]
    BY <2>1 DEF Read
  <2> QED
    BY <1>2, <2>2 DEF IsReader
<1>3. ASSUME IsReader(r), ~(r.at <= Len(r.s)) PROVE HasFailed(Read(r))
  <2>1. Read(r) = [r EXCEPT !.failed = TRUE]
    BY <1>3 DEF Read, IsReader
  <2>2. [r EXCEPT !.failed = TRUE] = [s |-> r.s, at |-> r.at, failed |-> TRUE, v |-> r.v]
    BY <1>3, FailFacts, Zenon DEF IsReader
  <2> QED
    BY <2>1, <2>2 DEF HasFailed
<1> QED
  BY <1>1, <1>2, <1>3
-----------------------------------------------------------------------------
\* What is written of a list is the fold of what is written of its items.
LEMMA FlatPieces ==
    ASSUME NEW seqs, NEW m \in Nat, DOMAIN seqs = 1..m
    PROVE  \E h : Pieces(h, seqs, m) /\ Flat(seqs) = h[m]
<1>1. Flat(seqs) = Flattening!Fold(<<>>, seqs)
  BY DEF Flat, Concat, Flattening!Fold, FoldLeft, Flattening!FoldLeft,
         MapThenFoldSet, Flattening!MapThenFoldSet, Max, Flattening!Max
<1>2. PICK h : Flattening!Stepwise(h, <<>>, seqs, m) /\ Flattening!Fold(<<>>, seqs) = h[m]
  BY Flattening!FoldSteps
<1>3. Pieces(h, seqs, m)
  BY <1>2 DEF Flattening!Stepwise, Pieces, Concat
<1> QED
  BY <1>1, <1>2, <1>3

\* Every sequence stands in the flattened one behind those before it.
Lie(h, seqs, m) ==
           /\ \A k \in 0..m : IsSeq(h[k]) /\ Len(h[k]) \in Nat /\ Len(h[k]) <= Len(h[m])
           /\ \A k \in 1..m : Len(h[k]) = Len(h[k - 1]) + Len(seqs[k])
           /\ \A k \in 1..m : \A i \in 1..Len(seqs[k]) : h[m][Len(h[k - 1]) + i] = seqs[k][i]

Sequences(seqs, m) == \A k \in 1..m : IsSeq(seqs[k])

\* Every piece written in a loop lies behind all the earlier ones.
LEMMA PiecesFacts ==
    ASSUME NEW h, NEW seqs, NEW m \in Nat, Pieces(h, seqs, m), Sequences(seqs, m)
    PROVE  Lie(h, seqs, m)
<1> USE DEF Sequences
<1>1. 0..m \subseteq {k \in 0..m : IsSeq(h[k])}
  <2> DEFINE S == {k \in 0..m : IsSeq(h[k])}
  <2>1. 0 \in S
    <3>1. IsSeq(<<>>)
      BY EmptySeq DEF IsSeq
    <3> QED
      BY <3>1 DEF Pieces
  <2>2. ASSUME NEW k \in 1..m, k - 1 \in S PROVE k \in S
    <3>1. h[k] = h[k - 1] \o seqs[k] /\ IsSeq(h[k - 1]) /\ IsSeq(seqs[k])
      BY <2>2 DEF Pieces
    <3>2. IsSeq(h[k - 1] \o seqs[k])
      BY <3>1, ConcatFacts, Zenon
    <3>3. IsSeq(h[k])
      BY <3>1, <3>2, Zenon
    <3> QED
      BY <3>3
  <2> HIDE DEF S
  <2>3. 0..m \subseteq S
    BY <2>1, <2>2, Flattening!PlacesInduction
  <2> QED
    BY <2>3 DEF S
<1>2. \A k \in 0..m : IsSeq(h[k]) /\ Len(h[k]) \in Nat
  BY <1>1, SeqFacts
<1>3. ASSUME NEW k \in 1..m
      PROVE  /\ Len(h[k]) = Len(h[k - 1]) + Len(seqs[k]) /\ Len(seqs[k]) \in Nat
             /\ \A i \in 1..Len(h[k - 1]) : h[k][i] = h[k - 1][i]
             /\ \A i \in 1..Len(seqs[k]) : h[k][Len(h[k - 1]) + i] = seqs[k][i]
  <2>0. k - 1 \in 0..m
    OBVIOUS
  <2>1. h[k] = h[k - 1] \o seqs[k] /\ IsSeq(h[k - 1]) /\ IsSeq(seqs[k])
    BY <1>2, <2>0 DEF Pieces
  <2>2. Len(seqs[k]) \in Nat
    BY <2>1, SeqFacts
  <2> DEFINE a == h[k - 1]
             b == seqs[k]
  <2>3. /\ Len(a \o b) = Len(a) + Len(b)
        /\ \A i \in 1..Len(a) : (a \o b)[i] = a[i]
        /\ \A i \in 1..Len(b) : (a \o b)[Len(a) + i] = b[i]
    <3>1. IsSeq(a) /\ IsSeq(b)
      BY <2>1
    <3> HIDE DEF a, b
    <3> QED
      BY <3>1, ConcatFacts
  <2> QED
    BY <2>1, <2>2, <2>3, Zenon
<1>4. ASSUME NEW k \in 0..m
      PROVE  Len(h[k]) <= Len(h[m]) /\ \A i \in 1..Len(h[k]) : h[m][i] = h[k][i]
  <2> DEFINE S == {j \in 0..m : j >= k => /\ Len(h[k]) <= Len(h[j])
                                         /\ \A i \in 1..Len(h[k]) : h[j][i] = h[k][i]}
  <2>1. 0 \in S
    BY <1>2
  <2>2. ASSUME NEW j \in 1..m, j - 1 \in S PROVE j \in S
    <3>1. CASE j < k
      BY <3>1
    <3>2. CASE j = k
      BY <3>2, <1>2
    <3>3. CASE j > k
      <4>1. Len(h[k]) <= Len(h[j - 1]) /\ \A i \in 1..Len(h[k]) : h[j - 1][i] = h[k][i]
        BY <2>2, <3>3
      <4>2. Len(h[k]) \in Nat /\ Len(h[j - 1]) \in Nat /\ Len(h[j]) \in Nat
        <5>1. j - 1 \in 0..m /\ j \in 0..m
          OBVIOUS
        <5> QED
          BY <1>2, <5>1
      <4>3. Len(h[k]) <= Len(h[j])
        <5>1. Len(h[j]) = Len(h[j - 1]) + Len(seqs[j]) /\ Len(seqs[j]) \in Nat
          BY <1>3
        <5>2. Len(h[j - 1]) <= Len(h[j])
          BY <4>2, <5>1, SumFacts, Zenon
        <5> QED
          BY <4>1, <4>2, <5>2, OrderFacts, Zenon
      <4>4. ASSUME NEW i \in 1..Len(h[k]) PROVE h[j][i] = h[k][i]
        <5>1. i \in 1..Len(h[j - 1])
          BY <4>1, <4>2
        <5> QED
          BY <4>1, <5>1, <1>3
      <4> QED
        BY <4>3, <4>4
    <3> QED
      BY <3>1, <3>2, <3>3
  <2> HIDE DEF S
  <2>3. 0..m \subseteq S
    BY <2>1, <2>2, Flattening!PlacesInduction
  <2> QED
    BY <2>3 DEF S
<1>5. ASSUME NEW k \in 1..m, NEW i \in 1..Len(seqs[k])
      PROVE  h[m][Len(h[k - 1]) + i] = seqs[k][i]
  <2>0. k - 1 \in 0..m /\ k \in 0..m
    OBVIOUS
  <2>1. Len(h[k - 1]) \in Nat /\ Len(h[k]) = Len(h[k - 1]) + Len(seqs[k]) /\ Len(seqs[k]) \in Nat
    BY <1>2, <1>3, <2>0
  <2>2. Len(h[k - 1]) + i \in 1..Len(h[k])
    BY <2>1, SumFacts, Zenon
  <2>3. h[m][Len(h[k - 1]) + i] = h[k][Len(h[k - 1]) + i]
    BY <1>4, <2>0, <2>2
  <2> QED
    BY <1>3, <2>3
<1> QED
  BY <1>2, <1>3, <1>4, <1>5 DEF Lie

\* The loop of TupleObj::deserialize over primitives, pass by pass.
LEMMA PrimitivesCounted == \A r : Count(r) \in Nat => \E g : Counted("primitive", r, g)
<1> TAKE r
<1> HAVE Count(r) \in Nat
<1> DEFINE m == Count(r)
           start == [r |-> Read(r), out |-> <<>>]
           places == [k \in 1..m |-> k]
<1>1. DOMAIN places = 1..m
  OBVIOUS
<1>2. Many("primitive", r) = [Primitives!Fold(start, places).r EXCEPT !.v = Primitives!Fold(start, places).out]
  <2>1. Many("primitive", r) = ReadMany(DeserializePrimitive, r)
    BY DEF Many
  <2>2. ReadMany(DeserializePrimitive, r) = [Primitives!Fold(start, places).r EXCEPT !.v = Primitives!Fold(start, places).out]
    BY DEF ReadMany, NextPrimitive, NextBy, Count, Primitives!Fold, FoldLeft, Primitives!FoldLeft,
           MapThenFoldSet, Primitives!MapThenFoldSet, Max, Primitives!Max
  <2> QED
    BY <2>1, <2>2
<1> HIDE DEF m, start, places
<1>3. PICK g : Primitives!Stepwise(g, start, places, m) /\ Primitives!Fold(start, places) = g[m]
  BY <1>1, Primitives!FoldSteps DEF m
<1>4. g[0] = start /\ \A k \in 1..m : g[k] = NextItem("primitive", g[k - 1])
  BY <1>3 DEF Primitives!Stepwise, NextPrimitive, NextItem, One
<1>5. Counted("primitive", r, g)
  BY <1>2, <1>3, <1>4 DEF Counted, start, m
<1> QED
  BY <1>5

\* The loop of FuncMeta::deserialize over the constant pool, pass by pass.
LEMMA ObjectsCounted == \A r : Count(r) \in Nat => \E g : Counted("object", r, g)
<1> TAKE r
<1> HAVE Count(r) \in Nat
<1> DEFINE m == Count(r)
           start == [r |-> Read(r), out |-> <<>>]
           places == [k \in 1..m |-> k]
<1>1. DOMAIN places = 1..m
  OBVIOUS
<1>2. Many("object", r) = [Objects!Fold(start, places).r EXCEPT !.v = Objects!Fold(start, places).out]
  <2>1. Many("object", r) = ReadMany(DeserializeObj, r)
    BY DEF Many
  <2>2. ReadMany(DeserializeObj, r) = [Objects!Fold(start, places).r EXCEPT !.v = Objects!Fold(start, places).out]
    BY DEF ReadMany, NextObject, NextBy, Count, Objects!Fold, FoldLeft, Objects!FoldLeft,
           MapThenFoldSet, Objects!MapThenFoldSet, Max, Objects!Max
  <2> QED
    BY <2>1, <2>2
<1> HIDE DEF m, start, places
<1>3. PICK g : Objects!Stepwise(g, start, places, m) /\ Objects!Fold(start, places) = g[m]
  BY <1>1, Objects!FoldSteps DEF m
<1>4. g[0] = start /\ \A k \in 1..m : g[k] = NextItem("object", g[k - 1])
  BY <1>3 DEF Objects!Stepwise, NextObject, NextItem, One
<1>5. Counted("object", r, g)
  BY <1>2, <1>3, <1>4 DEF Counted, start, m
<1> QED
  BY <1>5

\* The loop of FuncMeta::deserialize over the names, pass by pass.
LEMMA StringsCounted == \A r : Count(r) \in Nat => \E g : Counted("string", r, g)
<1> TAKE r
<1> HAVE Count(r) \in Nat
<1> DEFINE m == Count(r)
           start == [r |-> Read(r), out |-> <<>>]
           places == [k \in 1..m |-> k]
<1>1. DOMAIN places = 1..m
  OBVIOUS
<1>2. Many("string", r) = [Strings!Fold(start, places).r EXCEPT !.v = Strings!Fold(start, places).out]
  <2>1. Many("string", r) = ReadMany(DeserializeString, r)
    BY DEF Many
  <2>2. ReadMany(DeserializeString, r) = [Strings!Fold(start, places).r EXCEPT !.v = Strings!Fold(start, places).out]
    BY DEF ReadMany, NextString, NextBy, Count, Strings!Fold, FoldLeft, Strings!FoldLeft,
           MapThenFoldSet, Strings!MapThenFoldSet, Max, Strings!Max
  <2> QED
    BY <2>1, <2>2
<1> HIDE DEF m, start, places
<1>3. PICK g : Strings!Stepwise(g, start, places, m) /\ Strings!Fold(start, places) = g[m]
  BY <1>1, Strings!FoldSteps DEF m
<1>4. g[0] = start /\ \A k \in 1..m : g[k] = NextItem("string", g[k - 1])
  BY <1>3 DEF Strings!Stepwise, NextString, NextItem, One
<1>5. Counted("string", r, g)
  BY <1>2, <1>3, <1>4 DEF Counted, start, m
<1> QED
  BY <1>5

\* The loop of Meta::deserialize over the functions, pass by pass.
LEMMA FuncsCounted == \A r : Count(r) \in Nat => \E g : Counted("function", r, g)
<1> TAKE r
<1> HAVE Count(r) \in Nat
<1> DEFINE m == Count(r)
           start == [r |-> Read(r), out |-> <<>>]
           places == [k \in 1..m |-> k]
<1>1. DOMAIN places = 1..m
  OBVIOUS
<1>2. Many("function", r) = [Funcs!Fold(start, places).r EXCEPT !.v = Funcs!Fold(start, places).out]
  <2>1. Many("function", r) = ReadMany(DeserializeFunc, r)
    BY DEF Many
  <2>2. ReadMany(DeserializeFunc, r) = [Funcs!Fold(start, places).r EXCEPT !.v = Funcs!Fold(start, places).out]
    BY DEF ReadMany, NextFunction, NextBy, Count, Funcs!Fold, FoldLeft, Funcs!FoldLeft,
           MapThenFoldSet, Funcs!MapThenFoldSet, Max, Funcs!Max
  <2> QED
    BY <2>1, <2>2
<1> HIDE DEF m, start, places
<1>3. PICK g : Funcs!Stepwise(g, start, places, m) /\ Funcs!Fold(start, places) = g[m]
  BY <1>1, Funcs!FoldSteps DEF m
<1>4. g[0] = start /\ \A k \in 1..m : g[k] = NextItem("function", g[k - 1])
  BY <1>3 DEF Funcs!Stepwise, NextFunction, NextItem, One
<1>5. Counted("function", r, g)
  BY <1>2, <1>3, <1>4 DEF Counted, start, m
<1> QED
  BY <1>5

\* The loop of LeechFile::deserialize over the code, pass by pass.
LEMMA InstructionsCounted == \A r : Count(r) \in Nat => \E g : Counted("instruction", r, g)
<1> TAKE r
<1> HAVE Count(r) \in Nat
<1> DEFINE m == Count(r)
           start == [r |-> Read(r), out |-> <<>>]
           places == [k \in 1..m |-> k]
<1>1. DOMAIN places = 1..m
  OBVIOUS
<1>2. Many("instruction", r) = [Instructions!Fold(start, places).r EXCEPT !.v = Instructions!Fold(start, places).out]
  <2>1. Many("instruction", r) = ReadMany(DeserializeInstruction, r)
    BY DEF Many
  <2>2. ReadMany(DeserializeInstruction, r) = [Instructions!Fold(start, places).r EXCEPT !.v = Instructions!Fold(start, places).out]
    BY DEF ReadMany, NextInstruction, NextBy, Count, Instructions!Fold, FoldLeft, Instructions!FoldLeft,
           MapThenFoldSet, Instructions!MapThenFoldSet, Max, Instructions!Max
  <2> QED
    BY <2>1, <2>2
<1> HIDE DEF m, start, places
<1>3. PICK g : Instructions!Stepwise(g, start, places, m) /\ Instructions!Fold(start, places) = g[m]
  BY <1>1, Instructions!FoldSteps DEF m
<1>4. g[0] = start /\ \A k \in 1..m : g[k] = NextItem("instruction", g[k - 1])
  BY <1>3 DEF Instructions!Stepwise, NextInstruction, NextItem, One
<1>5. Counted("instruction", r, g)
  BY <1>2, <1>3, <1>4 DEF Counted, start, m
<1> QED
  BY <1>5

\* The loop of every one of these readers, pass by pass.
LEMMA ManySteps == \A kind \in Kinds : \A r : Count(r) \in Nat => \E g : Counted(kind, r, g)
  BY PrimitivesCounted, ObjectsCounted, StringsCounted, FuncsCounted, InstructionsCounted DEF Kinds

-----------------------------------------------------------------------------
\* What is ahead of a reader and what is ahead of it j items later.
LEMMA AheadLater ==
    ASSUME NEW r, NEW q, NEW w, NEW u, NEW j \in Nat,
           r.at \in Nat, Len(w) \in Nat, Len(u) \in Nat,
           Ahead(r, w), q.s = r.s, q.at = r.at + j,
           j + Len(u) <= Len(w), \A i \in 1..Len(u) : w[j + i] = u[i]
    PROVE  Ahead(q, u)
<1> SUFFICES ASSUME NEW i \in 1..Len(u), q.at + i - 1 <= Len(q.s)
             PROVE  q.s[q.at + i - 1] = u[i]
  BY DEF Ahead
<1>1. j + i \in 1..Len(w) /\ q.at + i - 1 = r.at + (j + i) - 1
  OBVIOUS
<1>2. r.s[r.at + (j + i) - 1] = w[j + i]
  BY <1>1 DEF Ahead
<1> QED
  BY <1>1, <1>2

\* The count in front of a list is read, or the end of the stream is noticed.
LEMMA CountAhead ==
    ASSUME NEW r, NEW w, IsReader(r), Ahead(r, w), Len(w) \in Nat \ {0}
    PROVE  IF r.at <= Len(r.s)
           THEN Read(r) = [s |-> r.s, at |-> r.at + 1, failed |-> FALSE, v |-> w[1]]
           ELSE HasFailed(Read(r))
<1>1. ASSUME r.at <= Len(r.s) PROVE r.s[r.at] = w[1]
  <2>1. 1 \in 1..Len(w) /\ r.at + 1 - 1 = r.at /\ r.at \in Nat
    BY DEF IsReader
  <2> QED
    BY <1>1, <2>1 DEF Ahead
<1> QED
  BY <1>1, ReadFacts

\* What is read behind k items, g[k], when the first k items have been written as h[k].
ReadsUpTo(c, g, h, items, k) ==
    IF c.at + Len(h[k]) <= Len(c.s) + 1
    THEN /\ g[k].r = [s |-> c.s, at |-> c.at + Len(h[k]), failed |-> FALSE, v |-> g[k].r.v]
         /\ g[k].out = SubSeq(items, 1, k)
    ELSE HasFailed(g[k].r)

\* What a reader that is described field by field has in its fields.
LEMMA ReaderFields ==
    \A q, s, at, v : q = [s |-> s, at |-> at, failed |-> FALSE, v |-> v] => q.s = s /\ q.at = at /\ q.failed = FALSE
OBVIOUS

\* What the loop of a reader that is described field by field has in its fields.
LEMMA AccFields == \A a, r, o : a = [r |-> r, out |-> o] => a.r = r /\ a.out = o
OBVIOUS

\* A reader moved on within its stream is a reader.
LEMMA ReaderMoved ==
    \A c, n, q : /\ IsReader(c) /\ n \in Nat /\ c.at + n <= Len(c.s) + 1
                /\ q = [s |-> c.s, at |-> c.at + n, failed |-> FALSE, v |-> q.v]
                => IsReader(q)
<1> SUFFICES ASSUME NEW c, NEW n \in Nat, NEW q, IsReader(c), c.at + n <= Len(c.s) + 1,
                    q = [s |-> c.s, at |-> c.at + n, failed |-> FALSE, v |-> q.v]
             PROVE  IsReader(q)
  OBVIOUS
<1>1. q.s = c.s /\ q.at = c.at + n /\ q.failed = FALSE
  BY ReaderFields, Zenon
<1>2. c.at + n \in 1..(Len(c.s) + 1) /\ Len(c.s) \in Nat
  BY DEF IsReader
<1> QED
  BY <1>1, <1>2 DEF IsReader

\* After k passes the reader has the first k items, or has failed at the cut.
LEMMA ReadsOn ==
    ASSUME NEW kind, OneRestores(kind), NEW c, NEW g, NEW h, NEW items, NEW m \in Nat, NEW k \in 1..m,
           IsSeq(items), Len(items) = m, Item(kind, items[k]), IsReader(c),
           g[k] = NextItem(kind, g[k - 1]), Len(h[k - 1]) \in Nat, Len(h[k]) \in Nat, Len(h[m]) \in Nat,
           Len(Ser(kind, items[k])) \in Nat, Len(h[k]) = Len(h[k - 1]) + Len(Ser(kind, items[k])),
           Len(h[k]) <= Len(h[m]), Ahead(c, h[m]),
           \A i \in 1..Len(Ser(kind, items[k])) : h[m][Len(h[k - 1]) + i] = Ser(kind, items[k])[i],
           ReadsUpTo(c, g, h, items, k - 1)
    PROVE  ReadsUpTo(c, g, h, items, k)
<1> DEFINE q == g[k - 1].r
           u == Ser(kind, items[k])
<1> USE DEF IsReader
<1>1. CASE ~(c.at + Len(h[k - 1]) <= Len(c.s) + 1)
  <2>1. q = [s |-> q.s, at |-> q.at, failed |-> TRUE, v |-> q.v]
    BY <1>1 DEF ReadsUpTo, HasFailed
  <2>2. q.failed = TRUE
    BY <2>1
  <2>3. g[k] = g[k - 1]
    BY <2>2 DEF NextItem, NextBy
  <2>4. ~(c.at + Len(h[k]) <= Len(c.s) + 1)
    <3> DEFINE a == Len(h[k - 1])
               b == Len(u)
               d == Len(h[k])
    <3>1. a \in Nat /\ b \in Nat /\ d = a + b /\ ~(c.at + a <= Len(c.s) + 1) /\ c.at \in Nat /\ Len(c.s) \in Nat
      BY <1>1
    <3> HIDE DEF a, b, d
    <3>2. ~(c.at + d <= Len(c.s) + 1)
      BY <3>1
    <3> QED
      BY <3>2 DEF d
  <2> QED
    BY <1>1, <2>3, <2>4 DEF ReadsUpTo
<1>2. CASE c.at + Len(h[k - 1]) <= Len(c.s) + 1
  <2>1. /\ q = [s |-> c.s, at |-> c.at + Len(h[k - 1]), failed |-> FALSE, v |-> q.v]
        /\ g[k - 1].out = SubSeq(items, 1, k - 1)
    BY <1>2 DEF ReadsUpTo
  <2>2. q.s = c.s /\ q.at = c.at + Len(h[k - 1]) /\ q.failed = FALSE
    <3> HIDE DEF q
    <3> QED
      BY <2>1, ReaderFields
  <2>3. IsReader(q)
    BY <1>2, <2>1, ReaderMoved, Zenon
  <2>4. Ahead(q, u)
    <3>1. Len(h[k - 1]) + Len(u) <= Len(h[m]) /\ c.at \in Nat
      OBVIOUS
    <3>2. \A i \in 1..Len(u) : h[m][Len(h[k - 1]) + i] = u[i]
      OBVIOUS
    <3> HIDE DEF q, u
    <3> QED
      BY <2>2, <3>1, <3>2, AheadLater DEF u
  <2>5. Through(q, u, items[k], One(kind, q))
    <3>1. RestoredBy(q, u, items[k], One(kind, q))
      BY Zenon DEF OneRestores
    <3> QED
      BY <2>3, <2>4, <3>1 DEF RestoredBy
  <2>6. g[k] = [r |-> One(kind, q), out |-> Append(g[k - 1].out, One(kind, q).v)]
    BY <2>2 DEF NextItem, NextBy
  <2>7. g[k].r = One(kind, q) /\ g[k].out = Append(g[k - 1].out, One(kind, q).v)
    <3> DEFINE o == One(kind, q)
               v == Append(g[k - 1].out, One(kind, q).v)
               a == g[k]
    <3>1. a = [r |-> o, out |-> v]
      BY <2>6
    <3> HIDE DEF o, v, a
    <3>2. a.r = o /\ a.out = v
      BY <3>1, AccFields
    <3> QED
      BY <3>2 DEF o, v, a
  <2>8. q.at + Len(u) = c.at + Len(h[k])
    BY <2>2
  <2>9. CASE c.at + Len(h[k]) <= Len(c.s) + 1
    <3>1. One(kind, q) = [s |-> c.s, at |-> c.at + Len(h[k]), failed |-> FALSE, v |-> items[k]]
      BY <2>2, <2>5, <2>8, <2>9 DEF Through
    <3>2. One(kind, q).v = items[k]
      BY <3>1
    <3>3. Append(SubSeq(items, 1, k - 1), items[k]) = SubSeq(items, 1, k)
      <4>1. PICK S : items \in Seq(S)
        BY DEF IsSeq
      <4> QED
        BY <4>1
    <3> QED
      BY <2>1, <2>7, <2>9, <3>1, <3>2, <3>3 DEF ReadsUpTo
  <2>10. CASE ~(c.at + Len(h[k]) <= Len(c.s) + 1)
    <3>1. HasFailed(One(kind, q))
      BY <2>2, <2>5, <2>8, <2>10 DEF Through
    <3> QED
      BY <2>7, <2>10, <3>1 DEF ReadsUpTo
  <2> QED
    BY <2>9, <2>10
<1> QED
  BY <1>1, <1>2

\* h[k] is what is written of the first k of m items, behind the count.
Written(kind, h, items, m) ==
    /\ SerMany(kind, items) = <<m>> \o h[m] /\ IsSeq(h[m]) /\ h[0] = <<>>
    /\ \A k \in 0..m : Len(h[k]) \in Nat /\ Len(h[k]) <= Len(h[m])
    /\ \A k \in 1..m :
          /\ Len(Ser(kind, items[k])) \in Nat /\ Len(h[k]) = Len(h[k - 1]) + Len(Ser(kind, items[k]))
          /\ \A i \in 1..Len(Ser(kind, items[k])) : h[m][Len(h[k - 1]) + i] = Ser(kind, items[k])[i]

\* A list is written as its count and then its items, one behind the other.
LEMMA WrittenMany ==
    ASSUME NEW kind, OneRestores(kind), NEW items, NEW m \in Nat, DOMAIN items = 1..m, Len(items) = m,
           \A k \in 1..m : Item(kind, items[k])
    PROVE  \E h : Written(kind, h, items, m)
<1> DEFINE seqs == [n \in DOMAIN items |-> Ser(kind, items[n])]
<1>1. DOMAIN seqs = 1..m /\ \A k \in 1..m : seqs[k] = Ser(kind, items[k]) /\ IsSeq(seqs[k])
  BY DEF OneRestores
<1>2. SerMany(kind, items) = <<m>> \o Flat(seqs)
  BY DEF SerMany
<1> HIDE DEF seqs
<1>3. PICK h : Pieces(h, seqs, m) /\ Flat(seqs) = h[m]
  BY <1>1, FlatPieces
<1>4. /\ \A k \in 0..m : IsSeq(h[k]) /\ Len(h[k]) \in Nat /\ Len(h[k]) <= Len(h[m])
      /\ \A k \in 1..m : Len(h[k]) = Len(h[k - 1]) + Len(seqs[k])
      /\ \A k \in 1..m : \A i \in 1..Len(seqs[k]) : h[m][Len(h[k - 1]) + i] = seqs[k][i]
  <2>1. Sequences(seqs, m)
    BY <1>1 DEF Sequences
  <2>2. Lie(h, seqs, m)
    BY <1>3, <2>1, PiecesFacts
  <2> QED
    BY <2>2 DEF Lie
<1>5. ASSUME NEW k \in 1..m
      PROVE  /\ Len(Ser(kind, items[k])) \in Nat
             /\ Len(h[k]) = Len(h[k - 1]) + Len(Ser(kind, items[k]))
             /\ \A i \in 1..Len(Ser(kind, items[k])) : h[m][Len(h[k - 1]) + i] = Ser(kind, items[k])[i]
  <2>1. seqs[k] = Ser(kind, items[k]) /\ IsSeq(seqs[k])
    BY <1>1
  <2>2. Len(seqs[k]) \in Nat
    BY <2>1, SeqFacts
  <2>3. /\ Len(h[k]) = Len(h[k - 1]) + Len(seqs[k])
        /\ \A i \in 1..Len(seqs[k]) : h[m][Len(h[k - 1]) + i] = seqs[k][i]
    BY <1>4
  <2> QED
    BY <2>1, <2>2, <2>3, Zenon
<1>6. h[0] = <<>> /\ SerMany(kind, items) = <<m>> \o h[m] /\ IsSeq(h[m])
  BY <1>2, <1>3, <1>4 DEF Pieces
<1>7. Written(kind, h, items, m)
  BY <1>4, <1>5, <1>6, Zenon DEF Written
<1> QED
  BY <1>7

\* A list whose count cannot be read is not read.
LEMMA ManyFails == \A kind \in Kinds : \A r : HasFailed(Read(r)) => HasFailed(Many(kind, r))
<1> TAKE kind \in Kinds
<1> TAKE r
<1> HAVE HasFailed(Read(r))
<1>1. Read(r).failed = TRUE
  BY DEF HasFailed
<1>2. Count(r) = 0
  BY <1>1 DEF Count
<1>3. PICK g : Counted(kind, r, g)
  BY <1>2, ManySteps
<1>4. g[0].r = Read(r) /\ Many(kind, r) = [g[0].r EXCEPT !.v = g[0].out]
  BY <1>2, <1>3 DEF Counted
<1>5. HasFailed(g[0].r)
  BY <1>4
<1>6. HasFailed([g[0].r EXCEPT !.v = g[0].out])
  BY <1>5, ValueFailed, Zenon
<1> QED
  BY <1>4, <1>6

Items(kind, items) == IsSeq(items) /\ \A k \in DOMAIN items : Item(kind, items[k])
\* What was written behind its count is read back whole, or the end of the stream is noticed.
THEOREM ManyRestored ==
    \A kind \in Kinds : \A items :
        OneRestores(kind) /\ Items(kind, items) =>
            /\ IsSeq(SerMany(kind, items))
            /\ \A r : RestoredBy(r, SerMany(kind, items), items, Many(kind, r))
<1> TAKE kind \in Kinds
<1> TAKE items
<1> HAVE OneRestores(kind) /\ Items(kind, items)
<1> USE DEF Items
<1> DEFINE m == Len(items)
           w == SerMany(kind, items)
<1>1. m \in Nat /\ DOMAIN items = 1..m
  BY SeqFacts
<1> HIDE DEF m, w
<1>2. PICK h : Written(kind, h, items, m)
  <2>1. Len(items) = m /\ \A k \in 1..m : Item(kind, items[k])
    BY <1>1 DEF m
  <2> QED
    BY <1>1, <2>1, WrittenMany
<1>3. /\ IsSeq(w) /\ Len(w) = 1 + Len(h[m]) /\ Len(h[m]) \in Nat /\ w[1] = m
      /\ \A i \in 1..Len(h[m]) : w[1 + i] = h[m][i]
  <2> DEFINE u == h[m]
  <2>1. w = <<m>> \o u /\ IsSeq(u)
    BY <1>2 DEF w, Written
  <2> HIDE DEF u
  <2>2. /\ IsSeq(<<m>> \o u) /\ Len(<<m>> \o u) = 1 + Len(u) /\ (<<m>> \o u)[1] = m
        /\ \A i \in 1..Len(u) : (<<m>> \o u)[1 + i] = u[i]
    BY <2>1, CountedFacts
  <2>3. Len(u) \in Nat
    BY <2>1, SeqFacts
  <2> QED
    BY <2>1, <2>2, <2>3, Zenon DEF u
<1>4. ASSUME NEW r, IsReader(r), Ahead(r, w) PROVE Through(r, w, items, Many(kind, r))
  <2> DEFINE c == Read(r)
  <2>1. IF r.at <= Len(r.s)
        THEN c = [s |-> r.s, at |-> r.at + 1, failed |-> FALSE, v |-> m]
        ELSE HasFailed(c)
    BY <1>3, <1>4, CountAhead
  <2>2. r.at \in Nat /\ Len(r.s) \in Nat
    BY <1>4 DEF IsReader
  <2> HIDE DEF c
  <2>3. CASE ~(r.at <= Len(r.s))
    <3>1. c.failed = TRUE /\ HasFailed(c)
      BY <2>1, <2>3 DEF HasFailed
    <3>5. HasFailed(Many(kind, r))
      BY <3>1, ManyFails DEF c
    <3> QED
      BY <1>3, <2>2, <2>3, <3>5 DEF Through
  <2>4. CASE r.at <= Len(r.s)
    <3>1. c = [s |-> r.s, at |-> r.at + 1, failed |-> FALSE, v |-> m]
      BY <2>1, <2>4
    <3>2. c.s = r.s /\ c.at = r.at + 1 /\ c.failed = FALSE /\ c.v = m /\ IsReader(c)
      BY <2>2, <2>4, <3>1 DEF IsReader
    <3>3. Count(r) = m
      BY <3>2 DEF Count, c
    <3>11. PICK g : Counted(kind, r, g)
      BY <1>1, <3>3, ManySteps
    <3>4. /\ g[0] = [r |-> c, out |-> <<>>] /\ \A k \in 1..m : g[k] = NextItem(kind, g[k - 1])
          /\ Many(kind, r) = [g[m].r EXCEPT !.v = g[m].out]
      BY <3>3, <3>11 DEF Counted, c
    <3>5. Ahead(c, h[m])
      <4> DEFINE b == h[m]
      <4>1. Len(b) \in Nat /\ Len(w) = 1 + Len(b) /\ \A i \in 1..Len(b) : w[1 + i] = b[i]
        BY <1>3
      <4> HIDE DEF b
      <4>2. Len(w) \in Nat /\ 1 + Len(b) <= Len(w) /\ 1 \in Nat
        BY <4>1
      <4>3. Ahead(c, b)
        BY <1>4, <2>2, <3>2, <4>1, <4>2, AheadLater
      <4> QED
        BY <4>3 DEF b
    <3>6. 0..m \subseteq {k \in 0..m : ReadsUpTo(c, g, h, items, k)}
      <4> DEFINE S == {k \in 0..m : ReadsUpTo(c, g, h, items, k)}
      <4>1. 0 \in S
        <5>1. Len(h[0]) = 0 /\ SubSeq(items, 1, 0) = <<>>
          BY <1>2 DEF Written
        <5>2. g[0].r = c /\ g[0].out = <<>>
          BY <3>4
        <5>3. c.at + Len(h[0]) <= Len(c.s) + 1 /\ c.at + Len(h[0]) = c.at
          BY <2>2, <2>4, <3>2, <5>1
        <5>4. ReadsUpTo(c, g, h, items, 0)
          BY <3>1, <3>2, <5>1, <5>2, <5>3 DEF ReadsUpTo
        <5> QED
          BY <1>1, <5>4
      <4>2. ASSUME NEW k \in 1..m, k - 1 \in S PROVE k \in S
        <5>1. ReadsUpTo(c, g, h, items, k - 1) /\ k - 1 \in 0..m /\ k \in 0..m
          BY <4>2
        <5>2. Item(kind, items[k]) /\ Len(items) = m
          BY <1>1 DEF m
        <5>3. g[k] = NextItem(kind, g[k - 1])
          BY <3>4
        <5>4. /\ Len(h[k - 1]) \in Nat /\ Len(h[k]) \in Nat /\ Len(h[m]) \in Nat
              /\ Len(h[k]) <= Len(h[m])
          BY <1>2, <1>3, <5>1, Zenon DEF Written
        <5>5. /\ Len(Ser(kind, items[k])) \in Nat
              /\ Len(h[k]) = Len(h[k - 1]) + Len(Ser(kind, items[k]))
              /\ \A i \in 1..Len(Ser(kind, items[k])) : h[m][Len(h[k - 1]) + i] = Ser(kind, items[k])[i]
          BY <1>2 DEF Written
        <5>6. ReadsUpTo(c, g, h, items, k)
          BY <1>1, <3>2, <3>5, <5>1, <5>2, <5>3, <5>4, <5>5, ReadsOn
        <5> QED
          BY <5>1, <5>6
      <4> HIDE DEF S
      <4>3. 0..m \subseteq S
        BY <1>1, <4>1, <4>2, Flattening!PlacesInduction
      <4> QED
        BY <4>3 DEF S
    <3>7. ReadsUpTo(c, g, h, items, m)
      BY <1>1, <3>6
    <3>8. Many(kind, r) = [g[m].r EXCEPT !.v = g[m].out]
      BY <3>4
    <3>9. CASE r.at + Len(w) <= Len(r.s) + 1
      <4>1. c.at + Len(h[m]) = r.at + Len(w) /\ c.at + Len(h[m]) <= Len(c.s) + 1
        <5> DEFINE b == Len(h[m])
        <5>1. b \in Nat /\ Len(w) = 1 + b
          BY <1>3
        <5> HIDE DEF b
        <5>2. c.at + b = r.at + Len(w) /\ c.at + b <= Len(c.s) + 1
          BY <2>2, <3>2, <3>9, <5>1
        <5> QED
          BY <5>2 DEF b
      <4>2. /\ g[m].r = [s |-> r.s, at |-> r.at + Len(w), failed |-> FALSE, v |-> g[m].r.v]
            /\ g[m].out = SubSeq(items, 1, m)
        BY <3>2, <3>7, <4>1 DEF ReadsUpTo
      <4>3. g[m].out = items
        <5>1. PICK S : items \in Seq(S)
          BY DEF IsSeq
        <5> QED
          BY <4>2, <5>1 DEF m
      <4>4. Many(kind, r) = [s |-> r.s, at |-> r.at + Len(w), failed |-> FALSE, v |-> items]
        <5> DEFINE z == g[m].r
                   a == r.s
                   b == r.at + Len(w)
        <5>1. z = [s |-> a, at |-> b, failed |-> FALSE, v |-> z.v]
          BY <4>2
        <5> HIDE DEF z, a, b
        <5>2. [z EXCEPT !.v = items] = [s |-> a, at |-> b, failed |-> FALSE, v |-> items]
          <6>1. z.s = a /\ z.at = b /\ z.failed = FALSE
            BY <5>1
          <6>2. z = [s |-> z.s, at |-> z.at, failed |-> z.failed, v |-> z.v]
            BY <5>1, <6>1, Zenon
          <6>3. [z EXCEPT !.v = items] = [s |-> z.s, at |-> z.at, failed |-> z.failed, v |-> items]
            BY <6>2, ValueFacts, Zenon
          <6> QED
            BY <6>1, <6>3, Zenon
        <5> QED
          BY <3>8, <4>3, <5>2, Zenon DEF z, a, b
      <4> QED
        BY <3>9, <4>4 DEF Through
    <3>10. CASE ~(r.at + Len(w) <= Len(r.s) + 1)
      <4>1. ~(c.at + Len(h[m]) <= Len(c.s) + 1)
        <5> DEFINE b == Len(h[m])
        <5>1. b \in Nat /\ Len(w) = 1 + b
          BY <1>3
        <5> HIDE DEF b
        <5>2. ~(c.at + b <= Len(c.s) + 1)
          BY <2>2, <3>2, <3>10, <5>1
        <5> QED
          BY <5>2 DEF b
      <4>2. HasFailed(g[m].r)
        BY <3>7, <4>1 DEF ReadsUpTo
      <4>3. HasFailed([g[m].r EXCEPT !.v = g[m].out])
        BY <4>2, ValueFailed, Zenon
      <4> QED
        BY <3>8, <3>10, <4>3 DEF Through
    <3> QED
      BY <3>9, <3>10
  <2> QED
    BY <2>3, <2>4
<1>5. ASSUME NEW r, HasFailed(r) PROVE HasFailed(Many(kind, r))
  BY <1>5, ReadFacts, ManyFails
<1> QED
  BY <1>3, <1>4, <1>5 DEF w, RestoredBy

-----------------------------------------------------------------------------
(* One reader behind another.                                              *)

\* One field is a stream of length one.
LEMMA One1 == \A x : IsSeq(<<x>>) /\ Len(<<x>>) = 1 /\ <<x>>[1] = x
<1> SUFFICES ASSUME NEW x PROVE IsSeq(<<x>>) /\ Len(<<x>>) = 1 /\ <<x>>[1] = x
  OBVIOUS
<1>1. <<x>> \in Seq({x})
  OBVIOUS
<1> QED
  BY <1>1 DEF IsSeq

Associate(s, t, u) == (s \o t) \o u = s \o (t \o u)

\* Parts of the stream over one set may be put together in any order of brackets.
LEMMA AssociatesOver == \A S : \A s, t, u \in Seq(S) : Associate(s, t, u)
<1> SUFFICES ASSUME NEW S, NEW s \in Seq(S), NEW t \in Seq(S), NEW u \in Seq(S) PROVE (s \o t) \o u = s \o (t \o u)
  BY DEF Associate
<1> QED
  BY ConcatAssociative

\* Parts of the stream may be put together in any order of brackets.
LEMMA Associates == \A s, t, u : IsSeq(s) /\ IsSeq(t) /\ IsSeq(u) => Associate(s, t, u)
<1> SUFFICES ASSUME NEW s, NEW t, NEW u, NEW A, NEW B, NEW C, s \in Seq(A), t \in Seq(B), u \in Seq(C)
             PROVE  Associate(s, t, u)
  BY DEF IsSeq
<1> DEFINE S == A \cup B \cup C
<1>1. s \in Seq(S) /\ t \in Seq(S) /\ u \in Seq(S)
  BY SeqMonotonic
<1> HIDE DEF S
<1> QED
  BY <1>1, AssociatesOver

\* One field is read back as it was written (a read past the end fails).
LEMMA ReadOne == \A r, x : RestoredBy(r, <<x>>, x, Read(r))
<1> TAKE r, x
<1> DEFINE w == <<x>>
<1>1. Len(w) = 1 /\ w[1] = x
  BY One1
<1> HIDE DEF w
<1>2. ASSUME IsReader(r), Ahead(r, w) PROVE Through(r, w, x, Read(r))
  <2>1. IF r.at <= Len(r.s)
        THEN Read(r) = [s |-> r.s, at |-> r.at + 1, failed |-> FALSE, v |-> w[1]]
        ELSE HasFailed(Read(r))
    BY <1>1, <1>2, CountAhead
  <2>2. r.at \in Nat /\ Len(r.s) \in Nat
    BY <1>2 DEF IsReader
  <2> QED
    BY <1>1, <2>1, <2>2 DEF Through
<1>3. RestoredBy(r, w, x, Read(r))
  BY <1>2, ReadFacts DEF RestoredBy
<1> QED
  BY <1>3 DEF w

\* Where two parts lie ahead the first of them does.
LEMMA AheadFirst == \A r, w, u : IsReader(r) /\ IsSeq(w) /\ IsSeq(u) /\ Ahead(r, w \o u) => Ahead(r, w)
<1> TAKE r, w, u
<1> HAVE IsReader(r) /\ IsSeq(w) /\ IsSeq(u) /\ Ahead(r, w \o u)
<1> DEFINE c == w \o u
<1>1. Joins(c, w, u) /\ Len(w) \in Nat /\ Len(u) \in Nat
  BY Joining, SeqFacts
<1> HIDE DEF c
<1>2. Ahead(r, c)
  BY DEF c
<1>3. ASSUME NEW i \in 1..Len(w), r.at + i - 1 <= Len(r.s) PROVE r.s[r.at + i - 1] = w[i]
  <2>1. i \in 1..Len(c) /\ c[i] = w[i]
    BY <1>1 DEF Joins
  <2> QED
    BY <1>2, <1>3, <2>1 DEF Ahead
<1> QED
  BY <1>3 DEF Ahead

\* What r has read and what q reads on is what p has read.
Behind(r, w, x, q, u, p) ==
    IsReader(r) /\ Ahead(r, w \o u) /\ p.failed = FALSE => Ahead(r, w) /\ q.failed = FALSE /\ q.v = x

\* A reader behind another one reads what was written behind what the other one read.
LEMMA ReadBehind ==
    ASSUME NEW r, NEW q, NEW p, NEW w, NEW u, NEW x, NEW y, IsSeq(w), IsSeq(u),
           RestoredBy(r, w, x, q), RestoredBy(q, u, y, p)
    PROVE  IsSeq(w \o u) /\ RestoredBy(r, w \o u, y, p) /\ Behind(r, w, x, q, u, p)
<1> DEFINE c == w \o u
<1>1. Joins(c, w, u) /\ Len(w) \in Nat /\ Len(u) \in Nat
  BY Joining, SeqFacts
<1> HIDE DEF c
<1>2. Len(c) = Len(w) + Len(u) /\ IsSeq(c)
  BY <1>1 DEF Joins
<1>3. HasFailed(r) => HasFailed(p)
  BY DEF RestoredBy
<1>4. ASSUME IsReader(r), Ahead(r, c)
      PROVE  Through(r, c, y, p) /\ (p.failed = FALSE => Ahead(r, w) /\ q.failed = FALSE /\ q.v = x)
  <2>1. Ahead(r, w)
    BY <1>4, AheadFirst DEF c
  <2>2. Through(r, w, x, q)
    BY <1>4, <2>1 DEF RestoredBy
  <2>3. r.at \in Nat /\ Len(r.s) \in Nat /\ r.at >= 1
    BY <1>4 DEF IsReader
  <2>4. CASE ~(r.at + Len(w) <= Len(r.s) + 1)
    <3>1. HasFailed(p)
      BY <2>2, <2>4 DEF Through, RestoredBy
    <3>2. ~(r.at + Len(c) <= Len(r.s) + 1)
      BY <1>1, <1>2, <2>3, <2>4
    <3>3. p.failed = TRUE
      BY <3>1 DEF HasFailed
    <3> QED
      BY <3>1, <3>2, <3>3 DEF Through
  <2>5. CASE r.at + Len(w) <= Len(r.s) + 1
    <3>1. q = [s |-> r.s, at |-> r.at + Len(w), failed |-> FALSE, v |-> x]
      BY <2>2, <2>5 DEF Through
    <3>2. q.s = r.s /\ q.at = r.at + Len(w) /\ q.failed = FALSE /\ q.v = x
      BY <3>1
    <3>3. IsReader(q)
      BY <1>1, <2>3, <2>5, <3>1, <3>2 DEF IsReader
    <3>4. Ahead(q, u)
      <4>1. Len(w) + Len(u) <= Len(c) /\ Len(c) \in Nat /\ \A i \in 1..Len(u) : c[Len(w) + i] = u[i]
        BY <1>1, <1>2 DEF Joins
      <4> QED
        BY <1>1, <1>4, <2>3, <3>2, <4>1, AheadLater
    <3>5. Through(q, u, y, p)
      BY <3>3, <3>4 DEF RestoredBy
    <3>6. Through(r, c, y, p)
      <4>1. q.at + Len(u) = r.at + Len(c)
        BY <1>1, <1>2, <2>3, <3>2
      <4> QED
        BY <3>2, <3>5, <4>1 DEF Through
    <3> QED
      BY <2>1, <3>2, <3>6
  <2> QED
    BY <2>4, <2>5
<1> QED
  BY <1>2, <1>3, <1>4 DEF c, RestoredBy, Behind

\* The item is made of what was read.
Made(r, w, y, p, z, x) == IsReader(r) /\ Ahead(r, w) /\ p.failed = FALSE /\ p.v = y => z = x

\* What is made of the item that was read (the constructors in deserialize).
LEMMA MadeOfRead ==
    ASSUME NEW r, NEW p, NEW w, NEW x, NEW y, NEW z, RestoredBy(r, w, y, p), Made(r, w, y, p, z, x)
    PROVE  RestoredBy(r, w, x, [p EXCEPT !.v = IF p.failed THEN 0 ELSE z])
<1> DEFINE v == IF p.failed THEN 0 ELSE z
           q == [p EXCEPT !.v = v]
<1>1. HasFailed(p) => HasFailed(q)
  BY ValueFailed, Zenon
<1>2. ASSUME IsReader(r), Ahead(r, w) PROVE Through(r, w, x, q)
  <2>1. Through(r, w, y, p)
    BY <1>2 DEF RestoredBy
  <2>2. CASE r.at + Len(w) <= Len(r.s) + 1
    <3> DEFINE a == r.s
               b == r.at + Len(w)
    <3>1. p = [s |-> a, at |-> b, failed |-> FALSE, v |-> y]
      BY <2>1, <2>2 DEF Through
    <3> HIDE DEF a, b
    <3>2. p.s = a /\ p.at = b /\ p.failed = FALSE /\ p.v = y
      BY <3>1
    <3>3. v = x
      BY <1>2, <3>2 DEF Made
    <3> HIDE DEF v
    <3>4. p = [s |-> p.s, at |-> p.at, failed |-> p.failed, v |-> p.v]
      BY <3>1, <3>2, Zenon
    <3>5. q = [s |-> p.s, at |-> p.at, failed |-> p.failed, v |-> v]
      BY <3>4, ValueFacts, Zenon
    <3>6. q = [s |-> a, at |-> b, failed |-> FALSE, v |-> x]
      BY <3>2, <3>3, <3>5, Zenon
    <3> QED
      BY <2>2, <3>6 DEF Through, a, b
  <2>3. CASE ~(r.at + Len(w) <= Len(r.s) + 1)
    BY <1>1, <2>1, <2>3 DEF Through
  <2> QED
    BY <2>2, <2>3
<1> HIDE DEF q
<1>3. RestoredBy(r, w, x, q)
  BY <1>1, <1>2 DEF RestoredBy
<1> QED
  BY <1>3 DEF q

-----------------------------------------------------------------------------
(* The readers of strings, primitives and instructions.                    *)

\* Skipping a type number and a size is reading twice.
LEMMA SkipTwo == \A r : Skip(r, 2) = Read(Read(r))
<1> TAKE r
<1> DEFINE places == [k \in 1..2 |-> k]
<1>1. DOMAIN places = 1..2
  OBVIOUS
<1>2. Skip(r, 2) = Skipping!Fold(r, places)
  BY DEF Skip, ReadOn, Skipping!Fold, FoldLeft, Skipping!FoldLeft,
         MapThenFoldSet, Skipping!MapThenFoldSet, Max, Skipping!Max
<1> HIDE DEF places
<1>3. PICK g : Skipping!Stepwise(g, r, places, 2) /\ Skipping!Fold(r, places) = g[2]
  BY <1>1, Skipping!FoldSteps
<1>4. g[0] = r /\ g[1] = Read(g[0]) /\ g[2] = Read(g[1])
  BY <1>3 DEF Skipping!Stepwise, ReadOn
<1> QED
  BY <1>2, <1>3, <1>4

Equal(u, c) == Len(u) = Len(c) /\ \A i \in 1..Len(u) : u[i] = c[i]

\* Two streams with the same fields are one.
LEMMA SameItems == \A u, c : IsSeq(u) /\ IsSeq(c) /\ Equal(u, c) => u = c
<1> SUFFICES ASSUME NEW u, NEW c, NEW A, NEW B, u \in Seq(A), c \in Seq(B), Equal(u, c) PROVE u = c
  BY DEF IsSeq
<1>1. u \in Seq(A \cup B) /\ c \in Seq(A \cup B)
  BY SeqMonotonic
<1> QED
  BY <1>1, SeqEqual DEF Equal

\* Two fields are one behind the other.
LEMMA Pair == \A a, b : <<a, b>> = <<a>> \o <<b>>
<1> TAKE a, b
<1> DEFINE s == <<a>>
           t == <<b>>
           c == s \o t
           u == <<a, b>>
<1>1. Len(s) = 1 /\ Len(t) = 1 /\ s[1] = a /\ t[1] = b /\ Joins(c, s, t)
  BY One1, Joining
<1>2. IsSeq(u) /\ Len(u) = 2 /\ u[1] = a /\ u[2] = b
  <2>1. u \in Seq({a, b})
    OBVIOUS
  <2> QED
    BY <2>1 DEF IsSeq
<1> HIDE DEF s, t, c, u
<1>3. 1 \in 1..1 /\ 1 + 1 = 2 /\ \A i \in 1..2 : i = 1 \/ i = 2
  OBVIOUS
<1>4. IsSeq(c) /\ Len(c) = 2 /\ c[1] = a /\ c[2] = b
  BY <1>1, <1>3 DEF Joins
<1>5. Equal(u, c)
  BY <1>2, <1>3, <1>4 DEF Equal
<1> QED
  BY <1>2, <1>4, <1>5, SameItems DEF s, t, c, u

\* Three fields are one behind the other.
LEMMA Triple == \A a, b, c : <<a, b, c>> = (<<a>> \o <<b>>) \o <<c>>
<1> TAKE a, b, c
<1> DEFINE s == <<a, b>>
           t == <<c>>
           j == s \o t
           u == <<a, b, c>>
<1>0. s = <<a>> \o <<b>>
  BY Pair, Zenon
<1>1. IsSeq(s) /\ Len(s) = 2 /\ s[1] = a /\ s[2] = b
  <2>1. s \in Seq({a, b})
    OBVIOUS
  <2> QED
    BY <2>1 DEF IsSeq
<1>2. IsSeq(t) /\ Len(t) = 1 /\ t[1] = c
  BY One1
<1>3. IsSeq(u) /\ Len(u) = 3 /\ u[1] = a /\ u[2] = b /\ u[3] = c
  <2>1. u \in Seq({a, b, c})
    OBVIOUS
  <2> QED
    BY <2>1 DEF IsSeq
<1> HIDE DEF s, t, u
<1>4. Joins(j, s, t)
  BY <1>1, <1>2, Joining
<1> HIDE DEF j
<1>5. 1 \in 1..2 /\ 2 \in 1..2 /\ 1 \in 1..1 /\ 2 + 1 = 3 /\ \A i \in 1..3 : i = 1 \/ i = 2 \/ i = 3
  OBVIOUS
<1>6. IsSeq(j) /\ Len(j) = 3 /\ j[1] = a /\ j[2] = b /\ j[3] = c
  BY <1>1, <1>2, <1>4, <1>5 DEF Joins
<1>7. Equal(u, j)
  BY <1>3, <1>5, <1>6 DEF Equal
<1>8. u = j
  BY <1>3, <1>6, <1>7, SameItems
<1> QED
  BY <1>0, <1>8, Zenon DEF t, j, u

\* A string, its length and its characters (serializeString).
LEMMA StringRestored == OneRestores("string")
<1>1. ASSUME NEW x PROVE IsSeq(Ser("string", x)) /\ \A r : RestoredBy(r, Ser("string", x), x, One("string", r))
  <2>1. Ser("string", x) = <<1>> \o <<x>>
    BY Pair DEF Ser, SerializeString
  <2> SUFFICES ASSUME NEW r
               PROVE  IsSeq(<<1>> \o <<x>>) /\ RestoredBy(r, <<1>> \o <<x>>, x, Read(Read(r)))
    BY <2>1, SkipTwo DEF One, DeserializeString
  <2> QED
    BY One1, ReadOne, ReadBehind
<1> QED
  BY <1>1 DEF OneRestores

\* An instruction, its opcode and its argument (Instruction::serialize).
LEMMA InstructionRestored == OneRestores("instruction")
<1>1. ASSUME NEW x, IsInstruction(x)
      PROVE  IsSeq(Ser("instruction", x)) /\ \A r : RestoredBy(r, Ser("instruction", x), x, One("instruction", r))
  <2>1. Ser("instruction", x) = <<x.op>> \o <<x.arg>>
    BY Pair DEF Ser, SerializeInstruction
  <2> DEFINE w == <<x.op>>
             u == <<x.arg>>
  <2>2. IsSeq(w) /\ IsSeq(u)
    BY One1
  <2>3. ASSUME NEW r
        PROVE  IsSeq(w \o u) /\ RestoredBy(r, w \o u, x, One("instruction", r))
    <3> DEFINE q == Read(r)
               p == Read(q)
               z == [op |-> q.v, arg |-> p.v]
    <3>1. RestoredBy(r, w, x.op, q) /\ RestoredBy(q, u, x.arg, p)
      BY ReadOne
    <3>2. One("instruction", r) = [p EXCEPT !.v = IF p.failed THEN 0 ELSE z]
      BY DEF One, DeserializeInstruction
    <3> HIDE DEF w, u, q, p
    <3>3. IsSeq(w \o u) /\ RestoredBy(r, w \o u, x.arg, p) /\ Behind(r, w, x.op, q, u, p)
      BY <2>2, <3>1, ReadBehind
    <3>4. Made(r, w \o u, x.arg, p, z, x)
      BY <1>1, <3>3 DEF Behind, Made, IsInstruction
    <3> HIDE DEF z
    <3> QED
      BY <3>2, <3>3, <3>4, MadeOfRead
  <2> HIDE DEF w, u
  <2> QED
    BY <2>1, <2>3 DEF w, u
<1> QED
  BY <1>1 DEF OneRestores, Item

\* A type number, a length and a value.
LEMMA TaggedRestored ==
    ASSUME NEW a, NEW b, NEW c, NEW r
    PROVE  /\ IsSeq(<<a, b, c>>)
           /\ RestoredBy(r, <<a, b, c>>, c, Read(Read(Read(r))))
           /\ \A p : p = Read(Read(Read(r))) /\ IsReader(r) /\ Ahead(r, <<a, b, c>>) /\ p.failed = FALSE => Read(r).v = a
<1> DEFINE w == <<a>>
           u == <<b>>
           y == <<c>>
           q == Read(r)
           o == Read(q)
           t == Read(o)
<1>1. <<a, b, c>> = (w \o u) \o y /\ IsSeq(w) /\ IsSeq(u) /\ IsSeq(y)
  BY Triple, One1
<1>2. RestoredBy(r, w, a, q) /\ RestoredBy(q, u, b, o) /\ RestoredBy(o, y, c, t)
  BY ReadOne
<1> HIDE DEF w, u, y, q, o, t
<1>3. IsSeq(w \o u) /\ RestoredBy(r, w \o u, b, o) /\ Behind(r, w, a, q, u, o)
  BY <1>1, <1>2, ReadBehind
<1> DEFINE wu == w \o u
<1> HIDE DEF wu
<1>4. IsSeq(wu \o y) /\ RestoredBy(r, wu \o y, c, t) /\ Behind(r, wu, b, o, y, t)
  BY <1>1, <1>2, <1>3, ReadBehind DEF wu
<1>5. IsReader(r) /\ Ahead(r, wu \o y) /\ t.failed = FALSE => q.v = a
  BY <1>3, <1>4 DEF Behind, wu
<1> QED
  BY <1>1, <1>4, <1>5 DEF wu, q, o, t

\* A number, a string or None is read back by its type number (deserializeObj).
LEMMA PrimitiveRestored == OneRestores("primitive")
<1>1. ASSUME NEW x, IsPrimitive(x)
      PROVE  IsSeq(Ser("primitive", x)) /\ \A r : RestoredBy(r, Ser("primitive", x), x, One("primitive", r))
  <2>1. PICK a, b : /\ SerializePrimitive(x) = <<a, b, x.v>>
                    /\ x = IF a = TypeNumber("Integer") THEN Integer(x.v) ELSE String(x.v)
    <3>1. CASE x = Integer(x.v)
      <4>1. SerializePrimitive(x) = <<1, 8, x.v>>
        BY <3>1 DEF SerializePrimitive, SerializeNumber, Integer, TypeNumber
      <4> QED
        BY <3>1, <4>1 DEF TypeNumber
    <3>2. CASE x = String(x.v)
      <4>1. x.t = "String"
        BY <3>2 DEF String
      <4>2. SerializePrimitive(x) = <<3>> \o <<1, x.v>>
        BY <4>1 DEF SerializePrimitive, SerializeString, TypeNumber
      <4> DEFINE l == <<3>>
                 m == <<1>>
                 n == <<x.v>>
      <4>3. <<3, 1, x.v>> = (l \o m) \o n
        BY Triple
      <4>4. <<1, x.v>> = m \o n
        BY Pair
      <4>5. IsSeq(l) /\ IsSeq(m) /\ IsSeq(n)
        BY One1
      <4>6. SerializePrimitive(x) = l \o (m \o n)
        BY <4>2, <4>4, Zenon
      <4> HIDE DEF l, m, n
      <4>7. (l \o m) \o n = l \o (m \o n)
        <5>1. Associate(l, m, n)
          BY <4>5, Associates
        <5> QED
          BY <5>1, Zenon DEF Associate
      <4>8. SerializePrimitive(x) = <<3, 1, x.v>>
        BY <4>3, <4>6, <4>7, Zenon
      <4> QED
        BY <3>2, <4>8 DEF TypeNumber
    <3> QED
      BY <1>1, <3>1, <3>2 DEF IsPrimitive
  <2> DEFINE w == <<a, b, x.v>>
  <2>2. ASSUME NEW r
        PROVE  IsSeq(w) /\ RestoredBy(r, w, x, One("primitive", r))
    <3> DEFINE tag == Read(r)
               p == Read(Read(tag))
               z == IF tag.v = TypeNumber("Integer") THEN Integer(p.v) ELSE String(p.v)
    <3>1. /\ IsSeq(w) /\ RestoredBy(r, w, x.v, p)
          /\ IsReader(r) /\ Ahead(r, w) /\ p.failed = FALSE => tag.v = a
      BY TaggedRestored
    <3>2. One("primitive", r) = [p EXCEPT !.v = IF p.failed THEN 0 ELSE z]
      BY SkipTwo DEF One, DeserializePrimitive
    <3> HIDE DEF w, tag, p
    <3>3. Made(r, w, x.v, p, z, x)
      BY <2>1, <3>1 DEF Made
    <3> HIDE DEF z
    <3> QED
      BY <3>1, <3>2, <3>3, MadeOfRead
  <2> HIDE DEF w
  <2> QED
    BY <2>1, <2>2 DEF Ser, w
<1> QED
  BY <1>1 DEF OneRestores, Item

-----------------------------------------------------------------------------
(* The readers of objects and functions.                                   *)

\* A primitive whose type number cannot be read is not read.
LEMMA PrimitiveFails == \A r : HasFailed(Read(r)) => HasFailed(One("primitive", r))
<1> TAKE r
<1> HAVE HasFailed(Read(r))
<1> DEFINE q == Read(r)
           p == Read(Read(q))
           z == IF q.v = TypeNumber("Integer") THEN Integer(p.v) ELSE String(p.v)
           w == IF p.failed THEN 0 ELSE z
<1>1. HasFailed(p)
  BY ReadFacts
<1>2. One("primitive", r) = [p EXCEPT !.v = w]
  BY SkipTwo DEF One, DeserializePrimitive
<1> HIDE DEF p, w
<1> QED
  BY <1>1, <1>2, ValueFailed, Zenon

\* What is written of a list is a stream.
LEMMA FlatIsSeq ==
    \A kind, items : OneRestores(kind) /\ Items(kind, items) =>
        IsSeq(Flat([n \in DOMAIN items |-> Ser(kind, items[n])])) /\ Len(items) \in Nat
<1> TAKE kind, items
<1> HAVE OneRestores(kind) /\ Items(kind, items)
<1> DEFINE m == Len(items)
           seqs == [n \in DOMAIN items |-> Ser(kind, items[n])]
<1>1. m \in Nat /\ DOMAIN items = 1..m /\ m \in 0..m
  BY SeqFacts DEF Items
<1>2. DOMAIN seqs = 1..m /\ Sequences(seqs, m)
  BY <1>1 DEF Sequences, OneRestores, Items
<1> HIDE DEF m, seqs
<1>3. PICK h : Pieces(h, seqs, m) /\ Flat(seqs) = h[m]
  BY <1>1, <1>2, FlatPieces
<1>4. Lie(h, seqs, m)
  BY <1>1, <1>2, <1>3, PiecesFacts
<1>5. IsSeq(Flat(seqs))
  BY <1>1, <1>3, <1>4 DEF Lie
<1> QED
  BY <1>1, <1>5 DEF m, seqs

\* A constant of the pool, a primitive or a tuple of them (TupleObj::deserialize).
LEMMA ObjectRestored == OneRestores("object")
<1>1. ASSUME NEW x, IsPrimitive(x)
      PROVE  IsSeq(Ser("object", x)) /\ \A r : RestoredBy(r, Ser("object", x), x, One("object", r))
  <2> DEFINE w == SerializePrimitive(x)
  <2>1. Ser("object", x) = w
    BY <1>1 DEF Ser, SerializeObj, IsPrimitive, Integer, String
  <2>2. IsSeq(w) /\ Len(w) \in Nat \ {0} /\ w[1] # TypeNumber("Tuple")
    <3>1. CASE x = Integer(x.v)
      <4>1. w = <<1, 8, x.v>>
        BY <3>1 DEF SerializePrimitive, SerializeNumber, Integer, TypeNumber
      <4> HIDE DEF w
      <4>2. w \in Seq({1, 8, x.v}) /\ Len(w) = 3 /\ w[1] = 1
        BY <4>1
      <4>3. IsSeq(w)
        BY <4>2, Zenon DEF IsSeq
      <4> QED
        BY <4>2, <4>3 DEF TypeNumber
    <3>2. CASE x = String(x.v)
      <4>1. x.t = "String"
        BY <3>2 DEF String
      <4> DEFINE u == <<1, x.v>>
      <4>2. w = <<3>> \o u
        BY <4>1 DEF SerializePrimitive, SerializeString, TypeNumber
      <4>3. u \in Seq({1, x.v})
        OBVIOUS
      <4>4. IsSeq(u)
        BY <4>3 DEF IsSeq
      <4> HIDE DEF u
      <4>5. IsSeq(<<3>> \o u) /\ Len(<<3>> \o u) = 1 + Len(u) /\ (<<3>> \o u)[1] = 3
        BY <4>4, CountedFacts
      <4>6. Len(u) \in Nat
        BY <4>4, SeqFacts
      <4> QED
        BY <4>2, <4>5, <4>6 DEF TypeNumber
    <3> QED
      BY <1>1, <3>1, <3>2 DEF IsPrimitive
  <2>3. ASSUME NEW r PROVE RestoredBy(r, w, x, One("object", r))
    <3> HIDE DEF w
    <3>1. RestoredBy(r, w, x, One("primitive", r))
      BY <1>1, PrimitiveRestored DEF OneRestores, Item, Ser, w
    <3>2. ASSUME Read(r).failed \/ Read(r).v # TypeNumber("Tuple") PROVE One("object", r) = One("primitive", r)
      BY <3>2 DEF One, DeserializeObj
    <3>3. ASSUME HasFailed(r) PROVE HasFailed(One("object", r))
      <4>1. HasFailed(Read(r))
        BY <3>3, ReadFacts
      <4>2. Read(r).failed = TRUE
        BY <4>1 DEF HasFailed
      <4> QED
        BY <3>2, <4>1, <4>2, PrimitiveFails
    <3>4. ASSUME IsReader(r), Ahead(r, w) PROVE Through(r, w, x, One("object", r))
      <4>1. IF r.at <= Len(r.s)
            THEN Read(r) = [s |-> r.s, at |-> r.at + 1, failed |-> FALSE, v |-> w[1]]
            ELSE HasFailed(Read(r))
        BY <2>2, <3>4, CountAhead
      <4>2. Read(r).failed = TRUE \/ Read(r).v = w[1]
        BY <4>1 DEF HasFailed
      <4> QED
        BY <2>2, <3>1, <3>2, <3>4, <4>2 DEF RestoredBy
    <3> QED
      BY <3>3, <3>4 DEF RestoredBy
  <2> HIDE DEF w
  <2> QED
    BY <2>1, <2>2, <2>3
<1>2. ASSUME NEW x, x = Tuple(x.v), Items("primitive", x.v)
      PROVE  IsSeq(Ser("object", x)) /\ \A r : RestoredBy(r, Ser("object", x), x, One("object", r))
  <2> DEFINE y == x.v
             four == <<TypeNumber("Tuple")>>
             many == SerMany("primitive", y)
             w == four \o many
  <2>1. IsSeq(many) /\ \A r : RestoredBy(r, many, y, Many("primitive", r))
    BY <1>2, PrimitiveRestored, ManyRestored DEF Kinds
  <2>2. IsSeq(four)
    BY One1
  <2>3. Ser("object", x) = w
    <3> DEFINE count == <<Len(y)>>
               flat == Flat([n \in DOMAIN y |-> Ser("primitive", y[n])])
    <3>1. x.t = "Tuple"
      BY <1>2 DEF Tuple
    <3>2. Ser("object", x) = <<TypeNumber("Tuple"), Len(y)>> \o flat
      BY <3>1 DEF Ser, SerializeObj
    <3>3. <<TypeNumber("Tuple"), Len(y)>> = four \o count
      BY Pair
    <3>4. IsSeq(count) /\ IsSeq(flat)
      BY <1>2, One1, FlatIsSeq, PrimitiveRestored
    <3>5. many = count \o flat
      BY DEF SerMany
    <3> HIDE DEF count, flat, four, many, y
    <3>6. (four \o count) \o flat = four \o (count \o flat)
      <4>1. Associate(four, count, flat)
        BY <2>2, <3>4, Associates
      <4> QED
        BY <4>1, Zenon DEF Associate
    <3> QED
      BY <3>2, <3>3, <3>5, <3>6, Zenon
  <2>4. ASSUME NEW r PROVE IsSeq(w) /\ RestoredBy(r, w, x, One("object", r))
    <3> DEFINE tag == Read(r)
               o == Many("primitive", tag)
               z == Tuple(o.v)
               e == [o EXCEPT !.v = IF o.failed THEN 0 ELSE z]
    <3>1. RestoredBy(r, four, TypeNumber("Tuple"), tag) /\ RestoredBy(tag, many, y, o)
      BY <2>1, ReadOne
    <3>2. One("object", r) =
            IF tag.failed \/ tag.v # TypeNumber("Tuple") THEN One("primitive", r) ELSE e
      BY DEF One, DeserializeObj, Many
    <3> HIDE DEF tag, o, four, many
    <3>3. IsSeq(w) /\ RestoredBy(r, w, y, o) /\ Behind(r, four, TypeNumber("Tuple"), tag, many, o)
      BY <2>1, <2>2, <3>1, ReadBehind
    <3>4. Made(r, w, y, o, z, x)
      BY <1>2 DEF Made
    <3>5. RestoredBy(r, w, x, e)
      <4> HIDE DEF z, w, y
      <4> QED
        BY <3>3, <3>4, MadeOfRead
    <3>6. HasFailed(tag) => HasFailed(One("primitive", r)) /\ HasFailed(o) /\ HasFailed(e)
      <4>1. HasFailed(tag) => HasFailed(One("primitive", r))
        BY PrimitiveFails DEF tag
      <4>2. HasFailed(tag) => HasFailed(o)
        BY <3>1 DEF RestoredBy
      <4> DEFINE v == IF o.failed THEN 0 ELSE z
      <4> HIDE DEF v, z
      <4>3. HasFailed(o) => HasFailed([o EXCEPT !.v = v])
        BY ValueFailed, Zenon
      <4> QED
        BY <4>1, <4>2, <4>3 DEF v
    <3> HIDE DEF e, w
    <3>7. ASSUME HasFailed(r) PROVE HasFailed(One("object", r))
      <4>1. HasFailed(tag) /\ tag.failed = TRUE
        BY <3>1, <3>7 DEF RestoredBy, HasFailed
      <4> QED
        BY <3>2, <3>6, <4>1
    <3>8. ASSUME IsReader(r), Ahead(r, w) PROVE Through(r, w, x, One("object", r))
      <4>1. Ahead(r, four)
        BY <2>1, <2>2, <3>8, AheadFirst DEF w
      <4>2. Through(r, four, TypeNumber("Tuple"), tag) /\ Through(r, w, x, e)
        BY <3>1, <3>5, <3>8, <4>1 DEF RestoredBy
      <4>3. CASE HasFailed(tag)
        <5>1. tag.failed = TRUE /\ e.failed = TRUE
          BY <3>6, <4>3 DEF HasFailed
        <5>2. One("object", r) = One("primitive", r)
          BY <3>2, <5>1
        <5> QED
          BY <3>6, <4>2, <4>3, <5>1, <5>2 DEF Through
      <4>4. CASE ~HasFailed(tag)
        <5>1. tag.failed = FALSE /\ tag.v = TypeNumber("Tuple")
          BY <4>2, <4>4 DEF Through
        <5>2. One("object", r) = e
          BY <3>2, <5>1
        <5> QED
          BY <4>2, <5>2
      <4> QED
        BY <4>3, <4>4
    <3> QED
      BY <3>3, <3>7, <3>8 DEF RestoredBy
  <2> HIDE DEF w
  <2> QED
    BY <2>3, <2>4
<1>3. \A x : IsObject(x) => IsPrimitive(x) \/ (x = Tuple(x.v) /\ Items("primitive", x.v))
  BY DEF IsObject, Items, Item
<1>4. \A x : Item("object", x) => IsObject(x)
  BY DEF Item
<1> QED
  BY <1>1, <1>2, <1>3, <1>4 DEF OneRestores

\* A function's name and its meta data, field by field (FuncMeta::deserialize).
LEMMA FunctionRestored == OneRestores("function")
<1>1. ASSUME NEW x, Item("function", x)
      PROVE  IsSeq(Ser("function", x)) /\ \A r : RestoredBy(r, Ser("function", x), x, One("function", r))
  <2> DEFINE m == x.meta
             a == Ser("string", x.name)
             b == <<m.addr>>
             c == <<m.argNum>>
             d == SerMany("object", m.cstPool)
             e == SerMany("string", m.names)
             w == (((a \o b) \o c) \o d) \o e
  <2>1. IsMeta(m) /\ x = [name |-> x.name, meta |-> m]
    BY <1>1 DEF Item
  <2>2. Items("object", m.cstPool) /\ Items("string", m.names)
    BY <2>1 DEF IsMeta, Items, Item
  <2>3. IsSeq(a) /\ \A r : RestoredBy(r, a, x.name, One("string", r))
    BY StringRestored DEF OneRestores, Item
  <2>4. IsSeq(b) /\ IsSeq(c)
    BY One1
  <2>5. IsSeq(d) /\ \A r : RestoredBy(r, d, m.cstPool, Many("object", r))
    BY <2>2, ObjectRestored, ManyRestored DEF Kinds
  <2>6. IsSeq(e) /\ \A r : RestoredBy(r, e, m.names, Many("string", r))
    BY <2>2, StringRestored, ManyRestored DEF Kinds
  <2>7. Ser("function", x) = w
    <3> DEFINE k == <<Len(m.cstPool)>>
               f == Flat([n \in DOMAIN m.cstPool |-> Ser("object", m.cstPool[n])])
               l == <<Len(m.names)>>
               g == Flat([n \in DOMAIN m.names |-> Ser("string", m.names[n])])
    <3>1. d = k \o f /\ e = l \o g
      BY DEF SerMany
    <3>2. IsSeq(k) /\ IsSeq(f) /\ IsSeq(l) /\ IsSeq(g)
      BY <2>2, One1, FlatIsSeq, ObjectRestored, StringRestored
    <3>3. Ser("function", x) = a \o SerializeFunc(m)
      BY DEF Ser
    <3>4. <<m.addr, m.argNum, Len(m.cstPool)>> = (b \o c) \o k
      BY Triple
    <3>5. SerializeFunc(m) = (((<<m.addr, m.argNum, Len(m.cstPool)>>) \o f) \o l) \o g
      BY DEF SerializeFunc, Ser
    <3> HIDE DEF a, b, c, d, e, k, f, l, g
    <3>6. SerializeFunc(m) = ((((b \o c) \o k) \o f) \o l) \o g
      BY <3>4, <3>5, Zenon
    <3> DEFINE bc == b \o c
               bcd == bc \o d
    <3>7. IsSeq(bc) /\ IsSeq(bcd)
      BY <2>4, <2>5, ConcatFacts
    <3>8. (bc \o k) \o f = bcd
      <4> HIDE DEF bc
      <4>1. (bc \o k) \o f = bc \o (k \o f)
        <5>1. Associate(bc, k, f)
          BY <3>2, <3>7, Associates
        <5> QED
          BY <5>1, Zenon DEF Associate
      <4> QED
        BY <3>1, <4>1, Zenon
    <3>9. (bcd \o l) \o g = bcd \o e
      <4> HIDE DEF bcd
      <4>0. IsSeq(bcd) /\ IsSeq(l) /\ IsSeq(g)
        BY <3>2, <3>7
      <4>1. (bcd \o l) \o g = bcd \o (l \o g)
        <5>1. Associate(bcd, l, g)
          BY <4>0, Associates
        <5> QED
          BY <5>1, Zenon DEF Associate
      <4> QED
        BY <3>1, <4>1, Zenon
    <3>10. Ser("function", x) = a \o (bcd \o e)
      BY <3>3, <3>6, <3>8, <3>9, Zenon
    <3>11. a \o (bcd \o e) = (a \o bcd) \o e
      <4> HIDE DEF bcd
      <4> QED
        <5>1. Associate(a, bcd, e)
          BY <2>3, <2>6, <3>7, Associates
        <5> QED
          BY <5>1, Zenon DEF Associate
    <3>12. a \o (bc \o d) = (a \o bc) \o d
      <4> HIDE DEF bc
      <4> QED
        <5>1. Associate(a, bc, d)
          BY <2>3, <2>5, <3>7, Associates
        <5> QED
          BY <5>1, Zenon DEF Associate
    <3>13. a \o (b \o c) = (a \o b) \o c
      <4>1. Associate(a, b, c)
        BY <2>3, <2>4, Associates
      <4> QED
        BY <4>1, Zenon DEF Associate
    <3> QED
      BY <3>10, <3>11, <3>12, <3>13, Zenon
  <2>8. ASSUME NEW r PROVE IsSeq(w) /\ RestoredBy(r, w, x, One("function", r))
    <3> DEFINE name == One("string", r)
               addr == Read(name)
               argNum == Read(addr)
               cst == Many("object", argNum)
               names == Many("string", cst)
               meta == [addr |-> addr.v, argNum |-> argNum.v, cstPool |-> cst.v, names |-> names.v]
               z == [name |-> name.v, meta |-> meta]
               ab == a \o b
               abc == ab \o c
               abcd == abc \o d
    <3>1. /\ RestoredBy(r, a, x.name, name) /\ RestoredBy(name, b, m.addr, addr)
          /\ RestoredBy(addr, c, m.argNum, argNum) /\ RestoredBy(argNum, d, m.cstPool, cst)
          /\ RestoredBy(cst, e, m.names, names)
      BY <2>3, <2>5, <2>6, ReadOne
    <3>2. One("function", r) = [names EXCEPT !.v = IF names.failed THEN 0 ELSE z]
      BY DEF One, DeserializeFunc, Many
    <3> HIDE DEF a, b, c, d, e, name, addr, argNum, cst, names
    <3>3. IsSeq(ab) /\ RestoredBy(r, ab, m.addr, addr) /\ Behind(r, a, x.name, name, b, addr)
      BY <2>3, <2>4, <3>1, ReadBehind
    <3> HIDE DEF ab
    <3>4. IsSeq(abc) /\ RestoredBy(r, abc, m.argNum, argNum) /\ Behind(r, ab, m.addr, addr, c, argNum)
      BY <2>4, <3>1, <3>3, ReadBehind
    <3> HIDE DEF abc
    <3>5. IsSeq(abcd) /\ RestoredBy(r, abcd, m.cstPool, cst) /\ Behind(r, abc, m.argNum, argNum, d, cst)
      BY <2>5, <3>1, <3>4, ReadBehind
    <3> HIDE DEF abcd
    <3>6. w = abcd \o e
      BY DEF ab, abc, abcd
    <3> HIDE DEF w
    <3>7. IsSeq(w) /\ RestoredBy(r, w, m.names, names) /\ Behind(r, abcd, m.cstPool, cst, e, names)
      <4>1. IsSeq(abcd \o e) /\ RestoredBy(r, abcd \o e, m.names, names) /\ Behind(r, abcd, m.cstPool, cst, e, names)
        BY <2>6, <3>1, <3>5, ReadBehind
      <4> QED
        BY <3>6, <4>1, Zenon
    <3>8. ASSUME IsReader(r), Ahead(r, w), names.failed = FALSE, names.v = m.names PROVE z = x
      <4>1. cst.v = m.cstPool /\ cst.failed = FALSE /\ Ahead(r, abcd)
        BY <3>6, <3>7, <3>8 DEF Behind
      <4>2. argNum.v = m.argNum /\ argNum.failed = FALSE /\ Ahead(r, abc)
        BY <3>5, <3>8, <4>1 DEF Behind, abcd
      <4>3. addr.v = m.addr /\ addr.failed = FALSE /\ Ahead(r, ab)
        BY <3>4, <3>8, <4>2 DEF Behind, abc
      <4>4. name.v = x.name
        BY <3>3, <3>8, <4>3 DEF Behind, ab
      <4>5. meta = m
        BY <2>1, <3>8, <4>1, <4>2, <4>3 DEF IsMeta
      <4> HIDE DEF meta
      <4> QED
        BY <2>1, <4>4, <4>5
    <3> HIDE DEF z
    <3>9. Made(r, w, m.names, names, z, x)
      BY <3>8 DEF Made
    <3> HIDE DEF m
    <3> QED
      BY <3>2, <3>7, <3>9, MadeOfRead
  <2> HIDE DEF w
  <2> QED
    BY <2>7, <2>8
<1> QED
  BY <1>1 DEF OneRestores

-----------------------------------------------------------------------------
(* The file.                                                               *)

IsFile(whole) ==
    /\ Items("instruction", whole.code) /\ IsFiniteSet(DOMAIN whole.funcs)
    /\ \A f \in DOMAIN whole.funcs : IsMeta(whole.funcs[f])
\* The functions are written one behind the other, each of them once.
IsOrder(order, funcs) ==
    order \in [1..Cardinality(DOMAIN funcs) -> DOMAIN funcs] /\ IsInjective(order)
InOrder(whole, order) == [n \in DOMAIN order |-> [name |-> order[n], meta |-> whole.funcs[order[n]]]]
\* The file behind a copy of its meta data.
Copied(whole) == [funcs |-> [f \in DOMAIN whole.funcs |-> CopyMeta(whole.funcs[f])], code |-> whole.code]

\* An order the functions are written in names every function (the hash map's own).
LEMMA OrderCovers ==
    ASSUME NEW funcs, NEW order, IsFiniteSet(DOMAIN funcs), IsOrder(order, funcs)
    PROVE  /\ Cardinality(DOMAIN funcs) \in Nat /\ DOMAIN order = 1..Cardinality(DOMAIN funcs)
           /\ {order[i] : i \in 1..Cardinality(DOMAIN funcs)} = DOMAIN funcs
           /\ order \in Seq(DOMAIN funcs) /\ Len(order) = Cardinality(DOMAIN funcs)
<1> DEFINE D == DOMAIN funcs
           m == Cardinality(D)
<1>1. m \in Nat
  BY FS_CardinalityType
<1> HIDE DEF D
<1>2. order \in [1..m -> D] /\ IsInjective(order) /\ IsFiniteSet(D)
  BY DEF IsOrder, D
<1> HIDE DEF m
<1>3. Cardinality(1..m) = m
  BY <1>1, FS_Interval
<1>4. order \in Injection(1..m, D)
  BY <1>2 DEF Injection, IsInjective
<1>5. Cardinality(1..m) = Cardinality(D) => order \in Surjection(1..m, D)
  BY <1>2, <1>4, FS_Injection
<1>6. order \in Surjection(1..m, D)
  BY <1>3, <1>5 DEF m
<1>7. {order[i] : i \in 1..m} = D
  BY <1>2, <1>6 DEF Surjection
<1>8. order \in Seq(D) /\ Len(order) = m
  BY <1>1, <1>2
<1> QED
  BY <1>1, <1>2, <1>7, <1>8 DEF D, m

\* The functions that were read, put into an empty map, are those that were
\* written, but for argNum, which a copy of FuncMeta does not take along.
LEMMA PutAll ==
    ASSUME NEW whole, NEW order, IsFiniteSet(DOMAIN whole.funcs), IsOrder(order, whole.funcs)
    PROVE  Putting!Fold(NoFuncs, InOrder(whole, order)) = Copied(whole).funcs
<1> DEFINE m == Cardinality(DOMAIN whole.funcs)
           fns == InOrder(whole, order)
           Upto(k) == {order[i] : i \in 1..k}
           Copies(k) == [f \in Upto(k) |-> CopyMeta(whole.funcs[f])]
<1>1. m \in Nat /\ DOMAIN order = 1..m /\ Upto(m) = DOMAIN whole.funcs
  BY OrderCovers
<1>2. DOMAIN fns = 1..m /\ \A k \in 1..m : fns[k].name = order[k] /\ fns[k].meta = whole.funcs[order[k]]
  BY <1>1 DEF InOrder
<1> HIDE DEF m, fns
<1>3. PICK g : Putting!Stepwise(g, NoFuncs, fns, m) /\ Putting!Fold(NoFuncs, fns) = g[m]
  BY <1>1, <1>2, Putting!FoldSteps
<1> DEFINE S == {k \in 0..m : g[k] = Copies(k)}
<1>4. 0 \in S
  <2>1. Upto(0) = {}
    OBVIOUS
  <2>2. g[0] = NoFuncs
    BY <1>3 DEF Putting!Stepwise
  <2> DEFINE none == [f \in {} |-> CopyMeta(whole.funcs[f])]
  <2>3. none = [f \in {} |-> 0]
    OBVIOUS
  <2>4. Copies(0) = none
    BY <2>1, Zenon
  <2> HIDE DEF Copies, none
  <2>5. g[0] = Copies(0)
    BY <2>2, <2>3, <2>4, Zenon DEF NoFuncs
  <2> QED
    BY <1>1, <2>5
<1>5. ASSUME NEW k \in 1..m, k - 1 \in S PROVE k \in S
  <2>1. g[k] = With(g[k - 1], order[k], CopyMeta(whole.funcs[order[k]]))
    BY <1>2, <1>3 DEF Putting!Stepwise, PutFunc
  <2>2. Upto(k) = Upto(k - 1) \cup {order[k]}
    BY <1>1
  <2>3. g[k - 1] = Copies(k - 1)
    BY <1>5
  <2>4. g[k] = Copies(k)
    BY <2>1, <2>2, <2>3 DEF With
  <2> QED
    BY <1>1, <2>4
<1> HIDE DEF S
<1>6. 0..m \subseteq S
  BY <1>1, <1>4, <1>5, Flattening!PlacesInduction
<1>7. g[m] = Copies(m)
  BY <1>1, <1>6 DEF S
<1> QED
  BY <1>1, <1>3, <1>7 DEF Copied, fns

\* The file is its magic word, its functions and its code (LeechFile::serialize).
LEMMA FileWritten ==
    ASSUME NEW whole, NEW order, IsFile(whole), IsOrder(order, whole.funcs)
    PROVE  /\ Items("function", InOrder(whole, order))
           /\ Serialize(whole, order) =
                (<<"theLEECH">> \o SerMany("function", InOrder(whole, order))) \o SerMany("instruction", whole.code)
<1> DEFINE fns == InOrder(whole, order)
           m == Cardinality(DOMAIN whole.funcs)
<1>1. /\ m \in Nat /\ DOMAIN order = 1..m /\ Len(order) = m
      /\ \A n \in 1..m : order[n] \in DOMAIN whole.funcs
  BY OrderCovers DEF IsFile, IsOrder
<1> HIDE DEF m
<1>2. /\ DOMAIN fns = 1..m
      /\ \A n \in 1..m : fns[n] = [name |-> order[n], meta |-> whole.funcs[order[n]]]
  BY <1>1 DEF InOrder
<1> HIDE DEF fns
<1>3. fns \in Seq({fns[n] : n \in 1..m}) /\ Len(fns) = m
  <2>1. fns = [n \in 1..m |-> [name |-> order[n], meta |-> whole.funcs[order[n]]]]
    BY <1>1 DEF fns, InOrder
  <2> DEFINE T == {fns[n] : n \in 1..m}
  <2>2. fns \in [1..m -> T]
    BY <1>2, <2>1
  <2> HIDE DEF T
  <2>3. fns \in Seq(T) /\ Len(fns) = m
    BY <1>1, <2>2
  <2> QED
    BY <2>3 DEF T
<1>4. Items("function", fns)
  <2>1. IsSeq(fns)
    BY <1>3 DEF IsSeq
  <2>2. ASSUME NEW n \in 1..m PROVE Item("function", fns[n])
    BY <1>1, <1>2 DEF Item, IsFile
  <2> QED
    BY <1>2, <2>1, <2>2 DEF Items
<1> DEFINE a == <<"theLEECH">>
           b == <<Len(order)>>
           f == Flat([n \in DOMAIN fns |-> Ser("function", fns[n])])
           c == <<Len(whole.code)>>
           i == Flat([n \in DOMAIN whole.code |-> Ser("instruction", whole.code[n])])
<1>5. IsSeq(a) /\ IsSeq(b) /\ IsSeq(c) /\ IsSeq(f) /\ IsSeq(i)
  BY <1>4, One1, FlatIsSeq, FunctionRestored, InstructionRestored DEF IsFile
<1>6. SerMany("function", fns) = b \o f /\ SerMany("instruction", whole.code) = c \o i
  BY <1>1, <1>3 DEF SerMany
<1>7. <<"theLEECH", Len(order)>> = a \o b
  BY Pair
<1>8. Serialize(whole, order) = ((<<"theLEECH", Len(order)>> \o f) \o c) \o i
  <2>1. [n \in DOMAIN order |-> SerializeString(order[n]) \o SerializeFunc(whole.funcs[order[n]])]
          = [n \in DOMAIN fns |-> Ser("function", fns[n])]
    <3>1. \A x : Ser("function", x) = SerializeString(x.name) \o SerializeFunc(x.meta)
      BY DEF Ser
    <3>2. \A n \in 1..m : fns[n].name = order[n] /\ fns[n].meta = whole.funcs[order[n]]
      BY <1>2
    <3>3. DOMAIN order = DOMAIN fns /\ DOMAIN fns = 1..m
      BY <1>1, <1>2
    <3> QED
      BY <3>1, <3>2, <3>3
  <2>2. [n \in DOMAIN whole.code |-> SerializeInstruction(whole.code[n])]
          = [n \in DOMAIN whole.code |-> Ser("instruction", whole.code[n])]
    BY DEF Ser
  <2> QED
    BY <2>1, <2>2 DEF Serialize
<1> HIDE DEF a, b, c, f, i
<1>9. (a \o b) \o f = a \o (b \o f)
  <2>1. Associate(a, b, f)
    BY <1>5, Associates
  <2> QED
    BY <2>1, Zenon DEF Associate
<1> DEFINE af == a \o (b \o f)
<1>10. IsSeq(af)
  BY <1>5, ConcatFacts
<1>11. (af \o c) \o i = af \o (c \o i)
  <2> HIDE DEF af
  <2> QED
    <3>1. Associate(af, c, i)
      BY <1>5, <1>10, Associates
    <3> QED
      BY <3>1, Zenon DEF Associate
<1>12. Serialize(whole, order) = (a \o SerMany("function", fns)) \o SerMany("instruction", whole.code)
  BY <1>6, <1>7, <1>8, <1>9, <1>11, Zenon
<1> QED
  BY <1>4, <1>12 DEF a, fns

\* A dump that was cut is refused; a whole one is the file, but for the argument counts.
THEOREM FileRestored ==
    ASSUME NEW whole, NEW order, IsFile(whole), IsOrder(order, whole.funcs), NEW n \in 1..Len(Serialize(whole, order))
    PROVE  /\ Len(Serialize(whole, order)) \in Nat
           /\ Deserialize(SubSeq(Serialize(whole, order), 1, n)) =
                IF n = Len(Serialize(whole, order)) THEN [failed |-> FALSE, file |-> Copied(whole)] ELSE [failed |-> TRUE]
<1> DEFINE all == Serialize(whole, order)
           fns == InOrder(whole, order)
           a == <<"theLEECH">>
           f == SerMany("function", fns)
           c == SerMany("instruction", whole.code)
           s == SubSeq(all, 1, n)
           r == Reader(s)
           magic == Read(r)
           funcs == Many("function", magic)
           code == Many("instruction", funcs)
<1>1. all = (a \o f) \o c /\ Items("function", fns)
  BY FileWritten
<1>2. /\ IsSeq(a) /\ IsSeq(f) /\ IsSeq(c) /\ RestoredBy(r, a, "theLEECH", magic)
      /\ RestoredBy(magic, f, fns, funcs) /\ RestoredBy(funcs, c, whole.code, code)
  BY <1>1, One1, ReadOne, FunctionRestored, InstructionRestored, ManyRestored DEF Kinds, IsFile
<1>3. Deserialize(s) =
        IF magic.failed \/ magic.v # "theLEECH" \/ code.failed THEN [failed |-> TRUE]
        ELSE [failed |-> FALSE, file |-> [funcs |-> Putting!Fold(NoFuncs, funcs.v), code |-> code.v]]
  BY DEF Deserialize, Many, PutFunc, Putting!Fold, FoldLeft, Putting!FoldLeft,
         MapThenFoldSet, Putting!MapThenFoldSet, Max, Putting!Max
<1> HIDE DEF magic, funcs, code, a, f, c, fns
<1> DEFINE af == a \o f
<1>4. IsSeq(af) /\ RestoredBy(r, af, fns, funcs) /\ Behind(r, a, "theLEECH", magic, f, funcs)
  <2> HIDE DEF r
  <2> QED
    BY <1>2, ReadBehind
<1> HIDE DEF af
<1>5. all = af \o c
  BY <1>1 DEF af
<1>6. IsSeq(all) /\ RestoredBy(r, all, whole.code, code) /\ Behind(r, af, fns, funcs, c, code)
  <2> HIDE DEF r, all
  <2>1. IsSeq(af \o c) /\ RestoredBy(r, af \o c, whole.code, code) /\ Behind(r, af, fns, funcs, c, code)
    BY <1>2, <1>4, ReadBehind
  <2> QED
    BY <1>5, <2>1, Zenon
<1>7. n \in 1..Len(all)
  OBVIOUS
<1> HIDE DEF all
<1>8. Len(all) \in Nat /\ Len(s) = n /\ \A i \in 1..n : s[i] = all[i]
  <2>1. PICK S : all \in Seq(S)
    BY <1>6 DEF IsSeq
  <2> QED
    BY <1>7, <2>1, LenProperties, SubSeqProperties
<1> HIDE DEF s
<1>9. r = [s |-> s, at |-> 1, failed |-> FALSE, v |-> 0]
  BY DEF Reader
<1>10. r.s = s /\ r.at = 1 /\ r.failed = FALSE /\ r.v = 0
  BY <1>9
<1>11. IsReader(r)
  BY <1>7, <1>8, <1>9, <1>10 DEF IsReader
<1>12. Ahead(r, all)
  BY <1>7, <1>8, <1>10 DEF Ahead
<1> HIDE DEF r
<1>13. Through(r, all, whole.code, code)
  BY <1>6, <1>11, <1>12 DEF RestoredBy
<1>14. CASE n = Len(all)
  <2>1. code.failed = FALSE /\ code.v = whole.code
    BY <1>8, <1>10, <1>13, <1>14 DEF Through
  <2>2. Ahead(r, af) /\ funcs.failed = FALSE /\ funcs.v = fns
    BY <1>5, <1>6, <1>11, <1>12, <2>1 DEF Behind
  <2>3. magic.failed = FALSE /\ magic.v = "theLEECH"
    BY <1>4, <1>11, <2>2 DEF Behind, af
  <2>4. Putting!Fold(NoFuncs, fns) = Copied(whole).funcs
    BY PutAll DEF IsFile, fns
  <2>5. Copied(whole) = [funcs |-> Copied(whole).funcs, code |-> whole.code]
    BY DEF Copied
  <2> QED
    BY <1>3, <1>8, <1>14, <2>1, <2>2, <2>3, <2>4, <2>5 DEF all, s
<1>15. CASE n # Len(all)
  <2>1. code.failed = TRUE
    BY <1>7, <1>8, <1>10, <1>13, <1>15 DEF Through, HasFailed
  <2> QED
    BY <1>3, <1>8, <1>15, <2>1 DEF all, s
<1> QED
  BY <1>14, <1>15

-----------------------------------------------------------------------------
(* The front end.                                                          *)

Entries == INSTANCE FoldInduction WITH op <- ParseEntry
Headers == INSTANCE FoldInduction WITH op <- ParseFunc

IsCode(code) ==
    IsSeq(code) /\ \A k \in DOMAIN code : IsInstruction(code[k]) /\ code[k].arg \in Nat
IsPool(pool) == IsSeq(pool) /\ \A k \in DOMAIN pool : IsObject(pool[k])
IsFuncs(funcs) ==
    /\ funcs = [f \in DOMAIN funcs |-> funcs[f]] /\ IsFiniteSet(DOMAIN funcs)
    /\ \A f \in DOMAIN funcs : IsMeta(funcs[f]) /\ funcs[f].addr \in Nat /\ funcs[f].argNum \in Nat
DriverOf(funcs, code, labels, forward, instrCount, globalInstrCount) ==
    [funcs |-> funcs, code |-> code, labels |-> labels, forward |-> forward,
     instrCount |-> instrCount, globalInstrCount |-> globalInstrCount]
IsDriver(d) ==
    /\ d = DriverOf(d.funcs, d.code, d.labels, d.forward, d.instrCount, d.globalInstrCount)
    /\ IsFuncs(d.funcs) /\ IsCode(d.code)
    /\ \A l \in DOMAIN d.labels : d.labels[l] \in Nat
    /\ d.instrCount \in Nat /\ d.globalInstrCount \in Nat

\* What the grammar calls a list is a sequence.
LEMMA ListIsSeq == \A s : IsList(s) => IsSeq(s)
<1> SUFFICES ASSUME NEW s, IsList(s) PROVE IsSeq(s)
  OBVIOUS
<1> DEFINE m == Len(s)
           T == {s[k] : k \in 1..m}
<1>1. m \in Nat /\ s = [k \in 1..m |-> s[k]]
  BY DEF IsList
<1> HIDE DEF m
<1>2. s \in [1..m -> T]
  BY <1>1
<1> HIDE DEF T
<1>3. s \in Seq(T)
  BY <1>1, <1>2
<1> QED
  BY <1>3 DEF IsSeq

\* An argument cut to its eight bits is a number (ArgType).
LEMMA ArgIsNat == \A n \in Nat : n % ArgLimit \in Nat
  BY ArgLimitAssumption

\* An instruction behind good code leaves good code (parser.y, codeEntry).
LEMMA CodeAppended ==
    \A code, op, n : IsCode(code) /\ n \in Nat => IsCode(Append(code, [op |-> op, arg |-> n]))
<1> SUFFICES ASSUME NEW code, NEW op, NEW n \in Nat, IsCode(code), NEW S, code \in Seq(S)
             PROVE  IsCode(Append(code, [op |-> op, arg |-> n]))
  BY DEF IsCode, IsSeq
<1> DEFINE e == [op |-> op, arg |-> n]
           T == S \cup {e}
<1>1. code \in Seq(T) /\ e \in T /\ Len(code) \in Nat /\ DOMAIN code = 1..Len(code)
  BY SeqMonotonic, LenProperties
<1>2. IsInstruction(e) /\ e.arg \in Nat
  BY DEF IsInstruction
<1> HIDE DEF e, T
<1> DEFINE c == Append(code, e)
<1>3. c \in Seq(T) /\ DOMAIN c = 1..(Len(code) + 1)
      /\ (\A k \in 1..Len(code) : c[k] = code[k]) /\ c[Len(code) + 1] = e
  BY <1>1, AppendProperties
<1> HIDE DEF c
<1>4. IsCode(c)
  <2>1. IsSeq(c)
    BY <1>3 DEF IsSeq
  <2>2. ASSUME NEW k \in DOMAIN c PROVE IsInstruction(c[k]) /\ c[k].arg \in Nat
    <3>1. CASE k = Len(code) + 1
      BY <1>2, <1>3, <3>1
    <3>2. CASE k # Len(code) + 1
      <4>1. k \in 1..Len(code)
        BY <1>1, <1>3, <3>2
      <4> QED
        BY <1>1, <1>3, <4>1 DEF IsCode
    <3> QED
      BY <3>1, <3>2
  <2> QED
    BY <2>1, <2>2 DEF IsCode
<1> QED
  BY <1>4 DEF c, e

\* Patching the argument of a forward branch leaves good code (parser.y, codeEntry).
LEMMA ArgSet ==
    \A code, j, n : IsCode(code) /\ n \in Nat => IsCode([code EXCEPT ![j].arg = n])
<1> SUFFICES ASSUME NEW code, NEW j, NEW n \in Nat, IsCode(code)
             PROVE  IsCode([code EXCEPT ![j].arg = n])
  OBVIOUS
<1> DEFINE c == [code EXCEPT ![j].arg = n]
           m == Len(code)
           T == {c[k] : k \in 1..m}
<1>1. m \in Nat /\ DOMAIN code = 1..m
  BY SeqFacts DEF IsCode
<1>2. c \in [1..m -> T]
  BY <1>1
<1>3. IsSeq(c)
  <2> HIDE DEF c, T, m
  <2>1. c \in Seq(T)
    BY <1>1, <1>2
  <2> QED
    BY <2>1 DEF IsSeq
<1>4. ASSUME NEW k \in 1..m PROVE IsInstruction(c[k]) /\ c[k].arg \in Nat
  <2>1. IsInstruction(code[k]) /\ code[k].arg \in Nat
    BY <1>1 DEF IsCode
  <2> DEFINE e == code[k]
  <2>2. CASE k = j
    <3>1. c[k] = [e EXCEPT !.arg = n]
      BY <1>1, <2>2
    <3>2. e = [op |-> e.op, arg |-> e.arg]
      BY <2>1 DEF IsInstruction
    <3> HIDE DEF e, c
    <3>3. c[k] = [op |-> e.op, arg |-> n]
      BY <3>1, <3>2
    <3> QED
      BY <3>3 DEF IsInstruction
  <2>3. CASE k # j
    <3>1. c[k] = code[k]
      BY <1>1, <2>3
    <3> QED
      BY <2>1, <3>1
  <2> QED
    BY <2>2, <2>3
<1>5. DOMAIN c = 1..m
  BY <1>1
<1> HIDE DEF c
<1>6. IsCode(c)
  BY <1>3, <1>4, <1>5 DEF IsCode
<1> QED
  BY <1>6 DEF c

\* A pool behind a pool is a pool (parser.y, constants).
LEMMA PoolJoined == \A s, t : IsPool(s) /\ IsPool(t) => IsPool(s \o t)
<1> TAKE s, t
<1> HAVE IsPool(s) /\ IsPool(t)
<1> DEFINE c == s \o t
<1>1. IsSeq(s) /\ IsSeq(t)
  BY DEF IsPool
<1>2. Joins(c, s, t) /\ Len(s) \in Nat /\ Len(t) \in Nat /\ DOMAIN s = 1..Len(s) /\ DOMAIN t = 1..Len(t)
  BY <1>1, Joining, SeqFacts
<1> HIDE DEF c
<1>3. IsSeq(c) /\ DOMAIN c = 1..(Len(s) + Len(t))
  BY <1>2, SeqFacts DEF Joins
<1>4. ASSUME NEW k \in DOMAIN c PROVE IsObject(c[k])
  <2>1. CASE k <= Len(s)
    <3>1. k \in 1..Len(s)
      BY <1>3, <2>1
    <3>2. c[k] = s[k]
      BY <1>2, <3>1 DEF Joins
    <3> QED
      BY <1>2, <3>1, <3>2 DEF IsPool
  <2>2. CASE ~(k <= Len(s))
    <3> DEFINE i == k - Len(s)
    <3>1. i \in 1..Len(t) /\ Len(s) + i = k
      BY <1>2, <1>3, <2>2
    <3> HIDE DEF i
    <3>2. c[Len(s) + i] = t[i]
      BY <1>2, <3>1 DEF Joins
    <3> QED
      BY <1>2, <3>1, <3>2 DEF IsPool
  <2> QED
    BY <2>1, <2>2
<1>5. IsPool(c)
  BY <1>3, <1>4 DEF IsPool
<1> QED
  BY <1>5 DEF c

\* What the grammar allows for constants can be written and read back.
LEMMA ConstantsArePool ==
    \A s : IsList(s) /\ (\A k \in DOMAIN s : IsConstant(s[k])) => IsPool(s)
  BY ListIsSeq DEF IsPool, IsConstant, IsObject

\* A driver made of good parts is a good one.
LEMMA DriverIs ==
    ASSUME NEW a, NEW b, NEW c, NEW e, NEW i, NEW g,
           IsFuncs(a), IsCode(b), \A l \in DOMAIN c : c[l] \in Nat, i \in Nat, g \in Nat
    PROVE  IsDriver(DriverOf(a, b, c, e, i, g))
<1> DEFINE d == DriverOf(a, b, c, e, i, g)
<1>1. d.funcs = a /\ d.code = b /\ d.labels = c /\ d.forward = e /\ d.instrCount = i /\ d.globalInstrCount = g
  BY DEF DriverOf
<1> HIDE DEF d
<1>2. d = DriverOf(d.funcs, d.code, d.labels, d.forward, d.instrCount, d.globalInstrCount)
  BY <1>1, Zenon DEF d
<1> QED
  BY <1>1, <1>2, Zenon DEF IsDriver, d

\* One instruction of the text is put behind the code (parser.y, instruction).
LEMMA InstructionIs ==
    ASSUME NEW d, NEW inst, IsDriver(d)
    PROVE  ParseInstruction(d, inst) =
             DriverOf(d.funcs, Append(d.code, inst), d.labels, d.forward, d.instrCount + 1, d.globalInstrCount + 1)
<1> DEFINE code == Append(d.code, inst)
           i == d.instrCount + 1
           g == d.globalInstrCount + 1
<1>1. ParseInstruction(d, inst) = [d EXCEPT !.code = code, !.instrCount = i, !.globalInstrCount = g]
  BY DEF ParseInstruction
<1> HIDE DEF code, i, g
<1>2. ParseInstruction(d, inst) = DriverOf(d.funcs, code, d.labels, d.forward, i, g)
  BY <1>1 DEF IsDriver, DriverOf
<1> QED
  BY <1>2 DEF code, i, g

\* What it leaves is a driver.
LEMMA InstructionParsed ==
    ASSUME NEW d, NEW op, NEW n \in Nat, IsDriver(d)
    PROVE  IsDriver(ParseInstruction(d, [op |-> op, arg |-> n]))
<1> DEFINE code == Append(d.code, [op |-> op, arg |-> n])
<1>1. IsCode(code) /\ IsFuncs(d.funcs) /\ \A l \in DOMAIN d.labels : d.labels[l] \in Nat
  BY CodeAppended DEF IsDriver
<1>2. ParseInstruction(d, [op |-> op, arg |-> n]) =
        DriverOf(d.funcs, code, d.labels, d.forward, d.instrCount + 1, d.globalInstrCount + 1)
  BY InstructionIs
<1>3. d.instrCount + 1 \in Nat /\ d.globalInstrCount + 1 \in Nat
  BY DEF IsDriver
<1> HIDE DEF code
<1>4. IsDriver(DriverOf(d.funcs, code, d.labels, d.forward, d.instrCount + 1, d.globalInstrCount + 1))
  BY <1>1, <1>3, DriverIs
<1> QED
  BY <1>2, <1>4

\* The code once the branch that waits for a label, if one does, knows its place.
Patched(d, label) ==
    IF label \in DOMAIN d.forward THEN [d.code EXCEPT ![d.forward[label] + 1].arg = d.instrCount % ArgLimit] ELSE d.code

\* One label of the text, with the forward branch it ends (parser.y, codeEntry).
LEMMA LabelIs ==
    ASSUME NEW d, NEW label, IsDriver(d)
    PROVE  ParseLabel(d, label) =
             DriverOf(d.funcs, Patched(d, label), With(d.labels, label, d.instrCount), d.forward, d.instrCount, d.globalInstrCount)
<1> DEFINE labels == With(d.labels, label, d.instrCount)
           code == Patched(d, label)
<1>1. ParseLabel(d, label) = [d EXCEPT !.labels = labels, !.code = code]
  BY DEF ParseLabel, Patched
<1> HIDE DEF labels, code
<1>2. ParseLabel(d, label) = DriverOf(d.funcs, code, labels, d.forward, d.instrCount, d.globalInstrCount)
  BY <1>1 DEF IsDriver, DriverOf
<1> QED
  BY <1>2 DEF labels, code

\* What it leaves is a driver.
LEMMA LabelParsed ==
    ASSUME NEW d, NEW label, IsDriver(d)
    PROVE  IsDriver(ParseLabel(d, label))
<1> DEFINE labels == With(d.labels, label, d.instrCount)
           code == Patched(d, label)
<1>1. /\ d.instrCount \in Nat /\ d.globalInstrCount \in Nat /\ IsCode(d.code)
      /\ IsFuncs(d.funcs) /\ \A l \in DOMAIN d.labels : d.labels[l] \in Nat
  BY DEF IsDriver
<1>2. d.instrCount % ArgLimit \in Nat
  BY <1>1, ArgIsNat
<1>3. IsCode(code)
  BY <1>1, <1>2, ArgSet DEF Patched
<1>4. \A l \in DOMAIN labels : labels[l] \in Nat
  BY <1>1 DEF With
<1>5. ParseLabel(d, label) = DriverOf(d.funcs, code, labels, d.forward, d.instrCount, d.globalInstrCount)
  BY LabelIs
<1> HIDE DEF labels, code
<1>6. IsDriver(DriverOf(d.funcs, code, labels, d.forward, d.instrCount, d.globalInstrCount))
  BY <1>1, <1>3, <1>4, DriverIs
<1> QED
  BY <1>5, <1>6

\* A branch to a label that is not known is noted (parser.y, instruction).
Waiting(d, label) == [d EXCEPT !.forward = With(@, label, d.globalInstrCount)]
LEMMA WaitingIs ==
    ASSUME NEW d, NEW label, IsDriver(d)
    PROVE  /\ Waiting(d, label) =
                DriverOf(d.funcs, d.code, d.labels, With(d.forward, label, d.globalInstrCount), d.instrCount, d.globalInstrCount)
           /\ IsDriver(Waiting(d, label))
<1> DEFINE f == With(d.forward, label, d.globalInstrCount)
           w == Waiting(d, label)
<1>1. w = DriverOf(d.funcs, d.code, d.labels, f, d.instrCount, d.globalInstrCount)
  <2>1. w = [d EXCEPT !.forward = f]
    BY DEF Waiting
  <2> HIDE DEF f, w
  <2> QED
    BY <2>1 DEF IsDriver, DriverOf
<1> HIDE DEF f, w
<1>2. IsDriver(DriverOf(d.funcs, d.code, d.labels, f, d.instrCount, d.globalInstrCount))
  BY DriverIs DEF IsDriver
<1>3. IsDriver(w)
  BY <1>1, <1>2
<1> QED
  BY <1>1, <1>3 DEF f, w

\* One line of a function's code, whichever it is.
LEMMA EntryParsed ==
    ASSUME NEW d, NEW entry, IsDriver(d), IsEntry(entry)
    PROVE  IsDriver(ParseEntry(d, entry))
<1>1. CASE entry = Label(entry.label)
  <2>1. entry.e = "label"
    <3>1. Label(entry.label).e = "label"
      BY DEF Label
    <3> QED
      BY <1>1, <3>1, Zenon
  <2>2. ParseEntry(d, entry) = ParseLabel(d, entry.label)
    BY <2>1 DEF ParseEntry
  <2> QED
    BY <2>2, LabelParsed
<1>2. CASE entry = Op(entry.op, entry.arg) /\ entry.arg \in Nat
  <2>1. entry.e = "instruction"
    <3>1. Op(entry.op, entry.arg).e = "instruction"
      BY DEF Op
    <3> QED
      BY <1>2, <3>1, Zenon
  <2>2. ParseEntry(d, entry) = ParseInstruction(d, [op |-> entry.op, arg |-> entry.arg % ArgLimit])
    BY <2>1 DEF ParseEntry, Instruction
  <2> QED
    BY <1>2, <2>2, ArgIsNat, InstructionParsed
<1>3. CASE entry = Branch(entry.op, entry.label)
  <2>1. entry.e = "branch"
    <3>1. Branch(entry.op, entry.label).e = "branch"
      BY DEF Branch
    <3> QED
      BY <1>3, <3>1, Zenon
  <2>2. ParseEntry(d, entry) =
          IF entry.label \in DOMAIN d.labels
          THEN ParseInstruction(d, [op |-> entry.op, arg |-> d.labels[entry.label] % ArgLimit])
          ELSE ParseInstruction(Waiting(d, entry.label), [op |-> entry.op, arg |-> 0 % ArgLimit])
    BY <2>1 DEF ParseEntry, Instruction, Waiting
  <2>3. IsDriver(Waiting(d, entry.label))
    BY WaitingIs
  <2>4. 0 % ArgLimit \in Nat /\ (entry.label \in DOMAIN d.labels => d.labels[entry.label] % ArgLimit \in Nat)
    BY ArgIsNat DEF IsDriver
  <2> QED
    BY <2>2, <2>3, <2>4, InstructionParsed
<1> QED
  BY <1>1, <1>2, <1>3 DEF IsEntry

MetaOf(addr, argNum, cstPool, names) == [addr |-> addr, argNum |-> argNum, cstPool |-> cstPool, names |-> names]

\* Meta data made of good parts is good meta data.
LEMMA MetaIs ==
    ASSUME NEW a \in Nat, NEW n \in Nat, NEW c, NEW s, IsPool(c), IsSeq(s)
    PROVE  LET m == MetaOf(a, n, c, s) IN IsMeta(m) /\ m.addr \in Nat /\ m.argNum \in Nat
<1> DEFINE m == MetaOf(a, n, c, s)
<1>1. m.addr = a /\ m.argNum = n /\ m.cstPool = c /\ m.names = s
  BY DEF MetaOf
<1> HIDE DEF m
<1>2. m = [addr |-> m.addr, argNum |-> m.argNum, cstPool |-> m.cstPool, names |-> m.names]
  BY <1>1, Zenon DEF m, MetaOf
<1> QED
  BY <1>1, <1>2 DEF IsMeta, IsPool, m

\* A function put into the map of functions leaves a good map.
LEMMA FuncsWith ==
    ASSUME NEW funcs, NEW f, NEW m, IsFuncs(funcs), IsMeta(m), m.addr \in Nat, m.argNum \in Nat
    PROVE  IsFuncs(With(funcs, f, m))
<1> DEFINE w == With(funcs, f, m)
<1>1. DOMAIN w = DOMAIN funcs \cup {f} /\ \A k \in DOMAIN w : w[k] = IF k = f THEN m ELSE funcs[k]
  BY DEF With
<1>2. w = [k \in DOMAIN w |-> w[k]]
  BY DEF With
<1>3. IsFiniteSet(DOMAIN funcs \cup {f})
  BY FS_AddElement DEF IsFuncs
<1> HIDE DEF w
<1>4. IsFuncs(w)
  BY <1>1, <1>2, <1>3 DEF IsFuncs
<1> QED
  BY <1>4 DEF w

\* Meta data with its address and its argument count set.
LEMMA PlaceExcept ==
    ASSUME NEW met, NEW ad, NEW an, met = [addr |-> met.addr, argNum |-> met.argNum, cstPool |-> met.cstPool, names |-> met.names]
    PROVE  [met EXCEPT !.addr = ad, !.argNum = an] = [addr |-> ad, argNum |-> an, cstPool |-> met.cstPool, names |-> met.names]
<1> DEFINE q == [met EXCEPT !.addr = ad]
<1>1. q = [addr |-> ad, argNum |-> met.argNum, cstPool |-> met.cstPool, names |-> met.names]
  OBVIOUS
<1> HIDE DEF q
<1>2. [q EXCEPT !.argNum = an] = [addr |-> ad, argNum |-> an, cstPool |-> met.cstPool, names |-> met.names]
  BY <1>1
<1>3. [met EXCEPT !.addr = ad, !.argNum = an] = [q EXCEPT !.argNum = an]
  BY DEF q
<1> QED
  BY <1>2, <1>3

ListsSet(met, pool, list) ==
    [met EXCEPT !.cstPool = pool, !.names = list]
        = [addr |-> met.addr, argNum |-> met.argNum, cstPool |-> pool, names |-> list]

\* Meta data with its constants and names set.
LEMMA ListsExcept ==
    \A met, pool, list : met = MetaOf(met.addr, met.argNum, met.cstPool, met.names) => ListsSet(met, pool, list)
<1> SUFFICES ASSUME NEW met, NEW pool, NEW list,
                    met = [addr |-> met.addr, argNum |-> met.argNum, cstPool |-> met.cstPool, names |-> met.names]
             PROVE  [met EXCEPT !.cstPool = pool, !.names = list]
                        = [addr |-> met.addr, argNum |-> met.argNum, cstPool |-> pool, names |-> list]
  BY Zenon DEF MetaOf, ListsSet
<1> DEFINE q == [met EXCEPT !.cstPool = pool]
<1>1. q = [addr |-> met.addr, argNum |-> met.argNum, cstPool |-> pool, names |-> met.names]
  OBVIOUS
<1> HIDE DEF q
<1>2. [q EXCEPT !.names = list] = [addr |-> met.addr, argNum |-> met.argNum, cstPool |-> pool, names |-> list]
  BY <1>1
<1>3. [met EXCEPT !.cstPool = pool, !.names = list] = [q EXCEPT !.names = list]
  BY DEF q
<1> QED
  BY <1>2, <1>3

\* The meta data of a function, which keep what an earlier one of its name has left.
MetaMade(d, f) ==
    LET old == At(d.funcs, f.name)
    IN MetaOf(d.globalInstrCount, f.argNum, old.cstPool \o f.cstPool, old.names \o f.names)
HeaderMade(d, f) ==
    LET h == FuncHeader(d, f)
        m == [h.funcs[f.name] EXCEPT !.cstPool = @ \o f.cstPool, !.names = @ \o f.names]
    IN [h EXCEPT !.funcs[f.name] = m]

\* What a name has in a map of functions, if only because it is missing.
LEMMA AtIsMeta == \A funcs, f : IsFuncs(funcs) => IsMeta(At(funcs, f))
<1>1. IsSeq(<<>>) /\ DOMAIN <<>> = {}
  BY EmptySeq DEF IsSeq
<1>2. IsMeta(EmptyMeta)
  BY <1>1 DEF IsMeta, EmptyMeta
<1> QED
  BY <1>2 DEF At, IsFuncs

\* A function begins with its meta data in the map, and no labels (parser.y, funcHeader).
LEMMA HeaderIs ==
    ASSUME NEW d, NEW f, IsDriver(d), IsFunction(f)
    PROVE  HeaderMade(d, f) =
             DriverOf(With(d.funcs, f.name, MetaMade(d, f)), d.code, NoFuncs, NoFuncs, 0, d.globalInstrCount)
<1> DEFINE h == FuncHeader(d, f)
           old == At(d.funcs, f.name)
           g == d.globalInstrCount
           first == MetaOf(g, f.argNum, old.cstPool, old.names)
           cstPool == old.cstPool \o f.cstPool
           names == old.names \o f.names
           m == [h.funcs[f.name] EXCEPT !.cstPool = @ \o f.cstPool, !.names = @ \o f.names]
           meta == MetaOf(g, f.argNum, cstPool, names)
           s == [h EXCEPT !.funcs[f.name] = m]
<1>1. IsMeta(old)
  BY AtIsMeta DEF IsDriver
<1>2. g \in Nat /\ f.argNum \in Nat
  BY DEF IsDriver, IsFunction
<1>3. old = MetaOf(old.addr, old.argNum, old.cstPool, old.names)
  BY <1>1 DEF IsMeta, MetaOf
<1>4. h = DriverOf(With(d.funcs, f.name, first), d.code, NoFuncs, NoFuncs, 0, g)
  <2> DEFINE w == With(d.funcs, f.name, first)
  <2>1. [old EXCEPT !.addr = g, !.argNum = f.argNum] = first
    <3> HIDE DEF old, g
    <3> QED
      BY <1>3, PlaceExcept, Zenon DEF MetaOf, first
  <2>2. h = [d EXCEPT !.funcs = w, !.instrCount = 0, !.labels = NoFuncs, !.forward = NoFuncs]
    BY <2>1 DEF FuncHeader
  <2> HIDE DEF w, h
  <2>3. h = DriverOf(w, d.code, NoFuncs, NoFuncs, 0, g)
    BY <2>2 DEF IsDriver, DriverOf
  <2> QED
    BY <2>3 DEF w
<1> HIDE DEF h, old, g
<1>5. h.funcs[f.name] = first
  BY <1>4 DEF DriverOf, With
<1>6. m = meta
  <2>1. first.cstPool = old.cstPool /\ first.names = old.names
    BY DEF MetaOf
  <2>2. m = [first EXCEPT !.cstPool = cstPool, !.names = names]
    BY <1>5, <2>1
  <2>3. first.addr = g /\ first.argNum = f.argNum /\ first = MetaOf(first.addr, first.argNum, first.cstPool, first.names)
    BY DEF MetaOf
  <2> HIDE DEF cstPool, names, first, m
  <2>4. ListsSet(first, cstPool, names)
    BY <2>3, ListsExcept, Zenon
  <2>5. m = [addr |-> first.addr, argNum |-> first.argNum, cstPool |-> cstPool, names |-> names]
    BY <2>2, <2>4, Zenon DEF ListsSet
  <2>6. m = [addr |-> g, argNum |-> f.argNum, cstPool |-> cstPool, names |-> names]
    BY <2>3, <2>5, Zenon
  <2> QED
    BY <2>6, Zenon DEF MetaOf
<1>7. s = DriverOf(With(d.funcs, f.name, meta), d.code, NoFuncs, NoFuncs, 0, g)
  <2> DEFINE w == With(d.funcs, f.name, first)
             v == With(d.funcs, f.name, meta)
  <2>1. [w EXCEPT ![f.name] = meta] = v
    <3> HIDE DEF first, meta
    <3> QED
      BY DEF With
  <2>2. h.funcs = w
    BY <1>4 DEF DriverOf
  <2>3. s = [h EXCEPT !.funcs = v]
    <3> HIDE DEF m, meta, w, v
    <3>1. s = [h EXCEPT !.funcs = [h.funcs EXCEPT ![f.name] = m]]
      OBVIOUS
    <3> QED
      BY <1>6, <2>1, <2>2, <3>1
  <2> HIDE DEF v, s, w
  <2>4. h = DriverOf(w, d.code, NoFuncs, NoFuncs, 0, g)
    BY <1>4 DEF w
  <2>5. s = DriverOf(v, d.code, NoFuncs, NoFuncs, 0, g)
    BY <2>3, <2>4 DEF DriverOf
  <2> QED
    BY <2>5 DEF v
<1>8. MetaMade(d, f) = meta
  BY DEF MetaMade, g, old
<1>9. HeaderMade(d, f) = s
  BY DEF HeaderMade, h, s, m
<1> QED
  BY <1>7, <1>8, <1>9 DEF g

\* What it leaves is a driver.
LEMMA HeaderParsed ==
    ASSUME NEW d, NEW f, IsDriver(d), IsFunction(f)
    PROVE  IsDriver(HeaderMade(d, f))
<1> DEFINE old == At(d.funcs, f.name)
           g == d.globalInstrCount
           cstPool == old.cstPool \o f.cstPool
           names == old.names \o f.names
           meta == MetaMade(d, f)
<1>1. IsMeta(old) /\ g \in Nat /\ f.argNum \in Nat
  BY AtIsMeta DEF IsDriver, IsFunction
<1>2. IsMeta(meta) /\ meta.addr \in Nat /\ meta.argNum \in Nat
  <2>1. IsPool(old.cstPool) /\ IsSeq(old.names)
    BY <1>1 DEF IsMeta, IsPool
  <2>2. IsPool(f.cstPool) /\ IsSeq(f.names)
    BY ConstantsArePool, ListIsSeq DEF IsFunction
  <2>3. IsPool(cstPool) /\ IsSeq(names)
    BY <2>1, <2>2, PoolJoined, ConcatFacts
  <2>4. meta = MetaOf(g, f.argNum, cstPool, names)
    BY DEF MetaMade
  <2> HIDE DEF cstPool, names, old, g, meta
  <2> QED
    BY <1>1, <2>3, <2>4, MetaIs
<1> HIDE DEF meta
<1> DEFINE v == With(d.funcs, f.name, meta)
<1>3. IsFuncs(v)
  BY <1>2, FuncsWith DEF IsDriver
<1>4. \A l \in DOMAIN NoFuncs : NoFuncs[l] \in Nat
  BY DEF NoFuncs
<1> HIDE DEF v
<1>5. IsDriver(DriverOf(v, d.code, NoFuncs, NoFuncs, 0, g))
  BY <1>1, <1>3, <1>4, DriverIs DEF IsDriver
<1> QED
  BY <1>5, HeaderIs DEF v, meta

\* The lines of a function's code are parsed one after the other.
LEMMA FuncSteps ==
    ASSUME NEW d, NEW f, IsFunction(f)
    PROVE  \E g : Entries!Stepwise(g, HeaderMade(d, f), f.code, Len(f.code)) /\ ParseFunc(d, f) = g[Len(f.code)]
<1> DEFINE start == HeaderMade(d, f)
           n == Len(f.code)
<1>1. ParseFunc(d, f) = Entries!Fold(start, f.code)
  BY DEF ParseFunc, HeaderMade, Entries!Fold, FoldLeft, Entries!FoldLeft,
         MapThenFoldSet, Entries!MapThenFoldSet, Max, Entries!Max
<1>2. n \in Nat /\ DOMAIN f.code = 1..n
  BY DEF IsFunction, IsList
<1> HIDE DEF start, n
<1>3. PICK g : Entries!Stepwise(g, start, f.code, n) /\ Entries!Fold(start, f.code) = g[n]
  BY <1>2, Entries!FoldSteps
<1> QED
  BY <1>1, <1>3 DEF start, n

\* One function of the text, from its header through every line of its code.
LEMMA FuncParsed ==
    ASSUME NEW d, NEW f, IsDriver(d), IsFunction(f)
    PROVE  IsDriver(ParseFunc(d, f))
<1> DEFINE start == HeaderMade(d, f)
           n == Len(f.code)
<1>1. n \in Nat /\ DOMAIN f.code = 1..n
  BY DEF IsFunction, IsList
<1>2. IsDriver(start)
  BY HeaderParsed
<1>3. PICK g : Entries!Stepwise(g, start, f.code, n) /\ ParseFunc(d, f) = g[n]
  BY FuncSteps
<1> HIDE DEF start, n
<1> DEFINE S == {k \in 0..n : IsDriver(g[k])}
<1>4. 0 \in S
  BY <1>1, <1>2, <1>3 DEF Entries!Stepwise
<1>5. ASSUME NEW k \in 1..n, k - 1 \in S PROVE k \in S
  <2>1. g[k] = ParseEntry(g[k - 1], f.code[k]) /\ IsDriver(g[k - 1])
    BY <1>3, <1>5 DEF Entries!Stepwise
  <2>2. IsEntry(f.code[k])
    BY <1>1 DEF IsFunction
  <2>3. IsDriver(g[k])
    BY <2>1, <2>2, EntryParsed
  <2> QED
    BY <2>3
<1> HIDE DEF S
<1>6. 0..n \subseteq S
  BY <1>1, <1>4, <1>5, Flattening!PlacesInduction
<1> QED
  BY <1>1, <1>3, <1>6 DEF S

\* The functions of a text are parsed one after the other.
LEMMA TextSteps ==
    ASSUME NEW text, IsText(text)
    PROVE  \E g : /\ Headers!Stepwise(g, NewDriver, text, Len(text))
                 /\ Parse(text).funcs = g[Len(text)].funcs /\ Parse(text).code = g[Len(text)].code
<1> DEFINE n == Len(text)
           d == FoldLeft(ParseFunc, NewDriver, text)
<1>1. d = Headers!Fold(NewDriver, text)
  BY DEF Headers!Fold, FoldLeft, Headers!FoldLeft,
         MapThenFoldSet, Headers!MapThenFoldSet, Max, Headers!Max
<1>2. Parse(text) = [funcs |-> d.funcs, code |-> d.code]
  BY DEF Parse
<1>3. n \in Nat /\ DOMAIN text = 1..n
  BY DEF IsText, IsList
<1> HIDE DEF n, d
<1>4. PICK g : Headers!Stepwise(g, NewDriver, text, n) /\ Headers!Fold(NewDriver, text) = g[n]
  BY <1>3, Headers!FoldSteps
<1>5. Parse(text).funcs = d.funcs /\ Parse(text).code = d.code
  BY <1>2
<1> QED
  BY <1>1, <1>4, <1>5 DEF n

\* Whatever the text, the front end builds a file that can be written: meta data and
\* instructions in lists, and finitely many functions.
THEOREM ParsedIsFile ==
    \A text : IsText(text) => IsFuncs(Parse(text).funcs) /\ IsCode(Parse(text).code) /\ IsFile(Parse(text))
<1> TAKE text
<1> HAVE IsText(text)
<1> DEFINE n == Len(text)
<1>1. n \in Nat /\ DOMAIN text = 1..n
  BY DEF IsText, IsList
<1>2. PICK g : /\ Headers!Stepwise(g, NewDriver, text, n)
               /\ Parse(text).funcs = g[n].funcs /\ Parse(text).code = g[n].code
  BY TextSteps
<1> HIDE DEF n
<1> DEFINE S == {k \in 0..n : IsDriver(g[k])}
<1>3. 0 \in S
  <2>1. IsSeq(<<>>) /\ DOMAIN <<>> = {}
    BY EmptySeq DEF IsSeq
  <2>2. IsFuncs(NoFuncs) /\ \A l \in DOMAIN NoFuncs : NoFuncs[l] \in Nat
    BY FS_EmptySet DEF IsFuncs, NoFuncs
  <2>3. IsCode(<<>>)
    BY <2>1 DEF IsCode
  <2>4. IsDriver(DriverOf(NoFuncs, <<>>, NoFuncs, NoFuncs, 0, 0))
    BY <2>2, <2>3, DriverIs
  <2> QED
    BY <1>1, <1>2, <2>4 DEF Headers!Stepwise, NewDriver, DriverOf
<1>4. ASSUME NEW k \in 1..n, k - 1 \in S PROVE k \in S
  <2>1. g[k] = ParseFunc(g[k - 1], text[k]) /\ IsDriver(g[k - 1])
    BY <1>2, <1>4 DEF Headers!Stepwise
  <2>2. IsFunction(text[k])
    BY <1>1 DEF IsText
  <2>3. IsDriver(g[k])
    BY <2>1, <2>2, FuncParsed
  <2> QED
    BY <2>3
<1> HIDE DEF S
<1>5. 0..n \subseteq S
  BY <1>1, <1>3, <1>4, Flattening!PlacesInduction
<1>6. IsDriver(g[n])
  BY <1>1, <1>5 DEF S
<1> QED
  BY <1>2, <1>6 DEF IsDriver, IsFuncs, IsCode, IsFile, Items, Item

-----------------------------------------------------------------------------
(* A file comes from the text or, whole, from a dump.                      *)

Parsed == Parse(command.text)
\* disk is the beginning of what is written of the file, in some order of its functions.
CutDump ==
    \E order : /\ IsOrder(order, Parsed.funcs)
               /\ \E n \in 1..Len(Serialize(Parsed, order)) : disk = SubSeq(Serialize(Parsed, order), 1, n)
FileInv ==
    /\ command \in Commands
    /\ status = "start" => disk = <<>>
    /\ disk # <<>> => command.dump
    /\ status = "dumped" => disk # <<>> /\ CutDump
    /\ status \in {"ready", "running", "done"} => file = IF disk = <<>> THEN Parsed ELSE Copied(Parsed)

\* Every file the program is called with parses to a file that can be written.
LEMMA ParsedFacts ==
    command \in Commands => IsFuncs(Parsed.funcs) /\ IsCode(Parsed.code) /\ IsFile(Parsed)
  BY CommandsAssumption, ParsedIsFile DEF Parsed

\* What remains of a dump, wherever it was cut, is not nothing.
LEMMA CutNotEmpty ==
    ASSUME NEW f, NEW order, IsFile(f), IsOrder(order, f.funcs), NEW n \in 1..Len(Serialize(f, order))
    PROVE  SubSeq(Serialize(f, order), 1, n) # <<>>
<1> DEFINE all == Serialize(f, order)
           a == <<"theLEECH">> \o SerMany("function", InOrder(f, order))
           c == SerMany("instruction", f.code)
<1>1. all = a \o c
  BY FileWritten
<1>2. Items("function", InOrder(f, order)) /\ Items("instruction", f.code)
  BY FileWritten DEF IsFile
<1>3. IsSeq(<<"theLEECH">>) /\ IsSeq(SerMany("function", InOrder(f, order))) /\ IsSeq(c)
  BY <1>2, One1, FunctionRestored, InstructionRestored, ManyRestored DEF Kinds
<1>4. IsSeq(a)
  BY <1>3, ConcatFacts
<1> HIDE DEF a, c
<1>5. IsSeq(all)
  BY <1>1, <1>3, <1>4, ConcatFacts
<1>6. n \in 1..Len(all)
  OBVIOUS
<1> HIDE DEF all
<1>7. PICK S : all \in Seq(S)
  BY <1>5 DEF IsSeq
<1>8. Len(SubSeq(all, 1, n)) = n /\ n # 0
  BY <1>6, <1>7, LenProperties, SubSeqProperties
<1> QED
  BY <1>8 DEF all

\* The executor leaves the file alone (the callbacks).
LEMMA FileKept ==
    ASSUME FileInv, UNCHANGED <<command, file, disk>>, status' = status \/ status' \in {"done", "failed"},
           status = "running" \/ status' = status \/ status' = "failed"
    PROVE  FileInv'
  BY DEF FileInv, CutDump, Parsed

\* Every step of the program keeps FileInv: a dump and its loading (main.cc).
LEMMA FileInvInductive == FileInv /\ [Next]_vars => FileInv'
<1> SUFFICES ASSUME FileInv, [Next]_vars PROVE FileInv'
  OBVIOUS
<1>1. IsFuncs(Parsed.funcs) /\ IsFile(Parsed)
  BY ParsedFacts DEF FileInv
<1>2. CASE GenerateFromText
  BY <1>2 DEF GenerateFromText, FileInv, Parsed
<1>3. CASE DumpBinary
  <2>1. /\ status = "ready" /\ disk = <<>> /\ file = Parsed /\ command.dump
        /\ status' = "dumped" /\ command' = command
    BY <1>3 DEF DumpBinary, FileInv
  <2>2. PICK order \in Orders : \E n \in 1..Len(Serialize(file, order)) : disk' = SubSeq(Serialize(file, order), 1, n)
    BY <1>3 DEF DumpBinary
  <2>3. PICK n \in 1..Len(Serialize(Parsed, order)) : disk' = SubSeq(Serialize(Parsed, order), 1, n)
    BY <2>1, <2>2
  <2>4. IsOrder(order, Parsed.funcs)
    BY <2>1 DEF Orders, IsOrder
  <2>5. disk' # <<>>
    BY <1>1, <2>3, <2>4, CutNotEmpty
  <2>6. Parsed' = Parsed
    BY <2>1 DEF Parsed
  <2>7. CutDump'
    BY <2>3, <2>4, <2>6 DEF CutDump
  <2> QED
    BY <2>1, <2>5, <2>7 DEF FileInv
<1>4. CASE GenerateFromBinary
  <2>1. status = "dumped" /\ disk # <<>> /\ UNCHANGED <<command, disk>> /\ Parsed' = Parsed
    BY <1>4 DEF GenerateFromBinary, FileInv, Parsed
  <2>2. PICK order : /\ IsOrder(order, Parsed.funcs)
                     /\ \E n \in 1..Len(Serialize(Parsed, order)) : disk = SubSeq(Serialize(Parsed, order), 1, n)
    BY <2>1 DEF FileInv, CutDump
  <2>3. PICK n \in 1..Len(Serialize(Parsed, order)) : disk = SubSeq(Serialize(Parsed, order), 1, n)
    BY <2>2
  <2>4. Deserialize(disk) =
          IF n = Len(Serialize(Parsed, order)) THEN [failed |-> FALSE, file |-> Copied(Parsed)] ELSE [failed |-> TRUE]
    BY <1>1, <2>2, <2>3, FileRestored
  <2>5. IF Deserialize(disk).failed THEN status' = "failed" ELSE status' = "ready" /\ file' = Deserialize(disk).file
    BY <1>4 DEF GenerateFromBinary
  <2>6. status' = "failed" \/ (status' = "ready" /\ file' = Copied(Parsed))
    <3>1. CASE n = Len(Serialize(Parsed, order))
      <4>1. Deserialize(disk) = [failed |-> FALSE, file |-> Copied(Parsed)]
        BY <2>4, <3>1
      <4>2. Deserialize(disk).failed = FALSE /\ Deserialize(disk).file = Copied(Parsed)
        BY <4>1
      <4> QED
        BY <2>5, <4>2
    <3>2. CASE n # Len(Serialize(Parsed, order))
      <4>1. Deserialize(disk) = [failed |-> TRUE]
        BY <2>4, <3>2
      <4>2. Deserialize(disk).failed = TRUE
        BY <4>1
      <4> QED
        BY <2>5, <4>2
    <3> QED
      BY <3>1, <3>2
  <2> QED
    BY <2>1, <2>6 DEF FileInv
<1>5. CASE Run
  BY <1>5 DEF Run, FileInv, CutDump, Parsed
<1>6. CASE Step
  BY <1>6, FileKept DEF Step
<1>7. CASE CALL
  BY <1>7, FileKept DEF CALL
<1>8. CASE RETURN_VALUE
  <2>1. UNCHANGED <<command, file, disk>> /\ status = "running" /\ (status' = status \/ status' = "done")
    BY <1>8 DEF RETURN_VALUE, Running
  <2> QED
    BY <2>1, FileKept
<1>9. CASE THROW
  BY <1>9, FileKept DEF THROW
<1>10. CASE UNCHANGED vars
  BY <1>10, FileKept DEF vars
<1> QED
  BY <1>2, <1>3, <1>4, <1>5, <1>6, <1>7, <1>8, <1>9, <1>10 DEF Next, Execution, Finished

\* FileInv says in particular that what was loaded is whole.
LEMMA FileInvLoadsWhole == FileInv => LoadedWhole
<1> SUFFICES ASSUME FileInv, disk # <<>>, status \in {"ready", "running", "done"}
             PROVE  /\ file.code = Parsed.code /\ DOMAIN file.funcs = DOMAIN Parsed.funcs
                    /\ \A f \in DOMAIN file.funcs :
                          file.funcs[f] = [Parsed.funcs[f] EXCEPT !.argNum = file.funcs[f].argNum]
  BY DEF LoadedWhole, Parsed
<1>1. file = Copied(Parsed)
  BY DEF FileInv
<1>2. file.code = Parsed.code /\ file.funcs = [f \in DOMAIN Parsed.funcs |-> CopyMeta(Parsed.funcs[f])]
  BY <1>1 DEF Copied
<1>3. ASSUME NEW f \in DOMAIN Parsed.funcs
      PROVE  file.funcs[f] = [Parsed.funcs[f] EXCEPT !.argNum = file.funcs[f].argNum]
  <2> DEFINE m == Parsed.funcs[f]
  <2>1. m = [addr |-> m.addr, argNum |-> m.argNum, cstPool |-> m.cstPool, names |-> m.names]
    BY ParsedFacts DEF FileInv, IsFuncs, IsMeta
  <2>2. file.funcs[f] = [m EXCEPT !.argNum = 0]
    BY <1>2 DEF CopyMeta
  <2> HIDE DEF m
  <2>3. [m EXCEPT !.argNum = 0].argNum = 0
    BY <2>1
  <2>4. file.funcs[f] = [m EXCEPT !.argNum = file.funcs[f].argNum]
    BY <2>2, <2>3
  <2> QED
    BY <2>4 DEF m
<1> QED
  BY <1>2, <1>3

\* A dump that was cut anywhere is refused, and one that is accepted gives the code,
\* addresses, constants and names of the text, whatever the order its functions were
\* written in (LeechFile::deserialize, Meta::deserialize).
THEOREM LoadedWholeHolds == Spec => []LoadedWhole
<1>1. Init => FileInv
  BY DEF Init, FileInv
<1> QED
  BY <1>1, FileInvInductive, FileInvLoadsWhole, PTL DEF Spec
=============================================================================
