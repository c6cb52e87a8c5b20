-------------------------- MODULE LeechFrameProofs --------------------------
(***************************************************************************)
(* leechVM: every instruction keeps the frames and the heap whole, so that *)
(* the frames below the one at work wait behind the calls they made.       *)
(***************************************************************************)
EXTENDS LeechProofs

-----------------------------------------------------------------------------
(* What the opcodes do to the frame at work.                               *)

\* A value that stands for an object stands for one in the heap; tuples hold no objects.
IsValue(obj, objects) ==
    /\ obj.t = "Class" => obj.v \in 1..Len(objects)
    /\ obj.t = "Tuple" => IsSeq(obj.v) /\ \A k \in 1..Len(obj.v) : IsPrimitive(obj.v[k])
Values(s, objects) == IsSeq(s) /\ \A k \in 1..Len(s) : IsValue(s[k], objects)
Variables(vs, names, objects) ==
    vs = [n \in names |-> vs[n]] /\ \A n \in names : IsValue(vs[n], objects)
IsClass(o, objects) ==
    /\ o = [fields |-> o.fields, methods |-> o.methods]
    /\ \A f \in DOMAIN o.fields : IsValue(o.fields[f], objects)
IsHeap(objects) == IsSeq(objects) /\ \A o \in 1..Len(objects) : IsClass(objects[o], objects)
\* Objects stay, and keep their methods.
Grows(before, after) ==
    Len(before) <= Len(after) /\ \A o \in 1..Len(before) : before[o].methods \subseteq after[o].methods

\* A frame at work has values on its stack and in the variables its names give it.
IsWork(x, names) ==
    /\ x = [data |-> x.data, vars |-> x.vars, heap |-> x.heap, out |-> x.out, jump |-> x.jump, thrown |-> x.thrown]
    /\ Values(x.data, x.heap) /\ Variables(x.vars, names, x.heap) /\ IsHeap(x.heap)
Sound(x) == IsWork(x, DOMAIN x.vars)
\* y is a frame at work that x may become: with the same names, over a heap that has grown,
\* and without a branch, unless x takes one.
Reaches(x, y) == IsWork(y, DOMAIN x.vars) /\ Grows(x.heap, y.heap)
Leads(x, y) == Reaches(x, y) /\ y.jump = x.jump

-----------------------------------------------------------------------------
(* Values, heaps and frames at work.                                       *)

\* A value pushed behind a sequence.
LEMMA Appended ==
    ASSUME NEW s, NEW e, IsSeq(s)
    PROVE  /\ IsSeq(Append(s, e)) /\ Len(s) \in Nat /\ Len(Append(s, e)) = Len(s) + 1
           /\ (\A k \in 1..Len(s) : Append(s, e)[k] = s[k]) /\ Append(s, e)[Len(s) + 1] = e
<1>1. PICK S : s \in Seq(S)
  BY DEF IsSeq
<1> DEFINE T == S \cup {e}
<1>2. s \in Seq(T) /\ e \in T
  BY <1>1, SeqMonotonic
<1> HIDE DEF T
<1>3. Append(s, e) \in Seq(T) /\ Len(s) \in Nat
  BY <1>2, LenProperties, AppendProperties
<1> QED
  BY <1>2, <1>3, AppendProperties DEF IsSeq

\* The last one is taken away.
LEMMA Shortened ==
    ASSUME NEW s, IsSeq(s), s # <<>>
    PROVE  /\ Len(s) \in Nat /\ Len(s) >= 1 /\ Last(s) = s[Len(s)]
           /\ IsSeq(Front(s)) /\ Len(Front(s)) = Len(s) - 1
           /\ \A k \in 1..(Len(s) - 1) : Front(s)[k] = s[k]
<1>1. PICK S : s \in Seq(S)
  BY DEF IsSeq
<1>2. Len(s) \in Nat /\ Len(s) >= 1
  BY <1>1, EmptySeq, LenProperties
<1>3. \A k \in 1..(Len(s) - 1) : s[k] \in S
  BY <1>1, <1>2, ElementOfSeq
<1> DEFINE n == Len(s) - 1
<1>4. n \in Int /\ 1 \in Int
  BY <1>2
<1> HIDE DEF n
<1>5. SubSeq(s, 1, n) \in Seq(S) /\ Len(SubSeq(s, 1, n)) = (IF 1 <= n THEN n - 1 + 1 ELSE 0)
      /\ \A k \in 1..(n - 1 + 1) : SubSeq(s, 1, n)[k] = s[1 + k - 1]
  BY <1>3, <1>4, SubSeqProperties DEF n
<1>6. Front(s) = SubSeq(s, 1, n) /\ Last(s) = s[Len(s)]
  BY DEF n, Front, Last
<1>0. n \in Nat
  BY <1>2 DEF n
<1> DEFINE u == SubSeq(s, 1, n)
<1> HIDE DEF u
<1>8. u \in Seq(S) /\ Len(u) = n
  BY <1>0, <1>5 DEF u
<1>9. ASSUME NEW k \in 1..n PROVE u[k] = s[k]
  BY <1>0, <1>5 DEF u
<1>7. Front(s) \in Seq(S) /\ Len(Front(s)) = n /\ \A k \in 1..n : Front(s)[k] = s[k]
  BY <1>6, <1>8, <1>9 DEF u
<1> QED
  BY <1>2, <1>6, <1>7 DEF n, IsSeq

\* A value is one in a heap that has grown.
LEMMA StillValue ==
    \A obj, g, h : IsValue(obj, g) /\ Len(g) \in Nat /\ Len(h) \in Nat /\ Grows(g, h) => IsValue(obj, h)
  BY DEF IsValue, Grows

\* The heap has a length.
LEMMA HeapLen == \A h : IsHeap(h) => Len(h) \in Nat
  BY SeqFacts DEF IsHeap

\* The operands of a frame stay values while the heap grows.
LEMMA StillValues ==
    \A s, g, h : Values(s, g) /\ IsHeap(g) /\ IsHeap(h) /\ Grows(g, h) => Values(s, h)
  BY StillValue, HeapLen DEF Values

\* The variables of a frame stay values while the heap grows.
LEMMA StillVariables ==
    \A vs, names, g, h : Variables(vs, names, g) /\ IsHeap(g) /\ IsHeap(h) /\ Grows(g, h) => Variables(vs, names, h)
  BY StillValue, HeapLen DEF Variables

\* A heap that has grown twice has grown.
LEMMA GrowsAlong ==
    \A f, g, h : Len(f) \in Nat /\ Len(g) \in Nat /\ Len(h) \in Nat /\ Grows(f, g) /\ Grows(g, h) => Grows(f, h)
  BY DEF Grows

\* A heap that stays has lost nothing.
LEMMA GrowsNot == \A h : IsHeap(h) => Grows(h, h)
  BY HeapLen DEF Grows

\* What two callbacks do one after the other leads on like one of them.
LEMMA ReachesAlong ==
    ASSUME NEW x, NEW y, NEW z, Sound(x), Reaches(x, y), Reaches(y, z)
    PROVE  Reaches(x, z)
<1>1. IsHeap(x.heap) /\ IsHeap(y.heap) /\ IsHeap(z.heap)
  BY DEF Sound, Reaches, IsWork
<1>2. Grows(x.heap, z.heap)
  BY <1>1, HeapLen, GrowsAlong DEF Reaches
<1>3. DOMAIN y.vars = DOMAIN x.vars
  BY DEF Reaches, IsWork, Variables
<1> QED
  BY <1>2, <1>3 DEF Reaches

\* They take a branch only if one of them does.
LEMMA LeadsAlong ==
    ASSUME NEW x, NEW y, NEW z, Sound(x), Leads(x, y), Leads(y, z)
    PROVE  Leads(x, z)
  BY ReachesAlong DEF Leads

\* Where a callback leads to, the next one may start.
LEMMA LeadsSound == \A x, y : Leads(x, y) => Sound(y)
  BY DEF Leads, Reaches, Sound, IsWork, Variables

\* A frame at work from its parts.
Working(data, vs, objects, printed, jump, thrown) ==
    [data |-> data, vars |-> vs, heap |-> objects, out |-> printed, jump |-> jump, thrown |-> thrown]

\* A frame at work is put together from values.
LEMMA WorkingIs ==
    \A d, vs, h, o, j, t, names :
        Values(d, h) /\ Variables(vs, names, h) /\ IsHeap(h) => IsWork(Working(d, vs, h, o, j, t), names)
<1> TAKE d, vs, h, o, j, t, names
<1> HAVE Values(d, h) /\ Variables(vs, names, h) /\ IsHeap(h)
<1> DEFINE x == Working(d, vs, h, o, j, t)
<1>1. x.data = d /\ x.vars = vs /\ x.heap = h /\ x.out = o /\ x.jump = j /\ x.thrown = t
  BY DEF Working
<1>2. x = [data |-> x.data, vars |-> x.vars, heap |-> x.heap, out |-> x.out, jump |-> x.jump, thrown |-> x.thrown]
  BY <1>1 DEF Working
<1> HIDE DEF x
<1> QED
  BY <1>1, <1>2, Zenon DEF IsWork, x

\* What the updates of a frame at work make of it.
LEMMA Updates ==
    ASSUME NEW x, Sound(x)
    PROVE  /\ \A e : [x EXCEPT !.data = e] = Working(e, x.vars, x.heap, x.out, x.jump, x.thrown)
           /\ \A e : [x EXCEPT !.vars = e] = Working(x.data, e, x.heap, x.out, x.jump, x.thrown)
           /\ \A e : [x EXCEPT !.heap = e] = Working(x.data, x.vars, e, x.out, x.jump, x.thrown)
           /\ \A e : [x EXCEPT !.out = e] = Working(x.data, x.vars, x.heap, e, x.jump, x.thrown)
           /\ \A e : [x EXCEPT !.jump = e] = Working(x.data, x.vars, x.heap, x.out, e, x.thrown)
           /\ \A e : [x EXCEPT !.thrown = e] = Working(x.data, x.vars, x.heap, x.out, x.jump, e)
  BY DEF Sound, IsWork, Working

\* The parts of a frame at work.
LEMMA SoundParts ==
    \A x : Sound(x) => Values(x.data, x.heap) /\ Variables(x.vars, DOMAIN x.vars, x.heap) /\ IsHeap(x.heap)
  BY DEF Sound, IsWork

\* A frame at work put together from values over a heap that has grown is led to.
LEMMA LeadsTo ==
    ASSUME NEW x, Sound(x), NEW d, NEW vs, NEW h, NEW o, NEW j, NEW t,
           Values(d, h), Variables(vs, DOMAIN x.vars, h), IsHeap(h), Grows(x.heap, h)
    PROVE  Reaches(x, Working(d, vs, h, o, j, t)) /\ (j = x.jump => Leads(x, Working(d, vs, h, o, j, t)))
<1>1. IsWork(Working(d, vs, h, o, j, t), DOMAIN x.vars)
  BY WorkingIs
<1>2. Working(d, vs, h, o, j, t).heap = h /\ Working(d, vs, h, o, j, t).jump = j
  BY DEF Working
<1> QED
  BY <1>1, <1>2 DEF Leads, Reaches

\* Flags and the output play no part.
LEMMA LeadsFlags ==
    ASSUME NEW x, Sound(x), NEW e
    PROVE  Leads(x, [x EXCEPT !.thrown = e]) /\ Reaches(x, [x EXCEPT !.jump = e]) /\ Leads(x, [x EXCEPT !.out = e])
  BY SoundParts, Updates, LeadsTo, GrowsNot

\* Throwing leads on.
LEMMA LeadsThrow == \A x : Sound(x) => Leads(x, Throw(x))
  BY LeadsFlags DEF Throw

\* Doing nothing leads on.
LEMMA LeadsSelf == \A x : Sound(x) => Leads(x, x)
  BY GrowsNot, SoundParts DEF Sound, Leads, Reaches

\* A callback that throws unless a condition holds leads on when the rest of it does.
LEMMA LeadsNeed ==
    ASSUME NEW x, NEW c, NEW r, Sound(x), c => Leads(x, r)
    PROVE  Leads(x, Need(x, c, r))
  BY LeadsThrow DEF Need

-----------------------------------------------------------------------------
(* Pushing, popping and cloning.                                           *)

\* A value is pushed on values.
LEMMA ValuesAppended ==
    ASSUME NEW s, NEW e, NEW h, Values(s, h), IsValue(e, h)
    PROVE  Values(Append(s, e), h)
<1> DEFINE u == Append(s, e)
<1>1. IsSeq(u) /\ Len(s) \in Nat /\ Len(u) = Len(s) + 1
      /\ (\A k \in 1..Len(s) : u[k] = s[k]) /\ u[Len(s) + 1] = e
  BY Appended DEF Values
<1> HIDE DEF u
<1>2. ASSUME NEW k \in 1..Len(u) PROVE IsValue(u[k], h)
  <2>1. CASE k = Len(s) + 1
    BY <1>1, <2>1
  <2>2. CASE k # Len(s) + 1
    <3>1. k \in 1..Len(s)
      BY <1>1, <2>2
    <3> QED
      BY <1>1, <3>1 DEF Values
  <2> QED
    BY <2>1, <2>2
<1>3. Values(u, h)
  BY <1>1, <1>2 DEF Values
<1> QED
  BY <1>3 DEF u

\* Values without the last one, and the last one.
LEMMA ValuesFront ==
    ASSUME NEW s, NEW h, Values(s, h), s # <<>>
    PROVE  Values(Front(s), h) /\ IsValue(Last(s), h)
<1>1. /\ Len(s) \in Nat /\ Len(s) >= 1 /\ Last(s) = s[Len(s)]
      /\ IsSeq(Front(s)) /\ Len(Front(s)) = Len(s) - 1
      /\ \A k \in 1..(Len(s) - 1) : Front(s)[k] = s[k]
  BY Shortened DEF Values
<1>2. IsValue(Last(s), h)
  BY <1>1 DEF Values
<1>3. ASSUME NEW k \in 1..Len(Front(s)) PROVE IsValue(Front(s)[k], h)
  <2>1. k \in 1..Len(s) /\ Front(s)[k] = s[k]
    BY <1>1
  <2> QED
    BY <2>1 DEF Values
<1> QED
  BY <1>1, <1>2, <1>3 DEF Values

\* A stack of values takes the place of another one.
LEMMA LeadsData ==
    ASSUME NEW x, Sound(x), NEW d, Values(d, x.heap)
    PROVE  Leads(x, [x EXCEPT !.data = d])
  BY SoundParts, Updates, LeadsTo, GrowsNot

\* Frame::push leads on.
LEMMA LeadsPush ==
    ASSUME NEW x, Sound(x), NEW obj, IsValue(obj, x.heap)
    PROVE  Leads(x, Push(x, obj))
<1>1. Values(Append(x.data, obj), x.heap)
  BY SoundParts, ValuesAppended
<1>2. Leads(x, [x EXCEPT !.data = Append(x.data, obj)])
  BY <1>1, LeadsData
<1>3. Leads(x, [x EXCEPT !.data = Append(@, obj)])
  BY <1>2
<1> QED
  BY <1>3, LeadsNeed DEF Push

\* Frame::pop leads on.
LEMMA LeadsPop ==
    ASSUME NEW x, Sound(x)
    PROVE  Leads(x, Pop(x))
<1>1. ASSUME x.data # <<>> PROVE Leads(x, [x EXCEPT !.data = Front(@)])
  <2>1. Values(Front(x.data), x.heap)
    BY <1>1, SoundParts, ValuesFront
  <2>2. Leads(x, [x EXCEPT !.data = Front(x.data)])
    BY <2>1, LeadsData
  <2> QED
    BY <2>2
<1> QED
  BY <1>1, LeadsNeed DEF Pop

\* A variable is set to a value.
LEMMA LeadsSetVar ==
    ASSUME NEW x, Sound(x), NEW name \in DOMAIN x.vars, NEW obj, IsValue(obj, x.heap)
    PROVE  Leads(x, SetVar(x, name, obj))
<1> DEFINE vs == [x.vars EXCEPT ![name] = obj]
<1>1. Variables(vs, DOMAIN x.vars, x.heap)
  BY SoundParts DEF Variables
<1>2. [x EXCEPT !.vars[name] = obj] = [x EXCEPT !.vars = vs]
  OBVIOUS
<1> HIDE DEF vs
<1>3. Leads(x, [x EXCEPT !.vars = vs])
  BY <1>1, SoundParts, Updates, LeadsTo, GrowsNot
<1> QED
  BY <1>2, <1>3 DEF SetVar

\* The heap grows under a frame at work.
LEMMA LeadsHeap ==
    ASSUME NEW x, Sound(x), NEW h, IsHeap(h), Grows(x.heap, h)
    PROVE  Leads(x, [x EXCEPT !.heap = h])
<1>1. Values(x.data, h) /\ Variables(x.vars, DOMAIN x.vars, h)
  BY SoundParts, StillValues, StillVariables
<1>2. Leads(x, Working(x.data, x.vars, h, x.out, x.jump, x.thrown))
  BY <1>1, LeadsTo
<1> QED
  BY <1>2, Updates

\* An object stays one in a longer heap.
LEMMA StillClass ==
    \A o, g, h : IsClass(o, g) /\ Len(g) \in Nat /\ Len(h) \in Nat /\ Len(g) <= Len(h) => IsClass(o, h)
<1> SUFFICES ASSUME NEW o, NEW g, NEW h, IsClass(o, g), Len(g) \in Nat, Len(h) \in Nat, Len(g) <= Len(h)
             PROVE  IsClass(o, h)
  OBVIOUS
<1>1. \A obj : IsValue(obj, g) => IsValue(obj, h)
  BY DEF IsValue
<1> QED
  BY <1>1 DEF IsClass

\* A new object: the heap grows by one.
LEMMA HeapAppended ==
    ASSUME NEW h, NEW o, IsHeap(h), IsClass(o, h)
    PROVE  IsHeap(Append(h, o)) /\ Grows(h, Append(h, o)) /\ Len(h) + 1 \in 1..Len(Append(h, o))
<1> DEFINE g == Append(h, o)
<1>1. IsSeq(g) /\ Len(h) \in Nat /\ Len(g) = Len(h) + 1
      /\ (\A k \in 1..Len(h) : g[k] = h[k]) /\ g[Len(h) + 1] = o
  BY Appended DEF IsHeap
<1> HIDE DEF g
<1>2. ASSUME NEW k \in 1..Len(g) PROVE IsClass(g[k], g)
  <2>1. IsClass(g[k], h)
    <3>1. CASE k = Len(h) + 1
      BY <1>1, <3>1
    <3>2. CASE k # Len(h) + 1
      <4>1. k \in 1..Len(h)
        BY <1>1, <3>2
      <4> QED
        BY <1>1, <4>1 DEF IsHeap
    <3> QED
      BY <3>1, <3>2
  <2>2. Len(g) \in Nat /\ Len(h) <= Len(g)
    BY <1>1
  <2> QED
    BY <1>1, <2>1, <2>2, StillClass
<1>3. IsHeap(g)
  BY <1>1, <1>2 DEF IsHeap
<1>4. Grows(h, g)
  <2>1. \A k \in 1..Len(h) : h[k].methods \subseteq g[k].methods
    BY <1>1
  <2> QED
    BY <1>1, <2>1 DEF Grows
<1> QED
  BY <1>1, <1>3, <1>4 DEF g

\* An object is changed: fields that are values, and no method is lost.
LEMMA HeapChanged ==
    ASSUME NEW h, NEW v, NEW o, IsHeap(h), v \in 1..Len(h), IsClass(o, h), h[v].methods \subseteq o.methods
    PROVE  IsHeap([h EXCEPT ![v] = o]) /\ Grows(h, [h EXCEPT ![v] = o])
<1> DEFINE g == [h EXCEPT ![v] = o]
<1>1. PICK S : h \in Seq(S)
  BY DEF IsHeap, IsSeq
<1> DEFINE T == S \cup {o}
<1>2. h \in Seq(T) /\ o \in T
  BY <1>1, SeqMonotonic
<1> HIDE DEF T
<1>3. g \in Seq(T) /\ Len(g) = Len(h) /\ \A k \in 1..Len(h) : g[k] = IF k = v THEN o ELSE h[k]
  BY <1>2, ExceptSeq
<1> HIDE DEF g
<1>4. Len(h) \in Nat
  BY HeapLen
<1>5. ASSUME NEW k \in 1..Len(h) PROVE IsClass(g[k], g) /\ h[k].methods \subseteq g[k].methods
  <2>1. IsClass(g[k], h)
    BY <1>3 DEF IsHeap
  <2>2. IsClass(g[k], g)
    BY <1>3, <1>4, <2>1, StillClass
  <2>3. h[k].methods \subseteq g[k].methods
    BY <1>3
  <2> QED
    BY <2>2, <2>3
<1>6. IsHeap(g)
  BY <1>3, <1>5 DEF IsHeap, IsSeq
<1>7. Grows(h, g)
  BY <1>3, <1>4, <1>5 DEF Grows
<1> QED
  BY <1>6, <1>7 DEF g

\* A copy of a value is a value, in a heap that has grown (Object::clone).
LEMMA CloneFacts ==
    ASSUME NEW x, Sound(x), NEW obj, IsValue(obj, x.heap)
    PROVE  LET c == Clone(x, obj)
           IN /\ Leads(x, c.x) /\ IsValue(c.obj, c.x.heap)
              /\ c.x.data = x.data /\ c.x.vars = x.vars /\ c.x.thrown = x.thrown
<1>1. CASE obj.t = "Class"
  <2> DEFINE h == Append(x.heap, x.heap[obj.v])
             y == [x EXCEPT !.heap = h]
  <2>1. IsHeap(x.heap) /\ obj.v \in 1..Len(x.heap)
    BY <1>1, SoundParts DEF IsValue
  <2>2. IsClass(x.heap[obj.v], x.heap)
    BY <2>1 DEF IsHeap
  <2>3. IsHeap(h) /\ Grows(x.heap, h) /\ Len(x.heap) + 1 \in 1..Len(h)
    BY <2>1, <2>2, HeapAppended
  <2>4. Clone(x, obj) = [x |-> y, obj |-> Object(Len(x.heap) + 1)]
    BY <1>1 DEF Clone
  <2> HIDE DEF h
  <2>5. Leads(x, y)
    BY <2>3, LeadsHeap
  <2>6. y = Working(x.data, x.vars, h, x.out, x.jump, x.thrown)
    BY Updates
  <2>7. y.heap = h /\ y.data = x.data /\ y.vars = x.vars /\ y.thrown = x.thrown
    BY <2>6 DEF Working
  <2> HIDE DEF y
  <2>8. IsValue(Object(Len(x.heap) + 1), h)
    BY <2>3 DEF IsValue, Object
  <2> QED
    BY <2>4, <2>5, <2>7, <2>8
<1>2. CASE obj.t # "Class"
  <2>1. Clone(x, obj) = [x |-> x, obj |-> obj]
    BY <1>2 DEF Clone
  <2> QED
    BY <2>1, LeadsSelf
<1> QED
  BY <1>1, <1>2

\* popGetTos: a copy of the top, and the frame without it.
Tos(x) == Clone(x, Top(x)).obj
Popped(x) == Pop(Clone(x, Top(x)).x)

\* What is popped is a value, and what is left is the frame without it.
LEMMA PoppedFacts ==
    ASSUME NEW x, Sound(x), x.data # <<>>, ~x.thrown
    PROVE  /\ Leads(x, Popped(x)) /\ IsValue(Tos(x), Popped(x).heap) /\ Popped(x).data = Front(x.data)
           /\ Popped(x).vars = x.vars /\ ~Popped(x).thrown
<1> DEFINE y == Clone(x, Top(x)).x
<1>1. IsValue(Top(x), x.heap)
  BY SoundParts, ValuesFront DEF Top
<1>2. Leads(x, y) /\ IsValue(Tos(x), y.heap) /\ y.data = x.data /\ y.vars = x.vars /\ ~y.thrown
  BY <1>1, CloneFacts DEF Tos
<1> HIDE DEF y
<1>3. Sound(y)
  BY <1>2, LeadsSound
<1>4. Leads(y, Pop(y))
  BY <1>3, LeadsPop
<1>5. Pop(y) = [y EXCEPT !.data = Front(y.data)]
  BY <1>2 DEF Pop, Need
<1>6. Pop(y) = Working(Front(y.data), y.vars, y.heap, y.out, y.jump, y.thrown)
  BY <1>3, <1>5, Updates
<1>7. Pop(y).heap = y.heap /\ Pop(y).data = Front(x.data) /\ Pop(y).vars = x.vars /\ ~Pop(y).thrown
  BY <1>2, <1>6 DEF Working
<1>8. Popped(x) = Pop(y)
  BY DEF Popped, y
<1>9. Leads(x, Pop(y))
  BY <1>2, <1>4, LeadsAlong
<1> QED
  BY <1>2, <1>7, <1>8, <1>9

\* What comes of popping one value, or two, and going on with q.
Behind1(x, q) == IF x.thrown \/ x.data = <<>> THEN Throw(x) ELSE q
Behind2(x, q) == Behind1(x, Behind1(Popped(x), q))

\* A callback that pops one value leads on when what it does with it does.
LEMMA LeadsBehind1 ==
    ASSUME NEW x, NEW q, Sound(x),
           Sound(Popped(x)) /\ IsValue(Tos(x), Popped(x).heap) => Leads(Popped(x), q)
    PROVE  Leads(x, Behind1(x, q))
<1>1. CASE x.thrown \/ x.data = <<>>
  BY <1>1, LeadsThrow DEF Behind1
<1>2. CASE ~(x.thrown \/ x.data = <<>>)
  <2>1. Leads(x, Popped(x)) /\ IsValue(Tos(x), Popped(x).heap)
    BY <1>2, PoppedFacts
  <2>2. Leads(Popped(x), q)
    BY <2>1, LeadsSound
  <2> QED
    BY <1>2, <2>1, <2>2, LeadsAlong DEF Behind1
<1> QED
  BY <1>1, <1>2

\* A callback that pops two values leads on when what it does with them does.
LEMMA LeadsBehind2 ==
    ASSUME NEW x, NEW q, Sound(x),
           LET z == Popped(Popped(x))
           IN Sound(z) /\ IsValue(Tos(x), z.heap) /\ IsValue(Tos(Popped(x)), z.heap) => Leads(z, q)
    PROVE  Leads(x, Behind2(x, q))
<1> DEFINE y == Popped(x)
           z == Popped(y)
<1>1. ASSUME Sound(y), IsValue(Tos(x), y.heap) PROVE Leads(y, Behind1(y, q))
  <2>1. CASE y.thrown \/ y.data = <<>>
    BY <1>1, <2>1, LeadsThrow DEF Behind1
  <2>2. CASE ~(y.thrown \/ y.data = <<>>)
    <3>1. Leads(y, z) /\ IsValue(Tos(y), z.heap)
      BY <1>1, <2>2, PoppedFacts
    <3>2. Sound(z) /\ IsHeap(y.heap) /\ IsHeap(z.heap) /\ Grows(y.heap, z.heap)
      BY <1>1, <3>1, LeadsSound, SoundParts DEF Leads, Reaches
    <3>3. IsValue(Tos(x), z.heap)
      BY <1>1, <3>2, HeapLen, StillValue
    <3>4. Leads(z, q)
      BY <3>1, <3>2, <3>3
    <3> QED
      BY <1>1, <2>2, <3>1, <3>4, LeadsAlong DEF Behind1
  <2> QED
    BY <2>1, <2>2
<1> QED
  BY <1>1, LeadsBehind1 DEF Behind2

-----------------------------------------------------------------------------
(* The callbacks.                                                          *)

\* Numbers and constants are values in every heap.
LEMMA ScalarValue ==
    /\ \A a, h : IsValue(Integer(a), h) /\ IsValue(Null, h)
    /\ \A a, b, h : IsValue(Float(a, b), h)
    /\ \A obj, h : IsObject(obj) => IsValue(obj, h)
<1>1. \A a, h : IsValue(Integer(a), h) /\ IsValue(Null, h)
  BY DEF IsValue, Integer, Null
<1>2. \A a, b, h : IsValue(Float(a, b), h)
  BY DEF IsValue, Float
<1>3. ASSUME NEW obj, NEW h, IsObject(obj) PROVE IsValue(obj, h)
  <2>1. CASE IsPrimitive(obj)
    <3>1. obj.t = "Integer" \/ obj.t = "String"
      BY <2>1 DEF IsPrimitive, Integer, String
    <3> QED
      BY <3>1 DEF IsValue
  <2>2. CASE obj = Tuple(obj.v) /\ IsSeq(obj.v) /\ \A k \in DOMAIN obj.v : IsPrimitive(obj.v[k])
    <3>1. obj.t = "Tuple"
      BY <2>2 DEF Tuple
    <3>2. DOMAIN obj.v = 1..Len(obj.v)
      BY <2>2, SeqFacts
    <3> QED
      BY <2>2, <3>1, <3>2 DEF IsValue
  <2> QED
    BY <1>3, <2>1, <2>2 DEF IsObject
<1> QED
  BY <1>1, <1>2, <1>3

\* BINARY_ADD, BINARY_SUBTRACT and BINARY_TRUE_DIVIDE lead on.
LEMMA LeadsArithmetic ==
    ASSUME NEW x, Sound(x)
    PROVE  Leads(x, BINARY_ADD(x)) /\ Leads(x, BINARY_SUBTRACT(x)) /\ Leads(x, BINARY_TRUE_DIVIDE(x))
<1> DEFINE z == Popped(Popped(x))
           a == Tos(x)
           b == Tos(Popped(x))
<1>1. ASSUME NEW e, NEW c, \A h : IsValue(e, h) PROVE Leads(x, Behind2(x, Need(z, c, Push(z, e))))
  <2>1. Sound(z) => Leads(z, Need(z, c, Push(z, e)))
    BY <1>1, LeadsPush, LeadsNeed
  <2> QED
    BY <2>1, LeadsBehind2
<1>2. \A h, c, d : IsValue(Plus(c, d), h) /\ IsValue(Minus(c, d), h) /\ IsValue(Over(c, d), h)
  BY ScalarValue DEF Plus, Minus, Over
<1>3. BINARY_ADD(x) = Behind2(x, Need(z, Same(a, b), Push(z, Plus(a, b))))
  BY DEF BINARY_ADD, With2, WithTos, Behind1, Behind2, Popped, Tos
<1>4. BINARY_SUBTRACT(x) = Behind2(x, Need(z, Same(b, a), Push(z, Minus(b, a))))
  BY DEF BINARY_SUBTRACT, With2, WithTos, Behind1, Behind2, Popped, Tos
<1>5. BINARY_TRUE_DIVIDE(x) = Behind2(x, Need(z, Same(b, a), Push(z, Over(b, a))))
  BY DEF BINARY_TRUE_DIVIDE, With2, WithTos, Behind1, Behind2, Popped, Tos
<1> HIDE DEF z, a, b
<1> QED
  BY <1>1, <1>2, <1>3, <1>4, <1>5

\* BINARY_SUBSCR leads on: an item of a tuple is no object.
LEMMA LeadsSubscr ==
    ASSUME NEW x, Sound(x)
    PROVE  Leads(x, BINARY_SUBSCR(x))
<1> DEFINE z == Popped(Popped(x))
           idx == Tos(x)
           tuple == Tos(Popped(x))
           c == tuple.t = "Tuple" /\ idx.t = "Integer" /\ idx.v \in 0..(Len(tuple.v) - 1)
           e == tuple.v[idx.v + 1]
<1>1. BINARY_SUBSCR(x) = Behind2(x, Need(z, c, Push(z, e)))
  BY DEF BINARY_SUBSCR, With2, WithTos, Behind1, Behind2, Popped, Tos
<1>2. ASSUME Sound(z), IsValue(tuple, z.heap), c PROVE IsValue(e, z.heap)
  <2>1. IsSeq(tuple.v) /\ \A k \in 1..Len(tuple.v) : IsPrimitive(tuple.v[k])
    BY <1>2 DEF IsValue
  <2>2. Len(tuple.v) \in Nat
    BY <2>1, SeqFacts
  <2>3. idx.v + 1 \in 1..Len(tuple.v)
    BY <1>2, <2>2
  <2>4. IsPrimitive(e)
    BY <2>1, <2>3
  <2> QED
    BY <2>4, ScalarValue DEF IsObject
<1> HIDE DEF z, c, e
<1>3. Sound(z) /\ IsValue(tuple, z.heap) => Leads(z, Need(z, c, Push(z, e)))
  BY <1>2, LeadsPush, LeadsNeed
<1> QED
  BY <1>1, <1>3, LeadsBehind2 DEF z

\* COMPARE_OP leads on.
LEMMA LeadsCompare ==
    ASSUME NEW x, NEW op, Sound(x)
    PROVE  Leads(x, COMPARE_OP(x, op))
<1> DEFINE z == Popped(Popped(x))
           a == Tos(x)
           b == Tos(Popped(x))
           c == a.t = "Integer" /\ b.t = "Integer" /\ op \in 0..5
           e == Integer(IF Compare(b.v, a.v, op) THEN 1 ELSE 0)
<1>1. COMPARE_OP(x, op) = Behind2(x, Need(z, c, Push(z, e)))
  BY DEF COMPARE_OP, With2, WithTos, Behind1, Behind2, Popped, Tos
<1>2. \A h : IsValue(e, h)
  BY ScalarValue
<1> HIDE DEF z, c, e
<1>3. Sound(z) => Leads(z, Need(z, c, Push(z, e)))
  BY <1>2, LeadsPush, LeadsNeed
<1> QED
  BY <1>1, <1>3, LeadsBehind2 DEF z

\* The conditional jumps reach a frame at work, from which the branch may be taken.
LEMMA JumpReaches ==
    ASSUME NEW x, NEW true, Sound(x)
    PROVE  Reaches(x, POP_JUMP_IF(x, true))
<1> DEFINE y == Popped(x)
           tos == Tos(x)
           c == tos.t = "Integer"
           r == [y EXCEPT !.jump = ((tos.v # 0) = true)]
<1>1. POP_JUMP_IF(x, true) = Behind1(x, Need(y, c, r))
  BY DEF POP_JUMP_IF, WithTos, Behind1, Popped, Tos
<1>2. Leads(x, Throw(x))
  BY LeadsThrow
<1>3. CASE ~(x.thrown \/ x.data = <<>>)
  <2>1. Leads(x, y) /\ Sound(y)
    BY <1>3, PoppedFacts, LeadsSound
  <2>2. Reaches(y, r) /\ Leads(y, Throw(y))
    BY <2>1, LeadsFlags, LeadsThrow
  <2>3. Reaches(x, r) /\ Reaches(x, Throw(y))
    <3> HIDE DEF y, r
    <3> QED
      BY <2>1, <2>2, ReachesAlong DEF Leads
  <2> HIDE DEF y, r, c
  <2>4. Reaches(x, Need(y, c, r))
    BY <2>3 DEF Need
  <2> QED
    BY <1>1, <1>3, <2>4 DEF Behind1
<1>4. CASE x.thrown \/ x.data = <<>>
  BY <1>1, <1>2, <1>4 DEF Behind1, Leads
<1> QED
  BY <1>3, <1>4

\* PRINT leads on.
LEMMA LeadsPrint ==
    ASSUME NEW x, Sound(x)
    PROVE  Leads(x, PRINT(x))
<1> DEFINE y == Popped(x)
           e == Append(y.out, Shown(y.heap, Tos(x)))
<1>1. PRINT(x) = Behind1(x, [y EXCEPT !.out = e])
  BY DEF PRINT, WithTos, Behind1, Popped, Tos
<1> HIDE DEF e
<1>2. Sound(y) => Leads(y, [y EXCEPT !.out = e])
  BY LeadsFlags
<1> HIDE DEF y
<1> QED
  BY <1>1, <1>2, LeadsBehind1 DEF y

\* LOAD_CONST leads on: constants are values.
LEMMA LeadsLoadConst ==
    ASSUME NEW x, NEW meta, NEW arg \in Nat, Sound(x), IsSeq(meta.cstPool),
           \A k \in DOMAIN meta.cstPool : IsObject(meta.cstPool[k])
    PROVE  Leads(x, LOAD_CONST(x, meta, arg))
<1>1. Len(meta.cstPool) \in Nat /\ DOMAIN meta.cstPool = 1..Len(meta.cstPool)
  BY SeqFacts
<1>2. ASSUME arg < Len(meta.cstPool) PROVE Leads(x, Push(x, meta.cstPool[arg + 1]))
  <2>1. arg + 1 \in DOMAIN meta.cstPool
    BY <1>1, <1>2
  <2>2. IsValue(meta.cstPool[arg + 1], x.heap)
    BY <2>1, ScalarValue
  <2> QED
    BY <2>2, LeadsPush
<1> QED
  BY <1>2, LeadsNeed DEF LOAD_CONST

\* LOAD_FAST and STORE_FAST lead on.
LEMMA LeadsFast ==
    ASSUME NEW x, NEW name \in DOMAIN x.vars, Sound(x)
    PROVE  Leads(x, LOAD_FAST(x, name)) /\ Leads(x, STORE_FAST(x, name))
<1>1. IsValue(x.vars[name], x.heap)
  BY SoundParts DEF Variables
<1>2. x.data # <<>> => Leads(x, SetVar(x, name, Top(x)))
  BY SoundParts, ValuesFront, LeadsSetVar DEF Top
<1>3. Leads(x, STORE_FAST(x, name))
  BY <1>2, LeadsNeed DEF STORE_FAST
<1> QED
  BY <1>1, <1>3, LeadsPush DEF LOAD_FAST

\* LOAD_BUILD_CLASS leads on: a new object is in the heap.
LEMMA LeadsBuildClass ==
    ASSUME NEW x, Sound(x)
    PROVE  Leads(x, LOAD_BUILD_CLASS(x))
<1> DEFINE h == Append(x.heap, EmptyObject)
           y == [x EXCEPT !.heap = h]
           obj == Object(Len(x.heap) + 1)
<1>1. IsClass(EmptyObject, x.heap)
  BY DEF IsClass, EmptyObject, NoFuncs
<1>2. IsHeap(h) /\ Grows(x.heap, h) /\ Len(x.heap) + 1 \in 1..Len(h)
  BY <1>1, SoundParts, HeapAppended
<1>3. LOAD_BUILD_CLASS(x) = Push(y, obj)
  BY DEF LOAD_BUILD_CLASS
<1> HIDE DEF h
<1>4. IsValue(obj, h)
  BY <1>2 DEF IsValue, Object
<1>5. Leads(x, y)
  BY <1>2, LeadsHeap
<1>6. y.heap = h
  BY Updates DEF Working
<1> HIDE DEF y, obj
<1>7. Leads(y, Push(y, obj))
  BY <1>4, <1>5, <1>6, LeadsSound, LeadsPush
<1> QED
  BY <1>3, <1>5, <1>7, LeadsAlong

\* STORE_BUILD_CLASS leads on.
LEMMA LeadsStoreBuildClass ==
    ASSUME NEW x, NEW name \in DOMAIN x.vars, Sound(x)
    PROVE  Leads(x, STORE_BUILD_CLASS(x, name))
<1> DEFINE y == Popped(x)
           tos == Tos(x)
<1>1. STORE_BUILD_CLASS(x, name) = Behind1(x, Need(y, tos.t = "Class", SetVar(y, name, tos)))
  BY DEF STORE_BUILD_CLASS, WithTos, Behind1, Popped, Tos
<1>2. CASE x.thrown \/ x.data = <<>>
  BY <1>1, <1>2, LeadsThrow DEF Behind1
<1>3. CASE ~(x.thrown \/ x.data = <<>>)
  <2>1. Leads(x, y) /\ IsValue(tos, y.heap) /\ y.vars = x.vars
    BY <1>3, PoppedFacts
  <2> HIDE DEF y, tos
  <2>2. Leads(y, Need(y, tos.t = "Class", SetVar(y, name, tos)))
    BY <2>1, LeadsSound, LeadsSetVar, LeadsNeed
  <2> QED
    BY <1>1, <1>3, <2>1, <2>2, LeadsAlong DEF Behind1
<1> QED
  BY <1>2, <1>3

\* The object on top is one of the heap.
LEMMA TopObject ==
    ASSUME NEW x, Sound(x), TopIsClass(x)
    PROVE  Top(x).v \in 1..Len(x.heap) /\ IsClass(x.heap[Top(x).v], x.heap)
<1>1. IsValue(Top(x), x.heap)
  BY SoundParts, ValuesFront DEF Top, TopIsClass
<1>2. Top(x).v \in 1..Len(x.heap)
  BY <1>1 DEF IsValue, TopIsClass
<1> QED
  BY <1>2, SoundParts DEF IsHeap

\* An object changes that keeps its methods.
LEMMA LeadsChange ==
    ASSUME NEW x, Sound(x), NEW v \in 1..Len(x.heap), NEW o, IsClass(o, x.heap), x.heap[v].methods \subseteq o.methods
    PROVE  Leads(x, [x EXCEPT !.heap = [x.heap EXCEPT ![v] = o]])
  BY SoundParts, HeapChanged, LeadsHeap

\* STORE_ATTR leads on: the object keeps its methods.
LEMMA LeadsStoreAttr ==
    ASSUME NEW x, NEW name, Sound(x)
    PROVE  Leads(x, STORE_ATTR(x, name))
<1> DEFINE y == Popped(x)
           attr == Tos(x)
           v == Top(y).v
           old == y.heap[v]
           fields == With(old.fields, name, attr)
           o == [old EXCEPT !.fields = fields]
           r == [y EXCEPT !.heap = [y.heap EXCEPT ![v] = o]]
<1>1. [y EXCEPT !.heap[Top(y).v].fields = With(@, name, attr)] = r
  OBVIOUS
<1>2. STORE_ATTR(x, name) = Behind1(x, Need(y, TopIsClass(y), r))
  BY <1>1 DEF STORE_ATTR, WithTos, Behind1, Popped, Tos
<1>3. ASSUME Sound(y), IsValue(attr, y.heap), TopIsClass(y) PROVE Leads(y, r)
  <2>1. v \in 1..Len(y.heap) /\ IsClass(old, y.heap)
    BY <1>3, TopObject
  <2> HIDE DEF old, v
  <2>2. o = [fields |-> fields, methods |-> old.methods]
    BY <2>1 DEF IsClass
  <2>3. ASSUME NEW f \in DOMAIN fields PROVE IsValue(fields[f], y.heap)
    <3>1. f = name \/ (f # name /\ f \in DOMAIN old.fields)
      BY DEF With
    <3>2. fields[f] = IF f = name THEN attr ELSE old.fields[f]
      BY DEF With
    <3> QED
      BY <1>3, <2>1, <3>1, <3>2 DEF IsClass
  <2> HIDE DEF fields
  <2>4. o.fields = fields /\ o.methods = old.methods
    BY <2>2
  <2>5. IsClass(o, y.heap)
    BY <2>2, <2>3, <2>4 DEF IsClass
  <2>6. y.heap[v].methods \subseteq o.methods
    BY <2>4 DEF old
  <2> HIDE DEF o, y
  <2> QED
    BY <1>3, <2>1, <2>5, <2>6, LeadsChange DEF v
<1> HIDE DEF y, attr, r
<1>4. Sound(y) /\ IsValue(attr, y.heap) => Leads(y, Need(y, TopIsClass(y), r))
  BY <1>3, LeadsNeed
<1> QED
  BY <1>2, <1>4, LeadsBehind1 DEF y, attr

\* LOAD_ATTR leads on: fields hold values.
LEMMA LeadsLoadAttr ==
    ASSUME NEW x, NEW name, Sound(x)
    PROVE  Leads(x, LOAD_ATTR(x, name))
<1> DEFINE c == TopIsClass(x) /\ name \in DOMAIN x.heap[Top(x).v].fields
           e == x.heap[Top(x).v].fields[name]
<1>1. c => IsValue(e, x.heap)
  BY TopObject DEF IsClass
<1> HIDE DEF e
<1>2. c => Leads(x, Push(x, e))
  BY <1>1, LeadsPush
<1> HIDE DEF c
<1>3. Leads(x, Need(x, c, Push(x, e)))
  BY <1>2, LeadsNeed
<1> QED
  BY <1>3 DEF LOAD_ATTR, c, e

\* INSTANCE_CLASS leads on.
LEMMA LeadsInstance ==
    ASSUME NEW x, NEW name \in DOMAIN x.vars, Sound(x)
    PROVE  Leads(x, INSTANCE_CLASS(x, name))
<1> DEFINE y == Clone(x, x.vars[name]).x
           obj == Clone(x, x.vars[name]).obj
<1>1. IsValue(x.vars[name], x.heap)
  BY SoundParts DEF Variables
<1>2. Leads(x, y) /\ IsValue(obj, y.heap)
  BY <1>1, CloneFacts
<1>3. INSTANCE_CLASS(x, name) = Need(x, x.vars[name].t = "Class", Push(y, obj))
  BY DEF INSTANCE_CLASS
<1> HIDE DEF y, obj
<1>4. Leads(y, Push(y, obj))
  BY <1>2, LeadsSound, LeadsPush
<1>5. Leads(x, Push(y, obj))
  BY <1>2, <1>4, LeadsAlong
<1> QED
  BY <1>3, <1>5, LeadsNeed

\* REGISTER_METHOD leads on: no method is taken away.
LEMMA LeadsRegister ==
    ASSUME NEW x, NEW name, Sound(x)
    PROVE  Leads(x, REGISTER_METHOD(x, name))
<1> DEFINE v == Top(x).v
           old == x.heap[v]
           methods == old.methods \cup {name}
           o == [old EXCEPT !.methods = methods]
           r == [x EXCEPT !.heap = [x.heap EXCEPT ![v] = o]]
           c == TopIsClass(x) /\ name \notin x.heap[Top(x).v].methods
<1>1. [x EXCEPT !.heap[Top(x).v].methods = @ \cup {name}] = r
  OBVIOUS
<1>2. REGISTER_METHOD(x, name) = Need(x, c, r)
  BY <1>1 DEF REGISTER_METHOD
<1>3. ASSUME TopIsClass(x) PROVE Leads(x, r)
  <2>1. v \in 1..Len(x.heap) /\ IsClass(old, x.heap)
    BY <1>3, TopObject
  <2>3. old.methods \subseteq methods
    OBVIOUS
  <2> HIDE DEF methods, old, v
  <2>0. old = [fields |-> old.fields, methods |-> old.methods]
    BY <2>1 DEF IsClass
  <2>2. o = [fields |-> old.fields, methods |-> methods]
    BY <2>0
  <2>4. o.fields = old.fields /\ o.methods = methods
    BY <2>2
  <2>5. IsClass(o, x.heap)
    BY <2>1, <2>2, <2>4 DEF IsClass
  <2>6. x.heap[v].methods \subseteq o.methods
    BY <2>3, <2>4 DEF old
  <2> HIDE DEF o
  <2> QED
    BY <1>3, <2>1, <2>5, <2>6, LeadsChange DEF v
<1> HIDE DEF r
<1> QED
  BY <1>2, <1>3, LeadsNeed

\* Every instruction that works on the stack alone leads on.
LEMMA LeadsPlain ==
    ASSUME NEW x, NEW meta, NEW inst, Sound(x), IsMeta(meta), inst.arg \in Nat, inst.op \in Plain
    PROVE  Leads(x, ExecutePlain(x, meta, inst))
<1>1. CASE inst.op = "POP_TOP"
  BY <1>1, LeadsPop DEF ExecutePlain
<1>2. CASE inst.op = "BINARY_ADD"
  BY <1>2, LeadsArithmetic DEF ExecutePlain
<1>3. CASE inst.op = "BINARY_SUBTRACT"
  BY <1>3, LeadsArithmetic DEF ExecutePlain
<1>4. CASE inst.op = "BINARY_TRUE_DIVIDE"
  BY <1>4, LeadsArithmetic DEF ExecutePlain
<1>5. CASE inst.op = "BINARY_SUBSCR"
  BY <1>5, LeadsSubscr DEF ExecutePlain
<1>6. CASE inst.op = "COMPARE_OP"
  BY <1>6, LeadsCompare DEF ExecutePlain
<1>7. CASE inst.op = "PRINT"
  BY <1>7, LeadsPrint DEF ExecutePlain
<1>8. CASE inst.op = "LOAD_BUILD_CLASS"
  BY <1>8, LeadsBuildClass DEF ExecutePlain
<1>9. CASE inst.op = "LOAD_CONST"
  <2>1. Leads(x, LOAD_CONST(x, meta, inst.arg))
    BY LeadsLoadConst DEF IsMeta
  <2> QED
    BY <1>9, <2>1 DEF ExecutePlain
<1> QED
  BY <1>1, <1>2, <1>3, <1>4, <1>5, <1>6, <1>7, <1>8, <1>9 DEF Plain

\* Every instruction that works on a name of its function leads on.
LEMMA LeadsNamed ==
    ASSUME NEW x, NEW op \in Named, NEW name \in DOMAIN x.vars, Sound(x)
    PROVE  Leads(x, ExecuteNamed(x, op, name))
<1>1. CASE op = "LOAD_FAST"
  BY <1>1, LeadsFast DEF ExecuteNamed
<1>2. CASE op = "STORE_FAST"
  BY <1>2, LeadsFast DEF ExecuteNamed
<1>3. CASE op = "STORE_BUILD_CLASS"
  BY <1>3, LeadsStoreBuildClass DEF ExecuteNamed
<1>4. CASE op = "STORE_ATTR"
  BY <1>4, LeadsStoreAttr DEF ExecuteNamed
<1>5. CASE op = "LOAD_ATTR"
  BY <1>5, LeadsLoadAttr DEF ExecuteNamed
<1>6. CASE op = "INSTANCE_CLASS"
  BY <1>6, LeadsInstance DEF ExecuteNamed
<1>7. CASE op = "REGISTER_METHOD"
  BY <1>7, LeadsRegister DEF ExecuteNamed
<1> QED
  BY <1>1, <1>2, <1>3, <1>4, <1>5, <1>6, <1>7 DEF Named

\* A number of a name within the list is the number of a name.
LEMMA NameOf ==
    \A meta, arg : IsMeta(meta) /\ arg \in Nat /\ arg < Len(meta.names) => meta.names[arg + 1] \in Range(meta.names)
<1> SUFFICES ASSUME NEW meta, NEW arg \in Nat, IsMeta(meta), arg < Len(meta.names)
             PROVE  meta.names[arg + 1] \in Range(meta.names)
  OBVIOUS
<1>1. DOMAIN meta.names = 1..Len(meta.names) /\ Len(meta.names) \in Nat
  BY SeqFacts DEF IsMeta
<1>2. arg + 1 \in DOMAIN meta.names
  BY <1>1
<1> QED
  BY <1>2 DEF Range

\* Every instruction but calls and returns leads on, and only the conditional jumps branch (the callbacks of executor.cc).
LEMMA LeadsExecute ==
    ASSUME NEW x, NEW meta, NEW inst, Sound(x), IsMeta(meta), DOMAIN x.vars = Range(meta.names),
           inst.arg \in Nat, inst.op \notin Calls \cup {"RETURN_VALUE"}
    PROVE  Reaches(x, Execute(x, meta, inst)) /\ (inst.op \notin Branches => Leads(x, Execute(x, meta, inst)))
<1> DEFINE n == meta.names[inst.arg + 1]
<1>0. inst.op \in Implemented => inst.op \in Plain \/ inst.op \in Named \/ inst.op \in Branches
  BY DEF Implemented
<1>1. CASE inst.op \in Plain
  <2>1. Leads(x, ExecutePlain(x, meta, inst))
    BY <1>1, LeadsPlain
  <2>2. Execute(x, meta, inst) = ExecutePlain(x, meta, inst)
    BY <1>1 DEF Execute, Plain, Named, Branches, Implemented
  <2> QED
    BY <2>1, <2>2 DEF Leads
<1>2. CASE inst.op \in Named
  <2>1. inst.arg < Len(meta.names) => Leads(x, ExecuteNamed(x, inst.op, n))
    BY <1>2, NameOf, LeadsNamed
  <2>2. Leads(x, Need(x, inst.arg < Len(meta.names), ExecuteNamed(x, inst.op, n)))
    BY <2>1, LeadsNeed
  <2>3. Execute(x, meta, inst) = Need(x, inst.arg < Len(meta.names), ExecuteNamed(x, inst.op, n))
    BY <1>2 DEF Execute, Plain, Named, Branches, Implemented
  <2> QED
    BY <2>2, <2>3 DEF Leads
<1>3. CASE inst.op \in Branches
  <2>1. Reaches(x, POP_JUMP_IF(x, inst.op = "POP_JUMP_IF_TRUE"))
    BY JumpReaches
  <2>2. Execute(x, meta, inst) = POP_JUMP_IF(x, inst.op = "POP_JUMP_IF_TRUE")
    BY <1>3 DEF Execute, Plain, Named, Branches, Implemented
  <2> QED
    BY <1>3, <2>1, <2>2
<1>4. CASE inst.op \notin Implemented
  <2>1. Execute(x, meta, inst) = Throw(x)
    BY <1>4 DEF Execute, Implemented
  <2> QED
    BY <2>1, LeadsThrow DEF Leads
<1> QED
  BY <1>0, <1>1, <1>2, <1>3, <1>4

-----------------------------------------------------------------------------
(* The stack of frames.                                                    *)

\* A frame of a function of the file.
IsFrame(frame, f, h) ==
    /\ frame = [func |-> frame.func, ret |-> frame.ret, data |-> frame.data, vars |-> frame.vars]
    /\ frame.func \in DOMAIN f.funcs /\ frame.ret \in Nat
    /\ Values(frame.data, h) /\ Variables(frame.vars, Range(f.funcs[frame.func].names), h)
\* The frame below waits behind the call of the function that runs above it.
Waits(below, func, f, h) ==
    LET call == f.code[below.ret]
        name == f.funcs[below.func].names[call.arg + 1]
    IN /\ below.ret \in DOMAIN f.code /\ call.op \in Calls /\ name = func
       /\ IF call.op = "CALL_FUNCTION" THEN below.data = <<>>
          ELSE TopIsClass(below) /\ name \in h[Top(below).v].methods
IsStack(s, f, h) ==
    /\ IsSeq(s) /\ IsHeap(h)
    /\ \A n \in 1..Len(s) : IsFrame(s[n], f, h)
    /\ \A n \in 1..(Len(s) - 1) : Waits(s[n], s[n + 1].func, f, h)
\* What holds of the frames in every state.
FramesInv ==
    /\ IsStack(frames, file, heap)
    /\ status \in {"start", "ready", "dumped"} => frames = <<>>
    /\ status = "running" => frames # <<>> /\ pc \in Nat

\* Frames stay frames while the heap grows.
LEMMA StillFrame ==
    \A e, f, g, h : IsFrame(e, f, g) /\ IsHeap(g) /\ IsHeap(h) /\ Grows(g, h) => IsFrame(e, f, h)
  BY StillValues, StillVariables DEF IsFrame

\* A caller waits behind the same call while the heap grows: methods are never lost.
LEMMA StillWaits ==
    ASSUME NEW e, NEW func, NEW f, NEW g, NEW h, IsFrame(e, f, g), Waits(e, func, f, g),
           IsHeap(g), IsHeap(h), Grows(g, h)
    PROVE  Waits(e, func, f, h)
<1>1. ASSUME TopIsClass(e) PROVE g[Top(e).v].methods \subseteq h[Top(e).v].methods
  <2>1. IsValue(Top(e), g)
    BY <1>1, ValuesFront DEF IsFrame, Top, TopIsClass
  <2>2. Top(e).v \in 1..Len(g)
    BY <1>1, <2>1 DEF IsValue, TopIsClass
  <2> QED
    BY <2>2 DEF Grows
<1> QED
  BY <1>1 DEF Waits

\* The stack of frames stays one while the heap grows.
LEMMA StackGrows ==
    ASSUME NEW s, NEW f, NEW g, NEW h, IsStack(s, f, g), IsHeap(h), Grows(g, h)
    PROVE  IsStack(s, f, h)
<1>1. IsHeap(g) /\ IsSeq(s) /\ Len(s) \in Nat
  BY SeqFacts DEF IsStack
<1>2. ASSUME NEW n \in 1..Len(s) PROVE IsFrame(s[n], f, h)
  BY <1>1, StillFrame DEF IsStack
<1>3. ASSUME NEW n \in 1..(Len(s) - 1) PROVE Waits(s[n], s[n + 1].func, f, h)
  <2>1. n \in 1..Len(s)
    BY <1>1
  <2>2. IsFrame(s[n], f, g) /\ Waits(s[n], s[n + 1].func, f, g)
    BY <2>1 DEF IsStack
  <2> QED
    BY <1>1, <2>2, StillWaits
<1> QED
  BY <1>1, <1>2, <1>3 DEF IsStack

\* What is below the top, and the top itself.
LEMMA StackFront ==
    ASSUME NEW s, NEW f, NEW h, IsStack(s, f, h), s # <<>>
    PROVE  /\ IsStack(Front(s), f, h) /\ IsFrame(Last(s), f, h)
           /\ Front(s) # <<>> => Waits(Last(Front(s)), Last(s).func, f, h)
<1> DEFINE u == Front(s)
<1>1. /\ Len(s) \in Nat /\ Len(s) >= 1 /\ Last(s) = s[Len(s)]
      /\ IsSeq(u) /\ Len(u) = Len(s) - 1
      /\ \A k \in 1..(Len(s) - 1) : u[k] = s[k]
  BY Shortened DEF IsStack
<1> HIDE DEF u
<1>2. IsFrame(Last(s), f, h)
  BY <1>1 DEF IsStack
<1>3. ASSUME NEW n \in 1..Len(u) PROVE IsFrame(u[n], f, h)
  <2>1. n \in 1..Len(s) /\ u[n] = s[n]
    BY <1>1
  <2> QED
    BY <2>1 DEF IsStack
<1>4. ASSUME NEW n \in 1..(Len(u) - 1) PROVE Waits(u[n], u[n + 1].func, f, h)
  <2>1. n \in 1..(Len(s) - 1) /\ u[n] = s[n] /\ u[n + 1] = s[n + 1]
    BY <1>1
  <2> QED
    BY <2>1 DEF IsStack
<1>5. IsStack(u, f, h)
  BY <1>1, <1>3, <1>4 DEF IsStack
<1>6. ASSUME u # <<>> PROVE Waits(Last(u), Last(s).func, f, h)
  <2> DEFINE n == Len(s) - 1
  <2>1. Len(u) \in Nat /\ Len(u) >= 1 /\ Last(u) = u[Len(u)]
    BY <1>1, <1>6, Shortened
  <2>2. n \in 1..(Len(s) - 1) /\ Last(u) = s[n] /\ Last(s) = s[n + 1]
    BY <1>1, <2>1
  <2>3. Waits(s[n], s[n + 1].func, f, h)
    BY <2>2 DEF IsStack
  <2> QED
    BY <2>2, <2>3
<1> QED
  BY <1>2, <1>5, <1>6 DEF u

\* A frame is put on top, of a function the one below waits for.
LEMMA StackPush ==
    ASSUME NEW s, NEW f, NEW h, NEW e, IsStack(s, f, h), IsFrame(e, f, h), s # <<>> => Waits(Last(s), e.func, f, h)
    PROVE  IsStack(Append(s, e), f, h) /\ Append(s, e) # <<>> /\ Last(Append(s, e)) = e
<1> DEFINE u == Append(s, e)
<1>1. IsSeq(u) /\ Len(s) \in Nat /\ Len(u) = Len(s) + 1
      /\ (\A k \in 1..Len(s) : u[k] = s[k]) /\ u[Len(s) + 1] = e
  BY Appended DEF IsStack
<1> HIDE DEF u
<1>2. ASSUME NEW n \in 1..Len(u) PROVE IsFrame(u[n], f, h)
  <2>1. CASE n = Len(s) + 1
    BY <1>1, <2>1
  <2>2. CASE n # Len(s) + 1
    <3>1. n \in 1..Len(s)
      BY <1>1, <2>2
    <3> QED
      BY <1>1, <3>1 DEF IsStack
  <2> QED
    BY <2>1, <2>2
<1>3. ASSUME NEW n \in 1..(Len(u) - 1) PROVE Waits(u[n], u[n + 1].func, f, h)
  <2>1. n \in 1..Len(s) /\ u[n] = s[n]
    BY <1>1
  <2>2. CASE n = Len(s)
    <3>1. s # <<>> /\ Last(s) = s[Len(s)]
      <4>1. s # <<>>
        BY <2>1, EmptySeq
      <4> QED
        BY <4>1, Shortened DEF IsStack
    <3> QED
      BY <1>1, <2>1, <2>2, <3>1
  <2>3. CASE n # Len(s)
    <3>1. n \in 1..(Len(s) - 1) /\ n + 1 \in 1..Len(s)
      BY <1>1, <2>1, <2>3
    <3>2. u[n + 1] = s[n + 1]
      BY <1>1, <3>1
    <3> QED
      BY <2>1, <3>1, <3>2 DEF IsStack
  <2> QED
    BY <2>2, <2>3
<1>4. IsStack(u, f, h)
  BY <1>1, <1>2, <1>3 DEF IsStack
<1>5. u # <<>> /\ Last(u) = e
  <2>1. u # <<>>
    BY <1>1, EmptySeq
  <2>2. Last(u) = u[Len(u)]
    BY <1>1, <2>1, Shortened
  <2> QED
    BY <1>1, <2>1, <2>2
<1> QED
  BY <1>4, <1>5 DEF u

\* The first frame is put on none.
LEMMA OneFrame == \A b : <<b>> = Append(<<>>, b)
OBVIOUS

\* Two frames behind others are one behind the other.
LEMMA TwoFrames ==
    ASSUME NEW s, NEW a, NEW b, IsSeq(s)
    PROVE  s \o <<a, b>> = Append(Append(s, a), b)
<1>1. PICK S : s \in Seq(S)
  BY DEF IsSeq
<1> DEFINE T == S \cup {a, b}
<1>2. s \in Seq(T) /\ a \in T /\ b \in T
  BY <1>1, SeqMonotonic
<1> HIDE DEF T
<1> QED
  BY <1>2

\* The frame on top is exchanged.
LEMMA LastExchanged ==
    ASSUME NEW s, NEW e, IsSeq(s), s # <<>>
    PROVE  [s EXCEPT ![Len(s)] = e] = Append(Front(s), e)
<1> DEFINE u == [s EXCEPT ![Len(s)] = e]
           w == Append(Front(s), e)
<1>1. PICK S : s \in Seq(S)
  BY DEF IsSeq
<1> DEFINE T == S \cup {e}
<1>2. s \in Seq(T) /\ e \in T
  BY <1>1, SeqMonotonic
<1> HIDE DEF T
<1>3. /\ Len(s) \in Nat /\ Len(s) >= 1 /\ IsSeq(Front(s)) /\ Len(Front(s)) = Len(s) - 1
      /\ \A k \in 1..(Len(s) - 1) : Front(s)[k] = s[k]
  BY Shortened
<1>4. u \in Seq(T) /\ Len(u) = Len(s) /\ \A k \in 1..Len(s) : u[k] = IF k = Len(s) THEN e ELSE s[k]
  BY <1>2, <1>3, ExceptSeq
<1>5. IsSeq(w) /\ Len(w) = Len(s) /\ (\A k \in 1..(Len(s) - 1) : w[k] = s[k]) /\ w[Len(s)] = e
  BY <1>3, Appended
<1> HIDE DEF u, w
<1>6. PICK W : w \in Seq(W)
  BY <1>5 DEF IsSeq
<1>7. \A k \in 1..Len(s) : u[k] = w[k]
  BY <1>3, <1>4, <1>5
<1>8. u = w
  BY <1>4, <1>5, <1>6, <1>7, SeqEqual
<1> QED
  BY <1>8 DEF u, w

-----------------------------------------------------------------------------
(* Arguments.                                                              *)

\* One pass of the loop that takes arguments.
TakeOne(acc, k) ==
    IF acc.x.thrown \/ acc.x.data = <<>> THEN [acc EXCEPT !.x = Throw(@)]
    ELSE LET c == Clone(acc.x, Top(acc.x)) IN [x |-> Pop(c.x), args |-> Append(acc.args, c.obj)]
Taking == INSTANCE FoldInduction WITH op <- TakeOne
TakenAfter(x, acc, k) ==
    /\ acc = [x |-> acc.x, args |-> acc.args] /\ Leads(x, acc.x) /\ Values(acc.args, acc.x.heap)
    /\ acc.x.thrown \/ Len(acc.x.data) = Len(x.data) - k

\* A pass takes one value from the stack, or throws.
LEMMA TakesOne ==
    ASSUME NEW x, NEW acc, NEW k \in Nat \ {0}, Sound(x), TakenAfter(x, acc, k - 1)
    PROVE  TakenAfter(x, TakeOne(acc, k), k)
<1> DEFINE w == acc.x
<1>0. acc = [x |-> w, args |-> acc.args] /\ Leads(x, w) /\ Values(acc.args, w.heap)
  BY DEF TakenAfter
<1>1. Sound(w)
  BY <1>0, LeadsSound
<1>2. CASE w.thrown \/ w.data = <<>>
  <2>1. TakeOne(acc, k) = [x |-> Throw(w), args |-> acc.args]
    BY <1>0, <1>2 DEF TakeOne
  <2>2. Throw(w) = Working(w.data, w.vars, w.heap, w.out, w.jump, TRUE)
    BY <1>1, Updates DEF Throw
  <2>3. Throw(w).heap = w.heap /\ Throw(w).thrown = TRUE
    BY <2>2 DEF Working
  <2>4. Leads(x, Throw(w))
    BY <1>0, <1>1, LeadsThrow, LeadsAlong
  <2> QED
    BY <1>0, <2>1, <2>3, <2>4 DEF TakenAfter
<1>3. CASE ~(w.thrown \/ w.data = <<>>)
  <2>1. TakeOne(acc, k) = [x |-> Popped(w), args |-> Append(acc.args, Tos(w))]
    BY <1>3 DEF TakeOne, Popped, Tos
  <2>2. Leads(w, Popped(w)) /\ IsValue(Tos(w), Popped(w).heap) /\ Popped(w).data = Front(w.data)
    BY <1>1, <1>3, PoppedFacts
  <2>3. Leads(x, Popped(w))
    BY <1>0, <2>2, LeadsAlong
  <2>4. IsHeap(w.heap) /\ IsHeap(Popped(w).heap) /\ Grows(w.heap, Popped(w).heap) /\ Values(w.data, w.heap)
    BY <1>1, <2>2, LeadsSound, SoundParts DEF Leads, Reaches
  <2>5. Values(Append(acc.args, Tos(w)), Popped(w).heap)
    BY <1>0, <2>2, <2>4, StillValues, ValuesAppended
  <2>6. Len(Front(w.data)) = Len(w.data) - 1
    BY <1>3, <2>4, Shortened DEF Values
  <2>7. Len(w.data) = Len(x.data) - (k - 1)
    BY <1>3 DEF TakenAfter
  <2>8. Len(x.data) \in Nat
    BY SoundParts, SeqFacts DEF Values
  <2>9. Len(Popped(w).data) = Len(x.data) - k
    <3> DEFINE a == Len(Popped(w).data)
               b == Len(w.data)
               c == Len(x.data)
    <3>1. a = b - 1 /\ b = c - (k - 1) /\ c \in Nat
      BY <2>2, <2>6, <2>7, <2>8
    <3> HIDE DEF a, b, c
    <3>2. a = c - k
      BY <3>1
    <3> QED
      BY <3>2 DEF a, c
  <2> QED
    BY <2>1, <2>3, <2>5, <2>9 DEF TakenAfter
<1> QED
  BY <1>2, <1>3

\* Taking n arguments leaves n values less on the stack, or throws (CallFunction, CallMethod).
LEMMA TakenFacts ==
    ASSUME NEW x, NEW n \in Nat, Sound(x)
    PROVE  TakenAfter(x, Take(x, n), n)
<1> DEFINE start == [x |-> x, args |-> <<>>]
           places == [k \in 1..n |-> k]
<1>1. Take(x, n) = Taking!Fold(start, places)
  BY DEF Take, TakeOne, Taking!Fold, FoldLeft, Taking!FoldLeft, MapThenFoldSet, Taking!MapThenFoldSet, Max, Taking!Max
<1>2. DOMAIN places = 1..n /\ \A k \in 1..n : places[k] = k
  OBVIOUS
<1>3. TakenAfter(x, start, 0)
  <2>1. Values(<<>>, x.heap)
    <3>1. IsSeq(<<>>) /\ Len(<<>>) = 0
      BY EmptySeq DEF IsSeq
    <3>2. \A k \in 1..0 : FALSE
      OBVIOUS
    <3> QED
      BY <3>1, <3>2 DEF Values
  <2>2. Len(x.data) \in Nat
    BY SoundParts, SeqFacts DEF Values
  <2>3. Len(x.data) = Len(x.data) - 0
    BY <2>2
  <2> QED
    BY <2>1, <2>3, LeadsSelf DEF TakenAfter
<1> HIDE DEF start, places
<1>4. PICK g : Taking!Stepwise(g, start, places, n) /\ Taking!Fold(start, places) = g[n]
  BY <1>2, Taking!FoldSteps
<1>5. g[0] = start /\ \A k \in 1..n : g[k] = TakeOne(g[k - 1], k)
  BY <1>2, <1>4 DEF Taking!Stepwise
<1> DEFINE S == {k \in 0..n : TakenAfter(x, g[k], k)}
<1>6. 0 \in S
  BY <1>3, <1>5
<1>7. ASSUME NEW k \in 1..n, k - 1 \in S PROVE k \in S
  <2>1. TakenAfter(x, g[k - 1], k - 1) /\ k \in Nat \ {0} /\ k \in 0..n
    BY <1>7
  <2>2. TakenAfter(x, TakeOne(g[k - 1], k), k)
    BY <2>1, TakesOne
  <2> QED
    BY <1>5, <2>1, <2>2
<1> HIDE DEF S
<1>8. 0..n \subseteq S
  BY <1>6, <1>7, Taking!PlacesInduction
<1>9. n \in S
  BY <1>8
<1> QED
  BY <1>1, <1>4, <1>9 DEF S

\* Of some places up to m one is the last.
LEMMA LastPlace ==
    \A m \in Nat : \A S : S \subseteq 1..m /\ S # {} => \E k \in S : \A j \in S : j <= k
<1> SUFFICES ASSUME NEW m \in Nat, NEW S, S \subseteq 1..m, S # {} PROVE \E k \in S : \A j \in S : j <= k
  OBVIOUS
<1> DEFINE T == {m - k : k \in S}
<1>1. T \subseteq Nat /\ T # {}
  <2>1. \A k \in S : m - k \in Nat
    OBVIOUS
  <2>2. T \subseteq Nat
    BY <2>1, Zenon
  <2>3. PICK k \in S : TRUE
    OBVIOUS
  <2>4. m - k \in T
    BY <2>3, Zenon
  <2> HIDE DEF T
  <2> QED
    BY <2>2, <2>4
<1>2. PICK d \in T : \A e \in T : ~(e < d)
  <2> HIDE DEF T
  <2> QED
    BY <1>1, Taking!LessIsWellFounded
<1>3. PICK k \in S : d = m - k
  OBVIOUS
<1>4. ASSUME NEW j \in S PROVE j <= k
  <2>1. m - j \in T /\ j \in 1..m /\ k \in 1..m
    OBVIOUS
  <2>2. ~(m - j < m - k)
    BY <1>2, <1>3, <2>1
  <2> QED
    BY <2>1, <2>2
<1> QED
  BY <1>4

\* The names of a function take the arguments (FuncFrame, StackFrame).
LEMMA FilledVariables ==
    ASSUME NEW frame, NEW meta, NEW args, NEW h,
           IsMeta(meta), Values(args, h), Variables(frame.vars, Range(meta.names), h),
           frame = [data |-> frame.data, vars |-> frame.vars]
    PROVE  LET r == FillArgs(frame, meta, args)
           IN r = [data |-> frame.data, vars |-> r.vars] /\ Variables(r.vars, Range(meta.names), h)
<1> DEFINE given == 1..(IF Len(args) < Len(meta.names) THEN Len(args) ELSE Len(meta.names))
           last(n) == CHOOSE k \in given : meta.names[k] = n /\ \A j \in given : meta.names[j] = n => j <= k
           vs == [n \in DOMAIN frame.vars |->
                     IF \E k \in given : meta.names[k] = n THEN args[last(n)] ELSE frame.vars[n]]
           r == FillArgs(frame, meta, args)
<1>1. r = [frame EXCEPT !.vars = vs]
  BY DEF FillArgs
<1>2. Len(args) \in Nat /\ Len(meta.names) \in Nat
  BY SeqFacts DEF Values, IsMeta
<1>3. given \subseteq 1..Len(args)
  BY <1>2
<1>4. ASSUME NEW n, \E k \in given : meta.names[k] = n PROVE last(n) \in given
  <2> DEFINE S == {k \in given : meta.names[k] = n}
  <2>1. S \subseteq 1..Len(args) /\ S # {}
    BY <1>3, <1>4
  <2> HIDE DEF S, given
  <2>2. PICK k \in S : \A j \in S : j <= k
    BY <1>2, <2>1, LastPlace
  <2>3. \E i \in given : meta.names[i] = n /\ \A j \in given : meta.names[j] = n => j <= i
    BY <2>2 DEF S
  <2> QED
    BY <2>3
<1> HIDE DEF given, last, r
<1>5. ASSUME NEW n \in DOMAIN frame.vars PROVE IsValue(vs[n], h)
  <2>1. CASE \E k \in given : meta.names[k] = n
    <3>1. last(n) \in 1..Len(args)
      BY <1>3, <1>4, <2>1
    <3>2. vs[n] = args[last(n)]
      BY <2>1
    <3> QED
      BY <3>1, <3>2 DEF Values
  <2>2. CASE ~ \E k \in given : meta.names[k] = n
    <3>1. vs[n] = frame.vars[n]
      BY <2>2
    <3> QED
      BY <3>1 DEF Variables
  <2> QED
    BY <2>1, <2>2
<1>6. DOMAIN frame.vars = Range(meta.names)
  BY DEF Variables
<1>7. vs = [n \in Range(meta.names) |-> vs[n]]
  BY <1>6
<1> HIDE DEF vs
<1>8. Variables(vs, Range(meta.names), h)
  BY <1>5, <1>6, <1>7 DEF Variables
<1>9. r = [data |-> frame.data, vars |-> vs]
  BY <1>1
<1>10. r.vars = vs
  BY <1>9
<1> QED
  BY <1>8, <1>9, <1>10 DEF r

\* A frame of a function before it has arguments.
LEMMA EmptyFrameFacts ==
    ASSUME NEW meta, NEW h
    PROVE  LET e == EmptyFrame(meta)
           IN e = [data |-> <<>>, vars |-> e.vars] /\ Variables(e.vars, Range(meta.names), h)
<1> DEFINE vs == [n \in Range(meta.names) |-> Null]
<1>1. EmptyFrame(meta) = [data |-> <<>>, vars |-> vs]
  BY DEF EmptyFrame
<1>2. Variables(vs, Range(meta.names), h)
  BY ScalarValue DEF Variables
<1>3. EmptyFrame(meta).vars = vs
  BY <1>1
<1> QED
  BY <1>1, <1>2, <1>3

\* What a call makes of its caller and of the new frame (CallFunction, CallMethod).
LEMMA CallFacts ==
    ASSUME NEW x, NEW callee, NEW inst, NEW name, Sound(x), IsMeta(callee), callee.argNum \in Nat, inst.op \in Calls,
           ~CallResult(x, callee, inst, name).x.thrown
    PROVE  LET r == CallResult(x, callee, inst, name)
           IN /\ Leads(x, r.x)
              /\ IF inst.op = "CALL_FUNCTION" THEN r.x.data = <<>>
                 ELSE TopIsClass(r.x) /\ name \in r.x.heap[Top(r.x).v].methods
              /\ r.frame = [data |-> r.frame.data, vars |-> r.frame.vars]
              /\ Values(r.frame.data, r.x.heap) /\ Variables(r.frame.vars, Range(callee.names), r.x.heap)
<1> DEFINE n == IF inst.op = "CALL_FUNCTION" THEN Len(x.data) ELSE callee.argNum
           t == Take(x, n)
           y == t.x
           method == TopIsClass(y) /\ name \in y.heap[Top(y).v].methods
           e == EmptyFrame(callee)
           frame == IF inst.op = "CALL_FUNCTION" THEN e ELSE [e EXCEPT !.data = <<Top(y)>>]
           filled == FillArgs(frame, callee, t.args)
           r == CallResult(x, callee, inst, name)
<1>1. r = IF y.thrown \/ (inst.op = "CALL_METHOD" /\ ~method) THEN [x |-> Throw(y)] ELSE [x |-> y, frame |-> filled]
  BY DEF CallResult
<1>2. IsSeq(x.data) /\ Len(x.data) \in Nat
  BY SoundParts, SeqFacts DEF Values
<1>3. n \in Nat
  BY <1>2
<1>4. TakenAfter(x, t, n)
  BY <1>3, TakenFacts
<1>5. e = [data |-> <<>>, vars |-> e.vars] /\ Variables(e.vars, Range(callee.names), y.heap)
  BY EmptyFrameFacts
<1>6. ~r.x.thrown
  OBVIOUS
<1>7. inst.op = "CALL_FUNCTION" => n = Len(x.data)
  OBVIOUS
<1> HIDE DEF r, t, n, filled, e
<1>8. Leads(x, y) /\ Values(t.args, y.heap) /\ (y.thrown \/ Len(y.data) = Len(x.data) - n)
  BY <1>4 DEF TakenAfter
<1>9. Sound(y) /\ Values(y.data, y.heap) /\ IsSeq(y.data)
  BY <1>8, LeadsSound, SoundParts DEF Values
<1>10. ~(y.thrown \/ (inst.op = "CALL_METHOD" /\ ~method))
  <2> HIDE DEF y, method
  <2>1. Throw(y).thrown = TRUE
    <3>1. Throw(y) = Working(y.data, y.vars, y.heap, y.out, y.jump, TRUE)
      BY <1>9, Updates DEF Throw
    <3> QED
      BY <3>1 DEF Working
  <2>2. CASE y.thrown \/ (inst.op = "CALL_METHOD" /\ ~method)
    <3>1. r = [x |-> Throw(y)]
      BY <1>1, <2>2
    <3>2. r.x = Throw(y)
      BY <3>1
    <3> QED
      BY <1>6, <2>1, <3>2
  <2> QED
    BY <2>2
<1>11. r = [x |-> y, frame |-> filled]
  BY <1>1, <1>10
<1>12. r.x = y /\ r.frame = filled
  BY <1>11
<1>13. frame = [data |-> frame.data, vars |-> frame.vars] /\ frame.vars = e.vars
  BY <1>5
<1>14. Values(frame.data, y.heap)
  <2>1. CASE inst.op = "CALL_FUNCTION"
    <3>1. frame.data = <<>>
      BY <1>5, <2>1
    <3>2. IsSeq(<<>>) /\ Len(<<>>) = 0
      BY EmptySeq DEF IsSeq
    <3>3. \A k \in 1..0 : FALSE
      OBVIOUS
    <3> QED
      BY <3>1, <3>2, <3>3 DEF Values
  <2>2. CASE inst.op # "CALL_FUNCTION"
    <3>1. method
      BY <1>10, <2>2 DEF Calls
    <3>2. IsValue(Top(y), y.heap)
      BY <1>9, <3>1, ValuesFront DEF Top, TopIsClass
    <3>3. frame.data = <<Top(y)>>
      BY <1>5, <2>2
    <3>4. IsSeq(<<Top(y)>>) /\ Len(<<Top(y)>>) = 1 /\ <<Top(y)>>[1] = Top(y)
      BY One1
    <3> HIDE DEF y, frame
    <3>5. \A k \in 1..1 : k = 1
      OBVIOUS
    <3> QED
      BY <3>2, <3>3, <3>4, <3>5 DEF Values
  <2> QED
    BY <2>1, <2>2
<1> HIDE DEF frame
<1>15. filled = [data |-> frame.data, vars |-> filled.vars] /\ Variables(filled.vars, Range(callee.names), y.heap)
  BY <1>5, <1>8, <1>13, FilledVariables DEF filled
<1>16. filled.data = frame.data
  BY <1>15
<1>17. inst.op = "CALL_FUNCTION" => y.data = <<>>
  <2>1. ASSUME inst.op = "CALL_FUNCTION" PROVE Len(y.data) = 0
    BY <1>2, <1>7, <1>8, <1>10, <2>1
  <2> QED
    BY <1>9, <2>1, EmptySeq DEF IsSeq
<1>18. inst.op # "CALL_FUNCTION" => TopIsClass(y) /\ name \in y.heap[Top(y).v].methods
  BY <1>10 DEF Calls
<1>19. /\ Leads(x, r.x) /\ Values(r.frame.data, r.x.heap) /\ Variables(r.frame.vars, Range(callee.names), r.x.heap)
       /\ r.frame = [data |-> r.frame.data, vars |-> r.frame.vars]
  BY <1>8, <1>12, <1>14, <1>15, <1>16
<1> HIDE DEF y
<1> QED
  BY <1>12, <1>17, <1>18, <1>19 DEF r

-----------------------------------------------------------------------------
(* The steps of the executor.                                              *)

\* Copied meta data is meta data.
LEMMA CopiedFuncs == \A f : IsFuncs(f.funcs) => IsFuncs(Copied(f).funcs) /\ Copied(f).code = f.code
<1> SUFFICES ASSUME NEW f, IsFuncs(f.funcs) PROVE IsFuncs(Copied(f).funcs) /\ Copied(f).code = f.code
  OBVIOUS
<1> DEFINE w == [n \in DOMAIN f.funcs |-> CopyMeta(f.funcs[n])]
<1>1. Copied(f).funcs = w /\ Copied(f).code = f.code
  BY DEF Copied
<1>2. ASSUME NEW n \in DOMAIN f.funcs PROVE IsMeta(w[n]) /\ w[n].addr \in Nat /\ w[n].argNum \in Nat
  <2> DEFINE m == f.funcs[n]
  <2>1. IsMeta(m) /\ m.addr \in Nat
    BY DEF IsFuncs
  <2>2. w[n] = [m EXCEPT !.argNum = 0]
    BY DEF CopyMeta
  <2> HIDE DEF m, w
  <2>3. w[n] = [addr |-> m.addr, argNum |-> 0, cstPool |-> m.cstPool, names |-> m.names]
    BY <2>1, <2>2 DEF IsMeta
  <2>4. w[n].addr = m.addr /\ w[n].argNum = 0 /\ w[n].cstPool = m.cstPool /\ w[n].names = m.names
    BY <2>3
  <2> QED
    BY <2>1, <2>3, <2>4 DEF IsMeta
<1>3. DOMAIN w = DOMAIN f.funcs /\ w = [n \in DOMAIN w |-> w[n]]
  OBVIOUS
<1> HIDE DEF w
<1>4. IsFuncs(w)
  BY <1>2, <1>3 DEF IsFuncs
<1> QED
  BY <1>1, <1>4

\* What runs is a file whose parts are what the callbacks expect, parsed or loaded.
LEMMA RunningFile == FileInv /\ status \in {"ready", "running"} => IsFuncs(file.funcs) /\ IsCode(file.code)
  BY ParsedFacts, CopiedFuncs DEF FileInv

\* The frame on top is one to work on, and pc is the place of an instruction.
LEMMA AtWorkFacts ==
    ASSUME FileInv, FramesInv, Running
    PROVE  /\ frames # <<>> /\ IsFrame(CurFrame, file, heap) /\ IsHeap(heap)
           /\ Sound(AtWork) /\ AtWork.heap = heap /\ AtWork.data = CurFrame.data /\ AtWork.vars = CurFrame.vars
           /\ DOMAIN AtWork.vars = Range(Meta.names) /\ IsMeta(Meta)
           /\ pc \in Nat /\ Inst.arg \in Nat /\ pc + 1 \in DOMAIN file.code
<1>1. frames # <<>> /\ pc \in Nat /\ pc < Len(file.code) /\ IsFuncs(file.funcs) /\ IsCode(file.code)
  BY RunningFile DEF FramesInv, Running
<1>2. IsFrame(CurFrame, file, heap) /\ IsHeap(heap)
  BY <1>1, StackFront DEF FramesInv, CurFrame, IsStack
<1>3. AtWork = Working(CurFrame.data, CurFrame.vars, heap, out, FALSE, FALSE)
  BY DEF AtWork, Working
<1>4. AtWork.heap = heap /\ AtWork.data = CurFrame.data /\ AtWork.vars = CurFrame.vars
  BY DEF AtWork
<1>5. Variables(CurFrame.vars, Range(Meta.names), heap) /\ Values(CurFrame.data, heap)
  BY <1>2 DEF IsFrame, Meta
<1>6. DOMAIN CurFrame.vars = Range(Meta.names)
  BY <1>5 DEF Variables
<1>7. IsWork(AtWork, Range(Meta.names))
  BY <1>2, <1>3, <1>5, WorkingIs
<1>8. IsMeta(Meta)
  BY <1>1, <1>2 DEF IsFrame, IsFuncs, Meta
<1>9. DOMAIN file.code = 1..Len(file.code) /\ Len(file.code) \in Nat
  BY <1>1, SeqFacts DEF IsCode
<1>10. pc + 1 \in DOMAIN file.code
  BY <1>1, <1>9
<1>11. Inst.arg \in Nat
  BY <1>1, <1>10 DEF IsCode, Inst
<1> QED
  BY <1>1, <1>2, <1>4, <1>6, <1>7, <1>8, <1>10, <1>11 DEF Sound

\* The frame at work with what the callback left in it.
LEMMA FrameAfter ==
    ASSUME NEW e, NEW f, NEW g, NEW x, NEW ret \in Nat, IsFrame(e, f, g),
           IsWork(x, Range(f.funcs[e.func].names))
    PROVE  LET r == [func |-> e.func, ret |-> ret, data |-> x.data, vars |-> x.vars] IN IsFrame(r, f, x.heap)
<1> DEFINE r == [func |-> e.func, ret |-> ret, data |-> x.data, vars |-> x.vars]
<1>1. r.func = e.func /\ r.ret = ret /\ r.data = x.data /\ r.vars = x.vars
  OBVIOUS
<1>2. r = [func |-> r.func, ret |-> r.ret, data |-> r.data, vars |-> r.vars]
  OBVIOUS
<1> HIDE DEF r
<1>3. IsFrame(r, f, x.heap)
  BY <1>1, <1>2 DEF IsFrame, IsWork
<1> QED
  BY <1>3 DEF r

\* Instructions that neither call nor return leave the waiting frames as they are.
LEMMA StepKeepsFrames == FileInv /\ FramesInv /\ Step => FramesInv'
<1> SUFFICES ASSUME FileInv, FramesInv, Step PROVE FramesInv'
  OBVIOUS
<1> DEFINE x == Execute(AtWork, Meta, Inst)
           e == [CurFrame EXCEPT !.data = x.data, !.vars = x.vars]
<1>0. Running /\ Inst.op \notin Calls \cup {"RETURN_VALUE"}
  BY DEF Step
<1>1. /\ frames # <<>> /\ IsFrame(CurFrame, file, heap) /\ IsHeap(heap)
      /\ Sound(AtWork) /\ AtWork.heap = heap /\ DOMAIN AtWork.vars = Range(Meta.names) /\ IsMeta(Meta)
      /\ pc \in Nat /\ Inst.arg \in Nat
  BY <1>0, AtWorkFacts
<1>2. Reaches(AtWork, x)
  BY <1>0, <1>1, LeadsExecute
<1>3. /\ frames' = Append(Front(frames), e) /\ heap' = x.heap /\ file' = file /\ status' = status
      /\ Goto(IF x.jump THEN Inst.arg ELSE Reset)
  BY DEF Step
<1>4. pc' \in Nat
  BY <1>1, <1>3 DEF Goto, Reset, NoPC
<1> HIDE DEF x
<1>5. IsWork(x, Range(Meta.names)) /\ Grows(heap, x.heap) /\ IsHeap(x.heap)
  BY <1>1, <1>2 DEF Leads, Reaches, IsWork
<1>6. e = [func |-> CurFrame.func, ret |-> CurFrame.ret, data |-> x.data, vars |-> x.vars]
  <2> DEFINE c == CurFrame
             d == [c EXCEPT !.data = x.data]
  <2>1. c = [func |-> c.func, ret |-> c.ret, data |-> c.data, vars |-> c.vars]
    BY <1>1 DEF IsFrame
  <2> HIDE DEF c
  <2>2. d = [func |-> c.func, ret |-> c.ret, data |-> x.data, vars |-> c.vars]
    BY <2>1
  <2>3. [c EXCEPT !.data = x.data, !.vars = x.vars] = [d EXCEPT !.vars = x.vars]
    OBVIOUS
  <2> HIDE DEF d
  <2>4. [d EXCEPT !.vars = x.vars] = [func |-> c.func, ret |-> c.ret, data |-> x.data, vars |-> x.vars]
    BY <2>2
  <2> QED
    BY <2>3, <2>4 DEF c
<1>7. e.func = CurFrame.func
  BY <1>6
<1>8. IsFrame(e, file, x.heap)
  BY <1>1, <1>5, <1>6, FrameAfter DEF IsFrame, Meta
<1> HIDE DEF e
<1>9. IsStack(frames, file, x.heap)
  BY <1>5, StackGrows DEF FramesInv
<1>10. /\ IsStack(Front(frames), file, x.heap)
       /\ Front(frames) # <<>> => Waits(Last(Front(frames)), e.func, file, x.heap)
  BY <1>1, <1>7, <1>9, StackFront DEF CurFrame
<1>11. IsStack(frames', file', heap') /\ frames' # <<>>
  BY <1>3, <1>8, <1>10, StackPush
<1>12. status' = "running"
  BY <1>0, <1>3 DEF Running
<1> QED
  BY <1>4, <1>11, <1>12 DEF FramesInv

\* A call puts its frame on top of one that waits behind it (CallFunction, CallMethod).
LEMMA CallKeepsFrames == FileInv /\ FramesInv /\ CALL => FramesInv'
<1> SUFFICES ASSUME FileInv, FramesInv, CALL PROVE FramesInv'
  OBVIOUS
<1> DEFINE r == Called
           a == [CurFrame EXCEPT !.data = r.x.data, !.ret = RetAddr]
           b == Frame(Callee, r.frame)
<1>0. Running /\ Inst.op \in Calls /\ CalleeKnown /\ ~r.x.thrown
  BY DEF CALL
<1>1. /\ frames # <<>> /\ IsFrame(CurFrame, file, heap) /\ IsHeap(heap)
      /\ Sound(AtWork) /\ AtWork.heap = heap /\ DOMAIN AtWork.vars = Range(Meta.names) /\ IsMeta(Meta)
      /\ pc \in Nat /\ Inst.arg \in Nat /\ pc + 1 \in DOMAIN file.code
  BY <1>0, AtWorkFacts
<1>2. Callee \in DOMAIN file.funcs /\ IsMeta(file.funcs[Callee]) /\ file.funcs[Callee].addr \in Nat
      /\ file.funcs[Callee].argNum \in Nat
  BY <1>0, RunningFile DEF CalleeKnown, IsFuncs, Running
<1>3. /\ Leads(AtWork, r.x)
      /\ IF Inst.op = "CALL_FUNCTION" THEN r.x.data = <<>>
         ELSE TopIsClass(r.x) /\ Callee \in r.x.heap[Top(r.x).v].methods
      /\ r.frame = [data |-> r.frame.data, vars |-> r.frame.vars]
      /\ Values(r.frame.data, r.x.heap) /\ Variables(r.frame.vars, Range(file.funcs[Callee].names), r.x.heap)
  BY <1>0, <1>1, <1>2, CallFacts DEF Called
<1>4. /\ frames' = Front(frames) \o <<a, b>> /\ heap' = r.x.heap /\ file' = file /\ status' = status
      /\ Goto(file.funcs[Callee].addr)
  BY DEF CALL
<1>5. pc' \in Nat
  BY <1>1, <1>2, <1>4 DEF Goto
<1> HIDE DEF r
<1>6. IsWork(r.x, Range(Meta.names)) /\ Grows(heap, r.x.heap) /\ IsHeap(r.x.heap)
  BY <1>1, <1>3 DEF Leads, Reaches, IsWork
<1>7. RetAddr = pc + 1 /\ RetAddr \in Nat
  BY <1>1 DEF RetAddr
<1> DEFINE n == [func |-> CurFrame.func, ret |-> RetAddr, data |-> r.x.data, vars |-> CurFrame.vars]
<1>8. a = n
  <2> DEFINE c == CurFrame
             d == [c EXCEPT !.data = r.x.data]
             ret == RetAddr
             data == r.x.data
  <2>1. c = [func |-> c.func, ret |-> c.ret, data |-> c.data, vars |-> c.vars]
    BY <1>1 DEF IsFrame
  <2> HIDE DEF c, ret
  <2>2. d = [func |-> c.func, ret |-> c.ret, data |-> data, vars |-> c.vars]
    BY <2>1
  <2>3. [c EXCEPT !.data = data, !.ret = ret] = [d EXCEPT !.ret = ret]
    OBVIOUS
  <2> HIDE DEF d, data
  <2>4. [d EXCEPT !.ret = ret] = [func |-> c.func, ret |-> ret, data |-> data, vars |-> c.vars]
    BY <2>2
  <2> QED
    BY <2>3, <2>4 DEF c, ret, data
<1>9. n.func = CurFrame.func /\ n.ret = RetAddr /\ n.data = r.x.data /\ n.vars = CurFrame.vars
      /\ n = [func |-> n.func, ret |-> n.ret, data |-> n.data, vars |-> n.vars]
  OBVIOUS
<1> HIDE DEF n, a
<1>10. Values(n.data, r.x.heap) /\ Variables(n.vars, Range(Meta.names), r.x.heap)
  BY <1>1, <1>6, <1>9, StillVariables DEF IsWork, IsFrame, Meta
<1>11. IsFrame(n, file, r.x.heap)
  BY <1>1, <1>7, <1>9, <1>10 DEF IsFrame, Meta
<1>12. b.func = Callee /\ b.ret = 0 /\ b.data = r.frame.data /\ b.vars = r.frame.vars
       /\ b = [func |-> b.func, ret |-> b.ret, data |-> b.data, vars |-> b.vars]
  BY DEF Frame
<1> HIDE DEF b
<1>13. IsFrame(b, file, r.x.heap)
  BY <1>2, <1>3, <1>12 DEF IsFrame
<1>14. Waits(n, b.func, file, r.x.heap)
  <2>1. file.code[n.ret] = Inst /\ n.ret \in DOMAIN file.code
    BY <1>1, <1>7, <1>9 DEF Inst
  <2>2. file.funcs[n.func].names[Inst.arg + 1] = Callee
    BY <1>9 DEF Callee, Meta
  <2>3. Inst.op = "CALL_FUNCTION" => n.data = <<>>
    BY <1>3, <1>9
  <2>4. Inst.op # "CALL_FUNCTION" => TopIsClass(n) /\ Callee \in r.x.heap[Top(n).v].methods
    BY <1>3, <1>9 DEF TopIsClass, Top
  <2> QED
    BY <1>0, <1>12, <2>1, <2>2, <2>3, <2>4 DEF Waits
<1>15. IsStack(frames, file, r.x.heap)
  BY <1>6, StackGrows DEF FramesInv
<1>16. /\ IsStack(Front(frames), file, r.x.heap)
       /\ Front(frames) # <<>> => Waits(Last(Front(frames)), n.func, file, r.x.heap)
  BY <1>1, <1>9, <1>15, StackFront DEF CurFrame
<1> DEFINE s == Append(Front(frames), n)
<1>17. IsStack(s, file, r.x.heap) /\ s # <<>> /\ Last(s) = n
  BY <1>11, <1>16, StackPush
<1>18. frames' = Append(s, b)
  BY <1>4, <1>8, <1>16, TwoFrames DEF IsStack
<1> HIDE DEF s
<1>19. IsStack(frames', file', heap') /\ frames' # <<>>
  <2>1. Waits(Last(s), b.func, file, r.x.heap)
    BY <1>14, <1>17
  <2>2. IsStack(Append(s, b), file, r.x.heap) /\ Append(s, b) # <<>>
    BY <1>13, <1>17, <2>1, StackPush
  <2> QED
    BY <1>4, <1>18, <2>2
<1>20. status' = "running"
  BY <1>0, <1>4 DEF Running
<1> QED
  BY <1>5, <1>19, <1>20 DEF FramesInv

\* A program without frames.
LEMMA NoFrames == \A f, h : IsHeap(h) => IsStack(<<>>, f, h)
<1> SUFFICES ASSUME NEW f, NEW h, IsHeap(h) PROVE IsStack(<<>>, f, h)
  OBVIOUS
<1>1. IsSeq(<<>>) /\ Len(<<>>) = 0
  BY EmptySeq DEF IsSeq
<1>2. (\A k \in 1..0 : FALSE) /\ (\A k \in 1..(0 - 1) : FALSE)
  OBVIOUS
<1> QED
  BY <1>1, <1>2 DEF IsStack

\* A return hands its value to the frame that waited, which is at work again (Return_value).
LEMMA ReturnKeepsFrames == FileInv /\ FramesInv /\ RETURN_VALUE => FramesInv'
<1> SUFFICES ASSUME FileInv, FramesInv, RETURN_VALUE PROVE FramesInv'
  OBVIOUS
<1> DEFINE c == Clone(AtWork, Top(CurFrame))
           rest == Front(frames)
           below == Last(rest)
<1>0. Running /\ CurFrame.data # <<>>
  BY DEF RETURN_VALUE
<1>1. /\ frames # <<>> /\ IsFrame(CurFrame, file, heap) /\ IsHeap(heap)
      /\ Sound(AtWork) /\ AtWork.heap = heap /\ pc \in Nat
  BY <1>0, AtWorkFacts
<1>2. IsValue(Top(CurFrame), AtWork.heap)
  BY <1>0, <1>1, ValuesFront DEF IsFrame, Top
<1>3. Leads(AtWork, c.x) /\ IsValue(c.obj, c.x.heap)
  BY <1>1, <1>2, CloneFacts
<1>4. /\ heap' = c.x.heap /\ file' = file
      /\ rest = <<>> => frames' = <<>> /\ status' = "done"
      /\ rest # <<>> => /\ frames' = [rest EXCEPT ![Len(rest)].data = Append(@, c.obj)]
                        /\ status' = status /\ Goto(below.ret)
  BY DEF RETURN_VALUE
<1> HIDE DEF c
<1>5. IsHeap(c.x.heap) /\ Grows(heap, c.x.heap)
  BY <1>1, <1>3 DEF Leads, Reaches, IsWork
<1>6. IsStack(rest, file, c.x.heap)
  BY <1>1, <1>5, StackGrows, StackFront DEF FramesInv
<1>7. CASE rest = <<>>
  <2>1. IsStack(frames', file', heap')
    BY <1>4, <1>5, <1>7, NoFrames
  <2>2. status' = "done"
    BY <1>4, <1>7
  <2> QED
    BY <2>1, <2>2 DEF FramesInv
<1>8. CASE rest # <<>>
  <2> HIDE DEF rest
  <2> DEFINE data == Append(below.data, c.obj)
             e == [below EXCEPT !.data = data]
  <2>1. IsSeq(rest) /\ Len(rest) \in Nat /\ Len(rest) >= 1 /\ below = rest[Len(rest)]
    BY <1>6, <1>8, Shortened DEF IsStack
  <2>2. IsFrame(below, file, c.x.heap) /\ IsStack(Front(rest), file, c.x.heap)
        /\ (Front(rest) # <<>> => Waits(Last(Front(rest)), below.func, file, c.x.heap))
    BY <1>6, <1>8, StackFront
  <2>3. frames' = [rest EXCEPT ![Len(rest)] = e]
    <3>1. [rest EXCEPT ![Len(rest)].data = Append(@, c.obj)]
            = [rest EXCEPT ![Len(rest)] = [rest[Len(rest)] EXCEPT !.data = Append(rest[Len(rest)].data, c.obj)]]
      OBVIOUS
    <3>2. frames' = [rest EXCEPT ![Len(rest)].data = Append(@, c.obj)]
      BY <1>4, <1>8
    <3> QED
      BY <2>1, <3>1, <3>2
  <2>4. pc' \in Nat
    <3>1. below.ret \in Nat
      BY <2>2 DEF IsFrame
    <3>2. Goto(below.ret)
      BY <1>4, <1>8
    <3> QED
      BY <1>1, <3>1, <3>2 DEF Goto
  <2>5. Values(data, c.x.heap)
    BY <1>3, <2>2, ValuesAppended DEF IsFrame
  <2> HIDE DEF data, below
  <2>6. e = [func |-> below.func, ret |-> below.ret, data |-> data, vars |-> below.vars]
    BY <2>2 DEF IsFrame
  <2>7. e.func = below.func /\ e.ret = below.ret /\ e.data = data /\ e.vars = below.vars
        /\ e = [func |-> e.func, ret |-> e.ret, data |-> e.data, vars |-> e.vars]
    BY <2>6
  <2> HIDE DEF e
  <2>8. IsFrame(e, file, c.x.heap)
    BY <2>2, <2>5, <2>7 DEF IsFrame
  <2>9. frames' = Append(Front(rest), e)
    BY <1>8, <2>1, <2>3, LastExchanged
  <2>10. IsStack(frames', file', heap') /\ frames' # <<>>
    BY <1>4, <2>2, <2>7, <2>8, <2>9, StackPush
  <2>11. status' = "running"
    BY <1>0, <1>4, <1>8 DEF Running
  <2> QED
    BY <2>4, <2>10, <2>11 DEF FramesInv
<1> QED
  BY <1>7, <1>8

\* The executor starts with a frame of main (Executor::execute).
LEMMA RunMakesFrame == FileInv /\ FramesInv /\ Run => FramesInv'
<1> SUFFICES ASSUME FileInv, FramesInv, Run PROVE FramesInv'
  OBVIOUS
<1>1. frames = <<>> /\ IsHeap(heap) /\ UNCHANGED <<file, heap>> /\ status = "ready"
  BY DEF Run, FramesInv, IsStack
<1>2. CASE "main" \in DOMAIN file.funcs
  <2> DEFINE m == file.funcs["main"]
             b == Frame("main", EmptyFrame(m))
  <2>1. frames' = <<b>> /\ pc' = m.addr /\ status' = "running"
    BY <1>2 DEF Run, StackFrame
  <2>2. m.addr \in Nat
    BY <1>1, <1>2, RunningFile DEF IsFuncs
  <2>3. EmptyFrame(m).data = <<>> /\ Variables(EmptyFrame(m).vars, Range(m.names), heap)
    <3> DEFINE w == EmptyFrame(m)
    <3>1. w = [data |-> <<>>, vars |-> w.vars] /\ Variables(w.vars, Range(m.names), heap)
      BY EmptyFrameFacts
    <3> HIDE DEF w
    <3>2. w.data = <<>>
      BY <3>1
    <3> QED
      BY <3>1, <3>2 DEF w
  <2>4. b.func = "main" /\ b.ret = 0 /\ b.data = <<>> /\ b.vars = EmptyFrame(m).vars
        /\ b = [func |-> b.func, ret |-> b.ret, data |-> b.data, vars |-> b.vars]
    BY <2>3 DEF Frame
  <2>5. Values(<<>>, heap)
    <3>1. IsSeq(<<>>) /\ Len(<<>>) = 0
      BY EmptySeq DEF IsSeq
    <3>2. \A k \in 1..0 : FALSE
      OBVIOUS
    <3> QED
      BY <3>1, <3>2 DEF Values
  <2> HIDE DEF b
  <2>6. IsFrame(b, file, heap)
    BY <1>2, <2>3, <2>4, <2>5 DEF IsFrame
  <2>7. IsStack(<<>>, file, heap)
    BY <1>1, NoFrames
  <2>8. <<b>> = Append(<<>>, b)
    BY OneFrame
  <2>9. IsStack(<<b>>, file, heap) /\ <<b>> # <<>>
    <3>1. IsStack(Append(<<>>, b), file, heap) /\ Append(<<>>, b) # <<>>
      BY <2>6, <2>7, StackPush
    <3> QED
      BY <2>8, <3>1
  <2> QED
    BY <1>1, <2>1, <2>2, <2>9 DEF FramesInv
<1>3. CASE "main" \notin DOMAIN file.funcs
  <2>1. status' = "failed" /\ frames' = frames
    BY <1>3 DEF Run
  <2> QED
    BY <1>1, <2>1, NoFrames DEF FramesInv
<1> QED
  BY <1>2, <1>3

\* Every step keeps FramesInv, on a file that FileInv vouches for.
LEMMA FramesInvInductive == FileInv /\ FramesInv /\ [Next]_vars => FramesInv'
<1> SUFFICES ASSUME FileInv, FramesInv, [Next]_vars PROVE FramesInv'
  OBVIOUS
<1>0. IsHeap(heap)
  BY DEF FramesInv, IsStack
<1>1. CASE GenerateFromText
  <2>1. frames = <<>> /\ UNCHANGED <<frames, heap>> /\ status' \in {"ready", "failed"}
    BY <1>1 DEF GenerateFromText, FramesInv
  <2> QED
    BY <1>0, <2>1, NoFrames DEF FramesInv
<1>2. CASE DumpBinary
  <2>1. frames = <<>> /\ UNCHANGED <<frames, heap>> /\ status' = "dumped"
    BY <1>2 DEF DumpBinary, FramesInv
  <2> QED
    BY <1>0, <2>1, NoFrames DEF FramesInv
<1>3. CASE GenerateFromBinary
  <2>1. frames = <<>> /\ UNCHANGED <<frames, heap>> /\ status' \in {"ready", "failed"}
    BY <1>3 DEF GenerateFromBinary, FramesInv
  <2> QED
    BY <1>0, <2>1, NoFrames DEF FramesInv
<1>4. CASE Run
  BY <1>4, RunMakesFrame
<1>5. CASE Step
  BY <1>5, StepKeepsFrames
<1>6. CASE CALL
  BY <1>6, CallKeepsFrames
<1>7. CASE RETURN_VALUE
  BY <1>7, ReturnKeepsFrames
<1>8. CASE THROW
  BY <1>8 DEF THROW, FramesInv
<1>9. CASE UNCHANGED vars
  BY <1>9 DEF vars, FramesInv
<1> QED
  BY <1>1, <1>2, <1>3, <1>4, <1>5, <1>6, <1>7, <1>8, <1>9 DEF Next, Execution, Finished

\* FramesInv says in particular that callers wait.
LEMMA FramesInvWaits == FramesInv => CallersWait
<1> SUFFICES ASSUME FramesInv, NEW n \in 1..(Len(frames) - 1)
             PROVE  LET call == file.code[frames[n].ret]
                        name == file.funcs[frames[n].func].names[call.arg + 1]
                    IN /\ frames[n].ret \in DOMAIN file.code /\ call.op \in Calls /\ name = frames[n + 1].func
                       /\ IF call.op = "CALL_FUNCTION" THEN frames[n].data = <<>>
                          ELSE TopIsClass(frames[n]) /\ name \in heap[Top(frames[n]).v].methods
  BY DEF CallersWait
<1>1. Waits(frames[n], frames[n + 1].func, file, heap)
  BY DEF FramesInv, IsStack
<1> QED
  BY <1>1 DEF Waits

\* Nothing is there at first.
LEMMA InitFilesFrames == Init => FileInv /\ FramesInv
<1> SUFFICES ASSUME Init PROVE FileInv /\ FramesInv
  OBVIOUS
<1>1. FileInv
  BY DEF Init, FileInv
<1>2. IsHeap(<<>>)
  <2>1. IsSeq(<<>>) /\ Len(<<>>) = 0
    BY EmptySeq DEF IsSeq
  <2>2. \A k \in 1..0 : FALSE
    OBVIOUS
  <2> QED
    BY <2>1, <2>2 DEF IsHeap
<1>3. FramesInv
  BY <1>2, NoFrames DEF Init, FramesInv
<1> QED
  BY <1>1, <1>3

\* A frame below another one waits behind the call that made it, without operands or with
\* the object whose method runs, however deep the calls and whatever the callees do to the
\* objects they share (the callbacks of executor.cc, CallFunction, CallMethod, Return_value).
THEOREM CallersWaitHolds == Spec => []CallersWait
  BY InitFilesFrames, FileInvInductive, FramesInvInductive, FramesInvWaits, PTL DEF Spec
=============================================================================
