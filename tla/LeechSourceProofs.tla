-------------------------- MODULE LeechSourceProofs --------------------------
(***************************************************************************)
(* leechVM: the executor on the flat code does what the text says.         *)
(***************************************************************************)
EXTENDS LeechFrameProofs

-----------------------------------------------------------------------------
(* Counting the instructions of a code.                                    *)

Before(code, n) == Source!Before(code, n)
IsInst(code, k) == code[k].e # "label"

\* One entry more counts as an instruction or, a label, as none.
LEMMA BeforeNext ==
    \A code : /\ Before(code, 0) = 0
              /\ \A n \in Nat : /\ Before(code, n) \in Nat
                                /\ Before(code, n + 1) = Before(code, n) + (IF IsInst(code, n + 1) THEN 1 ELSE 0)
<1> TAKE code
<1> DEFINE I(n) == {k \in 1..n : code[k].e # "label"}
<1>1. ASSUME NEW n \in Nat PROVE IsFiniteSet(I(n))
  <2>1. IsFiniteSet(1..n)
    BY FS_Interval
  <2>2. I(n) \subseteq 1..n
    OBVIOUS
  <2> QED
    BY <2>1, <2>2, FS_Subset
<1>2. ASSUME NEW n \in Nat
      PROVE  /\ Cardinality(I(n)) \in Nat
             /\ Cardinality(I(n + 1)) = Cardinality(I(n)) + (IF code[n + 1].e # "label" THEN 1 ELSE 0)
  <2>1. Cardinality(I(n)) \in Nat
    BY <1>1, FS_CardinalityType
  <2>2. CASE code[n + 1].e # "label"
    <3>1. I(n + 1) = I(n) \cup {n + 1} /\ n + 1 \notin I(n)
      BY <2>2
    <3>2. IsFiniteSet(I(n))
      BY <1>1
    <3> HIDE DEF I
    <3>3. Cardinality(I(n + 1)) = Cardinality(I(n)) + 1
      BY <3>1, <3>2, FS_AddElement
    <3> QED
      BY <2>1, <2>2, <3>3
  <2>3. CASE code[n + 1].e = "label"
    <3>1. I(n + 1) = I(n)
      BY <2>3
    <3> HIDE DEF I
    <3> QED
      BY <2>1, <2>3, <3>1
  <2> QED
    BY <2>1, <2>2, <2>3
<1>3. I(0) = {}
  OBVIOUS
<1>4. \A n : Before(code, n) = Cardinality(I(n))
  BY DEF Before, Source!Before, Cardinality, Source!Cardinality
<1> HIDE DEF I
<1>5. Before(code, 0) = 0
  BY <1>3, <1>4, FS_EmptySet
<1> QED
  BY <1>2, <1>4, <1>5 DEF IsInst

\* The instruction at k is the one with a number of its own.
LEMMA BeforeAt ==
    ASSUME NEW code, NEW k \in Nat, k >= 1
    PROVE  Before(code, k) = Before(code, k - 1) + (IF IsInst(code, k) THEN 1 ELSE 0) /\ Before(code, k - 1) \in Nat
<1>1. k - 1 \in Nat /\ (k - 1) + 1 = k
  OBVIOUS
<1> QED
  BY <1>1, BeforeNext

\* More entries hold no fewer instructions.
LEMMA BeforeGrows ==
    ASSUME NEW code, NEW i \in Nat, NEW n \in Nat
    PROVE  \A k \in 0..n : i <= k => Before(code, i) <= Before(code, k)
<1> DEFINE S == {k \in 0..n : i <= k => Before(code, i) <= Before(code, k)}
<1>1. 0 \in S
  BY BeforeNext
<1>2. ASSUME NEW k \in 1..n, k - 1 \in S PROVE k \in S
  <2>1. Before(code, k) = Before(code, k - 1) + (IF IsInst(code, k) THEN 1 ELSE 0) /\ Before(code, k - 1) \in Nat
    BY BeforeAt
  <2>2. Before(code, i) \in Nat
    BY BeforeNext
  <2>3. CASE i <= k - 1
    BY <1>2, <2>1, <2>2, <2>3
  <2>4. CASE ~(i <= k - 1)
    <3>1. i <= k => i = k
      BY <2>4
    <3> QED
      BY <2>1, <2>2, <3>1
  <2> QED
    BY <2>3, <2>4
<1> HIDE DEF S
<1>3. 0..n \subseteq S
  BY <1>1, <1>2, Flattening!PlacesInduction
<1> QED
  BY <1>3 DEF S

\* An instruction has more instructions up to it than any entry before it.
LEMMA BeforeRises ==
    ASSUME NEW code, NEW i \in Nat, NEW k \in Nat, i < k, IsInst(code, k)
    PROVE  Before(code, i) < Before(code, k)
<1>1. Before(code, k) = Before(code, k - 1) + 1 /\ Before(code, k - 1) \in Nat /\ k - 1 \in Nat /\ i <= k - 1
  BY BeforeAt
<1>2. Before(code, i) <= Before(code, k - 1) /\ Before(code, i) \in Nat
  BY <1>1, BeforeGrows, BeforeNext
<1> QED
  BY <1>1, <1>2

\* Two instructions have different numbers.
LEMMA BeforeOnce ==
    ASSUME NEW code, NEW i \in Nat, NEW k \in Nat, IsInst(code, i), IsInst(code, k), Before(code, i) = Before(code, k)
    PROVE  i = k
<1>1. Before(code, i) \in Nat /\ Before(code, k) \in Nat
  BY BeforeNext
<1>2. CASE i < k
  BY <1>1, <1>2, BeforeRises
<1>3. CASE k < i
  BY <1>1, <1>3, BeforeRises
<1> QED
  BY <1>2, <1>3

\* Every number up to the count is that of an instruction.
LEMMA BeforeMet ==
    ASSUME NEW code, NEW n \in Nat, NEW a \in 1..Before(code, n)
    PROVE  \E k \in 1..n : IsInst(code, k) /\ Before(code, k) = a
<1> DEFINE S == {m \in 0..n : \A b \in 1..Before(code, m) : \E k \in 1..m : IsInst(code, k) /\ Before(code, k) = b}
<1>1. 0 \in S
  BY BeforeNext
<1>2. ASSUME NEW m \in 1..n, m - 1 \in S PROVE m \in S
  <2> SUFFICES ASSUME NEW b \in 1..Before(code, m) PROVE \E k \in 1..m : IsInst(code, k) /\ Before(code, k) = b
    OBVIOUS
  <2>1. Before(code, m) = Before(code, m - 1) + (IF IsInst(code, m) THEN 1 ELSE 0) /\ Before(code, m - 1) \in Nat
    BY BeforeAt
  <2>2. CASE b <= Before(code, m - 1)
    <3>1. b \in 1..Before(code, m - 1)
      BY <2>1, <2>2
    <3>2. PICK k \in 1..(m - 1) : IsInst(code, k) /\ Before(code, k) = b
      BY <1>2, <3>1
    <3> QED
      BY <3>2
  <2>3. CASE ~(b <= Before(code, m - 1))
    <3>1. IsInst(code, m) /\ Before(code, m) = b
      BY <2>1, <2>3
    <3> QED
      BY <3>1
  <2> QED
    BY <2>2, <2>3
<1> HIDE DEF S
<1>3. 0..n \subseteq S
  BY <1>1, <1>2, Flattening!PlacesInduction
<1>4. n \in S
  BY <1>3
<1> QED
  BY <1>4 DEF S

-----------------------------------------------------------------------------
(* What the front end makes of the code of a function.                     *)

\* The instruction that the parser has made of entry k of c by the time it has seen i entries: a
\* branch has the place of its label once that has been seen.
Flattened(inst, c, k, i) ==
    /\ inst.op = c[k].op
    /\ c[k].e = "instruction" => inst.arg = c[k].arg % ArgLimit
    /\ c[k].e = "branch" => \A l \in 1..i : IsLabel(c[l], c[k].label) => inst.arg = Before(c, l) % ArgLimit
InPlace(code, base, c, i) == \A k \in 1..i : IsInst(c, k) => Flattened(code[base + Before(c, k)], c, k, i)
\* Labels have their places, and branches to a label that is still to come wait for it.
LabelsMet(labels, c, i) ==
    /\ \A l \in 1..i : c[l].e = "label" => c[l].label \in DOMAIN labels /\ labels[c[l].label] = Before(c, l)
    /\ \A x \in DOMAIN labels : \E l \in 1..i : IsLabel(c[l], x)
WaitsFor(place, x, base, c, i) == \E k \in 1..i : BranchesTo(c[k], x) /\ place = base + Before(c, k) - 1
ForwardMet(forward, base, c, i) ==
    /\ \A x \in DOMAIN forward : WaitsFor(forward[x], x, base, c, i)
    /\ \A k \in 1..i : c[k].e = "branch" /\ (\A l \in 1..i : ~IsLabel(c[l], c[k].label)) => c[k].label \in DOMAIN forward
\* The driver behind i entries of c, which begin behind the code given.
CodeMet(code, before, c, i) ==
    /\ Len(code) = Len(before) + Before(c, i)
    /\ \A j \in 1..Len(before) : code[j] = before[j]
    /\ InPlace(code, Len(before), c, i)
EntriesMet(d, funcs, before, c, i) ==
    /\ IsDriver(d) /\ d.funcs = funcs
    /\ d.instrCount = Before(c, i) /\ d.globalInstrCount = Len(before) + Before(c, i)
    /\ CodeMet(d.code, before, c, i)
    /\ LabelsMet(d.labels, c, i) /\ ForwardMet(d.forward, Len(before), c, i)
\* Code whose labels can be patched.
SafeLabels(c) ==
    /\ IsList(c) /\ \A k \in DOMAIN c : IsEntry(c[k])
    /\ \A k \in DOMAIN c : c[k].e = "label" => SafeLabel(c, k)

\* What an entry can be.
LEMMA EntryKinds ==
    \A e : IsEntry(e) => e.e \in {"label", "instruction", "branch"} /\ (e.e = "instruction" => e.arg \in Nat)
<1> SUFFICES ASSUME NEW e, IsEntry(e)
             PROVE  e.e \in {"label", "instruction", "branch"} /\ (e.e = "instruction" => e.arg \in Nat)
  OBVIOUS
<1>1. CASE e = Op(e.op, e.arg) /\ e.arg \in Nat
  <2>1. Op(e.op, e.arg).e = "instruction"
    BY DEF Op
  <2>2. e.e = "instruction"
    BY <1>1, <2>1, Zenon
  <2> QED
    BY <1>1, <2>2
<1>2. CASE e = Branch(e.op, e.label)
  <2>1. Branch(e.op, e.label).e = "branch"
    BY DEF Branch
  <2>2. e.e = "branch"
    BY <1>2, <2>1, Zenon
  <2> QED
    BY <2>2
<1>3. CASE e = Label(e.label)
  <2>1. Label(e.label).e = "label"
    BY DEF Label
  <2>2. e.e = "label"
    BY <1>3, <2>1, Zenon
  <2> QED
    BY <2>2
<1> QED
  BY <1>1, <1>2, <1>3 DEF IsEntry

\* A label: the branch that waits for it is patched, and nothing else.
LEMMA CodePatched ==
    ASSUME NEW d, NEW before, NEW c, NEW i \in Nat, i + 1 \in DOMAIN c, SafeLabels(c), c[i + 1].e = "label",
           IsCode(before), IsCode(d.code), CodeMet(d.code, before, c, i), d.instrCount = Before(c, i),
           ForwardMet(d.forward, Len(before), c, i)
    PROVE  CodeMet(Patched(d, c[i + 1].label), before, c, i + 1)
<1> DEFINE x == c[i + 1].label
           base == Len(before)
           code == Patched(d, x)
<1>1. base \in Nat /\ Len(d.code) \in Nat /\ DOMAIN d.code = 1..Len(d.code) /\ DOMAIN c = 1..Len(c) /\ Len(c) \in Nat
  BY SeqFacts DEF IsCode, SafeLabels, IsList
<1>2. Before(c, i + 1) = Before(c, i) /\ Before(c, i) \in Nat
  BY BeforeNext DEF IsInst
<1>3. /\ \A l \in 1..Len(c) : IsLabel(c[l], x) => l = i + 1
      /\ \A k, j \in 1..i : BranchesTo(c[k], x) /\ BranchesTo(c[j], x) => k = j
  <2>1. SafeLabel(c, i + 1) /\ (i + 1) - 1 = i
    BY DEF SafeLabels
  <2> QED
    BY <1>1, <2>1 DEF SafeLabel
<1>4. ASSUME NEW k \in 1..i, IsInst(c, k)
      PROVE  Before(c, k) \in 1..Before(c, i) /\ base + Before(c, k) \in DOMAIN d.code /\ base + Before(c, k) > base
  <2>1. Before(c, 0) < Before(c, k)
    BY <1>4, BeforeRises
  <2>2. Before(c, k) <= Before(c, i)
    BY BeforeGrows
  <2>3. Before(c, 0) = 0 /\ Before(c, k) \in Nat
    BY BeforeNext
  <2> QED
    BY <1>1, <1>2, <2>1, <2>2, <2>3 DEF CodeMet
<1>5. CASE x \notin DOMAIN d.forward
  <2>1. code = d.code
    BY <1>5 DEF Patched
  <2>2. \A k \in 1..i : ~BranchesTo(c[k], x)
    BY <1>1, <1>3, <1>5 DEF ForwardMet, BranchesTo
  <2>3. ASSUME NEW k \in 1..(i + 1), IsInst(c, k) PROVE Flattened(code[base + Before(c, k)], c, k, i + 1)
    <3>1. k \in 1..i
      BY <2>3 DEF IsInst
    <3>2. Flattened(d.code[base + Before(c, k)], c, k, i)
      BY <2>3, <3>1 DEF CodeMet, InPlace
    <3>3. c[k].e = "branch" => ~IsLabel(c[i + 1], c[k].label)
      BY <2>2, <3>1 DEF IsLabel, BranchesTo
    <3> QED
      BY <2>1, <3>2, <3>3 DEF Flattened
  <2> QED
    BY <1>2, <2>1, <2>3 DEF CodeMet, InPlace
<1>6. CASE x \in DOMAIN d.forward
  <2> DEFINE p == d.forward[x] + 1
             arg == d.instrCount % ArgLimit
  <2>1. PICK w \in 1..i : BranchesTo(c[w], x) /\ d.forward[x] = base + Before(c, w) - 1
    BY <1>6 DEF ForwardMet, WaitsFor
  <2>2. IsInst(c, w)
    BY <2>1 DEF IsInst, BranchesTo
  <2>3. p = base + Before(c, w) /\ p \in DOMAIN d.code /\ p > base
    BY <1>1, <1>4, <2>1, <2>2
  <2>4. code = [d.code EXCEPT ![p].arg = arg]
    BY <1>6 DEF Patched
  <2> HIDE DEF p, arg
  <2>5. d.code[p] = [op |-> d.code[p].op, arg |-> d.code[p].arg]
    BY <2>3 DEF IsCode, IsInstruction
  <2>6. PICK T : d.code \in Seq(T)
    BY DEF IsCode, IsSeq
  <2> DEFINE inst == [op |-> d.code[p].op, arg |-> arg]
             U == T \cup {inst}
  <2>7. code = [d.code EXCEPT ![p] = inst]
    BY <2>4, <2>5
  <2> HIDE DEF code
  <2>8. d.code \in Seq(U) /\ inst \in U
    BY <2>6, SeqMonotonic
  <2> HIDE DEF U
  <2>9. Len(code) = Len(d.code) /\ \A j \in DOMAIN d.code : code[j] = IF j = p THEN inst ELSE d.code[j]
    BY <1>1, <2>3, <2>7, <2>8, ExceptSeq
  <2>10. ASSUME NEW k \in 1..(i + 1), IsInst(c, k) PROVE Flattened(code[base + Before(c, k)], c, k, i + 1)
    <3>1. k \in 1..i
      BY <2>10 DEF IsInst
    <3>2. Flattened(d.code[base + Before(c, k)], c, k, i)
      BY <2>10, <3>1 DEF CodeMet, InPlace
    <3>3. Before(c, k) \in Nat /\ Before(c, w) \in Nat
      <4>1. k \in Nat /\ w \in Nat
        OBVIOUS
      <4> QED
        BY <4>1, BeforeNext
    <3>6. base + Before(c, k) \in DOMAIN d.code
      BY <1>4, <2>10, <3>1
    <3>4. CASE k = w
      <4>1. code[base + Before(c, k)] = inst
        BY <2>3, <2>9, <3>6, <3>4
      <4>2. inst.op = d.code[base + Before(c, k)].op /\ inst.arg = Before(c, i + 1) % ArgLimit
        BY <1>2, <2>3, <3>4 DEF arg
      <4>3. c[k].e = "branch" /\ c[k].label = x
        BY <2>1, <3>4 DEF BranchesTo
      <4>4. \A l \in 1..(i + 1) : IsLabel(c[l], x) => l = i + 1
        BY <1>1, <1>3
      <4> QED
        BY <3>2, <4>1, <4>2, <4>3, <4>4 DEF Flattened
    <3>5. CASE k # w
      <4>1. Before(c, k) # Before(c, w)
        BY <2>2, <2>10, <3>5, BeforeOnce
      <4>2. base + Before(c, k) # p
        BY <1>1, <2>3, <3>3, <4>1
      <4>3. code[base + Before(c, k)] = d.code[base + Before(c, k)]
        BY <2>9, <3>6, <4>2
      <4>4. c[k].e = "branch" => ~IsLabel(c[i + 1], c[k].label)
        BY <1>3, <2>1, <3>1, <3>5 DEF IsLabel, BranchesTo
      <4> QED
        BY <3>2, <4>3, <4>4 DEF Flattened
    <3> QED
      BY <3>4, <3>5
  <2>11. ASSUME NEW j \in 1..base PROVE code[j] = before[j]
    <3>1. j # p /\ j \in DOMAIN d.code
      BY <1>1, <1>2, <2>3 DEF CodeMet
    <3> QED
      BY <2>9, <3>1 DEF CodeMet
  <2>12. Len(code) = base + Before(c, i + 1)
    BY <1>2, <2>9 DEF CodeMet
  <2> HIDE DEF base
  <2>13. InPlace(code, base, c, i + 1)
    BY <2>10 DEF InPlace
  <2>14. CodeMet(code, before, c, i + 1)
    BY <2>11, <2>12, <2>13 DEF CodeMet, base
  <2> QED
    BY <2>14 DEF code
<1> QED
  BY <1>5, <1>6

\* Code that grows by an instruction keeps what came before.
LEMMA CodeBehind ==
    ASSUME NEW code, NEW before, NEW c, NEW i \in Nat, NEW inst, IsCode(before), IsCode(code),
           CodeMet(code, before, c, i), IsInst(c, i + 1), Flattened(inst, c, i + 1, i + 1)
    PROVE  CodeMet(Append(code, inst), before, c, i + 1)
<1> DEFINE u == Append(code, inst)
           base == Len(before)
<1>1. /\ base \in Nat /\ Len(code) \in Nat /\ Len(u) = Len(code) + 1
      /\ (\A k \in 1..Len(code) : u[k] = code[k]) /\ u[Len(code) + 1] = inst
  BY SeqFacts, Appended DEF IsCode
<1>2. Before(c, i + 1) = Before(c, i) + 1 /\ Before(c, i) \in Nat
  BY BeforeNext
<1>3. Len(code) = base + Before(c, i)
  BY DEF CodeMet
<1> HIDE DEF u, base
<1>4. ASSUME NEW k \in 1..(i + 1), IsInst(c, k) PROVE Flattened(u[base + Before(c, k)], c, k, i + 1)
  <2>1. CASE k = i + 1
    <3>1. base + Before(c, k) = Len(code) + 1
      BY <1>1, <1>2, <1>3, <2>1
    <3> QED
      BY <1>1, <2>1, <3>1
  <2>2. CASE k # i + 1
    <3>1. k \in 1..i /\ k \in Nat
      BY <2>2
    <3>2. Before(c, k) <= Before(c, i) /\ Before(c, 0) < Before(c, k) /\ Before(c, 0) = 0 /\ Before(c, k) \in Nat
      BY <1>4, <3>1, BeforeGrows, BeforeRises, BeforeNext
    <3>3. base + Before(c, k) \in 1..Len(code)
      BY <1>1, <1>2, <1>3, <3>2
    <3>4. Flattened(code[base + Before(c, k)], c, k, i)
      BY <1>4, <3>1 DEF CodeMet, InPlace, base
    <3>5. \A x : ~IsLabel(c[i + 1], x)
      BY DEF IsInst, IsLabel
    <3>6. Flattened(code[base + Before(c, k)], c, k, i + 1)
      BY <3>4, <3>5 DEF Flattened
    <3> QED
      BY <1>1, <3>3, <3>6
  <2> QED
    BY <2>1, <2>2
<1>5. ASSUME NEW j \in 1..base PROVE u[j] = before[j]
  <2>1. j \in 1..Len(code) /\ code[j] = before[j]
    BY <1>1, <1>2, <1>3 DEF CodeMet, base
  <2> QED
    BY <1>1, <2>1
<1>6. Len(u) = base + Before(c, i + 1)
  BY <1>1, <1>2, <1>3
<1>7. InPlace(u, base, c, i + 1)
  BY <1>4 DEF InPlace
<1>8. CodeMet(u, before, c, i + 1)
  BY <1>5, <1>6, <1>7 DEF CodeMet, base
<1> QED
  BY <1>8 DEF u

\* The parts of a driver.
LEMMA DriverParts ==
    \A d, a, b, c, e, i, g : d = DriverOf(a, b, c, e, i, g) =>
        d.funcs = a /\ d.code = b /\ d.labels = c /\ d.forward = e /\ d.instrCount = i /\ d.globalInstrCount = g
  BY DEF DriverOf

\* What does not come with an instruction: a label.
LEMMA LabelsKept ==
    ASSUME NEW labels, NEW c, NEW i \in Nat, LabelsMet(labels, c, i), IsInst(c, i + 1)
    PROVE  LabelsMet(labels, c, i + 1)
<1>1. \A l \in 1..(i + 1) : c[l].e = "label" => l \in 1..i
  BY DEF IsInst
<1> QED
  BY <1>1 DEF LabelsMet

\* A place that waits for a label goes on waiting.
LEMMA WaitsOn ==
    \A place, x, base, c : \A i \in Nat : WaitsFor(place, x, base, c, i) => WaitsFor(place, x, base, c, i + 1)
  BY DEF WaitsFor

\* The branches that wait are the same when the next line is none.
LEMMA ForwardKept ==
    ASSUME NEW forward, NEW base, NEW c, NEW i \in Nat, ForwardMet(forward, base, c, i), c[i + 1].e # "branch"
    PROVE  ForwardMet(forward, base, c, i + 1)
<1>1. \A k \in 1..(i + 1) : c[k].e = "branch" => k \in 1..i
  OBVIOUS
<1>2. \A x \in DOMAIN forward : WaitsFor(forward[x], x, base, c, i + 1)
  BY WaitsOn DEF ForwardMet
<1>3. ASSUME NEW k \in 1..(i + 1), c[k].e = "branch", \A l \in 1..(i + 1) : ~IsLabel(c[l], c[k].label)
      PROVE  c[k].label \in DOMAIN forward
  BY <1>1, <1>3 DEF ForwardMet
<1> QED
  BY <1>2, <1>3 DEF ForwardMet

\* A line that is an instruction, whatever argument it gets, with the branches that wait then.
LEMMA InstructionMet ==
    ASSUME NEW d, NEW funcs, NEW before, NEW c, NEW i \in Nat, NEW op, NEW n \in Nat, IsCode(before),
           EntriesMet(d, funcs, before, c, i), IsInst(c, i + 1),
           NEW w, IsDriver(w), w.funcs = d.funcs, w.code = d.code, w.labels = d.labels, w.instrCount = d.instrCount,
           w.globalInstrCount = d.globalInstrCount, ForwardMet(w.forward, Len(before), c, i + 1),
           Flattened([op |-> op, arg |-> n], c, i + 1, i + 1)
    PROVE  EntriesMet(ParseInstruction(w, [op |-> op, arg |-> n]), funcs, before, c, i + 1)
<1> DEFINE inst == [op |-> op, arg |-> n]
           q == ParseInstruction(w, inst)
<1>1. IsDriver(q)
  BY InstructionParsed
<1>2. /\ q.funcs = w.funcs /\ q.code = Append(w.code, inst) /\ q.labels = w.labels /\ q.forward = w.forward
      /\ q.instrCount = w.instrCount + 1 /\ q.globalInstrCount = w.globalInstrCount + 1
  <2>1. q = DriverOf(w.funcs, Append(w.code, inst), w.labels, w.forward, w.instrCount + 1, w.globalInstrCount + 1)
    BY InstructionIs
  <2> DEFINE code == Append(w.code, inst)
             m == w.instrCount + 1
             g == w.globalInstrCount + 1
  <2>2. q = DriverOf(w.funcs, code, w.labels, w.forward, m, g)
    BY <2>1
  <2> HIDE DEF q, inst, code, m, g
  <2>3. q.funcs = w.funcs /\ q.code = code /\ q.labels = w.labels /\ q.forward = w.forward
        /\ q.instrCount = m /\ q.globalInstrCount = g
    BY <2>2, DriverParts
  <2> QED
    BY <2>3 DEF code, m, g
<1> HIDE DEF q, inst
<1>3. q.funcs = funcs /\ q.instrCount = Before(c, i + 1) /\ q.globalInstrCount = Len(before) + Before(c, i + 1)
  <2>1. Before(c, i + 1) = Before(c, i) + 1 /\ Before(c, i) \in Nat
    BY BeforeNext
  <2>2. Len(before) \in Nat
    BY SeqFacts DEF IsCode
  <2>3. d.funcs = funcs /\ d.instrCount = Before(c, i) /\ d.globalInstrCount = Len(before) + Before(c, i)
    BY DEF EntriesMet
  <2> QED
    BY <1>2, <2>1, <2>2, <2>3
<1>4. CodeMet(q.code, before, c, i + 1)
  <2>1. IsCode(d.code) /\ CodeMet(d.code, before, c, i)
    BY DEF EntriesMet, IsDriver
  <2>2. CodeMet(Append(d.code, inst), before, c, i + 1)
    BY <2>1, CodeBehind DEF inst
  <2> QED
    BY <1>2, <2>2
<1>5. LabelsMet(q.labels, c, i + 1) /\ ForwardMet(q.forward, Len(before), c, i + 1)
  BY <1>2, LabelsKept DEF EntriesMet
<1>6. EntriesMet(q, funcs, before, c, i + 1)
  BY <1>1, <1>3, <1>4, <1>5 DEF EntriesMet
<1> QED
  BY <1>6 DEF q, inst

\* A line that is a label.
LEMMA LabelMet ==
    ASSUME NEW d, NEW funcs, NEW before, NEW c, NEW i \in Nat, i + 1 \in DOMAIN c, SafeLabels(c), c[i + 1].e = "label",
           IsCode(before), EntriesMet(d, funcs, before, c, i)
    PROVE  EntriesMet(ParseLabel(d, c[i + 1].label), funcs, before, c, i + 1)
<1> DEFINE x == c[i + 1].label
           q == ParseLabel(d, x)
           labels == With(d.labels, x, d.instrCount)
<1>1. IsDriver(d) /\ d.instrCount = Before(c, i) /\ Before(c, i + 1) = Before(c, i) /\ Before(c, i) \in Nat
  <2>1. IsDriver(d) /\ d.instrCount = Before(c, i)
    BY DEF EntriesMet
  <2>2. ~IsInst(c, i + 1)
    BY DEF IsInst
  <2> QED
    BY <2>1, <2>2, BeforeNext
<1>2. IsDriver(q) /\ q = DriverOf(d.funcs, Patched(d, x), labels, d.forward, d.instrCount, d.globalInstrCount)
  BY <1>1, LabelIs, LabelParsed
<1> HIDE DEF q
<1>3. /\ q.funcs = d.funcs /\ q.code = Patched(d, x) /\ q.labels = labels /\ q.forward = d.forward
      /\ q.instrCount = d.instrCount /\ q.globalInstrCount = d.globalInstrCount
  <2> HIDE DEF labels, x
  <2> QED
    BY <1>2, DriverParts
<1>4. CodeMet(q.code, before, c, i + 1)
  BY <1>1, <1>3, CodePatched DEF EntriesMet, IsDriver
<1>5. ForwardMet(q.forward, Len(before), c, i + 1)
  BY <1>3, ForwardKept DEF EntriesMet
<1>6. DOMAIN labels = DOMAIN d.labels \cup {x} /\ labels[x] = d.instrCount
      /\ \A y \in DOMAIN d.labels : y # x => labels[y] = d.labels[y]
  BY DEF With
<1>7. LabelsMet(labels, c, i + 1)
  <2>1. LabelsMet(d.labels, c, i)
    BY DEF EntriesMet
  <2>2. DOMAIN c = 1..Len(c) /\ Len(c) \in Nat /\ i + 1 \in 1..Len(c)
    BY DEF SafeLabels, IsList
  <2>3. \A l \in 1..Len(c) : IsLabel(c[l], x) => l = i + 1
    BY <2>2 DEF SafeLabels, SafeLabel
  <2> HIDE DEF labels
  <2>4. ASSUME NEW l \in 1..(i + 1), c[l].e = "label"
        PROVE  c[l].label \in DOMAIN labels /\ labels[c[l].label] = Before(c, l)
    <3>1. CASE l = i + 1
      BY <1>1, <1>6, <3>1
    <3>2. CASE l # i + 1
      <4>1. l \in 1..i /\ l \in 1..Len(c)
        BY <2>2, <3>2
      <4>2. c[l].label # x
        BY <2>3, <2>4, <3>2, <4>1 DEF IsLabel
      <4>3. c[l].label \in DOMAIN d.labels /\ d.labels[c[l].label] = Before(c, l)
        BY <2>1, <2>4, <4>1 DEF LabelsMet
      <4> QED
        BY <1>6, <4>2, <4>3
    <3> QED
      BY <3>1, <3>2
  <2>5. ASSUME NEW y \in DOMAIN labels PROVE \E l \in 1..(i + 1) : IsLabel(c[l], y)
    <3>1. CASE y = x
      <4>1. i + 1 \in 1..(i + 1) /\ IsLabel(c[i + 1], y)
        BY <3>1 DEF IsLabel
      <4> QED
        BY <4>1
    <3>2. CASE y # x
      <4>1. PICK l \in 1..i : IsLabel(c[l], y)
        BY <1>6, <2>1, <2>5, <3>2 DEF LabelsMet
      <4> QED
        BY <4>1
    <3> QED
      BY <3>1, <3>2
  <2> QED
    BY <2>4, <2>5 DEF LabelsMet
<1> HIDE DEF labels
<1>8. EntriesMet(q, funcs, before, c, i + 1)
  BY <1>1, <1>2, <1>3, <1>4, <1>5, <1>7 DEF EntriesMet
<1> QED
  BY <1>8 DEF q

\* What the front end makes of a line (parser.y, codeEntry).
LEMMA EntryMet ==
    ASSUME NEW d, NEW funcs, NEW before, NEW c, NEW i \in Nat, i + 1 \in DOMAIN c, SafeLabels(c),
           IsCode(before), EntriesMet(d, funcs, before, c, i)
    PROVE  EntriesMet(ParseEntry(d, c[i + 1]), funcs, before, c, i + 1)
<1> DEFINE e == c[i + 1]
<1>1. IsEntry(e) /\ e.e \in {"label", "instruction", "branch"} /\ (e.e = "instruction" => e.arg \in Nat)
  BY EntryKinds DEF SafeLabels
<1>2. IsDriver(d) /\ LabelsMet(d.labels, c, i) /\ ForwardMet(d.forward, Len(before), c, i)
  BY DEF EntriesMet
<1>3. CASE e.e = "label"
  <2>1. ParseEntry(d, e) = ParseLabel(d, e.label)
    BY <1>3 DEF ParseEntry
  <2> QED
    BY <1>3, <2>1, LabelMet
<1>4. CASE e.e = "instruction"
  <2> DEFINE n == e.arg % ArgLimit
  <2>1. ParseEntry(d, e) = ParseInstruction(d, [op |-> e.op, arg |-> n])
    BY <1>4 DEF ParseEntry, Instruction
  <2>2. n \in Nat
    BY <1>1, <1>4, ArgIsNat
  <2>3. Flattened([op |-> e.op, arg |-> n], c, i + 1, i + 1)
    BY <1>4 DEF Flattened
  <2>4. IsInst(c, i + 1) /\ ForwardMet(d.forward, Len(before), c, i + 1)
    BY <1>2, <1>4, ForwardKept DEF IsInst
  <2> HIDE DEF n
  <2> QED
    BY <1>2, <2>1, <2>2, <2>3, <2>4, InstructionMet
<1>5. CASE e.e = "branch"
  <2> DEFINE x == e.label
  <2>1. IsInst(c, i + 1)
    BY <1>5 DEF IsInst
  <2>2. CASE x \in DOMAIN d.labels
    <3> DEFINE n == d.labels[x] % ArgLimit
    <3>1. ParseEntry(d, e) = ParseInstruction(d, [op |-> e.op, arg |-> n])
      BY <1>5, <2>2 DEF ParseEntry, Instruction
    <3>2. n \in Nat
      BY <1>2, <2>2, ArgIsNat DEF IsDriver
    <3>3. Flattened([op |-> e.op, arg |-> n], c, i + 1, i + 1)
      <4>1. ASSUME NEW l \in 1..(i + 1), IsLabel(c[l], x) PROVE n = Before(c, l) % ArgLimit
        <5>1. l \in 1..i
          BY <1>5, <4>1 DEF IsLabel
        <5> QED
          BY <1>2, <4>1, <5>1 DEF LabelsMet, IsLabel
      <4> HIDE DEF n
      <4> QED
        BY <1>5, <4>1 DEF Flattened
    <3>4. ForwardMet(d.forward, Len(before), c, i + 1)
      <4>1. \A y \in DOMAIN d.forward : WaitsFor(d.forward[y], y, Len(before), c, i + 1)
        BY <1>2, WaitsOn DEF ForwardMet
      <4>2. ASSUME NEW k \in 1..(i + 1), c[k].e = "branch", \A l \in 1..(i + 1) : ~IsLabel(c[l], c[k].label)
            PROVE  c[k].label \in DOMAIN d.forward
        <5>1. k # i + 1
          BY <1>2, <2>2, <4>2 DEF LabelsMet
        <5>2. k \in 1..i /\ \A l \in 1..i : ~IsLabel(c[l], c[k].label)
          BY <4>2, <5>1
        <5> QED
          BY <1>2, <4>2, <5>2 DEF ForwardMet
      <4> QED
        BY <4>1, <4>2 DEF ForwardMet
    <3> HIDE DEF n
    <3> QED
      BY <1>2, <2>1, <3>1, <3>2, <3>3, <3>4, InstructionMet
  <2>3. CASE x \notin DOMAIN d.labels
    <3> DEFINE n == 0 % ArgLimit
               w == Waiting(d, x)
               forward == With(d.forward, x, d.globalInstrCount)
    <3>1. ParseEntry(d, e) = ParseInstruction(w, [op |-> e.op, arg |-> n])
      BY <1>5, <2>3 DEF ParseEntry, Instruction, Waiting
    <3>2. n \in Nat
      BY ArgIsNat
    <3>3. \A l \in 1..(i + 1) : ~IsLabel(c[l], x)
      BY <1>2, <1>5, <2>3 DEF LabelsMet, IsLabel
    <3>4. Flattened([op |-> e.op, arg |-> n], c, i + 1, i + 1)
      BY <1>5, <3>3 DEF Flattened
    <3>5. /\ IsDriver(w) /\ w.funcs = d.funcs /\ w.code = d.code /\ w.labels = d.labels /\ w.forward = forward
          /\ w.instrCount = d.instrCount /\ w.globalInstrCount = d.globalInstrCount
      <4>1. w = DriverOf(d.funcs, d.code, d.labels, forward, d.instrCount, d.globalInstrCount) /\ IsDriver(w)
        BY <1>2, WaitingIs
      <4> HIDE DEF w, forward
      <4> QED
        BY <4>1, DriverParts
    <3> HIDE DEF w, n
    <3>6. DOMAIN forward = DOMAIN d.forward \cup {x} /\ forward[x] = d.globalInstrCount
          /\ \A y \in DOMAIN d.forward : y # x => forward[y] = d.forward[y]
      BY DEF With
    <3> HIDE DEF forward
    <3>7. ForwardMet(forward, Len(before), c, i + 1)
      <4>1. WaitsFor(d.globalInstrCount, x, Len(before), c, i + 1)
        <5>1. d.globalInstrCount = Len(before) + Before(c, i + 1) - 1
          <6>1. d.globalInstrCount = Len(before) + Before(c, i) /\ Before(c, i + 1) = Before(c, i) + 1
            BY <2>1, BeforeNext DEF EntriesMet
          <6>2. Len(before) \in Nat /\ Before(c, i) \in Nat
            BY SeqFacts, BeforeNext DEF IsCode
          <6> QED
            BY <6>1, <6>2
        <5>2. i + 1 \in 1..(i + 1) /\ BranchesTo(c[i + 1], x)
          BY <1>5 DEF BranchesTo
        <5> QED
          BY <5>1, <5>2 DEF WaitsFor
      <4>2. \A y \in DOMAIN forward : WaitsFor(forward[y], y, Len(before), c, i + 1)
        BY <1>2, <3>6, <4>1, WaitsOn DEF ForwardMet
      <4>3. ASSUME NEW k \in 1..(i + 1), c[k].e = "branch", \A l \in 1..(i + 1) : ~IsLabel(c[l], c[k].label)
            PROVE  c[k].label \in DOMAIN forward
        <5>1. CASE k = i + 1
          BY <3>6, <5>1
        <5>2. CASE k # i + 1
          <6>1. k \in 1..i /\ \A l \in 1..i : ~IsLabel(c[l], c[k].label)
            BY <4>3, <5>2
          <6> QED
            BY <1>2, <3>6, <4>3, <6>1 DEF ForwardMet
        <5> QED
          BY <5>1, <5>2
      <4> QED
        BY <4>2, <4>3 DEF ForwardMet
    <3> QED
      BY <2>1, <3>1, <3>2, <3>4, <3>5, <3>7, InstructionMet
  <2> QED
    BY <2>2, <2>3
<1> QED
  BY <1>1, <1>3, <1>4, <1>5

\* What the front end makes of a function, from its header through every line.
LEMMA FuncMet ==
    ASSUME NEW d, NEW f, IsDriver(d), IsFunction(f), SafeLabels(f.code), Len(d.code) = d.globalInstrCount
    PROVE  EntriesMet(ParseFunc(d, f), With(d.funcs, f.name, MetaMade(d, f)), d.code, f.code, Len(f.code))
<1> DEFINE funcs == With(d.funcs, f.name, MetaMade(d, f))
           start == HeaderMade(d, f)
           c == f.code
           before == d.code
           n == Len(c)
<1>1. n \in Nat /\ DOMAIN c = 1..n
  BY DEF IsFunction, IsList
<1>2. IsCode(before) /\ Len(before) \in Nat /\ Len(before) = d.globalInstrCount
  BY SeqFacts DEF IsDriver, IsCode
<1>3. IsDriver(start)
  BY HeaderParsed
<1>4. /\ start.funcs = funcs /\ start.code = before /\ start.labels = NoFuncs /\ start.forward = NoFuncs
      /\ start.instrCount = 0 /\ start.globalInstrCount = d.globalInstrCount
  <2>1. start = DriverOf(funcs, before, NoFuncs, NoFuncs, 0, d.globalInstrCount)
    BY HeaderIs
  <2> HIDE DEF start, funcs, before
  <2> QED
    BY <2>1, DriverParts
<1>5. PICK g : Entries!Stepwise(g, start, c, n) /\ ParseFunc(d, f) = g[n]
  BY FuncSteps
<1>6. SafeLabels(c)
  OBVIOUS
<1> HIDE DEF start, n, funcs, c, before
<1>7. EntriesMet(start, funcs, before, c, 0)
  <2>1. Before(c, 0) = 0
    BY BeforeNext
  <2>2. CodeMet(before, before, c, 0)
    BY <1>2, <2>1 DEF CodeMet, InPlace
  <2>3. LabelsMet(NoFuncs, c, 0) /\ ForwardMet(NoFuncs, Len(before), c, 0)
    BY DEF LabelsMet, ForwardMet, NoFuncs
  <2> QED
    BY <1>2, <1>3, <1>4, <2>1, <2>2, <2>3 DEF EntriesMet
<1> DEFINE S == {k \in 0..n : EntriesMet(g[k], funcs, before, c, k)}
<1>8. 0 \in S
  BY <1>1, <1>5, <1>7 DEF Entries!Stepwise
<1>9. ASSUME NEW k \in 1..n, k - 1 \in S PROVE k \in S
  <2>1. g[k] = ParseEntry(g[k - 1], c[k]) /\ EntriesMet(g[k - 1], funcs, before, c, k - 1)
    BY <1>5, <1>9 DEF Entries!Stepwise
  <2>2. k - 1 \in Nat /\ (k - 1) + 1 = k /\ k \in DOMAIN c
    BY <1>1
  <2>3. EntriesMet(g[k], funcs, before, c, k)
    BY <1>2, <1>6, <2>1, <2>2, EntryMet
  <2> QED
    BY <2>3
<1> HIDE DEF S
<1>10. 0..n \subseteq S
  BY <1>1, <1>8, <1>9, Flattening!PlacesInduction
<1>11. EntriesMet(g[n], funcs, before, c, n)
  BY <1>1, <1>10 DEF S
<1> QED
  BY <1>5, <1>11 DEF funcs, c, before, n

-----------------------------------------------------------------------------
(* What the front end makes of a text.                                     *)

\* A function of the text as it is found in a file, but for the number of its arguments.
Placed(meta, code, f) ==
    /\ meta.cstPool = f.cstPool /\ meta.names = f.names
    /\ meta.addr \in Nat /\ meta.addr + Before(f.code, Len(f.code)) <= Len(code)
    /\ InPlace(code, meta.addr, f.code, Len(f.code))
Built(meta, code, f) == meta.argNum = f.argNum /\ Placed(meta, code, f)
\* The driver behind n functions of the text.
FuncsMet(d, text, n) ==
    /\ IsDriver(d) /\ Len(d.code) = d.globalInstrCount
    /\ DOMAIN d.funcs = {text[m].name : m \in 1..n}
    /\ \A m \in 1..n : Built(d.funcs[text[m].name], d.code, text[m])
    /\ IF n = 0 THEN d.globalInstrCount = 0 ELSE d.funcs[text[1].name].addr = 0

\* Nothing in front of a sequence.
LEMMA NothingBefore == \A s : IsSeq(s) => <<>> \o s = s
  BY ConcatEmptySeq DEF IsSeq

\* A function stays where it is when code is put behind it.
LEMMA StillBuilt ==
    ASSUME NEW meta, NEW code, NEW f, NEW longer, Built(meta, code, f), Len(f.code) \in Nat, Len(code) \in Nat,
           Len(longer) \in Nat, Len(code) <= Len(longer), \A j \in 1..Len(code) : longer[j] = code[j]
    PROVE  Built(meta, longer, f)
<1> DEFINE c == f.code
           n == Len(c)
<1>1. n \in Nat /\ meta.addr \in Nat /\ Before(c, n) \in Nat /\ meta.addr + Before(c, n) <= Len(code)
  BY BeforeNext DEF Built, Placed
<1> HIDE DEF c, n
<1>2. ASSUME NEW k \in 1..n, IsInst(c, k) PROVE longer[meta.addr + Before(c, k)] = code[meta.addr + Before(c, k)]
  <2>1. k \in Nat /\ n \in 0..n /\ 0 < k /\ k <= n
    BY <1>1
  <2>4. Before(c, k) <= Before(c, n)
    BY <1>1, <2>1, BeforeGrows
  <2>5. Before(c, 0) < Before(c, k)
    BY <1>2, <2>1, BeforeRises
  <2>2. Before(c, k) <= Before(c, n) /\ Before(c, 0) < Before(c, k) /\ Before(c, 0) = 0 /\ Before(c, k) \in Nat
    BY <2>1, <2>4, <2>5, BeforeNext
  <2>3. meta.addr + Before(c, k) \in 1..Len(code)
    BY <1>1, <2>2
  <2> QED
    BY <2>3
<1>3. InPlace(longer, meta.addr, c, n)
  BY <1>2 DEF Built, Placed, InPlace, c, n
<1> QED
  BY <1>1, <1>3 DEF Built, Placed, c, n

\* A text whose functions have different names and labels that can be patched.
Patchable(text) ==
    /\ IsText(text) /\ \A n \in DOMAIN text : SafeLabels(text[n].code)
    /\ \A m, n \in DOMAIN text : text[m].name = text[n].name => m = n
LEMMA SafeIsPatchable == \A text : IsText(text) /\ SafeText(text) => Patchable(text)
  BY DEF Patchable, SafeText, SafeEntry, SafeLabels, IsText, IsFunction

\* One function more.
LEMMA FuncsNext ==
    ASSUME NEW text, Patchable(text), NEW n \in Nat, n + 1 \in DOMAIN text, NEW d, FuncsMet(d, text, n)
    PROVE  FuncsMet(ParseFunc(d, text[n + 1]), text, n + 1)
<1> DEFINE f == text[n + 1]
           q == ParseFunc(d, f)
           meta == MetaMade(d, f)
           c == f.code
           size == Before(c, Len(c))
<1>1. DOMAIN text = 1..Len(text) /\ Len(text) \in Nat /\ 1..(n + 1) \subseteq DOMAIN text
  BY DEF Patchable, IsText, IsList
<1>2. IsFunction(f) /\ SafeLabels(c) /\ IsSeq(f.cstPool) /\ IsSeq(f.names) /\ Len(c) \in Nat
  BY ConstantsArePool, ListIsSeq DEF Patchable, IsText, IsFunction, IsPool, IsList
<1>3. IsDriver(d) /\ Len(d.code) = d.globalInstrCount /\ d.globalInstrCount \in Nat
  BY DEF FuncsMet, IsDriver
<1>4. f.name \notin DOMAIN d.funcs
  <2>1. \A m \in 1..n : m \in DOMAIN text /\ n + 1 \in DOMAIN text /\ m # n + 1
    BY <1>1
  <2>2. \A m \in 1..n : text[m].name # f.name
    BY <2>1 DEF Patchable
  <2> QED
    BY <2>2 DEF FuncsMet
<1>5. meta.addr = Len(d.code) /\ meta.argNum = f.argNum /\ meta.cstPool = f.cstPool /\ meta.names = f.names
  <2>1. At(d.funcs, f.name) = EmptyMeta
    BY <1>4 DEF At
  <2>2. At(d.funcs, f.name).cstPool = <<>> /\ At(d.funcs, f.name).names = <<>>
    BY <2>1 DEF EmptyMeta
  <2>3. meta = MetaOf(d.globalInstrCount, f.argNum, f.cstPool, f.names)
    BY <1>2, <2>2, NothingBefore DEF MetaMade
  <2> HIDE DEF meta, f
  <2> QED
    BY <1>3, <2>3 DEF MetaOf
<1>6. EntriesMet(q, With(d.funcs, f.name, meta), d.code, c, Len(c))
  BY <1>2, <1>3, FuncMet
<1> HIDE DEF q, meta
<1>7. /\ IsDriver(q) /\ q.globalInstrCount = Len(d.code) + size /\ Len(q.code) = Len(d.code) + size
      /\ (\A j \in 1..Len(d.code) : q.code[j] = d.code[j]) /\ InPlace(q.code, Len(d.code), c, Len(c))
  BY <1>6 DEF EntriesMet, CodeMet
<1>8. size \in Nat /\ Len(d.code) \in Nat
  BY <1>2, <1>3, BeforeNext
<1>9. /\ DOMAIN q.funcs = DOMAIN d.funcs \cup {f.name} /\ q.funcs[f.name] = meta
      /\ \A x \in DOMAIN d.funcs : x # f.name => q.funcs[x] = d.funcs[x]
  BY <1>6 DEF EntriesMet, With
<1>10. Built(meta, q.code, f)
  <2> HIDE DEF f
  <2> QED
    BY <1>5, <1>7, <1>8 DEF Built, Placed
<1>11. ASSUME NEW m \in 1..n PROVE Built(q.funcs[text[m].name], q.code, text[m])
  <2>1. text[m].name \in DOMAIN d.funcs /\ Built(d.funcs[text[m].name], d.code, text[m])
    BY DEF FuncsMet
  <2>2. q.funcs[text[m].name] = d.funcs[text[m].name]
    BY <1>4, <1>9, <2>1
  <2>3. Len(text[m].code) \in Nat
    BY <1>1 DEF Patchable, SafeLabels, IsList
  <2>4. Len(q.code) \in Nat /\ Len(d.code) <= Len(q.code)
    BY <1>7, <1>8
  <2>5. Built(d.funcs[text[m].name], q.code, text[m])
    BY <1>7, <1>8, <2>1, <2>3, <2>4, StillBuilt
  <2> QED
    BY <2>2, <2>5
<1>12. DOMAIN q.funcs = {text[m].name : m \in 1..(n + 1)}
  BY <1>9 DEF FuncsMet
<1>13. q.funcs[text[1].name].addr = 0
  <2>1. CASE n = 0
    BY <1>3, <1>5, <1>9, <2>1 DEF FuncsMet
  <2>2. CASE n # 0
    <3>1. 1 \in 1..n
      BY <2>2
    <3>2. text[1].name \in DOMAIN d.funcs /\ d.funcs[text[1].name].addr = 0
      BY <2>2, <3>1 DEF FuncsMet
    <3> QED
      BY <1>4, <1>9, <3>2
  <2> QED
    BY <2>1, <2>2
<1>14. ASSUME NEW m \in 1..(n + 1) PROVE Built(q.funcs[text[m].name], q.code, text[m])
  <2>1. CASE m = n + 1
    BY <1>9, <1>10, <2>1
  <2>2. CASE m # n + 1
    <3>1. m \in 1..n
      BY <2>2
    <3> QED
      BY <1>11, <3>1
  <2> QED
    BY <2>1, <2>2
<1>15. Len(q.code) = q.globalInstrCount /\ n + 1 # 0
  BY <1>7
<1>16. FuncsMet(q, text, n + 1)
  BY <1>7, <1>12, <1>13, <1>14, <1>15 DEF FuncsMet
<1> QED
  BY <1>16 DEF q, f

\* The functions of a text, all of them and where the file says (parser.y, code).
LEMMA ParsedBuilt ==
    ASSUME NEW text, Patchable(text)
    PROVE  LET p == Parse(text) IN
           /\ IsCode(p.code) /\ DOMAIN p.funcs = {text[m].name : m \in DOMAIN text}
           /\ \A m \in DOMAIN text : Built(p.funcs[text[m].name], p.code, text[m])
           /\ text # <<>> => p.funcs[text[1].name].addr = 0
<1> DEFINE n == Len(text)
<1>1. n \in Nat /\ DOMAIN text = 1..n
  BY DEF Patchable, IsText, IsList
<1>2. PICK g : /\ Headers!Stepwise(g, NewDriver, text, n)
               /\ Parse(text).funcs = g[n].funcs /\ Parse(text).code = g[n].code
  BY TextSteps DEF Patchable
<1> HIDE DEF n
<1> DEFINE S == {k \in 0..n : FuncsMet(g[k], text, k)}
<1>3. 0 \in S
  <2>1. IsSeq(<<>>) /\ DOMAIN <<>> = {} /\ Len(<<>>) = 0
    BY EmptySeq DEF IsSeq
  <2>2. IsFuncs(NoFuncs) /\ DOMAIN NoFuncs = {}
    BY FS_EmptySet DEF IsFuncs, NoFuncs
  <2>3. IsCode(<<>>)
    BY <2>1 DEF IsCode
  <2>4. NewDriver = DriverOf(NoFuncs, <<>>, NoFuncs, NoFuncs, 0, 0)
    BY DEF NewDriver, DriverOf
  <2>5. IsDriver(NewDriver)
    BY <2>2, <2>3, <2>4, DriverIs
  <2>6. NewDriver.funcs = NoFuncs /\ NewDriver.code = <<>> /\ NewDriver.globalInstrCount = 0
    BY DEF NewDriver
  <2> HIDE DEF S
  <2>7. FuncsMet(NewDriver, text, 0)
    BY <2>1, <2>2, <2>5, <2>6 DEF FuncsMet
  <2> QED
    BY <1>1, <1>2, <2>7 DEF Headers!Stepwise, S
<1>4. ASSUME NEW k \in 1..n, k - 1 \in S PROVE k \in S
  <2>1. g[k] = ParseFunc(g[k - 1], text[k]) /\ FuncsMet(g[k - 1], text, k - 1)
    BY <1>2, <1>4 DEF Headers!Stepwise
  <2>2. k - 1 \in Nat /\ (k - 1) + 1 = k /\ k \in DOMAIN text
    BY <1>1
  <2>3. FuncsMet(g[k], text, k)
    BY <2>1, <2>2, FuncsNext
  <2> QED
    BY <2>3
<1> HIDE DEF S
<1>5. 0..n \subseteq S
  BY <1>1, <1>3, <1>4, Flattening!PlacesInduction
<1>6. FuncsMet(g[n], text, n)
  BY <1>1, <1>5 DEF S
<1>7. text # <<>> => n # 0
  <2>1. IsSeq(text)
    BY ListIsSeq DEF Patchable, IsText
  <2> QED
    BY <2>1, EmptySeq DEF IsSeq, n
<1> QED
  BY <1>1, <1>2, <1>6, <1>7 DEF FuncsMet, IsDriver

-----------------------------------------------------------------------------
(* The file that runs.                                                     *)

NoMethodCalls(text) == \A n \in DOMAIN text : \A k \in DOMAIN text[n].code : text[n].code[k].op # "CALL_METHOD"
\* The file has the functions of the text where it says; how many arguments they have may be lost
\* where no method is called.
FileRight(f, text) ==
    /\ IsCode(f.code) /\ DOMAIN f.funcs = {text[m].name : m \in DOMAIN text}
    /\ \A m \in DOMAIN text : LET meta == f.funcs[text[m].name] IN
          Placed(meta, f.code, text[m]) /\ (meta.argNum = text[m].argNum \/ NoMethodCalls(text))
    /\ text # <<>> => f.funcs[text[1].name].addr = 0

\* A file parsed from a safe text is right.
LEMMA ParsedRight == \A text : Patchable(text) => FileRight(Parse(text), text)
  BY ParsedBuilt DEF FileRight, Built

\* What a copy of meta data keeps.
LEMMA CopyKeeps ==
    \A m : IsMeta(m) => /\ CopyMeta(m).addr = m.addr /\ CopyMeta(m).cstPool = m.cstPool
                        /\ CopyMeta(m).names = m.names /\ CopyMeta(m).argNum = 0
<1> SUFFICES ASSUME NEW m, m = [addr |-> m.addr, argNum |-> m.argNum, cstPool |-> m.cstPool, names |-> m.names]
             PROVE  /\ CopyMeta(m).addr = m.addr /\ CopyMeta(m).cstPool = m.cstPool
                    /\ CopyMeta(m).names = m.names /\ CopyMeta(m).argNum = 0
  BY DEF IsMeta
<1> QED
  BY DEF CopyMeta

\* So is its copy, unless it has methods with arguments.
LEMMA CopiedRight ==
    ASSUME NEW c, IsText(c.text), SafeCommand(c), c.dump, FileRight(Parse(c.text), c.text)
    PROVE  FileRight(Copied(Parse(c.text)), c.text)
<1> DEFINE text == c.text
           p == Parse(text)
           q == Copied(p)
<1>1. IsFuncs(p.funcs)
  BY ParsedIsFile
<1>2. q.code = p.code /\ q.funcs = [f \in DOMAIN p.funcs |-> CopyMeta(p.funcs[f])]
  BY DEF Copied
<1> HIDE DEF p, q
<1>3. FileRight(p, text)
  BY DEF p
<1>4. (\A m \in DOMAIN text : text[m].argNum = 0) \/ NoMethodCalls(text)
  BY DEF SafeCommand, NoMethodCalls
<1> HIDE DEF text
<1>5. ASSUME NEW f \in DOMAIN p.funcs
      PROVE  /\ q.funcs[f].addr = p.funcs[f].addr /\ q.funcs[f].cstPool = p.funcs[f].cstPool
             /\ q.funcs[f].names = p.funcs[f].names /\ q.funcs[f].argNum = 0
  BY <1>1, <1>2, CopyKeeps DEF IsFuncs
<1>6. ASSUME NEW m \in DOMAIN text
      PROVE  Placed(q.funcs[text[m].name], q.code, text[m])
             /\ (q.funcs[text[m].name].argNum = text[m].argNum \/ NoMethodCalls(text))
  <2>1. text[m].name \in DOMAIN p.funcs /\ Placed(p.funcs[text[m].name], p.code, text[m])
    BY <1>3 DEF FileRight
  <2>2. Placed(q.funcs[text[m].name], q.code, text[m])
    BY <1>2, <1>5, <2>1 DEF Placed
  <2> QED
    BY <1>4, <1>5, <2>1, <2>2
<1>7. text # <<>> => q.funcs[text[1].name].addr = 0
  <2> SUFFICES ASSUME text # <<>> PROVE q.funcs[text[1].name].addr = 0
    OBVIOUS
  <2>1. IsList(text)
    BY DEF IsText, text
  <2>2. 1 \in DOMAIN text
    BY <2>1, ListIsSeq, SeqFacts, EmptySeq DEF IsSeq
  <2> QED
    BY <1>3, <1>5, <2>2 DEF FileRight
<1>8. DOMAIN q.funcs = DOMAIN p.funcs
  BY <1>2
<1>9. FileRight(q, text)
  BY <1>2, <1>3, <1>6, <1>7, <1>8 DEF FileRight
<1> QED
  BY <1>9 DEF q, p, text

\* What runs is a right file.
LEMMA RunningRight ==
    ASSUME FileInv, SafeCommand(command), status \in {"ready", "running", "done"}
    PROVE  Patchable(command.text) /\ FileRight(file, command.text)
<1>1. IsText(command.text)
  BY CommandsAssumption DEF FileInv
<1>2. Patchable(command.text)
  BY <1>1, SafeIsPatchable DEF SafeCommand
<1>3. FileRight(Parsed, command.text)
  BY <1>2, ParsedRight DEF Parsed
<1>4. CASE disk = <<>>
  BY <1>2, <1>3, <1>4 DEF FileInv
<1>5. CASE disk # <<>>
  <2>1. file = Copied(Parsed) /\ command.dump
    BY <1>5 DEF FileInv
  <2>2. FileRight(Copied(Parsed), command.text)
    BY <1>1, <1>3, <2>1, CopiedRight DEF Parsed
  <2> QED
    BY <1>2, <2>1, <2>2
<1> QED
  BY <1>4, <1>5

-----------------------------------------------------------------------------
(* Names, instructions and places, in the file and in the text.            *)

\* What an instruction does depends on its opcode and, if it has a use for one, its argument, on
\* the constants and on the names.
LEMMA ExecuteSame ==
    ASSUME NEW x, NEW m, NEW n, NEW inst, NEW e, m.cstPool = n.cstPool, m.names = n.names, inst.op = e.op,
           inst.op \notin Calls \cup {"RETURN_VALUE"}, inst.op \in Plain \cup Named => inst.arg = e.arg
    PROVE  Execute(x, m, inst) = Execute(x, n, e)
<1>1. CASE inst.op \in Plain
  <2>1. Execute(x, m, inst) = ExecutePlain(x, m, inst) /\ Execute(x, n, e) = ExecutePlain(x, n, e)
    BY <1>1 DEF Execute, Plain, Named, Branches, Implemented
  <2>2. LOAD_CONST(x, m, inst.arg) = LOAD_CONST(x, n, inst.arg)
    BY DEF LOAD_CONST
  <2>3. ExecutePlain(x, m, inst) = ExecutePlain(x, n, e)
    BY <1>1, <2>2 DEF ExecutePlain
  <2> QED
    BY <2>1, <2>3
<1>2. CASE inst.op \in Named
  <2>1. /\ Execute(x, m, inst) = Need(x, inst.arg < Len(m.names), ExecuteNamed(x, inst.op, m.names[inst.arg + 1]))
        /\ Execute(x, n, e) = Need(x, e.arg < Len(n.names), ExecuteNamed(x, e.op, n.names[e.arg + 1]))
    BY <1>2 DEF Execute, Plain, Named, Branches, Implemented
  <2> QED
    BY <1>2, <2>1
<1>3. CASE inst.op \in Branches
  BY <1>3 DEF Execute, Plain, Named, Branches, Implemented
<1>4. CASE inst.op \notin Implemented
  BY <1>4 DEF Execute, Implemented
<1> QED
  BY <1>1, <1>2, <1>3, <1>4 DEF Implemented

\* What a call does depends on its opcode, the names of the callee and, if it is a method, the
\* number of its arguments.
FilledBy(frame, names, args) ==
    LET given == 1..(IF Len(args) < Len(names) THEN Len(args) ELSE Len(names))
        last(n) == CHOOSE k \in given : names[k] = n /\ \A j \in given : names[j] = n => j <= k
    IN [frame EXCEPT !.vars = [n \in DOMAIN @ |-> IF \E k \in given : names[k] = n THEN args[last(n)] ELSE @[n]]]
EmptyWith(names) == [data |-> <<>>, vars |-> [n \in Range(names) |-> Null]]
CallWith(x, method, n, names, name) ==
    LET taken == Take(x, n)
        y == taken.x
        known == TopIsClass(y) /\ name \in y.heap[Top(y).v].methods
        frame == IF method THEN [EmptyWith(names) EXCEPT !.data = <<Top(y)>>] ELSE EmptyWith(names)
    IN IF y.thrown \/ (method /\ ~known) THEN [x |-> Throw(y)]
       ELSE [x |-> y, frame |-> FilledBy(frame, names, taken.args)]
LEMMA CallIs ==
    ASSUME NEW x, NEW m, NEW inst, NEW name, inst.op \in Calls
    PROVE  CallResult(x, m, inst, name) =
             IF inst.op = "CALL_FUNCTION" THEN CallWith(x, FALSE, Len(x.data), m.names, name)
             ELSE CallWith(x, TRUE, m.argNum, m.names, name)
<1>1. \A frame, args : FillArgs(frame, m, args) = FilledBy(frame, m.names, args)
  BY DEF FillArgs, FilledBy
<1>2. EmptyFrame(m) = EmptyWith(m.names)
  BY DEF EmptyFrame, EmptyWith
<1>3. CASE inst.op = "CALL_FUNCTION"
  BY <1>1, <1>2, <1>3 DEF CallResult, CallWith
<1>4. CASE inst.op = "CALL_METHOD"
  BY <1>1, <1>2, <1>4 DEF CallResult, CallWith
<1> QED
  BY <1>3, <1>4 DEF Calls

LEMMA CallSame ==
    ASSUME NEW x, NEW m, NEW n, NEW inst, NEW e, NEW name, inst.op \in Calls, m.names = n.names, inst.op = e.op,
           inst.op = "CALL_METHOD" => m.argNum = n.argNum
    PROVE  CallResult(x, m, inst, name) = CallResult(x, n, e, name)
<1>1. e.op \in Calls
  OBVIOUS
<1>2. CallResult(x, m, inst, name) =
        IF inst.op = "CALL_FUNCTION" THEN CallWith(x, FALSE, Len(x.data), m.names, name)
        ELSE CallWith(x, TRUE, m.argNum, m.names, name)
  BY CallIs
<1>3. CallResult(x, n, e, name) =
        IF e.op = "CALL_FUNCTION" THEN CallWith(x, FALSE, Len(x.data), n.names, name)
        ELSE CallWith(x, TRUE, n.argNum, n.names, name)
  BY <1>1, CallIs
<1>4. CASE inst.op = "CALL_FUNCTION"
  BY <1>2, <1>3, <1>4
<1>5. CASE inst.op = "CALL_METHOD"
  BY <1>2, <1>3, <1>5
<1> QED
  BY <1>4, <1>5 DEF Calls

\* The text has a function of a name once.
LEMMA FuncIs ==
    ASSUME Patchable(command.text), NEW m \in DOMAIN command.text
    PROVE  Source!Func(command.text[m].name) = command.text[m]
  BY DEF Patchable, Source!Func

\* The names of the text are those of the file.
LEMMA KnownIs ==
    ASSUME FileRight(file, command.text), NEW f
    PROVE  Source!Known(f) <=> f \in DOMAIN file.funcs
  BY DEF FileRight, Source!Known

\* As many instructions as there are.
LEMMA SizeIs ==
    ASSUME Patchable(command.text), NEW m \in DOMAIN command.text
    PROVE  LET c == command.text[m].code IN
           /\ Source!Size(command.text[m].name) = Before(c, Len(c)) /\ Before(c, Len(c)) \in Nat
           /\ Len(c) \in Nat /\ DOMAIN c = 1..Len(c)
<1> DEFINE c == command.text[m].code
<1>1. Len(c) \in Nat /\ DOMAIN c = 1..Len(c)
  BY DEF Patchable, SafeLabels, IsList
<1>2. Source!Size(command.text[m].name) = Before(c, Len(c))
  BY FuncIs DEF Source!Size, Before
<1> QED
  BY <1>1, <1>2, BeforeNext

\* The instruction at a place of a function.
LEMMA InstructionAt ==
    ASSUME Patchable(command.text), NEW m \in DOMAIN command.text,
           NEW at \in 0..(Source!Size(command.text[m].name) - 1)
    PROVE  LET c == command.text[m].code IN
           \E k \in DOMAIN c : IsInst(c, k) /\ Before(c, k) = at + 1 /\ Source!Instruction(command.text[m].name, at) = c[k]
<1> DEFINE c == command.text[m].code
           n == Len(c)
<1>1. n \in Nat /\ DOMAIN c = 1..n /\ at + 1 \in 1..Before(c, n)
  BY SizeIs
<1>2. PICK k \in 1..n : IsInst(c, k) /\ Before(c, k) = at + 1
  BY <1>1, BeforeMet
<1>3. \A j \in 1..n : IsInst(c, j) /\ Before(c, j) = at + 1 => j = k
  <2> HIDE DEF c, n
  <2> SUFFICES ASSUME NEW j \in 1..n, IsInst(c, j), Before(c, j) = at + 1 PROVE j = k
    OBVIOUS
  <2>1. j \in Nat /\ k \in Nat
    BY <1>1
  <2> QED
    BY <1>2, <2>1, BeforeOnce
<1>4. Source!Instruction(command.text[m].name, at) =
        c[CHOOSE j \in DOMAIN c : c[j].e # "label" /\ Before(c, j) = at + 1]
  BY FuncIs DEF Source!Instruction, Before
<1> HIDE DEF c, n
<1>5. (CHOOSE j \in DOMAIN c : c[j].e # "label" /\ Before(c, j) = at + 1) = k
  BY <1>1, <1>2, <1>3 DEF IsInst
<1>6. Source!Instruction(command.text[m].name, at) = c[k] /\ k \in DOMAIN c
  BY <1>1, <1>4, <1>5
<1> QED
  BY <1>2, <1>6 DEF c

\* The place of a label.
LEMMA PlaceIs ==
    ASSUME Patchable(command.text), NEW m \in DOMAIN command.text, NEW i \in DOMAIN command.text[m].code,
           NEW label, IsLabel(command.text[m].code[i], label)
    PROVE  Source!Place(command.text[m].name, label) = Before(command.text[m].code, i)
<1> DEFINE c == command.text[m].code
<1>1. \A j \in DOMAIN c : c[j].e = "label" /\ c[j].label = label => j = i
  <2>1. SafeLabel(c, i) /\ c[i].label = label
    BY DEF Patchable, SafeLabels, IsLabel
  <2> QED
    BY <2>1 DEF SafeLabel, IsLabel
<1>2. Source!Place(command.text[m].name, label) = Before(c, CHOOSE j \in DOMAIN c : c[j].e = "label" /\ c[j].label = label)
  BY FuncIs DEF Source!Place, Before
<1>3. i \in DOMAIN c /\ c[i].e = "label" /\ c[i].label = label
  BY DEF IsLabel
<1> HIDE DEF c
<1>4. (CHOOSE j \in DOMAIN c : c[j].e = "label" /\ c[j].label = label) = i
  BY <1>1, <1>3
<1> QED
  BY <1>2, <1>4 DEF c

\* Behind every entry but the last one of a function there is another instruction.
LEMMA PlaceBelow ==
    ASSUME Patchable(command.text), SafeText(command.text), NEW m \in DOMAIN command.text
    PROVE  LET c == command.text[m].code IN
           /\ Len(c) >= 1 /\ IsInst(c, Len(c)) /\ Leaves(c[Len(c)]) /\ Before(c, Len(c)) >= 1
           /\ \A k \in DOMAIN c : k # Len(c) => Before(c, k) \in 0..(Before(c, Len(c)) - 1)
<1> DEFINE c == command.text[m].code
           n == Len(c)
<1>1. n \in Nat /\ DOMAIN c = 1..n
  BY SizeIs
<1>2. c # <<>> /\ Leaves(c[n])
  BY DEF SafeText, Last
<1>3. n >= 1
  <2>1. IsSeq(c)
    BY ListIsSeq DEF Patchable, SafeLabels
  <2> QED
    BY <1>1, <1>2, <2>1, EmptySeq DEF IsSeq
<1>4. IsInst(c, n)
  BY <1>2 DEF Leaves, IsInst
<1> HIDE DEF c, n
<1>5. ASSUME NEW k \in Nat, k < n PROVE Before(c, k) \in 0..(Before(c, n) - 1)
  <2>1. Before(c, k) < Before(c, n)
    BY <1>1, <1>4, <1>5, BeforeRises
  <2>2. Before(c, k) \in Nat /\ Before(c, n) \in Nat
    BY <1>1, BeforeNext
  <2> QED
    BY <2>1, <2>2
<1>6. Before(c, n) >= 1
  <2>3. 0 \in Nat /\ 0 < n
    BY <1>1, <1>3
  <2>1. Before(c, 0) \in 0..(Before(c, n) - 1)
    BY <1>5, <2>3
  <2>2. Before(c, n) \in Nat
    BY <1>1, BeforeNext
  <2> QED
    BY <2>1, <2>2
<1>7. \A k \in DOMAIN c : k # n => k \in Nat /\ k < n
  BY <1>1
<1> QED
  BY <1>2, <1>3, <1>4, <1>5, <1>6, <1>7 DEF c, n

-----------------------------------------------------------------------------
(* Calls of the source, made from frames.                                  *)

\* The call a frame stands for when its next instruction is at p.
CallAt(e, p, f) == [func |-> e.func, at |-> p - f.funcs[e.func].addr, data |-> e.data, vars |-> e.vars]
Back(s) == IF s = <<>> THEN 0 ELSE Last(s).ret
CallsOf(s, p, f) == [n \in DOMAIN s |-> CallAt(s[n], IF n = Len(s) THEN p ELSE s[n].ret, f)]
LEMMA CallsAre == SourceCalls = CallsOf(frames, pc, file)
  BY DEF SourceCalls, CallsOf, CallAt, PlaceOf

\* The calls are as many as the frames.
LEMMA CallsLen ==
    ASSUME NEW s, NEW p, NEW f, IsSeq(s)
    PROVE  /\ IsSeq(CallsOf(s, p, f)) /\ Len(CallsOf(s, p, f)) = Len(s) /\ Len(s) \in Nat
           /\ \A n \in 1..Len(s) : CallsOf(s, p, f)[n] = CallAt(s[n], IF n = Len(s) THEN p ELSE s[n].ret, f)
<1> DEFINE L == Len(s)
           g(n) == CallAt(s[n], IF n = L THEN p ELSE s[n].ret, f)
           T == {g(n) : n \in 1..L}
           cs == CallsOf(s, p, f)
<1>1. L \in Nat /\ DOMAIN s = 1..L
  BY SeqFacts
<1>2. cs = [n \in 1..L |-> g(n)]
  BY <1>1 DEF CallsOf
<1> HIDE DEF L, cs
<1>3. \A n \in 1..L : cs[n] = g(n)
  BY <1>2
<1> HIDE DEF g
<1>4. cs \in [1..L -> T]
  BY <1>2
<1> HIDE DEF T
<1>5. cs \in Seq(T) /\ Len(cs) = L
  BY <1>1, <1>2, <1>4
<1> QED
  BY <1>1, <1>3, <1>5 DEF IsSeq, L, cs, g

\* What is appended is the last one, and leaves what was there in front of it.
LEMMA FrontLast ==
    ASSUME NEW s, IsSeq(s)
    PROVE  /\ \A e : Front(Append(s, e)) = s /\ Last(Append(s, e)) = e
           /\ s # <<>> => s = Append(Front(s), Last(s))
<1>1. ASSUME NEW e PROVE Front(Append(s, e)) = s /\ Last(Append(s, e)) = e
  <2> DEFINE u == Append(s, e)
  <2>1. /\ IsSeq(u) /\ Len(s) \in Nat /\ Len(u) = Len(s) + 1
        /\ (\A k \in 1..Len(s) : u[k] = s[k]) /\ u[Len(s) + 1] = e /\ u # <<>>
    <3>1. /\ IsSeq(u) /\ Len(s) \in Nat /\ Len(u) = Len(s) + 1
          /\ (\A k \in 1..Len(s) : u[k] = s[k]) /\ u[Len(s) + 1] = e
      BY Appended
    <3> HIDE DEF u
    <3>2. u # <<>>
      BY <3>1, EmptySeq
    <3> QED
      BY <3>1, <3>2
  <2> HIDE DEF u
  <2>2. /\ Last(u) = u[Len(u)] /\ IsSeq(Front(u)) /\ Len(Front(u)) = Len(u) - 1
        /\ \A k \in 1..(Len(u) - 1) : Front(u)[k] = u[k]
    BY <2>1, Shortened
  <2>3. Equal(Front(u), s)
    BY <2>1, <2>2 DEF Equal
  <2>4. Front(u) = s /\ Last(u) = e
    BY <2>1, <2>2, <2>3, SameItems
  <2> QED
    BY <2>4 DEF u
<1>2. ASSUME s # <<>> PROVE s = Append(Front(s), Last(s))
  <2> DEFINE w == Append(Front(s), Last(s))
  <2>1. /\ Len(s) \in Nat /\ Len(s) >= 1 /\ Last(s) = s[Len(s)] /\ IsSeq(Front(s)) /\ Len(Front(s)) = Len(s) - 1
        /\ \A k \in 1..(Len(s) - 1) : Front(s)[k] = s[k]
    BY <1>2, Shortened
  <2>2. IsSeq(w) /\ Len(w) = Len(s) /\ (\A k \in 1..(Len(s) - 1) : w[k] = s[k]) /\ w[Len(s)] = s[Len(s)]
    BY <2>1, Appended
  <2> HIDE DEF w
  <2>3. \A k \in 1..Len(s) : s[k] = w[k]
    BY <2>1, <2>2
  <2>4. Equal(s, w)
    BY <2>1, <2>2, <2>3 DEF Equal
  <2> QED
    BY <2>2, <2>4, SameItems DEF w
<1> QED
  BY <1>1, <1>2

\* A frame put on others: the one below waits from now on.
LEMMA CallPushed ==
    ASSUME NEW s, NEW b, NEW q, NEW f, IsSeq(s)
    PROVE  CallsOf(Append(s, b), q, f) = Append(CallsOf(s, Back(s), f), CallAt(b, q, f))
<1> DEFINE u == Append(s, b)
           L == Len(s)
           c == CallsOf(s, Back(s), f)
           e == CallAt(b, q, f)
           v == CallsOf(u, q, f)
           w == Append(c, e)
<1>1. /\ IsSeq(u) /\ L \in Nat /\ Len(u) = L + 1 /\ (\A k \in 1..L : u[k] = s[k]) /\ u[L + 1] = b
  BY Appended
<1>2. ASSUME NEW k \in 1..L PROVE c[k] = CallAt(s[k], s[k].ret, f)
  <2>1. c[k] = CallAt(s[k], IF k = L THEN Back(s) ELSE s[k].ret, f)
    BY CallsLen
  <2>2. k = L => Back(s) = s[k].ret
    <3>1. k = L => s # <<>>
      BY <1>1, EmptySeq
    <3> QED
      BY <3>1, Shortened DEF Back
  <2> QED
    BY <2>1, <2>2
<1>3. IsSeq(c) /\ Len(c) = L
  BY CallsLen
<1> HIDE DEF u, L, c
<1>4. IsSeq(v) /\ Len(v) = L + 1 /\ \A n \in 1..(L + 1) : v[n] = CallAt(u[n], IF n = L + 1 THEN q ELSE u[n].ret, f)
  BY <1>1, CallsLen
<1>5. IsSeq(w) /\ Len(w) = L + 1 /\ (\A n \in 1..L : w[n] = c[n]) /\ w[L + 1] = e
  BY <1>3, Appended
<1> HIDE DEF v, w
<1>6. ASSUME NEW n \in 1..(L + 1) PROVE v[n] = w[n]
  <2>1. CASE n = L + 1
    BY <1>1, <1>4, <1>5, <2>1
  <2>2. CASE n # L + 1
    <3>1. n \in 1..L
      BY <1>1, <2>2
    <3> QED
      BY <1>1, <1>2, <1>4, <1>5, <2>2, <3>1
  <2> QED
    BY <2>1, <2>2
<1>7. Equal(v, w)
  BY <1>4, <1>5, <1>6 DEF Equal
<1>8. v = w
  BY <1>4, <1>5, <1>7, SameItems
<1> QED
  BY <1>8 DEF v, w, u, c

\* The last call, and those that wait.
LEMMA CallsSplit ==
    ASSUME NEW s, NEW p, NEW f, IsSeq(s), s # <<>>
    PROVE  /\ IsSeq(Front(s)) /\ Last(CallsOf(s, p, f)) = CallAt(Last(s), p, f)
           /\ Front(CallsOf(s, p, f)) = CallsOf(Front(s), Back(Front(s)), f)
           /\ CallsOf(s, p, f) # <<>>
<1> DEFINE r == Front(s)
           e == Last(s)
           c == CallsOf(r, Back(r), f)
<1>1. s = Append(r, e) /\ IsSeq(r)
  BY FrontLast, Shortened
<1> HIDE DEF r, e
<1>2. CallsOf(s, p, f) = Append(c, CallAt(e, p, f))
  BY <1>1, CallPushed
<1>3. IsSeq(c)
  BY <1>1, CallsLen
<1> HIDE DEF c
<1>4. Front(Append(c, CallAt(e, p, f))) = c /\ Last(Append(c, CallAt(e, p, f))) = CallAt(e, p, f)
  BY <1>3, FrontLast
<1>5. Append(c, CallAt(e, p, f)) # <<>>
  BY <1>3, Appended, EmptySeq
<1> QED
  BY <1>1, <1>2, <1>4, <1>5 DEF r, e, c

\* No frames, no calls.
LEMMA NoCalls == \A p, f : CallsOf(<<>>, p, f) = <<>>
<1> SUFFICES ASSUME NEW p, NEW f PROVE CallsOf(<<>>, p, f) = <<>>
  OBVIOUS
<1>1. IsSeq(<<>>) /\ Len(<<>>) = 0
  BY EmptySeq DEF IsSeq
<1>2. IsSeq(CallsOf(<<>>, p, f)) /\ Len(CallsOf(<<>>, p, f)) = 0
  BY <1>1, CallsLen
<1> QED
  BY <1>2, EmptySeq DEF IsSeq

\* One frame, one call.
LEMMA OneCall ==
    ASSUME NEW b, NEW q, NEW f
    PROVE  CallsOf(<<b>>, q, f) = <<CallAt(b, q, f)>>
<1>1. ASSUME NEW s, s = <<>> PROVE CallsOf(Append(s, b), q, f) = Append(CallsOf(s, Back(s), f), CallAt(b, q, f))
  <2>1. IsSeq(s)
    BY <1>1, EmptySeq DEF IsSeq
  <2> QED
    BY <2>1, CallPushed
<1>2. ASSUME NEW s, s = <<>> PROVE CallsOf(Append(s, b), q, f) = Append(s, CallAt(b, q, f))
  <2>1. CallsOf(s, Back(s), f) = s
    BY <1>2, NoCalls
  <2> QED
    BY <1>1, <1>2, <2>1
<1>3. \A e : <<e>> = Append(<<>>, e)
  BY OneFrame
<1> QED
  BY <1>2, <1>3

-----------------------------------------------------------------------------
(* Every call has its place.                                               *)

\* Places are those of instructions.
AllPlaced(calls) == \A n \in 1..Len(calls) : calls[n].at \in 0..(Source!Size(calls[n].func) - 1)
PlacesInv == status = "running" => AllPlaced(SourceCalls)
\* What the simulation of a step rests on.
SourceInv == FileInv /\ FramesInv /\ PlacesInv /\ SafeCommand(command)

\* A call with its place, behind others.
LEMMA PlacedBehind ==
    ASSUME NEW s, NEW e, IsSeq(s), AllPlaced(s), e.at \in 0..(Source!Size(e.func) - 1)
    PROVE  AllPlaced(Append(s, e))
<1> DEFINE u == Append(s, e)
<1>1. /\ Len(s) \in Nat /\ Len(u) = Len(s) + 1 /\ (\A k \in 1..Len(s) : u[k] = s[k]) /\ u[Len(s) + 1] = e
  BY Appended
<1> HIDE DEF u
<1>2. ASSUME NEW n \in 1..Len(u) PROVE u[n].at \in 0..(Source!Size(u[n].func) - 1)
  <2>1. CASE n = Len(s) + 1
    BY <1>1, <2>1
  <2>2. CASE n # Len(s) + 1
    <3>1. n \in 1..Len(s)
      BY <1>1, <2>2
    <3> QED
      BY <1>1, <3>1 DEF AllPlaced
  <2> QED
    BY <2>1, <2>2
<1> QED
  BY <1>2 DEF AllPlaced, u

\* Calls without the last one, and the last one.
LEMMA PlacedFront ==
    ASSUME NEW s, IsSeq(s), s # <<>>, AllPlaced(s)
    PROVE  AllPlaced(Front(s)) /\ Last(s).at \in 0..(Source!Size(Last(s).func) - 1)
<1>1. /\ Len(s) \in Nat /\ Len(s) >= 1 /\ Last(s) = s[Len(s)] /\ IsSeq(Front(s)) /\ Len(Front(s)) = Len(s) - 1
      /\ \A k \in 1..(Len(s) - 1) : Front(s)[k] = s[k]
  BY Shortened
<1>2. Len(s) \in 1..Len(s) /\ \A k \in 1..(Len(s) - 1) : k \in 1..Len(s)
  BY <1>1
<1> QED
  BY <1>1, <1>2 DEF AllPlaced

\* Every function the file has is one of the text.
LEMMA FuncOf ==
    ASSUME SourceInv, status \in {"ready", "running"}, NEW f \in DOMAIN file.funcs
    PROVE  \E m \in DOMAIN command.text :
              /\ command.text[m].name = f /\ Source!Func(f) = command.text[m]
              /\ Placed(file.funcs[f], file.code, command.text[m])
              /\ file.funcs[f].argNum = command.text[m].argNum \/ NoMethodCalls(command.text)
              /\ m = 1 => file.funcs[f].addr = 0
<1>1. Patchable(command.text) /\ FileRight(file, command.text)
  BY RunningRight DEF SourceInv
<1>2. PICK m \in DOMAIN command.text : command.text[m].name = f
  BY <1>1 DEF FileRight
<1>3. Source!Func(f) = command.text[m]
  BY <1>1, <1>2, FuncIs
<1>4. m = 1 => command.text # <<>>
  <2>1. IsSeq(command.text)
    BY <1>1, ListIsSeq DEF Patchable, IsText
  <2> QED
    BY <2>1, EmptySeq DEF IsSeq
<1> QED
  BY <1>1, <1>2, <1>3, <1>4 DEF FileRight

\* The instruction at work is entry k of function m of the text, which the executor finds in the file.
WorksOn(m, k) ==
    LET f == CurFrame.func
        c == command.text[m].code
    IN /\ m \in DOMAIN command.text /\ command.text[m].name = f /\ Source!Func(f) = command.text[m]
       /\ k \in DOMAIN c /\ IsInst(c, k) /\ Before(c, k) = Source!Current.at + 1
       /\ Source!Inst = c[k] /\ Flattened(Inst, c, k, Len(c)) /\ SafeEntry(m, c, k)
       /\ f \in DOMAIN file.funcs /\ Placed(Meta, file.code, command.text[m])
       /\ m = 1 => Meta.addr = 0

\* The call at work.
LEMMA CurrentIs ==
    ASSUME FramesInv, status = "running"
    PROVE  /\ IsSeq(frames) /\ frames # <<>> /\ IsSeq(SourceCalls) /\ SourceCalls # <<>>
           /\ Source!Current = Last(SourceCalls) /\ Source!Current = CallAt(CurFrame, pc, file)
           /\ CurFrame.func \in DOMAIN file.funcs
<1>1. IsSeq(frames) /\ frames # <<>>
  BY DEF FramesInv, IsStack
<1>2. CurFrame.func \in DOMAIN file.funcs
  <2>1. IsFrame(CurFrame, file, heap)
    BY <1>1, StackFront DEF FramesInv, CurFrame
  <2> QED
    BY <2>1 DEF IsFrame
<1>3. Source!Current = Last(SourceCalls)
  BY DEF Source!Current, Source!Last, Last
<1>4. Last(SourceCalls) = CallAt(CurFrame, pc, file) /\ IsSeq(SourceCalls) /\ SourceCalls # <<>>
  BY <1>1, CallsAre, CallsSplit, CallsLen DEF CurFrame
<1> QED
  BY <1>1, <1>2, <1>3, <1>4

\* The parts of a call.
LEMMA CallParts ==
    \A e, p, f : /\ CallAt(e, p, f).func = e.func /\ CallAt(e, p, f).at = p - f.funcs[e.func].addr
                 /\ CallAt(e, p, f).data = e.data /\ CallAt(e, p, f).vars = e.vars
  BY DEF CallAt

\* The executor and the source work on the same instruction.
LEMMA EntryThere ==
    ASSUME SourceInv, status = "running"
    PROVE  Running /\ Source!Running /\ \E m, k : WorksOn(m, k)
<1> DEFINE f == CurFrame.func
           at == Source!Current.at
<1>1. Patchable(command.text) /\ SafeText(command.text)
  BY RunningRight DEF SourceInv, SafeCommand
<1>2. Source!Current.func = f /\ at = pc - Meta.addr /\ f \in DOMAIN file.funcs
  BY CurrentIs, CallParts DEF SourceInv, Meta
<1>3. PICK m \in DOMAIN command.text :
              /\ command.text[m].name = f /\ Source!Func(f) = command.text[m]
              /\ Placed(file.funcs[f], file.code, command.text[m])
              /\ m = 1 => file.funcs[f].addr = 0
  BY <1>2, FuncOf
<1> DEFINE c == command.text[m].code
<1>4. at \in 0..(Source!Size(f) - 1)
  <2>1. AllPlaced(SourceCalls) /\ IsSeq(SourceCalls) /\ SourceCalls # <<>> /\ Source!Current = Last(SourceCalls)
    BY CurrentIs DEF SourceInv, PlacesInv
  <2> QED
    BY <1>2, <2>1, PlacedFront
<1>5. PICK k \in DOMAIN c : IsInst(c, k) /\ Before(c, k) = at + 1 /\ Source!Instruction(f, at) = c[k]
  BY <1>1, <1>3, <1>4, InstructionAt
<1>6. Source!Size(f) = Before(c, Len(c)) /\ Before(c, Len(c)) \in Nat /\ DOMAIN c = 1..Len(c) /\ Len(c) \in Nat
  BY <1>1, <1>3, SizeIs
<1>7. Meta.addr \in Nat /\ Meta.addr + Before(c, Len(c)) <= Len(file.code) /\ InPlace(file.code, Meta.addr, c, Len(c))
  BY <1>3 DEF Placed, Meta
<1>8. pc \in Nat /\ Len(file.code) \in Nat
  BY RunningRight, SeqFacts DEF SourceInv, FramesInv, FileRight, IsCode
<1>9. Meta.addr + Before(c, k) = pc + 1 /\ pc < Len(file.code) /\ at < Source!Size(f)
  <2> DEFINE a == Meta.addr
             size == Source!Size(f)
             b == Before(c, k)
             L == Len(file.code)
  <2>1. at = pc - a /\ b = at + 1 /\ a \in Nat /\ a + size <= L /\ size \in Nat
    BY <1>2, <1>5, <1>6, <1>7
  <2>2. at \in 0..(size - 1) /\ pc \in Nat /\ L \in Nat
    BY <1>4, <1>8
  <2> HIDE DEF at, a, size, b, L
  <2>3. a + b = pc + 1 /\ pc < L /\ at < size
    BY <2>1, <2>2
  <2> QED
    BY <2>3 DEF a, b, L, size
<1>10. Flattened(Inst, c, k, Len(c))
  BY <1>5, <1>6, <1>7, <1>9 DEF InPlace, Inst
<1>11. SafeEntry(m, c, k)
  BY <1>1 DEF SafeText
<1>12. Source!Inst = c[k]
  BY <1>2, <1>5 DEF Source!Inst
<1>13. WorksOn(m, k)
  BY <1>2, <1>3, <1>5, <1>10, <1>11, <1>12 DEF WorksOn, Meta
<1>14. Running /\ Source!Running
  BY <1>2, <1>9 DEF Running, Source!Running
<1> QED
  BY <1>13, <1>14

\* Opcode, argument, constants and names are the same.
LEMMA EntrySame ==
    ASSUME SourceInv, status = "running", NEW m, NEW k, WorksOn(m, k)
    PROVE  /\ Inst.op = Source!Inst.op
           /\ Inst.op \in Implemented \ Branches => Inst.arg = Source!Inst.arg
           /\ Source!Meta(CurFrame.func).cstPool = Meta.cstPool /\ Source!Meta(CurFrame.func).names = Meta.names
<1> DEFINE c == command.text[m].code
<1>1. Inst.op = c[k].op /\ Source!Inst = c[k] /\ k \in DOMAIN c /\ c[k].e # "label"
  BY DEF WorksOn, Flattened, IsInst
<1>2. c[k].e \in {"label", "instruction", "branch"} /\ (c[k].e = "instruction" => c[k].arg \in Nat)
  <2>1. IsEntry(c[k])
    BY <1>1, RunningRight DEF SourceInv, Patchable, SafeLabels, WorksOn
  <2> QED
    BY <2>1, EntryKinds
<1>3. Inst.op \in Implemented \ Branches => Inst.arg = c[k].arg
  <2>1. CASE c[k].e = "instruction"
    <3>1. Inst.op \in Implemented => c[k].arg < ArgLimit
      BY <1>1, <2>1 DEF WorksOn, SafeEntry
    <3>2. Inst.arg = c[k].arg % ArgLimit
      BY <2>1 DEF WorksOn, Flattened
    <3> HIDE DEF c
    <3>3. c[k].arg < ArgLimit => c[k].arg % ArgLimit = c[k].arg
      BY <1>2, <2>1, ArgLimitAssumption
    <3> QED
      BY <3>1, <3>2, <3>3
  <2>2. CASE c[k].e = "branch"
    BY <1>1, <2>2 DEF WorksOn, SafeEntry
  <2> QED
    BY <1>1, <1>2, <2>1, <2>2
<1>4. Source!Func(CurFrame.func) = command.text[m] /\ Placed(Meta, file.code, command.text[m])
  BY DEF WorksOn
<1>5. Source!Meta(CurFrame.func).cstPool = Meta.cstPool /\ Source!Meta(CurFrame.func).names = Meta.names
  BY <1>4 DEF Source!Meta, Placed
<1> QED
  BY <1>1, <1>3, <1>5

\* The frame at work is the same.
LEMMA WorkSame ==
    ASSUME FramesInv, status = "running"
    PROVE  Source!AtWork(Source!Current) = AtWork
  BY CurrentIs, CallParts DEF Source!AtWork, AtWork

-----------------------------------------------------------------------------
(* Steps.                                                                  *)

\* Sizes are those of a text that stays.
SizeIn(text, f) ==
    LET c == text[CHOOSE n \in DOMAIN text : text[n].name = f].code
    IN Source!Cardinality({k \in 1..Len(c) : c[k].e # "label"})
LEMMA SizeStays ==
    ASSUME UNCHANGED command, NEW calls, AllPlaced(calls)
    PROVE  AllPlaced(calls)'
<1>1. ASSUME NEW f PROVE Source!Size(f) = SizeIn(command.text, f)
  BY DEF SizeIn, Source!Size, Source!Func, Source!Before
<1>2. ASSUME NEW f PROVE Source!Size(f)' = SizeIn(command'.text, f)
  BY DEF SizeIn, Source!Size, Source!Func, Source!Before
<1>3. ASSUME NEW f PROVE Source!Size(f)' = Source!Size(f)
  BY <1>1, <1>2
<1> QED
  BY <1>3 DEF AllPlaced
LEMMA CallsNext == UNCHANGED file => SourceCalls' = CallsOf(frames', pc', file)
  BY CallsAre DEF SourceCalls, CallsOf, CallAt, PlaceOf

\* A place behind an instruction that goes on to the next one.
LEMMA NextPlace ==
    ASSUME SourceInv, status = "running", NEW m, NEW k, WorksOn(m, k), Inst.op \in Implemented \ {"RETURN_VALUE"}
    PROVE  Source!Current.at + 1 \in 0..(Source!Size(CurFrame.func) - 1)
<1> DEFINE c == command.text[m].code
<1>1. Patchable(command.text) /\ SafeText(command.text)
  BY RunningRight DEF SourceInv, SafeCommand
<1>2. /\ m \in DOMAIN command.text /\ command.text[m].name = CurFrame.func /\ k \in DOMAIN c
      /\ Before(c, k) = Source!Current.at + 1 /\ Inst.op = c[k].op
  BY DEF WorksOn, Flattened
<1>3. Leaves(c[Len(c)]) /\ (k # Len(c) => Before(c, k) \in 0..(Before(c, Len(c)) - 1))
  BY <1>1, <1>2, PlaceBelow
<1>4. k # Len(c)
  BY <1>2, <1>3 DEF Leaves
<1>5. Source!Size(CurFrame.func) = Before(c, Len(c))
  BY <1>1, <1>2, SizeIs
<1> QED
  BY <1>2, <1>3, <1>4, <1>5

\* The place a branch leads to.
LEMMA BranchPlace ==
    ASSUME SourceInv, status = "running", NEW m, NEW k, WorksOn(m, k), Inst.op \in Branches
    PROVE  /\ Inst.arg \in Nat /\ Inst.arg - Meta.addr = Source!Place(CurFrame.func, Source!Inst.label)
           /\ Source!Place(CurFrame.func, Source!Inst.label) \in 0..(Source!Size(CurFrame.func) - 1)
<1> DEFINE c == command.text[m].code
           f == CurFrame.func
           x == c[k].label
<1>1. Patchable(command.text) /\ SafeText(command.text)
  BY RunningRight DEF SourceInv, SafeCommand
<1>2. /\ m \in DOMAIN command.text /\ command.text[m].name = f /\ k \in DOMAIN c
      /\ Inst.op = c[k].op /\ Source!Inst = c[k] /\ c[k].e # "label" /\ SafeEntry(m, c, k)
      /\ Flattened(Inst, c, k, Len(c))
      /\ m = 1 => Meta.addr = 0
  BY DEF WorksOn, Flattened, IsInst
<1>3. c[k].e \in {"label", "instruction", "branch"}
  BY <1>1, <1>2, EntryKinds DEF Patchable, SafeLabels
<1>4. c[k].e = "branch"
  BY <1>2, <1>3 DEF SafeEntry
<1>5. m = 1 /\ \E i \in DOMAIN c : IsLabel(c[i], x)
  <2>1. c[k].op \in Implemented
    BY <1>2 DEF Implemented
  <2> QED
    BY <1>2, <1>4, <2>1 DEF SafeEntry
<1>6. PICK i \in DOMAIN c : IsLabel(c[i], x)
  BY <1>5
<1>7. Len(c) \in Nat /\ DOMAIN c = 1..Len(c) /\ Source!Size(f) = Before(c, Len(c))
  BY <1>1, <1>2, SizeIs
<1>8. i # Len(c) /\ Before(c, i) \in 0..(Before(c, Len(c)) - 1)
  BY <1>1, <1>2, <1>6, PlaceBelow DEF IsInst, IsLabel
<1>9. Source!Place(f, x) = Before(c, i)
  BY <1>1, <1>2, <1>6, PlaceIs
<1>10. Inst.arg = Before(c, i) % ArgLimit
  BY <1>2, <1>4, <1>6, <1>7 DEF Flattened
<1>11. Before(c, i) < ArgLimit
  <2>1. SafeLabel(c, i)
    BY <1>1, <1>2, <1>6 DEF Patchable, SafeLabels, IsLabel
  <2> QED
    BY <2>1 DEF SafeLabel, Before
<1> DEFINE b == Before(c, i)
<1>12. b % ArgLimit = b /\ b \in Nat
  <2>1. b \in Nat /\ b < ArgLimit
    BY <1>6, <1>7, <1>11, BeforeNext
  <2> HIDE DEF b
  <2> QED
    BY <2>1, ArgLimitAssumption
<1>13. Meta.addr = 0
  BY <1>2, <1>5
<1> QED
  BY <1>2, <1>7, <1>8, <1>9, <1>10, <1>12, <1>13

\* The frame that worked, with another place.
LEMMA TopAgain ==
    ASSUME SourceInv, status = "running", NEW e, e.func = CurFrame.func, NEW q,
           q - Meta.addr \in 0..(Source!Size(CurFrame.func) - 1)
    PROVE  /\ CallsOf(Append(Front(frames), e), q, file) = Append(Front(SourceCalls), CallAt(e, q, file))
           /\ AllPlaced(CallsOf(Append(Front(frames), e), q, file))
<1>1. IsSeq(frames) /\ frames # <<>> /\ IsSeq(SourceCalls) /\ SourceCalls # <<>>
  BY CurrentIs DEF SourceInv
<1>2. IsSeq(Front(frames)) /\ Front(SourceCalls) = CallsOf(Front(frames), Back(Front(frames)), file)
  BY <1>1, CallsAre, CallsSplit
<1>3. CallsOf(Append(Front(frames), e), q, file) = Append(Front(SourceCalls), CallAt(e, q, file))
  BY <1>2, CallPushed
<1>4. AllPlaced(Front(SourceCalls)) /\ IsSeq(Front(SourceCalls))
  BY <1>1, PlacedFront, Shortened DEF SourceInv, PlacesInv
<1>5. CallAt(e, q, file).func = CurFrame.func /\ CallAt(e, q, file).at = q - Meta.addr
  BY CallParts DEF Meta
<1> QED
  BY <1>3, <1>4, <1>5, PlacedBehind

\* A call that goes on with other operands and variables at another place.
Moved(c, d, v, at) == [c EXCEPT !.data = d, !.vars = v, !.at = at]
LEMMA CallMoved ==
    ASSUME NEW e, NEW p, NEW f, NEW d, NEW v, NEW at
    PROVE  Moved(CallAt(e, p, f), d, v, at) = [func |-> e.func, at |-> at, data |-> d, vars |-> v]
<1> DEFINE r == CallAt(e, p, f)
           r1 == [r EXCEPT !.data = d]
           r2 == [r1 EXCEPT !.vars = v]
<1>1. r = [func |-> e.func, at |-> r.at, data |-> e.data, vars |-> e.vars]
  BY DEF CallAt
<1> HIDE DEF r
<1>2. r1 = [func |-> e.func, at |-> r.at, data |-> d, vars |-> e.vars]
  BY <1>1
<1> HIDE DEF r1
<1>3. r2 = [func |-> e.func, at |-> r.at, data |-> d, vars |-> v]
  BY <1>2
<1> HIDE DEF r2
<1>4. [r2 EXCEPT !.at = at] = [func |-> e.func, at |-> at, data |-> d, vars |-> v]
  BY <1>3
<1> QED
  BY <1>4 DEF r2, r1, r, Moved

\* What an instruction does in the text it does in the file.
LEMMA ExecutedSame ==
    ASSUME SourceInv, Running, Inst.op \notin Calls \cup {"RETURN_VALUE"}
    PROVE  Execute(Source!AtWork(Source!Current), Source!Meta(Source!Current.func), Source!Inst) = Execute(AtWork, Meta, Inst)
<1> DEFINE f == CurFrame.func
<1>1. status = "running"
  BY DEF Running
<1>2. PICK m, k : WorksOn(m, k)
  BY <1>1, EntryThere
<1>3. /\ Inst.op = Source!Inst.op /\ (Inst.op \in Implemented \ Branches => Inst.arg = Source!Inst.arg)
      /\ Source!Meta(f).cstPool = Meta.cstPool /\ Source!Meta(f).names = Meta.names
  BY <1>1, <1>2, EntrySame
<1>4. Source!Current.func = f
  BY <1>1, CurrentIs, CallParts DEF SourceInv
<1>5. Source!AtWork(Source!Current) = AtWork
  BY <1>1, WorkSame DEF SourceInv
<1>6. Inst.op \in Plain \cup Named => Inst.arg = Source!Inst.arg
  BY <1>3 DEF Implemented, Plain, Named, Branches
<1> QED
  BY <1>3, <1>4, <1>5, <1>6, ExecuteSame

\* An instruction that neither calls nor returns does in the text what it does in the file.
LEMMA StepSimulated == SourceInv /\ Step => Source!Step /\ PlacesInv'
<1> SUFFICES ASSUME SourceInv, Step PROVE Source!Step /\ PlacesInv'
  OBVIOUS
<1> DEFINE x == Execute(AtWork, Meta, Inst)
           f == CurFrame.func
           sx == Execute(Source!AtWork(Source!Current), Source!Meta(Source!Current.func), Source!Inst)
           e == [CurFrame EXCEPT !.data = x.data, !.vars = x.vars]
           at == IF x.jump THEN Source!Place(f, Source!Inst.label) ELSE Source!Current.at + 1
<1>1. /\ status = "running" /\ Running /\ Inst.op \notin Calls \cup {"RETURN_VALUE"} /\ ~x.thrown
      /\ frames' = Append(Front(frames), e) /\ heap' = x.heap /\ out' = x.out
      /\ Goto(IF x.jump THEN Inst.arg ELSE Reset)
      /\ UNCHANGED <<command, file, disk, status>>
  BY DEF Step, Running
<1>2. PICK m, k : WorksOn(m, k)
  BY <1>1, EntryThere
<1>3. Inst.op = Source!Inst.op
  BY <1>1, <1>2, EntrySame
<1>4a. Source!Current.func = f /\ Source!Current = CallAt(CurFrame, pc, file) /\ Source!Current.at = pc - Meta.addr
  BY <1>1, CurrentIs, CallParts DEF SourceInv, Meta
<1>4. sx = x
  BY <1>1, ExecutedSame
<1>5. Inst.op \in Implemented \ {"RETURN_VALUE"}
  <2>1. CASE Inst.op \notin Implemented
    <3>1. x = Throw(AtWork)
      BY <2>1 DEF Execute, Implemented
    <3>2. Throw(AtWork).thrown = TRUE
      BY DEF Throw, AtWork
    <3> QED
      BY <1>1, <3>1, <3>2
  <2> QED
    BY <1>1, <2>1
<1>6. x.jump => Inst.op \in Branches
  <2>1. Sound(AtWork) /\ DOMAIN AtWork.vars = Range(Meta.names) /\ IsMeta(Meta) /\ Inst.arg \in Nat
    BY <1>1, AtWorkFacts DEF SourceInv
  <2>2. Inst.op \notin Branches => Leads(AtWork, x)
    BY <1>1, <2>1, LeadsExecute
  <2>3. AtWork.jump = FALSE
    BY DEF AtWork
  <2> QED
    BY <2>2, <2>3 DEF Leads
<1>7. pc' - Meta.addr = at /\ at \in 0..(Source!Size(f) - 1)
  <2>1. CASE x.jump
    <3>1. /\ Inst.arg \in Nat /\ Inst.arg - Meta.addr = Source!Place(f, Source!Inst.label)
          /\ Source!Place(f, Source!Inst.label) \in 0..(Source!Size(f) - 1)
      BY <1>1, <1>2, <1>6, <2>1, BranchPlace
    <3>2. pc' = Inst.arg
      BY <1>1, <2>1, <3>1 DEF Goto, NoPC
    <3> QED
      BY <2>1, <3>1, <3>2
  <2>2. CASE ~x.jump
    <3>1. Source!Current.at + 1 \in 0..(Source!Size(f) - 1)
      BY <1>1, <1>2, <1>5, NextPlace
    <3>2. pc' = pc + 1
      BY <1>1, <2>2 DEF Goto, Reset
    <3>3. Source!Current.at = pc - Meta.addr
      BY <1>4a
    <3>4. pc \in Nat /\ Meta.addr \in Nat
      BY <1>1, <1>2 DEF SourceInv, FramesInv, WorksOn, Placed
    <3>5. (pc + 1) - Meta.addr = Source!Current.at + 1
      BY <3>3, <3>4
    <3>6. at = Source!Current.at + 1
      BY <2>2
    <3>7. pc' - Meta.addr = Source!Current.at + 1
      BY <3>2, <3>5, Zenon
    <3>8. at \in 0..(Source!Size(f) - 1)
      BY <3>1, <3>6, Zenon
    <3> HIDE DEF f, x, at
    <3> QED
      BY <3>6, <3>7, <3>8, Zenon
  <2> QED
    BY <2>1, <2>2
<1>8. e.func = f /\ CallAt(e, pc', file) = [Source!Current EXCEPT !.data = x.data, !.vars = x.vars, !.at = at]
  <2>1. IsFrame(CurFrame, file, heap)
    BY <1>1, AtWorkFacts DEF SourceInv
  <2> HIDE DEF x
  <2>2. e.func = f /\ e.data = x.data /\ e.vars = x.vars
    BY <2>1 DEF IsFrame
  <2>4. CallAt(e, pc', file) = [func |-> f, at |-> at, data |-> x.data, vars |-> x.vars]
    BY <1>7, <2>2 DEF CallAt, Meta
  <2> HIDE DEF at, e
  <2>5. [Source!Current EXCEPT !.data = x.data, !.vars = x.vars, !.at = at] = [func |-> f, at |-> at, data |-> x.data, vars |-> x.vars]
    <3>1. Moved(CallAt(CurFrame, pc, file), x.data, x.vars, at) = [func |-> f, at |-> at, data |-> x.data, vars |-> x.vars]
      BY CallMoved
    <3> QED
      BY <1>4a, <3>1 DEF Moved
  <2> QED
    BY <2>2, <2>4, <2>5
<1> HIDE DEF x, e, at, sx
<1>9. /\ SourceCalls' = Append(Front(SourceCalls), CallAt(e, pc', file)) /\ AllPlaced(SourceCalls')
  <2>1. SourceCalls' = CallsOf(Append(Front(frames), e), pc', file)
    BY <1>1, CallsNext
  <2>2. pc' - Meta.addr \in 0..(Source!Size(f) - 1)
    BY <1>7
  <2> QED
    BY <1>1, <1>8, <2>1, <2>2, TopAgain
<1>10. PlacesInv'
  BY <1>1, <1>9, SizeStays DEF PlacesInv
<1>11. Source!Step
  <2>1. Source!Running /\ Source!Inst.op \notin Calls \cup {"RETURN_VALUE"}
    BY <1>1, <1>3, EntryThere
  <2>2. Source!Front(SourceCalls) = Front(SourceCalls)
    BY DEF Source!Front, Front
  <2>3. SourceCalls' = Append(Source!Front(SourceCalls), [Source!Current EXCEPT !.data = sx.data, !.vars = sx.vars, !.at = at])
    BY <1>4, <1>8, <1>9, <2>2
  <2>4. at = IF sx.jump THEN Source!Place(Source!Current.func, Source!Inst.label) ELSE Source!Current.at + 1
    BY <1>4, <1>4a DEF at
  <2>5. heap' = sx.heap /\ out' = sx.out /\ ~sx.thrown
    BY <1>1, <1>4
  <2> QED
    BY <1>1, <2>1, <2>3, <2>4, <2>5 DEF Source!Step, sx
<1> QED
  BY <1>10, <1>11

\* The callee is the same, and known to the file when the text has it.
LEMMA CalleeSame ==
    ASSUME SourceInv, Running, Inst.op \in Calls
    PROVE  LET to == Source!NameOf(Source!Inst) IN
           /\ to = Callee /\ Source!Inst.op = Inst.op
           /\ (Source!Inst.arg < Len(Source!Meta(Source!Current.func).names) /\ Source!Known(to)) <=> CalleeKnown
<1> DEFINE f == CurFrame.func
<1>1. status = "running"
  BY DEF Running
<1>2. PICK m, k : WorksOn(m, k)
  BY <1>1, EntryThere
<1>3. /\ Inst.op = Source!Inst.op /\ (Inst.op \in Implemented \ Branches => Inst.arg = Source!Inst.arg)
      /\ Source!Meta(f).names = Meta.names
  BY <1>1, <1>2, EntrySame
<1>4. Source!Inst.arg = Inst.arg
  BY <1>3 DEF Calls, Implemented, Branches
<1>5. Source!Current.func = f
  BY <1>1, CurrentIs, CallParts DEF SourceInv
<1>6. Source!NameOf(Source!Inst) = Callee
  BY <1>3, <1>4, <1>5 DEF Source!NameOf, Callee
<1>7. FileRight(file, command.text)
  BY <1>1, RunningRight DEF SourceInv
<1>8. Source!Known(Callee) <=> Callee \in DOMAIN file.funcs
  BY <1>7, KnownIs
<1> QED
  BY <1>3, <1>4, <1>5, <1>6, <1>8 DEF CalleeKnown

\* What the call of a function does in the text it does in the file.
LEMMA CalledSame ==
    ASSUME SourceInv, Running, Inst.op \in Calls, CalleeKnown
    PROVE  LET to == Source!NameOf(Source!Inst) IN
           /\ CallResult(Source!AtWork(Source!Current), Source!Meta(to), Source!Inst, to) = Called
           /\ 0 \in 0..(Source!Size(Callee) - 1)
<1>1. status = "running"
  BY DEF Running
<1>2. PICK m, k : WorksOn(m, k)
  BY <1>1, EntryThere
<1>3. Inst.op = Source!Inst.op /\ Source!NameOf(Source!Inst) = Callee
  BY CalleeSame
<1>7. Callee \in DOMAIN file.funcs
  BY DEF CalleeKnown
<1>8. Patchable(command.text) /\ SafeText(command.text) /\ FileRight(file, command.text)
  BY <1>1, RunningRight DEF SourceInv, SafeCommand
<1>10. PICK n \in DOMAIN command.text :
          /\ command.text[n].name = Callee /\ Source!Func(Callee) = command.text[n]
          /\ Placed(file.funcs[Callee], file.code, command.text[n])
          /\ file.funcs[Callee].argNum = command.text[n].argNum \/ NoMethodCalls(command.text)
  BY <1>1, <1>7, FuncOf
<1>11. Inst.op = "CALL_METHOD" => file.funcs[Callee].argNum = command.text[n].argNum
  <2>1. NoMethodCalls(command.text) => Inst.op # "CALL_METHOD"
    BY <1>2 DEF NoMethodCalls, WorksOn, Flattened
  <2> QED
    BY <1>10, <2>1
<1>12. Called = CallResult(AtWork, Source!Meta(Callee), Source!Inst, Callee)
  <2> DEFINE meta == Source!Meta(Callee)
  <2>1. meta.names = file.funcs[Callee].names /\ meta.argNum = command.text[n].argNum
    BY <1>10 DEF Source!Meta, Placed
  <2> HIDE DEF meta
  <2>2. CallResult(AtWork, file.funcs[Callee], Inst, Callee) = CallResult(AtWork, meta, Source!Inst, Callee)
    BY <1>3, <1>11, <2>1, CallSame
  <2> QED
    BY <2>2 DEF Called, meta
<1>13. Source!AtWork(Source!Current) = AtWork
  BY <1>1, WorkSame DEF SourceInv
<1>14. 0 \in 0..(Source!Size(Callee) - 1)
  <2> DEFINE c == command.text[n].code
  <2>1. Source!Size(Callee) = Before(c, Len(c)) /\ Before(c, Len(c)) \in Nat /\ Before(c, Len(c)) >= 1
    BY <1>8, <1>10, SizeIs, PlaceBelow
  <2> QED
    BY <2>1
<1> QED
  BY <1>3, <1>12, <1>13, <1>14

\* A call goes to the start of the function it names and waits behind itself.
LEMMA CallSimulated == SourceInv /\ CALL => Source!Invoke /\ PlacesInv'
<1> SUFFICES ASSUME SourceInv, CALL PROVE Source!Invoke /\ PlacesInv'
  OBVIOUS
<1> DEFINE r == Called
           f == CurFrame.func
           to == Source!NameOf(Source!Inst)
           sr == CallResult(Source!AtWork(Source!Current), Source!Meta(to), Source!Inst, to)
           a == [CurFrame EXCEPT !.data = r.x.data, !.ret = RetAddr]
           b == Frame(Callee, r.frame)
           q == file.funcs[Callee].addr
<1>1. /\ status = "running" /\ Running /\ Inst.op \in Calls /\ CalleeKnown /\ ~r.x.thrown
      /\ frames' = Front(frames) \o <<a, b>> /\ heap' = r.x.heap /\ Goto(q)
      /\ UNCHANGED <<command, file, disk, out, status>>
  BY DEF CALL, Running
<1>2. PICK m, k : WorksOn(m, k)
  BY <1>1, EntryThere
<1>3. /\ to = Callee /\ Source!Inst.op = Inst.op
      /\ Source!Inst.arg < Len(Source!Meta(Source!Current.func).names) /\ Source!Known(to)
      /\ sr = r /\ 0 \in 0..(Source!Size(Callee) - 1)
  BY <1>1, CalleeSame, CalledSame
<1>4. Source!Current.func = f /\ Source!Current = CallAt(CurFrame, pc, file) /\ Source!Current.at = pc - Meta.addr
  BY <1>1, CurrentIs, CallParts DEF SourceInv, Meta
<1>5. Source!Current.at + 1 \in 0..(Source!Size(f) - 1)
  BY <1>1, <1>2, NextPlace DEF Calls, Implemented
<1>6. (pc + 1) - Meta.addr = Source!Current.at + 1
  <2>1. pc \in Nat /\ Meta.addr \in Nat
    BY <1>1, <1>2 DEF SourceInv, FramesInv, WorksOn, Placed
  <2> QED
    BY <1>4, <2>1
<1>7. q \in Nat /\ pc' = q
  <2>1. Callee \in DOMAIN file.funcs
    BY <1>1 DEF CalleeKnown
  <2>2. q \in Nat
    BY <1>1, <2>1, FuncOf DEF Placed
  <2> HIDE DEF q
  <2> QED
    BY <1>1, <2>2 DEF Goto, NoPC
<1>8. /\ a.func = f /\ a.data = r.x.data /\ a.vars = CurFrame.vars /\ a.ret = pc + 1
      /\ b.func = Callee /\ b.data = r.frame.data /\ b.vars = r.frame.vars
  <2>1. CurFrame = [func |-> f, ret |-> CurFrame.ret, data |-> CurFrame.data, vars |-> CurFrame.vars]
    BY <1>1, AtWorkFacts DEF SourceInv, IsFrame
  <2> HIDE DEF r
  <2>2. a.func = f /\ a.data = r.x.data /\ a.vars = CurFrame.vars /\ a.ret = pc + 1
    BY <2>1 DEF RetAddr
  <2> QED
    BY <2>2 DEF Frame
<1> DEFINE ca == CallAt(a, pc + 1, file)
           cb == CallAt(b, q, file)
<1>9. ca = [Source!Current EXCEPT !.data = r.x.data, !.at = @ + 1]
  <2> DEFINE d == r.x.data
             at == Source!Current.at + 1
             c1 == [Source!Current EXCEPT !.data = d]
  <2>1. Source!Current = [func |-> f, at |-> Source!Current.at, data |-> CurFrame.data, vars |-> CurFrame.vars]
    BY <1>4 DEF CallAt
  <2>2. ca = [func |-> f, at |-> at, data |-> d, vars |-> CurFrame.vars]
    BY <1>6, <1>8 DEF CallAt, Meta
  <2> HIDE DEF d, at
  <2>3. c1 = [func |-> f, at |-> Source!Current.at, data |-> d, vars |-> CurFrame.vars]
    BY <2>1
  <2> HIDE DEF c1
  <2>4. [c1 EXCEPT !.at = at] = [func |-> f, at |-> at, data |-> d, vars |-> CurFrame.vars]
    BY <2>3
  <2> QED
    BY <2>2, <2>4 DEF c1, d, at
<1>10. cb = Source!Call(Callee, r.frame)
  <2>1. cb = [func |-> Callee, at |-> q - q, data |-> r.frame.data, vars |-> r.frame.vars]
    BY <1>8 DEF CallAt
  <2>2. q - q = 0
    BY <1>7
  <2> QED
    BY <2>1, <2>2 DEF Source!Call

<1> HIDE DEF r, a, b, q, ca, cb, to, sr
<1>11. IsSeq(Front(SourceCalls)) /\ IsSeq(Front(frames))
  BY <1>1, CurrentIs, Shortened DEF SourceInv
<1>12. SourceCalls' = Append(Append(Front(SourceCalls), ca), cb) /\ AllPlaced(SourceCalls')
  <2> DEFINE u == Append(Front(frames), a)
             s == CallsOf(u, pc + 1, file)
  <2>1. IsSeq(u) /\ u # <<>> /\ Back(u) = pc + 1
    <3>1. IsSeq(u) /\ Len(Front(frames)) \in Nat /\ Len(u) = Len(Front(frames)) + 1 /\ Last(u) = a
      BY <1>11, Appended, FrontLast
    <3> HIDE DEF u
    <3>2. u # <<>>
      BY <3>1, EmptySeq
    <3> QED
      BY <1>8, <3>1, <3>2 DEF Back
  <2>2. frames' = Append(u, b)
    BY <1>1, <1>11, TwoFrames
  <2>3. (pc + 1) - Meta.addr \in 0..(Source!Size(f) - 1) /\ a.func = f
    BY <1>5, <1>6, <1>8, Zenon
  <2>4. s = Append(Front(SourceCalls), ca) /\ AllPlaced(s)
    BY <1>1, <2>3, TopAgain DEF ca
  <2> HIDE DEF u
  <2>5. SourceCalls' = CallsOf(Append(u, b), q, file)
    BY <1>1, <1>7, <2>2, CallsNext
  <2>6. CallsOf(Append(u, b), q, file) = Append(s, cb) /\ IsSeq(s)
    BY <2>1, CallPushed, CallsLen DEF cb
  <2>7. cb.func = Callee /\ cb.at = 0
    BY <1>10 DEF Source!Call
  <2> HIDE DEF s
  <2>8. AllPlaced(Append(s, cb))
    BY <1>3, <2>4, <2>6, <2>7, PlacedBehind
  <2> QED
    BY <2>4, <2>5, <2>6, <2>8
<1>13. PlacesInv'
  BY <1>1, <1>12, SizeStays DEF PlacesInv
<1>14. Source!Invoke
  <2>1. Source!Running /\ Source!Inst.op \in Calls
    BY <1>1, <1>3, EntryThere
  <2>2. Source!Front(SourceCalls) = Front(SourceCalls)
    BY DEF Source!Front, Front
  <2>3. Front(SourceCalls) \o <<ca, cb>> = Append(Append(Front(SourceCalls), ca), cb)
    BY <1>11, TwoFrames
  <2>4. SourceCalls' = Source!Front(SourceCalls) \o <<[Source!Current EXCEPT !.data = sr.x.data, !.at = @ + 1], Source!Call(to, sr.frame)>>
    BY <1>3, <1>9, <1>10, <1>12, <2>2, <2>3
  <2>5. heap' = sr.x.heap /\ ~sr.x.thrown
    BY <1>1, <1>3
  <2> QED
    BY <1>1, <1>3, <2>1, <2>4, <2>5 DEF Source!Invoke, sr, to
<1> QED
  BY <1>13, <1>14

\* A value that goes to the last one of a sequence of frames or calls.
WithValue(e, obj) == [e EXCEPT !.data = Append(e.data, obj)]
LEMMA ValueGiven ==
    ASSUME NEW s, NEW obj, IsSeq(s), s # <<>>
    PROVE  [s EXCEPT ![Len(s)].data = Append(@, obj)] = Append(Front(s), WithValue(Last(s), obj))
<1> DEFINE e == WithValue(s[Len(s)], obj)
<1>1. [s EXCEPT ![Len(s)].data = Append(@, obj)] = [s EXCEPT ![Len(s)] = e]
  BY DEF WithValue
<1>2. s[Len(s)] = Last(s)
  BY Shortened
<1> HIDE DEF e
<1>3. [s EXCEPT ![Len(s)] = e] = Append(Front(s), e)
  BY LastExchanged
<1> QED
  BY <1>1, <1>2, <1>3 DEF e

\* The call of a frame that got the value has got it too.
LEMMA CallGiven ==
    ASSUME NEW e, NEW p, NEW f, NEW obj, e = [func |-> e.func, ret |-> e.ret, data |-> e.data, vars |-> e.vars]
    PROVE  /\ WithValue(CallAt(e, p, f), obj) = CallAt(WithValue(e, obj), p, f)
           /\ CallAt(WithValue(e, obj), p, f).func = CallAt(e, p, f).func
           /\ CallAt(WithValue(e, obj), p, f).at = CallAt(e, p, f).at
<1> DEFINE d == Append(e.data, obj)
           w == WithValue(e, obj)
           c == CallAt(e, p, f)
<1>1. c = [func |-> e.func, at |-> c.at, data |-> e.data, vars |-> e.vars] /\ c.at = p - f.funcs[e.func].addr
  BY DEF CallAt
<1>2. WithValue(c, obj) = [c EXCEPT !.data = d]
  BY <1>1 DEF WithValue
<1>3. w = [e EXCEPT !.data = d]
  BY DEF WithValue
<1> HIDE DEF d, c, w
<1>4. w.func = e.func /\ w.data = d /\ w.vars = e.vars
  BY <1>3
<1>5. [c EXCEPT !.data = d] = [func |-> e.func, at |-> c.at, data |-> d, vars |-> e.vars]
  BY <1>1
<1>6. CallAt(w, p, f) = [func |-> e.func, at |-> c.at, data |-> d, vars |-> e.vars]
  BY <1>1, <1>4 DEF CallAt
<1>7. CallAt(w, p, f).func = c.func /\ CallAt(w, p, f).at = c.at
  BY <1>1, <1>6
<1> QED
  BY <1>2, <1>5, <1>6, <1>7 DEF c, w

\* A value goes to the caller, which goes on behind its call, or the program ends.
LEMMA ReturnSimulated == SourceInv /\ RETURN_VALUE => Source!Return /\ PlacesInv'
<1> SUFFICES ASSUME SourceInv, RETURN_VALUE PROVE Source!Return /\ PlacesInv'
  OBVIOUS
<1> DEFINE c == Clone(AtWork, Top(CurFrame))
           sc == Clone(Source!AtWork(Source!Current), Source!Last(Source!Current.data))
           rest == Front(frames)
           calls == Front(SourceCalls)
           below == Last(rest)
<1>1. /\ status = "running" /\ Running /\ Inst.op = "RETURN_VALUE" /\ CurFrame.data # <<>> /\ heap' = c.x.heap
      /\ UNCHANGED <<command, file, disk, out>>
      /\ rest = <<>> => frames' = <<>> /\ status' = "done"
      /\ rest # <<>> => /\ frames' = [rest EXCEPT ![Len(rest)].data = Append(@, c.obj)]
                        /\ status' = status /\ Goto(below.ret)
  BY DEF RETURN_VALUE, Running
<1>2. PICK m, k : WorksOn(m, k)
  BY <1>1, EntryThere
<1>3. Inst.op = Source!Inst.op
  BY <1>1, <1>2, EntrySame
<1>4. Source!Current.data = CurFrame.data
  BY <1>1, CurrentIs, CallParts DEF SourceInv
<1>5. sc = c
  <2>1. Source!Last(Source!Current.data) = Top(CurFrame)
    BY <1>4 DEF Source!Last, Top, Last
  <2>2. Source!AtWork(Source!Current) = AtWork
    BY <1>1, WorkSame DEF SourceInv
  <2> QED
    BY <2>1, <2>2
<1>6. Source!Running /\ Source!Inst.op = "RETURN_VALUE" /\ Source!Current.data # <<>> /\ heap' = sc.x.heap
  BY <1>1, <1>3, <1>4, <1>5, EntryThere
<1>7. /\ IsSeq(frames) /\ frames # <<>> /\ IsSeq(SourceCalls) /\ SourceCalls # <<>> /\ IsSeq(rest) /\ IsSeq(calls)
      /\ calls = CallsOf(rest, Back(rest), file) /\ AllPlaced(calls)
  BY <1>1, CurrentIs, CallsAre, CallsSplit, Shortened, PlacedFront DEF SourceInv, PlacesInv
<1>8. Source!Front(SourceCalls) = calls
  BY DEF Source!Front, Front
<1>9. /\ calls = <<>> => SourceCalls' = <<>> /\ status' = "done" /\ rest = <<>>
      /\ calls # <<>> => /\ SourceCalls' = [calls EXCEPT ![Len(calls)].data = Append(@, c.obj)]
                         /\ status' = status /\ AllPlaced(SourceCalls')
  <2>1. calls = <<>> <=> rest = <<>>
    <3>1. Len(calls) = Len(rest)
      BY <1>7, CallsLen
    <3> HIDE DEF calls, rest
    <3> QED
      BY <1>7, <3>1, EmptySeq DEF IsSeq
  <2>2. CASE rest = <<>>
    <3>1. SourceCalls' = CallsOf(<<>>, pc', file)
      BY <1>1, <2>2, CallsNext
    <3> QED
      BY <1>1, <2>1, <2>2, <3>1, NoCalls
  <2>3. CASE rest # <<>>
    <3> DEFINE r == Front(rest)
               cs == CallsOf(r, Back(r), file)
               p == below.ret
               e == WithValue(below, c.obj)
    <3>1. IsFrame(below, file, heap) /\ IsSeq(r)
      BY <1>1, <1>7, <2>3, StackFront, Shortened DEF SourceInv, FramesInv, IsStack
    <3>2. below = [func |-> below.func, ret |-> p, data |-> below.data, vars |-> below.vars] /\ p \in Nat
      BY <3>1 DEF IsFrame
    <3>3. frames' = Append(r, e)
      BY <1>1, <1>7, <2>3, ValueGiven
    <3>4. pc' = p
      BY <1>1, <2>3, <3>2 DEF Goto, NoPC
    <3>5. rest = Append(r, below) /\ Back(rest) = p
      BY <1>7, <2>3, FrontLast DEF Back
    <3> HIDE DEF c, rest, below, r, e, p
    <3>6. SourceCalls' = Append(cs, CallAt(e, p, file))
      BY <1>1, <3>1, <3>3, <3>4, CallsNext, CallPushed
    <3>7. calls = Append(cs, CallAt(below, p, file)) /\ IsSeq(cs)
      BY <1>7, <3>1, <3>5, CallPushed, CallsLen
    <3> HIDE DEF cs, calls
    <3>8. Front(calls) = cs /\ Last(calls) = CallAt(below, p, file)
      BY <3>7, FrontLast
    <3>9. WithValue(Last(calls), c.obj) = CallAt(e, p, file) /\ CallAt(e, p, file).func = Last(calls).func
          /\ CallAt(e, p, file).at = Last(calls).at
      BY <3>2, <3>8, CallGiven DEF e
    <3>10. [calls EXCEPT ![Len(calls)].data = Append(@, c.obj)] = Append(cs, CallAt(e, p, file))
      BY <1>7, <2>1, <2>3, <3>8, <3>9, ValueGiven
    <3>11. AllPlaced(Append(cs, CallAt(e, p, file)))
      BY <1>7, <2>1, <2>3, <3>7, <3>8, <3>9, PlacedFront, PlacedBehind
    <3> QED
      BY <1>1, <2>1, <2>3, <3>6, <3>10, <3>11 DEF rest
  <2> QED
    BY <2>2, <2>3
<1>10. PlacesInv'
  BY <1>1, <1>9, SizeStays DEF PlacesInv
<1>11. Source!Return
  BY <1>1, <1>5, <1>6, <1>8, <1>9 DEF Source!Return
<1> QED
  BY <1>10, <1>11

\* Before it runs the program has no calls, whatever happens to its files.
LEMMA CallsAfter == frames' = <<>> => SourceCalls' = <<>>
<1> SUFFICES ASSUME frames' = <<>> PROVE SourceCalls' = <<>>
  OBVIOUS
<1>1. SourceCalls' = CallsOf(frames', pc', file')
  BY DEF SourceCalls, CallsOf, CallAt, PlaceOf
<1> QED
  BY <1>1, NoCalls
LEMMA CallsBefore == frames = <<>> => SourceCalls = <<>>
  BY CallsAre, NoCalls

\* The program starts with a call of main, or is refused.
LEMMA RunSimulated == SourceInv /\ Run => (Source!Start \/ Source!Fail) /\ PlacesInv'
<1> SUFFICES ASSUME SourceInv, Run PROVE (Source!Start \/ Source!Fail) /\ PlacesInv'
  OBVIOUS
<1>1. status = "ready" /\ frames = <<>> /\ UNCHANGED <<command, file, disk, heap, out>>
  BY DEF Run, SourceInv, FramesInv
<1>2. Patchable(command.text) /\ SafeText(command.text) /\ FileRight(file, command.text)
  BY <1>1, RunningRight DEF SourceInv, SafeCommand
<1>3. CASE "main" \in DOMAIN file.funcs
  <2> DEFINE meta == file.funcs["main"]
             frame == EmptyFrame(meta)
             b == Frame("main", frame)
             cb == CallAt(b, meta.addr, file)
  <2>1. frames' = <<b>> /\ pc' = meta.addr /\ status' = "running"
    BY <1>3 DEF Run, StackFrame
  <2>2. PICK n \in DOMAIN command.text :
          /\ command.text[n].name = "main" /\ Source!Func("main") = command.text[n]
          /\ Placed(meta, file.code, command.text[n])
    BY <1>1, <1>3, FuncOf
  <2>3. Source!Known("main")
    BY <1>2, <1>3, KnownIs
  <2>4. EmptyFrame(Source!Meta("main")) = frame
    <3> DEFINE sm == Source!Meta("main")
    <3>1. sm.names = meta.names
      BY <2>2 DEF Source!Meta, Placed
    <3> HIDE DEF sm, meta
    <3> QED
      BY <3>1 DEF EmptyFrame, sm
  <2>5. cb = Source!Call("main", frame)
    <3>1. b.func = "main" /\ b.data = frame.data /\ b.vars = frame.vars
      BY DEF Frame
    <3> HIDE DEF b
    <3>2. cb = [func |-> "main", at |-> meta.addr - meta.addr, data |-> frame.data, vars |-> frame.vars]
      BY <3>1 DEF CallAt
    <3>3. meta.addr - meta.addr = 0
      BY <2>2 DEF Placed
    <3> QED
      BY <3>2, <3>3 DEF Source!Call
  <2> HIDE DEF b, frame, meta, cb
  <2>6. SourceCalls' = <<cb>>
    <3>1. SourceCalls' = CallsOf(<<b>>, meta.addr, file)
      BY <1>1, <2>1, CallsNext
    <3> QED
      BY <3>1, OneCall DEF cb
  <2>7. Source!Start
    BY <1>1, <2>1, <2>3, <2>4, <2>5, <2>6, CallsBefore DEF Source!Start
  <2>8. AllPlaced(<<cb>>)
    <3> DEFINE c == command.text[n].code
    <3>1. Source!Size("main") = Before(c, Len(c)) /\ Before(c, Len(c)) \in Nat /\ Before(c, Len(c)) >= 1
      BY <1>2, <2>2, SizeIs, PlaceBelow
    <3>2. cb.func = "main" /\ cb.at \in 0..(Source!Size("main") - 1)
      BY <2>5, <3>1 DEF Source!Call
    <3> QED
      BY <3>2 DEF AllPlaced
  <2>9. PlacesInv'
    BY <1>1, <2>6, <2>8, SizeStays DEF PlacesInv
  <2> QED
    BY <2>7, <2>9
<1>4. CASE "main" \notin DOMAIN file.funcs
  <2>1. status' = "failed" /\ frames' = <<>>
    BY <1>1, <1>4 DEF Run
  <2>2. SourceCalls' = SourceCalls
    BY <1>1, <2>1, CallsAfter, CallsBefore
  <2> QED
    BY <1>1, <2>1, <2>2 DEF Source!Fail, PlacesInv
<1> QED
  BY <1>3, <1>4

\* What throws in the file is stuck in the text.
LEMMA ThrowSimulated == SourceInv /\ THROW => Source!Fail /\ PlacesInv'
<1> SUFFICES ASSUME SourceInv, THROW PROVE Source!Fail /\ PlacesInv'
  OBVIOUS
<1>1. status = "running" /\ Throwing /\ status' = "failed" /\ UNCHANGED <<command, file, disk, frames, pc, nextPC, heap, out>>
  BY DEF THROW
<1>2. PICK m, k : WorksOn(m, k)
  BY <1>1, EntryThere
<1>3. Running /\ Source!Running /\ Inst.op = Source!Inst.op
  BY <1>1, <1>2, EntryThere, EntrySame
<1>4. /\ pc < Len(file.code) /\ Source!Current.at < Source!Size(Source!Current.func)
      /\ ~(pc >= Len(file.code))
  <2>1. pc \in Nat /\ Len(file.code) \in Nat
    BY <1>1, RunningRight, SeqFacts DEF SourceInv, FramesInv, FileRight, IsCode
  <2> QED
    BY <1>3, <2>1 DEF Running, Source!Running
<1>5. Source!Stuck
  <2>1. CASE Inst.op \in Calls /\ (CalleeKnown => Called.x.thrown)
    <3> DEFINE to == Source!NameOf(Source!Inst)
               sr == CallResult(Source!AtWork(Source!Current), Source!Meta(to), Source!Inst, to)
    <3>1. (Source!Inst.arg < Len(Source!Meta(Source!Current.func).names) /\ Source!Known(to)) => CalleeKnown
      BY <1>3, <2>1, CalleeSame
    <3>2. CalleeKnown => sr = Called
      BY <1>3, <2>1, CalledSame
    <3>3. (Source!Inst.arg < Len(Source!Meta(Source!Current.func).names) /\ Source!Known(to)) => sr.x.thrown
      BY <2>1, <3>1, <3>2
    <3> QED
      BY <1>3, <1>4, <2>1, <3>3 DEF Source!Stuck
  <2>2. CASE Inst.op = "RETURN_VALUE" /\ CurFrame.data = <<>>
    <3>1. Source!Current.data = <<>>
      BY <1>1, <2>2, CurrentIs, CallParts DEF SourceInv
    <3> QED
      BY <1>3, <1>4, <2>2, <3>1 DEF Source!Stuck
  <2>3. CASE Inst.op \notin Calls \cup {"RETURN_VALUE"} /\ Execute(AtWork, Meta, Inst).thrown
    <3>1. Execute(Source!AtWork(Source!Current), Source!Meta(Source!Current.func), Source!Inst).thrown
      BY <1>3, <2>3, ExecutedSame
    <3> QED
      BY <1>3, <1>4, <2>3, <3>1 DEF Source!Stuck
  <2> QED
    BY <1>1, <1>4, <2>1, <2>2, <2>3 DEF Throwing
<1>6. SourceCalls' = SourceCalls
  BY <1>1 DEF SourceCalls, PlaceOf
<1> QED
  BY <1>1, <1>5, <1>6 DEF Source!Fail, PlacesInv

\* Reading, dumping and reading back change nothing the text knows of, or refuse the program.
LEMMA FileSimulated ==
    SourceInv /\ (GenerateFromText \/ DumpBinary \/ GenerateFromBinary) => (Source!Fail \/ UNCHANGED Source!vars) /\ PlacesInv'
<1> SUFFICES ASSUME SourceInv, GenerateFromText \/ DumpBinary \/ GenerateFromBinary
             PROVE  (Source!Fail \/ UNCHANGED Source!vars) /\ PlacesInv'
  OBVIOUS
<1>1. /\ status \in {"start", "ready", "dumped"} /\ UNCHANGED <<command, frames, heap, out>>
      /\ status' \in {"ready", "dumped", "failed"}
  BY DEF GenerateFromText, DumpBinary, GenerateFromBinary
<1>2. frames = <<>> /\ frames' = <<>>
  BY <1>1 DEF SourceInv, FramesInv
<1>3. SourceCalls' = SourceCalls
  BY <1>2, CallsBefore, CallsAfter
<1> QED
  BY <1>1, <1>3 DEF Source!Fail, Source!vars, PlacesInv

\* Every step of the program is one of the text or none.
LEMMA StepsSimulated == SourceInv /\ [Next]_vars => [Source!Next]_(Source!vars) /\ PlacesInv'
<1> SUFFICES ASSUME SourceInv, [Next]_vars PROVE [Source!Next]_(Source!vars) /\ PlacesInv'
  OBVIOUS
<1>1. CASE GenerateFromText \/ DumpBinary \/ GenerateFromBinary
  BY <1>1, FileSimulated DEF Source!Next
<1>2. CASE Run
  BY <1>2, RunSimulated DEF Source!Next
<1>3. CASE Step
  BY <1>3, StepSimulated DEF Source!Next
<1>4. CASE CALL
  BY <1>4, CallSimulated DEF Source!Next
<1>5. CASE RETURN_VALUE
  BY <1>5, ReturnSimulated DEF Source!Next
<1>6. CASE THROW
  BY <1>6, ThrowSimulated DEF Source!Next
<1>7. CASE UNCHANGED vars
  <2>1. UNCHANGED <<command, file, frames, pc, heap, out, status>>
    BY <1>7 DEF vars
  <2>2. SourceCalls' = SourceCalls
    BY <2>1 DEF SourceCalls, PlaceOf
  <2>3. UNCHANGED Source!vars
    BY <2>1, <2>2 DEF Source!vars
  <2>4. PlacesInv'
    BY <2>1, <2>2, SizeStays DEF SourceInv, PlacesInv
  <2> QED
    BY <2>3, <2>4
<1> QED
  BY <1>1, <1>2, <1>3, <1>4, <1>5, <1>6, <1>7 DEF Next, Execution, Finished

\* The executor on the flat code, from memory or from a dump that was read back, does what the
\* text says, for every text that SafeCommand admits: labels, addresses and return addresses lead
\* where its names, calls and labels do (parser.cc, format.cc and executor.cc together).
THEOREM ImplementsHolds == Spec /\ SafeCommand(command) => Implements
<1>1. Init /\ SafeCommand(command) => SourceInv /\ Source!Init
  <2> SUFFICES ASSUME Init, SafeCommand(command) PROVE SourceInv /\ Source!Init
    OBVIOUS
  <2>1. FileInv /\ FramesInv
    BY InitFilesFrames
  <2>3. PlacesInv
    BY DEF Init, PlacesInv
  <2>4. Source!Init
    BY CallsBefore DEF Init, Source!Init
  <2> QED
    BY <2>1, <2>3, <2>4 DEF SourceInv
<1>2. SourceInv /\ [Next]_vars => [Source!Next]_(Source!vars) /\ SourceInv'
  <2> SUFFICES ASSUME SourceInv, [Next]_vars PROVE [Source!Next]_(Source!vars) /\ SourceInv'
    OBVIOUS
  <2>1. FileInv' /\ FramesInv'
    BY FileInvInductive, FramesInvInductive DEF SourceInv
  <2>2. [Source!Next]_(Source!vars) /\ PlacesInv'
    BY StepsSimulated
  <2>3. command' = command
    BY DEF Next, vars, Execution, Finished, GenerateFromText, DumpBinary, GenerateFromBinary, Run, Step, CALL, RETURN_VALUE, THROW
  <2>4. SafeCommand(command)'
    <3>1. SafeCommand(command')
      BY <2>3 DEF SourceInv
    <3> QED
      BY <3>1
  <2> QED
    BY <2>1, <2>2, <2>4 DEF SourceInv
<1> QED
  BY <1>1, <1>2, PTL DEF Spec, Implements, Source!Spec
=============================================================================
