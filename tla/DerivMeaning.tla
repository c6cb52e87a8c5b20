---------------------------- MODULE DerivMeaning ----------------------------
(***************************************************************************)
(* Derivative-Calculator: what a formula means, as the first coefficients  *)
(* of its Taylor series modulo Q, and what main has to do with it.         *)
(***************************************************************************)
EXTENDS DerivCalc, Functions, FiniteSets

-----------------------------------------------------------------------------
(* Series of order 3: <<a0, a1, a2, a3>>.                                  *)

Const(n) == <<n % Q, 0, 0, 0>>
Plus(a, b) == [k \in 1..4 |-> (a[k] + b[k]) % Q]
Scaled(c, a) == [k \in 1..4 |-> (c * a[k]) % Q]
Minus(a, b) == Plus(a, Scaled(-1, b))
Times(a, b) == [k \in 1..4 |-> FoldLeft(LAMBDA s, i : (s + a[i] * b[k + 1 - i]) % Q, 0, [i \in 1..k |-> i])]
Without0(a) == [a EXCEPT ![1] = 0]
\* 1 / (b0 + u) = (1 - w + w^2 - w^3) / b0 with w = u / b0
Over(a, b) ==
    LET w == Scaled(Inv(b[1]), Without0(b))
        w2 == Times(w, w)
    IN Scaled(Inv(b[1]), Times(a, Minus(Plus(Const(1), w2), Plus(w, Times(w, w2)))))
SinOf(u) == Minus(u, Scaled(Inv(6), Times(u, Times(u, u))))
CosOf(u) == Minus(Const(1), Scaled(Inv(2), Times(u, u)))
Sine(a) == Plus(Scaled(Sin[a[1]], CosOf(Without0(a))), Scaled(Cos[a[1]], SinOf(Without0(a))))
Cosine(a) == Minus(Scaled(Cos[a[1]], CosOf(Without0(a))), Scaled(Sin[a[1]], SinOf(Without0(a))))
Logarithm(a) ==
    LET w == Scaled(Inv(a[1]), Without0(a))
        w2 == Times(w, w)
    IN Plus(Const(Ln[a[1]]), Plus(Minus(w, Scaled(Inv(2), w2)), Scaled(Inv(3), Times(w, w2))))

\* Where the formula, or a part of it, has no value, or divides by a number near zero.
Undefined == <<>>
RECURSIVE Series(_, _)
Series(t, v) ==
    IF t.type = "NUM_T" THEN Const(t.num)
    ELSE IF t.type = "VAR_T" THEN <<v, 1, 0, 0>>
    ELSE LET unary == t.op \in {"SIN", "COS", "LN"}
             a == IF unary THEN Const(0) ELSE Series(t.l, v)
             b == Series(t.r, v)
         IN CASE Undefined \in {a, b} -> Undefined
              [] t.op = "ADD" -> Plus(a, b)
              [] t.op = "SUB" -> Minus(a, b)
              [] t.op = "MUL" -> Times(a, b)
              [] t.op = "DIV" -> IF isZero(b[1]) THEN Undefined ELSE Over(a, b)
              [] t.op = "SIN" -> Sine(b)
              [] t.op = "COS" -> Cosine(b)
              [] t.op = "LN" -> IF isZero(b[1]) THEN Undefined ELSE Logarithm(b)
              [] t.op = "POW" -> IF t.r.num < 0 /\ isZero(a[1]) THEN Undefined
                                 ELSE LET base == IF t.r.num < 0 THEN Over(Const(1), a) ELSE a
                                          k == IF t.r.num < 0 THEN -t.r.num ELSE t.r.num
                                      IN FoldLeft(Times, Const(1), [i \in 1..k |-> base])

-----------------------------------------------------------------------------
(* Formulas.                                                               *)

RECURSIVE Parts(_)
Parts(t) == {t} \cup (IF t.type = "OP_T" THEN Parts(t.l) \cup Parts(t.r) ELSE {})
IsOp(t) == t.type = "OP_T"
\* Every power is a number.
Differentiable(t) == \A s \in Parts(t) : IsOp(s) => (s.op = "POW" => s.r.type = "NUM_T")
Foldable(t) ==
    /\ IsOp(t) /\ t.l.type \in {"NUM_T", "VAR_T"} /\ t.r.type \in {"NUM_T", "VAR_T"}
    /\ Folds(t.op, [NUM(t.l.num) EXCEPT !.type = t.l.type], [NUM(t.r.num) EXCEPT !.type = t.r.type]) # {}
Foldless(t) == \A s \in Parts(t) : ~Foldable(s)

\* Sums printed without brackets read back grouped to the left.
RECURSIVE ToTheLeft(_)
ToTheLeft(t) ==
    IF ~IsOp(t) THEN t
    ELSE LET l == ToTheLeft(t.l)
             r == ToTheLeft(t.r)
         IN IF t.op = "ADD" /\ IsOp(r) /\ r.op \in {"ADD", "SUB"}
            THEN [r EXCEPT !.l = ToTheLeft([t EXCEPT !.r = r.l])]
            ELSE [t EXCEPT !.l = l, !.r = r]
TakesAwaySum(t) == IsOp(t) /\ t.op = "SUB" /\ IsOp(t.r) /\ t.r.op \in {"ADD", "SUB"}

RECURSIVE Operators(_)
Operators(t) == CASE t.type = "NULL" -> 0 [] IsOp(t) -> 1 + Operators(t.l) + Operators(t.r) [] OTHER -> 0
WholeNumber(t) == t.type = "NUM_T" => t.num \in -(P - 1) .. (P - 1)
Lacking(t) == IsOp(t) /\ (t.r.type = "NULL" \/ (t.l.type = "NULL" /\ ~IsFictiveZero(t.op)))

-----------------------------------------------------------------------------
(* Formulas in print.  Braces do not show, but what follows ^ is raised    *)
(* and what follows \frac stands above and below a bar.                    *)

Raise(s) == [type |-> "raised", op |-> "UNKNOWN", s |-> s]
Bar(above, below) == [type |-> "bar", op |-> "UNKNOWN", above |-> above, below |-> below]

\* What of t is seen from i up to the brace that closes the group, and where that is.
RECURSIVE Seen(_, _)
Seen(t, i) ==
    LET Then(s, k) == LET rest == Seen(t, k) IN [s |-> s \o rest.s, at |-> rest.at]
        group == Seen(t, i + 1)
        script == Seen(t, i + 2)
        below == Seen(t, script.at + 2)
    IN CASE i > Len(t) \/ t[i].op = "}" -> [s |-> <<>>, at |-> i]
         [] t[i].op = "{" -> Then(group.s, group.at + 1)
         [] t[i].op = "POW" -> Then(<<Raise(script.s)>>, script.at + 1)
         [] t[i].op = "\\frac" -> Then(<<Bar(script.s, below.s)>>, below.at + 1)
         [] OTHER -> Then(<<t[i]>>, i + 1)

Count2(s, op) == Len(SelectSeq(s, LAMBDA item : item.op = op))
\* Where a sum or a product that is no part of another comes apart last; a sign behind an operation
\* or in front is no operation.
Splits(s, ops) ==
    {k \in 2..Len(s) : /\ s[k].op \in ops /\ s[k - 1].op \notin {"ADD", "SUB", "MUL", "OPEN_BR"}
                       /\ LET before == SubSeq(s, 1, k) IN Count2(before, "OPEN_BR") = Count2(before, "CLOSE_BR")}
LastOf(ks) == CHOOSE k \in ks : \A j \in ks : j <= k

\* The formula a reader sees, by the usual rules of precedence.
None == [type |-> "NULL"]
OpTerm(op, l, r) == [type |-> "OP_T", op |-> op, l |-> l, r |-> r]
LeafTerm(node) == [type |-> node.type, num |-> node.num, name |-> node.name]
Negated(t) == IF t.type = "NUM_T" THEN [t EXCEPT !.num = -@] ELSE OpTerm("MUL", LeafTerm(NUM(-1)), t)
RECURSIVE Read(_)
Read(s) ==
    LET sums == Splits(s, {"ADD", "SUB"})
        products == Splits(s, {"MUL"})
        At(k) == OpTerm(s[k].op, Read(SubSeq(s, 1, k - 1)), Read(SubSeq(s, k + 1, Len(s))))
        last == s[Len(s)]
    IN CASE s = <<>> -> None
         [] s # <<>> /\ sums # {} -> At(LastOf(sums))
         [] sums = {} /\ products # {} -> At(LastOf(products))
         [] OTHER ->
            CASE s[1].op = "SUB" -> Negated(Read(Tail(s)))
              [] s[1].op # "SUB" /\ last.type = "raised" -> OpTerm("POW", Read(Front(s)), Read(last.s))
              [] OTHER ->
                 CASE s[1].op \in {"SIN", "COS", "LN"} -> OpTerm(s[1].op, None, Read(Tail(s)))
                   [] s[1].op = "OPEN_BR" -> Read(Front(Tail(s)))
                   [] s[1].type = "bar" -> OpTerm("DIV", Read(s[1].above), Read(s[1].below))
                   [] OTHER -> LeafTerm(s[1])

-----------------------------------------------------------------------------
(* Properties.                                                             *)

Meant == input.formula.type # "NULL"

\* The parser builds the tree of the formula the author wrote down, in every build in which the
\* lexer stops the name of a variable where the author does.
ParsedAsMeant ==
    (Meant /\ step = "InitLatexFile") => ~complained /\ Term(x.heap, root) = input.formula

\* The derivative that is printed last, simplified on the way, takes the values of the first
\* derivative wherever both are defined, unless a number near 0 or 1 was taken for it.
DerivativeRight ==
    (Meant /\ step = "PrintMacloren" /\ Differentiable(input.formula) /\ ~x.rounded) =>
        \A v \in 0..(P - 1) :
            LET f == Series(input.formula, v)
                d == Series(Term(x.heap, dRoot), v)
            IN Undefined \in {f, d} \/ d[1] = f[2]

\* The graph and the Maclaurin values are those of the formula and its derivatives, wherever the
\* formula is defined, divides by nothing near zero and no power of zero is taken; a formula that
\* is a leaf is left out.
ValuesRight ==
    (Meant /\ step = "DestructTree" /\ Differentiable(input.formula) /\ IsOp(input.formula)) =>
        /\ \A v \in Points : LET f == Series(input.formula, v) IN f = Undefined \/ graph[v] \in {Nan, f[1]}
        /\ LET f == Series(input.formula, 0)
           IN f = Undefined \/ \A k \in 1..4 : macloren[k] \in {Nan, (<<1, 1, 2, 6>>[k] * f[k]) % Q}

\* Differentiating and simplifying share nodes with the tree of the input and never change or
\* free one of them, unless the input itself has an operation that can be simplified.
OriginalKept ==
    (Meant /\ step \notin {"GetGrammar", "done", "failed"} /\ Foldless(input.formula)) =>
        ~HasFreed(x.heap, root) /\ Term(x.heap, root) = input.formula

\* A formula that has a derivative goes through main to the end: no node is read or freed after it
\* was freed and none is missing, although derivatives and the tree of the input share nodes, unless
\* the input itself has an operation that can be simplified or more operators than there are phrases.
GoesThrough ==
    (Meant /\ Differentiable(input.formula) /\ Foldless(input.formula) /\ Operators(input.formula) <= PhraseCount) =>
        step # "failed"

\* Every formula in the output, as a reader of the document sees it, is the tree that was printed,
\* if its numbers are whole and no difference takes away a sum or a difference.
PrintedReadsBack ==
    \A n \in DOMAIN x.out :
        LET t == x.out[n].term
        IN (\A s \in Parts(t) : ~Lacking(s) /\ ~TakesAwaySum(s) /\ WholeNumber(s)) =>
                ToTheLeft(Read(Seen(x.out[n].tokens, 1).s)) = ToTheLeft(t)
=============================================================================
