------------------------------- MODULE MCDeriv -------------------------------
(* Formulas and how their authors write them. *)
EXTENDS DerivMeaning

MCSin == [v \in 0..(Q - 1) |-> (3 * v + 1) % Q]
MCCos == [v \in 0..(Q - 1) |-> (v * v + 2) % Q]
MCLn == [v \in 0..(Q - 1) |-> (v * v * v + 4) % Q]

X == LeafTerm(VAR(<<"x">>))
N(n) == LeafTerm(NUM(n))
O(op, l, r) == OpTerm(op, l, r)
Tiny == N(P)            \* 1e-7
NearOne == N(P + 1)     \* 1.0000001

Prec(t) == IF ~IsOp(t) \/ t.op \in {"SIN", "COS", "LN"} THEN 4
           ELSE CHOOSE k \in 1..3 : t.op \in Levels[k]
Written(n) == IF n = P THEN "1e-7" ELSE IF n = P + 1 THEN "1.0000001" ELSE <<"0", "1", "2", "3">>[n + 1]
NameOf(f, op) == CHOOSE s \in DOMAIN f : f[s] = op
RECURSIVE Write(_, _)
Write(t, level) ==
    LET s == CASE t.type = "NUM_T" -> <<Number(t.num, Written(t.num))>>
               [] t.type = "VAR_T" -> <<Word("x")>>
               [] Prec(t) = 4 /\ IsOp(t) -> <<Word(NameOf(Words, t.op)), Sign("(")>> \o Write(t.r, 1) \o <<Sign(")")>>
               [] OTHER -> Write(t.l, Prec(t)) \o <<Sign(" "), Sign(NameOf(Signs, t.op)), Sign(" ")>> \o Write(t.r, Prec(t) + 1)
    IN IF Prec(t) < level THEN <<Sign("(")>> \o s \o <<Sign(")")>> ELSE s

Binary == {"ADD", "SUB", "MUL", "DIV", "POW"}
Atoms == {X, N(1), N(3)}
Small == {O(op, a, b) : op \in Binary, a \in Atoms, b \in Atoms} \cup {O(f, None, X) : f \in {"SIN", "COS", "LN"}}
Medium == {O(op, a, b) : op \in Binary, a \in Small, b \in {X, N(1)}}
          \cup {O(op, a, b) : op \in Binary \ {"POW"}, a \in {X, N(3)}, b \in Small}
          \cup {O(f, None, a) : f \in {"SIN", "COS", "LN"}, a \in Small}
Product == O("MUL", X, O("SIN", None, X))
Large == {O("SUB", Product, O("DIV", X, N(3))), O("SUB", X, O("SUB", X, Product)),
          O("DIV", Product, O("COS", None, X)), O("MUL", O("ADD", X, N(1)), O("MUL", X, N(1))),
          O("ADD", O("POW", X, N(3)), O("SUB", O("LN", None, X), O("ADD", X, N(1))))}
\* Numbers near 0 and 1 where the simplifier and the division look for 0 and 1.
Near == {O("MUL", X, Tiny), O("MUL", NearOne, X), O("DIV", X, Tiny), O("ADD", O("MUL", X, X), O("MUL", Tiny, X)),
         O("DIV", O("ADD", X, Tiny), O("SUB", X, NearOne)), O("MUL", O("ADD", X, Tiny), O("SIN", None, X)),
         O("LN", None, O("ADD", X, Tiny)), O("SUB", O("POW", X, N(3)), Tiny)}
\* As many operators as there are phrases, and one more.
RECURSIVE Chain(_)
Chain(n) == IF n = 0 THEN X ELSE O("ADD", Chain(n - 1), X)
Chains == {Chain(PhraseCount), Chain(PhraseCount + 1)}
Formulas == {[formula |-> t, text |-> Write(t, 1)] : t \in Atoms \cup {N(0), O("POW", X, N(2))} \cup Small \cup Medium \cup Large \cup Near \cup Chains}

\* Texts without a formula: tg(x), a missing bracket, no operator, a name with a power in it.
Odd == {<<Word("tg"), Sign("("), Word("x"), Sign(")")>>,
        <<Word("tg"), Sign("("), Word("x"), Sign(")"), Sign("*"), Word("x")>>,
        <<Number(2, "2"), Sign("^"), Word("tg"), Sign("("), Word("x"), Sign(")")>>,
        <<Word("f"), Sign("("), Word("x"), Sign(")"), Sign("+"), Word("x")>>,
        <<Sign("("), Word("x")>>, <<Word("x"), Sign("+")>>, <<Sign("-"), Word("x")>>,
        <<Number(2, "2"), Word("x")>>, <<Word("x"), Sign("^"), Number(2, "2")>>, <<Word("x"), Sign("-"), Word("x")>>}
MCInputs == Formulas \cup {[formula |-> None, text |-> t] : t \in Odd}
=============================================================================
