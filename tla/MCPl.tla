------------------------------- MODULE MCPl --------------------------------
EXTENDS PlToolchain, FiniteSets

\* Doubles are the whole numbers from -32 to 31; results wrap around.  Six digits of %lg are
\* one: numbers above 9 lose their last bit.
MCNumber == -32..31
Wrap(n)  == ((n + 32) % 64) - 32
MCLg(n)  == IF n > 9 THEN n - (n % 2) ELSE n
MCFunc(op, n) == Wrap(n - 3)
MCTrunc(n) == n
MCShown(n) == n
MCArith(op, a, b) ==
    Wrap(CASE op = "add" -> a + b [] op = "sub" -> a - b [] op = "mul" -> a * b
           [] op = "div" -> IF b <= 0 THEN 0 ELSE a \div b)
MCAddresses == 0..24

----------------------------------------------------------------------------
(* Trees as an author has them in mind, and their source with every operation in brackets or *)
(* with the brackets it needs.                                                              *)
MainName == <<"M", "A", "I", "N">>
F == <<"F", "A", "K">>
P == <<"ZH">>
Q == <<"Z", "H">>
R == <<"SHCH", "q">>

V(n)         == VAR_NODE(n)
D(n)         == DIGIT_NODE(n)
Op(op, a, b) == OP_NODE(op, a, b)

RECURSIVE ParamList(_), Block(_)
ParamList(xs) == IF xs = <<>> THEN Nil ELSE Op("PARAM", V(Head(xs)), ParamList(Tail(xs)))
Block(ss)     == IF ss = <<>> THEN Nil ELSE Op("ST", Head(ss), Block(Tail(ss)))

Fun(f, xs, body) == Op("FUNC", NAME_NODE(f, ParamList(xs), Nil), Block(body))
Let(v, e)        == Op("VAR", V(v), e)
Call(f, xs)      == Op("CALL", [V(f) EXCEPT !.type = NAME_SHORT_T], ParamList(xs))
Return(xs)       == Op("RET", ParamList(xs), Nil)
In(v)            == Op("IN", ParamList(<<v>>), Nil)
Out(xs)          == Op("OUT", ParamList(xs), Nil)
If(c, a, b)      == Op("IF", c, Op("ELSE", Block(a), Block(b)))

Needs(parent, side, n) == Rank(n.op) # 0 /\ (Rank(n.op) < Rank(parent) \/ (side = "right" /\ Rank(n.op) = Rank(parent)))

RECURSIVE Written(_, _)
Written(n, lean) ==
    LET W(x) == Written(x, lean)
        Side(side, x) == IF lean /\ Needs(n.op, side, x) THEN Bracketed(W(x)) ELSE W(x)
        Whole(s) == IF lean THEN s ELSE Bracketed(s)
    IN
    CASE IsNil(n) -> <<>>
      [] n.type = NUM_T -> <<Digits(n.num)>>
      [] n.type = OP_T /\ n.op \in {"ADD", "SUB", "MUL", "DIV", "SQRT"} ->
            IF n.op = "SQRT" THEN <<Word("kvadratek")>> \o Bracketed(W(left(n)))
            ELSE Whole(Side("left", left(n)) \o <<Infix[n.op]>> \o Side("right", right(n)))
      [] n.type = OP_T /\ n.op \in {"IS_EE", "IS_NE"} -> W(left(n)) \o <<Infix[n.op]>> \o W(right(n))
      [] n.type = OP_T /\ n.op = "IS_BT" -> W(left(n)) \o <<Word("<")>> \o W(right(n))
      [] n.type = OP_T /\ n.op = "ST" -> W(left(n)) \o <<Word("miau")>> \o W(right(n))
      [] n.type = OP_T /\ n.op = "IF" ->
            <<Word("kuda_epta")>> \o W(left(n)) \o W(left(right(n))) \o <<Word("valim"), Word("ai_ladno")>>
            \o W(right(right(n))) \o <<Word("valim")>>
      [] n.type = OP_T /\ n.op = "FUNC" ->
            <<Word("komnata_edinichki")>> \o RecToOrigin(left(n)) \o W(right(n)) \o <<Word("valim")>>
      [] n.type = OP_T /\ n.op = "VAR" -> <<Word("niukh_niukh")>> \o W(left(n)) \o W(right(n))
      [] OTHER -> RecToOrigin(n)

----------------------------------------------------------------------------
Exprs == {D(11), Op("ADD", V(P), V(Q)), Op("SUB", Op("SUB", V(P), V(Q)), D(1)), Op("SUB", V(P), Op("SUB", V(Q), D(1))),
          Op("MUL", Op("ADD", V(P), D(1)), V(Q)), Op("DIV", V(Q), Op("SUB", V(P), D(1))),
          Op("SQRT", Op("MUL", V(Q), D(1)), Nil)}
Small == {D(1), V(P), Op("MUL", D(0), V(P)), Op("ADD", D(11), D(2))}
Conds == {Op("IS_EE", V(P), D(1)), Op("IS_NE", V(Q), V(P))}

\* A condition with declarations in its branches.
Branches == {Block(<<Fun(MainName, <<>>,
    <<In(P), Let(Q, e), If(c, <<Let(R, d), Out(<<R, P>>)>>, <<Out(<<Q>>), If(c, <<>>, <<Let(P, D(2))>>)>>),
      Let(R, V(P)), Out(<<R, Q>>), Return(<<>>)>>)>>) : e \in Small, d \in Exprs, c \in Conds}

\* A function that calls itself with its variables exchanged, a second one that returns nothing,
\* and a variable declared only where it is passed on.
Calls == {Block(<<Fun(F, <<P, Q>>,
            <<Let(R, d), If(Op("IS_EE", V(P), D(0)), <<Return(<<R>>)>>, <<Let(P, Op("SUB", V(P), D(1))),
                Let(Q, Call(F, <<Q, P>>)), Let(R, Op("ADD", V(Q), V(R)))>>), Return(<<R>>)>>),
          Fun(MainName, <<>>,
            <<In(Q), Let(P, e), Call(<<"G">>, <<Q>>), Let(R, Call(F, <<P, Q>>)), Out(<<P, Q, R>>),
              Call(<<"G">>, <<R>>), Return(<<>>)>>),
          Fun(<<"G">>, <<R>>, <<Let(Q, e2), Let(P, V(R)), Out(<<P, Q>>), Return(<<>>)>>)>>) :
        d \in Exprs, e \in {D(1), Op("ADD", V(Q), D(11))}, e2 \in {D(3), Op("MUL", D(1), V(R))}}

MCJobs == {<<t, Written(t, lean), <<n>>>> : t \in Branches \cup Calls, lean \in BOOLEAN, n \in {0, 2}}
=============================================================================
