----------------------------- MODULE PlMeaning ------------------------------
(***************************************************************************)
(* What a program of ProgrammingLanguage means, read off its tree: the     *)
(* reference the tool chain is checked against.  The state of a call is    *)
(* the values of its variables and what it has returned, if it has;        *)
(* numbers are written with six digits.  The first parameter takes the     *)
(* last argument: the example of README.md, the factorial, is written for  *)
(* that order.                                                             *)
(***************************************************************************)
EXTENDS PlFrontend, PlBackend

Binary == [ADD |-> "add", MUL |-> "mul", SUB |-> "sub", DIV |-> "div"]

RECURSIVE Eval(_, _), Perform(_, _, _), Names(_), Function(_, _)

Names(params) == IF IsNil(params) THEN <<>> ELSE <<left(params).name>> \o Names(right(params))

Eval(e, vals) ==
    CASE e.type = NUM_T -> Lg(e.num)
      [] e.type = VAR_T -> vals[e.name]
      [] e.op \in DOMAIN Binary -> Arith(Binary[e.op], Eval(left(e), vals), Eval(right(e), vals))
      [] e.op = "SQRT" -> Func("sqr", Eval(left(e), vals))
      [] e.op = "SIN" -> Func("sin", Eval(left(e), vals))

Truth(c, vals) ==
    LET a == Eval(left(c), vals)
        b == Eval(right(c), vals)
    IN  CASE c.op = "IS_EE" -> a = b [] c.op = "IS_NE" -> a # b [] c.op = "IS_BT" -> a < b

With(vals, x, v) == [y \in DOMAIN vals \cup {x} |-> IF y = x THEN v ELSE vals[y]]

\* s: vals, in, out, ret (<<>> before a return, else the values returned), done.
Enter(s, params, args) ==
    [s EXCEPT !.vals = [x \in {params[k] : k \in 1..Len(params)} |->
                            args[Len(args) + 1 - (CHOOSE k \in 1..Len(params) : params[k] = x)]]]

Function(f, t) ==
    IF TranslitString(left(left(t)).name) = TranslitString(f) THEN left(t) ELSE Function(f, right(t))

CallOf(t, f, args, s) ==
    LET fn == Function(f, t)
        r  == Perform(t, right(fn), Enter(s, Names(left(left(fn))), args))
    IN  [r EXCEPT !.vals = s.vals, !.done = FALSE]

Perform(t, n, s) ==
    IF IsNil(n) \/ s.done THEN s
    ELSE CASE n.op = "ST" -> Perform(t, right(n), Perform(t, left(n), s))
           [] n.op = "IF" -> Perform(t, IF Truth(left(n), s.vals) THEN left(right(n)) ELSE right(right(n)), s)
           [] n.op = "RET" ->
                LET xs == Names(left(n))
                IN  [s EXCEPT !.ret = [k \in 1..Len(xs) |-> s.vals[xs[k]]], !.done = TRUE]
           [] n.op = "OUT" ->
                LET xs == Names(left(n))
                IN  [s EXCEPT !.out = @ \o [k \in 1..Len(xs) |-> Shown(s.vals[xs[k]])]]
           [] n.op = "IN" ->
                [s EXCEPT !.vals = With(@, left(left(n)).name, Head(s.in)), !.in = Tail(@)]
           [] n.op = "CALL" -> CallOf(t, left(n).name, [k \in 1..Len(Names(right(n))) |-> s.vals[Names(right(n))[k]]], s)
           [] n.op = "VAR" /\ right(n).op = "CALL" ->
                LET r == Perform(t, right(n), s)
                IN  [r EXCEPT !.vals = With(@, left(n).name, r.ret[Len(r.ret)])]
           [] n.op = "VAR" -> [s EXCEPT !.vals = With(@, left(n).name, Eval(right(n), @))]

Meaning(t, in) ==
    Perform(t, right(Function(<<"M", "A", "I", "N">>, t)),
            [vals |-> [x \in {} |-> 0], in |-> in, out |-> <<>>, ret |-> <<>>, done |-> FALSE]).out
=============================================================================
