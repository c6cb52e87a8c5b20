------------------------------ MODULE DerivCalc ------------------------------
(***************************************************************************)
(* Derivative-Calculator: the parser, and main from the text in            *)
(* data/input.txt to the file for LaTeX.                                   *)
(***************************************************************************)
EXTENDS DerivMath

-----------------------------------------------------------------------------
(* Tokens.  A text is a sequence of words, numbers and other characters.   *)

Word(s) == [k |-> "word", s |-> s, n |-> 0]
Number(n, s) == [k |-> "number", s |-> s, n |-> n]
Sign(s) == [k |-> "sign", s |-> s, n |-> 0]

Signs == [s \in {"+", "-", "*", "/", "^", "(", ")"} |->
    CASE s = "+" -> "ADD" [] s = "-" -> "SUB" [] s = "*" -> "MUL" [] s = "/" -> "DIV" [] s = "^" -> "POW"
      [] s = "(" -> "OPEN_BR" [] s = ")" -> "CLOSE_BR"]
Words == [s \in {"sin", "cos", "tg", "ctg", "ln", "arccos", "arcsin"} |->
    CASE s = "sin" -> "SIN" [] s = "cos" -> "COS" [] s = "tg" -> "TG" [] s = "ctg" -> "CTG" [] s = "ln" -> "LN"
      [] s = "arccos" -> "ARCCOS" [] s = "arcsin" -> "ARCSIN"]
GetOpType(s) == IF s \in DOMAIN Signs THEN Signs[s] ELSE IF s \in DOMAIN Words THEN Words[s] ELSE "UNKNOWN"

\* The scanset of a variable's name: "^" and digits are part of it.  Whether "+-*" in it stands
\* for three characters or for a range is up to the library.
Stops(minusStops) == {"+", "*", "/", "(", ")", " "} \cup (IF minusStops THEN {"-"} ELSE {})
NameEnd(text, i, stops) ==
    CHOOSE j \in i..Len(text) : (\A k \in i..j : text[k].s \notin stops) /\ (j = Len(text) \/ text[j + 1].s \in stops)

RECURSIVE FillTokensArray(_, _, _)
FillTokensArray(text, i, stops) ==
    IF i > Len(text) THEN <<OpToken("TERMINATION_SYM")>>
    ELSE IF text[i].s = " " THEN FillTokensArray(text, i + 1, stops)
    ELSE IF text[i].k = "word" /\ ~(i < Len(text) /\ text[i + 1].s = "(")
    THEN LET j == NameEnd(text, i, stops)
         IN <<VAR([k \in 1..(j - i + 1) |-> text[i + k - 1].s])>> \o FillTokensArray(text, j + 1, stops)
    ELSE <<IF text[i].k = "number" THEN NUM(text[i].n) ELSE OpToken(GetOpType(text[i].s))>>
         \o FillTokensArray(text, i + 1, stops)

-----------------------------------------------------------------------------
(* The parser: p is [x, id, at], the token it looks at being t[p.at].      *)

Levels == <<{"ADD", "SUB"}, {"MUL", "DIV"}, {"POW"}>>
Skip(p, n) == [p EXCEPT !.at = @ + n]
Made(p, node) == LET c == CreateNode(p.x, node) IN [p EXCEPT !.x = c.x, !.id = c.id]
\* A read behind the tokens or a function without return: anything may come of it.
Astray(p) == [p EXCEPT !.x = Fail(@, "garbage"), !.id = Null]
Looks(t, p, op) == p.x.err = "" /\ p.at <= Len(t) /\ t[p.at].op = op

GetOperationNode(p, op) ==
    IF op \in {"SIN", "COS", "LN"} THEN Made(p, OP(op, Null, p.id)) ELSE [p EXCEPT !.id = Null]

RECURSIVE GetLevel(_, _, _), MoreOf(_, _, _), GetBracketExp(_, _)
GetBracketExp(t, p) ==
    IF p.x.err # "" \/ p.at > Len(t) THEN Astray(p)
    ELSE IF t[p.at].type # "OP_T" THEN Skip(Made(p, t[p.at]), 1)
    ELSE IF t[p.at].op = "OPEN_BR"
    THEN LET e == GetLevel(t, Skip(p, 1), 1) IN IF Looks(t, e, "CLOSE_BR") THEN Skip(e, 1) ELSE Astray(e)
    ELSE LET e == GetLevel(t, Skip(p, 2), 1)
         IN IF Looks(t, e, "CLOSE_BR") THEN GetOperationNode(Skip(e, 1), t[p.at].op) ELSE Astray(e)
Operand(t, p, level) == IF level = 3 THEN GetBracketExp(t, p) ELSE GetLevel(t, p, level + 1)
\* Mutant: operations of one level group to the right.
MoreToTheRight(t, p, level) ==
    IF \E op \in Levels[level] : Looks(t, p, op)
    THEN LET right == GetLevel(t, Skip(p, 1), level)
         IN Made(right, OP(t[p.at].op, p.id, right.id))
    ELSE p
MoreOf(t, p, level) ==
    IF \E op \in Levels[level] : Looks(t, p, op)
    THEN LET right == Operand(t, Skip(p, 1), level)
         IN MoreOf(t, Made(right, OP(t[p.at].op, p.id, right.id)), level)
    ELSE p
GetLevel(t, p, level) == MoreOf(t, Operand(t, p, level), level)
GetExpression(t, x) == GetLevel(t, [x |-> x, id |-> Null, at |-> 1], 1)

-----------------------------------------------------------------------------
(* main.                                                                   *)

CONSTANTS
    Inputs,     \* records of a text and the formula its author has in mind
    Points      \* the abscissas of the graph

Builds == [leftFirst : BOOLEAN, minusStops : BOOLEAN]

VARIABLES
    input, build,
    step,       \* the call main makes next, "done" or "failed"
    x,          \* the heap, what was printed and the error
    complained, \* "Compilation error" was printed
    root, dRoot,
    graph,      \* graphic_data.txt
    macloren    \* the values of the Maclaurin series

vars == <<input, build, step, x, complained, root, dRoot, graph, macloren>>

Init ==
    /\ input \in Inputs /\ build \in Builds
    /\ step = "GetGrammar" /\ root = Null /\ dRoot = Null
    /\ x = [heap |-> <<>>, out |-> <<>>, phrases |-> 0, err |-> "", tex |-> TRUE, leftFirst |-> build.leftFirst,
            rounded |-> FALSE]
    /\ complained = FALSE /\ graph = <<>> /\ macloren = <<>>

Goto(next) == step' = IF x'.err # "" THEN "failed" ELSE next

GetGrammar ==
    /\ step = "GetGrammar"
    /\ LET tokens == FillTokensArray(input.text, 1, Stops(build.minusStops))
           p == GetExpression(tokens, x)
       IN /\ x' = p.x /\ root' = p.id
          /\ complained' = (p.x.err = "" /\ ~Looks(tokens, p, "TERMINATION_SYM"))
    /\ Goto("InitLatexFile")
    /\ UNCHANGED <<input, build, dRoot, graph, macloren>>

PrintGraphic(heap, n) == [v \in Points |-> CalcTree(heap, n, v)]

\* DrawTree comes first and asserts that there is a tree.
InitLatexFile ==
    /\ step = "InitLatexFile"
    /\ x' = PrintOrigin(x, root)
    /\ graph' = IF root = Null THEN graph ELSE PrintGraphic(x.heap, root)
    /\ Goto("GetDerivative")
    /\ UNCHANGED <<input, build, complained, root, dRoot, macloren>>

Derive ==
    /\ step = "GetDerivative"
    /\ LET d == GetDerivative(x, root) IN x' = d.x /\ dRoot' = d.id
    /\ Goto("PrintResult")
    /\ UNCHANGED <<input, build, complained, root, graph, macloren>>

PrintDerived ==
    /\ step = "PrintResult"
    /\ x' = PrintResult(x, dRoot)
    /\ Goto("PrintMacloren")
    /\ UNCHANGED <<input, build, complained, root, dRoot, graph, macloren>>

Steps == 3
RECURSIVE MaclorenFrom(_, _, _)
MaclorenFrom(y, n, i) ==
    IF i > Steps \/ y.err # "" THEN [x |-> y, values |-> <<>>]
    ELSE IF n = Null THEN [x |-> Fail(y, "assert"), values |-> <<>>]
    ELSE IF HasFreed(y.heap, n) THEN [x |-> Fail(y, "freed"), values |-> <<>>]
    ELSE LET d == GetDerivative(y, n)
             rest == MaclorenFrom(d.x, d.id, i + 1)
         IN [x |-> rest.x, values |-> <<CalcTree(y.heap, n, 0)>> \o rest.values]
PrintMacloren ==
    /\ step = "PrintMacloren"
    /\ LET s == MaclorenFrom([x EXCEPT !.tex = FALSE], root, 0) IN x' = s.x /\ macloren' = s.values
    /\ Goto("DestructTree")
    /\ UNCHANGED <<input, build, complained, root, dRoot, graph>>

\* Mutant: main frees the derivative as well.
DestructBoth ==
    /\ step = "DestructTree"
    /\ x' = DestructTree(DestructTree(x, dRoot), root)
    /\ Goto("done")
    /\ UNCHANGED <<input, build, complained, root, dRoot, graph, macloren>>

Destruct ==
    /\ step = "DestructTree"
    /\ x' = DestructTree(x, root)
    /\ Goto("done")
    /\ UNCHANGED <<input, build, complained, root, dRoot, graph, macloren>>

Finished == step \in {"done", "failed"} /\ UNCHANGED vars

Next == GetGrammar \/ InitLatexFile \/ Derive \/ PrintDerived \/ PrintMacloren \/ Destruct \/ Finished
Spec == Init /\ [][Next]_vars
=============================================================================
