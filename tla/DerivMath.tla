------------------------------ MODULE DerivMath ------------------------------
(***************************************************************************)
(* Derivative-Calculator: nodes on the heap, derivatives, their            *)
(* simplification and printing, and values of trees.  Functions take and   *)
(* give x, what the program has at work: the heap, what was printed, how   *)
(* many phrases were used and the error that ended it.                     *)
(***************************************************************************)
EXTENDS Integers, Sequences, SequencesExt

CONSTANTS
    P,                  \* a prime
    Sin, Cos, Ln,       \* functions on 0..(P * P - 1)
    PhraseCount         \* how many UselessPhrases there are

ASSUME DerivAssumption == P \in Nat /\ P > 3 /\ PhraseCount \in Nat

-----------------------------------------------------------------------------
(* Nodes.                                                                  *)

Null == 0
NUM(n) == [type |-> "NUM_T", num |-> n, name |-> <<>>, op |-> "UNKNOWN", left |-> Null, right |-> Null, freed |-> FALSE]
VAR(name) == [NUM(0) EXCEPT !.type = "VAR_T", !.name = name]
OP(op, l, r) == [NUM(0) EXCEPT !.type = "OP_T", !.op = op, !.left = l, !.right = r]
OpToken(op) == OP(op, Null, Null)

Result(x, id) == [x |-> x, id |-> id]
Fail(x, err) == IF x.err = "" THEN [x EXCEPT !.err = err] ELSE x
CreateNode(x, node) == Result([x EXCEPT !.heap = Append(@, node)], Len(x.heap) + 1)
\* Mutant: the node itself is taken.
CopyAlias(x, n) == Result(x, n)
\* The children are not copied.
CopyNode(x, n) ==
    IF n = Null THEN Result(Fail(x, "null"), Null)
    ELSE IF x.heap[n].freed THEN Result(Fail(x, "freed"), Null)
    ELSE CreateNode(x, x.heap[n])

\* TransformNode frees the children, which may be shared.
Freed(x, n) ==
    IF n = Null THEN x
    ELSE IF x.heap[n].freed THEN Fail(x, "freed")
    ELSE [x EXCEPT !.heap[n].freed = TRUE]
TransformNode(x, n, leaf) ==
    LET l == Freed(x, x.heap[n].left)
        r == Freed(l, x.heap[n].right)
    IN [r EXCEPT !.heap[n] = leaf]

RECURSIVE DestructTree(_, _)
DestructTree(x, n) ==
    IF n = Null \/ x.err # "" THEN x
    ELSE IF x.heap[n].freed THEN Fail(x, "freed")
    ELSE Freed(DestructTree(DestructTree(x, x.heap[n].left), x.heap[n].right), n)

\* What a walk over the whole tree meets.
RECURSIVE HasFreed(_, _)
HasFreed(heap, n) ==
    /\ n # Null
    /\ heap[n].freed \/ HasFreed(heap, heap[n].left) \/ HasFreed(heap, heap[n].right)
RECURSIVE Term(_, _)
Term(heap, n) ==
    IF n = Null THEN [type |-> "NULL"]
    ELSE IF heap[n].type = "OP_T"
    THEN [type |-> "OP_T", op |-> heap[n].op, l |-> Term(heap, heap[n].left), r |-> Term(heap, heap[n].right)]
    ELSE [type |-> heap[n].type, num |-> heap[n].num, name |-> heap[n].name]

-----------------------------------------------------------------------------
(* Values are numbers modulo Q.  A multiple of P stands for a number that  *)
(* is no more than ACCURACY away from zero: sums and products of such      *)
(* numbers are such numbers, the others have an inverse, and only the      *)
(* multiples of Q are zero.                                                *)

Q == P * P
isZero(n) == n % P = 0
isEqual(m, n) == (m - n) % P = 0

Inverses == [a \in {n \in 1..(Q - 1) : ~isZero(n)} |-> CHOOSE b \in 1..(Q - 1) : (a * b) % Q = 1]
Inv(a) == Inverses[a % Q]
\* What pow answers for a negative power of zero, and what is computed from it; those of a number
\* near zero are no number modulo Q.
Nan == Q
Raised(a, k) == FoldLeft(LAMBDA s, i : (s * a) % Q, 1, [i \in 1..k |-> i])
Power(a, k) == IF k >= 0 THEN Raised(a, k) ELSE IF isZero(a) THEN Nan ELSE Raised(Inv(a), -k)
\* Mutant: the quotient is taken the other way round.
DivSwapped(a, b) == IF isZero(a) THEN 0 ELSE (b * Inv(a)) % Q
DivBy(a, b) == IF isZero(b) THEN 0 ELSE (a * Inv(b)) % Q
\* The parser makes no node for tg, ctg and log.
CalcOneOp(a, b, op) ==
    CASE op = "ADD" -> (a + b) % Q
      [] op = "SUB" -> (a - b) % Q
      [] op = "DIV" -> DivBy(a, b)
      [] op = "MUL" -> (a * b) % Q
      [] op = "POW" -> Power(a, b)
      [] op = "SIN" -> Sin[b % Q]
      [] op = "COS" -> Cos[b % Q]
      [] op = "LN" -> IF b % Q = 0 THEN 0 ELSE Ln[b % Q]

\* A tree that is a leaf counts as zero.
RECURSIVE CalcTree(_, _, _)
ChildValue(heap, n, v) ==
    IF n = Null THEN 0
    ELSE CASE heap[n].type = "OP_T" -> CalcTree(heap, n, v)
           [] heap[n].type = "VAR_T" -> v
           [] heap[n].type = "NUM_T" -> heap[n].num
CalcTree(heap, n, v) ==
    IF heap[n].type # "OP_T" THEN 0
    ELSE LET left == ChildValue(heap, heap[n].left, v)
             right == ChildValue(heap, heap[n].right, v)
         IN IF Nan \in {left, right} THEN Nan ELSE CalcOneOp(left, right, heap[n].op)

-----------------------------------------------------------------------------
(* SimplifyTree.                                                           *)

IsNumber(node, n) == node.type = "NUM_T" /\ isEqual(node.num, n)
Leaf(node) == [node EXCEPT !.left = Null, !.right = Null]
\* The leaves a node may become, at most one.
Folds(op, l, r) ==
    CASE "OP_T" \in {l.type, r.type} -> {}
      [] op = "MUL" /\ (IsNumber(l, 0) \/ IsNumber(r, 0)) -> {NUM(0)}
      [] op = "MUL" /\ IsNumber(r, 1) -> {Leaf(l)}
      [] op = "MUL" /\ IsNumber(l, 1) -> {Leaf(r)}
      [] op \in {"ADD", "MUL"} /\ l.type = "NUM_T" /\ r.type = "NUM_T"
             -> {NUM(IF op = "ADD" THEN l.num + r.num ELSE l.num * r.num)}
      [] OTHER -> {}

\* A factor is taken for 0 or 1 that only is near it.
TakenFor(op, l, r) ==
    op = "MUL" /\ \E node \in {l, r}, n \in {0, 1} : IsNumber(node, n) /\ node.num # n

Count(x, n) == [x |-> x, n |-> n]
\* x.rounded only records whether a number was taken for another.
RECURSIVE SimplifyTree(_, _)
SimplifyTree(x, n) ==
    IF n = Null \/ x.err # "" THEN Count(x, 0)
    ELSE IF x.heap[n].freed THEN Count(Fail(x, "freed"), 0)
    ELSE LET l == SimplifyTree(x, x.heap[n].left)
             r == SimplifyTree(l.x, x.heap[n].right)
             node == r.x.heap[n]
         IN IF r.x.err # "" \/ Null \in {node.left, node.right} THEN Count(r.x, 0)
            ELSE LET left == r.x.heap[node.left]
                     right == r.x.heap[node.right]
                 IN IF left.freed \/ right.freed THEN Count(Fail(r.x, "freed"), 0)
                    ELSE IF Folds(node.op, left, right) = {} THEN Count(r.x, l.n + r.n)
                    ELSE LET y == [r.x EXCEPT !.rounded = @ \/ TakenFor(node.op, left, right)]
                         IN Count(TransformNode(y, n, CHOOSE leaf \in Folds(node.op, left, right) : TRUE), 1)

RECURSIVE SimplifyAll(_, _)
SimplifyAll(x, n) == LET s == SimplifyTree(x, n) IN IF s.n = 0 THEN s.x ELSE SimplifyAll(s.x, n)

-----------------------------------------------------------------------------
(* Printing: the words and signs of a formula in LaTeX.  %lg writes whole  *)
(* numbers with their digits; how it writes others is left out.            *)

IsFictiveZero(op) == op \in {"SIN", "COS", "TG", "CTG", "LN"}
HasChild(heap, n) == heap[n].left # Null \/ heap[n].right # Null
\* Mutant: no brackets around operands.
NeedsNoDivision(heap, n) == heap[n].op \in {"SIN", "COS", "LN"}
isNeedDivision(heap, n) ==
    /\ heap[n].type = "OP_T" /\ heap[n].op \notin {"ADD", "SUB"}
    /\ heap[n].op \in {"SIN", "COS", "LN"} \/ HasChild(heap, heap[n].left) \/ HasChild(heap, heap[n].right)
\* isNeedDivision looks into both children of a product, a quotient and a power.
RECURSIVE LacksChild(_, _)
LacksChild(heap, n) ==
    /\ n # Null
    /\ \/ heap[n].op \in {"MUL", "DIV", "POW"} /\ Null \in {heap[n].left, heap[n].right}
       \/ LacksChild(heap, heap[n].left) \/ LacksChild(heap, heap[n].right)

InBraces(tokens) == <<OpToken("{")>> \o tokens \o <<OpToken("}")>>
InBrackets(tokens) == <<OpToken("OPEN_BR")>> \o tokens \o <<OpToken("CLOSE_BR")>>
Digits(n) == IF n < 0 THEN <<OpToken("SUB"), NUM(-n)>> ELSE <<NUM(n)>>
RECURSIVE PrintInOrder(_, _)
PrintInOrder(heap, n) ==
    LET node == heap[n]
        Part(c) == IF c = Null THEN <<>>
                   ELSE IF isNeedDivision(heap, n) THEN InBraces(InBrackets(PrintInOrder(heap, c))) ELSE PrintInOrder(heap, c)
        left == IF IsFictiveZero(node.op) THEN <<>> ELSE Part(node.left)
        right == Part(node.right)
        sign == CASE node.type = "NUM_T" -> Digits(node.num) [] node.type = "VAR_T" -> <<Leaf(node)>>
                  [] OTHER -> <<OpToken(node.op)>>
    IN InBraces(IF node.op = "DIV" THEN <<OpToken("\\frac")>> \o InBraces(left) \o InBraces(right)
                ELSE left \o sign \o right)

Printed(x, n) ==
    IF x.err # "" THEN x
    ELSE IF HasFreed(x.heap, n) THEN Fail(x, "freed")
    ELSE IF LacksChild(x.heap, n) THEN Fail(x, "null")
    ELSE [x EXCEPT !.out = Append(@, [tokens |-> PrintInOrder(x.heap, n), term |-> Term(x.heap, n)])]

\* PrintBranch, one operator for each mode.
PrintOrigin(x, n) == IF n = Null THEN Fail(x, "assert") ELSE Printed(x, n)
PrintDerivative(x, n) ==
    IF x.err # "" THEN x
    ELSE IF x.phrases = PhraseCount THEN Fail(x, "phrases")
    ELSE SimplifyAll(Printed([x EXCEPT !.phrases = @ + 1], n), n)
PrintResult(x, n) == IF n = Null THEN Fail(x, "assert") ELSE Printed(SimplifyTree(x, n).x, n)

-----------------------------------------------------------------------------
(* GetDerivative: the tree to build for an operation.                      *)

DL == [k |-> "D", side |-> "left"]
DR == [k |-> "D", side |-> "right"]
CL == [k |-> "C", side |-> "left"]
CR == [k |-> "C", side |-> "right"]
DIGIT(n) == [k |-> "digit", n |-> n]
Nothing == [k |-> "nothing"]
Op(op, l, r) == [k |-> "op", op |-> op, l |-> l, r |-> r]

\* Mutant: the terms of the numerator are swapped.
QuotientSwapped == Op("DIV", Op("SUB", Op("MUL", CL, DR), Op("MUL", DL, CR)), Op("MUL", CR, CR))
QuotientRule == Op("DIV", Op("SUB", Op("MUL", DL, CR), Op("MUL", CL, DR)), Op("MUL", CR, CR))
Rule(op, power) ==
    CASE op = "ADD" -> Op("ADD", DL, DR)
      [] op = "SUB" -> Op("SUB", DL, DR)
      [] op = "MUL" -> Op("ADD", Op("MUL", DL, CR), Op("MUL", CL, DR))
      [] op = "DIV" -> QuotientRule
      [] op = "SIN" -> Op("MUL", Op("COS", Nothing, CR), DR)
      [] op = "COS" -> Op("MUL", Op("MUL", DIGIT(-1), Op("SIN", Nothing, CR)), DR)
      [] op = "LN" -> Op("MUL", Op("DIV", DIGIT(1), CR), DR)
      [] op = "TG" -> Op("MUL", Op("DIV", DIGIT(1), Op("POW", Op("COS", Nothing, CR), DIGIT(2))), DR)
      [] op = "CTG" -> Op("MUL", Op("MUL", Op("DIV", DIGIT(1), Op("POW", Op("SIN", Nothing, CR), DIGIT(2))), DR), DIGIT(-1))
      [] op = "POW" -> Op("MUL", Op("MUL", DIGIT(power), Op("POW", CL, DIGIT(power - 1))), DL)

RECURSIVE GetDerivative(_, _), Build(_, _, _)
\* x.leftFirst: the order in which the compiler evaluates arguments.
Build(x, n, t) ==
    IF t.k = "nothing" THEN Result(x, Null)
    ELSE IF t.k = "digit" THEN CreateNode(x, NUM(t.n))
    ELSE IF t.k = "D" THEN GetDerivative(x, x.heap[n][t.side])
    ELSE IF t.k = "C" THEN CopyNode(x, x.heap[n][t.side])
    ELSE LET fst == Build(x, n, IF x.leftFirst THEN t.l ELSE t.r)
             snd == Build(fst.x, n, IF x.leftFirst THEN t.r ELSE t.l)
         IN IF x.leftFirst THEN CreateNode(snd.x, OP(t.op, fst.id, snd.id)) ELSE CreateNode(snd.x, OP(t.op, snd.id, fst.id))

\* A power that is not a number has no derivative: the tree lacks a child.
GetDerivative(x, n) ==
    IF n = Null \/ x.err # "" THEN Result(Fail(x, "assert"), Null)
    ELSE LET node == x.heap[n]
         IN CASE node.freed -> Result(Fail(x, "freed"), Null)
              [] ~node.freed /\ node.type = "NUM_T" -> CreateNode(x, NUM(0))
              [] ~node.freed /\ node.type = "VAR_T" -> CreateNode(x, NUM(1))
              [] OTHER ->
                 LET right == IF node.right = Null THEN NUM(0) ELSE x.heap[node.right]
                 IN IF node.op = "POW" /\ node.right = Null THEN Result(Fail(x, "null"), Null)
                    ELSE IF node.op = "POW" /\ right.freed THEN Result(Fail(x, "freed"), Null)
                    ELSE IF node.op = "POW" /\ right.type # "NUM_T" THEN Result(x, Null)
                    ELSE LET b == Build(x, n, Rule(node.op, right.num))
                         IN IF b.x.tex THEN Result(PrintDerivative(b.x, b.id), b.id) ELSE b
=============================================================================
