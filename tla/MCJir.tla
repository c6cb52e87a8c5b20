-------------------------------- MODULE MCJir --------------------------------
(* Functions built with the operations of the builder, for the passes and for the analyses. *)
EXTENDS JirCompiler

MCArguments == {<<0, 1>>, <<1, 3>>, <<3, 0>>, <<2, 2>>}

-----------------------------------------------------------------------------
(* A body lists, block by block, the instructions and the successors; inputs are numbers of  *)
(* instructions of the body, sources numbers of blocks.                                     *)
I(op, imm, cc, inputs, srcs) ==
    Instruction(op, "U64", imm, cc, inputs, srcs)
Arg(n) == I("ARG", n, "EQ", <<>>, <<>>)
Const(v) == I("CONST", v, "EQ", <<>>, <<>>)
Un(op, x) == I(op, 0, "EQ", <<x>>, <<>>)
Bin(op, x, y) == I(op, 0, "EQ", <<x, y>>, <<>>)
Imm(op, x, v) == I(op, v, "EQ", <<x>>, <<>>)
Cmp(cc, x, y) == I("CMP", 0, cc, <<x, y>>, <<>>)
Jcmp == I("JCMP", 0, "EQ", <<>>, <<>>)
Phi(xs, bs) == I("PHI", 0, "EQ", xs, bs)
Ret(x) == I("RET", 0, "EQ", <<x>>, <<>>)
RetVoid == I("RETVOID", 0, "EQ", <<>>, <<>>)
Call(k, xs) == I("CALL", k, "EQ", xs, <<>>)
CallVoid(k, xs) == [Call(k, xs) EXCEPT !.ty = "VOID"]
Ref(i) == [i EXCEPT !.ty = "REF"]

B(instrs, succs) == [instrs |-> instrs, succs |-> succs]

EmptyHeap == [ins |-> <<>>, bb |-> <<>>, gr |-> <<>>, lp |-> <<>>, failed |-> FALSE]

\* The numbers of the lists of at most two items that name x, in order.
Slot(j) == <<(j + 1) \div 2, 2 - (j % 2)>>
Naming(lists, x) ==
    LET named(j) == Slot(j)[2] \in DOMAIN lists[Slot(j)[1]] /\ lists[Slot(j)[1]][Slot(j)[2]] = x
        js == SelectSeq([j \in 1..(2 * Len(lists)) |-> j], named)
    IN [n \in DOMAIN js |-> Slot(js[n])[1]]

\* What the builder leaves of a body: blocks created in order, edges connected and instructions
\* pushed in order.  The last block of the body is the last block of the graph.
AddFunction(h, body) ==
    LET k == Len(h.gr) + 1
        b0 == Len(h.bb)
        i0 == Len(h.ins)
        Off(base, s) == [n \in DOMAIN s |-> base + s[n]]
        In(acc, b) == acc \o [n \in DOMAIN body[b].instrs |-> [body[b].instrs[n] EXCEPT !.bb = b]]
        all == FoldLeft(In, <<>>, [b \in DOMAIN body |-> b])
        of(b) == SelectSeq([n \in DOMAIN all |-> n], LAMBDA n : all[n].bb = b)
        phis(b) == SelectSeq(of(b), LAMBDA n : all[n].op = "PHI")
        rest(b) == SelectSeq(of(b), LAMBDA n : all[n].op # "PHI")
        first(s) == IF s = <<>> THEN Null ELSE i0 + s[1]
        last(s) == IF s = <<>> THEN Null ELSE i0 + s[Len(s)]
        near(n, m) == IF m \in DOMAIN all /\ all[m].bb = all[n].bb THEN i0 + m ELSE Null
        inputs == [n \in DOMAIN all |-> all[n].inputs]
        succs == [b \in DOMAIN body |-> body[b].succs]
    IN [h EXCEPT
        !.gr = Append(@, [EmptyGraph EXCEPT !.bblocks = Off(b0, [b \in DOMAIN body |-> b]),
                                            !.first = b0 + 1, !.last = b0 + Len(body)]),
        !.bb = @ \o [b \in DOMAIN body |->
            [EmptyBlock(k) EXCEPT !.id = b - 1, !.succs = Off(b0, succs[b]), !.preds = Off(b0, Naming(succs, b)),
                                  !.count = Len(of(b)), !.firstPhi = first(phis(b)), !.lastPhi = last(phis(b)),
                                  !.firstInst = first(rest(b)), !.lastInst = last(rest(b))]],
        !.ins = @ \o [n \in DOMAIN all |->
            [all[n] EXCEPT !.bb = b0 + @, !.inputs = Off(i0, @), !.srcs = Off(b0, @),
                           !.users = Off(i0, Naming(inputs, n)), !.prev = near(n, n - 1), !.next = near(n, n + 1)]]]

Program(bodies) == FoldLeft(AddFunction, EmptyHeap, bodies)

-----------------------------------------------------------------------------
(* Straight code: every peephole, alone and behind another.                 *)

EntryOf(consts) == B(<<Arg(1), Arg(2)>> \o [n \in DOMAIN consts |-> Const(consts[n])], <<2>>)
Straight(first, second, third) ==
    Program(<< <<EntryOf(<<0, 3, 2>>), B(<<first, second, third, Ret(8)>>, <<3>>), B(<<>>, <<>>)>> >>)

Pairs == {<<Un("NOT", 1), Un("NOT", 2)>>, <<Un("NEG", 1), Un("NEG", 6)>>, <<Bin("ADD", 1, 2), Un("NEG", 6)>>,
          <<Imm("ADDI", 1, 1), Bin("AND", 6, 4)>>, <<Bin("SUB", 1, 3), Un("NOT", 2)>>}
Thirds == {Bin(op, x, y) : op \in {"AND", "SUB", "SRA"}, x \in {1, 3, 5, 6}, y \in {1, 3, 4, 7}}
StraightPrograms == {Straight(p[1], p[2], c) : p \in Pairs, c \in Thirds}

-----------------------------------------------------------------------------
(* Branches, loops and checks.                                             *)

Diamond(cmp, t, f) ==
    Program(<< <<EntryOf(<<0, 3>>), B(<<cmp, Jcmp>>, <<3, 4>>), B(t, <<5>>), B(f, <<5>>),
                 B(<<Phi(<<7, 8>>, <<3, 4>>), Ret(9)>>, <<6>>), B(<<>>, <<>>)>> >>)
Diamonds == {Diamond(cmp, <<Imm("ADDI", 1, 1)>>, <<Bin("SUB", 1, 2)>>) :
                cmp \in {Cmp(cc, x, y) : cc \in {"EQ", "NE"}, x \in {1, 3}, y \in {1, 4}}}

Loop(cc) ==
    Program(<< <<EntryOf(<<0, 1>>),
                 B(<<Phi(<<3, 8>>, <<1, 3>>), Cmp(cc, 5, 1), Jcmp>>, IF cc = "EQ" THEN <<4, 3>> ELSE <<3, 4>>),
                 B(<<Bin("ADD", 5, 4)>>, <<2>>), B(<<Ret(5)>>, <<5>>), B(<<>>, <<>>)>> >>)

\* Checks of the two arguments in an order where some are repeated on every path.
CheckOf(op, x, y) == IF op = "BOUNDS_CHECK" THEN Bin(op, x, y) ELSE Un(op, x)
Checked(op, x, y) ==
    LET args == IF op \in {"NULL_CHECK", "BOUNDS_CHECK"} THEN <<Ref(Arg(1)), Ref(Arg(2))>> ELSE <<Arg(1), Arg(2)>>
    IN Program(<< <<B(args, <<2>>), B(<<CheckOf(op, x, y), Cmp("EQ", 1, 2), Jcmp>>, <<3, 4>>),
                    B(<<CheckOf(op, 1, 2), CheckOf(op, 1, 2)>>, <<5>>), B(<<CheckOf(op, 2, 1)>>, <<5>>),
                    B(<<CheckOf(op, 1, 2), CheckOf(op, 2, 1), Ret(1)>>, <<6>>), B(<<>>, <<>>)>> >>)
\* A check on the arm that a decided branch leaves, and again behind it.
DecidedChecks ==
    Program(<< <<EntryOf(<<0>>), B(<<Cmp("EQ", 3, 3), Jcmp>>, <<3, 4>>), B(<<Un("ZERO_CHECK", 1)>>, <<5>>),
                 B(<<Bin("SUB", 1, 2)>>, <<5>>), B(<<Un("ZERO_CHECK", 1), Ret(1)>>, <<6>>), B(<<>>, <<>>)>> >>)
\* One check on an arm and one behind both arms, each made before.
CheckedOnce(op) ==
    Program(<< <<B(<<Arg(1), Arg(2)>>, <<2>>), B(<<CheckOf(op, 1, 2), Cmp("EQ", 1, 2), Jcmp>>, <<3, 4>>),
                 B(<<CheckOf(op, 1, 2)>>, <<5>>), B(<<CheckOf(op, 2, 1)>>, <<5>>),
                 B(<<CheckOf(op, 1, 2), Ret(1)>>, <<6>>), B(<<>>, <<>>)>> >>)
CheckPrograms == {DecidedChecks, CheckedOnce("ZERO_CHECK"), CheckedOnce("NEGATIVE_CHECK")} \cup {Checked(op, x, y) : op \in Checks, x \in {1, 2}, y \in {1, 2}}

\* Callees: one result, two results, none.
Twice == <<B(<<Arg(1), Const(1)>>, <<2>>), B(<<Bin("ADD", 1, 1), Bin("SUB", 3, 2), Ret(4)>>, <<3>>), B(<<>>, <<>>)>>
Larger == <<B(<<Arg(1), Arg(2)>>, <<2>>), B(<<Cmp("LT", 1, 2), Jcmp>>, <<3, 4>>),
            B(<<Imm("ADDI", 2, 1), Ret(5)>>, <<5>>), B(<<Ret(1)>>, <<5>>), B(<<>>, <<>>)>>
Once == <<B(<<Arg(1)>>, <<2>>), B(<<Bin("ADD", 1, 1), Ret(2)>>, <<3>>), B(<<>>, <<>>)>>
Note == <<B(<<Arg(1)>>, <<2>>), B(<<Call(9, <<1>>), RetVoid>>, <<3>>), B(<<>>, <<>>)>>
Callers ==
    {Program(<< <<EntryOf(<<1>>), B(<<Call(2, <<1>>), Bin("SUB", 4, 2), Ret(5)>>, <<3>>), B(<<>>, <<>>)>>, Twice>>),
     Program(<< <<EntryOf(<<>>), B(<<Call(2, <<1, 2>>), Ret(3)>>, <<3>>), B(<<>>, <<>>)>>, Larger>>),
     Program(<< <<EntryOf(<<>>), B(<<Call(2, <<1>>), Call(2, <<3>>), Ret(4)>>, <<3>>), B(<<>>, <<>>)>>, Once>>),
     Program(<< <<EntryOf(<<1>>), B(<<Call(2, <<1, 3>>), Call(2, <<4, 2>>), Ret(5)>>, <<3>>), B(<<>>, <<>>)>>, Larger>>),
     Program(<< <<EntryOf(<<1>>), B(<<CallVoid(2, <<1>>), Call(9, <<2>>), Ret(5)>>, <<3>>), B(<<>>, <<>>)>>, Note>>)}

\* Empty blocks on one and on both arms.
Empties == {Diamond(Cmp("EQ", 1, 2), <<Imm("ADDI", 1, 1)>>, <<Imm("ADDI", 2, 1)>>),
    Program(<< <<EntryOf(<<0>>), B(<<Cmp("NE", 1, 2), Jcmp>>, <<3, 4>>), B(<<>>, <<5>>), B(<<Call(9, <<1>>)>>, <<5>>),
                 B(<<>>, <<6>>), B(<<Ret(2)>>, <<7>>), B(<<>>, <<>>)>> >>)}

MCPrograms == Diamonds \cup StraightPrograms \cup CheckPrograms \cup Callers \cup Empties \cup {Loop("EQ"), Loop("NE")}

-----------------------------------------------------------------------------
(* Every graph of five blocks in which the first leads to the second, the last ends the       *)
(* function and all are reachable; each block tells its number and branches on the arguments. *)
Shape(succs) == <<B(<<Arg(1), Arg(2), Const(1), Const(2), Const(3), Const(0)>>, <<2>>)>>
    \o [n \in DOMAIN succs |->
            B(<<Call(9, <<2 + n>>)>> \o (IF Len(succs[n]) = 2 THEN <<Cmp("EQ", IF n = 2 THEN 1 ELSE 3, 2), Jcmp>> ELSE <<>>),
              succs[n])]
    \o <<B(<<>>, <<>>)>>
Targets(n) == {<<a>> : a \in 2..n} \cup ({<<a, b>> : a, b \in 2..n} \ {<<a, a>> : a \in 2..n})
\* Blocks are numbered in the order in which they are first named.
Canonical(succs) ==
    LET flat == <<2>> \o FoldLeft(LAMBDA acc, s : acc \o s, <<>>, succs)
        last == Len(succs) + 2
        at(b) == SelectInSeq(flat, LAMBDA x : x = b)
    IN /\ \A b \in 2..last : at(b) # 0
       /\ \A b, c \in 2..(last - 1) : b < c => at(b) < at(c)
ShapePrograms == {h \in {Program(<<Shape(s)>>) : s \in {s \in [1..3 -> Targets(5)] : Canonical(s)}} : GraphCheckerHolds(h, 1)}

\* Values that live across branches and around loops, for the allocator: an arm that is skipped,
\* two phis at the end of two arms, a loop with one phi and with two, and a phi nobody reads.
Skip(x, y) ==
    Program(<< <<EntryOf(<<0, 3>>), B(<<Imm("ADDI", 1, 1), Cmp("EQ", 5, 2), Jcmp>>, <<3, 4>>),
                 B(<<Bin("SUB", x, y)>>, <<4>>),
                 B(<<Phi(<<5, 8>>, <<2, 3>>), Bin("ADD", 9, x), Bin("SUB", 10, 5), Ret(11)>>, <<5>>), B(<<>>, <<>>)>> >>)
TwoPhis(x, y) ==
    Program(<< <<EntryOf(<<0, 3>>), B(<<Cmp("NE", 1, 2), Jcmp>>, <<3, 4>>),
                 B(<<Imm("ADDI", x, 1), Bin("SUB", y, 1)>>, <<5>>), B(<<Bin("ADD", 1, y)>>, <<5>>),
                 B(<<Phi(<<7, x>>, <<3, 4>>), Phi(<<8, 9>>, <<3, 4>>), Bin("SUB", 10, 11), Ret(12)>>, <<6>>), B(<<>>, <<>>)>> >>)
Around2(x, y, used) ==
    Program(<< <<EntryOf(<<0, 1>>),
                 B(<<Imm("ADDI", 2, 1)>>, <<3>>),
                 B(<<Phi(<<3, 10>>, <<2, 4>>), Phi(<<x, y>>, <<2, 4>>), Cmp("EQ", 6, 1), Jcmp>>, <<5, 4>>),
                 B(<<Bin("ADD", 6, 4)>>, <<3>>), B(<<Bin("ADD", IF used THEN 7 ELSE 6, 5), Ret(11)>>, <<6>>), B(<<>>, <<>>)>> >>)
\* Two loops that one block goes back to: the edge to the outer one gets a block with a jump.
Nested ==
    Program(<< <<EntryOf(<<0, 1>>), B(<<Imm("ADDI", 1, 1)>>, <<3>>),
                 B(<<Phi(<<3, 10>>, <<2, 5>>)>>, <<4>>),
                 B(<<Cmp("EQ", 6, 2), Jcmp>>, <<6, 5>>),
                 B(<<Call(9, <<6>>), Bin("ADD", 6, 4), Cmp("NE", 10, 1), Jcmp>>, <<4, 3>>),
                 B(<<Ret(6)>>, <<7>>), B(<<>>, <<>>)>> >>)
\* Two phis where a branch skips an arm.
SkipTwo ==
    Program(<< <<EntryOf(<<0, 3>>), B(<<Cmp("EQ", 1, 2), Jcmp>>, <<3, 4>>), B(<<Bin("SUB", 1, 2)>>, <<4>>),
                 B(<<Phi(<<1, 7>>, <<2, 3>>), Phi(<<2, 4>>, <<2, 3>>), Bin("ADD", 8, 9), Ret(10)>>, <<5>>), B(<<>>, <<>>)>> >>)
AllocPrograms == {Nested, SkipTwo} \cup
    Diamonds \cup {Loop("EQ"), Loop("NE")} \cup {Skip(x, y) : x, y \in {1, 2, 3, 4, 5}}
    \cup {TwoPhis(x, y) : x, y \in {1, 2, 3, 4}} \cup {Around2(x, y, u) : x \in {1, 2, 5}, y \in {1, 5, 7, 10, 6}, u \in BOOLEAN}

\* The six blocks on which a dominator is wrong, and the loop whose second phi takes the first.
CrossPrograms == {Program(<<Shape(<< <<3, 4>>, <<4, 5>>, <<5, 6>>, <<6>> >>)>>)}
SwapPrograms == {Around2(2, 6, TRUE)}
OrderPrograms == ShapePrograms \cup AllocPrograms
=============================================================================
