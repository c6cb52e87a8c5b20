----------------------------- MODULE JirInlining -----------------------------
(***************************************************************************)
(* Inlining (optimization/Inlining.cpp) and the copy of the callee's graph *)
(* it splices in (ir/GraphCopyHelper.cpp).  A call names its target by the *)
(* address of a graph; copies are registered as functions of their own.    *)
(***************************************************************************)
EXTENDS JirPasses

CreateNewGraph(h) == [h EXCEPT !.gr = Append(@, EmptyGraph)]
GetFunction(h, id) == IF id \in DOMAIN h.gr THEN id ELSE Null

-----------------------------------------------------------------------------
(* Copy.  st = [h, block, instr]: the heap and what each original became.  *)

\* Copy() of an instruction: opcode, type and immediates, no inputs yet.
Blank(I) ==
    Instruction(I.op, I.ty, I.imm, I.cc,
                IF I.op \in {"CALL", "PHI"} THEN <<>> ELSE [n \in DOMAIN I.inputs |-> Null], <<>>)

copyInstruction(st, b, i) ==
    LET c == FreshIns(st.h)
    IN [st EXCEPT !.h = PushBack([@ EXCEPT !.ins = Append(@, Blank(@[i]))], b, c), !.instr[i] = c]

CopyBlock(st, k, b) ==
    LET n == FreshBlock(st.h)
        start == [st EXCEPT !.h = CreateEmptyBasicBlock(@, k, FALSE), !.block[b] = n]
        done == FoldLeft(LAMBDA acc, i : copyInstruction(acc, n, i), start, Iterate(st.h, b))
    IN [done EXCEPT !.h = Require(@, st.h.bb[b].count # 0 => @.bb[n].firstInst # Null, @)]

markEnds(h, source, k, b, n) ==
    LET first == IF b = h.gr[source].first THEN SetFirstBasicBlock(h, k, n) ELSE h
    IN IF b = h.gr[source].last THEN SetLastBasicBlock(first, k, n) ELSE first

RECURSIVE dfoCopy(_, _, _, _), copySuccessors(_, _, _, _)
copySuccessors(st, source, k, b) ==
    LET n == st.block[b]
        Visit(acc, s) ==
            LET seen == IF acc.block[s] # Null THEN acc ELSE dfoCopy(acc, source, k, s)
            IN [seen EXCEPT !.h = Connect(@, k, n, seen.block[s])]
    IN FoldLeft(Visit, [st EXCEPT !.h = markEnds(@, source, k, b, n)], st.h.bb[b].succs)
dfoCopy(st, source, k, b) == copySuccessors(CopyBlock(st, k, b), source, k, b)

\* The copies take the copies of the original inputs and of the phis' sources.
fixDFG(st, source, k) ==
    LET ToCopy(x) == IF x = Null THEN Null ELSE st.instr[x]
        Input(acc, i, n) ==
            LET c == st.instr[i]
                x == ToCopy(acc.ins[i].inputs[n])
            IN Require(acc, x # Null,
                CASE Op(acc, i) = "CALL" -> AddInput(acc, c, x)
                  [] Op(acc, i) = "PHI" -> AddPhiInput(acc, c, x, st.block[acc.ins[i].srcs[n]])
                  [] OTHER -> SetInput(acc, c, n, x))
        Fix(acc, c) ==
            LET i == PosOf(st.instr, c)
            IN FoldLeft(LAMBDA a, n : Input(a, i, n), acc, [n \in DOMAIN acc.ins[i].inputs |-> n])
    IN FoldLeft(Fix, st.h, InstructionsOf(st.h, LinkedBlocks(st.h, k)))

copied(st, source, k) ==
    Require(st.h, /\ GetBasicBlocksCount(st.h, k) = GetBasicBlocksCount(st.h, source)
                  /\ CountInstructions(st.h, k) = Cardinality({i \in DOMAIN st.instr : st.instr[i] # Null}),
            fixDFG(st, source, k))
CopyGraph(h, source) ==
    LET k == Len(h.gr) + 1
    IN copied(dfoCopy([h |-> CreateNewGraph(h), block |-> Nowhere(h), instr |-> [i \in DOMAIN h.ins |-> Null]],
                      source, k, h.gr[source].first), source, k)

-----------------------------------------------------------------------------
(* Inlining of a call of graph k; c is the copy of the callee.             *)

canInlineFunction(h, k, call) ==
    LET callee == GetFunction(h, h.ins[call].imm)
        size == CountInstructions(h, callee)
    IN /\ callee # Null
       /\ size < MaxCalleeInstrs
       /\ CountInstructions(h, k) + size < MaxInstrsAfterInlining

\* Arguments are matched by position with the first instructions of the callee.
propagateArguments(h, call, c) ==
    LET args == h.ins[call].inputs
        params == ListFrom(h, h.bb[FirstOf(h, c)].firstInst)
    IN Require(h, Len(args) <= Len(params) /\ \A n \in DOMAIN args : Op(h, params[n]) = "ARG",
        FoldLeft(LAMBDA acc, n : ReplaceInputInUsers(acc, params[n], args[n]), h, [n \in DOMAIN args |-> n]))

\* The returned values in the order of the last block's predecessors.
Returns(h, c) == [n \in DOMAIN h.bb[h.gr[c].last].preds |-> h.bb[h.bb[h.gr[c].last].preds[n]].lastInst]
AllEndWith(h, c, op) == \A n \in DOMAIN Returns(h, c) : Returns(h, c)[n] # Null /\ Op(h, Returns(h, c)[n]) = op
UnlinkReturns(h, c) == FoldLeft(LAMBDA acc, r : UnlinkInstruction(acc, acc.ins[r].bb, r), h, Returns(h, c))

propagateReturnValue(h, call, c, post) ==
    LET rets == Returns(h, c)
        preds == h.bb[h.gr[c].last].preds
        value(n) == h.ins[rets[n]].inputs[1]
        freed == FoldLeft(LAMBDA acc, n : RemoveUser(acc, value(n), rets[n]), h, [n \in DOMAIN rets |-> n])
        phi == FreshIns(h)
        made == FoldLeft(LAMBDA acc, n : AddPhiInput(acc, phi, value(n), preds[n]),
                         Create(UnlinkReturns(freed, c), Instruction("PHI", h.ins[call].ty, 0, "EQ", <<>>, <<>>)),
                         [n \in DOMAIN rets |-> n])
    IN Require(h, rets # <<>>,
        IF h.ins[call].ty = "VOID" THEN Require(h, AllEndWith(h, c, "RETVOID"), UnlinkReturns(h, c))
        ELSE Require(h, AllEndWith(h, c, "RET"),
            IF Len(rets) = 1 THEN ReplaceInputInUsers(UnlinkReturns(freed, c), call, value(1))
            ELSE ReplaceInputInUsers(PushForward(made, post, phi), call, phi)))

\* From the last instruction of the callee's first block backwards.
moveConstants(h, k, c) ==
    LET s == Reverse(Iterate(h, FirstOf(h, c)))
        others == {n \in DOMAIN s : ~IsConst(h, s[n])}
        consts == IF others = {} THEN s ELSE SubSeq(s, 1, (CHOOSE n \in others : \A m \in others : n <= m) - 1)
    IN FoldLeft(LAMBDA acc, i : MoveConstantUnsafe(acc, FirstOf(h, k), i), h, consts)

removeFirstBlock(h, c) ==
    LET first == FirstOf(h, c)
        s == h.bb[first].succs[1]
    IN Require(h, Len(h.bb[first].succs) = 1,
        [SetFirstBasicBlock(UnlinkBasicBlock(h, c, first), c, s) EXCEPT !.bb[s].preds = <<>>])

relinkBasicBlocks(h, k, c) ==
    FoldLeft(LAMBDA acc, b : AddBasicBlock(acc, k, b), h,
             SelectSeq(LinkedBlocks(h, c), LAMBDA b : b # h.gr[c].last))

inlineReadyGraph(h, k, c, b, post) ==
    LET ready == removeFirstBlock(moveConstants(h, k, c), c)
        joined == Connect(relinkBasicBlocks(ready, k, c), k, b, FirstOf(ready, c))
        last == h.gr[c].last
        Leave(acc, p) == AddPredecessor(ReplaceSuccessor(acc, p, last, post), post, p)
    IN Require(joined, joined.bb[last].count = 0 /\ joined.bb[last].preds # <<>>,
               FoldLeft(Leave, joined, joined.bb[last].preds))

doInlining(h, k, call, c) ==
    LET b == h.ins[call].bb
        post == FreshBlock(h)
    IN Then(SplitAfterInstruction(h, b, call, FALSE), LAMBDA split :
        Then(propagateArguments(split, call, c), LAMBDA passed :
         Then(propagateReturnValue(passed, call, c, post), LAMBDA returned :
          Then(UnlinkInstruction(RemoveUserFromInputs(returned, call), b, call), LAMBDA removed :
           inlineReadyGraph(removed, k, c, b, post)))))

postInlining(h, k) ==
    Then(RunChecker(h, k), LAMBDA checked :
        RunChecker(EmptyBlocksRemoval(SetInvalid(checked, k, {"DOM_TREE", "LOOP_ANALYSIS", "RPO"}), k), k))

\* What follows an inlined call has moved to another block, so its block is done.
RECURSIVE InlineFrom(_, _, _)
InlineFrom(h, k, i) ==
    IF i = Null \/ h.failed THEN h
    ELSE IF Op(h, i) = "CALL" /\ canInlineFunction(h, k, i)
         THEN Then(CopyGraph(h, h.ins[i].imm), LAMBDA copy :
               Then(doInlining(copy, k, i, Len(h.gr) + 1), LAMBDA done : postInlining(done, k)))
         ELSE InlineFrom(h, k, h.ins[i].next)

InliningPass(h, k) ==
    Then(RunRPO(h, k), LAMBDA g :
        IF CountInstructions(g, k) >= MaxInstrsAfterInlining THEN g
        ELSE FoldLeft(LAMBDA acc, b : InlineFrom(acc, k, Begin(acc, b)), g, g.gr[k].rpo))
=============================================================================
