------------------------------ MODULE JirPasses ------------------------------
(***************************************************************************)
(* The optimisation passes of the JIT compiler (optimization/): peepholes  *)
(* with constant folding, dead code, redundant checks, decided branches,   *)
(* empty blocks, and inlining with the graph copy it needs.                *)
(***************************************************************************)
EXTENDS JirAnalysis, Bitwise

CONSTANTS
    \* Options of the compiler (GetMaxCalleeInstrs, GetMaxInstrsAfterInlining).
    MaxCalleeInstrs, MaxInstrsAfterInlining

ASSUME InliningAssumption == MaxCalleeInstrs < MaxInstrsAfterInlining

Op(h, i) == h.ins[i].op
IsConst(h, i) == Op(h, i) = "CONST"
ValueOf(h, i) == h.ins[i].imm
UsersCount(h, i) == Len(h.ins[i].users)
FirstOf(h, k) == h.gr[k].first

-----------------------------------------------------------------------------
(* Constant folding.                                                       *)

\* Mutant: the constant goes in front of the arguments.
ReplaceWithConstInFront(h, i, c) ==
    LET b == h.ins[i].bb
    IN PushForward(UnlinkInstruction(ReplaceInputInUsers(h, i, c), b, i), FirstOf(h, h.bb[b].gr), c)
ReplaceWithConst(h, i, c) ==
    LET b == h.ins[i].bb
        k == h.bb[b].gr
    IN PushBack(UnlinkInstruction(ReplaceInputInUsers(h, i, c), b, i), FirstOf(h, k), c)

FoldInto(h, i, v) ==
    LET I == h.ins[i]
        c == CreateCONST(h, I.ty, v)
    IN ReplaceWithConst(RemoveUser(RemoveUser(c, I.inputs[1], i), I.inputs[2], i), i, FreshIns(h))

ShiftRight(v, n) == (ToSigned(v) \div 2^n) % 2^Width

-----------------------------------------------------------------------------
(* Peepholes.  Each rewrites instruction i or leaves the heap as it is.    *)

replaceWithoutNewInstr(h, i, x) ==
    LET I == h.ins[i]
        g == UnlinkInstruction(ReplaceInputInUsers(h, i, x), I.bb, i)
    IN RemoveUser(RemoveUser(g, I.inputs[1], i), I.inputs[2], i)

\* x & 0 and x & ones, the constant being `checked'.
ConstantANDApplies(h, i, checked) ==
    IsConst(h, checked) /\ ValueOf(h, checked) \in {0, GetMaxValue(h.ins[i].ty)}
tryConstantAND(h, i, checked, second) ==
    Require(h, h.ins[checked].ty = h.ins[i].ty,
            replaceWithoutNewInstr(h, i, IF ValueOf(h, checked) = 0 THEN checked ELSE second))

\* ~a & ~b becomes ~(a | b); the new OR is entered twice in the users of a and b.
tryANDAfterNOT(h, i, x, y) ==
    LET I == h.ins[i]
        a == h.ins[x].inputs[1]
        b == h.ins[y].inputs[1]
        or == FreshIns(h)
        made == CreateBinary(h, "OR", I.ty, a, b)
        swapped == ReplaceUser(ReplaceUser(made, a, x, or), b, y, or)
        cut == UnlinkInstruction(UnlinkInstruction(swapped, I.bb, x), I.bb, y)
        not == CreateUnary(InsertBefore(cut, I.bb, i, or), "NOT", I.ty, or)
        noted == RemoveUser(RemoveUser(AddUser(not, or, or + 1), x, i), y, i)
    IN Require(cut, TRUE, ReplaceInstruction(noted, I.bb, i, or + 1))

ProcessAND(h, i) ==
    LET x == h.ins[i].inputs[1]
        y == h.ins[i].inputs[2]
        bothNot == /\ Op(h, x) = "NOT" /\ Op(h, y) = "NOT"
                   /\ UsersCount(h, x) = 1 /\ UsersCount(h, y) = 1
    IN IF IsConst(h, x) /\ IsConst(h, y) THEN FoldInto(h, i, ValueOf(h, x) & ValueOf(h, y))
       ELSE IF x = y THEN replaceWithoutNewInstr(h, i, x)
       ELSE IF bothNot THEN tryANDAfterNOT(h, i, x, y)
       ELSE IF ConstantANDApplies(h, i, x) THEN tryConstantAND(h, i, x, y)
       ELSE IF ConstantANDApplies(h, i, y) THEN tryConstantAND(h, i, y, x)
       ELSE h

ProcessSRA(h, i) ==
    LET x == h.ins[i].inputs[1]
        y == h.ins[i].inputs[2]
        zero(j) == IsConst(h, j) /\ ValueOf(h, j) = 0
    IN IF IsConst(h, x) /\ IsConst(h, y) THEN FoldInto(h, i, ShiftRight(ValueOf(h, x), ValueOf(h, y)))
       ELSE IF zero(x) \/ zero(y) THEN replaceWithoutNewInstr(h, i, x)
       ELSE h

\* The inputs of v - v keep listing it.
trySUBRepeatedArgs(h, i) == ReplaceWithConst(CreateCONST(h, h.ins[i].ty, 0), i, FreshIns(h))

\* 0 - y; the negation is entered twice in the users of y.
subFromZero(h, i, x, y) ==
    LET neg == FreshIns(h)
        made == RemoveUser(CreateUnary(h, "NEG", h.ins[y].ty, y), x, i)
    IN ReplaceInstruction(ReplaceUser(made, y, i, neg), h.ins[i].bb, i, neg)

\* (c + z) - z and (z + c) - z for a register or an immediate c.
Other(h, sum, z) ==
    LET s == h.ins[sum].inputs IN IF s[1] = z THEN s[2] ELSE IF s[2] = z THEN s[1] ELSE Null
IsSumOf(h, sum, z) ==
    \/ Op(h, sum) = "ADD" /\ Other(h, sum, z) # Null
    \/ Op(h, sum) = "ADDI" /\ h.ins[sum].inputs[1] = z

\* An immediate becomes a constant and only the sum forgets the user i.
sumToConst(h, i, sum, v) ==
    ReplaceWithConst(RemoveUser(CreateCONST(h, h.ins[i].ty, v), sum, i), i, FreshIns(h))

subFromSum(h, i, sum, z) ==
    IF Op(h, sum) = "ADD" THEN replaceWithoutNewInstr(h, i, Other(h, sum, z))
    ELSE sumToConst(h, i, sum, ValueOf(h, sum))

sumFromPart(h, i, z, sum) ==
    LET c == Other(h, sum, z)
        neg == FreshIns(h)
        made == AddUser(CreateUnary(h, "NEG", h.ins[i].ty, c), c, neg)
    IN IF Op(h, sum) = "ADDI" THEN sumToConst(h, i, sum, -ValueOf(h, sum))
       ELSE ReplaceInstruction(RemoveUser(RemoveUser(made, z, i), sum, i), h.ins[i].bb, i, neg)

\* x - (-a) becomes a + x; the sum is entered twice in the users of a and x.
trySUBAfterNEG(h, i, x, y) ==
    LET a == h.ins[y].inputs[1]
        sum == FreshIns(h)
        made == AddUser(CreateBinary(h, "ADD", h.ins[i].ty, a, x), a, sum)
        put == ReplaceInstruction(made, h.ins[i].bb, i, sum)
    IN Require(put, TRUE, ReplaceUser(RemoveUser(put, y, i), x, i, sum))

ProcessSUB(h, i) ==
    LET x == h.ins[i].inputs[1]
        y == h.ins[i].inputs[2]
        zero(j) == IsConst(h, j) /\ ValueOf(h, j) = 0
    IN IF IsConst(h, x) /\ IsConst(h, y) THEN FoldInto(h, i, ValueOf(h, x) - ValueOf(h, y))
       ELSE IF x = y THEN trySUBRepeatedArgs(h, i)
       ELSE IF zero(x) THEN subFromZero(h, i, x, y)
       ELSE IF zero(y) THEN replaceWithoutNewInstr(h, i, x)
       ELSE IF IsSumOf(h, x, y) THEN subFromSum(h, i, x, y)
       ELSE IF IsSumOf(h, y, x) THEN sumFromPart(h, i, x, y)
       ELSE IF Op(h, y) = "NEG" THEN trySUBAfterNEG(h, i, x, y)
       ELSE h

\* The loop over a block ends once the current instruction is unlinked.
RECURSIVE PeepholeFrom(_, _)
PeepholeFrom(h, i) ==
    IF i = Null \/ h.failed THEN h
    ELSE Then(CASE Op(h, i) = "AND" -> ProcessAND(h, i)
                [] Op(h, i) = "SRA" -> ProcessSRA(h, i)
                [] Op(h, i) = "SUB" -> ProcessSUB(h, i)
                [] OTHER -> h,
              LAMBDA g : PeepholeFrom(g, g.ins[i].next))

Peephole(h, k) ==
    Then(RunRPO(h, k), LAMBDA g :
        FoldLeft(LAMBDA acc, b : PeepholeFrom(acc, Begin(acc, b)), g, g.gr[k].rpo))

-----------------------------------------------------------------------------
(* Dead code.                                                              *)

RECURSIVE AliveFrom(_, _)
AliveFrom(h, live) ==
    LET more == live \cup UNION {Range(h.ins[i].inputs) : i \in live}
    IN IF more = live THEN live ELSE AliveFrom(h, more)

InstructionsOf(h, blocks) == FoldLeft(LAMBDA acc, b : acc \o Iterate(h, b), <<>>, blocks)

\* The marker is never released and users are not told.
DCE(h, k) ==
    LET g == RunRPO(GetNewMarker(h, k), k)
        all == InstructionsOf(g, g.gr[k].rpo)
        live == AliveFrom(g, {i \in Range(all) : HasSideEffectsOp(Op(g, i))})
    IN Require(g, TRUE,
        FoldLeft(LAMBDA acc, i : UnlinkInstruction(acc, acc.ins[i].bb, i), g,
                 SelectSeq(all, LAMBDA i : i \notin live)))

-----------------------------------------------------------------------------
(* Redundant checks.                                                       *)

CheckedValue(h, check) == h.ins[check].inputs[1]

\* A user unlinked earlier is still listed and has no block to ask.
RemoveDominatedChecks(h, check) ==
    LET I == h.ins[check]
        same(g, u) == I.op # "BOUNDS_CHECK" \/ g.ins[u].inputs[2] = I.inputs[2]
        Try(g, u) ==
            IF u = check \/ Op(g, u) # I.op THEN g
            ELSE Require(g, g.ins[u].bb # Null,
                    IF InstrDominates(g, check, u) /\ same(g, u)
                    THEN UnlinkInstruction(g, g.ins[u].bb, u) ELSE g)
    IN FoldLeft(Try, h, h.ins[CheckedValue(h, check)].users)

tryRemoveCheck(h, i) ==
    LET ty == h.ins[CheckedValue(h, i)].ty
    IN CASE Op(h, i) \in {"NULL_CHECK", "BOUNDS_CHECK"} ->
                Require(h, ty = "REF", RemoveDominatedChecks(h, i))
         [] Op(h, i) \in {"ZERO_CHECK", "NEGATIVE_CHECK"} ->
                Require(h, IsIntegerType(ty), RemoveDominatedChecks(h, i))
         [] OTHER -> h

RECURSIVE CheckFrom(_, _)
CheckFrom(h, i) ==
    IF i = Null \/ h.failed THEN h
    ELSE Then(tryRemoveCheck(h, i), LAMBDA g : CheckFrom(g, g.ins[i].next))

CheckElimination(h, k) ==
    Then(RunDomTree(RunRPO(h, k), k), LAMBDA g :
        LET done == FoldLeft(LAMBDA acc, b : CheckFrom(acc, acc.bb[b].firstInst), g, g.gr[k].rpo)
        IN IF done.ins = g.ins THEN done ELSE RunChecker(done, k))

-----------------------------------------------------------------------------
(* Decided branches.                                                       *)

evaluateComparison(h, cmp) ==
    LET x == h.ins[cmp].inputs[1]
        y == h.ins[cmp].inputs[2]
        answer(v) == IF v THEN "TRUE" ELSE "FALSE"
    IN IF x = y THEN answer(h.ins[cmp].cc \in {"GE", "EQ"})
       ELSE IF IsConst(h, x) /\ IsConst(h, y)
            THEN answer(compare(h.ins[cmp].cc, ValueOf(h, x), ValueOf(h, y)))
       ELSE "UNDEFINED"

\* Mutant: the edge that is taken is removed.
removeTakenEdge(h, k, cmp, res) ==
    LET jcmp == h.ins[cmp].next
        b == h.ins[jcmp].bb
        target == h.bb[b].succs[IF res = "TRUE" THEN 1 ELSE 2]
    IN Disconnect(UnlinkInstruction(UnlinkInstruction(h, b, jcmp), b, cmp), k, b, target)
removeEdge(h, k, cmp, res) ==
    LET jcmp == h.ins[cmp].next
        b == h.ins[jcmp].bb
        target == h.bb[b].succs[IF res = "TRUE" THEN 2 ELSE 1]
    IN Disconnect(UnlinkInstruction(UnlinkInstruction(h, b, jcmp), b, cmp), k, b, target)

DecidedBlock(h, b) ==
    LET cmp == EndsWithConditionalJump(h, b) IN cmp # Null /\ evaluateComparison(h, cmp) # "UNDEFINED"

propagateConstsInCond(h, k) ==
    LET Step(acc, b) ==
            LET cmp == EndsWithConditionalJump(acc, b)
            IN Require(acc, JumpWellFormed(acc, b),
                IF DecidedBlock(acc, b) THEN removeEdge(acc, k, cmp, evaluateComparison(acc, cmp)) ELSE acc)
    IN FoldLeft(Step, h, LinkedBlocks(h, k))

removeUnreachable(h, k, b, live, fixDomTree) ==
    LET Cut(acc, s) == IF s \in live THEN Disconnect(acc, k, b, s) ELSE acc
        g == FoldLeft(Cut, h, h.bb[b].succs)
        d == g.bb[b].dominator
        fixed == IF ~fixDomTree THEN g
                 ELSE Require(g, d # Null, IF d \in live THEN RemoveDominatedBlock(g, d, b) ELSE g)
    IN Require(h, Range(h.bb[b].preds) \cap live = {}, UnlinkBasicBlockRaw(fixed, k, b))

\* The dominator tree is declared valid again if it was before the edges went.
removeUnreachableBlocks(h, k, domTreeValid) ==
    LET out == PostOrder(h, k)
        live == Range(out)
        marked == GetNewMarker([h EXCEPT !.gr[k].rpo = Reverse(out)], k)
    IN Require(h, Cardinality(FreeSlots(h, k)) >= 2 /\ Len(out) < GetBasicBlocksCount(h, k),
        Then(RunChecker(FoldLeft(LAMBDA acc, b : removeUnreachable(acc, k, b, live, domTreeValid), marked,
                                 SelectSeq(LinkedBlocks(h, k), LAMBDA b : b \notin live)), k), LAMBDA checked :
            ReleaseMarker([SetInvalid(checked, k, {"LOOP_ANALYSIS"})
                    EXCEPT !.gr[k].valid = @ \cup {"RPO"} \cup (IF domTreeValid THEN {"DOM_TREE"} ELSE {})],
                k, NewSlot(h, k))))
BranchElimination(h, k) ==
    LET cut == propagateConstsInCond(h, k)
    IN IF \E b \in Range(LinkedBlocks(h, k)) : DecidedBlock(h, b)
       THEN removeUnreachableBlocks(cut, k, IsAnalysisValid(h, k, "DOM_TREE")) ELSE cut

-----------------------------------------------------------------------------
(* Empty blocks.                                                           *)

RemoveIfEmpty(h, k, b) ==
    LET B == h.bb[b]
        s == B.succs[1]
        freed == RemovePredecessor(h, s, b)
        phis == IteratePhi(h, s)
        relinked == IF phis = <<>> THEN freed
                    ELSE Require(freed, Len(B.preds) = 1,
                        FoldLeft(LAMBDA acc, p : ReplaceSourceBasicBlock(acc, p, b, B.preds[1]), freed, phis))
        Forget(acc, p) ==
            LET jcmp == acc.bb[p].lastInst
                cmp == acc.ins[jcmp].prev
                cut == Require(acc, Op(acc, jcmp) = "JCMP" /\ Op(acc, cmp) = "CMP",
                               UnlinkInstruction(UnlinkInstruction(acc, p, jcmp), p, cmp))
            IN RemoveSuccessor(IF Len(acc.bb[p].succs) = 2 THEN cut ELSE acc, p, b)
        Redirect(acc, p) == ReplaceSuccessor(AddPredecessor(acc, s, p), p, b, s)
        done == IF B.succs = <<>> THEN FoldLeft(Forget, h, B.preds)
                ELSE FoldLeft(Redirect, relinked, B.preds)
    IN IF B.count # 0 \/ b \in {h.gr[k].first, h.gr[k].last} THEN h
       ELSE Require(h, Len(B.succs) <= 1,
                UnlinkBasicBlock([done EXCEPT !.bb[b].preds = <<>>, !.bb[b].succs = <<>>], k, b))

EmptyBlocksRemoval(h, k) ==
    LET g == FoldLeft(LAMBDA acc, b : IF acc.failed THEN acc ELSE RemoveIfEmpty(acc, k, b), h,
                      LinkedBlocks(h, k))
    IN IF g.gr[k].unlinked = h.gr[k].unlinked THEN g
       ELSE SetInvalid(g, k, {"DOM_TREE", "LOOP_ANALYSIS", "RPO"})
=============================================================================
