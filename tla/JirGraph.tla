------------------------------ MODULE JirGraph ------------------------------
(***************************************************************************)
(* The intermediate representation of the JIT compiler (ir/): instructions *)
(* with inputs and users, basic blocks that hold them in an intrusive      *)
(* list, and graphs of blocks.  Everything the code reaches by a pointer   *)
(* lives in a heap                                                         *)
(*    [ins, bb, gr, lp, failed]                                            *)
(* of sequences of instructions, blocks, graphs and loops; an address is   *)
(* a position and Null is no position.  Every operation maps a heap to the *)
(* heap it leaves.  An ASSERT that does not hold makes the heap failed     *)
(* (the debug build aborts there) and no later operation changes it.       *)
(***************************************************************************)
EXTENDS Integers, Sequences, FiniteSets, SequencesExt

CONSTANTS
    \* Bits of a machine word; 64 in the code.
    Width,
    \* How many markers a graph can hand out at a time; 1 << BIT_LENGTH.
    MaxMarkers

ASSUME WidthAssumption == Width \in Nat \ {0} /\ MaxMarkers \in Nat

Null == 0
InvalidId == -1
Words == 0..(2^Width - 1)

Fail(h) == [h EXCEPT !.failed = TRUE]
Require(h, cond, next) == IF h.failed \/ ~cond THEN Fail(h) ELSE next
\* One operation after another.
Then(h, Do(_)) == IF h.failed THEN h ELSE Do(h)

PosOf(s, x) == SelectInSeq(s, LAMBDA y : y = x)
Has(s, x) == \E k \in DOMAIN s : s[k] = x
\* Overwrite the first x by the last item and shorten: order is not kept.
SwapOut(s, x) == Front([s EXCEPT ![PosOf(s, x)] = Last(s)])
Overwrite(s, x, y) == [s EXCEPT ![PosOf(s, x)] = y]

-----------------------------------------------------------------------------
(* Opcodes, types and properties.                                          *)

Checks == {"NULL_CHECK", "ZERO_CHECK", "NEGATIVE_CHECK", "BOUNDS_CHECK"}
Memory == {"LEN", "NEW_ARRAY", "LOAD_ARRAY", "LOAD_ARRAY_IMM", "LOAD_OBJECT", "STORE_ARRAY",
           "STORE_ARRAY_IMM", "STORE_OBJECT"}

HasInputsOp(op) ==
    op \notin {"CONST", "ARG", "JCMP", "JMP", "RETVOID", "NEW_ARRAY_IMM", "NEW_OBJECT"}

HasSideEffectsOp(op) ==
    \/ op \in {"DIV", "DIVI", "MOD", "MODI", "CALL", "CMP", "JCMP", "JMP", "RET", "RETVOID"}
    \/ op \in Memory \cup Checks \cup {"NEW_ARRAY_IMM", "NEW_OBJECT"}

IsIntegerType(ty) == ty \in {"I64", "U64"}
\* The largest signed number for the signed type, all ones for the unsigned.
GetMaxValue(ty) ==
    CASE ty = "I64" -> 2^(Width - 1) - 1
      [] ty = "U64" -> 2^Width - 1
      [] OTHER -> 0
ToSigned(v) == IF v < 2^(Width - 1) THEN v ELSE v - 2^Width

inverseCondCode(cc) ==
    CASE cc = "EQ" -> "NE" [] cc = "NE" -> "EQ" [] cc = "LT" -> "GT"
      [] cc = "LE" -> "GE" [] cc = "GE" -> "LE" [] cc = "GT" -> "LT"

\* LE and GT are unreachable in the code's compare.
compare(cc, l, r) ==
    CASE cc = "EQ" -> l = r [] cc = "NE" -> l # r [] cc = "LT" -> l < r [] cc = "GE" -> l >= r

-----------------------------------------------------------------------------
(* Instructions, inputs and users.                                         *)

Instruction(op, ty, imm, cc, inputs, srcs) ==
    [op |-> op, ty |-> ty, imm |-> imm, cc |-> cc, inputs |-> inputs, srcs |-> srcs,
     users |-> <<>>, prev |-> Null, next |-> Null, bb |-> Null, lin |-> Null]

FreshIns(h) == Len(h.ins) + 1

AddUser(h, i, user) == [h EXCEPT !.ins[i].users = Append(@, user)]

RemoveUser(h, i, user) ==
    Require(h, Has(h.ins[i].users, user), [h EXCEPT !.ins[i].users = SwapOut(@, user)])

ReplaceUser(h, i, old, new) ==
    Require(h, Has(h.ins[i].users, old), [h EXCEPT !.ins[i].users = Overwrite(@, old, new)])

\* The constructors: the new instruction becomes a user of each input it is given.
Create(h, instr) ==
    FoldLeft(LAMBDA acc, x : IF x = Null THEN acc ELSE AddUser(acc, x, FreshIns(h)),
             [h EXCEPT !.ins = Append(@, instr)], instr.inputs)

CreateCONST(h, ty, v) == Create(h, Instruction("CONST", ty, v % 2^Width, "EQ", <<>>, <<>>))
CreateUnary(h, op, ty, x) == Create(h, Instruction(op, ty, 0, "EQ", <<x>>, <<>>))
CreateBinary(h, op, ty, x, y) == Create(h, Instruction(op, ty, 0, "EQ", <<x, y>>, <<>>))

SetInput(h, i, idx, x) == AddUser([h EXCEPT !.ins[i].inputs[idx] = x], x, i)
AddInput(h, i, x) == AddUser([h EXCEPT !.ins[i].inputs = Append(@, x)], x, i)
ReplaceInput(h, i, old, new) ==
    Require(h, Has(h.ins[i].inputs, old), [h EXCEPT !.ins[i].inputs = Overwrite(@, old, new)])

RemoveUserFromInputs(h, i) ==
    FoldLeft(LAMBDA acc, x : RemoveUser(acc, x, i), h, h.ins[i].inputs)

\* Every user of i takes the new input instead; i keeps its list of users.
ReplaceInputInUsers(h, i, new) ==
    LET users == h.ins[i].users
        added == [h EXCEPT !.ins[new].users = @ \o users]
    IN FoldLeft(LAMBDA acc, u : Require(acc, HasInputsOp(acc.ins[u].op), ReplaceInput(acc, u, i, new)),
                Require(h, TRUE, added), users)

AddPhiInput(h, phi, x, b) == [AddInput(h, phi, x) EXCEPT !.ins[phi].srcs = Append(@, b)]

\* The users of the dropped input are left alone.
RemovePhiInput(h, phi, b) ==
    LET idx == PosOf(h.ins[phi].srcs, b)
        Drop(s) == Front([s EXCEPT ![idx] = Last(s)])
    IN Require(h, idx # 0, [h EXCEPT !.ins[phi].srcs = Drop(@), !.ins[phi].inputs = Drop(@)])

ReplaceSourceBasicBlock(h, phi, old, new) ==
    Require(h, Has(h.ins[phi].srcs, old), [h EXCEPT !.ins[phi].srcs = Overwrite(@, old, new)])

InverseCompare(h, cmp) ==
    [h EXCEPT !.ins[cmp].cc = inverseCondCode(@), !.ins[cmp].inputs = <<@[2], @[1]>>]

-----------------------------------------------------------------------------
(* Basic blocks: the list of instructions.                                 *)

EmptyBlock(k) ==
    [id |-> InvalidId, preds |-> <<>>, succs |-> <<>>, count |-> 0, firstPhi |-> Null,
     lastPhi |-> Null, firstInst |-> Null, lastInst |-> Null, dominator |-> Null,
     dominated |-> <<>>, loop |-> Null, gr |-> k]

SetPrev(h, i, v) == IF i = Null THEN h ELSE [h EXCEPT !.ins[i].prev = v]
SetNext(h, i, v) == IF i = Null THEN h ELSE [h EXCEPT !.ins[i].next = v]
Tie(h, i, j) == SetPrev(SetNext(h, i, j), j, i)

RECURSIVE ListFrom(_, _)
ListFrom(h, i) == IF i = Null THEN <<>> ELSE <<i>> \o ListFrom(h, h.ins[i].next)
Begin(h, b) == IF h.bb[b].firstPhi # Null THEN h.bb[b].firstPhi ELSE h.bb[b].firstInst
\* begin() .. end(), IteratePhi() and IterateNonPhi().
Iterate(h, b) == ListFrom(h, Begin(h, b))
RECURSIVE PhisFrom(_, _)
PhisFrom(h, i) ==
    IF i = Null \/ h.ins[i].op # "PHI" THEN <<>> ELSE <<i>> \o PhisFrom(h, h.ins[i].next)
IteratePhi(h, b) == IF h.bb[b].firstPhi = Null THEN <<>> ELSE PhisFrom(h, h.bb[b].firstPhi)
IterateNonPhi(h, b) == ListFrom(h, h.bb[b].firstInst)

\* A phi goes to the front of the phis.
pushPhi(h, b, i) ==
    LET B == h.bb[b]
    IN IF B.firstPhi = Null
       THEN [Tie(h, i, B.firstInst) EXCEPT !.bb[b].firstPhi = i, !.bb[b].lastPhi = i]
       ELSE [Tie(h, i, B.firstPhi) EXCEPT !.bb[b].firstPhi = i]

pushInstruction(h, b, i, back) ==
    LET B == h.bb[b]
        g == [h EXCEPT !.ins[i].bb = b, !.bb[b].count = @ + 1]
    IN Require(h, h.ins[i].bb = Null /\ h.ins[i].prev = Null,
        CASE h.ins[i].op = "PHI" -> pushPhi(g, b, i)
          [] h.ins[i].op # "PHI" /\ B.firstInst = Null ->
                [Tie(g, B.lastPhi, i) EXCEPT !.bb[b].firstInst = i, !.bb[b].lastInst = i]
          [] h.ins[i].op # "PHI" /\ B.firstInst # Null /\ back ->
                [Tie(g, B.lastInst, i) EXCEPT !.bb[b].lastInst = i]
          \* the last phi keeps pointing at the old first instruction
          [] OTHER -> [Tie(g, i, B.firstInst) EXCEPT !.bb[b].firstInst = i])

PushBack(h, b, i) == pushInstruction(h, b, i, TRUE)
PushForward(h, b, i) == pushInstruction(h, b, i, FALSE)

InsertBefore(h, b, before, i) ==
    LET prev == h.ins[before].prev
        g == Tie(Tie([h EXCEPT !.ins[i].bb = b, !.bb[b].count = @ + 1], prev, i), i, before)
    IN Require(h, /\ h.ins[i].bb = Null /\ h.ins[i].op # "PHI" /\ h.ins[before].bb = b
                  /\ prev = Null => before = h.bb[b].firstInst /\ h.bb[b].firstPhi = Null,
               IF prev = Null THEN [g EXCEPT !.bb[b].firstInst = i] ELSE g)

InsertAfter(h, b, after, i) ==
    LET next == h.ins[after].next
        g == Tie(Tie([h EXCEPT !.ins[i].bb = b, !.bb[b].count = @ + 1], i, next), after, i)
    IN Require(h, /\ h.ins[i].bb = Null /\ h.ins[i].op # "PHI" /\ h.ins[after].bb = b
                  /\ next = Null => h.bb[b].lastInst = after,
               IF next = Null THEN [g EXCEPT !.bb[b].lastInst = i] ELSE g)

UnlinkInstruction(h, b, i) ==
    LET B == h.bb[b]
        prev == h.ins[i].prev
        next == h.ins[i].next
        isPhi(j) == j # Null /\ h.ins[j].op = "PHI"
        g == [SetPrev(SetNext(h, prev, next), next, prev)
                EXCEPT !.ins[i].bb = Null, !.ins[i].prev = Null, !.ins[i].next = Null,
                       !.bb[b].count = @ - 1]
    IN Require(h, i # Null /\ h.ins[i].bb = b,
        CASE isPhi(i) /\ i = B.firstPhi /\ i = B.lastPhi ->
                [g EXCEPT !.bb[b].firstPhi = Null, !.bb[b].lastPhi = Null]
          [] isPhi(i) /\ i = B.firstPhi /\ i # B.lastPhi ->
                Require(h, isPhi(next), [g EXCEPT !.bb[b].firstPhi = next])
          [] isPhi(i) /\ i # B.firstPhi /\ i = B.lastPhi ->
                Require(h, isPhi(prev), [g EXCEPT !.bb[b].lastPhi = prev])
          [] isPhi(i) /\ i # B.firstPhi /\ i # B.lastPhi -> g
          [] OTHER ->
                [g EXCEPT !.bb[b].firstInst = IF @ = i THEN next ELSE @,
                          !.bb[b].lastInst = IF @ # i THEN @ ELSE IF isPhi(prev) THEN Null ELSE prev])

replaceInControlFlow(h, b, old, new) ==
    LET I == h.ins[old]
        g == CASE I.prev # Null -> InsertAfter(h, b, I.prev, new)
               [] I.prev = Null /\ I.next # Null -> InsertBefore(h, b, I.next, new)
               [] OTHER -> PushForward(h, b, new)
    IN Require(h, I.bb = b, UnlinkInstruction(g, b, old))

\* Users move to the new instruction; the inputs of the old one still list it.
ReplaceInstruction(h, b, old, new) ==
    replaceInControlFlow(ReplaceInputInUsers(h, old, new), b, old, new)

\* A constant of a callee is appended without leaving its own block and keeps its parent.
MoveConstantUnsafe(h, b, i) ==
    LET last == h.bb[b].lastInst
        g == [SetNext(Tie(h, last, i), i, Null)
                EXCEPT !.ins[i].prev = last, !.bb[b].lastInst = i, !.bb[b].count = @ + 1]
    IN Require(h, h.gr[h.bb[b].gr].first = b /\ h.ins[i].op = "CONST",
               IF last = Null THEN [g EXCEPT !.bb[b].firstInst = i] ELSE g)

EndsWithConditionalJump(h, b) ==
    LET last == h.bb[b].lastInst
    IN IF last = Null \/ h.ins[last].op # "JCMP" THEN Null ELSE h.ins[last].prev
\* The ASSERTs of endsWithConditionalJump.
JumpWellFormed(h, b) ==
    LET cmp == EndsWithConditionalJump(h, b)
        last == h.bb[b].lastInst
    IN (last # Null /\ h.ins[last].op = "JCMP")
        => Len(h.bb[b].succs) = 2 /\ cmp # Null /\ h.ins[cmp].op = "CMP"

InverseConditionalBranch(h, b) ==
    LET cmp == EndsWithConditionalJump(h, b)
    IN Require(h, JumpWellFormed(h, b) /\ cmp # Null,
               [InverseCompare(h, cmp) EXCEPT !.bb[b].succs = <<@[2], @[1]>>])

IsLoopHeader(h, b) == h.bb[b].loop # Null /\ h.lp[h.bb[b].loop].header = b

RECURSIVE BlockDominates(_, _, _)
BlockDominates(h, b, other) ==
    \/ other = b
    \/ h.bb[other].dominator # Null /\ BlockDominates(h, b, h.bb[other].dominator)

isEarlierInBasicBlock(h, i, j) ==
    LET s == Iterate(h, h.ins[i].bb) IN PosOf(s, i) < PosOf(s, j)

\* Mutant: other blocks are not asked.
InstrDominatesInBlock(h, i, j) ==
    i = j \/ (h.ins[j].bb = h.ins[i].bb /\ isEarlierInBasicBlock(h, i, j))
InstrDominates(h, i, j) ==
    \/ i = j
    \/ IF h.ins[j].bb = h.ins[i].bb THEN isEarlierInBasicBlock(h, i, j)
       ELSE BlockDominates(h, h.ins[i].bb, h.ins[j].bb)

-----------------------------------------------------------------------------
(* Basic blocks: edges.                                                    *)

AddPredecessor(h, b, p) ==
    Require(h, ~Has(h.bb[b].preds, p), [h EXCEPT !.bb[b].preds = Append(@, p)])
AddSuccessor(h, b, s) ==
    Require(h, Len(h.bb[b].succs) < 2 /\ ~Has(h.bb[b].succs, s), [h EXCEPT !.bb[b].succs = Append(@, s)])
RemovePredecessor(h, b, p) ==
    Require(h, Has(h.bb[b].preds, p), [h EXCEPT !.bb[b].preds = SwapOut(@, p)])
RemoveSuccessor(h, b, s) ==
    Require(h, Has(h.bb[b].succs, s), [h EXCEPT !.bb[b].succs = RemoveAt(@, PosOf(@, s))])
ReplaceSuccessor(h, b, old, new) ==
    Require(h, Has(h.bb[b].succs, old), [h EXCEPT !.bb[b].succs = Overwrite(@, old, new)])
ReplacePredecessor(h, b, old, new) ==
    Require(h, Has(h.bb[b].preds, old), [h EXCEPT !.bb[b].preds = Overwrite(@, old, new)])
RemoveDominatedBlock(h, b, d) ==
    Require(h, Has(h.bb[b].dominated, d), [h EXCEPT !.bb[b].dominated = SwapOut(@, d)])

-----------------------------------------------------------------------------
(* Graphs.                                                                 *)

Flags == {"DOM_TREE", "LOOP_ANALYSIS", "RPO", "LINEAR_ORDERING"}

EmptyGraph ==
    [bblocks |-> <<>>, unlinked |-> 0, first |-> Null, last |-> Null, valid |-> {}, rpo |-> <<>>,
     slots |-> {}, loopTree |-> Null, live |-> <<>>]

IsAnalysisValid(h, k, flag) == flag \in h.gr[k].valid
SetValid(h, k, flag, v) ==
    [h EXCEPT !.gr[k].valid = IF v THEN @ \cup {flag} ELSE @ \ {flag}]
\* Mutant: the order of blocks survives.
SetInvalidButOrder(h, k, flags) == [h EXCEPT !.gr[k].valid = @ \ (flags \ {"RPO"})]
SetInvalid(h, k, flags) == [h EXCEPT !.gr[k].valid = @ \ flags]
invalidateAfterChangedCFG(h, k) == SetInvalid(h, k, Flags)

LinkedBlocks(h, k) == SelectSeq(h.gr[k].bblocks, LAMBDA b : b # Null)
GetBasicBlocksCount(h, k) == Len(h.gr[k].bblocks) - h.gr[k].unlinked
CountInstructions(h, k) == FoldLeft(LAMBDA n, b : n + h.bb[b].count, 0, LinkedBlocks(h, k))

\* A marker is a slot of the graph that stays taken until it is released.
FreeSlots(h, k) == (0..(MaxMarkers - 1)) \ h.gr[k].slots
NewSlot(h, k) == CHOOSE s \in FreeSlots(h, k) : \A t \in FreeSlots(h, k) : s <= t
GetNewMarker(h, k) ==
    Require(h, FreeSlots(h, k) # {}, [h EXCEPT !.gr[k].slots = @ \cup {NewSlot(h, k)}])
ReleaseMarker(h, k, slot) == [h EXCEPT !.gr[k].slots = @ \ {slot}]

FreshBlock(h) == Len(h.bb) + 1

AddBasicBlock(h, k, b) ==
    invalidateAfterChangedCFG(
        [h EXCEPT !.bb[b].id = Len(h.gr[k].bblocks), !.bb[b].gr = k,
                  !.gr[k].bblocks = Append(@, b)], k)

Connect(h, k, l, r) ==
    invalidateAfterChangedCFG(AddPredecessor(AddSuccessor(h, l, r), r, l), k)

SetFirstBasicBlock(h, k, b) == invalidateAfterChangedCFG([h EXCEPT !.gr[k].first = b], k)
SetLastBasicBlock(h, k, b) == invalidateAfterChangedCFG([h EXCEPT !.gr[k].last = b], k)

NewBlock(h, k) == AddBasicBlock([h EXCEPT !.bb = Append(@, EmptyBlock(k))], k, FreshBlock(h))
\* CreateNewLastBlock, when there is none yet.
withLastBlock(h, k) ==
    IF h.gr[k].last # Null THEN h ELSE SetLastBasicBlock(NewBlock(h, k), k, FreshBlock(h))
CreateEmptyBasicBlock(h, k, isTerminal) ==
    LET toLast(g) == Connect(g, k, FreshBlock(h), g.gr[k].last)
        finish(g) == IF isTerminal THEN toLast(withLastBlock(g, k)) ELSE g
    IN finish(NewBlock(h, k))

\* Unlinking the phi ends the iteration, so with two predecessors only the first phi is resolved.
FixPHIAfterDisconnect(h, source, target) ==
    LET resolve(phi, idx) ==
            Require(h, Len(h.ins[phi].inputs) = 2 /\ idx # 0,
                UnlinkInstruction(ReplaceInputInUsers(h, phi, h.ins[phi].inputs[3 - idx]), target, phi))
        fix(count, phis) ==
            CASE count = 2 /\ phis # <<>> -> resolve(phis[1], PosOf(h.ins[phis[1]].srcs, source))
              [] count > 2 -> FoldLeft(LAMBDA acc, p : RemovePhiInput(acc, p, source), h, phis)
              [] OTHER -> h
    IN Require(h, Has(h.bb[target].preds, source), fix(Len(h.bb[target].preds), IteratePhi(h, target)))

Disconnect(h, k, l, r) ==
    invalidateAfterChangedCFG(
        RemovePredecessor(RemoveSuccessor(FixPHIAfterDisconnect(h, l, r), l, r), r, l), k)

InsertBetween(h, b, pred, succ) ==
    LET rename(g, phis) ==
            Require(g, phis # <<>> => Len(g.bb[succ].preds) > 1,
                    FoldLeft(LAMBDA acc, p : ReplaceSourceBasicBlock(acc, p, pred, b), g, phis))
    IN rename(AddSuccessor(ReplacePredecessor(AddPredecessor(
                ReplaceSuccessor(h, pred, succ, b), b, pred), succ, pred, b), b, succ), IteratePhi(h, succ))

\* The new block is not entered in bblocks.
AddBasicBlockBefore(h, k, before, b) ==
    LET Move(acc, p) == AddPredecessor(AddSuccessor(RemoveSuccessor(acc, p, before), p, b), b, p)
        moved == FoldLeft(Move, [h EXCEPT !.bb[b].gr = k], h.bb[before].preds)
        g == AddSuccessor(AddPredecessor([moved EXCEPT !.bb[before].preds = <<>>], before, b), b, before)
    IN Require(h, h.bb[before].gr = k /\ h.bb[b].preds = <<>> /\ h.bb[b].succs = <<>>,
               invalidateAfterChangedCFG(g, k))

UnlinkBasicBlockRaw(h, k, b) ==
    LET id == h.bb[b].id
    IN Require(h, h.bb[b].gr = k /\ id # InvalidId /\ h.gr[k].bblocks[id + 1] = b,
        invalidateAfterChangedCFG(
            [h EXCEPT !.gr[k].bblocks[id + 1] = Null, !.gr[k].unlinked = @ + 1,
                      !.bb[b].id = InvalidId, !.bb[b].gr = Null], k))

removePredecessors(h, b) ==
    [FoldLeft(LAMBDA acc, p : RemoveSuccessor(acc, p, b), h, h.bb[b].preds) EXCEPT !.bb[b].preds = <<>>]
removeSuccessors(h, b) ==
    [FoldLeft(LAMBDA acc, s : RemovePredecessor(FixPHIAfterDisconnect(acc, b, s), s, b), h, h.bb[b].succs)
        EXCEPT !.bb[b].succs = <<>>]

UnlinkBasicBlock(h, k, b) ==
    LET g == UnlinkBasicBlockRaw(h, k, b)
        detached == /\ \A p \in Range(h.bb[b].preds) : ~Has(h.bb[p].succs, b)
                    /\ \A s \in Range(h.bb[b].succs) : ~Has(h.bb[s].preds, b)
    IN IF b # h.gr[k].last THEN Require(g, TRUE, removeSuccessors(removePredecessors(g, b), b))
       ELSE Require(g, detached, [g EXCEPT !.bb[b].preds = <<>>, !.bb[b].succs = <<>>])

joinLoop(h, b, n) ==
    IF h.bb[b].loop = Null THEN h
    ELSE [h EXCEPT !.lp[h.bb[b].loop].blocks = Append(@, n), !.bb[n].loop = h.bb[b].loop]
moveSuccessors(h, k, b, n) ==
    [FoldLeft(LAMBDA acc, s : Connect(RemovePredecessor(acc, s, b), k, n, s), h, h.bb[b].succs)
        EXCEPT !.bb[b].succs = <<>>]
\* What follows i in block b goes to block n.
moveInstructions(h, b, i, n) ==
    LET next == h.ins[i].next
        moved == ListFrom(h, next)
        cut == FoldLeft(LAMBDA acc, j : [acc EXCEPT !.ins[j].bb = n],
                        [h EXCEPT !.ins[i].next = Null, !.ins[next].prev = Null,
                                  !.bb[n].count = Len(moved), !.bb[b].count = @ - Len(moved)], moved)
        B == h.bb[b]
    IN IF h.ins[next].op = "PHI"
       THEN Require(cut, h.ins[i].op = "PHI",
                [cut EXCEPT !.bb[n].firstPhi = next, !.bb[n].lastPhi = B.lastPhi, !.bb[b].lastPhi = i,
                            !.bb[n].firstInst = B.firstInst, !.bb[n].lastInst = B.lastInst,
                            !.bb[b].firstInst = Null, !.bb[b].lastInst = Null])
       ELSE [cut EXCEPT !.bb[n].firstInst = next, !.bb[n].lastInst = B.lastInst, !.bb[b].lastInst = i]

\* With connectAfterSplit the new block is its own successor when the loop over
\* the successors meets the edge just added.
SplitAfterInstruction(h, b, i, connectAfterSplit) ==
    LET n == FreshBlock(h)
        k == h.bb[b].gr
        new == CreateEmptyBasicBlock(h, k, FALSE)
        joined == IF connectAfterSplit THEN Connect(new, k, b, n) ELSE new
    IN Require(h, h.ins[i].bb = b /\ h.ins[i].next # Null,
               moveInstructions(moveSuccessors(joinLoop(joined, b, n), k, b, n), b, i, n))
=============================================================================
