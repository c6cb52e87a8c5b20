----------------------------- MODULE JirRegAlloc -----------------------------
(***************************************************************************)
(* Liveness analysis and register allocation on a graph                    *)
(* (analysis/LivenessAnalyzer.cpp, ir/LiveAnalysisStructs, codegen/): the  *)
(* instructions are numbered in the linear order, each value gets the      *)
(* ranges of numbers where it is live, the intervals are scanned for       *)
(* registers and stack slots, and moves are put on the edges that lead to  *)
(* phis.  The scan itself is the subject of LinearScan; here it is one     *)
(* pass over the intervals a graph really has.                             *)
(*                                                                         *)
(* gr[k].live is the sequence LiveIntervals of [ins, num, ranges, loc] and *)
(* ins[i].lin the place of an instruction in it; ranges are kept with the  *)
(* earliest one last.                                                      *)
(***************************************************************************)
EXTENDS JirAnalysis

CONSTANTS RegsCount, MaxSlots

ASSUME RegsAssumption == RegsCount \in 1..31 /\ MaxSlots \in Nat

Step == 2
LiveRange(begin, end) == [begin |-> begin, end |-> end]
Invalid == [type |-> "INVALID", id |-> 0]
Placed(type, id) == [type |-> type, id |-> id]

\* The ASSERTs of GetLiveIntervals.
HasInterval(h, k, i) ==
    h.ins[i].lin \in DOMAIN h.gr[k].live /\ h.gr[k].live[h.ins[i].lin].ins = i
Interval(h, k, i) == h.gr[k].live[h.ins[i].lin]

\* A move has no number of its own (INVALID_RANGE, -1 here).
AddLiveInterval(h, k, num, i, loc) ==
    [h EXCEPT !.ins[i].lin = Len(h.gr[k].live) + 1,
              !.gr[k].live = Append(@, [ins |-> i, num |-> num, ranges |-> <<>>, loc |-> loc])]
SetRanges(h, k, i, ranges) == [h EXCEPT !.gr[k].live[h.ins[i].lin].ranges = ranges]

SetBegin(h, k, i, begin) ==
    LET r == Interval(h, k, i).ranges
    IN IF ~HasInterval(h, k, i) THEN Fail(h)
       ELSE IF r = <<>> THEN SetRanges(h, k, i, <<LiveRange(begin, begin + Step)>>)
       ELSE Require(h, begin < Last(r).end, SetRanges(h, k, i, [r EXCEPT ![Len(r)].begin = begin]))

\* A range in front of the earliest joins it when they touch; any other must lie inside it.
AddRange(h, k, i, rng) ==
    LET r == Interval(h, k, i).ranges
        earliest == Last(r)
    IN IF ~HasInterval(h, k, i) THEN Fail(h)
       ELSE IF r # <<>> /\ rng.end = earliest.begin
            THEN SetRanges(h, k, i, [r EXCEPT ![Len(r)].begin = rng.begin])
       ELSE IF r = <<>> \/ rng.end < earliest.begin THEN SetRanges(h, k, i, Append(r, rng))
       ELSE Require(h, earliest.begin <= rng.begin /\ rng.end <= earliest.end, h)

-----------------------------------------------------------------------------
(* Numbers.  st = [h, begin, of]: the range of each block.                 *)

\* Phis have the number where their block begins.
orderInstructions(st, k, b) ==
    LET phis == IteratePhi(st.h, b)
        rest == IterateNonPhi(st.h, b)
        end == st.begin + Step * (Len(rest) + 1)
        numbered == FoldLeft(LAMBDA acc, i : AddLiveInterval(acc, k, st.begin, i, Invalid), st.h, phis)
        all == FoldLeft(LAMBDA acc, n : AddLiveInterval(acc, k, st.begin + Step * n, rest[n], Invalid),
                        numbered, [n \in DOMAIN rest |-> n])
    IN [h |-> all, begin |-> end, of |-> Append(st.of, LiveRange(st.begin, end))]

-----------------------------------------------------------------------------
(* Ranges, from the last block to the first.  st = [h, liveIn].            *)

\* Mutant: the values that phis take along the edges are forgotten.
LiveOutWithoutPhis(st, b) == UNION {st.liveIn[s] : s \in Range(st.h.bb[b].succs)}
\* A successor that is not visited yet, as the header of a loop, adds nothing.
calculateInitialLiveSet(st, b) ==
    LET taken(phi) == st.h.ins[phi].inputs[PosOf(st.h.ins[phi].srcs, b)]
        of(s) == st.liveIn[s] \cup {taken(phi) : phi \in Range(IteratePhi(st.h, s))}
    IN UNION {of(s) : s \in Range(st.h.bb[b].succs)}

\* One instruction, backwards: what it defines is dead above it, what it reads is live.
processInstruction(st, k, b, begin, i) ==
    LET num == Interval(st.h, k, i).num
        inputs == st.h.ins[i].inputs
        g == FoldLeft(LAMBDA acc, x : AddRange(acc, k, x, LiveRange(begin, num)),
                      Require(st.h, TRUE, SetBegin(st.h, k, i, num)), inputs)
    IN [h |-> g, liveIn |-> [st.liveIn EXCEPT ![b] = (@ \ {i}) \cup Range(inputs)]]

\* At a loop header nothing more is done.
calculateLiveRanges(st, k, b, rng) ==
    LET out == calculateInitialLiveSet(st, b)
        through == FoldLeft(LAMBDA acc, x : AddRange(acc, k, x, rng), st.h, SetToSeq(out))
        done == FoldLeft(LAMBDA acc, i : processInstruction(acc, k, b, rng.begin, i),
                         [h |-> through, liveIn |-> [st.liveIn EXCEPT ![b] = out]],
                         Reverse(IterateNonPhi(st.h, b)))
    IN [done EXCEPT !.liveIn[b] = @ \ Range(IteratePhi(st.h, b))]

calculateLiveness(g, k) ==
    LET blocks == LinkedBlocks(g, k)
        numbered == FoldLeft(LAMBDA acc, b : orderInstructions(acc, k, b),
                             [h |-> [g EXCEPT !.gr[k].live = <<>>], begin |-> 0, of |-> <<>>], blocks)
        Visit(acc, n) == IF acc.h.failed THEN acc ELSE calculateLiveRanges(acc, k, blocks[n], numbered.of[n])
    IN FoldLeft(Visit, [h |-> numbered.h, liveIn |-> [b \in DOMAIN g.bb |-> {}]],
                Reverse([n \in DOMAIN blocks |-> n])).h

RunLiveness(h, k) == Then(RunLinearOrdering(RunLoops(h, k), k), LAMBDA g : calculateLiveness(g, k))

-----------------------------------------------------------------------------
(* The scan.  st = [live, active, free, slots, failed]; intervals by place. *)

HullBegin(st, n) == IF st.live[n].ranges = <<>> THEN 0 ELSE Last(st.live[n].ranges).begin
HullEnd(st, n) == IF st.live[n].ranges = <<>> THEN 0 ELSE st.live[n].ranges[1].end

\* Mutant: an interval expires where the new one ends.
OutlivesEnd(st, m, n) == HullEnd(st, m) > HullEnd(st, n)
Outlives(st, m, n) == HullEnd(st, m) > HullBegin(st, n)

expireOldIntervals(st, n) ==
    LET stays(m) == Outlives(st, m, n)
        first == SelectInSeq(st.active, stays)
        gone == IF first = 0 THEN Len(st.active) ELSE first - 1
    IN [st EXCEPT !.active = SubSeq(@, gone + 1, Len(@)),
                  !.free = @ \cup {st.live[st.active[j]].loc.id : j \in 1..gone}]

spillAtInterval(st, n) ==
    LET spilled == Last(st.active)
        slot == Placed("STACK", st.slots)
    IN IF st.active = <<>> \/ st.slots = MaxSlots THEN [st EXCEPT !.failed = TRUE]
       ELSE IF HullEnd(st, spilled) < HullEnd(st, n)
            THEN [st EXCEPT !.live[n].loc = slot, !.slots = @ + 1]
       ELSE [st EXCEPT !.live[n].loc = st.live[spilled].loc, !.live[spilled].loc = slot,
                       !.slots = @ + 1, !.active = Front(@)]

assignToReg(st, n) ==
    LET reg == CHOOSE r \in st.free : \A q \in st.free : r <= q
        later(m) == HullEnd(st, n) <= HullEnd(st, m)
        pos == SelectInSeq(st.active, later)
    IN [st EXCEPT !.live[n].loc = Placed("REGISTER", reg), !.free = @ \ {reg},
                  !.active = InsertAt(@, IF pos = 0 THEN Len(@) + 1 ELSE pos, n)]

allocateAndAssignRegs(h, k) ==
    LET Visit(st, n) ==
            LET e == expireOldIntervals(st, n)
            IN IF st.failed THEN st ELSE IF e.free = {} THEN spillAtInterval(e, n) ELSE assignToReg(e, n)
        done == FoldLeft(Visit, [live |-> h.gr[k].live, active |-> <<>>, free |-> 0..(RegsCount - 1),
                                 slots |-> 0, failed |-> FALSE], Reverse([n \in DOMAIN h.gr[k].live |-> n]))
    IN Require(h, ~done.failed, [h EXCEPT !.gr[k].live = done.live])

-----------------------------------------------------------------------------
(* Moves on the edges to phis.  st = [h, into, fresh].                     *)

isCriticalEdge(h, b, pred) == Len(h.bb[b].preds) > 1 /\ Len(h.bb[pred].succs) > 1

\* The sources of all phis of the block are renamed at once.
breakCriticalEdge(h, k, b, pred) ==
    LoopAddBlock(InsertBetween(CreateEmptyBasicBlock(h, k, FALSE), FreshBlock(h), pred, b),
                 h.bb[pred].loop, FreshBlock(h))

\* The move takes the place of the input of phi at idx; it has the location of the phi.
insertMove(h, k, into, phi, idx, input) ==
    LET move == FreshIns(h)
        made == PushBack(CreateUnary(h, "MOVE", h.ins[input].ty, input), into, move)
    IN Then(RemoveUser(SetInput(made, phi, idx, move), input, phi), LAMBDA g :
            AddLiveInterval(g, k, -1, move, Interval(h, k, phi).loc))

resolvePhi(st, k, b, pred, phi) ==
    LET h == st.h
        idx == PosOf(h.ins[phi].srcs, pred)
        input == h.ins[phi].inputs[idx]
        moved(g, into) == [h |-> insertMove(g, k, into, phi, idx, input), into |-> into,
                           fresh |-> st.fresh \/ st.into = Null]
    IN IF h.failed \/ idx = 0 THEN [st EXCEPT !.h = Fail(h)]
       ELSE IF Interval(h, k, input).loc = Interval(h, k, phi).loc THEN st
       ELSE IF st.into # Null THEN moved(h, st.into)
       ELSE moved(breakCriticalEdge(h, k, b, pred), FreshBlock(h))

\* A critical edge gets its block with the first move on it.
resolveEdge(st, k, b, pred) ==
    FoldLeft(LAMBDA acc, phi : resolvePhi(acc, k, b, pred, phi),
             [st EXCEPT !.into = IF isCriticalEdge(st.h, b, pred) THEN Null ELSE pred],
             IteratePhi(st.h, b))
resolvePhis(st, k, b) ==
    IF IteratePhi(st.h, b) = <<>> THEN st
    ELSE FoldLeft(LAMBDA acc, pred : IF acc.h.failed THEN acc ELSE resolveEdge(acc, k, b, pred),
                  [st EXCEPT !.h = Require(@, Len(@.bb[b].preds) > 1, @)], st.h.bb[b].preds)

\* The walk goes over the array of blocks while new ones are appended to it: once the array has
\* moved, what the walk finds behind the old one decides whether it ends.
walked(st, k, walkEnds) ==
    IF st.h.failed \/ (st.fresh /\ ~walkEnds) THEN Fail(st.h)
    ELSE IF st.fresh THEN SetInvalid(st.h, k, {"DOM_TREE", "RPO", "LINEAR_ORDERING"})
    ELSE st.h
fixPhis(h, k, walkEnds) ==
    walked(FoldLeft(LAMBDA acc, b : resolvePhis(acc, k, b), [h |-> h, into |-> Null, fresh |-> FALSE],
                    LinkedBlocks(h, k)), k, walkEnds)

RegAllocCheckerHolds(h, k) ==
    \A b \in Range(LinkedBlocks(h, k)) : \A phi \in Range(IteratePhi(h, b)) :
        /\ VerifyPhiBasicBlocks(h, phi) /\ HasInterval(h, k, phi)
        /\ \A x \in Range(h.ins[phi].inputs) :
                HasInterval(h, k, x) /\ Interval(h, k, x).loc = Interval(h, k, phi).loc

RunRegAllocChecker(h, k) == Require(h, RegAllocCheckerHolds(h, k), h)

RunRegAlloc(h, k, walkEnds) ==
    Then(RunLiveness(h, k), LAMBDA live :
        Then(allocateAndAssignRegs(live, k), LAMBDA placed :
            RunRegAllocChecker(fixPhis(placed, k, walkEnds), k)))
=============================================================================
