----------------------------- MODULE JirCompiler -----------------------------
(***************************************************************************)
(* A function of the compiler and the passes run on it, in any order and   *)
(* any number of times: PassManager::Run is called pass by pass and keeps  *)
(* no schedule of its own.  The function is graph 1 of the heap; the       *)
(* functions it calls are the graphs behind it.                            *)
(***************************************************************************)
EXTENDS JirInlining, JirRegAlloc, JirMeaning

CONSTANTS
    \* Heaps with the functions as the builder leaves them.
    Programs,
    \* The passes of this model and how many of them are run.
    Passes, MaxPasses,
    \* The arguments on which meanings are compared.
    Arguments

VARIABLES
    heap,       \* everything the compiler allocated
    source,     \* the heap before any pass
    steps       \* how many passes have run

vars == <<heap, source, steps>>

F == 1

Init == heap \in Programs /\ source = heap /\ steps = 0

\* A failed ASSERT ends the compiler.
Run(pass, result) ==
    /\ pass \in Passes /\ steps < MaxPasses /\ ~heap.failed
    /\ heap' = result
    /\ steps' = steps + 1
    /\ UNCHANGED source

DoDomTree == Run("DomTree", RunDomTree(heap, F))
DoLoops == Run("Loops", RunLoops(heap, F))
DoLinearOrdering == Run("LinearOrdering", RunLinearOrdering(heap, F))
DoLiveness == Run("Liveness", RunLiveness(heap, F))
DoRegAlloc == \E walkEnds \in BOOLEAN : Run("RegAlloc", RunRegAlloc(heap, F, walkEnds))
DoChecker == Run("Checker", RunChecker(heap, F))
DoPeephole == Run("Peephole", Peephole(heap, F))
DoDCE == Run("DCE", DCE(heap, F))
DoCheckElimination == Run("CheckElimination", CheckElimination(heap, F))
DoBranchElimination == Run("BranchElimination", BranchElimination(heap, F))
DoEmptyBlocksRemoval == Run("EmptyBlocksRemoval", EmptyBlocksRemoval(heap, F))
DoInlining == Run("Inlining", InliningPass(heap, F))

Next ==
    \/ DoDomTree \/ DoLoops \/ DoLinearOrdering \/ DoLiveness \/ DoRegAlloc \/ DoChecker \/ DoPeephole \/ DoDCE
    \/ DoCheckElimination \/ DoBranchElimination \/ DoEmptyBlocksRemoval \/ DoInlining

Spec == Init /\ [][Next]_vars

-----------------------------------------------------------------------------
(* Reference definitions: paths instead of algorithms.                     *)

Succs(h, b) == Range(h.bb[b].succs)
Blocks(h) == Range(LinkedBlocks(h, F))
Entry(h) == h.gr[F].first
Edges(h) == UNION {{<<b, s>> : s \in Succs(h, b)} : b \in Blocks(h)}

RECURSIVE Reached(_, _)
Reached(seen, edges) ==
    LET more == seen \cup {e[2] : e \in {e \in edges : e[1] \in seen}}
    IN IF more = seen THEN seen ELSE Reached(more, edges)
Avoiding(h, a) == {e \in Edges(h) : e[2] # a}
\* Every path from the entry to b passes a.
Dom(h, a, b) == a \in {b, Entry(h)} \/ b \notin Reached({Entry(h)}, Avoiding(h, a))
Dominators(h, b) == {a \in Blocks(h) \ {b} : Dom(h, a, b)}
IDom(h, b) == CHOOSE a \in Dominators(h, b) : \A c \in Dominators(h, b) : Dom(h, c, a)
\* Block b has its place in the dominator tree.
InTree(h, b) ==
    /\ h.bb[b].dominator = IF b = Entry(h) THEN Null ELSE IDom(h, b)
    /\ Range(h.bb[b].dominated) = {d \in Blocks(h) : h.bb[d].dominator = b}

\* An edge to a dominator closes a natural loop: its header and what reaches the edge
\* without passing the header.
BackEdges(h) == {e \in Edges(h) : Dom(h, e[2], e[1])}
Headers(h) == {e[2] : e \in BackEdges(h)}
Body(h, head) ==
    {head} \cup {b \in Blocks(h) \ {head} : \E e \in BackEdges(h) : e[2] = head /\ e[1] \in Reached({b}, Avoiding(h, head))}
Smallest(h, heads) ==
    IF heads = {} THEN Null
    ELSE CHOOSE head \in heads : \A other \in heads : Cardinality(Body(h, head)) <= Cardinality(Body(h, other))
Around(h, b) == {head \in Headers(h) : b \in Body(h, head)}
\* The other edges make no cycle.
Reducible(h) == \A e \in Edges(h) \ BackEdges(h) : e[1] \notin Reached({e[2]}, Edges(h) \ BackEdges(h))

\* Where a value is needed: an instruction of block b reads it, or a phi takes it when b is left.
Reads(h, v, b) == {i \in Range(IterateNonPhi(h, b)) : Has(h.ins[i].inputs, v)}
TakenFrom(h, v, b) ==
    \E s \in Succs(h, b) : \E phi \in Range(IteratePhi(h, s)) :
        \E n \in DOMAIN h.ins[phi].inputs : h.ins[phi].inputs[n] = v /\ h.ins[phi].srcs[n] = b
\* Some path from the beginning of b reaches a need without passing the definition.
LiveIn(h, v, b) ==
    LET def == h.ins[v].bb
    IN b # def /\ \E c \in Reached({b}, Avoiding(h, def)) : c # def /\ (Reads(h, v, c) # {} \/ TakenFrom(h, v, c))
LiveOut(h, v, b) == TakenFrom(h, v, b) \/ \E s \in Succs(h, b) : LiveIn(h, v, s)

BlockBegin(h, n) ==
    FoldLeft(LAMBDA sum, b : sum + Step * (Len(IterateNonPhi(h, b)) + 1), 0, SubSeq(h.gr[F].bblocks, 1, n - 1))
\* The numbers of the nth block where v is live: from its definition or the beginning of the
\* block to its last reader there or the end of the block.
LiveNumbers(h, v, n) ==
    LET b == h.gr[F].bblocks[n]
        num(i) == Interval(h, F, i).num
        from == IF h.ins[v].bb = b THEN num(v) ELSE BlockBegin(h, n)
        ends == {num(i) : i \in Reads(h, v, b)} \cup (IF LiveOut(h, v, b) THEN {BlockBegin(h, n + 1)} ELSE {})
    IN IF h.ins[v].bb = b \/ LiveIn(h, v, b) THEN UNION {from..(e - 1) : e \in ends} ELSE {}

-----------------------------------------------------------------------------
(* Properties.                                                             *)

SameMeaning == \A args \in Arguments : Observed(heap, F, args) = Observed(source, F, args)
Allocated == heap.gr[F].live # <<>> /\ \A n \in DOMAIN heap.gr[F].live : heap.gr[F].live[n].loc # Invalid

\* Whatever passes ran, the function makes the same calls, traps and answers the same.
MeaningKept == (~heap.failed /\ ~Allocated) => SameMeaning

\* Once LinearScanRegAlloc has run, the function computed on registers and slots instead of
\* values answers the same: the moves it makes carry every phi's input to the phi's place.
PlacesKeepMeaning == (~heap.failed /\ Allocated) => SameMeaning

\* Where the moves of an edge get in each other's way: a phi nobody reads has no range and
\* shares its place, a move behind a jump is never made, and the moves to the phis of a
\* block come one after the other, so a phi must not take the value of an earlier one.
UnreadPhi(h, b) == \E phi \in Range(IteratePhi(h, b)) : Interval(h, F, phi).ranges = <<>>
MoveBehindJump(h, b) ==
    LET ops == [n \in DOMAIN Iterate(h, b) |-> h.ins[Iterate(h, b)[n]].op]
    IN \E m, n \in DOMAIN ops : m < n /\ ops[m] = "JMP" /\ ops[n] = "MOVE"
PhiAfterPhi(h, b) ==
    LET phis == IteratePhi(h, b)
    IN \E m, n \in DOMAIN phis : m < n /\ \E x \in Range(h.ins[phis[n]].inputs) :
            x = phis[m] \/ (h.ins[x].op = "MOVE" /\ h.ins[x].inputs[1] = phis[m])

\* Apart from these three cases the allocator keeps the meaning of the function, loops,
\* spills, taken-over registers and broken critical edges included.
AllocationKept ==
    (~heap.failed /\ Allocated
        /\ \A b \in Blocks(heap) : ~(UnreadPhi(heap, b) \/ MoveBehindJump(heap, b) \/ PhiAfterPhi(heap, b)))
    => SameMeaning

\* Between passes the graph is one the checker accepts: lists, users, inputs and phis agree.
\* (The allocator may put a move into the first block, which is for arguments and constants.)
WellFormed == (~heap.failed /\ ~Allocated) => GraphCheckerHolds(heap, F)

\* A dominator tree that is flagged valid is the one the paths of the graph define.
DomTreeFresh ==
    (~heap.failed /\ IsAnalysisValid(heap, F, "DOM_TREE")) => \A b \in Blocks(heap) : InTree(heap, b)

\* In a reducible graph every block is in the loop of its innermost natural loop, or in
\* the root, and loops nest as natural loops do.
LoopsFresh ==
    (~heap.failed /\ IsAnalysisValid(heap, F, "LOOP_ANALYSIS") /\ Reducible(heap)) =>
        \A b \in Blocks(heap) :
            LET l == heap.lp[heap.bb[b].loop]
            IN /\ l.header = Smallest(heap, Around(heap, b))
               /\ l.root = (l.header = Null)
               /\ ~l.root => heap.lp[l.outer].header = Smallest(heap, Around(heap, l.header) \ {l.header})

\* An order that is flagged valid holds each present block once, behind its dominators.
RPOFresh ==
    LET rpo == heap.gr[F].rpo
    IN (~heap.failed /\ IsAnalysisValid(heap, F, "RPO")) =>
        /\ Range(rpo) = Blocks(heap) /\ Len(rpo) = Cardinality(Blocks(heap))
        /\ \A m, n \in DOMAIN rpo : Dom(heap, rpo[m], rpo[n]) => m <= n

\* A check every path to which has made it already.
Redundant(h, i) ==
    LET I == h.ins[i]
        Earlier(j) ==
            /\ h.ins[j].op = I.op /\ h.ins[j].inputs = I.inputs /\ j # i
            /\ IF h.ins[j].bb = I.bb THEN isEarlierInBasicBlock(h, j, i) ELSE Dom(h, h.ins[j].bb, I.bb)
    IN \E b \in Blocks(h) : \E j \in Range(Iterate(h, b)) : Earlier(j)
NoRedundantCheck(h) ==
    \A b \in Blocks(h) : \A i \in Range(Iterate(h, b)) : h.ins[i].op \in Checks => ~Redundant(h, i)

\* CheckElimination with a right dominator tree leaves no check that every path has made before.
ChecksMadeOnce ==
    [][DoCheckElimination /\ ~heap'.failed /\ (\A b \in Blocks(heap') : InTree(heap', b)) => NoRedundantCheck(heap')]_vars

\* In a function without loops the ranges of a value that is read are the numbers where it is live.
LiveWhereNeeded ==
    [][DoLiveness /\ ~heap'.failed /\ BackEdges(heap') = {} =>
        LET live == heap'.gr[F].live
        IN \A n \in DOMAIN live :
            UNION {r.begin..(r.end - 1) : r \in Range(live[n].ranges)}
                = IF heap'.ins[live[n].ins].users = <<>> /\ heap'.ins[live[n].ins].op # "PHI"
                  THEN live[n].num..(live[n].num + Step - 1)
                  ELSE UNION {LiveNumbers(heap', live[n].ins, m) : m \in DOMAIN heap'.gr[F].bblocks}]_vars
=============================================================================
