----------------------------- MODULE JirAnalysis -----------------------------
(***************************************************************************)
(* The analyses of the JIT compiler (analysis/): depth-first and reverse   *)
(* post order, the dominator tree built with semidominators and a disjoint *)
(* set, the loop tree, the linear order of blocks, and the graph checker.  *)
(* A pass with a flag is skipped while its flag is valid (PassManager).    *)
(***************************************************************************)
EXTENDS JirGraph

\* PassManager::Run of a pass with SET_FLAG.
Cached(h, k, flag, result) ==
    IF h.failed \/ IsAnalysisValid(h, k, flag) THEN h ELSE Require(result, TRUE, SetValid(result, k, flag, TRUE))

-----------------------------------------------------------------------------
(* Traversals.                                                             *)

RECURSIVE traverseImpl(_, _, _)
traverseImpl(h, b, st) ==
    LET Visit(acc, s) == IF s \in acc.seen THEN acc ELSE traverseImpl(h, s, acc)
        done == FoldLeft(Visit, [st EXCEPT !.seen = @ \cup {b}], h.bb[b].succs)
    IN [done EXCEPT !.out = Append(@, b)]

\* The blocks in post order from the first block.
PostOrder(h, k) == traverseImpl(h, h.gr[k].first, [seen |-> {}, out |-> <<>>]).out

EdgesAgree(h, blocks) == \A b \in blocks : \A s \in Range(h.bb[b].succs) : Has(h.bb[s].preds, b)

\* A safe traversal: a marker slot is free, edges agree, every linked block is met.
DFOSucceeds(h, k) ==
    LET out == PostOrder(h, k)
    IN /\ FreeSlots(h, k) # {}
       /\ EdgesAgree(h, Range(out))
       /\ Len(out) = GetBasicBlocksCount(h, k)

DoRPO(h, k) == Reverse(PostOrder(h, k))
RunRPO(h, k) == Cached(h, k, "RPO", Require(h, DFOSucceeds(h, k), [h EXCEPT !.gr[k].rpo = DoRPO(h, k)]))

-----------------------------------------------------------------------------
(* Dominator tree.  t = [label, sdom, parent, order, uni, bucket, idom]:    *)
(* functions of the block, and the blocks by their visit number.           *)

Nowhere(h) == [b \in DOMAIN h.bb |-> Null]

DomStart(h) ==
    [label |-> Nowhere(h), sdom |-> Nowhere(h), parent |-> Nowhere(h), order |-> <<>>,
     uni |-> Nowhere(h), bucket |-> [b \in DOMAIN h.bb |-> <<>>], idom |-> Nowhere(h)]

RECURSIVE dfsTraverse(_, _, _)
dfsTraverse(h, b, t) ==
    LET Visit(acc, s) ==
            IF acc.label[s] # Null THEN acc ELSE dfsTraverse(h, s, [acc EXCEPT !.parent[s] = b])
    IN FoldLeft(Visit, [t EXCEPT !.label[b] = b, !.sdom[b] = Len(t.order) + 1,
                                 !.order = Append(@, b)], h.bb[b].succs)

\* The label of the ancestor is taken over when it has the smaller semidominator.
takeLabel(t, b, anc) ==
    [t EXCEPT !.label[b] = IF t.sdom[t.label[anc]] < t.sdom[@] THEN t.label[anc] ELSE @,
              !.uni[b] = t.uni[anc]]
RECURSIVE compressUniversum(_, _)
compressUniversum(t, b) ==
    IF t.uni[t.uni[b]] = Null THEN t ELSE takeLabel(compressUniversum(t, t.uni[b]), b, t.uni[b])

\* Find compresses the path and answers the label.
Compressed(t, b) == IF t.uni[b] = Null THEN t ELSE compressUniversum(t, b)
Found(t, b) == IF t.uni[b] = Null THEN b ELSE t.label[b]

smallerSDom(t, b, s) == IF s < t.sdom[b] THEN [t EXCEPT !.sdom[b] = s] ELSE t
semiDominator(h, t, b) ==
    LET Join(c, p) == smallerSDom(c, b, c.sdom[Found(c, p)])
    IN FoldLeft(LAMBDA acc, p : Join(Compressed(acc, p), p), t, h.bb[b].preds)

dominatees(t, b) ==
    LET Settle(c, d, u) ==
            [c EXCEPT !.idom[d] = IF c.sdom[u] = c.sdom[d] THEN c.order[c.sdom[d]] ELSE u]
        Visit(c, d) == Settle(c, d, Found(c, d))
    IN FoldLeft(LAMBDA acc, d : Visit(Compressed(acc, d), d), t, t.bucket[b])

\* From the last visited block to the first: its semidominator, the union with
\* its parent, then the blocks it semidominates.
unite(t, b) ==
    IF b = t.order[1] THEN t
    ELSE [t EXCEPT !.bucket[t.order[t.sdom[b]]] = Append(@, b), !.uni[b] = t.parent[b]]
computeSDoms(h, t) ==
    FoldLeft(LAMBDA acc, b : dominatees(unite(semiDominator(h, acc, b), b), b), t, Reverse(t.order))

\* Mutant: the second pass is missing.
computeIDomsOnce(t) == t
computeIDoms(t) ==
    LET Step(acc, b) ==
            IF acc.idom[b] = acc.order[acc.sdom[b]] THEN acc
            ELSE [acc EXCEPT !.idom[b] = acc.idom[acc.idom[b]]]
    IN FoldLeft(Step, t, Tail(t.order))

\* The dominators that earlier runs set are dropped, then each block but the first gets its own.
setDominators(h, k, order, idom) ==
    LET reset == [h EXCEPT !.bb = [b \in DOMAIN h.bb |->
                    IF h.bb[b].gr = k /\ h.bb[b].id # InvalidId
                    THEN [h.bb[b] EXCEPT !.dominator = Null, !.dominated = <<>>] ELSE h.bb[b]]]
        Set(acc, b) == [acc EXCEPT !.bb[b].dominator = idom[b],
                                   !.bb[idom[b]].dominated = Append(@, b)]
    IN FoldLeft(Set, reset, Tail(order))

\* The number of blocks the tables are sized for counts the unlinked ones too,
\* and computeSDoms reads a null block for each of them.
computeDominators(h, k, t) ==
    Require(h, /\ Len(t.order) = GetBasicBlocksCount(h, k) /\ Len(t.order) = Len(h.gr[k].bblocks)
               /\ \A b \in Range(t.order) : \A p \in Range(h.bb[b].preds) : t.label[p] # Null,
            setDominators(h, k, t.order, computeIDoms(computeSDoms(h, t)).idom))
RunDomTree(h, k) ==
    Cached(h, k, "DOM_TREE", computeDominators(h, k, dfsTraverse(h, h.gr[k].first, DomStart(h))))

-----------------------------------------------------------------------------
(* Loops.                                                                  *)

NewLoop(id, header, irreducible, root) ==
    [id |-> id, header |-> header, back |-> <<>>, blocks |-> <<>>, outer |-> Null, inner |-> <<>>,
     irreducible |-> irreducible, root |-> root]

LoopAddBlock(h, l, b) ==
    Require(h, h.bb[b].loop = Null /\ ~Has(h.lp[l].blocks, b),
            [h EXCEPT !.bb[b].loop = l, !.lp[l].blocks = Append(@, b)])
AddBackEdge(h, l, b) ==
    Require(h, ~Has(h.lp[l].back, b), [h EXCEPT !.lp[l].back = Append(@, b)])
Nest(h, inner, outer) ==
    Require(h, ~Has(h.lp[outer].inner, inner),
            [h EXCEPT !.lp[inner].outer = outer, !.lp[outer].inner = Append(@, inner)])

RECURSIVE LoopIsIn(_, _, _)
LoopIsIn(h, l, other) ==
    LET outer == h.lp[l].outer IN outer # Null /\ (outer = other \/ LoopIsIn(h, outer, other))

\* A header that already has a loop keeps it, whichever run made it.
addLoopInfo(h, n, header, source, irr) ==
    LET l == h.bb[header].loop
        new == Len(h.lp) + 1
        made == [h EXCEPT !.lp = Append(@, NewLoop(n, header, irr, FALSE))]
    IN IF l = Null THEN AddBackEdge(LoopAddBlock(made, new, header), new, source)
       ELSE Require(h, TRUE, [AddBackEdge(h, l, source) EXCEPT !.lp[l].irreducible = @ \/ irr])

\* st = [h, grey, black, out, made]: made counts the loops of this run.
blacken(st, b) == [st EXCEPT !.grey = @ \ {b}, !.black = @ \cup {b}, !.out = Append(@, b)]
RECURSIVE dfsBackEdgesSearch(_, _)
dfsBackEdgesSearch(b, st) ==
    LET Visit(acc, s) ==
            CASE s \in acc.grey ->
                    [acc EXCEPT !.h = addLoopInfo(@, acc.made, s, b, ~BlockDominates(@, s, b)),
                                !.made = IF acc.h.bb[s].loop = Null THEN @ + 1 ELSE @]
              [] s \notin acc.grey /\ s \notin acc.black -> dfsBackEdgesSearch(s, acc)
              [] OTHER -> acc
    IN blacken(FoldLeft(Visit, [st EXCEPT !.grey = @ \cup {b}], st.h.bb[b].succs), b)

\* st = [h, black].
RECURSIVE dfsPopulateLoops(_, _, _)
dfsPopulateLoops(l, b, st) ==
    LET h == st.h
        own == h.bb[b].loop
        g == CASE own = Null -> LoopAddBlock(h, l, b)
               [] own # Null /\ h.lp[own].id # h.lp[l].id /\ h.lp[own].outer = Null -> Nest(h, own, l)
               [] OTHER -> h
    IN IF b \in st.black \/ h.failed THEN st
       ELSE FoldLeft(LAMBDA acc, p : dfsPopulateLoops(l, p, acc),
                     [h |-> g, black |-> st.black \cup {b}], h.bb[b].preds)

\* Mutant: the header does not end the search.
populateWithoutHeader(h, l) ==
    FoldLeft(LAMBDA acc, s : dfsPopulateLoops(l, s, acc), [h |-> h, black |-> {}], h.lp[l].back).h
populateReducibleLoop(h, l) ==
    FoldLeft(LAMBDA acc, s : dfsPopulateLoops(l, s, acc),
             [h |-> h, black |-> {h.lp[l].header}], h.lp[l].back).h

populateLoops(h, blocks) ==
    LET Step(acc, b) ==
            LET l == acc.bb[b].loop
                Take(a, s) == IF a.bb[s].loop = Null THEN [a EXCEPT !.bb[s].loop = l] ELSE a
            IN CASE l = Null \/ acc.failed -> acc
                 [] l # Null /\ acc.lp[l].header = b /\ acc.lp[l].irreducible ->
                        FoldLeft(Take, acc, acc.lp[l].back)
                 [] l # Null /\ acc.lp[l].header = b /\ ~acc.lp[l].irreducible ->
                        populateReducibleLoop(acc, l)
                 [] OTHER -> acc
    IN FoldLeft(Step, h, blocks)

buildLoopTree(h, k, made, blocks) ==
    LET root == Len(h.lp) + 1
        start == [h EXCEPT !.lp = Append(@, NewLoop(made, Null, FALSE, TRUE))]
        Step(acc, b) ==
            LET l == acc.bb[b].loop
            IN CASE l = Null -> LoopAddBlock(acc, root, b)
                 [] l # Null /\ acc.lp[l].outer = Null -> Nest(acc, l, root)
                 [] OTHER -> acc
    IN [FoldLeft(Step, start, blocks) EXCEPT !.gr[k].loopTree = root]

\* The loop each block points at is not reset before a new run.  st comes from the search.
sortLoops(h, k, st) ==
    Require(h, Cardinality(FreeSlots(h, k)) >= 2 /\ ~st.h.failed,
            Then(populateLoops(st.h, st.out), LAMBDA populated : buildLoopTree(populated, k, st.made, st.out)))
collectLoops(h, k) ==
    sortLoops(h, k, dfsBackEdgesSearch(h.gr[k].first,
                        [h |-> h, grey |-> {}, black |-> {}, out |-> <<>>, made |-> 0]))
RunLoops(h, k) ==
    Cached(h, k, "LOOP_ANALYSIS", Then(RunDomTree(h, k), LAMBDA dom : collectLoops(dom, k)))

-----------------------------------------------------------------------------
(* Graph checker: the assertions GraphChecker makes, as a predicate.        *)

verifyBlockStructure(h, b, i) ==
    LET B == h.bb[b]
        first == Begin(h, b)
        isLast == i = B.lastInst \/ (B.lastInst = Null /\ i = B.lastPhi)
    IN /\ i # first => h.ins[i].prev # Null
       /\ isLast <=> h.ins[i].next = Null

VerifyPhiBasicBlocks(h, phi) ==
    LET I == h.ins[phi]
        preds == h.bb[I.bb].preds
    IN /\ Len(I.srcs) = Len(I.inputs) /\ Len(I.srcs) = Len(preds)
       /\ Range(preds) \subseteq Range(I.srcs)
       /\ \A n \in DOMAIN I.srcs : Has(preds, I.srcs[n]) /\ PosOf(I.srcs, I.srcs[n]) = n

\* Inputs are examined only up to the first one that lists the instruction.
verifyDFG(h, i) ==
    LET I == h.ins[i]
        listed(n) == Has(h.ins[I.inputs[n]].users, i)
        sound(n) == /\ I.inputs[n] # Null /\ h.ins[I.inputs[n]].bb # Null
                    /\ h.bb[h.ins[I.inputs[n]].bb].gr = h.bb[I.bb].gr
    IN /\ HasInputsOp(I.op) =>
            \E n \in DOMAIN I.inputs : (\A m \in 1..n : sound(m)) /\ listed(n)
       /\ \A u \in Range(I.users) : HasInputsOp(h.ins[u].op) /\ Has(h.ins[u].inputs, i)

VerifyControlAndDataFlowGraphs(h, k, b) ==
    LET s == Iterate(h, b)
    IN IF s = <<>> THEN h.bb[b].lastPhi = Null /\ h.bb[b].lastInst = Null
       ELSE /\ Len(s) = h.bb[b].count
            /\ \A n \in DOMAIN s :
                /\ b # h.gr[k].first => h.ins[s[n]].op \notin {"CONST", "ARG"}
                /\ verifyBlockStructure(h, b, s[n])
                /\ h.ins[s[n]].op = "PHI" => VerifyPhiBasicBlocks(h, s[n])
                /\ verifyDFG(h, s[n])

\* Arguments, then constants, and nothing else.
VerifyFirstBlock(h, k) ==
    LET b == h.gr[k].first
        s == Iterate(h, b)
    IN b # Null =>
        /\ h.bb[b].firstPhi = Null /\ h.bb[b].lastPhi = Null
        /\ \A n \in DOMAIN s : h.ins[s[n]].op \in {"ARG", "CONST"}
        /\ \A m, n \in DOMAIN s : m < n /\ h.ins[s[m]].op = "CONST" => h.ins[s[n]].op = "CONST"

GraphCheckerHolds(h, k) ==
    /\ \A b \in Range(LinkedBlocks(h, k)) : VerifyControlAndDataFlowGraphs(h, k, b)
    /\ DFOSucceeds(h, k)
    /\ VerifyFirstBlock(h, k)

RunChecker(h, k) == Require(h, GraphCheckerHolds(h, k), h)

-----------------------------------------------------------------------------
(* Linear order.  st = [h, seen, order, queue, changed].                   *)

unvisitedForwardEdgesExist(st, b) ==
    LET preds == Range(st.h.bb[b].preds)
    IN /\ ~st.h.lp[st.h.bb[b].loop].irreducible
       /\ \E p \in preds : p \notin st.seen /\ (IsLoopHeader(st.h, b) => ~BlockDominates(st.h, b, p))

\* Before the first queued block of a loop that surrounds the block's loop.
addIntoQueue(st, b) ==
    LET outer(c) == LoopIsIn(st.h, st.h.bb[b].loop, st.h.bb[c].loop)
        pos == SelectInSeq(st.queue, outer)
        at == IF pos = 0 THEN Len(st.queue) + 1 ELSE pos
    IN IF b \in st.seen \/ unvisitedForwardEdgesExist(st, b) THEN st
       ELSE [st EXCEPT !.queue = InsertAt(@, at, b)]

mustInverseCondition(st, b) ==
    LET t == st.h.bb[b].succs[1]
        f == st.h.bb[b].succs[2]
        inLoop(c) == st.h.bb[c].loop = st.h.bb[b].loop
    IN /\ t \notin st.seen
       /\ \/ f \in st.seen
          \/ ~inLoop(f) /\ inLoop(t)
          \/ unvisitedForwardEdgesExist(st, f) /\ ~unvisitedForwardEdgesExist(st, t)

\* A block made terminal is already connected to the last block it is inserted before.
insertJmpBlock(h, k, pred, succ) ==
    LET n == FreshBlock(h)
        jump(g) == PushBack(Create(g, Instruction("JMP", "I64", 0, "EQ", <<>>, <<>>)), n, FreshIns(g))
    IN InsertBetween(LoopAddBlock(jump(CreateEmptyBasicBlock(h, k, succ = h.gr[k].last)), h.bb[pred].loop, n),
                     n, pred, succ)

\* The successors of b enter the queue, the false one in front if it is in b's loop.
queueSuccs(st, b) ==
    LET h == st.h
        f == h.bb[b].succs[2]
        front == [st EXCEPT !.queue = <<f>> \o @]
    IN addIntoQueue(IF h.bb[f].loop # h.bb[b].loop THEN addIntoQueue(st, f) ELSE front, h.bb[b].succs[1])

\* A condition that must be inverted again once it is inverted recurses without end;
\* the stack overflows and the heap is failed.
queueCond(st, k, b) ==
    LET h == st.h
        f == h.bb[b].succs[2]
        inverted == [st EXCEPT !.h = InverseConditionalBranch(h, b)]
    IN IF Range(h.bb[b].succs) \subseteq st.seen
       THEN [st EXCEPT !.queue = <<FreshBlock(h)>> \o @, !.changed = TRUE, !.h = insertJmpBlock(h, k, b, f)]
       ELSE IF ~mustInverseCondition(st, b) THEN queueSuccs(st, b)
       ELSE IF inverted.h.failed \/ mustInverseCondition(inverted, b) THEN [inverted EXCEPT !.h = Fail(@)]
       ELSE queueSuccs(inverted, b)

RECURSIVE orderBlocks(_, _)
orderBlocks(st, k) ==
    LET b == Head(st.queue)
        here == [st EXCEPT !.seen = @ \cup {b}, !.order = Append(@, b), !.queue = Tail(@)]
        succs == st.h.bb[b].succs
    IN CASE st.queue = <<>> \/ st.h.failed -> st
         [] ~(st.queue = <<>> \/ st.h.failed) /\ b \in st.seen -> [st EXCEPT !.h = Fail(@)]
         [] OTHER ->
            orderBlocks(
                CASE Len(succs) = 1 /\ succs[1] \notin here.seen
                       /\ ~unvisitedForwardEdgesExist(here, succs[1]) ->
                            [here EXCEPT !.queue = <<succs[1]>> \o @]
                  [] Len(succs) = 2 -> queueCond(here, k, b)
                  [] OTHER -> here, k)

setNewOrder(h, k, order) ==
    [h EXCEPT !.bb = [b \in DOMAIN h.bb |->
                        IF Has(order, b) THEN [h.bb[b] EXCEPT !.id = PosOf(order, b) - 1] ELSE h.bb[b]],
              !.gr[k].bblocks = order, !.gr[k].unlinked = 0]

reorder(st, k) ==
    LET set == setNewOrder(st.h, k, st.order)
    IN IF st.h.failed THEN st.h
       ELSE IF st.changed THEN SetInvalid(RunChecker(set, k), k, {"DOM_TREE", "RPO"}) ELSE set

RunLinearOrdering(h, k) ==
    Cached(h, k, "LINEAR_ORDERING", Then(RunLoops(RunDomTree(h, k), k), LAMBDA loops :
        Require(loops, FreeSlots(loops, k) # {},
            reorder(orderBlocks([h |-> loops, seen |-> {}, order |-> <<>>, queue |-> <<loops.gr[k].first>>,
                                 changed |-> FALSE], k), k))))
=============================================================================
