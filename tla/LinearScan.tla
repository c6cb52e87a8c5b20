----------------------------- MODULE LinearScan -----------------------------
(***************************************************************************)
(* The linear-scan register allocator of the JIT compiler                  *)
(* (codegen/LinearScanRegAlloc.cpp, allocateAndAssignRegs): the intervals  *)
(* that the liveness analysis left are visited one by one, each gets the   *)
(* lowest free register, or, when there is none, either it or the active   *)
(* interval that ends last goes to the stack.                              *)
(*                                                                         *)
(* An interval is the hull [begin, end) of its live ranges; a phi nobody   *)
(* uses has no range and its hull is [0, 0).  Intervals are numbered in    *)
(* the order of the visit, which LiveIntervals::begin (rbegin) makes the   *)
(* order of descending live numbers.                                       *)
(***************************************************************************)
EXTENDS Integers, Sequences, FiniteSets

CONSTANTS RegsCount,     \* integer registers of the architecture
          MaxSlots,      \* MAX_REG_NUMBER, the bound of the slot counter
          Hulls          \* the sequences of hulls a run may be given

(***************************************************************************)
(* RegMap keeps its bits in 64 but builds its masks from an int.           *)
(***************************************************************************)
ASSUME ArchAssumption == RegsCount \in 1..31 /\ MaxSlots \in Nat

Hull == {h \in [begin : Nat, end : Nat] : h.begin <= h.end}

Dead(h) == h.begin = 0 /\ h.end = 0

(***************************************************************************)
(* What LivenessAnalyzer produces, seen in the order of the visit: a used  *)
(* value has a non-empty hull that begins after 0 (the first block has no  *)
(* phi and live numbers start at 2), and begins never increase.            *)
(***************************************************************************)
ScanOrder(s) ==
    /\ \A i \in 1..Len(s) :
          Dead(s[i]) \/ (0 < s[i].begin /\ s[i].begin < s[i].end)
    /\ \A i, j \in 1..Len(s) :
          i < j /\ ~Dead(s[i]) => s[j].begin <= s[i].begin

ASSUME HullsAssumption ==
    \A s \in Hulls : s \in Seq(Hull) /\ ScanOrder(s)

VARIABLES intervals,   \* the sequence being allocated, fixed in a run
          next,        \* the interval the loop visits next
          active,      \* the list of intervals that hold a register, by end
          free,        \* the 1-bits of RegMap
          loc,         \* the location of every interval
          slotCounter,
          status       \* "scan", "done", or the assertion that stopped the pass

vars == <<intervals, next, active, free, loc, slotCounter, status>>

Registers == 0..RegsCount - 1

Reg(r)  == [type |-> "REGISTER", id |-> r]
Slot(n) == [type |-> "STACK", id |-> n]
Nowhere == [type |-> "INVALID", id |-> 0]

Begin(i) == intervals[i].begin
End(i)   == intervals[i].end

Indices == 1..Len(intervals)

-----------------------------------------------------------------------------
(* Variant: the end of the new interval is compared, not its begin. *)
ExpiredByEnd(i) == End(i) <= End(next)

(***************************************************************************)
(* expireOldIntervals stops at the first active interval that outlives the *)
(* new one's begin: n intervals expire.                                    *)
(***************************************************************************)
Expired(i) == End(i) <= Begin(next)

Expire(n) ==
    /\ \A k \in 1..n : Expired(active[k])
    /\ n < Len(active) => ~Expired(active[n + 1])

Kept(n) == SubSeq(active, n + 1, Len(active))

Freed(n) == free \cup {loc[active[k]].id : k \in 1..n}

(***************************************************************************)
(* AcquireReg takes the register of the least significant 1-bit.           *)
(***************************************************************************)
Lowest(r, set) == \A q \in set : r <= q

(* Variant: AcquireReg leaves the bit set. *)
AcquiredKept(r, set) == set

Acquired(r, set) == set \ {r}

(* Variant: the new interval is appended to the active list. *)
InsertAtBack(p, list) == p = Len(list)

(***************************************************************************)
(* addActiveInterval inserts behind the first p, before the first one that *)
(* ends no earlier than the new one.                                       *)
(***************************************************************************)
InsertPoint(p, list) ==
    /\ \A k \in 1..p : End(list[k]) < End(next)
    /\ p < Len(list) => End(next) <= End(list[p + 1])

Insert(list, p, i) == SubSeq(list, 1, p) \o <<i>> \o SubSeq(list, p + 1, Len(list))

Last(list)  == list[Len(list)]
Front(list) == SubSeq(list, 1, Len(list) - 1)

(* Variant: the slot counter is read and not advanced. *)
SameSlot == slotCounter

NextSlot == slotCounter + 1

-----------------------------------------------------------------------------
Init ==
    /\ intervals \in Hulls
    /\ next = 1
    /\ active = <<>>
    /\ free = Registers
    /\ loc = [i \in 1..Len(intervals) |-> Nowhere]
    /\ slotCounter = 0
    /\ status = "scan"

(***************************************************************************)
(* A register is left: assignToReg and addActiveInterval.                  *)
(***************************************************************************)
AssignToReg(n) ==
    \E r \in Freed(n), p \in 0..Len(Kept(n)) :
        /\ Lowest(r, Freed(n))
        /\ InsertPoint(p, Kept(n))
        /\ loc' = [loc EXCEPT ![next] = Reg(r)]
        /\ free' = Acquired(r, Freed(n))
        /\ active' = Insert(Kept(n), p, next)
        /\ next' = next + 1
        /\ UNCHANGED <<intervals, slotCounter, status>>

(* Variant: getNextSlot without its bound. *)
CanSpillUnbounded(list) == list # <<>>

CanSpill(list) == list # <<>> /\ slotCounter < MaxSlots

(***************************************************************************)
(* No register is left and every active interval ends before the new one.  *)
(***************************************************************************)
SpillNew(n) ==
    /\ Freed(n) = {}
    /\ CanSpill(Kept(n))
    /\ End(Last(Kept(n))) < End(next)
    /\ loc' = [loc EXCEPT ![next] = Slot(slotCounter)]
    /\ slotCounter' = NextSlot
    /\ free' = Freed(n)
    /\ active' = Kept(n)
    /\ next' = next + 1
    /\ UNCHANGED <<intervals, status>>

(* Variant: the new interval is not given the register it took over. *)
StealForgotten(n) ==
    /\ Freed(n) = {}
    /\ CanSpill(Kept(n))
    /\ End(next) <= End(Last(Kept(n)))
    /\ loc' = [loc EXCEPT ![Last(Kept(n))] = Slot(slotCounter)]
    /\ slotCounter' = NextSlot
    /\ free' = Freed(n)
    /\ active' = Front(Kept(n))
    /\ next' = next + 1
    /\ UNCHANGED <<intervals, status>>

(***************************************************************************)
(* The last active interval goes to the stack and leaves its register to   *)
(* the new one, which does not enter the active list.                      *)
(***************************************************************************)
StealRegister(n) ==
    /\ Freed(n) = {}
    /\ CanSpill(Kept(n))
    /\ End(next) <= End(Last(Kept(n)))
    /\ loc' = [loc EXCEPT ![Last(Kept(n))] = Slot(slotCounter),
                          ![next] = loc[Last(Kept(n))]]
    /\ slotCounter' = NextSlot
    /\ free' = Freed(n)
    /\ active' = Front(Kept(n))
    /\ next' = next + 1
    /\ UNCHANGED <<intervals, status>>

(***************************************************************************)
(* The assertions that stop the pass: spillAtInterval reads the back of an *)
(* empty list, getNextSlot has no slot left.                               *)
(***************************************************************************)
Abort(n) ==
    /\ Freed(n) = {}
    /\ \/ Kept(n) = <<>> /\ status' = "no active interval"
       \/ Kept(n) # <<>> /\ slotCounter = MaxSlots /\ status' = "no slot"
    /\ active' = Kept(n)
    /\ UNCHANGED <<intervals, next, free, loc, slotCounter>>

Visit ==
    /\ status = "scan"
    /\ next \in Indices
    /\ \E n \in 0..Len(active) :
          /\ Expire(n)
          /\ \/ AssignToReg(n)
             \/ SpillNew(n)
             \/ StealRegister(n)
             \/ Abort(n)

Finish ==
    /\ status = "scan"
    /\ next = Len(intervals) + 1
    /\ status' = "done"
    /\ UNCHANGED <<intervals, next, active, free, loc, slotCounter>>

Next == Visit \/ Finish

Spec == Init /\ [][Next]_vars /\ WF_vars(Next)

-----------------------------------------------------------------------------
Location ==
    [type : {"REGISTER"}, id : Registers]
        \cup [type : {"STACK"}, id : 0..MaxSlots] \cup {Nowhere}

(***************************************************************************)
(* The variables keep their types: the active list names visited           *)
(* intervals, the free bits are registers, a location is one.              *)
(***************************************************************************)
TypeOK ==
    /\ intervals \in Seq(Hull)
    /\ ScanOrder(intervals)
    /\ next \in 1..Len(intervals) + 1
    /\ active \in Seq(Indices)
    /\ free \subseteq Registers
    /\ loc \in [Indices -> Location]
    /\ slotCounter \in 0..MaxSlots
    /\ status \in {"scan", "done", "no active interval", "no slot"}

Overlap(i, j) == Begin(i) < End(j) /\ Begin(j) < End(i)

(***************************************************************************)
(* Two intervals that are live at the same place never have the same       *)
(* register or the same stack slot, whatever was spilled, and whose        *)
(* register was taken over, between their visits.                          *)
(***************************************************************************)
NoClash ==
    \A i, j \in 1..next - 1 :
        i # j /\ Overlap(i, j) => loc[i] # loc[j]

(***************************************************************************)
(* The comment on addActiveInterval: the active list is kept in increasing *)
(* order of ends, through insertions, expiries and take-overs; the early   *)
(* return of expireOldIntervals and the choice of what to spill rely on it.*)
(***************************************************************************)
ActiveSorted ==
    \A j, k \in 1..Len(active) : j < k => End(active[j]) <= End(active[k])

(***************************************************************************)
(* A register whose bit says free is nobody's that is still live at the    *)
(* next visit: RegMap and the locations written so far agree, also for the *)
(* interval that took a register over without entering the active list.    *)
(***************************************************************************)
FreeIsUnheld ==
    \A i \in 1..next - 1 :
        loc[i].type = "REGISTER" /\ loc[i].id \in free /\ next \in Indices
            => End(i) <= Begin(next)

(***************************************************************************)
(* The active list and the bits of RegMap agree: the active intervals hold *)
(* different registers, and none of them is marked free.                   *)
(***************************************************************************)
ActiveHoldRegisters ==
    \A j \in 1..Len(active) :
        /\ active[j] < next
        /\ loc[active[j]].type = "REGISTER"
        /\ loc[active[j]].id \notin free
        /\ \A k \in 1..Len(active) :
              j # k => loc[active[j]] # loc[active[k]]

(***************************************************************************)
(* Every run of the pass that no assertion stops gives each interval a     *)
(* register or a slot.                                                     *)
(***************************************************************************)
AllPlaced ==
    <>(status # "scan" /\
       (status = "done" => \A i \in Indices : loc[i] # Nowhere))

=============================================================================
