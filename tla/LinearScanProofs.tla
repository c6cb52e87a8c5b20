-------------------------- MODULE LinearScanProofs --------------------------
(***************************************************************************)
(* No two intervals that are live together share a location, for every     *)
(* number of registers and slots and every sequence of intervals the       *)
(* liveness analysis can leave.                                            *)
(***************************************************************************)
EXTENDS LinearScan, SequenceTheorems, TLAPS

Visited == 1..next - 1

Live(i) == ~Dead(intervals[i])

(***************************************************************************)
(* What has been visited has a location, what has not has none, and every  *)
(* slot given out so far is below the counter and has one owner.           *)
(***************************************************************************)
SlotsOnce ==
    /\ \A i \in Indices : i < next <=> loc[i].type # "INVALID"
    /\ \A i \in Indices : loc[i].type = "STACK" => loc[i].id < slotCounter
    /\ \A i, j \in Indices :
          i # j /\ loc[i].type = "STACK" => loc[i] # loc[j]

(***************************************************************************)
(* A register has one live owner at most, active or not, and none while    *)
(* its bit says free.                                                      *)
(***************************************************************************)
RegistersOnce ==
    /\ \A i, j \in Indices :
          i # j /\ Live(i) /\ Live(j) /\ loc[i].type = "REGISTER" => loc[i] # loc[j]
    /\ \A i \in Indices :
          Live(i) /\ loc[i].type = "REGISTER" => loc[i].id \notin free

(***************************************************************************)
(* The active intervals hold different registers, which are not free and   *)
(* which no other live interval holds.                                     *)
(***************************************************************************)
ActiveOnce ==
    \A k \in 1..Len(active) :
        \A i \in Indices :
            i # active[k] /\ Live(i) => loc[i] # loc[active[k]]

Inv == TypeOK /\ SlotsOnce /\ RegistersOnce /\ ActiveHoldRegisters /\ ActiveOnce

-----------------------------------------------------------------------------
(* The list expireOldIntervals leaves is a suffix of the active list. *)
LEMMA KeptProps ==
    ASSUME NEW S, active \in Seq(S), NEW n \in 0..Len(active)
    PROVE  /\ Kept(n) \in Seq(S)
           /\ Len(Kept(n)) = Len(active) - n
           /\ \A k \in 1..Len(active) - n : Kept(n)[k] = active[k + n]
<1>1. Len(active) \in Nat
  BY LenProperties
<1>2. /\ Kept(n) \in Seq(S)
      /\ Len(Kept(n)) = IF n + 1 <= Len(active) THEN Len(active) - (n + 1) + 1 ELSE 0
      /\ \A i \in 1..Len(active) - (n + 1) + 1 : Kept(n)[i] = active[n + 1 + i - 1]
  BY <1>1, SubSeqProperties DEF Kept
<1> QED
  BY <1>1, <1>2

(* addActiveInterval makes room for one interval and moves the later ones. *)
LEMMA InsertProps ==
    ASSUME NEW S, NEW list \in Seq(S), NEW p \in 0..Len(list), NEW i \in S
    PROVE  /\ Insert(list, p, i) \in Seq(S)
           /\ Len(Insert(list, p, i)) = Len(list) + 1
           /\ \A k \in 1..Len(list) + 1 :
                 Insert(list, p, i)[k] =
                    IF k <= p THEN list[k] ELSE IF k = p + 1 THEN i ELSE list[k - 1]
<1> DEFINE a == SubSeq(list, 1, p)
           b == SubSeq(list, p + 1, Len(list))
<1>1. Len(list) \in Nat
  BY LenProperties
<1>2. /\ a \in Seq(S)
      /\ Len(a) = p
      /\ \A k \in 1..p : a[k] = list[k]
  BY <1>1, SubSeqProperties
<1>3. /\ b \in Seq(S)
      /\ Len(b) = Len(list) - p
      /\ \A k \in 1..Len(list) - p : b[k] = list[k + p]
  <2>1. /\ b \in Seq(S)
        /\ Len(b) = IF p + 1 <= Len(list) THEN Len(list) - (p + 1) + 1 ELSE 0
        /\ \A k \in 1..Len(list) - (p + 1) + 1 : b[k] = list[p + 1 + k - 1]
    BY <1>1, SubSeqProperties
  <2> QED
    BY <1>1, <2>1
<1>4. <<i>> \in Seq(S) /\ Len(<<i>>) = 1 /\ <<i>>[1] = i
  OBVIOUS
<1> DEFINE c == a \o <<i>>
<1>5. /\ c \in Seq(S)
      /\ Len(c) = p + 1
      /\ \A k \in 1..p + 1 : c[k] = IF k <= p THEN list[k] ELSE i
  BY <1>1, <1>2, <1>4, ConcatProperties
<1>7. Insert(list, p, i) = c \o b
  BY DEF Insert
<1> HIDE DEF a, b, c
<1>6. /\ c \o b \in Seq(S)
      /\ Len(c \o b) = Len(list) + 1
      /\ \A k \in 1..Len(list) + 1 :
            (c \o b)[k] = IF k <= p + 1 THEN c[k] ELSE b[k - (p + 1)]
  <2>1. /\ c \o b \in Seq(S)
        /\ Len(c \o b) = Len(c) + Len(b)
        /\ \A k \in 1..Len(c) + Len(b) :
              (c \o b)[k] = IF k <= Len(c) THEN c[k] ELSE b[k - Len(c)]
    BY <1>3, <1>5, ConcatProperties
  <2>2. Len(c) + Len(b) = Len(list) + 1
    BY <1>1, <1>3, <1>5
  <2> QED
    BY <1>5, <2>1, <2>2
<1>8. ASSUME NEW k \in 1..Len(list) + 1
      PROVE  (c \o b)[k] =
                IF k <= p THEN list[k] ELSE IF k = p + 1 THEN i ELSE list[k - 1]
  <2>1. CASE k <= p + 1
    BY <1>1, <1>5, <1>6, <2>1
  <2>2. CASE k > p + 1
    <3>1. /\ k - (p + 1) \in 1..Len(list) - p
          /\ (k - (p + 1)) + p = k - 1
      BY <1>1, <2>2
    <3>2. b[k - (p + 1)] = list[k - 1]
      BY <1>3, <3>1
    <3> QED
      BY <1>1, <1>6, <2>2, <3>2
  <2>3. k <= p + 1 \/ k > p + 1
    BY <1>1
  <2> QED
    BY <2>1, <2>2, <2>3
<1> QED
  BY <1>6, <1>7, <1>8

(* A take-over removes the last active interval. *)
LEMMA FrontProps ==
    ASSUME NEW S, NEW list \in Seq(S), list # <<>>
    PROVE  /\ Front(list) \in Seq(S)
           /\ Len(list) \in Nat \ {0}
           /\ Len(Front(list)) = Len(list) - 1
           /\ \A k \in 1..Len(list) - 1 : Front(list)[k] = list[k]
<1>1. Len(list) \in Nat \ {0}
  BY EmptySeq
<1>2. \A k \in 1..Len(list) - 1 : list[k] \in S
  BY <1>1, ElementOfSeq
<1> DEFINE m == Len(list) - 1
           f == SubSeq(list, 1, m)
<1>3. /\ m \in Nat
      /\ \A k \in 1..m : list[k] \in S
  BY <1>1, <1>2
<1>4. Front(list) = f
  BY DEF Front
<1> HIDE DEF m
<1>5. /\ f \in Seq(S)
      /\ Len(f) = IF 1 <= m THEN m - 1 + 1 ELSE 0
      /\ \A k \in 1..m - 1 + 1 : f[k] = list[1 + k - 1]
  BY <1>3, SubSeqProperties
<1> HIDE DEF f
<1>6. f \in Seq(S) /\ Len(f) = m /\ \A k \in 1..m : f[k] = list[k]
  BY <1>3, <1>5
<1> QED
  BY <1>1, <1>4, <1>6 DEF m

-----------------------------------------------------------------------------
(* A location is its type and its number. *)
LEMMA LocationParts ==
    /\ \A x, y \in Location : x.type = y.type /\ x.id = y.id => x = y
    /\ \A x \in Location : x.type = "REGISTER" => x.id \in Registers
    /\ \A x \in Location : x.type = "STACK" => x.id \in 0..MaxSlots
    /\ \A x \in Location : x.type = "INVALID" => x = Nowhere
    /\ \A r \in Registers :
          Reg(r) \in Location /\ Reg(r).type = "REGISTER" /\ Reg(r).id = r
    /\ \A m \in 0..MaxSlots :
          Slot(m) \in Location /\ Slot(m).type = "STACK" /\ Slot(m).id = m
    /\ Nowhere \in Location /\ Nowhere.type = "INVALID"
  BY DEF Location, Reg, Slot, Nowhere

(***************************************************************************)
(* What is active after expireOldIntervals is as good as what was: only    *)
(* dead phis expire, so no live interval holds a register that is freed.   *)
(***************************************************************************)
ActiveLike(list, set) ==
    /\ list \in Seq(Indices)
    /\ set \subseteq Registers
    /\ \A j \in 1..Len(list) :
          /\ list[j] < next
          /\ loc[list[j]].type = "REGISTER"
          /\ loc[list[j]].id \notin set
    /\ \A j, k \in 1..Len(list) : j # k => loc[list[j]] # loc[list[k]]
    /\ \A k \in 1..Len(list), i \in Indices :
          i # list[k] /\ Live(i) => loc[i] # loc[list[k]]
    /\ \A i \in Indices :
          Live(i) /\ loc[i].type = "REGISTER" => loc[i].id \notin set

LEMMA ExpireLemma ==
    ASSUME Inv, next \in Indices, NEW n \in 0..Len(active), Expire(n)
    PROVE  ActiveLike(Kept(n), Freed(n))
<1> USE DEF Inv
<1>1. /\ active \in Seq(Indices)
      /\ Len(active) \in Nat
      /\ \A k \in 1..Len(active) : active[k] \in Indices
  BY LenProperties, ElementOfSeq DEF TypeOK
<1>2. /\ Kept(n) \in Seq(Indices)
      /\ Len(Kept(n)) = Len(active) - n
      /\ \A k \in 1..Len(active) - n : Kept(n)[k] = active[k + n]
  BY <1>1, KeptProps
<1>3. \A i \in Indices : loc[i] \in Location
  BY DEF TypeOK
<1>4. \A k \in 1..Len(active) :
         /\ active[k] < next
         /\ loc[active[k]].type = "REGISTER"
         /\ loc[active[k]].id \in Registers
  BY <1>1, <1>3, LocationParts DEF ActiveHoldRegisters
<1>5. \A j, k \in 1..Len(active) : j # k => loc[active[j]].id # loc[active[k]].id
  BY <1>1, <1>3, <1>4, LocationParts DEF ActiveHoldRegisters
<1>6. \A k \in 1..n : ~Live(active[k])
  <2> SUFFICES ASSUME NEW k \in 1..n, Live(active[k])
               PROVE  FALSE
    OBVIOUS
  <2>1. active[k] \in Indices /\ active[k] < next
    BY <1>1, <1>4
  <2>2. intervals \in Seq(Hull)
    BY DEF TypeOK
  <2>3. intervals[active[k]] \in Hull /\ intervals[next] \in Hull
    BY <2>1, <2>2, ElementOfSeq DEF Indices
  <2>4. Begin(next) <= Begin(active[k]) /\ Begin(active[k]) < End(active[k])
    BY <2>1 DEF TypeOK, ScanOrder, Indices, Live, Begin, End
  <2>5. End(active[k]) <= Begin(next)
    BY DEF Expire, Expired
  <2>6. Begin(next) \in Nat /\ Begin(active[k]) \in Nat /\ End(active[k]) \in Nat
    BY <2>3 DEF Hull, Begin, End
  <2> QED
    BY <2>4, <2>5, <2>6
<1>7. Freed(n) \subseteq Registers
  <2>1. free \subseteq Registers
    BY DEF TypeOK
  <2>2. \A k \in 1..n : loc[active[k]].id \in Registers
    BY <1>1, <1>4
  <2> QED
    BY <2>1, <2>2 DEF Freed
<1>8. \A i \in Indices :
         Live(i) /\ loc[i].type = "REGISTER" => loc[i].id \notin Freed(n)
  <2> SUFFICES ASSUME NEW i \in Indices, Live(i), loc[i].type = "REGISTER",
                      NEW k \in 1..n, loc[i].id = loc[active[k]].id
               PROVE  FALSE
    BY DEF Freed, RegistersOnce
  <2>1. loc[i] = loc[active[k]]
    BY <1>1, <1>3, <1>4, LocationParts
  <2> QED
    BY <1>1, <1>6, <2>1 DEF ActiveOnce
<1>9. \A j \in 1..Len(active) - n :
         loc[active[j + n]].id \notin Freed(n)
  <2> SUFFICES ASSUME NEW j \in 1..Len(active) - n
               PROVE  loc[active[j + n]].id \notin Freed(n)
    OBVIOUS
  <2>1. j + n \in 1..Len(active) /\ \A k \in 1..n : k # j + n /\ k \in 1..Len(active)
    BY <1>1
  <2>2. loc[active[j + n]].id \notin free
    BY <2>1 DEF ActiveHoldRegisters
  <2> QED
    BY <1>5, <2>1, <2>2 DEF Freed
<1>10. \A j \in 1..Len(active) - n : j + n \in 1..Len(active)
  BY <1>1
<1>11. \A j \in 1..Len(Kept(n)) :
          /\ Kept(n)[j] < next
          /\ loc[Kept(n)[j]].type = "REGISTER"
          /\ loc[Kept(n)[j]].id \notin Freed(n)
  BY <1>2, <1>4, <1>9, <1>10
<1>12. \A j, k \in 1..Len(Kept(n)) : j # k => loc[Kept(n)[j]] # loc[Kept(n)[k]]
  <2> SUFFICES ASSUME NEW j \in 1..Len(Kept(n)), NEW k \in 1..Len(Kept(n)), j # k
               PROVE  loc[Kept(n)[j]] # loc[Kept(n)[k]]
    OBVIOUS
  <2>1. j + n # k + n
    BY <1>1, <1>2
  <2> QED
    BY <1>2, <1>10, <2>1 DEF ActiveHoldRegisters
<1>13. \A k \in 1..Len(Kept(n)), i \in Indices :
          i # Kept(n)[k] /\ Live(i) => loc[i] # loc[Kept(n)[k]]
  BY <1>2, <1>10 DEF ActiveOnce
<1> QED
  BY <1>2, <1>7, <1>8, <1>11, <1>12, <1>13 DEF ActiveLike

-----------------------------------------------------------------------------
(***************************************************************************)
(* A visit that finds a free register: the new interval joins the active   *)
(* list with a register no live interval holds.                            *)
(***************************************************************************)
LEMMA AssignLemma ==
    ASSUME Inv, next \in Indices, NEW n \in 0..Len(active),
           ActiveLike(Kept(n), Freed(n)), AssignToReg(n)
    PROVE  Inv'
<1> DEFINE K == Kept(n)
           F == Freed(n)
<1>1. PICK r \in F, p \in 0..Len(K) :
         /\ loc' = [loc EXCEPT ![next] = Reg(r)]
         /\ free' = Acquired(r, F)
         /\ active' = Insert(K, p, next)
         /\ next' = next + 1
         /\ UNCHANGED <<intervals, slotCounter, status>>
  BY DEF AssignToReg
<1>2. ActiveLike(K, F)
  OBVIOUS
<1> HIDE DEF K, F
<1>3. /\ K \in Seq(Indices)
      /\ Len(K) \in Nat
      /\ \A j \in 1..Len(K) : K[j] \in Indices /\ K[j] # next
  BY <1>2, LenProperties, ElementOfSeq DEF ActiveLike, Indices
<1>4. /\ active' \in Seq(Indices)
      /\ Len(active') = Len(K) + 1
      /\ \A k \in 1..Len(K) + 1 :
            active'[k] = IF k <= p THEN K[k] ELSE IF k = p + 1 THEN next ELSE K[k - 1]
  <2>1. K \in Seq(Indices) /\ p \in 0..Len(K) /\ next \in Indices
    BY <1>3
  <2>2. /\ Insert(K, p, next) \in Seq(Indices)
        /\ Len(Insert(K, p, next)) = Len(K) + 1
        /\ \A k \in 1..Len(K) + 1 :
              Insert(K, p, next)[k] =
                 IF k <= p THEN K[k] ELSE IF k = p + 1 THEN next ELSE K[k - 1]
    BY <2>1, InsertProps
  <2> QED
    BY <1>1, <2>2
<1>5. /\ Indices' = Indices
      /\ \A i \in Indices : Live(i)' <=> Live(i)
  BY <1>1 DEF Indices, Live
<1>6. /\ r \in Registers
      /\ Reg(r) \in Location
      /\ Reg(r).type = "REGISTER"
      /\ Reg(r).id = r
  BY <1>2, LocationParts DEF ActiveLike
<1>7. /\ loc' \in [Indices -> Location]
      /\ loc'[next] = Reg(r)
      /\ \A i \in Indices \ {next} : loc'[i] = loc[i]
  BY <1>1, <1>6 DEF Inv, TypeOK
<1>8. TypeOK'
  <2>1. next' \in 1..Len(intervals') + 1
    BY <1>1 DEF Indices
  <2>2. free' \subseteq Registers
    BY <1>1, <1>2 DEF ActiveLike, Acquired
  <2>3. Registers' = Registers /\ Location' = Location /\ ScanOrder(intervals)' = ScanOrder(intervals)
    BY <1>1 DEF Registers, Location, ScanOrder, Nowhere
  <2> QED
    BY <1>1, <1>4, <1>5, <1>7, <2>1, <2>2, <2>3 DEF Inv, TypeOK
<1>9. SlotsOnce'
  <2>1. \A i \in Indices : i < next + 1 <=> i < next \/ i = next
    BY DEF Indices
  <2>2. \A i \in Indices : i < next' <=> loc'[i].type # "INVALID"
    BY <1>1, <1>6, <1>7, <2>1 DEF Inv, SlotsOnce, Indices
  <2>3. \A i \in Indices : loc'[i].type = "STACK" => i # next
    BY <1>6, <1>7
  <2>4. \A i, j \in Indices :
           i # j /\ loc'[i].type = "STACK" => loc'[i] # loc'[j]
    BY <1>6, <1>7, <2>3 DEF Inv, SlotsOnce
  <2> QED
    BY <1>1, <1>5, <1>7, <2>2, <2>3, <2>4 DEF Inv, SlotsOnce
<1>10. \A i \in Indices \ {next} : Live(i) => loc[i] # Reg(r)
  BY <1>1, <1>2, <1>6 DEF ActiveLike
<1>11. RegistersOnce'
  <2>1. \A i, j \in Indices :
           i # j /\ Live(i) /\ Live(j) /\ loc'[i].type = "REGISTER" => loc'[i] # loc'[j]
    BY <1>7, <1>10 DEF Inv, RegistersOnce
  <2>2. \A i \in Indices :
           Live(i) /\ loc'[i].type = "REGISTER" => loc'[i].id \notin free'
    BY <1>1, <1>2, <1>6, <1>7 DEF ActiveLike, Acquired
  <2> QED
    BY <1>5, <2>1, <2>2 DEF RegistersOnce
<1> DEFINE Old(k) == IF k <= p THEN k ELSE k - 1
<1>12. \A k \in 1..Len(K) + 1 :
          \/ k = p + 1 /\ active'[k] = next
          \/ k # p + 1 /\ Old(k) \in 1..Len(K) /\ active'[k] = K[Old(k)]
  BY <1>3, <1>4
<1>13. \A j \in 1..Len(K) :
          /\ loc'[K[j]] = loc[K[j]]
          /\ loc[K[j]] # Reg(r)
  BY <1>1, <1>2, <1>3, <1>6, <1>7 DEF ActiveLike
<1>14. ActiveHoldRegisters'
  <2>1. \A k \in 1..Len(K) + 1 :
           /\ active'[k] < next'
           /\ loc'[active'[k]].type = "REGISTER"
           /\ loc'[active'[k]].id \notin free'
    <3> SUFFICES ASSUME NEW k \in 1..Len(K) + 1
                 PROVE  /\ active'[k] < next'
                        /\ loc'[active'[k]].type = "REGISTER"
                        /\ loc'[active'[k]].id \notin free'
      OBVIOUS
    <3>1. CASE active'[k] = next
      BY <1>1, <1>6, <1>7, <3>1 DEF Acquired, Indices
    <3>2. ASSUME NEW j \in 1..Len(K), active'[k] = K[j]
          PROVE  /\ active'[k] < next'
                 /\ loc'[active'[k]].type = "REGISTER"
                 /\ loc'[active'[k]].id \notin free'
      <4>1. K[j] \in Nat /\ next \in Nat
        BY <1>3 DEF Indices
      <4>2. K[j] < next
        BY <1>2 DEF ActiveLike
      <4>3. K[j] < next'
        BY <1>1, <4>1, <4>2
      <4>4. loc[K[j]].type = "REGISTER" /\ loc[K[j]].id \notin free'
        BY <1>1, <1>2 DEF ActiveLike, Acquired
      <4> QED
        BY <1>13, <3>2, <4>3, <4>4
    <3> QED
      BY <1>12, <3>1, <3>2
  <2>2. \A j, k \in 1..Len(K) + 1 : j # k => loc'[active'[j]] # loc'[active'[k]]
    <3> SUFFICES ASSUME NEW j \in 1..Len(K) + 1, NEW k \in 1..Len(K) + 1, j # k
                 PROVE  loc'[active'[j]] # loc'[active'[k]]
      OBVIOUS
    <3>1. CASE j # p + 1 /\ k # p + 1
      <4>1. Old(j) # Old(k)
        BY <1>3, <3>1
      <4>2. /\ Old(j) \in 1..Len(K) /\ active'[j] = K[Old(j)]
            /\ Old(k) \in 1..Len(K) /\ active'[k] = K[Old(k)]
        BY <1>12, <3>1
      <4> HIDE DEF Old
      <4>3. loc[K[Old(j)]] # loc[K[Old(k)]]
        BY <1>2, <4>1, <4>2 DEF ActiveLike
      <4> QED
        BY <1>13, <4>2, <4>3
    <3>2. CASE j = p + 1
      <4>1. /\ active'[j] = next
            /\ Old(k) \in 1..Len(K)
            /\ active'[k] = K[Old(k)]
        BY <1>12, <3>2
      <4> HIDE DEF Old
      <4> QED
        BY <1>7, <1>13, <4>1
    <3>3. CASE k = p + 1
      <4>1. /\ active'[k] = next
            /\ Old(j) \in 1..Len(K)
            /\ active'[j] = K[Old(j)]
        BY <1>12, <3>3
      <4> HIDE DEF Old
      <4> QED
        BY <1>7, <1>13, <4>1
    <3> QED
      BY <3>1, <3>2, <3>3
  <2> QED
    BY <1>4, <2>1, <2>2 DEF ActiveHoldRegisters
<1>15. ActiveOnce'
  <2> SUFFICES ASSUME NEW k \in 1..Len(K) + 1, NEW i \in Indices,
                      i # active'[k], Live(i)
               PROVE  loc'[i] # loc'[active'[k]]
    BY <1>4, <1>5 DEF ActiveOnce
  <2>1. CASE active'[k] = next
    BY <1>7, <1>10, <2>1
  <2>2. ASSUME NEW j \in 1..Len(K), active'[k] = K[j]
        PROVE  loc'[i] # loc'[active'[k]]
    BY <1>2, <1>7, <1>13, <2>2 DEF ActiveLike
  <2> QED
    BY <1>12, <2>1, <2>2
<1> QED
  BY <1>8, <1>9, <1>11, <1>14, <1>15 DEF Inv

-----------------------------------------------------------------------------
(* A visit that spills the new interval: it gets a slot nobody has. *)
LEMMA SpillLemma ==
    ASSUME Inv, next \in Indices, NEW n \in 0..Len(active),
           ActiveLike(Kept(n), Freed(n)), SpillNew(n)
    PROVE  Inv'
<1> DEFINE K == Kept(n)
           F == Freed(n)
<1>1. /\ slotCounter < MaxSlots
      /\ loc' = [loc EXCEPT ![next] = Slot(slotCounter)]
      /\ slotCounter' = slotCounter + 1
      /\ free' = F
      /\ active' = K
      /\ next' = next + 1
      /\ UNCHANGED <<intervals, status>>
  BY DEF SpillNew, CanSpill, NextSlot
<1>2. ActiveLike(K, F)
  OBVIOUS
<1> HIDE DEF K, F
<1>3. /\ K \in Seq(Indices)
      /\ Len(K) \in Nat
      /\ \A j \in 1..Len(K) : K[j] \in Indices /\ K[j] # next
  BY <1>2, LenProperties, ElementOfSeq DEF ActiveLike, Indices
<1>4. /\ slotCounter \in 0..MaxSlots
      /\ slotCounter \in Nat
      /\ slotCounter' \in 0..MaxSlots
  <2>1. slotCounter \in 0..MaxSlots
    BY DEF Inv, TypeOK
  <2> QED
    BY <1>1, <2>1, ArchAssumption
<1>5. /\ Indices' = Indices
      /\ \A i \in Indices : Live(i)' <=> Live(i)
  BY <1>1 DEF Indices, Live
<1>6. /\ Slot(slotCounter) \in Location
      /\ Slot(slotCounter).type = "STACK"
      /\ Slot(slotCounter).id = slotCounter
  BY <1>4, LocationParts
<1>7. /\ loc' \in [Indices -> Location]
      /\ loc'[next] = Slot(slotCounter)
      /\ \A i \in Indices \ {next} : loc'[i] = loc[i]
  BY <1>1, <1>6 DEF Inv, TypeOK
<1>8. TypeOK'
  <2>1. next' \in 1..Len(intervals') + 1
    BY <1>1 DEF Indices
  <2>2. free' \subseteq Registers
    BY <1>1, <1>2 DEF ActiveLike
  <2>3. Registers' = Registers /\ Location' = Location /\ ScanOrder(intervals)' = ScanOrder(intervals)
    BY <1>1 DEF Registers, Location, ScanOrder, Nowhere
  <2> QED
    BY <1>1, <1>3, <1>4, <1>5, <1>7, <2>1, <2>2, <2>3 DEF Inv, TypeOK
<1>9. SlotsOnce'
  <2>1. \A i \in Indices : i < next' <=> loc'[i].type # "INVALID"
    BY <1>1, <1>6, <1>7 DEF Inv, SlotsOnce, Indices
  <2>2. \A i \in Indices : loc[i].type = "STACK" => loc[i].id \in 0..MaxSlots
    BY LocationParts DEF Inv, TypeOK
  <2>3. \A i \in Indices : loc'[i].type = "STACK" => loc'[i].id < slotCounter'
    BY <1>1, <1>4, <1>6, <1>7, <2>2 DEF Inv, SlotsOnce
  <2>4. \A i \in Indices : loc[i].type = "STACK" => loc[i] # Slot(slotCounter)
    BY <1>4, <1>6, <2>2 DEF Inv, SlotsOnce
  <2>5. \A i, j \in Indices :
           i # j /\ loc'[i].type = "STACK" => loc'[i] # loc'[j]
    BY <1>6, <1>7, <2>4 DEF Inv, SlotsOnce
  <2> QED
    BY <1>5, <2>1, <2>3, <2>5 DEF SlotsOnce
<1>10. RegistersOnce'
  <2>1. \A i, j \in Indices :
           i # j /\ Live(i) /\ Live(j) /\ loc'[i].type = "REGISTER" => loc'[i] # loc'[j]
    BY <1>6, <1>7 DEF Inv, RegistersOnce
  <2>2. \A i \in Indices :
           Live(i) /\ loc'[i].type = "REGISTER" => loc'[i].id \notin free'
    BY <1>1, <1>2, <1>6, <1>7 DEF ActiveLike
  <2> QED
    BY <1>5, <2>1, <2>2 DEF RegistersOnce
<1>11. ActiveHoldRegisters'
  <2>1. \A j \in 1..Len(K) : K[j] < next'
    BY <1>1, <1>2, <1>3 DEF ActiveLike, Indices
  <2>2. \A j \in 1..Len(K) : loc'[K[j]] = loc[K[j]]
    BY <1>3, <1>7
  <2> QED
    BY <1>1, <1>2, <2>1, <2>2 DEF ActiveLike, ActiveHoldRegisters
<1>12. ActiveOnce'
  <2>1. \A j \in 1..Len(K) : loc'[K[j]] = loc[K[j]] /\ loc[K[j]].type = "REGISTER"
    BY <1>2, <1>3, <1>7 DEF ActiveLike
  <2>2. \A k \in 1..Len(K), i \in Indices : i # K[k] /\ Live(i) => loc'[i] # loc'[K[k]]
    BY <1>2, <1>6, <1>7, <2>1 DEF ActiveLike
  <2> QED
    BY <1>1, <1>5, <2>2 DEF ActiveOnce
<1> QED
  BY <1>8, <1>9, <1>10, <1>11, <1>12 DEF Inv

-----------------------------------------------------------------------------
(***************************************************************************)
(* A visit that takes a register over: its former holder leaves the active *)
(* list with a fresh slot, so the register still has one live owner.       *)
(***************************************************************************)
LEMMA StealLemma ==
    ASSUME Inv, next \in Indices, NEW n \in 0..Len(active),
           ActiveLike(Kept(n), Freed(n)), StealRegister(n)
    PROVE  Inv'
<1> DEFINE K == Kept(n)
           F == Freed(n)
           L == Last(K)
<1>1. /\ K # <<>>
      /\ slotCounter < MaxSlots
      /\ loc' = [loc EXCEPT ![L] = Slot(slotCounter), ![next] = loc[L]]
      /\ slotCounter' = slotCounter + 1
      /\ free' = F
      /\ active' = Front(K)
      /\ next' = next + 1
      /\ UNCHANGED <<intervals, status>>
  BY DEF StealRegister, CanSpill, NextSlot
<1>2. ActiveLike(K, F)
  OBVIOUS
<1> HIDE DEF K, F
<1>3. /\ K \in Seq(Indices)
      /\ Len(K) \in Nat \ {0}
      /\ \A j \in 1..Len(K) : K[j] \in Indices /\ K[j] # next
  BY <1>1, <1>2, EmptySeq, LenProperties, ElementOfSeq DEF ActiveLike, Indices
<1>4. L = K[Len(K)] /\ Len(K) \in 1..Len(K)
  BY <1>3 DEF Last
<1> HIDE DEF L
<1>5. L \in Indices /\ L # next /\ L < next
  BY <1>2, <1>3, <1>4 DEF ActiveLike
<1>6. /\ active' \in Seq(Indices)
      /\ Len(active') = Len(K) - 1
      /\ \A j \in 1..Len(K) - 1 : active'[j] = K[j]
  BY <1>1, <1>3, FrontProps
<1>7. slotCounter \in 0..MaxSlots /\ slotCounter \in Nat /\ slotCounter' \in 0..MaxSlots
  <2>1. slotCounter \in 0..MaxSlots
    BY DEF Inv, TypeOK
  <2> QED
    BY <1>1, <2>1, ArchAssumption
<1>8. /\ Indices' = Indices
      /\ \A i \in Indices : Live(i)' <=> Live(i)
  BY <1>1 DEF Indices, Live
<1>9. /\ Slot(slotCounter) \in Location
      /\ Slot(slotCounter).type = "STACK"
      /\ Slot(slotCounter).id = slotCounter
      /\ loc[L] \in Location
      /\ loc[L].type = "REGISTER"
  BY <1>2, <1>4, <1>5, <1>7, LocationParts DEF ActiveLike, Inv, TypeOK
<1>10. /\ loc' \in [Indices -> Location]
       /\ loc'[next] = loc[L]
       /\ loc'[L] = Slot(slotCounter)
       /\ \A i \in Indices \ {next, L} : loc'[i] = loc[i]
  BY <1>1, <1>5, <1>9 DEF Inv, TypeOK
<1>11. TypeOK'
  <2>1. next' \in 1..Len(intervals') + 1
    BY <1>1 DEF Indices
  <2>2. free' \subseteq Registers
    BY <1>1, <1>2 DEF ActiveLike
  <2>3. Registers' = Registers /\ Location' = Location /\ ScanOrder(intervals)' = ScanOrder(intervals)
    BY <1>1 DEF Registers, Location, ScanOrder, Nowhere
  <2> QED
    BY <1>1, <1>6, <1>7, <1>8, <1>10, <2>1, <2>2, <2>3 DEF Inv, TypeOK
<1>12. SlotsOnce'
  <2>1. \A i \in Indices : i < next' <=> loc'[i].type # "INVALID"
    BY <1>1, <1>5, <1>9, <1>10 DEF Inv, SlotsOnce, Indices
  <2>2. \A i \in Indices : loc[i].type = "STACK" => loc[i].id \in 0..MaxSlots
    BY LocationParts DEF Inv, TypeOK
  <2>3. \A i \in Indices : loc'[i].type = "STACK" => loc'[i].id < slotCounter'
    BY <1>1, <1>7, <1>9, <1>10, <2>2 DEF Inv, SlotsOnce
  <2>4. \A i \in Indices : loc[i].type = "STACK" => loc[i] # Slot(slotCounter)
    BY <1>7, <1>9, <2>2 DEF Inv, SlotsOnce
  <2>5. \A i, j \in Indices :
           i # j /\ loc'[i].type = "STACK" => loc'[i] # loc'[j]
    BY <1>9, <1>10, <2>4 DEF Inv, SlotsOnce
  <2> QED
    BY <1>8, <2>1, <2>3, <2>5 DEF SlotsOnce
<1>13. \A i \in Indices \ {L} : Live(i) => loc[i] # loc[L]
  BY <1>2, <1>4 DEF ActiveLike
<1>14. RegistersOnce'
  <2>1. \A i, j \in Indices :
           i # j /\ Live(i) /\ Live(j) /\ loc'[i].type = "REGISTER" => loc'[i] # loc'[j]
    BY <1>9, <1>10, <1>13 DEF Inv, RegistersOnce
  <2>2. loc[L].id \notin F
    BY <1>2, <1>4 DEF ActiveLike
  <2>3. \A i \in Indices :
           Live(i) /\ loc'[i].type = "REGISTER" => loc'[i].id \notin free'
    BY <1>1, <1>2, <1>9, <1>10, <2>2 DEF ActiveLike
  <2> QED
    BY <1>8, <2>1, <2>3 DEF RegistersOnce
<1>15. \A j \in 1..Len(K) - 1 :
          /\ j \in 1..Len(K)
          /\ j # Len(K)
          /\ K[j] \in Indices \ {next, L}
          /\ loc'[K[j]] = loc[K[j]]
          /\ loc[K[j]].type = "REGISTER"
          /\ loc[K[j]] # loc[L]
  <2>1. \A j \in 1..Len(K) - 1 : j \in 1..Len(K) /\ j # Len(K)
    BY <1>3
  <2>2. \A j \in 1..Len(K) - 1 : loc[K[j]].type = "REGISTER" /\ loc[K[j]] # loc[L]
    BY <1>2, <1>4, <2>1 DEF ActiveLike
  <2>3. \A j \in 1..Len(K) - 1 : K[j] \in Indices \ {next, L}
    BY <1>3, <2>1, <2>2
  <2> QED
    BY <1>10, <2>1, <2>2, <2>3
<1>16. ActiveHoldRegisters'
  <2>1. \A j \in 1..Len(K) - 1 : K[j] < next'
    BY <1>1, <1>2, <1>15 DEF ActiveLike, Indices
  <2>2. \A j \in 1..Len(K) - 1 : loc[K[j]].id \notin free'
    BY <1>1, <1>2, <1>15 DEF ActiveLike
  <2>3. \A j, k \in 1..Len(K) - 1 : j # k => loc[K[j]] # loc[K[k]]
    BY <1>2, <1>15 DEF ActiveLike
  <2>4. ASSUME NEW j \in 1..Len(active')
        PROVE  /\ active'[j] < next'
               /\ loc'[active'[j]].type = "REGISTER"
               /\ loc'[active'[j]].id \notin free'
    BY <1>6, <1>15, <2>1, <2>2
  <2>5. ASSUME NEW j \in 1..Len(active'), NEW k \in 1..Len(active'), j # k
        PROVE  loc'[active'[j]] # loc'[active'[k]]
    BY <1>6, <1>15, <2>3, <2>5
  <2> QED
    BY <2>4, <2>5 DEF ActiveHoldRegisters
<1>17. ActiveOnce'
  <2>1. \A k \in 1..Len(K) - 1, i \in Indices : i # K[k] /\ Live(i) => loc'[i] # loc[K[k]]
    <3> SUFFICES ASSUME NEW k \in 1..Len(K) - 1, NEW i \in Indices, i # K[k], Live(i)
                 PROVE  loc'[i] # loc[K[k]]
      OBVIOUS
    <3>1. loc[K[k]].type = "REGISTER" /\ loc[K[k]] # loc[L] /\ k \in 1..Len(K)
      BY <1>15
    <3>2. CASE i = next
      BY <1>10, <3>1, <3>2
    <3>3. CASE i = L
      BY <1>9, <1>10, <3>1, <3>3
    <3>4. CASE i \notin {next, L}
      BY <1>2, <1>10, <3>1, <3>4 DEF ActiveLike
    <3> QED
      BY <3>2, <3>3, <3>4
  <2> QED
    BY <1>6, <1>8, <1>15, <2>1 DEF ActiveOnce
<1> QED
  BY <1>11, <1>12, <1>14, <1>16, <1>17 DEF Inv

-----------------------------------------------------------------------------
(* An assertion that stops the pass changes nothing but the active list. *)
LEMMA AbortLemma ==
    ASSUME Inv, next \in Indices, NEW n \in 0..Len(active),
           ActiveLike(Kept(n), Freed(n)), Abort(n)
    PROVE  Inv'
<1> DEFINE K == Kept(n)
           F == Freed(n)
<1>1. /\ F = {}
      /\ active' = K
      /\ status' \in {"no active interval", "no slot"}
      /\ UNCHANGED <<intervals, next, free, loc, slotCounter>>
  BY DEF Abort
<1>2. free = {}
  BY <1>1 DEF Freed
<1>3. ActiveLike(K, F)
  OBVIOUS
<1> HIDE DEF K, F
<1>4. Indices' = Indices /\ (\A i \in Indices : Live(i)' <=> Live(i))
  BY <1>1 DEF Indices, Live
<1>5. TypeOK'
  <2>1. Registers' = Registers /\ Location' = Location /\ ScanOrder(intervals)' = ScanOrder(intervals)
    BY <1>1 DEF Registers, Location, ScanOrder, Nowhere
  <2> QED
    BY <1>1, <1>3, <1>4, <2>1 DEF Inv, TypeOK, ActiveLike
<1>6. SlotsOnce' /\ RegistersOnce'
  BY <1>1, <1>4 DEF Inv, SlotsOnce, RegistersOnce
<1>7. ActiveHoldRegisters' /\ ActiveOnce'
  BY <1>1, <1>2, <1>3, <1>4 DEF ActiveLike, ActiveHoldRegisters, ActiveOnce
<1> QED
  BY <1>5, <1>6, <1>7 DEF Inv

(* The end of the scan and a stuttering step keep the invariant. *)
LEMMA StutterLemma ==
    ASSUME Inv, UNCHANGED <<intervals, next, active, free, loc, slotCounter>>,
           status' \in {status, "done"}
    PROVE  Inv'
<1>1. Indices' = Indices /\ (\A i \in Indices : Live(i)' <=> Live(i))
  BY DEF Indices, Live
<1>2. TypeOK'
  <2>1. Registers' = Registers /\ Location' = Location /\ ScanOrder(intervals)' = ScanOrder(intervals)
    BY DEF Registers, Location, ScanOrder, Nowhere
  <2> QED
    BY <1>1, <2>1 DEF Inv, TypeOK
<1>3. SlotsOnce' /\ RegistersOnce' /\ ActiveHoldRegisters' /\ ActiveOnce'
  BY <1>1 DEF Inv, SlotsOnce, RegistersOnce, ActiveHoldRegisters, ActiveOnce
<1> QED
  BY <1>2, <1>3 DEF Inv

(* The invariant holds at the start and through every visit. *)
LEMMA Invariance == Spec => []Inv
<1>1. Init => Inv
  <2> SUFFICES ASSUME Init PROVE Inv
    OBVIOUS
  <2>1. intervals \in Seq(Hull) /\ ScanOrder(intervals)
    BY HullsAssumption DEF Init
  <2>2. Len(intervals) \in Nat /\ active \in Seq(Indices) /\ Len(active) = 0
    BY <2>1, LenProperties, EmptySeq DEF Init
  <2>3. \A i \in Indices : loc[i] = Nowhere
    BY DEF Init, Indices
  <2>4. TypeOK
    BY <2>1, <2>2, LocationParts, ArchAssumption DEF Init, TypeOK, Indices
  <2>5. SlotsOnce /\ RegistersOnce
    BY <2>2, <2>3, LocationParts DEF Init, SlotsOnce, RegistersOnce, Indices
  <2>6. ActiveHoldRegisters /\ ActiveOnce
    BY <2>2 DEF ActiveHoldRegisters, ActiveOnce
  <2> QED
    BY <2>4, <2>5, <2>6 DEF Inv
<1>2. Inv /\ [Next]_vars => Inv'
  <2> SUFFICES ASSUME Inv, [Next]_vars PROVE Inv'
    OBVIOUS
  <2>1. CASE Visit
    <3>1. next \in Indices
      BY <2>1 DEF Visit
    <3>2. PICK n \in 0..Len(active) :
             /\ Expire(n)
             /\ AssignToReg(n) \/ SpillNew(n) \/ StealRegister(n) \/ Abort(n)
      BY <2>1 DEF Visit
    <3>3. ActiveLike(Kept(n), Freed(n))
      BY <3>1, <3>2, ExpireLemma
    <3> QED
      BY <3>1, <3>2, <3>3, AssignLemma, SpillLemma, StealLemma, AbortLemma
  <2>2. CASE Finish
    BY <2>2, StutterLemma DEF Finish
  <2>3. CASE UNCHANGED vars
    BY <2>3, StutterLemma DEF vars
  <2> QED
    BY <2>1, <2>2, <2>3 DEF Next
<1> QED
  BY <1>1, <1>2, PTL DEF Spec

-----------------------------------------------------------------------------
(***************************************************************************)
(* LinearScanRegAlloc never gives two intervals that are live at the same  *)
(* place one register or one slot (allocateAndAssignRegs).                 *)
(***************************************************************************)
THEOREM Safety == Spec => []NoClash
<1>1. Inv => NoClash
  <2> SUFFICES ASSUME Inv, NEW i \in 1..next - 1, NEW j \in 1..next - 1,
                      i # j, Overlap(i, j)
               PROVE  loc[i] # loc[j]
    BY DEF NoClash
  <2>1. /\ intervals \in Seq(Hull)
        /\ Len(intervals) \in Nat
        /\ next \in 1..Len(intervals) + 1
    BY LenProperties DEF Inv, TypeOK
  <2>2. i \in Indices /\ j \in Indices /\ i < next /\ j < next
    BY <2>1 DEF Indices
  <2>3. intervals[i] \in Hull /\ intervals[j] \in Hull
    BY <2>1, <2>2, ElementOfSeq DEF Indices
  <2>4. Live(i) /\ Live(j)
    BY <2>3 DEF Overlap, Live, Dead, Begin, End, Hull
  <2>5. loc[i].type # "INVALID" /\ loc[i] \in Location
    BY <2>2 DEF Inv, SlotsOnce, TypeOK
  <2>6. CASE loc[i].type = "REGISTER"
    BY <2>2, <2>4, <2>6 DEF Inv, RegistersOnce
  <2>7. CASE loc[i].type = "STACK"
    BY <2>2, <2>7 DEF Inv, SlotsOnce
  <2> QED
    BY <2>5, <2>6, <2>7 DEF Location, Nowhere
<1> QED
  BY <1>1, Invariance, PTL

(***************************************************************************)
(* The bits of RegMap never call free a register that an interval still    *)
(* live at the next visit holds, taken over or not.                        *)
(***************************************************************************)
THEOREM FreeRegisters == Spec => []FreeIsUnheld
<1>1. Inv => FreeIsUnheld
  <2> SUFFICES ASSUME Inv, NEW i \in 1..next - 1, loc[i].type = "REGISTER",
                      loc[i].id \in free, next \in Indices
               PROVE  End(i) <= Begin(next)
    BY DEF FreeIsUnheld
  <2>1. /\ intervals \in Seq(Hull)
        /\ Len(intervals) \in Nat
        /\ next \in 1..Len(intervals) + 1
    BY LenProperties DEF Inv, TypeOK
  <2>2. i \in Indices
    BY <2>1 DEF Indices
  <2>3. intervals[next] \in Hull
    BY <2>1, ElementOfSeq DEF Indices
  <2>4. End(i) = 0
    BY <2>2 DEF Inv, RegistersOnce, Live, Dead, End
  <2> QED
    BY <2>3, <2>4 DEF Begin, Hull
<1> QED
  BY <1>1, Invariance, PTL

(***************************************************************************)
(* The active list and RegMap agree throughout the pass: whoever is active *)
(* holds a register of its own that is not free.                           *)
(***************************************************************************)
THEOREM ActiveRegisters == Spec => []ActiveHoldRegisters
<1>1. Inv => ActiveHoldRegisters
  BY DEF Inv
<1> QED
  BY <1>1, Invariance, PTL

(***************************************************************************)
(* One visit keeps the active list sorted by end: expiry takes a prefix, a *)
(* take-over the last one, and addActiveInterval inserts at the right      *)
(* place.                                                                  *)
(***************************************************************************)
LEMMA SortedStep ==
    ASSUME Inv, ActiveSorted, Visit
    PROVE  ActiveSorted'
<1>1. next \in Indices /\ intervals' = intervals
  BY DEF Visit, AssignToReg, SpillNew, StealRegister, Abort
<1>2. PICK n \in 0..Len(active) :
         AssignToReg(n) \/ SpillNew(n) \/ StealRegister(n) \/ Abort(n)
  BY DEF Visit
<1> DEFINE K == Kept(n)
<1>3. /\ active \in Seq(Indices)
      /\ Len(active) \in Nat
  BY LenProperties DEF Inv, TypeOK
<1>4. /\ K \in Seq(Indices)
      /\ Len(K) = Len(active) - n
      /\ \A k \in 1..Len(active) - n : K[k] = active[k + n]
  BY <1>3, KeptProps
<1> HIDE DEF K
<1>5. Len(K) \in Nat /\ \A k \in 1..Len(K) : K[k] \in Indices
  BY <1>4, LenProperties, ElementOfSeq
<1>6. \A i \in Indices : End(i) \in Nat /\ End(i)' = End(i)
  <2>1. intervals \in Seq(Hull)
    BY DEF Inv, TypeOK
  <2>2. \A i \in Indices : intervals[i] \in Hull
    BY <2>1, ElementOfSeq DEF Indices
  <2> QED
    BY <1>1, <2>2 DEF Hull, End
<1>7. \A j, k \in 1..Len(K) : j < k => End(K[j]) <= End(K[k])
  <2> SUFFICES ASSUME NEW j \in 1..Len(K), NEW k \in 1..Len(K), j < k
               PROVE  End(K[j]) <= End(K[k])
    OBVIOUS
  <2>1. /\ j + n \in 1..Len(active)
        /\ k + n \in 1..Len(active)
        /\ j + n < k + n
    BY <1>3, <1>4
  <2> QED
    BY <1>4, <2>1 DEF ActiveSorted
<1>8. CASE SpillNew(n) \/ Abort(n)
  <2>1. active' = K
    BY <1>8 DEF SpillNew, Abort, K
  <2> QED
    BY <1>5, <1>6, <1>7, <2>1 DEF ActiveSorted
<1>9. CASE StealRegister(n)
  <2>1. K # <<>> /\ active' = Front(K)
    BY <1>9 DEF StealRegister, CanSpill, K
  <2>2. /\ Len(active') = Len(K) - 1
        /\ \A j \in 1..Len(K) - 1 : active'[j] = K[j]
    BY <1>4, <2>1, FrontProps
  <2>3. \A j \in 1..Len(K) - 1 : j \in 1..Len(K)
    BY <1>5
  <2>4. \A j \in 1..Len(K) - 1 : End(active[j])' = End(K[j])
    BY <1>5, <1>6, <2>2, <2>3
  <2> QED
    BY <1>7, <2>2, <2>3, <2>4 DEF ActiveSorted
<1>10. CASE AssignToReg(n)
  <2>1. PICK p \in 0..Len(K) : InsertPoint(p, K) /\ active' = Insert(K, p, next)
    BY <1>10 DEF AssignToReg, K
  <2>2. /\ Len(active') = Len(K) + 1
        /\ \A k \in 1..Len(K) + 1 :
              active'[k] = IF k <= p THEN K[k] ELSE IF k = p + 1 THEN next ELSE K[k - 1]
    <3>1. /\ Insert(K, p, next) \in Seq(Indices)
          /\ Len(Insert(K, p, next)) = Len(K) + 1
          /\ \A k \in 1..Len(K) + 1 :
                Insert(K, p, next)[k] =
                   IF k <= p THEN K[k] ELSE IF k = p + 1 THEN next ELSE K[k - 1]
      <4>1. K \in Seq(Indices) /\ p \in 0..Len(K) /\ next \in Indices
        BY <1>1, <1>4
      <4> QED
        BY <4>1, InsertProps
    <3> QED
      BY <2>1, <3>1
  <2>3. \A k \in 1..Len(K) + 1 :
           /\ k <= p => k \in 1..Len(K)
           /\ k > p + 1 => k - 1 \in 1..Len(K)
    BY <1>5
  <2>4. \A k \in 1..Len(K) + 1 :
           End(active[k])' = IF k <= p THEN End(K[k])
                              ELSE IF k = p + 1 THEN End(next) ELSE End(K[k - 1])
    BY <1>1, <1>5, <1>6, <2>2, <2>3
  <2>5. \A k \in 1..Len(K) : k <= p => End(K[k]) <= End(next)
    BY <1>1, <1>5, <1>6, <2>1 DEF InsertPoint
  <2>6. \A k \in 1..Len(K) : k > p => End(next) <= End(K[k])
    <3> SUFFICES ASSUME NEW k \in 1..Len(K), k > p
                 PROVE  End(next) <= End(K[k])
      OBVIOUS
    <3>1. p + 1 \in 1..Len(K) /\ (k = p + 1 \/ p + 1 < k)
      BY <1>5
    <3>2. End(next) <= End(K[p + 1])
      BY <1>5, <2>1, <3>1 DEF InsertPoint
    <3>3. End(K[p + 1]) <= End(K[k])
      BY <1>5, <1>6, <1>7, <3>1
    <3> QED
      BY <1>1, <1>5, <1>6, <3>1, <3>2, <3>3
  <2>7. ASSUME NEW j \in 1..Len(K) + 1, NEW k \in 1..Len(K) + 1, j < k
        PROVE  End(active[j])' <= End(active[k])'
    <3>1. CASE k <= p
      BY <1>5, <1>7, <2>3, <2>4, <2>7, <3>1
    <3>2. CASE k = p + 1
      BY <1>5, <2>3, <2>4, <2>5, <2>7, <3>2
    <3>3. CASE k > p + 1 /\ j <= p
      <4>1. /\ j \in 1..Len(K) /\ k - 1 \in 1..Len(K) /\ j < k - 1
        BY <1>5, <2>3, <2>7, <3>3
      <4> QED
        BY <1>7, <2>4, <3>3, <4>1
    <3>4. CASE k > p + 1 /\ j = p + 1
      <4>1. k - 1 \in 1..Len(K) /\ k - 1 > p
        BY <1>5, <2>3, <3>4
      <4> QED
        BY <2>4, <2>6, <3>4, <4>1
    <3>5. CASE k > p + 1 /\ j > p + 1
      <4>1. j - 1 \in 1..Len(K) /\ k - 1 \in 1..Len(K) /\ j - 1 < k - 1
        BY <1>5, <2>3, <2>7, <3>5
      <4> QED
        BY <1>7, <2>4, <3>5, <4>1
    <3> QED
      BY <1>5, <3>1, <3>2, <3>3, <3>4, <3>5
  <2> QED
    BY <2>2, <2>7 DEF ActiveSorted
<1> QED
  BY <1>2, <1>8, <1>9, <1>10

(***************************************************************************)
(* The active list is always in the increasing order of ends that          *)
(* expireOldIntervals and spillAtInterval take for granted.                *)
(***************************************************************************)
THEOREM Sortedness == Spec => []ActiveSorted
<1>1. Init => ActiveSorted
  BY EmptySeq DEF Init, ActiveSorted
<1>2. Inv /\ ActiveSorted /\ [Next]_vars => ActiveSorted'
  <2>1. Inv /\ ActiveSorted /\ Visit => ActiveSorted'
    BY SortedStep
  <2>2. ActiveSorted /\ (Finish \/ UNCHANGED vars) => ActiveSorted'
    BY DEF Finish, vars, ActiveSorted, End
  <2> QED
    BY <2>1, <2>2 DEF Next
<1> QED
  BY <1>1, <1>2, Invariance, PTL DEF Spec

(* Every variable of the pass keeps its type, the slot counter its bound. *)
THEOREM Typing == Spec => []TypeOK
<1>1. Inv => TypeOK
  BY DEF Inv
<1> QED
  BY <1>1, Invariance, PTL

=============================================================================
