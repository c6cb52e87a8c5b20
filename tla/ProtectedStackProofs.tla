------------------------ MODULE ProtectedStackProofs ------------------------
(***************************************************************************)
(* Proofs about the protected stack, for every set of elements, every      *)
(* initial capacity, any number of stray writes and whatever they make of  *)
(* size and capacity.                                                      *)
(*                                                                         *)
(* The inductive invariant relates the stack to what the last operation    *)
(* left: at most one byte differs, in a part that has been hit; and what   *)
(* was left has its size within its array and the right hashes, unless     *)
(* those were hit or it is marked.                                         *)
(***************************************************************************)
EXTENDS ProtectedStack, SequenceTheorems, TLAPS

Cells == Elements \cup {"zero", "poison"}
Lows == {Low(c) : c \in Cells}
Marks == {Whole, "broken", "last byte", "zero"}
Hashes == {NoHash, <<"broken">>} \cup (Marks \X BOOLEAN \X Int \X Int \X Marks)
Subhashes == {<<"broken">>} \cup Seq(Cells \cup Lows)
Structs ==
    [left : Marks, right : Marks, corrupted : BOOLEAN, size : Int, capacity : Int,
     state : {"live", "outside", "freed"}, hash : Hashes, subhash : Subhashes, pointer : Marks,
     data : Seq(Cells)]

\* The array has the cells the capacity says, and one more than the size.
Within(s) == s.capacity > 0 /\ s.size \in 0 .. s.capacity - 1 /\ Len(s.data) = s.capacity

HashesRight(s) == s.hash = StructHash(s) /\ s.subhash = DataHash(s)
Clean(s) == CanariesWhole(s) /\ ~s.corrupted /\ (build.hash => HashesRight(s))

\* The build looks, and has seen nothing.
Guarded == build.debug /\ build.hash /\ ~asLeft.corrupted

\* At most one byte has changed since the last operation, in a part that has been hit.
Touched == stack = asLeft \/ (stack # asLeft /\ \E part \in hit : Hit(part, asLeft, stack))

\* What the last operation left.
LeftInOrder ==
    /\ "pointer" \notin hit => asLeft.pointer = Whole
    /\ "capacity" \notin hit => asLeft.capacity = Len(asLeft.data)
    /\ (hit \cap {"size", "capacity"} = {} \/ Guarded) => Within(asLeft)
    /\ Guarded => HashesRight(asLeft) /\ (build.canary => CanariesWhole(asLeft))
    /\ hit = {} => Clean(asLeft) /\ errors \subseteq {"INVALID_SIZE"}

IInv ==
    /\ build \in Builds /\ faults \in Nat /\ hit \subseteq Parts
    /\ stack \in Structs /\ asLeft \in Structs
    /\ Touched
    /\ asLeft.state = "live" => LeftInOrder
    /\ StaysInside

-----------------------------------------------------------------------------
(* The helpers.                                                            *)

\* Everything but the hashes and the mark of corruption.
SameContents(s, t) ==
    /\ t.left = s.left /\ t.right = s.right /\ t.size = s.size /\ t.capacity = s.capacity
    /\ t.state = s.state /\ t.pointer = s.pointer /\ t.data = s.data

\* Everything but the hashes, the size and the array.
SameFrame(s, t) ==
    /\ t.left = s.left /\ t.right = s.right /\ t.state = s.state /\ t.pointer = s.pointer
    /\ t.corrupted = s.corrupted

\* The hash of the data is a sequence of cells, the last of them without its last byte.
LEMMA DataHashHolds ==
    ASSUME NEW s \in Structs, s.capacity \in Nat, s.capacity <= Len(s.data)
    PROVE  DataHash(s) \in Subhashes
<1>1. s.data \in Seq(Cells) /\ Len(s.data) \in Nat
  BY LenProperties DEF Structs
<1>2. \A i \in 1..s.capacity : s.data[i] \in Cells
  BY <1>1, ElementOfSeq
<1>3. DataHash(s) \in [1..s.capacity -> Cells \cup Lows]
  BY <1>2 DEF DataHash, Lows
<1>4. DataHash(s) \in Seq(Cells \cup Lows)
  BY <1>3, IsASeq
<1> QED
  BY <1>4 DEF Subhashes

\* Hashing again changes the two hashes only, and makes them right.
LEMMA RehashedHolds ==
    ASSUME NEW s \in Structs, s.capacity \in Nat, s.capacity <= Len(s.data)
    PROVE  /\ Rehashed(s) \in Structs /\ SameContents(s, Rehashed(s))
           /\ Rehashed(s).corrupted = s.corrupted
           /\ build.hash => HashesRight(Rehashed(s))
<1>1. StructHash(s) \in Hashes /\ DataHash(s) \in Subhashes
  BY DataHashHolds DEF Structs, StructHash, Hashes, Mark, Marks
<1>2. /\ DoRehash(s) \in Structs /\ SameContents(s, DoRehash(s)) /\ DoRehash(s).corrupted = s.corrupted
      /\ DoRehash(s).hash = StructHash(s) /\ DoRehash(s).subhash = DataHash(s)
  BY <1>1 DEF DoRehash, Structs, SameContents
<1>3. HashesRight(DoRehash(s))
  BY <1>2 DEF HashesRight, StructHash, DataHash, SameContents
<1> QED
  BY <1>2, <1>3 DEF Rehashed, SameContents

\* Verification changes the mark only, never takes it away, sets it when a hash is wrong or a
\* canary broken, and leaves a clean stack unmarked.
LEMMA VerificatorHolds ==
    ASSUME NEW s \in Structs
    PROVE  /\ StackVerificator(s) \in Structs /\ SameContents(s, StackVerificator(s))
           /\ StackVerificator(s).hash = s.hash /\ StackVerificator(s).subhash = s.subhash
           /\ s.corrupted \/ (build.hash /\ ~HashesRight(s)) => StackVerificator(s).corrupted
           /\ build.canary /\ ~CanariesWhole(s) => StackVerificator(s).corrupted
           /\ Clean(s) => ~StackVerificator(s).corrupted
<1> DEFINE c == AfterCanaries(s)
           bad == c.corrupted \/ BadHash(c) \/ BadSubhash(c)
<1>1. /\ c \in Structs /\ SameContents(s, c) /\ c.hash = s.hash /\ c.subhash = s.subhash
      /\ c = s \/ (c.corrupted /\ ~CanariesWhole(s))
      /\ build.canary /\ ~CanariesWhole(s) => c.corrupted
  BY DEF Structs, SameContents, AfterCanaries
<1>2. /\ bad \in BOOLEAN /\ (s.corrupted \/ (build.hash /\ ~HashesRight(s)) => bad) /\ (Clean(s) => ~bad)
      /\ build.canary /\ ~CanariesWhole(s) => bad
  BY <1>1 DEF Structs, BadHash, BadSubhash, HashesRight, Clean
<1>3. StackVerificator(s) = [c EXCEPT !.corrupted = bad]
  BY DEF StackVerificator
<1> HIDE DEF c, bad
<1>4. /\ StackVerificator(s) \in Structs /\ SameContents(c, StackVerificator(s))
      /\ StackVerificator(s).hash = c.hash /\ StackVerificator(s).subhash = c.subhash
      /\ StackVerificator(s).corrupted = bad
  BY <1>1, <1>2, <1>3 DEF Structs, SameContents
<1> QED
  BY <1>1, <1>2, <1>4 DEF SameContents

\* The array is replaced, nothing else.
WithArray(s, n, d) == [s EXCEPT !.capacity = n, !.data = d]
\* Replacing the array of recalloc and the capacity touches no other field.
LEMMA ArrayReplaced ==
    ASSUME NEW s \in Structs, NEW n \in Int, NEW d \in Seq(Cells), NEW r, r = WithArray(s, n, d)
    PROVE  /\ r \in Structs /\ r.data = d /\ r.capacity = n
           /\ r.size = s.size /\ SameFrame(s, r)
  BY DEF WithArray, Structs, SameFrame

\* The capacity is the one asked for, also where it makes no array.
LEMMA ResizedCapacity ==
    ASSUME NEW s \in Structs, NEW n \in Int
    PROVE  Resized(s, n).capacity = n
<1> DEFINE plain == recalloc(s.data, n)
           data == IF build.debug THEN fill_array(plain, s.size) ELSE plain
           r == [s EXCEPT !.capacity = n, !.data = data]
<1>1. r.capacity = n /\ DOMAIN r = DOMAIN s /\ "capacity" \in DOMAIN s
  <2> HIDE DEF data
  <2> QED
    BY DEF Structs
<1>2. Resized(s, n) = Rehashed(r)
  BY DEF Resized
<1> HIDE DEF r
<1>3. Rehashed(r).capacity = r.capacity
  BY DEF Rehashed, DoRehash
<1> QED
  BY <1>1, <1>2, <1>3

\* An array of the new capacity, whichever build fills the rest.
LEMMA ResizedHolds ==
    ASSUME NEW s \in Structs, NEW n \in Nat
    PROVE  /\ Resized(s, n) \in Structs /\ Len(Resized(s, n).data) = n /\ Resized(s, n).capacity = n
           /\ Resized(s, n).size = s.size /\ SameFrame(s, Resized(s, n))
<1> DEFINE plain == recalloc(s.data, n)
           data == IF build.debug THEN fill_array(plain, s.size) ELSE plain
           r == WithArray(s, n, data)
<1>1. s.data \in Seq(Cells) /\ Len(s.data) \in Nat
  BY LenProperties DEF Structs
<1>2. plain \in [1..n -> Cells]
  <2>1. \A i \in 1..n : i <= Len(s.data) => s.data[i] \in Cells
    BY <1>1, ElementOfSeq
  <2> QED
    BY <2>1 DEF recalloc, Cells
<1>3. plain \in Seq(Cells) /\ Len(plain) = n
  BY <1>2, IsASeq, LenProperties
<1>4. data \in [1..n -> Cells]
  <2> HIDE DEF plain
  <2> QED
    BY <1>2, <1>3 DEF fill_array, Cells
<1>5. data \in Seq(Cells) /\ Len(data) = n
  <2> HIDE DEF data
  <2> QED
    BY <1>4, IsASeq, LenProperties
<1>6. r \in Structs /\ r.data = data /\ r.capacity = n /\ r.size = s.size /\ SameFrame(s, r)
  <2> HIDE DEF r, data
  <2>1. r = WithArray(s, n, data)
    BY DEF r
  <2> QED
    BY <1>5, <2>1, n \in Int, ArrayReplaced
<1>7. Resized(s, n) = Rehashed(r)
  BY DEF Resized, WithArray
<1> HIDE DEF r, data
<1>8. r.capacity \in Nat /\ r.capacity <= Len(r.data)
  BY <1>5, <1>6
<1>9. Rehashed(r) \in Structs /\ SameContents(r, Rehashed(r)) /\ Rehashed(r).corrupted = r.corrupted
  BY <1>6, <1>8, RehashedHolds
<1> QED
  BY <1>5, <1>6, <1>7, <1>9 DEF SameContents, SameFrame

\* What INCREASE leaves: an array of its capacity, if that is one, with room for more than one
\* value behind a size that was within the array.
LEMMA IncreaseHolds ==
    ASSUME NEW s \in Structs
    PROVE  /\ INCREASE(s).capacity > 0 =>
                 /\ INCREASE(s) \in Structs /\ INCREASE(s).size = s.size /\ SameFrame(s, INCREASE(s))
                 /\ Len(INCREASE(s).data) = INCREASE(s).capacity
           /\ Within(s) => INCREASE(s).capacity > 0 /\ s.size + 1 < INCREASE(s).capacity
<1> DEFINE n == IF Grows(s) THEN s.capacity * MEMORY_MULTIPLIER ELSE s.capacity
<1>1. s.capacity \in Int /\ s.size \in Int
  BY DEF Structs
<1>2. n \in Int
  BY <1>1 DEF MEMORY_MULTIPLIER
<1>3. Within(s) => n > 0 /\ s.size + 1 < n
  BY <1>1 DEF Grows, MEMORY_MULTIPLIER, Within
<1>4. INCREASE(s) = Resized(s, n)
  BY DEF INCREASE
<1> HIDE DEF n
<1>5. INCREASE(s).capacity = n
  BY <1>2, <1>4, ResizedCapacity
<1>6. ASSUME n > 0
      PROVE  /\ INCREASE(s) \in Structs /\ INCREASE(s).size = s.size /\ SameFrame(s, INCREASE(s))
             /\ Len(INCREASE(s).data) = n
  <2>1. n \in Nat
    BY <1>2, <1>6
  <2> QED
    BY <1>4, <2>1, ResizedHolds
<1> QED
  BY <1>3, <1>5, <1>6

\* What DECREASE leaves: room for one more, if there was.
LEMMA DecreaseHolds ==
    ASSUME NEW s \in Structs
    PROVE  /\ DECREASE(s).capacity > 0 =>
                 /\ DECREASE(s) \in Structs /\ DECREASE(s).size = s.size /\ SameFrame(s, DECREASE(s))
                 /\ Len(DECREASE(s).data) = DECREASE(s).capacity
           /\ Within(s) => DECREASE(s).capacity > 0 /\ s.size < DECREASE(s).capacity
<1> DEFINE n == IF Shrinks(s) THEN s.capacity \div MEMORY_MULTIPLIER ELSE s.capacity
<1>1. s.capacity \in Int /\ s.size \in Int
  BY DEF Structs
<1>2. n \in Int
  BY <1>1 DEF MEMORY_MULTIPLIER
<1>3. Within(s) => n > 0 /\ s.size < n
  BY <1>1 DEF Shrinks, MEMORY_MULTIPLIER, RESIZE_OFFSET, Within
<1>4. DECREASE(s) = Resized(s, n)
  BY DEF DECREASE
<1> HIDE DEF n
<1>5. DECREASE(s).capacity = n
  BY <1>2, <1>4, ResizedCapacity
<1>6. ASSUME n > 0
      PROVE  /\ DECREASE(s) \in Structs /\ DECREASE(s).size = s.size /\ SameFrame(s, DECREASE(s))
             /\ Len(DECREASE(s).data) = n
  <2>1. n \in Nat
    BY <1>2, <1>6
  <2> QED
    BY <1>4, <2>1, ResizedHolds
<1> QED
  BY <1>3, <1>5, <1>6

\* What an operation makes of the stack it is called on: the verified one.
LEMMA VerifiedHolds ==
    ASSUME NEW s \in Structs
    PROVE  /\ Verified(s) \in Structs /\ SameContents(s, Verified(s))
           /\ s.corrupted => Verified(s).corrupted
           /\ Clean(s) => ~Verified(s).corrupted
  BY VerificatorHolds DEF Verified, SameContents, Clean

\* One cell and the size are written.
WithCell(s, k, v, n) == [s EXCEPT !.data[k] = v, !.size = n]
\* A write to a cell of the array leaves as many cells, and the other fields, as they were.
LEMMA CellWritten ==
    ASSUME NEW s \in Structs, NEW k \in 1..Len(s.data), NEW v \in Cells, NEW n \in Int,
           NEW r, r = WithCell(s, k, v, n)
    PROVE  /\ r \in Structs /\ Len(r.data) = Len(s.data) /\ r.size = n
           /\ r.capacity = s.capacity /\ SameFrame(s, r)
<1> DEFINE d == [s.data EXCEPT ![k] = v]
<1>1. s.data \in Seq(Cells)
  BY DEF Structs
<1>2. d \in Seq(Cells) /\ Len(d) = Len(s.data)
  BY <1>1, ExceptSeq
<1>3. r = [s EXCEPT !.data = d, !.size = n]
  BY DEF WithCell, Structs
<1> HIDE DEF d
<1>4. /\ r \in Structs /\ Len(r.data) = Len(s.data) /\ r.size = n
      /\ r.capacity = s.capacity /\ r.data = d
  BY <1>2, <1>3 DEF Structs
<1>5. SameFrame(s, r)
  BY <1>3 DEF Structs, SameFrame
<1> QED
  BY <1>4, <1>5 DEF d

\* What a push and a pop leave, from what verification left, where they stay inside the array.
Pushed(s, v) == WithCell(INCREASE(s), INCREASE(s).size + 1, v, INCREASE(s).size + 1)
Popped(s) == [DECREASE(s) EXCEPT !.size = DECREASE(s).size - 1]
PushFits(s) == INCREASE(s).capacity > 0 /\ INCREASE(s).size \in 0 .. INCREASE(s).capacity - 1
PopFits(s) == DECREASE(s).capacity > 0 /\ DECREASE(s).size \in 1 .. DECREASE(s).capacity

\* A push into an array with room fits, and leaves canaries, pointer and mark alone.
LEMMA PushedHolds ==
    ASSUME NEW s \in Structs, NEW v \in Cells
    PROVE  /\ Within(s) => PushFits(s) /\ Within(Pushed(s, v))
           /\ PushFits(s) =>
                 /\ Pushed(s, v) \in Structs /\ SameFrame(s, Pushed(s, v))
                 /\ Pushed(s, v).capacity > 0 /\ Len(Pushed(s, v).data) = Pushed(s, v).capacity
<1> DEFINE i == INCREASE(s)
           p == Pushed(s, v)
<1>1. /\ i.capacity > 0 => i \in Structs /\ i.size = s.size /\ SameFrame(s, i) /\ Len(i.data) = i.capacity
      /\ Within(s) => i.capacity > 0 /\ s.size + 1 < i.capacity
  BY IncreaseHolds
<1>2. p = WithCell(i, i.size + 1, v, i.size + 1)
  BY DEF Pushed
<1>3. PushFits(s) <=> i.capacity > 0 /\ i.size \in 0 .. i.capacity - 1
  BY DEF PushFits
<1> HIDE DEF i, p
<1>4. Within(s) => i.capacity > 0 /\ i.size \in 0 .. i.capacity - 1 /\ i.size + 1 < i.capacity
  BY <1>1 DEF Within, Structs
<1>5. ASSUME i.capacity > 0, i.size \in 0 .. i.capacity - 1
      PROVE  /\ p \in Structs /\ SameFrame(s, p) /\ p.capacity = i.capacity /\ p.size = i.size + 1
             /\ Len(p.data) = p.capacity
  <2>1. i \in Structs /\ i.size + 1 \in 1..Len(i.data) /\ i.size + 1 \in Int
    BY <1>1, <1>5 DEF Structs
  <2> DEFINE k == i.size + 1
  <2>2. p = WithCell(i, k, v, k) /\ k \in 1..Len(i.data) /\ k \in Int
    BY <1>2, <2>1
  <2> HIDE DEF k
  <2>3. p \in Structs /\ Len(p.data) = Len(i.data) /\ p.size = k /\ p.capacity = i.capacity /\ SameFrame(i, p)
    BY <2>1, <2>2, CellWritten
  <2> QED
    BY <1>1, <1>5, <2>3 DEF SameFrame, k
<1>6. ASSUME Within(s) PROVE Within(p)
  <2>1. i.size \in Int /\ i.capacity \in Int
    BY <1>1, <1>4, <1>6 DEF Structs
  <2> QED
    BY <1>4, <1>5, <1>6, <2>1 DEF Within
<1> QED
  BY <1>3, <1>4, <1>5, <1>6 DEF p

\* So does a pop from a stack that is not empty.
LEMMA PoppedHolds ==
    ASSUME NEW s \in Structs
    PROVE  /\ Within(s) /\ s.size > 0 => PopFits(s) /\ Within(Popped(s))
           /\ PopFits(s) =>
                 /\ Popped(s) \in Structs /\ SameFrame(s, Popped(s))
                 /\ Popped(s).capacity > 0 /\ Len(Popped(s).data) = Popped(s).capacity
<1> DEFINE d == DECREASE(s)
           p == Popped(s)
<1>1. /\ d.capacity > 0 => d \in Structs /\ d.size = s.size /\ SameFrame(s, d) /\ Len(d.data) = d.capacity
      /\ Within(s) => d.capacity > 0 /\ s.size < d.capacity
  BY DecreaseHolds
<1>2. p = [d EXCEPT !.size = d.size - 1]
  BY DEF Popped
<1>3. PopFits(s) <=> d.capacity > 0 /\ d.size \in 1 .. d.capacity
  BY DEF PopFits
<1> HIDE DEF d, p
<1>4. Within(s) /\ s.size > 0 => d.capacity > 0 /\ d.size \in 1 .. d.capacity /\ d.size < d.capacity
  BY <1>1 DEF Within, Structs
<1>5. ASSUME d.capacity > 0, d.size \in 1 .. d.capacity
      PROVE  /\ p \in Structs /\ SameFrame(s, p) /\ p.capacity = d.capacity /\ p.size = d.size - 1
             /\ Len(p.data) = p.capacity
  <2>1. d \in Structs /\ d.size - 1 \in Int /\ SameFrame(s, d) /\ Len(d.data) = d.capacity
    BY <1>1, <1>5 DEF Structs
  <2>2. p \in Structs /\ p.size = d.size - 1 /\ p.capacity = d.capacity /\ p.data = d.data
    BY <1>2, <2>1 DEF Structs
  <2>3. SameFrame(d, p)
    BY <1>2, <2>1 DEF Structs, SameFrame
  <2> QED
    BY <2>1, <2>2, <2>3 DEF SameFrame
<1>6. ASSUME Within(s), s.size > 0 PROVE Within(p)
  <2>1. d.size \in Int /\ d.capacity \in Int
    BY <1>1, <1>4, <1>6 DEF Structs
  <2> QED
    BY <1>4, <1>5, <1>6, <2>1 DEF Within
<1> QED
  BY <1>3, <1>4, <1>5, <1>6 DEF p

\* A clean stack is complained about for nothing but being empty.
LEMMA ErrCodesHolds ==
    ASSUME NEW s \in Structs, Within(s), Clean(s)
    PROVE  ErrCodes(s) \subseteq {"INVALID_SIZE"}
<1>1. s.capacity \in Int /\ s.size \in Int /\ s.capacity > 0 /\ s.size \in 0 .. s.capacity - 1
  BY DEF Structs, Within
<1>2. ~BadHash(AfterCanaries(s)) /\ ~BadSubhash(s) /\ CanariesWhole(s)
  BY DEF Clean, AfterCanaries, BadHash, BadSubhash, HashesRight
<1>3. ~(s.capacity < s.size) /\ ~(s.capacity <= 0)
  BY <1>1
<1> QED
  BY <1>2, <1>3 DEF ErrCodes, ERR_CODES

-----------------------------------------------------------------------------
(* Stray writes.                                                           *)

\* A byte written into one part leaves the others alone.
LEMMA HitHolds ==
    ASSUME NEW s \in Structs, NEW part \in Parts, NEW t, Hit(part, s, t)
    PROVE  /\ t \in Structs /\ t.state = s.state /\ t.corrupted = s.corrupted /\ Len(t.data) = Len(s.data)
           /\ part # "pointer" => t.pointer = s.pointer
           /\ part # "capacity" => t.capacity = s.capacity
           /\ part # "size" => t.size = s.size
           /\ part # "data" => t.data = s.data
<1>1. CASE part = "data"
  <2>1. PICK i \in 1..Len(s.data), v \in Elements : t = [s EXCEPT !.data[i] = v]
    BY <1>1 DEF Hit
  <2> DEFINE d == [s.data EXCEPT ![i] = v]
  <2>2. s.data \in Seq(Cells) /\ v \in Cells
    BY DEF Structs, Cells
  <2>3. d \in Seq(Cells) /\ Len(d) = Len(s.data)
    BY <2>2, ExceptSeq
  <2>4. t = [s EXCEPT !.data = d]
    BY <2>1 DEF Structs
  <2> HIDE DEF d
  <2> QED
    BY <1>1, <2>3, <2>4 DEF Structs
<1>2. CASE part = "size"
  <2>1. PICK n \in StraySizes : t = [s EXCEPT !.size = n]
    BY <1>2 DEF Hit
  <2> QED
    BY <1>2, <2>1, StackAssumption DEF Structs
<1>3. CASE part = "capacity"
  <2>1. PICK n \in StraySizes : t = [s EXCEPT !.capacity = n]
    BY <1>3 DEF Hit
  <2> QED
    BY <1>3, <2>1, StackAssumption DEF Structs
<1>4. CASE part = "pointer"
  BY <1>4 DEF Hit, Structs, Marks
<1>5. CASE part = "canary"
  <2>1. PICK m \in Marks : t = [s EXCEPT !.left = m] \/ t = [s EXCEPT !.right = m]
    BY <1>5 DEF Hit, Marks
  <2>2. CASE t = [s EXCEPT !.left = m]
    BY <1>5, <2>2 DEF Structs
  <2>3. CASE t = [s EXCEPT !.right = m]
    BY <1>5, <2>3 DEF Structs
  <2> QED
    BY <2>1, <2>2, <2>3
<1>6. CASE part = "hash"
  <2>1. t = [s EXCEPT !.hash = <<"broken">>] \/ t = [s EXCEPT !.subhash = <<"broken">>]
    BY <1>6 DEF Hit
  <2>2. <<"broken">> \in Hashes /\ <<"broken">> \in Subhashes
    BY DEF Hashes, Subhashes
  <2>3. CASE t = [s EXCEPT !.hash = <<"broken">>]
    BY <1>6, <2>2, <2>3 DEF Structs
  <2>4. CASE t = [s EXCEPT !.subhash = <<"broken">>]
    BY <1>6, <2>2, <2>4 DEF Structs
  <2> QED
    BY <2>1, <2>3, <2>4
<1> QED
  BY <1>1, <1>2, <1>3, <1>4, <1>5, <1>6 DEF Parts

\* What a stack that differs in one byte from one with the right hashes shows the verification:
\* nothing only if the byte is the last one of the array.
LEMMA OneByteSeen ==
    ASSUME NEW s \in Structs, Within(s), HashesRight(s), build.canary => CanariesWhole(s),
           NEW part \in Parts, NEW t, Hit(part, s, t), t # s, t.pointer = Whole,
           HashesRight(t), build.canary => CanariesWhole(t)
    PROVE  /\ t = [s EXCEPT !.data = t.data] /\ Len(t.data) = Len(s.data)
           /\ \A i \in 1 .. s.capacity - 1 : t.data[i] = s.data[i]
           /\ Low(t.data[s.capacity]) = Low(s.data[s.capacity])
<1>1. StructHash(t) = t.hash /\ StructHash(s) = s.hash /\ DataHash(t) = t.subhash /\ DataHash(s) = s.subhash
  BY DEF HashesRight
<1>2. part # "size"
  <2> SUFFICES ASSUME part = "size" PROVE FALSE
    OBVIOUS
  <2>1. PICK n \in StraySizes : t = [s EXCEPT !.size = n]
    BY DEF Hit
  <2>2. t.size = n /\ t.hash = s.hash
    BY <2>1 DEF Structs
  <2>3. StructHash(t)[3] = n /\ StructHash(s)[3] = s.size
    BY <2>2 DEF StructHash
  <2>4. n = s.size
    BY <1>1, <2>2, <2>3
  <2> QED
    BY <2>1, <2>4 DEF Structs
<1>3. part # "capacity"
  <2> SUFFICES ASSUME part = "capacity" PROVE FALSE
    OBVIOUS
  <2>1. PICK n \in StraySizes : t = [s EXCEPT !.capacity = n]
    BY DEF Hit
  <2>2. t.capacity = n /\ t.hash = s.hash
    BY <2>1 DEF Structs
  <2>3. StructHash(t)[4] = n /\ StructHash(s)[4] = s.capacity
    BY <2>2 DEF StructHash
  <2>4. n = s.capacity
    BY <1>1, <2>2, <2>3
  <2> QED
    BY <2>1, <2>4 DEF Structs
<1>4. part # "pointer"
  BY DEF Hit, Structs, Whole
<1>5. part # "canary"
  <2> SUFFICES ASSUME part = "canary" PROVE FALSE
    OBVIOUS
  <2>1. build.canary
    BY DEF Hit
  <2>2. CASE t = [s EXCEPT !.left = "broken"]
    BY <2>1, <2>2 DEF CanariesWhole, Structs, Whole
  <2>3. ASSUME NEW m \in {"broken", "last byte"}, t = [s EXCEPT !.right = m] PROVE FALSE
    BY <2>1, <2>3 DEF CanariesWhole, Structs, Whole
  <2> QED
    BY <2>1, <2>2, <2>3 DEF Hit
<1>6. part # "hash"
  <2> SUFFICES ASSUME part = "hash" PROVE FALSE
    OBVIOUS
  <2>1. t = [s EXCEPT !.hash = <<"broken">>] \/ t = [s EXCEPT !.subhash = <<"broken">>]
    BY DEF Hit
  <2>2. /\ t.left = s.left /\ t.corrupted = s.corrupted /\ t.size = s.size /\ t.capacity = s.capacity
        /\ t.right = s.right /\ t.data = s.data
    BY <2>1 DEF Structs
  <2>3. StructHash(t) = StructHash(s) /\ DataHash(t) = DataHash(s)
    BY <2>2 DEF StructHash, DataHash
  <2>4. t.hash = s.hash /\ t.subhash = s.subhash
    BY <1>1, <2>3
  <2> QED
    BY <2>1, <2>4 DEF Structs
<1>7. part = "data"
  BY <1>2, <1>3, <1>4, <1>5, <1>6 DEF Parts
<1>8. PICK k \in 1..Len(s.data), v \in Elements : t = [s EXCEPT !.data[k] = v]
  BY <1>7 DEF Hit
<1>9. t = [s EXCEPT !.data = t.data] /\ t.capacity = s.capacity /\ t.subhash = s.subhash /\ Len(t.data) = Len(s.data)
  <2>1. t = [s EXCEPT !.data = [s.data EXCEPT ![k] = v]]
    BY <1>8 DEF Structs
  <2>2. Len(t.data) = Len(s.data)
    BY HitHolds
  <2> QED
    BY <2>1, <2>2 DEF Structs
<1>10. DataHash(t) = DataHash(s) /\ s.capacity \in Nat /\ s.capacity > 0
  BY <1>1, <1>9 DEF Within, Structs
<1>11. \A i \in 1..s.capacity :
          /\ DataHash(t)[i] = IF i = s.capacity THEN Low(t.data[i]) ELSE t.data[i]
          /\ DataHash(s)[i] = IF i = s.capacity THEN Low(s.data[i]) ELSE s.data[i]
  BY <1>9 DEF DataHash
<1>12. ASSUME NEW i \in 1 .. s.capacity - 1 PROVE t.data[i] = s.data[i]
  <2>1. i \in 1..s.capacity /\ i # s.capacity
    BY <1>10
  <2> QED
    BY <1>10, <1>11, <2>1
<1>13. Low(t.data[s.capacity]) = Low(s.data[s.capacity])
  <2>1. s.capacity \in 1..s.capacity
    BY <1>10
  <2> QED
    BY <1>10, <1>11, <2>1
<1> QED
  BY <1>9, <1>12, <1>13

-----------------------------------------------------------------------------
(* The invariant.                                                          *)

\* What is known of the stack an operation is called on.
LEMMA StackHolds ==
    ASSUME IInv, stack.state = "live"
    PROVE  /\ asLeft.state = "live" /\ LeftInOrder /\ stack.corrupted = asLeft.corrupted
           /\ "pointer" \notin hit => stack.pointer = Whole
           /\ "capacity" \notin hit => stack.capacity = Len(stack.data)
           /\ "size" \notin hit => stack.size = asLeft.size
           /\ hit \cap {"size", "capacity"} = {} => Within(stack)
           /\ hit = {} => Clean(stack) /\ stack = asLeft
<1>1. CASE stack = asLeft
  BY <1>1 DEF IInv, LeftInOrder
<1>2. CASE stack # asLeft
  <2>1. PICK part \in hit : Hit(part, asLeft, stack)
    BY <1>2 DEF IInv, Touched
  <2>2. part \in Parts /\ stack \in Structs /\ asLeft \in Structs
    BY DEF IInv
  <2>3. /\ stack.state = asLeft.state /\ stack.corrupted = asLeft.corrupted /\ Len(stack.data) = Len(asLeft.data)
        /\ part # "pointer" => stack.pointer = asLeft.pointer
        /\ part # "capacity" => stack.capacity = asLeft.capacity
        /\ part # "size" => stack.size = asLeft.size
    BY <2>1, <2>2, HitHolds
  <2>4. asLeft.state = "live" /\ LeftInOrder
    BY <2>3 DEF IInv
  <2> QED
    BY <2>3, <2>4 DEF LeftInOrder, Within
<1> QED
  BY <1>1, <1>2

\* With DEBUG and HASH, what verification lets pass is what the last operation left, but for the
\* last byte of the array.
LEMMA Unnoticed ==
    ASSUME IInv, stack.state = "live", build.debug, build.hash, Readable(stack),
           ~StackVerificator(stack).corrupted
    PROVE  /\ ~stack.corrupted /\ Guarded /\ ButForTheLastByte /\ Within(stack) /\ Within(asLeft)
           /\ HashesRight(stack) /\ (build.canary => CanariesWhole(stack))
<1>1. stack \in Structs /\ asLeft \in Structs /\ build \in Builds
  BY DEF IInv
<1>2. ~stack.corrupted /\ HashesRight(stack) /\ (build.canary => CanariesWhole(stack))
  BY <1>1, VerificatorHolds
<1>3. Guarded /\ LeftInOrder
  BY <1>2, StackHolds DEF Guarded
<1>4. Within(asLeft) /\ HashesRight(asLeft) /\ (build.canary => CanariesWhole(asLeft))
  BY <1>3 DEF LeftInOrder
<1>5. CASE stack = asLeft
  <2>1. stack = [asLeft EXCEPT !.data = stack.data]
    BY <1>1, <1>5 DEF Structs
  <2> QED
    BY <1>2, <1>3, <1>4, <1>5, <2>1 DEF ButForTheLastByte
<1>6. CASE stack # asLeft
  <2>1. PICK part \in hit : Hit(part, asLeft, stack)
    BY <1>6 DEF IInv, Touched
  <2>2. part \in Parts /\ stack.pointer = Whole
    BY DEF IInv, Readable
  <2>3. /\ stack = [asLeft EXCEPT !.data = stack.data] /\ Len(stack.data) = Len(asLeft.data)
        /\ \A i \in 1 .. asLeft.capacity - 1 : stack.data[i] = asLeft.data[i]
        /\ Low(stack.data[asLeft.capacity]) = Low(asLeft.data[asLeft.capacity])
    BY <1>1, <1>2, <1>4, <1>6, <2>1, <2>2, OneByteSeen
  <2>4. stack.capacity = asLeft.capacity /\ stack.size = asLeft.size
    BY <1>1, <2>3 DEF Structs
  <2>5. ButForTheLastByte /\ Within(stack)
    BY <1>4, <2>3, <2>4 DEF ButForTheLastByte, Within
  <2> QED
    BY <1>2, <1>3, <1>4, <2>5
<1> QED
  BY <1>5, <1>6

\* An operation that stays inside the array keeps the invariant, if what it leaves is in order
\* whenever what it found was.
LEMMA LeavingKeeps ==
    ASSUME IInv, stack.state = "live", UNCHANGED <<build, faults, hit>>, asLeft' = stack',
           stack' \in Structs, stack'.state = "live", stack'.pointer = stack.pointer,
           "capacity" \notin hit => stack'.capacity = Len(stack'.data),
           Within(stack) => Within(stack'),
           (build.debug /\ build.hash /\ ~stack'.corrupted) =>
               Within(stack) /\ HashesRight(stack') /\ (build.canary => CanariesWhole(stack')),
           hit = {} => Clean(stack') /\ errors' \subseteq {"INVALID_SIZE"}
    PROVE  IInv'
<1>1. /\ "pointer" \notin hit => stack.pointer = Whole
      /\ hit \cap {"size", "capacity"} = {} => Within(stack)
  BY StackHolds
<1>2. /\ Within(asLeft)' <=> Within(stack')
      /\ HashesRight(asLeft)' <=> HashesRight(stack')
      /\ CanariesWhole(asLeft)' <=> CanariesWhole(stack')
      /\ Clean(asLeft)' <=> Clean(stack')
  BY DEF Within, HashesRight, StructHash, DataHash, CanariesWhole, Clean
<1>3. LeftInOrder'
  BY <1>1, <1>2 DEF LeftInOrder, Guarded
<1> QED
  BY <1>3 DEF IInv, Touched, StaysInside

\* An operation that would leave the array keeps it, if there is a stray byte to blame.
LEMMA OutsideKeeps ==
    ASSUME IInv, NEW s \in Structs, UNCHANGED <<build, faults, hit>>, stack' = Outside(s), asLeft' = stack',
           hit \cap {"size", "capacity", "pointer"} # {},
           (build.debug /\ build.hash /\ ~s.corrupted) => hit \cap {"capacity", "pointer"} # {}
    PROVE  IInv'
<1>1. Outside(s) \in Structs /\ Outside(s).state = "outside" /\ Outside(s).corrupted = s.corrupted
  BY DEF Outside, Structs
<1> QED
  BY <1>1 DEF IInv, Touched, StaysInside

\* The initial stack is in order.
LEMMA InitIInv == Init => IInv
<1> SUFFICES ASSUME Init PROVE IInv
  OBVIOUS
<1>1. build \in Builds /\ errors = {} /\ faults = 0 /\ hit = {} /\ asLeft = stack
  BY DEF Init
<1>2. PICK n \in Capacities : stack = Rehashed(New(n))
  BY DEF Init
<1>3. n \in Nat /\ n > 0
  BY StackAssumption
<1> DEFINE d == [i \in 1..n |-> "zero"]
<1>4. d \in Seq(Cells) /\ Len(d) = n
  <2>1. d \in [1..n -> Cells]
    BY DEF Cells
  <2> HIDE DEF d
  <2> QED
    BY <1>3, <2>1, IsASeq, LenProperties
<1>5. NoHash \in Hashes /\ <<>> \in Subhashes
  BY EmptySeq DEF Hashes, Subhashes
<1>6. New(n) = [left |-> Whole, right |-> Whole, corrupted |-> FALSE, size |-> 0, capacity |-> n, state |-> "live",
                hash |-> NoHash, subhash |-> <<>>, pointer |-> Whole, data |-> d]
  BY DEF New
<1> HIDE DEF d
<1>7. /\ New(n) \in Structs /\ New(n).capacity = n /\ Len(New(n).data) = n /\ New(n).pointer = Whole
      /\ New(n).state = "live" /\ New(n).left = Whole /\ New(n).right = Whole /\ New(n).size = 0
      /\ ~New(n).corrupted
  BY <1>3, <1>4, <1>5, <1>6 DEF Structs, Marks
<1>8. /\ stack \in Structs /\ SameContents(New(n), stack) /\ stack.corrupted = New(n).corrupted
      /\ build.hash => HashesRight(stack)
  BY <1>2, <1>3, <1>7, RehashedHolds
<1>9. Within(stack) /\ Clean(stack) /\ CanariesWhole(stack) /\ stack.state = "live" /\ stack.pointer = Whole
      /\ stack.capacity = Len(stack.data)
  BY <1>3, <1>7, <1>8 DEF Within, Clean, CanariesWhole, SameContents
<1>10. LeftInOrder
  BY <1>1, <1>8, <1>9 DEF LeftInOrder, Guarded
<1> QED
  BY <1>1, <1>8, <1>9, <1>10 DEF IInv, Touched, StaysInside

\* What verification makes of the stack an operation is called on.
LEMMA VerifiedInOrder ==
    ASSUME IInv, stack.state = "live", Usable(stack)
    PROVE  /\ Verified(stack) \in Structs /\ SameContents(stack, Verified(stack))
           /\ Within(Verified(stack)) <=> Within(stack)
           /\ hit = {} => ~Verified(stack).corrupted
           /\ stack.corrupted => Verified(stack).corrupted
           /\ (build.debug /\ build.hash /\ ~Verified(stack).corrupted) =>
                  Within(stack) /\ ButForTheLastByte /\ (build.canary => CanariesWhole(stack))
<1>1. stack \in Structs
  BY DEF IInv
<1>2. /\ Verified(stack) \in Structs /\ SameContents(stack, Verified(stack))
      /\ stack.corrupted => Verified(stack).corrupted
      /\ Clean(stack) => ~Verified(stack).corrupted
  BY <1>1, VerifiedHolds
<1>3. hit = {} => Clean(stack)
  BY StackHolds
<1>4. ASSUME build.debug, build.hash, ~Verified(stack).corrupted
      PROVE  Within(stack) /\ ButForTheLastByte /\ (build.canary => CanariesWhole(stack))
  <2>1. Readable(stack) /\ Verified(stack) = StackVerificator(stack)
    BY <1>4 DEF Usable, Verified
  <2> QED
    BY <1>4, <2>1, Unnoticed
<1> QED
  BY <1>2, <1>3, <1>4 DEF Within, SameContents

\* Verification complains about nothing but emptiness, if nothing was hit.
LEMMA NoComplaint ==
    ASSUME IInv, stack.state = "live", hit = {}
    PROVE  ErrCodes(stack) \subseteq {"INVALID_SIZE"} /\ errors \subseteq {"INVALID_SIZE"}
<1>1. stack \in Structs /\ Within(stack) /\ Clean(stack)
  BY StackHolds DEF IInv
<1>2. errors \subseteq {"INVALID_SIZE"}
  BY StackHolds DEF LeftInOrder
<1> QED
  BY <1>1, <1>2, ErrCodesHolds

\* A stack whose array cannot even be reached has had its pointer or its capacity hit.
LEMMA Unusable ==
    ASSUME IInv, stack.state = "live", ~Usable(stack)
    PROVE  hit \cap {"capacity", "pointer"} # {}
<1>1. /\ "pointer" \notin hit => stack.pointer = Whole
      /\ "capacity" \notin hit => stack.capacity = Len(stack.data)
  BY StackHolds
<1>2. stack \in Structs
  BY DEF IInv
<1>3. Len(stack.data) <= Len(stack.data)
  BY <1>2, LenProperties DEF Structs
<1> QED
  BY <1>1, <1>3 DEF Usable, Readable

\* What an operation that stays in the array leaves is in order.
LEMMA HashedAgain ==
    ASSUME NEW s \in Structs, NEW p \in Structs, SameFrame(s, p), p.capacity > 0, Len(p.data) = p.capacity
    PROVE  /\ Rehashed(p) \in Structs /\ SameFrame(s, Rehashed(p)) /\ Len(Rehashed(p).data) = Rehashed(p).capacity
           /\ Within(p) => Within(Rehashed(p))
           /\ build.hash => HashesRight(Rehashed(p))
           /\ CanariesWhole(s) => CanariesWhole(Rehashed(p))
           /\ Rehashed(p).size = p.size /\ Rehashed(p).data = p.data
<1>1. p.capacity \in Nat /\ p.capacity <= Len(p.data)
  BY DEF Structs
<1>2. /\ Rehashed(p) \in Structs /\ SameContents(p, Rehashed(p))
      /\ Rehashed(p).corrupted = p.corrupted /\ (build.hash => HashesRight(Rehashed(p)))
  BY <1>1, RehashedHolds
<1> QED
  BY <1>2 DEF SameFrame, SameContents, Within, CanariesWhole

\* A push keeps the invariant.
LEMMA PushKeeps == ASSUME IInv, NEW el \in Elements, StackPush(el) PROVE IInv'
<1> DEFINE v == Verified(stack)
           p == Pushed(v, el)
           r == Rehashed(p)
<1>1. stack.state = "live" /\ UNCHANGED <<build, faults, hit>> /\ asLeft' = stack' /\ el \in Cells
  BY DEF StackPush, Leave, Cells
<1>2. IF Usable(stack) /\ PushFits(v) THEN stack' = r ELSE stack' = Outside(v)
  BY DEF StackPush, Leave, PushFits, Pushed, WithCell
<1>3. errors' = IF build.debug /\ Usable(stack) THEN ErrCodes(stack) ELSE errors
  BY DEF StackPush, Verification
<1>4. hit = {} => errors' \subseteq {"INVALID_SIZE"}
  BY <1>1, <1>3, NoComplaint
<1>5. stack \in Structs /\ build \in Builds
  BY DEF IInv
<1>6. CASE Usable(stack)
  <2>1. /\ v \in Structs /\ SameContents(stack, v) /\ (Within(v) <=> Within(stack))
        /\ hit = {} => ~v.corrupted
        /\ (build.debug /\ build.hash /\ ~v.corrupted) =>
               Within(stack) /\ (build.canary => CanariesWhole(stack))
    BY <1>1, <1>6, VerifiedInOrder
  <2>2. hit \cap {"size", "capacity"} = {} => Within(v)
    BY <1>1, <2>1, StackHolds
  <2>3. /\ Within(v) => PushFits(v) /\ Within(p)
        /\ PushFits(v) => p \in Structs /\ SameFrame(v, p) /\ p.capacity > 0 /\ Len(p.data) = p.capacity
    BY <1>1, <2>1, PushedHolds
  <2> HIDE DEF v, p
  <2>4. CASE PushFits(v)
    <3>1. /\ r \in Structs /\ SameFrame(v, r) /\ Len(r.data) = r.capacity /\ (Within(p) => Within(r))
          /\ build.hash => HashesRight(r)
          /\ CanariesWhole(v) => CanariesWhole(r)
      BY <2>1, <2>3, <2>4, HashedAgain
    <3> HIDE DEF r
    <3>2. stack' = r
      BY <1>2, <1>6, <2>4
    <3>3. CanariesWhole(v) <=> CanariesWhole(stack)
      BY <2>1 DEF CanariesWhole, SameContents
    <3>4. r.state = "live" /\ r.pointer = stack.pointer /\ r.corrupted = v.corrupted
      BY <1>1, <2>1, <3>1 DEF SameFrame, SameContents
    <3>5. hit = {} => Clean(r)
      <4>1. hit = {} => Clean(stack)
        BY <1>1, StackHolds
      <4> QED
        BY <2>1, <3>1, <3>3, <3>4, <4>1 DEF Clean
    <3>6. (build.debug /\ build.hash /\ ~r.corrupted) => Within(stack) /\ HashesRight(r) /\ (build.canary => CanariesWhole(r))
      BY <2>1, <3>1, <3>3, <3>4
    <3>7. Within(stack) => Within(r)
      BY <2>1, <2>3, <3>1
    <3> QED
      BY <1>1, <1>4, <3>1, <3>2, <3>4, <3>5, <3>6, <3>7, LeavingKeeps
  <2>5. CASE ~PushFits(v)
    <3>1. stack' = Outside(v)
      BY <1>2, <2>5
    <3>2. ~Within(v)
      BY <2>3, <2>5
    <3> QED
      BY <1>1, <2>1, <2>2, <3>1, <3>2, OutsideKeeps
  <2> QED
    BY <2>4, <2>5
<1>7. CASE ~Usable(stack)
  <2>1. v = stack /\ stack' = Outside(stack)
    BY <1>2, <1>7 DEF Verified
  <2>2. hit \cap {"capacity", "pointer"} # {}
    BY <1>1, <1>7, Unusable
  <2> QED
    BY <1>1, <1>5, <2>1, <2>2, OutsideKeeps
<1> QED
  BY <1>6, <1>7

\* So does a pop.
LEMMA PopKeeps == ASSUME IInv, StackPop PROVE IInv'
<1> DEFINE v == Verified(stack)
           p == Popped(v)
           r == Rehashed(p)
<1>1. stack.state = "live" /\ asLeft.size > 0 /\ UNCHANGED <<build, faults, hit>> /\ asLeft' = stack'
  BY DEF StackPop, Leave
<1>2. IF Usable(stack) /\ PopFits(v) THEN stack' = r ELSE stack' = Outside(v)
  BY DEF StackPop, Leave, PopFits, Popped
<1>3. errors' = IF build.debug /\ Usable(stack) THEN ErrCodes(stack) ELSE errors
  BY DEF StackPop, Verification
<1>4. hit = {} => errors' \subseteq {"INVALID_SIZE"}
  BY <1>1, <1>3, NoComplaint
<1>5. stack \in Structs /\ asLeft \in Structs /\ build \in Builds
  BY DEF IInv
<1>6. CASE Usable(stack)
  <2>1. /\ v \in Structs /\ SameContents(stack, v) /\ (Within(v) <=> Within(stack))
        /\ hit = {} => ~v.corrupted
        /\ (build.debug /\ build.hash /\ ~v.corrupted) =>
               Within(stack) /\ ButForTheLastByte /\ (build.canary => CanariesWhole(stack))
    BY <1>1, <1>6, VerifiedInOrder
  <2>2. hit \cap {"size", "capacity"} = {} => Within(v) /\ v.size > 0
    <3>1. hit \cap {"size", "capacity"} = {} => Within(stack) /\ stack.size = asLeft.size
      BY <1>1, StackHolds
    <3> QED
      BY <1>1, <2>1, <3>1 DEF SameContents
  <2>3. (build.debug /\ build.hash /\ ~v.corrupted) => Within(v) /\ v.size > 0
    <3>1. ButForTheLastByte => stack.size = asLeft.size
      BY <1>5 DEF ButForTheLastByte, Structs
    <3> QED
      BY <1>1, <2>1, <3>1 DEF SameContents
  <2>4. /\ Within(v) /\ v.size > 0 => PopFits(v) /\ Within(p)
        /\ PopFits(v) => p \in Structs /\ SameFrame(v, p) /\ p.capacity > 0 /\ Len(p.data) = p.capacity
    BY <2>1, PoppedHolds
  <2>5. Within(v) /\ PopFits(v) => v.size > 0
    <3>1. DECREASE(v).capacity > 0 => DECREASE(v).size = v.size
      BY <2>1, DecreaseHolds
    <3>2. v.size \in Int /\ DECREASE(v).capacity > 0 => (PopFits(v) => v.size >= 1)
      BY <3>1 DEF PopFits
    <3>3. v.size \in Int /\ (PopFits(v) => DECREASE(v).capacity > 0)
      BY <2>1 DEF PopFits, Structs
    <3> QED
      BY <3>2, <3>3
  <2> HIDE DEF v, p
  <2>6. CASE PopFits(v)
    <3>1. /\ r \in Structs /\ SameFrame(v, r) /\ Len(r.data) = r.capacity /\ (Within(p) => Within(r))
          /\ build.hash => HashesRight(r)
          /\ CanariesWhole(v) => CanariesWhole(r)
      BY <2>1, <2>4, <2>6, HashedAgain
    <3> HIDE DEF r
    <3>2. stack' = r
      BY <1>2, <1>6, <2>6
    <3>3. CanariesWhole(v) <=> CanariesWhole(stack)
      BY <2>1 DEF CanariesWhole, SameContents
    <3>4. r.state = "live" /\ r.pointer = stack.pointer /\ r.corrupted = v.corrupted
      BY <1>1, <2>1, <3>1 DEF SameFrame, SameContents
    <3>5. hit = {} => Clean(r)
      <4>1. hit = {} => Clean(stack)
        BY <1>1, StackHolds
      <4> QED
        BY <2>1, <3>1, <3>3, <3>4, <4>1 DEF Clean
    <3>6. (build.debug /\ build.hash /\ ~r.corrupted) => Within(stack) /\ HashesRight(r) /\ (build.canary => CanariesWhole(r))
      BY <2>1, <3>1, <3>3, <3>4
    <3>7. Within(stack) => Within(r)
      BY <2>1, <2>4, <2>5, <2>6, <3>1
    <3> QED
      BY <1>1, <1>4, <3>1, <3>2, <3>4, <3>5, <3>6, <3>7, LeavingKeeps
  <2>7. CASE ~PopFits(v)
    <3>1. stack' = Outside(v)
      BY <1>2, <2>7
    <3>2. ~(Within(v) /\ v.size > 0)
      BY <2>4, <2>7
    <3> QED
      BY <1>1, <2>1, <2>2, <2>3, <3>1, <3>2, OutsideKeeps
  <2> QED
    BY <2>6, <2>7
<1>7. CASE ~Usable(stack)
  <2>1. v = stack /\ stack' = Outside(stack)
    BY <1>2, <1>7 DEF Verified
  <2>2. hit \cap {"capacity", "pointer"} # {}
    BY <1>1, <1>7, Unusable
  <2> QED
    BY <1>1, <1>5, <2>1, <2>2, OutsideKeeps
<1> QED
  BY <1>6, <1>7

\* So does a verification from outside.
LEMMA VerificateKeeps == ASSUME IInv, Verificate PROVE IInv'
<1> DEFINE r == StackVerificator(stack)
<1>1. stack.state = "live" /\ UNCHANGED <<build, faults, hit>> /\ asLeft' = stack' /\ stack \in Structs
  BY DEF Verificate, Leave, IInv
<1>2. CASE build.hash => Readable(stack)
  <2>1. stack' = r /\ errors' = ErrCodes(stack)
    BY <1>2 DEF Verificate, Leave
  <2>2. /\ r \in Structs /\ SameContents(stack, r) /\ r.hash = stack.hash /\ r.subhash = stack.subhash
        /\ stack.corrupted => r.corrupted
        /\ Clean(stack) => ~r.corrupted
    BY <1>1, VerificatorHolds
  <2> HIDE DEF r
  <2>3. Within(stack) <=> Within(r)
    BY <2>2 DEF Within, SameContents
  <2>4. (build.debug /\ build.hash /\ ~r.corrupted) => Within(stack) /\ HashesRight(stack) /\ (build.canary => CanariesWhole(stack))
    BY <1>1, <1>2, Unnoticed DEF r
  <2>5. r.corrupted = stack.corrupted => (HashesRight(stack) <=> HashesRight(r))
    BY <2>2 DEF HashesRight, StructHash, DataHash, SameContents
  <2>6. CanariesWhole(stack) <=> CanariesWhole(r)
    BY <2>2 DEF CanariesWhole, SameContents
  <2>7. r.corrupted \in BOOLEAN /\ stack.corrupted \in BOOLEAN
    BY <1>1, <2>2 DEF Structs
  <2>8. hit = {} => Clean(stack) /\ ErrCodes(stack) \subseteq {"INVALID_SIZE"}
    BY <1>1, StackHolds, NoComplaint
  <2>9. hit = {} => Clean(r)
    BY <2>2, <2>5, <2>6, <2>7, <2>8 DEF Clean
  <2>10. r.state = "live" /\ r.pointer = stack.pointer /\ r.capacity = stack.capacity /\ r.data = stack.data
    BY <1>1, <2>2 DEF SameContents
  <2>11. "capacity" \notin hit => r.capacity = Len(r.data)
    BY <1>1, <2>10, StackHolds
  <2>12. (build.debug /\ build.hash /\ ~r.corrupted) => Within(stack) /\ HashesRight(r) /\ (build.canary => CanariesWhole(r))
    BY <2>2, <2>4, <2>5, <2>6, <2>7
  <2> QED
    BY <1>1, <2>1, <2>2, <2>3, <2>8, <2>9, <2>10, <2>11, <2>12, LeavingKeeps
<1>3. CASE ~(build.hash => Readable(stack))
  <2>1. stack' = Outside(stack)
    BY <1>3 DEF Verificate, Leave
  <2>2. hit \cap {"capacity", "pointer"} # {}
    <3>1. /\ "pointer" \notin hit => stack.pointer = Whole
          /\ "capacity" \notin hit => stack.capacity = Len(stack.data)
      BY <1>1, StackHolds
    <3>2. Len(stack.data) <= Len(stack.data)
      BY <1>1, LenProperties DEF Structs
    <3> QED
      BY <1>3, <3>1, <3>2 DEF Readable
  <2> QED
    BY <1>1, <2>1, <2>2, OutsideKeeps
<1> QED
  BY <1>2, <1>3

\* So does the destructor: what is freed is not used again.
LEMMA DtorKeeps == ASSUME IInv, StackDtor PROVE IInv'
<1>1. stack.state = "live" /\ UNCHANGED <<build, faults, hit>> /\ asLeft' = stack' /\ stack \in Structs
  BY DEF StackDtor, Leave, IInv
<1>2. CASE stack.pointer # Whole
  <2>1. stack' = Outside(stack)
    BY <1>2 DEF StackDtor, Leave
  <2>2. hit \cap {"capacity", "pointer"} # {}
    BY <1>1, <1>2, StackHolds
  <2> QED
    BY <1>1, <2>1, <2>2, OutsideKeeps
<1>3. CASE stack.pointer = Whole
  <2> DEFINE freed == [left |-> "zero", right |-> "zero", corrupted |-> FALSE, size |-> -1, capacity |-> -1,
                       state |-> "freed", hash |-> NoHash, subhash |-> <<>>, pointer |-> "zero", data |-> <<>>]
  <2>1. stack' = freed
    BY <1>1, <1>3, Zenon DEF StackDtor, Leave, Structs
  <2>2. NoHash \in Hashes /\ <<>> \in Subhashes /\ <<>> \in Seq(Cells)
    BY EmptySeq DEF Hashes, Subhashes
  <2>3. "zero" \in Marks /\ FALSE \in BOOLEAN /\ -1 \in Int /\ "freed" \in {"live", "outside", "freed"}
    BY DEF Marks
  <2>4. stack' \in Structs /\ stack'.state = "freed"
    BY <2>1, <2>2, <2>3, Zenon DEF Structs
  <2> QED
    BY <1>1, <2>4 DEF IInv, Touched, StaysInside
<1> QED
  BY <1>2, <1>3

\* So does a stray byte, which makes the one difference.
LEMMA StrayKeeps == ASSUME IInv, Stray PROVE IInv'
<1>1. /\ stack.state = "live" /\ stack = asLeft /\ faults' = faults + 1 /\ build' = build /\ errors' = errors
      /\ asLeft' = asLeft /\ stack' # stack
  BY DEF Stray
<1>2. PICK part \in Parts : Hit(part, stack, stack') /\ hit' = hit \cup {part}
  BY DEF Stray
<1>3. stack \in Structs /\ asLeft \in Structs /\ faults \in Nat /\ hit \subseteq Parts
  BY DEF IInv
<1>4. stack' \in Structs /\ stack'.state = "live"
  BY <1>1, <1>2, <1>3, HitHolds
<1>5. Touched'
  <2>1. Hit(part, asLeft, stack)' <=> Hit(part, asLeft, stack')
    BY <1>1 DEF Hit
  <2> QED
    BY <1>1, <1>2, <2>1 DEF Touched
<1>6. /\ Within(asLeft)' <=> Within(asLeft)
      /\ HashesRight(asLeft)' <=> HashesRight(asLeft)
      /\ CanariesWhole(asLeft)' <=> CanariesWhole(asLeft)
  BY <1>1 DEF Within, HashesRight, StructHash, DataHash, CanariesWhole
<1>7. LeftInOrder'
  <2>1. LeftInOrder
    BY <1>1, StackHolds
  <2>2. hit' # {} /\ (hit' \cap {"size", "capacity"} = {} => hit \cap {"size", "capacity"} = {})
        /\ ("pointer" \notin hit' => "pointer" \notin hit) /\ ("capacity" \notin hit' => "capacity" \notin hit)
    BY <1>2
  <2> QED
    BY <1>1, <1>6, <2>1, <2>2 DEF LeftInOrder, Guarded
<1> QED
  BY <1>1, <1>2, <1>3, <1>4, <1>5, <1>7 DEF IInv, StaysInside

\* Every step keeps the invariant.
LEMMA NextIInv == IInv /\ [Next]_vars => IInv'
<1> SUFFICES ASSUME IInv, [Next]_vars PROVE IInv'
  OBVIOUS
<1>1. CASE Next
  BY <1>1, PushKeeps, PopKeeps, VerificateKeeps, DtorKeeps, StrayKeeps DEF Next
<1>2. CASE UNCHANGED vars
  <2>1. /\ Within(asLeft)' <=> Within(asLeft)
        /\ HashesRight(asLeft)' <=> HashesRight(asLeft)
        /\ CanariesWhole(asLeft)' <=> CanariesWhole(asLeft)
        /\ Clean(asLeft)' <=> Clean(asLeft)
    BY <1>2 DEF vars, Within, HashesRight, StructHash, DataHash, CanariesWhole, Clean
  <2>2. \A part \in hit : Hit(part, asLeft, stack)' <=> Hit(part, asLeft, stack)
    BY <1>2 DEF vars, Hit
  <2>3. Touched' <=> Touched
    BY <1>2, <2>2 DEF vars, Touched
  <2>4. LeftInOrder' <=> LeftInOrder
    BY <1>2, <2>1 DEF vars, LeftInOrder, Guarded
  <2> QED
    BY <1>2, <2>3, <2>4 DEF vars, IInv, StaysInside
<1> QED
  BY <1>1, <1>2

\* The invariant holds throughout.
THEOREM IInvHolds == Spec => []IInv
<1> QED
  BY InitIInv, NextIInv, PTL DEF Spec

\* Whatever becomes of the size, the capacity and the pointer, in every build: an operation
\* leaves the array only after one of them was hit, and with DEBUG and HASH no wrong size leads
\* out of it before the stack is called corrupted.
THEOREM StaysInsideHolds == Spec => []StaysInside
<1>1. IInv => StaysInside
  BY DEF IInv
<1> QED
  BY <1>1, IInvHolds, PTL

\* A stack nothing writes into is never called corrupted, in any build: what verification
\* compares is what the last operation hashed.
THEOREM NoFalseAlarmHolds == Spec => []NoFalseAlarm
<1>1. IInv => NoFalseAlarm
  BY StackHolds DEF NoFalseAlarm, LeftInOrder, Clean
<1> QED
  BY <1>1, IInvHolds, PTL

-----------------------------------------------------------------------------
(* Stray writes are noticed at once.                                       *)

\* An operation on a stack whose change shows marks it, before it hashes what it found.
LEMMA StepNotices ==
    ASSUME IInv, Next, build.debug, build.hash, faults' = faults, Readable(stack), stack'.state # "freed",
           stack.corrupted \/ ~ButForTheLastByte
    PROVE  stack'.corrupted
<1> DEFINE v == StackVerificator(stack)
<1>1. stack.state = "live" /\ stack \in Structs /\ faults \in Nat
  BY DEF IInv, Next, StackPush, StackPop, Verificate, StackDtor, Stray
<1>2. v \in Structs /\ v.corrupted
  <2>1. v \in Structs /\ (stack.corrupted => v.corrupted)
    BY <1>1, VerificatorHolds
  <2>2. ~v.corrupted => ~stack.corrupted /\ ButForTheLastByte
    BY <1>1, Unnoticed
  <2> QED
    BY <2>1, <2>2
<1>3. Usable(stack) /\ Verified(stack) = v
  BY DEF Usable, Verified
<1>4. Outside(v).corrupted
  BY <1>2 DEF Outside, Structs
<1> HIDE DEF v
<1>5. CASE \E el \in Elements : StackPush(el)
  <2>1. PICK el \in Elements : StackPush(el)
    BY <1>5
  <2>2. IF PushFits(v) THEN stack' = Rehashed(Pushed(v, el)) ELSE stack' = Outside(v)
    BY <1>3, <2>1 DEF StackPush, Leave, PushFits, Pushed, WithCell
  <2>3. el \in Cells
    BY DEF Cells
  <2>4. CASE PushFits(v)
    <3>1. /\ Pushed(v, el) \in Structs /\ SameFrame(v, Pushed(v, el))
          /\ Pushed(v, el).capacity > 0 /\ Len(Pushed(v, el).data) = Pushed(v, el).capacity
      BY <1>2, <2>3, <2>4, PushedHolds
    <3>2. SameFrame(v, Rehashed(Pushed(v, el)))
      BY <1>2, <3>1, HashedAgain
    <3> QED
      BY <1>2, <2>2, <2>4, <3>2 DEF SameFrame
  <2> QED
    BY <1>4, <2>2, <2>4
<1>6. CASE StackPop
  <2>1. IF PopFits(v) THEN stack' = Rehashed(Popped(v)) ELSE stack' = Outside(v)
    BY <1>3, <1>6 DEF StackPop, Leave, PopFits, Popped
  <2>2. CASE PopFits(v)
    <3>1. /\ Popped(v) \in Structs /\ SameFrame(v, Popped(v))
          /\ Popped(v).capacity > 0 /\ Len(Popped(v).data) = Popped(v).capacity
      BY <1>2, <2>2, PoppedHolds
    <3>2. SameFrame(v, Rehashed(Popped(v)))
      BY <1>2, <3>1, HashedAgain
    <3> QED
      BY <1>2, <2>1, <2>2, <3>2 DEF SameFrame
  <2> QED
    BY <1>4, <2>1, <2>2
<1>7. CASE Verificate
  BY <1>2, <1>7 DEF Verificate, Leave, v
<1>8. ~StackDtor
  <2> SUFFICES ASSUME StackDtor PROVE FALSE
    OBVIOUS
  <2>1. stack' = [stack EXCEPT !.state = "freed", !.size = -1, !.capacity = -1, !.data = <<>>, !.pointer = "zero",
                               !.hash = NoHash, !.subhash = <<>>, !.left = "zero", !.right = "zero", !.corrupted = FALSE]
    BY DEF StackDtor, Leave, Readable
  <2>2. stack'.state = "freed"
    BY <1>1, <2>1, Zenon DEF Structs
  <2> QED
    BY <2>2
<1>9. ~Stray
  BY <1>1 DEF Stray
<1> QED
  BY <1>5, <1>6, <1>7, <1>8, <1>9 DEF Next

\* With DEBUG and HASH, the operation after a stray write calls the stack corrupted, whichever
\* part it hit but the last byte of the array, and it stays so: everything rests on the stack
\* being hashed at the end of an operation and verified before the next resizes it.
THEOREM NoticedAtOnceHolds == Spec => NoticedAtOnce
<1> DEFINE A == (/\ build.debug /\ build.hash /\ faults' = faults /\ Readable(stack)
                 /\ stack'.state # "freed" /\ (stack.corrupted \/ ~ButForTheLastByte)) => stack'.corrupted
<1>1. IInv /\ [Next]_vars => [A]_vars
  BY StepNotices
<1> QED
  BY <1>1, IInvHolds, PTL DEF Spec, NoticedAtOnce

-----------------------------------------------------------------------------
(* Last in, first out.                                                     *)

\* The values on a stack.
Items(s) == SubSeq(s.data, 1, s.size)

\* The values a stack holds are its cells below the size.
LEMMA ItemsHolds ==
    ASSUME NEW s \in Structs, Within(s)
    PROVE  /\ Items(s) \in Seq(Cells) /\ Len(Items(s)) = s.size
           /\ \A i \in 1..s.size : Items(s)[i] = s.data[i]
<1>1. s.data \in Seq(Cells) /\ s.size \in Int /\ s.size >= 0 /\ s.size <= Len(s.data)
  BY DEF Structs, Within
<1>2. \A i \in 1..s.size : s.data[i] \in Cells
  <2>1. \A i \in 1..s.size : i \in 1..Len(s.data)
    BY <1>1, LenProperties
  <2> QED
    BY <1>1, <2>1, ElementOfSeq
<1> DEFINE t == Items(s)
<1>3. /\ t \in Seq(Cells) /\ Len(t) = (IF 1 <= s.size THEN s.size - 1 + 1 ELSE 0)
      /\ \A i \in 1..(s.size - 1 + 1) : t[i] = s.data[1 + i - 1]
  BY <1>1, <1>2, SubSeqProperties DEF Items
<1> HIDE DEF t
<1>4. Len(t) = s.size /\ \A i \in 1..s.size : t[i] = s.data[i]
  BY <1>1, <1>3
<1> QED
  BY <1>3, <1>4 DEF t

\* Resizing to a capacity that holds the values keeps them: recalloc copies them and the poison
\* starts behind them.
LEMMA ResizedKeeps ==
    ASSUME NEW s \in Structs, NEW n \in Nat, s.size \in 0..n, s.size <= Len(s.data)
    PROVE  \A i \in 1..s.size : Resized(s, n).data[i] = s.data[i]
<1> DEFINE plain == recalloc(s.data, n)
           data == IF build.debug THEN fill_array(plain, s.size) ELSE plain
           r == [s EXCEPT !.capacity = n, !.data = data]
<1>1. s.data \in Seq(Cells) /\ Len(s.data) \in Nat /\ s.size \in Int
  BY LenProperties DEF Structs
<1>2. plain = [i \in 1..n |-> IF i <= Len(s.data) THEN s.data[i] ELSE "zero"]
  BY DEF recalloc
<1>3. plain \in [1..n -> Cells]
  <2>1. \A i \in 1..n : i <= Len(s.data) => s.data[i] \in Cells
    BY <1>1, ElementOfSeq
  <2> HIDE DEF plain
  <2> QED
    BY <1>2, <2>1 DEF Cells
<1>4. plain \in Seq(Cells) /\ Len(plain) = n
  BY <1>3, IsASeq, LenProperties
<1>5. \A i \in 1..s.size : i \in 1..n /\ plain[i] = s.data[i]
  <2> HIDE DEF plain
  <2> QED
    BY <1>1, <1>2
<1>6. \A i \in 1..s.size : data[i] = s.data[i]
  <2> HIDE DEF plain
  <2> QED
    BY <1>4, <1>5 DEF fill_array
<1>7. data \in [1..n -> Cells]
  <2> HIDE DEF plain
  <2> QED
    BY <1>3, <1>4 DEF fill_array, Cells
<1>8. data \in Seq(Cells) /\ Len(data) = n
  <2> HIDE DEF data
  <2> QED
    BY <1>7, IsASeq, LenProperties
<1>9. r \in Structs /\ r.data = data /\ r.capacity = n
  <2> HIDE DEF r, data
  <2>1. r = WithArray(s, n, data)
    BY DEF r, WithArray
  <2> QED
    BY <1>8, <2>1, n \in Int, ArrayReplaced
<1>10. Resized(s, n) = Rehashed(r)
  BY DEF Resized
<1> HIDE DEF r, data
<1>11. Resized(s, n).data = data
  BY <1>8, <1>9, <1>10, RehashedHolds DEF SameContents
<1> QED
  BY <1>6, <1>11

\* Growing and shrinking keep the values: the array is halved only when they fit.
LEMMA ResizingKeeps ==
    ASSUME NEW s \in Structs, Within(s)
    PROVE  \A i \in 1..s.size : INCREASE(s).data[i] = s.data[i] /\ DECREASE(s).data[i] = s.data[i]
<1> DEFINE m == IF Grows(s) THEN s.capacity * MEMORY_MULTIPLIER ELSE s.capacity
           n == IF Shrinks(s) THEN s.capacity \div MEMORY_MULTIPLIER ELSE s.capacity
<1>1. /\ s.capacity \in Int /\ s.size \in Int /\ s.capacity > 0 /\ s.size \in 0..s.capacity - 1
      /\ s.size <= Len(s.data)
  BY DEF Structs, Within
<1>2. m \in Nat /\ s.size \in 0..m
  BY <1>1 DEF Grows, MEMORY_MULTIPLIER
<1>3. n \in Nat /\ s.size \in 0..n
  BY <1>1 DEF Shrinks, MEMORY_MULTIPLIER, RESIZE_OFFSET
<1>4. INCREASE(s) = Resized(s, m) /\ DECREASE(s) = Resized(s, n)
  BY DEF INCREASE, DECREASE
<1> HIDE DEF m, n
<1> QED
  BY <1>1, <1>2, <1>3, <1>4, ResizedKeeps

\* A push puts its value behind the others.
LEMMA ItemsPushed ==
    ASSUME NEW s \in Structs, Within(s), NEW v \in Cells
    PROVE  Items(Pushed(s, v)) = Append(Items(s), v)
<1> DEFINE i == INCREASE(s)
           p == Pushed(s, v)
           a == Append(Items(s), v)
           b == Items(p)
<1>1. i \in Structs /\ Within(i) /\ i.size = s.size /\ s.size + 1 <= i.capacity
  <2> DEFINE c == i.capacity
  <2>1. i \in Structs /\ i.size = s.size /\ Len(i.data) = c /\ c > 0 /\ s.size + 1 < c
    BY IncreaseHolds
  <2>2. c \in Int /\ s.size \in Nat
    BY <2>1 DEF Structs, Within
  <2> HIDE DEF i
  <2> QED
    BY <2>1, <2>2 DEF Within
<1>2. \A j \in 1..s.size : i.data[j] = s.data[j]
  BY ResizingKeeps
<1>3. p \in Structs /\ Within(p)
  BY PushedHolds
<1>4. p = WithCell(i, i.size + 1, v, i.size + 1)
  BY DEF Pushed
<1> HIDE DEF i, p
<1>5. s.size \in Nat /\ i.size + 1 \in 1..Len(i.data) /\ i.data \in Seq(Cells)
  BY <1>1 DEF Within, Structs
<1>6. p.size = s.size + 1 /\ p.data = [i.data EXCEPT ![s.size + 1] = v]
  BY <1>1, <1>4 DEF WithCell, Structs
<1>7. \A j \in 1..Len(i.data) : p.data[j] = IF j = s.size + 1 THEN v ELSE i.data[j]
  BY <1>1, <1>5, <1>6, ExceptSeq
<1>8. b \in Seq(Cells) /\ Len(b) = s.size + 1 /\ \A j \in 1..(s.size + 1) : b[j] = p.data[j]
  BY <1>3, <1>6, ItemsHolds
<1>9. Items(s) \in Seq(Cells) /\ Len(Items(s)) = s.size /\ \A j \in 1..s.size : Items(s)[j] = s.data[j]
  BY ItemsHolds
<1>10. /\ a \in Seq(Cells) /\ Len(a) = s.size + 1 /\ a[s.size + 1] = v
       /\ \A j \in 1..s.size : a[j] = s.data[j]
  BY <1>9, AppendProperties
<1> HIDE DEF a, b
<1>11. \A j \in 1..Len(b) : b[j] = a[j]
  <2> SUFFICES ASSUME NEW j \in 1..(s.size + 1) PROVE b[j] = a[j]
    BY <1>8
  <2>1. CASE j = s.size + 1
    BY <1>1, <1>5, <1>7, <1>8, <1>10, <2>1
  <2>2. CASE j # s.size + 1
    <3>1. j \in 1..s.size /\ j \in 1..Len(i.data)
      BY <1>1, <1>5, <2>2
    <3> QED
      BY <1>2, <1>7, <1>8, <1>10, <2>2, <3>1
  <2> QED
    BY <2>1, <2>2
<1>12. b = a
  BY <1>8, <1>10, <1>11, SeqEqual
<1> QED
  BY <1>12 DEF a, b, p

\* A pop takes the last value away and returns it.
LEMMA ItemsPopped ==
    ASSUME NEW s \in Structs, Within(s), s.size > 0
    PROVE  /\ Items(Popped(s)) = SubSeq(Items(s), 1, Len(Items(s)) - 1)
           /\ DECREASE(s).data[DECREASE(s).size] = Items(s)[Len(Items(s))]
           /\ Items(s) # <<>>
<1> DEFINE d == DECREASE(s)
           p == Popped(s)
           t == Items(s)
           a == SubSeq(t, 1, Len(t) - 1)
           b == Items(p)
<1>1. d \in Structs /\ Within(d) /\ d.size = s.size
  <2> DEFINE c == d.capacity
  <2>1. d \in Structs /\ d.size = s.size /\ Len(d.data) = c /\ c > 0 /\ s.size < c
    BY DecreaseHolds
  <2>2. c \in Int /\ s.size \in Nat
    BY <2>1 DEF Structs, Within
  <2> HIDE DEF d
  <2> QED
    BY <2>1, <2>2 DEF Within
<1>2. \A j \in 1..s.size : d.data[j] = s.data[j]
  BY ResizingKeeps
<1>3. p \in Structs /\ Within(p)
  BY PoppedHolds
<1>4. p = [d EXCEPT !.size = d.size - 1]
  BY DEF Popped
<1>5. t \in Seq(Cells) /\ Len(t) = s.size /\ \A j \in 1..s.size : t[j] = s.data[j]
  BY ItemsHolds
<1> HIDE DEF d, p, t
<1>6. s.size \in Nat
  BY DEF Structs
<1>7. p.size = s.size - 1 /\ p.data = d.data
  BY <1>1, <1>4, <1>6 DEF Structs
<1>8. b \in Seq(Cells) /\ Len(b) = s.size - 1 /\ \A j \in 1..(s.size - 1) : b[j] = d.data[j]
  BY <1>3, <1>7, ItemsHolds
<1>9. \A j \in 1..(s.size - 1) : t[j] \in Cells
  BY <1>5, <1>6, ElementOfSeq
<1>10. /\ a \in Seq(Cells) /\ Len(a) = (IF 1 <= s.size - 1 THEN s.size - 1 - 1 + 1 ELSE 0)
       /\ \A j \in 1..(s.size - 1 - 1 + 1) : a[j] = t[1 + j - 1]
  BY <1>5, <1>6, <1>9, SubSeqProperties
<1> HIDE DEF a, b
<1>11. Len(a) = Len(b) /\ \A j \in 1..Len(b) : b[j] = a[j]
  <2>1. Len(a) = s.size - 1
    BY <1>6, <1>10
  <2> SUFFICES ASSUME NEW j \in 1..(s.size - 1) PROVE b[j] = a[j]
    BY <1>8, <2>1
  <2>2. a[j] = t[j]
    BY <1>6, <1>10
  <2>3. b[j] = d.data[j]
    BY <1>8
  <2>4. j \in 1..s.size
    BY <1>6
  <2> QED
    BY <1>2, <1>5, <2>2, <2>3, <2>4
<1>12. b = a
  BY <1>8, <1>10, <1>11, SeqEqual
<1>13. d.data[d.size] = t[Len(t)] /\ t # <<>>
  BY <1>1, <1>2, <1>5, <1>6, EmptySeq
<1> QED
  BY <1>12, <1>13 DEF a, b, d, p, t

\* Where a stack is trusted after an operation, it was before, and what the operation found has
\* the values the last one left.
LEMMA TrustKept ==
    ASSUME IInv, stack.state = "live", Usable(stack),
           IF build.debug /\ build.hash THEN ~Verified(stack).corrupted ELSE hit = {}
    PROVE  /\ Trusted /\ Verified(stack) \in Structs /\ Within(Verified(stack))
           /\ Items(Verified(stack)) = Items(asLeft)
           /\ Verified(stack).size = asLeft.size
<1> DEFINE v == Verified(stack)
<1>1. /\ v \in Structs /\ SameContents(stack, v) /\ (Within(v) <=> Within(stack))
      /\ stack.corrupted => v.corrupted
      /\ (build.debug /\ build.hash /\ ~v.corrupted) => Within(stack) /\ ButForTheLastByte
  BY VerifiedInOrder
<1>2. stack \in Structs /\ asLeft \in Structs
  BY DEF IInv
<1>3. asLeft.state = "live" /\ stack.corrupted = asLeft.corrupted
  BY StackHolds
<1>4. Items(v) = Items(stack) /\ v.size = stack.size
  BY <1>1 DEF Items, SameContents
<1> HIDE DEF v
<1>5. CASE build.debug /\ build.hash
  <2>1. Within(stack) /\ ButForTheLastByte /\ ~v.corrupted /\ ~stack.corrupted
    BY <1>1, <1>5 DEF v
  <2>2. stack.size = asLeft.size /\ stack.capacity = asLeft.capacity
    BY <1>2, <2>1 DEF ButForTheLastByte, Structs
  <2>3. Trusted
    BY <1>3, <1>5, <2>1 DEF Trusted
  <2>4. Within(asLeft)
    BY <1>3, <1>5, <2>3, StackHolds DEF Trusted, LeftInOrder, Guarded
  <2>5. /\ Items(stack) \in Seq(Cells) /\ Len(Items(stack)) = stack.size
        /\ \A i \in 1..stack.size : Items(stack)[i] = stack.data[i]
    BY <1>2, <2>1, ItemsHolds
  <2>6. /\ Items(asLeft) \in Seq(Cells) /\ Len(Items(asLeft)) = asLeft.size
        /\ \A i \in 1..asLeft.size : Items(asLeft)[i] = asLeft.data[i]
    BY <1>2, <2>4, ItemsHolds
  <2>7. \A i \in 1..stack.size : i \in 1 .. stack.capacity - 1
    BY <1>2, <2>1 DEF Within, Structs
  <2>8. \A i \in 1..stack.size : Items(stack)[i] = Items(asLeft)[i]
    BY <2>1, <2>2, <2>5, <2>6, <2>7 DEF ButForTheLastByte
  <2> DEFINE a == Items(stack)
             b == Items(asLeft)
  <2>9. a \in Seq(Cells) /\ b \in Seq(Cells) /\ Len(a) = Len(b) /\ \A i \in 1..Len(a) : a[i] = b[i]
    BY <2>2, <2>5, <2>6, <2>8
  <2> HIDE DEF a, b
  <2>10. a = b
    BY <2>9, SeqEqual
  <2> QED
    BY <1>1, <1>4, <2>1, <2>2, <2>3, <2>10 DEF a, b, v
<1>6. CASE ~(build.debug /\ build.hash)
  <2>1. hit = {}
    BY <1>6
  <2>2. stack = asLeft /\ Within(stack)
    BY <2>1, StackHolds
  <2> QED
    BY <1>1, <1>3, <1>4, <1>6, <2>1, <2>2 DEF Trusted, v
<1> QED
  BY <1>5, <1>6

\* A push that leaves a stack to be trusted pushes onto one.
LEMMA PushImplements ==
    ASSUME IInv, NEW el \in Elements, StackPush(el), Trusted'
    PROVE  Trusted /\ Items(asLeft') = Append(Items(asLeft), el) /\ popped' = popped
<1> DEFINE v == Verified(stack)
           p == Pushed(v, el)
<1>1. /\ stack.state = "live" /\ UNCHANGED <<build, hit>> /\ asLeft' = stack' /\ popped' = popped
      /\ IF Usable(stack) /\ PushFits(v) THEN stack' = Rehashed(p) ELSE stack' = Outside(v)
  BY DEF StackPush, Leave, PushFits, Pushed, WithCell
<1>2. stack \in Structs /\ el \in Cells
  BY DEF IInv, Cells
<1>3. v \in Structs
  BY <1>2, VerifiedHolds
<1>4. Outside(v).state = "outside"
  BY <1>3 DEF Outside, Structs
<1>5. Usable(stack) /\ PushFits(v) /\ stack' = Rehashed(p)
  BY <1>1, <1>4 DEF Trusted
<1>6. /\ p \in Structs /\ SameFrame(v, p) /\ p.capacity > 0 /\ Len(p.data) = p.capacity
  BY <1>2, <1>3, <1>5, PushedHolds
<1>7. SameFrame(v, Rehashed(p)) /\ Rehashed(p).size = p.size /\ Rehashed(p).data = p.data
  BY <1>3, <1>6, HashedAgain
<1>8. IF build.debug /\ build.hash THEN ~v.corrupted ELSE hit = {}
  BY <1>1, <1>5, <1>7 DEF Trusted, SameFrame
<1>9. Trusted /\ Within(v) /\ Items(v) = Items(asLeft)
  BY <1>1, <1>5, <1>8, TrustKept
<1>10. Items(p) = Append(Items(v), el)
  BY <1>2, <1>3, <1>9, ItemsPushed
<1>11. Items(asLeft') = Items(p)
  BY <1>1, <1>5, <1>7 DEF Items
<1> QED
  BY <1>1, <1>9, <1>10, <1>11

\* A pop that leaves a stack to be trusted takes the last value away.
LEMMA PopImplements ==
    ASSUME IInv, StackPop, Trusted'
    PROVE  /\ Trusted /\ Items(asLeft) # <<>>
           /\ popped' = Items(asLeft)[Len(Items(asLeft))]
           /\ Items(asLeft') = SubSeq(Items(asLeft), 1, Len(Items(asLeft)) - 1)
<1> DEFINE v == Verified(stack)
           p == Popped(v)
<1>1. /\ stack.state = "live" /\ UNCHANGED <<build, hit>> /\ asLeft' = stack' /\ asLeft.size > 0
      /\ IF Usable(stack) /\ PopFits(v)
         THEN stack' = Rehashed(p) /\ popped' = DECREASE(v).data[DECREASE(v).size]
         ELSE stack' = Outside(v)
  BY DEF StackPop, Leave, PopFits, Popped
<1>2. stack \in Structs
  BY DEF IInv
<1>3. v \in Structs
  BY <1>2, VerifiedHolds
<1>4. Outside(v).state = "outside"
  BY <1>3 DEF Outside, Structs
<1>5. Usable(stack) /\ PopFits(v) /\ stack' = Rehashed(p) /\ popped' = DECREASE(v).data[DECREASE(v).size]
  BY <1>1, <1>4 DEF Trusted
<1>6. /\ p \in Structs /\ SameFrame(v, p) /\ p.capacity > 0 /\ Len(p.data) = p.capacity
  BY <1>3, <1>5, PoppedHolds
<1>7. SameFrame(v, Rehashed(p)) /\ Rehashed(p).size = p.size /\ Rehashed(p).data = p.data
  BY <1>3, <1>6, HashedAgain
<1>8. IF build.debug /\ build.hash THEN ~v.corrupted ELSE hit = {}
  BY <1>1, <1>5, <1>7 DEF Trusted, SameFrame
<1>9. Trusted /\ Within(v) /\ Items(v) = Items(asLeft) /\ v.size > 0
  BY <1>1, <1>5, <1>8, TrustKept
<1>10. /\ Items(p) = SubSeq(Items(v), 1, Len(Items(v)) - 1)
       /\ DECREASE(v).data[DECREASE(v).size] = Items(v)[Len(Items(v))]
       /\ Items(v) # <<>>
  BY <1>3, <1>9, ItemsPopped
<1>11. Items(asLeft') = Items(p)
  BY <1>1, <1>5, <1>7 DEF Items
<1> QED
  BY <1>5, <1>9, <1>10, <1>11

\* A verification that leaves a stack to be trusted changes nothing of it.
LEMMA VerificateImplements ==
    ASSUME IInv, Verificate, Trusted'
    PROVE  Trusted /\ Items(asLeft') = Items(asLeft) /\ popped' = popped
<1> DEFINE r == StackVerificator(stack)
<1>1. /\ stack.state = "live" /\ UNCHANGED <<build, hit>> /\ asLeft' = stack' /\ popped' = popped /\ stack \in Structs
      /\ IF build.hash => Readable(stack) THEN stack' = r ELSE stack' = Outside(stack)
  BY DEF Verificate, Leave, IInv
<1>2. Outside(stack).state = "outside"
  BY <1>1 DEF Outside, Structs
<1>3. (build.hash => Readable(stack)) /\ stack' = r
  BY <1>1, <1>2 DEF Trusted
<1>4. SameContents(stack, r) /\ Items(r) = Items(stack)
  BY <1>1, VerificatorHolds DEF SameContents, Items
<1> HIDE DEF r
<1>5. CASE build.debug /\ build.hash
  <2>1. Usable(stack) /\ Verified(stack) = r /\ ~r.corrupted
    BY <1>1, <1>3, <1>5 DEF Trusted, Usable, Verified, r
  <2>2. Trusted /\ Items(r) = Items(asLeft)
    BY <1>1, <1>5, <2>1, TrustKept
  <2> QED
    BY <1>1, <1>3, <2>2
<1>6. CASE ~(build.debug /\ build.hash)
  <2>1. hit = {}
    BY <1>1, <1>6 DEF Trusted
  <2>2. stack = asLeft
    BY <1>1, <2>1, StackHolds
  <2> QED
    BY <1>1, <1>3, <1>4, <1>6, <2>1, <2>2 DEF Trusted
<1> QED
  BY <1>5, <1>6

\* A stray byte takes trust away at once in a build that does not look, and does not make any.
LEMMA StrayImplements ==
    ASSUME IInv, Stray, Trusted'
    PROVE  Trusted /\ asLeft' = asLeft /\ popped' = popped
<1>1. build' = build /\ asLeft' = asLeft /\ popped' = popped /\ hit' # {}
  BY DEF Stray
<1> QED
  BY <1>1 DEF Trusted

\* What the abstract store sees of a step.
LEMMA StepImplements ==
    ASSUME IInv, [Next]_vars
    PROVE  [Lifo!Next]_<<IF Trusted THEN Items(asLeft) ELSE <<>>, IF Trusted THEN popped ELSE None, ~Trusted>>
<1>1. ASSUME Trusted, ~Trusted' PROVE Lifo!Lose
  BY <1>1 DEF Lifo!Lose
<1>2. ASSUME ~Trusted, ~Trusted'
      PROVE  UNCHANGED <<IF Trusted THEN Items(asLeft) ELSE <<>>, IF Trusted THEN popped ELSE None, ~Trusted>>
  BY <1>2
<1>3. ASSUME NEW el \in Elements, StackPush(el), Trusted' PROVE Lifo!Push(el)
  <2>1. Trusted /\ Items(asLeft') = Append(Items(asLeft), el) /\ popped' = popped
    BY <1>3, PushImplements
  <2> QED
    BY <1>3, <2>1 DEF Lifo!Push, Items
<1>4. ASSUME StackPop, Trusted' PROVE Lifo!Pop
  <2>1. /\ Trusted /\ Items(asLeft) # <<>>
        /\ popped' = Items(asLeft)[Len(Items(asLeft))]
        /\ Items(asLeft') = SubSeq(Items(asLeft), 1, Len(Items(asLeft)) - 1)
    BY <1>4, PopImplements
  <2> QED
    BY <1>4, <2>1 DEF Lifo!Pop, Items
<1>5. ASSUME Verificate \/ Stray \/ UNCHANGED vars, Trusted'
      PROVE  UNCHANGED <<IF Trusted THEN Items(asLeft) ELSE <<>>, IF Trusted THEN popped ELSE None, ~Trusted>>
  <2>1. Trusted /\ Items(asLeft') = Items(asLeft) /\ popped' = popped
    BY <1>5, VerificateImplements, StrayImplements DEF vars, Trusted
  <2> QED
    BY <1>5, <2>1 DEF Items
<1>6. ASSUME StackDtor PROVE ~Trusted'
  <2>1. stack \in Structs
    BY DEF IInv
  <2>2. CASE stack.pointer # Whole
    <3>1. asLeft' = Outside(stack) /\ Outside(stack).state = "outside"
      BY <1>6, <2>1, <2>2 DEF StackDtor, Leave, Outside, Structs
    <3> QED
      BY <3>1 DEF Trusted
  <2>3. CASE stack.pointer = Whole
    <3>1. asLeft' = [stack EXCEPT !.state = "freed", !.size = -1, !.capacity = -1, !.data = <<>>, !.pointer = "zero",
                                  !.hash = NoHash, !.subhash = <<>>, !.left = "zero", !.right = "zero", !.corrupted = FALSE]
      BY <1>6, <2>3 DEF StackDtor, Leave
    <3>2. asLeft'.state = "freed"
      BY <2>1, <3>1, Zenon DEF Structs
    <3> QED
      BY <3>2 DEF Trusted
  <2> QED
    BY <2>2, <2>3
<1>7. CASE ~Trusted'
  BY <1>1, <1>2, <1>7 DEF Lifo!Next
<1>8. CASE Trusted'
  BY <1>3, <1>4, <1>5, <1>6, <1>8 DEF Next, Lifo!Next
<1> QED
  BY <1>7, <1>8

\* As long as the stack can be trusted (nothing was written into it, or, with DEBUG and HASH, it
\* was never called corrupted), it gives its values back in the opposite order, through every
\* resizing and in every build: the byte the hashes leave out is never one of a value.
THEOREM ImplementsLifoHolds == Spec => ImplementsLifo
<1>1. Init => Lifo!Init
  <2> SUFFICES ASSUME Init PROVE Lifo!Init
    OBVIOUS
  <2>1. IInv /\ hit = {} /\ popped = None /\ asLeft = stack
    BY InitIInv DEF Init
  <2>2. PICK capacity \in Capacities : stack = Rehashed(New(capacity))
    BY DEF Init
  <2>3. stack.size = 0 /\ stack.state = "live"
    BY <2>2 DEF Rehashed, DoRehash, New
  <2>4. SubSeq(asLeft.data, 1, asLeft.size) = <<>>
    BY <2>1, <2>3, SubSeqEmpty
  <2>5. Clean(asLeft)
    BY <2>1, <2>3 DEF IInv, LeftInOrder
  <2>6. Trusted
    BY <2>1, <2>3, <2>5 DEF Trusted, Clean
  <2> QED
    BY <2>1, <2>4, <2>6 DEF Lifo!Init
<1>2. IInv /\ [Next]_vars
        => [Lifo!Next]_<<IF Trusted THEN SubSeq(asLeft.data, 1, asLeft.size) ELSE <<>>,
                         IF Trusted THEN popped ELSE None, ~Trusted>>
  BY StepImplements DEF Items
<1> QED
  BY <1>1, <1>2, IInvHolds, PTL DEF Spec, ImplementsLifo, Lifo!Spec
=============================================================================
