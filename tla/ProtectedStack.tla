--------------------------- MODULE ProtectedStack ---------------------------
(***************************************************************************)
(* The stack of Derivative-Calculator (and, with its resizing switched     *)
(* off, of ProgrammingLanguage), in every build: with or without DEBUG,    *)
(* HASH and CANARY.  Between two operations something outside may write a  *)
(* byte of it, which is what the protection is for.                        *)
(***************************************************************************)
EXTENDS Integers, Sequences

CONSTANTS
    Elements, None,
    Low(_),         \* all bytes of a cell but the last
    Capacities,     \* what StackCtor is called with
    MaxSize,        \* how much is pushed
    StraySizes,     \* what a stray byte can make of the size or of the capacity
    MaxFaults       \* how often something writes into the stack

ASSUME StackAssumption ==
    /\ Capacities \subseteq Nat \ {0} /\ MaxSize \in Nat /\ MaxFaults \in Nat /\ StraySizes \subseteq Int
    /\ None \notin Elements /\ Elements \cap {"zero", "poison"} = {}

VARIABLES
    build,      \* which of DEBUG, HASH and CANARY are defined
    stack,
    errors,     \* the codes of the last verification
    popped,     \* what the last StackPop returned
    faults,     \* how often something has written into the stack
    hit,        \* the parts of the stack it has written into
    asLeft      \* the stack as the last operation left it

vars == <<build, stack, errors, popped, faults, hit, asLeft>>

Builds == [debug : BOOLEAN, hash : BOOLEAN, canary : BOOLEAN]
Whole == "whole"
MEMORY_MULTIPLIER == 2
RESIZE_OFFSET == 2

-----------------------------------------------------------------------------
(* Hashes: HashFunc leaves out the last byte of what it is given, the      *)
(* structure (that of the right canary) and the array.  Any other byte     *)
(* counts: SALT is prime to 5, so a change of one byte changes the sum     *)
(* modulo 5^8.  The pointer is left out: a hash after it changed is never  *)
(* compared.                                                               *)

NoHash == <<>>
Mark(canary) == IF canary = "last byte" THEN Whole ELSE canary
StructHash(s) == <<s.left, s.corrupted, s.size, s.capacity, Mark(s.right)>>
DataHash(s) == [i \in 1..s.capacity |-> IF i = s.capacity THEN Low(s.data[i]) ELSE s.data[i]]
DoRehash(s) == [s EXCEPT !.hash = StructHash(s), !.subhash = DataHash(s)]
\* Mutant: the data is not hashed again.
RehashStruct(s) == IF build.hash THEN [s EXCEPT !.hash = StructHash(s)] ELSE s
Rehashed(s) == IF build.hash THEN DoRehash(s) ELSE s

\* The canaries are looked at first; a broken one changes what is hashed.
CanariesWhole(s) == s.left = Whole /\ s.right = Whole
AfterCanaries(s) == IF build.canary /\ ~CanariesWhole(s) THEN [s EXCEPT !.corrupted = TRUE] ELSE s
BadHash(s) == build.hash /\ s.hash # StructHash(s)
BadSubhash(s) == build.hash /\ s.subhash # DataHash(s)
StackVerificator(s) ==
    LET c == AfterCanaries(s) IN [c EXCEPT !.corrupted = @ \/ BadHash(c) \/ BadSubhash(c)]
ERR_CODES ==
    {"INVALID_SIZE", "N_ENOUGH_SIZE", "INVALID_CAPACITY", "STACK_MEMORY_CORRUPTION", "STACK_DATA_CORRUPTION"}
ErrCodes(s) ==
    {e \in ERR_CODES :
        \/ e = "INVALID_SIZE" /\ s.size <= 0
        \/ e = "N_ENOUGH_SIZE" /\ s.capacity < s.size
        \/ e = "INVALID_CAPACITY" /\ (s.capacity <= 0 \/ (build.canary /\ ~CanariesWhole(s)))
        \/ e = "STACK_MEMORY_CORRUPTION" /\ BadHash(AfterCanaries(s))
        \/ e = "STACK_DATA_CORRUPTION" /\ BadSubhash(s)}

-----------------------------------------------------------------------------
(* Resizing.                                                               *)

\* Mutant: the stack grows one push too late.
GrowsLate(s) == s.capacity - s.size < 0
Grows(s) == s.capacity - s.size <= 1
Shrinks(s) == (s.capacity \div MEMORY_MULTIPLIER) - s.size >= RESIZE_OFFSET
recalloc(data, capacity) == [i \in 1..capacity |-> IF i <= Len(data) THEN data[i] ELSE "zero"]
\* Mutant: poison starts one cell too early.
PoisonTop(data, size) == [i \in 1..Len(data) |-> IF i < size THEN data[i] ELSE "poison"]
fill_array(data, size) == [i \in 1..Len(data) |-> IF i <= size THEN data[i] ELSE "poison"]
Resized(s, capacity) ==
    LET data == recalloc(s.data, capacity)
    IN Rehashed([s EXCEPT !.capacity = capacity, !.data = IF build.debug THEN fill_array(data, s.size) ELSE data])
INCREASE(s) == Resized(s, IF Grows(s) THEN s.capacity * MEMORY_MULTIPLIER ELSE s.capacity)
DECREASE(s) == Resized(s, IF Shrinks(s) THEN s.capacity \div MEMORY_MULTIPLIER ELSE s.capacity)

-----------------------------------------------------------------------------
(* Operations.  One that would read or write outside the array is          *)
(* undefined: the model follows the program no further.                    *)

New(capacity) ==
    [left |-> Whole, right |-> Whole, corrupted |-> FALSE, size |-> 0, capacity |-> capacity, state |-> "live",
     hash |-> NoHash, subhash |-> <<>>, pointer |-> Whole, data |-> [i \in 1..capacity |-> "zero"]]
\* StackCtor
Init ==
    /\ build \in Builds
    /\ \E capacity \in Capacities : stack = Rehashed(New(capacity))
    /\ errors = {} /\ popped = None /\ faults = 0 /\ hit = {} /\ asLeft = stack

Outside(s) == [s EXCEPT !.state = "outside"]
Leave(s) == stack' = s /\ asLeft' = s

\* Hash and dump read as many cells as the capacity says; _msize, realloc and free take the pointer.
Readable(s) == s.pointer = Whole /\ s.capacity <= Len(s.data)
Usable(s) == IF build.debug THEN Readable(s) ELSE s.pointer = Whole

\* Mutant: verification comes after resizing, which hashes again.
VerifiedLate(s) == IF build.debug /\ Usable(s) THEN StackVerificator(Rehashed(s)) ELSE s
Verified(s) == IF build.debug /\ Usable(s) THEN StackVerificator(s) ELSE s
Verification == errors' = IF build.debug /\ Usable(stack) THEN ErrCodes(stack) ELSE errors

\* fill_array and the access start at the size, whatever it is.
StackPush(v) ==
    /\ stack.state = "live" /\ asLeft.size < MaxSize
    /\ LET verified == Verified(stack)
           s == INCREASE(verified)
       IN Leave(IF Usable(stack) /\ s.capacity > 0 /\ s.size \in 0 .. s.capacity - 1
                THEN Rehashed([s EXCEPT !.data[s.size + 1] = v, !.size = s.size + 1])
                ELSE Outside(verified))
    /\ Verification
    /\ UNCHANGED <<build, popped, faults, hit>>

\* It is for the caller not to pop from an empty stack.
StackPop ==
    /\ stack.state = "live" /\ asLeft.size > 0
    /\ LET verified == Verified(stack)
           s == DECREASE(verified)
       IN IF Usable(stack) /\ s.capacity > 0 /\ s.size \in 1..s.capacity
          THEN popped' = s.data[s.size] /\ Leave(Rehashed([s EXCEPT !.size = s.size - 1]))
          ELSE popped' = popped /\ Leave(Outside(verified))
    /\ Verification
    /\ UNCHANGED <<build, faults, hit>>

\* Called from outside.
Verificate ==
    /\ stack.state = "live"
    /\ IF build.hash => Readable(stack)
       THEN Leave(StackVerificator(stack)) /\ errors' = ErrCodes(stack)
       ELSE Leave(Outside(stack)) /\ errors' = errors
    /\ UNCHANGED <<build, popped, faults, hit>>

StackDtor ==
    /\ stack.state = "live"
    /\ Leave(IF stack.pointer # Whole THEN Outside(stack)
             ELSE [stack EXCEPT !.state = "freed", !.size = -1, !.capacity = -1, !.data = <<>>, !.pointer = "zero",
                                !.hash = NoHash, !.subhash = <<>>, !.left = "zero", !.right = "zero", !.corrupted = FALSE])
    /\ UNCHANGED <<build, errors, popped, faults, hit>>

\* t is s with a byte written into one part of it.
Parts == {"data", "size", "capacity", "pointer", "canary", "hash"}
Hit(part, s, t) ==
    \/ part = "data" /\ \E i \in 1..Len(s.data), v \in Elements : t = [s EXCEPT !.data[i] = v]
    \/ part = "size" /\ \E n \in StraySizes : t = [s EXCEPT !.size = n]
    \/ part = "capacity" /\ \E n \in StraySizes : t = [s EXCEPT !.capacity = n]
    \/ part = "pointer" /\ t = [s EXCEPT !.pointer = "broken"]
    \/ part = "canary" /\ build.canary /\ \/ t = [s EXCEPT !.left = "broken"]
                                          \/ \E m \in {"broken", "last byte"} : t = [s EXCEPT !.right = m]
    \/ part = "hash" /\ build.hash /\ (t = [s EXCEPT !.hash = <<"broken">>] \/ t = [s EXCEPT !.subhash = <<"broken">>])

\* A stray write: a byte, once between two operations.
Stray ==
    /\ stack.state = "live" /\ stack = asLeft /\ faults < MaxFaults /\ faults' = faults + 1
    /\ \E part \in Parts : Hit(part, stack, stack') /\ hit' = hit \cup {part}
    /\ stack' # stack
    /\ UNCHANGED <<build, errors, popped, asLeft>>

Next == (\E v \in Elements : StackPush(v)) \/ StackPop \/ Verificate \/ StackDtor \/ Stray
Spec == Init /\ [][Next]_vars

-----------------------------------------------------------------------------
(* Properties.                                                             *)

\* The caller has no reason to mistrust the stack: it was never called corrupted, or, in a build
\* that does not look, nothing has written into it.
Trusted ==
    asLeft.state = "live" /\ IF build.debug /\ build.hash THEN ~asLeft.corrupted ELSE hit = {}

\* A stack to be trusted gives values back in the opposite order, through every resizing; with
\* DEBUG and HASH that includes one with a byte changed that the hashes leave out.
Lifo == INSTANCE LifoStack WITH
    items <- IF Trusted THEN SubSeq(asLeft.data, 1, asLeft.size) ELSE <<>>,
    popped <- IF Trusted THEN popped ELSE None,
    lost <- ~Trusted
ImplementsLifo == Lifo!Spec

\* No operation leaves the array unless a stray byte hit the size, the capacity or the pointer.
\* With DEBUG and HASH a wrong size is called a corruption before it leads out of the array.
StaysInside ==
    stack.state = "outside" =>
        /\ hit \cap {"size", "capacity", "pointer"} # {}
        /\ (build.debug /\ build.hash /\ ~stack.corrupted) => hit \cap {"capacity", "pointer"} # {}

\* Left alone, no stack is ever called corrupted; the only complaint is about an empty one.
NoFalseAlarm ==
    (hit = {} /\ stack.state = "live") => ~stack.corrupted /\ errors \subseteq {"INVALID_SIZE"}

\* The stack is as the last operation left it, but for the last byte of the array.
ButForTheLastByte ==
    /\ stack = [asLeft EXCEPT !.data = stack.data]
    /\ \A i \in 1 .. stack.capacity - 1 : stack.data[i] = asLeft.data[i]
    /\ Low(stack.data[stack.capacity]) = Low(asLeft.data[stack.capacity])

\* With DEBUG and HASH the first operation after a stray write notices it, before it hashes
\* what it found, unless the write hit the last byte of the array or the operation cannot even
\* read the array; nothing makes the stack forget.
NoticedAtOnce ==
    [][(/\ build.debug /\ build.hash /\ faults' = faults /\ Readable(stack)
        /\ stack'.state # "freed" /\ (stack.corrupted \/ ~ButForTheLastByte)) => stack'.corrupted]_vars
=============================================================================
