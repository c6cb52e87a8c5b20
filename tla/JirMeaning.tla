----------------------------- MODULE JirMeaning ------------------------------
(***************************************************************************)
(* What a graph means: the calls, the traps and the result of running it   *)
(* on given arguments, following ir/docs/instructions.md.  It is the       *)
(* reference the passes are held against and shares nothing with them but  *)
(* the heap.                                                               *)
(***************************************************************************)
EXTENDS JirGraph, Bitwise

CONSTANTS
    \* How many blocks a run may enter and how deep calls may nest, and how many
    \* events of it are compared.
    Fuel, Events

Unknown == -1       \* the value of an input that was never computed

\* The result of a function the compiler has no graph of.
ExternalResult(args) == (FoldLeft(LAMBDA a, b : 2 * a + b, 0, args) + 1) % 2^Width

Signed(ty, v) == IF ty = "I64" THEN ToSigned(v) ELSE v

Holds(cc, ty, x, y) ==
    LET l == Signed(ty, x)
        r == Signed(ty, y)
    IN CASE cc = "EQ" -> l = r [] cc = "NE" -> l # r [] cc = "LT" -> l < r
         [] cc = "LE" -> l <= r [] cc = "GE" -> l >= r [] cc = "GT" -> l > r

Computed(I, v) ==
    CASE I.op = "ADD" -> (v[1] + v[2]) % 2^Width
      [] I.op = "SUB" -> (v[1] - v[2]) % 2^Width
      [] I.op = "AND" -> v[1] & v[2]
      [] I.op = "OR" -> v[1] | v[2]
      [] I.op = "SRA" -> (ToSigned(v[1]) \div 2^(v[2] % Width)) % 2^Width
      [] I.op = "NEG" -> (-v[1]) % 2^Width
      [] I.op = "NOT" -> 2^Width - 1 - v[1]
      [] I.op = "ADDI" -> (v[1] + I.imm) % 2^Width
      [] I.op = "SUBI" -> (v[1] - I.imm) % 2^Width
      [] I.op = "MOVE" -> v[1]

\* References are words here and the null reference is 0; a bounds check of an
\* array of length n and an index.
Traps(I, v) ==
    CASE I.op \in {"NULL_CHECK", "ZERO_CHECK"} -> v[1] = 0
      [] I.op = "NEGATIVE_CHECK" -> ToSigned(v[1]) < 0
      [] I.op = "BOUNDS_CHECK" -> v[2] >= v[1]
      [] OTHER -> FALSE

\* A run: the values so far, the trace of calls and how it ended ("" while running).
Start == [env |-> <<>>, trace |-> <<>>, end |-> ""]
\* A value is kept under its instruction until registers are allocated, then in its location.
Cell(h, i) ==
    LET live == h.gr[h.bb[h.ins[i].bb].gr].live
        loc == live[h.ins[i].lin].loc
    IN IF h.ins[i].lin = Null \/ h.ins[i].lin \notin DOMAIN live THEN i
       ELSE CASE loc.type = "REGISTER" -> -(2 * loc.id + 1)
              [] loc.type = "STACK" -> -(2 * loc.id + 2)
              [] OTHER -> i
Bind(env, i, v) == [j \in DOMAIN env \cup {i} |-> IF j = i THEN v ELSE env[j]]
Read(env, i) == IF i \in DOMAIN env THEN env[i] ELSE Unknown
Values(h, env, I) == [n \in DOMAIN I.inputs |-> Read(env, Cell(h, I.inputs[n]))]
Stop(r, how, v) == [r EXCEPT !.end = how, !.trace = Append(@, <<how, v>>)]

RECURSIVE RunBlock(_, _, _, _, _, _)
RECURSIVE Meaning(_, _, _, _)

Execute(h, args, fuel, r, i) ==
    LET I == h.ins[i]
        v == Values(h, r.env, I)
        unknown == \E n \in DOMAIN v : v[n] = Unknown
        called == Meaning(h, I.imm, v, fuel - 1)
        answer == IF called.end = "RET" THEN Last(called.trace)[2] ELSE 0
    IN CASE r.end # "" \/ I.op \in {"PHI", "CMP", "JCMP", "JMP"} -> r
         [] r.end = "" /\ I.op = "CONST" -> [r EXCEPT !.env = Bind(@, Cell(h, i), I.imm)]
         [] r.end = "" /\ I.op = "ARG" -> [r EXCEPT !.env = Bind(@, Cell(h, i), args[I.imm])]
         [] r.end = "" /\ I.op = "RET" -> Stop(r, "RET", v[1])
         [] r.end = "" /\ I.op = "RETVOID" -> Stop(r, "RETVOID", 0)
         [] r.end = "" /\ I.op \in Checks /\ ~unknown /\ Traps(I, v) -> Stop(r, "TRAP", 0)
         [] r.end = "" /\ I.op \in Checks /\ ~unknown /\ ~Traps(I, v) -> r
         [] r.end = "" /\ I.op = "CALL" /\ ~unknown /\ I.imm \notin DOMAIN h.gr ->
                [r EXCEPT !.env = Bind(@, Cell(h, i), ExternalResult(v)), !.trace = Append(@, <<"CALL", v>>)]
         [] r.end = "" /\ I.op = "CALL" /\ ~unknown /\ I.imm \in DOMAIN h.gr ->
                IF fuel = 0 \/ called.end \notin {"RET", "RETVOID"} THEN Stop(r, "STUCK", 0)
                ELSE [r EXCEPT !.env = Bind(@, Cell(h, i), answer), !.trace = @ \o Front(called.trace)]
         [] r.end = "" /\ I.op \in Checks \cup {"CALL"} /\ unknown -> Stop(r, "UNKNOWN", 0)
         [] OTHER -> [r EXCEPT !.env = Bind(@, Cell(h, i), IF unknown THEN Unknown ELSE Computed(I, v))]

\* The phis of a block take their values at once, from the block control comes from.
EnterBlock(h, r, from, b) ==
    LET phis == Range(IteratePhi(h, b))
        taken(p) == LET n == PosOf(h.ins[p].srcs, from)
                    IN IF n = 0 THEN Unknown ELSE Read(r.env, Cell(h, h.ins[p].inputs[n]))
        into(c) == {p \in phis : Cell(h, p) = c}
    IN [r EXCEPT !.env = [c \in DOMAIN @ \cup {Cell(h, p) : p \in phis} |->
                            IF into(c) = {} THEN @[c] ELSE taken(CHOOSE p \in into(c) : TRUE)]]

\* What stands behind a jump is not executed.
RunBlock(h, args, fuel, r, from, b) ==
    LET all == Iterate(h, b)
        jmp == SelectInSeq(all, LAMBDA i : h.ins[i].op = "JMP")
        s == IF jmp = 0 THEN all ELSE SubSeq(all, 1, jmp)
        done == FoldLeft(LAMBDA acc, i : Execute(h, args, fuel, acc, i), EnterBlock(h, r, from, b), s)
        succs == h.bb[b].succs
        jumps == s # <<>> /\ h.ins[Last(s)].op = "JCMP"
        cmp == h.ins[s[Len(s) - 1]]
        v == Values(h, done.env, cmp)
        next == IF ~jumps \/ Holds(cmp.cc, cmp.ty, v[1], v[2]) THEN succs[1] ELSE succs[2]
    IN IF done.end # "" THEN done
       ELSE IF fuel = 0 \/ succs = <<>> \/ (jumps /\ (Len(s) < 2 \/ Unknown \in Range(v)))
            THEN Stop(done, "STUCK", 0)
       ELSE RunBlock(h, args, fuel - 1, done, b, next)

Meaning(h, k, args, fuel) == RunBlock(h, args, fuel, Start, Null, h.gr[k].first)

\* What a caller sees of a run, or of the beginning of an endless one.
Observed(h, k, args) ==
    LET t == Meaning(h, k, args, Fuel).trace IN SubSeq(t, 1, IF Len(t) < Events THEN Len(t) ELSE Events)
=============================================================================
