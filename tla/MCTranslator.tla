---------------------------- MODULE MCTranslator ----------------------------
EXTENDS Translator, FiniteSetsExt

CONSTANTS Fuel, MaxDepth, MaxOut, FoldLen, FlowLen

(***************************************************************************)
(* Doubles are multiples of 1/2 between -4 and 7/2, kept as twice their    *)
(* value; results wrap around.                                             *)
(***************************************************************************)
MCNumber == -8..7
Wrap(n)  == ((n + 8) % 16) - 8
Halve(n) == IF n >= 0 THEN n \div 2 ELSE -((-n) \div 2)

MCTrunc(n) == Wrap(2 * Halve(n))
MCRound(n) == IF n % 4 = 3 THEN Wrap(n + 1) ELSE IF n % 4 = 1 THEN n - 1 ELSE n
MCShown(n) == n
MCPrintfShows(n) == MCRound(n)
MCScanfReads(n) == IF n < 0 THEN -6 ELSE 2 * (n \div 2)     \* '-' lies 3 before '0'
MCFunc(op, n) == Wrap(n - 2)
MCArith(op, a, b) ==
    Wrap(CASE op = "add" -> a + b
           [] op = "sub" -> a - b
           [] op = "mul" -> Halve(a * b)
           [] op = "div" -> IF b <= 0 THEN 0 ELSE (2 * a) \div b)

MCAddresses == {0, 2}

----------------------------------------------------------------------------
(* Programs: a jump names the index of the command it goes to. *)
C(op)          == [op |-> op, mode |-> "none", reg |-> 1, value |-> 0, at |-> 0]
J(op, k)       == [C(op) EXCEPT !.value = k]
P(op, mode, n) == [C(op) EXCEPT !.mode = mode, !.value = n]

Assemble(p) ==
    LET at[k \in 1..Len(p)] == IF k = 1 THEN ServiceDataLen ELSE at[k - 1] + Size(p[k - 1].op)
    IN  [k \in 1..Len(p) |->
            [p[k] EXCEPT !.at = at[k],
                         !.value = IF p[k].op \notin JumpOps THEN @
                                   ELSE IF @ \in 1..Len(p) THEN at[@] ELSE -1]]

Seqs(pool, n) == UNION {[1..m -> pool] : m \in 0..n}

\* Commands that fold and merge, on a whole number and a half.
FoldPool == {P("push", "imm", 4), P("push", "imm", 1), P("push", "reg", 0),
             P("pop", "reg", 0), C("sub")}

\* Loops, calls and conditions.
FlowPool == {P("push", "imm", 2), P("push", "reg", 0), P("pop", "reg", 0), C("ret"), C("out"),
             J("jmp", 1), J("jmp", 4), J("ja", 3), J("jne", 1), J("je", 5), J("call", 4)}

Hlt == C("hlt")

----------------------------------------------------------------------------
(* The programs that mean something on the stack processor. *)
\* Its states up to where it stops, at most Fuel commands.
Trace(p, in) ==
    LET t[n \in 0..Fuel] ==
            IF n = 0 THEN <<Started(in)>>
            ELSE LET s == t[n - 1] IN
                 IF s[Len(s)].status = "running" THEN Append(s, After(p, s[Len(s)])) ELSE s
    IN  t[Fuel]

Good(p, s) == Followed(p, s) /\ Len(s.stack) <= MaxDepth /\ Len(s.out) <= MaxOut

Same(s, t) == /\ <<s.ip, s.stack, s.in, s.out>> = <<t.ip, t.stack, t.in, t.out>>
              /\ \A r \in Registers : s.regs[r] = t.regs[r]
              /\ \A a \in Addresses : s.ram[a] = t.ram[a]

\* MeansSomething, with bounded stack and output: it halts or comes back to a state it was in.
MeansSomethingSoon(p, in) ==
    LET t == Trace(p, in)
        last == t[Len(t)]
    IN  /\ \A n \in 1..Len(t) : Good(p, t[n])
        /\ last.status = "running" => \E n \in 1..Fuel : Same(t[n], last)

Halting(p, in) == LET t == Trace(p, in) IN t[Len(t)].status = "halted"

Jobs(ps, safe(_)) ==
    {job \in {<<Assemble(p), <<2, 6>>>> : p \in ps} : safe(job[1]) /\ MeansSomethingSoon(job[1], job[2])}

FoldPrograms == {Append(p, Hlt) : p \in Seqs(FoldPool, FoldLen)}
FlowPrograms == {Append(p, Hlt) : p \in Seqs(FlowPool, FlowLen)}

\* Input, square root and memory; a function with its parameter in memory that keeps its
\* return address in a register; a loop that counts down a word of memory.
Longer == {
    <<C("in"), P("pop", "imm_ram", 2), P("push", "imm", 2), P("pop", "reg", 0), P("push", "reg_ram", 0),
      C("sqr"), P("push", "imm", 0), P("pop", "reg", 0), P("pop", "imm_reg_ram", 2), C("in"), P("pop", "reg_ram", 0),
      P("push", "imm_reg_ram", 3), P("push", "imm_ram", 0), C("mul"), Hlt>>,
    <<P("push", "imm", 6), J("call", 4), Hlt, [P("pop", "reg", 0) EXCEPT !.reg = 2], P("pop", "imm_ram", 0),
      P("push", "imm", 2), P("push", "imm", 2), C("add"), P("push", "imm_ram", 0), C("mul"), C("out"),
      [P("push", "reg", 0) EXCEPT !.reg = 2], C("ret")>>,
    <<P("push", "imm", 4), P("pop", "imm_ram", 0), P("push", "imm", 2), P("push", "imm_ram", 0), C("sub"),
      P("pop", "imm_ram", 0), P("push", "imm", 0), P("push", "imm_ram", 0), J("jne", 3),
      P("push", "imm", 4), P("pop", "reg", 0), P("push", "reg", 0), C("out"), Hlt>> }

MCPrograms == Jobs(FoldPrograms \cup FlowPrograms \cup Longer, SafeProgram)

\* They are programs the theorem on ImplementsProcessor is about.
ASSUME ProgramsAreTranslatable ==
    /\ LeftFirst
    /\ \A job \in Programs : Assembled(job[1]) /\ SafeProgram(job[1]) /\ MeansSomethingSoon(job[1], job[2])

----------------------------------------------------------------------------
\* A guest program that halts still halts translated.
HaltsToo == Halting(program, input) ~> (phase = "run" /\ cpu.status = "halted")

=============================================================================
